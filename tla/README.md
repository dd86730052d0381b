# A TLA+ verification of the Stelyph PDS

The repository is a Personal Data Server for the AT Protocol in three crates:
`rust-core` (repository, storage, OAuth and an embeddable server), `rust-pds`
(the server binary over SQLite) and `rust-worker` (the same service on
Cloudflare Durable Objects). This directory models the parts whose correctness
depends on the order in which things happen. `PROJECT.json` lists every
component, run, mapped definition, hazard, finding and theorem.

## The parts and how they interact

| part | state | operations | interacts with |
|---|---|---|---|
| repository write path (`repo/writer.rs`, `storage/sqlite/repo.rs`) | per-DID lock, writer connection and its queue, `blocks`, `repo_seq`, `repo_roots` | load root, build commit, commit transaction, broadcast | firehose, record endpoints |
| firehose (`firehose/subscribe.rs`, `server/firehose_ws.rs`) | broadcast channel, per-connection position and last seq | connect, cursor check, backfill pages, live events, lag recovery | write path |
| record and blob endpoints of the three servers (`xrpc/repo.rs`, `server/repo.rs`, worker `handlers.rs`) | none of their own, a key cache | create, put, delete, applyWrites, reads, listings, export, upload | write path, storage |
| storage traits (`storage/traits.rs`) and their three backends | the tables | every call of the traits | everything |
| OAuth server (`xrpc/oauth/`, `storage/sqlite/oauth.rs`) | pushed requests, codes, refresh tokens | PAR, authorize, two grants, revoke | accounts |
| sessions, DPoP, service tokens, proxy, preferences, handles of the three servers | token clocks, nonce windows, replay table, caches, preference rows | see `Access` | accounts, registry, PLC directory, other services |
| server accounts (`xrpc/server.rs`, `storage/sqlite/account.rs`, `cmd/admin.rs`) | accounts, keys, invites, PLC ledger | createAccount, admin commands | PLC directory |
| Worker signup (`lib.rs`, `registry.rs`, `handlers.rs`) | claims, invites, account rows, PLC ledger | claim, provision, bind, release, mint, delete | three objects and PLC |
| Worker firehose (`sequencer.rs`, `durable.rs`) | counter, log, sockets | commit, enqueue, the operator's inject, subscribe | account objects, operator |
| Worker account object (`handlers.rs`, `store.rs`) | account tables, devices, sign-in requests, R2 | commit, upload, sign in, delete | registry, R2 |

What is hard in this code: handlers run concurrently and are dropped when a
client goes away, while the database call they queued still runs; commit and
broadcast are two steps; a subscriber joins log and live events without a lock;
the steps of a grant, a registration or an applyWrites are separate
transactions; lookups are made before the lock is taken; sessions have no state
that could be revoked; on Workers there are no transactions at all, calls
between objects get lost after their effect, and one signup spans three objects
and a public ledger; and three storage backends must behave as one.

## Modules

| module | models | checked against |
|---|---|---|
| `RepoTree` | what a batch of writes does to one repository | |
| `CommitLog` | abstract: each request is one atomic commit | |
| `RepoWriter` | the write path: tasks, lock, connection thread, drops, crash | refines `CommitLog` |
| `SubscribeRepos` | any number of `subscribeRepos` connections over a growing log | |
| `RepoFirehose` | both in one process | refines `SubscribeRepos` |
| `RepoReads` | reads, pages and export as functions of the root they loaded | |
| `RecordTasks`, `DesktopRecords`, `EmbeddedRecords`, `WorkerRecords` | the record and blob endpoints of the three servers, step by step | |
| `Records` | clients against each of the three | `RepoReads`, histories of the repository |
| `StorageTypes`, `SqlTables` | rows, calls and answers of the storage traits; tables with constraints | |
| `MemoryStore`, `SqliteStore`, `DoStore` | each call of the traits, on each backend | each other |
| `Conformance` | the assertions of the conformance suite, as predicates on answers | |
| `StorageBackends` | the same calls on the three backends at once | |
| `OAuthGrants` | PAR, consent, grants, rotation, reuse, revocation | |
| `AccessTasks`, `DpopProofs` | tokens, proofs, nonces, the proxy's targets, clock, restarts | |
| `DesktopAccess`, `EmbeddedAccess`, `WorkerAccess` | the authenticated endpoints of the three servers, the Worker's routing | |
| `Access` | clients against each of the three (`Serve` picks the server of the scene) | |
| `ServerAccounts` | `create_account_inner`, invites, admin commands | |
| `WorkerSignup` | createAccount over registry, account object and PLC | |
| `WorkerFirehose` | account objects, sequencer object, sockets | |
| `AccountObject` | one account object: storage, device sign-in, deletion | |
| `RepoWriter_proofs`, `SubscribeRepos_proofs`, `RepoFirehose_proofs`, `OAuthGrants_proofs`, `ServerAccounts_proofs`, `WorkerSignup_proofs`, `WorkerObjects_proofs`, `Access_proofs` | the theorems | |

The `MC*` modules add inputs, scenes and symmetry sets; `StorageBackends` needs none. A scene (`env`, `mix`,
`scene`) is chosen in the initial state and says which requests and which kinds
of trouble occur together, so that one run covers several situations.

How state corresponds to code: a table is a variable of its name (a function
from the primary key, or a set of rows), a request is a program counter whose
labels name the next suspension point, and a step runs from one suspension point
to the next. On SQLite a suspension point is every `.await` on the store. On
Workers SQL never suspends, so a handler is one step except at calls to other
objects, the PLC directory, R2 and upstream services; there a failing statement
keeps the statements before it. Contents (CIDs, signatures, tokens, encodings)
are model values: only whether two of them are equal matters. Passwords and
signatures are compared, not computed. `Records` takes a commit as one step,
which `RepoWriter` and `AccountObject` justify. `Access` extends the modules of
its three servers; a handler that all of them have keeps its name on the server
binary and is `embedded_...` or `worker_...` on the others.

## What the runs show

| run | question | answer |
|---|---|---|
| `repo_writer` | do concurrent writes, drops, failing transactions and a crash fork or tear a repository; is every commit broadcast, in order; does every request end? | no, each write is atomic; yes, but for a request that is dropped; yes |
| `subscribe_repos` | is a stream ordered, gapless, complete from its cursor, and does it arrive? | yes, given broadcasts in seq order |
| `firehose_one_did` | does one DID's writer give `SubscribeRepos` the log it assumes? | yes |
| `firehose_two_dids` | and two DIDs? | no: broadcasts overtake each other and an event is dropped |
| `records` | is every answer of the record endpoints true at some moment of the request; is an acknowledged write in the history, once; what does a failed batch leave; do pages miss or repeat a record? | yes, but for an embedded `describeRepo` that cannot load the root; yes; a prefix (on Workers all or nothing); no |
| `storage_backends` | can a caller tell the three backends apart, now or by any later read; is anything single-use spent twice; does the conformance suite pass on the backend that no test runs it on? | only by SQLite's variant of a constraint error; no; yes |
| `oauth_grants` | does every token stay within what was consented to, with one live token per session, one successor per token, and ended sessions ended? | yes |
| `access` | does a DPoP proof authorize one request at most, and is a client that follows the rules never refused; do tokens and names go to active accounts only; does a forwarded request reach the service it addressed; are service tokens short; do preferences read back? | yes, each under the named faults |
| `server_accounts` | are invites conserved, at most one account free, created accounts complete, DIDs registered first? | yes |
| `worker_signup` | one account per object, no signup beyond the uses granted, invites conserved, labels kept, failed signups free? | yes, each under the named faults: a failing statement may lose a use, a deletion frees one |
| `worker_firehose` | is every stream the log from its cursor, each commit of an account once, and does it arrive, whatever the operator pushes? | yes; arrival when no call is lost and no statement fails |
| `account_object` | sessions only from the owner's devices and in time, metadata never without bytes, decisions final? | yes |

`firehose_two_dids` checks one sentence of the repository's own comments;
`findings` in `PROJECT.json` quotes it. Every property of a passing run has a
mutant: an operator next to the original (`Lock_Unguarded`,
`nonce_is_valid_Current`, ...) that changes it as a plausible bug would, under
which TLC finds the property violated.

### Observations

Some further sentences of the repository do not hold. The invariants are kept in
their modules; adding the line to the run's `.cfg` makes TLC print the trace.

- `INVARIANT RevokedEndsSession` (`MCOAuthGrants.cfg`): a refresh that has
  consumed its token stores the successor after a revocation has deleted the
  chain (`token.rs:279`; `revoke.rs:3` says revoking "ends the whole session").
- `INVARIANT NoSecondFreeAccount` (`MCServerAccounts.cfg`): a first-account race
  is detected after the row is committed, and the row stays (`server.rs:460`;
  `:365` says "rather than inserting a second account without an invite").
- `INVARIANT HeldWhileOnLedger` (`MCWorkerSignup.cfg`): a provisioning call whose
  answer is lost releases the label although the DID exists (`lib.rs:949`;
  `:879` says why that must not happen).
- `INVARIANT EveryCommitIsBroadcast` (`MCRepoWriter.cfg`): a handler that is dropped
  while its transaction is queued commits and never broadcasts; live subscribers do not
  see the commit until they reconnect (`writer.rs:120` says that `apply_one` will "publish
  the #commit frame to the firehose"). `CommittedIsPublished` names this exception.
- `INVARIANT BatchIsWhole` (`MCRecords.cfg`): a batch that fails half-way leaves its
  first writes on the server binary and on the embedded server (`writer.rs:389` says
  what `applyWrites` promises: "the batch lands whole or not at all";
  `xrpc/repo.rs:217` that "the only deviation from the lexicon is that a batch produces
  N commits rather than one"). The Worker keeps the promise. `BatchIsPrefix` says what
  the two others leave.
- `INVARIANT DescribeIsCurrent` (`MCRecords.cfg`): the embedded `describeRepo` answers
  that a repository has no collections when it cannot load the root, where the server
  binary reports the error (`server/repo.rs:3` says it mirrors the binary's handlers).
  `AnswersAreCurrent` names this exception.
- `INVARIANT ConstraintIsNeutral` (`StorageBackends.cfg`): a duplicate row is `Constraint`
  in memory and on the Durable Object, `AsyncSqlite` on SQLite (`storage/mod.rs:49` calls
  it "Backend-neutral so callers can distinguish" it). `Indistinguishable` compares the
  variants of the first two, and of all three whether a call succeeds and what it returns.
- `INVARIANT UsesBalance` (`MCWorkerSignup.cfg`): there are no transactions, so a
  statement that fails after the burn loses the use, and one that fails after the refund
  leaves a label reserved that has given its use back (`registry.rs:353` says that the
  two "have to be one step").
- `INVARIANT RevokedIsWithdrawn` (`MCWorkerSignup.cfg`): a signup that fails after a code
  was revoked gives the code a use again (`lib.rs:702` says that setting the uses to zero
  "withdraws an invite that has already been handed out").
- `INVARIANT GapFree` (`MCWorkerFirehose.cfg`): a call that fails after the counter has
  moved leaves a seq unused (`sequencer.rs:165` says "total and gap-free").
- `INVARIANT NeverInThePast` (`MCAccess.cfg`): the embedded `getServiceAuth` fixes the
  expiry before it loads the key, so a slow load gives out a token that has ended
  (`server/appview.rs:295` says "never in the past").
- `INVARIANT StartsEmpty` (`MCAccountObject.cfg`): no statement of `delete_account_data`
  clears the blocks (`store.rs:553` says they are cleared "so a reused hostname starts
  genuinely empty").

Seen while modelling, and not stated by any comment to be otherwise: a stale
nonce, or a failing replay table, is answered `InvalidToken` at resource
endpoints, without the nonce to retry with; nothing deletes rows of
`oauth_dpop_jti`, which is also why a proof dated ahead of the clock cannot
outlive its row; on Workers a failed registry lookup sends preferences to the
shared host's object, and `getSession` answers for the token of a deleted
account; a deletion whose wipe stops at a failing statement leaves devices enrolled,
and they sign in to the next account of the hostname; a registration that ends between
the account row and its keys leaves an account that cannot write, and nothing repairs
it; the server binary accepts `record: null`, the other two refuse it; `rev` is the
wall clock without a guard that it increases; `import-keys` replaces a key that
a running server has cached.

### Bounds

The write path has three tasks on two DIDs: two that compete and one that
interferes or follows. The subscription has a log of four rows, pages of two and
a channel of one, so that a page boundary, a lag, a second lag and a reconnect
all happen. The record endpoints have three requests on six keys of two
collections, pages of two, and four seeds between an empty and a full
collection; batches have two writes, so that a first succeeds and a second
fails. The storage calls run domain by domain (tables that never meet are not
multiplied) with two rows per table, three seqs, and a clock that passes every
expiry. OAuth has two concurrent handlers and three tokens, a chain with one
rotation and a reuse. Access has two accounts and up to three requests; the
clock runs to one tick past every lifetime and through two nonce windows, the
word size is 16 so that a negative expiry wraps, and two outside events (an admin
command, a service that moves, a grant, a restart) fall anywhere. Server accounts
have three registrations, so that a first account, its rival and an invited one
meet, and an invite of up to two uses. Worker signup has three signups on two
labels, in four scenes: reliable, with lost calls and failing statements, and each of
lost calls and the two together with deletions. The Worker firehose has two writes, one
push by the operator and two relays that reconnect. The account object has two accounts one after the other, and time
for a request to expire before, at and after its decision. Symmetry is used in
safety runs only, over sets whose elements the module never tells apart.
Deadlock checking is off where every request of the instance may be over.

### Fairness

`RepoWriter`: weak fairness of each task, since tokio polls every woken task,
and of the connection thread, which serves its queue in order. Nothing is
assumed of clients, drops or crashes. `SubscribeRepos`: each connection's
handler, and the broadcast that follows a commit. `WorkerFirehose`: delivery of
an enqueue call and of socket messages, in the scene without lost calls. The
other modules state safety only.

## What is proved

For every set of DIDs, tasks, requests, subscribers, and every page size and
channel capacity, checked by TLAPS.

`RepoWriter_proofs`: `TypeCorrect`, `HistoryIsLinear`, `RootFollowsLog`,
`PublishedInOrder`, `CommitsArePublished` and `WritesAreAtomic` (the write path
implements `CommitLog`). None of the properties is inductive. The invariant adds: a task
between lock and unlock holds its DID's lock; the root such a task has loaded,
and the commit it has built, are current; a call in the queue belongs to the
task that waits for it or to one that was dropped, and no DID has two commit
calls pending; a dropped task's queued commit was built on the root that the
queue's order will find. The last part is what a dropped handler needs: its lock
is released while its transaction still waits, and only the FIFO order of the
connection keeps the next writer from loading too early. `CommitsArePublished` needs
one more layer (`PInv`): a task is stamped once, by the transaction it queued, and
every row of this process that is not in the channel is the row of a task that has
still to send it, publishes nothing, or was dropped.

`SubscribeRepos_proofs`: `TypeCorrect`, `Ordered`, `Gapless`,
`CompleteFromCursor`, `ResumeIsAccepted`. The invariant relates the channel to
the log (it is a run of consecutive rows up to the broadcast position) and each
connection to both: what it has not yet received from the channel or the
current page begins no later than the row after its last one.

`RepoFirehose_proofs`: `WriterIsTheEnvironment` (the server implements
`SubscribeRepos`), under `OneRepository`: one DID, requests that publish and that no client drops, no more tasks than rows the log
may hold. The premise is needed: `firehose_two_dids` shows what two DIDs do, and a
dropped request commits without a broadcast. The invariant says that one task is
inside the lock, that the queue has at most its call, and that the channel holds
every row of this process except the one that this task has committed and not yet
sent. `Gapless` and `CompleteFromCursor` carry over to this server through the
refinement; that last step is not a theorem of its own.

`OAuthGrants_proofs`: `OneLiveToken`, `TokensAreConsented`, `OverStaysOver`. A
grant takes two transactions: one uses up the code or the token, the next stores
the successor. The invariant counts the handler between the two as the holder of
what it redeemed: a session has one live token or one such handler, never two; a
secret has one successor or one such handler; and what the handler carries was
consented to, as every stored code and token was. The consent is traced from the
issued token to the first of its session, to the code it came from and to the
pushed request.

`ServerAccounts_proofs`: `InvitesAreConserved`, `FirstAccountOnly`,
`AnsweredIsComplete`. A request that goes on to store keys inserted the row of
its DID, so two such requests have two DIDs (no keys are overwritten), and the
row is there before a second request counts the rows (one free account).

`WorkerSignup_proofs`: `OneAccount`, `LabelsAreAccounts`, `UsesAreConserved`.
Without deletions, at most one request counts on a label, from its claim to its
success, and the claim stays as long as it does: only that request can release
it. A bound label is one of a request that succeeded. While no statement fails, the
uses of a code are counted over the claims that hold it. When statements do fail that
balance is lost, and a second count takes its place (`BudgetInv`): the uses that are
left, and the requests that hold a use and have not failed, are together no more than
what was granted. When nothing fails, claims and requests that count on them
correspond one to one.

`WorkerObjects_proofs` is about the two kinds of Durable Object. On `AccountObject`:
`SessionsAreTheOwners`, `DecisionsAreFinal`, `RefsHaveBytes`. R2 has the bytes of an
upload that is about to write metadata; a request id is handed out once, so what
expired stays expired; when no statement fails, every enrolled device was enrolled by
the account that is there. On `WorkerFirehose`, the instance `Firehose` of the module:
`StreamsAreTheLog` (its `StreamIsLog`) and `CommitsAreSequencedOnce` (its
`SequencedOnce`), for any accounts, writes, relays and number of connections. The
instance's own `ConstantsAssumption` is a hypothesis of both. `FirehoseInv` keeps the
rows in the order of their seqs with the counter ahead of them, so that every seq
divides the log into the rows up to it and the rows after it (`LogInv`); the last frame
a relay received is then a row whose seq divides the log right after what it received,
and the backlog it is sent is the rest. `StreamInv` carries this over a connection: what
was received and what is on the way are two runs of the log that follow each other.
`CommitInv` is about the rows an account's object put on the log: such a write has been
answered, so it is not enqueued again. The operator's rows are bound by nothing but their
place in the order.

`Access_proofs`: `AccessInvariant`, and from it `ProofAuthorizesOnce`,
`FreshProofsAreAccepted`, `SessionsAreEarnedAlways`, `ServiceTokensAreBoundAlways`
and `PreferencesReadBack`, for the three servers and any accounts, services,
requests, lifetimes and clock skews. The properties are about answers, and say
nothing of the handlers that are still on their way; the invariant `IInv` is about
those. It says what a handler may still count on at each suspension point: the
account it found was active, with the password hash it goes on to compare, at some
moment since the request came in, although it may be taken down or reset by now
(`SessionInv`); the URL it is about to call was published for this DID and this
fragment in the lifetime of this process, as everything in the cache was
(`ServiceInv`, `ProcInv`); a proof that it passed is in the replay table, every row
there is of a request that is past its check, and so no second request is authorized
by the same proof (`AuthInv`, `ReplayInv`, `OnceInv`; the queued insert of a dropped
handler counts); a row of preferences is of a put that no acknowledged one came
after, and an acknowledged put left a row (`RowInv`, `KeptInv`). On Workers the
registry has exactly the present name of every account (`ClaimInv`), and a request
for preferences that reached an object is in its caller's own, was sent to another
account's host, or is one whose registry lookup failed (`PrefsInv`). The proof has a
lemma for each handler of each server and for each event around them; most events keep
what a handler holds, and `WipeStep` (the deletion of an account object under a
handler that waits upstream) and `RestartStep` are the ones where this takes an
argument. The assumptions are `AccessAssumption` (lifetimes are positive, an
account's service token fits the word: `MaxTime + ServiceMax < WordSize`, which
64-bit seconds satisfy), `DpopAssumption`, `SkewAssumption` and `SceneAssumption`
(what a scene's fields may be).

All assumptions are on the constants, stated in the modules
(`ConstantsAssumption`, `NoneAssumption` and the like) and evaluated by TLC.

Only model-checked: every liveness property (fairness is outside this prover);
`Records`, whose batches and pages are folds and filters over sequences; and
`StorageBackends`, where the question is whether three programs agree call by call.

## Not modelled

Cryptography (key encryption, signatures, thumbprints, password hashing),
encodings (CBOR, CAR, TIDs, the MST's node layout) and parsing: they compute one
value from another, and the models only ask whether two values are equal. OAuth
client metadata, scope syntax and PKCE are validation of documents that arrive in
one piece. Building PLC operations and `did.json`; the relay's crawl request; the
firehose's frames and the tail tool; SQLite's online backup; the command line, the
setup wizard, TLS, DNS and the serving of a listener; the Worker's pages and the
part of its routing that only reads a repository's name. The clock behind `rev` and
power loss that undoes committed transactions (`synchronous=NORMAL`) are listed as
hazards without a property. The notes in `PROJECT.json` say more for each component.
