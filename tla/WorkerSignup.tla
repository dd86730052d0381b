----------------------------- MODULE WorkerSignup -----------------------------
(***************************************************************************)
(* Signing up on the Workers deployment: createAccount in the front Worker  *)
(* (rust-worker/src/lib.rs) reserves the label in the registry object       *)
(* (registry.rs), has the account's own object provision the account        *)
(* (handlers.rs), which posts a genesis operation to the PLC directory, and *)
(* binds the new DID to the reservation.  The operator mints invites and    *)
(* deletes accounts.                                                        *)
(*                                                                          *)
(* A Durable Object runs one event at a time: what a handler does between   *)
(* two awaits is one step.  The provisioning handler runs in the account's  *)
(* object whether or not the front Worker still waits for it.  Each call    *)
(* between objects may fail before or after its effect.  No statement runs  *)
(* in a transaction: when one fails its handler ends with an error, and the *)
(* statements before it stay.                                               *)
(***************************************************************************)
EXTENDS Integers, FiniteSets

CONSTANTS
    Signups,    \* createAccount requests; also the DID each of them generates
    Labels,     \* handle labels: one account object each
    Codes,      \* invite codes
    None,       \* no invite code, no DID
    Open,       \* open_registration()
    MaxUses,    \* bound on the uses of an invite that the operator mints
    MaxAdmin,   \* bound on the operator's actions
    Envs        \* what may happen besides signups: sets of "lost" calls, failing "sql"
                \* statements and "delete" requests

\* A signup presents one code or none; None is no code and no DID.
ASSUME ConstantsAssumption ==
    /\ None \notin Signups \cup Codes
    /\ Open \in BOOLEAN /\ MaxUses \in Nat /\ MaxAdmin \in Nat
    /\ Envs \subseteq SUBSET {"lost", "sql", "delete"}

VARIABLES
    env,        \* the member of Envs that this behaviour is exposed to
    claims,     \* registry: label -> claim or None
    invites,    \* registry: code -> available_uses (0 also when there is no row)
    accounts,   \* account objects: label -> the DIDs with an accounts row
    keys,       \* account objects: <<did, suffix>> of stored keys
    plc,        \* the PLC directory: DIDs with a genesis operation
    pc,         \* where each createAccount request is
    form,       \* its [label, code]
    task,       \* where its provisioning handler is
    deleting,   \* labels whose delete-account request has yet to release them
    admin,      \* operator actions so far
    granted,    \* history: code -> uses that the operator's minting allows
    revoked     \* history: the codes last minted with no uses

vars == <<env, claims, invites, accounts, keys, plc, pc, form, task, deleting, admin, granted,
          revoked>>
registry == <<claims, invites, granted, revoked>>
object == <<accounts, keys, task>>

Claim == [did : Signups \cup {None}, state : {"reserved", "active"},
          invite_code : Codes \cup {None}]
Form == [label : Labels, code : Codes \cup {None}]

\* None is no claim.
ASSUME NoneAssumption == None \notin Claim

TypeOK ==
    /\ env \in Envs
    /\ claims \in [Labels -> Claim \cup {None}]
    /\ invites \in [Codes -> Nat]
    /\ accounts \in [Labels -> SUBSET Signups]
    /\ keys \subseteq Signups \X {"signing", "rotation"}
    /\ plc \subseteq Signups
    /\ pc \in [Signups -> {"idle", "provision", "bind", "release", "created", "failed"}]
    /\ form \in [Signups -> Form \cup {None}]
    /\ task \in [Signups -> {"none", "plc", "posted", "created", "rejected", "error"}]
    /\ deleting \subseteq Labels
    /\ admin \in 0..MaxAdmin
    /\ granted \in [Codes -> Int]
    /\ revoked \subseteq Codes

Init ==
    /\ env \in Envs
    /\ claims = [l \in Labels |-> None]
    /\ invites = [c \in Codes |-> 0]
    /\ accounts = [l \in Labels |-> {}]
    /\ keys = {}
    /\ plc = {}
    /\ pc = [r \in Signups |-> "idle"]
    /\ form = [r \in Signups |-> None]
    /\ task = [r \in Signups |-> "none"]
    /\ deleting = {}
    /\ admin = 0
    /\ granted = [c \in Codes |-> 0]
    /\ revoked = {}

Lossy == "lost" \in env
Failing == "sql" \in env
Goto(r, where) == pc' = [pc EXCEPT ![r] = where]
Run(r, where) == task' = [task EXCEPT ![r] = where]
Label(r) == form[r].label

\* The claims that hold a use of the code.
Holding(c) == {l \in Labels : claims[l] # None /\ claims[l].invite_code = c}

-----------------------------------------------------------------------------
(* createAccount, step 1: the registry's /claim                             *)

is_taken(label) == claims[label] # None

\* As Claimable, but a label that is only reserved may be claimed again.
Claimable_Reserved(label, code) ==
    /\ ~is_taken(label) \/ claims[label].state = "reserved"
    /\ Open \/ (code # None /\ invites[code] > 0)

\* claim: the label is free and, unless registration is open, the code has uses.
Claimable(label, code) ==
    /\ ~is_taken(label)
    /\ Open \/ (code # None /\ invites[code] > 0)

NewClaim(code) ==
    [did |-> None, state |-> "reserved", invite_code |-> IF Open THEN None ELSE code]

\* Check the label, then two statements with no await between them: burn a use of
\* the invite (not in open registration) and reserve the label.  After n of them one
\* fails; the request fails with it and releases nothing.  When the answer is lost the
\* request fails and the reservation stays.
CallClaim(r, label, code, n) ==
    /\ pc[r] = "idle"
    /\ n = 2 \/ Failing
    /\ form' = [form EXCEPT ![r] = [label |-> label, code |-> code]]
    /\ IF Claimable(label, code)
       THEN /\ invites' = IF Open \/ n = 0 THEN invites ELSE [invites EXCEPT ![code] = @ - 1]
            /\ claims' = IF n = 2 THEN [claims EXCEPT ![label] = NewClaim(code)] ELSE claims
            /\ \/ n = 2 /\ Goto(r, "provision")
               \/ (n < 2 \/ Lossy) /\ Goto(r, "failed")
       ELSE Goto(r, "failed") /\ UNCHANGED <<claims, invites>>
    /\ UNCHANGED <<env, object, plc, deleting, admin, granted, revoked>>

-----------------------------------------------------------------------------
(* Step 2: /_stelyph/provision in the account's object                      *)

\* provision_account up to the PLC request: refuse a second account.
CountAccounts(r) ==
    /\ pc[r] = "provision" /\ task[r] = "none"
    /\ \/ Run(r, IF accounts[Label(r)] = {} THEN "plc" ELSE "rejected")
       \/ Failing /\ Run(r, "error")
    /\ UNCHANGED <<env, registry, accounts, keys, plc, pc, form, deleting, admin>>

\* The directory accepts the genesis operation.
PostOperation(r) ==
    /\ task[r] = "plc"
    /\ plc' = plc \cup {r}
    /\ Run(r, "posted")
    /\ UNCHANGED <<env, registry, accounts, keys, pc, form, deleting, admin>>

\* The directory refuses it, or cannot be reached, or its answer is lost: the
\* handler reports UpstreamFailure.
PostFails(r) ==
    /\ task[r] = "plc" \/ (task[r] = "posted" /\ Lossy)
    /\ Run(r, "rejected")
    /\ UNCHANGED <<env, registry, accounts, keys, plc, pc, form, deleting, admin>>

\* As Insertable, but trusting the count made before the PLC request.
Insertable_Counted(r) == TRUE

\* insert_account checks the DID and the handle before it inserts.
Insertable(r) == accounts[Label(r)] = {}

\* After the directory's answer: count_and_insert_account and the two keys, with
\* no await between them.  A statement that fails ends the handler with an error
\* after the first n of the three writes.
InsertAccount(r, n) ==
    /\ task[r] = "posted"
    /\ n = 3 \/ Failing
    /\ IF Insertable(r)
       THEN /\ accounts' = IF n = 0 THEN accounts ELSE [accounts EXCEPT ![Label(r)] = @ \cup {r}]
            /\ keys' = keys \cup (IF n >= 2 THEN {<<r, "signing">>} ELSE {})
                            \cup (IF n = 3 THEN {<<r, "rotation">>} ELSE {})
            /\ Run(r, IF n = 3 THEN "created" ELSE "error")
       ELSE Run(r, "error") /\ UNCHANGED <<accounts, keys>>
    /\ UNCHANGED <<env, registry, plc, pc, form, deleting, admin>>

\* The object is evicted while it waits for the directory.
Evicted(r) ==
    /\ Lossy
    /\ task[r] \in {"plc", "posted"}
    /\ Run(r, "error")
    /\ UNCHANGED <<env, registry, accounts, keys, plc, pc, form, deleting, admin>>

\* The front Worker receives the answer.
Provisioned(r) ==
    /\ pc[r] = "provision" /\ task[r] = "created"
    /\ Goto(r, "bind")
    /\ UNCHANGED <<env, registry, object, plc, form, deleting, admin>>

\* It receives a rejection or an error, or the call itself fails at any moment.
ProvisionFailed(r) ==
    /\ pc[r] = "provision"
    /\ task[r] \in {"rejected", "error"} \/ Lossy
    /\ Goto(r, "release")
    /\ UNCHANGED <<env, registry, object, plc, form, deleting, admin>>

\* As Refund, but the use stays burned.
Refund_Nothing(code) == UNCHANGED invites

Refund(code) == invites' = IF code = None THEN invites ELSE [invites EXCEPT ![code] = @ + 1]

Releasable(claim) == claim # None /\ claim.state = "reserved"

\* The registry's /release: give back the invite of a reservation, then the label.
\* After n of the two statements one fails, and the front Worker ignores that.
CallRelease(r, n) ==
    LET claim == claims[Label(r)] IN
    /\ pc[r] = "release"
    /\ n = 2 \/ Failing
    /\ \/ /\ Releasable(claim) /\ n > 0
          /\ Refund(claim.invite_code)
          /\ claims' = IF n = 2 THEN [claims EXCEPT ![Label(r)] = None] ELSE claims
       \/ /\ ~Releasable(claim) \/ n = 0 \/ Lossy
          /\ UNCHANGED <<claims, invites>>
    /\ Goto(r, "failed")
    /\ UNCHANGED <<env, object, plc, form, deleting, admin, granted, revoked>>

-----------------------------------------------------------------------------
(* Step 3: the registry's /bind                                             *)

\* UPDATE claims ... WHERE label: no row, no effect.  Its outcome is ignored.
CallBind(r) ==
    /\ pc[r] = "bind"
    /\ \/ claims' = [claims EXCEPT ![Label(r)] =
                       IF @ = None THEN None ELSE [@ EXCEPT !.did = r, !.state = "active"]]
       \/ (Lossy \/ Failing) /\ UNCHANGED claims
    /\ Goto(r, "created")
    /\ UNCHANGED <<env, invites, granted, revoked, object, plc, form, deleting, admin>>

\* The client went away and the front Worker's request with it.
Cancelled(r) ==
    /\ Lossy
    /\ pc[r] \in {"provision", "release", "bind"}
    /\ Goto(r, "failed")
    /\ UNCHANGED <<env, registry, object, plc, form, deleting, admin>>

-----------------------------------------------------------------------------
(* The operator                                                             *)

Operate == admin < MaxAdmin /\ admin' = admin + 1

\* mint_invite and the registry's /invite: INSERT OR REPLACE; zero uses revokes.
MintInvite(code, uses) ==
    /\ Operate
    /\ invites' = [invites EXCEPT ![code] = uses]
    /\ granted' = [granted EXCEPT ![code] = uses + Cardinality(Holding(code))]
    /\ revoked' = IF uses = 0 THEN revoked \cup {code} ELSE revoked \ {code}
    /\ UNCHANGED <<env, claims, object, plc, pc, form, deleting>>

\* delete_account: wipe the account's object, row by row (and stop if its answer is
\* lost, or if a statement failed after the first n of the three deletes) ...
DeleteAccount(label, n) ==
    /\ "delete" \in env
    /\ Operate
    /\ label \notin deleting
    /\ n = 3 \/ Failing
    /\ accounts' = IF n = 0 THEN accounts ELSE [accounts EXCEPT ![label] = {}]
    /\ keys' = {k \in keys : \/ k[1] \notin accounts[label]
                             \/ n < (IF k[2] = "signing" THEN 2 ELSE 3)}
    /\ \/ n = 3 /\ deleting' = deleting \cup {label}
       \/ (Lossy \/ Failing) /\ UNCHANGED deleting
    /\ UNCHANGED <<env, registry, plc, pc, form, task>>

\* ... then force-release the label; the outcome of that call is ignored.
ForceRelease(label) ==
    LET claim == claims[label] IN
    /\ label \in deleting
    /\ deleting' = deleting \ {label}
    /\ \/ /\ claims' = [claims EXCEPT ![label] = None]
          /\ granted' = IF claim = None \/ claim.invite_code = None THEN granted
                        ELSE [granted EXCEPT ![claim.invite_code] = @ - 1]
       \/ (Lossy \/ Failing) /\ UNCHANGED <<claims, granted>>
    /\ UNCHANGED <<env, invites, revoked, object, plc, pc, form, admin>>

-----------------------------------------------------------------------------

Front(r) ==
    \/ Provisioned(r) \/ ProvisionFailed(r) \/ CallBind(r)
    \/ \E n \in 0..2 : CallRelease(r, n)

Provision(r) ==
    \/ CountAccounts(r) \/ PostOperation(r) \/ PostFails(r)
    \/ \E n \in 0..3 : InsertAccount(r, n)

Next ==
    \/ \E r \in Signups :
         \/ \E label \in Labels, code \in Codes \cup {None}, n \in 0..2 : CallClaim(r, label, code, n)
         \/ Front(r) \/ Provision(r) \/ Evicted(r) \/ Cancelled(r)
    \/ \E code \in Codes, uses \in 0..MaxUses : MintInvite(code, uses)
    \/ \E label \in Labels : ForceRelease(label) \/ \E n \in 0..3 : DeleteAccount(label, n)

Spec == Init /\ [][Next]_vars

-----------------------------------------------------------------------------
(* Properties                                                               *)

\* handlers.rs: an account object "holds at most one account", although several
\* provisioning handlers of one label can be past the count at the same time.
OneAccountPerHost == \A l \in Labels : Cardinality(accounts[l]) <= 1

\* The requests that count on the claim they made.
Active == {"provision", "bind", "release", "created"}

Admitted(c) == {r \in Signups : pc[r] \in Active /\ form[r].code = c}

\* Every use of a code is available or held by exactly one claim.  Failing statements
\* break it: see README, Observations.
UsesBalance == \A c \in Codes : invites[c] + Cardinality(Holding(c)) = granted[c]

\* registry.rs, claim and release.  As long as no statement fails, every use of a code
\* is either available or held by exactly one claim, through lost calls, failed signups,
\* deletions and new mintings (a claim that is out when the operator mints keeps its
\* use, on top of the new ones).  Whatever fails, uses are at worst lost: unless
\* accounts are deleted, a code never admits more signups than it was granted uses
\* for.  And lib.rs, "a failed signup costs the person nothing": when no call is lost
\* and no statement fails, once every signup has been answered the uses that are gone
\* are those of the accounts that exist (open registration uses none).
InvitesConserved ==
    /\ TypeOK
    /\ ~Failing => UsesBalance
    /\ "delete" \notin env /\ ~Open =>
         \A c \in Codes : invites[c] + Cardinality(Admitted(c)) <= granted[c]
    /\ env = {} /\ ~Open /\ (\A r \in Signups : pc[r] \in {"idle", "created", "failed"}) =>
         \A c \in Codes :
             granted[c] - invites[c] =
                 Cardinality({r \in Signups : pc[r] = "created" /\ form[r].code = c})

\* lib.rs, mint_invite: "setting it to zero withdraws an invite that has already been
\* handed out".  The release of a claim made before gives the code a use again: no run
\* checks it, see README, Observations.
RevokedIsWithdrawn == \A c \in revoked : invites[c] = 0

\* As long as no account is deleted, a bound label names an account that exists in
\* its object with both its keys, and whose DID is in the directory; and a signup
\* that was told it succeeded keeps its label: the account is there and no later
\* signup can reserve the handle.
LabelsNameAccounts ==
    "delete" \notin env =>
      /\ \A l \in Labels : claims[l] # None /\ claims[l].state = "active" =>
           LET did == claims[l].did IN
           did \in accounts[l] \cap plc /\ {<<did, "signing">>, <<did, "rotation">>} \subseteq keys
      /\ \A r \in Signups : pc[r] = "created" => r \in accounts[Label(r)] /\ is_taken(Label(r))

\* lib.rs: a label "released while an identity for it exists on the ledger would
\* let a second person claim a handle that already resolves to someone else".
\* The code does not keep this one: no run checks it, see README, Observations.
HeldWhileOnLedger ==
    \A r \in plc : r \in accounts[Label(r)] => is_taken(Label(r))

=============================================================================
