------------------------------ MODULE RepoWriter ------------------------------
(***************************************************************************)
(* RepoWriter (rust-core/src/repo/writer.rs) over the SQLite store          *)
(* (rust-core/src/storage/sqlite/repo.rs).                                  *)
(*                                                                          *)
(* A task is one request handler's future: it waits for the lock of its     *)
(* DID, loads the repo root, builds and signs a commit on top of it,        *)
(* persists the commit in one transaction and broadcasts the event, and     *)
(* releases the lock when it returns.  The steps below are cut at the       *)
(* awaits.  Calls on the writer connection go, in FIFO order, to the one    *)
(* thread that owns it (tokio_rusqlite); the caller holds the `writer`      *)
(* mutex while it waits for the answer.                                     *)
(*                                                                          *)
(* A future may be dropped at any await (its HTTP client disconnected).     *)
(* Dropping it releases both mutexes, but a call already handed to the      *)
(* connection thread still runs.                                            *)
(***************************************************************************)
EXTENDS RepoTree

CONSTANTS
    Dids,       \* the accounts of this server
    Tasks,      \* request handlers; each serves one request
    Requests,   \* the write requests clients may send: [did, ops, publish]
    Droppable,  \* the tasks whose client may disconnect
    NoTask      \* "no task holds this mutex"

ASSUME RequestsAssumption ==
    Requests \subseteq [did : Dids, ops : Seq(WriteOps), publish : BOOLEAN]

ASSUME TasksAssumption == NoTask \notin Tasks /\ Droppable \subseteq Tasks

VARIABLES
    commits,    \* commit blocks ever written, as [did, prev, tree, ops]; a CID is an index
    repo_roots, \* repo_roots: the current commit of each DID, 0 when it has none
    repo_seq,   \* repo_seq: <<[did, commit], ...>>; seq is the index
    base,       \* how many rows the log held when this process started
    lock,       \* did_locks: the task inside commit_op / apply_many_parts
    writer,     \* SqliteStore.writer: the task holding the connection mutex
    calls,      \* calls handed to the connection thread and not yet run
    chan,       \* the seqs sent on firehose_tx by this process, oldest first
    pc,         \* where each task is
    req,        \* the request it serves
    root,       \* maybe_root it loaded
    built,      \* commit_cid it built, and after commit_blocks ...
    seq         \* ... the seq it was assigned

db == <<commits, repo_roots, repo_seq, base>>
local == <<req, root, built, seq>>
vars == <<db, lock, writer, calls, chan, pc, local>>

Did(t) == req[t].did

\* The guards are held from the lock's acquisition to the function's return.
InLock == {"load", "loading", "loaded", "commit", "committing", "committed", "publish",
           "failed"}

Commits == [did : Dids, prev : Nat, tree : Trees, ops : Seq(WriteOps)]

Calls == [task : Tasks, kind : {"load", "commit"}, did : Dids, commit : Nat]

TypeOK ==
    /\ commits \in Seq(Commits)
    /\ repo_roots \in [Dids -> Nat]
    /\ repo_seq \in Seq([did : Dids, commit : Nat])
    /\ base \in Nat
    /\ lock \in [Dids -> Tasks \cup {NoTask}]
    /\ writer \in Tasks \cup {NoTask}
    /\ calls \in Seq(Calls)
    /\ chan \in Seq(Nat)
    /\ pc \in [Tasks -> InLock \cup {"new", "lock", "done", "dropped"}]
    /\ req \in [Tasks -> Requests]
    /\ root \in [Tasks -> Nat]
    /\ built \in [Tasks -> Nat]
    /\ seq \in [Tasks -> Nat]

Init ==
    /\ commits = <<>>
    /\ repo_roots = [d \in Dids |-> 0]
    /\ repo_seq = <<>>
    /\ base = 0
    /\ lock = [d \in Dids |-> NoTask]
    /\ writer = NoTask
    /\ calls = <<>>
    /\ chan = <<>>
    /\ pc = [t \in Tasks |-> "new"]
    /\ req \in [Tasks -> Requests]
    /\ root = [t \in Tasks |-> 0]
    /\ built = [t \in Tasks |-> 0]
    /\ seq = [t \in Tasks |-> 0]

Goto(t, label) == pc' = [pc EXCEPT ![t] = label]

\* Both guards go out of scope: the function returned or its future was dropped.
ReleaseGuards(t) ==
    /\ lock' = [d \in Dids |-> IF lock[d] = t THEN NoTask ELSE lock[d]]
    /\ writer' = IF writer = t THEN NoTask ELSE writer

-----------------------------------------------------------------------------
(* The steps of one task.                                                   *)

\* apply_many_parts refuses an empty batch before it takes the lock.
Begin(t) ==
    /\ pc[t] = "new"
    /\ Goto(t, IF req[t].ops = <<>> THEN "done" ELSE "lock")
    /\ UNCHANGED <<db, lock, writer, calls, chan, local>>

\* Mutant of Lock: the two writers hold different mutexes for the same DID.
Lock_Unguarded(t) ==
    /\ pc[t] = "lock"
    /\ lock' = [lock EXCEPT ![Did(t)] = t]
    /\ Goto(t, "load")
    /\ UNCHANGED <<db, writer, calls, chan, local>>

Lock(t) ==
    /\ pc[t] = "lock"
    /\ lock[Did(t)] = NoTask
    /\ lock' = [lock EXCEPT ![Did(t)] = t]
    /\ Goto(t, "load")
    /\ UNCHANGED <<db, writer, calls, chan, local>>

\* writer.lock().await, then the call goes to the connection thread.
SendCall(t, kind, commit) ==
    /\ writer = NoTask
    /\ writer' = t
    /\ calls' = Append(calls, [task |-> t, kind |-> kind, did |-> Did(t), commit |-> commit])

\* Mutant of CallLoadRepoRoot: the root is read on a reader connection, past the queue.
CallLoadRepoRoot_Reader(t) ==
    /\ pc[t] = "load"
    /\ writer = NoTask
    /\ writer' = t
    /\ root' = [root EXCEPT ![t] = repo_roots[Did(t)]]
    /\ Goto(t, "loaded")
    /\ UNCHANGED <<db, lock, calls, chan, req, built, seq>>

CallLoadRepoRoot(t) ==
    /\ pc[t] = "load"
    /\ SendCall(t, "load", 0)
    /\ Goto(t, "loading")
    /\ UNCHANGED <<db, lock, chan, local>>

\* The tree of a root; a first write starts from the empty repository.
TreeOf(c) == IF c = 0 THEN EmptyTree ELSE commits[c].tree

\* Open the repo at the loaded root (or create one), apply the ops, chain prev,
\* sign, and write the new blocks: content-addressed, reachable from no root yet.
\* prev = 0 stands for the empty commit that Repository::create made.
BuildCommit(t) ==
    /\ pc[t] = "loaded"
    /\ \E new \in Trees :
         /\ Applies(TreeOf(root[t]), req[t].ops, new)
         /\ commits' = Append(commits, [did |-> Did(t), prev |-> root[t],
                                        tree |-> new, ops |-> req[t].ops])
    /\ built' = [built EXCEPT ![t] = Len(commits) + 1]
    /\ writer' = NoTask
    /\ Goto(t, "commit")
    /\ UNCHANGED <<repo_roots, repo_seq, base, lock, calls, chan, req, root, seq>>

\* An op the tree refuses: RepoError before anything is persisted.
RefuseOps(t) ==
    /\ pc[t] = "loaded"
    /\ \A new \in Trees : ~Applies(TreeOf(root[t]), req[t].ops, new)
    /\ ReleaseGuards(t)
    /\ Goto(t, "done")
    /\ UNCHANGED <<db, calls, chan, local>>

CallCommitBlocks(t) ==
    /\ pc[t] = "commit"
    /\ SendCall(t, "commit", built[t])
    /\ Goto(t, "committing")
    /\ UNCHANGED <<db, lock, chan, local>>

\* Mutant of StampSeq: the per-DID guard goes before the broadcast.
StampSeq_Unlocks(t) ==
    /\ pc[t] = "committed"
    /\ ReleaseGuards(t)
    /\ Goto(t, "publish")
    /\ UNCHANGED <<db, calls, chan, local>>

\* commit_blocks returns and drops the connection mutex; from here to the return
\* nothing is awaited, but other threads of the runtime go on.
StampSeq(t) ==
    /\ pc[t] = "committed"
    /\ writer' = NoTask
    /\ Goto(t, "publish")
    /\ UNCHANGED <<db, lock, calls, chan, local>>

\* Broadcast while the lock of the DID is still held, and return.
Publish(t) ==
    /\ pc[t] = "publish"
    /\ chan' = IF req[t].publish THEN Append(chan, seq[t]) ELSE chan
    /\ ReleaseGuards(t)
    /\ Goto(t, "done")
    /\ UNCHANGED <<db, calls, local>>

\* Mutant of ReturnError: the error path leaks the guards.
ReturnError_Leaks(t) ==
    /\ pc[t] = "failed"
    /\ Goto(t, "done")
    /\ UNCHANGED <<db, lock, writer, calls, chan, local>>

\* The `?` after an awaited store call that failed.
ReturnError(t) ==
    /\ pc[t] = "failed"
    /\ ReleaseGuards(t)
    /\ Goto(t, "done")
    /\ UNCHANGED <<db, calls, chan, local>>

-----------------------------------------------------------------------------
(* The connection thread runs the oldest call and answers its caller, if    *)
(* the caller is still there to hear it.                                    *)

Answer(t, waiting, label) == IF pc[t] \in waiting THEN Goto(t, label) ELSE UNCHANGED pc

RunLoad ==
    /\ calls # <<>>
    /\ LET c == Head(calls) IN
         /\ c.kind = "load"
         /\ root' = [root EXCEPT ![c.task] = repo_roots[c.did]]
         /\ Answer(c.task, {"loading"}, "loaded")
    /\ calls' = Tail(calls)
    /\ UNCHANGED <<db, lock, writer, chan, req, built, seq>>

\* Mutant of RunCommit: the root is updated by the caller's next statement, which a
\* dropped caller never sends.
RunCommit_TwoSteps ==
    /\ calls # <<>>
    /\ LET c == Head(calls) IN
         /\ c.kind = "commit"
         /\ repo_seq' = Append(repo_seq, [did |-> c.did, commit |-> c.commit])
         /\ repo_roots' = IF pc[c.task] = "committing"
                           THEN [repo_roots EXCEPT ![c.did] = c.commit] ELSE repo_roots
         /\ seq' = [seq EXCEPT ![c.task] = Len(repo_seq) + 1]
         /\ Answer(c.task, {"committing"}, "committed")
    /\ calls' = Tail(calls)
    /\ UNCHANGED <<commits, base, lock, writer, chan, req, root, built>>

\* Mutant of RunCommit: an error after COMMIT is reported to the caller as a failure.
RunCommit_ReportsFailure ==
    /\ calls # <<>>
    /\ LET c == Head(calls) IN
         /\ c.kind = "commit"
         /\ repo_seq' = Append(repo_seq, [did |-> c.did, commit |-> c.commit])
         /\ repo_roots' = [repo_roots EXCEPT ![c.did] = c.commit]
         /\ Answer(c.task, {"committing"}, "failed")
    /\ calls' = Tail(calls)
    /\ UNCHANGED <<commits, base, lock, writer, chan, req, root, built, seq>>

\* One IMMEDIATE transaction: blocks, the repo_seq row and the root.
RunCommit ==
    /\ calls # <<>>
    /\ LET c == Head(calls) IN
         /\ c.kind = "commit"
         /\ repo_seq' = Append(repo_seq, [did |-> c.did, commit |-> c.commit])
         /\ repo_roots' = [repo_roots EXCEPT ![c.did] = c.commit]
         /\ seq' = [seq EXCEPT ![c.task] = Len(repo_seq) + 1]
         /\ Answer(c.task, {"committing"}, "committed")
    /\ calls' = Tail(calls)
    /\ UNCHANGED <<commits, base, lock, writer, chan, req, root, built>>

\* A SQL error: the transaction rolls back whole.
RunFail ==
    /\ calls # <<>>
    /\ Answer(Head(calls).task, {"loading", "committing"}, "failed")
    /\ calls' = Tail(calls)
    /\ UNCHANGED <<db, lock, writer, chan, local>>

-----------------------------------------------------------------------------
(* The environment.                                                         *)

\* The client disconnects and the handler's future is dropped at its await.
Drop(t) ==
    /\ t \in Droppable
    /\ pc[t] \in (InLock \ {"publish"}) \cup {"lock"}
    /\ ReleaseGuards(t)
    /\ Goto(t, "dropped")
    /\ UNCHANGED <<db, calls, chan, local>>

\* The process dies and restarts: futures, mutexes, queued calls and the
\* broadcast channel are gone, the database is as the last transaction left it.
Crash ==
    /\ lock' = [d \in Dids |-> NoTask]
    /\ writer' = NoTask
    /\ calls' = <<>>
    /\ chan' = <<>>
    /\ pc' = [t \in Tasks |-> IF pc[t] \in InLock \cup {"lock"} THEN "dropped" ELSE pc[t]]
    /\ base' = Len(repo_seq)
    /\ UNCHANGED <<commits, repo_roots, repo_seq, local>>

Connection == RunLoad \/ RunCommit \/ RunFail

TaskStep(t) ==
    \/ Begin(t) \/ Lock(t) \/ CallLoadRepoRoot(t) \/ BuildCommit(t)
    \/ RefuseOps(t) \/ CallCommitBlocks(t) \/ StampSeq(t) \/ Publish(t)
    \/ ReturnError(t)

Next ==
    \/ \E t \in Tasks : TaskStep(t)
    \/ Connection
    \/ \E t \in Tasks : Drop(t)
    \/ Crash

Spec == Init /\ [][Next]_vars

\* The runtime polls every ready future and the connection thread drains its queue.
Fairness ==
    /\ \A t \in Tasks : WF_vars(TaskStep(t))
    /\ WF_vars(Connection)

FairSpec == Spec /\ Fairness

-----------------------------------------------------------------------------
(* What the write path guarantees.                                          *)

Rows(d) == {i \in DOMAIN repo_seq : repo_seq[i].did = d}

\* The commits of one DID form a single chain: the first is built on the empty
\* repository and each later one names, as prev, the commit of the row before it
\* in that DID's log.  Two writers building on the same root would fork it.
LinearHistory ==
    \A j \in DOMAIN repo_seq :
        LET earlier == {i \in Rows(repo_seq[j].did) : i < j}
            prev == commits[repo_seq[j].commit].prev
        IN  IF earlier = {} THEN prev = 0
            ELSE \E i \in earlier : /\ \A k \in earlier : k <= i
                                    /\ prev = repo_seq[i].commit

\* The root pointer of a DID is the commit of its last log row, in every state a
\* crash can leave behind: commit_blocks never lets the root and the firehose
\* log disagree.
RootIsTip ==
    \A d \in Dids :
        IF Rows(d) = {} THEN repo_roots[d] = 0
        ELSE \E i \in Rows(d) : /\ \A k \in Rows(d) : k <= i
                                /\ repo_roots[d] = repo_seq[i].commit

\* Two events of the same DID are broadcast in the order of their seqs, because
\* publish happens inside the lock: the firehose never goes backwards for a repo.
BroadcastOrder ==
    \A i, j \in DOMAIN chan :
        (i < j /\ repo_seq[chan[i]].did = repo_seq[chan[j]].did) => chan[i] < chan[j]

Broadcast(i) == \E n \in DOMAIN chan : chan[n] = i

\* The handler that wrote row i still holds the lock, or its request publishes nothing.
StillToPublish(i) ==
    \E t \in Tasks : /\ seq[t] = i
                     /\ lock[repo_seq[i].did] = t \/ ~req[t].publish

\* The handler that wrote row i was dropped: its client disconnected between the
\* commit_blocks call and the broadcast.
Abandoned(i) == \E t \in Tasks : seq[t] = i /\ pc[t] = "dropped"

\* apply_one will "publish the #commit frame to the firehose": a row committed by
\* this process is broadcast before its handler gives the lock of the DID back,
\* whatever the other handlers do and whichever of them fail.  The one exception is
\* a handler whose future is dropped while its commit is queued or being answered:
\* the row is in the log, and only a client that reconnects will see it.
CommittedIsPublished ==
    \A i \in DOMAIN repo_seq :
        i > base => Broadcast(i) \/ StillToPublish(i) \/ Abandoned(i)

\* The same without the exception, which is what the comment on apply_one says.  A
\* dropped handler breaks it.
EveryCommitIsBroadcast ==
    \A i \in DOMAIN repo_seq : i > base => Broadcast(i) \/ StillToPublish(i)

\* Every write is atomic: a successful transaction of commit_blocks is exactly one
\* step of the abstract repository, whose log carries the ops that took its
\* contents from the previous tree to the new one; no update is lost.
Abstract == INSTANCE CommitLog WITH
    head <- [d \in Dids |-> TreeOf(repo_roots[d])],
    log <- [i \in 1..Len(repo_seq) |-> [did |-> repo_seq[i].did,
                                        ops |-> commits[repo_seq[i].commit].ops]]

AtomicCommits == Abstract!Spec

\* Every request is eventually answered, whatever the other futures do: a failed,
\* refused or dropped request never leaves a mutex behind it.
EveryRequestEnds == \A t \in Tasks : <>(pc[t] \in {"done", "dropped"})
=============================================================================
