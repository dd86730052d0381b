--------------------------- MODULE RepoWriter_proofs ---------------------------
(***************************************************************************)
(* For every set of accounts, tasks and requests: the write path keeps one  *)
(* linear history per repository and implements the atomic CommitLog.       *)
(*                                                                          *)
(* The lock alone does not give this, because a dropped future leaves its   *)
(* commit_blocks call behind in the connection's queue after its lock is    *)
(* free.  What closes the gap is the order of that queue: the load of the   *)
(* next writer stands behind the orphaned commit (LoadInv), so the root it  *)
(* returns is still the root when the commit built on it runs (FreshInv,    *)
(* PendingInv).                                                             *)
(*                                                                          *)
(* The same orphaned commit is the one that nobody broadcasts; PInv follows *)
(* every other row from its transaction to the channel.                     *)
(***************************************************************************)
EXTENDS RepoWriter, TLAPS

IsCommit(c) == c.kind = "commit"

NoPending(d) == \A i \in 1..Len(calls) : IsCommit(calls[i]) => calls[i].did # d

\* A task between Lock and its return holds the lock of its DID.
LockInv == \A t \in Tasks : pc[t] \in InLock => lock[Did(t)] = t

\* A task that loaded the root has the current one, and nothing in the queue will
\* move it.
FreshInv ==
    \A t \in Tasks : pc[t] \in {"loaded", "commit"} =>
        root[t] = repo_roots[Did(t)] /\ NoPending(Did(t))

\* The commit it built names that root as prev.
BuiltInv ==
    \A t \in Tasks : pc[t] = "commit" =>
        /\ built[t] \in 1..Len(commits)
        /\ commits[built[t]].did = Did(t)
        /\ commits[built[t]].prev = root[t]

\* A committed task that has not published is ahead of every broadcast of its DID.
StampInv ==
    \A t \in Tasks : pc[t] \in {"committed", "publish"} =>
        /\ seq[t] \in 1..Len(repo_seq)
        /\ repo_seq[seq[t]].did = Did(t)
        /\ \A i \in 1..Len(chan) : repo_seq[chan[i]].did = Did(t) => chan[i] < seq[t]

\* A queued call has its caller waiting for it, or orphaned it.
CallInv ==
    \A i \in 1..Len(calls) :
        /\ calls[i].did = Did(calls[i].task)
        /\ pc[calls[i].task] \in {"dropped", IF IsCommit(calls[i]) THEN "committing" ELSE "loading"}

\* At most one load per task and one commit per DID are queued.
UniqueInv ==
    \A i, j \in 1..Len(calls) : (IsCommit(calls[i]) <=> IsCommit(calls[j])) =>
        (i = j \/ (IF IsCommit(calls[i]) THEN calls[i].did # calls[j].did
                                  ELSE calls[i].task # calls[j].task))

\* A queued commit is built on the current root of its DID.
PendingInv ==
    \A i \in 1..Len(calls) : IsCommit(calls[i]) =>
        /\ calls[i].commit \in 1..Len(commits)
        /\ commits[calls[i].commit].did = calls[i].did
        /\ commits[calls[i].commit].prev = repo_roots[calls[i].did]

\* A load somebody waits for stands behind every queued commit of its DID.
LoadInv ==
    \A i, j \in 1..Len(calls) :
        (~IsCommit(calls[i]) /\ pc[calls[i].task] = "loading" /\ IsCommit(calls[j])
             /\ calls[i].did = calls[j].did) => j < i

\* Every commit applies the ops of a request to the tree of the commit before it.
CommitInv ==
    \A c \in 1..Len(commits) :
        /\ commits[c].prev \in 0..Len(commits)
        /\ Applies(TreeOf(commits[c].prev), commits[c].ops, commits[c].tree)
        /\ \E r \in Requests : r.did = commits[c].did /\ r.ops = commits[c].ops

\* Roots and log rows name commits that exist; broadcasts name rows that exist.
RefInv ==
    /\ \A d \in Dids : repo_roots[d] \in 0..Len(commits)
    /\ \A i \in 1..Len(repo_seq) : repo_seq[i].commit \in 1..Len(commits)
    /\ \A i \in 1..Len(chan) : chan[i] \in 1..Len(repo_seq)

TaskInv == LockInv /\ FreshInv /\ BuiltInv /\ StampInv

QueueInv == CallInv /\ UniqueInv /\ PendingInv /\ LoadInv

DataInv == CommitInv /\ RefInv /\ LinearHistory /\ RootIsTip /\ BroadcastOrder

IInv == TypeOK /\ TaskInv /\ QueueInv /\ DataInv

-----------------------------------------------------------------------------
(* Facts the steps use.                                                     *)

\* Append puts the new element at the end and leaves the others in place.
LEMMA AppendFacts ==
    ASSUME NEW S, NEW q \in Seq(S), NEW e \in S, NEW r, r = Append(q, e)
    PROVE  /\ r \in Seq(S) /\ Len(q) \in Nat /\ Len(r) = Len(q) + 1 /\ r[Len(q) + 1] = e
           /\ \A i \in 1..Len(q) : r[i] = q[i] /\ i \in 1..Len(r)
           /\ \A i \in 1..Len(r) : i \in 1..Len(q) \/ i = Len(q) + 1
  OBVIOUS

\* Tail drops the first element and shifts the others.
LEMMA TailFacts ==
    ASSUME NEW S, NEW q \in Seq(S), q # <<>>, NEW r, r = Tail(q)
    PROVE  /\ r \in Seq(S) /\ Head(q) = q[1] /\ Len(q) \in Nat /\ 1 \in 1..Len(q)
           /\ q[1] \in S /\ Len(r) \in Nat
           /\ \A i \in 1..Len(r) : i + 1 \in 1..Len(q) /\ r[i] = q[i + 1] /\ i + 1 # 1
  OBVIOUS

\* A function on 1..n is a sequence of length n, empty when n is 0.
LEMMA FunctionIsSeq ==
    ASSUME NEW S, NEW n \in Nat, NEW f \in [1..n -> S]
    PROVE  f \in Seq(S) /\ Len(f) = n /\ (n = 0 => f = <<>>)
<1>1. f \in Seq(S) /\ Len(f) = n
  OBVIOUS
<1> QED BY <1>1

\* The DID of a task is an account, its ops are a sequence of writes.
LEMMA ReqFacts ==
    ASSUME TypeOK, NEW t \in Tasks
    PROVE  Did(t) \in Dids /\ req[t].ops \in Seq(WriteOps) /\ req[t] \in Requests
  BY RequestsAssumption, SMTT(30) DEF TypeOK, Did

\* A queued call is a load or a commit of some task, for some account.
LEMMA CallFacts ==
    ASSUME TypeOK
    PROVE  /\ calls \in Seq(Calls) /\ Len(calls) \in Nat
           /\ \A i \in 1..Len(calls) : /\ calls[i].task \in Tasks /\ calls[i].did \in Dids
                                       /\ calls[i].kind \in {"load", "commit"}
                                       /\ calls[i].commit \in Nat
<1>1. calls \in Seq(Calls) /\ Len(calls) \in Nat /\ \A i \in 1..Len(calls) : calls[i] \in Calls
  BY DEF TypeOK
<1> QED BY <1>1, Zenon DEF Calls

-----------------------------------------------------------------------------
(* Types.                                                                   *)

\* Every step of a task keeps the types.
LEMMA TaskType ==
    ASSUME TypeOK, NEW t \in Tasks, TaskStep(t) \/ Drop(t)
    PROVE  TypeOK'
<1> USE DEF Goto, InLock
<1>1. CASE Begin(t) \/ Lock(t)
  BY <1>1, ReqFacts, ZenonT(60) DEF TypeOK, Begin, Lock, db, local
<1>2. CASE CallLoadRepoRoot(t)
  <2>1. [task |-> t, kind |-> "load", did |-> Did(t), commit |-> 0] \in Calls
    BY ReqFacts, Zenon DEF Calls
  <2>2. calls' \in Seq(Calls)
    BY <1>2, <2>1, AppendFacts DEF TypeOK, CallLoadRepoRoot, SendCall
  <2> QED BY <1>2, <2>2, Zenon DEF TypeOK, CallLoadRepoRoot, SendCall, db, local
<1>3. CASE BuildCommit(t)
  <2>1. PICK new \in Trees : commits' = Append(commits, [did |-> Did(t), prev |-> root[t],
                                                        tree |-> new, ops |-> req[t].ops])
    BY <1>3, Zenon DEF BuildCommit
  <2>2. [did |-> Did(t), prev |-> root[t], tree |-> new, ops |-> req[t].ops] \in Commits
    BY ReqFacts, Zenon DEF Commits, TypeOK
  <2>3. commits' \in Seq(Commits) /\ Len(commits) + 1 \in Nat
    BY <2>1, <2>2 DEF TypeOK
  <2> QED BY <1>3, <2>3, Zenon DEF TypeOK, BuildCommit
<1>4. CASE CallCommitBlocks(t)
  <2>1. [task |-> t, kind |-> "commit", did |-> Did(t), commit |-> built[t]] \in Calls
    BY ReqFacts, Zenon DEF Calls, TypeOK
  <2>2. calls' \in Seq(Calls)
    BY <1>4, <2>1, AppendFacts DEF TypeOK, CallCommitBlocks, SendCall
  <2> QED BY <1>4, <2>2, Zenon DEF TypeOK, CallCommitBlocks, SendCall, db, local
<1>5. CASE StampSeq(t)
  BY <1>5, Zenon DEF TypeOK, StampSeq, db, local
<1>6. CASE RefuseOps(t) \/ ReturnError(t) \/ Drop(t)
  BY <1>6, Zenon DEF TypeOK, RefuseOps, ReturnError, Drop, ReleaseGuards, db, local
<1>7. CASE Publish(t)
  <2>1. chan' \in Seq(Nat)
    BY <1>7 DEF TypeOK, Publish
  <2>2. /\ pc' \in [Tasks -> InLock \cup {"new", "lock", "done", "dropped"}]
        /\ lock' \in [Dids -> Tasks \cup {NoTask}] /\ writer' \in Tasks \cup {NoTask}
    BY <1>7, Zenon DEF TypeOK, Publish, ReleaseGuards
  <2>3. UNCHANGED db /\ UNCHANGED local /\ calls' = calls
    BY <1>7, Zenon DEF Publish
  <2> QED BY <2>1, <2>2, <2>3, Zenon DEF TypeOK, db, local
<1> QED BY <1>1, <1>2, <1>3, <1>4, <1>5, <1>6, <1>7, Zenon DEF TaskStep

\* Every call the connection thread runs keeps the types, and so does a crash.
LEMMA ConnectionType ==
    ASSUME TypeOK, Connection \/ Crash
    PROVE  TypeOK'
<1> USE DEF Goto, InLock
<1>1. CASE calls # <<>> /\ calls' = Tail(calls) /\ Connection
  <2> DEFINE c == Head(calls)
  <2>1. c \in Calls /\ calls' \in Seq(Calls)
    BY <1>1, TailFacts DEF TypeOK
  <2>2. c.task \in Tasks /\ c.did \in Dids /\ c.commit \in Nat
    BY <2>1, Zenon DEF Calls
  <2> HIDE DEF c
  <2>3. CASE RunLoad
    BY <2>1, <2>2, <2>3, Zenon DEF TypeOK, RunLoad, Answer, c, db
  <2>4. CASE RunCommit
    <3>1. repo_seq' = Append(repo_seq, [did |-> c.did, commit |-> c.commit])
      BY <2>4, Zenon DEF RunCommit, c
    <3>2. repo_seq' \in Seq([did : Dids, commit : Nat]) /\ Len(repo_seq) + 1 \in Nat
      BY <2>2, <3>1 DEF TypeOK
    <3> QED BY <2>1, <2>2, <2>4, <3>2, Zenon DEF TypeOK, RunCommit, Answer, c
  <2>5. CASE RunFail
    BY <2>1, <2>2, <2>5, Zenon DEF TypeOK, RunFail, Answer, c, db, local
  <2> QED BY <1>1, <2>3, <2>4, <2>5, Zenon DEF Connection
<1>2. CASE Crash
  BY <1>2 DEF TypeOK, Crash, local
<1> QED BY <1>1, <1>2, Zenon DEF Connection, RunLoad, RunCommit, RunFail

-----------------------------------------------------------------------------
(* What a step that only moves one task leaves alone.                       *)

\* The database facts depend on nothing else.
LEMMA DataFrame ==
    ASSUME DataInv, commits' = commits, repo_roots' = repo_roots, repo_seq' = repo_seq,
           chan' = chan
    PROVE  DataInv'
<1>1. CommitInv'
  BY Zenon DEF DataInv, CommitInv, TreeOf
<1>2. RefInv'
  BY Zenon DEF DataInv, RefInv
<1>3. LinearHistory'
  BY Zenon DEF DataInv, LinearHistory, Rows
<1>4. RootIsTip'
  BY DEF DataInv, RootIsTip, Rows
<1>5. BroadcastOrder'
  BY Zenon DEF DataInv, BroadcastOrder
<1> QED BY <1>1, <1>2, <1>3, <1>4, <1>5, Zenon DEF DataInv

\* A task with no call in the queue, or one that orphans its call, may move.
LEMMA QueueFrame ==
    ASSUME TypeOK, QueueInv, calls' = calls, commits' = commits, repo_roots' = repo_roots,
           req' = req, NEW t \in Tasks, NEW label, pc' = [pc EXCEPT ![t] = label],
           label # "loading",
           label = "dropped" \/ pc[t] \notin {"loading", "committing", "dropped"}
    PROVE  QueueInv'
<1>1. \A i \in 1..Len(calls) : calls[i].task \in Tasks
  BY CallFacts, Zenon
<1>2. \A x \in Tasks : Did(x)' = Did(x) /\ pc'[x] = IF x = t THEN label ELSE pc[x]
  BY Zenon DEF Did, TypeOK
<1>3. CallInv'
  BY <1>1, <1>2 DEF QueueInv, CallInv
<1>4. UniqueInv'
  BY DEF QueueInv, UniqueInv
<1>5. PendingInv'
  BY Zenon DEF QueueInv, PendingInv
<1>6. LoadInv'
  BY <1>1, <1>2 DEF QueueInv, LoadInv
<1> QED BY <1>3, <1>4, <1>5, <1>6, Zenon DEF QueueInv

\* The lock's holders: one task enters or leaves, the others keep theirs.
LEMMA LockFrame ==
    ASSUME TypeOK, LockInv, req' = req, NEW t \in Tasks, NEW label,
           pc' = [pc EXCEPT ![t] = label],
           label \in InLock => lock'[Did(t)] = t,
           \A d \in Dids : lock'[d] = lock[d] \/ lock[d] \in {t, NoTask}
    PROVE  LockInv'
<1>1. ASSUME NEW x \in Tasks, pc'[x] \in InLock
      PROVE  lock'[Did(x)] = x
  <2>1. CASE x = t
    BY <1>1, <2>1, Zenon DEF TypeOK
  <2>2. CASE x # t
    BY <1>1, <2>2, ReqFacts, TasksAssumption, Zenon DEF TypeOK, LockInv
  <2> QED BY <2>1, <2>2, Zenon
<1> QED BY <1>1, Zenon DEF LockInv, Did

\* Facts about tasks that survive a step moving t to a label they do not speak of.
LEMMA TaskFrame ==
    ASSUME TypeOK, FreshInv, BuiltInv, StampInv, UNCHANGED db, UNCHANGED local,
           calls' = calls, chan' = chan,
           NEW t \in Tasks, NEW label, pc' = [pc EXCEPT ![t] = label],
           label \notin {"loaded", "commit", "committed"},
           label = "publish" => pc[t] = "committed"
    PROVE  FreshInv' /\ BuiltInv' /\ StampInv'
<1>1. /\ commits' = commits /\ repo_roots' = repo_roots /\ repo_seq' = repo_seq
      /\ req' = req /\ root' = root /\ built' = built /\ seq' = seq
  BY Zenon DEF db, local
<1>2. \A x \in Tasks : Did(x)' = Did(x) /\ pc'[x] = IF x = t THEN label ELSE pc[x]
  BY <1>1, Zenon DEF Did, TypeOK
<1>3. \A d : NoPending(d)' <=> NoPending(d)
  BY Zenon DEF NoPending, IsCommit
<1>4. FreshInv'
  BY <1>1, <1>2, <1>3, Zenon DEF FreshInv
<1>5. BuiltInv'
  BY <1>1, <1>2 DEF BuiltInv
<1>6. StampInv'
  BY <1>1, <1>2, Zenon DEF StampInv
<1> QED BY <1>4, <1>5, <1>6, Zenon

\* The steps that only move a task: into or out of the lock, or past the stamp.
LEMMA MoveIInv ==
    ASSUME IInv, NEW t \in Tasks,
           Begin(t) \/ Lock(t) \/ StampSeq(t) \/ RefuseOps(t) \/ ReturnError(t) \/ Drop(t)
    PROVE  IInv'
<1>1. /\ UNCHANGED db /\ UNCHANGED local /\ calls' = calls /\ chan' = chan
      /\ commits' = commits /\ repo_roots' = repo_roots /\ repo_seq' = repo_seq /\ req' = req
  BY Zenon DEF Begin, Lock, StampSeq, RefuseOps, ReturnError, Drop, db, local
<1>2. PICK label \in {"done", "lock", "load", "publish", "dropped"} :
          pc' = [pc EXCEPT ![t] = label]
  BY Zenon DEF Begin, Lock, StampSeq, RefuseOps, ReturnError, Drop, Goto
<1>3. TypeOK'
  BY TaskType, Zenon DEF TaskStep, IInv
<1>4. pc'[t] = label
  BY <1>2, Zenon DEF IInv, TypeOK
<1>5. /\ label = "publish" => pc[t] = "committed"
      /\ label = "dropped" \/ pc[t] \notin {"loading", "committing", "dropped"}
  BY <1>4, Zenon DEF IInv, TypeOK, Begin, Lock, StampSeq, RefuseOps, ReturnError, Drop, Goto
<1>6. /\ label \in InLock => lock'[Did(t)] = t
      /\ \A d \in Dids : lock'[d] = lock[d] \/ lock[d] \in {t, NoTask}
  <2>1. Did(t) \in Dids /\ lock \in [Dids -> Tasks \cup {NoTask}]
    BY ReqFacts, Zenon DEF IInv, TypeOK
  <2>2. CASE Begin(t)
    BY <1>4, <2>2, Zenon DEF IInv, TypeOK, Begin, Goto, InLock
  <2>3. CASE Lock(t)
    BY <2>1, <2>3, Zenon DEF Lock
  <2>4. CASE StampSeq(t)
    BY <2>1, <2>4, Zenon DEF StampSeq, IInv, TaskInv, LockInv, InLock
  <2>5. CASE RefuseOps(t) \/ ReturnError(t) \/ Drop(t)
    <3>1. label \in {"done", "dropped"}
      BY <1>4, <2>5, Zenon DEF IInv, TypeOK, RefuseOps, ReturnError, Drop, Goto
    <3> QED BY <2>5, <3>1, Zenon DEF RefuseOps, ReturnError, Drop, ReleaseGuards, InLock
  <2> QED BY <2>2, <2>3, <2>4, <2>5, Zenon
<1>7. TaskInv'
  BY <1>1, <1>2, <1>5, <1>6, LockFrame, TaskFrame, Zenon DEF IInv, TaskInv
<1>8. QueueInv'
  BY <1>1, <1>2, <1>5, QueueFrame, Zenon DEF IInv
<1>9. DataInv'
  BY <1>1, DataFrame, Zenon DEF IInv
<1> QED BY <1>3, <1>7, <1>8, <1>9, Zenon DEF IInv

-----------------------------------------------------------------------------
(* Calls enter the queue.                                                   *)

\* Two tasks inside the lock serve different DIDs.
LEMMA Exclusive ==
    ASSUME LockInv, NEW x \in Tasks, NEW y \in Tasks, pc[x] \in InLock, pc[y] \in InLock,
           Did(x) = Did(y)
    PROVE  x = y
  BY Zenon DEF LockInv

\* load_repo_root queues behind everything, so behind an orphaned commit too.
LEMMA CallLoadIInv ==
    ASSUME IInv, NEW t \in Tasks, CallLoadRepoRoot(t)
    PROVE  IInv'
<1> DEFINE c == [task |-> t, kind |-> "load", did |-> Did(t), commit |-> 0]
           n == Len(calls) + 1
<1>1. /\ UNCHANGED db /\ UNCHANGED local /\ chan' = chan /\ lock' = lock /\ pc[t] = "load"
      /\ commits' = commits /\ repo_roots' = repo_roots /\ repo_seq' = repo_seq /\ req' = req
      /\ root' = root /\ built' = built /\ seq' = seq
      /\ calls' = Append(calls, c) /\ pc' = [pc EXCEPT ![t] = "loading"]
  BY Zenon DEF CallLoadRepoRoot, SendCall, db, local, Goto
<1>2. TypeOK' /\ TypeOK /\ LockInv /\ CallInv
  BY TaskType, Zenon DEF TaskStep, IInv, TaskInv, QueueInv
<1>3. c \in Calls
  BY <1>2, ReqFacts, Zenon DEF Calls
<1>4. /\ Len(calls) \in Nat /\ Len(calls') = n /\ calls'[n] = c
      /\ \A i \in 1..Len(calls) : calls'[i] = calls[i] /\ i \in 1..Len(calls')
      /\ \A i \in 1..Len(calls') : i \in 1..Len(calls) \/ i = n
  <2> HIDE DEF c
  <2> QED BY <1>1, <1>2, <1>3, CallFacts, AppendFacts
<1>5. calls'[n].task = t /\ calls'[n].did = Did(t) /\ ~IsCommit(calls'[n])
  BY <1>4 DEF IsCommit
<1> HIDE DEF c, n
<1>6. \A x \in Tasks : Did(x)' = Did(x) /\ pc'[x] = IF x = t THEN "loading" ELSE pc[x]
  BY <1>1, <1>2, Zenon DEF Did, TypeOK
<1>7. \A i \in 1..Len(calls) : calls[i].task \in Tasks /\ calls[i].task # t
  BY <1>1, <1>2, CallFacts, Zenon DEF CallInv
<1>8. TaskInv'
  <2>1. LockInv'
    BY <1>1, <1>2, LockFrame, Zenon DEF InLock, LockInv
  <2>2. \A d : NoPending(d) => NoPending(d)'
    BY <1>4, <1>5, Zenon DEF NoPending
  <2>3. FreshInv'
    BY <1>1, <1>6, <2>2, SMTT(30) DEF IInv, TaskInv, FreshInv
  <2>4. BuiltInv' /\ StampInv'
    BY <1>1, <1>6, SMTT(30) DEF IInv, TaskInv, BuiltInv, StampInv
  <2> QED BY <2>1, <2>3, <2>4, Zenon DEF TaskInv
<1>9. QueueInv'
  <2>1. CallInv'
    BY <1>4, <1>5, <1>6, <1>7 DEF IInv, QueueInv, CallInv
  <2>2. UniqueInv'
    BY <1>4, <1>5, <1>7, SMTT(30) DEF IInv, QueueInv, UniqueInv
  <2>3. PendingInv'
    BY <1>1, <1>4, <1>5 DEF IInv, QueueInv, PendingInv
  <2>4. \A j \in 1..Len(calls) : j < n
    BY <1>4, SMTT(30) DEF n
  <2>5. LoadInv'
    BY <1>4, <1>5, <1>6, <1>7, <2>4, SMTT(30) DEF IInv, QueueInv, LoadInv
  <2> QED BY <2>1, <2>2, <2>3, <2>5, Zenon DEF QueueInv
<1>10. DataInv'
  BY <1>1, DataFrame, Zenon DEF IInv
<1> QED BY <1>2, <1>8, <1>9, <1>10, Zenon DEF IInv

\* commit_blocks queues a commit built on the current root, the only one of its DID.
LEMMA CallCommitIInv ==
    ASSUME IInv, NEW t \in Tasks, CallCommitBlocks(t)
    PROVE  IInv'
<1> DEFINE c == [task |-> t, kind |-> "commit", did |-> Did(t), commit |-> built[t]]
           n == Len(calls) + 1
<1>1. /\ UNCHANGED db /\ UNCHANGED local /\ chan' = chan /\ lock' = lock /\ pc[t] = "commit"
      /\ commits' = commits /\ repo_roots' = repo_roots /\ repo_seq' = repo_seq /\ req' = req
      /\ root' = root /\ built' = built /\ seq' = seq
      /\ calls' = Append(calls, c) /\ pc' = [pc EXCEPT ![t] = "committing"]
  BY Zenon DEF CallCommitBlocks, SendCall, db, local, Goto
<1>2. TypeOK' /\ TypeOK /\ LockInv /\ CallInv
  BY TaskType, Zenon DEF TaskStep, IInv, TaskInv, QueueInv
<1>3. c \in Calls
  BY <1>2, ReqFacts, Zenon DEF Calls, TypeOK
<1>4. /\ Len(calls) \in Nat /\ Len(calls') = n /\ calls'[n] = c
      /\ \A i \in 1..Len(calls) : calls'[i] = calls[i] /\ i \in 1..Len(calls')
      /\ \A i \in 1..Len(calls') : i \in 1..Len(calls) \/ i = n
  <2> HIDE DEF c
  <2> QED BY <1>1, <1>2, <1>3, CallFacts, AppendFacts
<1>5. /\ calls'[n].task = t /\ calls'[n].did = Did(t) /\ calls'[n].commit = built[t]
      /\ IsCommit(calls'[n])
  BY <1>4 DEF IsCommit
<1> HIDE DEF c, n
<1>6. \A x \in Tasks : Did(x)' = Did(x) /\ pc'[x] = IF x = t THEN "committing" ELSE pc[x]
  BY <1>1, <1>2, Zenon DEF Did, TypeOK
<1>7. \A i \in 1..Len(calls) : calls[i].task \in Tasks /\ calls[i].task # t
  BY <1>1, <1>2, CallFacts, Zenon DEF CallInv
<1>8. NoPending(Did(t)) /\ root[t] = repo_roots[Did(t)]
  BY <1>1, Zenon DEF IInv, TaskInv, FreshInv
<1>9. TaskInv'
  <2>1. LockInv'
    BY <1>1, <1>2, LockFrame, Zenon DEF InLock, LockInv
  <2>2. \A d : (NoPending(d) /\ d # Did(t)) => NoPending(d)'
    BY <1>4, <1>5, Zenon DEF NoPending
  <2>3. \A x \in Tasks : pc'[x] \in {"loaded", "commit"} => x # t /\ Did(x) # Did(t)
    BY <1>1, <1>2, <1>6, Exclusive DEF InLock
  <2>4. FreshInv'
    BY <1>1, <1>6, <2>2, <2>3, Zenon DEF IInv, TaskInv, FreshInv
  <2>5. BuiltInv' /\ StampInv'
    <3>1. /\ BuiltInv /\ StampInv /\ built' = built /\ commits' = commits /\ root' = root
          /\ seq' = seq /\ repo_seq' = repo_seq /\ chan' = chan
      BY <1>1, Zenon DEF IInv, TaskInv
    <3>2. BuiltInv'
      BY ONLY <1>6, <3>1, Zenon DEF BuiltInv
    <3>3. StampInv'
      BY ONLY <1>6, <3>1, Zenon DEF StampInv
    <3> QED BY <3>2, <3>3, Zenon
  <2> QED BY <2>1, <2>4, <2>5, Zenon DEF TaskInv
<1>10. QueueInv'
  <2>1. CallInv'
    BY <1>4, <1>5, <1>6, <1>7 DEF IInv, QueueInv, CallInv
  <2>2. UniqueInv'
    BY <1>4, <1>5, <1>8, SMTT(30) DEF IInv, QueueInv, UniqueInv, NoPending
  <2>3. /\ built[t] \in 1..Len(commits) /\ commits[built[t]].did = Did(t)
        /\ commits[built[t]].prev = repo_roots[Did(t)]
    BY <1>1, <1>8, Zenon DEF IInv, TaskInv, BuiltInv
  <2>4. PendingInv'
    <3>1. ASSUME NEW i \in 1..Len(calls'), IsCommit(calls'[i])
          PROVE  /\ calls'[i].commit \in 1..Len(commits)
                 /\ commits[calls'[i].commit].did = calls'[i].did
                 /\ commits[calls'[i].commit].prev = repo_roots[calls'[i].did]
      <4>1. CASE i = n
        BY <1>5, <2>3, <4>1, Zenon
      <4>2. CASE i \in 1..Len(calls)
        BY <1>4, <3>1, <4>2, Zenon DEF IInv, QueueInv, PendingInv
      <4> QED BY <1>4, <4>1, <4>2, Zenon
    <3> QED BY <1>1, <3>1, Zenon DEF PendingInv, IsCommit
  <2>5. \A i \in 1..Len(calls) : pc[calls[i].task] = "loading" => calls[i].did # Did(t)
    BY <1>1, <1>2, <1>7, Exclusive, Zenon DEF CallInv, InLock
  <2>6. LoadInv'
    BY <1>4, <1>5, <1>6, <1>7, <2>5, SMTT(30) DEF IInv, QueueInv, LoadInv
  <2> QED BY <2>1, <2>2, <2>4, <2>6, Zenon DEF QueueInv
<1>11. DataInv'
  BY <1>1, DataFrame, Zenon DEF IInv
<1> QED BY <1>2, <1>9, <1>10, <1>11, Zenon DEF IInv

-----------------------------------------------------------------------------
(* Commits are built and published.                                         *)

\* A new commit block changes nothing that a root or a log row refers to.
LEMMA BuildIInv ==
    ASSUME IInv, NEW t \in Tasks, BuildCommit(t)
    PROVE  IInv'
<1> DEFINE n == Len(commits) + 1
<1>1. PICK new \in Trees :
          /\ Applies(TreeOf(root[t]), req[t].ops, new)
          /\ commits' = Append(commits, [did |-> Did(t), prev |-> root[t],
                                         tree |-> new, ops |-> req[t].ops])
  BY Zenon DEF BuildCommit
<1>2. /\ pc[t] = "loaded" /\ built' = [built EXCEPT ![t] = n] /\ pc' = [pc EXCEPT ![t] = "commit"]
      /\ repo_roots' = repo_roots /\ repo_seq' = repo_seq /\ lock' = lock /\ calls' = calls
      /\ chan' = chan /\ req' = req /\ root' = root /\ seq' = seq
  BY Zenon DEF BuildCommit, Goto
<1>3. TypeOK' /\ TypeOK /\ LockInv /\ FreshInv /\ RefInv
  BY TaskType, Zenon DEF TaskStep, IInv, TaskInv, DataInv
<1> DEFINE c == [did |-> Did(t), prev |-> root[t], tree |-> new, ops |-> req[t].ops]
<1>4. c \in Commits /\ commits \in Seq(Commits)
  BY <1>3, ReqFacts, Zenon DEF Commits, TypeOK
<1>5. /\ Len(commits) \in Nat /\ Len(commits') = n /\ commits'[n] = c
      /\ \A i \in 1..Len(commits) : commits'[i] = commits[i] /\ i \in 1..Len(commits')
      /\ \A i \in 1..Len(commits') : i \in 1..Len(commits) \/ i = n
  <2>1. commits' = Append(commits, c)
    BY <1>1, Zenon
  <2> HIDE DEF c
  <2> QED BY <1>4, <2>1, AppendFacts
<1>6. /\ commits'[n].did = Did(t) /\ commits'[n].prev = root[t] /\ commits'[n].tree = new
      /\ commits'[n].ops = req[t].ops
  <2>1. commits'[n] = c
    BY <1>5, Zenon
  <2> QED BY ONLY <2>1
<1>7. n \in 1..Len(commits') /\ \A i \in 0..Len(commits) : i \in 0..Len(commits')
  BY <1>5
<1> HIDE DEF c, n
<1>8. \A x \in Tasks : Did(x)' = Did(x) /\ pc'[x] = (IF x = t THEN "commit" ELSE pc[x])
                     /\ built'[x] = IF x = t THEN n ELSE built[x]
  BY <1>2, <1>3, Zenon DEF Did, TypeOK
<1>9. root[t] = repo_roots[Did(t)] /\ NoPending(Did(t)) /\ root[t] \in 0..Len(commits)
  BY <1>2, <1>3, ReqFacts, Zenon DEF FreshInv, RefInv
<1>10. TaskInv'
  <2>1. LockInv'
    BY <1>2, <1>3, LockFrame, Zenon DEF InLock, LockInv
  <2>2. FreshInv'
    BY <1>2, <1>3, <1>8, SMTT(30) DEF FreshInv, NoPending
  <2>3. BuiltInv'
    BY <1>2, <1>5, <1>6, <1>7, <1>8, SMTT(30) DEF IInv, TaskInv, BuiltInv
  <2>4. StampInv'
    BY <1>2, <1>8, SMTT(30) DEF IInv, TaskInv, StampInv
  <2> QED BY <2>1, <2>2, <2>3, <2>4, Zenon DEF TaskInv
<1>11. QueueInv'
  <2>1. CallInv'
    BY <1>2, <1>3, <1>8, CallFacts DEF IInv, QueueInv, CallInv
  <2>2. UniqueInv'
    BY <1>2 DEF IInv, QueueInv, UniqueInv
  <2>3. PendingInv'
    BY <1>2, <1>5, ZenonT(60) DEF IInv, QueueInv, PendingInv
  <2>4. LoadInv'
    BY <1>2, <1>3, <1>8, CallFacts DEF IInv, QueueInv, LoadInv
  <2> QED BY <2>1, <2>2, <2>3, <2>4, Zenon DEF QueueInv
<1>12. DataInv'
  <2> DEFINE NewTreeOf(k) == IF k = 0 THEN EmptyTree ELSE commits'[k].tree
  <2>1. ASSUME NEW k \in 0..Len(commits) PROVE NewTreeOf(k) = TreeOf(k)
    <3>1. k = 0 \/ k \in 1..Len(commits)
      BY <1>5
    <3> QED BY <1>5, <3>1, Zenon DEF TreeOf
  <2>2. CommitInv'
    <3> HIDE DEF NewTreeOf
    <3>1. ASSUME NEW i \in 1..Len(commits)
          PROVE  /\ commits'[i].prev \in 0..Len(commits')
                 /\ Applies(NewTreeOf(commits'[i].prev), commits'[i].ops, commits'[i].tree)
                 /\ \E r \in Requests : r.did = commits'[i].did /\ r.ops = commits'[i].ops
      BY <1>5, <1>7, <2>1, Zenon DEF IInv, DataInv, CommitInv
    <3>2. /\ commits'[n].prev \in 0..Len(commits')
          /\ Applies(NewTreeOf(commits'[n].prev), commits'[n].ops, commits'[n].tree)
          /\ req[t] \in Requests /\ req[t].did = commits'[n].did /\ req[t].ops = commits'[n].ops
      BY <1>1, <1>3, <1>6, <1>7, <1>9, <2>1, ReqFacts, Zenon DEF Did
    <3>3. ASSUME NEW i \in 1..Len(commits')
          PROVE  /\ commits'[i].prev \in 0..Len(commits')
                 /\ Applies(NewTreeOf(commits'[i].prev), commits'[i].ops, commits'[i].tree)
                 /\ \E r \in Requests : r.did = commits'[i].did /\ r.ops = commits'[i].ops
      BY <1>5, <3>1, <3>2, Zenon
    <3> QED BY <3>3, Zenon DEF CommitInv, TreeOf, NewTreeOf
  <2>3. RefInv'
    BY <1>2, <1>3, <1>5, <1>7, Zenon DEF RefInv
  <2>4. LinearHistory'
    <3>1. DOMAIN repo_seq = 1..Len(repo_seq)
      BY <1>3 DEF TypeOK
    <3>2. \A j \in DOMAIN repo_seq : commits'[repo_seq[j].commit] = commits[repo_seq[j].commit]
      BY <1>3, <1>5, <3>1, Zenon DEF RefInv
    <3>3. repo_seq' = repo_seq /\ \A d : Rows(d)' = Rows(d)
      BY <1>2, Zenon DEF Rows
    <3>4. ASSUME NEW j \in DOMAIN repo_seq
          PROVE  LET earlier == {i \in Rows(repo_seq[j].did) : i < j}
                     prev == commits'[repo_seq[j].commit].prev
                 IN  IF earlier = {} THEN prev = 0
                     ELSE \E i \in earlier : /\ \A k \in earlier : k <= i
                                             /\ prev = repo_seq[i].commit
      <4>1. LET earlier == {i \in Rows(repo_seq[j].did) : i < j}
                prev == commits[repo_seq[j].commit].prev
            IN  IF earlier = {} THEN prev = 0
                ELSE \E i \in earlier : /\ \A k \in earlier : k <= i
                                        /\ prev = repo_seq[i].commit
        BY Zenon DEF IInv, DataInv, LinearHistory
      <4>2. commits'[repo_seq[j].commit].prev = commits[repo_seq[j].commit].prev
        BY <3>2, Zenon
      <4> QED BY <4>1, <4>2, Zenon
    <3> QED BY <3>3, <3>4, Zenon DEF LinearHistory
  <2>5. RootIsTip' /\ BroadcastOrder'
    BY <1>2 DEF IInv, DataInv, RootIsTip, BroadcastOrder, Rows
  <2> QED BY <2>2, <2>3, <2>4, <2>5, Zenon DEF DataInv
<1> QED BY <1>3, <1>10, <1>11, <1>12, Zenon DEF IInv

\* A broadcast follows every earlier one of its DID, because the lock is held.
LEMMA PublishIInv ==
    ASSUME IInv, NEW t \in Tasks, Publish(t)
    PROVE  IInv'
<1>1. /\ UNCHANGED db /\ UNCHANGED local /\ calls' = calls /\ pc[t] = "publish"
      /\ commits' = commits /\ repo_roots' = repo_roots /\ repo_seq' = repo_seq /\ req' = req
      /\ root' = root /\ built' = built /\ seq' = seq /\ pc' = [pc EXCEPT ![t] = "done"]
      /\ chan' = chan \/ chan' = Append(chan, seq[t])
  BY Zenon DEF Publish, db, local, Goto
<1>2. TypeOK' /\ TypeOK /\ LockInv /\ StampInv /\ DataInv
  BY TaskType, Zenon DEF TaskStep, IInv, TaskInv
<1>3. \A x \in Tasks : Did(x)' = Did(x) /\ pc'[x] = IF x = t THEN "done" ELSE pc[x]
  BY <1>1, <1>2, Zenon DEF Did, TypeOK
<1>4. /\ seq[t] \in 1..Len(repo_seq) /\ repo_seq[seq[t]].did = Did(t)
      /\ \A i \in 1..Len(chan) : repo_seq[chan[i]].did = Did(t) => chan[i] < seq[t]
  BY <1>1, <1>2, Zenon DEF StampInv
<1>5. \A x \in Tasks : pc'[x] \in {"committed", "publish"} => x # t /\ Did(x) # Did(t)
  BY <1>1, <1>2, <1>3, Exclusive DEF InLock
<1>6. /\ LockInv'
      /\ QueueInv'
  BY <1>1, <1>2, LockFrame, QueueFrame, Zenon DEF IInv, Publish, ReleaseGuards, InLock
<1>7. FreshInv' /\ BuiltInv'
  BY <1>1, <1>3 DEF IInv, TaskInv, FreshInv, BuiltInv, NoPending
<1>8. CASE chan' = chan
  <2>1. StampInv'
    BY <1>1, <1>2, <1>3, <1>8, Zenon DEF StampInv
  <2>2. DataInv'
    BY <1>1, <1>2, <1>8, DataFrame, Zenon
  <2> QED BY <1>2, <1>6, <1>7, <2>1, <2>2, Zenon DEF IInv, TaskInv
<1>9. CASE chan' = Append(chan, seq[t])
  <2> DEFINE n == Len(chan) + 1
  <2>1. chan \in Seq(Nat) /\ seq[t] \in Nat
    BY <1>2, Zenon DEF TypeOK
  <2>2. /\ Len(chan) \in Nat /\ Len(chan') = n /\ chan'[n] = seq[t]
        /\ \A i \in 1..Len(chan) : chan'[i] = chan[i] /\ i \in 1..Len(chan')
        /\ \A i \in 1..Len(chan') : i \in 1..Len(chan) \/ i = n
    BY <1>9, <2>1, AppendFacts
  <2>3. \A i, j \in 1..Len(chan') : i < j => i \in 1..Len(chan)
    BY <2>2, SMTT(30)
  <2> HIDE DEF n
  <2>4. StampInv'
    BY <1>1, <1>2, <1>3, <1>4, <1>5, <2>2, SMTT(30) DEF StampInv
  <2>5. CommitInv' /\ LinearHistory' /\ RootIsTip'
    BY <1>1, <1>2, SMTT(60) DEF DataInv, CommitInv, TreeOf, LinearHistory, RootIsTip, Rows
  <2>6. RefInv'
    BY <1>1, <1>2, <1>4, <2>2, Zenon DEF DataInv, RefInv
  <2>7. BroadcastOrder'
    <3>1. DOMAIN chan = 1..Len(chan) /\ DOMAIN chan' = 1..Len(chan')
      BY <1>2 DEF TypeOK
    <3> QED BY <1>1, <1>2, <1>4, <2>2, <2>3, <3>1, ZenonT(60) DEF DataInv, BroadcastOrder
  <2> QED BY <1>2, <1>6, <1>7, <2>4, <2>5, <2>6, <2>7, Zenon DEF IInv, TaskInv, DataInv
<1> QED BY <1>1, <1>8, <1>9, Zenon

-----------------------------------------------------------------------------
(* Calls leave the queue.                                                   *)

\* Removing the oldest call, and answering its caller if it still waits, keeps the
\* queue in order; only a commit moves the root of its DID.
LEMMA DequeueInv ==
    ASSUME TypeOK, QueueInv, calls # <<>>, calls' = Tail(calls), commits' = commits, req' = req,
           NEW t \in Tasks, t = calls[1].task, NEW label, label # "loading",
           pc' = pc \/ (pc[t] # "dropped" /\ pc' = [pc EXCEPT ![t] = label]),
           \A d \in Dids : repo_roots'[d] = repo_roots[d]
                             \/ (IsCommit(calls[1]) /\ d = calls[1].did)
    PROVE  QueueInv' /\ \A d : NoPending(d) => NoPending(d)'
<1>1. /\ 1 \in 1..Len(calls) /\ Len(calls') \in Nat /\ Len(calls) \in Nat
      /\ \A i \in 1..Len(calls') : i + 1 \in 1..Len(calls) /\ calls'[i] = calls[i + 1] /\ i + 1 # 1
  BY CallFacts, TailFacts
<1>2. \A i \in 1..Len(calls) : calls[i].task \in Tasks /\ calls[i].did \in Dids
  BY CallFacts, Zenon
<1>3. \A x \in Tasks : Did(x)' = Did(x) /\ (x # t => pc'[x] = pc[x])
                     /\ (pc'[x] = pc[x] \/ (pc[x] # "dropped" /\ pc'[x] = label))
  BY Zenon DEF Did, TypeOK
<1>4. \A i, j \in 1..Len(calls') : i + 1 = j + 1 => i = j
  BY <1>1
<1>5. \A i \in 1..Len(calls') : calls[i + 1].task = t => pc'[t] = pc[t]
  <2> SUFFICES ASSUME NEW i \in 1..Len(calls'), calls[i + 1].task = t, pc[t] # "dropped"
               PROVE  FALSE
    BY <1>3, Zenon
  <2>1. CallInv /\ UniqueInv
    BY Zenon DEF QueueInv
  <2>2. IsCommit(calls[1]) <=> IsCommit(calls[i + 1])
    BY <1>1, <2>1 DEF CallInv
  <2>3. calls[1].did = calls[i + 1].did
    BY <1>1, <2>1 DEF CallInv
  <2> QED BY <1>1, <2>1, <2>2, <2>3, ZenonT(60) DEF UniqueInv
<1>6. \A i \in 1..Len(calls') : pc'[calls[i + 1].task] = pc[calls[i + 1].task]
  BY <1>1, <1>2, <1>3, <1>5, Zenon
<1>7. CallInv'
  <2> SUFFICES ASSUME NEW i \in 1..Len(calls')
               PROVE  /\ calls'[i].did = Did(calls'[i].task)
                      /\ pc'[calls'[i].task] \in
                           {"dropped", IF IsCommit(calls'[i]) THEN "committing" ELSE "loading"}
    BY Zenon DEF CallInv, Did
  <2>1. i + 1 \in 1..Len(calls) /\ calls'[i] = calls[i + 1] /\ calls[i + 1].task \in Tasks
    BY <1>1, <1>2, Zenon
  <2>2. /\ calls[i + 1].did = Did(calls[i + 1].task)
        /\ pc[calls[i + 1].task] \in
             {"dropped", IF IsCommit(calls[i + 1]) THEN "committing" ELSE "loading"}
    BY <2>1, Zenon DEF QueueInv, CallInv
  <2>3. pc'[calls[i + 1].task] = pc[calls[i + 1].task]
    BY <1>6, Zenon
  <2> QED BY ONLY <2>1, <2>2, <2>3, Zenon
<1>8. UniqueInv'
  <2> SUFFICES ASSUME NEW i \in 1..Len(calls'), NEW j \in 1..Len(calls'),
                      IsCommit(calls'[i]) <=> IsCommit(calls'[j]), i # j
               PROVE  IF IsCommit(calls'[i]) THEN calls'[i].did # calls'[j].did
                                             ELSE calls'[i].task # calls'[j].task
    BY SMTT(30) DEF UniqueInv
  <2>1. /\ i + 1 \in 1..Len(calls) /\ j + 1 \in 1..Len(calls) /\ i + 1 # j + 1
        /\ calls'[i] = calls[i + 1] /\ calls'[j] = calls[j + 1]
    BY <1>1, <1>4, Zenon
  <2> QED BY <2>1, SMTT(30) DEF QueueInv, UniqueInv
<1>9. PendingInv'
  <2>1. ASSUME NEW i \in 1..Len(calls'), IsCommit(calls[i + 1])
        PROVE  repo_roots'[calls[i + 1].did] = repo_roots[calls[i + 1].did]
    BY <1>1, <1>2, <2>1, ZenonT(60) DEF QueueInv, UniqueInv
  <2> QED BY <1>1, <2>1 DEF QueueInv, PendingInv
<1>10. LoadInv'
  <2>1. \A i, j \in 1..Len(calls') : j + 1 < i + 1 => j < i
    BY <1>1
  <2> QED BY <1>1, <1>6, <2>1, SMTT(30) DEF QueueInv, LoadInv
<1>11. \A d : NoPending(d) => NoPending(d)'
  BY <1>1, ZenonT(60) DEF NoPending
<1> QED BY <1>7, <1>8, <1>9, <1>10, <1>11, Zenon DEF QueueInv

\* The facts every run of the oldest call shares.
LEMMA HeadFacts ==
    ASSUME IInv, Connection
    PROVE  /\ TypeOK' /\ TypeOK /\ TaskInv /\ QueueInv /\ DataInv
           /\ calls # <<>> /\ calls' = Tail(calls) /\ Head(calls) = calls[1] /\ 1 \in 1..Len(calls)
           /\ calls[1].task \in Tasks /\ calls[1].did \in Dids
           /\ calls[1].did = Did(calls[1].task)
           /\ pc[calls[1].task] \in {"dropped", IF IsCommit(calls[1]) THEN "committing" ELSE "loading"}
<1>1. calls # <<>> /\ calls' = Tail(calls)
  BY Zenon DEF Connection, RunLoad, RunCommit, RunFail
<1>2. TypeOK' /\ TypeOK /\ TaskInv /\ QueueInv /\ DataInv
  BY ConnectionType, Zenon DEF IInv
<1>3. Head(calls) = calls[1] /\ 1 \in 1..Len(calls)
  BY <1>1, <1>2, CallFacts, TailFacts, Zenon
<1> QED BY <1>1, <1>2, <1>3, CallFacts, Zenon DEF QueueInv, CallInv

\* The load that is answered returns the current root, and no commit is queued.
LEMMA RunLoadIInv ==
    ASSUME IInv, RunLoad
    PROVE  IInv'
<1> DEFINE t == calls[1].task
<1>1. /\ TypeOK' /\ TypeOK /\ TaskInv /\ QueueInv /\ DataInv
      /\ calls # <<>> /\ calls' = Tail(calls) /\ Head(calls) = calls[1] /\ 1 \in 1..Len(calls)
      /\ t \in Tasks /\ calls[1].did \in Dids /\ calls[1].did = Did(t)
      /\ pc[t] \in {"dropped", IF IsCommit(calls[1]) THEN "committing" ELSE "loading"}
  BY HeadFacts, Zenon DEF Connection
<1>2. ~IsCommit(calls[1]) /\ pc[t] \in {"dropped", "loading"}
  BY <1>1, Zenon DEF RunLoad, IsCommit
<1>3. /\ UNCHANGED db /\ lock' = lock /\ chan' = chan /\ commits' = commits
      /\ repo_roots' = repo_roots /\ repo_seq' = repo_seq /\ req' = req
      /\ built' = built /\ seq' = seq /\ root' = [root EXCEPT ![t] = repo_roots[Did(t)]]
      /\ pc' = IF pc[t] = "loading" THEN [pc EXCEPT ![t] = "loaded"] ELSE pc
  BY <1>1, Zenon DEF RunLoad, Answer, Goto, db
<1> HIDE DEF t
<1>4. QueueInv' /\ \A d : NoPending(d) => NoPending(d)'
  BY <1>1, <1>2, <1>3, DequeueInv, Zenon DEF t
<1>5. DataInv'
  BY <1>1, <1>3, DataFrame, Zenon
<1>6. \A x \in Tasks : /\ Did(x)' = Did(x)
                     /\ pc'[x] = (IF x = t /\ pc[x] = "loading" THEN "loaded" ELSE pc[x])
                     /\ root'[x] = IF x = t THEN repo_roots[Did(t)] ELSE root[x]
  BY <1>1, <1>3, Zenon DEF Did, TypeOK
<1>7. LockInv'
  BY <1>1, <1>3, <1>6, ZenonT(60) DEF TaskInv, LockInv, InLock
<1>8. pc[t] = "loading" => NoPending(Did(t))
  <2>1. ASSUME pc[t] = "loading", NEW j \in 1..Len(calls), IsCommit(calls[j])
        PROVE  calls[j].did # Did(t) \/ j < 1
    BY <1>1, <1>2, <2>1, Zenon DEF QueueInv, LoadInv, t
  <2> QED BY <1>1, <2>1, CallFacts DEF NoPending
<1>9. FreshInv'
  <2>1. ASSUME NEW x \in Tasks, pc'[x] \in {"loaded", "commit"}
        PROVE  root'[x] = repo_roots[Did(x)] /\ NoPending(Did(x))
    BY <1>1, <1>2, <1>6, <1>8, <2>1, Zenon DEF TaskInv, FreshInv
  <2> QED BY <1>3, <1>4, <1>6, <2>1, Zenon DEF FreshInv
<1>10. BuiltInv' /\ StampInv'
  BY <1>1, <1>2, <1>3, <1>6, SMTT(30) DEF TaskInv, BuiltInv, StampInv
<1> QED BY <1>1, <1>4, <1>5, <1>7, <1>9, <1>10, Zenon DEF IInv, TaskInv

\* A call that fails frees its caller and changes nothing else.
LEMMA RunFailIInv ==
    ASSUME IInv, RunFail
    PROVE  IInv'
<1> DEFINE t == calls[1].task
<1>1. /\ TypeOK' /\ TypeOK /\ TaskInv /\ QueueInv /\ DataInv
      /\ calls # <<>> /\ calls' = Tail(calls) /\ Head(calls) = calls[1] /\ t \in Tasks
  BY HeadFacts, Zenon DEF Connection
<1>2. /\ lock' = lock /\ chan' = chan /\ commits' = commits
      /\ repo_roots' = repo_roots /\ repo_seq' = repo_seq /\ req' = req
      /\ built' = built /\ seq' = seq /\ root' = root
      /\ pc' = IF pc[t] \in {"loading", "committing"} THEN [pc EXCEPT ![t] = "failed"] ELSE pc
  BY <1>1, Zenon DEF RunFail, Answer, Goto, db, local
<1> HIDE DEF t
<1>3. QueueInv' /\ \A d : NoPending(d) => NoPending(d)'
  <2>1. pc' = pc \/ (pc[t] # "dropped" /\ pc' = [pc EXCEPT ![t] = "failed"])
    BY <1>2, Zenon
  <2> QED BY <1>1, <1>2, <2>1, DequeueInv, Zenon DEF t
<1>4. DataInv'
  BY <1>1, <1>2, DataFrame, Zenon
<1>5. \A x \in Tasks : Did(x)' = Did(x) /\ (pc'[x] = pc[x] \/ pc'[x] = "failed")
  BY <1>1, <1>2, Zenon DEF Did, TypeOK
<1>6. \A x \in Tasks : pc'[x] \in InLock => pc[x] \in InLock
  BY <1>1, <1>2, ZenonT(60) DEF TypeOK, InLock
<1>7. LockInv' /\ FreshInv' /\ BuiltInv' /\ StampInv'
  BY <1>1, <1>2, <1>3, <1>5, <1>6, SMTT(30) DEF TaskInv, LockInv, FreshInv, BuiltInv, StampInv
<1> QED BY <1>1, <1>3, <1>4, <1>7, Zenon DEF IInv, TaskInv

\* The transaction appends the row of a commit whose prev is the root it replaces.
LEMMA RunCommitIInv ==
    ASSUME IInv, RunCommit
    PROVE  IInv'
<1> DEFINE t == calls[1].task
           d == calls[1].did
           c == calls[1].commit
           n == Len(repo_seq) + 1
<1>1. /\ TypeOK' /\ TypeOK /\ TaskInv /\ QueueInv /\ DataInv
      /\ calls # <<>> /\ calls' = Tail(calls) /\ Head(calls) = calls[1] /\ 1 \in 1..Len(calls)
      /\ t \in Tasks /\ d \in Dids /\ d = Did(t)
      /\ pc[t] \in {"dropped", IF IsCommit(calls[1]) THEN "committing" ELSE "loading"}
  BY HeadFacts, Zenon DEF Connection
<1>2. IsCommit(calls[1]) /\ pc[t] \in {"dropped", "committing"}
  BY <1>1, Zenon DEF RunCommit, IsCommit
<1>3. /\ lock' = lock /\ chan' = chan /\ commits' = commits /\ req' = req
      /\ built' = built /\ root' = root /\ seq' = [seq EXCEPT ![t] = n]
      /\ repo_seq' = Append(repo_seq, [did |-> d, commit |-> c])
      /\ repo_roots' = [repo_roots EXCEPT ![d] = c]
      /\ pc' = IF pc[t] = "committing" THEN [pc EXCEPT ![t] = "committed"] ELSE pc
  BY <1>1, Zenon DEF RunCommit, Answer, Goto
<1>4. /\ c \in 1..Len(commits) /\ commits[c].did = d /\ commits[c].prev = repo_roots[d]
  BY <1>1, <1>2, Zenon DEF QueueInv, PendingInv
<1>5. /\ Len(repo_seq) \in Nat /\ Len(repo_seq') = n
      /\ repo_seq'[n].did = d /\ repo_seq'[n].commit = c
      /\ \A i \in 1..Len(repo_seq) : repo_seq'[i] = repo_seq[i] /\ i \in 1..Len(repo_seq')
      /\ \A i \in 1..Len(repo_seq') : i \in 1..Len(repo_seq) \/ i = n
  <2>1. /\ repo_seq \in Seq([did : Dids, commit : Nat])
        /\ [did |-> d, commit |-> c] \in [did : Dids, commit : Nat]
    BY <1>1, CallFacts, Zenon DEF TypeOK
  <2> DEFINE row == [did |-> d, commit |-> c]
  <2>2. row.did = d /\ row.commit = c
    BY Zenon
  <2> HIDE DEF row
  <2>3. /\ Len(repo_seq) \in Nat /\ Len(repo_seq') = n /\ repo_seq'[n] = row
        /\ \A i \in 1..Len(repo_seq) : repo_seq'[i] = repo_seq[i] /\ i \in 1..Len(repo_seq')
        /\ \A i \in 1..Len(repo_seq') : i \in 1..Len(repo_seq) \/ i = n
    BY <1>3, <2>1, AppendFacts DEF row
  <2> QED BY <2>2, <2>3, Zenon
<1>6. n \in 1..Len(repo_seq') /\ \A i \in 1..Len(repo_seq) : i < n
  BY <1>5
<1> HIDE DEF t, d, c, n
<1>7. \A x \in Dids : repo_roots'[x] = IF x = d THEN c ELSE repo_roots[x]
  BY <1>1, <1>3, Zenon DEF TypeOK
<1>8. QueueInv' /\ \A x : NoPending(x) => NoPending(x)'
  <2>1. /\ \A x \in Dids : repo_roots'[x] = repo_roots[x]
                              \/ (IsCommit(calls[1]) /\ x = calls[1].did)
        /\ pc' = pc \/ (pc[t] # "dropped" /\ pc' = [pc EXCEPT ![t] = "committed"])
    BY <1>2, <1>3, <1>7, Zenon DEF d
  <2> QED BY <1>1, <1>3, <2>1, DequeueInv, Zenon DEF t
<1>9. \A x \in Tasks : /\ Did(x)' = Did(x) /\ Did(x) \in Dids
                     /\ pc'[x] = (IF x = t /\ pc[x] = "committing" THEN "committed" ELSE pc[x])
                     /\ seq'[x] = IF x = t THEN n ELSE seq[x]
  BY <1>1, <1>3, ReqFacts, Zenon DEF Did, TypeOK
<1>10. TaskInv'
  <2>1. LockInv'
    BY <1>1, <1>3, <1>9, ZenonT(60) DEF TaskInv, LockInv, InLock
  <2>2. ASSUME NEW x \in Tasks, pc'[x] \in {"loaded", "commit"}
        PROVE  Did(x) # d /\ pc'[x] = pc[x] /\ root[x] = repo_roots[Did(x)] /\ NoPending(Did(x))
    <3>1. pc'[x] = pc[x]
      BY <1>9, <2>2, Zenon
    <3>2. root[x] = repo_roots[Did(x)] /\ NoPending(Did(x))
      BY <1>1, <2>2, <3>1, Zenon DEF TaskInv, FreshInv
    <3>3. Did(x) # d
      BY <1>1, <1>2, <3>2, Zenon DEF NoPending, d
    <3> QED BY <3>1, <3>2, <3>3, Zenon
  <2>3. FreshInv'
    BY <1>3, <1>7, <1>8, <1>9, <2>2, ZenonT(60) DEF FreshInv
  <2>4. BuiltInv'
    BY <1>1, <1>3, <1>9 DEF TaskInv, BuiltInv
  <2>5. \A i \in 1..Len(chan) : chan[i] \in 1..Len(repo_seq)
    BY <1>1, Zenon DEF DataInv, RefInv
  <2>6. StampInv'
    <3> SUFFICES ASSUME NEW x \in Tasks, pc'[x] \in {"committed", "publish"}
                 PROVE  /\ seq'[x] \in 1..Len(repo_seq')
                        /\ repo_seq'[seq'[x]].did = Did(x)
                        /\ \A i \in 1..Len(chan) :
                             repo_seq'[chan[i]].did = Did(x) => chan[i] < seq'[x]
      BY <1>3, <1>9, Zenon DEF StampInv
    <3>1. CASE x = t
      <4>1. seq'[x] = n /\ Did(x) = d
        BY <1>1, <1>9, <3>1, Zenon
      <4> QED BY ONLY <1>5, <1>6, <2>5, <4>1, Zenon
    <3>2. CASE x # t
      <4>1. pc'[x] = pc[x] /\ seq'[x] = seq[x]
        BY <1>9, <3>2, Zenon
      <4>2. /\ seq[x] \in 1..Len(repo_seq) /\ repo_seq[seq[x]].did = Did(x)
            /\ \A i \in 1..Len(chan) : repo_seq[chan[i]].did = Did(x) => chan[i] < seq[x]
        BY <1>1, <4>1, Zenon DEF TaskInv, StampInv
      <4> QED BY ONLY <1>5, <2>5, <4>1, <4>2, Zenon
    <3> QED BY <3>1, <3>2, Zenon
  <2> QED BY <2>1, <2>3, <2>4, <2>6, Zenon DEF TaskInv
<1>11. DataInv'
  <2> DEFINE NewRows(x) == {i \in 1..Len(repo_seq') : repo_seq'[i].did = x}
  <2>1. DOMAIN repo_seq = 1..Len(repo_seq) /\ DOMAIN repo_seq' = 1..Len(repo_seq')
    BY <1>1 DEF TypeOK
  <2>2. \A x : NewRows(x) = Rows(x) \cup (IF x = d THEN {n} ELSE {})
    BY <1>5, <1>6, <2>1, Zenon DEF Rows
  <2>3. \A x : \A i \in Rows(x) : i \in 1..Len(repo_seq) /\ i < n /\ i \in Nat /\ repo_seq'[i] = repo_seq[i]
    <3>1. \A i \in 1..Len(repo_seq) : i < n /\ i \in Nat
      BY <1>5 DEF n
    <3> QED BY <1>5, <2>1, <3>1, Zenon DEF Rows
  <2>4. n \in Nat /\ n <= n /\ \A j \in 1..Len(repo_seq) : ~(n < j) /\ j \in Nat
    BY <1>5 DEF n
  <2> HIDE DEF NewRows
  <2>5. CommitInv'
    BY <1>1, <1>3, Zenon DEF DataInv, CommitInv, TreeOf
  <2>6. RefInv'
    <3>1. c \in 0..Len(commits)
      BY <1>1, <1>4, SMTT(30) DEF TypeOK
    <3> QED BY <1>1, <1>3, <1>4, <1>5, <1>7, <3>1, ZenonT(60) DEF DataInv, RefInv
  <2>7. ASSUME NEW j \in 1..Len(repo_seq')
        PROVE  LET earlier == {i \in NewRows(repo_seq'[j].did) : i < j}
                   prev == commits'[repo_seq'[j].commit].prev
               IN  IF earlier = {} THEN prev = 0
                   ELSE \E i \in earlier : /\ \A k \in earlier : k <= i
                                           /\ prev = repo_seq'[i].commit
    <3>1. CASE j \in 1..Len(repo_seq)
      <4>1. repo_seq'[j] = repo_seq[j]
        BY <1>5, <3>1, Zenon
      <4>2. {i \in NewRows(repo_seq'[j].did) : i < j} = {i \in Rows(repo_seq[j].did) : i < j}
        BY <2>2, <2>4, <3>1, <4>1, Zenon
      <4>3. LET earlier == {i \in Rows(repo_seq[j].did) : i < j}
                prev == commits[repo_seq[j].commit].prev
            IN  IF earlier = {} THEN prev = 0
                ELSE \E i \in earlier : /\ \A k \in earlier : k <= i
                                        /\ prev = repo_seq[i].commit
        BY <1>1, <2>1, <3>1, Zenon DEF DataInv, LinearHistory
      <4>4. \A i \in {i \in Rows(repo_seq[j].did) : i < j} : repo_seq'[i] = repo_seq[i]
        BY <2>3, Zenon
      <4> QED BY <1>3, <4>1, <4>2, <4>3, <4>4, Zenon
    <3>2. CASE j = n
      <4>1. {i \in NewRows(repo_seq'[j].did) : i < j} = Rows(d)
        BY <1>5, <2>2, <2>3, <2>4, <3>2
      <4>2. commits'[repo_seq'[j].commit].prev = repo_roots[d]
        BY <1>3, <1>4, <1>5, <3>2, Zenon
      <4> QED BY <1>1, <2>3, <4>1, <4>2, ZenonT(30) DEF DataInv, RootIsTip
    <3> QED BY <1>5, <3>1, <3>2, Zenon
  <2>8. LinearHistory'
    BY <2>1, <2>7, Zenon DEF LinearHistory, Rows, NewRows
  <2>9. ASSUME NEW x \in Dids
        PROVE  IF NewRows(x) = {} THEN repo_roots'[x] = 0
               ELSE \E i \in NewRows(x) : /\ \A k \in NewRows(x) : k <= i
                                          /\ repo_roots'[x] = repo_seq'[i].commit
    <3>1. CASE x = d
      <4>1. n \in NewRows(x) /\ \A k \in NewRows(x) : k <= n
        BY <2>2, <2>3, <2>4, <3>1, SMTT(30)
      <4> QED BY <1>5, <1>7, <3>1, <4>1, Zenon
    <3>2. CASE x # d
      BY <1>1, <1>7, <2>2, <2>3, <3>2, SMTT(30) DEF DataInv, RootIsTip
    <3> QED BY <3>1, <3>2, Zenon
  <2>10. RootIsTip'
    BY <2>1, <2>9, Zenon DEF RootIsTip, Rows, NewRows
  <2>11. BroadcastOrder'
    <3>1. DOMAIN chan = 1..Len(chan)
      BY <1>1 DEF TypeOK
    <3> QED BY <1>1, <1>3, <1>5, <3>1, SMTT(30) DEF DataInv, RefInv, BroadcastOrder
  <2> QED BY <2>5, <2>6, <2>8, <2>10, <2>11, Zenon DEF DataInv
<1> QED BY <1>1, <1>8, <1>10, <1>11, Zenon DEF IInv

\* A crash leaves the database as the last transaction left it.
LEMMA CrashIInv ==
    ASSUME IInv, Crash
    PROVE  IInv'
<1>1. /\ TypeOK' /\ calls' = <<>> /\ chan' = <<>> /\ commits' = commits
      /\ repo_roots' = repo_roots /\ repo_seq' = repo_seq
  BY ConnectionType, Zenon DEF IInv, Crash
<1>2. Len(calls') = 0 /\ Len(chan') = 0 /\ DOMAIN chan' = {} /\ 1..0 = {}
  BY <1>1
<1>3. \A x \in Tasks : pc'[x] \notin InLock
  BY Zenon DEF Crash, InLock
<1>4. TaskInv'
  BY <1>3, Zenon DEF TaskInv, LockInv, FreshInv, BuiltInv, StampInv, InLock
<1>5. QueueInv'
  BY <1>2, Zenon DEF QueueInv, CallInv, UniqueInv, PendingInv, LoadInv
<1>6. CommitInv'
  BY <1>1, Zenon DEF IInv, DataInv, CommitInv, TreeOf
<1>7. RefInv' /\ BroadcastOrder'
  BY <1>1, <1>2, ZenonT(60) DEF IInv, DataInv, RefInv, BroadcastOrder
<1>8. LinearHistory' /\ RootIsTip'
  BY <1>1 DEF IInv, DataInv, LinearHistory, RootIsTip, Rows
<1> QED BY <1>1, <1>4, <1>5, <1>6, <1>7, <1>8, Zenon DEF IInv, DataInv

\* The invariant holds initially.
LEMMA InitIInv == Init => IInv
<1> SUFFICES ASSUME Init PROVE IInv
  BY Zenon
<1>1. TypeOK
  BY DEF Init, TypeOK
<1>2. /\ Len(commits) = 0 /\ Len(repo_seq) = 0 /\ Len(calls) = 0 /\ Len(chan) = 0
      /\ DOMAIN repo_seq = {} /\ DOMAIN chan = {} /\ 1..0 = {} /\ 0 \in 0..0
  BY DEF Init
<1>3. TaskInv
  BY Zenon DEF Init, TaskInv, LockInv, FreshInv, BuiltInv, StampInv, InLock
<1>4. QueueInv
  BY <1>2, Zenon DEF QueueInv, CallInv, UniqueInv, PendingInv, LoadInv
<1>5. DataInv
  BY <1>2, Zenon DEF Init, DataInv, CommitInv, RefInv, LinearHistory, RootIsTip, BroadcastOrder, Rows
<1> QED BY <1>1, <1>3, <1>4, <1>5, Zenon DEF IInv

\* Every step of the specification preserves the invariant.
LEMMA NextIInv ==
    ASSUME IInv, [Next]_vars
    PROVE  IInv'
<1>1. ASSUME NEW t \in Tasks, TaskStep(t) \/ Drop(t)
      PROVE  IInv'
  BY <1>1, MoveIInv, CallLoadIInv, BuildIInv, CallCommitIInv, PublishIInv, Zenon DEF TaskStep
<1>2. CASE Connection \/ Crash
  BY <1>2, RunLoadIInv, RunCommitIInv, RunFailIInv, CrashIInv, Zenon DEF Connection
<1>3. CASE UNCHANGED vars
  <2>1. /\ UNCHANGED db /\ UNCHANGED local /\ lock' = lock /\ writer' = writer
        /\ calls' = calls /\ chan' = chan /\ pc' = pc
    BY <1>3, Zenon DEF vars
  <2>2. TypeOK'
    BY <2>1, Zenon DEF IInv, TypeOK, db, local
  <2>3. TaskInv'
    BY <2>1, Zenon DEF IInv, TaskInv, LockInv, FreshInv, BuiltInv, StampInv, NoPending, Did, db, local
  <2>4. QueueInv'
    <3>1. /\ CallInv /\ UniqueInv /\ PendingInv /\ LoadInv
          /\ calls' = calls /\ pc' = pc /\ req' = req /\ commits' = commits
          /\ repo_roots' = repo_roots
      BY <2>1, Zenon DEF IInv, QueueInv, db, local
    <3>2. CallInv'
      BY ONLY <3>1, Zenon DEF CallInv, Did
    <3>3. UniqueInv'
      BY ONLY <3>1 DEF UniqueInv
    <3>4. PendingInv'
      BY ONLY <3>1, Zenon DEF PendingInv
    <3>5. LoadInv'
      BY ONLY <3>1, Zenon DEF LoadInv
    <3> QED BY <3>2, <3>3, <3>4, <3>5, Zenon DEF QueueInv
  <2>5. DataInv'
    BY <2>1, DataFrame, Zenon DEF IInv, db
  <2> QED BY <2>2, <2>3, <2>4, <2>5, Zenon DEF IInv
<1> QED BY <1>1, <1>2, <1>3, Zenon DEF Next

-----------------------------------------------------------------------------

\* The inductive invariant holds in every reachable state.
THEOREM Invariance == Spec => []IInv
  BY InitIInv, NextIInv, PTL DEF Spec

\* Every variable of the write path keeps its type.
THEOREM TypeCorrect == Spec => []TypeOK
<1>1. IInv => TypeOK
  BY Zenon DEF IInv
<1> QED BY <1>1, Invariance, PTL

\* No interleaving of writers, dropped futures, failed transactions and crashes
\* forks the history of a repository.
THEOREM HistoryIsLinear == Spec => []LinearHistory
<1>1. IInv => LinearHistory
  BY Zenon DEF IInv, DataInv
<1> QED BY <1>1, Invariance, PTL

\* The stored root and the firehose log never disagree.
THEOREM RootFollowsLog == Spec => []RootIsTip
<1>1. IInv => RootIsTip
  BY Zenon DEF IInv, DataInv
<1> QED BY <1>1, Invariance, PTL

\* The broadcasts of one DID are in seq order.
THEOREM PublishedInOrder == Spec => []BroadcastOrder
<1>1. IInv => BroadcastOrder
  BY Zenon DEF IInv, DataInv
<1> QED BY <1>1, Invariance, PTL

-----------------------------------------------------------------------------
(* What is committed is broadcast, or was abandoned by its handler.         *)

Unpublished == {"committed", "publish"}

\* A task is stamped once: it has no seq before its transaction, nor while its
\* commit call is queued.
OnceInv ==
    /\ \A t \in Tasks : pc[t] \notin Unpublished \cup {"done", "dropped"} => seq[t] = 0
    /\ \A i \in 1..Len(calls) : IsCommit(calls[i]) => seq[calls[i].task] = 0

\* The task of row i has still to broadcast it, never will, or was dropped.
Owned(i) ==
    \E t \in Tasks : seq[t] = i /\ (pc[t] \in Unpublished \cup {"dropped"} \/ ~req[t].publish)

OwnedInv == \A i \in 1..Len(repo_seq) : i > base => Broadcast(i) \/ Owned(i)

PInv == OnceInv /\ OwnedInv

\* Moving one task to a label that keeps its row owned, with log, channel, stamps and
\* queue as they were, or a shorter queue.
LEMMA OwnedFrame ==
    ASSUME TypeOK, PInv, NEW t \in Tasks, NEW label,
           pc' = [pc EXCEPT ![t] = label] \/ pc' = pc,
           repo_seq' = repo_seq, base' = base, chan' = chan, req' = req, seq' = seq,
           pc[t] \in Unpublished => label \in Unpublished \cup {"dropped"},
           pc[t] = "dropped" => pc' = pc,
           label \in Unpublished \cup {"done", "dropped"} \/ seq[t] = 0
    PROVE  OwnedInv' /\ \A x \in Tasks : pc'[x] \notin Unpublished \cup {"done", "dropped"} => seq'[x] = 0
<1>1. \A x \in Tasks : pc'[x] = pc[x] \/ (x = t /\ pc'[x] = label /\ pc[t] # "dropped")
  BY Zenon DEF TypeOK
<1>2. \A x \in Tasks : pc'[x] \notin Unpublished \cup {"done", "dropped"} => seq'[x] = 0
  BY <1>1, Zenon DEF PInv, OnceInv
<1>3. \A x \in Tasks : pc[x] \in Unpublished \cup {"dropped"} => pc'[x] \in Unpublished \cup {"dropped"}
  BY <1>1, Zenon
<1>4. \A i : (Owned(i) => Owned(i)') /\ (Broadcast(i) => Broadcast(i)')
  BY <1>3, Zenon DEF Owned, Broadcast
<1>5. OwnedInv'
  BY <1>4, Zenon DEF PInv, OwnedInv
<1> QED BY <1>2, <1>5, Zenon

\* The steps of a task before its broadcast, and a dropped task.
LEMMA TaskPInv ==
    ASSUME IInv, PInv, NEW t \in Tasks,
           Begin(t) \/ Lock(t) \/ CallLoadRepoRoot(t) \/ BuildCommit(t) \/ RefuseOps(t)
             \/ CallCommitBlocks(t) \/ StampSeq(t) \/ ReturnError(t) \/ Drop(t)
    PROVE  PInv'
<1>1. /\ repo_seq' = repo_seq /\ base' = base /\ chan' = chan /\ req' = req /\ seq' = seq
      /\ calls \in Seq(Calls) /\ TypeOK
  BY Zenon DEF IInv, TypeOK, Begin, Lock, CallLoadRepoRoot, BuildCommit, RefuseOps,
        CallCommitBlocks, StampSeq, ReturnError, Drop, db, local
<1>2. PICK label : /\ pc' = [pc EXCEPT ![t] = label]
                   /\ pc[t] \in Unpublished => label \in Unpublished \cup {"dropped"}
                   /\ pc[t] # "dropped"
                   /\ label \in Unpublished \cup {"done", "dropped"}
                        \/ pc[t] \notin Unpublished \cup {"done", "dropped"}
  <2>1. CASE Begin(t) \/ Lock(t) \/ CallLoadRepoRoot(t) \/ BuildCommit(t)
    BY <2>1, Zenon DEF Begin, Lock, CallLoadRepoRoot, BuildCommit, Goto, Unpublished
  <2>2. CASE RefuseOps(t) \/ CallCommitBlocks(t) \/ ReturnError(t)
    BY <2>2, Zenon DEF RefuseOps, CallCommitBlocks, ReturnError, Goto, Unpublished
  <2>3. CASE StampSeq(t)
    BY <2>3, Zenon DEF StampSeq, Goto, Unpublished
  <2>4. CASE Drop(t)
    BY <2>4, Zenon DEF Drop, Goto, InLock, Unpublished
  <2> QED BY <2>1, <2>2, <2>3, <2>4, Zenon
<1>3. OwnedInv' /\ \A x \in Tasks : pc'[x] \notin Unpublished \cup {"done", "dropped"} => seq'[x] = 0
  BY <1>1, <1>2, OwnedFrame, Zenon DEF PInv, OnceInv
<1>4. \A i \in 1..Len(calls') : IsCommit(calls'[i]) => seq'[calls'[i].task] = 0
  <2>1. CASE calls' = calls
    BY <1>1, <2>1, Zenon DEF PInv, OnceInv
  <2>2. CASE \E k, c : SendCall(t, k, c) /\ pc[t] \in {"load", "commit"}
    <3>1. PICK k, c : SendCall(t, k, c) /\ pc[t] \in {"load", "commit"}
      BY <2>2, Zenon
    <3> DEFINE e == [task |-> t, kind |-> k, did |-> Did(t), commit |-> c]
    <3>2. calls' = Append(calls, e) /\ e.task = t
      BY <3>1, Zenon DEF SendCall
    <3>3. seq[t] = 0
      BY <3>1, Zenon DEF PInv, OnceInv, Unpublished
    <3> HIDE DEF e
    <3>4. \A i \in 1..Len(calls') : (i \in 1..Len(calls) /\ calls'[i] = calls[i]) \/ calls'[i] = e
      BY <1>1, <3>2, SMTT(30)
    <3> QED BY <1>1, <3>2, <3>3, <3>4, Zenon DEF PInv, OnceInv
  <2> QED BY <2>1, <2>2, Zenon DEF Begin, Lock, CallLoadRepoRoot, BuildCommit, RefuseOps,
             CallCommitBlocks, StampSeq, ReturnError, Drop
<1> QED BY <1>3, <1>4, Zenon DEF PInv, OnceInv

\* The broadcast: the row of t is in the channel from now on, or never published.
LEMMA PublishPInv ==
    ASSUME IInv, PInv, NEW t \in Tasks, Publish(t)
    PROVE  PInv'
<1>1. /\ repo_seq' = repo_seq /\ base' = base /\ req' = req /\ seq' = seq /\ calls' = calls
      /\ pc[t] = "publish" /\ pc' = [pc EXCEPT ![t] = "done"] /\ TypeOK
      /\ chan' = IF req[t].publish THEN Append(chan, seq[t]) ELSE chan
  BY Zenon DEF IInv, Publish, Goto, db, local
<1>2. \A x \in Tasks : pc'[x] = IF x = t THEN "done" ELSE pc[x]
  BY <1>1, Zenon DEF TypeOK
<1>3. OnceInv'
  BY <1>1, <1>2, Zenon DEF PInv, OnceInv
<1>4. /\ \A n \in DOMAIN chan : n \in DOMAIN chan' /\ chan'[n] = chan[n]
      /\ req[t].publish => \E n \in DOMAIN chan' : chan'[n] = seq[t]
  <2>1. chan \in Seq(Nat) /\ seq[t] \in Nat
    BY <1>1, Zenon DEF TypeOK
  <2>2. CASE req[t].publish
    BY <1>1, <2>1, <2>2, SMTT(30)
  <2>3. CASE ~req[t].publish
    BY <1>1, <2>3, Zenon
  <2> QED BY <2>2, <2>3, Zenon
<1>5. ASSUME NEW i, Broadcast(i) \/ Owned(i)
      PROVE  Broadcast(i)' \/ Owned(i)'
  <2>1. CASE Broadcast(i)
    BY <1>4, <2>1, Zenon DEF Broadcast
  <2>2. CASE Owned(i)
    <3>1. PICK x \in Tasks : /\ seq[x] = i
                             /\ pc[x] \in Unpublished \cup {"dropped"} \/ ~req[x].publish
      BY <2>2, Zenon DEF Owned
    <3>2. CASE x = t /\ req[t].publish
      BY <1>4, <3>1, <3>2, Zenon DEF Broadcast
    <3>3. CASE x # t \/ ~req[x].publish
      BY <1>1, <1>2, <3>1, <3>3, Zenon DEF Owned
    <3> QED BY <3>2, <3>3, Zenon
  <2> QED BY <1>5, <2>1, <2>2, Zenon
<1>6. OwnedInv'
  BY <1>1, <1>5, Zenon DEF PInv, OwnedInv
<1> QED BY <1>3, <1>6, Zenon DEF PInv

\* The connection thread: the transaction stamps the task of its call, which had no
\* row before; the other calls leave every stamp alone.
LEMMA ConnectionPInv ==
    ASSUME IInv, PInv, Connection
    PROVE  PInv'
<1> DEFINE t == calls[1].task
<1>1. /\ TypeOK /\ QueueInv /\ calls # <<>> /\ calls' = Tail(calls) /\ Head(calls) = calls[1]
      /\ 1 \in 1..Len(calls) /\ t \in Tasks
      /\ pc[t] \in {"dropped", IF IsCommit(calls[1]) THEN "committing" ELSE "loading"}
  BY HeadFacts, Zenon
<1>2. \A i \in 1..Len(calls') : i + 1 \in 1..Len(calls) /\ calls'[i] = calls[i + 1] /\ i + 1 # 1
  BY <1>1, CallFacts, TailFacts, Zenon
<1>3. CASE RunLoad \/ RunFail
  <2>1. /\ repo_seq' = repo_seq /\ base' = base /\ chan' = chan /\ req' = req /\ seq' = seq
        /\ \E label \in {"loaded", "failed"} :
              \/ pc' = pc
              \/ pc[t] \in {"loading", "committing"} /\ pc' = [pc EXCEPT ![t] = label]
    BY <1>1, <1>3, Zenon DEF RunLoad, RunFail, Answer, Goto, db, local
  <2> HIDE DEF t
  <2>2. OwnedInv' /\ \A x \in Tasks : pc'[x] \notin Unpublished \cup {"done", "dropped"} => seq'[x] = 0
    <3>1. CASE pc' = pc
      BY <1>1, <2>1, <3>1, OwnedFrame, Zenon DEF PInv, OwnedInv, OnceInv, Owned, Broadcast
    <3>2. ASSUME NEW label \in {"loaded", "failed"}, pc[t] \in {"loading", "committing"},
                 pc' = [pc EXCEPT ![t] = label]
          PROVE  OwnedInv' /\ \A x \in Tasks : pc'[x] \notin Unpublished \cup {"done", "dropped"} => seq'[x] = 0
      <4>1. seq[t] = 0 /\ pc[t] \notin Unpublished /\ pc[t] # "dropped"
        BY <1>1, <3>2, Zenon DEF PInv, OnceInv, Unpublished
      <4> QED BY <1>1, <2>1, <3>2, <4>1, OwnedFrame, Zenon
    <3> QED BY <2>1, <3>1, <3>2, Zenon
  <2>3. \A i \in 1..Len(calls') : IsCommit(calls'[i]) => seq'[calls'[i].task] = 0
    BY <1>2, <2>1, Zenon DEF PInv, OnceInv
  <2> QED BY <2>2, <2>3, Zenon DEF PInv, OnceInv
<1>4. CASE RunCommit
  <2>n. PICK n : n = Len(repo_seq) + 1 OBVIOUS
  <2>c. IsCommit(calls[1]) BY <1>1, <1>4, Zenon DEF RunCommit, IsCommit
  <2>1. /\ IsCommit(calls[1]) /\ pc[t] \in {"dropped", "committing"}
        /\ base' = base /\ chan' = chan /\ req' = req /\ seq' = [seq EXCEPT ![t] = n]
        /\ repo_seq' = Append(repo_seq, [did |-> calls[1].did, commit |-> calls[1].commit])
        /\ pc' = IF pc[t] = "committing" THEN [pc EXCEPT ![t] = "committed"] ELSE pc
    BY <1>1, <1>4, <2>n, <2>c, Zenon DEF RunCommit, Answer, Goto
  <2>2. /\ \A i \in 1..Len(repo_seq') : i \in 1..Len(repo_seq) \/ i = n
        /\ \A i \in 1..Len(repo_seq) : i # 0
    <3>1. repo_seq \in Seq([did : Dids, commit : Nat]) BY <1>1, Zenon DEF TypeOK
    <3> DEFINE row == [did |-> calls[1].did, commit |-> calls[1].commit]
    <3>2. repo_seq' = Append(repo_seq, row) BY <2>1, Zenon
    <3> HIDE DEF row
    <3> QED BY <2>n, <3>1, <3>2, SMTT(30)
  <2> HIDE DEF t
  <2>3. seq[t] = 0
    BY <1>1, <2>1, Zenon DEF PInv, OnceInv, t
  <2>4. \A x \in Tasks : /\ seq'[x] = IF x = t THEN n ELSE seq[x]
                         /\ pc'[x] = IF x = t THEN pc'[t] ELSE pc[x]
    BY <1>1, <2>1, Zenon DEF TypeOK
  <2>5. pc'[t] \in {"committed", "dropped"}
    BY <1>1, <2>1, Zenon DEF TypeOK
  <2>6. \A i \in 1..Len(repo_seq') : i > base => Broadcast(i)' \/ Owned(i)'
    <3>1. ASSUME NEW i \in 1..Len(repo_seq), Broadcast(i) \/ Owned(i)
          PROVE  Broadcast(i)' \/ Owned(i)'
      <4>1. CASE Broadcast(i)
        BY <2>1, <4>1, Zenon DEF Broadcast
      <4>2. CASE Owned(i)
        <5>1. PICK x \in Tasks : /\ seq[x] = i
                                 /\ pc[x] \in Unpublished \cup {"dropped"} \/ ~req[x].publish
          BY <4>2, Zenon DEF Owned
        <5>2. x # t BY <2>2, <2>3, <5>1, Zenon
        <5> QED BY <2>1, <2>4, <5>1, <5>2, Zenon DEF Owned
      <4> QED BY <3>1, <4>1, <4>2, Zenon
    <3>2. Owned(n)'
      BY <1>1, <2>4, <2>5, Zenon DEF Owned, Unpublished
    <3> QED BY <2>1, <2>2, <3>1, <3>2, Zenon DEF PInv, OwnedInv
  <2>7. \A i \in 1..Len(calls') : IsCommit(calls'[i]) => seq'[calls'[i].task] = 0
    <3> SUFFICES ASSUME NEW i \in 1..Len(calls'), IsCommit(calls'[i])
                 PROVE  seq'[calls'[i].task] = 0
      BY Zenon
    <3>1. i + 1 \in 1..Len(calls) /\ calls'[i] = calls[i + 1] /\ i + 1 # 1 BY <1>2, Zenon
    <3> DEFINE j == i + 1
    <3>2. j \in 1..Len(calls) /\ calls'[i] = calls[j] /\ j # 1 BY <3>1, Zenon
    <3> HIDE DEF j
    <3>3. calls[j].did # calls[1].did
      BY <1>1, <2>1, <3>2, Zenon DEF QueueInv, UniqueInv
    <3>4. calls[j].task # t /\ calls[j].task \in Tasks
      BY <1>1, <3>2, <3>3, CallFacts, Zenon DEF QueueInv, CallInv, t
    <3> QED BY <2>4, <3>2, <3>4, Zenon DEF PInv, OnceInv
  <2>8. \A x \in Tasks : pc'[x] \notin Unpublished \cup {"done", "dropped"} => seq'[x] = 0
    BY <2>4, <2>5, Zenon DEF PInv, OnceInv, Unpublished
  <2> QED BY <2>1, <2>6, <2>7, <2>8, Zenon DEF PInv, OnceInv, OwnedInv
<1> QED BY <1>3, <1>4, Zenon DEF Connection

\* A crash: the rows of the process that died are no longer its successor's to publish.
LEMMA CrashPInv ==
    ASSUME IInv, PInv, Crash
    PROVE  PInv'
<1>1. /\ calls' = <<>> /\ base' = Len(repo_seq) /\ repo_seq' = repo_seq /\ seq' = seq
      /\ repo_seq \in Seq([did : Dids, commit : Nat])
      /\ \A x \in Tasks : pc'[x] = pc[x] \/ pc'[x] = "dropped"
  BY Zenon DEF IInv, TypeOK, Crash, local
<1>2. 1..Len(calls') = {} /\ \A i \in 1..Len(repo_seq') : ~(i > base')
  BY <1>1, SMTT(30)
<1>3. \A x \in Tasks : pc'[x] \notin Unpublished \cup {"done", "dropped"} => seq'[x] = 0
  BY <1>1, Zenon DEF PInv, OnceInv
<1> QED BY <1>2, <1>3, Zenon DEF PInv, OnceInv, OwnedInv

\* apply_one publishes what it commits, for any accounts, requests and tasks, with
\* failing transactions, dropped handlers and crashes: a row of this process is
\* broadcast, or its handler is still inside the lock, publishes nothing, or was dropped.
THEOREM CommitsArePublished == Spec => []CommittedIsPublished
<1>1. Init => PInv
  <2> SUFFICES ASSUME Init PROVE PInv
    BY Zenon
  <2>1. 1..Len(calls) = {} /\ 1..Len(repo_seq) = {}
    BY SMTT(30) DEF Init
  <2> QED BY <2>1, Zenon DEF Init, PInv, OnceInv, OwnedInv
<1>2. IInv /\ PInv /\ [Next]_vars => PInv'
  <2> SUFFICES ASSUME IInv, PInv, [Next]_vars PROVE PInv'
    BY Zenon
  <2>1. ASSUME NEW t \in Tasks, TaskStep(t) \/ Drop(t) PROVE PInv'
    BY <2>1, TaskPInv, PublishPInv, Zenon DEF TaskStep
  <2>2. CASE Connection BY <2>2, ConnectionPInv, Zenon
  <2>3. CASE Crash BY <2>3, CrashPInv, Zenon
  <2>4. CASE UNCHANGED vars
    <3>1. /\ repo_seq' = repo_seq /\ base' = base /\ chan' = chan /\ req' = req /\ seq' = seq
          /\ pc' = pc /\ calls' = calls
      BY <2>4, Zenon DEF vars, db, local
    <3> QED BY <3>1, Zenon DEF PInv, OnceInv, OwnedInv, Owned, Broadcast
  <2> QED BY <2>1, <2>2, <2>3, <2>4, Zenon DEF Next
<1>3. IInv /\ PInv => CommittedIsPublished
  <2> SUFFICES ASSUME IInv, PInv, NEW i \in DOMAIN repo_seq, i > base
               PROVE  Broadcast(i) \/ StillToPublish(i) \/ Abandoned(i)
    BY Zenon DEF CommittedIsPublished
  <2>1. i \in 1..Len(repo_seq)
    BY DEF IInv, TypeOK
  <2>2. CASE Owned(i)
    <3>1. PICK t \in Tasks : /\ seq[t] = i
                             /\ pc[t] \in Unpublished \cup {"dropped"} \/ ~req[t].publish
      BY <2>2, Zenon DEF Owned
    <3>2. CASE pc[t] \in Unpublished
      <4>1. repo_seq[i].did = Did(t) /\ lock[Did(t)] = t
        BY <3>1, <3>2, Zenon DEF IInv, TaskInv, StampInv, LockInv, InLock, Unpublished
      <4> QED BY <3>1, <4>1, Zenon DEF StillToPublish
    <3> QED BY <3>1, <3>2, Zenon DEF StillToPublish, Abandoned
  <2> QED BY <2>1, <2>2, Zenon DEF PInv, OwnedInv
<1> QED BY <1>1, <1>2, <1>3, Invariance, PTL DEF Spec

-----------------------------------------------------------------------------
(* The write path implements CommitLog.                                     *)

Heads == [d \in Dids |-> TreeOf(repo_roots[d])]

Events == [i \in 1..Len(repo_seq) |-> [did |-> repo_seq[i].did,
                                       ops |-> commits[repo_seq[i].commit].ops]]

\* A commit block that no root and no row names is invisible to the abstraction.
LEMMA BuildIsInvisible ==
    ASSUME IInv, NEW t \in Tasks, BuildCommit(t)
    PROVE  Heads' = Heads /\ Events' = Events
<1>1. /\ repo_roots' = repo_roots /\ repo_seq' = repo_seq /\ commits \in Seq(Commits)
      /\ Len(commits) \in Nat
  BY DEF BuildCommit, IInv, TypeOK
<1>2. PICK new \in Trees : commits' = Append(commits, [did |-> Did(t), prev |-> root[t],
                                                      tree |-> new, ops |-> req[t].ops])
  BY Zenon DEF BuildCommit
<1>3. [did |-> Did(t), prev |-> root[t], tree |-> new, ops |-> req[t].ops] \in Commits
  BY ReqFacts, Zenon DEF Commits, IInv, TypeOK
<1>4. \A c \in 1..Len(commits) : commits'[c] = commits[c]
  <2> DEFINE n == [did |-> Did(t), prev |-> root[t], tree |-> new, ops |-> req[t].ops]
  <2>1. commits \in Seq(Commits) /\ n \in Commits /\ commits' = Append(commits, n)
    BY <1>1, <1>2, <1>3, Zenon
  <2> HIDE DEF n
  <2> QED BY ONLY <2>1, AppendFacts, SMTT(60)
<1>5. Heads' = Heads
  <2>1. \A d \in Dids : repo_roots[d] = 0 \/ repo_roots[d] \in 1..Len(commits)
    BY <1>1, SMTT(60) DEF IInv, DataInv, RefInv
  <2> QED BY <1>1, <1>4, <2>1, Zenon DEF Heads, TreeOf
<1>6. Events' = Events
  BY <1>1, <1>4, Zenon DEF Events, IInv, DataInv, RefInv
<1> QED BY <1>5, <1>6, Zenon

\* A committed transaction is one abstract commit of some request.
LEMMA RunCommitIsCommit ==
    ASSUME IInv, RunCommit
    PROVE  \E r \in Requests :
               /\ \E new \in Trees : /\ Applies(Heads[r.did], r.ops, new)
                                     /\ Heads' = [Heads EXCEPT ![r.did] = new]
               /\ Events' = Append(Events, [did |-> r.did, ops |-> r.ops])
<1> DEFINE d == calls[1].did
           c == calls[1].commit
           n == Len(repo_seq)
<1>1. /\ TypeOK /\ QueueInv /\ DataInv /\ Head(calls) = calls[1] /\ 1 \in 1..Len(calls)
      /\ d \in Dids
  BY HeadFacts, Zenon DEF Connection
<1>2. /\ commits' = commits /\ IsCommit(calls[1])
      /\ repo_seq' = Append(repo_seq, [did |-> d, commit |-> c])
      /\ repo_roots' = [repo_roots EXCEPT ![d] = c]
  BY <1>1, Zenon DEF RunCommit, IsCommit
<1>3. c \in 1..Len(commits) /\ commits[c].did = d /\ commits[c].prev = repo_roots[d]
  BY <1>1, <1>2, Zenon DEF QueueInv, PendingInv
<1> HIDE DEF d, c
<1>4. PICK r \in Requests : r.did = d /\ r.ops = commits[c].ops
  BY <1>1, <1>3, Zenon DEF DataInv, CommitInv
<1>5. Applies(TreeOf(repo_roots[d]), r.ops, commits[c].tree)
  BY <1>1, <1>3, <1>4, Zenon DEF DataInv, CommitInv
<1>6. commits[c].tree \in Trees /\ c # 0 /\ commits[c].ops \in Seq(WriteOps)
  <2>1. commits \in Seq(Commits) /\ Len(commits) \in Nat
    BY <1>1, SMTT(30) DEF TypeOK
  <2>2. commits[c] \in Commits /\ c # 0
    BY <1>3, <2>1
  <2> QED BY <2>2, Zenon DEF Commits
<1>7. Heads' = [Heads EXCEPT ![d] = commits[c].tree]
  <2>1. \A x \in Dids : repo_roots'[x] = IF x = d THEN c ELSE repo_roots[x]
    BY <1>1, <1>2, Zenon DEF TypeOK
  <2> DEFINE NewTreeOf(k) == IF k = 0 THEN EmptyTree ELSE commits'[k].tree
  <2>2. Heads' = [x \in Dids |-> NewTreeOf(repo_roots'[x])]
    BY Zenon DEF Heads, TreeOf
  <2>3. \A k : NewTreeOf(k) = TreeOf(k)
    BY <1>2, Zenon DEF TreeOf
  <2>4. TreeOf(c) = commits[c].tree
    BY <1>6, Zenon DEF TreeOf
  <2> HIDE DEF NewTreeOf
  <2>5. \A x \in Dids : NewTreeOf(repo_roots'[x]) = IF x = d THEN commits[c].tree ELSE TreeOf(repo_roots[x])
    BY <2>1, <2>3, <2>4, Zenon
  <2> QED BY <2>2, <2>5, Zenon DEF Heads
<1>8. Heads[d] = TreeOf(repo_roots[d])
  BY <1>1, Zenon DEF Heads
<1>9. Events' = Append(Events, [did |-> d, ops |-> r.ops])
  <2> DEFINE S == [did : Dids, ops : Seq(WriteOps)]
             row == [did |-> d, commit |-> c]
             e == [did |-> d, ops |-> r.ops]
  <2>1. repo_seq \in Seq([did : Dids, commit : Nat]) /\ row \in [did : Dids, commit : Nat] /\ n \in Nat
    BY <1>1, CallFacts, SMTT(30) DEF TypeOK, c
  <2>2. row.did = d /\ row.commit = c /\ e \in S
    BY <1>1, <1>4, <1>6, Zenon
  <2> HIDE DEF row, e, S
  <2>3. /\ Len(repo_seq') = n + 1 /\ repo_seq'[n + 1] = row
        /\ \A i \in 1..n : repo_seq'[i] = repo_seq[i]
    <3> DEFINE R == [did : Dids, commit : Nat]
    <3>1. repo_seq \in Seq(R) /\ row \in R /\ repo_seq' = Append(repo_seq, row) /\ n = Len(repo_seq)
      BY <1>2, <2>1, Zenon DEF row
    <3> HIDE DEF R
    <3> QED BY ONLY <3>1, AppendFacts
  <2>4. Events \in Seq(S) /\ Len(Events) = n
    <3>1. \A i \in 1..n : repo_seq[i].did \in Dids /\ repo_seq[i].commit \in 1..Len(commits)
      <4>1. \A i \in 1..n : repo_seq[i] \in [did : Dids, commit : Nat]
        <5> DEFINE R == [did : Dids, commit : Nat]
        <5>1. repo_seq \in Seq(R)
          BY <2>1, Zenon
        <5> HIDE DEF R
        <5>2. \A i \in 1..n : repo_seq[i] \in R
          BY <5>1
        <5> QED BY <5>2, Zenon DEF R
      <4>2. \A i \in 1..n : repo_seq[i].commit \in 1..Len(commits)
        BY <1>1, Zenon DEF DataInv, RefInv
      <4> QED BY <4>1, <4>2, Zenon
    <3>2. \A k \in 1..Len(commits) : commits[k].ops \in Seq(WriteOps)
      <4>1. \A k \in 1..Len(commits) : commits[k] \in Commits
        BY <1>1 DEF TypeOK
      <4> QED BY <4>1, Zenon DEF Commits
    <3>3. Events \in [1..n -> S]
      BY <3>1, <3>2, Zenon DEF Events, S
    <3> QED BY <2>1, <3>3, FunctionIsSeq, Zenon
  <2> DEFINE A == Append(Events, e)
  <2>5. A \in Seq(S) /\ Len(A) = n + 1 /\ A[n + 1] = e /\ \A i \in 1..n : A[i] = Events[i]
    BY <2>2, <2>4, AppendFacts
  <2> HIDE DEF A
  <2>6. A = [i \in 1..(n + 1) |-> A[i]]
    BY <2>5
  <2>7. Events' = [i \in 1..(n + 1) |-> A[i]]
    <3>1. ASSUME NEW i \in 1..(n + 1)
          PROVE  A[i] = [did |-> repo_seq'[i].did, ops |-> commits'[repo_seq'[i].commit].ops]
      <4>1. CASE i \in 1..n
        BY <1>2, <2>3, <2>5, <4>1, Zenon DEF Events
      <4>2. CASE i = n + 1
        BY <1>2, <1>4, <2>2, <2>3, <2>5, <4>2, Zenon DEF e
      <4> QED BY <2>1, <4>1, <4>2
    <3> QED BY <2>3, <3>1, Zenon DEF Events
  <2> QED BY <2>6, <2>7, Zenon DEF e, A
<1> QED BY <1>4, <1>5, <1>6, <1>7, <1>8, <1>9, Zenon

\* Every step of the write path is an abstract commit or changes nothing abstract.
LEMMA StepRefines ==
    ASSUME IInv, [Next]_vars
    PROVE  [Abstract!Next]_(Abstract!vars)
<1>1. CASE RunCommit
  <2>1. PICK r \in Requests :
               /\ \E new \in Trees : /\ Applies(Heads[r.did], r.ops, new)
                                     /\ Heads' = [Heads EXCEPT ![r.did] = new]
               /\ Events' = Append(Events, [did |-> r.did, ops |-> r.ops])
    BY <1>1, RunCommitIsCommit, Zenon
  <2>2. Abstract!Commit(r)
    <3>1. Abstract!Trees = Trees /\ \A tree, ops, new : Abstract!Applies(tree, ops, new)
                                                       <=> Applies(tree, ops, new)
      BY Zenon DEF Abstract!Trees, Trees, Abstract!Applies, Applies, Abstract!CanApply, CanApply,
             Abstract!ApplyOp, ApplyOp
    <3> QED BY <2>1, <3>1, Zenon DEF Abstract!Commit, Heads, Events
  <2> QED BY <2>2, Zenon DEF Abstract!Next
<1>2. CASE Heads' = Heads /\ Events' = Events
  BY <1>2, Zenon DEF Abstract!vars, Heads, Events
<1>3. CASE commits' = commits /\ repo_roots' = repo_roots /\ repo_seq' = repo_seq
  BY <1>2, <1>3, Zenon DEF Heads, Events, TreeOf
<1>4. ASSUME NEW t \in Tasks, TaskStep(t) \/ Drop(t)
      PROVE  [Abstract!Next]_(Abstract!vars)
  <2>1. CASE BuildCommit(t)
    BY <1>2, <2>1, BuildIsInvisible, Zenon
  <2>2. CASE ~BuildCommit(t)
    BY <1>3, <1>4, <2>2, Zenon DEF TaskStep, Begin, Lock, CallLoadRepoRoot, RefuseOps, CallCommitBlocks,
       StampSeq, Publish, ReturnError, Drop, db
  <2> QED BY <2>1, <2>2, Zenon
<1>5. CASE RunLoad \/ RunFail \/ Crash \/ UNCHANGED vars
  BY <1>3, <1>5, Zenon DEF RunLoad, RunFail, Crash, vars, db
<1> QED BY <1>1, <1>4, <1>5, Zenon DEF Next, Connection

\* Every behaviour of the write path is a behaviour of the atomic repository: a
\* request takes effect at the instant its transaction commits, or not at all.
THEOREM WritesAreAtomic == Spec => AtomicCommits
<1>1. Init => Abstract!Init
  <2> SUFFICES ASSUME Init PROVE Abstract!Init
    BY Zenon
  <2>1. Heads = [d \in Dids |-> EmptyTree]
    BY Zenon DEF Init, Heads, TreeOf
  <2>2. Events = <<>>
    <3>1. 0 \in Nat /\ Events \in [1..0 -> {}]
      BY DEF Init, Events
    <3> QED BY ONLY <3>1, FunctionIsSeq
  <2> QED BY <2>1, <2>2, Zenon DEF Abstract!Init, Abstract!EmptyTree, EmptyTree, Heads, Events
<1>2. IInv /\ [Next]_vars => [Abstract!Next]_(Abstract!vars)
  BY StepRefines, Zenon
<1> QED BY <1>1, <1>2, Invariance, PTL DEF Spec, AtomicCommits, Abstract!Spec

=============================================================================
