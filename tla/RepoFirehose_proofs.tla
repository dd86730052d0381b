------------------------- MODULE RepoFirehose_proofs -------------------------
(***************************************************************************)
(* For every set of tasks, requests and subscribers: with one repository,   *)
(* the write path is the environment that SubscribeRepos assumes, so the    *)
(* two together implement SubscribeRepos and what is proved of it holds.    *)
(***************************************************************************)
EXTENDS RepoFirehose, FiniteSetTheorems, TLAPS

Labels == W!InLock \cup {"new", "lock", "done", "dropped"}

Types ==
    /\ repo_seq \in Seq([did : Dids, commit : Nat])
    /\ base \in Nat
    /\ chan \in Seq(Nat)
    /\ lock \in [Dids -> Tasks \cup {NoTask}]
    /\ calls \in Seq(W!Calls)
    /\ tpc \in [Tasks -> Labels]
    /\ req \in [Tasks -> Requests]
    /\ built \in [Tasks -> Nat]
    /\ seq \in [Tasks -> Nat]

\* A task between its lock and its return holds the lock, so there is one.
LockInv == \A t \in Tasks : tpc[t] \in W!InLock => lock[W!Did(t)] = t

\* The queue has at most the call that this task waits for.
QueueInv ==
    /\ Len(calls) \in {0, 1}
    /\ \A i \in 1..Len(calls) :
         tpc[calls[i].task] = IF calls[i].kind = "commit" THEN "committing" ELSE "loading"

\* Past its transaction, and before the broadcast.
Unpublished == {"committed", "publish"}

\* The channel has the rows of this process in order, all but the one whose task
\* is about to broadcast it.
ChanInv ==
    /\ \A n \in 1..Len(chan) : chan[n] = base + n
    /\ \/ /\ base + Len(chan) = Len(repo_seq)
          /\ \A t \in Tasks : tpc[t] \notin Unpublished
       \/ /\ base + Len(chan) + 1 = Len(repo_seq)
          /\ \E t \in Tasks : tpc[t] \in Unpublished /\ seq[t] = Len(repo_seq)

Stamped == {t \in Tasks : seq[t] # 0}

\* Every row is of another task, one that is past its transaction.
CountInv ==
    /\ \A t \in Tasks : seq[t] # 0 => tpc[t] \in Unpublished \cup {"done", "dropped", "failed"}
    /\ Len(repo_seq) = Cardinality(Stamped)

IInv == Types /\ LockInv /\ QueueInv /\ ChanInv /\ CountInv

-----------------------------------------------------------------------------
(* Facts the steps use                                                      *)

\* The requests of one repository.
LEMMA ReqFacts ==
    ASSUME OneRepository, Types, NEW t \in Tasks
    PROVE  W!Did(t) \in Dids /\ req[t].publish = TRUE
<1>1. req[t] \in [did : Dids, ops : Seq(WriteOps), publish : {TRUE}]
  BY Zenon DEF OneRepository, Types
<1>2. req[t].did \in Dids BY <1>1, Zenon
<1>3. req[t].publish \in {TRUE} BY <1>1, Zenon
<1> QED BY <1>2, <1>3, Zenon DEF W!Did

\* No two tasks are inside the lock.
LEMMA Alone ==
    ASSUME OneRepository, IInv, NEW t \in Tasks, NEW u \in Tasks,
           tpc[t] \in W!InLock, tpc[u] \in W!InLock
    PROVE  t = u
<1>1. W!Did(t) = W!Did(u) BY ReqFacts, Zenon DEF OneRepository, IInv
<1> QED BY <1>1, Zenon DEF IInv, LockInv

\* A queued call is of a task, which waits for it.
LEMMA CallFacts ==
    ASSUME OneRepository, IInv, calls # <<>>
    PROVE  /\ Head(calls) = calls[1] /\ Tail(calls) \in Seq(W!Calls) /\ Len(Tail(calls)) = 0
           /\ Len(calls) = 1
           /\ calls[1].task \in Tasks /\ calls[1].did \in Dids /\ calls[1].commit \in Nat
           /\ tpc[calls[1].task] = IF calls[1].kind = "commit" THEN "committing" ELSE "loading"
<1> DEFINE S == W!Calls
<1>1. calls \in Seq(S) /\ Len(calls) \in {0, 1}
  BY Zenon DEF IInv, Types, QueueInv
<1> HIDE DEF S
<1>2. Len(calls) = 1 /\ calls[1] \in S /\ Head(calls) = calls[1]
  BY <1>1, SMTT(30)
<1>3. Tail(calls) \in Seq(S) /\ Len(Tail(calls)) = 0
  BY <1>1, <1>2, SMTT(30)
<1>4. calls[1].task \in Tasks /\ calls[1].did \in Dids /\ calls[1].commit \in Nat
  BY <1>2, Zenon DEF S, W!Calls
<1>5. tpc[calls[1].task] = IF calls[1].kind = "commit" THEN "committing" ELSE "loading"
  BY <1>2 DEF IInv, QueueInv
<1> QED BY <1>2, <1>3, <1>4, <1>5, ZenonT(60) DEF S

\* The invariant holds initially.
LEMMA InitIInv == ASSUME OneRepository, Init PROVE IInv
<1> USE DEF Init, W!Init
<1>1. Types
  <2>1. tpc \in [Tasks -> Labels] BY Zenon DEF Labels
  <2> QED BY <2>1, SMTT(30) DEF Types
<1>2. LockInv /\ QueueInv BY DEF LockInv, QueueInv, W!InLock
<1>3. ChanInv BY DEF ChanInv, Unpublished
<1>4. Stamped = {} BY Zenon DEF Stamped
<1>5. CountInv BY <1>4, FS_EmptySet, Zenon DEF CountInv
<1> QED BY <1>1, <1>2, <1>3, <1>5, ZenonT(60) DEF IInv

\* A task that moves is the only one that does.
LEMMA GotoFacts ==
    ASSUME Types, NEW t \in Tasks, NEW label \in Labels, W!Goto(t, label)
    PROVE  /\ tpc' \in [Tasks -> Labels]
           /\ tpc'[t] = label
           /\ \A u \in Tasks : u # t => tpc'[u] = tpc[u]
  BY Zenon DEF Types, W!Goto

\* The rows and the broadcasts stay as they are, and so do the tasks between them.
LEMMA ChanFrame ==
    ASSUME ChanInv, UNCHANGED <<base, chan, repo_seq, seq>>,
           \A t \in Tasks : tpc'[t] \in Unpublished <=> tpc[t] \in Unpublished
    PROVE  ChanInv'
  BY Zenon DEF ChanInv

-----------------------------------------------------------------------------
(* The write path                                                           *)

\* A step of a task before its transaction, or after an error.
LEMMA QuietStep ==
    ASSUME OneRepository, IInv, NEW t \in Tasks,
           \/ W!Begin(t) \/ W!Lock(t) \/ W!CallLoadRepoRoot(t) \/ W!BuildCommit(t)
           \/ W!RefuseOps(t) \/ W!CallCommitBlocks(t) \/ W!ReturnError(t)
    PROVE  IInv' /\ UNCHANGED <<repo_seq, base, chan>>
<1>1. UNCHANGED <<repo_seq, base, chan, req, seq>>
  BY Zenon DEF W!Begin, W!Lock, W!CallLoadRepoRoot, W!BuildCommit, W!RefuseOps, W!CallCommitBlocks,
         W!ReturnError, W!db, W!local
<1>2. PICK label \in {"lock", "load", "loading", "commit", "committing", "done"} : W!Goto(t, label)
  BY Zenon DEF W!Begin, W!Lock, W!CallLoadRepoRoot, W!BuildCommit, W!RefuseOps, W!CallCommitBlocks,
         W!ReturnError
<1>3. /\ tpc' \in [Tasks -> Labels]
      /\ tpc'[t] = label
      /\ \A u \in Tasks : u # t => tpc'[u] = tpc[u]
  BY <1>2, GotoFacts, Zenon DEF IInv, Labels, W!InLock
<1>4. tpc[t] \in {"new", "lock", "load", "loaded", "commit", "failed"}
  BY Zenon DEF W!Begin, W!Lock, W!CallLoadRepoRoot, W!BuildCommit, W!RefuseOps, W!CallCommitBlocks,
         W!ReturnError
<1>5. ChanInv' BY <1>1, <1>3, <1>4, ChanFrame, Zenon DEF IInv, Unpublished
<1>6. CountInv'
  <2>1. Stamped' = Stamped BY <1>1, Zenon DEF Stamped
  <2>2. seq[t] # 0 => tpc[t] = "failed" /\ label = "done"
    BY <1>2, <1>3, <1>4, ZenonT(60) DEF IInv, CountInv, Unpublished, W!Begin, W!Lock, W!CallLoadRepoRoot,
       W!BuildCommit, W!RefuseOps, W!CallCommitBlocks, W!ReturnError, W!Goto
  <2> QED BY <1>1, <1>3, <2>1, <2>2, ZenonT(60) DEF IInv, CountInv
<1>7. \A u \in Tasks : W!Did(u)' = W!Did(u) BY <1>1, Zenon DEF W!Did
<1>8. CASE W!Begin(t)
  <2>1. UNCHANGED <<lock, calls, built>> /\ tpc'[t] \notin W!InLock
    BY <1>3, <1>8, ZenonT(60) DEF W!Begin, W!Goto, W!local, W!InLock, IInv, Types
  <2>2. Types' BY <1>1, <1>3, <2>1, Zenon DEF IInv, Types
  <2>3. LockInv' BY <1>3, <1>7, <2>1, ZenonT(60) DEF IInv, LockInv
  <2>4. QueueInv'
    BY <1>3, <1>8, <2>1, CallFacts, SMTT(30) DEF IInv, QueueInv, W!Begin
  <2> QED BY <1>1, <1>5, <1>6, <2>2, <2>3, <2>4, Zenon DEF IInv
<1>9. CASE W!Lock(t)
  <2>1. /\ UNCHANGED <<calls, built>> /\ lock' = [lock EXCEPT ![W!Did(t)] = t]
        /\ lock[W!Did(t)] = NoTask
    BY <1>9, Zenon DEF W!Lock, W!local
  <2>2. lock' \in [Dids -> Tasks \cup {NoTask}] /\ lock'[W!Did(t)] = t
    BY <2>1, ReqFacts, Zenon DEF IInv, Types
  <2>3. Types' BY <1>1, <1>3, <2>1, <2>2, ZenonT(60) DEF IInv, Types
  <2>4. \A u \in Tasks : tpc[u] \notin W!InLock
    <3> SUFFICES ASSUME NEW u \in Tasks, tpc[u] \in W!InLock PROVE FALSE
      BY Zenon
    <3>1. lock[W!Did(u)] = u BY Zenon DEF IInv, LockInv
    <3>2. W!Did(u) = W!Did(t) BY ReqFacts, Zenon DEF OneRepository, IInv
    <3> QED BY <2>1, <3>1, <3>2, Zenon DEF OneRepository
  <2>5. LockInv' BY <1>3, <1>7, <2>2, <2>4, Zenon DEF IInv, LockInv
  <2>6. calls = <<>> BY <2>4, CallFacts, Zenon DEF W!InLock
  <2>7. QueueInv' BY <2>1, <2>6, SMTT(30) DEF QueueInv
  <2> QED BY <1>1, <1>5, <1>6, <2>3, <2>5, <2>7, Zenon DEF IInv
<1>10. CASE W!CallLoadRepoRoot(t) \/ W!CallCommitBlocks(t)
  <2>1. PICK kind \in {"load", "commit"}, commit \in Nat :
          /\ W!SendCall(t, kind, commit)
          /\ label = IF kind = "commit" THEN "committing" ELSE "loading"
    <3>1. built[t] \in Nat BY Zenon DEF IInv, Types
    <3>2. CASE W!CallLoadRepoRoot(t)
      BY <1>2, <1>3, <3>2, Zenon DEF W!CallLoadRepoRoot, W!Goto, IInv, Types
    <3>3. CASE W!CallCommitBlocks(t)
      BY <1>2, <1>3, <3>1, <3>3, ZenonT(60) DEF W!CallCommitBlocks, W!Goto, IInv, Types
    <3> QED BY <1>10, <3>2, <3>3, ZenonT(60)
  <2>2. UNCHANGED <<lock, built>> /\ tpc[t] \in W!InLock /\ tpc[t] \in {"load", "commit"}
    BY <1>10, ZenonT(60) DEF W!CallLoadRepoRoot, W!CallCommitBlocks, W!local, W!InLock
  <2>3. calls = <<>>
    <3> SUFFICES ASSUME calls # <<>> PROVE FALSE
      BY Zenon
    <3>1. tpc[calls[1].task] \in {"committing", "loading"} /\ calls[1].task \in Tasks
      BY CallFacts, Zenon
    <3>2. calls[1].task = t BY <2>2, <3>1, Alone, Zenon DEF W!InLock
    <3> QED BY <2>2, <3>1, <3>2, Zenon
  <2>4. PICK call \in W!Calls : calls' = <<call>> /\ call.task = t /\ call.kind = kind
    <3> DEFINE c == [task |-> t, kind |-> kind, did |-> W!Did(t), commit |-> commit]
    <3>1. c \in W!Calls BY ReqFacts, ZenonT(60) DEF IInv, W!Calls
    <3>2. calls' = Append(<<>>, c) BY <2>1, <2>3, ZenonT(60) DEF W!SendCall
    <3> QED BY <3>1, <3>2, SMTT(30)
  <2>5. calls' \in Seq(W!Calls) /\ Len(calls') = 1 /\ calls'[1] = call BY <2>4, SMTT(30)
  <2>6. Types' BY <1>1, <1>3, <2>2, <2>5, ZenonT(60) DEF IInv, Types
  <2>7. LockInv' BY <1>3, <1>7, <2>2, Zenon DEF IInv, LockInv
  <2>8. QueueInv' BY <1>3, <2>1, <2>4, <2>5, SMTT(30) DEF QueueInv
  <2> QED BY <1>1, <1>5, <1>6, <2>6, <2>7, <2>8, ZenonT(60) DEF IInv
<1>11. CASE W!BuildCommit(t)
  <2>1. UNCHANGED <<lock, calls>> /\ tpc[t] = "loaded"
    BY <1>11, ZenonT(60) DEF W!BuildCommit
  <2>2. built' \in [Tasks -> Nat]
    BY <1>11, SMTT(30) DEF W!BuildCommit, IInv, Types
  <2>3. Types' BY <1>1, <1>3, <2>1, <2>2, Zenon DEF IInv, Types
  <2>4. LockInv' BY <1>3, <1>7, <2>1, ZenonT(60) DEF IInv, LockInv, W!InLock
  <2>5. QueueInv' BY <1>3, <2>1, CallFacts, SMTT(30) DEF IInv, QueueInv
  <2> QED BY <1>1, <1>5, <1>6, <2>3, <2>4, <2>5, Zenon DEF IInv
<1>12. CASE W!RefuseOps(t) \/ W!ReturnError(t)
  <2>1. /\ UNCHANGED <<calls, built>> /\ tpc[t] \in {"loaded", "failed"} /\ tpc[t] \in W!InLock
        /\ lock' = [d \in Dids |-> IF lock[d] = t THEN NoTask ELSE lock[d]]
        /\ label = "done"
    BY <1>2, <1>3, <1>12, Zenon
       DEF W!RefuseOps, W!ReturnError, W!ReleaseGuards, W!local, W!InLock, W!Goto, IInv, Types
  <2>2. lock' \in [Dids -> Tasks \cup {NoTask}] BY <2>1, Zenon DEF IInv, Types
  <2>3. Types' BY <1>1, <1>3, <2>1, <2>2, ZenonT(60) DEF IInv, Types
  <2>4. \A u \in Tasks : tpc'[u] \notin W!InLock
    BY <1>3, <2>1, Alone, Zenon DEF W!InLock
  <2>5. LockInv' BY <2>4, ZenonT(60) DEF LockInv
  <2>6. QueueInv' BY <1>3, <2>1, CallFacts, SMTT(30) DEF IInv, QueueInv
  <2> QED BY <1>1, <1>5, <1>6, <2>3, <2>5, <2>6, Zenon DEF IInv
<1> QED BY <1>1, <1>8, <1>9, <1>10, <1>11, <1>12, ZenonT(60)

\* commit_blocks has returned: the task still has the lock and its row.
LEMMA StampStep ==
    ASSUME OneRepository, IInv, NEW t \in Tasks, W!StampSeq(t)
    PROVE  IInv' /\ UNCHANGED <<repo_seq, base, chan>>
<1>1. /\ UNCHANGED <<repo_seq, base, chan, lock, calls, req, built, seq>>
      /\ tpc[t] = "committed" /\ W!Goto(t, "publish")
  BY Zenon DEF W!StampSeq, W!db, W!local
<1>2. /\ tpc' \in [Tasks -> Labels] /\ tpc'[t] = "publish"
      /\ \A u \in Tasks : u # t => tpc'[u] = tpc[u]
  BY <1>1, GotoFacts, Zenon DEF IInv, Labels, W!InLock
<1>3. Types' BY <1>1, <1>2, Zenon DEF IInv, Types
<1>4. LockInv' BY <1>1, <1>2, ZenonT(60) DEF IInv, LockInv, W!InLock, W!Did
<1>5. QueueInv' BY <1>1, <1>2, CallFacts, SMTT(30) DEF IInv, QueueInv
<1>6. ChanInv' BY <1>1, <1>2, ChanFrame, Zenon DEF IInv, Unpublished
<1>7. CountInv'
  <2>1. Stamped' = Stamped BY <1>1, Zenon DEF Stamped
  <2> QED BY <1>1, <1>2, <2>1, Zenon DEF IInv, CountInv, Unpublished
<1> QED BY <1>1, <1>3, <1>4, <1>5, <1>6, <1>7, Zenon DEF IInv

\* The task in the lock broadcasts the newest row, the only one that is missing.
LEMMA PublishStep ==
    ASSUME OneRepository, IInv, NEW t \in Tasks, W!Publish(t)
    PROVE  /\ IInv' /\ UNCHANGED <<repo_seq, base>>
           /\ base + Len(chan) < Len(repo_seq)
           /\ chan' = Append(chan, base + Len(chan) + 1)
<1>1. /\ UNCHANGED <<repo_seq, base, calls, req, built, seq>>
      /\ lock' = [d \in Dids |-> IF lock[d] = t THEN NoTask ELSE lock[d]]
      /\ tpc[t] = "publish" /\ W!Goto(t, "done")
  BY Zenon DEF W!Publish, W!ReleaseGuards, W!db, W!local
<1>2. chan' = Append(chan, seq[t])
  BY ReqFacts, Zenon DEF W!Publish, IInv
<1>3. /\ tpc' \in [Tasks -> Labels] /\ tpc'[t] = "done"
      /\ \A u \in Tasks : u # t => tpc'[u] = tpc[u]
  BY <1>1, GotoFacts, ZenonT(60) DEF IInv, Labels, W!InLock
<1>4. \A u \in Tasks : tpc[u] \in W!InLock => u = t
  BY <1>1, Alone, ZenonT(60) DEF W!InLock
<1>5. \A u \in Tasks : tpc'[u] \notin W!InLock
  BY <1>3, <1>4, Zenon DEF W!InLock
<1>6. base + Len(chan) + 1 = Len(repo_seq) /\ seq[t] = Len(repo_seq)
  BY <1>1, <1>4, Zenon DEF IInv, ChanInv, Unpublished, W!InLock
<1>7. base \in Nat /\ chan \in Seq(Nat) /\ Len(chan) \in Nat /\ Len(repo_seq) \in Nat
  BY DEF IInv, Types
<1>8. /\ chan' \in Seq(Nat) /\ Len(chan') = Len(chan) + 1
      /\ \A n \in 1..Len(chan') : chan'[n] = base + n
  <2>1. seq[t] \in Nat /\ seq[t] = base + (Len(chan) + 1) BY <1>6, <1>7, SMTT(30)
  <2>2. \A n \in 1..Len(chan) : chan[n] = base + n BY Zenon DEF IInv, ChanInv
  <2>3. /\ chan' \in Seq(Nat) /\ Len(chan') = Len(chan) + 1
        /\ chan'[Len(chan) + 1] = seq[t]
        /\ \A n \in 1..Len(chan) : chan'[n] = chan[n]
    BY <1>2, <1>7, <2>1, SMTT(30)
  <2>4. ASSUME NEW n \in 1..Len(chan') PROVE chan'[n] = base + n
    <3>1. n \in 1..Len(chan) \/ n = Len(chan) + 1 BY <1>7, <2>3, SMTT(30)
    <3>2. CASE n \in 1..Len(chan) BY <2>2, <2>3, <3>2, ZenonT(60)
    <3>3. CASE n = Len(chan) + 1 BY <2>1, <2>3, <3>3, Zenon
    <3> QED BY <3>1, <3>2, <3>3, Zenon
  <2> QED BY <2>3, <2>4, Zenon
<1>9. Types'
  <2>1. lock' \in [Dids -> Tasks \cup {NoTask}] BY <1>1, Zenon DEF IInv, Types
  <2> QED BY <1>1, <1>3, <1>8, <2>1, Zenon DEF IInv, Types
<1>10. LockInv' BY <1>5, Zenon DEF LockInv
<1>11. QueueInv' BY <1>1, <1>3, CallFacts, SMTT(30) DEF IInv, QueueInv
<1>12. ChanInv'
  <2>1. base' + Len(chan') = Len(repo_seq') BY <1>1, <1>6, <1>7, <1>8, SMTT(30)
  <2>2. \A u \in Tasks : tpc'[u] \notin Unpublished BY <1>5, Zenon DEF Unpublished, W!InLock
  <2> QED BY <1>1, <1>8, <2>1, <2>2, ZenonT(60) DEF ChanInv
<1>13. CountInv'
  <2>1. Stamped' = Stamped BY <1>1, Zenon DEF Stamped
  <2> QED BY <1>1, <1>3, <2>1, Zenon DEF IInv, CountInv
<1>14. IInv' BY <1>9, <1>10, <1>11, <1>12, <1>13, Zenon DEF IInv
<1>15. base + Len(chan) < Len(repo_seq) /\ seq[t] = base + Len(chan) + 1
  BY <1>6, <1>7, SMTT(30)
<1> QED BY <1>1, <1>2, <1>14, <1>15, Zenon

\* A call that reads, or fails: its task goes on and no row is written.
LEMMA NoRowStep ==
    ASSUME OneRepository, IInv, W!RunLoad \/ W!RunFail
    PROVE  IInv' /\ UNCHANGED <<repo_seq, base, chan>>
<1> DEFINE t == calls[1].task
<1>1. /\ calls # <<>> /\ UNCHANGED <<repo_seq, base, chan, lock, req, built, seq>>
      /\ calls' = Tail(calls)
  BY Zenon DEF W!RunLoad, W!RunFail, W!db, W!local
<1>2. /\ Head(calls) = calls[1] /\ t \in Tasks /\ tpc[t] \in {"loading", "committing"}
      /\ calls' \in Seq(W!Calls) /\ Len(calls') = 0
  BY <1>1, CallFacts, Zenon
<1>3. PICK label \in {"loaded", "failed"} : W!Goto(t, label)
  <2>1. CASE W!RunLoad
    <3>1. calls[1].kind = "load" /\ W!Answer(t, {"loading"}, "loaded")
      BY <1>2, <2>1, Zenon DEF W!RunLoad
    <3>2. tpc[t] = "loading" BY <1>1, <3>1, CallFacts, Zenon
    <3> QED BY <3>1, <3>2, Zenon DEF W!Answer
  <2>2. CASE W!RunFail
    BY <1>2, <2>2, Zenon DEF W!RunFail, W!Answer
  <2> QED BY <2>1, <2>2, Zenon
<1> HIDE DEF t
<1>4. /\ tpc' \in [Tasks -> Labels] /\ tpc'[t] = label
      /\ \A u \in Tasks : u # t => tpc'[u] = tpc[u]
  BY <1>2, <1>3, GotoFacts, Zenon DEF IInv, Labels, W!InLock
<1>5. Types' BY <1>1, <1>2, <1>4, Zenon DEF IInv, Types
<1>6. LockInv' BY <1>1, <1>2, <1>4, Zenon DEF IInv, LockInv, W!InLock, W!Did
<1>7. QueueInv' BY <1>2 DEF QueueInv
<1>8. ChanInv' BY <1>1, <1>2, <1>4, ChanFrame, Zenon DEF IInv, Unpublished
<1>9. CountInv'
  <2>1. Stamped' = Stamped BY <1>1, Zenon DEF Stamped
  <2>2. seq[t] = 0 BY <1>2, Zenon DEF IInv, CountInv, Unpublished
  <2> QED BY <1>1, <1>4, <2>1, <2>2, Zenon DEF IInv, CountInv
<1> QED BY <1>1, <1>5, <1>6, <1>7, <1>8, <1>9, Zenon DEF IInv

\* The transaction: its task is alone in the lock, so every earlier row is already
\* broadcast, and it has written no row before.
LEMMA CommitStep ==
    ASSUME OneRepository, IInv, W!RunCommit
    PROVE  /\ IInv' /\ UNCHANGED <<base, chan>>
           /\ \E row : repo_seq' = Append(repo_seq, row) /\ row \in [did : Dids, commit : Nat]
<1> DEFINE t == calls[1].task
           R == [did : Dids, commit : Nat]
<1>1. /\ calls # <<>> /\ UNCHANGED <<base, chan, lock, req, built>>
      /\ calls' = Tail(calls)
  BY Zenon DEF W!RunCommit
<1>2. /\ Head(calls) = calls[1] /\ t \in Tasks /\ calls[1].did \in Dids /\ calls[1].commit \in Nat
      /\ calls' \in Seq(W!Calls) /\ Len(calls') = 0
  BY <1>1, CallFacts, Zenon
<1>3. /\ calls[1].kind = "commit" /\ seq' = [seq EXCEPT ![t] = Len(repo_seq) + 1]
      /\ W!Answer(t, {"committing"}, "committed")
      /\ repo_seq' = Append(repo_seq, [did |-> calls[1].did, commit |-> calls[1].commit])
  BY <1>2, Zenon DEF W!RunCommit
<1>4. tpc[t] = "committing" BY <1>1, <1>3, CallFacts, Zenon
<1>5. W!Goto(t, "committed") BY <1>3, <1>4, Zenon DEF W!Answer
<1>6. PICK row \in R : repo_seq' = Append(repo_seq, row)
  BY <1>2, <1>3, Zenon
<1> HIDE DEF t, R
<1>7. /\ tpc' \in [Tasks -> Labels] /\ tpc'[t] = "committed"
      /\ \A u \in Tasks : u # t => tpc'[u] = tpc[u]
  BY <1>2, <1>5, GotoFacts, Zenon DEF IInv, Labels, W!InLock
<1>8. /\ repo_seq \in Seq(R) /\ Len(repo_seq) \in Nat /\ repo_seq' \in Seq(R)
      /\ Len(repo_seq') = Len(repo_seq) + 1
  <2>1. repo_seq \in Seq(R) BY Zenon DEF IInv, Types, R
  <2> QED BY <1>6, <2>1
<1>9. /\ seq' \in [Tasks -> Nat] /\ seq'[t] = Len(repo_seq) + 1
      /\ \A u \in Tasks : u # t => seq'[u] = seq[u]
  BY <1>2, <1>3, <1>8, SMTT(30) DEF IInv, Types
<1>10. Types' BY <1>1, <1>2, <1>7, <1>8, <1>9, Zenon DEF IInv, Types, R
<1>11. LockInv' BY <1>1, <1>2, <1>4, <1>7, Zenon DEF IInv, LockInv, W!InLock, W!Did
<1>12. QueueInv' BY <1>2 DEF QueueInv
<1>13. ChanInv'
  <2>1. \A u \in Tasks : tpc[u] \notin Unpublished
    BY <1>2, <1>4, Alone, Zenon DEF Unpublished, W!InLock
  <2>2. base + Len(chan) = Len(repo_seq) BY <2>1, Zenon DEF IInv, ChanInv
  <2>3. base' + Len(chan') + 1 = Len(repo_seq') BY <1>1, <1>8, <2>2, Zenon
  <2>4. tpc'[t] \in Unpublished /\ seq'[t] = Len(repo_seq') BY <1>7, <1>8, <1>9, Zenon DEF Unpublished
  <2> QED BY <1>1, <1>2, <2>3, <2>4, Zenon DEF IInv, ChanInv
<1>14. CountInv'
  <2>1. seq[t] = 0 BY <1>2, <1>4, Zenon DEF IInv, CountInv, Unpublished
  <2>2. Stamped' = Stamped \cup {t} /\ t \notin Stamped
    BY <1>2, <1>8, <1>9, <2>1, SMTT(30) DEF Stamped
  <2>3. IsFiniteSet(Stamped) BY FS_Subset, Zenon DEF Stamped, OneRepository
  <2>4. Cardinality(Stamped') = Cardinality(Stamped) + 1 BY <2>2, <2>3, FS_AddElement, Zenon
  <2>5. Len(repo_seq') = Cardinality(Stamped') BY <1>8, <2>4, Zenon DEF IInv, CountInv
  <2>6. \A u \in Tasks : seq'[u] # 0 => tpc'[u] \in Unpublished \cup {"done", "dropped", "failed"}
    BY <1>2, <1>7, <1>9, Zenon DEF IInv, CountInv, Unpublished
  <2> QED BY <2>5, <2>6, Zenon DEF CountInv
<1> QED BY <1>1, <1>6, <1>10, <1>11, <1>12, <1>13, <1>14, ZenonT(60) DEF IInv, R

\* A restart: the channel is empty and the process starts from the rows there are.
LEMMA CrashStep ==
    ASSUME OneRepository, IInv, W!Crash
    PROVE  IInv' /\ chan' = <<>> /\ base' = Len(repo_seq) /\ UNCHANGED repo_seq
<1>1. /\ lock' = [d \in Dids |-> NoTask] /\ calls' = <<>> /\ chan' = <<>>
      /\ tpc' = [t \in Tasks |-> IF tpc[t] \in W!InLock \cup {"lock"} THEN "dropped" ELSE tpc[t]]
      /\ base' = Len(repo_seq) /\ UNCHANGED <<repo_seq, req, built, seq>>
  BY Zenon DEF W!Crash, W!local
<1>2. Len(repo_seq) \in Nat BY DEF IInv, Types
<1>3. /\ tpc' \in [Tasks -> Labels]
      /\ \A t \in Tasks : tpc'[t] \notin W!InLock
      /\ \A t \in Tasks : tpc'[t] = tpc[t] \/ tpc'[t] = "dropped"
  BY <1>1, Zenon DEF IInv, Types, Labels, W!InLock
<1>4. Types'
  <2>1. chan' \in Seq(Nat) /\ calls' \in Seq(W!Calls) BY <1>1
  <2> QED BY <1>1, <1>2, <1>3, <2>1, Zenon DEF IInv, Types
<1>5. LockInv' /\ QueueInv' BY <1>1, <1>3 DEF LockInv, QueueInv
<1>6. ChanInv'
  <2>1. \A t \in Tasks : tpc'[t] \notin Unpublished BY <1>3, Zenon DEF Unpublished, W!InLock
  <2>2. Len(chan') = 0 /\ base' + Len(chan') = Len(repo_seq') BY <1>1, <1>2
  <2> QED BY <2>1, <2>2 DEF ChanInv
<1>7. CountInv'
  <2>1. Stamped' = Stamped BY <1>1, Zenon DEF Stamped
  <2> QED BY <1>1, <1>3, <2>1, Zenon DEF IInv, CountInv
<1> QED BY <1>1, <1>4, <1>5, <1>6, <1>7, Zenon DEF IInv

-----------------------------------------------------------------------------
(* The two together                                                         *)

\* Every step of the server keeps the invariant.
LEMMA NextIInv == ASSUME OneRepository, IInv, [Next]_vars PROVE IInv'
<1>1. CASE WriterStep
  <2>1. CASE \E t \in Tasks : W!TaskStep(t) \/ W!Drop(t)
    <3>1. PICK t \in Tasks : W!TaskStep(t) \/ W!Drop(t) BY <2>1, Zenon
    <3>2. ~W!Drop(t) BY Zenon DEF W!Drop, OneRepository
    <3> QED BY <3>1, <3>2, QuietStep, StampStep, PublishStep, Zenon DEF W!TaskStep
  <2>2. CASE W!Connection BY <2>2, NoRowStep, CommitStep, Zenon DEF W!Connection
  <2> QED BY <1>1, <2>1, <2>2, Zenon DEF WriterStep
<1>2. CASE SubscriberStep \/ UNCHANGED vars
  <2>1. UNCHANGED <<repo_seq, base, chan, lock, calls, tpc, req, built, seq>>
    BY <1>2, Zenon DEF SubscriberStep, vars, writers
  <2>2. Types' BY <2>1, Zenon DEF IInv, Types
  <2>3. LockInv' BY <2>1, Zenon DEF IInv, LockInv, W!Did
  <2>4. QueueInv' BY <2>1, Zenon DEF IInv, QueueInv
  <2>5. ChanInv' BY <2>1, Zenon DEF IInv, ChanInv
  <2>6. Stamped' = Stamped BY <2>1, Zenon DEF Stamped
  <2>7. CountInv' BY <2>1, <2>6, Zenon DEF IInv, CountInv
  <2> QED BY <2>2, <2>3, <2>4, <2>5, <2>7, Zenon DEF IInv
<1>3. CASE Crash BY <1>3, CrashStep, Zenon DEF Crash
<1> QED BY <1>1, <1>2, <1>3, Zenon DEF Next

\* The log that SubscribeRepos reads: every row decodes.
Decoded == [i \in 1..Len(repo_seq) |-> TRUE]

\* Append as a function.
LEMMA AppendFacts ==
    ASSUME NEW S, NEW f \in Seq(S), NEW x \in S
    PROVE  /\ Append(f, x) \in [1..Len(f)+1 -> S]
           /\ Append(f, x)[Len(f)+1] = x
           /\ \A i \in 1..Len(f) : Append(f, x)[i] = f[i]
<1>1. /\ Append(f, x) \in Seq(S) /\ Len(Append(f, x)) = Len(f) + 1
      /\ Append(f, x)[Len(f)+1] = x
      /\ \A i \in 1..Len(f) : Append(f, x)[i] = f[i]
  OBVIOUS
<1>2. \A q \in Seq(S) : q \in [1..Len(q) -> S] OBVIOUS
<1>3. Append(f, x) \in [1..Len(Append(f, x)) -> S] BY <1>1, <1>2, Zenon
<1> QED BY <1>1, <1>3, Zenon

\* A sequence of one value, one longer.
LEMMA ConstantAppend ==
    ASSUME NEW x, NEW n \in Nat
    PROVE  /\ Len([i \in 1..n |-> x]) = n
           /\ [i \in 1..n+1 |-> x] = Append([i \in 1..n |-> x], x)
<1> DEFINE S == {x}
           f == [i \in 1..n |-> x]
           g == [i \in 1..n+1 |-> x]
<1>1. x \in S /\ f \in [1..n -> S] /\ g \in [1..n+1 -> S] BY Zenon
<1>2. (\A i \in 1..n : f[i] = x) /\ (\A i \in 1..n+1 : g[i] = x) BY Zenon
<1> HIDE DEF S, f, g
<1>3. f \in Seq(S) /\ Len(f) = n BY <1>1, SMTT(30)
<1>4. /\ Append(f, x) \in [1..n+1 -> S] /\ Append(f, x)[n+1] = x
      /\ \A i \in 1..n : Append(f, x)[i] = f[i]
  BY <1>1, <1>3, AppendFacts, SMTT(30)
<1>5. \A i \in 1..n+1 : i \in 1..n \/ i = n + 1 OBVIOUS
<1>6. \A i \in 1..n+1 : Append(f, x)[i] = g[i] BY <1>2, <1>4, <1>5, Zenon
<1>7. g = Append(f, x) BY <1>1, <1>4, <1>6, SMTT(30)
<1> QED BY <1>3, <1>7, Zenon DEF f, g

\* A row more is a decoded row more.
LEMMA DecodedAppend ==
    ASSUME NEW S, repo_seq \in Seq(S), NEW row \in S, repo_seq' = Append(repo_seq, row)
    PROVE  Decoded' = Append(Decoded, TRUE)
<1>1. Len(repo_seq) \in Nat /\ Len(repo_seq') = Len(repo_seq) + 1 OBVIOUS
<1>2. [i \in 1..Len(repo_seq)+1 |-> TRUE] = Append([i \in 1..Len(repo_seq) |-> TRUE], TRUE)
  BY <1>1, ConstantAppend, Zenon
<1> QED BY <1>1, <1>2, Zenon DEF Decoded

\* Every step of the server is a step of SubscribeRepos or changes nothing of it: a
\* transaction commits a row and the broadcast is of the next seq.
LEMMA StepRefines ==
    ASSUME OneRepository, IInv, [Next]_vars
    PROVE  [F!Next]_(F!vars)
<1>1. ASSUME UNCHANGED <<repo_seq, base, chan, subscribers>> PROVE UNCHANGED F!vars
  <2>1. Decoded' = Decoded BY <1>1, Zenon DEF Decoded
  <2> QED BY <1>1, <2>1, Zenon DEF F!vars, F!env, F!subs, subscribers, Decoded
<1>2. Len(Decoded) = Len(repo_seq)
  <2>1. Len(repo_seq) \in Nat BY DEF IInv, Types
  <2> QED BY <2>1 DEF Decoded
<1>3. CASE WriterStep
  <2>1. UNCHANGED subscribers BY <1>3, Zenon DEF WriterStep
  <2>2. CASE \E t \in Tasks : W!TaskStep(t) \/ W!Drop(t)
    <3>1. PICK t \in Tasks : W!TaskStep(t) \/ W!Drop(t) BY <2>2, Zenon
    <3>2. ~W!Drop(t) BY Zenon DEF W!Drop, OneRepository
    <3>3. CASE W!Publish(t)
      <4>1. /\ UNCHANGED <<repo_seq, base>> /\ base + Len(chan) < Len(repo_seq)
            /\ chan' = Append(chan, base + Len(chan) + 1)
        BY <3>3, PublishStep, Zenon
      <4>2. Decoded' = Decoded BY <4>1, Zenon DEF Decoded
      <4>3. base + Len(chan) < Len(Decoded) BY <1>2, <4>1, Zenon
      <4>4. F!Broadcast
        BY <2>1, <4>1, <4>2, <4>3, Zenon DEF F!Broadcast, F!subs, subscribers, Decoded
      <4> QED BY <4>4, Zenon DEF F!Next
    <3>4. CASE ~W!Publish(t)
      <4>1. UNCHANGED <<repo_seq, base, chan>>
        BY <3>1, <3>2, <3>4, QuietStep, StampStep, Zenon DEF W!TaskStep
      <4> QED BY <1>1, <2>1, <4>1, Zenon
    <3> QED BY <3>3, <3>4, ZenonT(30)
  <2>3. CASE W!RunCommit
    <3>1. PICK row \in [did : Dids, commit : Nat] : repo_seq' = Append(repo_seq, row)
      BY <2>3, CommitStep, Zenon
    <3>2. UNCHANGED <<base, chan>> /\ IInv' BY <2>3, CommitStep, Zenon
    <3>3. repo_seq \in Seq([did : Dids, commit : Nat]) BY Zenon DEF IInv, Types
    <3>4. Decoded' = Append(Decoded, TRUE) BY <3>1, <3>3, DecodedAppend, Zenon
    <3>5. Len(repo_seq') = Len(repo_seq) + 1 /\ Len(repo_seq) \in Nat
      <4> DEFINE R == [did : Dids, commit : Nat]
      <4>1. repo_seq \in Seq(R) /\ row \in R /\ repo_seq' = Append(repo_seq, row)
        BY <3>1, <3>3, Zenon
      <4> HIDE DEF R
      <4> QED BY <4>1
    <3>6. Len(repo_seq') <= MaxLog
      <4>1. Len(repo_seq') = Cardinality(Stamped') BY <3>2, Zenon DEF IInv, CountInv
      <4>2. Stamped' \in SUBSET Tasks BY Zenon DEF Stamped
      <4>3. /\ Cardinality(Stamped') <= Cardinality(Tasks) /\ Cardinality(Tasks) \in Nat
            /\ Cardinality(Stamped') \in Nat
        BY <4>2, FS_Subset, FS_CardinalityType, Zenon DEF OneRepository
      <4> QED BY <4>1, <4>3, SMTT(30) DEF OneRepository
    <3>7. Len(Decoded) < MaxLog BY <1>2, <3>5, <3>6, SMTT(30) DEF OneRepository
    <3>8. \E decodes \in BOOLEAN : Decoded' = Append(Decoded, decodes) BY <3>4, Zenon
    <3>9. F!CommitRow
      BY <2>1, <3>2, <3>7, <3>8, Zenon DEF F!CommitRow, F!subs, subscribers, Decoded
    <3> QED BY <3>9, Zenon DEF F!Next
  <2>4. CASE W!RunLoad \/ W!RunFail
    BY <1>1, <2>1, <2>4, NoRowStep, Zenon
  <2> QED BY <1>3, <2>2, <2>3, <2>4, Zenon DEF WriterStep, W!Connection
<1>4. CASE SubscriberStep BY <1>4, Zenon DEF SubscriberStep, F!Next
<1>5. CASE Crash
  <2>1. chan' = <<>> /\ base' = Len(repo_seq) /\ UNCHANGED repo_seq
    BY <1>5, CrashStep, Zenon DEF Crash
  <2>2. Decoded' = Decoded BY <2>1, Zenon DEF Decoded
  <2>3. base' = Len(Decoded) BY <1>2, <2>1, Zenon
  <2>4. F!Crash BY <1>5, <2>1, <2>2, <2>3, Zenon DEF Crash, F!Crash, Decoded
  <2> QED BY <2>4, Zenon DEF F!Next
<1>6. CASE UNCHANGED vars
  <2>1. UNCHANGED <<repo_seq, base, chan, subscribers>> BY <1>6, Zenon DEF vars, writers
  <2> QED BY <1>1, <2>1, Zenon
<1> QED BY <1>3, <1>4, <1>5, <1>6, Zenon DEF Next

-----------------------------------------------------------------------------
(* The theorems                                                             *)

\* With one repository the invariant holds in every state of every behaviour.
THEOREM Invariance == ASSUME OneRepository PROVE Spec => []IInv
<1>1. Init => IInv BY InitIInv, Zenon
<1>2. IInv /\ [Next]_vars => IInv' BY NextIInv, Zenon
<1> QED BY <1>1, <1>2, PTL DEF Spec

\* With one repository the write path of commit_op is the environment that
\* SubscribeRepos assumes: every behaviour of the server is one of SubscribeRepos.
THEOREM WriterIsTheEnvironment == ASSUME OneRepository PROVE Spec => ImplementsFirehose
<1>1. Init => F!Init
  <2> SUFFICES ASSUME Init PROVE F!Init
    BY Zenon
  <2>1. Decoded = <<>>
    <3>1. Decoded \in [1..0 -> BOOLEAN] BY Zenon DEF Init, W!Init, Decoded
    <3> QED BY ONLY <3>1, SMTT(30)
  <2> QED BY <2>1, Zenon DEF Init, W!Init, F!Init, Decoded
<1>2. IInv /\ [Next]_vars => [F!Next]_(F!vars) BY StepRefines, Zenon
<1> QED BY <1>1, <1>2, Invariance, PTL DEF Spec, ImplementsFirehose, F!Spec

=============================================================================
