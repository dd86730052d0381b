------------------------------ MODULE CommitLog ------------------------------
(***************************************************************************)
(* What the repo write path promises, without locks, tasks or a database:  *)
(* every repository is one map, each write request takes effect on it at a *)
(* single instant or not at all, and at that same instant its ops are       *)
(* appended to the one totally ordered event log.                           *)
(***************************************************************************)
EXTENDS RepoTree

CONSTANTS
    Dids,       \* the accounts of this server
    Requests    \* the write requests clients may send: [did, ops, publish]

VARIABLES
    head,       \* the current contents of each repository
    log         \* the event log: <<[did, ops], ...>>; seq is the index

vars == <<head, log>>

TypeOK ==
    /\ head \in [Dids -> Trees]
    /\ log \in Seq([did : Dids, ops : Seq(WriteOps)])

Init ==
    /\ head = [d \in Dids |-> EmptyTree]
    /\ log = <<>>

Commit(r) ==
    /\ \E new \in Trees :
         /\ Applies(head[r.did], r.ops, new)
         /\ head' = [head EXCEPT ![r.did] = new]
    /\ log' = Append(log, [did |-> r.did, ops |-> r.ops])

Next == \E r \in Requests : Commit(r)

Spec == Init /\ [][Next]_vars

=============================================================================
