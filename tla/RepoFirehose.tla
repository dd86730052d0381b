----------------------------- MODULE RepoFirehose -----------------------------
(***************************************************************************)
(* The write path and the firehose together, in one server process: the     *)
(* subscribers of SubscribeRepos read the log that RepoWriter commits to    *)
(* and the channel that its commit_op broadcasts on.                        *)
(***************************************************************************)
EXTENDS RepoTree, FiniteSets

CONSTANTS
    Dids, Tasks, Requests, Droppable, NoTask,               \* of RepoWriter
    Subs, Capacity, Page, NoCursor, MaxLog, MaxConns        \* of SubscribeRepos

VARIABLES
    commits, repo_roots, repo_seq, base, lock, writer, calls, chan,
    tpc, req, root, built, seq,                             \* of RepoWriter
    spc, cursor, pos, last, page, recovered, got, conns     \* of SubscribeRepos

W == INSTANCE RepoWriter WITH pc <- tpc

\* Every row that commit_op writes decodes.
F == INSTANCE SubscribeRepos WITH pc <- spc, log <- [i \in 1..Len(repo_seq) |-> TRUE]

writers == <<commits, repo_roots, repo_seq, base, lock, writer, calls, chan,
             tpc, req, root, built, seq>>
subscribers == <<spc, cursor, pos, last, page, recovered, got, conns>>
vars == <<writers, subscribers>>

Init == W!Init /\ spc = [s \in Subs |-> "new"] /\ cursor = [s \in Subs |-> NoCursor]
        /\ pos = [s \in Subs |-> 0] /\ last = [s \in Subs |-> 0]
        /\ page = [s \in Subs |-> <<>>] /\ recovered = [s \in Subs |-> FALSE]
        /\ got = [s \in Subs |-> <<>>] /\ conns = [s \in Subs |-> 0]

\* A request handler, or the connection thread, takes a step.
WriterStep ==
    /\ \/ \E t \in Tasks : W!TaskStep(t) \/ W!Drop(t)
       \/ W!Connection
    /\ UNCHANGED subscribers

\* A firehose connection opens, takes a step or is lost.
SubscriberStep ==
    /\ UNCHANGED writers
    /\ \E s \in Subs : F!Connect(s) \/ F!HandlerStep(s) \/ F!Disconnect(s)

\* The process dies and is restarted on the same database.
Crash ==
    /\ W!Crash
    /\ F!AllGone
    /\ UNCHANGED <<cursor, pos, last, page, recovered, got, conns>>

Next == WriterStep \/ SubscriberStep \/ Crash

Spec == Init /\ [][Next]_vars

-----------------------------------------------------------------------------
(* With one repository and no dropped request, the writer is the environment *)
(* that SubscribeRepos assumes.                                              *)

\* One account, whose requests all publish and run to their end unless the process
\* dies.  Every task commits once at most, so the rows fit the log's bound.
OneRepository ==
    /\ \E d \in Dids : Dids = {d}
    /\ Requests \subseteq [did : Dids, ops : Seq(WriteOps), publish : {TRUE}]
    /\ NoTask \notin Tasks /\ Droppable = {}
    /\ IsFiniteSet(Tasks) /\ MaxLog \in Nat /\ Cardinality(Tasks) <= MaxLog

\* RepoWriter broadcasts exactly as SubscribeRepos assumes of its environment:
\* committed rows, each once, in seq order.
ImplementsFirehose == F!Spec

\* "Subscribe to broadcast FIRST (before backfill query) so we never miss live
\* events" and "Dedup: skip events already sent during backfill": whatever the last
\* seq a connected client was sent, it was sent every committed event before it,
\* back to its cursor or to the first event it received.
NeverMissesLiveEvents == F!NoGap /\ F!FromCursor

=============================================================================
