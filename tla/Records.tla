------------------------------- MODULE Records -------------------------------
(***************************************************************************)
(* The record endpoints of the three servers over one repository, with any *)
(* interleaving of their requests, and what clients may rely on.           *)
(***************************************************************************)
EXTENDS RecordTasks

Desktop == INSTANCE DesktopRecords
Embedded == INSTANCE EmbeddedRecords
Worker == INSTANCE WorkerRecords

Handler(t) ==
    \/ server = "desktop" /\ Desktop!Handler(t)
    \/ server = "embedded" /\ Embedded!Handler(t)
    \/ server = "worker" /\ Worker!Handler(t)

Next ==
    \/ \E t \in Tasks : Receive(t) \/ Handler(t) \/ NextPage(t) \/ Drop(t) \/ Orphan(t)
    \/ Tick

Spec == Init /\ [][Next]_vars

-----------------------------------------------------------------------------

\* The state is well formed: commits hold trees and come from known requests,
\* and a request that was answered has an answer.
TypeOK ==
    /\ server \in {"desktop", "embedded", "worker"} /\ hosted \in BOOLEAN /\ cached \in BOOLEAN
    /\ \A i \in DOMAIN commits :
         commits[i].tree \in Trees /\ commits[i].by \in Tasks \cup {"earlier"}
    /\ blobs \subseteq Blobs /\ clock \in 1..MaxClock
    /\ \A t \in Tasks :
         /\ pc[t] = "done" => reply[t].status # "none" /\ reply[t].at \in from[t].commits..Len(commits)
         /\ pc[t] \in {"apply", "orphan"} => op[t] \in WriteOps

\* The ops that a request committed, in the order of the history.
OpsOf(t) ==
    R!FlattenSeq([i \in DOMAIN commits |-> IF commits[i].by = t THEN commits[i].ops ELSE <<>>])

SameWrite(o, w) ==
    /\ o.action = w.action /\ o.key[1] = w.collection
    /\ \A r \in w.rkey : o.key[2] = r
    /\ o.action # "delete" => o.value = w.value

\* What an applyWrites leaves in the repository is always a prefix of what was
\* asked, in order; success means all of it.  On the Worker nothing else than all or
\* nothing is possible, in one commit; on the other two a batch that fails keeps the
\* writes before the failing one (xrpc/repo.rs:266, handlers.rs:1487).
BatchIsPrefix ==
    \A t \in Tasks : req[t].nsid = "applyWrites" =>
        LET ops == OpsOf(t)
            writes == req[t].writes
        IN  /\ Len(ops) <= Len(writes)
            /\ \A i \in DOMAIN ops : SameWrite(ops[i], writes[i])
            /\ (pc[t] = "done" /\ reply[t].status = "OK") => Len(ops) = Len(writes)
            /\ (pc[t] = "done" /\ reply[t].status # "OK") => Len(ops) < Len(writes) \/ writes = <<>>
            /\ server = "worker" => /\ Len(ops) \in {0, Len(writes)}
                                    /\ Cardinality({i \in DOMAIN commits : commits[i].by = t}) <= 1

\* writer.rs: "what `com.atproto.repo.applyWrites` promises: the batch lands whole or not
\* at all"; xrpc/repo.rs calls N commits instead of one "the only deviation".  The Worker
\* keeps the promise; the server binary and the embedded server, which commit write by
\* write, do not.
BatchIsWhole ==
    \A t \in Tasks : req[t].nsid = "applyWrites" /\ pc[t] = "done" =>
        Len(OpsOf(t)) \in {0, Len(req[t].writes)}

\* The roots that were current at some time between question and answer.
Window(t) == from[t].commits..reply[t].at
KeyOf(t) == <<req[t].collection, CHOOSE r \in req[t].rkey : TRUE>>
Answered(t, nsid, status) == pc[t] = "done" /\ req[t].nsid = nsid /\ reply[t].status = status
Explained(t, P(_)) == \E i \in Window(t) : P(R!TreeAt(commits, i))

\* The collections of a describeRepo are those of one moment.
CollectionsAreCurrent(t) ==
    Explained(t, LAMBDA tree : reply[t].body = {k[1] : k \in {x \in Keys : tree[x] # NoRecord}})

\* server/repo.rs: the embedded handlers mirror the server binary's.  describeRepo does
\* not: where the binary reports that the root could not be loaded, the embedded server
\* answers that the repository has no collections.
DescribeIsCurrent ==
    \A t \in Tasks : Answered(t, "describeRepo", "OK") => CollectionsAreCurrent(t)

\* Every answer but one is true of one moment between the request and the answer: a
\* record that is returned, or said to be missing (getRecord, and the
\* deleteRecord that has nothing to do), an export, a head, the collections and a
\* blob.  The lookups run outside the write lock (xrpc/repo.rs:475, 584).  The
\* exception is the embedded describeRepo that could not load the root, which answers
\* no collections (seen stays 0; see DescribeIsCurrent).
AnswersAreCurrent ==
    \A t \in Tasks :
        /\ Answered(t, "getRecord", "OK") =>
             Explained(t, LAMBDA tree : {tree[KeyOf(t)]} = reply[t].body)
        /\ Answered(t, "getRecord", "NotFound") =>
             Explained(t, LAMBDA tree : tree[KeyOf(t)] = NoRecord)
        /\ (Answered(t, "deleteRecord", "OK") /\ reply[t].body = {}) =>
             Explained(t, LAMBDA tree : tree[KeyOf(t)] = NoRecord)
        /\ Answered(t, "getRepo", "OK") =>
             /\ reply[t].body.root \in Window(t)
             /\ reply[t].body.tree = commits[reply[t].body.root].tree
        /\ Answered(t, "describeRepo", "OK") =>
             \/ CollectionsAreCurrent(t)
             \/ server = "embedded" /\ seen[t] = 0 /\ reply[t].body = {}
        /\ Answered(t, "getLatestCommit", "OK") =>
             \A head \in reply[t].body : head.root \in Window(t)
        /\ Answered(t, "getBlob", "NotFound") => req[t].blob \notin from[t].blobs \/ ~hosted

\* A write that was acknowledged is in the history once, made while the client
\* waited, and a createRecord never replaced a record (server/repo.rs:175); the state
\* stays well formed.
AcknowledgedIsCommitted ==
  /\ TypeOK
  /\ \A t \in Tasks :
        (pc[t] = "done" /\ req[t].nsid \in {"createRecord", "putRecord", "deleteRecord"}
           /\ reply[t].status = "OK" /\ reply[t].body # {}) =>
        \E i \in from[t].commits + 1..reply[t].at :
            /\ commits[i].by = t
            /\ \A j \in DOMAIN commits : commits[j].by = t => j = i
            /\ {commits[i].ops[1].key} = reply[t].body
            /\ req[t].nsid = "createRecord" =>
                 R!TreeAt(commits, i - 1)[commits[i].ops[1].key] = NoRecord

\* putRecord and deleteRecord are refused only if somebody else wrote the key
\* after the request came in: the lookup that chose the operation went stale.
\* On the Worker that cannot happen (xrpc/repo.rs:475, handlers.rs:1352).
RefusedOnlyByRace ==
    \A t \in Tasks :
        (Answered(t, "putRecord", "Refused") \/ Answered(t, "deleteRecord", "Refused")) =>
        /\ server # "worker"
        /\ \E i \in from[t].commits + 1..reply[t].at :
             \E j \in DOMAIN commits[i].ops : commits[i].ops[j].key = KeyOf(t)

\* What a paging client has when the last page came.
Received(t) == got[t] \o reply[t].body.items
Ended(t, nsid) == Answered(t, nsid, "OK") /\ reply[t].body.cursor = {}

\* A client that follows the cursors of listRecords or listBlobs to the end has
\* every item that was there all the time, nothing twice and nothing that was
\* never there, in order, whatever was written between its pages
\* (repo/read.rs:81, handlers.rs:1226).
ListingIsComplete ==
    \A t \in Tasks :
        /\ Ended(t, "listRecords") =>
             LET InAll(k) == \A i \in Window(t) : R!TreeAt(commits, i)[k] # NoRecord
                 InSome(k) == \E i \in Window(t) : R!TreeAt(commits, i)[k] # NoRecord
                 mine == {k \in Keys : k[1] = req[t].collection}
             IN  /\ {k \in mine : InAll(k)} \subseteq R!Range(Received(t))
                 /\ \A k \in R!Range(Received(t)) : k \in mine /\ InSome(k)
                 /\ \A i, j \in DOMAIN Received(t) : i < j => R!Before(Received(t)[i], Received(t)[j])
        /\ Ended(t, "listBlobs") =>
             /\ from[t].blobs \subseteq R!Range(Received(t))
             /\ R!Range(Received(t)) \subseteq reply[t].blobs
             /\ \A i, j \in DOMAIN Received(t) : i < j => Received(t)[i] < Received(t)[j]

==============================================================================
