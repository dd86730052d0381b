----------------------------- MODULE RecordTasks -----------------------------
(***************************************************************************)
(* The state the record endpoints share on every server, and the steps     *)
(* their handlers are made of.  One repository is written and read by      *)
(* concurrent requests (tasks).  A write takes effect at one instant, which *)
(* is what RepoWriter and AccountObject show of apply_one and               *)
(* apply_many_parts.  The three servers differ in where a handler awaits.   *)
(***************************************************************************)
EXTENDS Naturals, Sequences, FiniteSets

CONSTANTS
    Collections,    \* collections, as numbers in the order of "nsid/"
    Rkeys,          \* record keys, as numbers in their string order
    Values,         \* record CIDs
    NoRecord,       \* "this key holds no record"
    PageMax,        \* 100 in the code
    PageDefault,    \* 50 in the code
    Tasks,          \* requests in flight
    Mixes,          \* what clients may ask for together: sets of requests per task
    Seeds,          \* the trees a repository may start with
    BadName,        \* a collection or rkey that fails validation
    BadRecord,      \* a record that dag-cbor cannot encode
    Null,           \* the JSON value null, as a record
    Blobs,          \* blob CIDs, as numbers in their order
    BlobPageMax,    \* 1000 in the code
    BlobPageDefault,\* 500 in the code
    MaxClock        \* bound on the clock that keys are generated from

Keys == Collections \X Rkeys

INSTANCE RepoTree

R == INSTANCE RepoReads

VARIABLES
    mix,        \* the element of Mixes that this behaviour has
    server,     \* "desktop", "embedded" or "worker"
    hosted,     \* whether the account and its keys exist here
    commits,    \* the repository: <<[tree, ops, by, rev], ...>>; the root is the last
    blobs,      \* stored blobs
    cached,     \* the signing key is in the process's cache
    clock,      \* the wall clock, in the unit of generated keys
    pc,         \* pc[t]: the next step of t's handler
    req,        \* req[t]: the request t serves
    op,         \* op[t]: the write passed to the writer
    seen,       \* seen[t]: the root a read loaded
    done,       \* done[t]: writes of a batch that were applied
    got,        \* got[t]: what the client of a listing received so far
    from,       \* from[t]: commits and blobs when the client asked
    reply       \* reply[t]: the answer, with the commits and blobs at that time

repo == <<mix, server, hosted, commits, blobs, cached, clock>>
task == <<pc, req, op, seen, done, got, from, reply>>
vars == <<mix, server, hosted, commits, blobs, cached, clock, pc, req, op, seen, done, got, from, reply>>

ASSUME RecordAssumption ==
    /\ Collections \subseteq Nat /\ Rkeys \subseteq Nat
    /\ PageDefault \in 1..PageMax
    /\ \A s \in Seeds : s \in Trees
    /\ Null \in Values /\ BadRecord \notin Values /\ NoRecord \notin Values
    /\ 1..MaxClock \subseteq Rkeys
    /\ Blobs \subseteq Nat /\ BlobPageDefault \in 1..BlobPageMax

NoOp == [action |-> "none"]
NoReply == [status |-> "none"]
NoRequest == [nsid |-> "none"]

Tip == R!TreeAt(commits, R!load_repo_root(commits))

Init ==
    /\ mix \in Mixes
    /\ server \in {"desktop", "embedded", "worker"}
    /\ hosted \in BOOLEAN
    /\ \E s \in Seeds : commits = IF hosted /\ s # EmptyTree
                                  THEN <<[tree |-> s, ops |-> <<>>, by |-> "earlier", rev |-> 0]>>
                                  ELSE <<>>
    /\ blobs = {} /\ cached = FALSE /\ clock = 1
    /\ pc = [t \in Tasks |-> "idle"]
    /\ req = [t \in Tasks |-> NoRequest]
    /\ op = [t \in Tasks |-> NoOp]
    /\ seen = [t \in Tasks |-> 0]
    /\ done = [t \in Tasks |-> 0]
    /\ got = [t \in Tasks |-> <<>>]
    /\ from = [t \in Tasks |-> [commits |-> 0, blobs |-> {}]]
    /\ reply = [t \in Tasks |-> NoReply]

-----------------------------------------------------------------------------
(* Steps of a handler.  Each says what it does to the task's own variables. *)

Goto(t, label) ==
    /\ pc' = [pc EXCEPT ![t] = label]
    /\ UNCHANGED <<req, op, seen, done, got, from, reply>>

\* The handler returns; `body` is what the client can see of the answer.
Answer(t, status, body) ==
    /\ pc' = [pc EXCEPT ![t] = "done"]
    /\ reply' = [reply EXCEPT ![t] = [status |-> status, body |-> body,
                                      at |-> Len(commits'), blobs |-> blobs']]
    /\ UNCHANGED <<req, op, seen, done, got, from>>

Error(t, status) == Answer(t, status, {})

\* A handler that has a write for the writer: it needs the key first, or has it.
Prepare(t, o, label) ==
    /\ op' = [op EXCEPT ![t] = o]
    /\ pc' = [pc EXCEPT ![t] = label]
    /\ UNCHANGED <<req, seen, done, got, from, reply>>

\* A read loads the root and awaits the blocks.
LoadRoot(t, label) ==
    /\ seen' = [seen EXCEPT ![t] = R!load_repo_root(commits)]
    /\ pc' = [pc EXCEPT ![t] = label]
    /\ UNCHANGED <<req, op, done, got, from, reply>>

\* A call to the store fails, and the handler with it.
StoreFails(t) == Error(t, "StoreError")

-----------------------------------------------------------------------------
(* The writer. *)

Create(key, record) == [action |-> "create", key |-> key, value |-> record]
Update(key, record) == [action |-> "update", key |-> key, value |-> record]
Delete(key) == [action |-> "delete", key |-> key]

\* The trees a batch leads to: none if one of its writes is refused.
ApplyMany(tree, ops) ==
    R!FoldLeft(LAMBDA trees, o : {ApplyOp(x, o) : x \in {y \in trees : CanApply(y, o)}},
             {tree}, ops)

Commits(t, ops) ==
    \E new \in ApplyMany(Tip, ops) :
        commits' = Append(commits, [tree |-> new, ops |-> ops, by |-> t, rev |-> clock])

apply_one(t) ==
    /\ pc[t] = "apply"
    /\ UNCHANGED <<mix, server, hosted, blobs, cached, clock>>
    /\ \/ Commits(t, <<op[t]>>) /\ Goto(t, "applied")
       \/ /\ ~CanApply(Tip, op[t])
          /\ UNCHANGED commits /\ Error(t, "Refused")
       \/ UNCHANGED commits /\ Error(t, "StoreError")

\* An empty or oversized body is refused before the store is touched.
store_blob(t) ==
    LET r == req[t] IN
    \/ /\ r.size \in {"empty", "over"}
       /\ UNCHANGED blobs /\ Error(t, "InvalidRequest")
    \/ /\ r.size = "fits"
       /\ blobs' = blobs \cup {r.blob} /\ Answer(t, "OK", {r.blob})
    \/ /\ r.size = "fits"
       /\ UNCHANGED blobs /\ Error(t, "StoreError")

-----------------------------------------------------------------------------
(* Clients and the world around the handlers. *)

Receive(t) ==
    /\ pc[t] = "idle"
    /\ \E r \in mix[t] : req' = [req EXCEPT ![t] = r]
    /\ pc' = [pc EXCEPT ![t] = "start"]
    /\ from' = [from EXCEPT ![t] = [commits |-> Len(commits), blobs |-> blobs]]
    /\ UNCHANGED <<op, seen, done, got, reply>> /\ UNCHANGED repo

Listing(t) == req[t].nsid \in {"listRecords", "listBlobs"}

\* A client that pages asks again as long as it gets a cursor.
NextPage(t) ==
    /\ pc[t] = "done" /\ Listing(t) /\ reply[t].status = "OK"
    /\ reply[t].body.cursor # {}
    /\ got' = [got EXCEPT ![t] = @ \o reply[t].body.items]
    /\ req' = [req EXCEPT ![t].cursor = reply[t].body.cursor]
    /\ pc' = [pc EXCEPT ![t] = "start"]
    /\ UNCHANGED <<op, seen, done, from, reply>> /\ UNCHANGED repo

\* The client goes away and the handler's future is dropped.  A transaction it
\* has queued may still run.
Drop(t) ==
    /\ server # "worker"
    /\ pc[t] \notin {"idle", "done", "orphan", "gone"}
    /\ Goto(t, IF pc[t] = "apply" THEN "orphan" ELSE "gone")
    /\ UNCHANGED repo

Orphan(t) ==
    /\ pc[t] = "orphan"
    /\ Commits(t, <<op[t]>>)
    /\ Goto(t, "gone")
    /\ UNCHANGED <<mix, server, hosted, blobs, cached, clock>>

Tick ==
    /\ clock < MaxClock
    /\ clock' = clock + 1
    /\ UNCHANGED <<mix, server, hosted, commits, blobs, cached>> /\ UNCHANGED task

-----------------------------------------------------------------------------
(* Input checks that all servers share. *)

validate_collection(c) == c # BadName

validate_rkey(r) == r # BadName

json_value_to_ipld(v) == {v} \ {BadRecord}

\* An absent rkey is generated from the clock.
RkeyOf(r, now) == IF r = {} THEN now ELSE CHOOSE x \in r : TRUE

ValidNames(w) == validate_collection(w.collection) /\ \A r \in w.rkey : validate_rkey(r)

==============================================================================
