--------------------------- MODULE WorkerFirehose ---------------------------
(***************************************************************************)
(* The firehose of the Workers deployment: every account's Durable Object   *)
(* commits to its own store (store.rs), hands the commit to the sequencer   *)
(* object (durable.rs), and the sequencer numbers it, logs it and pushes it *)
(* to the subscribed relays (sequencer.rs).  The operator may push commits  *)
(* of any content into the sequencer as well (lib.rs, firehose_inject).     *)
(*                                                                          *)
(* The storage calls of an object never suspend, so a write up to its       *)
(* commit, an enqueue and a subscription are one step each.  A statement    *)
(* that fails returns an error and leaves the earlier ones in place: no     *)
(* transaction is open.  An object's messages leave it once its writes are  *)
(* durable.                                                                 *)
(***************************************************************************)
EXTENDS Naturals, Sequences

CONSTANTS
    Dids,           \* accounts, one object each
    Writes,         \* write requests; also the commit each of them makes
    Clients,        \* relays
    None,           \* no root, no socket, no cursor
    MaxConnects,    \* bound on the connections of a client
    MaxInjects,     \* bound on the operator's pushes
    Envs            \* what may happen: sets of "lost" calls, failing "sql" statements,
                    \* closing "sockets" and "inject", the operator's pushes

\* A row of the log, and a message to a relay.  Nothing in a frame tells who asked for
\* it; `by` is for the properties.
Frame == [seq : Nat \ {0}, commit : Writes, by : {"account", "operator"}]

\* None is no commit, no cursor and no socket.
ASSUME ConstantsAssumption ==
    /\ None \notin Writes /\ None \notin Nat /\ None \notin Seq(Frame)
    /\ MaxConnects \in Nat /\ MaxInjects \in Nat
    /\ Envs \subseteq SUBSET {"lost", "sql", "sockets", "inject"}

VARIABLES
    env,            \* the member of Envs that this behaviour is exposed to
    repo_roots,     \* account objects: did -> its newest commit or None
    repo_seq,       \* account objects: did -> sequence of its commits
    pc,             \* where each write request is
    injects,        \* the operator's pushes so far
    next,           \* sequencer: seq_counter.next
    firehose_log,   \* sequencer: sequence of rows
    socket,         \* client -> frames on the way to it; None when not connected
    received,       \* client -> the frames it received, over all its connections
    connects,       \* client -> its connections so far
    from            \* history: client -> the seq its stream starts after

vars == <<env, repo_roots, repo_seq, pc, injects, next, firehose_log, socket, received,
          connects, from>>
account == <<repo_roots, repo_seq>>
sequencer == <<next, firehose_log>>
relay == <<received, connects, from>>

TypeOK ==
    /\ env \in Envs
    /\ repo_roots \in [Dids -> Writes \cup {None}]
    /\ repo_seq \in [Dids -> Seq(Writes)]
    /\ pc \in [Writes -> {"idle", "enqueue", "answered", "failed"}]
    /\ injects \in 0..MaxInjects
    /\ next \in Nat \ {0}
    /\ firehose_log \in Seq(Frame)
    /\ socket \in [Clients -> Seq(Frame) \cup {None}]
    /\ received \in [Clients -> Seq(Frame)]
    /\ connects \in [Clients -> 0..MaxConnects]
    /\ from \in [Clients -> Nat]

\* INSERT OR IGNORE INTO seq_counter (id, next) VALUES (0, 1).
FirstSeq == 1

Init ==
    /\ env \in Envs
    /\ repo_roots = [d \in Dids |-> None]
    /\ repo_seq = [d \in Dids |-> <<>>]
    /\ pc = [w \in Writes |-> "idle"]
    /\ injects = 0
    /\ next = FirstSeq
    /\ firehose_log = <<>>
    /\ socket = [c \in Clients |-> None]
    /\ received = [c \in Clients |-> <<>>]
    /\ connects = [c \in Clients |-> 0]
    /\ from = [c \in Clients |-> 0]

-----------------------------------------------------------------------------
(* The account's object                                                     *)

\* commit_blocks in an account's object, its first n statements of two (the
\* repo_seq row and the root; a block that no root reaches shows nowhere).
CommitBlocks(d, w, n) ==
    /\ repo_seq' = IF n >= 1 THEN [repo_seq EXCEPT ![d] = Append(@, w)] ELSE repo_seq
    /\ repo_roots' = IF n = 2 THEN [repo_roots EXCEPT ![d] = w] ELSE repo_roots

\* As Write, but a failed commit is sequenced too.
Write_Anyway(w, d, n) ==
    /\ pc[w] = "idle"
    /\ n = 2 \/ "sql" \in env
    /\ CommitBlocks(d, w, n)
    /\ pc' = [pc EXCEPT ![w] = "enqueue"]
    /\ UNCHANGED <<env, injects, sequencer, socket, relay>>

\* createRecord, putRecord, deleteRecord or applyWrites: one commit, handed to
\* the sequencer only when commit_blocks succeeded.
Write(w, d, n) ==
    /\ pc[w] = "idle"
    /\ n = 2 \/ "sql" \in env
    /\ CommitBlocks(d, w, n)
    /\ pc' = [pc EXCEPT ![w] = IF n = 2 THEN "enqueue" ELSE "failed"]
    /\ UNCHANGED <<env, injects, sequencer, socket, relay>>

\* enqueue_commit fails before it reaches the sequencer, or the object is
\* evicted; the request is answered all the same.
EnqueueLost(w) ==
    /\ "lost" \in env
    /\ pc[w] = "enqueue"
    /\ pc' = [pc EXCEPT ![w] = "answered"]
    /\ UNCHANGED <<env, account, injects, sequencer, socket, relay>>

-----------------------------------------------------------------------------
(* The sequencer                                                            *)

\* As Push, but to the sockets with nothing on the way.
Push_Idle(frame) ==
    socket' = [c \in Clients |-> IF socket[c] # <<>> THEN socket[c] ELSE <<frame>>]

\* Every connected socket is sent the frame.
Push(frame) ==
    socket' = [c \in Clients |-> IF socket[c] = None THEN None ELSE Append(socket[c], frame)]

Bump == next' = next + 1

\* enqueue: take the next seq, log the frame, push it.  The INSERT fails on a seq
\* that is already logged; ok is FALSE when something fails otherwise, after the
\* counter has moved.
Sequence(w, by, ok) ==
    LET frame == [seq |-> next, commit |-> w, by |-> by]
        inserts == ok /\ \A i \in DOMAIN firehose_log : firehose_log[i].seq # next
    IN
    /\ Bump
    /\ IF inserts
       THEN firehose_log' = Append(firehose_log, frame) /\ Push(frame)
       ELSE UNCHANGED <<firehose_log, socket>>

\* /enqueue: an account's object hands its commit over, and is answered.
Enqueue(w, ok) ==
    /\ pc[w] = "enqueue"
    /\ ok \/ "sql" \in env
    /\ Sequence(w, "account", ok)
    /\ pc' = [pc EXCEPT ![w] = "answered"]
    /\ UNCHANGED <<env, account, injects, relay>>

\* /_stelyph/admin/firehose-inject, /_test-inject: the operator pushes a commit, which
\* an account may have made or not, and which may be on the log already; one that
\* does not parse fails after the counter has moved.
Inject(w, ok) ==
    /\ "inject" \in env
    /\ injects < MaxInjects
    /\ injects' = injects + 1
    /\ Sequence(w, "operator", ok)
    /\ UNCHANGED <<env, account, pc, relay>>

\* The first k rows are the ones up to seq n: seq is the primary key and the counter
\* only grows, so the rows are logged in the order of their seqs.
Divides(k, n) == \A i \in 1..Len(firehose_log) : firehose_log[i].seq <= n <=> i <= k

\* The number of rows up to seq n.
RowsUpTo(n) == CHOOSE k \in 0..Len(firehose_log) : Divides(k, n)

\* As Backlog, but with the frame at the cursor.
Backlog_Inclusive(after) ==
    SubSeq(firehose_log, RowsUpTo(after - 1) + 1, Len(firehose_log))

\* SELECT frame FROM firehose_log WHERE seq > after ORDER BY seq.
Backlog(after) == SubSeq(firehose_log, RowsUpTo(after) + 1, Len(firehose_log))

\* subscribe: accept the socket and, given a cursor, send the backlog.  A client
\* resumes from what it received last.  A cursor beyond the head sends nothing.
Subscribe(c, cursor) ==
    LET after == IF received[c] # <<>> THEN received[c][Len(received[c])].seq ELSE cursor
        head == next - 1
    IN
    /\ socket[c] = None
    /\ connects[c] < MaxConnects
    /\ connects' = [connects EXCEPT ![c] = @ + 1]
    /\ socket' = [socket EXCEPT ![c] = IF after = None THEN <<>> ELSE Backlog(after)]
    /\ from' = IF received[c] # <<>> THEN from
               ELSE [from EXCEPT ![c] = IF after = None \/ after > head THEN head ELSE after]
    /\ UNCHANGED <<env, account, pc, injects, sequencer, received>>

-----------------------------------------------------------------------------
(* The relay                                                                *)

Receive(c) ==
    /\ socket[c] \notin {None, <<>>}
    /\ received' = [received EXCEPT ![c] = Append(@, Head(socket[c]))]
    /\ socket' = [socket EXCEPT ![c] = Tail(@)]
    /\ UNCHANGED <<env, account, pc, injects, sequencer, connects, from>>

\* The connection ends, with what is on the way; later sends to it fail.
Close(c) ==
    /\ "sockets" \in env
    /\ socket[c] # None
    /\ socket' = [socket EXCEPT ![c] = None]
    /\ UNCHANGED <<env, account, pc, injects, sequencer, relay>>

-----------------------------------------------------------------------------

Next ==
    \/ \E w \in Writes :
         \/ \E d \in Dids, n \in 0..2 : Write(w, d, n)
         \/ EnqueueLost(w)
         \/ \E ok \in BOOLEAN : Enqueue(w, ok)
         \/ \E ok \in BOOLEAN : Inject(w, ok)
    \/ \E c \in Clients :
         \/ \E cursor \in 0..next \cup {None} : Subscribe(c, cursor)
         \/ Receive(c)
         \/ Close(c)

Spec == Init /\ [][Next]_vars

\* A call reaches the sequencer and a connected relay reads its socket.
Fairness ==
    /\ \A w \in Writes : WF_vars(\E ok \in BOOLEAN : Enqueue(w, ok))
    /\ \A c \in Clients : WF_vars(Receive(c))

FairSpec == Spec /\ Fairness

-----------------------------------------------------------------------------
(* Properties                                                               *)

Committed(w) == \E d \in Dids : \E i \in 1..Len(repo_seq[d]) : repo_seq[d][i] = w

\* What a client has received and what is on the way to it.
Stream(c) == received[c] \o (IF socket[c] = None THEN <<>> ELSE socket[c])

\* s is the run of log that starts after its row k.
IsRun(s, log, k) ==
    /\ k + Len(s) <= Len(log)
    /\ \A i \in 1..Len(s) : s[i] = log[k + i]

\* sequencer.rs: a send to a dead socket "loses nothing".  Over all its
\* connections a client sees the log from where it started, the operator's frames
\* included, each row once and in order: all of it while it is connected, a prefix of
\* it otherwise.
StreamIsLog ==
    \A c \in Clients :
        \E k \in 0..Len(firehose_log) :
            /\ Divides(k, from[c])
            /\ IsRun(Stream(c), firehose_log, k)
            /\ socket[c] # None => k + Len(Stream(c)) = Len(firehose_log)

\* A commit that an account's object put on the firehose is in the account's store,
\* and its object put it there once: the sequencer hears of a commit after
\* commit_blocks and no call is repeated, while the operator pushes what they like in
\* between (and every variable keeps its type).
SequencedOnce ==
  /\ TypeOK
  /\ \A i, j \in DOMAIN firehose_log :
        firehose_log[i].by = "account" =>
            /\ Committed(firehose_log[i].commit)
            /\ (firehose_log[j].by = "account" /\ firehose_log[i].commit = firehose_log[j].commit)
                 => i = j

\* sequencer.rs, enqueue: "the global order is total and gap-free".  Total it is; a
\* call that fails after the counter has moved leaves a gap.
GapFree == \A i \in DOMAIN firehose_log : firehose_log[i].seq = i

\* When calls arrive and statements succeed, every commit of every account is
\* logged for its account, and every connected relay whose stream covers it receives it,
\* whatever the operator pushes.
EveryCommitStreams ==
    \A w \in Writes : Committed(w) /\ env \subseteq {"sockets", "inject"} ~>
        \E i \in DOMAIN firehose_log :
            /\ firehose_log[i].commit = w /\ firehose_log[i].by = "account"
            /\ \A c \in Clients : socket[c] # None /\ from[c] < firehose_log[i].seq =>
                 \E n \in 1..Len(received[c]) : received[c][n] = firehose_log[i]

=============================================================================
