---------------------------- MODULE SubscribeRepos ----------------------------
(***************************************************************************)
(* com.atproto.sync.subscribeRepos (rust-pds/src/firehose/subscribe.rs, and *)
(* the same state machine in rust-core/src/server/firehose_ws.rs).          *)
(*                                                                          *)
(* A subscriber subscribes to the broadcast channel, pages through the log  *)
(* from its cursor, then relays live events, dropping those at or below the *)
(* last seq it sent.  The channel (tokio::sync::broadcast) keeps the last   *)
(* Capacity events: a receiver further behind gets Lagged, recovers once    *)
(* from the log, and is closed as ConsumerTooSlow the second time.          *)
(*                                                                          *)
(* The write path is an environment that commits rows and broadcasts them   *)
(* in seq order; RepoFirehose replaces it by RepoWriter.                    *)
(***************************************************************************)
EXTENDS Naturals, Sequences

CONSTANTS
    Subs,       \* clients of the firehose
    Capacity,   \* of the broadcast channel
    Page,       \* BACKFILL_PAGE
    NoCursor,   \* the `cursor` parameter is absent
    MaxLog,     \* bound: rows the environment commits
    MaxConns    \* bound: connections a client opens

ASSUME CapacityAssumption == Capacity \in Nat \ {0} /\ Page \in Nat \ {0}

ASSUME BoundsAssumption == MaxLog \in Nat /\ MaxConns \in Nat

ASSUME NoCursorAssumption == NoCursor \notin Nat

VARIABLES
    log,        \* repo_seq: for each seq, whether its stored event decodes
    base,       \* rows in the log when this process started
    chan,       \* seqs broadcast by this process, oldest first
    pc,         \* where each subscriber's handler is
    cursor,     \* the cursor its connection asked for
    pos,        \* how much of chan its receiver has taken
    last,       \* last_sent_seq
    page,       \* rows of the current backfill page not yet sent
    recovered,  \* recovered_from_lag
    got,        \* the seqs the client has received, over all its connections
    conns       \* connections the client has opened

env == <<log, base, chan>>
subs == <<pc, cursor, pos, last, page, recovered, got, conns>>
vars == <<env, subs>>

Connected == {"check", "page", "send", "live"}

Closed == {"gone", "future", "tooslow"}

TypeOK ==
    /\ log \in Seq(BOOLEAN)
    /\ base \in Nat
    /\ chan \in Seq(Nat)
    /\ pc \in [Subs -> {"new"} \cup Connected \cup Closed]
    /\ cursor \in [Subs -> Nat \cup {NoCursor}]
    /\ pos \in [Subs -> Nat]
    /\ last \in [Subs -> Nat]
    /\ page \in [Subs -> Seq(Nat)]
    /\ recovered \in [Subs -> BOOLEAN]
    /\ got \in [Subs -> Seq(Nat)]
    /\ conns \in [Subs -> Nat]

Init ==
    /\ log = <<>>
    /\ base = 0
    /\ chan = <<>>
    /\ pc = [s \in Subs |-> "new"]
    /\ cursor = [s \in Subs |-> NoCursor]
    /\ pos = [s \in Subs |-> 0]
    /\ last = [s \in Subs |-> 0]
    /\ page = [s \in Subs |-> <<>>]
    /\ recovered = [s \in Subs |-> FALSE]
    /\ got = [s \in Subs |-> <<>>]
    /\ conns = [s \in Subs |-> 0]

Goto(s, label) == pc' = [pc EXCEPT ![s] = label]

max_seq == Len(log)

-----------------------------------------------------------------------------
(* The handler of one connection.                                           *)

\* The client picks any cursor the first time and resumes from the last seq it
\* received afterwards.  The handler subscribes before anything else.
Connect(s) ==
    /\ pc[s] \in {"new"} \cup Closed
    /\ conns[s] < MaxConns
    /\ conns' = [conns EXCEPT ![s] = @ + 1]
    /\ \E c \in IF got[s] # <<>> THEN {got[s][Len(got[s])]} ELSE 0..MaxLog \cup {NoCursor} :
         /\ cursor' = [cursor EXCEPT ![s] = c]
         /\ last' = [last EXCEPT ![s] = IF c = NoCursor THEN 0 ELSE c]
         /\ Goto(s, IF c = NoCursor THEN "live" ELSE "check")
    /\ pos' = [pos EXCEPT ![s] = Len(chan)]
    /\ recovered' = [recovered EXCEPT ![s] = FALSE]
    /\ page' = [page EXCEPT ![s] = <<>>]
    /\ UNCHANGED <<env, got>>

\* Mutant of CheckCursor: `>=` refuses the client that has seen everything.
CheckCursor_AtEnd(s) ==
    /\ pc[s] = "check"
    /\ Goto(s, IF cursor[s] >= max_seq THEN "future" ELSE "page")
    /\ UNCHANGED <<env, cursor, pos, last, page, recovered, got, conns>>

CheckCursor(s) ==
    /\ pc[s] = "check"
    /\ Goto(s, IF cursor[s] > max_seq THEN "future" ELSE "page")
    /\ UNCHANGED <<env, cursor, pos, last, page, recovered, got, conns>>

\* SELECT ... WHERE seq > after ORDER BY seq LIMIT Page
backfill_page(after) ==
    [i \in 1..(IF max_seq - after < Page THEN max_seq - after ELSE Page) |-> after + i]

FetchPage(s) ==
    /\ pc[s] = "page"
    /\ IF last[s] >= max_seq
       THEN Goto(s, "live") /\ UNCHANGED page
       ELSE Goto(s, "send") /\ page' = [page EXCEPT ![s] = backfill_page(last[s])]
    /\ UNCHANGED <<env, cursor, pos, last, recovered, got, conns>>

\* Mutant of SendRow: the cursor jumps to the end of the page before it is sent.
SendRow_CursorFirst(s) ==
    /\ pc[s] = "send"
    /\ LET row == Head(page[s]) IN
         got' = [got EXCEPT ![s] = IF log[row] THEN Append(@, row) ELSE @]
    /\ last' = [last EXCEPT ![s] = page[s][Len(page[s])]]
    /\ page' = [page EXCEPT ![s] = Tail(@)]
    /\ Goto(s, IF Len(page[s]) = 1 THEN "page" ELSE "send")
    /\ UNCHANGED <<env, cursor, pos, recovered, conns>>

\* Mutant of SendRow: the cursor follows only the rows that were sent.
SendRow_StaysBehind(s) ==
    /\ pc[s] = "send"
    /\ LET row == Head(page[s]) IN
         /\ got' = [got EXCEPT ![s] = IF log[row] THEN Append(@, row) ELSE @]
         /\ last' = [last EXCEPT ![s] = IF log[row] THEN row ELSE @]
    /\ page' = [page EXCEPT ![s] = Tail(@)]
    /\ Goto(s, IF Len(page[s]) = 1 THEN "page" ELSE "send")
    /\ UNCHANGED <<env, cursor, pos, recovered, conns>>

\* A row that does not decode is skipped, and the cursor advances past it.
SendRow(s) ==
    /\ pc[s] = "send"
    /\ LET row == Head(page[s]) IN
         /\ got' = [got EXCEPT ![s] = IF log[row] THEN Append(@, row) ELSE @]
         /\ last' = [last EXCEPT ![s] = row]
    /\ page' = [page EXCEPT ![s] = Tail(@)]
    /\ Goto(s, IF Len(page[s]) = 1 THEN "page" ELSE "send")
    /\ UNCHANGED <<env, cursor, pos, recovered, conns>>

Lagging(s) == Len(chan) - pos[s] > Capacity

\* Mutant of RecvEvent: no dedup against the backfill.
RecvEvent_NoDedup(s) ==
    /\ pc[s] = "live"
    /\ pos[s] < Len(chan)
    /\ ~Lagging(s)
    /\ pos' = [pos EXCEPT ![s] = @ + 1]
    /\ LET evt == chan[pos[s] + 1] IN
         /\ got' = [got EXCEPT ![s] = Append(@, evt)]
         /\ last' = [last EXCEPT ![s] = evt]
    /\ recovered' = [recovered EXCEPT ![s] = FALSE]
    /\ UNCHANGED <<env, pc, cursor, page, conns>>

\* Dedup against what was already sent; otherwise send and remember.
RecvEvent(s) ==
    /\ pc[s] = "live"
    /\ pos[s] < Len(chan)
    /\ ~Lagging(s)
    /\ pos' = [pos EXCEPT ![s] = @ + 1]
    /\ LET evt == chan[pos[s] + 1] IN
         IF evt <= last[s]
         THEN UNCHANGED <<got, last, recovered>>
         ELSE /\ got' = [got EXCEPT ![s] = Append(@, evt)]
              /\ last' = [last EXCEPT ![s] = evt]
              /\ recovered' = [recovered EXCEPT ![s] = FALSE]
    /\ UNCHANGED <<env, pc, cursor, page, conns>>

\* Mutant of RecoverFromLag: subscribe again and go on, without the backfill.
RecoverFromLag_SkipsRows(s) ==
    /\ pc[s] = "live"
    /\ Lagging(s)
    /\ ~recovered[s]
    /\ recovered' = [recovered EXCEPT ![s] = TRUE]
    /\ pos' = [pos EXCEPT ![s] = Len(chan)]
    /\ UNCHANGED <<env, pc, cursor, last, page, got, conns>>

\* The first Lagged since the last live send: subscribe again, then backfill.
RecoverFromLag(s) ==
    /\ pc[s] = "live"
    /\ Lagging(s)
    /\ ~recovered[s]
    /\ recovered' = [recovered EXCEPT ![s] = TRUE]
    /\ pos' = [pos EXCEPT ![s] = Len(chan)]
    /\ Goto(s, "page")
    /\ UNCHANGED <<env, cursor, last, page, got, conns>>

ConsumerTooSlow(s) ==
    /\ pc[s] = "live"
    /\ Lagging(s)
    /\ recovered[s]
    /\ Goto(s, "tooslow")
    /\ UNCHANGED <<env, cursor, pos, last, page, recovered, got, conns>>

\* A send fails, or a query does: the handler returns.
Disconnect(s) ==
    /\ pc[s] \in Connected
    /\ Goto(s, "gone")
    /\ UNCHANGED <<env, cursor, pos, last, page, recovered, got, conns>>

HandlerStep(s) ==
    \/ CheckCursor(s) \/ FetchPage(s) \/ SendRow(s)
    \/ RecvEvent(s) \/ RecoverFromLag(s) \/ ConsumerTooSlow(s)

\* The process dies: every connection is lost.
AllGone == pc' = [s \in Subs |-> IF pc[s] \in Connected THEN "gone" ELSE pc[s]]

-----------------------------------------------------------------------------
(* The environment: commit_blocks appends a row, the broadcast follows in   *)
(* seq order, and the process may die between the two.                      *)

CommitRow ==
    /\ Len(log) < MaxLog
    /\ \E decodes \in BOOLEAN : log' = Append(log, decodes)
    /\ UNCHANGED <<base, chan, subs>>

Broadcast ==
    /\ base + Len(chan) < Len(log)
    /\ chan' = Append(chan, base + Len(chan) + 1)
    /\ UNCHANGED <<log, base, subs>>

Crash ==
    /\ chan' = <<>>
    /\ base' = Len(log)
    /\ AllGone
    /\ UNCHANGED <<log, cursor, pos, last, page, recovered, got, conns>>

Next ==
    \/ \E s \in Subs : Connect(s) \/ HandlerStep(s) \/ Disconnect(s)
    \/ CommitRow
    \/ Broadcast
    \/ Crash

Spec == Init /\ [][Next]_vars

\* The runtime polls every ready handler, and commit_op broadcasts what it commits.
FairSpec == Spec /\ (\A s \in Subs : WF_vars(HandlerStep(s))) /\ WF_vars(Broadcast)

-----------------------------------------------------------------------------
(* What a subscriber may rely on.                                           *)

Received(s) == {got[s][n] : n \in DOMAIN got[s]}

\* A client sees strictly increasing seqs over its whole life: nothing is sent
\* twice or out of order at the cutover from backfill to live, in a lag recovery,
\* or when it reconnects from the last seq it received.
InOrder ==
    \A s \in Subs : \A m, n \in DOMAIN got[s] : m < n => got[s][m] < got[s][n]

\* Between the first event a client received and the last it has been sent past,
\* every row that decodes was delivered: the dedup of the live loop skips only
\* what was already sent, and no event falls between backfill and subscription.
NoGap ==
    \A s \in Subs : \A i \in DOMAIN log :
        (log[i] /\ pc[s] \in Connected /\ i <= last[s]
                /\ \E n \in DOMAIN got[s] : got[s][n] < i)
            => i \in Received(s)

\* A connection that asked for a cursor has delivered every decodable row between
\* the cursor and the last seq it sent or skipped.
FromCursor ==
    \A s \in Subs : (pc[s] \in Connected /\ cursor[s] # NoCursor) =>
        \A i \in DOMAIN log : (cursor[s] < i /\ i <= last[s] /\ log[i]) => i \in Received(s)

\* A client that resumes from a seq it received is never refused with
\* FutureCursor, not even after a crash: what is broadcast is already committed.
ResumeAccepted == \A s \in Subs : pc[s] = "future" => got[s] = <<>>

\* Every decodable row that is committed while a client is connected from an
\* earlier cursor reaches it, unless the connection ends first: a page of rows that do
\* not decode does not hold the backfill up.
Delivery ==
    \A s \in Subs : \A i \in 1..MaxLog :
        (/\ i <= Len(log) /\ log[i]
         /\ pc[s] \in Connected /\ cursor[s] # NoCursor /\ cursor[s] < i)
            ~> (i \in Received(s) \/ pc[s] \in Closed)

=============================================================================
