------------------------- MODULE SubscribeRepos_proofs -------------------------
(***************************************************************************)
(* For every number of subscribers, channel capacity and page size: what a  *)
(* client receives is in order and without a gap.                           *)
(*                                                                          *)
(* NoGap is not inductive.  What makes it so is the relation between the    *)
(* receiver's place in the channel and the last seq sent: a live handler    *)
(* has sent, or may skip, everything broadcast before its place (LiveInv),  *)
(* because it subscribed before its last page came back empty and the       *)
(* channel never holds a row that the log does not.                         *)
(***************************************************************************)
EXTENDS SubscribeRepos, TLAPS

\* The broadcasts of this process are the rows after `base`, in order.
ChanInv ==
    /\ base + Len(chan) <= Len(log)
    /\ \A i \in 1..Len(chan) : chan[i] = base + i

CursorInv(s) ==
    /\ pc[s] \in Connected => pos[s] <= Len(chan)
    /\ pc[s] = "check" => cursor[s] # NoCursor /\ last[s] = cursor[s]
    /\ pc[s] \in {"page", "send", "live"} => last[s] <= Len(log)
    /\ (pc[s] \in Connected /\ cursor[s] # NoCursor) => cursor[s] <= last[s]

GotInv(s) ==
    /\ \A n \in 1..Len(got[s]) : got[s][n] <= Len(log)
    /\ pc[s] \in Connected => \A n \in 1..Len(got[s]) : got[s][n] <= last[s]
    /\ (pc[s] = "check" /\ got[s] # <<>>) => cursor[s] <= Len(log)
    /\ pc[s] = "future" => got[s] = <<>>

\* The rows of the page are those that follow the last one sent.
PageInv(s) ==
    pc[s] = "send" => /\ Len(page[s]) >= 1
                      /\ last[s] + Len(page[s]) <= Len(log)
                      /\ \A i \in 1..Len(page[s]) : page[s][i] = last[s] + i

\* A live handler is past everything broadcast before its place in the channel,
\* or it has sent nothing at all yet.
LiveInv(s) ==
    pc[s] = "live" => \/ last[s] >= base + pos[s]
                      \/ cursor[s] = NoCursor /\ got[s] = <<>> /\ last[s] = 0

OrderInv(s) == \A m, n \in 1..Len(got[s]) : m < n => got[s][m] < got[s][n]

In(q, i) == \E n \in 1..Len(q) : q[n] = i

\* No hole between two events received, nor up to the last seq sent or skipped.
GapInv(s) ==
    /\ \A i \in 1..Len(log) : \A m, n \in 1..Len(got[s]) :
          (log[i] /\ got[s][m] < i /\ i < got[s][n]) => In(got[s], i)
    /\ pc[s] \in Connected => \A i \in 1..Len(log) : \A m \in 1..Len(got[s]) :
          (log[i] /\ got[s][m] < i /\ i <= last[s]) => In(got[s], i)
    /\ (pc[s] \in Connected /\ cursor[s] # NoCursor) => \A i \in 1..Len(log) :
          (log[i] /\ cursor[s] < i /\ i <= last[s]) => In(got[s], i)

SubInv(s) == CursorInv(s) /\ GotInv(s) /\ PageInv(s) /\ LiveInv(s) /\ OrderInv(s) /\ GapInv(s)

IInv == TypeOK /\ ChanInv /\ \A s \in Subs : SubInv(s)

-----------------------------------------------------------------------------
(* Facts about sequences the steps use.                                     *)

\* Append puts the new element at the end and leaves the others in place.
LEMMA AppendFacts ==
    ASSUME NEW S, NEW q \in Seq(S), NEW e \in S
    PROVE  /\ Append(q, e) \in Seq(S)
           /\ Len(Append(q, e)) = Len(q) + 1
           /\ Append(q, e)[Len(q) + 1] = e
           /\ \A i \in 1..Len(q) : Append(q, e)[i] = q[i]
  OBVIOUS

\* Tail drops the first element and shifts the others.
LEMMA TailFacts ==
    ASSUME NEW S, NEW q \in Seq(S), Len(q) >= 1
    PROVE  /\ Tail(q) \in Seq(S)
           /\ Head(q) = q[1]
           /\ Len(Tail(q)) = Len(q) - 1
           /\ \A i \in 1..(Len(q) - 1) : Tail(q)[i] = q[i + 1]
  OBVIOUS

\* A function on 1..n is a sequence of length n.
LEMMA FunctionIsSeq ==
    ASSUME NEW S, NEW n \in Nat, NEW f \in [1..n -> S]
    PROVE  f \in Seq(S) /\ Len(f) = n
  OBVIOUS

\* A page of the log is a sequence of seqs, the ones that follow `after`.
LEMMA PageFacts ==
    ASSUME log \in Seq(BOOLEAN), NEW after \in Nat, after < Len(log)
    PROVE  /\ backfill_page(after) \in Seq(Nat)
           /\ Len(backfill_page(after)) >= 1
           /\ after + Len(backfill_page(after)) <= Len(log)
           /\ \A i \in 1..Len(backfill_page(after)) : backfill_page(after)[i] = after + i
<1> DEFINE k == IF Len(log) - after < Page THEN Len(log) - after ELSE Page
<1>1. k \in Nat /\ k >= 1 /\ after + k <= Len(log)
  BY CapacityAssumption
<1>2. backfill_page(after) = [i \in 1..k |-> after + i]
  BY Zenon DEF backfill_page, max_seq
<1> HIDE DEF k
<1>3. backfill_page(after) \in [1..k -> Nat]
  BY <1>1, <1>2
<1>4. backfill_page(after) \in Seq(Nat) /\ Len(backfill_page(after)) = k
  BY <1>1, <1>3, FunctionIsSeq, Zenon
<1> QED BY <1>1, <1>2, <1>4, Zenon

\* Two facts of arithmetic, on their own because the solver needs them so.
LEMMA Shift == \A a, b \in Nat : a + (b + 1) = a + 1 + b
  OBVIOUS

\* Nothing lies strictly between a number and its successor.
LEMMA NextAbove ==
    \A a, b, l \in Nat : (a + (b + 1) > l /\ l >= a + b) => a + (b + 1) = l + 1
  OBVIOUS

\* What is left of a page of k rows after one of them is sent.
LEMMA RestOfPage ==
    \A k, l, m \in Nat : (k >= 1 /\ k # 1 /\ l + k <= m) => k - 1 >= 1 /\ l + 1 + (k - 1) <= m
  OBVIOUS

\* A bound still holds when it grows by one.
LEMMA Longer == \A a, b \in Nat : a <= b => a <= b + 1
  OBVIOUS

-----------------------------------------------------------------------------
(* Each step preserves the invariant.                                       *)

\* GapInv speaks only of the log and of what one handler has sent.
LEMMA GapFrame ==
    ASSUME NEW s, GapInv(s), log' = log, got' = got, cursor' = cursor, last' = last,
           pc'[s] \in Connected => pc[s] \in Connected
    PROVE  GapInv(s)'
  BY Zenon DEF GapInv, In

\* The invariant holds initially.
LEMMA InitIInv == Init => IInv
  BY DEF Init, IInv, TypeOK, ChanInv, SubInv, CursorInv, GotInv, PageInv, LiveInv,
         OrderInv, GapInv, Connected, Closed

\* A subscriber whose variables a step leaves alone keeps its invariant.
LEMMA FrameInv ==
    ASSUME NEW x \in Subs, SubInv(x), UNCHANGED env,
           pc'[x] = pc[x], cursor'[x] = cursor[x], pos'[x] = pos[x], last'[x] = last[x],
           page'[x] = page[x], got'[x] = got[x]
    PROVE  SubInv(x)'
<1>1. log' = log /\ base' = base /\ chan' = chan
  BY Zenon DEF env
<1>2. CursorInv(x)' BY <1>1, Zenon DEF SubInv, CursorInv
<1>3. GotInv(x)' BY <1>1, Zenon DEF SubInv, GotInv
<1>4. PageInv(x)' BY <1>1, Zenon DEF SubInv, PageInv
<1>5. LiveInv(x)' BY <1>1, Zenon DEF SubInv, LiveInv
<1>6. OrderInv(x)' BY <1>1, Zenon DEF SubInv, OrderInv
<1>7. GapInv(x)' BY <1>1, ZenonT(60) DEF SubInv, GapInv, In
<1> QED BY <1>2, <1>3, <1>4, <1>5, <1>6, <1>7, Zenon DEF SubInv

\* What has been received is a finite sequence of seqs.
LEMMA GotFacts ==
    ASSUME TypeOK, NEW s \in Subs
    PROVE  /\ got[s] \in Seq(Nat) /\ Len(got[s]) \in Nat
           /\ \A n \in 1..Len(got[s]) : got[s][n] \in Nat
           /\ got[s] = <<>> <=> Len(got[s]) = 0
  BY SMTT(30) DEF TypeOK

\* A new connection starts at its cursor with its receiver at the channel's end.
LEMMA ConnectIInv ==
    ASSUME IInv, NEW s \in Subs, Connect(s)
    PROVE  IInv'
<1> USE DEF IInv, Connected, Closed
<1>1. PICK c \in IF got[s] # <<>> THEN {got[s][Len(got[s])]} ELSE 0..MaxLog \cup {NoCursor} :
           /\ cursor' = [cursor EXCEPT ![s] = c]
           /\ last' = [last EXCEPT ![s] = IF c = NoCursor THEN 0 ELSE c]
           /\ Goto(s, IF c = NoCursor THEN "live" ELSE "check")
  BY Zenon DEF Connect
<1>2. c \in Nat \cup {NoCursor} /\ (got[s] # <<>> => c = got[s][Len(got[s])] /\ Len(got[s]) >= 1)
  BY <1>1, BoundsAssumption, SMTT(30) DEF TypeOK
<1>3. TypeOK'
  BY <1>1, <1>2, SMTT(30) DEF TypeOK, Connect, Goto, env
<1>4. ChanInv'
  BY Zenon DEF ChanInv, Connect, env
<1>5. ASSUME NEW x \in Subs PROVE SubInv(x)'
  <2>1. CASE x # s
    BY <1>1, <1>5, <2>1, FrameInv, Zenon DEF TypeOK, Connect, Goto
  <2>2. CASE x = s
    <3>1. /\ pc'[s] = (IF c = NoCursor THEN "live" ELSE "check") /\ cursor'[s] = c
          /\ last'[s] = (IF c = NoCursor THEN 0 ELSE c) /\ pos'[s] = Len(chan)
          /\ got' = got /\ log' = log /\ chan' = chan /\ base' = base
      BY <1>1, Zenon DEF TypeOK, Connect, Goto, env
    <3>2. CursorInv(s)'
      BY <1>2, <3>1, NoCursorAssumption, SMTT(30) DEF CursorInv, TypeOK
    <3>3. GotInv(s)' /\ OrderInv(s)'
      <4>1. CASE got[s] = <<>>
        BY <1>2, <3>1, <4>1, GotFacts DEF GotInv, OrderInv
      <4>2. CASE got[s] # <<>>
        BY <1>2, <3>1, <4>2, GotFacts, NoCursorAssumption, SMTT(30) DEF GotInv, OrderInv, SubInv
      <4> QED BY <4>1, <4>2, Zenon
    <3>4. PageInv(s)' /\ LiveInv(s)'
      <4>1. pc'[s] # "send" /\ (pc'[s] = "live" => c = NoCursor)
        BY <3>1, Zenon
      <4>2. c = NoCursor => got[s] = <<>>
        BY <1>1, <1>2, NoCursorAssumption, SMTT(60) DEF TypeOK
      <4> QED BY ONLY <3>1, <4>1, <4>2, Zenon DEF PageInv, LiveInv
    <3>5. GapInv(s)'
      <4>1. CASE got[s] = <<>>
        BY <1>2, <3>1, <4>1, GotFacts DEF GapInv, TypeOK
      <4>2. CASE got[s] # <<>>
        <5> DEFINE N == Len(got[s])
        <5>0. Len(log) \in Nat
          BY DEF TypeOK
        <5>1. N \in 1..Len(got[s]) /\ got[s][N] \in Nat /\ last'[s] = got[s][N]
          BY <1>2, <3>1, <4>2, GotFacts, NoCursorAssumption, SMTT(30)
        <5>2. ASSUME NEW i \in 1..Len(log), NEW m \in 1..Len(got[s]),
                     log[i], got[s][m] < i, i <= got[s][N]
              PROVE  In(got[s], i)
          <6>1. CASE i = got[s][N]
            BY <5>1, <6>1, Zenon DEF In
          <6>2. CASE i # got[s][N]
            <7>1. i < got[s][N]
              BY ONLY <5>1, <5>2, <6>2, <5>0, i \in 1..Len(log)
            <7> QED BY <5>1, <5>2, <7>1, Zenon DEF GapInv, SubInv
          <6> QED BY <6>1, <6>2, Zenon
        <5>3. cursor'[s] = got[s][N] /\ ~ \E i \in 1..Len(log) : got[s][N] < i /\ i <= got[s][N]
          <6>1. cursor'[s] = got[s][N]
            BY <1>2, <3>1, <4>2, Zenon
          <6> QED BY ONLY <5>0, <5>1, <6>1
        <5> HIDE DEF N
        <5> QED BY <3>1, <5>1, <5>2, <5>3, SMTT(30) DEF GapInv, SubInv, In
      <4> QED BY <4>1, <4>2, Zenon
    <3> QED BY <2>2, <3>2, <3>3, <3>4, <3>5, Zenon DEF SubInv
  <2> QED BY <2>1, <2>2, Zenon
<1> QED BY <1>3, <1>4, <1>5, Zenon

\* The cursor of a resuming client is in the log, so it is not in the future.
LEMMA CheckCursorIInv ==
    ASSUME IInv, NEW s \in Subs, CheckCursor(s)
    PROVE  IInv'
<1> USE DEF IInv, Connected, Closed
<1>1. /\ UNCHANGED env /\ cursor' = cursor /\ pos' = pos /\ last' = last /\ page' = page
      /\ recovered' = recovered /\ got' = got /\ conns' = conns
      /\ pc' = [pc EXCEPT ![s] = IF cursor[s] > Len(log) THEN "future" ELSE "page"]
  BY Zenon DEF CheckCursor, Goto, max_seq
<1>2. TypeOK' /\ ChanInv'
  BY <1>1, Zenon DEF TypeOK, ChanInv, env
<1>3. ASSUME NEW x \in Subs PROVE SubInv(x)'
  <2>1. CASE x # s
    BY <1>1, <1>3, <2>1, FrameInv, Zenon DEF TypeOK
  <2>2. CASE x = s
    <3>1. CursorInv(s)' /\ PageInv(s)' /\ LiveInv(s)' /\ OrderInv(s)'
      BY <1>1, SMTT(30) DEF SubInv, CursorInv, PageInv, LiveInv, OrderInv, TypeOK, env, CheckCursor
    <3>2. GotInv(s)'
      <4>1. GotInv(s) /\ pc[s] = "check" /\ log' = log /\ cursor[s] \in Nat \cup {NoCursor}
        BY <1>1, Zenon DEF SubInv, TypeOK, env, CheckCursor
      <4>2. pc'[s] = IF cursor[s] > Len(log) THEN "future" ELSE "page"
        BY <1>1, Zenon DEF TypeOK
      <4>3. cursor[s] \in Nat
        BY <4>1, Zenon DEF SubInv, CursorInv
      <4> QED BY <1>1, <4>1, <4>2, <4>3 DEF GotInv, TypeOK
    <3>3. GapInv(s)'
      <4>1. GapInv(s) /\ pc[s] = "check" /\ log' = log
        BY <1>1, Zenon DEF SubInv, env, CheckCursor
      <4> QED BY <1>1, <4>1, GapFrame, Zenon
    <3> QED BY <2>2, <3>1, <3>2, <3>3, Zenon DEF SubInv
  <2> QED BY <2>1, <2>2, Zenon
<1> QED BY <1>2, <1>3, Zenon

\* An empty page means that everything in the log, hence everything broadcast, is
\* at or below the last seq sent: the handler may go live.
LEMMA FetchPageIInv ==
    ASSUME IInv, NEW s \in Subs, FetchPage(s)
    PROVE  IInv'
<1> USE DEF IInv, Connected, Closed
<1>1. /\ UNCHANGED env /\ cursor' = cursor /\ pos' = pos /\ last' = last
      /\ recovered' = recovered /\ got' = got /\ conns' = conns
  BY Zenon DEF FetchPage
<1>2. log \in Seq(BOOLEAN) /\ last[s] \in Nat /\ Len(log) \in Nat
  BY DEF TypeOK
<1>3. \/ /\ last[s] >= Len(log) /\ page' = page /\ pc' = [pc EXCEPT ![s] = "live"]
      \/ /\ last[s] < Len(log) /\ page' = [page EXCEPT ![s] = backfill_page(last[s])]
         /\ pc' = [pc EXCEPT ![s] = "send"]
  BY <1>2 DEF FetchPage, Goto, max_seq
<1>4. TypeOK' /\ ChanInv'
  BY <1>1, <1>2, <1>3, PageFacts, ZenonT(60) DEF TypeOK, ChanInv, env
<1>5. ASSUME NEW x \in Subs PROVE SubInv(x)'
  <2>1. CASE x # s
    BY <1>1, <1>3, <1>5, <2>1, FrameInv, Zenon DEF TypeOK
  <2>2. CASE x = s
    <3>1. CursorInv(s)' /\ GotInv(s)' /\ OrderInv(s)'
      BY <1>1, <1>3, Zenon DEF SubInv, CursorInv, GotInv, OrderInv, TypeOK, env, FetchPage
    <3>2. PageInv(s)'
      BY <1>1, <1>2, <1>3, PageFacts, Zenon DEF PageInv, TypeOK, env
    <3>3. LiveInv(s)'
      BY <1>1, <1>2, <1>3, SMTT(60) DEF SubInv, CursorInv, LiveInv, ChanInv, TypeOK, env, FetchPage
    <3>4. GapInv(s)'
      <4>1. GapInv(s) /\ pc[s] = "page" /\ log' = log
        BY <1>1, Zenon DEF SubInv, env, FetchPage
      <4> QED BY <1>1, <4>1, Zenon DEF GapInv, In
    <3> QED BY <2>2, <3>1, <3>2, <3>3, <3>4, Zenon DEF SubInv
  <2> QED BY <2>1, <2>2, Zenon
<1> QED BY <1>4, <1>5, Zenon

Below(q, L) == \A n \in 1..Len(q) : q[n] <= L

Increasing(q) == \A m, n \in 1..Len(q) : m < n => q[m] < q[n]

\* q is the sequence p with e at its end.
Extends(q, p, e) ==
    /\ Len(q) = Len(p) + 1 /\ Len(p) \in Nat /\ q[Len(p) + 1] = e
    /\ \A n \in 1..Len(q) : \/ n \in 1..Len(p) /\ q[n] = p[n]
                            \/ n = Len(p) + 1 /\ q[n] = e
    /\ \A n \in 1..Len(p) : n \in 1..Len(q) /\ q[n] = p[n]

\* Appending the next seq to an ordered, bounded sequence of seqs.
LEMMA AppendNext ==
    ASSUME NEW g \in Seq(Nat), NEW L \in Nat, Below(g, L), Increasing(g),
           NEW h, h = Append(g, L + 1)
    PROVE  Extends(h, g, L + 1) /\ Below(h, L + 1) /\ Increasing(h)
<1>1. /\ Len(h) = Len(g) + 1 /\ Len(g) \in Nat /\ h[Len(g) + 1] = L + 1
      /\ \A n \in 1..Len(g) : h[n] = g[n] /\ g[n] \in Nat
  <2>1. L + 1 \in Nat /\ Len(g) \in Nat /\ \A n \in 1..Len(g) : g[n] \in Nat
    BY SMTT(30)
  <2>2. h = Append(g, L + 1) /\ g \in Seq(Nat)
    BY Zenon
  <2>3. Len(h) = Len(g) + 1 /\ h[Len(g) + 1] = L + 1
    BY ONLY <2>1, <2>2
  <2>4. \A n \in 1..Len(g) : h[n] = g[n]
    BY ONLY <2>1, <2>2
  <2> QED BY ONLY <2>1, <2>3, <2>4, Zenon
<1>2. Extends(h, g, L + 1)
  BY <1>1 DEF Extends
<1>3. Below(h, L + 1)
  BY <1>1, <1>2, SMTT(30) DEF Below, Extends
<1>4. ASSUME NEW m \in 1..Len(h), NEW n \in 1..Len(h), m < n
      PROVE  h[m] < h[n]
  <2>1. m \in 1..Len(g)
    BY <1>1, <1>4
  <2>2. CASE n \in 1..Len(g)
    BY <1>1, <1>4, <2>1, <2>2, Zenon DEF Increasing
  <2>3. CASE n = Len(g) + 1
    BY <1>1, <2>1, <2>3, SMTT(30) DEF Below
  <2> QED BY <1>2, <2>2, <2>3, Zenon DEF Extends
<1> QED BY <1>2, <1>3, <1>4, Zenon DEF Increasing

\* What one more delivery, of the row after the last one sent, does to a client;
\* a row that does not decode is passed over instead.
LEMMA DeliverNext ==
    ASSUME TypeOK, NEW s \in Subs, SubInv(s), pc[s] \in Connected, UNCHANGED env,
           last[s] + 1 \in 1..Len(log), cursor'[s] = cursor[s], last'[s] = last[s] + 1,
           pc'[s] \in Connected \ {"check"},
           \/ got'[s] = Append(got[s], last[s] + 1)
           \/ got'[s] = got[s] /\ ~log[last[s] + 1]
    PROVE  OrderInv(s)' /\ GapInv(s)' /\ GotInv(s)'
<1> DEFINE g == got[s]
           h == got'[s]
           L == last[s]
<1>1. /\ g \in Seq(Nat) /\ L \in Nat /\ log' = log
      /\ cursor[s] \in Nat \cup {NoCursor} /\ Len(log) \in Nat
  BY SMTT(30) DEF TypeOK, env
<1>2. \A n \in 1..Len(g) : g[n] \in Nat /\ g[n] <= L
  BY <1>1, SMTT(30) DEF SubInv, GotInv
<1>3. /\ \A m, n \in 1..Len(g) : m < n => g[m] < g[n]
      /\ \A i \in 1..Len(log) : \A m \in 1..Len(g) : (log[i] /\ g[m] < i /\ i <= L) => In(g, i)
      /\ cursor[s] # NoCursor => \A i \in 1..Len(log) :
           (log[i] /\ cursor[s] < i /\ i <= L) => In(g, i)
      /\ \A i \in 1..Len(log) : \A m, n \in 1..Len(g) :
           (log[i] /\ g[m] < i /\ i < g[n]) => In(g, i)
  BY Zenon DEF SubInv, OrderInv, GapInv, g
<1>4. L + 1 <= Len(log) /\ \A i \in 1..Len(log) : i <= L + 1 => i <= L \/ i = L + 1
  BY <1>1
<1> HIDE DEF g, h, L
<1>5. CASE h = Append(g, L + 1)
  <2>1. /\ Len(h) = Len(g) + 1 /\ h[Len(g) + 1] = L + 1 /\ Len(g) \in Nat
        /\ \A n \in 1..Len(h) : \/ n \in 1..Len(g) /\ h[n] = g[n]
                                \/ n = Len(g) + 1 /\ h[n] = L + 1
        /\ \A n \in 1..Len(h) : h[n] <= L + 1
        /\ \A n \in 1..Len(g) : n \in 1..Len(h) /\ h[n] = g[n]
        /\ \A m, n \in 1..Len(h) : m < n => h[m] < h[n]
    <3>1. Below(g, L) /\ Increasing(g)
      BY <1>2, <1>3, Zenon DEF Below, Increasing
    <3>2. Extends(h, g, L + 1) /\ Below(h, L + 1) /\ Increasing(h)
      BY <1>1, <1>5, <3>1, AppendNext, Zenon
    <3> QED BY <3>2, Zenon DEF Extends, Below, Increasing
  <2>2. OrderInv(s)'
    BY <2>1, Zenon DEF OrderInv, h
  <2> DEFINE top == Len(log)
             next == L + 1
  <2>0. next \in Nat /\ top \in Nat /\ next <= top /\ 1..top = 1..Len(log)
    BY <1>1, <1>4
  <2>b. \A n \in 1..Len(h) : h[n] \in Nat /\ h[n] <= next
    BY <1>2, <2>0, <2>1, Zenon
  <2> HIDE DEF top, next
  <2>3. \A n \in 1..Len(h) : h[n] <= top
    BY ONLY <2>0, <2>b
  <2>4. GotInv(s)'
    BY <1>1, <2>1, <2>3, Zenon DEF GotInv, h, L, Connected, top
  <2>5. \A i : In(g, i) => In(h, i)
    BY <2>1, Zenon DEF In
  <2>6. In(h, L + 1)
    BY <2>1, SMTT(30) DEF In
  <2>7. \A i \in 1..Len(log) : \A m \in 1..Len(h) :
            (log[i] /\ h[m] < i /\ i <= L + 1) => In(h, i)
    BY <1>1, <1>3, <1>4, <2>1, <2>5, <2>6, SMTT(30)
  <2>8. cursor[s] # NoCursor => \A i \in 1..Len(log) :
            (log[i] /\ cursor[s] < i /\ i <= L + 1) => In(h, i)
    BY <1>3, <1>4, <2>5, <2>6, Zenon
  <2>9. \A i \in 1..top : \A n \in 1..Len(h) : i < h[n] => i <= next
    BY ONLY <2>0, <2>b
  <2>10. GapInv(s)'
    BY <1>1, <2>7, <2>8, <2>9, SMTT(60) DEF GapInv, h, L, top, next
  <2> QED BY <2>2, <2>4, <2>10, Zenon
<1>6. CASE h = g /\ ~log[L + 1]
  <2>1. OrderInv(s)'
    BY <1>3, <1>6, Zenon DEF OrderInv, h, g
  <2>2. GotInv(s)'
    BY <1>1, <1>2, <1>4, <1>6, SMTT(60) DEF GotInv, h, g, L, Connected
  <2>3. \A i \in 1..Len(log) : (log[i] /\ i <= L + 1) => i <= L
    BY <1>4, <1>6, Zenon
  <2>4. \A i : In(g, i) <=> In(h, i)
    BY <1>6, Zenon DEF In
  <2>5. GapInv(s)'
    BY <1>1, <1>3, <1>6, <2>3, <2>4, Zenon DEF GapInv, h, g, L
  <2> QED BY <2>1, <2>2, <2>5, Zenon
<1> QED BY <1>5, <1>6, Zenon DEF g, h, L

\* A row of a backfill page is the one after the last sent.
LEMMA SendRowIInv ==
    ASSUME IInv, NEW s \in Subs, SendRow(s)
    PROVE  IInv'
<1> USE DEF IInv
<1> DEFINE p == page[s]
<1>1. /\ UNCHANGED env /\ cursor' = cursor /\ pos' = pos /\ recovered' = recovered
      /\ conns' = conns /\ pc[s] = "send"
  BY Zenon DEF SendRow
<1>2. p \in Seq(Nat) /\ last[s] \in Nat /\ got[s] \in Seq(Nat) /\ Len(log) \in Nat
  BY DEF TypeOK
<1>3. /\ Len(p) >= 1 /\ last[s] + Len(p) <= Len(log)
      /\ \A i \in 1..Len(p) : p[i] = last[s] + i
  BY <1>1, Zenon DEF SubInv, PageInv
<1>4. /\ Tail(p) \in Seq(Nat) /\ Head(p) = last[s] + 1 /\ Len(Tail(p)) = Len(p) - 1
      /\ \A i \in 1..(Len(p) - 1) : Tail(p)[i] = last[s] + 1 + i
  <2> HIDE DEF p
  <2>1. /\ Tail(p) \in Seq(Nat) /\ Head(p) = p[1] /\ Len(Tail(p)) = Len(p) - 1
        /\ \A i \in 1..(Len(p) - 1) : Tail(p)[i] = p[i + 1]
    BY <1>2, <1>3, TailFacts, Zenon
  <2>2. ASSUME NEW i \in 1..(Len(p) - 1) PROVE Tail(p)[i] = last[s] + 1 + i
    <3>1. Len(p) \in Nat /\ i \in Nat /\ i + 1 \in 1..Len(p)
      BY <1>2
    <3>2. p[i + 1] = last[s] + (i + 1) /\ last[s] + (i + 1) = last[s] + 1 + i
      BY <1>2, <1>3, <3>1, Shift, Zenon
    <3> QED BY <2>1, <3>2, Zenon
  <2>3. p[1] = last[s] + 1
    BY <1>2, <1>3
  <2> QED BY <2>1, <2>2, <2>3, Zenon
<1>5. last[s] + 1 \in 1..Len(log)
  BY <1>2, <1>3, SMTT(30)
<1>6. /\ last' = [last EXCEPT ![s] = last[s] + 1]
      /\ page' = [page EXCEPT ![s] = Tail(p)]
      /\ pc' = [pc EXCEPT ![s] = IF Len(p) = 1 THEN "page" ELSE "send"]
      /\ got' = [got EXCEPT ![s] = IF log[last[s] + 1] THEN Append(got[s], last[s] + 1) ELSE got[s]]
  BY <1>4, Zenon DEF SendRow, Goto
<1>7. /\ last'[s] = last[s] + 1 /\ page'[s] = Tail(p)
      /\ pc'[s] = (IF Len(p) = 1 THEN "page" ELSE "send")
      /\ got'[s] = IF log[last[s] + 1] THEN Append(got[s], last[s] + 1) ELSE got[s]
  BY <1>6, Zenon DEF TypeOK
<1> HIDE DEF p
<1>8. TypeOK' /\ ChanInv'
  <2>1. Append(got[s], last[s] + 1) \in Seq(Nat)
    BY <1>2
  <2>2. got' \in [Subs -> Seq(Nat)] /\ page' \in [Subs -> Seq(Nat)] /\ last' \in [Subs -> Nat]
    <3>1. last[s] + 1 \in Nat
      BY <1>2
    <3> QED BY <1>4, <1>6, <2>1, <3>1, Zenon DEF TypeOK
  <2>3. pc' \in [Subs -> {"new"} \cup Connected \cup Closed]
    BY <1>6, Zenon DEF TypeOK, Connected
  <2>4. log' = log /\ base' = base /\ chan' = chan
    BY <1>1, Zenon DEF env
  <2> QED BY <1>1, <2>2, <2>3, <2>4, Zenon DEF TypeOK, ChanInv
<1>9. ASSUME NEW x \in Subs PROVE SubInv(x)'
  <2>1. CASE x # s
    BY <1>1, <1>6, <1>9, <2>1, FrameInv, Zenon DEF TypeOK
  <2>2. CASE x = s
    <3>1. OrderInv(s)' /\ GapInv(s)' /\ GotInv(s)'
      BY <1>1, <1>5, <1>7, DeliverNext, Zenon DEF Connected
    <3>2. CursorInv(s)' /\ LiveInv(s)'
      <4>1. /\ chan' = chan /\ log' = log /\ cursor[s] \in Nat \cup {NoCursor}
            /\ pc[s] \in Connected /\ pc'[s] \notin {"check", "live"}
        BY <1>1, <1>7, Zenon DEF TypeOK, Connected, env
      <4>2. /\ pos[s] <= Len(chan)
            /\ cursor[s] # NoCursor => cursor[s] <= last[s]
        BY <4>1, Zenon DEF SubInv, CursorInv
      <4>3. cursor[s] # NoCursor => cursor[s] <= last[s] + 1
        BY <1>2, <4>1, <4>2, Longer, Zenon
      <4>4. last[s] + 1 <= Len(log)
        BY ONLY <1>2, <1>5
      <4>5. CursorInv(s)'
        BY <1>1, <1>7, <4>1, <4>2, <4>3, <4>4, Zenon DEF CursorInv
      <4> QED BY <4>1, <4>5, Zenon DEF LiveInv
    <3>3. PageInv(s)'
      <4>1. CASE Len(p) = 1
        BY <1>7, <4>1, Zenon DEF PageInv
      <4>2. CASE Len(p) # 1
        <5>1. /\ Len(Tail(p)) >= 1 /\ last[s] + 1 + Len(Tail(p)) <= Len(log)
              /\ \A i \in 1..Len(Tail(p)) : Tail(p)[i] = last[s] + 1 + i
          <6>1. Len(p) \in Nat
            BY <1>2
          <6> QED BY <1>2, <1>3, <1>4, <4>2, <6>1, RestOfPage, Zenon
        <5>2. log' = log
          BY <1>1, Zenon DEF env
        <5> QED BY ONLY <1>7, <5>1, <5>2, Zenon DEF PageInv
      <4> QED BY <4>1, <4>2, Zenon
    <3> QED BY <2>2, <3>1, <3>2, <3>3, Zenon DEF SubInv
  <2> QED BY <2>1, <2>2, Zenon
<1> QED BY <1>8, <1>9, Zenon

\* A live event above the last seq sent is the next one, or the client's first.
LEMMA RecvEventIInv ==
    ASSUME IInv, NEW s \in Subs, RecvEvent(s)
    PROVE  IInv'
<1> USE DEF IInv
<1> DEFINE evt == base + (pos[s] + 1)
<1>1. /\ UNCHANGED env /\ cursor' = cursor /\ page' = page /\ pc' = pc
      /\ conns' = conns /\ pc[s] = "live" /\ pos' = [pos EXCEPT ![s] = pos[s] + 1]
      /\ pos[s] < Len(chan)
  BY Zenon DEF RecvEvent
<1>2. /\ last[s] \in Nat /\ got[s] \in Seq(Nat) /\ base \in Nat
      /\ pos[s] \in Nat /\ Len(log) \in Nat /\ Len(chan) \in Nat
  BY DEF TypeOK
<1>3. chan[pos[s] + 1] = evt /\ evt \in Nat /\ evt \in 1..Len(log)
  <2>1. pos[s] + 1 \in 1..Len(chan)
    BY <1>1, <1>2
  <2>2. base + Len(chan) <= Len(log) /\ \A i \in 1..Len(chan) : chan[i] = base + i
    BY Zenon DEF ChanInv
  <2>3. \A i \in 1..Len(chan) : base + i \in 1..Len(log)
    BY <1>2, <2>2
  <2> QED BY <2>1, <2>2, <2>3
<1>4. \/ evt <= last[s] /\ got' = got /\ last' = last /\ recovered' = recovered
      \/ /\ evt > last[s] /\ got' = [got EXCEPT ![s] = Append(got[s], evt)]
         /\ last' = [last EXCEPT ![s] = evt] /\ recovered' = [recovered EXCEPT ![s] = FALSE]
  BY <1>2, <1>3, SMTT(60) DEF RecvEvent
<1>5. pos'[s] = pos[s] + 1
  BY <1>1, Zenon DEF TypeOK
<1> HIDE DEF evt
<1>6. TypeOK' /\ ChanInv'
  <2>1. Append(got[s], evt) \in Seq(Nat)
    BY <1>2, <1>3
  <2>2. got' \in [Subs -> Seq(Nat)] /\ last' \in [Subs -> Nat] /\ recovered' \in [Subs -> BOOLEAN]
    <3>1. CASE got' = got /\ last' = last /\ recovered' = recovered
      BY <3>1, Zenon DEF TypeOK
    <3>2. CASE /\ got' = [got EXCEPT ![s] = Append(got[s], evt)]
               /\ last' = [last EXCEPT ![s] = evt] /\ recovered' = [recovered EXCEPT ![s] = FALSE]
      <4>1. got' \in [Subs -> Seq(Nat)]
        BY <2>1, <3>2, Zenon DEF TypeOK
      <4>2. last' \in [Subs -> Nat]
        BY <1>3, <3>2, Zenon DEF TypeOK
      <4>3. recovered' \in [Subs -> BOOLEAN]
        BY <3>2, Zenon DEF TypeOK
      <4> QED BY <4>1, <4>2, <4>3, Zenon
    <3> QED BY <1>4, <3>1, <3>2, Zenon
  <2>3. log' = log /\ base' = base /\ chan' = chan /\ pos' \in [Subs -> Nat]
    BY <1>1, <1>2, SMTT(30) DEF env, TypeOK
  <2> QED BY <1>1, <2>2, <2>3, Zenon DEF TypeOK, ChanInv
<1>7. ASSUME NEW x \in Subs PROVE SubInv(x)'
  <2>1. CASE x # s
    BY <1>1, <1>4, <1>7, <2>1, FrameInv, ZenonT(60) DEF TypeOK
  <2>2. CASE x = s
    <3>1. PageInv(s)'
      BY <1>1, Zenon DEF PageInv
    <3>2. CASE got' = got /\ last' = last /\ evt <= last[s]
      <4>1. CursorInv(s)' /\ LiveInv(s)'
        BY <1>1, <1>2, <1>5, <3>2, SMTT(30) DEF SubInv, CursorInv, LiveInv, Connected, env, evt
      <4>2. GotInv(s)' /\ OrderInv(s)'
        BY <1>1, <3>2, Zenon DEF SubInv, GotInv, OrderInv, env
      <4>3. GapInv(s)'
        BY <1>1, <3>2, Zenon DEF SubInv, GapInv, In, env
      <4> QED BY <2>2, <3>1, <4>1, <4>2, <4>3, ZenonT(60) DEF SubInv
    <3>3. CASE evt > last[s] /\ got'[s] = Append(got[s], evt) /\ last'[s] = evt
      <4>1. LiveInv(s)'
        BY <1>1, <1>2, <1>3, <1>5, <3>3 DEF LiveInv, env, evt
      <4>2. CursorInv(s)'
        <5>1. cursor[s] # NoCursor => cursor[s] \in Nat /\ cursor[s] <= last[s]
          BY <1>1, Zenon DEF TypeOK, SubInv, CursorInv, Connected
        <5>2. cursor[s] # NoCursor => cursor[s] <= evt
          <6>1. last[s] \in Nat /\ evt \in Nat
            BY <1>2, <1>3, Zenon
          <6> QED BY ONLY <3>3, <5>1, <6>1
        <5>3. pos'[s] <= Len(chan) /\ evt <= Len(log)
          BY <1>1, <1>2, <1>3, <1>5
        <5> QED BY <1>1, <3>3, <5>2, <5>3, Zenon DEF CursorInv, env
      <4>3. CASE last[s] >= base + pos[s]
        <5>1. evt = last[s] + 1
          <6>1. evt = base + (pos[s] + 1)
            BY Zenon DEF evt
          <6>2. base \in Nat /\ pos[s] \in Nat /\ last[s] \in Nat
            BY <1>2, Zenon
          <6> QED BY ONLY <3>3, <4>3, <6>1, <6>2, NextAbove, SMTT(30)
        <5>2. OrderInv(s)' /\ GapInv(s)' /\ GotInv(s)'
          BY <1>1, <1>3, <3>3, <5>1, DeliverNext, Zenon DEF Connected
        <5> QED BY <2>2, <3>1, <4>1, <4>2, <5>2, Zenon DEF SubInv
      <4>4. CASE cursor[s] = NoCursor /\ got[s] = <<>>
        <5>1. got'[s] = <<evt>>
          BY <1>3, <3>3, <4>4
        <5>2. Len(got'[s]) = 1 /\ got'[s][1] = evt
          BY <5>1
        <5>3. \A n \in 1..Len(got'[s]) : n = 1
          BY <5>2, SMTT(30)
        <5>4. GotInv(s)' /\ OrderInv(s)'
          BY <1>1, <1>2, <1>3, <3>3, <5>2, <5>3, SMTT(30) DEF GotInv, OrderInv, env
        <5>5. GapInv(s)'
          BY <1>1, <1>2, <1>3, <3>3, <4>4, <5>2, <5>3 DEF GapInv, env
        <5> QED BY <2>2, <3>1, <4>1, <4>2, <5>4, <5>5, Zenon DEF SubInv
      <4> QED BY <1>1, <4>3, <4>4, Zenon DEF SubInv, LiveInv
    <3> QED BY <1>4, <3>2, <3>3, Zenon DEF TypeOK
  <2> QED BY <2>1, <2>2, Zenon
<1> QED BY <1>6, <1>7, Zenon

\* A handler that is gone keeps what its client has received.
LEMMA LeaveInv ==
    ASSUME NEW x \in Subs, SubInv(x), log' = log, got'[x] = got[x],
           pc'[x] \notin Connected, pc'[x] = "future" => pc[x] = "future"
    PROVE  SubInv(x)'
<1>1. CursorInv(x)' /\ PageInv(x)' /\ LiveInv(x)'
  BY Zenon DEF CursorInv, PageInv, LiveInv, Connected
<1>2. GotInv(x)' /\ OrderInv(x)'
  BY Zenon DEF SubInv, GotInv, OrderInv, Connected
<1>3. GapInv(x)'
  BY Zenon DEF SubInv, GapInv, In
<1> QED BY <1>1, <1>2, <1>3, Zenon DEF SubInv

\* A handler that returns, for whatever reason.
LEMMA ReturnIInv ==
    ASSUME IInv, NEW s \in Subs, ConsumerTooSlow(s) \/ Disconnect(s)
    PROVE  IInv'
<1> USE DEF IInv
<1>1. /\ UNCHANGED env /\ cursor' = cursor /\ pos' = pos /\ last' = last /\ page' = page
      /\ recovered' = recovered /\ got' = got /\ conns' = conns
  BY Zenon DEF ConsumerTooSlow, Disconnect
<1>2. PICK l \in {"gone", "tooslow"} : pc' = [pc EXCEPT ![s] = l]
  BY Zenon DEF ConsumerTooSlow, Disconnect, Goto
<1>3. TypeOK' /\ ChanInv'
  BY <1>1, <1>2, Zenon DEF TypeOK, ChanInv, env, Closed
<1>4. ASSUME NEW x \in Subs PROVE SubInv(x)'
  <2>1. CASE x # s
    BY <1>1, <1>2, <1>4, <2>1, FrameInv, Zenon DEF TypeOK
  <2>2. CASE x = s
    <3>1. pc'[s] = l
      BY <1>2, Zenon DEF TypeOK
    <3> QED BY <1>1, <1>2, <2>2, <3>1, LeaveInv, Zenon DEF env, Connected
  <2> QED BY <2>1, <2>2, Zenon
<1> QED BY <1>3, <1>4, Zenon

\* Recovering from Lagged starts a new backfill after the last seq sent.
LEMMA RecoverIInv ==
    ASSUME IInv, NEW s \in Subs, RecoverFromLag(s)
    PROVE  IInv'
<1> USE DEF IInv
<1>1. /\ UNCHANGED env /\ cursor' = cursor /\ last' = last /\ page' = page
      /\ got' = got /\ conns' = conns /\ pc[s] = "live"
      /\ recovered' = [recovered EXCEPT ![s] = TRUE]
      /\ pos' = [pos EXCEPT ![s] = Len(chan)] /\ pc' = [pc EXCEPT ![s] = "page"]
  BY Zenon DEF RecoverFromLag, Goto
<1>2. log' = log /\ base' = base /\ chan' = chan /\ Len(chan) \in Nat
  BY <1>1 DEF env, TypeOK
<1>3. TypeOK' /\ ChanInv'
  BY <1>1, <1>2, Zenon DEF TypeOK, ChanInv, Connected
<1>4. ASSUME NEW x \in Subs PROVE SubInv(x)'
  <2>1. CASE x # s
    BY <1>1, <1>4, <2>1, FrameInv, Zenon DEF TypeOK
  <2>2. CASE x = s
    <3>1. pc'[s] = "page" /\ pos'[s] = Len(chan)
      BY <1>1, Zenon DEF TypeOK
    <3>2. CursorInv(s)' /\ PageInv(s)' /\ LiveInv(s)'
      BY <1>1, <1>2, <3>1 DEF SubInv, CursorInv, PageInv, LiveInv, Connected
    <3>3. GotInv(s)' /\ OrderInv(s)'
      BY <1>1, <1>2, <3>1, Zenon DEF SubInv, GotInv, OrderInv, Connected
    <3>4. GapInv(s)'
      BY <1>1, <1>2, <3>1, ZenonT(60) DEF SubInv, GapInv, In, Connected
    <3> QED BY <2>2, <3>2, <3>3, <3>4, Zenon DEF SubInv
  <2> QED BY <2>1, <2>2, Zenon
<1> QED BY <1>3, <1>4, Zenon

\* A crash ends every connection and starts the channel over.
LEMMA CrashIInv ==
    ASSUME IInv, Crash
    PROVE  IInv'
<1> USE DEF IInv
<1>1. /\ chan' = <<>> /\ base' = Len(log) /\ log' = log /\ cursor' = cursor /\ pos' = pos
      /\ last' = last /\ page' = page /\ recovered' = recovered /\ got' = got /\ conns' = conns
      /\ pc' = [s \in Subs |-> IF pc[s] \in Connected THEN "gone" ELSE pc[s]]
  BY Zenon DEF Crash, AllGone
<1>2. TypeOK'
  BY <1>1 DEF TypeOK, Closed
<1>3. ChanInv'
  BY <1>1 DEF TypeOK, ChanInv
<1>4. ASSUME NEW x \in Subs PROVE SubInv(x)'
  <2>1. pc'[x] = IF pc[x] \in Connected THEN "gone" ELSE pc[x]
    BY <1>1, Zenon
  <2> QED BY <1>1, <2>1, LeaveInv, Zenon DEF Connected
<1> QED BY <1>2, <1>3, <1>4, Zenon

\* A new row is above everything sent, so it makes no gap.
LEMMA CommitRowIInv ==
    ASSUME IInv, CommitRow
    PROVE  IInv'
<1> USE DEF IInv
<1>1. PICK d \in BOOLEAN : log' = Append(log, d)
  BY Zenon DEF CommitRow
<1>2. /\ base' = base /\ chan' = chan /\ pc' = pc /\ cursor' = cursor /\ pos' = pos
      /\ last' = last /\ page' = page /\ recovered' = recovered /\ got' = got /\ conns' = conns
  BY Zenon DEF CommitRow, subs
<1>3. log' \in Seq(BOOLEAN) /\ Len(log) \in Nat /\ Len(log') = Len(log) + 1
  BY <1>1 DEF TypeOK
<1>4. \A i \in 1..Len(log) : log'[i] = log[i]
  BY <1>1 DEF TypeOK
<1>5. base \in Nat /\ Len(chan) \in Nat
  BY DEF TypeOK
<1>6. TypeOK'
  BY <1>2, <1>3, Zenon DEF TypeOK
<1>7. ChanInv'
  BY <1>2, <1>3, <1>5 DEF ChanInv
<1>8. ASSUME NEW x \in Subs PROVE SubInv(x)'
  <2>1. /\ last[x] \in Nat /\ got[x] \in Seq(Nat) /\ Len(page[x]) \in Nat
        /\ cursor[x] \in Nat \cup {NoCursor} /\ \A n \in 1..Len(got[x]) : got[x][n] \in Nat
    BY SMTT(30) DEF TypeOK
  <2>2. CursorInv(x)' /\ PageInv(x)'
    BY <1>2, <1>3, <2>1, SMTT(30) DEF SubInv, CursorInv, PageInv
  <2>3. LiveInv(x)' /\ OrderInv(x)'
    BY <1>2, Zenon DEF SubInv, LiveInv, OrderInv
  <2>5. \A n \in 1..Len(got[x]) : got[x][n] <= Len(log)
    BY Zenon DEF SubInv, GotInv
  <2>5a. \A n \in 1..Len(got[x]) : got[x][n] <= Len(log')
    BY <1>3, <2>1, <2>5, Longer, Zenon
  <2>4. GotInv(x)'
    <3>1. CASE pc[x] = "check" /\ got[x] # <<>>
      <4>1. cursor[x] \in Nat /\ cursor[x] <= Len(log)
        BY <2>1, <3>1, Zenon DEF SubInv, GotInv, CursorInv
      <4>2. cursor[x] <= Len(log')
        BY <1>3, <4>1, Longer, Zenon
      <4> QED BY <1>2, <2>5a, <3>1, <4>2, Zenon DEF SubInv, GotInv
    <3>2. CASE ~(pc[x] = "check" /\ got[x] # <<>>)
      <4>1. GotInv(x)
        BY Zenon DEF SubInv
      <4> QED BY ONLY <1>2, <2>5a, <3>2, <4>1, Zenon DEF GotInv
    <3> QED BY <3>1, <3>2, Zenon
  <2>6. (pc[x] \in Connected /\ got[x] # <<>>) => last[x] <= Len(log)
    BY Zenon DEF SubInv, CursorInv, GotInv, Connected
  <2>7. (pc[x] \in Connected /\ cursor[x] # NoCursor) => last[x] <= Len(log) \/ last[x] = cursor[x]
    BY Zenon DEF SubInv, CursorInv, Connected
  <2>8. \A i \in 1..Len(log') : i \in 1..Len(log) \/ i = Len(log) + 1
    BY <1>3
  <2>9. \A m \in 1..Len(got[x]) : got[x] # <<>>
    BY <2>1
  <2>10. /\ \A i \in 1..Len(log') : \A n \in 1..Len(got[x]) : i < got[x][n] => i \in 1..Len(log)
         /\ pc[x] \in Connected => \A i \in 1..Len(log') : \A m \in 1..Len(got[x]) :
                i <= last[x] => i \in 1..Len(log)
         /\ (pc[x] \in Connected /\ cursor[x] # NoCursor) => \A i \in 1..Len(log') :
                cursor[x] < i /\ i <= last[x] => i \in 1..Len(log)
    BY <1>3, <2>1, <2>5, <2>6, <2>7, <2>8, <2>9, SMTT(30)
  <2>11. GapInv(x)
    BY Zenon DEF SubInv
  <2>12. GapInv(x)'
    BY <1>2, <1>4, <2>10, <2>11, SMTT(30) DEF GapInv, In
  <2> QED BY <2>2, <2>3, <2>4, <2>12, Zenon DEF SubInv
<1> QED BY <1>6, <1>7, <1>8, Zenon

\* A broadcast lengthens the channel; no receiver moves.
LEMMA BroadcastIInv ==
    ASSUME IInv, Broadcast
    PROVE  IInv'
<1> USE DEF IInv
<1>1. /\ base' = base /\ log' = log /\ pc' = pc /\ cursor' = cursor /\ pos' = pos
      /\ last' = last /\ page' = page /\ recovered' = recovered /\ got' = got /\ conns' = conns
  BY Zenon DEF Broadcast, subs
<1>2. /\ base \in Nat /\ chan \in Seq(Nat) /\ Len(chan) \in Nat /\ Len(log) \in Nat
      /\ base + Len(chan) < Len(log) /\ chan' = Append(chan, base + (Len(chan) + 1))
  BY DEF TypeOK, Broadcast
<1>3. base + (Len(chan) + 1) \in Nat /\ base + (Len(chan) + 1) <= Len(log)
  BY ONLY <1>2
<1>4. /\ chan' \in Seq(Nat) /\ Len(chan') = Len(chan) + 1
      /\ chan'[Len(chan) + 1] = base + (Len(chan) + 1)
      /\ \A i \in 1..Len(chan) : chan'[i] = chan[i]
  BY ONLY <1>2, <1>3
<1>5. TypeOK'
  BY <1>1, <1>4, Zenon DEF TypeOK
<1>6. ChanInv'
  BY <1>1, <1>2, <1>3, <1>4, SMTT(60) DEF ChanInv
<1>7. ASSUME NEW x \in Subs PROVE SubInv(x)'
  <2>1. pos[x] \in Nat
    BY Zenon DEF TypeOK
  <2>2. CursorInv(x)'
    BY <1>1, <1>2, <1>4, <2>1 DEF SubInv, CursorInv
  <2>3. PageInv(x)' /\ LiveInv(x)' /\ GotInv(x)' /\ OrderInv(x)'
    BY <1>1, Zenon DEF SubInv, PageInv, LiveInv, GotInv, OrderInv
  <2>4. GapInv(x)'
    BY <1>1, GapFrame, Zenon DEF SubInv
  <2> QED BY <2>2, <2>3, <2>4, Zenon DEF SubInv
<1> QED BY <1>5, <1>6, <1>7, Zenon

\* Every step of the specification preserves the invariant.
LEMMA NextIInv ==
    ASSUME IInv, [Next]_vars
    PROVE  IInv'
<1>1. ASSUME NEW s \in Subs, Connect(s) \/ HandlerStep(s) \/ Disconnect(s)
      PROVE  IInv'
  BY <1>1, ConnectIInv, CheckCursorIInv, FetchPageIInv, SendRowIInv, RecvEventIInv,
     RecoverIInv, ReturnIInv DEF HandlerStep
<1>2. CASE UNCHANGED vars
  <2>1. /\ UNCHANGED env /\ pc' = pc /\ cursor' = cursor /\ pos' = pos /\ last' = last
        /\ page' = page /\ recovered' = recovered /\ got' = got /\ conns' = conns
    BY <1>2, Zenon DEF vars, subs
  <2>2. TypeOK' /\ ChanInv'
    BY <2>1, Zenon DEF IInv, TypeOK, ChanInv, env
  <2>3. ASSUME NEW x \in Subs PROVE SubInv(x)'
    BY <2>1, <2>3, FrameInv, Zenon DEF IInv
  <2> QED BY <2>2, <2>3, Zenon DEF IInv
<1> QED BY <1>1, <1>2, CommitRowIInv, BroadcastIInv, CrashIInv, Zenon DEF Next

-----------------------------------------------------------------------------

\* The inductive invariant holds in every reachable state.
THEOREM Invariance == Spec => []IInv
  BY InitIInv, NextIInv, PTL DEF Spec

\* Every variable of the subscription keeps its type.
THEOREM TypeCorrect == Spec => []TypeOK
<1>1. IInv => TypeOK
  BY Zenon DEF IInv
<1> QED BY <1>1, Invariance, PTL

\* A client receives strictly increasing seqs through backfill, cutover to live,
\* lag recovery and reconnection, for any capacity, page size and number of clients.
THEOREM Ordered == Spec => []InOrder
<1>1. IInv => InOrder
  <2> SUFFICES ASSUME IInv, NEW s \in Subs, NEW m \in DOMAIN got[s], NEW n \in DOMAIN got[s], m < n
               PROVE  got[s][m] < got[s][n]
    BY Zenon DEF InOrder
  <2>1. DOMAIN got[s] = 1..Len(got[s])
    BY DEF IInv, TypeOK
  <2> QED BY <2>1, Zenon DEF IInv, SubInv, OrderInv
<1> QED BY <1>1, Invariance, PTL

\* Nothing is lost between backfill and live, nor in a lag recovery: between its
\* first event and its last a client has every row that decodes.
THEOREM Gapless == Spec => []NoGap
<1>1. IInv => NoGap
  <2> SUFFICES ASSUME IInv, NEW s \in Subs, NEW i \in DOMAIN log, log[i], pc[s] \in Connected,
                      i <= last[s], NEW n \in DOMAIN got[s], got[s][n] < i
               PROVE  i \in Received(s)
    BY Zenon DEF NoGap
  <2>1. DOMAIN got[s] = 1..Len(got[s]) /\ DOMAIN log = 1..Len(log)
    BY DEF IInv, TypeOK
  <2>2. In(got[s], i)
    BY <2>1, Zenon DEF IInv, SubInv, GapInv
  <2> QED BY <2>1, <2>2, Zenon DEF In, Received
<1> QED BY <1>1, Invariance, PTL

\* A connection has delivered every decodable row from its cursor on.
THEOREM CompleteFromCursor == Spec => []FromCursor
<1>1. IInv => FromCursor
  <2> SUFFICES ASSUME IInv, NEW s \in Subs, NEW i \in DOMAIN log, log[i], pc[s] \in Connected,
                      cursor[s] # NoCursor, cursor[s] < i, i <= last[s]
               PROVE  i \in Received(s)
    BY Zenon DEF FromCursor
  <2>1. DOMAIN got[s] = 1..Len(got[s]) /\ DOMAIN log = 1..Len(log)
    BY DEF IInv, TypeOK
  <2>2. In(got[s], i)
    BY <2>1, Zenon DEF IInv, SubInv, GapInv
  <2> QED BY <2>1, <2>2, Zenon DEF In, Received
<1> QED BY <1>1, Invariance, PTL

\* FutureCursor never refuses a client that resumes from a seq it received.
THEOREM ResumeIsAccepted == Spec => []ResumeAccepted
<1>1. IInv => ResumeAccepted
  BY Zenon DEF IInv, SubInv, GotInv, ResumeAccepted
<1> QED BY <1>1, Invariance, PTL

=============================================================================
