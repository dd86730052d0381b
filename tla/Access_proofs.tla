---------------------------- MODULE Access_proofs ----------------------------
(***************************************************************************)
(* The five properties of Access, for every set of requests, accounts,      *)
(* tokens and services, every lifetime and window, on each server.          *)
(*                                                                          *)
(* A handler holds facts across its awaits that were true when it looked.   *)
(* The invariant says what it may still count on at each of them: the rows  *)
(* it read are among those the request has seen (SessionInv), the endpoint  *)
(* it is about to call was published in this process (ServiceInv), a proof  *)
(* it passed is in the replay table (AuthInv), and the preferences it is    *)
(* about to read are of a put that no acknowledged one replaced (PrefsInv). *)
(***************************************************************************)
EXTENDS Access, TLAPS

-----------------------------------------------------------------------------
(* Shapes. *)

InFlight(t) == pc[t] \notin {"idle", "done", "gone"}

\* The places where a handler knows its caller.
Known == {"lookup", "issue", "params", "key", "checks", "resolve", "fetch",
          "get", "decode", "put", "put orphan"}

TokenOK(x) ==
    /\ x.scope \in {"access", "refresh", "oauth"} /\ x.sub \in Dids /\ x.exp \in Int
    /\ x.scope = "oauth" => x.key \in 1..proc.as

StateInv ==
    /\ scene \in Scenes
    /\ now \in 0..MaxTime /\ events \in 0..MaxEvents
    /\ DOMAIN directory = Services
    /\ DOMAIN proc = {"as", "keys", "targets", "published"} /\ proc.as \in 1..MaxKeys
    /\ DOMAIN pc = Tasks /\ DOMAIN req = Tasks /\ DOMAIN loc = Tasks
    /\ DOMAIN since = Tasks /\ DOMAIN reply = Tasks
    /\ \A x \in issued : TokenOK(x)

\* Rows of accounts.
AccountInv ==
    /\ \A a \in accounts : /\ DOMAIN a = {"did", "handle", "phc", "down"}
                           /\ a.did \in Dids /\ a.down \in BOOLEAN
    /\ \A a, b \in accounts : a.did = b.did => a = b
    /\ scene.server = "worker" => \A a \in accounts : ~a.down

\* What Receive makes of a request.
RequestInv(t) ==
    /\ DOMAIN req[t] = DOMAIN NoRequest
    /\ req[t].scheme \in {"none", "bearer", "dpop"}
    /\ req[t].wellformed \in BOOLEAN /\ req[t].exp \subseteq Int
    /\ req[t].to.method = "plc" => req[t].to \in Services
    /\ req[t].nsid = "createSession" => req[t].scheme = "none"
    /\ req[t].scheme = "none" => req[t].token = {}
    /\ \A x \in req[t].token : TokenOK(x) /\ req[t].token = {x}

\* A proof is of the request that made it; another request has it only as a retry.
ProofInv(t) ==
    /\ req[t].scheme # "dpop" => req[t].proof = {}
    /\ req[t].scheme = "dpop" => req[t].token # {}
    /\ \A p \in req[t].proof :
         /\ req[t].proof = {p}
         /\ p.jti \in Tasks /\ p \in req[p.jti].proof
         /\ TokenOK(p.ath)
         /\ p.iat \in Int /\ \A l \in p.learned : l \in 0..now /\ p.learned = {l}
         /\ p.jti = t => \A x \in req[t].token : x.scope = "oauth"

\* Where a handler is and what it holds.
PlaceInv(t) ==
    /\ DOMAIN loc[t] = DOMAIN NoLocals
    /\ DOMAIN since[t] = {"at", "done", "seen"} /\ since[t].at \in 0..now
    /\ pc[t] = "done" <=> reply[t] # NoReply
    /\ pc[t] = "idle" => req[t] = NoRequest
    /\ pc[t] \in {"idle", "start"} => loc[t] = NoLocals
    /\ InFlight(t) => accounts \in since[t].seen

-----------------------------------------------------------------------------
(* Callers. *)

\* The caller is the subject of the token; a proof that was accepted is in the table.
AuthInv(t) ==
    /\ pc[t] \in Known => \E x \in req[t].token : x.sub = loc[t].did
    /\ pc[t] \in {"jti", "jti orphan"} => req[t].proof # {} /\ loc[t].did = Nobody
    /\ pc[t] = "jti" => \A p \in req[t].proof : p.ath \in req[t].token /\ p.htu = req[t].nsid
    /\ req[t].scheme = "dpop" /\ loc[t].did # Nobody =>
         \A p \in req[t].proof, x \in req[t].token :
             /\ loc[t].did = x.sub /\ p.ath = x /\ p.jkt = x.jkt /\ p.htu = req[t].nsid
             /\ p.jti \in jtis

\* What is in the replay table, somebody is through with.
ReplayInv ==
    \A j \in jtis : \E u \in Tasks :
        /\ pc[u] \notin {"idle", "start", "jti", "jti orphan"}
        /\ \E q \in req[u].proof : q.jti = j

\* No two requests are authorized by one proof.
OnceInv ==
    \A t, u \in Tasks : \A p \in req[t].proof :
        t # u /\ p \in req[u].proof => loc[t].did = Nobody \/ loc[u].did = Nobody

\* FreshProofAccepted as it is preserved: a key that was lost stays lost.
RefusedForGood(t) ==
    (/\ reply[t].status = "InvalidToken" /\ ~loc[t].fault
     /\ req[t].scheme = "dpop" /\ req[t].nsid # "refreshSession") =>
        \E p \in req[t].proof, x \in req[t].token :
            \/ x.exp <= reply[t].at
            \/ x.scope = "oauth" /\ x.key < proc.as
            \/ p.ath # x \/ p.jkt # x.jkt \/ p.htu # req[t].nsid
            \/ p.learned = {} \/ \E l \in p.learned : reply[t].at - l > NonceWindow
            \/ p.iat > reply[t].at + MaxProofAge \/ p.iat < reply[t].at - MaxProofAge
            \/ \E u \in Tasks \ {t} : p \in req[u].proof

-----------------------------------------------------------------------------
(* Sessions. *)

\* The token that a refresh goes by.
Refreshing(t, d) ==
    \E x \in req[t].token : x.scope = "refresh" /\ x.sub = d /\ x.exp >= since[t].at - Leeway

SessionInv(t) ==
    /\ pc[t] = "verify" => loc[t].did \in Dids
    /\ pc[t] = "verify" =>
         \E a \in Seen(t) : /\ a.did = loc[t].did /\ ~a.down
                            /\ a.phc = loc[t].phc /\ a.handle = req[t].id
    /\ pc[t] \in {"lookup", "issue"} /\ req[t].nsid = "refreshSession" =>
         Refreshing(t, loc[t].did)
    /\ pc[t] = "issue" => \E a \in Seen(t) : a.did = loc[t].did /\ ~a.down

\* The two parts of SessionsAreEarned.
EarnedInv(t) ==
    Replied(t, {"createSession", "refreshSession"}) =>
        \E a \in Seen(t) :
            /\ a.did = reply[t].body.did /\ ~a.down
            /\ req[t].nsid = "createSession" =>
                 a.phc = req[t].password /\ req[t].id \in {a.handle, a.did}
            /\ req[t].nsid = "refreshSession" => Refreshing(t, a.did)

NamedInv(t) ==
    (Replied(t, {"resolveHandle", "atproto-did"})
     \/ (Replied(t, {"getSession"}) /\ scene.server # "worker")) =>
        \E table \in since[t].seen : \E a \in ActiveIn(table) :
            /\ a.did = reply[t].body.did
            /\ a.handle = reply[t].body.handle \/ ActiveIn(table) = {a}

-----------------------------------------------------------------------------
(* Service tokens. *)

\* What the process has cached was published in its lifetime.
ProcInv ==
    /\ Publish(directory) \subseteq proc.published
    /\ \A c \in proc.targets : [service |-> c.key, url |-> c.url] \in proc.published
    /\ \A c, e \in proc.targets : c.key = e.key => c = e

\* The URL is one of the service that was addressed.
Routed(t) ==
    LET s == req[t].to IN
    IF s = NoService THEN loc[t].url = "appview"
    ELSE \/ s.method = "web" /\ loc[t].url = s.did
         \/ [service |-> s, url |-> loc[t].url] \in proc.published

ServiceInv(t) ==
    /\ pc[t] \notin {"upstream", "done", "gone"} => loc[t].sent = {}
    /\ pc[t] = "upstream" => scene.server = "worker" \/ loc[t].sent # {}
    /\ pc[t] = "fetch" => req[t].to # NoService /\ req[t].to.method = "plc"
    /\ pc[t] = "key" /\ req[t].nsid # "getServiceAuth" => Routed(t)
    /\ pc[t] = "key" /\ req[t].nsid = "getServiceAuth" /\ scene.server = "embedded" =>
         loc[t].at \in Int /\ loc[t].at <= now + ServiceMax

-----------------------------------------------------------------------------
(* Preferences. *)

\* The store that holds the preferences of d is `at`.
Home(d, at) ==
    IF scene.server = "worker" THEN \E a \in accounts : a.did = d /\ a.handle = at
    ELSE at = "store"

\* Every put of d so far went, and goes, to that store.
Clear(d) == \A u \in Puts(d) : ~loc[u].fault /\ ~Misdirected(u, d)

\* The registry has the name of every account, and only that name.
ClaimInv ==
    \A a \in accounts :
        /\ [did |-> a.did, label |-> a.handle] \in claims
        /\ \A c \in claims : c.did = a.did => c.label = a.handle

UniqueRows == \A p, q \in prefs : p.at = q.at /\ p.did = q.did => p = q

\* A row was written by a put that no acknowledged put came after.
RowInv ==
    \A row \in prefs : Home(row.did, row.at) /\ Clear(row.did) =>
        \E w \in Puts(row.did) :
            /\ Written(w) = row.value
            /\ \A q \in Puts(row.did) \cap Acknowledged : w \notin since[q].done

Places == {"store"} \cup {a.handle : a \in accounts}

\* An acknowledged put left a row.
KeptInv ==
    \A q \in Tasks, d \in Dids, at \in Places :
        q \in Puts(d) \cap Acknowledged /\ Home(d, at) /\ Clear(d) =>
            \E row \in prefs : row.did = d /\ row.at = at

\* Where a request for preferences is, and what came before it.
PrefsInv(t) ==
    /\ since[t].done \subseteq Acknowledged
    /\ pc[t] = "get" => req[t].nsid = "getPreferences"
    /\ pc[t] \in {"put", "put orphan"} =>
         scene.server # "worker" /\ req[t].nsid = "putPreferences" /\ req[t].wellformed
    /\ pc[t] = "release" => req[t].nsid = "deleteAccount" /\ \A a \in accounts : a.handle # req[t].id
    /\ pc[t] = "object" /\ req[t].nsid \in {"getPreferences", "putPreferences"} =>
         \A x \in req[t].token : req[t].scheme = "bearer" =>
             \/ loc[t].fault \/ Misdirected(t, x.sub)
             \/ \A a \in accounts : a.did = x.sub => a.handle = loc[t].handle
    /\ pc[t] = "registry" /\ req[t].nsid \in {"getPreferences", "putPreferences"} =>
         req[t].host = scene.hostname

\* The body of PrefsReadBack.
ReadBackInv(t) ==
    Replied(t, {"getPreferences"}) =>
        LET d == reply[t].body.did
            before == Puts(d) \cap since[t].done
            current(p) == \A q \in before : p \notin since[q].done
        IN  \/ \E u \in Puts(d) \cup {t} : loc[u].fault \/ Misdirected(u, d)
            \/ scene.server = "worker" /\ \A a \in accounts : a.did # d
            \/ reply[t].body.value = NoPrefs /\ before = {}
            \/ \E p \in Puts(d) : Written(p) = reply[t].body.value /\ current(p)

TaskInv(t) ==
    /\ RequestInv(t) /\ ProofInv(t) /\ PlaceInv(t)
    /\ AuthInv(t) /\ RefusedForGood(t)
    /\ SessionInv(t) /\ EarnedInv(t) /\ NamedInv(t)
    /\ ServiceInv(t) /\ ForwardedAsAddressed(t) /\ GivenAsAsked(t)
    /\ PrefsInv(t) /\ ReadBackInv(t)

IInv ==
    /\ StateInv /\ AccountInv /\ ProcInv
    /\ ReplayInv /\ OnceInv
    /\ ClaimInv /\ UniqueRows /\ RowInv /\ KeptInv
    /\ \A t \in Tasks : TaskInv(t)

-----------------------------------------------------------------------------
(* A task that a step leaves alone. *)

\* What every step does to the rest: the clock and the tables only grow, no account
\* gets another name, and what a request has been given is not taken back.
Onward ==
    /\ scene' = scene
    /\ now' \in Nat /\ now <= now'
    /\ proc'.as \in Nat /\ proc.as <= proc'.as
    /\ jtis \subseteq jtis'
    /\ \A a \in accounts' : \E b \in accounts : b.did = a.did /\ b.handle = a.handle
    /\ \A u \in Tasks :
         /\ pc[u] # "idle" => req'[u] = req[u] /\ since'[u].done = since[u].done
         /\ loc[u].fault => loc'[u].fault
         /\ reply[u].status = "OK" => reply'[u].status = "OK"

\* What a step does to a request that it does not serve: nothing, or it ends it.
Aside(u) ==
    /\ pc'[u] = pc[u] \/ (pc'[u] = "gone" /\ pc[u] \notin {"idle", "done"})
    /\ req'[u] = req[u] /\ loc'[u] = loc[u] /\ reply'[u] = reply[u]
    /\ DOMAIN since'[u] = {"at", "done", "seen"}
    /\ since'[u].at = since[u].at /\ since'[u].done = since[u].done
    /\ since[u].seen \subseteq since'[u].seen
    /\ InFlight(u)' => accounts' \in since'[u].seen
    /\ pc'[u] \in {"key", "upstream"} => proc.published \subseteq proc'.published

\* The numbers of a state.
LEMMA Numbers ==
    ASSUME IInv
    PROVE  /\ now \in Nat /\ events \in Nat /\ proc.as \in Nat /\ proc.as >= 1
           /\ MaxTime \in Nat /\ MaxEvents \in Nat /\ MaxKeys \in Nat
           /\ now \in Int /\ ServiceTtl \in Int
           /\ now \in 0..MaxTime /\ now \in 0..now /\ now <= now /\ proc.as <= proc.as
BY AccessAssumption, SMTT(30) DEF IInv, StateInv

\* The numbers of an initial state.
LEMMA StartNumbers ==
    /\ 0 \in 0..MaxTime /\ 0 \in 0..MaxEvents /\ 1 \in 1..MaxKeys
    /\ \A n \in 0..MaxTime : 0 \in 0..n
BY AccessAssumption, SMTT(30)

\* What has happened has happened later too.
LEMMA Later ==
    /\ \A n \in Nat, m \in Nat : n <= m => \A i \in 0..n : i \in 0..m
    /\ \A m \in Nat : \A n \in 0..m : n \in Nat
    /\ \A n, m, k \in Nat : n <= m => \A a \in Int : a <= n + k => a <= m + k
    /\ 1 \in 1..1
BY SMTT(30)

\* The fields of an empty row.
LEMMA Empties ==
    /\ NoRequest.scheme = "none" /\ NoRequest.token = {} /\ NoRequest.proof = {}
    /\ NoRequest.exp = {} /\ NoRequest.to.method = "none" /\ NoRequest.wellformed = TRUE
    /\ NoRequest.nsid = "none" /\ NoReply.status = "none"
    /\ NoLocals.did = Nobody /\ NoLocals.sent = {}
    /\ LET since0 == [at |-> 0, done |-> {}, seen |-> {}] IN
         DOMAIN since0 = {"at", "done", "seen"} /\ since0.at = 0 /\ since0.done = {}
BY SMTT(30) DEF NoRequest, NoService, NoReply, NoLocals

\* Tokens stay well-formed.
LEMMA TokenStays ==
    ASSUME NEW x, TokenOK(x), proc.as \in Nat, Onward
    PROVE  TokenOK(x)'
BY DEF TokenOK, Onward

LEMMA AsideRequest ==
    ASSUME StateInv, NEW u \in Tasks, RequestInv(u), Onward, req'[u] = req[u]
    PROVE  RequestInv(u)'
<1>1. proc.as \in Nat
  BY DEF StateInv
<1>2. \A x \in req[u].token : TokenOK(x)'
  BY <1>1, TokenStays, Zenon DEF RequestInv
<1> QED
  BY <1>2, Zenon DEF RequestInv

\* A proof stays with the request that made it, which is not idle.
LEMMA AsideProof ==
    ASSUME StateInv, NEW u \in Tasks, ProofInv(u), Onward, req'[u] = req[u],
           \A v \in Tasks : PlaceInv(v)
    PROVE  ProofInv(u)'
<1>1. proc.as \in Nat /\ now \in Nat
  BY AccessAssumption DEF StateInv
<1>2. \A p \in req[u].proof : TokenOK(p.ath)'
  BY <1>1, TokenStays, Zenon DEF ProofInv
<1>3. ASSUME NEW p \in req[u].proof
      PROVE  p \in req'[p.jti].proof
  <2>1. p.jti \in Tasks /\ p \in req[p.jti].proof
    BY Zenon DEF ProofInv
  <2>2. pc[p.jti] # "idle"
    BY <2>1 DEF PlaceInv, NoRequest
  <2> QED
    BY <2>1, <2>2, Zenon DEF Onward
<1>4. \A l : l \in 0..now => l \in 0..now'
  BY <1>1 DEF Onward
<1> QED
  BY <1>2, <1>3, <1>4, Zenon DEF ProofInv

LEMMA AsidePlace ==
    ASSUME StateInv, NEW u \in Tasks, PlaceInv(u), Onward, Aside(u)
    PROVE  PlaceInv(u)'
<1>1. now \in Nat
  BY AccessAssumption, SMTT(30) DEF StateInv
<1>2. since'[u].at \in 0..now'
  BY <1>1 DEF PlaceInv, Onward, Aside
<1>3. pc'[u] = "done" <=> reply'[u] # NoReply
  BY Zenon DEF PlaceInv, Aside, InFlight, NoReply
<1> QED
  BY <1>2, <1>3, Zenon DEF PlaceInv, Aside, NoLocals, NoRequest

LEMMA AsideAuth ==
    ASSUME NEW u \in Tasks, AuthInv(u), Onward, Aside(u)
    PROVE  AuthInv(u)'
<1>1. jtis \subseteq jtis'
  BY Zenon DEF Onward
<1>2. /\ pc'[u] = pc[u] \/ pc'[u] = "gone"
      /\ req'[u] = req[u] /\ loc'[u] = loc[u]
  BY Zenon DEF Aside
<1> QED
  BY <1>1, <1>2, ZenonT(60) DEF AuthInv, Known

LEMMA AsideRefused ==
    ASSUME StateInv, NEW u \in Tasks, RefusedForGood(u), Onward,
           RequestInv(u), req'[u] = req[u], loc'[u] = loc[u], reply'[u] = reply[u],
           \A v \in Tasks : PlaceInv(v)
    PROVE  RefusedForGood(u)'
<1>1. ASSUME NEW p \in req[u].proof, NEW v \in Tasks, p \in req[v].proof
      PROVE  p \in req'[v].proof
  BY <1>1 DEF PlaceInv, NoRequest, Onward
<1>2. \A x \in req[u].token : x.scope = "oauth" /\ x.key < proc.as => x.key < proc'.as
  BY DEF RequestInv, TokenOK, Onward, StateInv
<1> QED
  BY <1>1, <1>2, ZenonT(60) DEF RefusedForGood

LEMMA AsideSession ==
    ASSUME NEW u \in Tasks, SessionInv(u), EarnedInv(u), NamedInv(u), Onward, Aside(u)
    PROVE  SessionInv(u)' /\ EarnedInv(u)' /\ NamedInv(u)'
<1>1. Seen(u) \subseteq Seen(u)'
  BY Zenon DEF Seen, Aside
<1>2. \A d : Refreshing(u, d) => Refreshing(u, d)'
  BY Zenon DEF Refreshing, Aside
<1>3. SessionInv(u)'
  BY <1>1, <1>2, Zenon DEF SessionInv, Aside
<1>4. EarnedInv(u)'
  BY <1>1, <1>2, ZenonT(60) DEF EarnedInv, Aside, Replied
<1>5. NamedInv(u)'
  <2>1. /\ req'[u] = req[u] /\ reply'[u] = reply[u] /\ scene' = scene
        /\ since[u].seen \subseteq since'[u].seen
    BY Zenon DEF Aside, Onward
  <2> QED
    BY <2>1, Zenon DEF NamedInv, Replied, ActiveIn
<1> QED
  BY <1>3, <1>4, <1>5, Zenon

LEMMA AsideService ==
    ASSUME StateInv, NEW u \in Tasks, ServiceInv(u), ForwardedAsAddressed(u), GivenAsAsked(u),
           Onward, Aside(u)
    PROVE  ServiceInv(u)' /\ ForwardedAsAddressed(u)' /\ GivenAsAsked(u)'
<1>1. ServiceInv(u)'
  <2>1. loc[u].at \in Int /\ loc[u].at <= now + ServiceMax => loc[u].at <= now' + ServiceMax
    <3>1. now \in Nat /\ now' \in Nat /\ now <= now' /\ ServiceMax \in Nat
      BY AccessAssumption, Later, Zenon DEF StateInv, Onward
    <3> QED
      BY <3>1, Later, Zenon
  <2>2. pc'[u] = "key" /\ Routed(u) => Routed(u)'
    BY Zenon DEF Routed, Aside
  <2> QED
    BY <2>1, <2>2, Zenon DEF ServiceInv, Onward, Aside
<1>2. ForwardedAsAddressed(u)'
  <2>1. scene' = scene
    BY Zenon DEF Onward
  <2>2. /\ req'[u] = req[u] /\ loc'[u] = loc[u]
        /\ pc'[u] = "upstream" => pc[u] = "upstream" /\ proc.published \subseteq proc'.published
    BY Zenon DEF Aside
  <2> QED
    BY <2>1, <2>2, ZenonT(60) DEF ForwardedAsAddressed
<1>3. GivenAsAsked(u)'
  <2>1. req'[u] = req[u] /\ reply'[u] = reply[u] /\ scene' = scene
    BY Zenon DEF Aside, Onward
  <2> QED
    BY <2>1, Zenon DEF GivenAsAsked, Replied
<1> QED
  BY <1>1, <1>2, <1>3, Zenon

\* A put stays the put that it is.
LEMMA PutsStay ==
    ASSUME Onward, \A v \in Tasks : PlaceInv(v), NEW d
    PROVE  /\ Puts(d) \subseteq Puts(d)'
           /\ \A w \in Puts(d) : req'[w] = req[w] /\ since'[w].done = since[w].done
           /\ \A w \in Puts(d) : Written(w)' = Written(w)
<1>1. \A w \in Puts(d) : w \in Tasks /\ pc[w] # "idle"
  BY Empties, Zenon DEF Puts, PlaceInv
<1>2. \A w \in Puts(d) : req'[w] = req[w] /\ since'[w].done = since[w].done
  BY <1>1, Zenon DEF Onward
<1> QED
  BY <1>2, Zenon DEF Puts, Written

\* So does a request that was acknowledged.
LEMMA AcknowledgedStay ==
    ASSUME Onward, \A v \in Tasks : PlaceInv(v)
    PROVE  /\ Acknowledged \subseteq Acknowledged'
           /\ \A q \in Acknowledged : req'[q] = req[q] /\ since'[q].done = since[q].done
           /\ \A q \in Acknowledged : \A d : q \in Puts(d)' => q \in Puts(d)
<1>1. \A q \in Acknowledged : q \in Tasks /\ pc[q] # "idle"
  BY DEF Acknowledged, PlaceInv, NoReply
<1>2. \A q \in Acknowledged : req'[q] = req[q] /\ since'[q].done = since[q].done
  BY <1>1, Zenon DEF Onward
<1>3. Acknowledged \subseteq Acknowledged'
  BY Zenon DEF Acknowledged, Onward
<1> QED
  BY <1>2, <1>3, Zenon DEF Puts

\* As long as its account is there, a request that went astray did go astray.
LEMMA MisdirectedStays ==
    ASSUME Onward, AccountInv, NEW u \in Tasks, req'[u] = req[u], NEW d, Misdirected(u, d),
           NEW a \in accounts', a.did = d
    PROVE  Misdirected(u, d)'
<1>1. PICK b \in accounts : b.did = d /\ b.handle # req[u].host
  BY Zenon DEF Misdirected
<1>2. PICK c \in accounts : c.did = a.did /\ c.handle = a.handle
  BY Zenon DEF Onward
<1>3. a.handle # req[u].host
  BY <1>1, <1>2, Zenon DEF AccountInv
<1> QED
  BY <1>3 DEF Misdirected, Onward

LEMMA AsidePrefs ==
    ASSUME NEW u \in Tasks, PrefsInv(u), AccountInv, Onward, Aside(u),
           \A v \in Tasks : PlaceInv(v)
    PROVE  PrefsInv(u)'
<1>1. /\ pc'[u] = pc[u] \/ pc'[u] = "gone"
      /\ req'[u] = req[u] /\ loc'[u] = loc[u] /\ since'[u].done = since[u].done
  BY Zenon DEF Aside
<1>2. since'[u].done \subseteq Acknowledged'
  BY <1>1, AcknowledgedStay, Zenon DEF PrefsInv
<1>3. pc'[u] = "release" => \A a \in accounts' : a.handle # req[u].id
  <2>1. \A a \in accounts' : \E b \in accounts : b.handle = a.handle
    BY Zenon DEF Onward
  <2> QED
    BY <1>1, <2>1, Zenon DEF PrefsInv
<1>4. ASSUME pc'[u] = "object", req[u].nsid \in {"getPreferences", "putPreferences"},
             NEW x \in req[u].token, req[u].scheme = "bearer",
             NEW a \in accounts', a.did = x.sub, ~loc[u].fault, ~Misdirected(u, x.sub)'
      PROVE  a.handle = loc[u].handle
  <2>1. ~Misdirected(u, x.sub)
    BY <1>1, <1>4, MisdirectedStays, Zenon
  <2>2. \A b \in accounts : b.did = x.sub => b.handle = loc[u].handle
    BY <1>1, <1>4, <2>1, Zenon DEF PrefsInv
  <2> QED
    BY <1>4, <2>2 DEF Onward
<1>5. scene' = scene
  BY Zenon DEF Onward
<1> QED
  BY <1>1, <1>2, <1>3, <1>4, <1>5, Zenon DEF PrefsInv

LEMMA AsideReadBack ==
    ASSUME NEW u \in Tasks, PrefsInv(u), ReadBackInv(u), AccountInv, Onward, Aside(u),
           \A v \in Tasks : PlaceInv(v)
    PROVE  ReadBackInv(u)'
<1>d. PICK d : d = reply[u].body.did
  BY Zenon
<1>0. /\ req'[u] = req[u] /\ loc'[u] = loc[u] /\ reply'[u] = reply[u]
      /\ since'[u].done = since[u].done
  BY Zenon DEF Aside
<1> SUFFICES ASSUME Replied(u, {"getPreferences"})
             PROVE  ReadBackInv(u)'
  BY <1>0, Zenon DEF ReadBackInv, Replied
<1>1. Puts(d)' \cap since'[u].done = Puts(d) \cap since[u].done
  <2>1. since[u].done \subseteq Acknowledged
    BY Zenon DEF PrefsInv
  <2>2. \A q \in since[u].done : q \in Puts(d)' <=> q \in Puts(d)
    BY <2>1, AcknowledgedStay, PutsStay, Zenon
  <2> QED
    BY <1>0, <2>2, Zenon
<1>2. \A q \in Puts(d) : since'[q].done = since[q].done
  BY PutsStay, Zenon
<1>3. CASE \E v \in Puts(d) \cup {u} : loc[v].fault
  <2>1. \E v \in Puts(d)' \cup {u} : loc'[v].fault
    BY <1>3, <1>0, PutsStay, ZenonT(60) DEF Onward, Puts
  <2> QED
    BY <2>1, <1>0, <1>d, Zenon DEF ReadBackInv
<1>4. CASE \E v \in Puts(d) \cup {u} : Misdirected(v, d)
  <2>1. PICK v \in Puts(d) \cup {u} : Misdirected(v, d)
    BY <1>4, Zenon
  <2>2. v \in Tasks /\ v \in Puts(d)' \cup {u} /\ req'[v] = req[v]
    BY <2>1, <1>0, PutsStay, Zenon DEF Puts
  <2>3. CASE \E a \in accounts' : a.did = d
    <3>1. Misdirected(v, d)'
      BY <2>1, <2>2, <2>3, MisdirectedStays, Zenon
    <3> QED
      BY <3>1, <2>2, <1>0, <1>d, Zenon DEF ReadBackInv
  <2>4. CASE \A a \in accounts' : a.did # d
    <3>1. scene'.server = "worker"
      BY <2>1, Zenon DEF Misdirected, Onward
    <3> QED
      BY <3>1, <2>4, <1>0, <1>d, Zenon DEF ReadBackInv
  <2> QED
    BY <2>3, <2>4, Zenon
<1>5. CASE scene.server = "worker" /\ \A a \in accounts : a.did # d
  <2>1. scene'.server = "worker" /\ \A a \in accounts' : a.did # d
    BY <1>5, ZenonT(60) DEF Onward
  <2> QED
    BY <2>1, <1>0, <1>d, Zenon DEF ReadBackInv
<1>6. CASE reply[u].body.value = NoPrefs /\ Puts(d) \cap since[u].done = {}
  BY <1>6, <1>0, <1>1, <1>d, Zenon DEF ReadBackInv
<1>7. CASE \E p \in Puts(d) : /\ Written(p) = reply[u].body.value
                              /\ \A q \in Puts(d) \cap since[u].done : p \notin since[q].done
  <2>1. PICK p \in Puts(d) : /\ Written(p) = reply[u].body.value
                             /\ \A q \in Puts(d) \cap since[u].done : p \notin since[q].done
    BY <1>7, Zenon
  <2>2. p \in Puts(d)' /\ Written(p)' = Written(p)
    BY <2>1, PutsStay, Zenon
  <2>3. \A q \in Puts(d)' \cap since'[u].done : p \notin since'[q].done
    BY <2>1, <1>1, <1>2, Zenon
  <2> QED
    BY <2>1, <2>2, <2>3, <1>0, <1>d, Zenon DEF ReadBackInv
<1> QED
  BY <1>3, <1>4, <1>5, <1>6, <1>7, <1>d, Zenon DEF ReadBackInv

\* A request that a step does not serve keeps everything.
LEMMA AsideTask ==
    ASSUME IInv, Onward, NEW u \in Tasks, Aside(u)
    PROVE  TaskInv(u)'
<1>1. /\ StateInv /\ AccountInv /\ TaskInv(u)
      /\ \A v \in Tasks : PlaceInv(v)
  BY Zenon DEF IInv, TaskInv
<1>2. req'[u] = req[u] /\ loc'[u] = loc[u] /\ reply'[u] = reply[u]
  BY Zenon DEF Aside
<1>3. RequestInv(u)' /\ ProofInv(u)' /\ PlaceInv(u)'
  BY <1>1, <1>2, AsideRequest, AsideProof, AsidePlace, Zenon DEF TaskInv
<1>4. AuthInv(u)' /\ RefusedForGood(u)'
  BY <1>1, <1>2, AsideAuth, AsideRefused, Zenon DEF TaskInv
<1>5. SessionInv(u)' /\ EarnedInv(u)' /\ NamedInv(u)'
  BY <1>1, AsideSession, Zenon DEF TaskInv
<1>6. ServiceInv(u)' /\ ForwardedAsAddressed(u)' /\ GivenAsAsked(u)'
  BY <1>1, AsideService, Zenon DEF TaskInv
<1>7. PrefsInv(u)' /\ ReadBackInv(u)'
  BY <1>1, AsidePrefs, AsideReadBack, ZenonT(60) DEF TaskInv
<1> QED
  BY <1>3, <1>4, <1>5, <1>6, <1>7, Zenon DEF TaskInv

-----------------------------------------------------------------------------
(* A step of the handler of t. *)

\* What the steps of the handlers have in common; only the deletion of an account on
\* Workers is not one of these.
Turn(t) ==
    /\ UNCHANGED <<outside, accounts, claims, req, since>>
    /\ jtis \subseteq jtis'
    /\ DOMAIN proc' = DOMAIN proc /\ proc'.as = proc.as /\ proc'.published = proc.published
    /\ DOMAIN pc' = Tasks /\ DOMAIN loc' = Tasks /\ DOMAIN reply' = Tasks
    /\ InFlight(t) /\ pc'[t] \notin {"idle", "start"}
    /\ pc'[t] \in {"jti", "jti orphan"} => pc[t] \in {"start", "jti", "jti orphan"}
    /\ loc[t].fault => loc'[t].fault
    /\ \A u \in Tasks \ {t} : pc'[u] = pc[u] /\ loc'[u] = loc[u] /\ reply'[u] = reply[u]

LEMMA NoReplyYet ==
    ASSUME IInv, NEW t \in Tasks, pc[t] # "done"
    PROVE  reply[t] = NoReply /\ reply[t].status = "none" /\ t \notin Acknowledged
BY SMTT(30) DEF IInv, TaskInv, PlaceInv, NoReply, Acknowledged

LEMMA TurnOnward ==
    ASSUME IInv, NEW t \in Tasks, Turn(t)
    PROVE  Onward
<1>1. /\ scene' = scene /\ now' = now /\ accounts' = accounts /\ req' = req /\ since' = since
      /\ proc'.as = proc.as /\ jtis \subseteq jtis'
  BY Zenon DEF Turn, outside
<1>2. now \in Nat /\ proc.as \in Nat
  BY AccessAssumption DEF IInv, StateInv
<1>3. reply[t].status # "OK"
  BY NoReplyYet, Zenon DEF Turn, InFlight
<1>4. \A u \in Tasks : loc[u].fault => loc'[u].fault
  BY Zenon DEF Turn
<1>5. \A u \in Tasks : reply[u].status = "OK" => reply'[u].status = "OK"
  BY <1>3, Zenon DEF Turn
<1> QED
  BY <1>1, <1>2, <1>4, <1>5, SMTT(30) DEF Onward

LEMMA TurnAside ==
    ASSUME IInv, NEW t \in Tasks, Turn(t), NEW u \in Tasks \ {t}
    PROVE  TaskInv(u)'
<1>1. PlaceInv(u)
  BY Zenon DEF IInv, TaskInv
<1>2. /\ accounts' = accounts /\ req' = req /\ since' = since
      /\ proc'.published = proc.published
      /\ pc'[u] = pc[u] /\ loc'[u] = loc[u] /\ reply'[u] = reply[u]
  BY Zenon DEF Turn
<1>3. Aside(u)
  BY <1>1, <1>2, Zenon DEF Aside, PlaceInv, InFlight
<1> QED
  BY <1>3, TurnOnward, AsideTask, Zenon

\* The tables that a turn leaves alone.
LEMMA TurnShared ==
    ASSUME IInv, NEW t \in Tasks, Turn(t), \A x \in issued' : TokenOK(x)
    PROVE  StateInv' /\ AccountInv' /\ ClaimInv'
<1>1. /\ scene' = scene /\ now' = now /\ events' = events /\ directory' = directory
      /\ accounts' = accounts /\ claims' = claims /\ req' = req /\ since' = since
      /\ DOMAIN proc' = DOMAIN proc /\ proc'.as = proc.as
      /\ DOMAIN pc' = Tasks /\ DOMAIN loc' = Tasks /\ DOMAIN reply' = Tasks
  BY Zenon DEF Turn, outside
<1>2. \A x \in issued' : TokenOK(x)'
  BY <1>1, Zenon DEF TokenOK
<1>3. StateInv'
  BY <1>1, <1>2, Zenon DEF IInv, StateInv
<1>4. AccountInv' /\ ClaimInv'
  BY <1>1, Zenon DEF IInv, AccountInv, ClaimInv
<1> QED
  BY <1>3, <1>4, Zenon

LEMMA TurnProc ==
    ASSUME IInv, NEW t \in Tasks, Turn(t), proc'.targets = proc.targets
    PROVE  ProcInv'
BY ZenonT(60) DEF IInv, ProcInv, Turn, outside, Publish

LEMMA TurnReplay ==
    ASSUME IInv, NEW t \in Tasks, Turn(t), jtis' = jtis
    PROVE  ReplayInv'
<1>1. ReplayInv /\ req' = req
  BY Zenon DEF IInv, Turn
<1>2. \A u \in Tasks : pc[u] \notin {"idle", "start", "jti", "jti orphan"} =>
                       pc'[u] \notin {"idle", "start", "jti", "jti orphan"}
  BY Zenon DEF Turn
<1> QED
  BY <1>1, <1>2, Zenon DEF ReplayInv

\* Nobody is authorized, or by no proof.
LEMMA TurnOnce ==
    ASSUME IInv, NEW t \in Tasks, Turn(t), loc'[t].did = loc[t].did \/ req[t].proof = {}
    PROVE  OnceInv'
<1>1. OnceInv /\ req' = req
  BY Zenon DEF IInv, Turn
<1>2. \A u \in Tasks : loc'[u].did = loc[u].did \/ req[u].proof = {}
  BY Zenon DEF Turn
<1> QED
  BY <1>1, <1>2, Zenon DEF OnceInv

\* What was written, and to which store, is as it was before.
LEMMA ClearBefore ==
    ASSUME IInv, Onward, NEW d, NEW at, Home(d, at)', Clear(d)'
    PROVE  Home(d, at) /\ Clear(d)
<1>1. \A v \in Tasks : PlaceInv(v)
  BY Zenon DEF IInv, TaskInv
<1>2. Home(d, at)
  BY DEF Home, Onward
<1>3. ASSUME NEW u \in Puts(d)
      PROVE  ~loc[u].fault /\ ~Misdirected(u, d)
  <2>1. u \in Tasks /\ u \in Puts(d)' /\ req'[u] = req[u]
    BY <1>1, PutsStay, Zenon DEF Puts
  <2>2. ~loc'[u].fault /\ ~Misdirected(u, d)'
    BY <2>1, Zenon DEF Clear
  <2>3. ~loc[u].fault
    BY <2>1, <2>2, Zenon DEF Onward
  <2>4. ASSUME Misdirected(u, d) PROVE FALSE
    <3>1. PICK a \in accounts' : a.did = d
      BY <2>4, Zenon DEF Misdirected, Home, Onward
    <3> QED
      BY <2>1, <2>2, <2>4, <3>1, MisdirectedStays, Zenon DEF IInv
  <2> QED
    BY <2>3, <2>4, Zenon
<1> QED
  BY <1>2, <1>3, Zenon DEF Clear

\* No put is acknowledged, and rows go only with the account they are of.
LEMMA ShrinkPrefs ==
    ASSUME IInv, Onward, prefs' \subseteq prefs,
           \A row \in prefs : Home(row.did, row.at)' => row \in prefs',
           \A d : Puts(d)' \cap Acknowledged' \subseteq Acknowledged
    PROVE  UniqueRows' /\ RowInv' /\ KeptInv'
<1>0. \A v \in Tasks : PlaceInv(v)
  BY Zenon DEF IInv, TaskInv
<1>1. UniqueRows'
  BY Zenon DEF IInv, UniqueRows
<1>2. ASSUME NEW row \in prefs', Home(row.did, row.at)', Clear(row.did)'
      PROVE  \E w \in Puts(row.did)' :
               /\ Written(w)' = row.value
               /\ \A q \in Puts(row.did)' \cap Acknowledged' : w \notin since'[q].done
  <2>1. Home(row.did, row.at) /\ Clear(row.did)
    BY <1>2, ClearBefore, Zenon
  <2>2. PICK w \in Puts(row.did) :
               /\ Written(w) = row.value
               /\ \A q \in Puts(row.did) \cap Acknowledged : w \notin since[q].done
    BY <2>1, <1>2, Zenon DEF IInv, RowInv
  <2>3. w \in Puts(row.did)' /\ Written(w)' = row.value
    BY <1>0, <2>2, PutsStay, Zenon
  <2>4. ASSUME NEW q \in Puts(row.did)' \cap Acknowledged'
        PROVE  w \notin since'[q].done
    <3>1. q \in Acknowledged
      BY <2>4, Zenon
    <3>2. q \in Puts(row.did) /\ since'[q].done = since[q].done
      BY <1>0, <3>1, AcknowledgedStay, Zenon
    <3> QED
      BY <3>1, <3>2, <2>2, Zenon
  <2> QED
    BY <2>3, <2>4, Zenon
<1>3. RowInv'
  BY <1>2, Zenon DEF RowInv
<1>4. ASSUME NEW q \in Tasks, NEW d \in Dids,
             NEW at \in Places',
             q \in Puts(d)' \cap Acknowledged', Home(d, at)', Clear(d)'
      PROVE  \E row \in prefs' : row.did = d /\ row.at = at
  <2>1. Home(d, at) /\ Clear(d)
    BY <1>4, ClearBefore, Zenon
  <2>2. q \in Puts(d) \cap Acknowledged
    BY <1>0, <1>4, AcknowledgedStay, Zenon
  <2>3. at \in Places
    BY <2>1, Zenon DEF Home, Places
  <2>4. PICK row \in prefs : row.did = d /\ row.at = at
    BY <2>1, <2>2, <2>3, SMTT(30) DEF IInv, KeptInv
  <2>5. Home(row.did, row.at)'
    BY <1>4, <2>4, Zenon DEF Home
  <2> QED
    BY <2>4, <2>5, Zenon
<1>5. KeptInv'
  BY <1>4 DEF KeptInv
<1> QED
  BY <1>1, <1>3, <1>5, Zenon

LEMMA QuietPrefs ==
    ASSUME IInv, Onward, prefs' = prefs,
           \A d : Puts(d)' \cap Acknowledged' \subseteq Acknowledged
    PROVE  UniqueRows' /\ RowInv' /\ KeptInv'
<1>1. prefs' \subseteq prefs /\ \A row \in prefs : row \in prefs'
  BY Zenon
<1> QED
  BY <1>1, ShrinkPrefs, Zenon

\* A handler that goes on: what it holds must fit the place it comes to.
LEMMA MoveTask ==
    ASSUME IInv, NEW t \in Tasks, Turn(t), reply'[t] = reply[t], pc'[t] # "done",
           DOMAIN loc'[t] = DOMAIN NoLocals,
           AuthInv(t)', SessionInv(t)', ServiceInv(t)', ForwardedAsAddressed(t)', PrefsInv(t)'
    PROVE  TaskInv(t)'
<1>1. /\ StateInv /\ TaskInv(t) /\ Onward /\ \A v \in Tasks : PlaceInv(v)
  BY TurnOnward, Zenon DEF IInv, TaskInv
<1>2. /\ scene' = scene /\ now' = now /\ accounts' = accounts /\ req' = req /\ since' = since
      /\ InFlight(t) /\ pc'[t] \notin {"idle", "start"}
  BY Zenon DEF Turn, outside
<1>3. reply'[t] = NoReply /\ reply'[t].status = "none"
  BY <1>2, NoReplyYet, Zenon DEF InFlight, NoReply
<1>4. RequestInv(t)' /\ ProofInv(t)'
  BY <1>1, <1>2, AsideRequest, AsideProof, Zenon DEF TaskInv
<1>5. PlaceInv(t)'
  BY <1>1, <1>2, <1>3, Zenon DEF TaskInv, PlaceInv, InFlight
<1>6. EarnedInv(t)' /\ NamedInv(t)' /\ GivenAsAsked(t)' /\ ReadBackInv(t)'
  BY <1>3, Zenon DEF EarnedInv, NamedInv, GivenAsAsked, ReadBackInv, Replied
<1>7. RefusedForGood(t)'
  BY <1>3, Zenon DEF RefusedForGood
<1> QED
  BY <1>4, <1>5, <1>6, <1>7, Zenon DEF TaskInv

\* A handler that answers.
LEMMA EndTask ==
    ASSUME IInv, NEW t \in Tasks, Turn(t), pc'[t] = "done",
           reply'[t].status # "none", DOMAIN loc'[t] = DOMAIN NoLocals,
           loc'[t].did = loc[t].did, loc'[t].sent = loc[t].sent,
           EarnedInv(t)', NamedInv(t)', GivenAsAsked(t)', ReadBackInv(t)', RefusedForGood(t)'
    PROVE  TaskInv(t)'
<1>1. /\ StateInv /\ TaskInv(t) /\ Onward /\ \A v \in Tasks : PlaceInv(v)
  BY TurnOnward, Zenon DEF IInv, TaskInv
<1>2. /\ scene' = scene /\ now' = now /\ accounts' = accounts /\ req' = req /\ since' = since
      /\ jtis \subseteq jtis'
  BY Zenon DEF Turn, outside
<1>3. reply'[t] # NoReply
  BY DEF NoReply
<1>4. RequestInv(t)' /\ ProofInv(t)'
  BY <1>1, <1>2, AsideRequest, AsideProof, Zenon DEF TaskInv
<1>5. PlaceInv(t)'
  BY <1>1, <1>2, <1>3, Zenon DEF TaskInv, PlaceInv, InFlight
<1>6. AuthInv(t)'
  BY <1>1, <1>2, ZenonT(60) DEF TaskInv, AuthInv, Known
<1>7. SessionInv(t)' /\ ServiceInv(t)'
  BY Zenon DEF SessionInv, ServiceInv
<1>8. ForwardedAsAddressed(t)'
  BY <1>1, <1>2, Zenon DEF TaskInv, ForwardedAsAddressed
<1>9. PrefsInv(t)'
  <2>1. since'[t].done \subseteq Acknowledged'
    BY <1>1, <1>2, AcknowledgedStay, Zenon DEF TaskInv, PrefsInv
  <2> QED
    BY <2>1, Zenon DEF PrefsInv
<1> QED
  BY <1>4, <1>5, <1>6, <1>7, <1>8, <1>9, Zenon DEF TaskInv

\* A turn that writes to no table, and what follows once its request is in order.
Still ==
    /\ UNCHANGED <<outside, store>>
    /\ DOMAIN proc' = DOMAIN proc /\ proc'.as = proc.as /\ proc'.published = proc.published
    /\ proc'.targets = proc.targets
    /\ \A x \in issued' : TokenOK(x)

LEMMA StillTurn ==
    ASSUME IInv, NEW t \in Tasks, Turn(t), Still, TaskInv(t)',
           loc'[t].did = loc[t].did \/ req[t].proof = {},
           reply'[t].status = "OK" => req[t].nsid # "putPreferences"
    PROVE  IInv'
<1>1. jtis' = jtis /\ prefs' = prefs /\ proc'.targets = proc.targets
  BY Zenon DEF Still, store
<1>2. StateInv' /\ AccountInv' /\ ClaimInv'
  BY TurnShared, Zenon DEF Still
<1>3. ProcInv' /\ ReplayInv' /\ OnceInv'
  BY <1>1, TurnProc, TurnReplay, TurnOnce, Zenon
<1>4. \A d : Puts(d)' \cap Acknowledged' \subseteq Acknowledged
  BY ZenonT(60) DEF Puts, Acknowledged, Turn
<1>5. UniqueRows' /\ RowInv' /\ KeptInv'
  BY <1>1, <1>4, TurnOnward, QuietPrefs, Zenon
<1>6. \A u \in Tasks : TaskInv(u)'
  BY TurnAside, Zenon
<1> QED
  BY <1>2, <1>3, <1>5, <1>6, Zenon DEF IInv

LEMMA NoEffectStill ==
    ASSUME IInv, NoEffect
    PROVE  Still
BY Zenon DEF IInv, StateInv, NoEffect, Still, outside, store

\* load_signing_key fills a cache that no property depends on.
LEMMA KeyStill ==
    ASSUME IInv, NEW t \in Tasks, load_signing_key(t), UNCHANGED <<outside, store, issued>>
    PROVE  Still
BY Zenon DEF IInv, StateInv, load_signing_key, Still, outside, store

\* The tokens of session_response.
LEMMA SessionStill ==
    ASSUME IInv, NEW t \in Tasks, NEW d \in Dids, NEW h, session_response(t, d, h),
           UNCHANGED <<outside, store, proc>>
    PROVE  Still
<1>1. AccessTtl \in Int /\ RefreshTtl \in Int /\ now \in Int
  BY AccessAssumption, SMTT(30) DEF IInv, StateInv
<1>2. TokenOK(encode_access_jwt(d, now)) /\ TokenOK(encode_refresh_jwt(d, now))
  BY <1>1 DEF TokenOK, encode_access_jwt, encode_refresh_jwt
<1>3. \A x \in issued' : TokenOK(x)
  BY <1>2, Zenon DEF IInv, StateInv, session_response
<1> QED
  BY <1>3, Zenon DEF Still, outside, store

-----------------------------------------------------------------------------
(* Answers. *)

\* Answer, whatever its body.
Answers(t, status) ==
    /\ pc' = [pc EXCEPT ![t] = "done"]
    /\ UNCHANGED <<req, loc, since>>
    /\ DOMAIN reply' = Tasks
    /\ reply'[t].status = status /\ reply'[t].at = now
    /\ \A u \in Tasks \ {t} : reply'[u] = reply[u]

LEMMA AnswerTurn ==
    ASSUME IInv, NEW t \in Tasks, InFlight(t), Still, NEW status, Answers(t, status)
    PROVE  /\ Turn(t) /\ pc'[t] = "done" /\ loc' = loc /\ req' = req /\ since' = since
           /\ scene' = scene /\ now' = now /\ accounts' = accounts
           /\ reply'[t].status = status /\ reply'[t].at = now
           /\ DOMAIN loc'[t] = DOMAIN NoLocals
<1>1. /\ DOMAIN pc = Tasks /\ DOMAIN loc = Tasks /\ DOMAIN reply = Tasks
      /\ DOMAIN loc[t] = DOMAIN NoLocals
  BY Zenon DEF IInv, StateInv, TaskInv, PlaceInv
<1>2. /\ UNCHANGED <<outside, accounts, claims, req, since>>
      /\ jtis' = jtis
      /\ DOMAIN proc' = DOMAIN proc /\ proc'.as = proc.as /\ proc'.published = proc.published
  BY Zenon DEF Still, store, Answers
<1>3. /\ DOMAIN pc' = Tasks /\ DOMAIN reply' = Tasks /\ loc' = loc
      /\ pc'[t] = "done"
      /\ reply'[t].status = status /\ reply'[t].at = now
      /\ \A u \in Tasks \ {t} : pc'[u] = pc[u] /\ reply'[u] = reply[u]
  BY <1>1, Zenon DEF Answers
<1>4. Turn(t)
  BY <1>1, <1>2, <1>3, Zenon DEF Turn
<1> QED
  BY <1>1, <1>2, <1>3, <1>4, Zenon DEF outside

\* Every refusal, except of a proof.
LEMMA FailStep ==
    ASSUME IInv, NEW t \in Tasks, InFlight(t), Still, NEW status, Error(t, status),
           status \notin {"none", "OK"},
           status # "InvalidToken" \/ req[t].scheme # "dpop" \/ req[t].nsid = "refreshSession"
    PROVE  IInv'
<1>1. Answers(t, status)
  BY Zenon DEF IInv, StateInv, Error, Answer, Answers
<1>2. /\ Turn(t) /\ pc'[t] = "done" /\ loc' = loc /\ req' = req
      /\ reply'[t].status = status /\ DOMAIN loc'[t] = DOMAIN NoLocals
  BY <1>1, AnswerTurn, Zenon
<1>3. EarnedInv(t)' /\ NamedInv(t)' /\ GivenAsAsked(t)' /\ ReadBackInv(t)'
  BY <1>2, Zenon DEF EarnedInv, NamedInv, GivenAsAsked, ReadBackInv, Replied
<1>4. RefusedForGood(t)'
  BY <1>2, Zenon DEF RefusedForGood
<1>5. TaskInv(t)'
  BY <1>2, <1>3, <1>4, EndTask, Zenon
<1> QED
  BY <1>2, <1>5, StillTurn, Zenon

\* An answer that the properties are about.
LEMMA OkStep ==
    ASSUME IInv, NEW t \in Tasks, InFlight(t), Still, Answers(t, "OK"),
           req[t].nsid # "putPreferences",
           EarnedInv(t)', NamedInv(t)', GivenAsAsked(t)', ReadBackInv(t)'
    PROVE  IInv'
<1>1. /\ Turn(t) /\ pc'[t] = "done" /\ loc' = loc
      /\ reply'[t].status = "OK" /\ DOMAIN loc'[t] = DOMAIN NoLocals
  BY AnswerTurn, Zenon
<1>2. RefusedForGood(t)'
  BY <1>1, Zenon DEF RefusedForGood
<1>3. TaskInv(t)'
  BY <1>1, <1>2, EndTask, Zenon
<1> QED
  BY <1>1, <1>3, StillTurn, Zenon

-----------------------------------------------------------------------------
(* Moves. *)

\* t's handler goes on at `label`; the message it may have sent is as it was.
Moves(t, label) ==
    /\ pc' = [pc EXCEPT ![t] = label]
    /\ UNCHANGED <<req, since, reply>>
    /\ DOMAIN loc' = Tasks /\ DOMAIN loc'[t] = DOMAIN NoLocals
    /\ loc[t].fault => loc'[t].fault
    /\ \A u \in Tasks \ {t} : loc'[u] = loc[u]

LEMMA MovesTurn ==
    ASSUME IInv, NEW t \in Tasks, InFlight(t), Still, NEW label, Moves(t, label),
           label \notin {"idle", "start", "done"},
           label \in {"jti", "jti orphan"} => pc[t] \in {"start", "jti", "jti orphan"}
    PROVE  Turn(t) /\ pc'[t] = label
<1>1. DOMAIN pc = Tasks /\ DOMAIN reply = Tasks
  BY Zenon DEF IInv, StateInv
<1>2. /\ UNCHANGED <<outside, accounts, claims, req, since, reply>>
      /\ jtis' = jtis
      /\ DOMAIN proc' = DOMAIN proc /\ proc'.as = proc.as /\ proc'.published = proc.published
  BY Zenon DEF Still, store, Moves
<1>3. /\ DOMAIN pc' = Tasks /\ DOMAIN loc' = Tasks
      /\ pc'[t] = label
      /\ loc[t].fault => loc'[t].fault
      /\ \A u \in Tasks \ {t} : pc'[u] = pc[u] /\ loc'[u] = loc[u]
  BY <1>1, Zenon DEF Moves
<1> QED
  BY <1>1, <1>2, <1>3, Zenon DEF Turn

LEMMA MoveStep ==
    ASSUME IInv, NEW t \in Tasks, InFlight(t), Still, NEW label, Moves(t, label),
           label \notin {"idle", "start", "done"},
           label \in {"jti", "jti orphan"} => pc[t] \in {"start", "jti", "jti orphan"},
           loc'[t].did = loc[t].did \/ req[t].proof = {},
           AuthInv(t)', SessionInv(t)', ServiceInv(t)', ForwardedAsAddressed(t)', PrefsInv(t)'
    PROVE  IInv'
<1>1. Turn(t) /\ pc'[t] = label
  BY MovesTurn, Zenon
<1>2. reply'[t] = reply[t] /\ DOMAIN loc'[t] = DOMAIN NoLocals
  BY Zenon DEF Moves
<1>3. TaskInv(t)'
  BY <1>1, <1>2, MoveTask, Zenon
<1>4. reply'[t].status # "OK"
  BY <1>2, NoReplyYet, Zenon DEF InFlight
<1> QED
  BY <1>1, <1>3, <1>4, StillTurn, Zenon

\* What a step needs to know of its own request.
LEMMA Own ==
    ASSUME IInv, NEW t \in Tasks
    PROVE  /\ RequestInv(t) /\ ProofInv(t) /\ PlaceInv(t) /\ AuthInv(t) /\ SessionInv(t)
           /\ ServiceInv(t) /\ ForwardedAsAddressed(t) /\ PrefsInv(t)
           /\ DOMAIN pc = Tasks /\ DOMAIN loc = Tasks
BY Zenon DEF IInv, TaskInv, StateInv

LEMMA GotoMoves ==
    ASSUME IInv, NEW t \in Tasks, NEW label, Goto(t, label)
    PROVE  Moves(t, label) /\ loc' = loc
BY Own, Zenon DEF Goto, Moves, PlaceInv

\* A message that was sent was sent.
LEMMA UnsentForwarded ==
    ASSUME NEW t \in Tasks, loc'[t].sent = {}
    PROVE  ForwardedAsAddressed(t)'
BY Zenon DEF ForwardedAsAddressed

LEMMA PlaceMoves ==
    ASSUME IInv, NEW t \in Tasks, InFlight(t), pc[t] # "upstream", Still, NEW label,
           Moves(t, label), loc'[t].sent = loc[t].sent
    PROVE  /\ loc'[t].sent = {} /\ ForwardedAsAddressed(t)'
           /\ since'[t].done \subseteq Acknowledged'
           /\ req' = req /\ since' = since /\ scene' = scene /\ now' = now
           /\ accounts' = accounts /\ jtis' = jtis /\ proc'.published = proc.published
           /\ pc'[t] = label
           /\ Seen(t)' = Seen(t)
<1>1. loc'[t].sent = {}
  BY Own, Zenon DEF ServiceInv, InFlight
<1>2. /\ req' = req /\ since' = since /\ reply' = reply /\ scene' = scene /\ now' = now
      /\ accounts' = accounts /\ jtis' = jtis /\ proc'.published = proc.published
  BY Zenon DEF Moves, Still, outside, store
<1>3. since'[t].done \subseteq Acknowledged'
  BY <1>2, Own, Zenon DEF PrefsInv, Acknowledged
<1>4. pc'[t] = label
  BY Own, Zenon DEF Moves
<1> QED
  BY <1>1, <1>2, <1>3, <1>4, UnsentForwarded, Zenon DEF Seen

\* The caller of a session token: authenticate, authed_did.
LEMMA CallerStep ==
    ASSUME IInv, NEW t \in Tasks, pc[t] = "start", Still, NEW x \in req[t].token,
           req[t].scheme = "bearer", NEW label, Keep(t, label, [loc[t] EXCEPT !.did = x.sub]),
           label \in {"lookup", "params", "checks", "get", "decode"},
           label = "get" => req[t].nsid = "getPreferences",
           req[t].nsid = "refreshSession" => x.scope = "refresh" /\ x.exp >= now - Leeway
    PROVE  IInv'
<1>1. loc[t] = NoLocals /\ req[t].proof = {}
  BY Own, Zenon DEF PlaceInv, ProofInv
<1>2. /\ Moves(t, label) /\ loc'[t].sent = loc[t].sent /\ loc'[t].did = x.sub
  <2>1. /\ DOMAIN [loc[t] EXCEPT !.did = x.sub] = DOMAIN NoLocals
        /\ [loc[t] EXCEPT !.did = x.sub].fault = loc[t].fault
        /\ [loc[t] EXCEPT !.did = x.sub].sent = loc[t].sent
        /\ [loc[t] EXCEPT !.did = x.sub].did = x.sub
    BY <1>1, Zenon DEF NoLocals
  <2> QED
    BY <2>1, Own, Zenon DEF Keep, Moves
<1>3. InFlight(t)
  BY Zenon DEF InFlight
<1>4. /\ loc'[t].sent = {} /\ ForwardedAsAddressed(t)' /\ since'[t].done \subseteq Acknowledged'
      /\ req' = req /\ since' = since /\ pc'[t] = label /\ scene' = scene
  BY <1>2, <1>3, PlaceMoves, Zenon
<1>5. AuthInv(t)'
  BY <1>2, <1>4, Own, ZenonT(60) DEF AuthInv, Known, ProofInv
<1>6. x.exp \in Int /\ now \in Int /\ Leeway \in Int /\ since[t].at \in Int /\ since[t].at <= now
  BY Own, AccessAssumption, SMTT(30) DEF RequestInv, TokenOK, PlaceInv, IInv, StateInv
<1>7. SessionInv(t)'
  BY <1>2, <1>4, <1>6 DEF SessionInv, Refreshing
<1>8. ServiceInv(t)'
  BY <1>4, Zenon DEF ServiceInv
<1>9. PrefsInv(t)'
  BY <1>4, Zenon DEF PrefsInv
<1> QED
  BY <1>1, <1>2, <1>3, <1>4, <1>5, <1>7, <1>8, <1>9, MoveStep, Zenon

\* A handler that goes on and learns nothing.
LEMMA GotoStep ==
    ASSUME IInv, NEW t \in Tasks, InFlight(t), pc[t] # "upstream", Still, NEW label,
           Goto(t, label), label \in {"account", "sole", "resolve", "key", "put", "fetch"},
           label \in Known => pc[t] \in Known,
           label = "key" => req[t].nsid = "getServiceAuth" /\ scene.server # "embedded",
           label = "put" => /\ req[t].nsid = "putPreferences" /\ req[t].wellformed
                            /\ scene.server # "worker",
           label = "fetch" => req[t].to # NoService /\ req[t].to.method = "plc"
    PROVE  IInv'
<1>1. Moves(t, label) /\ loc' = loc
  BY GotoMoves, Zenon
<1>2. /\ loc'[t].sent = {} /\ ForwardedAsAddressed(t)' /\ since'[t].done \subseteq Acknowledged'
      /\ req' = req /\ pc'[t] = label /\ scene' = scene /\ jtis' = jtis
  BY <1>1, PlaceMoves, Zenon
<1>3. AuthInv(t)'
  BY <1>1, <1>2, Own, ZenonT(60) DEF AuthInv, Known
<1>4. SessionInv(t)'
  BY <1>2, Zenon DEF SessionInv
<1>5. ServiceInv(t)'
  BY <1>2, Zenon DEF ServiceInv
<1>6. PrefsInv(t)'
  BY <1>2, Zenon DEF PrefsInv
<1> QED
  BY <1>1, <1>2, <1>3, <1>4, <1>5, <1>6, MoveStep, Zenon

-----------------------------------------------------------------------------
(* The service proxy. *)

\* The request has a URL of the service that it addresses.
LEMMA RouteTask ==
    ASSUME IInv, NEW t \in Tasks, pc[t] \in {"resolve", "fetch"}, NEW url, Turn(t),
           pc'[t] = "key", loc'[t] = [loc[t] EXCEPT !.url = url], reply' = reply,
           req[t].nsid # "getServiceAuth", Routed(t)'
    PROVE  TaskInv(t)' /\ loc'[t].did = loc[t].did
<1>1. /\ DOMAIN loc'[t] = DOMAIN NoLocals
      /\ loc'[t].did = loc[t].did /\ loc'[t].sent = loc[t].sent /\ loc'[t].fault = loc[t].fault
  BY Own, Zenon DEF PlaceInv, NoLocals
<1>2. req' = req /\ since' = since /\ jtis \subseteq jtis'
  BY Zenon DEF Turn
<1>3. ForwardedAsAddressed(t)' /\ loc'[t].sent = {}
  BY <1>1, Own, UnsentForwarded, Zenon DEF ServiceInv
<1>4. AuthInv(t)'
  <2>1. AuthInv(t)
    BY Own, Zenon
  <2> QED
    BY <2>1, <1>1, <1>2, ZenonT(60) DEF AuthInv, Known
<1>5. SessionInv(t)' /\ ServiceInv(t)'
  BY <1>2, <1>3, Zenon DEF SessionInv, ServiceInv
<1>6. PrefsInv(t)'
  BY <1>2, Own, Zenon DEF PrefsInv, Acknowledged
<1> QED
  BY <1>1, <1>3, <1>4, <1>5, <1>6, MoveTask, ZenonT(60)

\* resolve_target: the URL comes from the request, the configuration or the cache.
LEMMA ResolveStep ==
    ASSUME IInv, NEW t \in Tasks, ResolveTarget(t), req[t].nsid # "getServiceAuth"
    PROVE  IInv'
<1> DEFINE s == req[t].to
<1>0. /\ pc[t] = "resolve" /\ InFlight(t) /\ Still
      /\ DOMAIN pc = Tasks /\ DOMAIN loc = Tasks /\ DOMAIN loc[t] = DOMAIN NoLocals
  BY NoEffectStill, Own, Zenon DEF ResolveTarget, InFlight, PlaceInv
<1>1. ASSUME NEW url, Route(t, url),
             IF s = NoService THEN url = "appview"
             ELSE \/ s.method = "web" /\ url = s.did
                  \/ [service |-> s, url |-> url] \in proc.published
      PROVE  IInv'
  <2>1. Moves(t, "key") /\ loc'[t] = [loc[t] EXCEPT !.url = url] /\ reply' = reply
    BY <1>0, <1>1, Zenon DEF Route, Keep, Moves, NoLocals
  <2>2. Turn(t) /\ pc'[t] = "key"
    BY <1>0, <2>1, MovesTurn, Zenon
  <2>3. loc'[t].url = url /\ req' = req /\ proc' = proc
    BY <1>0, <2>1 DEF ResolveTarget, NoEffect, Moves, NoLocals
  <2>4. Routed(t)'
    BY <1>1, <2>3, Zenon DEF Routed
  <2>5. TaskInv(t)' /\ loc'[t].did = loc[t].did
    BY <1>0, <2>1, <2>2, <2>4, RouteTask, Zenon
  <2>6. reply'[t].status # "OK"
    BY <1>0, <2>1, NoReplyYet, Zenon
  <2> QED
    BY <1>0, <2>2, <2>5, <2>6, StillTurn, Zenon
<1>2. CASE Error(t, "MethodNotImplemented") \/ Error(t, "InvalidRequest")
  BY <1>0, <1>2, FailStep, Zenon
<1>3. CASE s = NoService /\ Route(t, "appview")
  BY <1>1, <1>3, Zenon
<1>4. CASE s # NoService /\ s.method = "web" /\ Route(t, s.did)
  BY <1>1, <1>4, Zenon
<1>5. CASE s # NoService /\ Cached(s) # {} /\ Route(t, CHOOSE u \in Cached(s) : TRUE)
  <2>1. PICK url : url = CHOOSE u \in Cached(s) : TRUE
    BY Zenon
  <2>2. url \in Cached(s)
    BY <2>1, <1>5, Zenon
  <2>3. [service |-> s, url |-> url] \in proc.published
    BY <2>2, Zenon DEF Cached, CacheKey, IInv, ProcInv
  <2>4. Route(t, url)
    BY <2>1, <1>5, Zenon DEF Route, Keep
  <2> QED
    BY <1>1, <1>5, <2>3, <2>4, Zenon
<1>6. CASE s # NoService /\ s.method = "plc" /\ Goto(t, "fetch")
  BY <1>0, <1>6, GotoStep, Zenon DEF Known
<1> QED
  BY <1>2, <1>3, <1>4, <1>5, <1>6, Zenon DEF ResolveTarget

\* The document that was fetched is the directory's, for this service.
LEMMA FetchStep ==
    ASSUME IInv, NEW t \in Tasks, FetchTarget(t), req[t].nsid # "getServiceAuth"
    PROVE  IInv'
<1> DEFINE s == req[t].to
<1>0. /\ pc[t] = "fetch" /\ InFlight(t) /\ UNCHANGED <<outside, store, issued>>
      /\ DOMAIN pc = Tasks /\ DOMAIN loc = Tasks /\ DOMAIN reply = Tasks
      /\ DOMAIN loc[t] = DOMAIN NoLocals
      /\ s # NoService /\ s.method = "plc" /\ s \in Services
  BY Own, Zenon DEF FetchTarget, InFlight, PlaceInv, ServiceInv, RequestInv, IInv, StateInv
<1>1. CASE UNCHANGED proc /\ (Error(t, "UpstreamFailure") \/ Error(t, "InvalidRequest"))
  BY <1>0, <1>1, NoEffectStill, FailStep, Zenon DEF NoEffect
<1>2. ASSUME NEW url \in service_endpoint_from_doc(s), Route(t, url),
             proc' = [proc EXCEPT !.targets = {c \in @ : c.key # CacheKey(s)}
                                                \cup {[key |-> CacheKey(s), url |-> url]}]
      PROVE  IInv'
  <2>1. url = directory[s] /\ [service |-> s, url |-> url] \in proc.published
    BY <1>0, <1>2, Zenon DEF service_endpoint_from_doc, IInv, ProcInv, Publish
  <2>2. DOMAIN proc = {"as", "keys", "targets", "published"}
    BY Zenon DEF IInv, StateInv
  <2>3. /\ DOMAIN proc' = DOMAIN proc /\ proc'.as = proc.as /\ proc'.published = proc.published
        /\ proc'.targets = {c \in proc.targets : c.key # s} \cup {[key |-> s, url |-> url]}
    BY <1>2, <2>2, Zenon DEF CacheKey
  <2>4. /\ pc' = [pc EXCEPT ![t] = "key"] /\ loc' = [loc EXCEPT ![t] = [loc[t] EXCEPT !.url = url]]
        /\ UNCHANGED <<req, since, reply>>
    BY <1>2, Zenon DEF Route, Keep
  <2>5. /\ pc'[t] = "key" /\ loc'[t] = [loc[t] EXCEPT !.url = url]
        /\ loc'[t].url = url /\ loc'[t].fault = loc[t].fault
        /\ DOMAIN pc' = Tasks /\ DOMAIN loc' = Tasks
        /\ \A u \in Tasks \ {t} : pc'[u] = pc[u] /\ loc'[u] = loc[u]
    BY <1>0, <2>4, Zenon DEF NoLocals
  <2>6. Turn(t)
    BY <1>0, <2>3, <2>4, <2>5, Zenon DEF Turn, store
  <2>7. Routed(t)'
    BY <1>0, <2>1, <2>3, <2>4, <2>5, Zenon DEF Routed
  <2>8. TaskInv(t)' /\ loc'[t].did = loc[t].did
    BY <1>0, <2>4, <2>5, <2>6, <2>7, RouteTask, Zenon
  <2>9. StateInv' /\ AccountInv' /\ ClaimInv'
    BY <1>0, <2>6, TurnShared, Zenon DEF IInv, StateInv
  <2>10. ProcInv'
    <3>0. ProcInv
      BY Zenon DEF IInv
    <3>1. Publish(directory)' \subseteq proc'.published
      BY <1>0, <2>3, <3>0, Zenon DEF ProcInv, Publish, outside
    <3>2. ASSUME NEW c \in proc'.targets
          PROVE  [service |-> c.key, url |-> c.url] \in proc'.published
      <4>1. CASE c \in proc.targets
        BY <4>1, <2>3, <3>0, Zenon DEF ProcInv
      <4>2. CASE c = [key |-> s, url |-> url]
        BY <4>2, <2>1, <2>3, Zenon
      <4> QED
        BY <4>1, <4>2, <2>3, Zenon
    <3>3. \A c, e \in proc'.targets : c.key = e.key => c = e
      BY <2>3, <3>0 DEF ProcInv
    <3> QED
      BY <3>1, <3>2, <3>3, Zenon DEF ProcInv
  <2>11. ReplayInv' /\ OnceInv'
    BY <1>0, <2>6, <2>8, TurnReplay, TurnOnce, Zenon DEF store
  <2>12. UniqueRows' /\ RowInv' /\ KeptInv'
    <3>1. \A d : Puts(d)' \cap Acknowledged' \subseteq Acknowledged
      BY <2>4, Zenon DEF Acknowledged
    <3> QED
      BY <1>0, <2>6, <3>1, TurnOnward, QuietPrefs, Zenon DEF store
  <2> QED
    BY <2>6, <2>8, <2>9, <2>10, <2>11, <2>12, TurnAside, Zenon DEF IInv
<1> QED
  BY <1>0, <1>1, <1>2, Zenon DEF FetchTarget

\* The key is loaded: the message is signed for the addressed service, or refused.
LEMMA SendStep ==
    ASSUME IInv, NEW t \in Tasks, NEW allowed, Send(t, allowed),
           req[t].nsid # "getServiceAuth", scene.server # "worker"
    PROVE  IInv'
<1>0. /\ pc[t] = "key" /\ InFlight(t) /\ UNCHANGED <<outside, store, issued>>
      /\ DOMAIN pc = Tasks /\ DOMAIN loc = Tasks /\ DOMAIN loc[t] = DOMAIN NoLocals
      /\ Routed(t)
  BY Own, Zenon DEF Send, InFlight, PlaceInv, ServiceInv
<1>1. CASE UNCHANGED proc /\ Error(t, "StoreError")
  BY <1>0, <1>1, NoEffectStill, FailStep, Zenon DEF NoEffect
<1>2. CASE load_signing_key(t) /\ Error(t, "UpstreamFailure")
  BY <1>0, <1>2, KeyStill, FailStep, Zenon
<1>3. PICK token : token = mint_service_auth_jwt(loc[t].did, req[t].to.did, req[t].nsid)
  BY Zenon
<1>4. CASE /\ load_signing_key(t)
           /\ Keep(t, "upstream", [loc[t] EXCEPT !.sent = {[url |-> loc[t].url, token |-> token]}])
  <2>1. Still
    BY <1>0, <1>4, KeyStill, Zenon
  <2>2. /\ Moves(t, "upstream") /\ pc'[t] = "upstream"
        /\ loc'[t].sent = {[url |-> loc[t].url, token |-> token]}
        /\ loc'[t].did = loc[t].did
    BY <1>0, <1>4, Zenon DEF Keep, Moves, NoLocals
  <2>3. /\ req' = req /\ since' = since /\ reply' = reply /\ scene' = scene /\ jtis' = jtis
        /\ proc'.published = proc.published
    BY <2>1, <2>2, Zenon DEF Moves, Still, outside, store
  <2>4. /\ token.iss = loc[t].did /\ token.aud = req[t].to.did /\ token.lxm = req[t].nsid
        /\ token.exp = token.iat + ServiceTtl /\ token.iat = now
    BY <1>3, ZenonT(60) DEF mint_service_auth_jwt, mint_service_auth_jwt_with
  <2>5. ForwardedAsAddressed(t)'
    <3>1. \E x \in req[t].token : token.iss = x.sub
      BY <1>0, <2>4, Own, Zenon DEF AuthInv, Known
    <3>2. token.exp <= token.iat + ServiceTtl
      <4>1. now \in 0..MaxTime
        BY ZenonT(60) DEF IInv, StateInv
      <4> QED
        BY <2>4, <4>1, AccessAssumption
    <3>3. IF req[t].to = NoService THEN loc[t].url = "appview" /\ token.aud = "appview"
          ELSE /\ token.aud = req[t].to.did
               /\ \/ req[t].to.method = "web" /\ loc[t].url = req[t].to.did
                  \/ [service |-> req[t].to, url |-> loc[t].url] \in proc.published
      BY <1>0, <2>4, SMTT(30) DEF Routed, NoService
    <3> QED
      BY <2>2, <2>3, <2>4, <3>1, <3>2, <3>3, SMTT(30) DEF ForwardedAsAddressed
  <2>6. AuthInv(t)'
    BY <2>2, <2>3, Own, ZenonT(30) DEF AuthInv, Known
  <2>7. SessionInv(t)' /\ ServiceInv(t)'
    BY <2>2, <2>3, Zenon DEF SessionInv, ServiceInv
  <2>8. PrefsInv(t)'
    BY <2>2, <2>3, Own, Zenon DEF PrefsInv, Acknowledged
  <2> QED
    BY <1>0, <2>1, <2>2, <2>5, <2>6, <2>7, <2>8, MoveStep, Zenon
<1> QED
  BY <1>1, <1>2, <1>3, <1>4, Zenon DEF Send

LEMMA RelayStep ==
    ASSUME IInv, NEW t \in Tasks, Relay(t)
    PROVE  IInv'
BY NoEffectStill, FailStep, Zenon DEF Relay, InFlight

-----------------------------------------------------------------------------
(* DPoP. *)

\* A nonce that was learned at most a window ago is of this window or of the last.
LEMMA NonceLemma ==
    ASSUME NEW l \in Nat, now \in Nat, l <= now, now - l <= NonceWindow
    PROVE  nonce_is_valid(current_nonce(l))
<1>1. NonceWindow \in Nat \ {0}
  BY DpopAssumption, Zenon
<1>2. ASSUME NEW n \in Nat, NEW W \in Nat \ {0}, l <= n, n - l <= W
      PROVE  n \div W = l \div W \/ n \div W = l \div W + 1
  BY <1>2
<1>3. now \div NonceWindow \in {l \div NonceWindow, l \div NonceWindow + 1}
  BY <1>1, <1>2, Zenon
<1>4. l \div NonceWindow \in Nat /\ now \div NonceWindow \in Nat
  BY <1>1
<1> QED
  BY <1>3, <1>4 DEF nonce_is_valid, current_nonce, nonce_for_window

\* A refused proof: why.
Excuse(t) ==
    \E p \in req[t].proof, x \in req[t].token :
        \/ x.exp <= now
        \/ x.scope = "oauth" /\ x.key < proc.as
        \/ p.ath # x \/ p.jkt # x.jkt \/ p.htu # req[t].nsid
        \/ p.learned = {} \/ \E l \in p.learned : now - l > NonceWindow
        \/ p.iat > now + MaxProofAge \/ p.iat < now - MaxProofAge
        \/ \E u \in Tasks \ {t} : p \in req[u].proof

LEMMA ExcuseTask ==
    ASSUME IInv, NEW t \in Tasks, Excuse(t), Turn(t), pc'[t] = "done", loc' = loc,
           reply'[t].status = "InvalidToken", reply'[t].at = now
    PROVE  TaskInv(t)'
<1>1. req' = req /\ proc'.as = proc.as
  BY Zenon DEF Turn
<1>2. RefusedForGood(t)'
  BY <1>1 DEF RefusedForGood, Excuse
<1>3. EarnedInv(t)' /\ NamedInv(t)' /\ GivenAsAsked(t)' /\ ReadBackInv(t)'
  BY Zenon DEF EarnedInv, NamedInv, GivenAsAsked, ReadBackInv, Replied
<1>4. DOMAIN loc'[t] = DOMAIN NoLocals
  BY Own, Zenon DEF PlaceInv
<1> QED
  BY <1>2, <1>3, <1>4, EndTask, Zenon

\* The checks that need no store leave a client that follows the rules alone.
LEMMA InvalidExcuse ==
    ASSUME IInv, NEW t \in Tasks, req[t].scheme = "dpop", req[t].proof # {},
           ~(/\ \A x \in req[t].token : verify_access_token(x)
             /\ \A p \in req[t].proof : Verify(t, p))
    PROVE  Excuse(t)
<1>0. RequestInv(t) /\ ProofInv(t) /\ now \in Nat /\ proc.as \in Nat
  <2>1. RequestInv(t) /\ ProofInv(t) /\ now \in 0..MaxTime /\ proc.as \in 1..MaxKeys
    BY Own, Zenon DEF IInv, StateInv
  <2> QED
    BY <2>1, AccessAssumption
<1>1. PICK p \in req[t].proof : req[t].proof = {p}
  BY <1>0, Zenon DEF ProofInv
<1>2. PICK x \in req[t].token : req[t].token = {x} /\ TokenOK(x)
  BY <1>0, Zenon DEF ProofInv, RequestInv
<1>3. p.iat \in Int /\ \A l \in p.learned : l \in 0..now /\ p.learned = {l}
  BY <1>0, Zenon DEF ProofInv
<1>4. CASE ~verify_access_token(x)
  <2>1. CASE x.scope # "oauth"
    <3>1. p.jti \in Tasks \ {t} /\ p \in req[p.jti].proof
      BY <1>0, <2>1, Zenon DEF ProofInv
    <3> QED
      BY <3>1, <1>1, <1>2, Zenon DEF Excuse
  <2>2. CASE x.scope = "oauth"
    <3>1. x.exp <= now \/ x.key < proc.as
      BY <1>4, <2>2, <1>0, <1>2 DEF verify_access_token, TokenOK
    <3> QED
      BY <3>1, <2>2, Zenon DEF Excuse
  <2> QED
    BY <2>1, <2>2, Zenon
<1>5. CASE ~Verify(t, p)
  <2>1. CASE p.htu # req[t].nsid \/ p.ath \notin req[t].token
    BY <2>1, <1>2, Zenon DEF Excuse
  <2>2. CASE ~Fresh(p)
    <3>1. p.iat > now + MaxProofAge \/ p.iat < now - MaxProofAge
      BY <2>2, <1>0, <1>3, DpopAssumption DEF Fresh
    <3> QED
      BY <3>1, <1>2, Zenon DEF Excuse
  <2>3. CASE \A n \in ProofNonce(p) : ~nonce_is_valid(n)
    <3>1. CASE p.learned = {}
      BY <3>1, <1>2, Zenon DEF Excuse
    <3>2. ASSUME NEW l \in p.learned
          PROVE  Excuse(t)
      <4>1. l \in Nat /\ l <= now
        BY <1>0, <1>3
      <4>2. ~nonce_is_valid(current_nonce(l))
        BY <2>3, Zenon DEF ProofNonce
      <4>3. now - l > NonceWindow
        BY <4>1, <4>2, <1>0, NonceLemma, DpopAssumption
      <4> QED
        BY <4>3, <1>2, Zenon DEF Excuse
    <3> QED
      BY <3>1, <3>2, Zenon
  <2> QED
    BY <1>5, <2>1, <2>2, <2>3, Zenon DEF Verify
<1> QED
  BY <1>1, <1>2, <1>4, <1>5, ZenonT(60)

LEMMA CheckProofStep ==
    ASSUME IInv, NEW t \in Tasks, pc[t] = "start", Still, req[t].scheme = "dpop", CheckProof(t)
    PROVE  IInv'
<1> DEFINE valid == /\ \A x \in req[t].token : verify_access_token(x)
                    /\ \A p \in req[t].proof : Verify(t, p)
<1>0. InFlight(t)
  BY Zenon DEF InFlight
<1>1. CASE Error(t, "AuthRequired")
  BY <1>0, <1>1, FailStep, Zenon
<1>2. CASE req[t].proof # {} /\ valid /\ Goto(t, "jti")
  <2>1. Moves(t, "jti") /\ loc' = loc
    BY <1>2, GotoMoves, Zenon
  <2>2. loc[t].did = Nobody
    <3>1. loc[t] = NoLocals
      BY Own, Zenon DEF PlaceInv
    <3> QED
      BY <3>1 DEF NoLocals
  <2>3. /\ loc'[t].sent = {} /\ ForwardedAsAddressed(t)' /\ since'[t].done \subseteq Acknowledged'
        /\ req' = req /\ pc'[t] = "jti"
    BY <1>0, <2>1, PlaceMoves, Zenon
  <2>4. AuthInv(t)'
    BY <1>2, <2>1, <2>2, <2>3, Zenon DEF AuthInv, Known, Verify
  <2>5. SessionInv(t)' /\ ServiceInv(t)' /\ PrefsInv(t)'
    BY <2>3, Zenon DEF SessionInv, ServiceInv, PrefsInv
  <2> QED
    BY <1>0, <2>1, <2>3, <2>4, <2>5, MoveStep, Zenon
<1>3. CASE req[t].proof # {} /\ ~valid /\ Error(t, "InvalidToken")
  <2>1. Excuse(t)
    BY <1>3, InvalidExcuse, Zenon
  <2>2. Answers(t, "InvalidToken")
    BY <1>3, Zenon DEF IInv, StateInv, Error, Answer, Answers
  <2>3. /\ Turn(t) /\ pc'[t] = "done" /\ loc' = loc
        /\ reply'[t].status = "InvalidToken" /\ reply'[t].at = now
    BY <1>0, <2>2, AnswerTurn, Zenon
  <2>4. TaskInv(t)'
    BY <2>1, <2>3, ExcuseTask, Zenon
  <2> QED
    BY <2>3, <2>4, StillTurn, Zenon
<1> QED
  BY <1>1, <1>2, <1>3, Zenon DEF CheckProof

\* A turn that writes to the replay table.
LEMMA JtiTurn ==
    ASSUME IInv, NEW t \in Tasks, Turn(t), prefs' = prefs, proc' = proc, issued' = issued,
           reply'[t].status # "OK", TaskInv(t)', ReplayInv', OnceInv'
    PROVE  IInv'
<1>1. StateInv' /\ AccountInv' /\ ClaimInv'
  BY TurnShared, Zenon DEF IInv, StateInv
<1>2. ProcInv'
  BY TurnProc, Zenon
<1>3. \A d : Puts(d)' \cap Acknowledged' \subseteq Acknowledged
  BY Zenon DEF Acknowledged, Turn
<1>4. UniqueRows' /\ RowInv' /\ KeptInv'
  BY <1>3, TurnOnward, QuietPrefs, Zenon
<1> QED
  BY <1>1, <1>2, <1>4, TurnAside, Zenon DEF IInv

\* An insert into the replay table, by a request that is through with its proof.
LEMMA ReplayGrows ==
    ASSUME IInv, NEW t \in Tasks, Turn(t), pc'[t] \notin {"jti", "jti orphan"},
           \A j \in jtis' : j \in jtis \/ \E q \in req[t].proof : q.jti = j
    PROVE  ReplayInv'
<1>1. ReplayInv /\ req' = req /\ pc'[t] \notin {"idle", "start"}
  BY Zenon DEF IInv, Turn
<1>2. \A u \in Tasks : pc[u] \notin {"idle", "start", "jti", "jti orphan"} =>
                       pc'[u] \notin {"idle", "start", "jti", "jti orphan"}
  BY Zenon DEF Turn
<1> QED
  BY <1>1, <1>2, Zenon DEF ReplayInv

\* One request has the proof, or another was through with it before.
LEMMA ReplayedExcuse ==
    ASSUME IInv, NEW t \in Tasks, pc[t] = "jti", NEW p \in req[t].proof, p.jti \in jtis
    PROVE  Excuse(t)
<1>1. PICK u \in Tasks : /\ pc[u] \notin {"idle", "start", "jti", "jti orphan"}
                         /\ \E q \in req[u].proof : q.jti = p.jti
  BY Zenon DEF IInv, ReplayInv
<1>2. PICK q \in req[u].proof : q.jti = p.jti
  BY <1>1, Zenon
<1>3. ProofInv(t) /\ ProofInv(u) /\ ProofInv(p.jti)
  <2>1. ProofInv(t)
    BY Own, Zenon
  <2> QED
    BY <2>1, Own, Zenon DEF ProofInv
<1>4. p \in req[p.jti].proof /\ q \in req[p.jti].proof
  BY <1>2, <1>3, Zenon DEF ProofInv
<1>5. q = p
  BY <1>3, <1>4, Zenon DEF ProofInv
<1>6. PICK x : x \in req[t].token
  BY <1>3, Zenon DEF ProofInv
<1> QED
  BY <1>1, <1>2, <1>5, <1>6, Zenon DEF Excuse

\* The insert that finds the proof unused authorizes its request, and no other.
LEMMA AuthorizedStep ==
    ASSUME IInv, NEW t \in Tasks, pc[t] = "jti", NEW p \in req[t].proof, NEW x \in req[t].token,
           p.jti \notin jtis, jtis' = jtis \cup {p.jti}, p.jkt = x.jkt,
           UNCHANGED <<outside, accounts, claims, prefs, proc, issued>>,
           NEW label, Keep(t, label, [loc[t] EXCEPT !.did = x.sub]),
           label \in {"lookup", "params", "checks", "get", "decode"},
           label = "get" => req[t].nsid = "getPreferences",
           req[t].nsid # "refreshSession"
    PROVE  IInv'
<1>0. /\ RequestInv(t) /\ ProofInv(t) /\ AuthInv(t) /\ ServiceInv(t) /\ PrefsInv(t)
      /\ DOMAIN loc[t] = DOMAIN NoLocals
      /\ DOMAIN pc = Tasks /\ DOMAIN loc = Tasks /\ DOMAIN reply = Tasks
  BY Own, Zenon DEF PlaceInv, IInv, StateInv
<1>1. /\ pc'[t] = label /\ loc'[t].did = x.sub /\ loc'[t].sent = loc[t].sent
      /\ loc'[t].fault = loc[t].fault /\ DOMAIN loc'[t] = DOMAIN NoLocals
      /\ req' = req /\ since' = since /\ reply' = reply
      /\ DOMAIN pc' = Tasks /\ DOMAIN loc' = Tasks
      /\ \A u \in Tasks \ {t} : pc'[u] = pc[u] /\ loc'[u] = loc[u]
  BY <1>0, Zenon DEF Keep, NoLocals
<1>2. Turn(t)
  BY <1>0, <1>1, Zenon DEF Turn, InFlight
<1>3. req[t].proof = {p} /\ req[t].token = {x} /\ req[t].scheme = "dpop"
  BY <1>0, Zenon DEF ProofInv, RequestInv
<1>4. AuthInv(t)'
  BY <1>0, <1>1, <1>3, Zenon DEF AuthInv, Known
<1>5. SessionInv(t)'
  BY <1>1, Zenon DEF SessionInv
<1>6. ServiceInv(t)' /\ ForwardedAsAddressed(t)'
  <2>1. loc'[t].sent = {}
    BY <1>0, <1>1, Zenon DEF ServiceInv
  <2> QED
    BY <1>1, <2>1, UnsentForwarded, Zenon DEF ServiceInv
<1>7. PrefsInv(t)'
  BY <1>0, <1>1, Zenon DEF PrefsInv, Acknowledged
<1>8. TaskInv(t)'
  BY <1>1, <1>2, <1>4, <1>5, <1>6, <1>7, MoveTask, Zenon
<1>9. ReplayInv'
  BY <1>1, <1>2, ReplayGrows, Zenon
<1>10. OnceInv'
  <2>1. ASSUME NEW u \in Tasks \ {t}, p \in req[u].proof
        PROVE  loc[u].did = Nobody
    <3>1. ProofInv(u) /\ AuthInv(u)
      BY Own, Zenon
    <3>2. req[u].scheme = "dpop" /\ req[u].token # {}
      BY <2>1, <3>1, Zenon DEF ProofInv
    <3> QED
      BY <2>1, <3>1, <3>2, Zenon DEF AuthInv
  <2>2. OnceInv
    BY Zenon DEF IInv
  <2>3. \A u \in Tasks \ {t} : p \in req[u].proof => loc'[u].did = Nobody
    BY <2>1, <1>1, Zenon
  <2>4. ASSUME NEW v \in Tasks, NEW u \in Tasks, NEW q \in req[v].proof,
               v # u, q \in req[u].proof
        PROVE  loc'[v].did = Nobody \/ loc'[u].did = Nobody
    <3>1. CASE v = t \/ u = t
      BY <3>1, <2>3, <2>4, <1>3, Zenon
    <3>2. CASE v # t /\ u # t
      BY <3>2, <2>2, <2>4, <1>1, SMTT(30) DEF OnceInv
    <3> QED
      BY <3>1, <3>2, Zenon
  <2> QED
    BY <2>4, <1>1, Zenon DEF OnceInv
<1>11. reply'[t].status # "OK"
  BY <1>1, NoReplyYet, Zenon
<1> QED
  BY <1>2, <1>8, <1>9, <1>10, <1>11, JtiTurn, Zenon

\* The insert, and the refusals at it.
LEMMA RefusedStep ==
    ASSUME IInv, NEW t \in Tasks, pc[t] = "jti", Excuse(t), Error(t, "InvalidToken"),
           UNCHANGED <<outside, accounts, claims, prefs, proc, issued>>,
           jtis \subseteq jtis',
           \A j \in jtis' : j \in jtis \/ \E q \in req[t].proof : q.jti = j
    PROVE  IInv'
<1>0. DOMAIN pc = Tasks /\ DOMAIN loc = Tasks /\ DOMAIN reply = Tasks
  BY Zenon DEF IInv, StateInv
<1>1. /\ pc'[t] = "done" /\ reply'[t].status = "InvalidToken" /\ reply'[t].at = now
      /\ req' = req /\ since' = since /\ loc' = loc
      /\ DOMAIN pc' = Tasks /\ DOMAIN reply' = Tasks
      /\ \A u \in Tasks \ {t} : pc'[u] = pc[u] /\ reply'[u] = reply[u]
  BY <1>0, Zenon DEF Error, Answer
<1>2. Turn(t)
  BY <1>0, <1>1, Zenon DEF Turn, InFlight
<1>3. TaskInv(t)'
  BY <1>1, <1>2, ExcuseTask, Zenon
<1>4. ReplayInv' /\ OnceInv'
  BY <1>1, <1>2, ReplayGrows, TurnOnce, Zenon
<1> QED
  BY <1>1, <1>2, <1>3, <1>4, JtiTurn, Zenon

LEMMA RecordStep ==
    ASSUME IInv, NEW t \in Tasks, NEW label, RecordJti(t, label),
           label \in {"lookup", "params", "checks", "get", "decode"},
           label = "get" => req[t].nsid = "getPreferences",
           req[t].nsid # "refreshSession"
    PROVE  IInv'
<1>0. /\ pc[t] = "jti" /\ UNCHANGED <<outside, accounts, claims, prefs, proc, issued>>
      /\ DOMAIN pc = Tasks /\ DOMAIN loc = Tasks /\ DOMAIN reply = Tasks
      /\ DOMAIN loc[t] = DOMAIN NoLocals
  BY Own, Zenon DEF RecordJti, IInv, StateInv, PlaceInv
<1>1. ASSUME NEW p \in req[t].proof, p.jti \notin jtis, jtis' = jtis \cup {p.jti},
             NEW x \in req[t].token, p.jkt = x.jkt,
             Keep(t, label, [loc[t] EXCEPT !.did = x.sub])
      PROVE  IInv'
  BY <1>0, <1>1, AuthorizedStep, Zenon DEF Keep
<1>2. ASSUME NEW p \in req[t].proof, jtis' = jtis \cup {p.jti},
             NEW x \in req[t].token, p.jkt # x.jkt, Error(t, "InvalidToken")
      PROVE  IInv'
  <2>1. Excuse(t)
    BY <1>2, Zenon DEF Excuse
  <2> QED
    BY <1>0, <1>2, <2>1, RefusedStep, Zenon
<1>3. ASSUME NEW p \in req[t].proof, p.jti \in jtis, jtis' = jtis, Error(t, "InvalidToken")
      PROVE  IInv'
  <2>1. Excuse(t)
    BY <1>0, <1>3, ReplayedExcuse, Zenon
  <2> QED
    BY <1>0, <1>3, <2>1, RefusedStep, Zenon
<1>4. CASE /\ pc' = [pc EXCEPT ![t] = "done"]
           /\ loc' = [loc EXCEPT ![t].fault = TRUE]
           /\ reply' = [reply EXCEPT ![t] = [status |-> "InvalidToken", body |-> {}, at |-> now]]
           /\ UNCHANGED <<jtis, req, since>>
  <2>1. /\ pc'[t] = "done" /\ reply'[t].status = "InvalidToken"
        /\ loc'[t].fault /\ loc'[t].did = loc[t].did /\ loc'[t].sent = loc[t].sent
        /\ DOMAIN loc'[t] = DOMAIN NoLocals
        /\ DOMAIN pc' = Tasks /\ DOMAIN loc' = Tasks /\ DOMAIN reply' = Tasks
        /\ \A u \in Tasks \ {t} : pc'[u] = pc[u] /\ loc'[u] = loc[u] /\ reply'[u] = reply[u]
    BY <1>0, <1>4, Zenon DEF NoLocals
  <2>2. Turn(t)
    BY <1>0, <1>4, <2>1, Zenon DEF Turn, InFlight
  <2>3. EarnedInv(t)' /\ NamedInv(t)' /\ GivenAsAsked(t)' /\ ReadBackInv(t)' /\ RefusedForGood(t)'
    BY <2>1, Zenon DEF EarnedInv, NamedInv, GivenAsAsked, ReadBackInv, RefusedForGood, Replied
  <2>4. TaskInv(t)'
    BY <2>1, <2>2, <2>3, EndTask, Zenon
  <2>5. ReplayInv' /\ OnceInv'
    BY <1>4, <2>1, <2>2, TurnReplay, TurnOnce, Zenon
  <2> QED
    BY <1>0, <2>1, <2>2, <2>4, <2>5, JtiTurn, Zenon
<1>5. CASE record_dpop_jti(t, label)
  <2>1. PICK p \in req[t].proof :
            \/ p.jti \notin jtis /\ jtis' = jtis \cup {p.jti} /\ Authorized(t, label)
            \/ p.jti \in jtis /\ UNCHANGED jtis /\ Error(t, "InvalidToken")
    BY <1>5, Zenon DEF record_dpop_jti
  <2>2. CASE p.jti \notin jtis /\ jtis' = jtis \cup {p.jti} /\ Authorized(t, label)
    <3>1. PICK x \in req[t].token, q \in req[t].proof :
              IF q.jkt = x.jkt THEN Keep(t, label, [loc[t] EXCEPT !.did = x.sub])
              ELSE Error(t, "InvalidToken")
      BY <2>2, Zenon DEF Authorized
    <3>2. q = p
      <4>1. ProofInv(t)
        BY Own, Zenon
      <4> QED
        BY <4>1, Zenon DEF ProofInv
    <3>3. CASE p.jkt = x.jkt
      BY <2>2, <3>1, <3>2, <3>3, <1>1, Zenon DEF Keep
    <3>4. CASE p.jkt # x.jkt
      BY <2>2, <3>1, <3>2, <3>4, <1>2, Zenon
    <3> QED
      BY <3>3, <3>4, Zenon
  <2> QED
    BY <2>1, <2>2, <1>3, Zenon
<1> QED
  BY <1>4, <1>5, Zenon DEF RecordJti

LEMMA OrphanJtiStep ==
    ASSUME IInv, NEW t \in Tasks, OrphanJti(t)
    PROVE  IInv'
<1>0. DOMAIN pc = Tasks /\ DOMAIN loc = Tasks /\ DOMAIN reply = Tasks /\ PlaceInv(t)
  BY Own, Zenon DEF IInv, StateInv
<1>1. /\ pc[t] = "jti orphan" /\ pc'[t] = "gone"
      /\ req' = req /\ since' = since /\ loc' = loc /\ reply' = reply
      /\ DOMAIN pc' = Tasks
      /\ \A u \in Tasks \ {t} : pc'[u] = pc[u]
  BY <1>0, Zenon DEF OrphanJti, Goto
<1>2. /\ UNCHANGED <<outside, accounts, claims, prefs, proc, issued>>
      /\ jtis' = jtis \cup {p.jti : p \in req[t].proof}
  BY Zenon DEF OrphanJti
<1>3. Turn(t)
  BY <1>0, <1>1, <1>2, Zenon DEF Turn, InFlight
<1>4. Aside(t)
  BY <1>0, <1>1, <1>2, Zenon DEF Aside, PlaceInv, InFlight
<1>5. TaskInv(t)'
  BY <1>3, <1>4, TurnOnward, AsideTask, Zenon
<1>6. ReplayInv' /\ OnceInv'
  BY <1>1, <1>2, <1>3, ReplayGrows, TurnOnce, Zenon
<1>7. reply'[t].status # "OK"
  BY <1>1, NoReplyYet, Zenon
<1> QED
  BY <1>2, <1>3, <1>5, <1>6, <1>7, JtiTurn, Zenon

-----------------------------------------------------------------------------
(* Sessions and handles, as the server binary and the embedded server have them. *)

\* The rows that a step reads are among those its request has seen.
LEMMA AccountsSeen ==
    ASSUME IInv, NEW t \in Tasks, InFlight(t)
    PROVE  accounts \in since[t].seen /\ accounts \subseteq Seen(t)
BY Own, Zenon DEF PlaceInv, Seen

\* An answer about nothing that the properties speak of.
LEMMA OtherOkStep ==
    ASSUME IInv, NEW t \in Tasks, InFlight(t), Still, Answers(t, "OK"),
           req[t].nsid \notin {"createSession", "refreshSession", "getSession", "resolveHandle",
                               "atproto-did", "getServiceAuth", "getPreferences", "putPreferences"}
    PROVE  IInv'
<1>1. req' = req
  BY Zenon DEF Answers
<1>2. EarnedInv(t)' /\ NamedInv(t)' /\ GivenAsAsked(t)' /\ ReadBackInv(t)'
  BY <1>1, Zenon DEF EarnedInv, NamedInv, GivenAsAsked, ReadBackInv, Replied
<1> QED
  BY <1>2, OkStep, Zenon

\* create_session reads the row of the handle, and keeps its DID and its hash.
LEMMA AccountStep ==
    ASSUME IInv, NEW t \in Tasks, pc[t] = "account", Still, req[t].nsid = "createSession",
           NEW a \in get_account_by_handle(req[t].id),
           Keep(t, "verify", [loc[t] EXCEPT !.did = a.did, !.phc = a.phc])
    PROVE  IInv'
<1>0. /\ InFlight(t) /\ DOMAIN loc[t] = DOMAIN NoLocals /\ DOMAIN loc = Tasks
      /\ req[t].proof = {} /\ req[t].scheme = "none"
  BY Own, Zenon DEF InFlight, PlaceInv, RequestInv, ProofInv
<1>1. /\ Moves(t, "verify") /\ loc'[t].sent = loc[t].sent
      /\ loc'[t].did = a.did /\ loc'[t].phc = a.phc
  BY <1>0, Zenon DEF Keep, Moves, NoLocals
<1>2. /\ loc'[t].sent = {} /\ ForwardedAsAddressed(t)' /\ since'[t].done \subseteq Acknowledged'
      /\ req' = req /\ pc'[t] = "verify" /\ Seen(t)' = Seen(t)
  BY <1>0, <1>1, PlaceMoves, Zenon
<1>3. a \in accounts /\ ~a.down /\ a.handle = req[t].id /\ a.did \in Dids
  BY Zenon DEF get_account_by_handle, ActiveIn, IInv, AccountInv
<1>4. a \in Seen(t)
  BY <1>0, <1>3, AccountsSeen, Zenon
<1>5. SessionInv(t)'
  BY <1>1, <1>2, <1>3, <1>4, Zenon DEF SessionInv
<1>6. AuthInv(t)' /\ ServiceInv(t)' /\ PrefsInv(t)'
  BY <1>0, <1>2, Zenon DEF AuthInv, ServiceInv, PrefsInv, Known
<1> QED
  BY <1>0, <1>1, <1>2, <1>5, <1>6, MoveStep, Zenon

\* The hash that was kept is the one that the password is checked against.
LEMMA LoginStep ==
    ASSUME IInv, NEW t \in Tasks, pc[t] = "verify", req[t].nsid = "createSession",
           UNCHANGED <<outside, store, proc>>, verify_password(req[t].password, loc[t].phc),
           session_response(t, loc[t].did, req[t].id)
    PROVE  IInv'
<1>0. SessionInv(t) /\ InFlight(t) /\ DOMAIN reply = Tasks
  BY Own, Zenon DEF InFlight, IInv, StateInv
<1>1. Still
  <2>1. PICK d, h : d = loc[t].did /\ h = req[t].id
    BY Zenon
  <2>2. d \in Dids
    BY <1>0, <2>1, Zenon DEF SessionInv
  <2>3. session_response(t, d, h)
    BY <2>1, Zenon DEF session_response, Answer
  <2> QED
    BY <2>2, <2>3, SessionStill, Zenon
<1>2. Answers(t, "OK") /\ reply'[t].body.did = loc[t].did
  BY <1>0, Zenon DEF session_response, Answer, Answers
<1>3. req' = req /\ since' = since
  BY <1>2, Zenon DEF Answers
<1>4. EarnedInv(t)'
  BY <1>0, <1>2, <1>3, Zenon DEF EarnedInv, SessionInv, Seen, verify_password
<1>5. NamedInv(t)' /\ GivenAsAsked(t)' /\ ReadBackInv(t)'
  BY <1>3, Zenon DEF NamedInv, GivenAsAsked, ReadBackInv, Replied
<1> QED
  BY <1>0, <1>1, <1>2, <1>4, <1>5, OkStep, Zenon

\* refresh_session finds the account active.
LEMMA LookupStep ==
    ASSUME IInv, NEW t \in Tasks, pc[t] = "lookup", Still, req[t].nsid = "refreshSession",
           NEW h \in get_handle_by_did(loc[t].did),
           Keep(t, "issue", [loc[t] EXCEPT !.handle = h])
    PROVE  IInv'
<1>0. /\ InFlight(t) /\ DOMAIN loc[t] = DOMAIN NoLocals /\ DOMAIN loc = Tasks
      /\ AuthInv(t) /\ SessionInv(t)
  BY Own, Zenon DEF InFlight, PlaceInv
<1>1. /\ Moves(t, "issue") /\ loc'[t].sent = loc[t].sent /\ loc'[t].did = loc[t].did
  BY <1>0, Zenon DEF Keep, Moves, NoLocals
<1>2. /\ loc'[t].sent = {} /\ ForwardedAsAddressed(t)' /\ since'[t].done \subseteq Acknowledged'
      /\ req' = req /\ since' = since /\ pc'[t] = "issue" /\ Seen(t)' = Seen(t) /\ jtis' = jtis
  BY <1>0, <1>1, PlaceMoves, Zenon
<1>3. \E a \in accounts : a.did = loc[t].did /\ ~a.down
  BY Zenon DEF get_handle_by_did, ActiveIn
<1>4. \E a \in Seen(t) : a.did = loc[t].did /\ ~a.down
  BY <1>0, <1>3, AccountsSeen, Zenon
<1>5. Refreshing(t, loc[t].did)
  BY <1>0, Zenon DEF SessionInv
<1>6. SessionInv(t)'
  BY <1>1, <1>2, <1>4, <1>5, Zenon DEF SessionInv, Refreshing
<1>7. AuthInv(t)'
  BY <1>0, <1>1, <1>2, Zenon DEF AuthInv, Known
<1>8. ServiceInv(t)' /\ PrefsInv(t)'
  BY <1>2, Zenon DEF ServiceInv, PrefsInv
<1> QED
  BY <1>0, <1>1, <1>2, <1>6, <1>7, <1>8, MoveStep, Zenon

\* And issues a new pair.
LEMMA IssueStep ==
    ASSUME IInv, NEW t \in Tasks, pc[t] = "issue", req[t].nsid = "refreshSession",
           UNCHANGED <<outside, store, proc>>,
           session_response(t, loc[t].did, loc[t].handle)
    PROVE  IInv'
<1>0. SessionInv(t) /\ InFlight(t) /\ DOMAIN reply = Tasks
  BY Own, Zenon DEF InFlight, IInv, StateInv
<1>1. Still
  <2>1. PICK d, h : d = loc[t].did /\ h = loc[t].handle
    BY Zenon
  <2>2. d \in Dids
    BY <2>1, Own, Zenon DEF AuthInv, Known, RequestInv, TokenOK
  <2>3. session_response(t, d, h)
    BY <2>1, Zenon DEF session_response, Answer
  <2> QED
    BY <2>2, <2>3, SessionStill, Zenon
<1>2. Answers(t, "OK") /\ reply'[t].body.did = loc[t].did
  BY <1>0, Zenon DEF session_response, Answer, Answers
<1>3. req' = req /\ since' = since
  BY <1>2, Zenon DEF Answers
<1>4. EarnedInv(t)'
  BY <1>0, <1>2, <1>3, Zenon DEF EarnedInv, SessionInv, Seen, Refreshing
<1>5. NamedInv(t)' /\ GivenAsAsked(t)' /\ ReadBackInv(t)'
  BY <1>3, Zenon DEF NamedInv, GivenAsAsked, ReadBackInv, Replied
<1> QED
  BY <1>0, <1>1, <1>2, <1>4, <1>5, OkStep, Zenon

\* An answer that names the account of an active row with the handle it gives.
LEMMA NamedStep ==
    ASSUME IInv, NEW t \in Tasks, InFlight(t), Still, Answers(t, "OK"),
           req[t].nsid \in {"getSession", "resolveHandle", "atproto-did"},
           \E a \in ActiveIn(accounts) :
               /\ a.did = reply'[t].body.did
               /\ a.handle = reply'[t].body.handle \/ ActiveIn(accounts) = {a}
    PROVE  IInv'
<1>1. req' = req /\ since' = since
  BY Zenon DEF Answers
<1>2. NamedInv(t)'
  <2>1. accounts \in since[t].seen
    BY AccountsSeen, Zenon
  <2> QED
    BY <1>1, <2>1, Zenon DEF NamedInv, ActiveIn
<1>3. EarnedInv(t)' /\ GivenAsAsked(t)' /\ ReadBackInv(t)'
  BY <1>1, Zenon DEF EarnedInv, GivenAsAsked, ReadBackInv, Replied
<1> QED
  BY <1>2, <1>3, OkStep, Zenon

-----------------------------------------------------------------------------
(* getServiceAuth. *)

\* Whatever i64 is asked for, the expiry is after now and within ServiceMax.
LEMMA ExpiryLemma ==
    ASSUME now \in Nat, NEW wanted \in SUBSET Int
    PROVE  /\ ServiceExpiry(wanted) \in Int
           /\ now < ServiceExpiry(wanted) /\ ServiceExpiry(wanted) <= now + ServiceMax
<1>1. ServiceTtl \in Nat \ {0} /\ ServiceMax \in Nat \ {0} /\ ServiceTtl <= ServiceMax
      /\ WordSize \in Nat \ {0}
  BY AccessAssumption, Zenon
<1>2. PICK x : x = CHOOSE y \in wanted : TRUE
  BY Zenon
<1>3. wanted # {} => x \in Int
  BY <1>2, Zenon
<1>4. wanted # {} => x % WordSize \in Int
  BY <1>1, <1>3
<1>5. ServiceExpiry(wanted) = IF wanted = {} \/ x % WordSize <= now THEN now + ServiceTtl
                              ELSE IF x % WordSize > now + ServiceMax THEN now + ServiceMax
                              ELSE x % WordSize
  BY <1>2, Zenon DEF ServiceExpiry
<1>6. PICK e : e = x % WordSize
  BY Zenon
<1> QED
  BY <1>1, <1>4, <1>5, <1>6

\* The token that is given out.
LEMMA GivenStep ==
    ASSUME IInv, NEW t \in Tasks, pc[t] = "key", req[t].nsid = "getServiceAuth",
           UNCHANGED <<outside, store, issued>>, load_signing_key(t), Answers(t, "OK"),
           NEW exp \in Int, exp <= now + ServiceMax, scene.server = "desktop" => exp > now,
           reply'[t].body = [iss |-> loc[t].did, aud |-> req[t].to.did, lxm |-> req[t].id,
                             exp |-> exp, iat |-> now]
    PROVE  IInv'
<1>0. InFlight(t) /\ Still /\ AuthInv(t)
  BY Own, KeyStill, Zenon DEF InFlight
<1>1. req' = req /\ scene' = scene
  BY Zenon DEF Answers, outside
<1>2. GivenAsAsked(t)'
  <2>1. \E x \in req[t].token : loc[t].did = x.sub
    BY <1>0, Zenon DEF AuthInv, Known
  <2>2. LET token == reply'[t].body
        IN  /\ token.iss = loc[t].did /\ token.aud = req[t].to.did /\ token.lxm = req[t].id
            /\ token.exp = exp /\ token.iat = now
    BY SMTT(30)
  <2> QED
    BY <1>1, <2>1, <2>2, Zenon DEF GivenAsAsked
<1>3. EarnedInv(t)' /\ NamedInv(t)' /\ ReadBackInv(t)'
  BY <1>1, Zenon DEF EarnedInv, NamedInv, ReadBackInv, Replied
<1> QED
  BY <1>0, <1>2, <1>3, OkStep, Zenon

\* The embedded server fixes the expiry before it loads the key.
LEMMA ParamsStep ==
    ASSUME IInv, NEW t \in Tasks, pc[t] = "params", Still, req[t].nsid = "getServiceAuth",
           Keep(t, "key", [loc[t] EXCEPT !.at = ServiceExpiry(req[t].exp)])
    PROVE  IInv'
<1>0. /\ InFlight(t) /\ DOMAIN loc[t] = DOMAIN NoLocals /\ DOMAIN loc = Tasks
      /\ AuthInv(t) /\ req[t].exp \in SUBSET Int /\ now \in Nat
  BY Own, AccessAssumption DEF InFlight, PlaceInv, RequestInv, IInv, StateInv
<1>1. PICK e : e = ServiceExpiry(req[t].exp)
  BY Zenon
<1>2. e \in Int /\ e <= now + ServiceMax
  BY <1>0, <1>1, ExpiryLemma, Zenon
<1>3. /\ Moves(t, "key") /\ loc'[t].sent = loc[t].sent /\ loc'[t].did = loc[t].did
      /\ loc'[t].at = e
  BY <1>0, <1>1, Zenon DEF Keep, Moves, NoLocals
<1>4. /\ loc'[t].sent = {} /\ ForwardedAsAddressed(t)' /\ since'[t].done \subseteq Acknowledged'
      /\ req' = req /\ now' = now /\ pc'[t] = "key" /\ jtis' = jtis
  BY <1>0, <1>3, PlaceMoves, Zenon
<1>5. AuthInv(t)'
  BY <1>0, <1>3, <1>4, Zenon DEF AuthInv, Known
<1>6. SessionInv(t)' /\ PrefsInv(t)'
  BY <1>4, Zenon DEF SessionInv, PrefsInv
<1>7. ServiceInv(t)'
  BY <1>2, <1>3, <1>4, Zenon DEF ServiceInv
<1> QED
  BY <1>0, <1>3, <1>4, <1>5, <1>6, <1>7, MoveStep, ZenonT(60)

-----------------------------------------------------------------------------
(* Preferences. *)

\* The request goes to the store `at`, and that is where the preferences of d are kept.
Reaches(t, d, at) ==
    IF scene.server = "worker"
    THEN loc[t].fault \/ Misdirected(t, d) \/ \A a \in accounts : a.did = d => a.handle = at
    ELSE at = "store"

\* The preferences that are read are those of the last put, or of one that overlaps it.
LEMMA ReadStep ==
    ASSUME IInv, NEW t \in Tasks, InFlight(t), Still, Answers(t, "OK"),
           req[t].nsid = "getPreferences", NEW d \in Dids, NEW at, Reaches(t, d, at),
           reply'[t].body = [did |-> d, value |-> get_preferences(at, d)]
    PROVE  IInv'
<1>1. /\ req' = req /\ since' = since /\ loc' = loc
      /\ scene' = scene /\ accounts' = accounts
  BY Zenon DEF Answers, Still, outside, store
<1>2. /\ Puts(d)' = Puts(d) /\ \A u : Misdirected(u, d)' = Misdirected(u, d)
      /\ \A u : Written(u)' = Written(u)
  BY <1>1, Zenon DEF Puts, Misdirected, Written
<1>3. reply'[t].body.did = d /\ reply'[t].body.value = get_preferences(at, d)
  BY SMTT(30)
<1>4. since[t].done \subseteq Acknowledged
  BY Own, Zenon DEF PrefsInv
<1>5. ReadBackInv(t)'
  <2>1. CASE \E u \in Puts(d) \cup {t} : loc[u].fault \/ Misdirected(u, d)
    BY <2>1, <1>1, <1>2, <1>3, Zenon DEF ReadBackInv
  <2>2. CASE scene.server = "worker" /\ \A a \in accounts : a.did # d
    BY <2>2, <1>1, <1>3, Zenon DEF ReadBackInv
  <2>3. CASE /\ ~\E u \in Puts(d) \cup {t} : loc[u].fault \/ Misdirected(u, d)
             /\ scene.server = "worker" => \E a \in accounts : a.did = d
    <3>1. Clear(d)
      BY <2>3, Zenon DEF Clear
    <3>2. Home(d, at) /\ at \in Places
      BY <2>3, Zenon DEF Home, Reaches, Places
    <3>3. CASE {p \in prefs : p.at = at /\ p.did = d} = {}
      <4>1. get_preferences(at, d) = NoPrefs
        BY <3>3, Zenon DEF get_preferences
      <4>2. Puts(d) \cap Acknowledged = {}
        <5>1. KeptInv
          BY Zenon DEF IInv
        <5> QED
          BY <3>1, <3>2, <3>3, <5>1, SMTT(30) DEF KeptInv, Puts
      <4>3. Puts(d) \cap since[t].done = {}
        BY <4>2, <1>4, Zenon
      <4> QED
        BY <4>1, <4>3, <1>1, <1>2, <1>3, Zenon DEF ReadBackInv
    <3>4. CASE {p \in prefs : p.at = at /\ p.did = d} # {}
      <4>1. PICK row \in prefs : /\ row.at = at /\ row.did = d
                                 /\ get_preferences(at, d) = row.value
        BY <3>4, Zenon DEF get_preferences
      <4>2. PICK w \in Puts(d) :
              /\ Written(w) = row.value
              /\ \A q \in Puts(d) \cap Acknowledged : w \notin since[q].done
        BY <4>1, <3>1, <3>2, Zenon DEF IInv, RowInv
      <4>3. \A q \in Puts(d) \cap since[t].done : w \notin since[q].done
        BY <4>2, <1>4, Zenon
      <4> QED
        BY <4>1, <4>2, <4>3, <1>1, <1>2, <1>3, Zenon DEF ReadBackInv
    <3> QED
      BY <3>3, <3>4, Zenon
  <2> QED
    BY <2>1, <2>2, <2>3, Zenon
<1>6. EarnedInv(t)' /\ NamedInv(t)' /\ GivenAsAsked(t)'
  BY <1>1, Zenon DEF EarnedInv, NamedInv, GivenAsAsked, Replied
<1> QED
  BY <1>5, <1>6, OkStep, Zenon

\* A write: the row of this account at its store is now of this put.
LEMMA PutTurn ==
    ASSUME IInv, NEW t \in Tasks, Turn(t), TaskInv(t)', loc' = loc, NEW d \in Dids, NEW at,
           Reaches(t, d, at), t \in Puts(d), upsert_preferences(at, d, Written(t)),
           UNCHANGED <<jtis, proc, issued>>
    PROVE  IInv'
<1>0. /\ Onward /\ \A v \in Tasks : PlaceInv(v) /\ PrefsInv(v)
  BY TurnOnward, Own, Zenon
<1>1. /\ req' = req /\ since' = since /\ scene' = scene /\ accounts' = accounts
  BY Zenon DEF Turn, outside
<1>2. /\ \A e : Puts(e)' = Puts(e)
      /\ \A u : Written(u)' = Written(u)
      /\ \A e, x : Home(e, x)' = Home(e, x)
      /\ \A e : Clear(e)' = Clear(e)
  BY <1>1, Zenon DEF Puts, Written, Home, Clear, Misdirected
<1>3. t \notin Acknowledged /\ Acknowledged' \subseteq Acknowledged \cup {t}
  BY NoReplyYet, Zenon DEF Turn, InFlight, Acknowledged
<1>4. PICK new : new = [at |-> at, did |-> d, value |-> Written(t)]
  BY Zenon
<1>5. /\ prefs' = {p \in prefs : p.at # at \/ p.did # d} \cup {new}
      /\ new.at = at /\ new.did = d /\ new.value = Written(t)
  BY <1>4, Zenon DEF upsert_preferences
<1>6. ASSUME NEW e, t \in Puts(e) PROVE e = d
  BY <1>6, Own, Zenon DEF Puts, RequestInv
<1>7. ASSUME NEW x, Home(d, x), Clear(d) PROVE x = at
  <2>1. ~loc[t].fault /\ ~Misdirected(t, d)
    BY <1>7, Zenon DEF Clear
  <2> QED
    BY <1>7, <2>1 DEF Reaches, Home
<1>8. UniqueRows'
  BY <1>5, Zenon DEF IInv, UniqueRows
<1>9. ASSUME NEW row \in prefs', Home(row.did, row.at), Clear(row.did)
      PROVE  \E w \in Puts(row.did) :
               /\ Written(w) = row.value
               /\ \A q \in Puts(row.did) \cap Acknowledged' : w \notin since[q].done
  <2>1. CASE row = new
    <3>1. \A q \in Tasks : t \notin since[q].done
      BY <1>0, <1>3, Zenon DEF PrefsInv
    <3> QED
      BY <2>1, <3>1, <1>5, Zenon DEF Puts
  <2>2. CASE row \in prefs /\ (row.at # at \/ row.did # d)
    <3>1. PICK w \in Puts(row.did) :
            /\ Written(w) = row.value
            /\ \A q \in Puts(row.did) \cap Acknowledged : w \notin since[q].done
      BY <2>2, <1>9, Zenon DEF IInv, RowInv
    <3>2. t \notin Puts(row.did)
      BY <1>6, <1>7, <1>9, <2>2, Zenon
    <3> QED
      BY <3>1, <3>2, <1>3, Zenon
  <2> QED
    BY <2>1, <2>2, <1>5, Zenon
<1>10. RowInv'
  BY <1>1, <1>2, <1>9, Zenon DEF RowInv
<1>11. ASSUME NEW q \in Tasks, NEW e \in Dids, NEW x \in Places,
              q \in Puts(e) \cap Acknowledged', Home(e, x), Clear(e)
       PROVE  \E row \in prefs' : row.did = e /\ row.at = x
  <2>1. CASE e = d /\ x = at
    BY <2>1, <1>5, Zenon
  <2>2. CASE e # d \/ x # at
    <3>1. q # t
      BY <2>2, <1>6, <1>7, <1>11, Zenon
    <3>2. q \in Acknowledged
      BY <3>1, <1>3, <1>11, Zenon
    <3>3. PICK row \in prefs : row.did = e /\ row.at = x
      BY <3>2, <1>11 DEF IInv, KeptInv
    <3>4. row \in prefs'
      BY <3>3, <2>2, <1>5, Zenon
    <3> QED
      BY <3>3, <3>4, Zenon
  <2> QED
    BY <2>1, <2>2, Zenon
<1>12. KeptInv'
  <2>1. Places' = Places
    BY <1>1, Zenon DEF Places
  <2> QED
    BY <1>1, <1>2, <1>11, <2>1, SMTT(30) DEF KeptInv
<1>13. StateInv' /\ AccountInv' /\ ClaimInv'
  BY TurnShared, Zenon DEF IInv, StateInv
<1>14. ProcInv' /\ ReplayInv' /\ OnceInv'
  BY TurnProc, TurnReplay, TurnOnce, Zenon
<1> QED
  BY <1>8, <1>10, <1>12, <1>13, <1>14, TurnAside, Zenon DEF IInv

\* The caller, who is the subject of the token.
LEMMA CallerKnown ==
    ASSUME IInv, NEW t \in Tasks, pc[t] \in Known
    PROVE  /\ loc[t].did \in Dids
           /\ req[t].nsid = "putPreferences" => t \in Puts(loc[t].did)
<1>1. AuthInv(t) /\ RequestInv(t)
  BY Own, Zenon
<1>2. PICK x \in req[t].token : x.sub = loc[t].did
  BY <1>1, Zenon DEF AuthInv
<1> QED
  BY <1>1, <1>2, Zenon DEF RequestInv, TokenOK, Puts

LEMMA GetStep ==
    ASSUME IInv, NEW t \in Tasks, pc[t] = "get", Still, scene.server # "worker",
           Answer(t, "OK", [did |-> loc[t].did, value |-> get_preferences("store", loc[t].did)])
    PROVE  IInv'
<1>1. InFlight(t) /\ req[t].nsid = "getPreferences" /\ DOMAIN reply = Tasks
  BY Own, Zenon DEF InFlight, PrefsInv, IInv, StateInv
<1>2. PICK d \in Dids : d = loc[t].did
  BY CallerKnown, Zenon DEF Known
<1>3. /\ Answers(t, "OK")
      /\ reply'[t].body = [did |-> d, value |-> get_preferences("store", d)]
  BY <1>1, <1>2, SMTT(30) DEF Answer, Answers, get_preferences
<1>4. Reaches(t, d, "store")
  BY Zenon DEF Reaches
<1> QED
  BY <1>1, <1>3, <1>4, ReadStep, Zenon

\* The put of a handler that answers, and of one that is gone.
LEMMA StorePut ==
    ASSUME IInv, NEW t \in Tasks, pc[t] \in {"put", "put orphan"}, Turn(t), TaskInv(t)', loc' = loc,
           upsert_preferences("store", loc[t].did, req[t].value), UNCHANGED <<jtis, proc, issued>>
    PROVE  IInv'
<1>1. req[t].nsid = "putPreferences" /\ req[t].wellformed /\ scene.server # "worker"
  BY Own, Zenon DEF PrefsInv
<1>2. PICK d \in Dids : d = loc[t].did /\ t \in Puts(d)
  BY <1>1, CallerKnown, Zenon DEF Known
<1>3. Reaches(t, d, "store")
  BY <1>1, Zenon DEF Reaches
<1>4. upsert_preferences("store", d, Written(t))
  BY <1>1, <1>2, Zenon DEF upsert_preferences, Written
<1> QED
  BY <1>2, <1>3, <1>4, PutTurn, Zenon

LEMMA PutStep ==
    ASSUME IInv, NEW t \in Tasks, pc[t] = "put",
           upsert_preferences("store", loc[t].did, req[t].value),
           UNCHANGED <<outside, accounts, claims, jtis, proc, issued>>, Answer(t, "OK", {})
    PROVE  IInv'
<1>0. /\ DOMAIN pc = Tasks /\ DOMAIN loc = Tasks /\ DOMAIN reply = Tasks
      /\ DOMAIN loc[t] = DOMAIN NoLocals /\ req[t].nsid = "putPreferences"
  BY Own, Zenon DEF IInv, StateInv, PlaceInv, PrefsInv
<1>1. /\ pc'[t] = "done" /\ reply'[t].status = "OK" /\ loc' = loc /\ req' = req /\ since' = since
      /\ DOMAIN pc' = Tasks /\ DOMAIN reply' = Tasks
      /\ \A u \in Tasks \ {t} : pc'[u] = pc[u] /\ reply'[u] = reply[u]
  BY <1>0, Zenon DEF Answer
<1>2. Turn(t)
  BY <1>0, <1>1, Zenon DEF Turn, InFlight
<1>3. EarnedInv(t)' /\ NamedInv(t)' /\ GivenAsAsked(t)' /\ ReadBackInv(t)' /\ RefusedForGood(t)'
  BY <1>0, <1>1, Zenon DEF EarnedInv, NamedInv, GivenAsAsked, ReadBackInv, RefusedForGood, Replied
<1>4. TaskInv(t)'
  BY <1>0, <1>1, <1>2, <1>3, EndTask, Zenon
<1> QED
  BY <1>1, <1>2, <1>4, StorePut, Zenon

LEMMA OrphanPutStep ==
    ASSUME IInv, NEW t \in Tasks, OrphanPut(t)
    PROVE  IInv'
<1>0. DOMAIN pc = Tasks /\ DOMAIN loc = Tasks /\ DOMAIN reply = Tasks /\ PlaceInv(t)
  BY Own, Zenon DEF IInv, StateInv
<1>1. /\ pc[t] = "put orphan" /\ pc'[t] = "gone"
      /\ req' = req /\ since' = since /\ loc' = loc /\ reply' = reply
      /\ DOMAIN pc' = Tasks
      /\ \A u \in Tasks \ {t} : pc'[u] = pc[u]
  BY <1>0, Zenon DEF OrphanPut, Goto
<1>2. /\ UNCHANGED <<outside, accounts, claims, jtis, proc, issued>>
      /\ upsert_preferences("store", loc[t].did, req[t].value)
  BY Zenon DEF OrphanPut
<1>3. Turn(t)
  BY <1>0, <1>1, <1>2, Zenon DEF Turn, InFlight
<1>4. Aside(t)
  BY <1>0, <1>1, <1>2, Zenon DEF Aside, PlaceInv, InFlight
<1>5. TaskInv(t)'
  BY <1>3, <1>4, TurnOnward, AsideTask, Zenon
<1> QED
  BY <1>1, <1>2, <1>3, <1>5, StorePut, Zenon

-----------------------------------------------------------------------------
(* The handlers of the server binary and of the embedded server take these steps. *)

Refusals ==
    {"AuthRequired", "AuthenticationRequired", "ExpiredToken", "InvalidRequest", "StoreError",
     "InternalError", "AccountTakedown", "HandleNotFound", "NotFound", "MethodNotImplemented"}

Refused(t) == NoEffect /\ \E status \in Refusals : Error(t, status)

\* Whoever the token is of goes on at `label`.
SessionAuthSteps(t, scope, label) ==
    /\ pc[t] = "start"
    /\ \/ Refused(t)
       \/ /\ NoEffect /\ Error(t, "InvalidToken")
          /\ req[t].scheme # "dpop" \/ req[t].nsid = "refreshSession"
       \/ /\ NoEffect /\ req[t].scheme = "bearer"
          /\ \E x \in req[t].token :
               decode_jwt(x) /\ x.scope = scope /\ Keep(t, label, [loc[t] EXCEPT !.did = x.sub])

ProofAuthSteps(t, label) ==
    \/ pc[t] = "start" /\ NoEffect /\ req[t].scheme = "dpop" /\ CheckProof(t)
    \/ RecordJti(t, label)

CreateSessionSteps(t) ==
    \/ pc[t] \in {"start", "account", "verify"} /\ Refused(t)
    \/ pc[t] = "start" /\ NoEffect /\ Goto(t, "account")
    \/ /\ pc[t] = "account" /\ NoEffect
       /\ \E a \in get_account_by_handle(req[t].id) :
            Keep(t, "verify", [loc[t] EXCEPT !.did = a.did, !.phc = a.phc])
    \/ /\ pc[t] = "verify" /\ UNCHANGED <<outside, store, proc>>
       /\ verify_password(req[t].password, loc[t].phc)
       /\ session_response(t, loc[t].did, req[t].id)

RefreshSessionSteps(t) ==
    \/ SessionAuthSteps(t, "refresh", "lookup")
    \/ pc[t] = "lookup" /\ Refused(t)
    \/ /\ pc[t] = "lookup" /\ NoEffect
       /\ \E h \in get_handle_by_did(loc[t].did) : Keep(t, "issue", [loc[t] EXCEPT !.handle = h])
    \/ /\ pc[t] = "issue" /\ UNCHANGED <<outside, store, proc>>
       /\ session_response(t, loc[t].did, loc[t].handle)

GetSessionSteps(t) ==
    \/ SessionAuthSteps(t, "access", "lookup") \/ ProofAuthSteps(t, "lookup")
    \/ pc[t] = "lookup" /\ Refused(t)
    \/ /\ pc[t] = "lookup" /\ NoEffect
       /\ \E h \in get_handle_by_did(loc[t].did) :
            Answer(t, "OK", [did |-> loc[t].did, handle |-> h])

ServiceAuthSteps(t) ==
    \/ SessionAuthSteps(t, "access", "params") \/ ProofAuthSteps(t, "params")
    \/ pc[t] \in {"params", "key"} /\ Refused(t)
    \/ pc[t] = "params" /\ NoEffect /\ scene.server = "desktop" /\ Goto(t, "key")
    \/ pc[t] = "params" /\ NoEffect /\ Keep(t, "key", [loc[t] EXCEPT !.at = ServiceExpiry(req[t].exp)])
    \/ /\ pc[t] = "key" /\ UNCHANGED <<outside, store, issued>> /\ load_signing_key(t)
       /\ \/ /\ scene.server = "desktop"
             /\ Answer(t, "OK", mint_service_auth_jwt_with(loc[t].did, req[t].to.did, req[t].id,
                                                           ServiceExpiry(req[t].exp)))
          \/ /\ scene.server = "embedded"
             /\ Answer(t, "OK", mint_service_auth_jwt_with(loc[t].did, req[t].to.did, req[t].id,
                                                           loc[t].at))

ProxySteps(t, allowed) ==
    \/ SessionAuthSteps(t, "access", "checks") \/ ProofAuthSteps(t, "checks")
    \/ pc[t] \in {"start", "checks"} /\ Refused(t)
    \/ pc[t] = "checks" /\ NoEffect /\ Goto(t, "resolve")
    \/ ResolveTarget(t) \/ FetchTarget(t) \/ Send(t, allowed) \/ Relay(t)

GetPreferencesSteps(t) ==
    \/ SessionAuthSteps(t, "access", "get") \/ ProofAuthSteps(t, "get")
    \/ pc[t] = "get" /\ Refused(t)
    \/ /\ pc[t] = "get" /\ NoEffect
       /\ Answer(t, "OK", [did |-> loc[t].did, value |-> get_preferences("store", loc[t].did)])

PutPreferencesSteps(t) ==
    \/ SessionAuthSteps(t, "access", "decode") \/ ProofAuthSteps(t, "decode")
    \/ pc[t] \in {"decode", "put"} /\ Refused(t)
    \/ pc[t] = "decode" /\ NoEffect /\ req[t].wellformed /\ Goto(t, "put")
    \/ /\ pc[t] = "put" /\ UNCHANGED <<outside, accounts, claims, jtis, proc, issued>>
       /\ upsert_preferences("store", loc[t].did, req[t].value)
       /\ Answer(t, "OK", {})

ResolveSteps(t) ==
    \/ pc[t] \in {"start", "sole"} /\ Refused(t)
    \/ pc[t] = "start" /\ NoEffect /\ Goto(t, "sole")
    \/ /\ pc[t] = "start" /\ NoEffect
       /\ \E h : \E d \in get_did_by_handle(h) : Answer(t, "OK", [did |-> d, handle |-> h])
    \/ /\ pc[t] = "sole" /\ NoEffect
       /\ \E d \in sole_active_account_did : Answer(t, "OK", [did |-> d, handle |-> Nobody])

LEMMA RefusalStep ==
    ASSUME IInv, NEW t \in Tasks, InFlight(t), Refused(t)
    PROVE  IInv'
<1>1. PICK status \in Refusals : Error(t, status)
  BY Zenon DEF Refused
<1>2. Still
  BY NoEffectStill, Zenon DEF Refused
<1>3. status \notin {"none", "OK", "InvalidToken"}
  BY Zenon DEF Refusals
<1> QED
  BY <1>1, <1>2, <1>3, FailStep, Zenon

LEMMA SessionAuthStep ==
    ASSUME IInv, NEW t \in Tasks, NEW scope, NEW label, SessionAuthSteps(t, scope, label),
           label \in {"lookup", "params", "checks", "get", "decode"},
           label = "get" => req[t].nsid = "getPreferences",
           req[t].nsid = "refreshSession" => scope = "refresh"
    PROVE  IInv'
<1>0. pc[t] = "start" /\ InFlight(t)
  BY Zenon DEF SessionAuthSteps, InFlight
<1>1. CASE Refused(t)
  BY <1>0, <1>1, RefusalStep, Zenon
<1>2. CASE /\ NoEffect /\ Error(t, "InvalidToken")
           /\ req[t].scheme # "dpop" \/ req[t].nsid = "refreshSession"
  BY <1>0, <1>2, NoEffectStill, FailStep, Zenon
<1>3. ASSUME NoEffect, req[t].scheme = "bearer", NEW x \in req[t].token,
             decode_jwt(x), x.scope = scope, Keep(t, label, [loc[t] EXCEPT !.did = x.sub])
      PROVE  IInv'
  <2>1. x.scope = "refresh" => x.exp >= now - Leeway
    BY <1>3, Zenon DEF decode_jwt
  <2> QED
    BY <1>0, <1>3, <2>1, NoEffectStill, CallerStep, Zenon DEF Keep
<1> QED
  BY <1>1, <1>2, <1>3, Zenon DEF SessionAuthSteps

LEMMA ProofAuthStep ==
    ASSUME IInv, NEW t \in Tasks, NEW label, ProofAuthSteps(t, label),
           label \in {"lookup", "params", "checks", "get", "decode"},
           label = "get" => req[t].nsid = "getPreferences",
           req[t].nsid # "refreshSession"
    PROVE  IInv'
BY NoEffectStill, CheckProofStep, RecordStep, Zenon DEF ProofAuthSteps

LEMMA CreateSessionStep ==
    ASSUME IInv, NEW t \in Tasks, req[t].nsid = "createSession", CreateSessionSteps(t)
    PROVE  IInv'
<1>1. CASE pc[t] \in {"start", "account", "verify"} /\ Refused(t)
  BY <1>1, RefusalStep, Zenon DEF InFlight
<1>2. CASE pc[t] = "start" /\ NoEffect /\ Goto(t, "account")
  BY <1>2, NoEffectStill, GotoStep, Zenon DEF InFlight, Known
<1>3. CASE /\ pc[t] = "account" /\ NoEffect
           /\ \E a \in get_account_by_handle(req[t].id) :
                Keep(t, "verify", [loc[t] EXCEPT !.did = a.did, !.phc = a.phc])
  BY <1>3, NoEffectStill, AccountStep, Zenon DEF Keep
<1>4. CASE /\ pc[t] = "verify" /\ UNCHANGED <<outside, store, proc>>
           /\ verify_password(req[t].password, loc[t].phc)
           /\ session_response(t, loc[t].did, req[t].id)
  BY <1>4, LoginStep, Zenon DEF session_response
<1> QED
  BY <1>1, <1>2, <1>3, <1>4, Zenon DEF CreateSessionSteps

LEMMA RefreshSessionStep ==
    ASSUME IInv, NEW t \in Tasks, req[t].nsid = "refreshSession", RefreshSessionSteps(t)
    PROVE  IInv'
<1>1. CASE SessionAuthSteps(t, "refresh", "lookup")
  BY <1>1, SessionAuthStep, Zenon
<1>2. CASE pc[t] = "lookup" /\ Refused(t)
  BY <1>2, RefusalStep, Zenon DEF InFlight
<1>3. CASE /\ pc[t] = "lookup" /\ NoEffect
           /\ \E h \in get_handle_by_did(loc[t].did) :
                Keep(t, "issue", [loc[t] EXCEPT !.handle = h])
  BY <1>3, NoEffectStill, LookupStep, Zenon DEF Keep
<1>4. CASE /\ pc[t] = "issue" /\ UNCHANGED <<outside, store, proc>>
           /\ session_response(t, loc[t].did, loc[t].handle)
  BY <1>4, IssueStep, Zenon DEF session_response
<1> QED
  BY <1>1, <1>2, <1>3, <1>4, Zenon DEF RefreshSessionSteps

LEMMA GetSessionStep ==
    ASSUME IInv, NEW t \in Tasks, req[t].nsid = "getSession", GetSessionSteps(t)
    PROVE  IInv'
<1>1. CASE SessionAuthSteps(t, "access", "lookup") \/ ProofAuthSteps(t, "lookup")
  BY <1>1, SessionAuthStep, ProofAuthStep, Zenon
<1>2. CASE pc[t] = "lookup" /\ Refused(t)
  BY <1>2, RefusalStep, Zenon DEF InFlight
<1>3. ASSUME pc[t] = "lookup", NoEffect, NEW h \in get_handle_by_did(loc[t].did),
             Answer(t, "OK", [did |-> loc[t].did, handle |-> h])
      PROVE  IInv'
  <2>1. InFlight(t) /\ Still /\ DOMAIN reply = Tasks
    BY <1>3, NoEffectStill, Zenon DEF InFlight, IInv, StateInv
  <2>2. /\ Answers(t, "OK")
        /\ reply'[t].body.did = loc[t].did /\ reply'[t].body.handle = h
    BY <1>3, <2>1, Zenon DEF Answer, Answers
  <2>3. \E a \in ActiveIn(accounts) : a.did = loc[t].did /\ a.handle = h
    BY <1>3, Zenon DEF get_handle_by_did
  <2> QED
    BY <2>1, <2>2, <2>3, NamedStep, Zenon
<1> QED
  BY <1>1, <1>2, <1>3, Zenon DEF GetSessionSteps

LEMMA ServiceAuthStep ==
    ASSUME IInv, NEW t \in Tasks, req[t].nsid = "getServiceAuth", ServiceAuthSteps(t)
    PROVE  IInv'
<1>0. /\ DOMAIN reply = Tasks /\ now \in Nat /\ req[t].exp \in SUBSET Int
      /\ pc[t] = "key" /\ scene.server = "embedded" => loc[t].at \in Int /\ loc[t].at <= now + ServiceMax
  <2>1. /\ DOMAIN reply = Tasks /\ now \in 0..MaxTime /\ RequestInv(t) /\ ServiceInv(t)
    BY Own, Zenon DEF IInv, StateInv
  <2> QED
    BY <2>1, SMTT(30) DEF RequestInv, ServiceInv
<1>1. CASE SessionAuthSteps(t, "access", "params") \/ ProofAuthSteps(t, "params")
  BY <1>1, SessionAuthStep, ProofAuthStep, Zenon
<1>2. CASE pc[t] \in {"params", "key"} /\ Refused(t)
  BY <1>2, RefusalStep, Zenon DEF InFlight
<1>3. CASE pc[t] = "params" /\ NoEffect /\ scene.server = "desktop" /\ Goto(t, "key")
  BY <1>3, NoEffectStill, GotoStep, Zenon DEF InFlight, Known
<1>4. CASE /\ pc[t] = "params" /\ NoEffect
           /\ Keep(t, "key", [loc[t] EXCEPT !.at = ServiceExpiry(req[t].exp)])
  BY <1>4, NoEffectStill, ParamsStep, Zenon
<1>5. ASSUME pc[t] = "key", UNCHANGED <<outside, store, issued>>, load_signing_key(t),
             NEW exp \in Int, exp <= now + ServiceMax, scene.server = "desktop" => exp > now,
             Answer(t, "OK", mint_service_auth_jwt_with(loc[t].did, req[t].to.did, req[t].id, exp))
      PROVE  IInv'
  <2>1. /\ Answers(t, "OK")
        /\ reply'[t].body = [iss |-> loc[t].did, aud |-> req[t].to.did, lxm |-> req[t].id,
                             exp |-> exp, iat |-> now]
    BY <1>0, <1>5, Zenon DEF Answer, Answers, mint_service_auth_jwt_with
  <2> QED
    BY <1>5, <2>1, GivenStep, Zenon
<1>6. CASE /\ pc[t] = "key" /\ UNCHANGED <<outside, store, issued>> /\ load_signing_key(t)
           /\ scene.server = "desktop"
           /\ Answer(t, "OK", mint_service_auth_jwt_with(loc[t].did, req[t].to.did, req[t].id,
                                                         ServiceExpiry(req[t].exp)))
  <2>1. PICK exp : exp = ServiceExpiry(req[t].exp)
    BY Zenon
  <2>2. exp \in Int /\ exp <= now + ServiceMax /\ exp > now
    BY <1>0, <2>1, ExpiryLemma, Zenon
  <2>3. Answer(t, "OK", mint_service_auth_jwt_with(loc[t].did, req[t].to.did, req[t].id, exp))
    BY <1>6, <2>1, Zenon DEF Answer
  <2> QED
    BY <1>5, <1>6, <2>2, <2>3, Zenon
<1>7. CASE /\ pc[t] = "key" /\ UNCHANGED <<outside, store, issued>> /\ load_signing_key(t)
           /\ scene.server = "embedded"
           /\ Answer(t, "OK", mint_service_auth_jwt_with(loc[t].did, req[t].to.did, req[t].id,
                                                         loc[t].at))
  <2>1. PICK exp : exp = loc[t].at
    BY Zenon
  <2>2. exp \in Int /\ exp <= now + ServiceMax
    BY <1>0, <1>7, <2>1, Zenon
  <2>3. Answer(t, "OK", mint_service_auth_jwt_with(loc[t].did, req[t].to.did, req[t].id, exp))
    BY <1>7, <2>1, Zenon DEF Answer
  <2>4. scene.server # "desktop"
    BY <1>7, Zenon
  <2> QED
    BY <1>5, <1>7, <2>2, <2>3, <2>4, Zenon
<1> QED
  BY <1>1, <1>2, <1>3, <1>4, <1>6, <1>7, ZenonT(60) DEF ServiceAuthSteps

LEMMA ProxyStep ==
    ASSUME IInv, NEW t \in Tasks, NEW allowed, ProxySteps(t, allowed), scene.server # "worker",
           req[t].nsid \notin {"getServiceAuth", "refreshSession"}
    PROVE  IInv'
<1>1. CASE SessionAuthSteps(t, "access", "checks") \/ ProofAuthSteps(t, "checks")
  BY <1>1, SessionAuthStep, ProofAuthStep, Zenon
<1>2. CASE pc[t] \in {"start", "checks"} /\ Refused(t)
  BY <1>2, RefusalStep, Zenon DEF InFlight
<1>3. CASE pc[t] = "checks" /\ NoEffect /\ Goto(t, "resolve")
  BY <1>3, NoEffectStill, GotoStep, Zenon DEF InFlight, Known
<1>4. CASE ResolveTarget(t) \/ FetchTarget(t) \/ Send(t, allowed) \/ Relay(t)
  BY <1>4, ResolveStep, FetchStep, SendStep, RelayStep, Zenon
<1> QED
  BY <1>1, <1>2, <1>3, <1>4, Zenon DEF ProxySteps

LEMMA GetPreferencesStep ==
    ASSUME IInv, NEW t \in Tasks, req[t].nsid = "getPreferences", scene.server # "worker",
           GetPreferencesSteps(t)
    PROVE  IInv'
<1>1. CASE SessionAuthSteps(t, "access", "get") \/ ProofAuthSteps(t, "get")
  BY <1>1, SessionAuthStep, ProofAuthStep, Zenon
<1>2. CASE pc[t] = "get" /\ Refused(t)
  BY <1>2, RefusalStep, Zenon DEF InFlight
<1>3. CASE /\ pc[t] = "get" /\ NoEffect
           /\ Answer(t, "OK", [did |-> loc[t].did, value |-> get_preferences("store", loc[t].did)])
  BY <1>3, NoEffectStill, GetStep, Zenon
<1> QED
  BY <1>1, <1>2, <1>3, Zenon DEF GetPreferencesSteps

LEMMA PutPreferencesStep ==
    ASSUME IInv, NEW t \in Tasks, req[t].nsid = "putPreferences", scene.server # "worker",
           PutPreferencesSteps(t)
    PROVE  IInv'
<1>1. CASE SessionAuthSteps(t, "access", "decode") \/ ProofAuthSteps(t, "decode")
  BY <1>1, SessionAuthStep, ProofAuthStep, Zenon
<1>2. CASE pc[t] \in {"decode", "put"} /\ Refused(t)
  BY <1>2, RefusalStep, Zenon DEF InFlight
<1>3. CASE pc[t] = "decode" /\ NoEffect /\ req[t].wellformed /\ Goto(t, "put")
  BY <1>3, NoEffectStill, GotoStep, Zenon DEF InFlight, Known
<1>4. CASE /\ pc[t] = "put" /\ UNCHANGED <<outside, accounts, claims, jtis, proc, issued>>
           /\ upsert_preferences("store", loc[t].did, req[t].value)
           /\ Answer(t, "OK", {})
  BY <1>4, PutStep, Zenon
<1> QED
  BY <1>1, <1>2, <1>3, <1>4, Zenon DEF PutPreferencesSteps

LEMMA ResolveHandleStep ==
    ASSUME IInv, NEW t \in Tasks, req[t].nsid \in {"resolveHandle", "atproto-did"}, ResolveSteps(t)
    PROVE  IInv'
<1>1. CASE pc[t] \in {"start", "sole"} /\ Refused(t)
  BY <1>1, RefusalStep, Zenon DEF InFlight
<1>2. CASE pc[t] = "start" /\ NoEffect /\ Goto(t, "sole")
  BY <1>2, NoEffectStill, GotoStep, Zenon DEF InFlight, Known
<1>3. ASSUME pc[t] \in {"start", "sole"}, NoEffect, NEW d, NEW h,
             Answer(t, "OK", [did |-> d, handle |-> h]),
             \E a \in ActiveIn(accounts) : a.did = d /\ (a.handle = h \/ ActiveIn(accounts) = {a})
      PROVE  IInv'
  <2>1. InFlight(t) /\ Still /\ DOMAIN reply = Tasks
    BY <1>3, NoEffectStill, Zenon DEF InFlight, IInv, StateInv
  <2>2. Answers(t, "OK") /\ reply'[t].body.did = d /\ reply'[t].body.handle = h
    BY <1>3, <2>1, Zenon DEF Answer, Answers
  <2> QED
    BY <1>3, <2>1, <2>2, NamedStep, Zenon
<1>4. ASSUME NEW h, NEW d \in get_did_by_handle(h)
      PROVE  \E a \in ActiveIn(accounts) : a.did = d /\ a.handle = h
  BY <1>4, Zenon DEF get_did_by_handle, get_account_by_handle
<1>5. ASSUME NEW d \in sole_active_account_did
      PROVE  \E a \in ActiveIn(accounts) : a.did = d /\ ActiveIn(accounts) = {a}
  BY <1>5, Zenon DEF sole_active_account_did
<1>6. CASE /\ pc[t] = "start" /\ NoEffect
           /\ \E h : \E d \in get_did_by_handle(h) : Answer(t, "OK", [did |-> d, handle |-> h])
  <2>1. PICK h : \E d \in get_did_by_handle(h) : Answer(t, "OK", [did |-> d, handle |-> h])
    BY <1>6, Zenon
  <2>2. PICK d \in get_did_by_handle(h) : Answer(t, "OK", [did |-> d, handle |-> h])
    BY <2>1, Zenon
  <2>3. \E a \in ActiveIn(accounts) : a.did = d /\ (a.handle = h \/ ActiveIn(accounts) = {a})
    BY <1>4, <2>2, Zenon
  <2>4. pc[t] \in {"start", "sole"}
    BY <1>6, Zenon
  <2> QED
    BY <1>3, <1>6, <2>2, <2>3, <2>4, Zenon
<1>7. CASE /\ pc[t] = "sole" /\ NoEffect
           /\ \E d \in sole_active_account_did : Answer(t, "OK", [did |-> d, handle |-> Nobody])
  <2>1. PICK d \in sole_active_account_did : Answer(t, "OK", [did |-> d, handle |-> Nobody])
    BY <1>7, Zenon
  <2>2. \E a \in ActiveIn(accounts) : a.did = d /\ (a.handle = Nobody \/ ActiveIn(accounts) = {a})
    BY <1>5, <2>1, Zenon
  <2>3. pc[t] \in {"start", "sole"}
    BY <1>7, Zenon
  <2> QED
    BY <1>3, <1>7, <2>1, <2>2, <2>3, Zenon
<1> QED
  BY <1>1, <1>2, <1>6, <1>7, Zenon DEF ResolveSteps

-----------------------------------------------------------------------------
(* The server binary. *)

LEMMA AccessAuthSteps ==
    ASSUME NEW t \in Tasks, NEW label, AccessAuth(t, label)
    PROVE  SessionAuthSteps(t, "access", label) \/ ProofAuthSteps(t, label)
<1>1. CASE RecordJti(t, label)
  BY <1>1, Zenon DEF ProofAuthSteps
<1>2. CASE pc[t] = "start" /\ NoEffect /\ req[t].scheme = "none" /\ Error(t, "AuthRequired")
  BY <1>2, Zenon DEF SessionAuthSteps, Refused, Refusals
<1>3. CASE /\ pc[t] = "start" /\ NoEffect /\ req[t].scheme = "bearer"
           /\ authenticate(t, "access", label)
  BY <1>3, Zenon DEF authenticate, SessionAuthSteps, Refused, Refusals
<1>4. CASE pc[t] = "start" /\ NoEffect /\ req[t].scheme = "dpop" /\ CheckProof(t)
  BY <1>4, Zenon DEF ProofAuthSteps
<1> QED
  BY <1>1, <1>2, <1>3, <1>4, Zenon DEF AccessAuth

LEMMA RefreshAuthSteps ==
    ASSUME NEW t \in Tasks, NEW label, RefreshAuth(t, label), req[t].nsid = "refreshSession"
    PROVE  SessionAuthSteps(t, "refresh", label)
BY Zenon DEF RefreshAuth, authenticate, SessionAuthSteps, Refused, Refusals

LEMMA CreateSession ==
    ASSUME NEW t \in Tasks, create_session(t)
    PROVE  CreateSessionSteps(t)
BY Zenon DEF create_session, StoreError, CreateSessionSteps, Refused, Refusals, NoEffect

LEMMA RefreshSession ==
    ASSUME NEW t \in Tasks, refresh_session(t), req[t].nsid = "refreshSession"
    PROVE  RefreshSessionSteps(t)
BY RefreshAuthSteps, Zenon DEF refresh_session, StoreError, RefreshSessionSteps, Refused, Refusals

LEMMA GetSession ==
    ASSUME NEW t \in Tasks, get_session(t)
    PROVE  GetSessionSteps(t)
BY AccessAuthSteps, Zenon DEF get_session, StoreError, GetSessionSteps, Refused, Refusals

LEMMA ServiceAuth ==
    ASSUME NEW t \in Tasks, get_service_auth(t), scene.server = "desktop"
    PROVE  ServiceAuthSteps(t)
BY AccessAuthSteps, Zenon DEF get_service_auth, StoreError, ServiceAuthSteps, Refused, Refusals

LEMMA Proxy ==
    ASSUME NEW t \in Tasks, proxy_fallback(t)
    PROVE  ProxySteps(t, validate_appview_url)
BY AccessAuthSteps, Zenon DEF proxy_fallback, ProxySteps, Refused, Refusals

LEMMA GetPreferences ==
    ASSUME NEW t \in Tasks, getPreferences(t)
    PROVE  GetPreferencesSteps(t)
BY AccessAuthSteps, Zenon DEF getPreferences, StoreError, GetPreferencesSteps, Refused, Refusals

LEMMA PutPreferences ==
    ASSUME NEW t \in Tasks, putPreferences(t)
    PROVE  PutPreferencesSteps(t)
BY AccessAuthSteps, Zenon DEF putPreferences, StoreError, PutPreferencesSteps, Refused, Refusals

LEMMA ResolveHandle ==
    ASSUME NEW t \in Tasks, resolve_handle(t) \/ well_known_atproto_did(t)
    PROVE  ResolveSteps(t)
<1>1. ASSUME NEW h, Resolve(t, h) PROVE ResolveSteps(t)
  BY <1>1, Zenon DEF Resolve, ResolveSteps, Refused, Refusals
<1>2. CASE StoreError(t, "start") \/ (pc[t] = "start" /\ NoEffect /\ Error(t, "InvalidRequest"))
  BY <1>2, Zenon DEF StoreError, ResolveSteps, Refused, Refusals
<1>3. CASE Resolve(t, req[t].id) \/ Resolve(t, scene.hostname)
  BY <1>1, <1>3, Zenon DEF Resolve
<1> QED
  BY <1>2, <1>3, Zenon DEF resolve_handle, well_known_atproto_did

LEMMA DeleteSession ==
    ASSUME IInv, NEW t \in Tasks, pc[t] = "start", NoEffect, Answer(t, "OK", {}),
           req[t].nsid = "deleteSession"
    PROVE  IInv'
<1>1. InFlight(t) /\ Still /\ DOMAIN reply = Tasks
  BY NoEffectStill, Zenon DEF InFlight, IInv, StateInv
<1>2. Answers(t, "OK")
  BY <1>1, Zenon DEF Answer, Answers
<1> QED
  BY <1>1, <1>2, OtherOkStep, Zenon

\* Every step of a handler of the server binary.
LEMMA DesktopStep ==
    ASSUME IInv, NEW t \in Tasks, scene.server = "desktop", Handler(t) \/ OrphanJti(t)
    PROVE  IInv'
<1>0. scene.server # "worker"
  BY Zenon
<1>1. CASE req[t].nsid = "createSession" /\ create_session(t)
  BY <1>1, CreateSession, CreateSessionStep, Zenon
<1>2. CASE req[t].nsid = "refreshSession" /\ refresh_session(t)
  BY <1>2, RefreshSession, RefreshSessionStep, Zenon
<1>3. CASE req[t].nsid = "getSession" /\ get_session(t)
  BY <1>3, GetSession, GetSessionStep, Zenon
<1>4. CASE req[t].nsid = "deleteSession" /\ delete_session(t)
  BY <1>4, DeleteSession, Zenon DEF delete_session
<1>5. CASE req[t].nsid = "getServiceAuth" /\ get_service_auth(t)
  BY <1>5, ServiceAuth, ServiceAuthStep, Zenon
<1>6. CASE req[t].nsid = "getPreferences" /\ getPreferences(t)
  BY <1>0, <1>6, GetPreferences, GetPreferencesStep, Zenon
<1>7. CASE req[t].nsid = "putPreferences" /\ putPreferences(t)
  BY <1>0, <1>7, PutPreferences, PutPreferencesStep, Zenon
<1>8. CASE \/ req[t].nsid = "resolveHandle" /\ resolve_handle(t)
           \/ req[t].nsid = "atproto-did" /\ well_known_atproto_did(t)
  BY <1>8, ResolveHandle, ResolveHandleStep, Zenon
<1>9. CASE req[t].nsid \notin Local /\ proxy_fallback(t)
  <2>1. ProxySteps(t, validate_appview_url) /\ req[t].nsid \notin {"getServiceAuth", "refreshSession"}
    BY <1>9, Proxy, Zenon DEF Local
  <2> QED
    BY <1>0, <2>1, ProxyStep, Zenon
<1>10. CASE OrphanJti(t)
  BY <1>10, OrphanJtiStep, Zenon
<1> QED
  BY <1>1, <1>2, <1>3, <1>4, <1>5, <1>6, <1>7, <1>8, <1>9, <1>10, Zenon DEF Handler

-----------------------------------------------------------------------------
(* The embedded server. *)

LEMMA EmbeddedAuthSteps ==
    ASSUME IInv, NEW t \in Tasks, NEW scope, NEW label, authed_did(t, scope, label)
    PROVE  SessionAuthSteps(t, scope, label)
BY Zenon DEF authed_did, SessionAuthSteps, Refused, Refusals

LEMMA EmbeddedCreateSession ==
    ASSUME NEW t \in Tasks, embedded_create_session(t)
    PROVE  CreateSessionSteps(t)
BY Zenon DEF embedded_create_session, EmbeddedStoreError, CreateSessionSteps, Refused, Refusals,
             NoEffect

LEMMA EmbeddedSessions ==
    ASSUME IInv, NEW t \in Tasks
    PROVE  /\ embedded_refresh_session(t) => RefreshSessionSteps(t)
           /\ embedded_get_session(t) => GetSessionSteps(t)
<1>1. ASSUME embedded_refresh_session(t) PROVE RefreshSessionSteps(t)
  BY <1>1, EmbeddedAuthSteps, Zenon
     DEF embedded_refresh_session, EmbeddedStoreError, RefreshSessionSteps, Refused, Refusals
<1>2. ASSUME embedded_get_session(t) PROVE GetSessionSteps(t)
  BY <1>2, EmbeddedAuthSteps, Zenon
     DEF embedded_get_session, EmbeddedStoreError, GetSessionSteps, Refused, Refusals
<1> QED
  BY <1>1, <1>2, Zenon

LEMMA EmbeddedServices ==
    ASSUME IInv, NEW t \in Tasks, scene.server = "embedded"
    PROVE  /\ embedded_get_service_auth(t) => ServiceAuthSteps(t)
           /\ forward(t) => ProxySteps(t, Endpoints \cup {"appview", "did:web:host"})
<1>1. ASSUME embedded_get_service_auth(t) PROVE ServiceAuthSteps(t)
  BY <1>1, EmbeddedAuthSteps, Zenon
     DEF embedded_get_service_auth, EmbeddedStoreError, ServiceAuthSteps, Refused, Refusals
<1>2. ASSUME forward(t) PROVE ProxySteps(t, Endpoints \cup {"appview", "did:web:host"})
  BY <1>2, EmbeddedAuthSteps, Zenon DEF forward, ProxySteps, Refused, Refusals
<1> QED
  BY <1>1, <1>2, Zenon

LEMMA EmbeddedPreferences ==
    ASSUME IInv, NEW t \in Tasks
    PROVE  /\ embedded_getPreferences(t) => GetPreferencesSteps(t)
           /\ embedded_put_preferences(t) => PutPreferencesSteps(t)
<1>1. ASSUME embedded_getPreferences(t) PROVE GetPreferencesSteps(t)
  BY <1>1, EmbeddedAuthSteps, Zenon
     DEF embedded_getPreferences, EmbeddedStoreError, GetPreferencesSteps, Refused, Refusals
<1>2. ASSUME embedded_put_preferences(t) PROVE PutPreferencesSteps(t)
  BY <1>2, EmbeddedAuthSteps, Zenon
     DEF embedded_put_preferences, EmbeddedStoreError, PutPreferencesSteps, Refused, Refusals
<1> QED
  BY <1>1, <1>2, Zenon

LEMMA EmbeddedHandles ==
    ASSUME NEW t \in Tasks, embedded_resolve_handle(t) \/ embedded_atproto_did(t)
    PROVE  ResolveSteps(t)
<1>1. CASE embedded_resolve_handle(t)
  BY <1>1, Zenon DEF embedded_resolve_handle, EmbeddedStoreError, ResolveSteps, Refused, Refusals
<1>2. CASE embedded_atproto_did(t)
  BY <1>2, Zenon DEF embedded_atproto_did, EmbeddedStoreError, ResolveSteps, Refused, Refusals
<1> QED
  BY <1>1, <1>2, Zenon

\* Every step of a handler of the embedded server.
LEMMA EmbeddedStep ==
    ASSUME IInv, NEW t \in Tasks, scene.server = "embedded", embedded_route(t)
    PROVE  IInv'
<1>0. scene.server # "worker"
  BY Zenon
<1>1. CASE req[t].nsid = "createSession" /\ embedded_create_session(t)
  BY <1>1, EmbeddedCreateSession, CreateSessionStep, Zenon
<1>2. CASE req[t].nsid = "refreshSession" /\ embedded_refresh_session(t)
  BY <1>2, EmbeddedSessions, RefreshSessionStep, Zenon
<1>3. CASE req[t].nsid = "getSession" /\ embedded_get_session(t)
  BY <1>3, EmbeddedSessions, GetSessionStep, Zenon
<1>4. CASE req[t].nsid = "deleteSession" /\ pc[t] = "start" /\ NoEffect /\ Answer(t, "OK", {})
  BY <1>4, DeleteSession, Zenon
<1>5. CASE req[t].nsid = "getServiceAuth" /\ embedded_get_service_auth(t)
  BY <1>5, EmbeddedServices, ServiceAuthStep, Zenon
<1>6. CASE req[t].nsid = "getPreferences" /\ embedded_getPreferences(t)
  BY <1>0, <1>6, EmbeddedPreferences, GetPreferencesStep, Zenon
<1>7. CASE req[t].nsid = "putPreferences" /\ embedded_put_preferences(t)
  BY <1>0, <1>7, EmbeddedPreferences, PutPreferencesStep, Zenon
<1>8. CASE \/ req[t].nsid = "resolveHandle" /\ embedded_resolve_handle(t)
           \/ req[t].nsid = "atproto-did" /\ embedded_atproto_did(t)
  BY <1>8, EmbeddedHandles, ResolveHandleStep, Zenon
<1>9. CASE req[t].nsid \notin EmbeddedLocal /\ forward(t)
  <2>1. /\ ProxySteps(t, Endpoints \cup {"appview", "did:web:host"})
        /\ req[t].nsid \notin {"getServiceAuth", "refreshSession"}
    BY <1>9, EmbeddedServices, Zenon DEF EmbeddedLocal
  <2> QED
    BY <1>0, <2>1, ProxyStep, Zenon
<1> QED
  BY <1>1, <1>2, <1>3, <1>4, <1>5, <1>6, <1>7, <1>8, <1>9, Zenon DEF embedded_route

-----------------------------------------------------------------------------
(* The Workers deployment. *)

\* A request on its way to an object: the registry and the objects know no proofs.
LEMMA TravelStep ==
    ASSUME IInv, NEW t \in Tasks, pc[t] \in {"start", "registry"}, Still,
           scene.server = "worker", NEW label \in {"registry", "object"}, Moves(t, label),
           loc'[t].did = loc[t].did, loc'[t].sent = loc[t].sent,
           req[t].nsid \in {"getPreferences", "putPreferences"} =>
             IF label = "registry" THEN req[t].host = scene.hostname
             ELSE \A x \in req[t].token : req[t].scheme = "bearer" =>
                      \/ loc'[t].fault \/ Misdirected(t, x.sub)
                      \/ \A a \in accounts : a.did = x.sub => a.handle = loc'[t].handle
    PROVE  IInv'
<1>0. InFlight(t) /\ pc[t] # "upstream" /\ AuthInv(t)
  BY Own, Zenon DEF InFlight
<1>1. /\ loc'[t].sent = {} /\ ForwardedAsAddressed(t)'
      /\ since'[t].done \subseteq Acknowledged'
      /\ req' = req /\ scene' = scene /\ accounts' = accounts /\ jtis' = jtis /\ pc'[t] = label
  BY <1>0, PlaceMoves, Zenon
<1>2. AuthInv(t)'
  BY <1>0, <1>1, Zenon DEF AuthInv, Known
<1>3. SessionInv(t)' /\ ServiceInv(t)'
  BY <1>1, Zenon DEF SessionInv, ServiceInv
<1>4. \A d : Misdirected(t, d)' = Misdirected(t, d)
  BY <1>1, Zenon DEF Misdirected
<1>5. PrefsInv(t)'
  BY <1>1, <1>4, Zenon DEF PrefsInv
<1> QED
  BY <1>0, <1>1, <1>2, <1>3, <1>5, MoveStep, Zenon

\* The object is the one of the caller, unless the request was addressed to another one.
LEMMA ObjectStep ==
    ASSUME IInv, NEW t \in Tasks, pc[t] \in {"start", "registry"}, Still,
           scene.server = "worker", NEW host, NEW fault \in BOOLEAN,
           Keep(t, "object", [loc[t] EXCEPT !.handle = host, !.fault = fault]),
           loc[t].fault => fault,
           req[t].nsid \in {"getPreferences", "putPreferences"} =>
             \A x \in req[t].token : req[t].scheme = "bearer" =>
                 \/ fault \/ Misdirected(t, x.sub)
                 \/ \A a \in accounts : a.did = x.sub => a.handle = host
    PROVE  IInv'
<1>1. DOMAIN loc = Tasks /\ DOMAIN loc[t] = DOMAIN NoLocals
  BY Own, Zenon DEF PlaceInv
<1>2. PICK new : new = [loc[t] EXCEPT !.handle = host, !.fault = fault]
  BY Zenon
<1>3. /\ new.handle = host /\ new.fault = fault /\ DOMAIN new = DOMAIN NoLocals
      /\ new.did = loc[t].did /\ new.sent = loc[t].sent
  BY <1>1, <1>2, Zenon DEF NoLocals
<1>4. loc'[t] = new /\ \A u \in Tasks \ {t} : loc'[u] = loc[u]
  BY <1>1, <1>2, Zenon DEF Keep
<1>5. Moves(t, "object")
  BY <1>1, <1>3, <1>4, Zenon DEF Keep, Moves
<1> QED
  BY <1>3, <1>4, <1>5, TravelStep, Zenon

LEMMA ToObjectStep ==
    ASSUME IInv, NEW t \in Tasks, pc[t] \in {"start", "registry"}, Still,
           scene.server = "worker", NEW host, ToObject(t, host),
           req[t].nsid \in {"getPreferences", "putPreferences"} =>
             \A x \in req[t].token : req[t].scheme = "bearer" =>
                 \/ Misdirected(t, x.sub)
                 \/ \A a \in accounts : a.did = x.sub => a.handle = host
    PROVE  IInv'
<1>1. DOMAIN loc = Tasks /\ DOMAIN loc[t] = DOMAIN NoLocals
  BY Own, Zenon DEF PlaceInv
<1>2. PICK new : new = [loc[t] EXCEPT !.handle = host]
  BY Zenon
<1>3. /\ new.handle = host /\ new.fault = loc[t].fault /\ DOMAIN new = DOMAIN NoLocals
      /\ new.did = loc[t].did /\ new.sent = loc[t].sent
  BY <1>1, <1>2, Zenon DEF NoLocals
<1>4. loc'[t] = new /\ \A u \in Tasks \ {t} : loc'[u] = loc[u]
  BY <1>1, <1>2, Zenon DEF ToObject, Keep
<1>5. Moves(t, "object")
  BY <1>1, <1>3, <1>4, Zenon DEF ToObject, Keep, Moves
<1> QED
  BY <1>3, <1>4, <1>5, TravelStep, Zenon

\* A request for preferences names the subject of its token, which is a DID.
LEMMA NamedCaller ==
    ASSUME IInv, NEW t \in Tasks, req[t].nsid \in {"getPreferences", "putPreferences"},
           NEW x \in req[t].token, req[t].scheme = "bearer"
    PROVE  Named(t) = {x.sub} /\ x.sub \in Dids
<1>1. req[t].token = {x} /\ TokenOK(x)
  BY Own, Zenon DEF RequestInv
<1>2. Named(t) = jwt_sub(t)
  BY Zenon DEF Named, AuthRoutes
<1>3. jwt_sub(t) = {x.sub}
  BY <1>1, Zenon DEF jwt_sub, Bearer
<1> QED
  BY <1>1, <1>2, <1>3, Zenon DEF TokenOK

LEMMA DispatchStep ==
    ASSUME IInv, NEW t \in Tasks, scene.server = "worker", dispatch(t)
    PROVE  IInv'
<1>0. pc[t] = "start" /\ Still
  BY NoEffectStill, Zenon DEF dispatch
<1>1. CASE req[t].host # scene.hostname
  <2>1. ToObject(t, req[t].host)
    BY <1>1, Zenon DEF dispatch
  <2>2. ASSUME NEW x \in req[t].token
        PROVE  \/ Misdirected(t, x.sub)
               \/ \A a \in accounts : a.did = x.sub => a.handle = req[t].host
    BY <1>1, Zenon DEF Misdirected
  <2>3. PICK host : host = req[t].host
    BY Zenon
  <2> QED
    BY <1>0, <2>1, <2>2, <2>3, ToObjectStep, Zenon
<1>2. CASE req[t].host = scene.hostname /\ req[t].nsid = "resolveHandle"
  <2>1. PICK host : host = resolve_handle_target(t)
    BY Zenon
  <2>2. ToObject(t, host)
    BY <1>2, <2>1, Zenon DEF dispatch
  <2> QED
    BY <1>0, <1>2, <2>2, ToObjectStep, Zenon
<1>3. CASE /\ req[t].host = scene.hostname /\ req[t].nsid # "resolveHandle"
           /\ Named(t) # {}
  <2>1. PICK id \in Named(t) : IF id \in Dids THEN Goto(t, "registry") ELSE ToObject(t, id)
    BY <1>3, Zenon DEF dispatch, session_target
  <2>2. CASE id \in Dids
    <3>1. Moves(t, "registry") /\ loc' = loc
      BY <2>1, <2>2, GotoMoves, Zenon
    <3> QED
      BY <1>0, <1>3, <3>1, TravelStep, Zenon
  <2>3. CASE id \notin Dids
    <3>1. ASSUME req[t].nsid \in {"getPreferences", "putPreferences"}, NEW x \in req[t].token,
                 req[t].scheme = "bearer"
          PROVE  FALSE
      BY <2>1, <2>3, <3>1, NamedCaller, Zenon
    <3> QED
      BY <1>0, <2>1, <2>3, <3>1, ToObjectStep, Zenon
  <2> QED
    BY <2>2, <2>3, Zenon
<1>4. CASE /\ req[t].host = scene.hostname /\ req[t].nsid # "resolveHandle"
           /\ Named(t) = {}
  <2>1. PICK host : host = scene.hostname
    BY Zenon
  <2>2. ToObject(t, host)
    BY <1>4, <2>1, Zenon DEF dispatch
  <2>3. ASSUME req[t].nsid \in {"getPreferences", "putPreferences"}, NEW x \in req[t].token,
               req[t].scheme = "bearer"
        PROVE  FALSE
    BY <1>4, <2>3, NamedCaller, Zenon
  <2> QED
    BY <1>0, <2>2, <2>3, ToObjectStep, Zenon
<1> QED
  BY <1>1, <1>2, <1>3, <1>4, Zenon

LEMMA ResolveDidStep ==
    ASSUME IInv, NEW t \in Tasks, scene.server = "worker", resolve_did(t)
    PROVE  IInv'
<1>0. pc[t] = "registry" /\ Still /\ ClaimInv
  BY NoEffectStill, Zenon DEF resolve_did, IInv
<1>1. PICK labels : labels = {c.label : c \in {x \in claims : x.did \in Named(t)}}
  BY Zenon
<1>2. \/ \E h \in labels : ToObject(t, h)
      \/ labels = {} /\ ToObject(t, scene.hostname)
      \/ Keep(t, "object", [loc[t] EXCEPT !.handle = scene.hostname, !.fault = TRUE])
  BY <1>1, Zenon DEF resolve_did
<1>3. ASSUME NEW h \in labels, ToObject(t, h)
      PROVE  IInv'
  <2>1. PICK c \in claims : c.label = h /\ c.did \in Named(t)
    BY <1>1, <1>3, Zenon
  <2>2. ASSUME req[t].nsid \in {"getPreferences", "putPreferences"}, NEW x \in req[t].token,
               req[t].scheme = "bearer", NEW a \in accounts, a.did = x.sub
        PROVE  a.handle = h
    <3>1. c.did = a.did
      BY <2>1, <2>2, NamedCaller, Zenon
    <3> QED
      BY <1>0, <2>1, <3>1, Zenon DEF ClaimInv
  <2> QED
    BY <1>0, <1>3, <2>2, ToObjectStep, Zenon
<1>4. CASE labels = {} /\ ToObject(t, scene.hostname)
  <2>1. ASSUME req[t].nsid \in {"getPreferences", "putPreferences"}, NEW x \in req[t].token,
               req[t].scheme = "bearer", NEW a \in accounts, a.did = x.sub
        PROVE  FALSE
    <3>1. PICK c \in claims : c = [did |-> a.did, label |-> a.handle]
      BY <1>0, Zenon DEF ClaimInv
    <3>2. c.did = a.did
      BY <3>1, Zenon
    <3>3. c.did \in Named(t)
      BY <2>1, <3>2, NamedCaller, Zenon
    <3> QED
      BY <1>1, <1>4, <3>3, Zenon
  <2>2. PICK host : host = scene.hostname
    BY Zenon
  <2> QED
    BY <1>0, <1>4, <2>1, <2>2, ToObjectStep, Zenon
<1>5. CASE Keep(t, "object", [loc[t] EXCEPT !.handle = scene.hostname, !.fault = TRUE])
  <2>1. PICK host : host = scene.hostname
    BY Zenon
  <2>2. Keep(t, "object", [loc[t] EXCEPT !.handle = host, !.fault = TRUE])
    BY <1>5, <2>1, Zenon
  <2> QED
    BY <1>0, <2>1, <2>2, ObjectStep, Zenon
<1> QED
  BY <1>2, <1>3, <1>4, <1>5, Zenon

\* Tokens that an object takes.
LEMMA CallerToken ==
    ASSUME IInv, NEW t \in Tasks, NEW d \in Caller(t)
    PROVE  /\ d \in Dids /\ req[t].scheme = "bearer" /\ req[t].proof = {}
           /\ \E x \in req[t].token : x.sub = d
<1>1. PICK x \in Bearer(t) : x.sub = d
  BY Zenon DEF Caller
<1>2. req[t].scheme = "bearer" /\ x \in req[t].token
  BY Zenon DEF Bearer
<1> QED
  BY <1>1, <1>2, Own, Zenon DEF RequestInv, ProofInv, TokenOK

LEMMA WorkerRefusal ==
    ASSUME IInv, NEW t \in Tasks, pc[t] \in {"start", "object"}, NoEffect, NEW status,
           Error(t, status), status \notin {"none", "OK", "InvalidToken"}
    PROVE  IInv'
BY NoEffectStill, FailStep, Zenon DEF InFlight

LEMMA UnauthenticatedStep ==
    ASSUME IInv, NEW t \in Tasks, pc[t] = "object", Unauthenticated(t)
    PROVE  IInv'
BY WorkerRefusal, Zenon DEF Unauthenticated

\* An answer with a body.
LEMMA AnswerIs ==
    ASSUME IInv, NEW t \in Tasks, NEW status, NEW body, Answer(t, status, body)
    PROVE  Answers(t, status) /\ reply'[t].body = body
BY Zenon DEF IInv, StateInv, Answer, Answers

LEMMA WorkerCreateSession ==
    ASSUME IInv, NEW t \in Tasks, pc[t] = "object", scene.server = "worker",
           req[t].nsid = "createSession", worker_create_session(t)
    PROVE  IInv'
<1>0. InFlight(t) /\ UNCHANGED <<outside, store, proc>> /\ AccountInv
  BY Zenon DEF InFlight, worker_create_session, IInv
<1>1. PICK login : login = {a \in At(loc[t].handle) : /\ req[t].id \in {a.handle, a.did}
                                            /\ verify_password(req[t].password, a.phc)}
  BY Zenon
<1>2. CASE login = {}
  <2>1. UNCHANGED issued /\ Error(t, "AuthenticationRequired")
    BY <1>1, <1>2, Zenon DEF worker_create_session
  <2>2. NoEffect
    BY <1>0, <2>1, Zenon DEF NoEffect
  <2> QED
    BY <2>1, <2>2, WorkerRefusal, Zenon
<1>3. CASE login # {}
  <2>1. PICK a \in login : session_response(t, a.did, a.handle)
    BY <1>1, <1>3, Zenon DEF worker_create_session
  <2>2. /\ a \in accounts /\ req[t].id \in {a.handle, a.did}
        /\ a.phc = req[t].password /\ ~a.down /\ a.did \in Dids
    BY <1>0, <1>1, <2>1, Zenon DEF At, verify_password, AccountInv
  <2>3. Still
    BY <1>0, <2>1, <2>2, SessionStill, Zenon
  <2>4. Answer(t, "OK", [did |-> a.did, handle |-> a.handle])
    BY <2>1, Zenon DEF session_response
  <2>5. Answers(t, "OK") /\ reply'[t].body = [did |-> a.did, handle |-> a.handle]
    BY <2>4, AnswerIs, Zenon
  <2>6. reply'[t].body.did = a.did
    BY <2>5, SMTT(30)
  <2>7. req' = req /\ since' = since /\ a \in Seen(t)
    BY <1>0, <2>2, <2>5, AccountsSeen, Zenon DEF Answers
  <2>8. Seen(t)' = Seen(t)
    BY <2>7, Zenon DEF Seen
  <2>9. EarnedInv(t)'
    BY <2>2, <2>6, <2>7, <2>8, Zenon DEF EarnedInv
  <2>10. NamedInv(t)' /\ GivenAsAsked(t)' /\ ReadBackInv(t)'
    BY <2>7, Zenon DEF NamedInv, GivenAsAsked, ReadBackInv, Replied
  <2> QED
    BY <1>0, <2>3, <2>5, <2>9, <2>10, OkStep, Zenon
<1> QED
  BY <1>2, <1>3, Zenon

LEMMA WorkerGetSession ==
    ASSUME IInv, NEW t \in Tasks, pc[t] = "object", scene.server = "worker",
           req[t].nsid = "getSession", worker_get_session(t)
    PROVE  IInv'
<1>1. CASE Unauthenticated(t)
  BY <1>1, UnauthenticatedStep, Zenon
<1>2. ASSUME NoEffect, NEW body, Answer(t, "OK", body)
      PROVE  IInv'
  <2>1. Answers(t, "OK") /\ Still /\ InFlight(t)
    BY <1>2, AnswerIs, NoEffectStill, Zenon DEF InFlight
  <2>2. req' = req /\ scene' = scene
    BY <1>2, <2>1, Zenon DEF Answers, Still, outside
  <2>3. EarnedInv(t)' /\ NamedInv(t)' /\ GivenAsAsked(t)' /\ ReadBackInv(t)'
    BY <2>2, Zenon DEF EarnedInv, NamedInv, GivenAsAsked, ReadBackInv, Replied
  <2> QED
    BY <2>1, <2>3, OkStep, Zenon
<1>3. CASE NoEffect /\ ~Unauthenticated(t)
  <2>1. PICK d \in Caller(t) :
            Answer(t, "OK", [did |-> d, handle |-> IF \E a \in At(loc[t].handle) : a.did = d
                                                  THEN loc[t].handle ELSE Nobody])
    BY <1>3, Zenon DEF worker_get_session
  <2>2. PICK body : body = [did |-> d, handle |-> IF \E a \in At(loc[t].handle) : a.did = d
                                                  THEN loc[t].handle ELSE Nobody]
    BY Zenon
  <2>3. Answer(t, "OK", body)
    BY <2>1, <2>2, Zenon
  <2> QED
    BY <1>2, <1>3, <2>3, Zenon
<1> QED
  BY <1>1, <1>3, Zenon DEF worker_get_session

\* Every request for preferences that an object serves is at the caller's home.
LEMMA CallerReaches ==
    ASSUME IInv, NEW t \in Tasks, pc[t] = "object", scene.server = "worker",
           req[t].nsid \in {"getPreferences", "putPreferences"}, NEW d \in Caller(t)
    PROVE  Reaches(t, d, loc[t].handle)
<1>1. req[t].scheme = "bearer" /\ \E x \in req[t].token : x.sub = d
  BY CallerToken, Zenon
<1>2. PrefsInv(t)
  BY Own, Zenon
<1> QED
  BY <1>1, <1>2, Zenon DEF PrefsInv, Reaches

LEMMA WorkerGetPreferences ==
    ASSUME IInv, NEW t \in Tasks, pc[t] = "object", scene.server = "worker",
           req[t].nsid = "getPreferences", worker_getPreferences(t)
    PROVE  IInv'
<1>1. CASE Unauthenticated(t)
  BY <1>1, UnauthenticatedStep, Zenon
<1>2. CASE ~Unauthenticated(t)
  <2>1. NoEffect
    BY <1>2, Zenon DEF worker_getPreferences
  <2>2. PICK d \in Caller(t) :
            Answer(t, "OK", [did |-> d, value |-> get_preferences(loc[t].handle, d)])
    BY <1>2, Zenon DEF worker_getPreferences
  <2>3. PICK at : at = loc[t].handle
    BY Zenon
  <2>4. d \in Dids /\ Reaches(t, d, at)
    BY <2>3, CallerToken, CallerReaches, Zenon
  <2>5. Answer(t, "OK", [did |-> d, value |-> get_preferences(at, d)])
    BY <2>2, <2>3, Zenon
  <2>6. PICK body : body = [did |-> d, value |-> get_preferences(at, d)]
    BY Zenon
  <2>7. Answer(t, "OK", body)
    BY <2>5, <2>6, Zenon
  <2>8. Answers(t, "OK") /\ reply'[t].body = [did |-> d, value |-> get_preferences(at, d)]
    BY <2>6, <2>7, AnswerIs, Zenon
  <2> QED
    BY <2>1, <2>4, <2>8, NoEffectStill, ReadStep, Zenon DEF InFlight
<1> QED
  BY <1>1, <1>2, Zenon

\* A put may be written and its answer lost.
LEMMA WorkerPutPreferences ==
    ASSUME IInv, NEW t \in Tasks, pc[t] = "object", scene.server = "worker",
           req[t].nsid = "putPreferences", worker_put_preferences(t)
    PROVE  IInv'
<1>1. CASE Unauthenticated(t)
  BY <1>1, UnauthenticatedStep, Zenon
<1>2. CASE ~Unauthenticated(t)
  <2>0. /\ DOMAIN pc = Tasks /\ DOMAIN loc = Tasks /\ DOMAIN reply = Tasks
        /\ DOMAIN loc[t] = DOMAIN NoLocals
    BY Own, Zenon DEF IInv, StateInv, PlaceInv
  <2>1. UNCHANGED <<outside, accounts, claims, jtis, proc, issued>>
    BY <1>2, Zenon DEF worker_put_preferences
  <2>2. PICK d \in Caller(t) :
            /\ upsert_preferences(loc[t].handle, d, IF req[t].wellformed THEN req[t].value ELSE NoPrefs)
            /\ \/ Answer(t, "OK", {})
               \/ "lost" \in scene.world /\ Error(t, "Lost")
    BY <1>2, Zenon DEF worker_put_preferences
  <2>3. PICK at : at = loc[t].handle
    BY Zenon
  <2>4. d \in Dids /\ Reaches(t, d, at) /\ t \in Puts(d)
    BY <2>3, CallerToken, CallerReaches, Zenon DEF Puts
  <2>5. upsert_preferences(at, d, Written(t))
    BY <2>2, <2>3, Zenon DEF Written
  <2>6. PICK status \in {"OK", "Lost"} : Answer(t, status, {})
    BY <2>2, Zenon DEF Error
  <2>7. Answers(t, status)
    BY <2>6, AnswerIs, Zenon
  <2>8. /\ pc'[t] = "done" /\ reply'[t].status \in {"OK", "Lost"}
        /\ loc' = loc /\ req' = req /\ since' = since
        /\ DOMAIN pc' = Tasks /\ DOMAIN reply' = Tasks
        /\ \A u \in Tasks \ {t} : pc'[u] = pc[u] /\ reply'[u] = reply[u]
    BY <2>0, <2>6, <2>7, Zenon DEF Answers
  <2>9. Turn(t)
    BY <2>0, <2>1, <2>8, Zenon DEF Turn, InFlight
  <2>10. EarnedInv(t)' /\ NamedInv(t)' /\ GivenAsAsked(t)' /\ ReadBackInv(t)' /\ RefusedForGood(t)'
    BY <2>8, Zenon DEF EarnedInv, NamedInv, GivenAsAsked, ReadBackInv, RefusedForGood, Replied
  <2>11. TaskInv(t)'
    BY <2>0, <2>8, <2>9, <2>10, EndTask, Zenon
  <2> QED
    BY <2>1, <2>4, <2>5, <2>8, <2>9, <2>11, PutTurn, Zenon
<1> QED
  BY <1>1, <1>2, Zenon

LEMMA WorkerProxy ==
    ASSUME IInv, NEW t \in Tasks, pc[t] = "object", scene.server = "worker",
           req[t].nsid \in Bsky \cup Chat, proxy_appview(t)
    PROVE  IInv'
<1>0. InFlight(t) /\ DOMAIN loc = Tasks /\ DOMAIN loc[t] = DOMAIN NoLocals
  BY Own, Zenon DEF InFlight, PlaceInv
<1>1. CASE Unauthenticated(t)
  BY <1>1, UnauthenticatedStep, Zenon
<1>2. CASE ~Unauthenticated(t)
  <2>1. NoEffect
    BY <1>2, Zenon DEF proxy_appview
  <2>2. PICK aud : aud = IF req[t].nsid \in Chat THEN "chat" ELSE "appview"
    BY Zenon
  <2>3. PICK d \in Caller(t) :
            IF \E a \in At(loc[t].handle) : a.did = d
            THEN Keep(t, "upstream", [loc[t] EXCEPT !.did = d, !.sent =
                        {[url |-> aud, token |-> mint_service_auth_jwt(d, aud, req[t].nsid)]}])
            ELSE Error(t, "InternalError")
    BY <1>2, <2>2, Zenon DEF proxy_appview
  <2>4. CASE Error(t, "InternalError")
    BY <2>1, <2>4, WorkerRefusal, Zenon
  <2>5. CASE Keep(t, "upstream", [loc[t] EXCEPT !.did = d, !.sent =
                        {[url |-> aud, token |-> mint_service_auth_jwt(d, aud, req[t].nsid)]}])
    <3>1. PICK m : m = [url |-> aud, token |-> mint_service_auth_jwt(d, aud, req[t].nsid)]
      BY Zenon
    <3>2. /\ m.url = aud /\ m.token.iss = d /\ m.token.aud = aud /\ m.token.lxm = req[t].nsid
          /\ m.token.exp = m.token.iat + ServiceTtl
      BY <3>1, Zenon DEF mint_service_auth_jwt, mint_service_auth_jwt_with
    <3>3. m.token.exp <= m.token.iat + ServiceTtl
      <4>1. m.token.iat = now
        BY <3>1, Zenon DEF mint_service_auth_jwt, mint_service_auth_jwt_with
      <4>2. now \in Int /\ ServiceTtl \in Int
        BY Numbers, Zenon
      <4> QED
        BY <3>2, <4>1, <4>2, SMTT(30)
    <3>4. PICK new : new = [loc[t] EXCEPT !.did = d, !.sent = {m}]
      BY Zenon
    <3>5. /\ new.did = d /\ new.sent = {m} /\ new.fault = loc[t].fault
          /\ DOMAIN new = DOMAIN NoLocals
      BY <1>0, <3>4, Zenon DEF NoLocals
    <3>6. Keep(t, "upstream", new)
      BY <2>5, <3>1, <3>4, Zenon
    <3>7. loc'[t] = new /\ Moves(t, "upstream")
      BY <1>0, <3>5, <3>6, Zenon DEF Keep, Moves
    <3>8. Still
      BY <2>1, NoEffectStill, Zenon
    <3>9. /\ req' = req /\ scene' = scene /\ reply' = reply /\ since' = since
          /\ pc'[t] = "upstream"
      BY <3>7, <3>8, Own, Zenon DEF Moves, Still, outside
    <3>10. /\ req[t].scheme = "bearer" /\ req[t].proof = {}
           /\ \E x \in req[t].token : x.sub = d
      BY CallerToken, Zenon
    <3>11. AuthInv(t)'
      BY <3>9, <3>10, Zenon DEF AuthInv, Known
    <3>12. SessionInv(t)' /\ ServiceInv(t)'
      BY <3>9, Zenon DEF SessionInv, ServiceInv
    <3>13. ForwardedAsAddressed(t)'
      BY <2>2, <3>2, <3>3, <3>5, <3>7, <3>9, <3>10, Zenon DEF ForwardedAsAddressed
    <3>14. PrefsInv(t)'
      BY <3>9, Own, Zenon DEF PrefsInv, Acknowledged
    <3> QED
      BY <1>0, <3>7, <3>8, <3>10, <3>11, <3>12, <3>13, <3>14, MoveStep, Zenon
  <2> QED
    BY <2>3, <2>4, <2>5, Zenon
<1> QED
  BY <1>1, <1>2, Zenon

\* The deployment's own feeds: nothing is signed.
LEMMA WorkerOwnFeed ==
    ASSUME IInv, NEW t \in Tasks, pc[t] = "object", scene.server = "worker",
           proxy_own_appview(t)
    PROVE  IInv'
<1>0. InFlight(t) /\ pc[t] # "upstream" /\ AuthInv(t)
  BY Own, Zenon DEF InFlight
<1>1. Still /\ Moves(t, "upstream") /\ loc' = loc
  BY NoEffectStill, GotoMoves, Zenon DEF proxy_own_appview
<1>2. /\ loc'[t].sent = {} /\ ForwardedAsAddressed(t)'
      /\ since'[t].done \subseteq Acknowledged'
      /\ req' = req /\ scene' = scene /\ jtis' = jtis /\ pc'[t] = "upstream"
  BY <1>0, <1>1, PlaceMoves, Zenon
<1>3. AuthInv(t)'
  BY <1>0, <1>1, <1>2, Zenon DEF AuthInv, Known
<1>4. SessionInv(t)' /\ ServiceInv(t)' /\ PrefsInv(t)'
  BY <1>2, Zenon DEF SessionInv, ServiceInv, PrefsInv
<1> QED
  BY <1>0, <1>1, <1>2, <1>3, <1>4, MoveStep, Zenon

LEMMA WorkerResolveStep ==
    ASSUME IInv, NEW t \in Tasks, pc[t] = "object", NEW h, WorkerResolve(t, h),
           req[t].nsid \in {"resolveHandle", "atproto-did"}
    PROVE  IInv'
<1>0. NoEffect /\ Still /\ InFlight(t)
  BY NoEffectStill, Zenon DEF WorkerResolve, InFlight
<1>1. CASE Error(t, "HandleNotFound")
  BY <1>0, <1>1, WorkerRefusal, Zenon
<1>2. CASE ~Error(t, "HandleNotFound")
  <2>1. PICK a \in get_account_by_handle(h) : Answer(t, "OK", [did |-> a.did, handle |-> h])
    BY <1>2, Zenon DEF WorkerResolve
  <2>2. a \in ActiveIn(accounts) /\ a.handle = h
    BY Zenon DEF get_account_by_handle
  <2>3. Answers(t, "OK") /\ reply'[t].body = [did |-> a.did, handle |-> h]
    BY <2>1, AnswerIs, Zenon
  <2>4. reply'[t].body.did = a.did /\ reply'[t].body.handle = h
    BY <2>3, SMTT(30)
  <2> QED
    BY <1>0, <2>2, <2>3, <2>4, NamedStep, Zenon
<1> QED
  BY <1>1, <1>2, Zenon

LEMMA WorkerRouteStep ==
    ASSUME IInv, NEW t \in Tasks, scene.server = "worker", worker_route(t)
    PROVE  IInv'
<1>0. pc[t] = "object"
  BY Zenon DEF worker_route
<1>1. CASE req[t].nsid = "createSession" /\ worker_create_session(t)
  BY <1>0, <1>1, WorkerCreateSession, Zenon
<1>2. CASE req[t].nsid = "getSession" /\ worker_get_session(t)
  BY <1>0, <1>2, WorkerGetSession, Zenon
<1>3. CASE req[t].nsid = "getPreferences" /\ worker_getPreferences(t)
  BY <1>0, <1>3, WorkerGetPreferences, Zenon
<1>4. CASE req[t].nsid = "putPreferences" /\ worker_put_preferences(t)
  BY <1>0, <1>4, WorkerPutPreferences, Zenon
<1>5. CASE req[t].nsid = "resolveHandle" /\ worker_resolve_handle(t)
  <2>1. PICK h : h = req[t].id
    BY Zenon
  <2> QED
    BY <1>0, <1>5, <2>1, WorkerResolveStep, WorkerRefusal, Zenon DEF worker_resolve_handle
<1>6. CASE req[t].nsid = "atproto-did" /\ worker_atproto_did(t)
  <2>1. PICK h : h = loc[t].handle
    BY Zenon
  <2> QED
    BY <1>0, <1>6, <2>1, WorkerResolveStep, Zenon DEF worker_atproto_did
<1>7. CASE req[t].nsid = "own feed" /\ proxy_own_appview(t)
  BY <1>0, <1>7, WorkerOwnFeed, Zenon
<1>8. CASE req[t].nsid \in Bsky \cup Chat /\ proxy_appview(t)
  BY <1>0, <1>8, WorkerProxy, Zenon
<1>9. CASE NoEffect /\ (Error(t, "MethodNotImplemented") \/ Error(t, "Lost"))
  BY <1>0, <1>9, WorkerRefusal, Zenon
<1> QED
  BY <1>1, <1>2, <1>3, <1>4, <1>5, <1>6, <1>7, <1>8, <1>9, Zenon DEF worker_route

-----------------------------------------------------------------------------
(* Deletion of an account. *)

\* The request that deletes, which no property but the last two clauses of PrefsInv is about.
LEMMA DeletingTask ==
    ASSUME IInv, Onward, NEW t \in Tasks, req[t].nsid = "deleteAccount",
           pc[t] \in {"start", "release"}, pc'[t] \in {"release", "done"},
           req' = req, loc' = loc, jtis' = jtis,
           DOMAIN since'[t] = {"at", "done", "seen"},
           since'[t].at = since[t].at, since'[t].done = since[t].done,
           pc'[t] = "release" => /\ accounts' \in since'[t].seen /\ reply'[t] = reply[t]
                                 /\ \A a \in accounts' : a.handle # req[t].id,
           pc'[t] = "done" => reply'[t].status \in {"OK", "Lost"}
    PROVE  TaskInv(t)'
<1>0. /\ StateInv /\ \A v \in Tasks : PlaceInv(v)
      /\ RequestInv(t) /\ ProofInv(t) /\ AuthInv(t) /\ ServiceInv(t) /\ PrefsInv(t)
  BY Own, Zenon DEF IInv
<1>1. RequestInv(t)' /\ ProofInv(t)'
  BY <1>0, AsideRequest, AsideProof, Zenon
<1>2. reply'[t].status \in {"none", "OK", "Lost"} /\ (pc'[t] = "done" <=> reply'[t] # NoReply)
  <2>1. CASE pc'[t] = "done"
    BY <2>1, SMTT(30) DEF NoReply
  <2>2. CASE pc'[t] = "release"
    BY <2>2, NoReplyYet, Zenon
  <2> QED
    BY <2>1, <2>2, Zenon
<1>3. PlaceInv(t)'
  <2>1. since'[t].at \in 0..now'
    <3>1. since[t].at \in 0..now /\ now \in Nat
      BY <1>0, AccessAssumption, SMTT(30) DEF PlaceInv, StateInv
    <3> QED
      BY <3>1, Later, Zenon DEF Onward
  <2>2. DOMAIN loc'[t] = DOMAIN NoLocals
    BY <1>0, Zenon DEF PlaceInv
  <2> QED
    BY <1>2, <2>1, <2>2, Zenon DEF PlaceInv, InFlight
<1>4. AuthInv(t)'
  BY <1>0, ZenonT(30) DEF AuthInv, Known
<1>5. RefusedForGood(t)' /\ SessionInv(t)'
  BY <1>2, Zenon DEF RefusedForGood, SessionInv
<1>6. EarnedInv(t)' /\ NamedInv(t)' /\ GivenAsAsked(t)' /\ ReadBackInv(t)'
  BY Zenon DEF EarnedInv, NamedInv, GivenAsAsked, ReadBackInv, Replied
<1>7. ServiceInv(t)' /\ ForwardedAsAddressed(t)'
  <2>1. loc'[t].sent = {}
    BY <1>0, Zenon DEF ServiceInv
  <2> QED
    BY <2>1, UnsentForwarded, Zenon DEF ServiceInv
<1>8. PrefsInv(t)'
  <2>1. since'[t].done \subseteq Acknowledged'
    BY <1>0, AcknowledgedStay, Zenon DEF PrefsInv
  <2> QED
    BY <2>1, Zenon DEF PrefsInv
<1> QED
  BY <1>1, <1>3, <1>4, <1>5, <1>6, <1>7, <1>8, Zenon DEF TaskInv

\* What Witness leaves of a request.
LEMMA WitnessKeeps ==
    ASSUME IInv, NEW table, Witness(table), NEW u \in Tasks
    PROVE  /\ DOMAIN since' = Tasks /\ DOMAIN since'[u] = {"at", "done", "seen"}
           /\ since'[u].at = since[u].at /\ since'[u].done = since[u].done
           /\ since[u].seen \subseteq since'[u].seen
           /\ InFlight(u) => table \in since'[u].seen
<1>1. DOMAIN since[u] = {"at", "done", "seen"}
  BY Own, Zenon DEF PlaceInv
<1>2. CASE InFlight(u)
  <2>1. since'[u] = [since[u] EXCEPT !.seen = @ \cup {table}]
    BY <1>2, Zenon DEF Witness, InFlight
  <2> QED
    BY <1>1, <2>1, Zenon DEF Witness
<1>3. CASE ~InFlight(u)
  <2>1. since'[u] = since[u]
    BY <1>3, Zenon DEF Witness, InFlight
  <2> QED
    BY <1>1, <1>3, <2>1, Zenon DEF Witness
<1> QED
  BY <1>2, <1>3, Zenon

\* The tables that a deletion leaves alone.
LEMMA DeletingShared ==
    ASSUME IInv, NEW t \in Tasks, pc[t] \in {"start", "release"}, pc'[t] \in {"release", "done"},
           UNCHANGED <<outside, jtis, proc, issued, req, loc>>,
           accounts' \subseteq accounts, DOMAIN since' = Tasks,
           DOMAIN pc' = Tasks, DOMAIN reply' = Tasks,
           \A u \in Tasks \ {t} : pc'[u] = pc[u]
    PROVE  StateInv' /\ AccountInv' /\ ProcInv' /\ ReplayInv' /\ OnceInv'
<1>1. /\ scene' = scene /\ now' = now /\ events' = events /\ directory' = directory
  BY Zenon DEF outside
<1>2. StateInv'
  BY <1>1, Zenon DEF IInv, StateInv, TokenOK
<1>3. AccountInv'
  BY <1>1, Zenon DEF IInv, AccountInv
<1>4. ProcInv' /\ OnceInv'
  BY <1>1, Zenon DEF IInv, ProcInv, OnceInv, Publish
<1>5. ReplayInv'
  <2>1. \A u \in Tasks : pc[u] \notin {"idle", "start", "jti", "jti orphan"} =>
                         pc'[u] \notin {"idle", "start", "jti", "jti orphan"}
    BY Zenon
  <2> QED
    BY <2>1, Zenon DEF IInv, ReplayInv
<1> QED
  BY <1>2, <1>3, <1>4, <1>5, Zenon

\* The object is wiped; the answer may be lost.
LEMMA WipeStep ==
    ASSUME IInv, NEW t \in Tasks, pc[t] = "start", scene.server = "worker",
           req[t].nsid = "deleteAccount", NEW h, h = req[t].id, delete_account_data(h),
           \/ pc' = [pc EXCEPT ![t] = "release"] /\ UNCHANGED reply
           \/ /\ pc' = [pc EXCEPT ![t] = "done"]
              /\ reply' = [reply EXCEPT ![t] = [status |-> "Lost", body |-> {}, at |-> now]],
           UNCHANGED <<outside, claims, jtis, proc, issued, req, loc>>
    PROVE  IInv'
<1>0. /\ DOMAIN pc = Tasks /\ DOMAIN reply = Tasks /\ AccountInv
      /\ now \in Nat /\ proc.as \in Nat /\ scene' = scene /\ now' = now
  BY Numbers, ZenonT(60) DEF IInv, StateInv, outside
<1>1. /\ pc'[t] \in {"release", "done"} /\ DOMAIN pc' = Tasks /\ DOMAIN reply' = Tasks
      /\ \A u \in Tasks \ {t} : pc'[u] = pc[u] /\ reply'[u] = reply[u]
      /\ pc'[t] = "release" => reply'[t] = reply[t]
      /\ pc'[t] = "done" => reply'[t].status = "Lost"
  BY <1>0, SMTT(30)
<1>2. /\ accounts' = accounts \ At(h) /\ Witness(accounts')
      /\ prefs' = {p \in prefs : p.at # h \/ \A a \in At(h) : a.did # p.did}
  BY Zenon DEF delete_account_data
<1>3. accounts' \subseteq accounts /\ \A a \in accounts' : a.handle # req[t].id
  BY <1>2, Zenon DEF At
<1>4. PICK table : table = accounts'
  BY Zenon
<1>5. /\ DOMAIN since' = Tasks
      /\ \A u \in Tasks :
           /\ DOMAIN since'[u] = {"at", "done", "seen"}
           /\ since'[u].at = since[u].at /\ since'[u].done = since[u].done
           /\ since[u].seen \subseteq since'[u].seen
           /\ InFlight(u) => accounts' \in since'[u].seen
  <2>1. Witness(table)
    BY <1>2, <1>4, Zenon
  <2> QED
    BY <1>4, <2>1, WitnessKeeps, Zenon
<1>6. InFlight(t) /\ reply[t].status = "none" /\ t \notin Acknowledged
  BY NoReplyYet, Zenon DEF InFlight
<1>7. Onward
  BY <1>0, <1>1, <1>3, <1>5, <1>6, Numbers, Zenon DEF Onward
<1>8. TaskInv(t)'
  BY <1>1, <1>3, <1>5, <1>6, <1>7, DeletingTask, Zenon
<1>9. ASSUME NEW u \in Tasks \ {t} PROVE TaskInv(u)'
  <2>1. Aside(u)
    BY <1>1, <1>5, Zenon DEF Aside, InFlight
  <2> QED
    BY <1>7, <2>1, AsideTask, Zenon
<1>10. StateInv' /\ AccountInv' /\ ProcInv' /\ ReplayInv' /\ OnceInv'
  BY <1>1, <1>3, <1>5, DeletingShared, Zenon
<1>11. ClaimInv'
  BY <1>3, Zenon DEF IInv, ClaimInv
<1>12. ASSUME NEW row \in prefs, Home(row.did, row.at)'
       PROVE  row \in prefs'
  <2>1. PICK a \in accounts' : a.did = row.did /\ a.handle = row.at
    BY <1>0, <1>12, Zenon DEF Home
  <2>2. row.at # h
    BY <1>3, <2>1, Zenon
  <2> QED
    BY <1>2, <2>2, Zenon
<1>13. Acknowledged' \subseteq Acknowledged
  BY <1>1, <1>6, Zenon DEF Acknowledged
<1>14. UniqueRows' /\ RowInv' /\ KeptInv'
  <2>1. prefs' \subseteq prefs
    BY <1>2, Zenon
  <2> QED
    BY <1>7, <1>12, <1>13, <2>1, ShrinkPrefs, Zenon
<1> QED
  BY <1>8, <1>9, <1>10, <1>11, <1>14, Zenon DEF IInv

\* The name is freed: no account has it any more.
LEMMA ReleaseStep ==
    ASSUME IInv, NEW t \in Tasks, pc[t] = "release", scene.server = "worker",
           UNCHANGED <<outside, accounts, prefs, jtis, proc, issued>>,
           claims' = {c \in claims : c.label # req[t].id} \/ UNCHANGED claims,
           Answer(t, "OK", {})
    PROVE  IInv'
<1>0. /\ DOMAIN pc = Tasks /\ DOMAIN reply = Tasks /\ DOMAIN since = Tasks
      /\ now \in Nat /\ proc.as \in Nat /\ scene' = scene /\ now' = now
  BY Numbers, Zenon DEF IInv, StateInv, outside
<1>1. /\ req[t].nsid = "deleteAccount" /\ \A a \in accounts : a.handle # req[t].id
      /\ \A u \in Tasks : PlaceInv(u)
  BY Own, Zenon DEF PrefsInv
<1>2. /\ pc'[t] = "done" /\ DOMAIN pc' = Tasks /\ DOMAIN reply' = Tasks
      /\ \A u \in Tasks \ {t} : pc'[u] = pc[u] /\ reply'[u] = reply[u]
      /\ reply'[t].status = "OK"
      /\ req' = req /\ loc' = loc /\ since' = since
  BY <1>0, Zenon DEF Answer
<1>3. Onward
  <2>1. reply[t].status = "none"
    BY NoReplyYet, Zenon
  <2> QED
    BY <1>0, <1>2, <2>1, Numbers, Zenon DEF Onward
<1>4. TaskInv(t)'
  BY <1>1, <1>2, <1>3, DeletingTask, Zenon DEF PlaceInv
<1>5. ASSUME NEW u \in Tasks \ {t} PROVE TaskInv(u)'
  <2>1. Aside(u)
    BY <1>1, <1>2, Zenon DEF Aside, InFlight, PlaceInv
  <2> QED
    BY <1>3, <2>1, AsideTask, Zenon
<1>6. StateInv' /\ AccountInv' /\ ProcInv' /\ ReplayInv' /\ OnceInv'
  BY <1>0, <1>2, DeletingShared, Zenon
<1>7. ClaimInv'
  <2>1. ClaimInv /\ claims' \subseteq claims
    BY Zenon DEF IInv
  <2>2. ASSUME NEW a \in accounts
        PROVE  [did |-> a.did, label |-> a.handle] \in claims'
    <3>1. PICK c : c = [did |-> a.did, label |-> a.handle]
      BY Zenon
    <3>2. c \in claims /\ c.label = a.handle
      BY <2>1, <3>1, Zenon DEF ClaimInv
    <3> QED
      BY <1>1, <3>1, <3>2, Zenon
  <2> QED
    BY <2>1, <2>2, Zenon DEF ClaimInv
<1>8. UniqueRows' /\ RowInv' /\ KeptInv'
  <2>1. ASSUME NEW d PROVE Puts(d)' \cap Acknowledged' \subseteq Acknowledged
    BY <1>1, <1>2, Zenon DEF Puts, Acknowledged
  <2> QED
    BY <1>3, <2>1, QuietPrefs, Zenon
<1> QED
  BY <1>4, <1>5, <1>6, <1>7, <1>8, ZenonT(60) DEF IInv

\* Every step of a handler on Workers.
LEMMA WorkerStep ==
    ASSUME IInv, NEW t \in Tasks, scene.server = "worker", WorkerHandler(t)
    PROVE  IInv'
<1>1. CASE req[t].nsid = "deleteAccount" /\ worker_delete_account(t)
  <2>1. CASE /\ pc[t] = "start" /\ NoEffect
             /\ Error(t, "Unauthorized") \/ Error(t, "Lost")
    BY <2>1, WorkerRefusal, Zenon
  <2>2. CASE /\ pc[t] = "start" /\ delete_account_data(req[t].id)
             /\ \/ pc' = [pc EXCEPT ![t] = "release"] /\ UNCHANGED reply
                \/ /\ pc' = [pc EXCEPT ![t] = "done"]
                   /\ reply' = [reply EXCEPT ![t] = [status |-> "Lost", body |-> {}, at |-> now]]
             /\ UNCHANGED <<outside, claims, jtis, proc, issued, req, loc>>
    <3>1. PICK h : h = req[t].id
      BY Zenon
    <3> QED
      BY <1>1, <2>2, <3>1, WipeStep, Zenon
  <2>3. CASE pc[t] = "release"
    BY <2>3, <1>1, ReleaseStep, Zenon DEF worker_delete_account
  <2> QED
    BY <1>1, <2>1, <2>2, <2>3, Zenon DEF worker_delete_account
<1> QED
  BY <1>1, DispatchStep, ResolveDidStep, WorkerRouteStep, RelayStep, Zenon DEF WorkerHandler

-----------------------------------------------------------------------------
(* The world around the handlers. *)

\* A step that leaves the requests alone, or ends some of them.
LEMMA WorldStep ==
    ASSUME IInv, Onward, \A u \in Tasks : Aside(u), jtis' = jtis, prefs' = prefs,
           StateInv', AccountInv', ProcInv', ClaimInv'
    PROVE  IInv'
<1>1. \A u \in Tasks : /\ pc'[u] = pc[u] \/ pc'[u] = "gone"
                       /\ req'[u] = req[u] /\ loc'[u] = loc[u] /\ reply'[u] = reply[u]
  BY Zenon DEF Aside
<1>2. ReplayInv'
  <2>1. \A u \in Tasks : pc[u] \notin {"idle", "start", "jti", "jti orphan"} =>
                         pc'[u] \notin {"idle", "start", "jti", "jti orphan"}
    BY <1>1, Zenon
  <2>2. ASSUME NEW j \in jtis'
        PROVE  \E u \in Tasks : /\ pc'[u] \notin {"idle", "start", "jti", "jti orphan"}
                                /\ \E q \in req'[u].proof : q.jti = j
    <3>1. PICK u \in Tasks : /\ pc[u] \notin {"idle", "start", "jti", "jti orphan"}
                             /\ \E q \in req[u].proof : q.jti = j
      BY Zenon DEF IInv, ReplayInv
    <3>2. req'[u] = req[u]
      BY <1>1, Zenon
    <3> QED
      BY <2>1, <3>1, <3>2, Zenon
  <2> QED
    BY <2>2, Zenon DEF ReplayInv
<1>3. OnceInv'
  BY <1>1, ZenonT(60) DEF IInv, OnceInv
<1>4. UniqueRows' /\ RowInv' /\ KeptInv'
  <2>1. ASSUME NEW d PROVE Puts(d)' \cap Acknowledged' \subseteq Acknowledged
    BY <1>1, Zenon DEF Acknowledged
  <2> QED
    BY <2>1, QuietPrefs, Zenon
<1>5. \A u \in Tasks : TaskInv(u)'
  BY AsideTask, Zenon
<1> QED
  BY <1>2, <1>3, <1>4, <1>5, Zenon DEF IInv

LEMMA Counted ==
    ASSUME IInv, NEW kind, Event(kind)
    PROVE  events' \in 0..MaxEvents
BY Numbers, SMTT(30) DEF Event

\* A step that no request notices.
LEMMA UnnoticedStep ==
    ASSUME IInv, UNCHANGED <<scene, task, store>>,
           now' \in 0..MaxTime, now <= now', events' \in 0..MaxEvents, DOMAIN directory' = Services,
           DOMAIN proc' = DOMAIN proc, proc'.as = proc.as, proc'.targets = proc.targets,
           proc.published \subseteq proc'.published, Publish(directory') \subseteq proc'.published,
           \A x \in issued' : TokenOK(x)
    PROVE  IInv'
<1>1. /\ scene' = scene /\ accounts' = accounts /\ claims' = claims /\ prefs' = prefs /\ jtis' = jtis
      /\ pc' = pc /\ req' = req /\ loc' = loc /\ since' = since /\ reply' = reply
  BY Zenon DEF task, store
<1>2. StateInv'
  BY <1>1, Zenon DEF IInv, StateInv, TokenOK
<1>3. AccountInv' /\ ClaimInv'
  BY <1>1, Zenon DEF IInv, AccountInv, ClaimInv
<1>4. ProcInv'
  <2>1. Publish(directory)' = Publish(directory')
    BY Zenon DEF Publish
  <2> QED
    BY <2>1, Zenon DEF IInv, ProcInv
<1>5. Onward
  <2>1. now' \in Nat /\ proc.as \in Nat
    BY Numbers, Later, Zenon
  <2> QED
    BY <1>1, <2>1, Numbers, Zenon DEF Onward
<1>6. ASSUME NEW u \in Tasks PROVE Aside(u)
  BY <1>1, Own, Zenon DEF Aside, PlaceInv, InFlight
<1> QED
  BY <1>1, <1>2, <1>3, <1>4, <1>5, <1>6, WorldStep, Zenon

LEMMA TickStep ==
    ASSUME IInv, Tick
    PROVE  IInv'
<1>1. now' \in 0..MaxTime /\ now <= now'
  BY Numbers, SMTT(30) DEF Tick
<1>2. UNCHANGED <<scene, task, store, events, directory, proc, issued>>
  BY Zenon DEF Tick
<1>3. /\ events' \in 0..MaxEvents /\ DOMAIN directory' = Services
      /\ \A x \in issued' : TokenOK(x)
  BY <1>2, Zenon DEF IInv, StateInv
<1>4. Publish(directory') \subseteq proc'.published
  BY <1>2, Zenon DEF IInv, ProcInv, Publish
<1>5. /\ UNCHANGED <<scene, task, store>>
      /\ DOMAIN proc' = DOMAIN proc /\ proc'.as = proc.as /\ proc'.targets = proc.targets
      /\ proc.published \subseteq proc'.published
  BY <1>2, Zenon
<1> QED
  BY <1>1, <1>3, <1>4, <1>5, UnnoticedStep, Zenon

LEMMA GrantStep ==
    ASSUME IInv, NEW d \in Dids, NEW k, Grant(d, k)
    PROVE  IInv'
<1>1. events' \in 0..MaxEvents
  BY Counted, Zenon DEF Grant
<1>2. UNCHANGED <<scene, now, directory, store, proc, task>>
  BY Zenon DEF Grant
<1>3. TokenOK(issue_access_token(d, k, proc.as, now))
  BY Numbers, DpopAssumption, SMTT(30) DEF TokenOK, issue_access_token
<1>4. \A x \in issued' : TokenOK(x)
  BY <1>3, Zenon DEF Grant, IInv, StateInv
<1>5. now' \in 0..MaxTime /\ now <= now' /\ DOMAIN directory' = Services
  BY <1>2, Numbers, Zenon DEF IInv, StateInv
<1>6. Publish(directory') \subseteq proc'.published
  BY <1>2, Zenon DEF IInv, ProcInv, Publish
<1>7. /\ UNCHANGED <<scene, task, store>>
      /\ DOMAIN proc' = DOMAIN proc /\ proc'.as = proc.as /\ proc'.targets = proc.targets
      /\ proc.published \subseteq proc'.published
  BY <1>2, Zenon
<1> QED
  BY <1>1, <1>4, <1>5, <1>6, <1>7, UnnoticedStep, Zenon

\* What was published stays in the history of the process.
LEMMA DirectoryStep ==
    ASSUME IInv, NEW s \in Services, NEW url, UpdateDirectory(s, url)
    PROVE  IInv'
<1>1. events' \in 0..MaxEvents
  BY Counted, Zenon DEF UpdateDirectory
<1>2. UNCHANGED <<scene, now, store, issued, task>>
  BY Zenon DEF UpdateDirectory
<1>3. PICK told : told = Publish(directory')
  BY Zenon
<1>4. proc' = [proc EXCEPT !.published = @ \cup told]
  BY <1>3, Zenon DEF UpdateDirectory
<1>5. DOMAIN proc = {"as", "keys", "targets", "published"}
  BY Zenon DEF IInv, StateInv
<1>6. /\ DOMAIN proc' = DOMAIN proc /\ proc'.as = proc.as /\ proc'.targets = proc.targets
      /\ proc'.published = proc.published \cup told
  BY <1>4, <1>5, Zenon
<1>7. DOMAIN directory' = Services
  BY Zenon DEF IInv, StateInv, UpdateDirectory
<1>8. now' \in 0..MaxTime /\ now <= now' /\ \A x \in issued' : TokenOK(x)
  <2>1. now \in 0..MaxTime /\ now <= now
    BY Numbers, Zenon DEF IInv, StateInv
  <2> QED
    BY <1>2, <2>1, Zenon DEF IInv, StateInv
<1>9. /\ UNCHANGED <<scene, task, store>>
      /\ proc.published \subseteq proc'.published /\ Publish(directory') \subseteq proc'.published
  BY <1>2, <1>3, <1>6, Zenon
<1> QED
  BY <1>1, <1>6, <1>7, <1>8, <1>9, UnnoticedStep, Zenon

\* A row of accounts is updated; did and handle are as they were.
LEMMA SetAccountStep ==
    ASSUME IInv, NEW a \in accounts, NEW new, SetAccount(a, new), events' \in 0..MaxEvents,
           new.did = a.did, new.handle = a.handle, new.down \in BOOLEAN,
           DOMAIN new = {"did", "handle", "phc", "down"},
           scene.server = "worker" => ~new.down
    PROVE  IInv'
<1>1. /\ UNCHANGED <<scene, now, directory, claims, prefs, jtis, proc, issued, pc, req, loc, reply>>
      /\ accounts' = (accounts \ {a}) \cup {new} /\ Witness(accounts')
  BY Zenon DEF SetAccount
<1>2. \A b \in accounts' : \E c \in accounts : c.did = b.did /\ c.handle = b.handle
  BY <1>1, Zenon
<1>3. PICK table : table = accounts'
  BY Zenon
<1>4. /\ DOMAIN since' = Tasks
      /\ \A u \in Tasks :
           /\ DOMAIN since'[u] = {"at", "done", "seen"}
           /\ since'[u].at = since[u].at /\ since'[u].done = since[u].done
           /\ since[u].seen \subseteq since'[u].seen
           /\ InFlight(u) => accounts' \in since'[u].seen
  <2>1. Witness(table)
    BY <1>1, <1>3, Zenon
  <2>2. DOMAIN since' = Tasks
    BY <2>1, Zenon DEF Witness
  <2> QED
    BY <1>3, <2>1, <2>2, WitnessKeeps, Zenon
<1>5. Onward
  <2>1. now' \in Nat /\ now <= now' /\ proc'.as \in Nat /\ proc.as <= proc'.as
    BY <1>1, Numbers, Zenon
  <2> QED
    BY <1>1, <1>2, <1>4, <2>1, Zenon DEF Onward
<1>6. ASSUME NEW u \in Tasks PROVE Aside(u)
  BY <1>1, <1>4, Zenon DEF Aside, InFlight
<1>7. StateInv'
  BY <1>1, <1>4, Zenon DEF IInv, StateInv, TokenOK
<1>8. AccountInv'
  <2>1. AccountInv
    BY Zenon DEF IInv
  <2>2. ASSUME NEW b \in accounts', NEW c \in accounts', b.did = c.did PROVE b = c
    BY <1>1, <2>1, <2>2, Zenon DEF AccountInv
  <2>3. \A b \in accounts' : /\ DOMAIN b = {"did", "handle", "phc", "down"}
                             /\ b.did \in Dids /\ b.down \in BOOLEAN
    BY <1>1, <2>1, Zenon DEF AccountInv
  <2>4. scene'.server = "worker" => \A b \in accounts' : ~b.down
    BY <1>1, <2>1, Zenon DEF AccountInv
  <2> QED
    BY <2>2, <2>3, <2>4, Zenon DEF AccountInv
<1>9. ProcInv'
  BY <1>1, Zenon DEF IInv, ProcInv, Publish
<1>10. ClaimInv'
  <2>1. ASSUME NEW b \in accounts'
        PROVE  /\ [did |-> b.did, label |-> b.handle] \in claims
               /\ \A c \in claims : c.did = b.did => c.label = b.handle
    <3>1. PICK e \in accounts : e.did = b.did /\ e.handle = b.handle
      BY <1>2, Zenon
    <3>2. [did |-> e.did, label |-> e.handle] = [did |-> b.did, label |-> b.handle]
      BY <3>1, Zenon
    <3> QED
      BY <3>1, <3>2, Zenon DEF IInv, ClaimInv
  <2> QED
    BY <1>1, <2>1, Zenon DEF ClaimInv
<1> QED
  BY <1>1, <1>5, <1>6, <1>7, <1>8, <1>9, <1>10, WorldStep, Zenon

\* Nothing on Workers takes an account down.
LEMMA NoTakedown ==
    ASSUME IInv, Event("takedown")
    PROVE  scene.server # "worker"
BY SceneAssumption, Zenon DEF IInv, StateInv, Event, SceneOK

LEMMA AccountSteps ==
    ASSUME IInv, NEW a \in accounts, NEW p,
           set_takedown(a) \/ clear_takedown(a) \/ update_password(a, p)
    PROVE  IInv'
<1>1. /\ DOMAIN a = {"did", "handle", "phc", "down"} /\ a.down \in BOOLEAN
      /\ scene.server = "worker" => ~a.down
  BY Zenon DEF IInv, AccountInv
<1>2. CASE set_takedown(a)
  <2>1. PICK new : new = [a EXCEPT !.down = TRUE]
    BY Zenon
  <2>2. /\ new.did = a.did /\ new.handle = a.handle /\ new.down \in BOOLEAN
        /\ DOMAIN new = {"did", "handle", "phc", "down"}
    BY <1>1, <2>1, Zenon
  <2>3. SetAccount(a, new) /\ events' \in 0..MaxEvents /\ scene.server # "worker"
    BY <1>2, <2>1, Counted, NoTakedown, Zenon DEF set_takedown
  <2> QED
    BY <2>2, <2>3, SetAccountStep, Zenon
<1>3. CASE clear_takedown(a)
  <2>1. PICK new : new = [a EXCEPT !.down = FALSE]
    BY Zenon
  <2>2. /\ new.did = a.did /\ new.handle = a.handle /\ new.down \in BOOLEAN
        /\ DOMAIN new = {"did", "handle", "phc", "down"}
    BY <1>1, <2>1, Zenon
  <2>3. SetAccount(a, new) /\ events' \in 0..MaxEvents /\ scene.server # "worker"
    BY <1>3, <2>1, Counted, NoTakedown, Zenon DEF clear_takedown
  <2> QED
    BY <2>2, <2>3, SetAccountStep, Zenon
<1>4. CASE update_password(a, p)
  <2>1. PICK new : new = [a EXCEPT !.phc = p]
    BY Zenon
  <2>2. /\ new.did = a.did /\ new.handle = a.handle /\ new.down = a.down
        /\ DOMAIN new = {"did", "handle", "phc", "down"}
    BY <1>1, <2>1, Zenon
  <2>3. SetAccount(a, new) /\ events' \in 0..MaxEvents
    BY <1>4, <2>1, Counted, Zenon DEF update_password
  <2> QED
    BY <1>1, <2>2, <2>3, SetAccountStep, Zenon
<1> QED
  BY <1>2, <1>3, <1>4, Zenon

\* The process is new: what it had cached is gone, and so is every handler.
LEMMA RestartStep ==
    ASSUME IInv, load_or_create_signing_key
    PROVE  IInv'
<1>1. PICK key \in Nat : /\ Restart(key) /\ key \in 1..MaxKeys /\ proc.as <= key
  <2>1. proc.as \in 1..MaxKeys
    BY Zenon DEF IInv, StateInv
  <2> QED
    BY <2>1, Numbers, SMTT(30) DEF load_or_create_signing_key
<1>2. /\ UNCHANGED <<scene, now, directory, store, issued, req, loc, since, reply>>
      /\ proc' = Start(key, directory) /\ Event("restart")
      /\ pc' = [u \in Tasks |-> IF pc[u] \in {"idle", "done"} THEN pc[u] ELSE "gone"]
  BY <1>1, Zenon DEF Restart
<1>3. /\ scene' = scene /\ now' = now /\ directory' = directory /\ accounts' = accounts
      /\ claims' = claims /\ prefs' = prefs /\ jtis' = jtis /\ issued' = issued
      /\ req' = req /\ loc' = loc /\ since' = since /\ reply' = reply
  BY <1>2, Zenon DEF store
<1>4. /\ DOMAIN proc' = {"as", "keys", "targets", "published"} /\ proc'.as = key
      /\ proc'.targets = {} /\ proc'.published = Publish(directory)
  BY <1>2, Zenon DEF Start
<1>5. \A u \in Tasks : /\ pc'[u] = pc[u] \/ (pc'[u] = "gone" /\ pc[u] \notin {"idle", "done"})
                       /\ pc'[u] \in {"idle", "done", "gone"}
  BY <1>2, Zenon
<1>6. Onward
  <2>1. now' \in Nat /\ now <= now' /\ proc'.as \in Nat /\ proc.as <= proc'.as
    BY <1>1, <1>3, <1>4, Numbers, Zenon
  <2> QED
    BY <1>3, <2>1, Zenon DEF Onward
<1>7. ASSUME NEW u \in Tasks PROVE Aside(u)
  BY <1>3, <1>5, Own, Zenon DEF Aside, InFlight, PlaceInv
<1>8. StateInv'
  <2>1. \A x \in issued' : TokenOK(x)'
    <3>1. \A x \in issued : TokenOK(x)
      BY Zenon DEF IInv, StateInv
    <3> QED
      BY <1>3, <1>6, <3>1, Numbers, TokenStays, Zenon
  <2>2. events' \in 0..MaxEvents
    BY <1>2, Counted, Zenon
  <2>3. DOMAIN pc' = Tasks
    BY <1>2, Zenon
  <2> QED
    BY <1>1, <1>3, <1>4, <2>1, <2>2, <2>3, ZenonT(30) DEF IInv, StateInv
<1>9. AccountInv' /\ ClaimInv'
  BY <1>3, Zenon DEF IInv, AccountInv, ClaimInv
<1>10. ProcInv'
  BY <1>3, <1>4, Zenon DEF ProcInv, Publish
<1> QED
  BY <1>3, <1>6, <1>7, <1>8, <1>9, <1>10, WorldStep, Zenon

\* A handler is dropped; a write that it queued is still to come.
LEMMA DropStep ==
    ASSUME IInv, NEW t \in Tasks, Drop(t)
    PROVE  IInv'
<1>0. /\ NoEffect /\ Still /\ InFlight(t) /\ pc[t] \notin {"jti orphan", "put orphan"}
  BY NoEffectStill, Zenon DEF Drop, InFlight
<1>1. PICK label : label = IF pc[t] = "jti" THEN "jti orphan"
                           ELSE IF pc[t] = "put" THEN "put orphan" ELSE "gone"
  BY Zenon
<1>2. Goto(t, label)
  BY <1>1, Zenon DEF Drop
<1>3. Moves(t, label) /\ loc' = loc
  BY <1>2, GotoMoves, Zenon
<1>4. CASE pc[t] \in {"jti", "put"}
  <2>0. label \in {"jti orphan", "put orphan"} /\ (label = "jti orphan" <=> pc[t] = "jti")
    BY <1>1, <1>4, Zenon
  <2>1. AuthInv(t) /\ PrefsInv(t) /\ pc[t] # "upstream"
    BY <1>4, Own, Zenon
  <2>2. /\ loc'[t].sent = {} /\ ForwardedAsAddressed(t)'
        /\ since'[t].done \subseteq Acknowledged'
        /\ req' = req /\ scene' = scene /\ jtis' = jtis /\ pc'[t] = label
    BY <1>0, <1>3, <2>1, PlaceMoves, Zenon
  <2>3. AuthInv(t)'
    BY <1>3, <1>4, <2>0, <2>1, <2>2, Zenon DEF AuthInv, Known
  <2>4. SessionInv(t)' /\ ServiceInv(t)'
    BY <2>0, <2>2, Zenon DEF SessionInv, ServiceInv
  <2>5. PrefsInv(t)'
    BY <1>4, <2>0, <2>1, <2>2, Zenon DEF PrefsInv
  <2> QED
    BY <1>0, <1>3, <1>4, <2>0, <2>2, <2>3, <2>4, <2>5, MoveStep, ZenonT(30)
<1>5. CASE pc[t] \notin {"jti", "put"}
  <2>0. label = "gone"
    BY <1>1, <1>5, Zenon
  <2>1. Turn(t) /\ pc'[t] = "gone"
    BY <1>0, <1>3, <2>0, MovesTurn, Zenon
  <2>2. /\ req' = req /\ since' = since /\ reply' = reply
        /\ accounts' = accounts /\ proc'.published = proc.published
    BY <1>0, <1>3, Zenon DEF Moves, Still, store
  <2>3. Aside(t)
    BY <1>0, <1>3, <2>1, <2>2, Own, Zenon DEF Aside, InFlight, PlaceInv
  <2>4. TaskInv(t)'
    BY <2>1, <2>3, TurnOnward, AsideTask, Zenon
  <2>5. reply'[t].status # "OK"
    BY <1>0, <2>2, NoReplyYet, Zenon DEF InFlight
  <2> QED
    BY <1>0, <1>3, <2>1, <2>4, <2>5, StillTurn, Zenon
<1> QED
  BY <1>4, <1>5, Zenon

-----------------------------------------------------------------------------
(* A request comes in. *)

\* A request as it comes in: RequestInv and ProofInv, before it is received.
Wellformed(t, s) ==
    /\ DOMAIN s = DOMAIN NoRequest
    /\ s.scheme \in {"none", "bearer", "dpop"}
    /\ s.wellformed \in BOOLEAN /\ s.exp \subseteq Int
    /\ s.to.method = "plc" => s.to \in Services
    /\ s.nsid = "createSession" => s.scheme = "none"
    /\ s.scheme = "none" => s.token = {}
    /\ \A x \in s.token : TokenOK(x) /\ s.token = {x}
    /\ s.scheme # "dpop" => s.proof = {}
    /\ s.scheme = "dpop" => s.token # {}
    /\ \A p \in s.proof :
         /\ s.proof = {p}
         /\ TokenOK(p.ath)
         /\ p.iat \in Int /\ \A l \in p.learned : l \in 0..now /\ p.learned = {l}
         /\ \/ p.jti = t /\ \A x \in s.token : x.scope = "oauth"
            \/ p.jti \in Tasks \ {t} /\ p \in req[p.jti].proof

\* The proofs of a client.
LEMMA ProofsOK ==
    ASSUME IInv, NEW t, NEW r, NEW x \in issued, NEW p \in Proofs(t, r, x)
    PROVE  /\ p.jti = t /\ TokenOK(p.ath) /\ p.iat \in Int
           /\ \A l \in p.learned : l \in 0..now /\ p.learned = {l}
<1>0. \A y \in issued : TokenOK(y)
  BY Zenon DEF IInv, StateInv
<1>1. now \in Nat
  BY Numbers, Zenon
<1>2. ASSUME NEW jkt, NEW htu, NEW ath \in issued, NEW learned, NEW iat \in Int,
             p = [jti |-> t, jkt |-> jkt, htu |-> htu, ath |-> ath, learned |-> learned, iat |-> iat],
             learned = {} \/ \E l \in 0..now : learned = {l}
      PROVE  /\ p.jti = t /\ TokenOK(p.ath) /\ p.iat \in Int
             /\ \A l \in p.learned : l \in 0..now /\ p.learned = {l}
  <2>1. p.jti = t /\ p.ath = ath /\ p.iat = iat /\ p.learned = learned
    BY <1>2, Zenon
  <2> QED
    BY <1>0, <1>2, <2>1, Zenon
<1>3. PICK n \in 0..now : n = now /\ n \in Int
  BY <1>1, SMTT(30)
<1>4. CASE \E l \in 0..now, i \in {now + k : k \in Skews} \cap Nat :
             p = [jti |-> t, jkt |-> x.jkt, htu |-> r.nsid, ath |-> x, learned |-> {l}, iat |-> i]
  <2>1. PICK l \in 0..now, i \in {now + k : k \in Skews} \cap Nat :
             p = [jti |-> t, jkt |-> x.jkt, htu |-> r.nsid, ath |-> x, learned |-> {l}, iat |-> i]
    BY <1>4, Zenon
  <2>2. i \in Int
    BY SMTT(30)
  <2> QED
    BY <1>2, <2>1, <2>2, Zenon
<1>5. CASE \E k \in Keys :
             p = [jti |-> t, jkt |-> k, htu |-> r.nsid, ath |-> x, learned |-> {now}, iat |-> now]
  BY <1>2, <1>3, <1>5, Zenon
<1>6. CASE \E y \in issued :
             p = [jti |-> t, jkt |-> x.jkt, htu |-> r.nsid, ath |-> y, learned |-> {now}, iat |-> now]
  <2>1. PICK y \in issued :
             p = [jti |-> t, jkt |-> x.jkt, htu |-> r.nsid, ath |-> y, learned |-> {n}, iat |-> n]
    BY <1>3, <1>6, Zenon
  <2> QED
    BY <1>2, <1>3, <2>1, Zenon
<1>7. CASE p = [jti |-> t, jkt |-> x.jkt, htu |-> "elsewhere", ath |-> x,
                learned |-> {now}, iat |-> now]
  BY <1>2, <1>3, <1>7, Zenon
<1>8. CASE p = [jti |-> t, jkt |-> x.jkt, htu |-> r.nsid, ath |-> x, learned |-> {}, iat |-> now]
  BY <1>2, <1>3, <1>8, Zenon
<1> QED
  BY <1>4, <1>5, <1>6, <1>7, <1>8, SMTT(30) DEF Proofs

LEMMA SignedOK ==
    ASSUME IInv, NEW t \in Tasks, pc[t] = "idle", NEW r \in scene.asks[t], NEW s \in Signed(t, r)
    PROVE  Wellformed(t, s)
<1>0. RequestOK(r) /\ \A x \in issued : TokenOK(x)
  BY SceneAssumption, Zenon DEF IInv, StateInv, SceneOK
<1>1. /\ DOMAIN r = DOMAIN NoRequest
      /\ r.scheme \in {"none", "bearer", "dpop", "retry"} /\ r.token = {} /\ r.proof = {}
      /\ r.wellformed \in BOOLEAN /\ r.exp \subseteq Int
      /\ r.nsid = "createSession" => r.scheme = "none"
      /\ r.to.method = "plc" => r.to \in Services
  BY <1>0, Zenon DEF RequestOK
<1>2. CASE r.scheme = "none"
  <2>1. s = r
    BY <1>2, Zenon DEF Signed
  <2> QED
    BY <1>1, <1>2, <2>1, Zenon DEF Wellformed
<1>3. CASE r.scheme = "bearer"
  <2>1. PICK x \in issued : s = [r EXCEPT !.token = {x}]
    BY <1>3, Zenon DEF Signed
  <2>2. /\ DOMAIN s = DOMAIN r /\ s.scheme = r.scheme /\ s.wellformed = r.wellformed
        /\ s.exp = r.exp /\ s.nsid = r.nsid /\ s.to = r.to
        /\ s.token = {x} /\ s.proof = r.proof
    BY <1>1, <2>1, Zenon DEF NoRequest
  <2> QED
    BY <1>0, <1>1, <1>3, <2>2, Zenon DEF Wellformed
<1>4. CASE r.scheme = "dpop"
  <2>u. s \in UNION {{[r EXCEPT !.token = {x}, !.proof = p] :
                        p \in {{}} \cup {{q} : q \in Proofs(t, r, x)}} :
                     x \in {y \in issued : y.scope = "oauth"}}
    BY <1>4, Zenon DEF Signed
  <2>0. PICK x \in issued : /\ x.scope = "oauth"
                            /\ s \in {[r EXCEPT !.token = {x}, !.proof = p] :
                                         p \in {{}} \cup {{q} : q \in Proofs(t, r, x)}}
    BY <2>u, Zenon
  <2>1. PICK ps \in {{}} \cup {{q} : q \in Proofs(t, r, x)} :
               s = [r EXCEPT !.token = {x}, !.proof = ps]
    BY <2>0, Zenon
  <2>2. /\ DOMAIN s = DOMAIN r /\ s.scheme = r.scheme /\ s.wellformed = r.wellformed
        /\ s.exp = r.exp /\ s.nsid = r.nsid /\ s.to = r.to
        /\ s.token = {x} /\ s.proof = ps
    BY <1>1, <2>1, Zenon DEF NoRequest
  <2>3. ASSUME NEW p \in s.proof
        PROVE  /\ s.proof = {p} /\ TokenOK(p.ath) /\ p.iat \in Int /\ p.jti = t
               /\ \A l \in p.learned : l \in 0..now /\ p.learned = {l}
    <3>0. PICK q \in Proofs(t, r, x) : ps = {q}
      <4>1. ps # {}
        BY <2>2, <2>3, Zenon
      <4> QED
        BY <4>1, Zenon
    <3>1. p \in Proofs(t, r, x) /\ ps = {p}
      BY <2>2, <2>3, <3>0, Zenon
    <3>2. /\ p.jti = t /\ TokenOK(p.ath) /\ p.iat \in Int
          /\ \A l \in p.learned : l \in 0..now /\ p.learned = {l}
      BY <3>1, ProofsOK, SMTT(30)
    <3> QED
      BY <2>2, <3>1, <3>2, Zenon
  <2>4. \A y \in s.token : y = x
    BY <2>2, Zenon
  <2> QED
    BY <1>0, <1>1, <1>4, <2>0, <2>2, <2>3, <2>4, Zenon DEF Wellformed
<1>5. CASE r.scheme = "retry"
  <2>1. PICK q \in Sent : s = [r EXCEPT !.scheme = "dpop", !.token = {q.ath}, !.proof = {q}]
    BY <1>5, Zenon DEF Signed
  <2>2. /\ DOMAIN s = DOMAIN r /\ s.scheme = "dpop" /\ s.wellformed = r.wellformed
        /\ s.exp = r.exp /\ s.nsid = r.nsid /\ s.to = r.to
        /\ s.token = {q.ath} /\ s.proof = {q}
    BY <1>1, <2>1, Zenon DEF NoRequest
  <2>3. PICK u \in Tasks : q \in req[u].proof
    BY Zenon DEF Sent
  <2>4. ProofInv(u) /\ req[t] = NoRequest
    BY Own, Zenon DEF PlaceInv
  <2>5. /\ q.jti \in Tasks /\ q \in req[q.jti].proof /\ TokenOK(q.ath)
        /\ q.iat \in Int /\ \A l \in q.learned : l \in 0..now /\ q.learned = {l}
    BY <2>3, <2>4, Zenon DEF ProofInv
  <2>6. q.jti # t
    <3>1. req[t].proof = {}
      BY <2>4, Empties, Zenon
    <3> QED
      BY <2>5, <3>1, Zenon
  <2>7. r.nsid # "createSession"
    BY <1>1, <1>5, Zenon
  <2> QED
    BY <1>1, <2>2, <2>5, <2>6, <2>7, Zenon DEF Wellformed
<1> QED
  BY <1>1, <1>2, <1>3, <1>4, <1>5, ZenonT(60)

LEMMA ReceiveStep ==
    ASSUME IInv, NEW t \in Tasks, NEW s, Wellformed(t, s), Receive(t, s)
    PROVE  IInv'
<1>0. /\ DOMAIN pc = Tasks /\ DOMAIN req = Tasks /\ DOMAIN loc = Tasks
      /\ DOMAIN since = Tasks /\ DOMAIN reply = Tasks
      /\ \A u \in Tasks : PlaceInv(u)
  BY Own, Zenon DEF IInv, StateInv
<1>1. /\ pc[t] = "idle" /\ UNCHANGED <<outside, store, proc, issued, loc, reply>>
      /\ pc' = [pc EXCEPT ![t] = "start"] /\ req' = [req EXCEPT ![t] = s]
      /\ since' = [since EXCEPT ![t] = [at |-> now, done |-> Acknowledged, seen |-> {accounts}]]
  BY Zenon DEF Receive, NoEffect
<1>2. /\ scene' = scene /\ now' = now /\ events' = events /\ directory' = directory
      /\ accounts' = accounts /\ claims' = claims /\ prefs' = prefs /\ jtis' = jtis
      /\ proc' = proc /\ issued' = issued /\ loc' = loc /\ reply' = reply
  BY <1>1, Zenon DEF outside, store
<1>3. /\ pc'[t] = "start" /\ req'[t] = s
      /\ DOMAIN pc' = Tasks /\ DOMAIN req' = Tasks /\ DOMAIN since' = Tasks
      /\ \A u \in Tasks \ {t} : pc'[u] = pc[u] /\ req'[u] = req[u] /\ since'[u] = since[u]
  BY <1>0, <1>1, Zenon
<1>4. /\ DOMAIN since'[t] = {"at", "done", "seen"} /\ since'[t].at = now
      /\ since'[t].done = Acknowledged /\ since'[t].seen = {accounts}
  BY <1>0, <1>1, Zenon
<1>5. Onward
  <2>1. now' \in Nat /\ now <= now' /\ proc'.as \in Nat /\ proc.as <= proc'.as
    BY <1>2, Numbers, Zenon
  <2> QED
    BY <1>1, <1>2, <1>3, <2>1, Zenon DEF Onward
<1>6. ASSUME NEW u \in Tasks \ {t} PROVE TaskInv(u)'
  <2>1. Aside(u)
    BY <1>0, <1>2, <1>3, Zenon DEF Aside, InFlight, PlaceInv
  <2> QED
    BY <1>5, <2>1, AsideTask, Zenon
<1>7. reply[t] = NoReply /\ reply[t].status = "none" /\ loc[t] = NoLocals
  BY <1>0, <1>1, NoReplyYet, Zenon DEF PlaceInv
<1>8. TaskInv(t)'
  <2>1. RequestInv(t)'
    BY <1>2, <1>3, Zenon DEF Wellformed, RequestInv, TokenOK
  <2>2. ProofInv(t)'
    <3>1. ASSUME NEW p \in s.proof
          PROVE  p.jti \in Tasks /\ p \in req'[p.jti].proof
      BY <1>3, <3>1, Zenon DEF Wellformed
    <3> QED
      BY <1>2, <1>3, <3>1, ZenonT(60) DEF Wellformed, ProofInv, TokenOK
  <2>3. PlaceInv(t)'
    <3>1. now \in 0..now
      BY Numbers, Zenon
    <3> QED
      BY <1>2, <1>3, <1>4, <1>7, <3>1, Zenon DEF PlaceInv, InFlight
  <2>4. loc'[t].did = Nobody /\ loc'[t].sent = {}
    BY <1>2, <1>7, Empties, Zenon
  <2>5. AuthInv(t)' /\ RefusedForGood(t)' /\ SessionInv(t)'
    BY <1>2, <1>3, <1>7, <2>4, Zenon DEF AuthInv, RefusedForGood, SessionInv, Known
  <2>6. EarnedInv(t)' /\ NamedInv(t)' /\ GivenAsAsked(t)' /\ ReadBackInv(t)'
    BY <1>2, <1>7, Zenon DEF EarnedInv, NamedInv, GivenAsAsked, ReadBackInv, Replied
  <2>7. ServiceInv(t)' /\ ForwardedAsAddressed(t)'
    BY <1>3, <2>4, UnsentForwarded, Zenon DEF ServiceInv
  <2>8. PrefsInv(t)'
    BY <1>2, <1>3, <1>4, ZenonT(60) DEF PrefsInv, Acknowledged
  <2> QED
    BY <2>1, <2>2, <2>3, <2>5, <2>6, <2>7, <2>8, Zenon DEF TaskInv
<1>9. StateInv'
  BY <1>0, <1>2, <1>3, ZenonT(30) DEF IInv, StateInv, TokenOK
<1>10. AccountInv' /\ ProcInv' /\ ClaimInv'
  BY <1>2, Zenon DEF IInv, AccountInv, ProcInv, ClaimInv, Publish
<1>11. ReplayInv'
  <2>1. ASSUME NEW j \in jtis'
        PROVE  \E u \in Tasks : /\ pc'[u] \notin {"idle", "start", "jti", "jti orphan"}
                                /\ \E q \in req'[u].proof : q.jti = j
    <3>1. PICK u \in Tasks : /\ pc[u] \notin {"idle", "start", "jti", "jti orphan"}
                             /\ \E q \in req[u].proof : q.jti = j
      BY <1>2, <2>1, Zenon DEF IInv, ReplayInv
    <3>2. pc'[u] = pc[u] /\ req'[u] = req[u]
      BY <1>1, <1>3, <3>1, Zenon
    <3> QED
      BY <3>1, <3>2, Zenon
  <2> QED
    BY <2>1, Zenon DEF ReplayInv
<1>12. OnceInv'
  <2>1. loc'[t].did = Nobody
    BY <1>2, <1>7, Empties, Zenon
  <2>2. ASSUME NEW u \in Tasks, NEW v \in Tasks, NEW p \in req'[u].proof,
               u # v, p \in req'[v].proof
        PROVE  loc'[u].did = Nobody \/ loc'[v].did = Nobody
    <3>1. CASE u = t \/ v = t
      BY <2>1, <3>1, Zenon
    <3>2. CASE u # t /\ v # t
      BY <1>2, <1>3, <2>2, <3>2, ZenonT(30) DEF IInv, OnceInv
    <3> QED
      BY <3>1, <3>2, Zenon
  <2> QED
    BY <2>2, Zenon DEF OnceInv
<1>13. UniqueRows' /\ RowInv' /\ KeptInv'
  <2>1. ASSUME NEW d PROVE Puts(d)' \cap Acknowledged' \subseteq Acknowledged
    BY <1>2, Zenon DEF Acknowledged
  <2> QED
    BY <1>2, <1>5, <2>1, QuietPrefs, Zenon
<1> QED
  BY <1>6, <1>8, <1>9, <1>10, <1>11, <1>12, <1>13, ZenonT(30) DEF IInv

-----------------------------------------------------------------------------
(* The invariant. *)

LEMMA InitInv ==
    ASSUME Init
    PROVE  IInv
<1>0. /\ scene \in Scenes /\ now = 0 /\ events = 0 /\ accounts = scene.accounts
      /\ claims = {[did |-> a.did, label |-> a.handle] : a \in accounts}
      /\ prefs = {} /\ jtis = {} /\ directory \in scene.directories
      /\ proc = Start(1, directory) /\ issued = scene.issued
      /\ pc = [t \in Tasks |-> "idle"] /\ req = [t \in Tasks |-> NoRequest]
      /\ loc = [t \in Tasks |-> NoLocals]
      /\ since = [t \in Tasks |-> [at |-> 0, done |-> {}, seen |-> {}]]
      /\ reply = [t \in Tasks |-> NoReply]
  BY Zenon DEF Init
<1>1. SceneOK(scene)
  BY <1>0, SceneAssumption, Zenon
<1>2. /\ DOMAIN proc = {"as", "keys", "targets", "published"} /\ proc.as = 1
      /\ proc.targets = {} /\ proc.published = Publish(directory)
  BY <1>0, Zenon DEF Start
<1>3. StateInv
  <2>1. ASSUME NEW x \in issued PROVE TokenOK(x)
    <3>1. /\ x.scope \in {"access", "refresh", "oauth"} /\ x.sub \in Dids /\ x.exp \in Int
          /\ x.scope = "oauth" => x.key = 1
      BY <1>0, <1>1, <2>1, Zenon DEF SceneOK
    <3>2. 1 \in 1..1
      BY Later, Zenon
    <3> QED
      BY <1>2, <3>1, <3>2, Zenon DEF TokenOK
  <2>2. now \in 0..MaxTime /\ events \in 0..MaxEvents /\ 1 \in 1..MaxKeys
    BY <1>0, StartNumbers, Zenon
  <2>3. DOMAIN directory = Services
    BY <1>0, <1>1, Zenon DEF SceneOK
  <2> QED
    BY <1>0, <1>2, <2>1, <2>2, <2>3, Zenon DEF StateInv
<1>4. AccountInv
  BY <1>0, <1>1, Zenon DEF SceneOK, AccountInv
<1>5. ProcInv /\ ReplayInv /\ UniqueRows /\ RowInv
  BY <1>0, <1>2, Zenon DEF ProcInv, ReplayInv, UniqueRows, RowInv
<1>6. ClaimInv
  <2>1. ASSUME NEW a \in accounts, NEW c \in claims, c.did = a.did PROVE c.label = a.handle
    <3>1. PICK b \in accounts : c = [did |-> b.did, label |-> b.handle]
      BY <1>0, Zenon
    <3>2. c.did = b.did /\ c.label = b.handle
      BY <3>1, Zenon
    <3> QED
      BY <1>4, <2>1, <3>2, Zenon DEF AccountInv
  <2> QED
    BY <1>0, <2>1, Zenon DEF ClaimInv
<1>7. ASSUME NEW t \in Tasks
      PROVE  /\ pc[t] = "idle" /\ req[t] = NoRequest /\ loc[t] = NoLocals /\ reply[t] = NoReply
             /\ reply[t].status = "none"
             /\ req[t].scheme = "none" /\ req[t].token = {} /\ req[t].proof = {} /\ req[t].exp = {}
             /\ req[t].to.method = "none" /\ req[t].wellformed = TRUE /\ req[t].nsid = "none"
             /\ loc[t].did = Nobody /\ loc[t].sent = {}
             /\ DOMAIN since[t] = {"at", "done", "seen"} /\ since[t].at = 0 /\ since[t].done = {}
  <2>1. /\ pc[t] = "idle" /\ req[t] = NoRequest /\ loc[t] = NoLocals /\ reply[t] = NoReply
        /\ since[t] = [at |-> 0, done |-> {}, seen |-> {}]
    BY <1>0, Zenon
  <2>2. /\ req[t].scheme = "none" /\ req[t].token = {} /\ req[t].proof = {} /\ req[t].exp = {}
        /\ req[t].to.method = "none" /\ req[t].wellformed = TRUE /\ req[t].nsid = "none"
    BY <2>1, Empties, Zenon
  <2>3. reply[t].status = "none" /\ loc[t].did = Nobody /\ loc[t].sent = {}
    BY <2>1, Empties, Zenon
  <2>4. DOMAIN since[t] = {"at", "done", "seen"} /\ since[t].at = 0 /\ since[t].done = {}
    BY <2>1, Empties, Zenon
  <2> QED
    BY <2>1, <2>2, <2>3, <2>4, Zenon
<1>8. OnceInv /\ KeptInv
  BY <1>7, Zenon DEF OnceInv, KeptInv, Acknowledged
<1>9. ASSUME NEW t \in Tasks PROVE TaskInv(t)
  <2>1. RequestInv(t) /\ ProofInv(t)
    BY <1>7, Zenon DEF RequestInv, ProofInv
  <2>2. PlaceInv(t)
    <3>1. 0 \in 0..now
      BY <1>0, StartNumbers, Zenon
    <3> QED
      BY <1>7, <3>1, Zenon DEF PlaceInv, InFlight
  <2>3. AuthInv(t) /\ RefusedForGood(t) /\ SessionInv(t)
    BY <1>7, Zenon DEF AuthInv, RefusedForGood, SessionInv, Known
  <2>4. EarnedInv(t) /\ NamedInv(t) /\ GivenAsAsked(t) /\ ReadBackInv(t)
    BY <1>7, Zenon DEF EarnedInv, NamedInv, GivenAsAsked, ReadBackInv, Replied
  <2>5. ServiceInv(t) /\ ForwardedAsAddressed(t)
    BY <1>7, Zenon DEF ServiceInv, ForwardedAsAddressed
  <2>6. PrefsInv(t)
    BY <1>7, Zenon DEF PrefsInv
  <2> QED
    BY <2>1, <2>2, <2>3, <2>4, <2>5, <2>6, Zenon DEF TaskInv
<1> QED
  BY <1>3, <1>4, <1>5, <1>6, <1>8, <1>9, ZenonT(30) DEF IInv

LEMMA StutterInv ==
    ASSUME IInv, UNCHANGED vars
    PROVE  IInv'
<1>1. UNCHANGED <<scene, task, store, now, events, directory, proc, issued>>
  BY Zenon DEF vars, task, store
<1>2. now' \in 0..MaxTime /\ now <= now'
  BY <1>1, Numbers, Zenon DEF IInv, StateInv
<1>3. /\ events' \in 0..MaxEvents /\ DOMAIN directory' = Services
      /\ \A x \in issued' : TokenOK(x)
  BY <1>1, Zenon DEF IInv, StateInv
<1>4. Publish(directory') \subseteq proc'.published
  BY <1>1, Zenon DEF IInv, ProcInv, Publish
<1>5. /\ UNCHANGED <<scene, task, store>>
      /\ DOMAIN proc' = DOMAIN proc /\ proc'.as = proc.as /\ proc'.targets = proc.targets
      /\ proc.published \subseteq proc'.published
  BY <1>1, Zenon
<1> QED
  BY <1>2, <1>3, <1>4, <1>5, UnnoticedStep, Zenon

LEMMA NextInv ==
    ASSUME IInv, [Next]_vars
    PROVE  IInv'
<1>1. ASSUME NEW t \in Tasks, NEW r \in scene.asks[t], NEW s \in Signed(t, r), Receive(t, s)
      PROVE  IInv'
  <2>1. pc[t] = "idle"
    BY <1>1, Zenon DEF Receive
  <2>2. Wellformed(t, s)
    BY <2>1, SignedOK, Zenon
  <2> QED
    BY <1>1, <2>2, ReceiveStep, Zenon
<1>2. ASSUME NEW t \in Tasks, Serve(t)
      PROVE  IInv'
  BY <1>2, DesktopStep, OrphanJtiStep, EmbeddedStep, WorkerStep, Zenon DEF Serve
<1>3. ASSUME NEW t \in Tasks, Drop(t) \/ OrphanPut(t)
      PROVE  IInv'
  BY <1>3, DropStep, OrphanPutStep, Zenon
<1>4. ASSUME NEW a \in accounts, set_takedown(a) \/ clear_takedown(a)
      PROVE  IInv'
  BY <1>4, AccountSteps, Zenon
<1>5. ASSUME NEW a \in accounts, NEW p \in Passwords, update_password(a, p)
      PROVE  IInv'
  BY <1>5, AccountSteps, Zenon
<1>6. ASSUME NEW s \in Services, NEW url \in Endpoints, UpdateDirectory(s, url)
      PROVE  IInv'
  BY <1>6, DirectoryStep, Zenon
<1>7. ASSUME NEW d \in Dids, NEW k \in Keys, Grant(d, k)
      PROVE  IInv'
  BY <1>7, GrantStep, Zenon
<1>8. CASE load_or_create_signing_key \/ Tick
  BY <1>8, RestartStep, TickStep, Zenon
<1>9. CASE UNCHANGED vars
  BY <1>9, StutterInv, Zenon
<1> QED
  BY <1>1, <1>2, <1>3, <1>4, <1>5, <1>6, <1>7, <1>8, <1>9, ZenonT(30) DEF Next

\* Every reachable state of the three servers satisfies the invariant: what a handler
\* holds across its awaits is still good for what it goes on to do with it.
THEOREM AccessInvariant == Spec => []IInv
<1>1. Init => IInv
  BY InitInv, Zenon
<1>2. IInv /\ [Next]_vars => IInv'
  BY NextInv, Zenon
<1> QED
  BY <1>1, <1>2, PTL DEF Spec

-----------------------------------------------------------------------------
(* The properties. *)

\* extractor.rs, dpop.rs: a request is authorized by a proof for it, with its token and by
\* the token's key, and no proof authorizes two requests.
THEOREM ProofAuthorizesOnce == Spec => []AuthorizedOnce
<1>1. ASSUME IInv PROVE AuthorizedOnce
  <2>1. ASSUME NEW t \in Tasks, req[t].scheme = "dpop", loc[t].did # Nobody,
               NEW p \in req[t].proof, NEW x \in req[t].token
        PROVE  /\ loc[t].did = x.sub /\ p.ath = x /\ p.jkt = x.jkt /\ p.htu = req[t].nsid
               /\ \A u \in Tasks \ {t} : p \in req[u].proof => loc[u].did = Nobody
    <3>1. AuthInv(t) /\ OnceInv
      BY <1>1, Own, Zenon DEF IInv
    <3>2. ASSUME NEW u \in Tasks \ {t}, p \in req[u].proof PROVE loc[u].did = Nobody
      BY <2>1, <3>1, <3>2, Zenon DEF OnceInv
    <3> QED
      BY <2>1, <3>1, <3>2, Zenon DEF AuthInv
  <2> QED
    BY <2>1, Zenon DEF AuthorizedOnce
<1> QED
  BY <1>1, AccessInvariant, PTL

\* dpop.rs, nonce_is_valid: a client that follows the rules is not refused, whatever its
\* request meets on the way.
THEOREM FreshProofsAreAccepted == Spec => []FreshProofAccepted
<1>1. ASSUME IInv PROVE FreshProofAccepted
  <2>1. ASSUME NEW t \in Tasks, reply[t].status = "InvalidToken", ~loc[t].fault,
               req[t].scheme = "dpop", req[t].nsid # "refreshSession"
        PROVE  \E p \in req[t].proof, x \in req[t].token :
                 \/ x.exp <= reply[t].at \/ x.key # proc.as
                 \/ p.ath # x \/ p.jkt # x.jkt \/ p.htu # req[t].nsid
                 \/ p.learned = {} \/ \E l \in p.learned : reply[t].at - l > NonceWindow
                 \/ p.iat > reply[t].at + MaxProofAge \/ p.iat < reply[t].at - MaxProofAge
                 \/ \E u \in Tasks \ {t} : p \in req[u].proof
    <3>1. RefusedForGood(t) /\ RequestInv(t)
      BY <1>1, Zenon DEF IInv, TaskInv
    <3>2. ASSUME NEW x \in req[t].token, x.scope = "oauth", x.key < proc.as
          PROVE  x.key # proc.as
      <4>1. x.key \in 1..proc.as /\ proc.as \in Nat
        BY <1>1, <3>1, <3>2, Numbers, Zenon DEF RequestInv, TokenOK
      <4> QED
        BY <3>2, <4>1, SMTT(30)
    <3> QED
      BY <2>1, <3>1, <3>2, Zenon DEF RefusedForGood
  <2> QED
    BY <2>1, Zenon DEF FreshProofAccepted
<1> QED
  BY <1>1, AccessInvariant, PTL

\* createSession, refreshSession, getSession, resolveHandle: sessions are given, and accounts
\* named, only for an account that was active during the request, a login only with the
\* password it then had; and everything keeps its type.
THEOREM SessionsAreEarnedAlways == Spec => []SessionsAreEarned
<1>1. ASSUME IInv PROVE SessionsAreEarned
  <2>0. StateInv /\ AccountInv /\ ProcInv /\ UniqueRows
    BY <1>1, Zenon DEF IInv
  <2>1. ASSUME NEW t \in Tasks
        PROVE  /\ pc[t] = "done" <=> reply[t] # NoReply
               /\ pc[t] \in {"jti", "jti orphan"} => req[t].proof # {} /\ loc[t].did = Nobody
               /\ pc[t] \in {"lookup", "issue", "put", "put orphan", "get", "fetch", "key"} =>
                    loc[t].did \in Dids
               /\ pc[t] = "upstream" => scene.server = "worker" \/ loc[t].sent # {}
    <3>1. PlaceInv(t) /\ AuthInv(t) /\ ServiceInv(t)
      BY <1>1, Own, Zenon
    <3>2. pc[t] \in Known => loc[t].did \in Dids
      BY <1>1, CallerKnown, Zenon
    <3> QED
      BY <3>1, <3>2, Zenon DEF PlaceInv, AuthInv, ServiceInv, Known
  <2>2. TypeOK
    BY <2>0, <2>1, Zenon DEF TypeOK, StateInv, AccountInv, ProcInv, UniqueRows
  <2>3. \A t \in Tasks : EarnedInv(t) /\ NamedInv(t)
    BY <1>1, Zenon DEF IInv, TaskInv
  <2> QED
    BY <2>2, <2>3, Zenon DEF SessionsAreEarned, EarnedInv, NamedInv, Refreshing
<1> QED
  BY <1>1, AccessInvariant, PTL

\* The service proxy and getServiceAuth: a service token names its caller, its audience and
\* its method, ends soon, and goes to the addressed service only.
THEOREM ServiceTokensAreBoundAlways == Spec => []ServiceTokensAreBound
<1>1. ASSUME IInv PROVE ServiceTokensAreBound
  BY <1>1, Zenon DEF IInv, TaskInv, ServiceTokensAreBound
<1> QED
  BY <1>1, AccessInvariant, PTL

\* getPreferences returns what some put of the account wrote, and never what an acknowledged
\* one had replaced before the request came in.
THEOREM PreferencesReadBack == Spec => []PrefsReadBack
<1>1. ASSUME IInv PROVE PrefsReadBack
  <2>1. \A t \in Tasks : ReadBackInv(t)
    BY <1>1, Zenon DEF IInv, TaskInv
  <2> QED
    BY <2>1, Zenon DEF PrefsReadBack, ReadBackInv
<1> QED
  BY <1>1, AccessInvariant, PTL
==============================================================================
