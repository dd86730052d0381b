-------------------------- MODULE OAuthGrants_proofs --------------------------
(***************************************************************************)
(* For every set of handlers, secrets, accounts, clients and keys: tokens   *)
(* stay within what was consented to, a session has one live token, and a   *)
(* session that is over never comes back.                                   *)
(*                                                                          *)
(* No lock covers a grant: its code or token is redeemed in one transaction *)
(* and the successor is stored in another.  The invariant therefore counts  *)
(* a handler between the two as the holder of the session (ChainInv), and   *)
(* of the secret it redeemed (SourceInv).                                   *)
(***************************************************************************)
EXTENDS OAuthGrants, TLAPS

Granting(h) == pc[h] = "put_refresh_token"

\* A secret that was drawn.
Drawn(x) == (x \in Codes /\ minted[x] # None) \/ (x \in Tokens /\ issued[x] # None)

\* A grant, or a row, that goes back to a code within what its user consented to.
Consented(g) ==
    \E first \in Tokens, c \in Codes :
        LET req == pushed[minted[c].uri] IN
        /\ issued[first] # None
        /\ issued[first] = [session_id |-> g.session_id, dpop_jkt |-> g.dpop_jkt, source |-> c]
        /\ g.did = minted[c].did
        /\ g.client_id = req.client_id
        /\ g.scope \subseteq req.scope
        /\ req.dpop_jkt \in {None, g.dpop_jkt}

\* The grant of a code.
CodeGrant(g) ==
    LET req == pushed[minted[g.source].uri] IN
    /\ g.source \in Codes /\ minted[g.source] # None
    /\ g.did = minted[g.source].did
    /\ g.client_id = req.client_id
    /\ g.scope \subseteq req.scope
    /\ req.dpop_jkt \in {None, g.dpop_jkt}

FunInv == DOMAIN pc = Handlers /\ DOMAIN job = Handlers

\* What a request and a code carry is what was pushed.
ParInv ==
    /\ \A u \in Uris : oauth_par[u] # None => pushed[u] = oauth_par[u].req
    /\ \A h \in Handlers : pc[h] = "put_auth_code" => pushed[job[h].uri] = job[h].req
    /\ \A c \in Codes : minted[c] # None => pushed[minted[c].uri] # None
    /\ \A c \in Codes : oauth_auth_codes[c] # None =>
         /\ minted[c] # None
         /\ minted[c].uri = oauth_auth_codes[c].uri /\ minted[c].did = oauth_auth_codes[c].did
         /\ pushed[oauth_auth_codes[c].uri] = oauth_auth_codes[c].req

\* Whatever was redeemed was drawn ...
IssuedDrawn == \A t \in Tokens : issued[t] # None => Drawn(issued[t].source)
GrantsDrawn == \A h \in Handlers : Granting(h) => Drawn(job[h].source)

\* ... was redeemed once ...
IssuedApart ==
    \A t, u \in Tokens : t # u /\ issued[t] # None /\ issued[u] # None =>
        issued[t].source # issued[u].source
IssuedGrantsApart ==
    \A h \in Handlers, t \in Tokens : Granting(h) /\ issued[t] # None =>
        issued[t].source # job[h].source
GrantsApart ==
    \A g, h \in Handlers : g # h /\ Granting(g) /\ Granting(h) => job[g].source # job[h].source

\* ... and cannot be redeemed again.
CodesUnspent ==
    \A c \in Codes : oauth_auth_codes[c] # None =>
        /\ \A t \in Tokens : issued[t] # None => issued[t].source # c
        /\ \A h \in Handlers : Granting(h) => job[h].source # c
TokensUnspent ==
    \A u \in Tokens : Live(u) =>
        /\ \A t \in Tokens : issued[t] # None => issued[t].source # u
        /\ \A h \in Handlers : Granting(h) => job[h].source # u

SourceInv ==
    /\ IssuedDrawn /\ GrantsDrawn
    /\ IssuedApart /\ IssuedGrantsApart /\ GrantsApart
    /\ CodesUnspent /\ TokensUnspent

\* The session of a row is the one its token was issued for, and so is that of a
\* handler that replaces a token.
RowsIssued ==
    \A t \in Tokens : oauth_refresh_tokens[t] # None =>
        issued[t] # None /\ issued[t].session_id = oauth_refresh_tokens[t].session_id
GrantsIssued ==
    \A h \in Handlers : Granting(h) /\ job[h].session_id # None =>
        /\ job[h].source \in Tokens /\ issued[job[h].source] # None
        /\ issued[job[h].source].session_id = job[h].session_id

\* A session is held by one live token, or by one handler that replaces it.
LiveApart ==
    \A t, u \in Tokens : t # u /\ Live(t) /\ Live(u) =>
        oauth_refresh_tokens[t].session_id # oauth_refresh_tokens[u].session_id
LiveGrantsApart ==
    \A h \in Handlers, t \in Tokens : Granting(h) /\ job[h].session_id # None /\ Live(t) =>
        oauth_refresh_tokens[t].session_id # job[h].session_id
SessionsApart ==
    \A g, h \in Handlers : g # h /\ Granting(g) /\ Granting(h) /\ job[g].session_id # None =>
        job[g].session_id # job[h].session_id

ChainInv == RowsIssued /\ GrantsIssued /\ LiveApart /\ LiveGrantsApart /\ SessionsApart

ConsentInv ==
    /\ \A t \in Tokens : oauth_refresh_tokens[t] # None => Consented(oauth_refresh_tokens[t])
    /\ \A h \in Handlers : Granting(h) =>
         IF job[h].session_id = None THEN CodeGrant(job[h]) ELSE Consented(job[h])

IInv == TypeOK /\ FunInv /\ ParInv /\ SourceInv /\ ChainInv /\ ConsentInv

-----------------------------------------------------------------------------
(* Types                                                                    *)

\* The invariant holds initially.
LEMMA InitIInv == Init => IInv
<1> SUFFICES ASSUME Init PROVE IInv
  BY Zenon
<1>1. TypeOK /\ FunInv BY Zenon DEF Init, TypeOK, FunInv
<1>2. ParInv BY Zenon DEF Init, ParInv
<1>3. SourceInv 
  BY Zenon DEF Init, SourceInv, IssuedDrawn, GrantsDrawn, IssuedApart, IssuedGrantsApart, GrantsApart,
     CodesUnspent, TokensUnspent, Granting, Live
<1>4. ChainInv 
  BY Zenon DEF Init, ChainInv, RowsIssued, GrantsIssued, LiveApart, LiveGrantsApart, SessionsApart,
     Granting, Live
<1>5. ConsentInv BY Zenon DEF Init, ConsentInv, Granting
<1> QED BY <1>1, <1>2, <1>3, <1>4, <1>5, Zenon DEF IInv

\* The carried job of a handler that moves is the only one that changes.
LEMMA GotoFacts ==
    ASSUME FunInv, NEW h \in Handlers, NEW call, NEW j, Goto(h, call, j)
    PROVE  /\ FunInv'
           /\ pc'[h] = call /\ job'[h] = j
           /\ \A g \in Handlers : g # h => pc'[g] = pc[g] /\ job'[g] = job[g]
  BY Zenon DEF Goto, FunInv

\* The type of what a handler carries to its next storage call.
JobType(call, j) ==
    \/ call = "idle"
    \/ call = "put_auth_code" /\ j \in [uri : Uris, did : Dids, req : PushedRequest]
    \/ call = "delete_pushed_request" /\ j \in [uri : Uris, code : Codes \cup {None}]
    \/ call = "consume_auth_code" /\ j \in CodeForm
    \/ call = "consume_refresh_token" /\ j \in RefreshForm
    \/ call = "put_refresh_token" /\ j \in Grant
    \/ call = "revoke_session" /\ j \in Sessions

TablesOK ==
    /\ now \in Nat
    /\ oauth_par \in [Uris -> ParRow \cup {None}]
    /\ oauth_auth_codes \in [Codes -> CodeRow \cup {None}]
    /\ oauth_refresh_tokens \in [Tokens -> TokenRow \cup {None}]
    /\ sent \subseteq Uris \cup Codes \cup Tokens
    /\ pushed \in [Uris -> PushedRequest \cup {None}]
    /\ minted \in [Codes -> Minting \cup {None}]
    /\ issued \in [Tokens -> Issuance \cup {None}]
    /\ revoked \subseteq Sessions

\* TypeOK speaks of the tables and of each handler's job.
LEMMA TypeParts == TypeOK <=> TablesOK /\ \A h \in Handlers : JobType(pc[h], job[h])
  BY Zenon DEF TypeOK, TablesOK, JobType

\* A handler that moves with a job of the right type keeps the jobs typed.
LEMMA GotoType ==
    ASSUME FunInv, TypeOK, NEW h \in Handlers, NEW call, NEW j, Goto(h, call, j),
           JobType(call, j), TablesOK'
    PROVE  TypeOK'
<1>1. \A g \in Handlers : JobType(pc[g], job[g])'
  <2> SUFFICES ASSUME NEW g \in Handlers PROVE JobType(pc'[g], job'[g])
    BY Zenon
  <2>1. CASE g = h BY <2>1, GotoFacts, Zenon
  <2>2. CASE g # h
    <3>1. pc'[g] = pc[g] /\ job'[g] = job[g] BY <2>2, GotoFacts, Zenon
    <3>2. JobType(pc[g], job[g]) BY TypeParts, Zenon
    <3> QED BY <3>1, <3>2, Zenon
  <2> QED BY <2>1, <2>2, Zenon
<1> QED BY <1>1, TypeParts, Zenon DEF TypeOK, TablesOK, JobType

-----------------------------------------------------------------------------
(* Steps                                                                    *)

\* The history only grows.
HistoryGrows ==
    /\ \A u \in Uris : pushed[u] # None => pushed'[u] = pushed[u]
    /\ \A c \in Codes : minted[c] # None => minted'[c] = minted[c]
    /\ \A t \in Tokens : issued[t] # None => issued'[t] = issued[t]

\* What was consented to stays consented to.
LEMMA ConsentedKept ==
    ASSUME IInv, HistoryGrows
    PROVE  /\ \A g : Consented(g) => Consented(g)'
           /\ \A g : CodeGrant(g) => CodeGrant(g)'
<1>1. \A c \in Codes : minted[c] # None =>
        minted'[c] = minted[c] /\ pushed'[minted[c].uri] = pushed[minted[c].uri]
  BY DEF HistoryGrows, IInv, ParInv, TypeOK, Minting
<1>2. ASSUME NEW g, Consented(g) PROVE Consented(g)'
  <2>1. PICK first \in Tokens, c \in Codes :
          LET req == pushed[minted[c].uri] IN
          /\ issued[first] # None
          /\ issued[first] = [session_id |-> g.session_id, dpop_jkt |-> g.dpop_jkt, source |-> c]
          /\ g.did = minted[c].did
          /\ g.client_id = req.client_id
          /\ g.scope \subseteq req.scope
          /\ req.dpop_jkt \in {None, g.dpop_jkt}
    BY <1>2, Zenon DEF Consented
  <2>3. minted[c] # None
    BY <2>1, ConstantsAssumption DEF IInv, SourceInv, IssuedDrawn, Drawn
  <2>4. issued'[first] = issued[first]
    BY <2>1, Zenon DEF HistoryGrows
  <2> QED BY <1>1, <2>1, <2>3, <2>4, ZenonT(60) DEF Consented
<1>3. ASSUME NEW g, CodeGrant(g) PROVE CodeGrant(g)'
  BY <1>1, <1>3, Zenon DEF CodeGrant
<1> QED BY <1>2, <1>3, Zenon

\* The handlers that hold a grant, and their grants, stay or become fewer.
GrantsKept ==
    \A g \in Handlers : pc'[g] = "put_refresh_token" => Granting(g) /\ job'[g] = job[g]

\* No grant is taken and nothing can be redeemed that could not be.
LEMMA SourceFrame ==
    ASSUME SourceInv, GrantsKept, UNCHANGED issued,
           \A c \in Codes : minted[c] # None => minted'[c] # None,
           \A c \in Codes : oauth_auth_codes'[c] # None =>
             \/ oauth_auth_codes[c] # None
             \/ /\ \A t \in Tokens : issued[t] # None => issued[t].source # c
                /\ \A h \in Handlers : Granting(h) => job[h].source # c,
           \A t \in Tokens : Live(t)' => Live(t)
    PROVE  SourceInv'
<1>1. IssuedDrawn'
  BY Zenon DEF SourceInv, IssuedDrawn, Drawn
<1>2. GrantsDrawn'
  BY Zenon DEF SourceInv, GrantsDrawn, GrantsKept, Granting, Drawn
<1>3. IssuedApart'
  BY Zenon DEF SourceInv, IssuedApart
<1>4. IssuedGrantsApart'
  BY ZenonT(60) DEF SourceInv, IssuedGrantsApart, GrantsKept, Granting
<1>5. GrantsApart'
  BY ZenonT(60) DEF SourceInv, GrantsApart, GrantsKept, Granting
<1>6. CodesUnspent'
  BY Zenon DEF SourceInv, CodesUnspent, GrantsKept, Granting
<1>7. TokensUnspent'
  BY Zenon DEF SourceInv, TokensUnspent, GrantsKept, Granting
<1> QED BY <1>1, <1>2, <1>3, <1>4, <1>5, <1>6, <1>7, Zenon DEF SourceInv

\* No grant is taken and no row is added or changes its session.
LEMMA ChainFrame ==
    ASSUME ChainInv, GrantsKept, UNCHANGED issued,
           \A t \in Tokens : Live(t)' => Live(t) /\ oauth_refresh_tokens'[t] # None,
           \A t \in Tokens : oauth_refresh_tokens'[t] # None =>
             /\ oauth_refresh_tokens[t] # None
             /\ oauth_refresh_tokens'[t].session_id = oauth_refresh_tokens[t].session_id
    PROVE  ChainInv'
<1>1. RowsIssued'
  BY Zenon DEF ChainInv, RowsIssued
<1>2. GrantsIssued'
  BY ZenonT(60) DEF ChainInv, GrantsIssued, GrantsKept, Granting
<1>3. LiveApart'
  BY Zenon DEF ChainInv, LiveApart
<1>4. LiveGrantsApart'
  BY ZenonT(60) DEF ChainInv, LiveGrantsApart, GrantsKept, Granting
<1>5. SessionsApart'
  BY DEF ChainInv, SessionsApart, GrantsKept, Granting
<1> QED BY <1>1, <1>2, <1>3, <1>4, <1>5, Zenon DEF ChainInv

\* Of the handlers, only this one changes what it holds.
Takes(h, g) ==
    /\ pc'[h] = "put_refresh_token" /\ job'[h] = g
    /\ \A x \in Handlers : x # h => pc'[x] = pc[x] /\ job'[x] = job[x]

\* A handler takes a grant whose source can be redeemed no more.
LEMMA SourceTake ==
    ASSUME SourceInv, NEW h \in Handlers, NEW g, Takes(h, g), UNCHANGED <<minted, issued>>,
           Drawn(g.source),
           \A t \in Tokens : issued[t] # None => issued[t].source # g.source,
           \A x \in Handlers : Granting(x) => job[x].source # g.source,
           \A c \in Codes : oauth_auth_codes'[c] # None =>
             oauth_auth_codes[c] # None /\ c # g.source,
           \A t \in Tokens : Live(t)' => Live(t) /\ t # g.source
    PROVE  SourceInv'
<1>1. IssuedDrawn'
  BY Zenon DEF SourceInv, IssuedDrawn, Drawn
<1>2. GrantsDrawn'
  BY DEF SourceInv, GrantsDrawn, Takes, Granting, Drawn
<1>3. IssuedApart'
  BY Zenon DEF SourceInv, IssuedApart
<1>4. IssuedGrantsApart'
  BY DEF SourceInv, IssuedGrantsApart, Takes, Granting
<1>5. GrantsApart'
  BY DEF SourceInv, GrantsApart, Takes, Granting
<1>6. CodesUnspent'
  BY DEF SourceInv, CodesUnspent, Takes, Granting
<1>7. TokensUnspent'
  BY DEF SourceInv, TokensUnspent, Takes, Granting
<1> QED BY <1>1, <1>2, <1>3, <1>4, <1>5, <1>6, <1>7, Zenon DEF SourceInv

\* A handler takes a grant, of no session yet or of one that nobody else holds.
LEMMA ChainTake ==
    ASSUME ChainInv, NEW h \in Handlers, NEW g, Takes(h, g), UNCHANGED issued,
           \A t \in Tokens : Live(t)' => Live(t) /\ oauth_refresh_tokens'[t] # None,
           \A t \in Tokens : oauth_refresh_tokens'[t] # None =>
             /\ oauth_refresh_tokens[t] # None
             /\ oauth_refresh_tokens'[t].session_id = oauth_refresh_tokens[t].session_id,
           g.session_id # None =>
             /\ g.source \in Tokens /\ issued[g.source] # None
             /\ issued[g.source].session_id = g.session_id
             /\ \A t \in Tokens : Live(t)' => oauth_refresh_tokens[t].session_id # g.session_id
             /\ \A x \in Handlers : Granting(x) => job[x].session_id # g.session_id
    PROVE  ChainInv'
<1>1. RowsIssued'
  BY Zenon DEF ChainInv, RowsIssued
<1>2. GrantsIssued'
  BY DEF ChainInv, GrantsIssued, Takes, Granting
<1>3. LiveApart'
  BY ZenonT(60) DEF ChainInv, LiveApart
<1>4. LiveGrantsApart'
  BY DEF ChainInv, LiveGrantsApart, Takes, Granting
<1>5. SessionsApart'
  BY DEF ChainInv, SessionsApart, Takes, Granting
<1> QED BY <1>1, <1>2, <1>3, <1>4, <1>5, Zenon DEF ChainInv

\* A step that takes no grant, adds no token and no code, and leaves the history
\* alone keeps what the invariant says about tokens.
LEMMA GrantsFrame ==
    ASSUME IInv, GrantsKept, UNCHANGED <<minted, issued, pushed>>,
           \A c \in Codes : oauth_auth_codes'[c] # None => oauth_auth_codes[c] # None,
           \A t \in Tokens : oauth_refresh_tokens'[t] \in {None, oauth_refresh_tokens[t]}
    PROVE  SourceInv' /\ ChainInv' /\ ConsentInv'
<1>1. SourceInv'
  <2>1. \A t \in Tokens : Live(t)' => Live(t) BY Zenon DEF Live
  <2> QED BY <2>1, SourceFrame, Zenon DEF IInv
<1>2. ChainInv'
  <2>1. \A t \in Tokens : Live(t)' => Live(t) /\ oauth_refresh_tokens'[t] # None BY Zenon DEF Live
  <2>2. \A t \in Tokens : oauth_refresh_tokens'[t] # None =>
          /\ oauth_refresh_tokens[t] # None
          /\ oauth_refresh_tokens'[t].session_id = oauth_refresh_tokens[t].session_id
    BY Zenon
  <2> QED BY <2>1, <2>2, ChainFrame, Zenon DEF IInv
<1>3. ConsentInv'
  <2>1. HistoryGrows BY Zenon DEF HistoryGrows
  <2> QED BY <2>1, ConsentedKept, Zenon DEF IInv, ConsentInv, GrantsKept, Granting
<1> QED BY <1>1, <1>2, <1>3, Zenon

\* So does a handler that moves on to another call than put_refresh_token.
LEMMA HandlerFrame ==
    ASSUME IInv, NEW h \in Handlers, NEW call, NEW j, Goto(h, call, j),
           JobType(call, j), call # "put_refresh_token",
           call = "put_auth_code" => pushed[j.uri] = j.req,
           UNCHANGED <<now, tables, history>>, sent' = sent
    PROVE  IInv'
<1>1. UNCHANGED <<oauth_par, oauth_auth_codes, oauth_refresh_tokens, pushed, minted, issued, revoked>>
  BY Zenon DEF tables, history
<1>2. TypeOK' /\ FunInv'
  <2>1. TablesOK' BY <1>1, TypeParts, Zenon DEF IInv, TablesOK
  <2> QED BY <2>1, GotoType, GotoFacts, Zenon DEF IInv
<1>3. GrantsKept
  BY GotoFacts, ZenonT(60) DEF IInv, GrantsKept, Granting
<1>4. ParInv'
  BY <1>1, GotoFacts DEF IInv, ParInv
<1> QED BY <1>1, <1>2, <1>3, <1>4, GrantsFrame, Zenon DEF IInv

\* POST /oauth/par.
LEMMA PutPushedRequestStep ==
    ASSUME IInv, NEW h \in Handlers, NEW uri \in Uris, NEW req \in PushedRequest,
           PutPushedRequest(h, uri, req)
    PROVE  IInv'
<1> USE DEF PutPushedRequest
<1>1. TypeOK' /\ FunInv'
  <2>1. TablesOK'
    BY TypeParts, ConstantsAssumption DEF IInv, TablesOK, Reply, ParRow
  <2> QED BY <2>1, TypeParts, ZenonT(60) DEF IInv, FunInv, TablesOK, TypeOK
<1>2. \A u \in Uris : pushed'[u] = IF u = uri THEN req ELSE pushed[u]
  BY Zenon DEF IInv, TypeOK
<1>3. \A u \in Uris : pushed[u] # None => pushed'[u] = pushed[u]
  BY <1>2, Zenon
<1>4. \A u \in Uris : u # uri => oauth_par'[u] = oauth_par[u]
  BY Zenon DEF IInv, TypeOK
<1>5. oauth_par'[uri].req = req
  BY Zenon DEF IInv, TypeOK
<1>6. ParInv'
  <2>1. \A u \in Uris : oauth_par'[u] # None => pushed'[u] = oauth_par'[u].req
    BY <1>2, <1>4, <1>5 DEF IInv, ParInv
  <2>2. \A g \in Handlers : pc[g] = "put_auth_code" =>
          job[g].uri \in Uris /\ job[g].req \in PushedRequest
    BY TypeParts, Zenon DEF IInv, JobType
  <2>3. \A g \in Handlers : pc[g] = "put_auth_code" => pushed'[job[g].uri] = job[g].req
    BY <1>3, <2>2, NoneAssumption DEF IInv, ParInv
  <2>4. \A c \in Codes : minted[c] # None => minted[c].uri \in Uris
    BY Zenon DEF IInv, TypeOK, Minting
  <2>5. \A c \in Codes : oauth_auth_codes[c] # None =>
          oauth_auth_codes[c].uri \in Uris /\ oauth_auth_codes[c].req \in PushedRequest
    BY Zenon DEF IInv, TypeOK, CodeRow
  <2>6. \A c \in Codes : minted[c] # None => pushed'[minted[c].uri] # None
    BY <1>3, <2>4, SMTT(30) DEF IInv, ParInv
  <2>7. \A c \in Codes : oauth_auth_codes[c] # None =>
          pushed'[oauth_auth_codes[c].uri] = oauth_auth_codes[c].req
    BY <1>3, <2>5, NoneAssumption DEF IInv, ParInv
  <2> QED BY <2>1, <2>3, <2>6, <2>7 DEF IInv, ParInv
<1>7. GrantsKept /\ \A t \in Tokens : Live(t)' => Live(t) /\ oauth_refresh_tokens'[t] # None
  BY Zenon DEF GrantsKept, Granting, Live
<1>8. SourceInv' /\ ChainInv' BY <1>7, SourceFrame, ChainFrame, Zenon DEF IInv
<1>9. ConsentInv'
  <2>1. HistoryGrows BY <1>3, Zenon DEF HistoryGrows
  <2> QED BY <2>1, ConsentedKept, Zenon DEF IInv, ConsentInv, Granting
<1> QED BY <1>1, <1>6, <1>7, <1>8, <1>9, Zenon DEF IInv

\* POST /oauth/authorize.
LEMMA AuthorizeSubmitStep ==
    ASSUME IInv, NEW h \in Handlers, NEW uri \in Uris, NEW did \in Dids, NEW accept \in BOOLEAN,
           AuthorizeSubmit(h, uri, did, accept)
    PROVE  IInv'
<1> DEFINE stored == oauth_par[uri]
<1>1. stored \in ParRow /\ stored.req \in PushedRequest /\ pushed[uri] = stored.req
  BY DEF AuthorizeSubmit, IInv, TypeOK, ParRow, ParInv
<1>2. CASE accept
  <2> DEFINE j == [uri |-> uri, did |-> did, req |-> stored.req]
  <2>1. Goto(h, "put_auth_code", j) /\ JobType("put_auth_code", j) /\ pushed[j.uri] = j.req
    BY <1>1, <1>2, Zenon DEF AuthorizeSubmit, JobType
  <2> HIDE DEF j
  <2> QED BY <2>1, HandlerFrame, Zenon DEF AuthorizeSubmit
<1>3. CASE ~accept
  <2> DEFINE j == [uri |-> uri, code |-> None]
  <2>1. Goto(h, "delete_pushed_request", j) /\ JobType("delete_pushed_request", j)
    BY <1>3, Zenon DEF AuthorizeSubmit, JobType
  <2> HIDE DEF j
  <2> QED BY <2>1, HandlerFrame, Zenon DEF AuthorizeSubmit
<1> QED BY <1>2, <1>3, Zenon

\* POST /oauth/token with a code, up to the storage call.
LEMMA TokenCodeStep ==
    ASSUME IInv, NEW h \in Handlers, NEW code \in Codes, NEW client_id \in Clients,
           NEW pkce \in BOOLEAN, NEW jkt \in Keys, TokenCode(h, code, client_id, pkce, jkt)
    PROVE  IInv'
<1> DEFINE j == [code |-> code, client_id |-> client_id, pkce |-> pkce, jkt |-> jkt, at |-> now]
<1>1. Goto(h, "consume_auth_code", j) /\ JobType("consume_auth_code", j)
  BY Zenon DEF TokenCode, JobType, CodeForm, IInv, TypeOK
<1> HIDE DEF j
<1> QED BY <1>1, HandlerFrame, Zenon DEF TokenCode

\* POST /oauth/token with a refresh token, up to the storage call.
LEMMA TokenRefreshStep ==
    ASSUME IInv, NEW h \in Handlers, NEW token \in Tokens, NEW client_id \in Clients,
           NEW scope \in Scopes \cup {None}, NEW jkt \in Keys,
           TokenRefresh(h, token, client_id, scope, jkt)
    PROVE  IInv'
<1> DEFINE j == [token |-> token, client_id |-> client_id, scope |-> scope, jkt |-> jkt, at |-> now]
<1>1. Goto(h, "consume_refresh_token", j) /\ JobType("consume_refresh_token", j)
  BY Zenon DEF TokenRefresh, JobType, RefreshForm, IInv, TypeOK
<1> HIDE DEF j
<1> QED BY <1>1, HandlerFrame, Zenon DEF TokenRefresh

\* A handler ends early.
LEMMA AbandonStep ==
    ASSUME IInv, NEW h \in Handlers, Abandon(h)
    PROVE  IInv'
<1>1. Goto(h, "idle", None) /\ JobType("idle", None)
  BY Zenon DEF Abandon, Respond, JobType
<1> QED BY <1>1, HandlerFrame, Zenon DEF Abandon

\* issue_code stores a code.
LEMMA PutAuthCodeStep ==
    ASSUME IInv, NEW h \in Handlers, NEW code \in Codes, PutAuthCode(h, code)
    PROVE  IInv'
<1> DEFINE j == job[h]
           k == [uri |-> j.uri, code |-> code]
           row == [uri |-> j.uri, did |-> j.did, req |-> j.req, expires_at |-> now + AUTH_CODE_TTL]
<1>1. j \in [uri : Uris, did : Dids, req : PushedRequest]
  BY TypeParts, Zenon DEF IInv, PutAuthCode, JobType
<1>2. pushed[j.uri] = j.req
  BY Zenon DEF IInv, ParInv, PutAuthCode
<1>3. Goto(h, "delete_pushed_request", k) /\ JobType("delete_pushed_request", k)
  BY <1>1, ZenonT(60) DEF PutAuthCode, JobType
<1>4. /\ row \in CodeRow
      /\ \A c \in Codes : oauth_auth_codes'[c] = IF c = code THEN row ELSE oauth_auth_codes[c]
      /\ \A c \in Codes : minted'[c] = IF c = code THEN [uri |-> j.uri, did |-> j.did] ELSE minted[c]
  BY <1>1, ConstantsAssumption DEF PutAuthCode, IInv, TypeOK, CodeRow
<1>5. [uri |-> j.uri, did |-> j.did] \in Minting
  BY <1>1, Zenon DEF Minting
<1>6. TypeOK' /\ FunInv'
  <2>1. TablesOK'
    BY <1>1, <1>4, <1>5, TypeParts, Zenon DEF IInv, TablesOK, PutAuthCode
  <2> QED BY <1>3, <2>1, GotoType, GotoFacts, Zenon DEF IInv
<1>7. minted[code] = None
  BY Zenon DEF PutAuthCode
<1>8. HistoryGrows
  BY <1>4, <1>7, Zenon DEF HistoryGrows, PutAuthCode
<1>9. GrantsKept
  BY <1>3, GotoFacts, ZenonT(60) DEF IInv, GrantsKept, Granting
<1>10. ParInv'
  <2>1. UNCHANGED <<oauth_par, pushed>> BY Zenon DEF PutAuthCode
  <2>2. \A g \in Handlers : pc'[g] = "put_auth_code" => pushed[job'[g].uri] = job'[g].req
    <3>1. \A g \in Handlers : pc'[g] = "put_auth_code" => pc[g] = "put_auth_code" /\ job'[g] = job[g]
      BY <1>3, GotoFacts, Zenon DEF IInv
    <3> QED BY <3>1, Zenon DEF IInv, ParInv
  <2>3. minted'[code].uri = j.uri /\ minted'[code].did = j.did /\ minted'[code] # None
    BY <1>4, <1>5, NoneAssumption, SMTT(60)
  <2>4. pushed[j.uri] # None
    BY <1>1, <1>2, NoneAssumption, Zenon
  <2>5. oauth_auth_codes'[code] = row
    BY <1>4, Zenon
  <2>6. row.uri = j.uri /\ row.did = j.did /\ row.req = j.req
    BY Zenon
  <2> HIDE DEF row, j
  <2>7. \A c \in Codes : minted'[c] # None => pushed[minted'[c].uri] # None
    BY <1>4, <2>3, <2>4, ZenonT(30) DEF IInv, ParInv
  <2>8. \A c \in Codes : oauth_auth_codes'[c] # None =>
          /\ minted'[c] # None
          /\ minted'[c].uri = oauth_auth_codes'[c].uri /\ minted'[c].did = oauth_auth_codes'[c].did
          /\ pushed[oauth_auth_codes'[c].uri] = oauth_auth_codes'[c].req
    BY <1>2, <1>4, <2>3, <2>5, <2>6, ZenonT(30) DEF IInv, ParInv
  <2> QED BY <2>1, <2>2, <2>7, <2>8, Zenon DEF IInv, ParInv
<1>11. UNCHANGED <<oauth_refresh_tokens, issued>>
  BY Zenon DEF PutAuthCode
<1>12. SourceInv'
  <2>1. /\ \A t \in Tokens : issued[t] # None => issued[t].source # code
        /\ \A g \in Handlers : Granting(g) => job[g].source # code
    BY <1>7, ConstantsAssumption, Zenon DEF IInv, SourceInv, IssuedDrawn, GrantsDrawn, Drawn
  <2>2. \A c \in Codes : minted[c] # None => minted'[c] # None
    BY <1>8, Zenon DEF HistoryGrows
  <2>3. \A c \in Codes : oauth_auth_codes'[c] # None => oauth_auth_codes[c] # None \/ c = code
    BY <1>4, Zenon
  <2>4. \A t \in Tokens : Live(t)' => Live(t) BY <1>11, Zenon DEF Live
  <2> QED BY <1>9, <1>11, <2>1, <2>2, <2>3, <2>4, SourceFrame, Zenon DEF IInv
<1>13. ChainInv'
  <2>1. \A t \in Tokens : Live(t)' => Live(t) /\ oauth_refresh_tokens'[t] # None
    BY <1>11, Zenon DEF Live
  <2> QED BY <1>9, <1>11, <2>1, ChainFrame, Zenon DEF IInv
<1>14. ConsentInv'
  BY <1>8, <1>9, <1>11, ConsentedKept, Zenon DEF IInv, ConsentInv, GrantsKept, Granting
<1> QED BY <1>6, <1>10, <1>12, <1>13, <1>14, Zenon DEF IInv

\* The pushed request is deleted and the redirect sent.
LEMMA DeletePushedRequestStep ==
    ASSUME IInv, NEW h \in Handlers, DeletePushedRequest(h)
    PROVE  IInv'
<1>1. job[h] \in [uri : Uris, code : Codes \cup {None}]
  BY TypeParts, Zenon DEF IInv, DeletePushedRequest, JobType
<1>2. Goto(h, "idle", None) /\ JobType("idle", None)
  BY Zenon DEF DeletePushedRequest, Respond, JobType
<1>3. UNCHANGED <<now, oauth_auth_codes, oauth_refresh_tokens, pushed, minted, issued, revoked>>
  BY Zenon DEF DeletePushedRequest, history
<1>4. \A u \in Uris : oauth_par'[u] \in {None, oauth_par[u]}
  BY Zenon DEF DeletePushedRequest, IInv, TypeOK
<1>5. TypeOK' /\ FunInv'
  <2>1. oauth_par' \in [Uris -> ParRow \cup {None}]
    BY ZenonT(60) DEF DeletePushedRequest, IInv, TypeOK
  <2>2. sent' \subseteq Uris \cup Codes \cup Tokens
    BY <1>1 DEF DeletePushedRequest, IInv, TypeOK, Redirect, Reply
  <2>3. TablesOK'
    BY <1>3, <2>1, <2>2, Zenon DEF IInv, TypeOK, TablesOK
  <2> QED BY <1>2, <2>3, GotoType, GotoFacts, Zenon DEF IInv
<1>6. GrantsKept
  BY <1>2, GotoFacts, ZenonT(60) DEF IInv, GrantsKept, Granting
<1>7. ParInv'
  BY <1>2, <1>3, <1>4, GotoFacts DEF IInv, ParInv
<1> QED BY <1>3, <1>5, <1>6, <1>7, GrantsFrame, Zenon DEF IInv

\* The clock.
LEMMA TickStep ==
    ASSUME IInv, Tick
    PROVE  IInv'
<1>1. /\ UNCHANGED <<oauth_par, oauth_auth_codes, oauth_refresh_tokens, pc, job, sent>>
      /\ UNCHANGED <<pushed, minted, issued, revoked>>
  BY Zenon DEF Tick, tables, history
<1>2. TypeOK' /\ FunInv'
  BY <1>1 DEF Tick, IInv, TypeOK, FunInv
<1>3. ParInv' BY <1>1, Zenon DEF IInv, ParInv
<1>4. GrantsKept BY <1>1, Zenon DEF GrantsKept, Granting
<1> QED BY <1>1, <1>2, <1>3, <1>4, GrantsFrame, Zenon DEF IInv

\* A session's rows are deleted, and its handler, if any, is done.
LEMMA DeleteSessionFrame ==
    ASSUME IInv, NEW s \in Sessions, DeleteSession(s), revoked' = revoked \cup {s},
           UNCHANGED <<now, oauth_par, oauth_auth_codes, sent, pushed, minted, issued>>,
           \A g \in Handlers : pc'[g] = "idle" \/ (pc'[g] = pc[g] /\ job'[g] = job[g]),
           FunInv'
    PROVE  IInv'
<1>1. \A t \in Tokens : oauth_refresh_tokens'[t] \in {None, oauth_refresh_tokens[t]}
  BY Zenon DEF DeleteSession
<1>2. TypeOK'
  <2>1. TablesOK'
    BY TypeParts, Zenon DEF IInv, TablesOK, DeleteSession
  <2>2. \A g \in Handlers : JobType(pc'[g], job'[g])
    BY TypeParts, ZenonT(60) DEF IInv, JobType
  <2> QED BY <2>1, <2>2, TypeParts, Zenon DEF TypeOK, TablesOK, JobType
<1>3. ParInv' BY ZenonT(60) DEF IInv, ParInv
<1>4. GrantsKept BY Zenon DEF GrantsKept, Granting
<1> QED BY <1>1, <1>2, <1>3, <1>4, GrantsFrame, Zenon DEF IInv

\* The chain of a reused token is revoked.
LEMMA RevokeSessionStep ==
    ASSUME IInv, NEW h \in Handlers, RevokeSession(h)
    PROVE  IInv'
<1>1. job[h] \in Sessions
  BY TypeParts, Zenon DEF IInv, RevokeSession, JobType
<1>2. Goto(h, "idle", None) BY Zenon DEF RevokeSession, Respond
<1>3. /\ FunInv'
      /\ \A g \in Handlers : pc'[g] = "idle" \/ (pc'[g] = pc[g] /\ job'[g] = job[g])
  BY <1>2, GotoFacts, Zenon DEF IInv
<1>4. PICK s \in Sessions : s = job[h] BY <1>1, Zenon
<1>5. DeleteSession(s) /\ revoked' = revoked \cup {s}
  BY <1>4, Zenon DEF RevokeSession, DeleteSession
<1> QED BY <1>3, <1>5, DeleteSessionFrame, Zenon DEF RevokeSession

\* POST /oauth/revoke.
LEMMA RevokeRefreshTokenStep ==
    ASSUME IInv, NEW h \in Handlers, NEW token \in Tokens, RevokeRefreshToken(h, token)
    PROVE  IInv'
<1>1. oauth_refresh_tokens[token].session_id \in Sessions
  BY Zenon DEF IInv, TypeOK, RevokeRefreshToken, TokenRow
<1>2. /\ FunInv'
      /\ \A g \in Handlers : pc'[g] = "idle" \/ (pc'[g] = pc[g] /\ job'[g] = job[g])
  BY Zenon DEF IInv, FunInv, RevokeRefreshToken
<1>3. PICK s \in Sessions : s = oauth_refresh_tokens[token].session_id BY <1>1, Zenon
<1>4. DeleteSession(s) /\ revoked' = revoked \cup {s}
  BY <1>3, Zenon DEF RevokeRefreshToken, DeleteSession
<1> QED BY <1>2, <1>4, DeleteSessionFrame, Zenon DEF RevokeRefreshToken

\* A code is redeemed: its row goes and the handler holds the grant.
LEMMA ConsumeAuthCodeStep ==
    ASSUME IInv, NEW h \in Handlers, ConsumeAuthCode(h)
    PROVE  IInv'
<1> DEFINE form == job[h]
           row == oauth_auth_codes[form.code]
           g == [did |-> row.did, client_id |-> row.req.client_id, scope |-> row.req.scope,
                 dpop_jkt |-> form.jkt, session_id |-> None, source |-> form.code]
<1>1. form \in CodeForm /\ form.code \in Codes /\ form.jkt \in Keys
  BY TypeParts, Zenon DEF IInv, ConsumeAuthCode, JobType, CodeForm
<1>2. UNCHANGED <<now, oauth_par, oauth_refresh_tokens, sent, pushed, minted, issued, revoked>>
  BY Zenon DEF ConsumeAuthCode, history
<1>3. /\ oauth_auth_codes' \in [Codes -> CodeRow \cup {None}]
      /\ \A c \in Codes : oauth_auth_codes'[c] = IF c = form.code THEN None ELSE oauth_auth_codes[c]
  BY <1>1, Zenon DEF ConsumeAuthCode, DeleteAuthCode, IInv, TypeOK
<1>4. TablesOK'
  BY <1>2, <1>3, Zenon DEF IInv, TypeOK, TablesOK
<1>5. HistoryGrows BY <1>2, Zenon DEF HistoryGrows
<1>6. CASE CodeAccepted(row, form)
  <2>1. row \in CodeRow /\ row.req \in PushedRequest
    BY <1>1, <1>6, Zenon DEF CodeAccepted, IInv, TypeOK, CodeRow
  <2>2. Goto(h, "put_refresh_token", g)
    BY <1>6, Zenon DEF ConsumeAuthCode
  <2>3. g \in Grant
    BY <1>1, <2>1, Zenon DEF Grant, CodeRow, PushedRequest
  <2>4. JobType("put_refresh_token", g)
    BY <2>3, Zenon DEF JobType
  <2>5. TypeOK' /\ FunInv'
    BY <1>4, <2>2, <2>4, GotoType, GotoFacts, Zenon DEF IInv
  <2>6. CodeGrant(g)
    BY <1>1, <1>6, <2>1, ZenonT(60) DEF CodeGrant, CodeAccepted, IInv, ParInv
  <2>7. /\ \A t \in Tokens : issued[t] # None => issued[t].source # form.code
        /\ \A x \in Handlers : Granting(x) => job[x].source # form.code
        /\ minted[form.code] # None
    BY <1>1, <1>6, Zenon DEF CodeAccepted, IInv, SourceInv, CodesUnspent, ParInv
  <2>8. /\ g.source = form.code /\ g.session_id = None
    BY Zenon
  <2> HIDE DEF g, row, form
  <2>9. Takes(h, g)
    BY <2>2, GotoFacts, ZenonT(60) DEF IInv, Takes
  <2>10. ParInv'
    <3>1. \A x \in Handlers : pc'[x] = "put_auth_code" => pc[x] = "put_auth_code" /\ job'[x] = job[x]
      BY <2>9, Zenon DEF Takes
    <3>2. \A c \in Codes : oauth_auth_codes'[c] # None =>
            oauth_auth_codes[c] # None /\ oauth_auth_codes'[c] = oauth_auth_codes[c]
      BY <1>3, Zenon
    <3> QED BY <1>2, <3>1, <3>2, ZenonT(30) DEF IInv, ParInv
  <2>11. SourceInv'
    <3>1. \A c \in Codes : c \notin Tokens BY ConstantsAssumption, Zenon
    <3>2. Drawn(g.source) BY <1>1, <2>7, <2>8, Zenon DEF Drawn
    <3>3. \A t \in Tokens : Live(t)' => Live(t) /\ t # g.source BY <1>1, <1>2, <2>8, <3>1, Zenon DEF Live
    <3>4. \A c \in Codes : oauth_auth_codes'[c] # None => oauth_auth_codes[c] # None /\ c # g.source
      BY <1>3, <2>8, Zenon
    <3> QED BY <1>2, <2>7, <2>8, <2>9, <3>2, <3>3, <3>4, SourceTake, Zenon DEF IInv
  <2>12. ChainInv'
    <3>1. \A t \in Tokens : Live(t)' => Live(t) /\ oauth_refresh_tokens'[t] # None
      BY <1>2, Zenon DEF Live
    <3> QED BY <1>2, <2>8, <2>9, <3>1, ChainTake, Zenon DEF IInv
  <2>13. ConsentInv'
    BY <1>2, <1>5, <2>6, <2>8, <2>9, ConsentedKept, Zenon DEF IInv, ConsentInv, Granting, Takes
  <2> QED BY <2>5, <2>10, <2>11, <2>12, <2>13, Zenon DEF IInv
<1>7. CASE ~CodeAccepted(row, form)
  <2>1. Goto(h, "idle", None) /\ JobType("idle", None)
    BY <1>7, Zenon DEF ConsumeAuthCode, Respond, JobType
  <2>2. TypeOK' /\ FunInv'
    BY <1>4, <2>1, GotoType, GotoFacts, Zenon DEF IInv
  <2>3. GrantsKept
    BY <2>1, GotoFacts, Zenon DEF IInv, GrantsKept, Granting
  <2>4. ParInv'
    <3>1. \A x \in Handlers : pc'[x] = "put_auth_code" => pc[x] = "put_auth_code" /\ job'[x] = job[x]
      BY <2>1, GotoFacts, ZenonT(60) DEF IInv
    <3> QED BY <1>2, <1>3, <3>1, ZenonT(60) DEF IInv, ParInv
  <2> QED BY <1>2, <1>3, <2>2, <2>3, <2>4, GrantsFrame, Zenon DEF IInv
<1> QED BY <1>6, <1>7, Zenon

\* A token is redeemed: its row is used up and the handler holds the session.
LEMMA TakeSession ==
    ASSUME IInv, NEW h \in Handlers, pc[h] = "consume_refresh_token",
           NEW form \in RefreshForm, form = job[h],
           NEW row \in TokenRow, row = oauth_refresh_tokens[form.token], row # None, ~row.used,
           SetUsed(form.token),
           UNCHANGED <<now, oauth_par, oauth_auth_codes, sent, pushed, minted, issued, revoked>>
    PROVE  /\ TablesOK'
           /\ HistoryGrows
           /\ \A t \in Tokens : t # form.token => oauth_refresh_tokens'[t] = oauth_refresh_tokens[t]
           /\ oauth_refresh_tokens'[form.token] = [row EXCEPT !.used = TRUE]
           /\ ~Live(form.token)'
           /\ Live(form.token) /\ form.token \in Tokens
           /\ Consented(row)
<1>1. form.token \in Tokens BY Zenon DEF RefreshForm
<1>2. /\ \A t \in Tokens : t # form.token => oauth_refresh_tokens'[t] = oauth_refresh_tokens[t]
      /\ oauth_refresh_tokens'[form.token] = [row EXCEPT !.used = TRUE]
      /\ oauth_refresh_tokens' \in [Tokens -> TokenRow \cup {None}]
  BY <1>1, Zenon DEF SetUsed, IInv, TypeOK, TokenRow
<1>3. TablesOK' BY <1>2, Zenon DEF IInv, TypeOK, TablesOK
<1>4. HistoryGrows BY Zenon DEF HistoryGrows
<1>5. oauth_refresh_tokens'[form.token].used
  BY <1>2, Zenon DEF TokenRow
<1>6. ~oauth_refresh_tokens[form.token].used /\ oauth_refresh_tokens[form.token] # None
  BY Zenon
<1>7. Consented(row) BY <1>1, Zenon DEF IInv, ConsentInv
<1> QED BY <1>1, <1>2, <1>3, <1>4, <1>5, <1>6, <1>7, Zenon DEF Live

\* Consent is about these fields, and a smaller scope is still consented to.
LEMMA ConsentedNarrower ==
    ASSUME NEW g, NEW k, Consented(g), k.session_id = g.session_id, k.dpop_jkt = g.dpop_jkt,
           k.did = g.did, k.client_id = g.client_id, k.scope \subseteq g.scope
    PROVE  Consented(k)
<1>1. PICK first \in Tokens, c \in Codes :
        LET req == pushed[minted[c].uri] IN
        /\ issued[first] # None
        /\ issued[first] = [session_id |-> g.session_id, dpop_jkt |-> g.dpop_jkt, source |-> c]
        /\ g.did = minted[c].did
        /\ g.client_id = req.client_id
        /\ g.scope \subseteq req.scope
        /\ req.dpop_jkt \in {None, g.dpop_jkt}
  BY Zenon DEF Consented
<1>2. k.scope \subseteq pushed[minted[c].uri].scope
  BY <1>1, Zenon
<1> QED BY <1>1, <1>2, ZenonT(60) DEF Consented

\* consume_refresh_token.
LEMMA ConsumeRefreshTokenStep ==
    ASSUME IInv, NEW h \in Handlers, ConsumeRefreshToken(h)
    PROVE  IInv'
<1>1. PICK form \in RefreshForm : form = job[h]
  BY TypeParts, Zenon DEF IInv, ConsumeRefreshToken, JobType
<1>2. form.token \in Tokens /\ form.jkt \in Keys /\ form.scope \in Scopes \cup {None}
  BY Zenon DEF RefreshForm
<1> DEFINE row == oauth_refresh_tokens[form.token]
           found == row # None /\ row.expires_at > form.at
<1>3. UNCHANGED <<now, oauth_par, oauth_auth_codes, sent, pushed, minted, issued, revoked>>
  BY Zenon DEF ConsumeRefreshToken
<1>4. CASE Respond(h) /\ UNCHANGED oauth_refresh_tokens
  <2>1. Goto(h, "idle", None) /\ JobType("idle", None)
    BY <1>4, Zenon DEF Respond, JobType
  <2> QED BY <1>3, <1>4, <2>1, HandlerFrame, Zenon DEF tables, history
<1>5. CASE found /\ Goto(h, "revoke_session", row.session_id) /\ UNCHANGED oauth_refresh_tokens
  <2>1. PICK s \in Sessions : s = row.session_id
    BY <1>2, <1>5, Zenon DEF IInv, TypeOK, TokenRow
  <2>2. Goto(h, "revoke_session", s) /\ JobType("revoke_session", s)
    BY <1>5, <2>1, Zenon DEF JobType
  <2> QED BY <1>3, <1>5, <2>2, HandlerFrame, Zenon DEF tables, history
<1>6. CASE found /\ ~Reused(row) /\ SetUsed(form.token)
  <2>1. PICK old \in TokenRow : old = row
    BY <1>2, <1>6, Zenon DEF IInv, TypeOK
  <2>2. old # None /\ ~old.used /\ old = oauth_refresh_tokens[form.token]
    BY <1>6, <2>1, Zenon DEF Reused
  <2>3. /\ TablesOK'
        /\ HistoryGrows
        /\ \A t \in Tokens : t # form.token => oauth_refresh_tokens'[t] = oauth_refresh_tokens[t]
        /\ oauth_refresh_tokens'[form.token] = [old EXCEPT !.used = TRUE]
        /\ ~Live(form.token)'
        /\ Live(form.token)
        /\ Consented(old)
    BY <1>1, <1>3, <1>6, <2>1, <2>2, TakeSession, Zenon DEF ConsumeRefreshToken
  <2>4. PICK new \in TokenRow : new = [old EXCEPT !.used = TRUE]
    BY Zenon DEF TokenRow
  <2>5. /\ new.session_id = old.session_id /\ new.dpop_jkt = old.dpop_jkt /\ new.did = old.did
        /\ new.client_id = old.client_id /\ new.scope = old.scope
    BY <2>4, Zenon DEF TokenRow
  <2>6. Consented(new)'
    BY <2>3, <2>5, ConsentedNarrower, ConsentedKept, Zenon
  <2>7. \A t \in Tokens : Live(t)' => Live(t) /\ t # form.token /\ oauth_refresh_tokens'[t] # None
    BY <2>3, Zenon DEF Live
  <2>8. \A t \in Tokens : oauth_refresh_tokens'[t] # None =>
          /\ oauth_refresh_tokens[t] # None
          /\ oauth_refresh_tokens'[t].session_id = oauth_refresh_tokens[t].session_id
    BY <2>2, <2>3, <2>4, <2>5, ZenonT(60)
  <2>9. \A t \in Tokens : oauth_refresh_tokens'[t] # None => Consented(oauth_refresh_tokens[t])'
    BY <2>3, <2>4, <2>6, ConsentedKept, Zenon DEF IInv, ConsentInv
  <2>10. CASE Respond(h)
    <3>1. Goto(h, "idle", None) /\ JobType("idle", None)
      BY <2>10, Zenon DEF Respond, JobType
    <3>2. TypeOK' /\ FunInv'
      BY <2>3, <3>1, GotoType, GotoFacts, Zenon DEF IInv
    <3>3. GrantsKept
      BY <3>1, GotoFacts, ZenonT(60) DEF IInv, GrantsKept, Granting
    <3>4. ParInv'
      BY <1>3, <3>1, GotoFacts DEF IInv, ParInv
    <3>5. SourceInv' BY <1>3, <2>7, <3>3, SourceFrame, Zenon DEF IInv
    <3>7. ChainInv' BY <1>3, <2>7, <2>8, <3>3, ChainFrame, Zenon DEF IInv
    <3>8. ConsentInv'
      BY <2>3, <2>9, <3>3, ConsentedKept, Zenon DEF IInv, ConsentInv, GrantsKept, Granting
    <3> QED BY <3>2, <3>4, <3>5, <3>7, <3>8, Zenon DEF IInv
  <2>11. CASE /\ RefreshAccepted(row, form)
              /\ Goto(h, "put_refresh_token",
                      [did |-> row.did, client_id |-> row.client_id,
                       scope |-> IF form.scope = None THEN row.scope ELSE form.scope,
                       dpop_jkt |-> form.jkt, session_id |-> row.session_id,
                       source |-> form.token])
    <3> DEFINE g0 == [did |-> old.did, client_id |-> old.client_id,
                      scope |-> IF form.scope = None THEN old.scope ELSE form.scope,
                      dpop_jkt |-> form.jkt, session_id |-> old.session_id,
                      source |-> form.token]
    <3>1. g0 \in Grant
      BY <1>2, ConstantsAssumption, Zenon DEF TokenRow, Grant
    <3>2. PICK g \in Grant : g = g0 BY <3>1, Zenon
    <3>3. /\ g.session_id = old.session_id /\ g.session_id # None /\ g.source = form.token
          /\ g.dpop_jkt = old.dpop_jkt /\ g.did = old.did /\ g.client_id = old.client_id
          /\ g.scope \subseteq old.scope
      BY <2>1, <2>11, <3>2, ConstantsAssumption, Zenon DEF RefreshAccepted, TokenRow
    <3>4. Goto(h, "put_refresh_token", g) /\ JobType("put_refresh_token", g)
      BY <2>1, <2>11, <3>2, Zenon DEF JobType
    <3>5. Consented(g)'
      BY <2>3, <3>3, ConsentedNarrower, ConsentedKept, Zenon
    <3>6. TypeOK' /\ FunInv'
      BY <2>3, <3>4, GotoType, GotoFacts, Zenon DEF IInv
    <3>7. Takes(h, g)
      BY <3>4, GotoFacts, ZenonT(60) DEF IInv, Takes
    <3>8. ParInv'
      BY <1>3, <3>7, ZenonT(60) DEF IInv, ParInv, Takes
    <3>9. /\ \A t \in Tokens : issued[t] # None => issued[t].source # form.token
          /\ \A x \in Handlers : Granting(x) => job[x].source # form.token
      BY <1>2, <2>3, Zenon DEF IInv, SourceInv, TokensUnspent
    <3>10. issued[form.token] # None /\ issued[form.token].session_id = old.session_id
      BY <1>2, <2>2, Zenon DEF IInv, ChainInv, RowsIssued
    <3>11. SourceInv'
      <4>1. \A c \in Codes : oauth_auth_codes'[c] # None => oauth_auth_codes[c] # None /\ c # g.source
        BY <1>2, <1>3, <3>3, ConstantsAssumption, Zenon
      <4>2. Drawn(g.source) BY <1>2, <3>3, <3>10, Zenon DEF Drawn
      <4> QED BY <1>3, <2>7, <3>3, <3>7, <3>9, <4>1, <4>2, SourceTake, Zenon DEF IInv
    <3>12. /\ \A t \in Tokens : Live(t)' => oauth_refresh_tokens[t].session_id # g.session_id
           /\ \A x \in Handlers : Granting(x) => job[x].session_id # g.session_id
      <4>1. Live(form.token) /\ oauth_refresh_tokens[form.token].session_id = g.session_id
        BY <2>2, <2>3, <3>3, Zenon
      <4>2. \A t \in Tokens : Live(t)' => oauth_refresh_tokens[t].session_id # g.session_id
        BY <1>2, <2>7, <4>1, Zenon DEF IInv, ChainInv, LiveApart
      <4>3. \A x \in Handlers : Granting(x) => job[x].session_id # g.session_id
        BY <1>2, <3>3, <4>1, Zenon DEF IInv, ChainInv, LiveGrantsApart
      <4> QED BY <4>2, <4>3, Zenon
    <3>13. ChainInv'
      BY <1>2, <1>3, <2>7, <2>8, <3>3, <3>7, <3>10, <3>12, ChainTake, Zenon DEF IInv
    <3>14. ConsentInv'
      BY <2>3, <2>9, <3>3, <3>5, <3>7, ConsentedKept, ZenonT(60) DEF IInv, ConsentInv, Granting, Takes
    <3> QED BY <3>6, <3>8, <3>11, <3>13, <3>14, Zenon DEF IInv
  <2> QED BY <1>1, <1>6, <2>10, <2>11, Zenon DEF ConsumeRefreshToken, Goto, Respond
<1> QED BY <1>1, <1>4, <1>5, <1>6, Zenon DEF ConsumeRefreshToken

\* issue stores the successor.
LEMMA PutRefreshTokenStep ==
    ASSUME IInv, NEW h \in Handlers, NEW token \in Tokens, NEW session \in Sessions,
           PutRefreshToken(h, token, session)
    PROVE  IInv'
<1>1. PICK g \in Grant : g = job[h]
  BY TypeParts, Zenon DEF IInv, PutRefreshToken, JobType
<1>2. g.source \in Codes \cup Tokens /\ g.dpop_jkt \in Keys
  BY Zenon DEF Grant
<1>3. PICK row \in TokenRow :
        row = [session_id |-> session, did |-> g.did, client_id |-> g.client_id,
               scope |-> g.scope, dpop_jkt |-> g.dpop_jkt,
               expires_at |-> now + REFRESH_TOKEN_TTL, used |-> FALSE]
  <2>1. now + REFRESH_TOKEN_TTL \in Nat
    BY ConstantsAssumption DEF IInv, TypeOK
  <2>2. g.did \in Dids /\ g.client_id \in Clients /\ g.scope \in Scopes /\ g.dpop_jkt \in Keys
    BY Zenon DEF Grant
  <2> QED BY <2>1, <2>2, Zenon DEF TokenRow
<1>4. PICK iss \in Issuance :
        iss = [session_id |-> session, dpop_jkt |-> g.dpop_jkt, source |-> g.source]
  BY <1>2, Zenon DEF Issuance
<1>5. /\ iss # None /\ iss.session_id = session /\ iss.source = g.source
      /\ row.session_id = session /\ row.did = g.did /\ row.client_id = g.client_id
      /\ row.scope = g.scope /\ row.dpop_jkt = g.dpop_jkt
  BY <1>3, <1>4, NoneAssumption, Zenon
<1>6. /\ oauth_refresh_tokens'[token] = row
      /\ \A t \in Tokens : t # token => oauth_refresh_tokens'[t] = oauth_refresh_tokens[t]
      /\ issued'[token] = iss
      /\ \A t \in Tokens : t # token => issued'[t] = issued[t]
      /\ issued[token] = None
  BY <1>1, <1>3, <1>4, Zenon DEF PutRefreshToken, IInv, TypeOK
<1>7. UNCHANGED <<now, oauth_par, oauth_auth_codes, pushed, minted, revoked>>
  BY Zenon DEF PutRefreshToken
<1>8. Goto(h, "idle", None) /\ JobType("idle", None)
  BY Zenon DEF PutRefreshToken, Respond, JobType
<1>9. TypeOK' /\ FunInv'
  <2>1. /\ oauth_refresh_tokens' \in [Tokens -> TokenRow \cup {None}]
        /\ issued' \in [Tokens -> Issuance \cup {None}]
    BY <1>1, <1>3, <1>4, Zenon DEF PutRefreshToken, IInv, TypeOK
  <2>2. sent' \subseteq Uris \cup Codes \cup Tokens
    BY ZenonT(60) DEF PutRefreshToken, Reply, IInv, TypeOK
  <2>3. TablesOK' BY <1>7, <2>1, <2>2, Zenon DEF IInv, TypeOK, TablesOK
  <2> QED BY <1>8, <2>3, GotoType, GotoFacts, Zenon DEF IInv
<1>10. HistoryGrows
  BY <1>6, <1>7, Zenon DEF HistoryGrows
<1>11. GrantsKept /\ pc'[h] = "idle" /\ Granting(h)
  BY <1>8, GotoFacts, ZenonT(60) DEF IInv, GrantsKept, Granting, PutRefreshToken
<1>12. ParInv'
  <2>1. \A x \in Handlers : pc'[x] = "put_auth_code" => pc[x] = "put_auth_code" /\ job'[x] = job[x]
    BY <1>8, GotoFacts, ZenonT(60) DEF IInv
  <2> QED BY <1>7, <2>1, ZenonT(60) DEF IInv, ParInv
<1>13. oauth_refresh_tokens[token] = None
  BY <1>6, Zenon DEF IInv, ChainInv, RowsIssued
<1>14. /\ \A t \in Tokens : issued[t] # None => issued[t].source # token
       /\ \A x \in Handlers : Granting(x) => job[x].source # token
  BY <1>6, ConstantsAssumption, Zenon DEF IInv, SourceInv, IssuedDrawn, GrantsDrawn, Drawn
<1>15. \A t \in Tokens : Live(t)' =>
         t = token \/ (Live(t) /\ oauth_refresh_tokens'[t] = oauth_refresh_tokens[t])
  BY <1>6, Zenon DEF Live
<1>16. /\ \A t \in Tokens : issued[t] # None => issued[t].source # g.source
       /\ \A x \in Handlers : Granting(x) /\ x # h => job[x].source # g.source
       /\ Drawn(g.source)
       /\ \A c \in Codes : oauth_auth_codes[c] # None => c # g.source
       /\ \A t \in Tokens : Live(t) => t # g.source
  <2>1. Drawn(g.source) BY <1>1, <1>11, Zenon DEF IInv, SourceInv, GrantsDrawn
  <2>2. \A t \in Tokens : issued[t] # None => issued[t].source # g.source
    BY <1>1, <1>11, Zenon DEF IInv, SourceInv, IssuedGrantsApart
  <2>3. \A x \in Handlers : Granting(x) /\ x # h => job[x].source # g.source
    BY <1>1, <1>11, Zenon DEF IInv, SourceInv, GrantsApart
  <2>4. \A c \in Codes : oauth_auth_codes[c] # None => c # g.source
    BY <1>1, <1>11, Zenon DEF IInv, SourceInv, CodesUnspent
  <2>5. \A t \in Tokens : Live(t) => t # g.source
    BY <1>1, <1>11, Zenon DEF IInv, SourceInv, TokensUnspent
  <2> QED BY <2>1, <2>2, <2>3, <2>4, <2>5, Zenon
<1>17. \A x : Drawn(x) => Drawn(x)'
  BY <1>6, <1>7, <1>5, Zenon DEF Drawn
<1>18. SourceInv'
  <2>1. /\ issued'[token] # None /\ issued'[token].source = g.source
        /\ \A t \in Tokens : t # token /\ issued'[t] # None =>
             issued[t] # None /\ issued'[t].source = issued[t].source
    BY <1>5, <1>6, Zenon
  <2>2. \A x \in Handlers : Granting(x)' => Granting(x) /\ x # h /\ job'[x].source = job[x].source
    BY <1>11, Zenon DEF GrantsKept, Granting
  <2>3. IssuedDrawn'
    BY <1>16, <1>17, <2>1, Zenon DEF IInv, SourceInv, IssuedDrawn
  <2>4. GrantsDrawn'
    BY <1>17, <2>2, Zenon DEF IInv, SourceInv, GrantsDrawn
  <2>5. IssuedApart'
    BY <1>16, <2>1, ZenonT(60) DEF IInv, SourceInv, IssuedApart
  <2>6. IssuedGrantsApart'
    BY <1>16, <2>1, <2>2, ZenonT(60) DEF IInv, SourceInv, IssuedGrantsApart
  <2>7. GrantsApart'
    BY <2>2, Zenon DEF IInv, SourceInv, GrantsApart
  <2>8. CodesUnspent'
    <3>1. ASSUME NEW c \in Codes, oauth_auth_codes[c] # None
          PROVE  /\ \A t \in Tokens : issued'[t] # None => issued'[t].source # c
                 /\ \A x \in Handlers : Granting(x)' => job'[x].source # c
      <4>1. /\ \A t \in Tokens : issued[t] # None => issued[t].source # c
            /\ \A x \in Handlers : Granting(x) => job[x].source # c
            /\ c # g.source
        BY <1>16, <3>1, Zenon DEF IInv, SourceInv, CodesUnspent
      <4> QED BY <2>1, <2>2, <4>1, Zenon
    <3> QED BY <1>7, <3>1, Zenon DEF CodesUnspent
  <2>9. TokensUnspent'
    <3>1. g.source # token
      BY <1>1, <1>11, <1>14, Zenon
    <3>2. ASSUME NEW u \in Tokens, Live(u)'
          PROVE  /\ \A t \in Tokens : issued'[t] # None => issued'[t].source # u
                 /\ \A x \in Handlers : Granting(x)' => job'[x].source # u
      <4>1. CASE u = token BY <1>14, <2>1, <2>2, <3>1, <4>1, Zenon
      <4>2. CASE Live(u) BY <1>16, <2>1, <2>2, <4>2, ZenonT(60) DEF IInv, SourceInv, TokensUnspent
      <4> QED BY <1>15, <3>2, <4>1, <4>2, Zenon
    <3> QED BY <3>2, Zenon DEF TokensUnspent
  <2> QED BY <2>3, <2>4, <2>5, <2>6, <2>7, <2>8, <2>9, Zenon DEF SourceInv
<1>19. /\ \A t \in Tokens : Live(t) => oauth_refresh_tokens[t].session_id # session
       /\ \A x \in Handlers : Granting(x) /\ x # h => job[x].session_id # session
  <2>1. CASE g.session_id = None
    <3>1. \A t \in Tokens : issued[t] # None => issued[t].session_id # session
      BY <1>1, <2>1, Zenon DEF PutRefreshToken
    <3>2. \A t \in Tokens : Live(t) => oauth_refresh_tokens[t].session_id # session
      BY <3>1, Zenon DEF IInv, ChainInv, RowsIssued, Live
    <3>3. \A x \in Handlers : Granting(x) => job[x].session_id # session
      BY <3>1, ConstantsAssumption, Zenon DEF IInv, ChainInv, GrantsIssued
    <3> QED BY <3>2, <3>3, Zenon
  <2>2. CASE g.session_id # None
    <3>1. session = g.session_id
      BY <1>1, <2>2, Zenon DEF PutRefreshToken
    <3>2. \A t \in Tokens : Live(t) => oauth_refresh_tokens[t].session_id # session
      BY <1>1, <1>11, <2>2, <3>1, Zenon DEF IInv, ChainInv, LiveGrantsApart
    <3>3. \A x \in Handlers : Granting(x) /\ x # h => job[x].session_id # session
      BY <1>1, <1>11, <2>2, <3>1, Zenon DEF IInv, ChainInv, SessionsApart
    <3> QED BY <3>2, <3>3, Zenon
  <2> QED BY <2>1, <2>2, Zenon
<1>20. ChainInv'
  <2>1. /\ issued'[token] # None /\ issued'[token].session_id = session
        /\ oauth_refresh_tokens'[token].session_id = session
        /\ \A t \in Tokens : issued[t] # None => t # token /\ issued'[t] = issued[t]
    BY <1>5, <1>6, Zenon
  <2>2. \A x \in Handlers : Granting(x)' => Granting(x) /\ x # h /\ job'[x] = job[x]
    BY <1>11, Zenon DEF GrantsKept, Granting
  <2>3. RowsIssued'
    BY <1>6, <2>1, Zenon DEF IInv, ChainInv, RowsIssued
  <2>4. GrantsIssued'
    <3> SUFFICES ASSUME NEW x \in Handlers, Granting(x)', job'[x].session_id # None
                 PROVE  /\ job'[x].source \in Tokens /\ issued'[job'[x].source] # None
                        /\ issued'[job'[x].source].session_id = job'[x].session_id
      BY Zenon DEF GrantsIssued
    <3>1. Granting(x) /\ job'[x] = job[x] BY <2>2, Zenon
    <3>2. /\ job[x].source \in Tokens /\ issued[job[x].source] # None
          /\ issued[job[x].source].session_id = job[x].session_id
      BY <3>1, Zenon DEF IInv, ChainInv, GrantsIssued
    <3>3. issued'[job[x].source] = issued[job[x].source] BY <2>1, <3>2, Zenon
    <3> QED BY <3>1, <3>2, <3>3, Zenon
  <2>5. LiveApart'
    BY <1>15, <1>19, <2>1, SMTT(30) DEF IInv, ChainInv, LiveApart
  <2>6. LiveGrantsApart'
    BY <1>15, <1>19, <2>1, <2>2 DEF IInv, ChainInv, LiveGrantsApart
  <2>7. SessionsApart'
    BY <2>2, Zenon DEF IInv, ChainInv, SessionsApart
  <2> QED BY <2>3, <2>4, <2>5, <2>6, <2>7, Zenon DEF ChainInv
<1>21. Consented(row)'
  <2>1. CASE g.session_id = None
    <3>1. CodeGrant(g)'
      BY <1>1, <1>10, <1>11, <2>1, ConsentedKept, Zenon DEF IInv, ConsentInv
    <3> QED BY <1>3, <1>4, <1>5, <1>6, <3>1, ZenonT(60) DEF CodeGrant, Consented
  <2>2. CASE g.session_id # None
    <3>1. Consented(g)
      BY <1>1, <1>11, <2>2, Zenon DEF IInv, ConsentInv
    <3>2. session = g.session_id
      BY <1>1, <2>2, Zenon DEF PutRefreshToken
    <3> QED BY <1>5, <1>10, <3>1, <3>2, ConsentedNarrower, ConsentedKept, Zenon
  <2> QED BY <2>1, <2>2, Zenon
<1>22. ConsentInv'
  BY <1>6, <1>10, <1>11, <1>21, ConsentedKept, Zenon DEF IInv, ConsentInv, GrantsKept, Granting
<1> QED BY <1>9, <1>12, <1>18, <1>20, <1>22, Zenon DEF IInv

-----------------------------------------------------------------------------
(* The theorems                                                             *)

\* Every step preserves the invariant.
LEMMA NextIInv == IInv /\ [Next]_vars => IInv'
<1> SUFFICES ASSUME IInv, [Next]_vars PROVE IInv'
  BY Zenon
<1>1. CASE Tick BY <1>1, TickStep, Zenon
<1>2. ASSUME NEW h \in Handlers, Step(h) PROVE IInv'
  BY <1>2, PutPushedRequestStep, AuthorizeSubmitStep, PutAuthCodeStep, DeletePushedRequestStep,
     TokenCodeStep, ConsumeAuthCodeStep, TokenRefreshStep, ConsumeRefreshTokenStep,
     PutRefreshTokenStep, RevokeSessionStep, RevokeRefreshTokenStep, AbandonStep, Zenon DEF Step
<1>3. CASE UNCHANGED vars
  <2>1. /\ UNCHANGED <<now, oauth_par, oauth_auth_codes, oauth_refresh_tokens, pc, job, sent>>
        /\ UNCHANGED <<pushed, minted, issued, revoked>>
    BY <1>3, Zenon DEF vars, tables, history
  <2>2. TypeOK' /\ FunInv' BY <2>1, ZenonT(60) DEF IInv, TypeOK, FunInv
  <2>3. ParInv' BY <2>1, Zenon DEF IInv, ParInv
  <2>4. GrantsKept BY <2>1, Zenon DEF GrantsKept, Granting
  <2> QED BY <2>1, <2>2, <2>3, <2>4, GrantsFrame, Zenon DEF IInv
<1> QED BY <1>1, <1>2, <1>3, Zenon DEF Next

\* The invariant holds throughout.
LEMMA Invariance == Spec => []IInv
<1> QED BY InitIInv, NextIInv, PTL DEF Spec

\* token.rs and store.rs: whatever refreshes, reuses and revocations interleave, a
\* session has at most one token that can be redeemed, and no code and no token
\* has two successors.
THEOREM OneLiveToken == Spec => []OneLiveTokenPerSession
<1>1. IInv => OneLiveTokenPerSession
  BY Zenon DEF IInv, SourceInv, IssuedApart, ChainInv, LiveApart, OneLiveTokenPerSession
<1> QED BY <1>1, Invariance, PTL

\* token.rs: every refresh token is for the account, client, key and scope that a
\* user consented to, through any number of rotations.
THEOREM TokensAreConsented == Spec => []WithinConsent
<1>1. IInv => WithinConsent
  BY Zenon DEF IInv, ConsentInv, Consented, WithinConsent
<1> QED BY <1>1, Invariance, PTL

\* What brings no live token and no grant to a session that is over leaves it over.
LEMMA OverFrame ==
    ASSUME IInv, NEW s \in Sessions, Over(s),
           \A t \in Tokens : issued[t] # None => issued'[t] = issued[t],
           \A t \in Tokens : Live(t)' =>
             \/ Live(t) /\ oauth_refresh_tokens'[t].session_id = oauth_refresh_tokens[t].session_id
             \/ oauth_refresh_tokens'[t].session_id # s,
           \A h \in Handlers : pc'[h] = "put_refresh_token" =>
             (Granting(h) /\ job'[h] = job[h]) \/ job'[h].session_id # s
    PROVE  Over(s)'
<1>1. \A t \in Tokens : Live(t)' => oauth_refresh_tokens'[t].session_id # s
  BY Zenon DEF Over
<1>2. \A h \in Handlers : pc'[h] = "put_refresh_token" => job'[h].session_id # s
  BY Zenon DEF Over, Granting
<1>3. \E t \in Tokens : issued'[t] # None /\ issued'[t].session_id = s
  BY Zenon DEF Over
<1> QED BY <1>1, <1>2, <1>3, Zenon DEF Over

\* A redeemed token was live, so its session was not over.
LEMMA OverConsume ==
    ASSUME IInv, NEW s \in Sessions, Over(s), NEW h \in Handlers, ConsumeRefreshToken(h)
    PROVE  Over(s)'
<1>1. job[h].token \in Tokens
  BY TypeParts, Zenon DEF IInv, ConsumeRefreshToken, JobType, RefreshForm
<1>2. UNCHANGED issued BY Zenon DEF ConsumeRefreshToken
<1>3. \A t \in Tokens : Live(t)' =>
        Live(t) /\ oauth_refresh_tokens'[t].session_id = oauth_refresh_tokens[t].session_id
  BY <1>1, ZenonT(60) DEF ConsumeRefreshToken, SetUsed, Live, IInv, TypeOK, TokenRow
<1>4. pc'[h] = "put_refresh_token" =>
        Live(job[h].token) /\ job'[h].session_id = oauth_refresh_tokens[job[h].token].session_id
  BY DEF ConsumeRefreshToken, Goto, Respond, Live, Reused, IInv, FunInv
<1>5. \A x \in Handlers : x # h => pc'[x] = pc[x] /\ job'[x] = job[x]
  BY Zenon DEF ConsumeRefreshToken, Goto, Respond, IInv, FunInv
<1>6. pc'[h] = "put_refresh_token" => job'[h].session_id # s
  BY <1>1, <1>4, Zenon DEF Over
<1> QED BY <1>2, <1>3, <1>5, <1>6, OverFrame, Zenon DEF Granting

\* A successor is stored in a session that its handler holds, or in a fresh one.
LEMMA OverPut ==
    ASSUME IInv, NEW s \in Sessions, Over(s), NEW h \in Handlers, NEW token \in Tokens,
           NEW session \in Sessions, PutRefreshToken(h, token, session)
    PROVE  Over(s)'
<1>1. session # s
  BY Zenon DEF PutRefreshToken, Over
<1>2. /\ \A t \in Tokens : t # token => oauth_refresh_tokens'[t] = oauth_refresh_tokens[t]
      /\ oauth_refresh_tokens'[token].session_id = session
      /\ \A t \in Tokens : issued[t] # None => issued'[t] = issued[t]
  BY Zenon DEF PutRefreshToken, IInv, TypeOK
<1>3. \A x \in Handlers : pc'[x] = "put_refresh_token" => Granting(x) /\ job'[x] = job[x]
  BY Zenon DEF PutRefreshToken, Respond, Goto, Granting, IInv, FunInv
<1>4. \A t \in Tokens : Live(t)' =>
        \/ Live(t) /\ oauth_refresh_tokens'[t].session_id = oauth_refresh_tokens[t].session_id
        \/ oauth_refresh_tokens'[t].session_id # s
  BY <1>1, <1>2, Zenon DEF Live
<1> QED BY <1>2, <1>3, <1>4, OverFrame, Zenon

\* A session that is over stays over: neither a retry, nor a late handler, nor a
\* crash between the two transactions of a refresh brings it back.
THEOREM OverStaysOver == Spec => OverIsForever
<1>1. IInv /\ [Next]_vars => [\A s \in Sessions : Over(s) => Over(s)']_vars
  <2> SUFFICES ASSUME IInv, Next, NEW s \in Sessions, Over(s) PROVE Over(s)'
    BY Zenon
  <2>1. CASE Tick
    BY <2>1, OverFrame, Zenon DEF Tick, tables, history, Granting, Live
  <2>2. ASSUME NEW h \in Handlers, Step(h) PROVE Over(s)'
    <3>1. CASE \E uri \in Uris, req \in PushedRequest : PutPushedRequest(h, uri, req)
      BY <3>1, OverFrame, Zenon DEF PutPushedRequest, Granting, Live
    <3>2. CASE \/ \E uri \in Uris, did \in Dids, accept \in BOOLEAN :
                    AuthorizeSubmit(h, uri, did, accept)
               \/ \E code \in Codes : PutAuthCode(h, code)
               \/ DeletePushedRequest(h)
               \/ \E code \in Codes, client_id \in Clients, pkce \in BOOLEAN, jkt \in Keys :
                    TokenCode(h, code, client_id, pkce, jkt)
               \/ \E token \in Tokens, client_id \in Clients, scope \in Scopes \cup {None},
                     jkt \in Keys : TokenRefresh(h, token, client_id, scope, jkt)
               \/ Abandon(h)
      <4>1. UNCHANGED <<oauth_refresh_tokens, issued>>
        BY <3>2, Zenon DEF AuthorizeSubmit, PutAuthCode, DeletePushedRequest, TokenCode, TokenRefresh,
                    Abandon, tables, history
      <4>2. GrantsKept
        BY <3>2, Zenon DEF AuthorizeSubmit, PutAuthCode, DeletePushedRequest, TokenCode, TokenRefresh,
                    Abandon, Respond, Goto, GrantsKept, Granting, IInv, FunInv
      <4> QED BY <4>1, <4>2, OverFrame, Zenon DEF GrantsKept, Live
    <3>3. CASE ConsumeAuthCode(h)
      <4>1. UNCHANGED <<oauth_refresh_tokens, issued>>
        BY <3>3, Zenon DEF ConsumeAuthCode, history
      <4>2. \A x \in Handlers : pc'[x] = "put_refresh_token" =>
              (Granting(x) /\ job'[x] = job[x]) \/ job'[x].session_id # s
        BY <3>3, ConstantsAssumption DEF ConsumeAuthCode, Respond, Goto, Granting, IInv, FunInv
      <4> QED BY <4>1, <4>2, OverFrame, Zenon DEF Live
    <3>4. CASE ConsumeRefreshToken(h) BY <3>4, OverConsume, Zenon
    <3>5. CASE \E token \in Tokens, session \in Sessions : PutRefreshToken(h, token, session)
      BY <3>5, OverPut, Zenon
    <3>6. CASE RevokeSession(h)
      BY <3>6, OverFrame, Zenon DEF RevokeSession, DeleteSession, Respond, Goto, Granting, Live, IInv, FunInv
    <3>7. CASE \E token \in Tokens : RevokeRefreshToken(h, token)
      BY <3>7, OverFrame, Zenon DEF RevokeRefreshToken, DeleteSession, Granting, Live
    <3> QED BY <2>2, <3>1, <3>2, <3>3, <3>4, <3>5, <3>6, <3>7, Zenon DEF Step
  <2> QED BY <2>1, <2>2, Zenon DEF Next
<1> QED BY <1>1, Invariance, PTL DEF Spec, OverIsForever
=============================================================================
