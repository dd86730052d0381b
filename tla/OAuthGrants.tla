----------------------------- MODULE OAuthGrants -----------------------------
(***************************************************************************)
(* The OAuth authorization server: pushed requests (xrpc/oauth/par.rs), the *)
(* login and consent form (authorize.rs), the two grants of the token       *)
(* endpoint (token.rs) and revocation (revoke.rs), over the OAuth tables of *)
(* the SQLite store (storage/sqlite/oauth.rs).                              *)
(*                                                                          *)
(* A handler is a future whose steps are its storage calls; each call is    *)
(* one transaction on the one writer connection, so it is atomic, and other *)
(* handlers run between two calls of one handler.  A storage error, a       *)
(* dropped connection or a restart ends a handler between two calls.        *)
(*                                                                          *)
(* Secrets are 256-bit random values: a fresh one is one never drawn        *)
(* before.  The redirect_uri and PKCE checks, which have the same outcome,  *)
(* are one Boolean of the form that a client posts.                         *)
(***************************************************************************)
EXTENDS Naturals, FiniteSets

CONSTANTS
    Handlers,       \* requests being served concurrently
    Uris,           \* request_uris
    Codes,          \* authorization codes
    Tokens,         \* refresh tokens
    Sessions,       \* session ids: one rotation chain each
    Dids,           \* accounts
    Clients,        \* client ids
    Keys,           \* DPoP keys, by thumbprint (jkt)
    Scopes,         \* scopes: each a set that contains `atproto`
    None,           \* an absent row or option
    PAR_TTL, AUTH_CODE_TTL, REFRESH_TOKEN_TTL, \* lifetimes, in clock ticks
    MaxTime         \* bound on the clock

\* None is no value of the model, and two random secrets are never equal.
ASSUME ConstantsAssumption ==
    /\ None \notin Keys \cup Scopes \cup Sessions \cup Codes
    /\ Codes \cap Tokens = {}
    /\ PAR_TTL \in Nat /\ AUTH_CODE_TTL \in Nat /\ REFRESH_TOKEN_TTL \in Nat

VARIABLES
    now,        \* now_unix()
    oauth_par,              \* uri -> pushed request or None
    oauth_auth_codes,       \* code -> AuthCode or None
    oauth_refresh_tokens,   \* token -> RefreshTokenRecord or None
    pc,         \* the storage call each handler makes next, or "idle"
    job,        \* what it carries there
    sent,       \* the secrets that reached a client
    pushed,     \* history: uri -> the request pushed under it
    minted,     \* history: code -> the request it answers and the DID that consented
    issued,     \* history: token -> its session, key, and the code or token it replaces
    revoked     \* history: sessions that a completed revocation has named

tables == <<oauth_par, oauth_auth_codes, oauth_refresh_tokens>>
history == <<pushed, minted, issued, revoked>>
vars == <<now, tables, pc, job, sent, history>>

PushedRequest == [client_id : Clients, scope : Scopes, dpop_jkt : Keys \cup {None}]

\* StoredPushedRequest, AuthCode and RefreshTokenRecord.
ParRow == [req : PushedRequest, expires_at : Nat]
CodeRow == [uri : Uris, did : Dids, req : PushedRequest, expires_at : Nat]
TokenRow == [session_id : Sessions, did : Dids, client_id : Clients, scope : Scopes,
             dpop_jkt : Keys, expires_at : Nat, used : BOOLEAN]

\* What `issue` is called with; `source` is the code or refresh token redeemed.
Grant == [did : Dids, client_id : Clients, scope : Scopes, dpop_jkt : Keys,
          session_id : Sessions \cup {None}, source : Codes \cup Tokens]

\* An issued refresh token, for the history.
Issuance == [session_id : Sessions, dpop_jkt : Keys, source : Codes \cup Tokens]

\* The request that a code answers and the account that consented, for the history.
Minting == [uri : Uris, did : Dids]

\* None is no row of the history.
ASSUME NoneAssumption ==
    None \notin PushedRequest /\ None \notin Minting /\ None \notin Issuance

\* The token forms.  `at` is the now_unix() that expiry is judged by.
CodeForm == [code : Codes, client_id : Clients, pkce : BOOLEAN, jkt : Keys, at : Nat]
RefreshForm == [token : Tokens, client_id : Clients, scope : Scopes \cup {None},
                jkt : Keys, at : Nat]

TypeOK ==
    /\ now \in Nat
    /\ oauth_par \in [Uris -> ParRow \cup {None}]
    /\ oauth_auth_codes \in [Codes -> CodeRow \cup {None}]
    /\ oauth_refresh_tokens \in [Tokens -> TokenRow \cup {None}]
    /\ sent \subseteq Uris \cup Codes \cup Tokens
    /\ pushed \in [Uris -> PushedRequest \cup {None}]
    /\ minted \in [Codes -> Minting \cup {None}]
    /\ issued \in [Tokens -> Issuance \cup {None}]
    /\ revoked \subseteq Sessions
    /\ \A h \in Handlers :
         \/ pc[h] = "idle"
         \/ pc[h] = "put_auth_code" /\ job[h] \in [uri : Uris, did : Dids, req : PushedRequest]
         \/ pc[h] = "delete_pushed_request" /\ job[h] \in [uri : Uris, code : Codes \cup {None}]
         \/ pc[h] = "consume_auth_code" /\ job[h] \in CodeForm
         \/ pc[h] = "consume_refresh_token" /\ job[h] \in RefreshForm
         \/ pc[h] = "put_refresh_token" /\ job[h] \in Grant
         \/ pc[h] = "revoke_session" /\ job[h] \in Sessions

Init ==
    /\ now = 0
    /\ oauth_par = [u \in Uris |-> None]
    /\ oauth_auth_codes = [c \in Codes |-> None]
    /\ oauth_refresh_tokens = [t \in Tokens |-> None]
    /\ pc = [h \in Handlers |-> "idle"]
    /\ job = [h \in Handlers |-> None]
    /\ sent = {}
    /\ pushed = [u \in Uris |-> None]
    /\ minted = [c \in Codes |-> None]
    /\ issued = [t \in Tokens |-> None]
    /\ revoked = {}

Goto(h, call, j) == pc' = [pc EXCEPT ![h] = call] /\ job' = [job EXCEPT ![h] = j]
Respond(h) == Goto(h, "idle", None)

\* The response carries the secret, and may be lost.
Reply(secret) == sent' \in {sent, sent \cup {secret}}

-----------------------------------------------------------------------------
(* par.rs and authorize.rs                                                  *)

\* POST /oauth/par: validate and store the request under a fresh request_uri.
PutPushedRequest(h, uri, req) ==
    /\ pc[h] = "idle"
    /\ pushed[uri] = None
    /\ oauth_par' = [oauth_par EXCEPT ![uri] = [req |-> req, expires_at |-> now + PAR_TTL]]
    /\ pushed' = [pushed EXCEPT ![uri] = req]
    /\ Reply(uri)
    /\ UNCHANGED <<now, oauth_auth_codes, oauth_refresh_tokens, pc, job, minted, issued, revoked>>

\* POST /oauth/authorize: the request is read, not consumed; then the user is
\* authenticated as `did`.
AuthorizeSubmit(h, uri, did, accept) ==
    LET stored == oauth_par[uri] IN
    /\ pc[h] = "idle"
    /\ uri \in sent
    /\ stored # None /\ stored.expires_at > now
    /\ IF accept
       THEN Goto(h, "put_auth_code", [uri |-> uri, did |-> did, req |-> stored.req])
       ELSE Goto(h, "delete_pushed_request", [uri |-> uri, code |-> None])
    /\ UNCHANGED <<now, tables, sent, history>>

\* issue_code: store a fresh code ...
PutAuthCode(h, code) ==
    LET j == job[h] IN
    /\ pc[h] = "put_auth_code"
    /\ minted[code] = None
    /\ oauth_auth_codes' = [oauth_auth_codes EXCEPT ![code] =
         [uri |-> j.uri, did |-> j.did, req |-> j.req, expires_at |-> now + AUTH_CODE_TTL]]
    /\ minted' = [minted EXCEPT ![code] = [uri |-> j.uri, did |-> j.did]]
    /\ Goto(h, "delete_pushed_request", [uri |-> j.uri, code |-> code])
    /\ UNCHANGED <<now, oauth_par, oauth_refresh_tokens, sent, pushed, issued, revoked>>

\* The redirect carries the code, or a denial and no code.
Redirect(code) == IF code = None THEN UNCHANGED sent ELSE Reply(code)

\* ... then delete the request, and redirect with the code (or with the denial).
DeletePushedRequest(h) ==
    LET j == job[h] IN
    /\ pc[h] = "delete_pushed_request"
    /\ oauth_par' = [oauth_par EXCEPT ![j.uri] = None]
    /\ Redirect(j.code)
    /\ Respond(h)
    /\ UNCHANGED <<now, oauth_auth_codes, oauth_refresh_tokens, history>>

-----------------------------------------------------------------------------
(* token.rs                                                                 *)

\* POST /oauth/token with grant_type=authorization_code.  The clock is read
\* before the handler waits for the writer connection.
TokenCode(h, code, client_id, pkce, jkt) ==
    /\ pc[h] = "idle"
    /\ code \in sent
    /\ Goto(h, "consume_auth_code",
            [code |-> code, client_id |-> client_id, pkce |-> pkce, jkt |-> jkt, at |-> now])
    /\ UNCHANGED <<now, tables, sent, history>>

\* authorization_code_grant after the code was redeemed: same client, same
\* redirect_uri, PKCE, and the key of the pushed request when it named one.
CodeAccepted(row, form) ==
    /\ row # None
    /\ row.expires_at > form.at
    /\ row.req.client_id = form.client_id
    /\ form.pkce
    /\ row.req.dpop_jkt \in {None, form.jkt}

DeleteAuthCode(code) == oauth_auth_codes' = [oauth_auth_codes EXCEPT ![code] = None]

\* consume_auth_code deletes the row whether or not it is returned.
ConsumeAuthCode(h) ==
    LET form == job[h]
        row == oauth_auth_codes[form.code]
    IN
    /\ pc[h] = "consume_auth_code"
    /\ DeleteAuthCode(form.code)
    /\ IF CodeAccepted(row, form)
       THEN Goto(h, "put_refresh_token",
                 [did |-> row.did, client_id |-> row.req.client_id, scope |-> row.req.scope,
                  dpop_jkt |-> form.jkt, session_id |-> None, source |-> form.code])
       ELSE Respond(h)
    /\ UNCHANGED <<now, oauth_par, oauth_refresh_tokens, sent, history>>

\* POST /oauth/token with grant_type=refresh_token.
TokenRefresh(h, token, client_id, scope, jkt) ==
    /\ pc[h] = "idle"
    /\ token \in sent
    /\ Goto(h, "consume_refresh_token",
            [token |-> token, client_id |-> client_id, scope |-> scope, jkt |-> jkt, at |-> now])
    /\ UNCHANGED <<now, tables, sent, history>>

\* As RefreshAccepted, but a client may widen its scope.
RefreshAccepted_AnyScope(row, form) ==
    /\ row.client_id = form.client_id
    /\ row.dpop_jkt = form.jkt

\* refresh_token_grant after the token was consumed: same client, same key, and
\* a scope that does not widen the grant.
RefreshAccepted(row, form) ==
    /\ row.client_id = form.client_id
    /\ row.dpop_jkt = form.jkt
    /\ form.scope = None \/ form.scope \subseteq row.scope

\* As SetUsed, but the token is only read.
SetUsed_Kept(token) == UNCHANGED oauth_refresh_tokens

SetUsed(token) == oauth_refresh_tokens' = [oauth_refresh_tokens EXCEPT ![token].used = TRUE]

\* As Reused, but a token is taken however often it comes.
Reused_Never(row) == FALSE

Reused(row) == row.used

\* consume_refresh_token: NotFound, Reused (which goes on to revoke the chain)
\* or Consumed, which marks the row used before the form is checked.
ConsumeRefreshToken(h) ==
    LET form == job[h]
        row == oauth_refresh_tokens[form.token]
        found == row # None /\ row.expires_at > form.at
    IN
    /\ pc[h] = "consume_refresh_token"
    /\ \/ /\ ~found
          /\ Respond(h)
          /\ UNCHANGED oauth_refresh_tokens
       \/ /\ found /\ Reused(row)
          /\ Goto(h, "revoke_session", row.session_id)
          /\ UNCHANGED oauth_refresh_tokens
       \/ /\ found /\ ~Reused(row)
          /\ SetUsed(form.token)
          /\ IF RefreshAccepted(row, form)
             THEN Goto(h, "put_refresh_token",
                       [did |-> row.did, client_id |-> row.client_id,
                        scope |-> IF form.scope = None THEN row.scope ELSE form.scope,
                        dpop_jkt |-> form.jkt, session_id |-> row.session_id,
                        source |-> form.token])
             ELSE Respond(h)
    /\ UNCHANGED <<now, oauth_par, oauth_auth_codes, sent, pushed, minted, issued, revoked>>

\* issue: store a fresh refresh token, in the session of the token it replaces
\* or in a fresh one, and return it.
PutRefreshToken(h, token, session) ==
    LET g == job[h] IN
    /\ pc[h] = "put_refresh_token"
    /\ issued[token] = None
    /\ IF g.session_id = None
       THEN \A t \in Tokens : issued[t] # None => issued[t].session_id # session
       ELSE session = g.session_id
    /\ oauth_refresh_tokens' = [oauth_refresh_tokens EXCEPT ![token] =
         [session_id |-> session, did |-> g.did, client_id |-> g.client_id, scope |-> g.scope,
          dpop_jkt |-> g.dpop_jkt, expires_at |-> now + REFRESH_TOKEN_TTL, used |-> FALSE]]
    /\ issued' = [issued EXCEPT ![token] =
         [session_id |-> session, dpop_jkt |-> g.dpop_jkt, source |-> g.source]]
    /\ Reply(token)
    /\ Respond(h)
    /\ UNCHANGED <<now, oauth_par, oauth_auth_codes, pushed, minted, revoked>>

DeleteSession(s) ==
    oauth_refresh_tokens' = [t \in Tokens |->
        IF oauth_refresh_tokens[t] # None /\ oauth_refresh_tokens[t].session_id = s
        THEN None ELSE oauth_refresh_tokens[t]]

\* The chain of a refresh token that was presented twice is revoked.
RevokeSession(h) ==
    /\ pc[h] = "revoke_session"
    /\ DeleteSession(job[h])
    /\ revoked' = revoked \cup {job[h]}
    /\ Respond(h)
    /\ UNCHANGED <<now, oauth_par, oauth_auth_codes, sent, pushed, minted, issued>>

\* POST /oauth/revoke: revoke_refresh_token finds the session of the token's row
\* and deletes the chain, in one transaction.
RevokeRefreshToken(h, token) ==
    LET row == oauth_refresh_tokens[token] IN
    /\ pc[h] = "idle"
    /\ token \in sent
    /\ row # None
    /\ DeleteSession(row.session_id)
    /\ revoked' = revoked \cup {row.session_id}
    /\ UNCHANGED <<now, oauth_par, oauth_auth_codes, pc, job, sent, pushed, minted, issued>>

-----------------------------------------------------------------------------

\* The storage call failed, the client disconnected, or the server restarted.
Abandon(h) ==
    /\ pc[h] # "idle"
    /\ Respond(h)
    /\ UNCHANGED <<now, tables, sent, history>>

Tick ==
    /\ now < MaxTime
    /\ now' = now + 1
    /\ UNCHANGED <<tables, pc, job, sent, history>>

Step(h) ==
    \/ \E uri \in Uris, req \in PushedRequest : PutPushedRequest(h, uri, req)
    \/ \E uri \in Uris, did \in Dids, accept \in BOOLEAN : AuthorizeSubmit(h, uri, did, accept)
    \/ \E code \in Codes : PutAuthCode(h, code)
    \/ DeletePushedRequest(h)
    \/ \E code \in Codes, client_id \in Clients, pkce \in BOOLEAN, jkt \in Keys :
         TokenCode(h, code, client_id, pkce, jkt)
    \/ ConsumeAuthCode(h)
    \/ \E token \in Tokens, client_id \in Clients, scope \in Scopes \cup {None}, jkt \in Keys :
         TokenRefresh(h, token, client_id, scope, jkt)
    \/ ConsumeRefreshToken(h)
    \/ \E token \in Tokens, session \in Sessions : PutRefreshToken(h, token, session)
    \/ RevokeSession(h)
    \/ \E token \in Tokens : RevokeRefreshToken(h, token)
    \/ Abandon(h)

Next == Tick \/ \E h \in Handlers : Step(h)

Spec == Init /\ [][Next]_vars

-----------------------------------------------------------------------------
(* Properties                                                               *)

Live(t) == oauth_refresh_tokens[t] # None /\ ~oauth_refresh_tokens[t].used

\* Refresh tokens rotate on every use (token.rs), and consume_auth_code and
\* consume_refresh_token are single-use (store.rs): however refreshes of one session
\* interleave, at most one of its tokens can still be redeemed, and no two refresh
\* tokens are ever issued for the same code or for the same token.
OneLiveTokenPerSession ==
    \A t1, t2 \in Tokens : t1 # t2 =>
        /\ Live(t1) /\ Live(t2) =>
             oauth_refresh_tokens[t1].session_id # oauth_refresh_tokens[t2].session_id
        /\ issued[t1] # None /\ issued[t2] # None => issued[t1].source # issued[t2].source

\* What a session may do is what its user consented to: every token of the chain
\* is for the client, account and key that started it, and within the scope and
\* key binding of the pushed request, through every refresh (and the tables and
\* handlers keep their types).
WithinConsent ==
  /\ TypeOK
  /\ \A t \in Tokens : oauth_refresh_tokens[t] # None =>
        LET row == oauth_refresh_tokens[t] IN
        \E first \in Tokens, c \in Codes :
            LET req == pushed[minted[c].uri] IN
            /\ issued[first] = [session_id |-> row.session_id, dpop_jkt |-> row.dpop_jkt,
                                source |-> c]
            /\ row.did = minted[c].did
            /\ row.client_id = req.client_id
            /\ row.scope \subseteq req.scope
            /\ req.dpop_jkt \in {None, row.dpop_jkt}

\* A session is over when none of its tokens can be redeemed and no handler
\* holds a grant for it.
Over(s) ==
    /\ \E t \in Tokens : issued[t] # None /\ issued[t].session_id = s
    /\ \A t \in Tokens : Live(t) => oauth_refresh_tokens[t].session_id # s
    /\ \A h \in Handlers : pc[h] = "put_refresh_token" => job[h].session_id # s

\* A session that is over (revoked, burned by a failed refresh, or cut off by a
\* crash between consume_refresh_token and put_refresh_token) never comes back.
OverIsForever == [][\A s \in Sessions : Over(s) => Over(s)']_vars

\* revoke.rs: "Revoking any token in a rotation chain ends the whole session."
\* The code does not keep this one: no run checks it, see README, Observations.
RevokedEndsSession ==
    \A t \in Tokens : Live(t) => oauth_refresh_tokens[t].session_id \notin revoked

=============================================================================
