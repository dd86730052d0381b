-------------------------------- MODULE Access --------------------------------
(***************************************************************************)
(* Requests of clients against each of the three servers, while time passes, *)
(* accounts are taken down, passwords are reset, services move, handlers are *)
(* dropped, calls get lost and the process restarts.                         *)
(***************************************************************************)
EXTENDS DesktopAccess, EmbeddedAccess, WorkerAccess

CONSTANTS
    Passwords,  \* passwords that may be set
    Skews       \* how far the clock of an OAuth client may be off

-----------------------------------------------------------------------------
(* Environments. *)

\* A request before its client signs it.  A login carries no token.  A service that is
\* looked up in the PLC directory is one of Services, whose entry may be Nobody.
RequestOK(r) ==
    /\ DOMAIN r = DOMAIN NoRequest
    /\ r.scheme \in {"none", "bearer", "dpop", "retry"} /\ r.token = {} /\ r.proof = {}
    /\ r.wellformed \in BOOLEAN /\ r.exp \subseteq Int
    /\ r.nsid = "createSession" => r.scheme = "none"
    /\ r.to.method = "plc" => r.to \in Services

\* did is the primary key of accounts.  Tokens that clients have from the start are of
\* the first AS key.  Nothing on Workers calls set_takedown.
SceneOK(s) ==
    /\ s.server \in {"desktop", "embedded", "worker"}
    /\ \A a \in s.accounts : /\ DOMAIN a = {"did", "handle", "phc", "down"}
                             /\ a.did \in Dids /\ a.down \in BOOLEAN
    /\ \A a, b \in s.accounts : a.did = b.did => a = b
    /\ s.server = "worker" => "takedown" \notin s.world /\ \A a \in s.accounts : ~a.down
    /\ \A d \in s.directories : DOMAIN d = Services
    /\ \A x \in s.issued : /\ x.scope \in {"access", "refresh", "oauth"}
                           /\ x.sub \in Dids /\ x.exp \in Int
                           /\ x.scope = "oauth" => x.key = 1
    /\ \A t \in Tasks : \A r \in s.asks[t] : RequestOK(r)

ASSUME SceneAssumption == \A s \in Scenes : SceneOK(s)

ASSUME SkewAssumption == Skews \subseteq Int

-----------------------------------------------------------------------------
(* Clients. *)

\* A proof as it should be, and proofs that are wrong in one respect.
Proofs(t, r, x) ==
    LET Proof(jkt, htu, ath, learned, iat) ==
            [jti |-> t, jkt |-> jkt, htu |-> htu, ath |-> ath, learned |-> learned, iat |-> iat]
    IN  {Proof(x.jkt, r.nsid, x, {l}, i) : l \in 0..now, i \in {now + k : k \in Skews} \cap Nat}
          \cup {Proof(k, r.nsid, x, {now}, now) : k \in Keys}
          \cup {Proof(x.jkt, r.nsid, y, {now}, now) : y \in issued}
          \cup {Proof(x.jkt, "elsewhere", x, {now}, now), Proof(x.jkt, r.nsid, x, {}, now)}

\* A client that got no answer sends its request again, with the same proof.
Sent == UNION {req[t].proof : t \in Tasks}

\* The request `r` with a token, and with a proof, that the client may have.
Signed(t, r) ==
    IF r.scheme = "bearer" THEN {[r EXCEPT !.token = {x}] : x \in issued}
    ELSE IF r.scheme = "dpop"
    THEN UNION {{[r EXCEPT !.token = {x}, !.proof = p] :
                   p \in {{}} \cup {{q} : q \in Proofs(t, r, x)}} :
                x \in {y \in issued : y.scope = "oauth"}}
    ELSE IF r.scheme = "retry"
    THEN {[r EXCEPT !.scheme = "dpop", !.token = {q.ath}, !.proof = {q}] : q \in Sent}
    ELSE {r}

Serve(t) ==
    \/ scene.server = "desktop" /\ (Handler(t) \/ OrphanJti(t))
    \/ scene.server = "embedded" /\ embedded_route(t)
    \/ scene.server = "worker" /\ WorkerHandler(t)

Next ==
    \/ \E t \in Tasks : \E r \in scene.asks[t] : \E s \in Signed(t, r) : Receive(t, s)
    \/ \E t \in Tasks : Serve(t)
    \/ \E t \in Tasks : Drop(t)
    \/ \E t \in Tasks : OrphanPut(t)
    \/ \E a \in accounts : set_takedown(a)
    \/ \E a \in accounts : clear_takedown(a)
    \/ \E a \in accounts, p \in Passwords : update_password(a, p)
    \/ \E s \in Services, url \in Endpoints : UpdateDirectory(s, url)
    \/ \E d \in Dids, k \in Keys : Grant(d, k)
    \/ load_or_create_signing_key
    \/ Tick

Spec == Init /\ [][Next]_vars

-----------------------------------------------------------------------------
(* Properties. *)

Replied(t, nsids) == req[t].nsid \in nsids /\ reply[t].status = "OK"

\* The rows of accounts that t may have read.
Seen(t) == UNION since[t].seen

\* Everything has its type; what a handler holds goes with where it is.
TypeOK ==
    /\ now \in 0..MaxTime /\ events \in 0..MaxEvents
    /\ \A p, q \in prefs : p.at = q.at /\ p.did = q.did => p = q
    /\ \A a, b \in accounts : a.did = b.did => a = b
    /\ proc.as \in 1..MaxKeys
    /\ \A c, e \in proc.targets : c.key = e.key => c = e
    /\ \A t \in Tasks :
         /\ pc[t] = "done" <=> reply[t] # NoReply
         /\ pc[t] \in {"jti", "jti orphan"} => req[t].proof # {} /\ loc[t].did = Nobody
         /\ pc[t] \in {"lookup", "issue", "put", "put orphan", "get", "fetch", "key"} =>
              loc[t].did \in Dids
         /\ pc[t] = "upstream" => scene.server = "worker" \/ loc[t].sent # {}

\* DPoP (extractor.rs, dpop.rs): a request that a proof authorized was made for this
\* method and URI, with this access token, by the holder of the key the token is bound
\* to, and no second request is ever authorized by the same proof: not a concurrent one,
\* not a retry, not one after a restart.
AuthorizedOnce ==
    \A t \in Tasks : req[t].scheme = "dpop" /\ loc[t].did # Nobody =>
        \A p \in req[t].proof, x \in req[t].token :
            /\ loc[t].did = x.sub /\ p.ath = x /\ p.jkt = x.jkt /\ p.htu = req[t].nsid
            /\ \A u \in Tasks \ {t} : p \in req[u].proof => loc[u].did = Nobody

\* DPoP (dpop.rs, nonce_is_valid; xrpc/oauth/mod.rs, derive_nonce_secret): a client that
\* follows the rules is never refused: its token is live and signed with a key the server
\* still has, it uses a nonce for at most NonceWindow after it learned it, its clock is
\* not off by more than the proof age, and the proof was not sent before.  A restart in
\* between does not matter.  (refreshSession takes session tokens only.)
FreshProofAccepted ==
    \A t \in {u \in Tasks : /\ reply[u].status = "InvalidToken" /\ ~loc[u].fault
                            /\ req[u].scheme = "dpop" /\ req[u].nsid # "refreshSession"} :
        \E p \in req[t].proof, x \in req[t].token :
            \/ x.exp <= reply[t].at \/ x.key # proc.as
            \/ p.ath # x \/ p.jkt # x.jkt \/ p.htu # req[t].nsid
            \/ p.learned = {} \/ \E l \in p.learned : reply[t].at - l > NonceWindow
            \/ p.iat > reply[t].at + MaxProofAge \/ p.iat < reply[t].at - MaxProofAge
            \/ \E u \in Tasks \ {t} : p \in req[u].proof

\* createSession and refreshSession: tokens are given out only for an account that was
\* active at some moment of the request, and a login only with the password that it had
\* at that same moment.  A takedown or a reset-password that came before the request
\* is never overlooked.  Nor do resolveHandle, atproto-did and (not on Workers, where
\* the token is the session) getSession name an account that was not active during the
\* request, or that neither had the handle that was asked for nor was the only active
\* account of a device.  (And everything keeps its type.)
SessionsAreEarned ==
  /\ TypeOK
  /\ \A t \in Tasks : Replied(t, {"createSession", "refreshSession"}) =>
        \E a \in Seen(t) :
            /\ a.did = reply[t].body.did /\ ~a.down
            /\ req[t].nsid = "createSession" =>
                 a.phc = req[t].password /\ req[t].id \in {a.handle, a.did}
            /\ req[t].nsid = "refreshSession" =>
                 \E x \in req[t].token : /\ x.scope = "refresh" /\ x.sub = a.did
                                         /\ x.exp >= since[t].at - Leeway
  /\ \A t \in Tasks :
        (Replied(t, {"resolveHandle", "atproto-did"})
         \/ (Replied(t, {"getSession"}) /\ scene.server # "worker")) =>
            \E table \in since[t].seen : \E a \in ActiveIn(table) :
                /\ a.did = reply[t].body.did
                /\ a.handle = reply[t].body.handle \/ ActiveIn(table) = {a}

\* The service proxy: what goes upstream carries a token of the caller for the service
\* that was addressed and for this method only, and goes to an endpoint which that service
\* (its DID and its fragment) has published since the process started, or which is fixed
\* by the configuration or by the did:web itself.  Workers know the configured ones only.
ForwardedAsAddressed(t) ==
    \A m \in loc[t].sent :
        LET s == req[t].to
            configured == IF req[t].nsid \in Chat /\ scene.server = "worker" THEN "chat" ELSE "appview"
        IN  /\ \E x \in req[t].token : m.token.iss = x.sub
            /\ m.token.lxm = req[t].nsid
            /\ m.token.exp <= m.token.iat + ServiceTtl
            /\ IF s = NoService \/ scene.server = "worker"
               THEN m.url = configured /\ m.token.aud = configured
               ELSE /\ m.token.aud = s.did
                    /\ \/ s.method = "web" /\ m.url = s.did
                       \/ pc[t] # "upstream"
                       \/ [service |-> s, url |-> m.url] \in proc.published

\* getServiceAuth: whatever i64 the caller asks for, the token is the caller's own, for the
\* audience asked for, and ends within ServiceMax of its making; on the server binary,
\* which reads the clock after the key is loaded, it has not ended when it is made.
GivenAsAsked(t) ==
    Replied(t, {"getServiceAuth"}) =>
        LET token == reply[t].body IN
        /\ \E x \in req[t].token : token.iss = x.sub
        /\ token.aud = req[t].to.did /\ token.lxm = req[t].id
        /\ token.exp <= token.iat + ServiceMax
        /\ scene.server = "desktop" => token.exp > token.iat

\* Service tokens: the ones the proxy sends and the ones getServiceAuth gives out name
\* their caller, their audience and their method, end soon, and a proxied one reaches the
\* addressed service only.
ServiceTokensAreBound == \A t \in Tasks : ForwardedAsAddressed(t) /\ GivenAsAsked(t)

\* An observation, of server/appview.rs:293-295 ("never in the past"): the embedded server
\* fixes the expiry before it loads the key, and the token may have ended when it is made.
NeverInThePast ==
    \A t \in Tasks : Replied(t, {"getServiceAuth"}) => reply[t].body.exp > reply[t].body.iat

Puts(d) == {t \in Tasks : /\ req[t].nsid = "putPreferences"
                          /\ \E x \in req[t].token : x.sub = d}

\* What a put writes: on Workers a body without preferences clears them.
Written(t) == IF req[t].wellformed THEN req[t].value ELSE NoPrefs

\* On Workers, a request to the host of another account than its caller's.
Misdirected(t, d) ==
    /\ scene.server = "worker" /\ req[t].host # scene.hostname
    /\ \E a \in accounts : a.did = d /\ a.handle # req[t].host

\* Preferences (three servers; on Workers through the shared host or the account's own):
\* getPreferences returns what some putPreferences of the same account wrote, and never
\* what an acknowledged one had replaced before the request came in, as long as the
\* account was not deleted and no registry lookup failed.
PrefsReadBack ==
    \A t \in Tasks : Replied(t, {"getPreferences"}) =>
        LET d == reply[t].body.did
            before == Puts(d) \cap since[t].done
            current(p) == \A q \in before : p \notin since[q].done
        IN  \/ \E u \in Puts(d) \cup {t} : loc[u].fault \/ Misdirected(u, d)
            \/ scene.server = "worker" /\ \A a \in accounts : a.did # d
            \/ reply[t].body.value = NoPrefs /\ before = {}
            \/ \E p \in Puts(d) : Written(p) = reply[t].body.value /\ current(p)

==============================================================================
