----------------------------- MODULE AccessTasks -----------------------------
(***************************************************************************)
(* Who a request is from, on the three servers: the state that sessions,   *)
(* OAuth access, service tokens, the service proxy, preferences and handle *)
(* resolution share, and the steps their handlers are made of.  A token is *)
(* a record that nobody can alter; passwords, keys and DIDs are model      *)
(* values.  A step ends where the code awaits the store, another object or *)
(* the network.                                                            *)
(***************************************************************************)
EXTENDS Integers

CONSTANTS
    Tasks,          \* requests in flight
    Scenes,         \* what may happen together: see scene below
    Dids,           \* accounts
    Keys,           \* DPoP keys of OAuth clients
    Services,       \* services in the PLC directory: [method, did, fragment]
    Endpoints,      \* URLs that a directory document may give for a service
    Nobody,         \* no DID, handle, password, URL
    NoPrefs,        \* the empty preferences array
    MaxTime,        \* bound on the clock
    MaxEvents,      \* bound on admin commands, moves of services, grants and restarts
    MaxKeys,        \* bound on the AS signing keys generated
    AccessTtl,      \* 7200 in the code
    RefreshTtl,     \* 7776000 in the code
    Leeway,         \* the skew jsonwebtoken tolerates: 60
    ServiceTtl,     \* 60 in the code
    ServiceMax,     \* 1800 in the code
    WordSize        \* 2^64 in the code

VARIABLES
    scene,      \* the environment: [server, hostname, accounts, directories, issued,
                \* asks: requests per task, world: what else happens]
    now,        \* the clock
    events,     \* admin commands, moves, grants and restarts so far
    accounts,   \* rows [did, handle, phc, down]
    claims,     \* the registry's active claims, rows [did, label] (Worker)
    prefs,      \* rows [at, did, value]; `at` is the store that holds the row
    directory,  \* directory[s]: the endpoint the PLC document has for service s
    jtis,       \* oauth_dpop_jti: proofs that were used
    proc,       \* the process: [as: AS key, keys: cached account keys, targets: cached
                \* endpoints, published: what the directory said in its lifetime]
    issued,     \* tokens that clients have
    pc,         \* pc[t]: the next step of t's handler
    req,        \* req[t]: the request
    loc,        \* loc[t]: the handler's locals
    since,      \* since[t]: arrival, acknowledged tasks then, account tables since then
    reply       \* reply[t]: the answer

store == <<accounts, claims, prefs, jtis>>
outside == <<scene, now, events, directory>>
task == <<pc, req, loc, since, reply>>
vars == <<scene, now, events, accounts, claims, prefs, directory, jtis, proc, issued,
          pc, req, loc, since, reply>>

ASSUME AccessAssumption ==
    /\ {AccessTtl, RefreshTtl, ServiceTtl, ServiceMax, WordSize, MaxKeys} \subseteq Nat \ {0}
    /\ {Leeway, MaxTime, MaxEvents} \subseteq Nat
    /\ ServiceTtl <= ServiceMax /\ MaxTime + ServiceMax < WordSize
    /\ Nobody \notin Dids

NoService == [method |-> "none", did |-> "appview", fragment |-> "none"]
NoRequest == [nsid |-> "none", host |-> Nobody, id |-> Nobody, password |-> Nobody,
              value |-> NoPrefs, to |-> NoService, exp |-> {}, wellformed |-> TRUE,
              scheme |-> "none", token |-> {}, proof |-> {}]
NoReply == [status |-> "none"]
NoLocals == [did |-> Nobody, handle |-> Nobody, phc |-> Nobody, url |-> Nobody, at |-> 0,
             fault |-> FALSE, sent |-> {}]

-----------------------------------------------------------------------------
(* Session tokens. *)

encode_access_jwt(d, time) == [scope |-> "access", sub |-> d, exp |-> time + AccessTtl]
encode_refresh_jwt(d, time) == [scope |-> "refresh", sub |-> d, exp |-> time + RefreshTtl]

decode_jwt(token) == token.scope \in {"access", "refresh"} /\ token.exp >= now - Leeway

verify_password(password, phc) == password = phc

(* Service tokens. *)

mint_service_auth_jwt_with(iss, aud, lxm, exp) ==
    [iss |-> iss, aud |-> aud, lxm |-> lxm, exp |-> exp, iat |-> now]

mint_service_auth_jwt(iss, aud, lxm) ==
    mint_service_auth_jwt_with(iss, aud, lxm, now + ServiceTtl)

\* The expiry for the one that a caller wants, an i64 that is cast to u64.
ServiceExpiry(wanted) ==
    LET e == (CHOOSE x \in wanted : TRUE) % WordSize
    IN  IF wanted = {} \/ e <= now THEN now + ServiceTtl
        ELSE IF e > now + ServiceMax THEN now + ServiceMax ELSE e

-----------------------------------------------------------------------------
(* Tables of the store: an account that was taken down is not found. *)

ActiveIn(table) == {a \in table : ~a.down}
get_account_by_handle(h) == {a \in ActiveIn(accounts) : a.handle = h}
get_handle_by_did(d) == {a.handle : a \in {x \in ActiveIn(accounts) : x.did = d}}
get_did_by_handle(h) == {a.did : a \in get_account_by_handle(h)}
get_preferences(at, d) ==
    LET rows == {p \in prefs : p.at = at /\ p.did = d}
    IN  IF rows = {} THEN NoPrefs ELSE (CHOOSE p \in rows : TRUE).value
upsert_preferences(at, d, v) ==
    prefs' = {p \in prefs : p.at # at \/ p.did # d} \cup {[at |-> at, did |-> d, value |-> v]}

-----------------------------------------------------------------------------
(* Steps of a handler. *)

Goto(t, label) ==
    /\ pc' = [pc EXCEPT ![t] = label]
    /\ UNCHANGED <<req, loc, since, reply>>

\* The handler goes on at `label` with new locals.
Keep(t, label, locals) ==
    /\ pc' = [pc EXCEPT ![t] = label]
    /\ loc' = [loc EXCEPT ![t] = locals]
    /\ UNCHANGED <<req, since, reply>>

Answer(t, status, body) ==
    /\ pc' = [pc EXCEPT ![t] = "done"]
    /\ reply' = [reply EXCEPT ![t] = [status |-> status, body |-> body, at |-> now]]
    /\ UNCHANGED <<req, loc, since>>

Error(t, status) == Answer(t, status, {})

NoEffect == UNCHANGED <<outside, store, proc, issued>>

\* A new pair of tokens, and the answer that carries it.
session_response(t, d, handle) ==
    /\ issued' = issued \cup {encode_access_jwt(d, now), encode_refresh_jwt(d, now)}
    /\ Answer(t, "OK", [did |-> d, handle |-> handle])

\* The account's signing key is in the cache or is loaded.
load_signing_key(t) == proc' = [proc EXCEPT !.keys = @ \cup {loc[t].did}]

-----------------------------------------------------------------------------
(* Where the service proxy sends a request. *)

Bsky == {"app.bsky.feed.getTimeline"}
Chat == {"chat.bsky.convo.listConvos"}

\* A DID whose host is not a plain name has no endpoint.
did_web_endpoint(s) == {s.did} \ {"did:web:host:path"}

service_endpoint_from_doc(s) == {directory[s]} \ {Nobody}

\* A key that forgets the fragment.
CacheKey_Did(s) == s.did

CacheKey(s) == s

Cached(s) == {c.url : c \in {x \in proc.targets : x.key = CacheKey(s)}}

Route(t, url) == Keep(t, "key", [loc[t] EXCEPT !.url = url])

\* The directory's answer: a failure, no such service, or its endpoint.
FetchTarget(t) ==
    LET s == req[t].to IN
    /\ pc[t] = "fetch"
    /\ UNCHANGED <<outside, store, issued>>
    /\ \/ UNCHANGED proc /\ Error(t, "UpstreamFailure")
       \/ service_endpoint_from_doc(s) = {} /\ UNCHANGED proc /\ Error(t, "InvalidRequest")
       \/ \E url \in service_endpoint_from_doc(s) :
            /\ proc' = [proc EXCEPT !.targets = {c \in @ : c.key # CacheKey(s)}
                                                  \cup {[key |-> CacheKey(s), url |-> url]}]
            /\ Route(t, url)

\* The addressed service, or the AppView for app.bsky.*.
ResolveTarget(t) ==
    LET s == req[t].to IN
    /\ pc[t] = "resolve"
    /\ NoEffect
    /\ IF s = NoService
       THEN IF req[t].nsid \in Bsky THEN Route(t, "appview") ELSE Error(t, "MethodNotImplemented")
       ELSE IF s.method = "web" /\ did_web_endpoint(s) # {} THEN Route(t, s.did)
       ELSE IF s.method = "plc"
       THEN IF Cached(s) # {} THEN Route(t, CHOOSE u \in Cached(s) : TRUE) ELSE Goto(t, "fetch")
       ELSE Error(t, "InvalidRequest")

\* The key is loaded, a token is minted, and the request goes upstream.
Send(t, allowed) ==
    LET token == mint_service_auth_jwt(loc[t].did, req[t].to.did, req[t].nsid) IN
    /\ pc[t] = "key"
    /\ UNCHANGED <<outside, store, issued>>
    /\ \/ /\ load_signing_key(t)
          /\ IF loc[t].url \in allowed
             THEN Keep(t, "upstream", [loc[t] EXCEPT !.sent = {[url |-> loc[t].url, token |-> token]}])
             ELSE Error(t, "UpstreamFailure")
       \/ loc[t].did \notin proc.keys /\ UNCHANGED proc /\ Error(t, "StoreError")

\* The upstream's answer is passed on, whatever its status.
Relay(t) ==
    /\ pc[t] = "upstream"
    /\ NoEffect
    /\ \E status \in {"Relayed", "UpstreamFailure"} : Error(t, status)

-----------------------------------------------------------------------------
(* The world around the handlers. *)

Publish(d) == {[service |-> s, url |-> d[s]] : s \in Services}

Start(key, d) == [as |-> key, keys |-> {}, targets |-> {}, published |-> Publish(d)]

Init ==
    /\ scene \in Scenes
    /\ now = 0 /\ events = 0
    /\ accounts = scene.accounts
    /\ claims = {[did |-> a.did, label |-> a.handle] : a \in accounts}
    /\ prefs = {} /\ jtis = {}
    /\ directory \in scene.directories
    /\ proc = Start(1, directory)
    /\ issued = scene.issued
    /\ pc = [t \in Tasks |-> "idle"]
    /\ req = [t \in Tasks |-> NoRequest]
    /\ loc = [t \in Tasks |-> NoLocals]
    /\ since = [t \in Tasks |-> [at |-> 0, done |-> {}, seen |-> {}]]
    /\ reply = [t \in Tasks |-> NoReply]

Acknowledged == {t \in Tasks : reply[t].status = "OK"}

\* A request comes in, with what its client has to authenticate it.
Receive(t, r) ==
    /\ pc[t] = "idle"
    /\ pc' = [pc EXCEPT ![t] = "start"]
    /\ req' = [req EXCEPT ![t] = r]
    /\ since' = [since EXCEPT ![t] = [at |-> now, done |-> Acknowledged, seen |-> {accounts}]]
    /\ NoEffect /\ UNCHANGED <<loc, reply>>

\* Requests in flight remember the account tables they may have read.
Witness(table) ==
    since' = [t \in Tasks |-> IF pc[t] \in {"idle", "done", "gone"} THEN since[t]
                             ELSE [since[t] EXCEPT !.seen = @ \cup {table}]]

\* Something happens that no request asked for.
Event(kind) == kind \in scene.world /\ events < MaxEvents /\ events' = events + 1

SetAccount(a, new) ==
    /\ accounts' = (accounts \ {a}) \cup {new}
    /\ Witness(accounts')
    /\ UNCHANGED <<scene, now, directory, claims, prefs, jtis, proc, issued, pc, req, loc, reply>>

set_takedown(a) == Event("takedown") /\ ~a.down /\ SetAccount(a, [a EXCEPT !.down = TRUE])
clear_takedown(a) == Event("takedown") /\ a.down /\ SetAccount(a, [a EXCEPT !.down = FALSE])
update_password(a, phc) ==
    /\ Event("reset") /\ a.phc # phc
    /\ SetAccount(a, [a EXCEPT !.phc = phc])

\* The owner of a service publishes a new endpoint.
UpdateDirectory(s, url) ==
    /\ Event("directory") /\ directory[s] # url
    /\ directory' = [directory EXCEPT ![s] = url]
    /\ proc' = [proc EXCEPT !.published = @ \cup Publish(directory')]
    /\ UNCHANGED <<scene, now, store, issued, task>>

Tick ==
    /\ "time" \in scene.world /\ now < MaxTime
    /\ now' = now + 1
    /\ UNCHANGED <<scene, events, directory, store, proc, issued, task>>

\* The client goes away and the handler with it; a write it queued stays queued.
Drop(t) ==
    /\ "drop" \in scene.world
    /\ pc[t] \notin {"idle", "done", "gone", "jti orphan", "put orphan"}
    /\ NoEffect
    /\ Goto(t, IF pc[t] = "jti" THEN "jti orphan" ELSE IF pc[t] = "put" THEN "put orphan" ELSE "gone")

\* The write that a handler left in the queue.
OrphanPut(t) ==
    /\ pc[t] = "put orphan"
    /\ UNCHANGED <<outside, accounts, claims, jtis, proc, issued>>
    /\ upsert_preferences("store", loc[t].did, req[t].value)
    /\ Goto(t, "gone")

\* The process ends and starts again; its caches are empty.
Restart(key) ==
    /\ Event("restart")
    /\ proc' = Start(key, directory)
    /\ pc' = [t \in Tasks |-> IF pc[t] \in {"idle", "done"} THEN pc[t] ELSE "gone"]
    /\ UNCHANGED <<scene, now, directory, store, issued, req, loc, since, reply>>

==============================================================================
