----------------------------- MODULE WorkerAccess -----------------------------
(***************************************************************************)
(* The Workers deployment.  Every account is an object named by its         *)
(* hostname; requests to the shared host are sent on to the object of the   *)
(* account they are about, which the registry knows.  An object's handler   *)
(* is one step; each call to an object may fail, before its effect or after.*)
(***************************************************************************)
EXTENDS AccessTasks

At(host) == {a \in accounts : a.handle = host}

\* What the shared host routes by the token, without putPreferences.
AuthRoutes_NoPut == {"getSession", "getPreferences"} \cup Bsky \cup Chat

AuthRoutes == {"getSession", "getPreferences", "putPreferences"} \cup Bsky \cup Chat

\* strip_prefix("Bearer "): a token that comes in another way is not looked at.
Bearer(t) == IF req[t].scheme = "bearer" THEN req[t].token ELSE {}

\* The account a request names: by its token, or by the identifier of a login.
jwt_sub(t) == {x.sub : x \in Bearer(t)}
Named(t) ==
    IF req[t].nsid \in AuthRoutes THEN jwt_sub(t)
    ELSE IF req[t].nsid = "createSession" THEN {req[t].id} ELSE {}

ToObject(t, host) == Keep(t, "object", [loc[t] EXCEPT !.handle = host])

\* A handle is a hostname; one outside the zone is left to the shared object.
resolve_handle_target(t) ==
    IF req[t].wellformed /\ req[t].id # "elsewhere.example" THEN req[t].id ELSE scene.hostname

\* A handle names its host, a DID is looked up.
session_target(t) ==
    \E id \in Named(t) : IF id \in Dids THEN Goto(t, "registry") ELSE ToObject(t, id)

dispatch(t) ==
    /\ pc[t] = "start"
    /\ NoEffect
    /\ IF req[t].host # scene.hostname THEN ToObject(t, req[t].host)
       ELSE IF req[t].nsid = "resolveHandle" THEN ToObject(t, resolve_handle_target(t))
       ELSE IF Named(t) # {} THEN session_target(t)
       ELSE ToObject(t, scene.hostname)

\* The registry's answer; without one the shared host's object is asked.
resolve_did(t) ==
    LET labels == {c.label : c \in {x \in claims : x.did \in Named(t)}} IN
    /\ pc[t] = "registry"
    /\ NoEffect
    /\ \/ \E h \in labels : ToObject(t, h)
       \/ labels = {} /\ ToObject(t, scene.hostname)
       \/ /\ "lost" \in scene.world
          /\ Keep(t, "object", [loc[t] EXCEPT !.handle = scene.hostname, !.fault = TRUE])

\* Any session token that is not expired; its scope is not looked at.
Caller(t) == {x.sub : x \in {y \in Bearer(t) : decode_jwt(y)}}
Unauthenticated(t) == Caller(t) = {} /\ NoEffect /\ Error(t, "AuthenticationRequired")

\* The one account of the object, by handle or DID.
worker_create_session(t) ==
    LET login == {a \in At(loc[t].handle) : /\ req[t].id \in {a.handle, a.did}
                                            /\ verify_password(req[t].password, a.phc)}
    IN  /\ UNCHANGED <<outside, store, proc>>
        /\ IF login = {} THEN UNCHANGED issued /\ Error(t, "AuthenticationRequired")
           ELSE \E a \in login : session_response(t, a.did, a.handle)

\* The token is the session; the handle is left empty if the account is not here.
worker_get_session(t) ==
    \/ Unauthenticated(t)
    \/ /\ NoEffect
       /\ \E d \in Caller(t) :
            Answer(t, "OK", [did |-> d, handle |-> IF \E a \in At(loc[t].handle) : a.did = d
                                                  THEN loc[t].handle ELSE Nobody])

worker_getPreferences(t) ==
    \/ Unauthenticated(t)
    \/ /\ NoEffect
       /\ \E d \in Caller(t) :
            Answer(t, "OK", [did |-> d, value |-> get_preferences(loc[t].handle, d)])

\* A body without preferences stores an empty array.
worker_put_preferences(t) ==
    \/ Unauthenticated(t)
    \/ /\ UNCHANGED <<outside, accounts, claims, jtis, proc, issued>>
       /\ \E d \in Caller(t) :
            /\ upsert_preferences(loc[t].handle, d, IF req[t].wellformed THEN req[t].value ELSE NoPrefs)
            /\ \/ Answer(t, "OK", {})
               \/ "lost" \in scene.world /\ Error(t, "Lost")

\* Chat has a service of its own; the object must hold the caller's key.
proxy_appview(t) ==
    LET aud == IF req[t].nsid \in Chat THEN "chat" ELSE "appview" IN
    \/ Unauthenticated(t)
    \/ /\ NoEffect
       /\ \E d \in Caller(t) :
            IF \E a \in At(loc[t].handle) : a.did = d
            THEN Keep(t, "upstream", [loc[t] EXCEPT !.did = d, !.sent =
                        {[url |-> aud, token |-> mint_service_auth_jwt(d, aud, req[t].nsid)]}])
            ELSE Error(t, "InternalError")

\* This deployment's own feeds: no token is needed and none is sent.
proxy_own_appview(t) == NoEffect /\ Goto(t, "upstream")

WorkerResolve(t, h) ==
    /\ NoEffect
    /\ LET found == {a \in get_account_by_handle(h) : a.handle = loc[t].handle}
       IN  IF found = {} THEN Error(t, "HandleNotFound")
           ELSE \E a \in found : Answer(t, "OK", [did |-> a.did, handle |-> h])

worker_resolve_handle(t) ==
    \/ req[t].wellformed /\ WorkerResolve(t, req[t].id)
    \/ ~req[t].wellformed /\ NoEffect /\ Error(t, "InvalidRequest")

worker_atproto_did(t) == WorkerResolve(t, loc[t].handle)

WorkerRoutes ==
    {"createSession", "getSession", "getPreferences", "putPreferences", "resolveHandle",
     "atproto-did", "own feed"}

\* The object's handler.
worker_route(t) ==
    /\ pc[t] = "object"
    /\ \/ req[t].nsid = "createSession" /\ worker_create_session(t)
       \/ req[t].nsid = "getSession" /\ worker_get_session(t)
       \/ req[t].nsid = "getPreferences" /\ worker_getPreferences(t)
       \/ req[t].nsid = "putPreferences" /\ worker_put_preferences(t)
       \/ req[t].nsid = "resolveHandle" /\ worker_resolve_handle(t)
       \/ req[t].nsid = "atproto-did" /\ worker_atproto_did(t)
       \/ req[t].nsid = "own feed" /\ proxy_own_appview(t)
       \/ req[t].nsid \in Bsky \cup Chat /\ proxy_appview(t)
       \/ /\ req[t].nsid \notin WorkerRoutes \cup Bsky \cup Chat
          /\ NoEffect /\ Error(t, "MethodNotImplemented")
       \/ "lost" \in scene.world /\ NoEffect /\ Error(t, "Lost")

\* The object is wiped.
delete_account_data(h) ==
    /\ accounts' = accounts \ At(h)
    /\ prefs' = {p \in prefs : p.at # h \/ \A a \in At(h) : a.did # p.did}
    /\ Witness(accounts')

\* The admin's request: wipe, then free the name; only the wipe can fail it.
worker_delete_account(t) ==
    \/ /\ pc[t] = "start"
       /\ \/ ~req[t].wellformed /\ NoEffect /\ Error(t, "Unauthorized")
          \/ "lost" \in scene.world /\ NoEffect /\ Error(t, "Lost")
          \/ /\ req[t].wellformed
             /\ delete_account_data(req[t].id)
             /\ \/ pc' = [pc EXCEPT ![t] = "release"] /\ UNCHANGED reply
                \/ /\ "lost" \in scene.world
                   /\ pc' = [pc EXCEPT ![t] = "done"]
                   /\ reply' = [reply EXCEPT ![t] = [status |-> "Lost", body |-> {}, at |-> now]]
             /\ UNCHANGED <<outside, claims, jtis, proc, issued, req, loc>>
    \/ /\ pc[t] = "release"
       /\ UNCHANGED <<outside, accounts, prefs, jtis, proc, issued>>
       /\ \/ claims' = {c \in claims : c.label # req[t].id}
          \/ "lost" \in scene.world /\ UNCHANGED claims
       /\ Answer(t, "OK", {})

WorkerHandler(t) ==
    \/ req[t].nsid = "deleteAccount" /\ worker_delete_account(t)
    \/ req[t].nsid # "deleteAccount" /\ (dispatch(t) \/ resolve_did(t) \/ worker_route(t) \/ Relay(t))

==============================================================================
