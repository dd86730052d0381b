---------------------------- MODULE EmbeddedAccess ----------------------------
(* The same endpoints of the server that runs inside an app.  It has session *)
(* tokens only, and the app makes its outgoing requests.                     *)
EXTENDS AccessTasks

\* Sessions are off without a secret; otherwise a live token of this scope.
authed_did(t, scope, label) ==
    /\ pc[t] = "start"
    /\ NoEffect
    /\ IF "secret" \notin scene.world \/ req[t].scheme # "bearer"
       THEN Error(t, "AuthenticationRequired")
       ELSE \E x \in req[t].token :
              IF x.scope = "oauth" THEN Error(t, "InvalidToken")
              ELSE IF ~decode_jwt(x) THEN Error(t, "ExpiredToken")
              ELSE IF x.scope = scope THEN Keep(t, label, [loc[t] EXCEPT !.did = x.sub])
              ELSE Error(t, "InvalidToken")

EmbeddedStoreError(t, label) == pc[t] = label /\ NoEffect /\ Error(t, "InternalError")

\* read_json_body, then a check of the fields.
embedded_create_session(t) ==
    \/ /\ pc[t] = "start"
       /\ NoEffect
       /\ \/ "secret" \notin scene.world /\ Error(t, "AuthenticationRequired")
          \/ ~req[t].wellformed /\ Error(t, "InvalidRequest")
          \/ "secret" \in scene.world /\ req[t].wellformed /\ Goto(t, "account")
    \/ /\ pc[t] = "account"
       /\ NoEffect
       /\ IF get_account_by_handle(req[t].id) = {} THEN Error(t, "InvalidRequest")
          ELSE \E a \in get_account_by_handle(req[t].id) :
                 Keep(t, "verify", [loc[t] EXCEPT !.did = a.did, !.phc = a.phc])
    \/ \E label \in {"account", "verify"} : EmbeddedStoreError(t, label)
    \/ /\ pc[t] = "verify"
       /\ UNCHANGED <<outside, store, proc>>
       /\ IF verify_password(req[t].password, loc[t].phc)
          THEN session_response(t, loc[t].did, req[t].id)
          ELSE UNCHANGED issued /\ Error(t, "InvalidRequest")

embedded_get_session(t) ==
    \/ authed_did(t, "access", "lookup")
    \/ /\ pc[t] = "lookup"
       /\ NoEffect
       /\ IF get_handle_by_did(loc[t].did) = {} THEN Error(t, "AccountTakedown")
          ELSE \E h \in get_handle_by_did(loc[t].did) :
                 Answer(t, "OK", [did |-> loc[t].did, handle |-> h])
    \/ EmbeddedStoreError(t, "lookup")

embedded_refresh_session(t) ==
    \/ authed_did(t, "refresh", "lookup")
    \/ /\ pc[t] = "lookup"
       /\ NoEffect
       /\ IF get_handle_by_did(loc[t].did) = {} THEN Error(t, "AccountTakedown")
          ELSE \E h \in get_handle_by_did(loc[t].did) :
                 Keep(t, "issue", [loc[t] EXCEPT !.handle = h])
    \/ EmbeddedStoreError(t, "lookup")
    \/ /\ pc[t] = "issue"
       /\ UNCHANGED <<outside, store, proc>>
       /\ session_response(t, loc[t].did, loc[t].handle)

embedded_getPreferences(t) ==
    \/ authed_did(t, "access", "get")
    \/ /\ pc[t] = "get"
       /\ NoEffect
       /\ Answer(t, "OK", [did |-> loc[t].did, value |-> get_preferences("store", loc[t].did)])
    \/ EmbeddedStoreError(t, "get")

\* read_json_body after the caller is known; the body must hold an array.
embedded_put_preferences(t) ==
    \/ authed_did(t, "access", "decode")
    \/ /\ pc[t] = "decode"
       /\ NoEffect
       /\ IF req[t].wellformed THEN Goto(t, "put") ELSE Error(t, "InvalidRequest")
    \/ /\ pc[t] = "put"
       /\ UNCHANGED <<outside, accounts, claims, jtis, proc, issued>>
       /\ upsert_preferences("store", loc[t].did, req[t].value)
       /\ Answer(t, "OK", {})
    \/ EmbeddedStoreError(t, "put")

embedded_resolve_handle(t) ==
    \/ /\ pc[t] = "start"
       /\ NoEffect
       /\ IF ~req[t].wellformed THEN Error(t, "InvalidRequest")
          ELSE IF get_did_by_handle(req[t].id) = {} THEN Error(t, "HandleNotFound")
          ELSE \E d \in get_did_by_handle(req[t].id) :
                 Answer(t, "OK", [did |-> d, handle |-> req[t].id])
    \/ req[t].wellformed /\ EmbeddedStoreError(t, "start")

sole_active_account_did ==
    {a.did : a \in {b \in accounts : ActiveIn(accounts) = {b}}}

\* The account of this hostname, else the only active one.
embedded_atproto_did(t) ==
    \/ /\ pc[t] = "start"
       /\ NoEffect
       /\ IF get_did_by_handle(scene.hostname) = {} THEN Goto(t, "sole")
          ELSE \E d \in get_did_by_handle(scene.hostname) :
                 Answer(t, "OK", [did |-> d, handle |-> scene.hostname])
    \/ /\ pc[t] = "sole"
       /\ NoEffect
       /\ IF sole_active_account_did = {} THEN Error(t, "NotFound")
          ELSE \E d \in sole_active_account_did :
                 Answer(t, "OK", [did |-> d, handle |-> Nobody])
    \/ \E label \in {"start", "sole"} : EmbeddedStoreError(t, label)

\* The expiry is fixed before the key is loaded.
embedded_get_service_auth(t) ==
    \/ authed_did(t, "access", "params")
    \/ /\ pc[t] = "params"
       /\ NoEffect
       /\ IF req[t].wellformed THEN Keep(t, "key", [loc[t] EXCEPT !.at = ServiceExpiry(req[t].exp)])
          ELSE Error(t, "InvalidRequest")
    \/ /\ pc[t] = "key"
       /\ UNCHANGED <<outside, store, issued>>
       /\ load_signing_key(t)
       /\ Answer(t, "OK", mint_service_auth_jwt_with(loc[t].did, req[t].to.did, req[t].id, loc[t].at))
    \/ loc[t].did \notin proc.keys /\ EmbeddedStoreError(t, "key")

\* Without an app that makes the requests there is no proxy.
forward(t) ==
    \/ "proxy" \in scene.world /\ authed_did(t, "access", "checks")
    \/ "proxy" \notin scene.world /\ pc[t] = "start" /\ NoEffect /\ Error(t, "MethodNotImplemented")
    \/ /\ pc[t] = "checks"
       /\ NoEffect
       /\ IF req[t].wellformed THEN Goto(t, "resolve") ELSE Error(t, "MethodNotImplemented")
    \/ ResolveTarget(t)
    \/ FetchTarget(t)
    \/ Send(t, Endpoints \cup {"appview", "did:web:host"})
    \/ Relay(t)

EmbeddedLocal ==
    {"createSession", "refreshSession", "getSession", "deleteSession", "getServiceAuth",
     "getPreferences", "putPreferences", "resolveHandle", "atproto-did"}

embedded_route(t) ==
    \/ req[t].nsid = "createSession" /\ embedded_create_session(t)
    \/ req[t].nsid = "refreshSession" /\ embedded_refresh_session(t)
    \/ req[t].nsid = "getSession" /\ embedded_get_session(t)
    \/ req[t].nsid = "deleteSession" /\ pc[t] = "start" /\ NoEffect /\ Answer(t, "OK", {})
    \/ req[t].nsid = "getServiceAuth" /\ embedded_get_service_auth(t)
    \/ req[t].nsid = "getPreferences" /\ embedded_getPreferences(t)
    \/ req[t].nsid = "putPreferences" /\ embedded_put_preferences(t)
    \/ req[t].nsid = "resolveHandle" /\ embedded_resolve_handle(t)
    \/ req[t].nsid = "atproto-did" /\ embedded_atproto_did(t)
    \/ req[t].nsid \notin EmbeddedLocal /\ forward(t)

==============================================================================
