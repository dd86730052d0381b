---------------------------- MODULE DesktopAccess ----------------------------
(* Sessions, service tokens, proxy, preferences and handles of the server binary. *)
EXTENDS DpopProofs

\* A bearer token must be a live session token of the wanted scope.
authenticate(t, scope, label) ==
    \E x \in req[t].token :
        IF x.scope = "oauth" THEN Error(t, "InvalidToken")
        ELSE IF ~decode_jwt(x) THEN Error(t, "ExpiredToken")
        ELSE IF x.scope = scope THEN Keep(t, label, [loc[t] EXCEPT !.did = x.sub])
        ELSE Error(t, "InvalidToken")

AccessAuth(t, label) ==
    \/ /\ pc[t] = "start"
       /\ NoEffect
       /\ \/ req[t].scheme = "none" /\ Error(t, "AuthRequired")
          \/ req[t].scheme = "bearer" /\ authenticate(t, "access", label)
          \/ req[t].scheme = "dpop" /\ CheckProof(t)
    \/ RecordJti(t, label)

RefreshAuth(t, label) ==
    /\ pc[t] = "start"
    /\ NoEffect
    /\ \/ req[t].scheme = "none" /\ Error(t, "AuthRequired")
       \/ req[t].scheme = "bearer" /\ authenticate(t, "refresh", label)
       \/ req[t].scheme = "dpop" /\ Error(t, "InvalidToken")

StoreError(t, label) == pc[t] = label /\ NoEffect /\ Error(t, "StoreError")

\* The account is looked up; the password is verified off the runtime.
create_session(t) ==
    \/ /\ pc[t] = "start"
       /\ NoEffect
       /\ IF req[t].wellformed THEN Goto(t, "account") ELSE Error(t, "InvalidRequest")
    \/ /\ pc[t] = "account"
       /\ NoEffect
       /\ IF get_account_by_handle(req[t].id) = {} THEN Error(t, "InvalidRequest")
          ELSE \E a \in get_account_by_handle(req[t].id) :
                 Keep(t, "verify", [loc[t] EXCEPT !.did = a.did, !.phc = a.phc])
    \/ \E label \in {"account", "verify"} : StoreError(t, label)
    \/ /\ pc[t] = "verify"
       /\ UNCHANGED <<outside, store, proc>>
       /\ IF verify_password(req[t].password, loc[t].phc)
          THEN session_response(t, loc[t].did, req[t].id)
          ELSE UNCHANGED issued /\ Error(t, "InvalidRequest")

\* New tokens without a look at the account.
refresh_session_Blind(t) ==
    \/ RefreshAuth(t, "issue")
    \/ /\ pc[t] = "issue"
       /\ UNCHANGED <<outside, store, proc>>
       /\ session_response(t, loc[t].did, loc[t].handle)

refresh_session(t) ==
    \/ RefreshAuth(t, "lookup")
    \/ /\ pc[t] = "lookup"
       /\ NoEffect
       /\ IF get_handle_by_did(loc[t].did) = {} THEN Error(t, "AccountTakedown")
          ELSE \E h \in get_handle_by_did(loc[t].did) :
                 Keep(t, "issue", [loc[t] EXCEPT !.handle = h])
    \/ StoreError(t, "lookup")
    \/ /\ pc[t] = "issue"
       /\ UNCHANGED <<outside, store, proc>>
       /\ session_response(t, loc[t].did, loc[t].handle)

get_session(t) ==
    \/ AccessAuth(t, "lookup")
    \/ /\ pc[t] = "lookup"
       /\ NoEffect
       /\ IF get_handle_by_did(loc[t].did) = {} THEN Error(t, "AccountTakedown")
          ELSE \E h \in get_handle_by_did(loc[t].did) :
                 Answer(t, "OK", [did |-> loc[t].did, handle |-> h])
    \/ StoreError(t, "lookup")

\* Sessions have no state on the server: there is nothing to delete.
delete_session(t) == pc[t] = "start" /\ NoEffect /\ Answer(t, "OK", {})

\* The key comes first, the expiry after it.
get_service_auth(t) ==
    \/ AccessAuth(t, "params")
    \/ /\ pc[t] = "params"
       /\ NoEffect
       /\ IF req[t].wellformed THEN Goto(t, "key") ELSE Error(t, "InvalidRequest")
    \/ /\ pc[t] = "key"
       /\ UNCHANGED <<outside, store, issued>>
       /\ load_signing_key(t)
       /\ Answer(t, "OK", mint_service_auth_jwt_with(loc[t].did, req[t].to.did, req[t].id,
                                                     ServiceExpiry(req[t].exp)))
    \/ loc[t].did \notin proc.keys /\ StoreError(t, "key")

\* Plain http and private hosts are not called.
validate_appview_url == (Endpoints \cup {"appview", "did:web:host"}) \ {"http://localhost"}

proxy_fallback(t) ==
    \/ AccessAuth(t, "checks")
    \/ /\ pc[t] = "checks"
       /\ NoEffect
       /\ IF req[t].wellformed THEN Goto(t, "resolve") ELSE Error(t, "MethodNotImplemented")
    \/ ResolveTarget(t)
    \/ FetchTarget(t)
    \/ Send(t, validate_appview_url)
    \/ Relay(t)

getPreferences(t) ==
    \/ AccessAuth(t, "get")
    \/ /\ pc[t] = "get"
       /\ NoEffect
       /\ Answer(t, "OK", [did |-> loc[t].did, value |-> get_preferences("store", loc[t].did)])
    \/ StoreError(t, "get")

\* The body must hold an array; it is decoded after the caller is known.
putPreferences(t) ==
    \/ AccessAuth(t, "decode")
    \/ /\ pc[t] = "decode"
       /\ NoEffect
       /\ IF req[t].wellformed THEN Goto(t, "put") ELSE Error(t, "InvalidRequest")
    \/ /\ pc[t] = "put"
       /\ UNCHANGED <<outside, accounts, claims, jtis, proc, issued>>
       /\ upsert_preferences("store", loc[t].did, req[t].value)
       /\ Answer(t, "OK", {})
    \/ StoreError(t, "put")

\* The account that has this handle.
Resolve(t, h) ==
    /\ pc[t] = "start"
    /\ NoEffect
    /\ IF get_did_by_handle(h) = {} THEN Error(t, "HandleNotFound")
       ELSE \E d \in get_did_by_handle(h) : Answer(t, "OK", [did |-> d, handle |-> h])

resolve_handle(t) ==
    \/ req[t].wellformed /\ (Resolve(t, req[t].id) \/ StoreError(t, "start"))
    \/ ~req[t].wellformed /\ pc[t] = "start" /\ NoEffect /\ Error(t, "InvalidRequest")

well_known_atproto_did(t) == Resolve(t, scene.hostname) \/ StoreError(t, "start")

Local == {"createSession", "refreshSession", "getSession", "deleteSession", "getServiceAuth",
          "getPreferences", "putPreferences", "resolveHandle", "atproto-did"}

Handler(t) ==
    \/ req[t].nsid = "createSession" /\ create_session(t)
    \/ req[t].nsid = "refreshSession" /\ refresh_session(t)
    \/ req[t].nsid = "getSession" /\ get_session(t)
    \/ req[t].nsid = "deleteSession" /\ delete_session(t)
    \/ req[t].nsid = "getServiceAuth" /\ get_service_auth(t)
    \/ req[t].nsid = "getPreferences" /\ getPreferences(t)
    \/ req[t].nsid = "putPreferences" /\ putPreferences(t)
    \/ req[t].nsid = "resolveHandle" /\ resolve_handle(t)
    \/ req[t].nsid = "atproto-did" /\ well_known_atproto_did(t)
    \/ req[t].nsid \notin Local /\ proxy_fallback(t)

==============================================================================
