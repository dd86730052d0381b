------------------------------- MODULE MCAccess -------------------------------
(* Two accounts, two or three requests, and one kind of trouble at a time. *)
EXTENDS Access

CONSTANTS t1, t2, t3, d1, d2, h1, h2, zone, k1, k2, pw1, pw2, v1, v2

svc(m, d, f) == [method |-> m, did |-> d, fragment |-> f]
feed == svc("plc", "did:plc:a", "feed")
labeler == svc("plc", "did:plc:a", "labeler")

MCServices == {feed, labeler}
MCEndpoints == {"https://one", "https://two", "http://localhost"}
MCSkews == {-3, -2, 0, 3}

Row(d, h, p, down) == [did |-> d, handle |-> h, phc |-> p, down |-> down]
Both == {Row(d1, h1, pw1, FALSE), Row(d2, h2, pw2, FALSE)}
One == {Row(d1, h1, pw1, FALSE)}

NoDirectory == {[s \in MCServices |-> Nobody]}
SomeDirectory == {[s \in MCServices |-> IF s = feed THEN "https://one" ELSE "https://two"],
                  [s \in MCServices |-> IF s = feed THEN "http://localhost" ELSE Nobody]}

Session == {encode_access_jwt(d1, 0), encode_refresh_jwt(d1, 0)}
OAuth == {issue_access_token(d1, k1, 1, 0)}

Ask(nsid, scheme) == [NoRequest EXCEPT !.nsid = nsid, !.scheme = scheme, !.host = zone]
Bad(rs) == rs \cup {[r EXCEPT !.wellformed = FALSE] : r \in rs}

Logins == {[Ask("createSession", "none") EXCEPT !.id = i, !.password = p] :
             i \in {h1}, p \in {pw1, pw2}}
Sessions == {Ask("getSession", "bearer"), Ask("getSession", "none")}
Refreshes == {Ask("refreshSession", "bearer"), Ask("refreshSession", "none")}
Gets == {Ask("getPreferences", "bearer")}
PutsOf(v) == {[Ask("putPreferences", "bearer") EXCEPT !.value = v]}
Names == {[Ask("resolveHandle", "none") EXCEPT !.id = h] : h \in {h1, "elsewhere.example"}}
Apex == {Ask("atproto-did", "none")}
Expiries == {{}} \cup {{e} : e \in {-8, -1, 0, 3, 7}}
ServiceAuths == {[Ask("getServiceAuth", "bearer") EXCEPT !.to = svc("web", "did:web:host", "x"), !.id = "lxm", !.exp = e] :
                   e \in Expiries}
Proxied(services) == {[Ask("app.bsky.feed.getTimeline", "bearer") EXCEPT !.to = s] : s \in services}
Others == {Ask("com.example.method", "bearer")}
Foreign == {svc("web", "did:web:host", "x"), svc("web", "did:web:host:path", "x"), svc("key", "did:key:z", "x")}

Own(rs) == rs \cup {[r EXCEPT !.host = h1] : r \in rs}
OnlyDpop(rs) == {[r EXCEPT !.scheme = "dpop"] : r \in rs}

Asks(a, b, c) == [t \in {t1, t2, t3} |-> IF t = t1 THEN a ELSE IF t = t2 THEN b ELSE c]

Scene(server, hostname, rows, dirs, tokens, asks, world) ==
    [server |-> server, hostname |-> hostname, accounts |-> rows, directories |-> dirs,
     issued |-> tokens, asks |-> asks, world |-> world]

LocalScenes(server) ==
    {\* sessions while the account is taken down and its password reset
     Scene(server, h1, One, NoDirectory, Session,
           Asks(Bad(Logins), Refreshes \cup Sessions, {}), {"secret", "takedown", "reset"}),
     Scene(server, h1, One, NoDirectory, Session,
           Asks(Refreshes \cup Sessions, {}, {}), {"secret", "takedown", "time"}),
     \* names
     Scene(server, zone, Both, NoDirectory, {}, Asks(Bad(Names) \cup Apex, {}, {}), {"takedown"}),
     Scene(server, zone, One, NoDirectory, {}, Asks(Apex, {}, {}), {"takedown"}),
     Scene(server, h1, Both, NoDirectory, Session,
           Asks(Apex \cup {Ask("deleteSession", "bearer")}, {}, {}), {"takedown", "drop"}),
     \* preferences
     Scene(server, h1, One, NoDirectory, {encode_access_jwt(d1, 0)},
           Asks(Bad(PutsOf(v1)), PutsOf(v2), Gets), {"secret", "drop", "restart"}),
     \* service tokens
     Scene(server, h1, One, NoDirectory, Session, Asks(Bad(ServiceAuths), {}, {}),
           {"secret", "time", "drop"}),
     \* the proxy
     Scene(server, h1, One, SomeDirectory, {encode_access_jwt(d1, 0)},
           Asks(Proxied(MCServices), Proxied(MCServices), {}),
           {"secret", "proxy", "directory", "restart"}),
     Scene(server, h1, One, SomeDirectory, {encode_access_jwt(d1, 0)},
           Asks(Bad(Proxied(MCServices \cup Foreign \cup {NoService}) \cup Others), {}, {}),
           {"secret", "proxy", "drop"})}

MCScenes ==
    LocalScenes("desktop") \cup LocalScenes("embedded") \cup
    {\* an embedded server without sessions and without a way out
     Scene("embedded", h1, One, NoDirectory, Session,
           Asks(Logins \cup Sessions \cup Proxied({NoService}), {}, {}), {}),
     \* a token that a refresh gave out, until it expires
     Scene("desktop", h1, One, NoDirectory, {encode_refresh_jwt(d1, 0)},
           Asks({Ask("refreshSession", "bearer")}, {Ask("getSession", "bearer")}, {}), {"time"}),
     \* OAuth access, with a retry
     Scene("desktop", h1, One, NoDirectory, OAuth, Asks(OnlyDpop(Sessions), {}, {}),
           {"time", "restart"}),
     Scene("desktop", h1, One, NoDirectory, OAuth, Asks(OnlyDpop(Sessions), {}, {}), {"restart", "grant"}),
     Scene("desktop", h1, One, NoDirectory, OAuth,
           Asks(OnlyDpop(Gets \cup Refreshes \cup PutsOf(v1) \cup Proxied({NoService})
                         \cup {r \in ServiceAuths : r.exp = {}}),
                {Ask("getPreferences", "retry")}, {}), {"restart", "drop"}),
     \* Workers
     Scene("worker", zone, Both, NoDirectory, {encode_access_jwt(d1, 0)},
           Asks(Own(Bad(PutsOf(v1))), Own(PutsOf(v2)), Own(Gets)), {"lost"}),
     Scene("worker", zone, Both, NoDirectory, {encode_access_jwt(d1, 0)},
           Asks(Bad({[Ask("deleteAccount", "none") EXCEPT !.id = h1]}),
                Own(Logins \cup PutsOf(v1) \cup Bad(Names) \cup Apex \cup Sessions),
                Own(Gets \cup Sessions \cup Proxied({NoService}))), {"lost"}),
     Scene("worker", zone, Both, NoDirectory, Session,
           Asks(Own({[r EXCEPT !.id = d1] : r \in Logins} \cup Others
                    \cup {Ask("chat.bsky.convo.listConvos", "bearer"), Ask("own feed", "none")}),
                {}, {}), {"time", "lost"})}

==============================================================================
