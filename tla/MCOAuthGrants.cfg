SPECIFICATION Spec
CONSTANTS
    atproto = atproto
    generic = generic
    None = None
    Handlers = {h1, h2}
    Uris = {u1}
    Codes = {c1}
    Tokens = {r1, r2, r3}
    Sessions = {s1, s2}
    Dids = {d1}
    Clients = {a1, a2}
    Keys = {k1, k2}
    Scopes <- MCScopes
    PAR_TTL = 1
    AUTH_CODE_TTL = 1
    REFRESH_TOKEN_TTL = 1
    MaxTime = 1
SYMMETRY Symmetry
INVARIANTS
    WithinConsent
    OneLiveTokenPerSession
PROPERTY OverIsForever
CHECK_DEADLOCK FALSE
