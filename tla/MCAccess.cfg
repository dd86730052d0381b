CONSTANTS
    t1 = t1  t2 = t2  t3 = t3
    d1 = d1  d2 = d2  h1 = h1  h2 = h2  zone = zone
    k1 = k1  k2 = k2  pw1 = pw1  pw2 = pw2  v1 = v1  v2 = v2
    Tasks = {t1, t2, t3}
    Dids = {d1, d2}
    Keys = {k1, k2}
    Passwords = {pw1, pw2}
    Services <- MCServices
    Endpoints <- MCEndpoints
    Scenes <- MCScenes
    Skews <- MCSkews
    Nobody = Nobody
    NoPrefs = NoPrefs
    MaxTime = 5
    MaxEvents = 2
    MaxKeys = 2
    AccessTtl = 2
    RefreshTtl = 3
    Leeway = 1
    OAuthTtl = 4
    NonceWindow = 2
    MaxProofAge = 2
    ServiceTtl = 1
    ServiceMax = 3
    WordSize = 16
SPECIFICATION Spec
INVARIANTS
    AuthorizedOnce
    FreshProofAccepted
    SessionsAreEarned
    ServiceTokensAreBound
    PrefsReadBack
CHECK_DEADLOCK FALSE
