SPECIFICATION Spec
CONSTANTS
    None = None
    Dids = {a1, a2}
    Cids = {b1}
    Uploads = {u1}
    Devices = {d1, d2}
    Requests = {r1}
    SIGNIN_TTL = 1
    MaxTime = 2
    Envs <- MCEnvs
SYMMETRY Symmetry
INVARIANTS
    ApprovedByOwner
    BlobRefsHaveBytes
PROPERTY DecisionIsFinal
