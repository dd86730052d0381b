SPECIFICATION Spec
CONSTANTS
    None = None
    WebDid = web
    Requests = {r1, r2, r3}
    Handles = {h1, h2}
    Codes = {c1}
    MaxUses = 2
SYMMETRY Symmetry
INVARIANTS
    InvitesConserved
    OneFreeAccount
    CreatedIsComplete
CHECK_DEADLOCK FALSE
