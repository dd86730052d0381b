SPECIFICATION FairSpec
CONSTANTS
    Subs = {s1}
    Capacity = 1
    Page = 2
    MaxLog = 4
    MaxConns = 2
    NoCursor = NoCursor
INVARIANTS
    InOrder
    NoGap
    FromCursor
    ResumeAccepted
PROPERTIES
    Delivery
