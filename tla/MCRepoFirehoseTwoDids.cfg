SPECIFICATION Spec
CONSTANTS
    k = k
    v = v
    NoRecord = NoRecord
    NoTask = NoTask
    NoCursor = NoCursor
    Dids = {d1, d2}
    Keys = {k}
    Values = {v}
    Tasks = {t1, t2}
    Droppable = {}
    Requests <- MCRequests
    Subs = {s1}
    Capacity = 1
    Page = 1
    MaxLog = 3
    MaxConns = 1
INVARIANT NeverMissesLiveEvents
