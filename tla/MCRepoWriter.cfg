SPECIFICATION FairSpec
CONSTANTS
    d1 = d1
    d2 = d2
    k = k
    v1 = v1
    v2 = v2
    NoRecord = NoRecord
    NoTask = NoTask
    Dids = {d1, d2}
    Keys = {k}
    Values = {v1, v2}
    Tasks = {t1, t2, t3}
    Droppable = {t1, t2, t3}
    Requests <- MCRequests
INVARIANTS
    LinearHistory
    RootIsTip
    BroadcastOrder
    CommittedIsPublished
PROPERTIES
    AtomicCommits
    EveryRequestEnds
