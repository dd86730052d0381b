SPECIFICATION FairSpec
CONSTANTS
    None = None
    Dids = {d1}
    Writes = {w1, w2}
    Clients = {c1, c2}
    MaxConnects = 2
    MaxInjects = 1
    Envs <- MCEnvs
INVARIANTS
    StreamIsLog
    SequencedOnce
PROPERTY EveryCommitStreams
CHECK_DEADLOCK FALSE
