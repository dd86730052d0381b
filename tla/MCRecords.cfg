SPECIFICATION Spec
CONSTANTS
    t1 = t1
    t2 = t2
    t3 = t3
    note1 = note1
    note2 = note2
    Null = Null
    NoRecord = NoRecord
    BadName = BadName
    BadRecord = BadRecord
    Tasks = {t1, t2, t3}
    Values = {note1, note2, Null}
    Collections = {1, 2}
    Rkeys = {1, 2, 3}
    PageMax = 2
    PageDefault = 2
    Blobs = {1, 2}
    BlobPageMax = 2
    BlobPageDefault = 1
    MaxClock = 2
    Mixes <- MCMixes
    Seeds <- MCSeeds
INVARIANTS
    BatchIsPrefix
    AnswersAreCurrent
    AcknowledgedIsCommitted
    RefusedOnlyByRace
    ListingIsComplete
CHECK_DEADLOCK FALSE
