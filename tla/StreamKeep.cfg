SPECIFICATION FairSpec

CONSTANTS
    j1 = j1
    j2 = j2
    Origin = origin
    Joiners = {j1, j2}
    WriterKinds <- MCWriterKinds
    ModeSets = {}
    NoId = NoId
    AfterIds <- MCAfterIds
    OnThread = TRUE
    EarlyJoin = FALSE
    MaxSessions = 2
    MaxEmits = 3
    MaxEvents = 6

INVARIANTS
    StreamKept

PROPERTIES
    LeavingCancels
    EveryFollowerEnds

CHECK_DEADLOCK FALSE
