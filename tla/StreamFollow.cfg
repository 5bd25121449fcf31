SPECIFICATION Spec

CONSTANTS
    j1 = j1
    j2 = j2
    Origin = origin
    Joiners = {j1, j2}
    WriterKinds <- MCWriterKinds
    ModeSets <- MCModeSets
    NoId = NoId
    AfterIds = {1}
    OnThread = TRUE
    EarlyJoin = TRUE
    MaxSessions = 2
    MaxEmits = 3
    MaxEvents = 6

SYMMETRY Symmetry

INVARIANTS
    TypeOK
    DeliveredOnce

CHECK_DEADLOCK FALSE
