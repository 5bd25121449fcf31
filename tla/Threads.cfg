SPECIFICATION Spec
CONSTANTS
    q1 = q1
    q2 = q2
    q3 = q3
    t1 = t1
    c1 = c1
    None = None
    Requests = {q1, q2, q3}
    ClientIds = {t1}
    CopyIds = {c1}
    HistoryLimit = 1
    MaxTime = 1
    MaxFaults = 1
SYMMETRY Symmetry
CHECK_DEADLOCK FALSE
INVARIANTS
    TypeOK
    AnswersHold
    ConversationKept
    CopyComplete
    DeletedGone
    PagesPartition
