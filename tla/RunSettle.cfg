SPECIFICATION FairSpec

CONSTANTS
    c1 = c1
    r1 = r1
    r2 = r2
    t1 = t1
    RunIds = {r1, r2}
    ThreadIds = {t1}
    NoThread = NoThread
    Kinds = {"background", "wait", "stream"}
    IfNotExists = {"create"}
    Cancellers = {c1}
    Editors = {}
    Serial = FALSE
    FaultyStores = {}
    MaxFaults = 0
    MaxDeletes = 0

PROPERTIES
    RunsSettle
    ThreadsReleased

CHECK_DEADLOCK FALSE
