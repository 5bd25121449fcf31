SPECIFICATION Spec

CONSTANTS
    e1 = e1
    r1 = r1
    r2 = r2
    t1 = t1
    RunIds = {r1, r2}
    ThreadIds = {t1}
    NoThread = NoThread
    Kinds = {"background", "wait", "stream"}
    IfNotExists = {"create", "reject"}
    Cancellers = {}
    Editors = {e1}
    Serial = TRUE
    FaultyStores = {}
    MaxFaults = 0
    MaxDeletes = 0

INVARIANTS
    ValuesMatchHistory

PROPERTIES
    ImplementsLog

CHECK_DEADLOCK FALSE
