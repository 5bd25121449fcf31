SPECIFICATION Spec

CONSTANTS
    c1 = c1
    r1 = r1
    t1 = t1
    RunIds = {r1}
    ThreadIds = {t1}
    NoThread = NoThread
    Kinds = {"background"}
    IfNotExists = {"create", "reject"}
    Cancellers = {c1}
    Editors = {}
    Serial = FALSE
    FaultyStores = {}
    MaxFaults = 0
    MaxDeletes = 0

PROPERTIES
    CancelSticks

CHECK_DEADLOCK FALSE
