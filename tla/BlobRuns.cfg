SPECIFICATION Spec

CONSTANTS
    q1 = q1
    q2 = q2
    q3 = q3
    threadRun = threadRun
    statelessRun = statelessRun
    RunIds = {threadRun, statelessRun}
    ThreadRuns = {threadRun}
    Requests = {q1, q2, q3}

SYMMETRY Symmetry

INVARIANTS
    TypeOK
    UpdatesVisible
    CountAccurate

PROPERTIES
    ImplementsRunStore

CHECK_DEADLOCK FALSE
