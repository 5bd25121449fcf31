SPECIFICATION Spec

CONSTANTS
    q1 = q1
    q2 = q2
    q3 = q3
    f1 = f1
    f2 = f2
    Requests = {q1, q2, q3}
    Fields = {f1, f2}
    Earlier = Earlier
    None = None
    Versions = {1, 2}

SYMMETRY Symmetry

INVARIANTS
    TypeOK
    VersionsReliable
    FieldsKept

PROPERTIES
    DeletedForGood

CHECK_DEADLOCK FALSE
