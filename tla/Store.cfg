SPECIFICATION Spec

CONSTANTS
    q1 = q1
    q2 = q2
    q3 = q3
    Requests = {q1, q2, q3}
    Namespaces <- AlikeNamespaces
    SearchPrefixes <- NoneAndParent
    Letters <- FewLetters
    Separator = "/"
    Ttls <- OneTtl
    Never = Never
    None = None
    Unknown = Unknown
    MaxTime = 2

SYMMETRY Symmetry

INVARIANTS
    TypeOK
    ServedInTime
    FoundUnderPrefix

PROPERTIES
    ItemsKept
    AnswersLastWrite

CHECK_DEADLOCK FALSE
