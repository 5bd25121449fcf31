SPECIFICATION Spec

CONSTANTS
    i1 = i1
    i2 = i2
    j1 = j1
    j2 = j2
    s1 = s1
    None = None
    Ids = {i1, i2}
    Searches = {s1}
    Jobs = {j1, j2}
    Contents <- MCContents
    Asks <- MCAsks
    MaxWrites = 2

SYMMETRY Symmetry

CHECK_DEADLOCK FALSE

INVARIANTS
    TypeOK
    SearchFaithful
    TotalRight

PROPERTIES
    CronsChangeAsAsked
