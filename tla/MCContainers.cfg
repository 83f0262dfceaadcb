CONSTANTS
    Keys = {k1, k2}
    Values <- MCValues
    NumDatabases = 1
    MaxTime = 1
    MaxInt = 1
    Items = {"a", "bb"}
    Words = {"a"}
    Fields = {f1, f2}
    MaxLen = 3
    Indices <- MCIndices
SPECIFICATION CSpec
SYMMETRY Sym
INVARIANTS ExpiredUnseen ContainersRebuilt ListIndexing FailedChangesNothing AbsentIsEmpty
PROPERTIES EmptiedIsGone
