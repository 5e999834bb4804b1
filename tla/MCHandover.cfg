CONSTANTS
    x = x
    p1 = p1
    d1 = d1
    d2 = d2
    Absent = Absent
    Closed = Closed
    AtPath = AtPath
    none = none
    Block <- MCBlock
    Content <- MCContent
    MaxBlocks = 2
    MaxEdits = 1
    PickCode <- MCPickCode
    CacheCode <- MCPickCode
    Dir <- MCDir
    startDir = d1
    MaxCrashes = 1

SPECIFICATION Spec

INVARIANTS
    GoneIsInTheCloud
    ServedIsTheNode

PROPERTIES
    ExpiredIsReclaimed

CHECK_DEADLOCK FALSE
