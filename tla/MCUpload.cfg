CONSTANTS
    x = x
    y = y
    p1 = p1
    p2 = p2
    Absent = Absent
    Closed = Closed
    AtPath = AtPath
    none = none
    Block <- MCBlock
    Content <- MCContent
    MaxBlocks = 3
    MaxEdits = 2
    PickCode <- MCPickCode
    Elsewhere <- MCElsewhere
    maxUploadRetries = 3
    maxAttempts = 3
    ossMultipartThreshold = 1
    calcPartSize <- MCPartSize

SPECIFICATION UploadSpec

INVARIANTS
    HashIsContent

PROPERTIES
    ImplementsTransfer

CHECK_DEADLOCK FALSE
