\* one permit, so that two requests can queue behind a third
CONSTANTS
    r1 = r1
    r2 = r2
    r3 = r3
    NoOne = NoOne
    Request <- MCRequest
    Permits = 1
    MaxLink = 2
    ApiFails = TRUE

SPECIFICATION Spec

INVARIANTS
    PermitsAccounted
    RetriesChangeLink
    WaitersHaveCall

PROPERTY RequestEnds
