CONSTANTS
    r1 = r1
    r2 = r2
    g1 = g1
    g2 = g2
    NoToken = NoToken
    nobody = nobody
    other = other
    Request <- MCRequest
    Grant <- MCGrant
    maxRetries = 2
    MaxIssued = 1
    MaxRevoked = 1
    BadPaste = TRUE

SPECIFICATION Spec

INVARIANTS
    StoredTokenIsLive
    ReportedIsDead
    FileIsCurrent
SYMMETRY MCSymmetry
