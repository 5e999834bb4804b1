\* the ring wraps round three times
CONSTANTS
    c1 = c1
    Client <- MCClient
    Cap = 2
    MaxSeq = 6

SPECIFICATION FeedSpec

INVARIANTS
    WaitingIsUpToDate
    OnlyCutsAreMissed

PROPERTY EntryIsDealtWith
