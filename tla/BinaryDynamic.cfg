SPECIFICATION FairSpec
CONSTANTS
    a = a
    b = b
    c = c
    w1 = w1
    w2 = w2
    Requests <- TwoRequests
    Writers <- TwoWriters
    Workers = 0
    Initial = 1
    QueueLen = 2
    TrackResponses = TRUE
CHECK_DEADLOCK FALSE
INVARIANTS
    Accounting
PROPERTIES
    Served
    Shrinks
