SPECIFICATION Spec
CONSTANTS
    a = a
    b = b
    x = x
    w1 = w1
    w2 = w2
    Msgs <- TwoAndOther
    Requests <- TwoRequests
    Writers <- TwoWriters
    WorkersMin = 1
    WorkersMax = 2
    QueueLen = 2
    TrackResponses = TRUE
INVARIANT WithinMax
CHECK_DEADLOCK FALSE
