SPECIFICATION Spec
CONSTANTS
    a = a
    b = b
    c = c
    w1 = w1
    w2 = w2
    Requests <- ThreeRequests
    Writers <- OneWriter
    Workers = 0
    Initial = 2
    QueueLen = 3
    TrackResponses = FALSE
CHECK_DEADLOCK FALSE
PROPERTY KeepsOne
