SPECIFICATION ListenerFairSpec
CONSTANTS
    e1 = e1
    e2 = e2
    e3 = e3
    Names <- ThreeNames
    Settings <- AppearsRead
    MaxChanges = 1
CHECK_DEADLOCK FALSE
PROPERTY ReturnsWhenDone
