SPECIFICATION PathSpec
CONSTANTS
    a = a
    b = b
    x = x
    w1 = w1
    w2 = w2
    Msgs <- TwoAndOther
    Requests <- TwoRequests
    Writers <- TwoWriters
    WorkersMin = 1
    WorkersMax = 2
    QueueLen = 2
    TrackResponses = TRUE
    Configs <- MCConfigs
    Payloads <- MCPayloads
    Hash <- HashOf
    Basic = {"Basic good", "Basic bad"}
    Infinity = 0
    e1 = e1
    e2 = e2
    e3 = e3
    Names <- TwoNames
    Settings <- EverySetting
    MaxChanges = 2
INVARIANTS
    ReadByOne
    ClosedOnce
    Accounting
    AtLeastMin
    OvershootBounded
    SettingsHold
    BodyKept
    KeepsFraming
PROPERTIES
    ReturnsIfSteady
    NewIsRead
    Served
    ShrinksBack
    ShutsDown
\* The listener returns, a payload is written or dropped, and the output is closed.
CHECK_DEADLOCK FALSE
