SPECIFICATION InputsSpec
CONSTANTS
    Captures <- BinaryCaptures
    Traffic <- BinaryTraffic
    Pkt <- BinaryPkt
    Wire <- BinaryWire
    HttpHints = FALSE
    Ahead <- BinaryCaptures
    Expire = 1
    MaxNow = 4
    MessagesCap = 1
    SeqSpace = 16
    ContinueLen = 1
    Conns <- MCConns
    Sent <- MCSent
    Setups <- MCSetups
    DataCap = 1
    PipeCap = 1
    MaxSeconds = 1
INVARIANTS
    InProgressOnly
    OwnConnection
    WithinLimit
PROPERTIES
    NoSilentLoss
    Drains
    CloseEnds
\* The parser may panic, and the process ends.
CHECK_DEADLOCK FALSE
