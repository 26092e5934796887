\* Plain traffic with and without allowIncompete, or a request with Expect:
\* 100-continue and a body of one packet or of two.
SPECIFICATION Spec
CONSTANTS
    Captures <- HttpCaptures
    Traffic <- HttpTraffic
    Pkt <- HttpPkt
    Wire <- HttpWire
    HttpHints = TRUE
    Ahead <- AllButLongBody
    Expire = 1
    MaxNow = 4
    MessagesCap = 1
    SeqSpace = 16
    ContinueLen = 1
INVARIANTS
    SortedUnique
    KeyedByPackets
    NoneWholeWaits
    ReadWhole
    PairedUUID
PROPERTIES
    ImplementsReassembly
