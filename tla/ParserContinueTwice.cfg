SPECIFICATION Spec
CONSTANTS
    Captures <- ExpectCaptures
    Traffic <- ExpectTraffic
    Pkt <- ExpectPkt
    Wire <- ExpectWire
    HttpHints = TRUE
    Ahead <- ExpectCaptures
    Expire = 1
    MaxNow = 4
    MessagesCap = 2
    SeqSpace = 16
    ContinueLen = 1
INVARIANT PairedUUID
