SPECIFICATION Spec
CONSTANTS
    Captures <- ExpectCaptures
    Traffic <- ExpectTraffic
    Pkt <- ExpectPkt
    Wire <- ExpectWire
    HttpHints = TRUE
    Ahead <- None
    Expire = 1
    MaxNow = 7
    MessagesCap = 2
    SeqSpace = 16
    ContinueLen = 1
PROPERTY NoSilentLoss
