SPECIFICATION IngestSpec
CONSTANTS
    Conns <- MCConns
    Sent <- MCSent
    Setups <- LimitedSetup
    DataCap = 1
    PipeCap = 1
    MaxSeconds = 1
PROPERTY LimitReached
\* The process ends.
CHECK_DEADLOCK FALSE
