\* 6 configurations of the output, 4 of the input, 2 disks to begin with.
SPECIFICATION Spec
CONSTANTS
    Records <- MCRecords
    Ts <- MCTs
    Configs <- MCConfigs
    Script <- MCScript
    Tag <- MCTag
    Today <- MCToday
    MaxSize = 0
    Before <- MCBefore
    Plays <- MCPlays
    DataCap = 1
    MaxRead = 5
INVARIANTS
    ChunkBound
    PrefixSurvives
    InOrder
    Paced
PROPERTIES
    NoneOverwritten
    AllReplayed
\* The input may be closed before everything is read, or have nothing to read.
CHECK_DEADLOCK FALSE
