\* Two inputs, a file and a TCP output with two buffers.
SPECIFICATION EmitterUpSpec
CONSTANTS
    r1 = r1
    s1 = s1
    r2 = r2
    s2 = s2
    r3 = r3
    s3 = s3
    x = x
    m = m
    one = one
    two = two
    Msgs <- EightMsgs
    Workers = 2
    Sticky = TRUE
    Bucket <- Buckets
    BufLen = 1
    Callers <- InputSet
    MaxBreaks = 1
    Inputs <- TwoInputs
    Outputs <- FileThenTcp
    All <- FileFirst
    Script <- TwoScripts
    Kind <- Kinds
    Id <- IdOf
    Rejected <- FirstRejected
    Unpretty <- ThirdUnpretty
    Limit = 3
\* The emitter and the goroutines of the output do end.
CHECK_DEADLOCK FALSE
INVARIANTS
    InOnePlace
    StickyTogether
    ResponsesHaveRequests
    InStep
PROPERTIES
    CloseEnds
    Delivered
