CONSTANTS
    OutSize <- MCOutSize
    InSize <- MCInSize
    MaxChunk <- MCMaxChunk
    MaxRuns <- MCMaxRuns
    NULL = NULL
    GARBAGE = GARBAGE

SPECIFICATION FairSpec

INVARIANT TypeOK
INVARIANT NoLeak
PROPERTY SendCompletesBeforeReceive
PROPERTY RunEnds
PROPERTY ImplementsTransfer

\* The test program exits (normally or by abort): the final states are real.
CHECK_DEADLOCK FALSE
