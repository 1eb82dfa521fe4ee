\* One property of the shim, which the code violates.
CONSTANTS
    NWords <- MCNWords
    MapWords <- MCMapWords
    Offsets <- MCOffsets
    Vals <- MCVals
    WordWidth <- MCWordWidth
    IntWidth <- MCIntWidth
    NULL = NULL
SPECIFICATION Spec
INVARIANT CloseReleasesAll
\* The caller's program ends: after exit, a NULL from initialize() or a crash.
CHECK_DEADLOCK FALSE
