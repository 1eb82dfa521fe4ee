\* The passing run: the type and the copy write_data() makes into the BAR.
CONSTANTS
    NWords <- MCNWords
    MapWords <- MCMapWords
    Offsets <- MCOffsets
    Vals <- MCVals
    WordWidth <- MCWordWidth
    IntWidth <- MCIntWidth
    NULL = NULL
SPECIFICATION Spec
INVARIANT TypeOK WriteDataStoresOutput
\* The caller's program ends: after exit, a NULL from initialize() or a crash.
CHECK_DEADLOCK FALSE
