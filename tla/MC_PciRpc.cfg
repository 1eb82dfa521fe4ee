CONSTANTS
    NWords <- MCNWords
    ReadWords <- MCReadWords
    MapWords <- MCMapWords
    Iters <- MCIters
    DeviceVals <- MCDeviceVals
    StackVals <- MCStackVals

SPECIFICATION Spec

INVARIANT StoresPlaceOutput
INVARIANT ReadBackCoversAnswer
INVARIANT ReturnsReleased

\* main() returns: the program ends.
CHECK_DEADLOCK FALSE
