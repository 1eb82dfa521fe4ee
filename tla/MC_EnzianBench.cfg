CONSTANTS
    Threads = {t1}
    NHuge <- MCNHuge
    HugeSize <- MCHugeSize
    Base <- MCBase
    Offsets <- MCOffsets
    Cmds <- MCCmds
    MaxMaps <- MCMaxMaps
    MaxLoads <- MCMaxLoads
    NONE = NONE

SPECIFICATION BenchSpec

INVARIANT AccessHitsAddressedFrame
INVARIANT FaultRunsInLoadedModule
PROPERTY BenchEnds

\* The benchmark ends: it returns or is killed, and the module may then be
\* unloaded once.
CHECK_DEADLOCK FALSE
