CONSTANTS
    Threads = {t1, t2}
    NHuge <- MCNHuge
    HugeSize <- MCHugeSize
    Base <- MCBase
    Offsets <- MCOffsets
    Cmds <- MCCmds
    MaxMaps <- MCMaxMaps
    MaxLoads <- MCMaxLoads
    NONE = NONE



SPECIFICATION Spec
INVARIANT SpecFrame

\* The program is done once it has unmapped, closed and the module is gone.
CHECK_DEADLOCK FALSE
