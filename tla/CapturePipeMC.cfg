SPECIFICATION Spec
CONSTANTS
    Pipes <- MCPipes
    InitialBufSize = 32
    BufSizes <- MCBufSizes
    MaxPktSize = 36
    Misread = 64
CHECK_DEADLOCK FALSE
INVARIANTS
    BuffersNotOverrun
    RecordsWhole
    CleanEndLosesNothing
PROPERTIES
    ClosedPipeEnds
    StopNoticed
