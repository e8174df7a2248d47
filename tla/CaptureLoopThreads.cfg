SPECIFICATION FairSpec
CONSTANTS
    Sources = {s1, s2}
    Sizes <- MCOneSize
    HeaderSize = 24
    RecordSize = 16
    Configs <- MCThreads
    Faults <- MCSourceFaults
    Signals = TRUE
    PacketBound = 2
    FileBound = 2
INVARIANTS
    QueueBounded
    DropsAccounted
    StopIsFinal
PROPERTIES
    ImplementsLedger
    StopEnds
    EofEnds
