SPECIFICATION Spec
CONSTANTS
    Configs <- MCConfigs
    SectionBound = 2
    PacketBound = 1
    QueueBound = 2
    FileBound = 3
CHECK_DEADLOCK FALSE
INVARIANTS
    EveryPacketDescribed
    ReportedFileReadable
    CountsReachParent
