SPECIFICATION Spec
CONSTANTS
    Sources = {s1}
    Sizes <- MCSizes
    HeaderSize = 24
    RecordSize = 16
    Configs <- MCOneSource
    Faults <- MCAllFaults
    Signals = TRUE
    PacketBound = 3
    FileBound = 3
INVARIANTS
    FilesAsAsked
    ParentCounts
    OutputErrorReported
PROPERTIES
    NothingAfterStop
