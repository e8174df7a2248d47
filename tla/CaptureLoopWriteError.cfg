SPECIFICATION Spec
CONSTANTS
    Sources = {s1}
    Sizes <- MCOneSize
    HeaderSize = 24
    RecordSize = 16
    Configs <- MCTimer
    Faults <- MCWriteFaults
    Signals = FALSE
    PacketBound = 1
    FileBound = 2
INVARIANTS
    WriteErrorReported
