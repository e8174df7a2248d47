SPECIFICATION Spec
CONSTANTS
    Ctypes = {"TCP", "UDP"}
    Packets <- MCPackets
    SetUps <- MCSharedSetUps
    Searches <- MCSearches
    FrameBound = 3
    ConvBound = 4
    SharedWildcards = TRUE
CHECK_DEADLOCK FALSE
INVARIANTS
    Reachable
