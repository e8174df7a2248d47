SPECIFICATION Spec
CONSTANTS
    Ctypes = {"TCP", "UDP"}
    Packets <- MCPackets
    SetUps <- MCSetUps
    Searches <- MCSearches
    FrameBound = 3
    ConvBound = 4
    SharedWildcards = FALSE
CHECK_DEADLOCK FALSE
INVARIANTS
    Reachable
    ChainsOrdered
    LookupExact
    SecondPassSame
    VisitsAgree
PROPERTIES
    TemplatesStay
