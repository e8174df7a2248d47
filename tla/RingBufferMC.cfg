SPECIFICATION Spec
CONSTANTS
    Requests <- MCRequests
    MaxNumFiles = 3
    Times <- MCTimes
    PrintNames = TRUE
    Faults <- MCAllFaults
    FileNumBound = 6
CHECK_DEADLOCK FALSE
INVARIANTS
    TypeOK
    NewestKept
    RingBounded
    EveryNamePrintedOnce
    StartFailureLeavesNoFile
