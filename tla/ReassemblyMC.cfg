SPECIFICATION Spec
CONSTANTS
    Calls <- MCCalls
    PduBound = 3
CHECK_DEADLOCK FALSE
INVARIANTS
    GapCacheExact
    DataInPlace
    ConflictsMarked
    CompletesAtOnce
    SecondPassFinds
