SPECIFICATION Spec
CONSTANTS
    Configs <- MCConfigs
    MaxCaptures = 2
    MaxPackets = 2
    MaxFiles = 2
INVARIANTS
    AssertionsHold
    WholeCaptureShown
    ReadsWhatWasReported
    UserFilesKept
    NothingLeftRunning
PROPERTIES
    StopEndsSession
CHECK_DEADLOCK FALSE
