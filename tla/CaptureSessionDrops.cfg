SPECIFICATION Spec
CONSTANTS
    Configs <- MCPassthrough
    MaxCaptures = 1
    MaxPackets = 1
    MaxFiles = 1
INVARIANTS
    DropsWhileRunning
CHECK_DEADLOCK FALSE
