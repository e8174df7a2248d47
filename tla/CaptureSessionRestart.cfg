SPECIFICATION Spec
CONSTANTS
    Configs <- MCNamed
    MaxCaptures = 2
    MaxPackets = 1
    MaxFiles = 1
INVARIANTS
    PermanentFileKept
CHECK_DEADLOCK FALSE
