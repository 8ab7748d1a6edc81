SPECIFICATION Spec
CONSTANTS
    MaxRows = 2
    QueueSize = 1
    ReplayLimit = 1
    MaxFaults = 1
    Reset = Reset
INVARIANT
    NothingIsSilentlyLost
CHECK_DEADLOCK FALSE
