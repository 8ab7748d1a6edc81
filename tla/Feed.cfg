SPECIFICATION MCSpec
CONSTANTS
    MaxFaults = 4
    MaxEdits = 4
    MaxRows = 3
    QueueSize = 2
    ReplayLimit = 2
    Reset = Reset
    MaxFeedFaults = 2
INVARIANTS
    HookInv
    TabIsCurrent
PROPERTIES
    StreamsUnlessStranded
    EveryoneIsTold
CHECK_DEADLOCK FALSE
