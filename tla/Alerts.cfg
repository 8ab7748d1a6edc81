SPECIFICATION FairSpec
CONSTANTS
    rise = rise
    fall = fall
    Alerts = {rise}
    Direction <- MCDirection
    Target <- MCTarget
    Prices = {1, 2, 3}
    MaxTrades = 3
    QueueSize = 1
    MaxFaults = 1
    MaxEdits = 1
INVARIANTS
    TriggersAreCrossings
PROPERTIES
    CrossingTriggers
    AlertsGoForward
    RegistryConverges
CHECK_DEADLOCK FALSE
