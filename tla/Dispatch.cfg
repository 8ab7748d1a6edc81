SPECIFICATION FairSpec
CONSTANTS
    Events = {e1}
    Backfilled = {}
    Dispatchers = {d1, d2}
    SubCount = 2
    BatchSize = 1
    ClaimLimit = 1
    MaxAttempts = 2
    MaxAge = 1
    CommitLag = 1
    MaxTime = 2
    MaxEdits = 1
    MaxFaults = 2
    NoDispatcher = NoDispatcher
    NoEvent = NoEvent
INVARIANTS
    CountsAreTrue
    JobsAreExact
PROPERTIES
    EveryDispatchCloses
CHECK_DEADLOCK FALSE
