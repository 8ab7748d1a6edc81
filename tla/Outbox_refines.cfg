SPECIFICATION FairSpec
CONSTANTS
    test = test
    price = price
    preset = preset
    broken = broken
    ann = ann
    Jobs = {test, broken, preset}
    Malformed = {broken}
    Users = {ann}
    Owner <- MCOwner
    Kind <- MCKind
    Workers = {w1, w2}
    Configured = {w1}
    MaxAttempts = 1
    ClaimLimit = 2
    MaxFaults = 1
    MaxEdits = 0
    NoWorker = NoWorker
    NoJob = NoJob
PROPERTIES
    ImplementsPromise
    EveryJobSettles
CHECK_DEADLOCK FALSE
