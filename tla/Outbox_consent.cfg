SPECIFICATION Spec
CONSTANTS
    test = test
    price = price
    preset = preset
    broken = broken
    ann = ann
    Jobs = {price, preset}
    Malformed = {}
    Users = {ann}
    Owner <- MCOwner
    Kind <- MCKind
    Workers = {w1, w2}
    Configured = {w1, w2}
    MaxAttempts = 1
    ClaimLimit = 2
    MaxFaults = 1
    MaxEdits = 1
    NoWorker = NoWorker
    NoJob = NoJob
PROPERTIES
    PresetRequestIsWanted
CHECK_DEADLOCK FALSE
