SPECIFICATION Spec
CONSTANTS
    test = test
    price = price
    preset = preset
    broken = broken
    ann = ann
    Jobs = {price, preset}
    Malformed = {}
    Users = {ann}
    Owner <- MCOwner
    Kind <- MCKind
    Workers = {w1, w2}
    Configured = {w1, w2}
    MaxAttempts = 2
    ClaimLimit = 2
    MaxFaults = 2
    MaxEdits = 2
    NoWorker = NoWorker
    NoJob = NoJob
SYMMETRY MCSymmetry
INVARIANTS
    AcceptedAtMostOnce
    ReportIsTrue
    OutboxInv
    DegradedByRejection
PROPERTIES
    SettledIsFinal
CHECK_DEADLOCK FALSE
