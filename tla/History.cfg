SPECIFICATION MCSpec
CONSTANTS
    ann = ann
    r1 = r1
    Runs = {r1}
    UserOf <- MCUserOf
    Workers = {w1, w2}
    Slots = {1, 2}
    ActiveLimit = 2
    MaxAttempts = 2
    ClaimLimit = 1
    MaxFaults = 1
    MaxCrashes = 1
    MaxCorrections = 1
    Nobody = Nobody
    NoReport = NoReport
    Processes = {"p", "q"}
    MonthLength = 2
    TargetDays = 2
    FirstToday = 3
    LastToday = 4
    Histories = {{}, {2}}
    MaxBackfillCrashes = 1
INVARIANTS
    RunsInv
    BackfillIsSound
PROPERTIES
    PublishedIsCurrent
    CancellationHolds
    RunsSettle
    BackfillKeepsGoing
CHECK_DEADLOCK FALSE
