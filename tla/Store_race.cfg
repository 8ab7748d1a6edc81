SPECIFICATION MCSpec
CONSTANTS
    None = None
    HourWidth = 2
    FourHourWidth = 4
    Minutes <- MCMinutes
    MaxRevision = 4
    MaxLive = 3
    MaxRepairs = 1
    Markets <- MCMarkets
    LastMinute = 3
    PageMinutes = 1
    Allowance = 2
    MaxPasses = 2
    Strategies <- MCStrategies
    Shapes <- MCShapes
    Analysis = 6
    Scale = 100
    InitialEquity = 10000
    Slippage = 1
    Fee = 1
    Presets <- MCPresets
    Period = 2
    Threshold = 50
    Closes = {1, 2}
    LastSlot = 5
    QueueSize = 2
    MaxTrouble = 2
    Requests <- MCRequests
    Stores <- MCStores
    Now = 7
    MinimumRange = 2
    MaximumRange = 4
    MaxAnalysis = 3
    MaxTotal = 4
    MaxHoldingCandles = 2200
    MaxChanges = 1
    Reports <- MCReports
    Limits = {1, 2, 3}
    EquityPreviewLimit = 4
    CandlePreviewLimit = 5
    TradeMarkerLimit = 3
INVARIANTS
    FingerprintsAreCurrent
CHECK_DEADLOCK FALSE
