-------------------------- MODULE SignalsAndAnalyses --------------------------
(***************************************************************************)
(* What is computed from the candles: the signals judged live, candle by   *)
(* candle (SignalEvaluation), and the parts of a historical analysis: what *)
(* its request must pass (AnalysisInputs), its simulation                  *)
(* (SimulationEngine) and the views of its report (ReportViews), side by   *)
(* side: they share no state here.                                         *)
(***************************************************************************)

CONSTANTS
    Strategies, Shapes, Analysis, Scale, InitialEquity, Slippage, Fee,  \* of SimulationEngine
    Presets, Period, Threshold, Closes, LastSlot, QueueSize,            \* of SignalEvaluation
    MaxTrouble,
    Requests, Stores, Now, MinimumRange, MaximumRange, MaxAnalysis,     \* of AnalysisInputs
    MaxTotal, MaxHoldingCandles, MaxChanges,
    Reports, Limits, EquityPreviewLimit, CandlePreviewLimit,            \* of ReportViews
    TradeMarkerLimit, None

VARIABLES
    eStrategy, eIndex, eCandle, eRelation, eBook, eCurve, eCounts, eStatus,
    sCandles, sClock, sMarket, sVerdict, sPreset, sState, sQueue, sConsumer, sEvents,
    sTrouble,
    iRequest, iStore, iPhase, iCode, iRules, iChanges,
    vReport, vSeries, vCursor, vReceived, vFinished

eVars == <<eStrategy, eIndex, eCandle, eRelation, eBook, eCurve, eCounts, eStatus>>
sVars == <<sCandles, sClock, sMarket, sVerdict, sPreset, sState, sQueue, sConsumer,
           sEvents, sTrouble>>
iVars == <<iRequest, iStore, iPhase, iCode, iRules, iChanges>>
vVars == <<vReport, vSeries, vCursor, vReceived, vFinished>>

Engine == INSTANCE SimulationEngine WITH
    strategy <- eStrategy, index <- eIndex, candle <- eCandle, relation <- eRelation,
    book <- eBook, curve <- eCurve, counts <- eCounts, status <- eStatus

Signals == INSTANCE SignalEvaluation WITH
    candles <- sCandles, clock <- sClock, market <- sMarket, verdict <- sVerdict,
    preset <- sPreset, state <- sState, queue <- sQueue, consumer <- sConsumer,
    events <- sEvents, trouble <- sTrouble

Inputs == INSTANCE AnalysisInputs WITH
    request <- iRequest, store <- iStore, phase <- iPhase, code <- iCode, rules <- iRules,
    changes <- iChanges

Views == INSTANCE ReportViews WITH
    report <- vReport, series <- vSeries, cursor <- vCursor, received <- vReceived,
    finished <- vFinished

ASSUME EngineIsAssumed == Engine!EngineAssumption
ASSUME EvaluationIsAssumed == Signals!EvaluationAssumption
ASSUME InputsAreAssumed == Inputs!InputsAssumption
ASSUME ViewsAreAssumed == Views!ViewsAssumption

-----------------------------------------------------------------------------
\* Whatever signals, exits and gaps an analysis meets, its engine never aborts, and
\* signals, trades and equity account for each other (see SimulationEngine).
BooksBalance == Engine!BooksBalance

\* A position is held through a candle only if none of its exit rules fired on it, and
\* the stop loss wins over the take profit (see SimulationEngine).
ExitsAreNotMissed == Engine!ExitsAreNotMissed

\* What docs/BACKTESTING.md says of the last held candle (see SimulationEngine).
FixedExitHappens == Engine!FixedExitHappens

\* An occurrence is one crossing, whatever is redelivered, late, corrected or lost
\* (see SignalEvaluation).
OccurrencesAreSound == Signals!OccurrencesAreSound

\* What one part of the program has accepted no later part refuses, unless the candles
\* have changed in between or a limit of the engine applies (see AnalysisInputs).
AcceptedStaysAccepted == Inputs!AcceptedStaysAccepted

\* Nothing of a report is lost on its way to the reader (see ReportViews).
ViewsAreComplete == Views!ViewsAreComplete
=============================================================================
