---------------------------- MODULE HistoryWorkers ----------------------------
(***************************************************************************)
(* The two workers that go through the past, side by side: the historical  *)
(* analyses (HistoricalRuns) and the candle backfill of one market         *)
(* (CandleBackfill).  They share no state here.                            *)
(***************************************************************************)
EXTENDS HistoricalRuns

CONSTANTS
    Processes,              \* processes that may run the backfill worker
    MonthLength, TargetDays,
    FirstToday, LastToday, Histories,
    MaxBackfillCrashes      \* bound of CandleBackfill

VARIABLES today, stored, remote, checkpoint, coverage, lease, process, crashes

backfillVars == <<today, stored, remote, checkpoint, coverage, lease, process, crashes>>

Backfill == INSTANCE CandleBackfill WITH
    Workers <- Processes, MaxCrashes <- MaxBackfillCrashes, worker <- process

ASSUME CalendarAssumption == Backfill!BackfillAssumption

-----------------------------------------------------------------------------
\* What a checkpoint counts as imported is in the table (see CandleBackfill).
BackfillIsSound == Backfill!BackfillIsSound

\* Crashes and missing archives delay the backfill and do not stop it (see there).
BackfillKeepsGoing == Backfill!BackfillKeepsGoing
=============================================================================
