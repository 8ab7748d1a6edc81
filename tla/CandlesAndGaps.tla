---------------------------- MODULE CandlesAndGaps ----------------------------
(***************************************************************************)
(* The candle table with its three writers (CandleStore) and the pass that *)
(* decides what the second of them asks the provider for (CandleRepair),   *)
(* side by side: they share no state here.                                 *)
(***************************************************************************)
EXTENDS CandleStore

CONSTANTS
    Markets, LastMinute, PageMinutes, Allowance, MaxPasses     \* of CandleRepair

VARIABLES
    gStored, gRow, gTodo, gRemaining, gAllowed, gChunk, gPhase, gPlanned, gSettled,
    gAsked, gPasses

gVars == <<gStored, gRow, gTodo, gRemaining, gAllowed, gChunk, gPhase, gPlanned, gSettled,
           gAsked, gPasses>>

Gaps == INSTANCE CandleRepair WITH
    stored <- gStored, row <- gRow, todo <- gTodo, remaining <- gRemaining,
    allowed <- gAllowed, chunk <- gChunk, phase <- gPhase, planned <- gPlanned,
    settled <- gSettled, asked <- gAsked, passes <- gPasses

ASSUME GapsAssumption == Gaps!RepairAssumption

-----------------------------------------------------------------------------
\* The invariants of the table and of its repair: a candle is a chain of revisions, its
\* windows are made of them, and a pass over the gaps stays within its allowance.
CandlesAreSound == StoreIsSound /\ Gaps!RepairIsBounded

\* A pass that calls a market live has had an answer for every minute it planned, or has
\* dropped it behind an empty page (see CandleRepair).
LiveIsAccounted == Gaps!LiveIsAccounted
=============================================================================
