--------------------------- MODULE AnalysisPromise ---------------------------
(***************************************************************************)
(* What a user is promised of an analysis (historical_analysis/service.py, *)
(* docs/BACKTESTING.md): it is answered once, by a report made of the      *)
(* candles of that moment or by a failure, unless its user withdraws it    *)
(* first; a withdrawal that was acknowledged is never answered, and an     *)
(* answer stays as it is until it is deleted.  Claims, attempts, datasets, *)
(* locks, retries and crashes are hidden.                                  *)
(***************************************************************************)
EXTENDS Naturals

CONSTANTS Runs, Slots, NoReport

VARIABLES
    answer,   \* what the user is told of each run
    result,   \* what the report of each run was made of
    market    \* the candles everybody sees

analysisVars == <<answer, result, market>>

Final == {"succeeded", "failed", "cancelled"}
Answers == {"none", "waiting", "cancelling", "deleted"} \union Final
Candles == [Slots -> Nat]

AnalysisInit ==
    /\ answer = [r \in Runs |-> "none"]
    /\ result = [r \in Runs |-> NoReport]
    /\ market \in Candles

\* A withdrawal takes effect at once, or when the worker has noticed.
WithoutReport ==
    {<<"none", "waiting">>, <<"waiting", "failed">>,
     <<"waiting", "cancelled">>, <<"waiting", "cancelling">>, <<"cancelling", "cancelled">>}

Stays(r) == answer'[r] = answer[r] /\ result'[r] = result[r]

Moves(r) == <<answer[r], answer'[r]>> \in WithoutReport /\ result'[r] = result[r]

Succeeds(r) ==
    /\ answer[r] = "waiting"
    /\ answer'[r] = "succeeded"
    /\ result'[r] = market

Delete(r) ==
    /\ answer[r] \in Final
    /\ answer'[r] = "deleted"
    /\ result'[r] = NoReport

\* One transaction of a worker may concern several runs.
Analyse ==
    /\ answer' \in [Runs -> Answers]
    /\ result' \in [Runs -> Candles \union {NoReport}]
    /\ \A r \in Runs : Stays(r) \/ Moves(r) \/ Succeeds(r) \/ Delete(r)
    /\ UNCHANGED market

\* Candles are corrected and expire; what was answered stays.
Trade ==
    /\ market' \in Candles
    /\ UNCHANGED <<answer, result>>

AnalysisNext == Analyse \/ Trade

AnalysisSpec == AnalysisInit /\ [][AnalysisNext]_analysisVars
=============================================================================
