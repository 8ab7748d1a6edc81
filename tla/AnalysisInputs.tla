--------------------------- MODULE AnalysisInputs ---------------------------
(***************************************************************************)
(* What one request for a historical analysis must pass before anything is *)
(* simulated, check by check: the range and the strategy of the request    *)
(* (service.py, strategy.py), the coverage read in SQL (coverage           *)
(* repository), the dataset's own validation of the same candles           *)
(* (datasets.py), the limit of the worker and the validation of the        *)
(* engines (engine.py, configurable_engine.py).  Five pieces of code judge *)
(* the same range, so they can disagree.                                   *)
(*                                                                         *)
(* Times are hours.  A candle of the store is "none", "complete" or        *)
(* "incomplete"; strategy values are in hundredths.  The life of the run   *)
(* around these checks is HistoricalRuns.                                  *)
(***************************************************************************)
EXTENDS Ordering, Sequences

CONSTANTS
    Requests,       \* what users submit: [frame, warmup, start, end, long, rules]
    Stores,         \* how complete the market's candles may be: a set of kinds
    Now,            \* the hour of creation
    MinimumRange, MaximumRange,   \* MINIMUM_RANGE_DAYS, MAXIMUM_RANGE_DAYS, in hours
    MaxAnalysis, MaxTotal,        \* MAX_ANALYSIS_CANDLES, MAX_TOTAL_CANDLES
    MaxHoldingCandles,            \* MAX_HOLDING_CANDLES
    MaxChanges      \* bound: candles that expire or complete meanwhile

Rules == [type : STRING, value : Int]
Kinds == {"none", "complete", "incomplete"}

\* Assumed of the constants by the module that composes this one.
InputsAssumption ==
    /\ \A q \in Requests :
        /\ q.frame \in Nat \ {0} /\ q.warmup \in Nat
        /\ q.start \in Int /\ q.end \in Int
        /\ q.long \in BOOLEAN /\ q.rules \in Seq(Rules)
    /\ Stores \subseteq Kinds
    /\ {Now, MinimumRange, MaximumRange, MaxAnalysis, MaxTotal} \subseteq Int
    /\ MaxHoldingCandles \in 0 .. 2200
    /\ MaxChanges \in Nat

VARIABLES
    request,
    store,      \* the current candle of each open time of the range
    phase,      \* "submitted", "refused", "queued", "ready", "failed", "simulating"
    code,       \* why it was refused or failed
    rules,      \* the canonical exit rules of the run, <<>> if the strategy was omitted
    changes     \* candles changed since the coverage was read

vars == <<request, store, phase, code, rules, changes>>

Warmup(q) == q.start - q.warmup * q.frame
Open(q, k) == Warmup(q) + (k - 1) * q.frame
ExpectedAnalysis(q) == (q.end - q.start) \div q.frame
ExpectedTotal(q) == q.warmup + ExpectedAnalysis(q)
OpenTimes(q) == {Open(q, k) : k \in 1..ExpectedTotal(q)}

Init ==
    /\ request \in Requests
    /\ store \in [OpenTimes(request) -> Stores]
    /\ phase = "submitted"
    /\ code = "none"
    /\ rules = <<>>
    /\ changes = 0

-----------------------------------------------------------------------------
(* Exit rules: [type, value] *)

Priority ==
    <<"stop_loss_percent", "take_profit_percent", "rsi_threshold_cross", "max_holding_candles">>
RuleTypes == {"stop_loss_percent", "take_profit_percent", "rsi_threshold_cross",
              "max_holding_candles"}

Percent(n) == n * 100
\* _take_profit_rule, _stop_loss_rule, _rsi_rule, _max_holding_rule
InRange(rule) ==
    \/ rule.type = "take_profit_percent" /\ rule.value \in 1..Percent(1000)
    \/ rule.type = "stop_loss_percent" /\ rule.value \in 1..(Percent(100) - 1)
    \/ rule.type = "rsi_threshold_cross" /\ rule.value \in 1..(Percent(100) - 1)
    \/ rule.type = "max_holding_candles" /\ rule.value \in 1..MaxHoldingCandles

Distinct(rs) == \A i, j \in DOMAIN rs : rs[i].type = rs[j].type => i = j
HasMaximum(rs) == \E i \in DOMAIN rs : rs[i].type = "max_holding_candles"

\* sorted by _RULE_ORDER: the n-th rule is the one with n rules up to it
RuleOrder(rule) == CHOOSE p \in DOMAIN Priority : Priority[p] = rule.type
Canonical(rs) ==
    LET upto(i) == {j \in DOMAIN rs : RuleOrder(rs[j]) <= RuleOrder(rs[i])}
    IN  [n \in DOMAIN rs |-> rs[CHOOSE i \in DOMAIN rs : Cardinality(upto(i)) = n]]

\* normalize_strategy; an omitted strategy is the legacy fixed horizon
StrategyAccepted(q) ==
    q.rules # <<>> =>
        /\ q.long
        /\ Len(q.rules) <= 4
        /\ Distinct(q.rules)
        /\ \A i \in DOMAIN q.rules : q.rules[i].type \in RuleTypes /\ InRange(q.rules[i])
        /\ HasMaximum(q.rules)

\* the bounds of _normalize_strategy_snapshot, which has its own copy of the limits
EngineInRange(rule) ==
    \/ /\ rule.type \in {"take_profit_percent", "stop_loss_percent"}
       /\ rule.value >= 1
       /\ rule.type = "take_profit_percent" => rule.value <= Percent(1000)
       /\ rule.type = "stop_loss_percent" => rule.value < Percent(100)
    \/ rule.type = "rsi_threshold_cross" /\ rule.value > 0 /\ rule.value < Percent(100)
    \/ rule.type = "max_holding_candles" /\ rule.value >= 1 /\ rule.value <= 2200
EngineAcceptsRules(rs) ==
    /\ Len(rs) \in 1..4
    /\ Distinct(rs) /\ HasMaximum(rs)
    /\ \A i \in DOMAIN rs : EngineInRange(rs[i])
\* the order in which the engine asks the rules: type by type, those it has parsed
EngineOrder(rs) ==
    LET parsed(type) == {i \in DOMAIN rs : rs[i].type = type}
        present == Ascending({p \in DOMAIN Priority : parsed(Priority[p]) # {}})
    IN  [n \in DOMAIN present |-> rs[CHOOSE i \in parsed(Priority[present[n]]) : TRUE]]

-----------------------------------------------------------------------------
(* The candles of the range *)

\* list_current_candles_for_historical_dataset: current rows of any status, ascending
CurrentRows(q) == Ascending({t \in OpenTimes(q) : store[t] # "none"})
Contiguous(q, cs) == \A k \in 2..Len(cs) : cs[k] = cs[k - 1] + q.frame
Before(q, cs) == Cardinality({k \in DOMAIN cs : cs[k] < q.start})

\* Mutant: incomplete rows count as well
CoverageReadyByCount(q) == Cardinality({t \in OpenTimes(q) : store[t] # "none"}) = ExpectedTotal(q)
\* get_historical_analysis_coverage: count, first, last and gaps of complete rows
CoverageReady(q) ==
    LET complete == {t \in OpenTimes(q) : store[t] = "complete"}
    IN /\ Cardinality(complete) = ExpectedTotal(q)
       /\ Warmup(q) \in complete
       /\ q.end - q.frame \in complete
       /\ \A t \in complete \ {Warmup(q)} : t - q.frame \in complete

\* validate_historical_dataset_candle and the two order checks of the loop
RowProblem(q, cs, k) ==
    IF store[cs[k]] = "incomplete" THEN "incomplete"
    ELSE IF k > 1 /\ cs[k] # cs[k - 1] + q.frame THEN "gap_detected"
    ELSE "none"
FirstProblem(q, cs) ==
    LET bad == {k \in DOMAIN cs : RowProblem(q, cs, k) # "none"}
    IN IF bad = {} THEN "none"
       ELSE RowProblem(q, cs, CHOOSE k \in bad : \A j \in bad : k <= j)
\* maximum_historical_dataset_candles
MaximumCandles(q) == MaximumRange \div q.frame + q.warmup

\* validate_historical_dataset_coverage
DatasetFailure(q, cs) ==
    IF Len(cs) > MaximumCandles(q) THEN "too_large"
    ELSE IF cs = <<>> THEN "insufficient_warmup"
    ELSE IF FirstProblem(q, cs) # "none" THEN FirstProblem(q, cs)
    ELSE IF cs[1] # Warmup(q) THEN "insufficient_warmup"
    ELSE IF cs[Len(cs)] + q.frame # q.end THEN "gap_detected"
    ELSE IF Before(q, cs) < q.warmup THEN "insufficient_warmup"
    ELSE IF Len(cs) - Before(q, cs) < ExpectedAnalysis(q) THEN "gap_detected"
    ELSE IF Len(cs) # ExpectedTotal(q) THEN "invalid"
    ELSE "none"

\* the counts of _validate_input, then the loop and the closing checks of _validate_candles
EngineFailure(q, cs) ==
    IF ExpectedAnalysis(q) > MaxAnalysis \/ ExpectedTotal(q) > MaxTotal
    THEN "resource_limit_exceeded"
    ELSE IF cs = <<>> THEN "missing_warmup"
    ELSE IF Len(cs) > ExpectedTotal(q) THEN "dataset_count_invalid"
    ELSE IF ~Contiguous(q, cs) THEN "candle_gap"
    ELSE IF cs[1] > Warmup(q) \/ Before(q, cs) < q.warmup THEN "missing_warmup"
    ELSE IF Len(cs) < ExpectedTotal(q)
    THEN IF cs[Len(cs)] + q.frame < q.end THEN "candle_gap" ELSE "missing_analysis_candles"
    ELSE IF cs[Len(cs)] + q.frame # q.end THEN "candle_gap"
    ELSE "none"

-----------------------------------------------------------------------------
(* Actions *)

OnBoundary(q, t) == t % q.frame = 0
\* validate_range
RangeProblem(q) ==
    IF ~OnBoundary(q, q.start) \/ ~OnBoundary(q, q.end) \/ q.end <= q.start
    THEN "request_invalid"
    ELSE IF q.end - q.start < MinimumRange \/ q.end - q.start > MaximumRange
            \/ q.end > (Now \div q.frame) * q.frame
    THEN "range_unavailable"
    ELSE "none"

Refuse(why) ==
    /\ phase' = "refused" /\ code' = why
    /\ UNCHANGED <<request, store, rules, changes>>

\* HistoricalAnalysisService.create
Create ==
    /\ phase = "submitted"
    /\ IF ~StrategyAccepted(request) THEN Refuse("strategy_invalid")
       ELSE IF RangeProblem(request) # "none" THEN Refuse(RangeProblem(request))
       ELSE IF ~CoverageReady(request) THEN Refuse("range_unavailable")
       ELSE /\ phase' = "queued"
            /\ rules' = Canonical(request.rules)
            /\ UNCHANGED <<request, store, code, changes>>

\* retention drops old candles while the run waits
Expire(t) ==
    /\ phase \in {"queued", "ready"} /\ changes < MaxChanges
    /\ store[t] # "none"
    /\ store' = [store EXCEPT ![t] = "none"]
    /\ changes' = changes + 1
    /\ UNCHANGED <<request, phase, code, rules>>

FailWith(why) ==
    /\ phase' = "failed" /\ code' = why
    /\ UNCHANGED <<request, store, rules, changes>>

\* prepare_historical_analysis_dataset; later changes of the store do not reach it
Prepare ==
    /\ phase = "queued"
    /\ LET failure == DatasetFailure(request, CurrentRows(request))
       IN IF failure # "none" THEN FailWith(failure)
          ELSE /\ phase' = "ready"
               /\ UNCHANGED <<request, store, code, rules, changes>>

\* the worker's limit, then the engine on the snapshot, which holds every open time
Simulate ==
    /\ phase = "ready"
    /\ LET snapshot == [k \in 1..ExpectedTotal(request) |-> Open(request, k)]
       IN IF ExpectedTotal(request) > MaxTotal THEN FailWith("too_large")
          ELSE IF EngineFailure(request, snapshot) # "none"
               THEN FailWith(EngineFailure(request, snapshot))
          ELSE IF rules # <<>> /\ ~EngineAcceptsRules(rules)
               THEN FailWith("calculation_invariant")
          ELSE /\ phase' = "simulating"
               /\ UNCHANGED <<request, store, code, rules, changes>>

Next ==
    \/ Create
    \/ Prepare
    \/ Simulate
    \/ \E t \in OpenTimes(request) : Expire(t)

Spec == Init /\ [][Next]_vars

-----------------------------------------------------------------------------
(* Properties *)

Whole(q) == \A t \in OpenTimes(q) : store[t] = "complete"

TypeOK ==
    /\ request \in Requests
    /\ store \in [OpenTimes(request) -> Kinds]
    /\ phase \in {"submitted", "refused", "queued", "ready", "failed", "simulating"}
    /\ code # "none" <=> phase \in {"refused", "failed"}
    /\ changes \in 0..MaxChanges

\* The three judges of a range agree on the candles that are there: the coverage in SQL,
\* the dataset's loop and the engine's loop accept exactly the whole range, and what the
\* dataset calls a gap or a missing warm-up the engine calls the same.
JudgesAgree ==
    RangeProblem(request) = "none" =>
        LET cs == CurrentRows(request)
            dataset == DatasetFailure(request, cs)
            engine == EngineFailure(request, cs)
        IN /\ CoverageReady(request) <=> Whole(request)
           /\ (dataset = "none") <=> Whole(request)
           /\ (engine # "resource_limit_exceeded" /\ dataset # "incomplete") =>
                /\ dataset = "none" <=> engine = "none"
                /\ dataset = "insufficient_warmup" => engine = "missing_warmup"

\* A run whose range was covered at creation and did not change since gets its dataset,
\* and what a ready dataset and an accepted strategy hold is never invalid to the engine;
\* only the limits of the engine can still stop it.
AcceptedRunsSimulate ==
    phase = "failed" =>
        \/ changes > 0 /\ code \in {"insufficient_warmup", "gap_detected"}
        \/ code \in {"too_large", "resource_limit_exceeded"}

Rearrangements(S) == {p \in [S -> S] : \A i, j \in S : p[i] = p[j] => i = j}

\* The order in which rules are submitted is forgotten: the canonical rules, and so the
\* fingerprint idempotent replays are compared by, are those of every permutation, and the
\* engine asks them in exactly that order.
OrderIsForgotten ==
    (phase # "submitted" /\ rules # <<>>) =>
        /\ EngineOrder(rules) = rules
        /\ \A p \in Rearrangements(DOMAIN request.rules) :
            Canonical([i \in DOMAIN request.rules |-> request.rules[p[i]]]) = rules

\* What one part of the program has accepted no later part refuses, unless the candles
\* have changed in between or a limit of the engine applies.
AcceptedStaysAccepted == TypeOK /\ JudgesAgree /\ AcceptedRunsSimulate /\ OrderIsForgotten
=============================================================================
