-------------------------- MODULE SimulationEngine --------------------------
(***************************************************************************)
(* The historical simulation engines, candle by candle: the fixed horizon  *)
(* engine (historical_analysis/engine.py, versions 1 and 2) and the engine *)
(* with configurable exits (configurable_engine.py, versions 1 and 2), on  *)
(* input both have validated (see AnalysisInputs).                         *)
(*                                                                         *)
(* One action is one turn of the loop over the analysis candles.  Money,   *)
(* prices and rates are integers scaled by Scale; a quotient is rounded    *)
(* down where Decimal keeps 50 digits.                                     *)
(***************************************************************************)
EXTENDS Integers, Sequences, FiniteSets

CONSTANTS
    Strategies,     \* what a run may ask for: [engine, direction, stop, take, rsi, hold]
    Shapes,         \* the candles: [open, high, low, close]
    Analysis,       \* number of analysis candles of the dataset
    Scale,          \* the integer that stands for 1
    InitialEquity,  \* INITIAL_EQUITY
    Slippage,       \* SLIPPAGE_RATE, of entry and exit alike
    Fee             \* FEE_RATE, per side

VARIABLES
    strategy,   \* the engine version and the rules of this run
    index,      \* analysis candles processed
    candle,     \* the candle processed last
    relation,   \* how the indicator stood to its threshold at that candle
    book,       \* [active, pending, trades, equity]
    curve,      \* the equity series: [point, peak, worst drawdown]
    counts,     \* the signals seen, and those not executed by reason
    status      \* "running", then "success" or "failed"

vars == <<strategy, index, candle, relation, book, curve, counts, status>>

Relations == {"below", "equal", "above"}
Legacy == strategy.engine \in {"fixed_v1", "configurable_v1"}
Configurable == strategy.engine \in {"configurable_v1", "configurable_v2"}
\* configurable positions are long whatever the signal
Long == Configurable \/ strategy.direction = "cross_above"

Flat == [sequence |-> 0, signal |-> 0, entry |-> 0, exit |-> 0, before |-> 0,
         raw |-> 0, fill |-> 0]
Reasons == {"overlapping", "insufficient_forward_window", "entry_unavailable",
            "equity_exhausted"}

Greater(a, b) == IF a > b THEN a ELSE b
Multiply(a, b) == (a * b) \div Scale
Divide(a, b) == (a * Scale) \div b

\* Assumed of the constants by the module that composes this one: validated candles, rules
\* AnalysisInputs lets through, the six candles of HOLDING_CANDLES scaled down to two or
\* more, and prices large enough that no fill is rounded to nothing.
EngineAssumption ==
    /\ Scale \in Nat \ {0} /\ InitialEquity \in Nat \ {0} /\ Analysis \in Nat
    /\ Slippage \in 0..Scale /\ Fee \in Nat
    /\ Strategies \subseteq
          [engine : {"fixed_v1", "fixed_v2", "configurable_v1", "configurable_v2"},
           direction : {"cross_above", "cross_below"}, stop : Nat, take : Nat,
           rsi : BOOLEAN, hold : Nat \ {0}]
    /\ \A s \in Strategies : s.engine = "fixed_v1" => s.hold > 1
    /\ Shapes \subseteq [open : Nat, high : Nat, low : Nat, close : Nat]
    /\ \A c \in Shapes : Multiply(c.open, Scale - Slippage) > 0

Init ==
    /\ strategy \in Strategies
    /\ index = 0
    /\ candle \in Shapes
    /\ relation \in Relations
    /\ book = [active |-> Flat, pending |-> Flat, trades |-> <<>>, equity |-> InitialEquity]
    /\ curve = [point |-> InitialEquity, peak |-> InitialEquity, worst |-> 0]
    /\ counts = [r \in Reasons \union {"signals"} |-> 0]
    /\ status = "running"

-----------------------------------------------------------------------------
(* Positions and money *)

\* crosses: equality belongs to the side the crossing starts from
Crosses(direction, before, now) ==
    IF direction = "cross_above" THEN before # "above" /\ now = "above"
                                 ELSE before # "below" /\ now = "below"

\* a loss is capped at the allocated equity
Net(before, rate) == Greater(0, before + Multiply(before, Greater(-Scale, rate)))

\* return of a position that is closed at price, with slippage and both fees
RealizedRate(p, price) ==
    IF Long
    THEN Divide(Multiply(price, Scale - Slippage), p.fill) - Scale - 2 * Fee
    ELSE Scale - Divide(Multiply(price, Scale + Slippage), p.fill) - 2 * Fee
\* return of a position that is still open, marked at price
MarkedRate(p, price) ==
    (IF Long THEN Divide(price, p.fill) - Scale ELSE Scale - Divide(price, p.fill)) - Fee

\* _mark_to_market_equity: version 1 marks as if it closed here
MarkEquity(p, price) ==
    Net(p.before, IF Legacy THEN RealizedRate(p, price) ELSE MarkedRate(p, price))

Opened(p, c) ==
    [p EXCEPT !.raw = c.open,
              !.fill = Multiply(c.open, IF Long THEN Scale + Slippage ELSE Scale - Slippage)]

Outcome(before, after) ==
    IF after > before THEN "win" ELSE IF after < before THEN "loss" ELSE "flat"

\* _close_trade
ClosedTrade(p, i, decision) ==
    LET after == Net(p.before, RealizedRate(p, decision.price))
    IN [sequence |-> p.sequence, status |-> "closed", signal |-> p.signal,
        entry |-> p.entry, exit |-> i, raw |-> p.raw, before |-> p.before,
        after |-> after, outcome |-> Outcome(p.before, after),
        reason |-> decision.reason, basis |-> decision.basis, price |-> decision.price]

\* _mark_to_market_trade at the last candle of the range
MarkedTrade(p, i, c) ==
    [sequence |-> p.sequence, status |-> "open_at_end", signal |-> p.signal,
     entry |-> p.entry, exit |-> i, raw |-> p.raw, before |-> p.before,
     after |-> Net(p.before, MarkedRate(p, c.close)), outcome |-> "none",
     reason |-> "none", basis |-> "none", price |-> c.close]

-----------------------------------------------------------------------------
(* One candle *)

StopLevel(p) == Multiply(p.raw, Scale - strategy.stop)
TakeLevel(p) == Multiply(p.raw, Scale + strategy.take)
NoExit == [reason |-> "none", basis |-> "none", price |-> 0]
AtClose(reason, c) ==
    [reason |-> reason, basis |-> "confirmed_candle_close", price |-> c.close]

GapsThroughStop(p, c) == strategy.stop > 0 /\ c.open < StopLevel(p)
TouchesStop(p, c) == strategy.stop > 0 /\ c.low <= StopLevel(p)
TouchesTake(p, c) == strategy.take > 0 /\ c.high >= TakeLevel(p)

StopExit(p, c) ==
    IF GapsThroughStop(p, c)
    THEN [reason |-> "stop_loss_percent", basis |-> "gap_open", price |-> c.open]
    ELSE [reason |-> "stop_loss_percent", basis |-> "stop_loss_level",
          price |-> StopLevel(p)]
TakeExit(p) ==
    [reason |-> "take_profit_percent", basis |-> "take_profit_level", price |-> TakeLevel(p)]

\* Mutant: take profit is looked at first
ExitDecisionsTakeFirst(p, i, c) ==
    IF TouchesTake(p, c) THEN {TakeExit(p)}
    ELSE IF TouchesStop(p, c) THEN {StopExit(p, c)}
    ELSE (IF strategy.rsi THEN {AtClose("rsi_threshold_cross", c)} ELSE {})
         \union (IF i - p.entry + 1 >= strategy.hold
                 THEN {AtClose("max_holding_candles", c)} ELSE {NoExit})
\* _exit_decision: the rules in their fixed order.  Whether the RSI crosses is free
\* here; it is read only when neither price rule has fired.
ExitDecisions(p, i, c) ==
    IF TouchesStop(p, c) THEN {StopExit(p, c)}
    ELSE IF TouchesTake(p, c) THEN {TakeExit(p)}
    ELSE (IF strategy.rsi THEN {AtClose("rsi_threshold_cross", c)} ELSE {})
         \union (IF i - p.entry + 1 >= strategy.hold
                 THEN {AtClose("max_holding_candles", c)} ELSE {NoExit})

\* what closes the active position at candle i
Decisions(b, i, c) ==
    IF b.active = Flat THEN {NoExit}
    ELSE IF Configurable THEN ExitDecisions(b.active, i, c)
    ELSE IF b.active.exit = i THEN {AtClose("max_holding_candles", c)}
    ELSE {NoExit}

AfterExit(b, i, decision) ==
    IF decision = NoExit THEN b
    ELSE LET trade == ClosedTrade(b.active, i, decision)
         IN [b EXCEPT !.active = Flat, !.trades = Append(@, trade), !.equity = trade.after]

AfterEntry(b, i, c) ==
    IF b.pending # Flat /\ b.pending.entry = i
    THEN [b EXCEPT !.active = Opened(b.pending, c), !.pending = Flat]
    ELSE b

\* the fixed engine closes before it opens, the configurable one opens first and may
\* close the position it has just opened
Books(i, c) ==
    IF Configurable
    THEN {AfterExit(AfterEntry(book, i, c), i, d) : d \in Decisions(AfterEntry(book, i, c), i, c)}
    ELSE {AfterEntry(AfterExit(book, i, d), i, c) : d \in Decisions(book, i, c)}

\* the branches that raise calculation_invariant
Broken(i) ==
    \/ book.pending # Flat /\ book.pending.entry < i
    \/ /\ book.pending # Flat /\ book.pending.entry = i /\ book.active # Flat
       /\ Configurable \/ book.active.exit # i
    \/ book.active # Flat /\ book.active.exit \in 1..(i - 1)

PointOf(b, c) == IF b.active = Flat THEN b.equity ELSE MarkEquity(b.active, c.close)

CurveWith(point) ==
    LET peak == Greater(curve.peak, point)
        drawdown == Divide(point, peak) - Scale
    IN [point |-> point, peak |-> peak,
        worst |-> IF drawdown < curve.worst THEN drawdown ELSE curve.worst]

\* Mutant: a signal is admitted without asking for its exit candle
RefusalLate(b, i) ==
    IF i + 1 > Analysis THEN "entry_unavailable"
    ELSE IF b.active # Flat \/ b.pending # Flat THEN "overlapping"
    ELSE IF b.equity <= 0 THEN "equity_exhausted"
    ELSE "none"
\* why a signal at candle i opens no position.  Version 1 wants the whole holding
\* window inside the range, version 2 only the entry candle.
Refusal(b, i) ==
    IF Legacy /\ i + strategy.hold > Analysis THEN "insufficient_forward_window"
    ELSE IF ~Legacy /\ i + 1 > Analysis THEN "entry_unavailable"
    ELSE IF b.active # Flat \/ b.pending # Flat THEN "overlapping"
    ELSE IF b.equity <= 0 THEN "equity_exhausted"
    ELSE "none"

\* _PendingTrade: only version 1 of the fixed engine schedules the exit
PendingTrade(b, i) ==
    [Flat EXCEPT !.sequence = Len(b.trades) + 1, !.signal = i, !.entry = i + 1,
                 !.exit = IF strategy.engine = "fixed_v1" THEN i + strategy.hold ELSE 0,
                 !.before = b.equity]

Fail ==
    /\ status' = "failed"
    /\ UNCHANGED <<strategy, index, candle, relation, book, curve, counts>>

\* the observation of a candle at which the indicator stands at side
Triggers(side) == Crosses(strategy.direction, relation, side)

\* the turn of the loop for candle c
Advance(i, c, side) ==
    LET triggered == Triggers(side)
    IN /\ \E b \in Books(i, c) :
            LET refusal == Refusal(b, i)
            IN /\ curve' = CurveWith(PointOf(b, c))
               /\ book' = IF triggered /\ refusal = "none"
                          THEN [b EXCEPT !.pending = PendingTrade(b, i)] ELSE b
               /\ counts' =
                    [k \in DOMAIN counts |->
                        IF triggered /\ k \in {"signals", refusal}
                        THEN counts[k] + 1 ELSE counts[k]]
       /\ index' = i
       /\ candle' = c
       /\ relation' = side
       /\ UNCHANGED <<strategy, status>>

Candle(c, side) ==
    /\ status = "running" /\ index < Analysis
    /\ IF Broken(index + 1) THEN Fail ELSE Advance(index + 1, c, side)

\* the position that is open at the end is marked, not closed
Finished(b) ==
    LET trade == MarkedTrade(b.active, index, candle)
    IN [b EXCEPT !.active = Flat, !.trades = Append(@, trade), !.equity = trade.after]

Finish ==
    /\ status = "running" /\ index = Analysis
    /\ IF book.pending # Flat \/ (Legacy /\ book.active # Flat) THEN Fail
       ELSE /\ book' = IF book.active = Flat THEN book ELSE Finished(book)
            /\ status' = "success"
            /\ UNCHANGED <<strategy, index, candle, relation, curve, counts>>

Next ==
    \/ \E c \in Shapes, side \in Relations : Candle(c, side)
    \/ Finish

Spec == Init /\ [][Next]_vars

-----------------------------------------------------------------------------
(* The summary of a result *)

Closed == {n \in DOMAIN book.trades : book.trades[n].status = "closed"}
OpenAtEnd == {n \in DOMAIN book.trades : book.trades[n].status = "open_at_end"}
WithOutcome(o) == {n \in DOMAIN book.trades : book.trades[n].outcome = o}
ClosedCount == Cardinality(Closed)
OpenAtEndCount == Cardinality(OpenAtEnd)
OutcomeCount(o) == Cardinality(WithOutcome(o))
RefusedCount ==
    counts["overlapping"] + counts["insufficient_forward_window"]
        + counts["entry_unavailable"] + counts["equity_exhausted"]

-----------------------------------------------------------------------------
(* Properties *)

Positions == {book.active, book.pending} \ {Flat}
TradeStatuses == {"closed", "open_at_end"}

TypeOK ==
    /\ strategy \in Strategies
    /\ index \in 0..Analysis
    /\ candle \in Shapes
    /\ relation \in Relations
    /\ \A p \in Positions : p.signal \in 1..Analysis /\ p.before \in Nat
    /\ \A t \in DOMAIN book.trades : book.trades[t].status \in TradeStatuses
    /\ book.equity \in Nat
    /\ counts \in [Reasons \union {"signals"} -> 0..Analysis]
    /\ status \in {"running", "success", "failed"}

\* No legal input makes the engine stop with calculation_invariant: no entry is skipped,
\* no position is opened on top of another, no scheduled exit is missed, and a version 1
\* run ends without a position (the raises of _simulate and _simulate_configurable).
NeverAborts == status # "failed"

\* Every signal is counted once: it became a trade, is still pending or open, or was
\* refused for one reason; and the outcomes of the summary add up to the closed trades.
SignalsAreAccounted ==
    /\ counts["signals"] = Len(book.trades) + (IF book.active = Flat THEN 0 ELSE 1)
                           + (IF book.pending = Flat THEN 0 ELSE 1) + RefusedCount
    /\ ClosedCount + OpenAtEndCount = Len(book.trades)
    /\ OutcomeCount("win") + OutcomeCount("loss") + OutcomeCount("flat") = ClosedCount
    /\ OpenAtEndCount = 0 \/ (OpenAtEndCount = 1 /\ ~Legacy /\ status = "success")

\* One position at a time, entered on the candle after its signal, with all of the equity
\* the previous one left, and never with none; a signal at the close a position exits at
\* may open the next one.
TradesFollowEachOther ==
    /\ \A n \in DOMAIN book.trades :
        LET t == book.trades[n]
        IN /\ t.sequence = n
           /\ t.entry = t.signal + 1 /\ t.exit >= t.entry
           /\ t.before > 0
           /\ t.before = IF n = 1 THEN InitialEquity ELSE book.trades[n - 1].after
           /\ n > 1 => /\ book.trades[n - 1].status = "closed"
                       /\ t.signal >= book.trades[n - 1].exit
    /\ \A p \in Positions : p.before = book.equity /\ p.sequence = Len(book.trades) + 1

\* The equity series ends at the final equity: the last point of a flat account is its
\* equity, and the mark of a position open at the end is the value the report ends with.
\* The equity never falls below zero, nor the drawdown below minus one.
CurveEndsAtEquity ==
    /\ book.active = Flat => curve.point = book.equity
    /\ curve.point >= 0 /\ curve.peak >= InitialEquity
    /\ curve.worst \in -Scale..0

\* The books balance, whatever signals, exits and gaps a run meets: the engine never
\* aborts, and signals, trades and equity account for each other.
BooksBalance ==
    /\ TypeOK
    /\ NeverAborts
    /\ SignalsAreAccounted
    /\ TradesFollowEachOther
    /\ CurveEndsAtEquity

\* A position is held through a candle only if none of its rules fired on it, so it is
\* never held longer than its limit; and on a candle that touches both price rules the
\* stop loss wins, at the level or at the open below it.
ExitsAreNotMissed ==
    /\ (Configurable /\ book.active # Flat) =>
        /\ ~TouchesStop(book.active, candle) /\ ~TouchesTake(book.active, candle)
        /\ index - book.active.entry + 1 < strategy.hold
    /\ \A n \in DOMAIN book.trades :
        LET t == book.trades[n]
        IN (Configurable /\ t.exit = index /\ t.status = "closed") =>
            /\ t.exit - t.entry < strategy.hold
            /\ TouchesStop(t, candle) =>
                /\ t.reason = "stop_loss_percent"
                /\ t.price <= StopLevel(t)
            /\ t.reason = "max_holding_candles" => t.exit - t.entry + 1 = strategy.hold

\* What docs/BACKTESTING.md says of the current fixed engine: a position closes on its
\* sixth held candle when that candle is available.
FixedExitHappens ==
    (strategy.engine = "fixed_v2" /\ book.active # Flat) =>
        index - book.active.entry + 1 < strategy.hold

=============================================================================
