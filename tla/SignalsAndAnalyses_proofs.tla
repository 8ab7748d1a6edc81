----------------------- MODULE SignalsAndAnalyses_proofs -----------------------
(***************************************************************************)
(* Proofs about SignalsAndAnalyses: what the simulation engines make of    *)
(* any candles, rules, equity, fees and number of candles                  *)
(* (SimulationEngine); what the live evaluator makes of any presets,       *)
(* closes, periods and threshold, whatever disturbs it (SignalEvaluation); *)
(* what a reader gets of any report with any page size and preview limits  *)
(* (ReportViews); and that no later check of an analysis refuses what an   *)
(* earlier one has accepted (AnalysisInputs).                              *)
(***************************************************************************)
EXTENDS SignalsAndAnalyses, Ordering, Sequences, SequenceTheorems, FiniteSetTheorems, TLAPS

-----------------------------------------------------------------------------
(* Quotients of integers, as Multiply and Divide round them. *)

LEMMA Quotient ==
    ASSUME NEW a \in Int, NEW b \in Nat \ {0}
    PROVE  /\ a \div b \in Int
           /\ b * (a \div b) <= a
           /\ a < b * (a \div b) + b
OBVIOUS

LEMMA QuotientPositive ==
    ASSUME NEW a \in Nat, NEW b \in Nat \ {0}
    PROVE  a \div b \in Nat
BY Quotient

LEMMA QuotientGrows ==
    ASSUME NEW a \in Int, NEW c \in Int, a <= c, NEW b \in Nat \ {0}
    PROVE  a \div b <= c \div b
<1>1. /\ a \div b \in Int /\ c \div b \in Int
      /\ b * (a \div b) <= a
      /\ c < b * (c \div b) + b
      BY Quotient
<1>2. b * (a \div b) < b * (c \div b) + b
      BY <1>1
<1>3. QED
      BY <1>1, <1>2

LEMMA QuotientWhole ==
    ASSUME NEW s \in Nat, NEW b \in Nat \ {0}
    PROVE  (b * s) \div b = s
OBVIOUS

LEMMA ProductGrows ==
    ASSUME NEW a \in Nat, NEW c \in Nat, a <= c, NEW s \in Nat
    PROVE  a * s <= c * s
OBVIOUS

LEMMA ShareOf ==
    ASSUME NEW a \in Nat, NEW b \in Nat \ {0}, a <= b, NEW s \in Nat
    PROVE  (a * s) \div b \in 0 .. s
<1>1. a * s \in Nat /\ b * s \in Nat /\ a * s <= b * s
      BY ProductGrows
<1>2. (a * s) \div b \in Nat
      BY <1>1, QuotientPositive
<1>3. (a * s) \div b <= (b * s) \div b
      BY <1>1, QuotientGrows
<1>4. (b * s) \div b = s
      BY QuotientWhole
<1>5. QED
      BY <1>2, <1>3, <1>4

-----------------------------------------------------------------------------
(* Types *)

Engines == {"fixed_v1", "fixed_v2", "configurable_v1", "configurable_v2"}
Position == [sequence : Nat, signal : Nat, entry : Nat, exit : Nat, before : Nat,
             raw : Nat, fill : Nat]
ExitReasons == {"none", "stop_loss_percent", "take_profit_percent", "rsi_threshold_cross",
                "max_holding_candles"}
Bases == {"none", "confirmed_candle_close", "gap_open", "stop_loss_level",
          "take_profit_level"}
Decision == [reason : ExitReasons, basis : Bases, price : Int]
TradeRecord ==
    [sequence : Nat, status : Engine!TradeStatuses, signal : Nat, entry : Nat, exit : Nat,
     raw : Nat, before : Nat, after : Nat, outcome : {"win", "loss", "flat", "none"},
     reason : ExitReasons, basis : Bases, price : Int]
Book == [active : Position, pending : Position, trades : Seq(TradeRecord), equity : Nat]

LEMMA EngineBounds ==
    /\ Scale \in Nat \ {0} /\ InitialEquity \in Nat \ {0} /\ Analysis \in Nat
    /\ Slippage \in Nat /\ Slippage <= Scale /\ Fee \in Nat
BY EngineIsAssumed DEF Engine!EngineAssumption

LEMMA StrategyTypes ==
    ASSUME eStrategy \in Strategies
    PROVE  /\ eStrategy.engine \in Engines
           /\ eStrategy.direction \in {"cross_above", "cross_below"}
           /\ eStrategy.stop \in Nat /\ eStrategy.take \in Nat
           /\ eStrategy.rsi \in BOOLEAN /\ eStrategy.hold \in Nat \ {0}
           /\ eStrategy.engine = "fixed_v1" => eStrategy.hold > 1
BY EngineIsAssumed DEF Engine!EngineAssumption, Engines

LEMMA ShapeTypes ==
    ASSUME NEW c \in Shapes
    PROVE  /\ c.open \in Nat /\ c.high \in Nat /\ c.low \in Nat /\ c.close \in Nat
           /\ Engine!Multiply(c.open, Scale - Slippage) > 0
BY EngineIsAssumed DEF Engine!EngineAssumption

LEMMA FlatType == Engine!Flat \in Position /\ Engine!Flat.sequence = 0
BY DEF Engine!Flat, Position

LEMMA MultiplyType ==
    ASSUME NEW a \in Int, NEW b \in Int
    PROVE  Engine!Multiply(a, b) \in Int
BY EngineBounds, Quotient DEF Engine!Multiply

LEMMA DivideType ==
    ASSUME NEW a \in Int, NEW b \in Nat \ {0}
    PROVE  Engine!Divide(a, b) \in Int
BY EngineBounds, Quotient DEF Engine!Divide

LEMMA NetType ==
    ASSUME NEW before \in Nat, NEW rate \in Int
    PROVE  Engine!Net(before, rate) \in Nat
<1>1. Engine!Greater(-Scale, rate) \in Int
      BY EngineBounds DEF Engine!Greater
<1>2. Engine!Multiply(before, Engine!Greater(-Scale, rate)) \in Int
      BY <1>1, MultiplyType
<1>3. QED
      BY <1>2 DEF Engine!Net, Engine!Greater

\* A position that has been filled can be valued at any price.
LEMMA RatesType ==
    ASSUME NEW p \in Position, p.fill > 0, NEW price \in Int
    PROVE  /\ Engine!RealizedRate(p, price) \in Int
           /\ Engine!MarkedRate(p, price) \in Int
<1>1. p.fill \in Nat \ {0}
      BY DEF Position
<1>2. /\ Engine!Multiply(price, Scale - Slippage) \in Int
      /\ Engine!Multiply(price, Scale + Slippage) \in Int
  <2>1. Scale + Slippage \in Int /\ Scale - Slippage \in Int
        BY EngineBounds
  <2>2. QED
        BY <2>1, MultiplyType
<1>3. /\ Engine!Divide(Engine!Multiply(price, Scale - Slippage), p.fill) \in Int
      /\ Engine!Divide(Engine!Multiply(price, Scale + Slippage), p.fill) \in Int
      /\ Engine!Divide(price, p.fill) \in Int
      BY <1>1, <1>2, DivideType
<1>4. Engine!RealizedRate(p, price) \in Int
      BY <1>3, EngineBounds DEF Engine!RealizedRate
<1>5. Engine!MarkedRate(p, price) \in Int
      BY <1>3, EngineBounds DEF Engine!MarkedRate
<1>6. QED
      BY <1>4, <1>5

LEMMA MarkType ==
    ASSUME NEW p \in Position, p.fill > 0, NEW price \in Int
    PROVE  Engine!MarkEquity(p, price) \in Nat
BY RatesType, NetType DEF Engine!MarkEquity, Position

LEMMA ClosedType ==
    ASSUME NEW p \in Position, p.fill > 0, NEW i \in Nat, NEW d \in Decision
    PROVE  /\ Engine!ClosedTrade(p, i, d) \in TradeRecord
           /\ Engine!ClosedTrade(p, i, d).status = "closed"
           /\ Engine!ClosedTrade(p, i, d).outcome \in {"win", "loss", "flat"}
<1> DEFINE after == Engine!Net(p.before, Engine!RealizedRate(p, d.price))
<1>1. d.price \in Int /\ p.before \in Nat
      BY DEF Decision, Position
<1>2. after \in Nat
      BY <1>1, RatesType, NetType
<1>3. Engine!Outcome(p.before, after) \in {"win", "loss", "flat"}
      BY DEF Engine!Outcome
<1> HIDE DEF after
<1>4. Engine!ClosedTrade(p, i, d) =
        [sequence |-> p.sequence, status |-> "closed", signal |-> p.signal,
         entry |-> p.entry, exit |-> i, raw |-> p.raw, before |-> p.before,
         after |-> after, outcome |-> Engine!Outcome(p.before, after),
         reason |-> d.reason, basis |-> d.basis, price |-> d.price]
      BY DEF Engine!ClosedTrade, after
<1> HIDE DEF Engine!Outcome
<1>5. QED
      BY <1>1, <1>2, <1>3, <1>4 DEF TradeRecord, Position, Decision, Engine!TradeStatuses

LEMMA MarkedType ==
    ASSUME NEW p \in Position, p.fill > 0, NEW i \in Nat, NEW c \in Shapes
    PROVE  /\ Engine!MarkedTrade(p, i, c) \in TradeRecord
           /\ Engine!MarkedTrade(p, i, c).status = "open_at_end"
           /\ Engine!MarkedTrade(p, i, c).outcome = "none"
<1> DEFINE after == Engine!Net(p.before, Engine!MarkedRate(p, c.close))
<1>1. c.close \in Int /\ p.before \in Nat
      BY ShapeTypes DEF Position
<1>2. after \in Nat
      BY <1>1, RatesType, NetType
<1> HIDE DEF after
<1>3. Engine!MarkedTrade(p, i, c) =
        [sequence |-> p.sequence, status |-> "open_at_end", signal |-> p.signal,
         entry |-> p.entry, exit |-> i, raw |-> p.raw, before |-> p.before,
         after |-> after, outcome |-> "none",
         reason |-> "none", basis |-> "none", price |-> c.close]
      BY DEF Engine!MarkedTrade, after
<1>4. QED
      BY <1>1, <1>2, <1>3 DEF TradeRecord, Position, Engine!TradeStatuses, ExitReasons, Bases

LEMMA OpenedType ==
    ASSUME NEW p \in Position, NEW c \in Shapes
    PROVE  /\ Engine!Opened(p, c) \in Position
           /\ Engine!Opened(p, c).fill > 0
           /\ Engine!Opened(p, c).sequence = p.sequence /\ Engine!Opened(p, c).signal = p.signal
           /\ Engine!Opened(p, c).entry = p.entry /\ Engine!Opened(p, c).exit = p.exit
           /\ Engine!Opened(p, c).before = p.before
<1> DEFINE fill == Engine!Multiply(c.open, IF Engine!Long THEN Scale + Slippage ELSE Scale - Slippage)
<1>1. c.open \in Nat /\ Engine!Multiply(c.open, Scale - Slippage) > 0
      BY ShapeTypes
<1>2. Engine!Multiply(c.open, Scale - Slippage) <= Engine!Multiply(c.open, Scale + Slippage)
  <2>1. c.open * (Scale - Slippage) <= c.open * (Scale + Slippage)
    <3>1. Scale - Slippage \in Nat /\ Scale + Slippage \in Nat
          /\ Scale - Slippage <= Scale + Slippage
          BY EngineBounds
    <3>2. (Scale - Slippage) * c.open <= (Scale + Slippage) * c.open
          BY <1>1, <3>1, ProductGrows
    <3>3. QED
          BY <1>1, <3>1, <3>2
  <2>2. c.open * (Scale - Slippage) \in Int /\ c.open * (Scale + Slippage) \in Int
        BY <1>1, EngineBounds
  <2>3. QED
        BY <2>1, <2>2, EngineBounds, QuotientGrows DEF Engine!Multiply
<1>3. Engine!Multiply(c.open, Scale + Slippage) \in Int /\ Engine!Multiply(c.open, Scale - Slippage) \in Int
  <2>1. Scale + Slippage \in Int /\ Scale - Slippage \in Int /\ c.open \in Int
        BY <1>1, EngineBounds
  <2>2. QED
        BY <2>1, MultiplyType
<1>4. fill \in Nat /\ fill > 0
      BY <1>1, <1>2, <1>3
<1> HIDE DEF fill
<1>5. Engine!Opened(p, c) = [p EXCEPT !.raw = c.open, !.fill = fill]
      BY DEF Engine!Opened, fill
<1>6. QED
      BY <1>1, <1>4, <1>5 DEF Position

LEMMA LevelsType ==
    ASSUME eStrategy \in Strategies, NEW raw \in Nat
    PROVE  /\ Engine!Multiply(raw, Scale - eStrategy.stop) \in Int
           /\ Engine!Multiply(raw, Scale + eStrategy.take) \in Int
<1>1. Scale - eStrategy.stop \in Int /\ Scale + eStrategy.take \in Int /\ raw \in Int
      BY StrategyTypes, EngineBounds
<1>2. QED
      BY <1>1, MultiplyType

LEMMA NoExitType == Engine!NoExit \in Decision /\ Engine!NoExit.reason = "none"
BY DEF Engine!NoExit, Decision, ExitReasons, Bases

LEMMA AtCloseType ==
    ASSUME NEW reason \in ExitReasons, NEW c \in Shapes
    PROVE  Engine!AtClose(reason, c) \in Decision /\ Engine!AtClose(reason, c).reason = reason
BY ShapeTypes DEF Engine!AtClose, Decision, Bases

LEMMA StopExitType ==
    ASSUME eStrategy \in Strategies, NEW p \in Position, NEW c \in Shapes
    PROVE  /\ Engine!StopExit(p, c) \in Decision
           /\ Engine!StopExit(p, c).reason = "stop_loss_percent"
           /\ Engine!StopExit(p, c).price <= Engine!StopLevel(p)
<1>1. Engine!StopLevel(p) \in Int /\ c.open \in Int
      BY LevelsType, ShapeTypes DEF Engine!StopLevel, Position
<1>2. QED
      BY <1>1 DEF Engine!StopExit, Engine!GapsThroughStop, Decision, ExitReasons, Bases

LEMMA TakeExitType ==
    ASSUME eStrategy \in Strategies, NEW p \in Position
    PROVE  /\ Engine!TakeExit(p) \in Decision
           /\ Engine!TakeExit(p).reason = "take_profit_percent"
<1>1. Engine!TakeLevel(p) \in Int
      BY LevelsType DEF Engine!TakeLevel, Position
<1>2. QED
      BY <1>1 DEF Engine!TakeExit, Decision, ExitReasons, Bases

-----------------------------------------------------------------------------
(* What a book holds after candle i *)

LastTrade(b) == b.trades[Len(b.trades)]

\* The trades so far: closed, one after the other, each with the equity of the one before.
TradeInv(b, n, i) ==
    LET t == b.trades[n]
    IN  /\ t.sequence = n /\ t.status = "closed" /\ t.outcome \in {"win", "loss", "flat"}
        /\ t.entry = t.signal + 1 /\ t.exit >= t.entry /\ t.exit <= i
        /\ t.before > 0
        /\ t.before = IF n = 1 THEN InitialEquity ELSE b.trades[n - 1].after
        /\ n > 1 => t.signal >= b.trades[n - 1].exit

TradesInv(b, i) ==
    /\ \A n \in DOMAIN b.trades : TradeInv(b, n, i)
    /\ b.equity = IF b.trades = <<>> THEN InitialEquity ELSE LastTrade(b).after

\* A position, asked for or filled: the next trade, with all of the equity.
PositionInv(b, p) ==
    p # Engine!Flat =>
        /\ p.signal \in 1 .. Analysis /\ p.entry = p.signal + 1
        /\ p.before = b.equity /\ p.before > 0
        /\ p.sequence = Len(b.trades) + 1
        /\ b.trades # <<>> => LastTrade(b).exit <= p.signal
        /\ Engine!Legacy => p.signal + eStrategy.hold <= Analysis
        /\ p.exit = IF eStrategy.engine = "fixed_v1" THEN p.signal + eStrategy.hold ELSE 0

\* A position is held through candle i.
HeldThrough(p, i, c) ==
    /\ ~Engine!TouchesStop(p, c) /\ ~Engine!TouchesTake(p, c)
    /\ i - p.entry + 1 < eStrategy.hold

ActiveInv(b, i) ==
    /\ PositionInv(b, b.active)
    /\ b.active # Engine!Flat => b.active.entry <= i /\ b.active.fill > 0

\* The trades that end at candle i end for a good reason.
EndsWell(t, i, c) ==
    (Engine!Configurable /\ t.exit = i /\ t.status = "closed") =>
        /\ t.exit - t.entry < eStrategy.hold
        /\ Engine!TouchesStop(t, c)
               => t.reason = "stop_loss_percent" /\ t.price <= Engine!StopLevel(t)
        /\ t.reason = "max_holding_candles" => t.exit - t.entry + 1 = eStrategy.hold
EndWell(b, i, c) == \A n \in DOMAIN b.trades : EndsWell(b.trades[n], i, c)

LEMMA BookFields ==
    ASSUME NEW b \in Book
    PROVE  /\ b.active \in Position /\ b.pending \in Position
           /\ b.trades \in Seq(TradeRecord) /\ b.equity \in Nat
           /\ Len(b.trades) \in Nat /\ DOMAIN b.trades = 1 .. Len(b.trades)
           /\ \A n \in DOMAIN b.trades : b.trades[n] \in TradeRecord
           /\ b.trades # <<>> => Len(b.trades) \in DOMAIN b.trades
BY DEF Book

LEMMA ExitDecisionIs ==
    ASSUME eStrategy \in Strategies, NEW p \in Position, NEW i \in Nat, NEW c \in Shapes,
           NEW d \in Engine!ExitDecisions(p, i, c)
    PROVE  /\ d \in Decision
           /\ d = Engine!NoExit => HeldThrough(p, i, c)
           /\ Engine!TouchesStop(p, c)
                  => d.reason = "stop_loss_percent" /\ d.price <= Engine!StopLevel(p)
           /\ d.reason = "max_holding_candles" => i - p.entry + 1 >= eStrategy.hold
<1>1. CASE Engine!TouchesStop(p, c)
  <2>1. d = Engine!StopExit(p, c)
        BY <1>1 DEF Engine!ExitDecisions
  <2>2. QED
        BY <1>1, <2>1, StopExitType, NoExitType
<1>2. CASE ~Engine!TouchesStop(p, c) /\ Engine!TouchesTake(p, c)
  <2>1. d = Engine!TakeExit(p)
        BY <1>2 DEF Engine!ExitDecisions
  <2>2. QED
        BY <1>2, <2>1, TakeExitType, NoExitType
<1>3. CASE ~Engine!TouchesStop(p, c) /\ ~Engine!TouchesTake(p, c)
  <2>1. \/ d = Engine!AtClose("rsi_threshold_cross", c)
        \/ d = Engine!AtClose("max_holding_candles", c) /\ i - p.entry + 1 >= eStrategy.hold
        \/ d = Engine!NoExit /\ ~(i - p.entry + 1 >= eStrategy.hold)
        BY <1>3 DEF Engine!ExitDecisions
  <2>2. p.entry \in Nat /\ eStrategy.hold \in Nat
        BY StrategyTypes DEF Position
  <2>3. "rsi_threshold_cross" \in ExitReasons /\ "max_holding_candles" \in ExitReasons
        BY DEF ExitReasons
  <2>4. CASE d = Engine!AtClose("rsi_threshold_cross", c)
        BY <1>3, <2>3, <2>4, AtCloseType, NoExitType
  <2>5. CASE d = Engine!AtClose("max_holding_candles", c) /\ i - p.entry + 1 >= eStrategy.hold
        BY <1>3, <2>3, <2>5, AtCloseType, NoExitType
  <2>6. CASE d = Engine!NoExit /\ ~(i - p.entry + 1 >= eStrategy.hold)
        BY <1>3, <2>2, <2>6, NoExitType DEF HeldThrough
  <2>7. QED
        BY <2>1, <2>4, <2>5, <2>6
<1>4. QED
      BY <1>1, <1>2, <1>3

LEMMA TradesLater ==
    ASSUME NEW b \in Book, NEW i \in Nat, NEW j \in Nat, i <= j, TradesInv(b, i)
    PROVE  TradesInv(b, j)
<1>1. \A n \in DOMAIN b.trades : b.trades[n].exit \in Nat
      BY BookFields DEF TradeRecord
<1>2. QED
      BY <1>1 DEF TradesInv, TradeInv

\* Closing the active position.
LEMMA ExitKeeps ==
    ASSUME eStrategy \in Strategies, NEW b \in Book, NEW i \in Nat, NEW d \in Decision,
           TradesInv(b, i), ActiveInv(b, i), b.active # Engine!Flat, d # Engine!NoExit
    PROVE  LET e == Engine!AfterExit(b, i, d)
               t == Engine!ClosedTrade(b.active, i, d)
           IN  /\ e \in Book /\ TradesInv(e, i)
               /\ e.active = Engine!Flat /\ e.pending = b.pending
               /\ e.trades = Append(b.trades, t)
               /\ Len(e.trades) = Len(b.trades) + 1
<1> DEFINE t == Engine!ClosedTrade(b.active, i, d)
<1> DEFINE e == Engine!AfterExit(b, i, d)
<1> DEFINE m == Len(b.trades)
<1>1. /\ b.active \in Position /\ b.active.fill > 0 /\ b.active.entry <= i
      /\ m \in Nat /\ b.trades \in Seq(TradeRecord)
      BY BookFields DEF ActiveInv
<1>2. /\ t \in TradeRecord /\ t.status = "closed" /\ t.outcome \in {"win", "loss", "flat"}
      BY <1>1, ClosedType
<1>3. /\ t.sequence = b.active.sequence /\ t.signal = b.active.signal
      /\ t.entry = b.active.entry /\ t.exit = i /\ t.before = b.active.before
      BY DEF Engine!ClosedTrade
<1> HIDE DEF t
<1>4. e = [b EXCEPT !.active = Engine!Flat, !.trades = Append(b.trades, t), !.equity = t.after]
      BY DEF Engine!AfterExit, t
<1> HIDE DEF e
<1>5. t.after \in Nat
      BY <1>2 DEF TradeRecord
<1>6. /\ e.active = Engine!Flat /\ e.pending = b.pending /\ e.trades = Append(b.trades, t)
      /\ e.equity = t.after
      BY <1>4 DEF Book
<1>7. /\ Append(b.trades, t) \in Seq(TradeRecord)
      /\ Len(Append(b.trades, t)) = m + 1
      /\ \A n \in 1 .. m : Append(b.trades, t)[n] = b.trades[n]
      /\ Append(b.trades, t)[m + 1] = t
      BY <1>1, <1>2
<1>8. e \in Book
      BY <1>4, <1>5, <1>7, FlatType DEF Book
<1>9. /\ b.active.signal \in 1 .. Analysis /\ b.active.entry = b.active.signal + 1
      /\ b.active.before = b.equity /\ b.active.before > 0
      /\ b.active.sequence = m + 1
      /\ b.trades # <<>> => LastTrade(b).exit <= b.active.signal
      BY DEF ActiveInv, PositionInv
<1>10. \A n \in 1 .. m : TradeInv(b, n, i)
      BY <1>1 DEF TradesInv
<1>11. ASSUME NEW n \in 1 .. m PROVE TradeInv(e, n, i)
  <2>1. e.trades[n] = b.trades[n] /\ (n # 1 => e.trades[n - 1] = b.trades[n - 1])
        BY <1>1, <1>6, <1>7
  <2>2. QED
        BY <1>1, <1>10, <2>1 DEF TradeInv
<1>12. TradeInv(e, m + 1, i)
  <2>1. e.trades[m + 1] = t /\ (m # 0 => e.trades[m + 1 - 1] = b.trades[m])
        BY <1>1, <1>6, <1>7
  <2>2. b.equity = IF m = 0 THEN InitialEquity ELSE b.trades[m].after
        BY <1>1 DEF TradesInv, LastTrade
  <2>3. m # 0 => b.trades[m].exit <= b.active.signal
        BY <1>1, <1>9 DEF LastTrade
  <2>4. m # 0 => b.trades[m].exit \in Nat
    <3>1. m # 0 => b.trades[m] \in TradeRecord
          BY <1>1, BookFields
    <3>2. QED
          BY <3>1 DEF TradeRecord
  <2>5. /\ t.sequence = m + 1 /\ t.entry = t.signal + 1 /\ t.exit = i /\ t.exit >= t.entry
        /\ t.before > 0 /\ t.before = b.equity /\ t.signal = b.active.signal
        BY <1>1, <1>3, <1>9 DEF Position
  <2>6. m # 0 => t.signal >= b.trades[m].exit
        BY <1>1, <2>3, <2>4, <2>5 DEF Position
  <2>7. t.before = IF m + 1 = 1 THEN InitialEquity ELSE b.trades[m].after
        BY <1>1, <2>2, <2>5
  <2>8. m + 1 = 1 <=> m = 0
        BY <1>1
  <2>9. QED
        BY <1>1, <1>2, <2>1, <2>5, <2>6, <2>7, <2>8 DEF TradeInv
<1>13. DOMAIN e.trades = 1 .. (m + 1) /\ Len(e.trades) = m + 1
      BY <1>1, <1>6, <1>7
<1>14. TradesInv(e, i)
  <2>1. \A n \in DOMAIN e.trades : TradeInv(e, n, i)
        BY <1>1, <1>11, <1>12, <1>13
  <2>2. e.trades # <<>> /\ LastTrade(e) = t
        BY <1>1, <1>6, <1>7, <1>13 DEF LastTrade
  <2>3. QED
        BY <1>6, <2>1, <2>2 DEF TradesInv
<1>15. QED
      BY <1>6, <1>8, <1>13, <1>14 DEF e, t

\* Filling the pending position.
LEMMA EntryKeeps ==
    ASSUME eStrategy \in Strategies, NEW b \in Book, NEW i \in Nat, NEW c \in Shapes,
           TradesInv(b, i), PositionInv(b, b.pending), b.pending # Engine!Flat,
           b.pending.entry = i
    PROVE  LET e == Engine!AfterEntry(b, i, c)
           IN  /\ e \in Book /\ TradesInv(e, i) /\ ActiveInv(e, i)
               /\ e.active # Engine!Flat /\ e.pending = Engine!Flat
               /\ e.active.entry = i /\ e.active.exit = b.pending.exit
               /\ e.trades = b.trades
<1> DEFINE p == Engine!Opened(b.pending, c)
<1> DEFINE e == Engine!AfterEntry(b, i, c)
<1>1. b.pending \in Position
      BY BookFields
<1>2. /\ p \in Position /\ p.fill > 0
      /\ p.sequence = b.pending.sequence /\ p.signal = b.pending.signal
      /\ p.entry = b.pending.entry /\ p.exit = b.pending.exit
      /\ p.before = b.pending.before
      BY <1>1, OpenedType
<1> HIDE DEF p
<1>3. e = [b EXCEPT !.active = p, !.pending = Engine!Flat]
      BY DEF Engine!AfterEntry, p
<1> HIDE DEF e
<1>4. /\ e \in Book /\ e.active = p /\ e.pending = Engine!Flat /\ e.trades = b.trades
      /\ e.equity = b.equity
      BY <1>2, <1>3, FlatType DEF Book
<1>5. p # Engine!Flat
  <2>1. b.pending.sequence = Len(b.trades) + 1 /\ Len(b.trades) \in Nat
        BY BookFields DEF PositionInv
  <2>2. QED
        BY <1>2, <2>1, FlatType
<1>6. TradesInv(e, i)
      BY <1>4 DEF TradesInv, TradeInv, LastTrade
<1>7. PositionInv(e, p)
      BY <1>2, <1>4 DEF PositionInv, LastTrade
<1>8. i <= i
      OBVIOUS
<1>9. ActiveInv(e, i)
      BY <1>2, <1>4, <1>7, <1>8 DEF ActiveInv
<1>10. QED
      BY <1>2, <1>4, <1>5, <1>6, <1>9 DEF e

-----------------------------------------------------------------------------
(* One turn of the loop *)

\* A pending position is of the last candle, and nothing is held beside it.
PendingInv(b, i) ==
    /\ PositionInv(b, b.pending)
    /\ b.pending # Engine!Flat
           => b.pending.signal = i /\ b.pending.entry <= Analysis /\ b.active = Engine!Flat

\* The book after candle i, the last of them c.
BookInv(b, i, c) ==
    /\ b \in Book /\ TradesInv(b, i) /\ PendingInv(b, i) /\ ActiveInv(b, i)
    /\ b.active # Engine!Flat =>
          /\ eStrategy.engine = "fixed_v1" => b.active.exit > i
          /\ Engine!Configurable => HeldThrough(b.active, i, c)
    /\ EndWell(b, i, c)

\* How many signals became a trade or a position.
Taken(b) == Len(b.trades) + (IF b.active = Engine!Flat THEN 0 ELSE 1)
                          + (IF b.pending = Engine!Flat THEN 0 ELSE 1)

LEMMA NotConfigurable ==
    ASSUME eStrategy \in Strategies
    PROVE  /\ Engine!Configurable => eStrategy.engine # "fixed_v1"
           /\ ~Engine!Configurable => eStrategy.engine \in {"fixed_v1", "fixed_v2"}
BY StrategyTypes DEF Engine!Configurable, Engines

LEMMA Unbroken ==
    ASSUME eStrategy \in Strategies, NEW i \in Nat, NEW c, BookInv(eBook, i, c)
    PROVE  ~Engine!Broken(i + 1)
<1>1. eBook \in Book /\ eBook.active \in Position /\ eBook.pending \in Position
      BY BookFields DEF BookInv
<1>2. eBook.pending # Engine!Flat => eBook.pending.entry = i + 1 /\ eBook.active = Engine!Flat
      BY DEF BookInv, PendingInv, PositionInv
<1>3. eBook.active # Engine!Flat => eBook.active.exit \notin 1 .. i
  <2>1. ASSUME eBook.active # Engine!Flat PROVE eBook.active.exit \notin 1 .. i
    <3>1. eBook.active.exit = IF eStrategy.engine = "fixed_v1"
                             THEN eBook.active.signal + eStrategy.hold ELSE 0
          BY <2>1 DEF BookInv, ActiveInv, PositionInv
    <3>2. eStrategy.engine = "fixed_v1" => eBook.active.exit > i
          BY <2>1 DEF BookInv
    <3>3. QED
          BY <1>1, <3>1, <3>2 DEF Position
  <2>2. QED
        BY <2>1
<1>4. QED
  <2>1. ~(eBook.pending # Engine!Flat /\ eBook.pending.entry < i + 1)
        BY <1>2
  <2>2. ~(eBook.pending # Engine!Flat /\ eBook.active # Engine!Flat)
        BY <1>2
  <2>3. ~(eBook.active # Engine!Flat /\ eBook.active.exit \in 1 .. (i + 1 - 1))
        BY <1>3
  <2>4. QED
        BY <2>1, <2>2, <2>3 DEF Engine!Broken

\* The configurable engine: open, then close what one of the rules closes.
LEMMA ConfigurableTurn ==
    ASSUME eStrategy \in Strategies, Engine!Configurable, NEW i \in Nat, NEW old, NEW c \in Shapes,
           BookInv(eBook, i, old), NEW b \in Engine!Books(i + 1, c)
    PROVE  /\ BookInv(b, i + 1, c) /\ b.pending = Engine!Flat
           /\ Taken(b) = Taken(eBook)
<1> DEFINE j == i + 1
<1> DEFINE o == Engine!AfterEntry(eBook, j, c)
<1>0. j \in Nat /\ i <= j
      OBVIOUS
<1>1. PICK d \in Engine!Decisions(o, j, c) : b = Engine!AfterExit(o, j, d)
      BY DEF Engine!Books
<1>2. /\ eBook \in Book /\ TradesInv(eBook, j)
      /\ eBook.active \in Position /\ eBook.pending \in Position
      /\ Len(eBook.trades) \in Nat
      BY <1>0, TradesLater, BookFields DEF BookInv
<1>3. eStrategy.hold \in Nat /\ eStrategy.hold > 0
      BY StrategyTypes
<1>4. eStrategy.engine # "fixed_v1"
      BY NotConfigurable
<1>5. \A n \in DOMAIN eBook.trades : eBook.trades[n].exit < j
  <2>1. TAKE n \in DOMAIN eBook.trades
  <2>2. eBook.trades[n].exit \in Nat
        BY <1>2, BookFields DEF TradeRecord
  <2>3. eBook.trades[n].exit <= i
        BY DEF BookInv, TradesInv, TradeInv
  <2>4. QED
        BY <2>2, <2>3
<1>6. /\ o \in Book /\ TradesInv(o, j) /\ ActiveInv(o, j) /\ o.pending = Engine!Flat
      /\ o.trades = eBook.trades
      /\ o.active # Engine!Flat => j - o.active.entry + 1 <= eStrategy.hold
      /\ Taken(o) = Taken(eBook)
  <2>1. CASE eBook.pending # Engine!Flat
    <3>1. eBook.active = Engine!Flat /\ PositionInv(eBook, eBook.pending) /\ eBook.pending.entry = j
          BY <2>1 DEF BookInv, PendingInv, PositionInv
    <3>2. /\ o \in Book /\ TradesInv(o, j) /\ ActiveInv(o, j)
          /\ o.active # Engine!Flat /\ o.pending = Engine!Flat
          /\ o.active.entry = j
          /\ o.trades = eBook.trades
          BY <1>0, <1>2, <2>1, <3>1, EntryKeeps
    <3>3. j - o.active.entry + 1 <= eStrategy.hold
          BY <1>3, <3>2
    <3>4. Taken(o) = Taken(eBook)
          BY <1>2, <2>1, <3>1, <3>2 DEF Taken
    <3>5. QED
          BY <3>2, <3>3, <3>4
  <2>2. CASE eBook.pending = Engine!Flat
    <3>1. o = eBook
          BY <2>2 DEF Engine!AfterEntry
    <3>2. ActiveInv(eBook, j)
      <4>1. eBook.active.entry \in Nat
            BY <1>2 DEF Position
      <4>2. QED
            BY <4>1 DEF BookInv, ActiveInv
    <3>3. eBook.active # Engine!Flat => j - eBook.active.entry + 1 <= eStrategy.hold
      <4>1. eBook.active.entry \in Nat
            BY <1>2 DEF Position
      <4>2. eBook.active # Engine!Flat => i - eBook.active.entry + 1 < eStrategy.hold
            BY DEF BookInv, HeldThrough
      <4>3. QED
            BY <1>3, <4>1, <4>2
    <3>4. QED
          BY <1>2, <2>2, <3>1, <3>2, <3>3
  <2>3. QED
        BY <2>1, <2>2
<1> HIDE DEF o
<1>7. o.active \in Position /\ Len(o.trades) \in Nat
      BY <1>6, BookFields
<1>8. CASE o.active = Engine!Flat
  <2>1. b = o
        BY <1>1, <1>8 DEF Engine!Decisions, Engine!AfterExit
  <2>2. EndWell(o, j, c)
        BY <1>5, <1>6, <1>0 DEF EndWell, EndsWell
  <2>3. PendingInv(o, j)
        BY <1>6 DEF PendingInv, PositionInv
  <2>4. QED
        BY <1>6, <1>8, <2>1, <2>2, <2>3 DEF BookInv
<1>9. CASE o.active # Engine!Flat
  <2>1. d \in Engine!ExitDecisions(o.active, j, c)
        BY <1>1, <1>9 DEF Engine!Decisions
  <2>2. /\ d \in Decision
        /\ d = Engine!NoExit => HeldThrough(o.active, j, c)
        /\ Engine!TouchesStop(o.active, c) =>
              d.reason = "stop_loss_percent" /\ d.price <= Engine!StopLevel(o.active)
        /\ d.reason = "max_holding_candles" => j - o.active.entry + 1 >= eStrategy.hold
        BY <1>0, <1>7, <2>1, ExitDecisionIs
  <2>3. CASE d = Engine!NoExit
    <3>1. b = o
          BY <1>1, <2>3 DEF Engine!AfterExit
    <3>2. EndWell(o, j, c)
          BY <1>5, <1>6, <1>0 DEF EndWell, EndsWell
    <3>3. PendingInv(o, j)
          BY <1>6 DEF PendingInv, PositionInv
    <3>4. QED
          BY <1>4, <1>6, <2>2, <2>3, <3>1, <3>2, <3>3 DEF BookInv
  <2>4. CASE d # Engine!NoExit
    <3> DEFINE t == Engine!ClosedTrade(o.active, j, d)
    <3>1. /\ b \in Book /\ TradesInv(b, j) /\ b.active = Engine!Flat /\ b.pending = o.pending
          /\ b.trades = Append(o.trades, t)
          /\ Len(b.trades) = Len(o.trades) + 1
          BY <1>0, <1>1, <1>6, <1>9, <2>2, <2>4, ExitKeeps
    <3>2. PendingInv(b, j) /\ ActiveInv(b, j)
          BY <1>6, <3>1 DEF PendingInv, PositionInv, ActiveInv
    <3>3. Taken(b) = Taken(o)
          BY <1>6, <1>7, <1>9, <3>1 DEF Taken
    <3>4. EndsWell(t, j, c)
      <4>1. /\ t.exit = j /\ t.entry = o.active.entry /\ t.reason = d.reason
            /\ t.price = d.price /\ t.raw = o.active.raw
            BY DEF Engine!ClosedTrade
      <4>2. o.active.entry \in Nat
            BY <1>7 DEF Position
      <4>3. j - o.active.entry + 1 <= eStrategy.hold
            BY <1>6, <1>9
      <4>4. (Engine!TouchesStop(t, c) <=> Engine!TouchesStop(o.active, c)) /\ Engine!StopLevel(t) = Engine!StopLevel(o.active)
            BY <4>1 DEF Engine!TouchesStop, Engine!StopLevel
      <4>5. t.exit - t.entry < eStrategy.hold
            BY <1>0, <1>3, <4>1, <4>2, <4>3
      <4>6. t.reason = "max_holding_candles" => t.exit - t.entry + 1 = eStrategy.hold
            BY <1>0, <1>3, <2>2, <4>1, <4>2, <4>3
      <4> HIDE DEF t
      <4>7. Engine!TouchesStop(t, c)
                => t.reason = "stop_loss_percent" /\ t.price <= Engine!StopLevel(t)
            BY <2>2, <4>1, <4>4
      <4>8. QED
            BY <4>5, <4>6, <4>7 DEF EndsWell
    <3>5. EndWell(b, j, c)
      <4> HIDE DEF t
      <4>1. ASSUME NEW n \in DOMAIN b.trades PROVE EndsWell(b.trades[n], j, c)
        <5>1. \/ n \in DOMAIN o.trades /\ b.trades[n] = o.trades[n]
              \/ b.trades[n] = t
              BY <1>6, <1>7, <3>1, BookFields, <4>1
        <5>2. CASE n \in DOMAIN o.trades /\ b.trades[n] = o.trades[n]
              BY <5>2, <1>5, <1>6, <1>0 DEF EndsWell
        <5>3. QED
              BY <3>4, <5>1, <5>2
      <4>2. QED
            BY <4>1 DEF EndWell
    <3>6. QED
          BY <1>6, <3>1, <3>2, <3>3, <3>5 DEF BookInv
  <2>5. QED
        BY <2>3, <2>4
<1>10. QED
      BY <1>8, <1>9

\* The fixed engine: close at the scheduled candle, then open.
LEMMA FixedTurn ==
    ASSUME eStrategy \in Strategies, ~Engine!Configurable, NEW i \in Nat, NEW old, NEW c \in Shapes,
           BookInv(eBook, i, old), NEW b \in Engine!Books(i + 1, c)
    PROVE  /\ BookInv(b, i + 1, c) /\ b.pending = Engine!Flat
           /\ Taken(b) = Taken(eBook)
<1> DEFINE j == i + 1
<1>0. j \in Nat /\ i <= j
      OBVIOUS
<1>1. PICK d \in Engine!Decisions(eBook, j, c) : b = Engine!AfterEntry(Engine!AfterExit(eBook, j, d), j, c)
      BY DEF Engine!Books
<1> DEFINE o == Engine!AfterExit(eBook, j, d)
<1>2. /\ eBook \in Book /\ TradesInv(eBook, j)
      /\ eBook.active \in Position /\ eBook.pending \in Position
      /\ Len(eBook.trades) \in Nat
      BY <1>0, TradesLater, BookFields DEF BookInv
<1>3. eStrategy.hold \in Nat /\ (eStrategy.engine = "fixed_v1" => eStrategy.hold > 1)
      BY StrategyTypes
<1>4. ASSUME NEW e PROVE EndWell(e, j, c)
      BY DEF EndWell, EndsWell
<1>5. ActiveInv(eBook, j)
  <2>1. eBook.active.entry \in Nat
        BY <1>2 DEF Position
  <2>2. QED
        BY <2>1 DEF BookInv, ActiveInv
<1>6. /\ o \in Book /\ TradesInv(o, j) /\ ActiveInv(o, j)
      /\ o.pending = eBook.pending
      /\ o.active # Engine!Flat => o.active = eBook.active /\ o.trades = eBook.trades
                            /\ (eStrategy.engine = "fixed_v1" => o.active.exit > j)
      /\ (o.pending # Engine!Flat) => o = eBook
      /\ Taken(o) = Taken(eBook)
  <2>1. CASE d = Engine!NoExit
    <3>1. o = eBook
          BY <2>1 DEF Engine!AfterExit
    <3>2. ASSUME eBook.active # Engine!Flat, eStrategy.engine = "fixed_v1"
          PROVE  eBook.active.exit > j
      <4>1. eBook.active.exit > i /\ eBook.active.exit \in Nat
            BY <1>2, <3>2 DEF BookInv, Position
      <4>2. eBook.active.exit # j
        <5>1. SUFFICES ASSUME eBook.active.exit = j PROVE FALSE
              OBVIOUS
        <5>2. d = Engine!AtClose("max_holding_candles", c)
              BY <1>1, <3>2, <5>1 DEF Engine!Decisions
        <5>3. QED
              BY <2>1, <5>2 DEF Engine!NoExit, Engine!AtClose
      <4>3. QED
            BY <4>1, <4>2
    <3>3. QED
          BY <1>2, <1>5, <3>1, <3>2
  <2>2. CASE d # Engine!NoExit
    <3>1. eBook.active # Engine!Flat /\ d = Engine!AtClose("max_holding_candles", c)
          BY <1>1, <2>2 DEF Engine!Decisions
    <3>2. d \in Decision
          BY <3>1, AtCloseType DEF ExitReasons
    <3>3. /\ o \in Book /\ TradesInv(o, j) /\ o.active = Engine!Flat /\ o.pending = eBook.pending
          /\ Len(o.trades) = Len(eBook.trades) + 1
          BY <1>0, <1>2, <1>5, <2>2, <3>1, <3>2, ExitKeeps
    <3>4. ActiveInv(o, j)
          BY <3>3 DEF ActiveInv, PositionInv
    <3>5. eBook.pending = Engine!Flat
          BY <3>1 DEF BookInv, PendingInv
    <3>6. Taken(o) = Taken(eBook)
          BY <1>2, <3>1, <3>3, <3>5 DEF Taken
    <3>7. QED
          BY <3>3, <3>4, <3>5, <3>6
  <2>3. QED
        BY <2>1, <2>2
<1>7. b = Engine!AfterEntry(o, j, c)
      BY <1>1
<1> HIDE DEF o
<1>8. CASE o.pending = Engine!Flat
  <2>1. b = o
        BY <1>7, <1>8 DEF Engine!AfterEntry
  <2>2. PendingInv(o, j)
        BY <1>8 DEF PendingInv, PositionInv
  <2>3. QED
        BY <1>4, <1>6, <1>8, <2>1, <2>2 DEF BookInv
<1>9. CASE o.pending # Engine!Flat
  <2>1. o = eBook /\ eBook.pending # Engine!Flat
        BY <1>6, <1>9
  <2>2. eBook.active = Engine!Flat /\ PositionInv(eBook, eBook.pending) /\ eBook.pending.entry = j
        BY <2>1 DEF BookInv, PendingInv, PositionInv
  <2>3. /\ b \in Book /\ TradesInv(b, j) /\ ActiveInv(b, j)
        /\ b.active # Engine!Flat /\ b.pending = Engine!Flat
        /\ b.active.entry = j /\ b.active.exit = eBook.pending.exit
        /\ b.trades = eBook.trades
        BY <1>0, <1>2, <1>7, <2>1, <2>2, EntryKeeps
  <2>4. eStrategy.engine = "fixed_v1" => b.active.exit > j
    <3>1. ASSUME eStrategy.engine = "fixed_v1" PROVE b.active.exit > j
      <4>1. eBook.pending.exit = eBook.pending.signal + eStrategy.hold /\ eBook.pending.signal = i
            BY <2>1, <2>2, <3>1 DEF PositionInv, BookInv, PendingInv
      <4>2. QED
            BY <1>3, <2>3, <3>1, <4>1
    <3>2. QED
          BY <3>1
  <2>5. Taken(b) = Taken(eBook)
        BY <1>2, <2>1, <2>2, <2>3 DEF Taken
  <2>6. PendingInv(b, j)
        BY <2>3 DEF PendingInv, PositionInv
  <2>7. QED
        BY <1>4, <2>3, <2>4, <2>5, <2>6 DEF BookInv
<1>10. QED
      BY <1>8, <1>9

-----------------------------------------------------------------------------
(* The invariant of a run *)

CurveInv ==
    /\ eCurve \in [point : Nat, peak : Nat, worst : Int]
    /\ eCurve.peak >= InitialEquity /\ eCurve.worst \in -Scale .. 0
    /\ eCurve.point = Engine!PointOf(eBook, eCandle)

CountsInv ==
    /\ eCounts \in [Engine!Reasons \union {"signals"} -> 0 .. eIndex]
    /\ eCounts["signals"] = Taken(eBook) + Engine!RefusedCount

Runs ==
    /\ eStatus = "running" /\ eStrategy \in Strategies /\ eRelation \in Engine!Relations
    /\ eIndex \in 0 .. Analysis /\ eCandle \in Shapes
    /\ BookInv(eBook, eIndex, eCandle)
    /\ CurveInv /\ CountsInv

LEMMA TakenType ==
    ASSUME NEW b \in Book
    PROVE  Taken(b) \in Nat
<1>1. Len(b.trades) \in Nat
      BY BookFields
<1>2. PICK held : held = IF b.active = Engine!Flat THEN 0 ELSE 1
      OBVIOUS
<1>3. PICK asked : asked = IF b.pending = Engine!Flat THEN 0 ELSE 1
      OBVIOUS
<1>4. Taken(b) = Len(b.trades) + held + asked
      BY <1>2, <1>3 DEF Taken
<1>5. held \in Nat /\ asked \in Nat
      BY <1>2, <1>3
<1>6. QED
      BY <1>1, <1>4, <1>5

LEMMA EngineInitially == Engine!Init => Runs
<1> SUFFICES ASSUME Engine!Init PROVE Runs
    OBVIOUS
<1>1. /\ eBook
             = [active |-> Engine!Flat, pending |-> Engine!Flat, trades |-> <<>>, equity |-> InitialEquity]
      /\ eStrategy \in Strategies /\ eIndex = 0 /\ eCandle \in Shapes /\ eRelation \in Engine!Relations
      /\ eCurve = [point |-> InitialEquity, peak |-> InitialEquity, worst |-> 0]
      /\ eCounts = [r \in Engine!Reasons \union {"signals"} |-> 0]
      /\ eStatus = "running"
      BY DEF Engine!Init
<1>2. /\ eBook \in Book /\ eBook.trades = <<>> /\ eBook.active = Engine!Flat /\ eBook.pending = Engine!Flat
      /\ eBook.equity = InitialEquity
      BY <1>1, FlatType, EngineBounds DEF Book
<1>3. DOMAIN eBook.trades = {}
      BY <1>2
<1>4. BookInv(eBook, eIndex, eCandle)
      BY <1>2, <1>3 DEF BookInv, TradesInv, PendingInv, ActiveInv, PositionInv, EndWell
<1>5. CurveInv
      BY <1>1, <1>2, EngineBounds DEF CurveInv, Engine!PointOf
<1>6. CountsInv
  <2>1. Taken(eBook) = 0
        BY <1>2 DEF Taken
  <2>2. Engine!RefusedCount = 0 /\ eCounts["signals"] = 0
        BY <1>1 DEF Engine!RefusedCount, Engine!Reasons
  <2>3. eCounts \in [Engine!Reasons \union {"signals"} -> 0 .. eIndex]
        BY <1>1
  <2>4. QED
        BY <2>1, <2>2, <2>3 DEF CountsInv
<1>7. QED
      BY <1>1, <1>4, <1>5, <1>6, EngineBounds DEF Runs

\* A signal that is not refused waits for the next candle.
LEMMA PendingKeeps ==
    ASSUME eStrategy \in Strategies, NEW i \in 1 .. Analysis, NEW c \in Shapes, NEW b,
           BookInv(b, i, c), b.pending = Engine!Flat, Engine!Refusal(b, i) = "none"
    PROVE  LET e == [b EXCEPT !.pending = Engine!PendingTrade(b, i)]
           IN  /\ BookInv(e, i, c) /\ Taken(e) = Taken(b) + 1
               /\ Engine!PointOf(e, c) = Engine!PointOf(b, c)
<1> DEFINE p == Engine!PendingTrade(b, i)
<1> DEFINE e == [b EXCEPT !.pending = p]
<1>1. /\ b \in Book /\ b.trades \in Seq(TradeRecord) /\ Len(b.trades) \in Nat
      /\ b.equity \in Nat /\ i \in Nat /\ Analysis \in Nat
      BY BookFields, EngineBounds DEF BookInv
<1>2. eStrategy.hold \in Nat /\ eStrategy.hold > 0
      BY StrategyTypes
<1>3. /\ b.active = Engine!Flat /\ b.equity > 0
      /\ Engine!Legacy => i + eStrategy.hold <= Analysis
      /\ ~Engine!Legacy => i + 1 <= Analysis
      BY <1>1, <1>2 DEF Engine!Refusal
<1>4. /\ p.sequence = Len(b.trades) + 1 /\ p.signal = i /\ p.entry = i + 1
      /\ p.exit = IF eStrategy.engine = "fixed_v1" THEN i + eStrategy.hold ELSE 0
      /\ p.before = b.equity
      BY DEF Engine!PendingTrade, Engine!Flat
<1>5. p \in Position
  <2>1. PICK exit \in Nat : exit = IF eStrategy.engine = "fixed_v1" THEN i + eStrategy.hold ELSE 0
        BY <1>1, <1>2
  <2>2. p = [Engine!Flat EXCEPT !.sequence = Len(b.trades) + 1, !.signal = i, !.entry = i + 1,
                         !.exit = exit, !.before = b.equity]
        BY <2>1 DEF Engine!PendingTrade
  <2>3. p = [sequence |-> Len(b.trades) + 1, signal |-> i, entry |-> i + 1, exit |-> exit,
             before |-> b.equity, raw |-> 0, fill |-> 0]
        BY <2>2 DEF Engine!Flat
  <2>4. QED
        BY <1>1, <2>3 DEF Position
<1> HIDE DEF p
<1>6. /\ e \in Book /\ e.pending = p /\ e.active = Engine!Flat /\ e.trades = b.trades
      /\ e.equity = b.equity
      BY <1>1, <1>3, <1>5 DEF Book
<1> HIDE DEF e
<1>7. p # Engine!Flat
      BY <1>1, <1>4, FlatType
<1>8. TradesInv(e, i) /\ EndWell(e, i, c)
      BY <1>6 DEF BookInv, TradesInv, TradeInv, LastTrade, EndWell
<1>9. b.trades # <<>> => LastTrade(b).exit <= i
      BY <1>1, BookFields DEF BookInv, TradesInv, TradeInv, LastTrade
<1>10. PositionInv(e, p)
      BY <1>3, <1>4, <1>6, <1>9 DEF PositionInv, LastTrade
<1>11. p.entry <= Analysis
      BY <1>1, <1>2, <1>3, <1>4
<1>12. PendingInv(e, i) /\ ActiveInv(e, i)
      BY <1>4, <1>6, <1>10, <1>11 DEF PendingInv, ActiveInv, PositionInv
<1>13. BookInv(e, i, c)
      BY <1>6, <1>8, <1>12 DEF BookInv
<1>14. Taken(e) = Taken(b) + 1
      BY <1>1, <1>3, <1>6, <1>7 DEF Taken
<1>15. Engine!PointOf(e, c) = Engine!PointOf(b, c)
      BY <1>3, <1>6 DEF Engine!PointOf
<1>16. QED
      BY <1>13, <1>14, <1>15 DEF e, p

LEMMA PointType ==
    ASSUME NEW b, NEW i, NEW c \in Shapes, BookInv(b, i, c)
    PROVE  Engine!PointOf(b, c) \in Nat
<1>1. b.active \in Position /\ b.equity \in Nat /\ c.close \in Int
      BY BookFields, ShapeTypes DEF BookInv
<1>2. b.active # Engine!Flat => b.active.fill > 0
      BY DEF BookInv, ActiveInv
<1>3. QED
      BY <1>1, <1>2, MarkType DEF Engine!PointOf

\* The curve goes on from any point.
LEMMA CurveGoesOn ==
    ASSUME eCurve \in [point : Nat, peak : Nat, worst : Int],
           eCurve.peak >= InitialEquity, eCurve.worst \in -Scale .. 0,
           NEW point \in Nat
    PROVE  /\ Engine!CurveWith(point) \in [point : Nat, peak : Nat, worst : Int]
           /\ Engine!CurveWith(point).peak >= InitialEquity
           /\ Engine!CurveWith(point).worst \in -Scale .. 0
           /\ Engine!CurveWith(point).point = point
<1> DEFINE peak == Engine!Greater(eCurve.peak, point)
<1> DEFINE drawdown == Engine!Divide(point, peak) - Scale
<1>1. /\ peak \in Nat \ {0} /\ point <= peak /\ peak >= InitialEquity
      BY EngineBounds DEF Engine!Greater
<1> HIDE DEF peak
<1>2. Engine!Divide(point, peak) \in 0 .. Scale
      BY <1>1, EngineBounds, ShareOf DEF Engine!Divide
<1>3. drawdown \in -Scale .. 0
      BY <1>2, EngineBounds
<1> HIDE DEF drawdown
<1>4. Engine!CurveWith(point) =
        [point |-> point, peak |-> peak,
         worst |-> IF drawdown < eCurve.worst THEN drawdown ELSE eCurve.worst]
      BY DEF Engine!CurveWith, peak, drawdown
<1>5. (IF drawdown < eCurve.worst THEN drawdown ELSE eCurve.worst) \in -Scale .. 0
      BY <1>3
<1>6. -Scale .. 0 \subseteq Int
      BY EngineBounds
<1>7. QED
      BY <1>1, <1>4, <1>5, <1>6

LEMMA RefusalIs ==
    ASSUME NEW b, NEW i
    PROVE  Engine!Refusal(b, i) \in Engine!Reasons \union {"none"}
BY DEF Engine!Refusal, Engine!Reasons

\* One signal more: a position, or one more refusal.
LEMMA CountsGoOn ==
    ASSUME NEW n \in Nat, NEW f \in [Engine!Reasons \union {"signals"} -> 0 .. n], NEW taken \in Nat,
           f["signals"] = taken + (f["overlapping"] + f["insufficient_forward_window"]
                                   + f["entry_unavailable"] + f["equity_exhausted"]),
           NEW hit, hit = {} \/ \E why \in Engine!Reasons \union {"none"} : hit = {"signals", why},
           NEW g,
           \A k \in Engine!Reasons \union {"signals"} : g[k] = IF k \in hit THEN f[k] + 1 ELSE f[k]
    PROVE  /\ \A k \in Engine!Reasons \union {"signals"} : g[k] \in 0 .. (n + 1)
           /\ g["signals"] = (IF "none" \in hit THEN taken + 1 ELSE taken)
                  + (g["overlapping"] + g["insufficient_forward_window"]
                     + g["entry_unavailable"] + g["equity_exhausted"])
<1>1. \A k \in Engine!Reasons \union {"signals"} : f[k] \in 0 .. n
      OBVIOUS
<1>2. \A k \in Engine!Reasons \union {"signals"} : g[k] \in 0 .. (n + 1)
      BY <1>1
<1>3. /\ f["signals"] \in Nat /\ f["overlapping"] \in Nat
      /\ f["insufficient_forward_window"] \in Nat
      /\ f["entry_unavailable"] \in Nat /\ f["equity_exhausted"] \in Nat
      BY <1>1 DEF Engine!Reasons
<1>4. /\ g["signals"] = IF "signals" \in hit THEN f["signals"] + 1 ELSE f["signals"]
      /\ g["overlapping"] = IF "overlapping" \in hit THEN f["overlapping"] + 1
                            ELSE f["overlapping"]
      /\ g["insufficient_forward_window"] =
            IF "insufficient_forward_window" \in hit
            THEN f["insufficient_forward_window"] + 1 ELSE f["insufficient_forward_window"]
      /\ g["entry_unavailable"] = IF "entry_unavailable" \in hit
                                  THEN f["entry_unavailable"] + 1 ELSE f["entry_unavailable"]
      /\ g["equity_exhausted"] = IF "equity_exhausted" \in hit
                                 THEN f["equity_exhausted"] + 1 ELSE f["equity_exhausted"]
      BY DEF Engine!Reasons
<1>5. CASE hit = {}
      BY <1>2, <1>3, <1>4, <1>5
<1>6. CASE hit = {"signals", "none"}
      BY <1>2, <1>3, <1>4, <1>6
<1>7. CASE \E why \in Engine!Reasons : hit = {"signals", why}
      BY <1>2, <1>3, <1>4, <1>7 DEF Engine!Reasons
<1>8. QED
      BY <1>5, <1>6, <1>7

\* What is said of a run does not change with the candle, only with the strategy.
LEMMA StrategyStays ==
    ASSUME eStrategy' = eStrategy
    PROVE  /\ \A p, i, c : HeldThrough(p, i, c)' <=> HeldThrough(p, i, c)
           /\ \A t, i, c : EndsWell(t, i, c)' <=> EndsWell(t, i, c)
           /\ \A b, p : PositionInv(b, p)' <=> PositionInv(b, p)
           /\ \A b, c : Engine!PointOf(b, c)' = Engine!PointOf(b, c)
<1>1. (Engine!Legacy' <=> Engine!Legacy) /\ (Engine!Configurable' <=> Engine!Configurable) /\ (Engine!Long' <=> Engine!Long)
      BY DEF Engine!Legacy, Engine!Configurable, Engine!Long
<1>2. \A p : Engine!StopLevel(p)' = Engine!StopLevel(p) /\ Engine!TakeLevel(p)' = Engine!TakeLevel(p)
      BY DEF Engine!StopLevel, Engine!TakeLevel
<1>3. \A p, c : /\ Engine!TouchesStop(p, c)' <=> Engine!TouchesStop(p, c)
                /\ Engine!TouchesTake(p, c)' <=> Engine!TouchesTake(p, c)
      BY <1>2 DEF Engine!TouchesStop, Engine!TouchesTake
<1>4. \A p, i, c : HeldThrough(p, i, c)' <=> HeldThrough(p, i, c)
      BY <1>3 DEF HeldThrough
<1>5. \A t, i, c : EndsWell(t, i, c)' <=> EndsWell(t, i, c)
      BY <1>1, <1>2, <1>3 DEF EndsWell
<1>6. \A b, p : PositionInv(b, p)' <=> PositionInv(b, p)
      BY <1>1 DEF PositionInv
<1>7. \A p, x : /\ Engine!RealizedRate(p, x)' = Engine!RealizedRate(p, x)
                /\ Engine!MarkedRate(p, x)' = Engine!MarkedRate(p, x)
      BY <1>1 DEF Engine!RealizedRate, Engine!MarkedRate
<1>8. \A p, x : Engine!MarkEquity(p, x)' = Engine!MarkEquity(p, x)
      BY <1>1, <1>7 DEF Engine!MarkEquity
<1>9. \A b, c : Engine!PointOf(b, c)' = Engine!PointOf(b, c)
      BY <1>8 DEF Engine!PointOf
<1>10. QED
      BY <1>4, <1>5, <1>6, <1>9

LEMMA BookStays ==
    ASSUME eStrategy' = eStrategy
    PROVE  \A b, i, c : BookInv(b, i, c)' <=> BookInv(b, i, c)
<1>1. \A p, i, c : HeldThrough(p, i, c)' <=> HeldThrough(p, i, c)
      BY StrategyStays
<1>2. \A b, i, c : EndWell(b, i, c)' <=> EndWell(b, i, c)
      BY StrategyStays DEF EndWell
<1>3. \A b, i : (PendingInv(b, i)' <=> PendingInv(b, i)) /\ (ActiveInv(b, i)' <=> ActiveInv(b, i))
      BY StrategyStays DEF PendingInv, ActiveInv
<1>4. Engine!Configurable' <=> Engine!Configurable
      BY DEF Engine!Configurable
<1>5. \A b, i : TradesInv(b, i)' <=> TradesInv(b, i)
      BY DEF TradesInv
<1>6. QED
      BY <1>1, <1>2, <1>3, <1>4, <1>5 DEF BookInv

LEMMA AdvanceKeeps ==
    ASSUME Runs, eIndex < Analysis, NEW c \in Shapes, NEW side \in Engine!Relations,
           Engine!Advance(eIndex + 1, c, side)
    PROVE  Runs'
<1> DEFINE j == eIndex + 1
<1>1. /\ eStrategy \in Strategies /\ eIndex \in 0 .. Analysis /\ eIndex \in Nat
      /\ eCandle \in Shapes /\ eStatus = "running"
      /\ BookInv(eBook, eIndex, eCandle) /\ CurveInv /\ CountsInv
      BY EngineBounds DEF Runs
<1>2. j \in 1 .. Analysis /\ j \in Nat
      BY <1>1, EngineBounds
<1>3. PICK b \in Engine!Books(j, c) :
        /\ eCurve' = Engine!CurveWith(Engine!PointOf(b, c))
        /\ eBook' = IF Engine!Triggers(side) /\ Engine!Refusal(b, j) = "none"
                   THEN [b EXCEPT !.pending = Engine!PendingTrade(b, j)] ELSE b
        /\ eCounts' = [k \in DOMAIN eCounts |->
                        IF Engine!Triggers(side) /\ k \in {"signals", Engine!Refusal(b, j)}
                        THEN eCounts[k] + 1 ELSE eCounts[k]]
      BY DEF Engine!Advance
<1>4. /\ eIndex' = j /\ eCandle' = c /\ eRelation' = side
      /\ eStrategy' = eStrategy /\ eStatus' = eStatus
      BY DEF Engine!Advance
<1>5. /\ BookInv(b, j, c) /\ b.pending = Engine!Flat /\ Taken(b) = Taken(eBook)
      BY <1>1, <1>3, ConfigurableTurn, FixedTurn
<1>6. /\ BookInv(eBook', j, c)
      /\ Taken(eBook') = IF Engine!Triggers(side) /\ Engine!Refusal(b, j) = "none"
                        THEN Taken(eBook) + 1 ELSE Taken(eBook)
      /\ Engine!PointOf(eBook', c) = Engine!PointOf(b, c)
      BY <1>1, <1>2, <1>3, <1>5, PendingKeeps
<1>7. /\ eCurve' \in [point : Nat, peak : Nat, worst : Int]
      /\ eCurve'.peak >= InitialEquity /\ eCurve'.worst \in -Scale .. 0
      /\ eCurve'.point = Engine!PointOf(eBook', c)
      BY <1>1, <1>3, <1>5, <1>6, PointType, CurveGoesOn DEF CurveInv
<1>8. Taken(eBook) \in Nat
      BY <1>1, TakenType DEF BookInv
<1>9. Engine!Refusal(b, j) \in Engine!Reasons \union {"none"}
      BY RefusalIs
<1>10. Engine!Triggers(side) \in BOOLEAN
      BY DEF Engine!Triggers, Engine!Crosses
<1>11. /\ eCounts' \in [Engine!Reasons \union {"signals"} -> 0 .. j]
       /\ eCounts'["signals"] = Taken(eBook')
            + (eCounts'["overlapping"] + eCounts'["insufficient_forward_window"]
               + eCounts'["entry_unavailable"] + eCounts'["equity_exhausted"])
  <2>1. eCounts \in [Engine!Reasons \union {"signals"} -> 0 .. eIndex]
        BY <1>1 DEF CountsInv
  <2>2. eCounts["signals"] = Taken(eBook)
            + (eCounts["overlapping"] + eCounts["insufficient_forward_window"]
               + eCounts["entry_unavailable"] + eCounts["equity_exhausted"])
        BY <1>1 DEF CountsInv, Engine!RefusedCount
  <2>3. \A k \in Engine!Reasons \union {"signals"} :
          eCounts'[k] = IF Engine!Triggers(side) /\ k \in {"signals", Engine!Refusal(b, j)}
                       THEN eCounts[k] + 1 ELSE eCounts[k]
        BY <1>3, <2>1
  <2>4. /\ \A k \in Engine!Reasons \union {"signals"} : eCounts'[k] \in 0 .. (eIndex + 1)
        /\ eCounts'["signals"] =
              (IF Engine!Triggers(side) /\ Engine!Refusal(b, j) = "none" THEN Taken(eBook) + 1 ELSE Taken(eBook))
              + (eCounts'["overlapping"] + eCounts'["insufficient_forward_window"]
                 + eCounts'["entry_unavailable"] + eCounts'["equity_exhausted"])
    <3>1. PICK hit : hit = IF Engine!Triggers(side) THEN {"signals", Engine!Refusal(b, j)} ELSE {}
          OBVIOUS
    <3>2. PICK taken : taken = Taken(eBook)
          OBVIOUS
    <3>3. PICK g : g = eCounts'
          OBVIOUS
    <3>4. \A k \in Engine!Reasons \union {"signals"} :
            g[k] = IF k \in hit THEN eCounts[k] + 1 ELSE eCounts[k]
          BY <2>3, <3>1, <3>3
    <3>5. hit = {} \/ \E why \in Engine!Reasons \union {"none"} : hit = {"signals", why}
          BY <1>9, <3>1
    <3>6. /\ eIndex \in Nat /\ taken \in Nat
          /\ eCounts["signals"] = taken
                + (eCounts["overlapping"] + eCounts["insufficient_forward_window"]
                   + eCounts["entry_unavailable"] + eCounts["equity_exhausted"])
          BY <1>1, <1>8, <2>2, <3>2
    <3>7. /\ \A k \in Engine!Reasons \union {"signals"} : g[k] \in 0 .. (eIndex + 1)
          /\ g["signals"] = (IF "none" \in hit THEN taken + 1 ELSE taken)
                  + (g["overlapping"] + g["insufficient_forward_window"]
                     + g["entry_unavailable"] + g["equity_exhausted"])
          BY <2>1, <3>4, <3>5, <3>6, CountsGoOn
    <3>8. "none" \in hit <=> (Engine!Triggers(side) /\ Engine!Refusal(b, j) = "none")
          BY <3>1
    <3>9. QED
          BY <3>2, <3>3, <3>7, <3>8
  <2>5. eCounts' \in [Engine!Reasons \union {"signals"} -> 0 .. j]
        BY <1>3, <2>1, <2>4
  <2>6. QED
        BY <1>6, <2>4, <2>5
<1>12. BookInv(eBook, eIndex, eCandle)'
      BY <1>4, <1>6, BookStays
<1>13. CurveInv'
      BY <1>4, <1>7, StrategyStays DEF CurveInv
<1>14. CountsInv'
  <2>1. Taken(eBook)' = Taken(eBook')
        BY DEF Taken
  <2>2. QED
        BY <1>4, <1>11, <2>1 DEF CountsInv, Engine!RefusedCount
<1>15. QED
      BY <1>1, <1>2, <1>4, <1>12, <1>13, <1>14 DEF Runs, Engine!Relations

-----------------------------------------------------------------------------
(* The summary *)

LEMMA TwoDisjoint ==
    ASSUME NEW S, NEW T, IsFiniteSet(S), IsFiniteSet(T), S \cap T = {}
    PROVE  Cardinality(S \cup T) = Cardinality(S) + Cardinality(T)
<1>1. Cardinality(S \cup T) = Cardinality(S) + Cardinality(T) - Cardinality(S \cap T)
      BY FS_Union
<1>2. Cardinality(S \cap T) = 0
      BY FS_EmptySet
<1>3. Cardinality(S) \in Nat /\ Cardinality(T) \in Nat
      BY FS_CardinalityType
<1>4. QED
      BY <1>1, <1>2, <1>3

LEMMA TwoParts ==
    ASSUME NEW n \in Nat, NEW S, NEW T, S \cup T = 1 .. n, S \cap T = {}
    PROVE  Cardinality(S) + Cardinality(T) = n
<1>1. IsFiniteSet(1 .. n) /\ Cardinality(1 .. n) = n
      BY FS_Interval
<1>2. IsFiniteSet(S) /\ IsFiniteSet(T)
      BY <1>1, FS_Subset
<1>3. Cardinality(S \cup T) = Cardinality(S) + Cardinality(T)
      BY <1>2, TwoDisjoint
<1>4. QED
      BY <1>1, <1>3

TradeEnds(t) ==
    \/ t.status = "closed" /\ t.outcome \in {"win", "loss", "flat"}
    \/ t.status = "open_at_end" /\ t.outcome = "none"

\* Every trade counts once by how it ended, every closed one once by its outcome.
LEMMA Summary ==
    ASSUME NEW n \in Nat, NEW s, DOMAIN s = 1 .. n, \A k \in 1 .. n : TradeEnds(s[k])
    PROVE  LET With(o) == {k \in DOMAIN s : s[k].outcome = o}
               Done == {k \in DOMAIN s : s[k].status = "closed"}
               Left == {k \in DOMAIN s : s[k].status = "open_at_end"}
           IN  /\ Cardinality(Done) + Cardinality(Left) = n
               /\ Cardinality(With("win")) + Cardinality(With("loss"))
                     + Cardinality(With("flat")) = Cardinality(Done)
<1> DEFINE With(o) == {k \in DOMAIN s : s[k].outcome = o}
<1> DEFINE Done == {k \in DOMAIN s : s[k].status = "closed"}
<1> DEFINE Left == {k \in DOMAIN s : s[k].status = "open_at_end"}
<1>1. Done \cup Left = 1 .. n /\ Done \cap Left = {}
      BY DEF TradeEnds
<1>2. /\ (With("win") \cup With("loss")) \cup With("flat") = Done
      /\ With("win") \cap With("loss") = {}
      /\ (With("win") \cup With("loss")) \cap With("flat") = {}
      BY DEF TradeEnds
<1>3. IsFiniteSet(1 .. n)
      BY FS_Interval
<1>4. \A o : With(o) \subseteq 1 .. n
      OBVIOUS
<1>5. /\ IsFiniteSet(With("win")) /\ IsFiniteSet(With("loss")) /\ IsFiniteSet(With("flat"))
      /\ IsFiniteSet(With("win") \cup With("loss"))
      BY <1>3, <1>4, FS_Subset, FS_Union
<1> HIDE DEF With, Done, Left
<1>6. Cardinality(Done) + Cardinality(Left) = n
      BY <1>1, TwoParts
<1>7. Cardinality(With("win") \cup With("loss"))
         = Cardinality(With("win")) + Cardinality(With("loss"))
      BY <1>2, <1>5, TwoDisjoint
<1>8. Cardinality(Done) = Cardinality(With("win") \cup With("loss")) + Cardinality(With("flat"))
      BY <1>2, <1>5, TwoDisjoint
<1>9. QED
      BY <1>6, <1>7, <1>8 DEF With, Done, Left

\* Cardinality as the instance has it.
LEMMA SameCardinality ==
    ASSUME NEW S
    PROVE  Engine!Cardinality(S) = Cardinality(S)
BY DEF Engine!IsFiniteSet, IsFiniteSet, Engine!Cardinality, Cardinality

LEMMA BookSummary ==
    ASSUME Len(eBook.trades) \in Nat, DOMAIN eBook.trades = 1 .. Len(eBook.trades),
           \A k \in 1 .. Len(eBook.trades) : TradeEnds(eBook.trades[k])
    PROVE  /\ Cardinality(Engine!Closed) + Cardinality(Engine!OpenAtEnd) = Len(eBook.trades)
           /\ Cardinality(Engine!WithOutcome("win")) + Cardinality(Engine!WithOutcome("loss"))
                 + Cardinality(Engine!WithOutcome("flat")) = Cardinality(Engine!Closed)
BY Summary DEF Engine!Closed, Engine!OpenAtEnd, Engine!WithOutcome

-----------------------------------------------------------------------------
(* A run balances as long as it goes on *)

LEMMA RunningTrades ==
    ASSUME Runs
    PROVE  /\ Engine!ClosedCount + Engine!OpenAtEndCount = Len(eBook.trades)
           /\ Engine!OutcomeCount("win") + Engine!OutcomeCount("loss") + Engine!OutcomeCount("flat")
                  = Engine!ClosedCount
           /\ Engine!OpenAtEndCount = 0
<1>1. /\ eBook \in Book /\ Len(eBook.trades) \in Nat
      /\ DOMAIN eBook.trades = 1 .. Len(eBook.trades)
      BY BookFields DEF Runs, BookInv
<1>2. \A k \in DOMAIN eBook.trades :
        /\ eBook.trades[k].status = "closed"
        /\ eBook.trades[k].outcome \in {"win", "loss", "flat"}
      BY DEF Runs, BookInv, TradesInv, TradeInv
<1>3. \A k \in 1 .. Len(eBook.trades) : TradeEnds(eBook.trades[k])
      BY <1>1, <1>2 DEF TradeEnds
<1>4. Engine!OpenAtEnd = {}
      BY <1>2 DEF Engine!OpenAtEnd
<1>5. Engine!OpenAtEndCount = 0
      BY <1>4, FS_EmptySet, SameCardinality DEF Engine!OpenAtEndCount
<1>6. /\ Cardinality(Engine!Closed) + Cardinality(Engine!OpenAtEnd) = Len(eBook.trades)
      /\ Cardinality(Engine!WithOutcome("win")) + Cardinality(Engine!WithOutcome("loss"))
            + Cardinality(Engine!WithOutcome("flat")) = Cardinality(Engine!Closed)
      BY <1>1, <1>3, BookSummary
<1>7. QED
      BY <1>5, <1>6, SameCardinality DEF Engine!ClosedCount, Engine!OpenAtEndCount,
         Engine!OutcomeCount

LEMMA RunningFollows ==
    ASSUME Runs
    PROVE  Engine!TradesFollowEachOther
<1>1. ASSUME NEW n \in DOMAIN eBook.trades
      PROVE  LET t == eBook.trades[n]
             IN /\ t.sequence = n
                /\ t.entry = t.signal + 1 /\ t.exit >= t.entry
                /\ t.before > 0
                /\ t.before = IF n = 1 THEN InitialEquity ELSE eBook.trades[n - 1].after
                /\ n > 1 => /\ eBook.trades[n - 1].status = "closed"
                            /\ t.signal >= eBook.trades[n - 1].exit
  <2>1. TradeInv(eBook, n, eIndex)
        BY DEF Runs, BookInv, TradesInv
  <2>2. n > 1 => n - 1 \in DOMAIN eBook.trades
        BY BookFields DEF Runs, BookInv
  <2>3. n > 1 => eBook.trades[n - 1].status = "closed"
        BY <2>2 DEF Runs, BookInv, TradesInv, TradeInv
  <2>4. QED
        BY <2>1, <2>3 DEF TradeInv
<1>2. \A p \in Engine!Positions : p.before = eBook.equity /\ p.sequence = Len(eBook.trades) + 1
      BY DEF Engine!Positions, Runs, BookInv, PendingInv, ActiveInv, PositionInv
<1>3. QED
      BY <1>1, <1>2 DEF Engine!TradesFollowEachOther

LEMMA RunningIsTyped ==
    ASSUME Runs
    PROVE  Engine!TypeOK
<1>1. /\ eStrategy \in Strategies /\ eIndex \in 0 .. Analysis /\ eCandle \in Shapes
      /\ eRelation \in Engine!Relations /\ eStatus = "running" /\ eBook \in Book
      BY DEF Runs, BookInv
<1>2. \A p \in Engine!Positions : p.signal \in 1 .. Analysis /\ p.before \in Nat
  <2>1. \A p \in Engine!Positions : p \in Position /\ p # Engine!Flat /\ PositionInv(eBook, p)
        BY <1>1, BookFields DEF Engine!Positions, Runs, BookInv, PendingInv, ActiveInv
  <2>2. QED
        BY <2>1 DEF PositionInv, Position
<1>3. \A t \in DOMAIN eBook.trades : eBook.trades[t].status \in Engine!TradeStatuses
      BY <1>1, BookFields DEF TradeRecord
<1>4. eCounts \in [Engine!Reasons \union {"signals"} -> 0 .. Analysis]
  <2>1. eCounts \in [Engine!Reasons \union {"signals"} -> 0 .. eIndex]
        BY DEF Runs, CountsInv
  <2>2. 0 .. eIndex \subseteq 0 .. Analysis
        BY <1>1, EngineBounds
  <2>3. QED
        BY <2>1, <2>2
<1>5. eBook.equity \in Nat
      BY <1>1, BookFields
<1>6. QED
      BY <1>1, <1>2, <1>3, <1>4, <1>5 DEF Engine!TypeOK

LEMMA RunningIsBalanced ==
    ASSUME Runs
    PROVE  BooksBalance /\ ExitsAreNotMissed
<1>1. eBook \in Book /\ eStatus = "running" /\ CurveInv /\ CountsInv /\ BookInv(eBook, eIndex, eCandle)
      BY DEF Runs, BookInv
<1>2. Engine!SignalsAreAccounted
      BY <1>1, RunningTrades DEF Engine!SignalsAreAccounted, CountsInv, Taken
<1>3. Engine!CurveEndsAtEquity
      BY <1>1 DEF Engine!CurveEndsAtEquity, CurveInv, Engine!PointOf
<1>4. ExitsAreNotMissed
  <2>1. (Engine!Configurable /\ eBook.active # Engine!Flat) => HeldThrough(eBook.active, eIndex, eCandle)
        BY <1>1 DEF BookInv
  <2>2. \A n \in DOMAIN eBook.trades : EndsWell(eBook.trades[n], eIndex, eCandle)
        BY <1>1 DEF BookInv, EndWell
  <2>3. QED
        BY <2>1, <2>2 DEF ExitsAreNotMissed, Engine!ExitsAreNotMissed, HeldThrough, EndsWell
<1>5. Engine!NeverAborts
      BY <1>1 DEF Engine!NeverAborts
<1>6. QED
      BY <1>2, <1>3, <1>4, <1>5, RunningIsTyped, RunningFollows DEF BooksBalance,
         Engine!BooksBalance

-----------------------------------------------------------------------------
(* A run that is done *)

\* As TradeInv, but the last trade may be a position marked at the end.
FinalTrade(b, n) ==
    LET t == b.trades[n]
    IN  /\ t.sequence = n /\ TradeEnds(t)
        /\ t.status = "open_at_end" => n = Len(b.trades) /\ ~Engine!Legacy
        /\ t.entry = t.signal + 1 /\ t.exit >= t.entry
        /\ t.before > 0
        /\ t.before = IF n = 1 THEN InitialEquity ELSE b.trades[n - 1].after
        /\ n > 1 => /\ b.trades[n - 1].status = "closed"
                    /\ t.signal >= b.trades[n - 1].exit

Done ==
    /\ eStatus = "success" /\ eStrategy \in Strategies /\ eRelation \in Engine!Relations
    /\ eIndex \in 0 .. Analysis /\ eCandle \in Shapes
    /\ eBook \in Book /\ eBook.active = Engine!Flat /\ eBook.pending = Engine!Flat
    /\ \A n \in DOMAIN eBook.trades : FinalTrade(eBook, n)
    /\ EndWell(eBook, eIndex, eCandle)
    /\ CurveInv /\ CountsInv

LEMMA DoneIsBalanced ==
    ASSUME Done
    PROVE  BooksBalance /\ ExitsAreNotMissed
<1>1. /\ eBook \in Book /\ eBook.active = Engine!Flat /\ eBook.pending = Engine!Flat /\ eStatus = "success"
      /\ Len(eBook.trades) \in Nat /\ DOMAIN eBook.trades = 1 .. Len(eBook.trades)
      /\ eBook.equity \in Nat /\ eBook.trades \in Seq(TradeRecord)
      BY BookFields DEF Done
<1>2. Engine!Positions = {}
      BY <1>1 DEF Engine!Positions
<1>3. \A n \in DOMAIN eBook.trades : FinalTrade(eBook, n)
      BY DEF Done
<1>4. /\ Cardinality(Engine!Closed) + Cardinality(Engine!OpenAtEnd) = Len(eBook.trades)
      /\ Cardinality(Engine!WithOutcome("win")) + Cardinality(Engine!WithOutcome("loss"))
            + Cardinality(Engine!WithOutcome("flat")) = Cardinality(Engine!Closed)
  <2>1. \A n \in 1 .. Len(eBook.trades) : TradeEnds(eBook.trades[n])
        BY <1>1, <1>3 DEF FinalTrade
  <2>2. QED
        BY <1>1, <2>1, BookSummary
<1>5. Engine!OpenAtEndCount = 0 \/ (Engine!OpenAtEndCount = 1 /\ ~Engine!Legacy)
  <2>1. CASE Engine!OpenAtEnd = {}
        BY <2>1, FS_EmptySet, SameCardinality DEF Engine!OpenAtEndCount
  <2>2. CASE Engine!OpenAtEnd # {}
    <3>1. \A n \in Engine!OpenAtEnd : n = Len(eBook.trades) /\ ~Engine!Legacy
          BY <1>3 DEF FinalTrade, Engine!OpenAtEnd
    <3>2. Engine!OpenAtEnd = {Len(eBook.trades)}
          BY <2>2, <3>1
    <3>3. Cardinality(Engine!OpenAtEnd) = 1
          BY <3>2, FS_Singleton
    <3>4. QED
          BY <2>2, <3>1, <3>3, SameCardinality DEF Engine!OpenAtEndCount
  <2>3. QED
        BY <2>1, <2>2
<1>6. eCounts["signals"] = Len(eBook.trades) + 0 + 0 + Engine!RefusedCount
      BY <1>1 DEF Done, CountsInv, Taken
<1>7. Engine!SignalsAreAccounted
      BY <1>1, <1>4, <1>5, <1>6, SameCardinality DEF Engine!SignalsAreAccounted,
         Engine!ClosedCount, Engine!OpenAtEndCount, Engine!OutcomeCount
<1>8. Engine!TradesFollowEachOther
      BY <1>2, <1>3 DEF Engine!TradesFollowEachOther, FinalTrade
<1>9. Engine!CurveEndsAtEquity
      BY <1>1 DEF Done, Engine!CurveEndsAtEquity, CurveInv, Engine!PointOf
<1>10. ExitsAreNotMissed
      BY <1>1 DEF Done, ExitsAreNotMissed, Engine!ExitsAreNotMissed, EndWell, EndsWell
<1>11. Engine!TypeOK
  <2>1. eCounts \in [Engine!Reasons \union {"signals"} -> 0 .. Analysis]
    <3>1. eCounts \in [Engine!Reasons \union {"signals"} -> 0 .. eIndex] /\ eIndex \in 0 .. Analysis
          BY DEF Done, CountsInv
    <3>2. 0 .. eIndex \subseteq 0 .. Analysis
          BY <3>1, EngineBounds
    <3>3. QED
          BY <3>1, <3>2
  <2>2. \A n \in DOMAIN eBook.trades : eBook.trades[n].status \in Engine!TradeStatuses
        BY <1>3 DEF FinalTrade, TradeEnds, Engine!TradeStatuses
  <2>3. QED
        BY <1>1, <1>2, <2>1, <2>2 DEF Done, Engine!TypeOK
<1>12. QED
      BY <1>1, <1>7, <1>8, <1>9, <1>10, <1>11 DEF BooksBalance, Engine!BooksBalance,
         Engine!NeverAborts

LEMMA NothingIsPending ==
    ASSUME Runs, eIndex = Analysis
    PROVE  eBook.pending = Engine!Flat /\ (Engine!Legacy => eBook.active = Engine!Flat)
<1>1. /\ eStrategy \in Strategies /\ eIndex \in Nat /\ BookInv(eBook, eIndex, eCandle)
      /\ eBook.active \in Position /\ eBook.pending \in Position
      BY EngineBounds, BookFields DEF Runs, BookInv
<1>2. eBook.pending = Engine!Flat
  <2>1. eBook.pending # Engine!Flat
            => eBook.pending.entry = eIndex + 1 /\ eBook.pending.entry <= eIndex
        BY <1>1 DEF BookInv, PendingInv, PositionInv
  <2>2. QED
        BY <1>1, <2>1
<1>3. eStrategy.hold \in Nat
      BY <1>1, StrategyTypes
<1>4. ASSUME Engine!Legacy, eBook.active # Engine!Flat PROVE FALSE
  <2>1. /\ eBook.active.signal \in Nat /\ eBook.active.entry = eBook.active.signal + 1
        /\ eBook.active.signal + eStrategy.hold <= eIndex
        /\ eBook.active.exit = IF eStrategy.engine = "fixed_v1"
                              THEN eBook.active.signal + eStrategy.hold ELSE 0
        BY <1>1, <1>4 DEF BookInv, ActiveInv, PositionInv, Position
  <2>2. CASE eStrategy.engine = "fixed_v1"
    <3>1. eBook.active.exit > eIndex
          BY <1>1, <1>4, <2>2 DEF BookInv
    <3>2. QED
          BY <1>1, <1>3, <2>1, <2>2, <3>1
  <2>3. CASE eStrategy.engine = "configurable_v1"
    <3>1. eIndex - eBook.active.entry + 1 < eStrategy.hold
          BY <1>1, <1>4, <2>3 DEF BookInv, HeldThrough, Engine!Configurable
    <3>2. QED
          BY <1>1, <1>3, <2>1, <3>1
  <2>4. QED
        BY <1>4, <2>2, <2>3 DEF Engine!Legacy
<1>5. QED
      BY <1>2, <1>4

LEMMA FinishKeeps ==
    ASSUME Runs, Engine!Finish
    PROVE  Done'
<1>1. /\ eIndex = Analysis /\ eBook.pending = Engine!Flat /\ (Engine!Legacy => eBook.active = Engine!Flat)
      BY NothingIsPending DEF Engine!Finish
<1>2. /\ eBook' = IF eBook.active = Engine!Flat THEN eBook ELSE Engine!Finished(eBook)
      /\ eStatus' = "success"
      /\ UNCHANGED <<eStrategy, eIndex, eCandle, eRelation, eCurve, eCounts>>
      BY <1>1 DEF Engine!Finish
<1>3. /\ eStrategy \in Strategies /\ eRelation \in Engine!Relations /\ eIndex \in 0 .. Analysis
      /\ eIndex \in Nat /\ eCandle \in Shapes /\ BookInv(eBook, eIndex, eCandle)
      /\ CurveInv /\ CountsInv
      BY <1>1, EngineBounds DEF Runs
<1> DEFINE m == Len(eBook.trades)
<1>4. /\ eBook \in Book /\ m \in Nat /\ eBook.trades \in Seq(TradeRecord)
      /\ eBook.active \in Position /\ DOMAIN eBook.trades = 1 .. m
      BY <1>3, BookFields DEF BookInv
<1>5. \A n \in DOMAIN eBook.trades :
        /\ FinalTrade(eBook, n)
        /\ eBook.trades[n].status = "closed"
  <2>1. ASSUME NEW n \in DOMAIN eBook.trades PROVE FinalTrade(eBook, n)
    <3>1. TradeInv(eBook, n, eIndex)
          BY <1>3 DEF BookInv, TradesInv
    <3>2. n > 1 => n - 1 \in DOMAIN eBook.trades
          BY <1>4
    <3>3. n > 1 => eBook.trades[n - 1].status = "closed"
          BY <1>3, <3>2 DEF BookInv, TradesInv, TradeInv
    <3>4. QED
          BY <3>1, <3>3 DEF TradeInv, FinalTrade, TradeEnds
  <2>2. QED
        BY <1>3, <2>1 DEF BookInv, TradesInv, TradeInv
<1>6. /\ eBook' \in Book /\ eBook'.active = Engine!Flat /\ eBook'.pending = Engine!Flat
      /\ \A n \in DOMAIN eBook'.trades : FinalTrade(eBook', n)
      /\ EndWell(eBook', eIndex, eCandle)
      /\ Taken(eBook') = Taken(eBook)
      /\ eBook'.equity = Engine!PointOf(eBook, eCandle)
  <2>1. CASE eBook.active = Engine!Flat
    <3>1. eBook' = eBook
          BY <1>2, <2>1
    <3>2. QED
          BY <1>1, <1>3, <1>4, <1>5, <2>1, <3>1 DEF BookInv, Engine!PointOf
  <2>2. CASE eBook.active # Engine!Flat
    <3> DEFINE p == eBook.active
    <3> DEFINE t == Engine!MarkedTrade(p, eIndex, eCandle)
    <3>1. /\ p.fill > 0 /\ p.entry <= eIndex /\ PositionInv(eBook, p) /\ ~Engine!Legacy
          BY <1>1, <1>3, <2>2 DEF BookInv, ActiveInv
    <3>2. /\ t \in TradeRecord /\ t.status = "open_at_end" /\ t.outcome = "none"
          BY <1>3, <1>4, <3>1, MarkedType
    <3>3. /\ t.sequence = p.sequence /\ t.signal = p.signal /\ t.entry = p.entry
          /\ t.exit = eIndex /\ t.before = p.before
          /\ t.after = Engine!Net(p.before, Engine!MarkedRate(p, eCandle.close))
          BY DEF Engine!MarkedTrade
    <3>4. eBook' = [eBook EXCEPT !.active = Engine!Flat, !.trades = Append(@, t), !.equity = t.after]
          BY <1>2, <2>2 DEF Engine!Finished
    <3>5. t.after = Engine!PointOf(eBook, eCandle)
          BY <2>2, <3>1, <3>3 DEF Engine!PointOf, Engine!MarkEquity
    <3> HIDE DEF t
    <3>6. t.after \in Nat
          BY <3>2 DEF TradeRecord
    <3>7. /\ Append(eBook.trades, t) \in Seq(TradeRecord)
          /\ Len(Append(eBook.trades, t)) = m + 1
          /\ \A n \in 1 .. m : Append(eBook.trades, t)[n] = eBook.trades[n]
          /\ Append(eBook.trades, t)[m + 1] = t
          BY <1>4, <3>2
    <3>8. PICK s : s = Append(eBook.trades, t)
          OBVIOUS
    <3>9. /\ eBook' \in Book /\ eBook'.active = Engine!Flat /\ eBook'.pending = Engine!Flat
          /\ eBook'.trades = s /\ eBook'.equity = t.after
          BY <1>1, <1>4, <3>4, <3>6, <3>7, <3>8, FlatType DEF Book
    <3>10. /\ Len(s) = m + 1 /\ DOMAIN s = 1 .. (m + 1)
           /\ \A n \in 1 .. m : s[n] = eBook.trades[n]
           /\ s[m + 1] = t
          BY <1>4, <3>7, <3>8
    <3>11. /\ p.signal \in Nat /\ p.entry = p.signal + 1 /\ p.before = eBook.equity
           /\ p.before > 0 /\ p.sequence = m + 1
           /\ m # 0 => eBook.trades[m].exit <= p.signal /\ eBook.trades[m].exit \in Nat
          BY <1>4, <2>2, <3>1, BookFields DEF PositionInv, Position, LastTrade, TradeRecord
    <3>12. eBook.equity = IF m = 0 THEN InitialEquity ELSE eBook.trades[m].after
          BY <1>3, <1>4 DEF BookInv, TradesInv, LastTrade
    <3>13. ASSUME NEW n \in 1 .. m PROVE FinalTrade(eBook', n)
      <4>1. /\ FinalTrade(eBook, n) /\ eBook.trades[n].status = "closed"
            BY <1>4, <1>5
      <4>2. s[n] = eBook.trades[n] /\ (n # 1 => s[n - 1] = eBook.trades[n - 1])
            BY <1>4, <3>10
      <4>3. QED
            BY <1>4, <3>9, <4>1, <4>2 DEF FinalTrade
    <3>14. FinalTrade(eBook', m + 1)
      <4>1. m # 0 => s[m + 1 - 1] = eBook.trades[m] /\ eBook.trades[m].status = "closed"
            BY <1>4, <1>5, <3>10
      <4>2. /\ t.sequence = m + 1 /\ TradeEnds(t) /\ t.entry = t.signal + 1
            /\ t.exit >= t.entry /\ t.before > 0 /\ t.before = eBook.equity
            BY <1>3, <3>1, <3>2, <3>3, <3>11 DEF TradeEnds
      <4>3. m # 0 => t.signal >= eBook.trades[m].exit
            BY <3>3, <3>11
      <4>4. m + 1 = 1 <=> m = 0
            BY <1>4
      <4>5. m + 1 > 1 <=> m # 0
            BY <1>4
      <4>6. QED
            BY <3>1, <3>9, <3>10, <3>12, <4>1, <4>2, <4>3, <4>4, <4>5 DEF FinalTrade
    <3>15. \A n \in DOMAIN eBook'.trades : FinalTrade(eBook', n)
          BY <1>4, <3>9, <3>10, <3>13, <3>14
    <3>16. EndWell(eBook', eIndex, eCandle)
      <4>1. EndsWell(t, eIndex, eCandle)
            BY <3>2 DEF EndsWell
      <4>2. \A n \in 1 .. m : EndsWell(eBook.trades[n], eIndex, eCandle)
            BY <1>3, <1>4 DEF BookInv, EndWell
      <4>3. QED
            BY <1>4, <3>9, <3>10, <4>1, <4>2 DEF EndWell
    <3>17. Taken(eBook') = Taken(eBook)
          BY <1>1, <1>4, <2>2, <3>9, <3>10 DEF Taken
    <3>18. QED
          BY <3>5, <3>9, <3>15, <3>16, <3>17
  <2>3. QED
        BY <2>1, <2>2
<1>7. Engine!Legacy' <=> Engine!Legacy
      BY <1>2 DEF Engine!Legacy
<1>8. (\A n \in DOMAIN eBook.trades : FinalTrade(eBook, n))'
      BY <1>6, <1>7 DEF FinalTrade
<1>9. EndWell(eBook, eIndex, eCandle)'
      BY <1>2, <1>6, StrategyStays DEF EndWell
<1>10. CurveInv'
      BY <1>2, <1>3, <1>6 DEF CurveInv, Engine!PointOf
<1>11. CountsInv'
  <2>1. Taken(eBook)' = Taken(eBook')
        BY DEF Taken
  <2>2. QED
        BY <1>2, <1>3, <1>6, <2>1 DEF CountsInv, Engine!RefusedCount
<1>12. QED
      BY <1>2, <1>3, <1>6, <1>8, <1>9, <1>10, <1>11 DEF Done, Engine!Relations

-----------------------------------------------------------------------------
(* Every step *)

EngineInv == Runs \/ Done

LEMMA DoneStays ==
    ASSUME Done, UNCHANGED Engine!vars
    PROVE  Done'
<1>1. /\ UNCHANGED <<eStrategy, eIndex, eCandle, eRelation, eBook, eCurve, eCounts, eStatus>>
      /\ eBook' = eBook /\ eIndex' = eIndex /\ eCandle' = eCandle /\ eStrategy' = eStrategy
      /\ eCurve' = eCurve /\ eCounts' = eCounts
      BY DEF Engine!vars
<1>2. Engine!Legacy' <=> Engine!Legacy
      BY <1>1 DEF Engine!Legacy
<1>3. (\A n \in DOMAIN eBook.trades : FinalTrade(eBook, n))'
      BY <1>1, <1>2 DEF Done, FinalTrade
<1>4. EndWell(eBook, eIndex, eCandle)'
      BY <1>1, StrategyStays DEF Done, EndWell
<1>5. CurveInv'
      BY <1>1, StrategyStays DEF Done, CurveInv
<1>6. CountsInv'
      BY <1>1 DEF Done, CountsInv, Engine!RefusedCount, Taken
<1>7. QED
      BY <1>1, <1>3, <1>4, <1>5, <1>6 DEF Done, Engine!Relations

LEMMA RunStays ==
    ASSUME Runs, UNCHANGED Engine!vars
    PROVE  Runs'
<1>1. /\ UNCHANGED <<eStrategy, eIndex, eCandle, eRelation, eBook, eCurve, eCounts, eStatus>>
      /\ eBook' = eBook /\ eIndex' = eIndex /\ eCandle' = eCandle /\ eStrategy' = eStrategy
      /\ eCurve' = eCurve /\ eCounts' = eCounts
      BY DEF Engine!vars
<1>2. BookInv(eBook, eIndex, eCandle)'
      BY <1>1, BookStays DEF Runs
<1>3. CurveInv'
      BY <1>1, StrategyStays DEF Runs, CurveInv
<1>4. CountsInv'
      BY <1>1 DEF Runs, CountsInv, Engine!RefusedCount, Taken
<1>5. QED
      BY <1>1, <1>2, <1>3, <1>4 DEF Runs, Engine!Relations

LEMMA EngineInductive == EngineInv /\ [Engine!Next]_(Engine!vars) => EngineInv'
<1> SUFFICES ASSUME EngineInv, [Engine!Next]_(Engine!vars) PROVE EngineInv'
    OBVIOUS
<1>1. CASE UNCHANGED Engine!vars
      BY <1>1, DoneStays, RunStays DEF EngineInv
<1>2. ASSUME NEW c \in Shapes, NEW side \in Engine!Relations, Engine!Candle(c, side)
      PROVE  EngineInv'
  <2>1. Runs /\ eIndex < Analysis
        BY <1>2 DEF EngineInv, Done, Engine!Candle
  <2>2. ~Engine!Broken(eIndex + 1)
        BY <2>1, Unbroken DEF Runs
  <2>3. Engine!Advance(eIndex + 1, c, side)
        BY <1>2, <2>2 DEF Engine!Candle
  <2>4. QED
        BY <2>1, <2>3, AdvanceKeeps DEF EngineInv
<1>3. CASE Engine!Finish
  <2>1. Runs
        BY <1>3 DEF EngineInv, Done, Engine!Finish
  <2>2. QED
        BY <1>3, <2>1, FinishKeeps DEF EngineInv
<1>4. QED
      BY <1>1, <1>2, <1>3 DEF Engine!Next

LEMMA EngineIsSound == EngineInv => BooksBalance /\ ExitsAreNotMissed
BY RunningIsBalanced, DoneIsBalanced DEF EngineInv

\* Whatever candles, signals and rules a run meets, the engine never raises
\* calculation_invariant; signals, trades, equity and summary account for each other.
THEOREM BooksAlwaysBalance == Engine!Spec => []BooksBalance
<1>1. Engine!Init => EngineInv
      BY EngineInitially DEF EngineInv
<1>2. QED
      BY <1>1, EngineInductive, EngineIsSound, PTL DEF Engine!Spec

\* A configurable position is held through a candle only if none of its exit rules fired
\* on it; on a candle that touches both price rules the stop loss wins (_exit_decision).
THEOREM ExitsAreNeverMissed == Engine!Spec => []ExitsAreNotMissed
<1>1. Engine!Init => EngineInv
      BY EngineInitially DEF EngineInv
<1>2. QED
      BY <1>1, EngineInductive, EngineIsSound, PTL DEF Engine!Spec

-----------------------------------------------------------------------------
(* What a calculation says *)

Compared == {"below", "equal", "above"}

LEMMA PresetTypes ==
    /\ \A p \in Presets : /\ p.strategy \in {"sma", "rsi"}
                          /\ p.direction \in {"cross_above", "cross_below"}
                          /\ Signals!Required(p.strategy) \in Nat \ {0}
    /\ LastSlot \in Nat /\ QueueSize \in Nat
BY EvaluationIsAssumed DEF Signals!EvaluationAssumption, Signals!Required

\* Cardinality as the instance has it.
LEMMA SameCount ==
    ASSUME NEW S
    PROVE  Signals!Cardinality(S) = Cardinality(S)
BY DEF Signals!IsFiniteSet, IsFiniteSet, Signals!Cardinality, Cardinality

\* Every candle up to s is there.
Whole(s) == \A t \in 1 .. s : Signals!IsComplete(t)

LEMMA NewestWhole ==
    ASSUME NEW s \in Nat, NEW n \in Nat \ {0}, Whole(s)
    PROVE  /\ s < n => Signals!Newest(s, n) = 1 .. s
           /\ s >= n => Signals!Newest(s, n) = (s - n + 1) .. s
<1> DEFINE present == {t \in 1 .. s : Signals!IsComplete(t)}
<1>1. present = 1 .. s
      BY DEF Whole
<1>2. \A t \in 1 .. s : {u \in present : u > t} = (t + 1) .. s
      BY <1>1
<1>3. \A t \in 1 .. s : Cardinality({u \in present : u > t}) = s - t
  <2>1. ASSUME NEW t \in 1 .. s
        PROVE  Cardinality((t + 1) .. s) = s - t
        BY FS_Interval
  <2>2. QED
        BY <1>2, <2>1
<1>4. Signals!Newest(s, n) = {t \in 1 .. s : s - t < n}
  <2>1. Signals!Newest(s, n) = {t \in present : Cardinality({u \in present : u > t}) < n}
        BY SameCount DEF Signals!Newest
  <2>2. QED
        BY <1>1, <1>3, <2>1
<1> HIDE DEF present
<1>5. QED
      BY <1>4

\* Over whole candles a calculation fails for want of history only.
LEMMA StatusWhole ==
    ASSUME NEW s \in Nat, NEW n \in Nat \ {0}, Whole(s)
    PROVE  Signals!SeriesStatus(Signals!Newest(s, n), n)
               = IF s < n THEN "insufficient_history" ELSE "success"
<1>1. CASE s < n
  <2>1. Signals!Newest(s, n) = 1 .. s
        BY <1>1, NewestWhole
  <2>2. Cardinality(1 .. s) = s
        BY FS_Interval
  <2>3. ~\E t, u \in 1 .. s : t < u /\ \E v \in t .. u : v \notin 1 .. s
        OBVIOUS
  <2>4. QED
        BY <1>1, <2>1, <2>2, <2>3, SameCount DEF Signals!SeriesStatus
<1>2. CASE s >= n
  <2>a. PICK low \in Nat : low = s - n + 1
        BY <1>2
  <2>1. Signals!Newest(s, n) = low .. s
        BY <1>2, <2>a, NewestWhole
  <2>2. low <= s /\ s - low + 1 = n
        BY <1>2, <2>a
  <2>3. Cardinality(low .. s) = n
    <3>1. Cardinality(low .. s) = IF low > s THEN 0 ELSE s - low + 1
          BY FS_Interval
    <3>2. QED
          BY <2>2, <3>1
  <2>4. ~\E t, u \in low .. s : t < u /\ \E v \in t .. u : v \notin low .. s
        BY <2>2
  <2>5. QED
        BY <1>2, <2>1, <2>3, <2>4, SameCount DEF Signals!SeriesStatus
<1>3. QED
      BY <1>1, <1>2

LEMMA RelationType ==
    ASSUME NEW a, NEW b
    PROVE  Signals!Relation(a, b) \in Compared
BY DEF Signals!Relation, Compared

LEMMA CalculationWhole ==
    ASSUME NEW p \in Presets, NEW s \in Nat, Whole(s)
    PROVE  /\ s < Signals!Required(p.strategy)
                  => Signals!Calculation(p, s) = "insufficient_history"
           /\ s >= Signals!Required(p.strategy) => Signals!Calculation(p, s) \in Compared
<1> DEFINE n == Signals!Required(p.strategy)
<1>1. n \in Nat \ {0}
      BY PresetTypes
<1>2. Signals!SeriesStatus(Signals!Newest(s, n), n)
          = IF s < n THEN "insufficient_history" ELSE "success"
      BY <1>1, StatusWhole
<1>3. \A a, b : Signals!RsiRelation(a, b) \in Compared
      BY RelationType DEF Signals!RsiRelation
<1>4. QED
      BY <1>1, <1>2, <1>3, RelationType DEF Signals!Calculation

\* A calculation over whole candles depends on them only.
LEMMA CalculationStays ==
    ASSUME NEW p \in Presets, NEW s \in Nat, Whole(s),
           \A t \in 1 .. s : sCandles'[t] = sCandles[t]
    PROVE  Signals!Calculation(p, s)' = Signals!Calculation(p, s)
<1> DEFINE n == Signals!Required(p.strategy)
<1>1. n \in Nat \ {0}
      BY PresetTypes
<1>2. \A t \in 1 .. s : Signals!IsComplete(t)' <=> Signals!IsComplete(t)
      BY DEF Signals!IsComplete, Signals!Slots
<1>3. {t \in 1 .. s : Signals!IsComplete(t)}' = {t \in 1 .. s : Signals!IsComplete(t)}
      BY <1>2
<1>4. Signals!Newest(s, n)' = Signals!Newest(s, n)
      BY <1>3, SameCount DEF Signals!Newest
<1>5. Signals!SeriesStatus(Signals!Newest(s, n), n)'
          = Signals!SeriesStatus(Signals!Newest(s, n), n)
      BY <1>4, SameCount DEF Signals!SeriesStatus
<1>6. CASE s < n
  <2>1. Signals!SeriesStatus(Signals!Newest(s, n), n) # "success"
        BY <1>1, <1>6, StatusWhole
  <2>2. QED
        BY <1>5, <2>1 DEF Signals!Calculation
<1>7. CASE s >= n
  <2> DEFINE from == s - n + 1
  <2>1. from \in 1 .. s
        BY <1>1, <1>7
  <2>2. \A t \in from .. s : Signals!Close(t)' = Signals!Close(t)
        BY <2>1 DEF Signals!Close
  <2>3. \A t \in (from + 1) .. s : Signals!Gain(t)' = Signals!Gain(t) /\ Signals!Loss(t)' = Signals!Loss(t)
    <3>1. \A t \in (from + 1) .. s : t \in from .. s /\ t - 1 \in from .. s
          BY <2>1
    <3>2. QED
          BY <2>2, <3>1 DEF Signals!Gain, Signals!Loss
  <2>4. Signals!Total(from, s)' = Signals!Total(from, s)
    <3>1. [t \in from .. s |-> Signals!Close(t)]' = [t \in from .. s |-> Signals!Close(t)]
          BY <2>2
    <3>2. QED
          BY <3>1 DEF Signals!Total
  <2>5. Signals!Gained(from + 1, s)' = Signals!Gained(from + 1, s) /\ Signals!Lost(from + 1, s)' = Signals!Lost(from + 1, s)
    <3>1. [t \in (from + 1) .. s |-> Signals!Gain(t)]'
              = [t \in (from + 1) .. s |-> Signals!Gain(t)]
          BY <2>3
    <3>2. [t \in (from + 1) .. s |-> Signals!Loss(t)]'
              = [t \in (from + 1) .. s |-> Signals!Loss(t)]
          BY <2>3
    <3>3. QED
          BY <3>1, <3>2 DEF Signals!Gained, Signals!Lost
  <2>6. Signals!Close(s)' = Signals!Close(s)
        BY <2>1, <2>2
  <2>7. QED
        BY <1>5, <2>4, <2>5, <2>6 DEF Signals!Calculation
<1>8. QED
      BY <1>1, <1>6, <1>7

-----------------------------------------------------------------------------
(* Types *)

Rows == [status : {"warming", "ready", "stale", "disabled"}, slot : Nat, revision : Nat,
         relation : Compared \cup {"none"}]
Candidates == [slot : Nat \ {0}, revision : Nat \ {0}]
Consumers == [phase : {"idle", "recorded", "taken", "dead"}, slot : Nat, revision : Nat,
              presets : SUBSET Presets, unsafe : BOOLEAN]
Occurrences == [preset : Presets, slot : Nat, revision : Nat, since : Nat]
Busy == sConsumer.phase \in {"recorded", "taken"}

CandlesInv ==
    /\ sCandles \in [Signals!Slots -> [revision : Nat, close : Closes \cup {0}]]
    /\ sClock \in 0 .. LastSlot
    /\ sMarket \in Signals!Unsafe \cup {"live"}
    /\ sPreset \in [Presets -> {"active", "disabled"}]
    /\ sTrouble \in Nat

QueueInv ==
    /\ sQueue \in Seq(Candidates) /\ Len(sQueue) <= QueueSize
    /\ \A i \in 1 .. Len(sQueue) : sQueue[i].slot <= sClock
    /\ sConsumer \in Consumers
    /\ Busy => sConsumer.slot \in 1 .. sClock /\ sConsumer.revision # 0

\* A row that has never judged has nothing, any other one a candle and its relation.
RowIsSound(row, now) ==
    /\ row \in Rows /\ row.slot <= now
    /\ row.relation = "none" <=> row.slot = 0
    /\ row.revision = 0 <=> row.slot = 0
    /\ row.status = "ready" => row.slot # 0
RowsInv == sState \in [Presets -> Rows] /\ \A p \in Presets : RowIsSound(sState[p], sClock)

TypeInv == CandlesInv /\ QueueInv /\ RowsInv /\ sEvents \subseteq Occurrences

LEMMA QueueFields ==
    ASSUME sQueue \in Seq(Candidates)
    PROVE  /\ Len(sQueue) \in Nat
           /\ \A i \in 1 .. Len(sQueue) : /\ sQueue[i] \in Candidates
                                         /\ sQueue[i].slot \in Nat \ {0}
                                         /\ sQueue[i].revision \in Nat \ {0}
<1>1. Len(sQueue) \in Nat /\ \A i \in 1 .. Len(sQueue) : sQueue[i] \in Candidates
      OBVIOUS
<1>2. QED
      BY <1>1 DEF Candidates

LEMMA IdleType == Signals!Idle \in Consumers /\ Signals!Idle.phase = "idle"
BY DEF Signals!Idle, Consumers

LEMMA TypesInitially == Signals!Init => TypeInv
<1> SUFFICES ASSUME Signals!Init PROVE TypeInv
    OBVIOUS
<1>1. CandlesInv
      BY PresetTypes DEF Signals!Init, CandlesInv, Signals!NoCandle, Signals!Unsafe
<1>2. QueueInv
      BY PresetTypes, IdleType DEF Signals!Init, QueueInv, Busy
<1>3. Signals!Fresh \in Rows
      BY DEF Signals!Fresh, Rows
<1>4. RowsInv
      BY <1>3 DEF Signals!Init, RowsInv, RowIsSound, Signals!Fresh
<1>5. QED
      BY <1>1, <1>2, <1>4 DEF TypeInv, Signals!Init

\* Steps that leave the rows and the consumer alone, and let the clock go on.
LEMMA RowsStay ==
    ASSUME TypeInv, sClock' \in Nat, sClock' >= sClock, sState' = sState
    PROVE  RowsInv'
<1>1. sClock \in Nat
      BY PresetTypes DEF TypeInv, CandlesInv
<1>2. ASSUME NEW p \in Presets PROVE RowIsSound(sState'[p], sClock')
      BY <1>1 DEF TypeInv, RowsInv, RowIsSound, Rows
<1>3. QED
      BY <1>2 DEF TypeInv, RowsInv

LEMMA QueueEmpties ==
    ASSUME TypeInv, sClock' \in Nat, sClock' >= sClock,
           sQueue' = sQueue \/ sQueue' = <<>>,
           sConsumer' = sConsumer \/ (sConsumer' \in Consumers /\ ~Busy')
    PROVE  QueueInv'
<1>1. sClock \in Nat
      BY PresetTypes DEF TypeInv, CandlesInv
<1>2. /\ sQueue' \in Seq(Candidates) /\ Len(sQueue') <= QueueSize
      /\ \A i \in 1 .. Len(sQueue') : sQueue'[i].slot <= sClock'
  <2>1. CASE sQueue' = sQueue
    <3>1. \A i \in 1 .. Len(sQueue) : sQueue[i].slot \in Nat
          BY QueueFields DEF TypeInv, QueueInv
    <3>2. QED
          BY <1>1, <2>1, <3>1 DEF TypeInv, QueueInv
  <2>2. CASE sQueue' = <<>>
        BY <2>2, PresetTypes
  <2>3. QED
        BY <2>1, <2>2
<1>3. /\ sConsumer' \in Consumers
      /\ Busy' => sConsumer'.slot \in 1 .. sClock' /\ sConsumer'.revision # 0
      BY <1>1 DEF TypeInv, QueueInv, Busy
<1>4. QED
      BY <1>2, <1>3 DEF QueueInv

LEMMA QueueGrows ==
    ASSUME TypeInv, sClock' \in Nat, sClock' >= sClock, Len(sQueue) < QueueSize,
           NEW c \in Candidates, c.slot <= sClock', sQueue' = Append(sQueue, c),
           sConsumer' = sConsumer
    PROVE  QueueInv'
<1>1. sClock \in Nat /\ sQueue \in Seq(Candidates) /\ Len(sQueue) \in Nat
      BY PresetTypes DEF TypeInv, CandlesInv, QueueInv
<1>2. /\ sQueue' \in Seq(Candidates) /\ Len(sQueue') = Len(sQueue) + 1
      /\ \A i \in 1 .. Len(sQueue) : sQueue'[i] = sQueue[i]
      /\ sQueue'[Len(sQueue) + 1] = c
      BY <1>1
<1>3. \A i \in 1 .. Len(sQueue) : sQueue[i].slot \in Nat /\ sQueue[i].slot <= sClock
      BY <1>1, QueueFields DEF TypeInv, QueueInv
<1>4. ASSUME NEW i \in 1 .. Len(sQueue') PROVE sQueue'[i].slot <= sClock'
  <2>1. CASE i \in 1 .. Len(sQueue)
        BY <1>1, <1>2, <1>3, <2>1
  <2>2. CASE i = Len(sQueue) + 1
        BY <1>2, <2>2
  <2>3. QED
        BY <1>1, <1>2, <2>1, <2>2
<1>5. Len(sQueue') <= QueueSize
      BY <1>1, <1>2, PresetTypes
<1>6. sConsumer' \in Consumers
      BY DEF TypeInv, QueueInv
<1>7. Busy' => sConsumer'.slot \in 1 .. sClock' /\ sConsumer'.revision # 0
      BY <1>1 DEF TypeInv, QueueInv, Busy
<1>8. QED
      BY <1>2, <1>4, <1>5, <1>6, <1>7 DEF QueueInv

\* Whatever a judged candle makes of a row is a row.
LEMMA EvaluatedIsSound ==
    ASSUME TypeInv, Busy, NEW p \in Presets
    PROVE  RowIsSound(Signals!Evaluated(p), sClock) /\ RowIsSound(Signals!Suspended(sState[p]), sClock)
<1> DEFINE row == sState[p]
<1>1. row \in Rows /\ RowIsSound(row, sClock)
      BY DEF TypeInv, RowsInv
<1>2. /\ sConsumer.slot \in Nat \ {0} /\ sConsumer.slot <= sClock
      /\ sConsumer.revision \in Nat \ {0}
      BY DEF TypeInv, QueueInv, Consumers, CandlesInv
<1>3. \A s \in {"warming", "stale"} : RowIsSound([row EXCEPT !.status = s], sClock)
      BY <1>1 DEF RowIsSound, Rows
<1>4. \A now \in Compared : RowIsSound(Signals!Stored(now), sClock)
      BY <1>2 DEF RowIsSound, Rows, Signals!Stored, Compared
<1>5. RowIsSound(Signals!Evaluated(p), sClock)
      BY <1>1, <1>3, <1>4 DEF Signals!Evaluated, Compared
<1>6. QED
      BY <1>3, <1>5 DEF Signals!Suspended

LEMMA TypesInductive == TypeInv /\ [Signals!Next]_(Signals!vars) => TypeInv'
<1> SUFFICES ASSUME TypeInv, [Signals!Next]_(Signals!vars) PROVE TypeInv'
    OBVIOUS
<1>0. /\ CandlesInv /\ QueueInv /\ RowsInv /\ sEvents \subseteq Occurrences
      /\ sClock \in Nat /\ sClock \in 0 .. LastSlot /\ LastSlot \in Nat /\ sTrouble \in Nat
      /\ sConsumer \in Consumers
      BY PresetTypes DEF TypeInv, CandlesInv, QueueInv
<1>1. CASE UNCHANGED Signals!vars
  <2>1. RowsInv' /\ QueueInv'
        BY <1>0, <1>1, RowsStay, QueueEmpties DEF Signals!vars
  <2>2. QED
        BY <1>0, <1>1, <2>1 DEF Signals!vars, TypeInv, CandlesInv, Signals!Unsafe, Signals!Slots
<1>2. ASSUME NEW close \in Closes, Signals!CandleCloses(close) PROVE TypeInv'
  <2>1. /\ sClock + 1 \in Signals!Slots /\ sClock' = sClock + 1 /\ Len(sQueue) < QueueSize
        /\ sCandles' = [sCandles EXCEPT ![sClock + 1] = [revision |-> 1, close |-> close]]
        /\ sQueue' = Append(sQueue, [slot |-> sClock + 1, revision |-> 1])
        /\ UNCHANGED <<sMarket, sVerdict, sPreset, sState, sConsumer, sEvents, sTrouble>>
        BY <1>0, <1>2 DEF Signals!CandleCloses, Signals!Slots
  <2>2. CandlesInv'
        BY <1>0, <2>1 DEF CandlesInv, Signals!Slots, Signals!Unsafe
  <2>3. [slot |-> sClock + 1, revision |-> 1] \in Candidates
        BY <1>0 DEF Candidates
  <2>4. QueueInv'
        BY <1>0, <2>1, <2>3, QueueGrows
  <2>5. QED
        BY <1>0, <2>1, <2>2, <2>4, RowsStay DEF TypeInv
<1>3. ASSUME NEW close \in Closes, Signals!Backpressure(close) PROVE TypeInv'
  <2>1. /\ sClock + 1 \in Signals!Slots /\ sClock' = sClock + 1
        /\ sCandles' = [sCandles EXCEPT ![sClock + 1] = [revision |-> 1, close |-> close]]
        /\ sQueue' = <<>> /\ sConsumer' = Signals!Idle /\ sTrouble' = sTrouble + 1
        /\ UNCHANGED <<sMarket, sVerdict, sPreset, sState, sEvents>>
        BY <1>0, <1>3 DEF Signals!Backpressure, Signals!Slots, Signals!Disturb
  <2>2. CandlesInv'
        BY <1>0, <2>1 DEF CandlesInv, Signals!Slots, Signals!Unsafe
  <2>3. QueueInv'
        BY <1>0, <2>1, QueueEmpties, IdleType DEF Busy
  <2>4. QED
        BY <1>0, <2>1, <2>2, <2>3, RowsStay DEF TypeInv
<1>4. CASE Signals!CandleIsMissed
  <2>1. /\ sClock < LastSlot /\ sClock' = sClock + 1 /\ sTrouble' = sTrouble + 1
        /\ UNCHANGED <<sCandles, sMarket, sVerdict, sPreset, sState, sQueue, sConsumer, sEvents>>
        BY <1>4 DEF Signals!CandleIsMissed, Signals!Disturb
  <2>2. CandlesInv'
        BY <1>0, <2>1 DEF CandlesInv, Signals!Slots, Signals!Unsafe
  <2>3. QED
        BY <1>0, <2>1, <2>2, QueueEmpties, RowsStay DEF TypeInv
<1>5. CASE Signals!Reconnect
  <2>1. /\ sQueue' = <<>> /\ sConsumer' = Signals!Idle /\ sTrouble' = sTrouble + 1
        /\ UNCHANGED <<sCandles, sClock, sMarket, sVerdict, sPreset, sState, sEvents>>
        BY <1>5 DEF Signals!Reconnect, Signals!Disturb
  <2>2. CandlesInv'
        BY <1>0, <2>1 DEF CandlesInv, Signals!Slots, Signals!Unsafe
  <2>3. QueueInv'
        BY <1>0, <2>1, QueueEmpties, IdleType DEF Busy
  <2>4. QED
        BY <1>0, <2>1, <2>2, <2>3, RowsStay DEF TypeInv
<1>6. CASE Signals!ReconciliationEnds
  <2>1. /\ sMarket' \in Signals!Unsafe \cup {"live"} /\ sTrouble' = sTrouble + 1
        /\ UNCHANGED <<sCandles, sClock, sPreset, sState, sQueue, sConsumer, sEvents>>
        BY <1>6 DEF Signals!ReconciliationEnds, Signals!Disturb, Signals!Unsafe
  <2>2. CandlesInv'
        BY <1>0, <2>1 DEF CandlesInv, Signals!Slots, Signals!Unsafe
  <2>3. QED
        BY <1>0, <2>1, <2>2, QueueEmpties, RowsStay DEF TypeInv
<1>7. ASSUME NEW s \in Signals!Slots, NEW close \in Closes, Signals!CandleIsRepaired(s, close)
      PROVE  TypeInv'
  <2>1. /\ sCandles' = [sCandles EXCEPT ![s] = [revision |-> 1, close |-> close]]
        /\ UNCHANGED <<sClock, sMarket, sVerdict, sPreset, sState, sQueue, sConsumer, sEvents, sTrouble>>
        BY <1>7 DEF Signals!CandleIsRepaired
  <2>2. CandlesInv'
        BY <1>0, <2>1 DEF CandlesInv, Signals!Slots, Signals!Unsafe
  <2>3. QED
        BY <1>0, <2>1, <2>2, QueueEmpties, RowsStay DEF TypeInv
<1>8. ASSUME NEW s \in Signals!Slots, NEW close \in Closes, Signals!CandleIsCorrected(s, close)
      PROVE  TypeInv'
  <2>1. /\ s <= sClock /\ Len(sQueue) < QueueSize /\ sTrouble' = sTrouble + 1
        /\ sCandles' = [sCandles EXCEPT ![s] = [revision |-> @.revision + 1, close |-> close]]
        /\ sQueue' = Append(sQueue, [slot |-> s, revision |-> sCandles[s].revision + 1])
        /\ UNCHANGED <<sClock, sMarket, sVerdict, sPreset, sState, sConsumer, sEvents>>
        BY <1>8 DEF Signals!CandleIsCorrected, Signals!Disturb
  <2>2. sCandles[s].revision \in Nat /\ s \in Nat \ {0}
        BY <1>0 DEF CandlesInv, Signals!Slots
  <2>3. CandlesInv'
        BY <1>0, <2>1, <2>2 DEF CandlesInv, Signals!Slots, Signals!Unsafe
  <2>4. [slot |-> s, revision |-> sCandles[s].revision + 1] \in Candidates
        BY <2>2 DEF Candidates
  <2>5. QueueInv'
        BY <1>0, <2>1, <2>4, QueueGrows
  <2>6. QED
        BY <1>0, <2>1, <2>3, <2>5, RowsStay DEF TypeInv
<1>9. ASSUME NEW p \in Presets, Signals!PresetIsDisabled(p) PROVE TypeInv'
  <2>1. /\ sPreset' = [sPreset EXCEPT ![p] = "disabled"] /\ sTrouble' = sTrouble + 1
        /\ UNCHANGED <<sCandles, sClock, sMarket, sVerdict, sState, sQueue, sConsumer, sEvents>>
        BY <1>9 DEF Signals!PresetIsDisabled, Signals!Disturb
  <2>2. CandlesInv'
        BY <1>0, <2>1 DEF CandlesInv, Signals!Slots, Signals!Unsafe
  <2>3. QED
        BY <1>0, <2>1, <2>2, QueueEmpties, RowsStay DEF TypeInv
<1>10. ASSUME NEW p \in Presets, Signals!ReconcileDisabled(p) PROVE TypeInv'
  <2>1. /\ sState' = [sState EXCEPT ![p].status = "disabled"]
        /\ UNCHANGED <<sCandles, sClock, sMarket, sVerdict, sPreset, sQueue, sConsumer, sEvents, sTrouble>>
        BY <1>10 DEF Signals!ReconcileDisabled
  <2>2. CandlesInv' /\ QueueInv'
        BY <1>0, <2>1, QueueEmpties DEF CandlesInv, Signals!Slots, Signals!Unsafe
  <2>3. RowIsSound([sState[p] EXCEPT !.status = "disabled"], sClock)
        BY <1>0 DEF RowsInv, RowIsSound, Rows
  <2>4. sState' = [q \in Presets |-> IF q = p THEN [sState[p] EXCEPT !.status = "disabled"]
                                    ELSE sState[q]]
        BY <1>0, <2>1 DEF RowsInv
  <2>5. \A q \in Presets : RowIsSound(sState'[q], sClock)
        BY <1>0, <2>3, <2>4 DEF RowsInv
  <2>6. RowsInv'
        BY <2>1, <2>4, <2>5 DEF RowsInv, RowIsSound
  <2>7. QED
        BY <1>0, <2>1, <2>2, <2>6 DEF TypeInv
<1>11. CASE Signals!RecordCandle
  <2>1. /\ sQueue # <<>> /\ sQueue' = Tail(sQueue)
        /\ sConsumer' = [Signals!Idle EXCEPT !.phase = "recorded", !.slot = Head(sQueue).slot,
                                    !.revision = Head(sQueue).revision]
        /\ sMarket' \in {"live", "stale"} /\ sTrouble' \in {sTrouble, sTrouble + 1}
        /\ UNCHANGED <<sCandles, sClock, sVerdict, sPreset, sState, sEvents>>
        BY <1>11 DEF Signals!RecordCandle, Signals!Disturb
  <2>2. CandlesInv'
        BY <1>0, <2>1 DEF CandlesInv, Signals!Slots, Signals!Unsafe
  <2>3. /\ sQueue \in Seq(Candidates) /\ Len(sQueue) \in Nat /\ Len(sQueue) > 0
        /\ Head(sQueue) = sQueue[1] /\ sQueue[1] \in Candidates
        BY <1>0, <2>1 DEF QueueInv
  <2>4. /\ sQueue' \in Seq(Candidates) /\ Len(sQueue') = Len(sQueue) - 1
        /\ \A i \in 1 .. Len(sQueue') : sQueue'[i] = sQueue[i + 1]
        BY <2>1, <2>3
  <2>5. sConsumer' = [phase |-> "recorded", slot |-> sQueue[1].slot,
                     revision |-> sQueue[1].revision, presets |-> {}, unsafe |-> FALSE]
        BY <2>1, <2>3 DEF Signals!Idle
  <2>6. /\ sQueue[1].slot \in Nat \ {0} /\ sQueue[1].revision \in Nat \ {0}
        /\ sQueue[1].slot <= sClock
        BY <1>0, <2>3 DEF Candidates, QueueInv
  <2>7. sConsumer' \in Consumers
        BY <2>5, <2>6 DEF Consumers
  <2>8. QueueInv'
        BY <1>0, <2>1, <2>3, <2>4, <2>5, <2>6, <2>7, PresetTypes DEF QueueInv
  <2>9. QED
        BY <1>0, <2>1, <2>2, <2>8, RowsStay DEF TypeInv
<1>12. CASE Signals!ReadCandle
  <2>1. /\ Busy /\ UNCHANGED <<sCandles, sClock, sMarket, sVerdict, sPreset, sState, sQueue, sEvents, sTrouble>>
        /\ sConsumer' = Signals!Idle
           \/ sConsumer' = [sConsumer EXCEPT !.phase = "taken",
                             !.presets = {p \in Presets : sPreset[p] = "active"},
                             !.unsafe = sMarket \in Signals!Unsafe]
        BY <1>12 DEF Signals!ReadCandle, Busy
  <2>2. CandlesInv'
        BY <1>0, <2>1 DEF CandlesInv, Signals!Slots, Signals!Unsafe
  <2>3. QueueInv'
    <3>1. CASE sConsumer' = Signals!Idle
          BY <1>0, <2>1, <3>1, QueueEmpties, IdleType DEF Busy
    <3>2. CASE sConsumer' = [sConsumer EXCEPT !.phase = "taken",
                              !.presets = {p \in Presets : sPreset[p] = "active"},
                              !.unsafe = sMarket \in Signals!Unsafe]
      <4>a. PICK asked : asked = {p \in Presets : sPreset[p] = "active"}
            OBVIOUS
      <4>b. (sMarket \in Signals!Unsafe) \in BOOLEAN
            BY SMT
      <4>c. sConsumer' = [sConsumer EXCEPT !.phase = "taken", !.presets = asked,
                                         !.unsafe = sMarket \in Signals!Unsafe]
            BY <3>2, <4>a
      <4>1. /\ sConsumer' \in Consumers /\ sConsumer'.slot = sConsumer.slot
            /\ sConsumer'.revision = sConsumer.revision
            BY <1>0, <4>a, <4>b, <4>c DEF Consumers
      <4>2. QED
            BY <1>0, <2>1, <4>1 DEF QueueInv
    <3>3. QED
          BY <2>1, <3>1, <3>2
  <2>4. QED
        BY <1>0, <2>1, <2>2, <2>3, RowsStay DEF TypeInv
<1>13. CASE Signals!EvaluateCandle
  <2>1. /\ Busy /\ sConsumer' = Signals!Idle
        /\ sState' = [p \in Presets |->
              IF p \notin sConsumer.presets THEN sState[p]
              ELSE IF sConsumer.unsafe THEN Signals!Suspended(sState[p]) ELSE Signals!NextState(p)]
        /\ sEvents' = sEvents \cup
              {Signals!Occurrence(p) : p \in {q \in sConsumer.presets : ~sConsumer.unsafe /\ Signals!Triggers(q)}}
        /\ UNCHANGED <<sCandles, sClock, sMarket, sVerdict, sPreset, sQueue, sTrouble>>
        BY <1>13 DEF Signals!EvaluateCandle, Busy
  <2>2. CandlesInv' /\ QueueInv'
        BY <1>0, <2>1, QueueEmpties, IdleType DEF CandlesInv, Signals!Slots, Signals!Unsafe, Busy
  <2>3. \A p \in Presets : RowIsSound(sState'[p], sClock)
        BY <1>0, <2>1, EvaluatedIsSound DEF RowsInv, Signals!NextState
  <2>4. RowsInv'
        BY <2>1, <2>3 DEF RowsInv, RowIsSound
  <2>5. \A p \in Presets : Signals!Occurrence(p) \in Occurrences
        BY <1>0, <2>1 DEF Signals!Occurrence, Occurrences, RowsInv, Rows, Consumers
  <2>6. sEvents' \subseteq Occurrences
        BY <1>0, <2>1, <2>5 DEF Consumers
  <2>7. QED
        BY <2>2, <2>4, <2>6 DEF TypeInv
<1>14. CASE Signals!SinkFails
  <2>1. /\ sConsumer' = [Signals!Idle EXCEPT !.phase = "dead"] /\ sTrouble' = sTrouble + 1
        /\ UNCHANGED <<sCandles, sClock, sMarket, sVerdict, sPreset, sState, sQueue, sEvents>>
        BY <1>14 DEF Signals!SinkFails, Signals!Disturb
  <2>2. sConsumer' \in Consumers /\ ~Busy'
        BY <2>1 DEF Signals!Idle, Consumers, Busy
  <2>3. CandlesInv' /\ QueueInv'
        BY <1>0, <2>1, <2>2, QueueEmpties DEF CandlesInv, Signals!Slots, Signals!Unsafe
  <2>4. QED
        BY <1>0, <2>1, <2>3, RowsStay DEF TypeInv
<1>15. QED
       BY <1>1, <1>2, <1>3, <1>4, <1>5, <1>6, <1>7, <1>8, <1>9, <1>10, <1>11, <1>12, <1>13,
          <1>14 DEF Signals!Next

-----------------------------------------------------------------------------
(* Occurrences *)

Side(p) == IF p.direction = "cross_above" THEN "above" ELSE "below"

\* No occurrence is ahead of its row; after the one at the row's candle the relation is on
\* the side that was crossed to.
BehindRow(e, row) ==
    /\ e.slot # 0 /\ e.slot <= row.slot
    /\ e.slot = row.slot => row.relation = Side(e.preset)

OccurrencesInv ==
    /\ \A e \in sEvents : BehindRow(e, sState[e.preset])
    /\ Signals!OncePerCandle
    /\ Signals!OccurrencesAlternate

LEMMA CrossingType ==
    ASSUME NEW p \in Presets, NEW before, NEW now
    PROVE  Signals!Crosses(p.direction, before, now) <=> before # Side(p) /\ now = Side(p)
BY PresetTypes DEF Signals!Crosses, Side

\* What a judged candle does to a row: it goes on to the candle, or stays where it is.
LEMMA EvaluatedMoves ==
    ASSUME TypeInv, Busy, NEW p \in Presets
    PROVE  \/ /\ Signals!Evaluated(p).slot = sState[p].slot
              /\ Signals!Evaluated(p).relation = sState[p].relation
              /\ ~Signals!Triggers(p)
           \/ /\ Signals!Evaluated(p) = Signals!Stored(Signals!Calculation(p, sConsumer.slot))
              /\ sConsumer.slot > sState[p].slot
<1> DEFINE row == sState[p]
<1> DEFINE now == Signals!Calculation(p, sConsumer.slot)
<1>1. row \in Rows /\ RowIsSound(row, sClock) /\ row.slot \in Nat /\ sConsumer.slot \in Nat
      BY DEF TypeInv, RowsInv, Rows, QueueInv, Consumers
<1>2. CASE Signals!Skips(row)
      BY <1>2 DEF Signals!Evaluated, Signals!Triggers
<1>3. CASE ~Signals!Skips(row) /\ now \notin Compared
  <2>1. Signals!Evaluated(p) = [row EXCEPT !.status = "warming"]
        BY <1>3 DEF Signals!Evaluated, Compared
  <2>2. ~Signals!Triggers(p)
        BY <1>3, CrossingType DEF Signals!Triggers, Compared, Side
  <2>3. QED
        BY <1>1, <2>1, <2>2 DEF Rows
<1>4. CASE ~Signals!Skips(row) /\ now \in Compared /\ Signals!IsCorrection(row)
  <2>1. Signals!Evaluated(p) = [row EXCEPT !.status = "stale"]
        BY <1>4 DEF Signals!Evaluated, Compared
  <2>2. ~Signals!Triggers(p)
        BY <1>4 DEF Signals!Triggers
  <2>3. QED
        BY <1>1, <2>1, <2>2 DEF Rows
<1>5. CASE ~Signals!Skips(row) /\ now \in Compared /\ ~Signals!IsCorrection(row)
  <2>1. Signals!Evaluated(p) = Signals!Stored(now)
        BY <1>5 DEF Signals!Evaluated, Compared
  <2>2. sConsumer.slot >= row.slot
        BY <1>1, <1>5 DEF Signals!Skips, Signals!IsOlder
  <2>3. sConsumer.slot # row.slot
    <3>1. sConsumer.slot # 0
          BY DEF TypeInv, QueueInv, CandlesInv
    <3>2. row.slot # 0 => row.revision # 0
          BY <1>1 DEF RowIsSound
    <3>3. QED
          BY <1>5, <3>1, <3>2 DEF Signals!IsCorrection
  <2>4. QED
        BY <1>1, <2>1, <2>2, <2>3
<1>6. QED
      BY <1>2, <1>3, <1>4, <1>5

\* Steps that leave slot and relation of every row, and the occurrences.
LEMMA OccurrencesStay ==
    ASSUME OccurrencesInv, TypeInv, sEvents' = sEvents,
           \A p \in Presets : /\ sState'[p].slot = sState[p].slot
                              /\ sState'[p].relation = sState[p].relation
    PROVE  OccurrencesInv'
<1>1. \A e \in sEvents : e.preset \in Presets
      BY DEF TypeInv, Occurrences
<1>2. QED
      BY <1>1 DEF OccurrencesInv, BehindRow, Signals!OncePerCandle, Signals!OccurrencesAlternate

LEMMA EvaluateKeepsOccurrences ==
    ASSUME TypeInv, OccurrencesInv, Signals!EvaluateCandle
    PROVE  OccurrencesInv'
<1> DEFINE hit == {q \in sConsumer.presets : ~sConsumer.unsafe /\ Signals!Triggers(q)}
<1>1. /\ Busy
      /\ sState' = [p \in Presets |->
              IF p \notin sConsumer.presets THEN sState[p]
              ELSE IF sConsumer.unsafe THEN Signals!Suspended(sState[p]) ELSE Signals!NextState(p)]
      /\ sEvents' = sEvents \cup {Signals!Occurrence(p) : p \in hit}
      BY DEF Signals!EvaluateCandle, Busy
<1>2. /\ sConsumer.slot \in Nat \ {0} /\ sConsumer.presets \subseteq Presets
      /\ \A p \in Presets : sState[p] \in Rows /\ sState[p].slot \in Nat
      /\ \A e \in sEvents : e.preset \in Presets /\ e.slot \in Nat /\ e.since \in Nat
      BY <1>1 DEF TypeInv, QueueInv, CandlesInv, Consumers, RowsInv, Rows, Occurrences
<1>3. ASSUME NEW p \in Presets
      PROVE  \/ /\ sState'[p].slot = sState[p].slot
                /\ sState'[p].relation = sState[p].relation
                /\ p \notin hit
             \/ /\ sState'[p].slot = sConsumer.slot
                /\ sState'[p].relation = Signals!Calculation(p, sConsumer.slot)
                /\ sConsumer.slot > sState[p].slot
  <2>1. CASE p \notin sConsumer.presets
        BY <1>1, <2>1
  <2>2. CASE p \in sConsumer.presets /\ sConsumer.unsafe
    <3>1. sState'[p] = [sState[p] EXCEPT !.status = "stale"]
          BY <1>1, <2>2 DEF Signals!Suspended
    <3>2. QED
          BY <1>2, <2>2, <3>1 DEF Rows
  <2>3. CASE p \in sConsumer.presets /\ ~sConsumer.unsafe
    <3>1. sState'[p] = Signals!Evaluated(p)
          BY <1>1, <2>3 DEF Signals!NextState
    <3>2. QED
          BY <1>1, <2>3, <3>1, EvaluatedMoves DEF Signals!Stored
  <2>4. QED
        BY <2>1, <2>2, <2>3
<1>4. ASSUME NEW p \in hit
      PROVE  /\ p \in Presets /\ sState'[p].slot = sConsumer.slot
             /\ sState'[p].relation = Side(p) /\ sState[p].relation # Side(p)
             /\ sConsumer.slot > sState[p].slot
             /\ Signals!Occurrence(p).preset = p /\ Signals!Occurrence(p).slot = sConsumer.slot
             /\ Signals!Occurrence(p).since = sState[p].slot
  <2>1. p \in Presets /\ Signals!Triggers(p)
        BY <1>2
  <2>2. sState[p].relation # Side(p) /\ Signals!Calculation(p, sConsumer.slot) = Side(p)
        BY <2>1, CrossingType DEF Signals!Triggers
  <2>3. QED
        BY <1>3, <2>1, <2>2 DEF Signals!Occurrence
<1> HIDE DEF hit
<1>5. ASSUME NEW e \in sEvents'
      PROVE  \/ e \in sEvents
             \/ /\ e.preset \in hit /\ e = Signals!Occurrence(e.preset)
      BY <1>1, <1>4
<1>6. ASSUME NEW e \in sEvents' PROVE BehindRow(e, sState'[e.preset])
  <2>1. CASE e \in sEvents
    <3>1. e.preset \in Presets /\ BehindRow(e, sState[e.preset]) /\ e.slot \in Nat
          BY <1>2, <2>1 DEF OccurrencesInv
    <3>2. QED
          BY <1>2, <1>3, <3>1 DEF BehindRow
  <2>2. CASE e.preset \in hit /\ e = Signals!Occurrence(e.preset)
        BY <1>2, <1>4, <2>2 DEF BehindRow
  <2>3. QED
        BY <1>5, <2>1, <2>2
<1>7. ASSUME NEW e \in sEvents, NEW f, f.preset \in hit, f = Signals!Occurrence(f.preset),
             e.preset = f.preset
      PROVE  e.slot < f.slot /\ f.since > e.slot
  <2>1. e.slot <= sState[e.preset].slot /\ e.slot = sState[e.preset].slot =>
            sState[e.preset].relation = Side(e.preset)
        BY DEF OccurrencesInv, BehindRow
  <2>2. /\ f.slot = sConsumer.slot /\ f.since = sState[f.preset].slot
        /\ sConsumer.slot > sState[f.preset].slot /\ sState[f.preset].relation # Side(f.preset)
        BY <1>4, <1>7
  <2>3. /\ e.slot \in Nat /\ sState[e.preset].slot \in Nat /\ e.slot <= sState[e.preset].slot
        BY <1>2 DEF OccurrencesInv, BehindRow
  <2>4. QED
        BY <1>2, <1>7, <2>1, <2>2, <2>3
<1>8. Signals!OncePerCandle'
  <2>1. ASSUME NEW e \in sEvents', NEW f \in sEvents', e.preset = f.preset, e.slot = f.slot
        PROVE  e = f
    <3>1. CASE e \in sEvents /\ f \in sEvents
          BY <2>1, <3>1 DEF OccurrencesInv, Signals!OncePerCandle
    <3>2. CASE e \in sEvents /\ f \notin sEvents
      <4>1. e.slot < f.slot /\ e.slot \in Nat
            BY <1>2, <1>5, <1>7, <2>1, <3>2
      <4>2. QED
            BY <2>1, <4>1
    <3>3. CASE e \notin sEvents /\ f \in sEvents
      <4>1. f.slot < e.slot /\ f.slot \in Nat
            BY <1>2, <1>5, <1>7, <2>1, <3>3
      <4>2. QED
            BY <2>1, <4>1
    <3>4. CASE e \notin sEvents /\ f \notin sEvents
          BY <1>5, <2>1, <3>4
    <3>5. QED
          BY <3>1, <3>2, <3>3, <3>4
  <2>2. QED
        BY <2>1 DEF Signals!OncePerCandle
<1>9. Signals!OccurrencesAlternate'
  <2>1. ASSUME NEW e \in sEvents', NEW f \in sEvents', e.preset = f.preset, e.slot < f.slot
        PROVE  f.since > e.slot
    <3>1. CASE e \in sEvents /\ f \in sEvents
          BY <2>1, <3>1 DEF OccurrencesInv, Signals!OccurrencesAlternate
    <3>2. CASE e \in sEvents /\ f \notin sEvents
          BY <1>5, <1>7, <2>1, <3>2
    <3>3. CASE e \notin sEvents /\ f \in sEvents
      <4>1. f.slot < e.slot /\ f.slot \in Nat /\ e.slot \in Nat
            BY <1>2, <1>4, <1>5, <1>7, <2>1, <3>3
      <4>2. QED
            BY <2>1, <4>1
    <3>4. CASE e \notin sEvents /\ f \notin sEvents
      <4>1. e.slot = sConsumer.slot /\ f.slot = sConsumer.slot
            BY <1>4, <1>5, <3>4
      <4>2. QED
            BY <1>2, <2>1, <4>1
    <3>5. QED
          BY <3>1, <3>2, <3>3, <3>4
  <2>2. QED
        BY <2>1 DEF Signals!OccurrencesAlternate
<1>10. QED
       BY <1>6, <1>8, <1>9 DEF OccurrencesInv

LEMMA OccurrencesInductive == TypeInv /\ OccurrencesInv /\ [Signals!Next]_(Signals!vars) => OccurrencesInv'
<1> SUFFICES ASSUME TypeInv, OccurrencesInv, [Signals!Next]_(Signals!vars) PROVE OccurrencesInv'
    OBVIOUS
<1>1. CASE Signals!EvaluateCandle
      BY <1>1, EvaluateKeepsOccurrences
<1>2. ASSUME NEW p \in Presets, Signals!ReconcileDisabled(p) PROVE OccurrencesInv'
  <2>1. sState' = [sState EXCEPT ![p].status = "disabled"] /\ sEvents' = sEvents
        BY <1>2 DEF Signals!ReconcileDisabled
  <2>2. sState \in [Presets -> Rows]
        BY DEF TypeInv, RowsInv
  <2>3. \A q \in Presets : /\ sState'[q].slot = sState[q].slot
                           /\ sState'[q].relation = sState[q].relation
        BY <2>1, <2>2 DEF Rows
  <2>4. QED
        BY <2>1, <2>3, OccurrencesStay
<1>3. CASE sState' = sState /\ sEvents' = sEvents
      BY <1>3, OccurrencesStay
<1>4. QED
  <2>1. ASSUME NEW close \in Closes, Signals!CandleCloses(close) \/ Signals!Backpressure(close)
        PROVE  sState' = sState /\ sEvents' = sEvents
        BY <2>1 DEF Signals!CandleCloses, Signals!Backpressure
  <2>2. ASSUME Signals!CandleIsMissed \/ Signals!Reconnect \/ Signals!ReconciliationEnds
        PROVE  sState' = sState /\ sEvents' = sEvents
        BY <2>2 DEF Signals!CandleIsMissed, Signals!Reconnect, Signals!ReconciliationEnds
  <2>3. ASSUME NEW s \in Signals!Slots, NEW close \in Closes,
               Signals!CandleIsRepaired(s, close) \/ Signals!CandleIsCorrected(s, close)
        PROVE  sState' = sState /\ sEvents' = sEvents
        BY <2>3 DEF Signals!CandleIsRepaired, Signals!CandleIsCorrected
  <2>4. ASSUME NEW p \in Presets, Signals!PresetIsDisabled(p)
        PROVE  sState' = sState /\ sEvents' = sEvents
        BY <2>4 DEF Signals!PresetIsDisabled
  <2>5. ASSUME Signals!RecordCandle \/ Signals!ReadCandle \/ Signals!SinkFails
        PROVE  sState' = sState /\ sEvents' = sEvents
        BY <2>5 DEF Signals!RecordCandle, Signals!ReadCandle, Signals!SinkFails
  <2>6. CASE UNCHANGED Signals!vars
        BY <1>3, <2>6 DEF Signals!vars
  <2>7. QED
        BY <1>1, <1>2, <1>3, <2>1, <2>2, <2>3, <2>4, <2>5, <2>6 DEF Signals!Next

-----------------------------------------------------------------------------
(* As long as nothing goes wrong *)

InHand == IF Busy THEN 1 ELSE 0

\* The row of a preset that has judged every candle up to d.
JudgedRow(p, d) ==
    IF d < Signals!Required(p.strategy) THEN Signals!Fresh
    ELSE [status |-> "ready", slot |-> d, revision |-> 1, relation |-> Signals!Calculation(p, d)]

EventSlots(p) == {e.slot : e \in {f \in sEvents : f.preset = p}}
CrossingsTo(p, d) == {s \in 2 .. d : Signals!CrossingAt(p, s)}

\* Candles up to d are judged, the next one is in hand or not, the others queue.
CalmAt(d) ==
    /\ d + InHand + Len(sQueue) = sClock
    /\ \A s \in 1 .. sClock : sCandles[s].revision = 1
    /\ sMarket = "live" /\ sConsumer.phase # "dead"
    /\ \A i \in 1 .. Len(sQueue) : sQueue[i].slot = d + InHand + i /\ sQueue[i].revision = 1
    /\ Busy => sConsumer.slot = d + 1 /\ sConsumer.revision = 1
    /\ sConsumer.phase = "taken" => sConsumer.presets = Presets /\ ~sConsumer.unsafe
    /\ \A p \in Presets : /\ sPreset[p] = "active"
                          /\ sState[p] = JudgedRow(p, d)
                          /\ EventSlots(p) = CrossingsTo(p, sState[p].slot)

CalmInv == sTrouble = 0 => \E d \in Nat : CalmAt(d)

LEMMA CalmIsWhole ==
    ASSUME TypeInv, NEW d \in Nat, CalmAt(d)
    PROVE  /\ d <= sClock /\ sClock \in Nat /\ Whole(sClock)
           /\ \A s \in 0 .. sClock : Whole(s)
<1>1. sClock \in Nat /\ sClock <= LastSlot /\ Len(sQueue) \in Nat /\ LastSlot \in Nat
      BY PresetTypes, QueueFields DEF TypeInv, CandlesInv, QueueInv
<1>2. PICK held \in {0, 1} : held = InHand
      BY DEF InHand
<1>3. d + held + Len(sQueue) = sClock
      BY <1>2 DEF CalmAt
<1>4. \A t \in 1 .. sClock : Signals!IsComplete(t)
      BY <1>1 DEF CalmAt, Signals!IsComplete, Signals!Slots
<1>5. QED
      BY <1>1, <1>3, <1>4 DEF Whole

LEMMA CrossingsStay ==
    ASSUME NEW p \in Presets, NEW d \in Nat, Whole(d), \A t \in 1 .. d : sCandles'[t] = sCandles[t]
    PROVE  /\ JudgedRow(p, d)' = JudgedRow(p, d)
           /\ CrossingsTo(p, d)' = CrossingsTo(p, d)
           /\ CrossingsTo(p, 0)' = CrossingsTo(p, 0)
<1>1. Signals!Calculation(p, d)' = Signals!Calculation(p, d)
      BY CalculationStays
<1>2. JudgedRow(p, d)' = JudgedRow(p, d)
      BY <1>1 DEF JudgedRow
<1>3. ASSUME NEW s \in 2 .. d PROVE Signals!CrossingAt(p, s)' <=> Signals!CrossingAt(p, s)
  <2>1. s \in Nat /\ s - 1 \in Nat /\ s <= d
        OBVIOUS
  <2>2. Whole(s) /\ Whole(s - 1)
        BY <2>1 DEF Whole
  <2>3. /\ \A t \in 1 .. s : sCandles'[t] = sCandles[t]
        /\ \A t \in 1 .. (s - 1) : sCandles'[t] = sCandles[t]
        BY <2>1
  <2>4. Signals!Calculation(p, s)' = Signals!Calculation(p, s)
        BY <2>1, <2>2, <2>3, CalculationStays
  <2>5. PICK r \in Nat : r = s - 1
        BY <2>1
  <2>6. Signals!Calculation(p, r)' = Signals!Calculation(p, r)
        BY <2>2, <2>3, <2>5, CalculationStays
  <2>7. QED
        BY <2>4, <2>5, <2>6 DEF Signals!CrossingAt
<1>4. CrossingsTo(p, d)' = CrossingsTo(p, d)
      BY <1>3 DEF CrossingsTo
<1>5. CrossingsTo(p, 0)' = CrossingsTo(p, 0)
      BY DEF CrossingsTo
<1>6. QED
      BY <1>2, <1>4, <1>5

LEMMA JudgedSlot ==
    ASSUME NEW p \in Presets, NEW d \in Nat
    PROVE  JudgedRow(p, d).slot \in {0, d}
BY DEF JudgedRow, Signals!Fresh

LEMMA CalmInitially == Signals!Init => CalmInv
<1> SUFFICES ASSUME Signals!Init PROVE CalmAt(0)
    BY DEF CalmInv
<1>1. /\ sClock = 0 /\ sQueue = <<>> /\ sConsumer = Signals!Idle /\ sMarket = "live" /\ sEvents = {}
      /\ \A p \in Presets : sPreset[p] = "active" /\ sState[p] = Signals!Fresh
      BY DEF Signals!Init
<1>2. InHand = 0 /\ ~Busy /\ sConsumer.phase = "idle"
      BY <1>1 DEF InHand, Busy, Signals!Idle
<1>3. \A p \in Presets : JudgedRow(p, 0) = Signals!Fresh
      BY PresetTypes DEF JudgedRow
<1>4. \A p \in Presets : EventSlots(p) = {} /\ CrossingsTo(p, sState[p].slot) = {}
      BY <1>1 DEF EventSlots, CrossingsTo, Signals!Fresh
<1>5. Len(sQueue) = 0 /\ 1 .. sClock = {} /\ 1 .. Len(sQueue) = {}
      BY <1>1
<1>6. 0 + InHand + Len(sQueue) = sClock
      BY <1>1, <1>2, <1>5
<1>7. QED
      BY <1>1, <1>2, <1>3, <1>4, <1>5, <1>6 DEF CalmAt

\* Steps after which rows, occurrences and judged candles are the same.
LEMMA CalmRowsStay ==
    ASSUME TypeInv, NEW d \in Nat, CalmAt(d), sState' = sState, sEvents' = sEvents,
           sPreset' = sPreset, \A t \in 1 .. sClock : sCandles'[t] = sCandles[t]
    PROVE  \A p \in Presets : /\ sPreset'[p] = "active"
                              /\ sState'[p] = JudgedRow(p, d)'
                              /\ EventSlots(p)' = CrossingsTo(p, sState[p].slot)'
<1>1. TAKE p \in Presets
<1>2. /\ sPreset[p] = "active" /\ sState[p] = JudgedRow(p, d)
      /\ EventSlots(p) = CrossingsTo(p, sState[p].slot)
      BY DEF CalmAt
<1>3. Whole(d) /\ \A t \in 1 .. d : sCandles'[t] = sCandles[t]
      BY CalmIsWhole
<1>4. /\ JudgedRow(p, d)' = JudgedRow(p, d)
      /\ CrossingsTo(p, d)' = CrossingsTo(p, d)
      /\ CrossingsTo(p, 0)' = CrossingsTo(p, 0)
      BY <1>3, CrossingsStay
<1>5. sState[p].slot = 0 \/ sState[p].slot = d
      BY <1>2, JudgedSlot
<1>6. EventSlots(p)' = EventSlots(p)
      BY DEF EventSlots
<1>7. CrossingsTo(p, sState[p].slot)' = CrossingsTo(p, sState[p].slot)
  <2>1. CASE sState[p].slot = 0
    <3>1. sState'[p].slot = 0
          BY <2>1
    <3>2. CrossingsTo(p, sState[p].slot)' = CrossingsTo(p, 0)'
          BY <3>1 DEF CrossingsTo
    <3>3. QED
          BY <1>4, <2>1, <3>2
  <2>2. CASE sState[p].slot = d
    <3>1. sState'[p].slot = d
          BY <2>2
    <3>2. CrossingsTo(p, sState[p].slot)' = CrossingsTo(p, d)'
          BY <3>1 DEF CrossingsTo
    <3>3. QED
          BY <1>4, <2>2, <3>2
  <2>3. QED
        BY <1>5, <2>1, <2>2
<1>8. QED
      BY <1>2, <1>4, <1>6, <1>7

LEMMA CloseKeepsCalm ==
    ASSUME TypeInv, NEW d \in Nat, CalmAt(d), NEW close \in Closes, Signals!CandleCloses(close)
    PROVE  CalmAt(d)'
<1>1. /\ sClock \in Nat /\ sClock + 1 \in Signals!Slots /\ sClock' = sClock + 1
      /\ sCandles' = [sCandles EXCEPT ![sClock + 1] = [revision |-> 1, close |-> close]]
      /\ sQueue' = Append(sQueue, [slot |-> sClock + 1, revision |-> 1])
      /\ sMarket' = sMarket /\ sPreset' = sPreset /\ sState' = sState /\ sConsumer' = sConsumer
      /\ sEvents' = sEvents
      BY PresetTypes DEF Signals!CandleCloses, TypeInv, CandlesInv, Signals!Slots
<1>2. /\ sQueue \in Seq(Candidates) /\ Len(sQueue) \in Nat
      /\ sCandles \in [Signals!Slots -> [revision : Nat, close : Closes \cup {0}]]
      BY QueueFields DEF TypeInv, QueueInv, CandlesInv
<1>3. InHand' = InHand /\ (Busy' <=> Busy) /\ InHand \in {0, 1}
      BY <1>1 DEF InHand, Busy
<1>4. \A t \in 1 .. sClock : sCandles'[t] = sCandles[t]
      BY <1>1, <1>2
<1>5. \A s \in 1 .. sClock' : sCandles'[s].revision = 1
  <2>1. sCandles'[sClock + 1].revision = 1
        BY <1>1, <1>2
  <2>2. \A s \in 1 .. sClock : sCandles'[s].revision = 1
        BY <1>4 DEF CalmAt
  <2>3. QED
        BY <1>1, <2>1, <2>2
<1>6. d + InHand + Len(sQueue) = sClock
      BY DEF CalmAt
<1>7. PICK c : c = [slot |-> sClock + 1, revision |-> 1]
      OBVIOUS
<1>8. c \in Candidates /\ c.slot = sClock + 1 /\ c.revision = 1
      BY <1>1, <1>7 DEF Candidates
<1>9. /\ Len(sQueue') = Len(sQueue) + 1
      /\ \A i \in 1 .. Len(sQueue) : sQueue'[i] = sQueue[i]
      /\ sQueue'[Len(sQueue) + 1] = c
      BY <1>1, <1>2, <1>7, <1>8
<1>10. ASSUME NEW i \in 1 .. Len(sQueue')
       PROVE  sQueue'[i].slot = d + InHand + i /\ sQueue'[i].revision = 1
  <2>1. CASE i \in 1 .. Len(sQueue)
        BY <1>9, <2>1 DEF CalmAt
  <2>2. CASE i = Len(sQueue) + 1
        BY <1>2, <1>3, <1>6, <1>8, <1>9, <2>2
  <2>3. QED
        BY <1>2, <1>9, <2>1, <2>2
<1>11. d + InHand + Len(sQueue') = sClock'
  <2>1. PICK held \in {0, 1} : held = InHand
        BY <1>3
  <2>2. PICK n \in Nat : n = Len(sQueue)
        BY <1>2
  <2>3. d + held + n = sClock /\ Len(sQueue') = n + 1 /\ sClock' = sClock + 1
        BY <1>1, <1>6, <1>9, <2>1, <2>2
  <2>4. QED
        BY <2>1, <2>3
<1>12. \A p \in Presets : /\ sPreset'[p] = "active"
                          /\ sState'[p] = JudgedRow(p, d)'
                          /\ EventSlots(p)' = CrossingsTo(p, sState[p].slot)'
       BY <1>1, <1>4, CalmRowsStay
<1>13. QED
       BY <1>1, <1>3, <1>5, <1>10, <1>11, <1>12 DEF CalmAt

LEMMA RecordKeepsCalm ==
    ASSUME TypeInv, NEW d \in Nat, CalmAt(d), Signals!RecordCandle, sTrouble = 0, sTrouble' = 0
    PROVE  CalmAt(d)'
<1>1. /\ sConsumer.phase = "idle" /\ sQueue # <<>> /\ sQueue' = Tail(sQueue)
      /\ sConsumer' = [Signals!Idle EXCEPT !.phase = "recorded", !.slot = Head(sQueue).slot,
                                  !.revision = Head(sQueue).revision]
      /\ sMarket' = "live"
      /\ sCandles' = sCandles /\ sClock' = sClock /\ sPreset' = sPreset /\ sState' = sState
      /\ sEvents' = sEvents
      BY DEF Signals!RecordCandle, Signals!Disturb
<1>2. /\ sQueue \in Seq(Candidates) /\ Len(sQueue) \in Nat /\ Len(sQueue) > 0
      /\ Head(sQueue) = sQueue[1] /\ sClock \in Nat
      BY <1>1, PresetTypes DEF TypeInv, QueueInv, CandlesInv
<1>3. /\ Len(sQueue') = Len(sQueue) - 1
      /\ \A i \in 1 .. Len(sQueue') : sQueue'[i] = sQueue[i + 1]
      BY <1>1, <1>2
<1>4. sConsumer' = [phase |-> "recorded", slot |-> sQueue[1].slot,
                   revision |-> sQueue[1].revision, presets |-> {}, unsafe |-> FALSE]
      BY <1>1, <1>2 DEF Signals!Idle
<1>5. InHand = 0 /\ InHand' = 1 /\ Busy'
      BY <1>1, <1>4 DEF InHand, Busy
<1>6. /\ d + 0 + Len(sQueue) = sClock
      /\ \A i \in 1 .. Len(sQueue) : sQueue[i].slot = d + 0 + i /\ sQueue[i].revision = 1
      BY <1>5 DEF CalmAt
<1>7. sConsumer'.slot = d + 1 /\ sConsumer'.revision = 1
      BY <1>2, <1>4, <1>6
<1>8. ASSUME NEW i \in 1 .. Len(sQueue')
      PROVE  sQueue'[i].slot = d + 1 + i /\ sQueue'[i].revision = 1
  <2>1. i + 1 \in 1 .. Len(sQueue) /\ sQueue'[i] = sQueue[i + 1]
        BY <1>2, <1>3
  <2>2. QED
        BY <1>6, <2>1
<1>9. d + 1 + Len(sQueue') = sClock'
      BY <1>1, <1>2, <1>3, <1>6
<1>10. \A p \in Presets : /\ sPreset'[p] = "active"
                          /\ sState'[p] = JudgedRow(p, d)'
                          /\ EventSlots(p)' = CrossingsTo(p, sState[p].slot)'
       BY <1>1, CalmRowsStay
<1>11. \A s \in 1 .. sClock' : sCandles'[s].revision = 1
       BY <1>1 DEF CalmAt
<1>12. QED
       BY <1>1, <1>4, <1>5, <1>7, <1>8, <1>9, <1>10, <1>11 DEF CalmAt

LEMMA ReadKeepsCalm ==
    ASSUME TypeInv, NEW d \in Nat, CalmAt(d), Signals!ReadCandle
    PROVE  CalmAt(d)'
<1>1. /\ sConsumer.phase = "recorded" /\ Busy
      /\ sConsumer' = IF sCandles[sConsumer.slot].revision # sConsumer.revision THEN Signals!Idle
                     ELSE [sConsumer EXCEPT !.phase = "taken",
                             !.presets = {p \in Presets : sPreset[p] = "active"},
                             !.unsafe = sMarket \in Signals!Unsafe]
      /\ sCandles' = sCandles /\ sClock' = sClock /\ sPreset' = sPreset /\ sState' = sState
      /\ sEvents' = sEvents /\ sMarket' = sMarket /\ sQueue' = sQueue
      BY DEF Signals!ReadCandle, Busy
<1>2. sConsumer \in Consumers /\ sConsumer.slot \in 1 .. sClock
      BY <1>1 DEF TypeInv, QueueInv
<1>3. sCandles[sConsumer.slot].revision = 1 /\ sConsumer.revision = 1 /\ sConsumer.slot = d + 1
      BY <1>1, <1>2 DEF CalmAt
<1>4. {p \in Presets : sPreset[p] = "active"} = Presets /\ sMarket \notin Signals!Unsafe
      BY DEF CalmAt, Signals!Unsafe
<1>5. sConsumer' = [sConsumer EXCEPT !.phase = "taken", !.presets = Presets,
                                   !.unsafe = sMarket \in Signals!Unsafe]
  <2>1. PICK asked : asked = {p \in Presets : sPreset[p] = "active"}
        OBVIOUS
  <2>2. sConsumer' = [sConsumer EXCEPT !.phase = "taken", !.presets = asked,
                                     !.unsafe = sMarket \in Signals!Unsafe]
        BY <1>1, <1>3, <2>1
  <2>3. QED
        BY <1>4, <2>1, <2>2
<1>6. /\ sConsumer'.phase = "taken" /\ sConsumer'.presets = Presets /\ ~sConsumer'.unsafe
      /\ sConsumer'.slot = d + 1 /\ sConsumer'.revision = 1
      BY <1>2, <1>3, <1>4, <1>5 DEF Consumers
<1>7. InHand = 1 /\ InHand' = 1 /\ Busy'
      BY <1>1, <1>6 DEF InHand, Busy
<1>8. \A p \in Presets : /\ sPreset'[p] = "active"
                         /\ sState'[p] = JudgedRow(p, d)'
                         /\ EventSlots(p)' = CrossingsTo(p, sState[p].slot)'
      BY <1>1, CalmRowsStay
<1>9. QED
      BY <1>1, <1>6, <1>7, <1>8 DEF CalmAt

\* The next candle after d, judged for one preset.
LEMMA NextIsJudged ==
    ASSUME TypeInv, NEW d \in Nat, CalmAt(d), Busy, NEW p \in Presets
    PROVE  /\ Signals!Evaluated(p) = JudgedRow(p, d + 1)
           /\ CrossingsTo(p, Signals!Evaluated(p).slot)
                = EventSlots(p) \cup (IF Signals!Triggers(p) THEN {d + 1} ELSE {})
<1> DEFINE n == Signals!Required(p.strategy)
<1> DEFINE now == Signals!Calculation(p, d + 1)
<1>1. /\ n \in Nat \ {0} /\ sState[p] = JudgedRow(p, d)
      /\ EventSlots(p) = CrossingsTo(p, sState[p].slot)
      /\ sConsumer.slot = d + 1 /\ sConsumer.revision = 1
      BY PresetTypes DEF CalmAt
<1>2. d + 1 <= sClock /\ sClock \in Nat
      BY <1>1, CalmIsWhole DEF TypeInv, QueueInv
<1>3. \A s \in 0 .. (d + 1) : s \in Nat /\ Whole(s)
      BY <1>2, CalmIsWhole
<1>4. \A s \in 0 .. (d + 1) : /\ s < n => Signals!Calculation(p, s) = "insufficient_history"
                              /\ s >= n => Signals!Calculation(p, s) \in Compared
      BY <1>3, CalculationWhole
<1>5. /\ d + 1 < n => now = "insufficient_history"
      /\ d + 1 >= n => now \in Compared
      BY <1>4
<1>6. ~Signals!Skips(sState[p]) /\ ~Signals!IsCorrection(sState[p])
  <2>1. sState[p].status # "disabled" /\ sState[p].slot \in {0, d}
        BY <1>1 DEF JudgedRow, Signals!Fresh
  <2>2. sState[p].slot # d + 1 /\ ~(d + 1 < sState[p].slot)
        BY <2>1
  <2>3. QED
        BY <1>1, <2>1, <2>2 DEF Signals!Skips, Signals!IsSilenced, Signals!IsSameCandle,
           Signals!IsOlder, Signals!IsCorrection
<1>7. Signals!Triggers(p)
          <=> sState[p].relation # "none" /\ Signals!Crosses(p.direction, sState[p].relation, now)
      BY <1>1, <1>6 DEF Signals!Triggers
<1>8. CASE d + 1 < n
  <2>1. sState[p] = Signals!Fresh /\ JudgedRow(p, d + 1) = Signals!Fresh
        BY <1>1, <1>8 DEF JudgedRow
  <2>2. Signals!Evaluated(p) = [Signals!Fresh EXCEPT !.status = "warming"]
        BY <1>1, <1>5, <1>6, <1>8, <2>1 DEF Signals!Evaluated
  <2>3. Signals!Evaluated(p) = Signals!Fresh
        BY <2>2 DEF Signals!Fresh
  <2>4. ~Signals!Triggers(p)
        BY <1>7, <2>1 DEF Signals!Fresh
  <2>5. QED
        BY <1>1, <2>1, <2>3, <2>4
<1>9. CASE d + 1 >= n
  <2>1. Signals!Evaluated(p) = JudgedRow(p, d + 1)
    <3>1. Signals!Evaluated(p) = Signals!Stored(now)
          BY <1>1, <1>5, <1>6, <1>9 DEF Signals!Evaluated, Compared
    <3>2. QED
          BY <1>1, <1>9, <3>1 DEF Signals!Stored, JudgedRow
  <2>2. Signals!Evaluated(p).slot = d + 1
        BY <1>1, <1>9, <2>1 DEF JudgedRow
  <2>3. CASE d < n
    <3>1. sState[p] = Signals!Fresh
          BY <1>1, <2>3 DEF JudgedRow
    <3>2. ~Signals!Triggers(p) /\ EventSlots(p) = {}
          BY <1>1, <1>7, <3>1 DEF Signals!Fresh, CrossingsTo
    <3>3. \A s \in 2 .. (d + 1) : ~Signals!CrossingAt(p, s)
      <4>1. ASSUME NEW s \in 2 .. (d + 1) PROVE ~Signals!CrossingAt(p, s)
        <5>1. s - 1 \in 0 .. (d + 1) /\ s - 1 < n
              BY <1>1, <2>3
        <5>2. Signals!Calculation(p, s - 1) = "insufficient_history"
              BY <1>4, <5>1
        <5>3. QED
              BY <5>2 DEF Signals!CrossingAt
      <4>2. QED
            BY <4>1
    <3>4. QED
          BY <2>1, <2>2, <3>2, <3>3 DEF CrossingsTo
  <2>4. CASE d >= n
    <3>1. sState[p].slot = d /\ sState[p].relation = Signals!Calculation(p, d)
          BY <1>1, <2>4 DEF JudgedRow
    <3>2. Signals!Calculation(p, d) \in Compared
          BY <1>4, <2>4
    <3>3. Signals!Triggers(p) <=> Signals!CrossingAt(p, d + 1)
      <4>1. Signals!Triggers(p) <=> Signals!Calculation(p, d) # Side(p) /\ now = Side(p)
            BY <1>7, <3>1, <3>2, CrossingType DEF Compared
      <4>2. d + 1 - 1 = d
            OBVIOUS
      <4>3. Signals!CrossingAt(p, d + 1)
                <=> Signals!Calculation(p, d) \in Compared \ {Side(p)} /\ now = Side(p)
            BY <4>2 DEF Signals!CrossingAt, Compared, Side
      <4>4. QED
            BY <3>2, <4>1, <4>3
    <3>4. 2 .. (d + 1) = (2 .. d) \cup {d + 1}
          BY <1>1, <2>4
    <3>5. CrossingsTo(p, d + 1) = CrossingsTo(p, d)
                                    \cup (IF Signals!CrossingAt(p, d + 1) THEN {d + 1} ELSE {})
          BY <3>4 DEF CrossingsTo
    <3>6. QED
          BY <1>1, <2>1, <2>2, <3>1, <3>3, <3>5
  <2>5. QED
        BY <1>1, <2>3, <2>4
<1>10. QED
       BY <1>1, <1>8, <1>9

LEMMA EvaluateKeepsCalm ==
    ASSUME TypeInv, NEW d \in Nat, CalmAt(d), Signals!EvaluateCandle
    PROVE  CalmAt(d + 1)'
<1>1. /\ sConsumer.phase = "taken" /\ Busy /\ sConsumer' = Signals!Idle
      /\ sConsumer.presets = Presets /\ ~sConsumer.unsafe
      /\ sCandles' = sCandles /\ sClock' = sClock /\ sMarket' = sMarket /\ sPreset' = sPreset
      /\ sQueue' = sQueue
      BY DEF Signals!EvaluateCandle, Busy, CalmAt
<1>2. \A p \in Presets : sState'[p] = Signals!Evaluated(p)
      BY <1>1 DEF Signals!EvaluateCandle, Signals!NextState
<1>3. sEvents'
          = sEvents \cup {Signals!Occurrence(p) : p \in {q \in Presets : Signals!Triggers(q)}}
      BY <1>1 DEF Signals!EvaluateCandle
<1>4. InHand = 1 /\ InHand' = 0 /\ ~Busy' /\ sConsumer'.phase = "idle"
      BY <1>1 DEF InHand, Busy, Signals!Idle
<1>5. /\ d + 1 + Len(sQueue) = sClock /\ Len(sQueue) \in Nat /\ sClock \in Nat
      /\ \A i \in 1 .. Len(sQueue) : sQueue[i].slot = d + 1 + i /\ sQueue[i].revision = 1
      BY <1>4, QueueFields, PresetTypes DEF CalmAt, TypeInv, QueueInv, CandlesInv
<1>6. \A i \in 1 .. Len(sQueue) : sQueue[i].slot = d + 1 + 0 + i
      BY <1>5
<1>7. ASSUME NEW p \in Presets
      PROVE  /\ sPreset'[p] = "active"
             /\ sState'[p] = JudgedRow(p, d + 1)'
             /\ EventSlots(p)' = CrossingsTo(p, sState[p].slot)'
  <2>1. /\ Signals!Evaluated(p) = JudgedRow(p, d + 1)
        /\ CrossingsTo(p, Signals!Evaluated(p).slot)
             = EventSlots(p) \cup (IF Signals!Triggers(p) THEN {d + 1} ELSE {})
        BY <1>1, NextIsJudged
  <2>2. Whole(d + 1)
        BY <1>5, CalmIsWhole
  <2>3. /\ JudgedRow(p, d + 1)' = JudgedRow(p, d + 1)
        /\ CrossingsTo(p, d + 1)' = CrossingsTo(p, d + 1)
        /\ CrossingsTo(p, 0)' = CrossingsTo(p, 0)
        BY <1>1, <2>2, CrossingsStay
  <2>4. PICK at \in {0, d + 1} : at = Signals!Evaluated(p).slot
        BY <2>1, JudgedSlot
  <2>5. CrossingsTo(p, at)' = CrossingsTo(p, at)
        BY <2>3, <2>4
  <2>6. sState'[p].slot = at
        BY <1>2, <2>4
  <2>7. CrossingsTo(p, sState[p].slot)' = CrossingsTo(p, at)'
        BY <2>6 DEF CrossingsTo
  <2>8. EventSlots(p)' = EventSlots(p) \cup (IF Signals!Triggers(p) THEN {d + 1} ELSE {})
    <3>1. \A q : Signals!Occurrence(q).preset = q /\ Signals!Occurrence(q).slot = d + 1
          BY <1>1 DEF Signals!Occurrence, CalmAt
    <3>2. {f \in sEvents' : f.preset = p}
            = {f \in sEvents : f.preset = p} \cup (IF Signals!Triggers(p) THEN {Signals!Occurrence(p)} ELSE {})
          BY <1>3, <3>1
    <3>3. QED
          BY <3>1, <3>2 DEF EventSlots
  <2>9. sPreset'[p] = "active"
        BY <1>1 DEF CalmAt
  <2>10. QED
         BY <1>2, <2>1, <2>3, <2>4, <2>5, <2>7, <2>8, <2>9
<1>8. /\ \A s \in 1 .. sClock' : sCandles'[s].revision = 1
      /\ sMarket' = "live"
      BY <1>1 DEF CalmAt
<1>9. d + 1 + 0 + Len(sQueue) = sClock
      BY <1>5
<1>10. QED
       BY <1>1, <1>4, <1>5, <1>6, <1>7, <1>8, <1>9 DEF CalmAt

LEMMA CalmInductive == TypeInv /\ CalmInv /\ [Signals!Next]_(Signals!vars) => CalmInv'
<1> SUFFICES ASSUME TypeInv, CalmInv, [Signals!Next]_(Signals!vars), sTrouble' = 0
             PROVE  \E d \in Nat : CalmAt(d)'
    BY DEF CalmInv
<1>1. sTrouble \in Nat
      BY DEF TypeInv, CandlesInv
<1>2. ~Signals!Disturb
      BY <1>1 DEF Signals!Disturb
<1>3. CASE UNCHANGED Signals!vars
  <2>1. sTrouble = 0
        BY <1>3 DEF Signals!vars
  <2>2. PICK d \in Nat : CalmAt(d)
        BY <2>1 DEF CalmInv
  <2>3. /\ sCandles' = sCandles /\ sClock' = sClock /\ sMarket' = sMarket /\ sPreset' = sPreset
        /\ sState' = sState /\ sQueue' = sQueue /\ sConsumer' = sConsumer /\ sEvents' = sEvents
        BY <1>3 DEF Signals!vars
  <2>4. \A p \in Presets : /\ sPreset'[p] = "active"
                           /\ sState'[p] = JudgedRow(p, d)'
                           /\ EventSlots(p)' = CrossingsTo(p, sState[p].slot)'
        BY <2>2, <2>3, CalmRowsStay
  <2>5. (InHand' = InHand) /\ (Busy' <=> Busy)
        BY <2>3 DEF InHand, Busy
  <2>6. CalmAt(d)'
        BY <2>2, <2>3, <2>4, <2>5 DEF CalmAt
  <2>7. QED
        BY <2>6
<1>4. ASSUME Signals!Next, sTrouble = 0, NEW d \in Nat, CalmAt(d)
      PROVE  \E e \in Nat : CalmAt(e)'
  <2>1. ASSUME NEW close \in Closes, Signals!CandleCloses(close) PROVE CalmAt(d)'
        BY <1>4, <2>1, CloseKeepsCalm
  <2>2. ASSUME NEW s \in Signals!Slots, NEW close \in Closes, Signals!CandleIsRepaired(s, close)
        PROVE FALSE
    <3>1. s \in 1 .. sClock /\ ~Signals!IsComplete(s)
          BY <2>2, PresetTypes DEF Signals!CandleIsRepaired, Signals!Slots, TypeInv, CandlesInv
    <3>2. QED
          BY <1>4, <3>1, CalmIsWhole DEF Whole
  <2>3. ASSUME NEW p \in Presets, Signals!ReconcileDisabled(p) PROVE FALSE
        BY <1>4, <2>3 DEF Signals!ReconcileDisabled, CalmAt
  <2>4. CASE Signals!RecordCandle
        BY <1>4, <2>4, RecordKeepsCalm
  <2>5. CASE Signals!ReadCandle
        BY <1>4, <2>5, ReadKeepsCalm
  <2>6. CASE Signals!EvaluateCandle
    <3>1. CalmAt(d + 1)' /\ d + 1 \in Nat
          BY <1>4, <2>6, EvaluateKeepsCalm
    <3>2. QED
          BY <3>1
  <2>7. /\ \A close : ~Signals!Backpressure(close)
        /\ ~Signals!CandleIsMissed /\ ~Signals!Reconnect /\ ~Signals!ReconciliationEnds /\ ~Signals!SinkFails
        /\ \A s, close : ~Signals!CandleIsCorrected(s, close)
        /\ \A p : ~Signals!PresetIsDisabled(p)
        BY <1>2 DEF Signals!Backpressure, Signals!CandleIsMissed, Signals!Reconnect,
           Signals!ReconciliationEnds, Signals!SinkFails,
                    Signals!CandleIsCorrected, Signals!PresetIsDisabled
  <2>8. QED
        BY <1>4, <2>1, <2>2, <2>3, <2>4, <2>5, <2>6, <2>7 DEF Signals!Next
<1>5. CASE Signals!Next
  <2>1. sTrouble = 0
    <3>1. sTrouble' = sTrouble
          BY <1>2, <1>5 DEF Signals!Next, Signals!CandleCloses, Signals!Backpressure,
             Signals!CandleIsMissed, Signals!Reconnect,
             Signals!ReconciliationEnds, Signals!SinkFails, Signals!CandleIsCorrected,
             Signals!CandleIsRepaired,
             Signals!PresetIsDisabled, Signals!ReconcileDisabled, Signals!RecordCandle,
             Signals!ReadCandle, Signals!EvaluateCandle
    <3>2. QED
          BY <3>1
  <2>2. PICK d \in Nat : CalmAt(d)
        BY <2>1 DEF CalmInv
  <2>3. QED
        BY <1>4, <1>5, <2>1, <2>2
<1>6. QED
      BY <1>3, <1>5

EvaluationInv == TypeInv /\ OccurrencesInv /\ CalmInv

LEMMA EvaluationInitially == Signals!Init => EvaluationInv
<1> SUFFICES ASSUME Signals!Init PROVE EvaluationInv
    OBVIOUS
<1>1. sEvents = {}
      BY DEF Signals!Init
<1>2. OccurrencesInv
      BY <1>1 DEF OccurrencesInv, Signals!OncePerCandle, Signals!OccurrencesAlternate
<1>3. QED
      BY <1>2, TypesInitially, CalmInitially DEF EvaluationInv

LEMMA EvaluationInductive == EvaluationInv /\ [Signals!Next]_(Signals!vars) => EvaluationInv'
BY TypesInductive, OccurrencesInductive, CalmInductive DEF EvaluationInv

LEMMA EvaluationIsSound == EvaluationInv => OccurrencesAreSound
<1> SUFFICES ASSUME EvaluationInv PROVE OccurrencesAreSound
    OBVIOUS
<1>1. TypeInv /\ OccurrencesInv /\ CalmInv
      BY DEF EvaluationInv
<1>2. Signals!TypeOK
  <2>1. \A s \in Signals!Slots : sCandles[s].revision \in Nat /\ sCandles[s].close \in Closes \cup {0}
        BY <1>1 DEF TypeInv, CandlesInv
  <2>2. ASSUME NEW p \in Presets
        PROVE  /\ sPreset[p] \in {"active", "disabled"}
               /\ sState[p].status \in {"warming", "ready", "stale", "disabled"}
               /\ sState[p].slot \in 0 .. sClock
               /\ sState[p].status = "ready" => sState[p].relation \in {"below", "equal", "above"}
    <3>1. sState[p] \in Rows /\ RowIsSound(sState[p], sClock) /\ sClock \in Nat
          BY <1>1, PresetTypes DEF TypeInv, RowsInv, CandlesInv
    <3>2. QED
          BY <1>1, <3>1 DEF TypeInv, CandlesInv, RowIsSound, Rows, Compared
  <2>3. sConsumer.phase \in {"idle", "recorded", "taken", "dead"}
        BY <1>1 DEF TypeInv, QueueInv, Consumers
  <2>4. QED
        BY <1>1, <2>1, <2>2, <2>3 DEF Signals!TypeOK, TypeInv, CandlesInv, QueueInv
<1>3. Signals!UndisturbedIsExact
  <2>1. ASSUME sTrouble = 0, NEW p \in Presets
        PROVE  EventSlots(p) = CrossingsTo(p, sState[p].slot)
        BY <1>1, <2>1 DEF CalmInv, CalmAt
  <2>2. QED
        BY <2>1 DEF Signals!UndisturbedIsExact, EventSlots, CrossingsTo
<1>4. QED
      BY <1>1, <1>2, <1>3 DEF OccurrencesAreSound, Signals!OccurrencesAreSound, OccurrencesInv

\* A candle is an occurrence of a preset once, two occurrences have a candle on the other
\* side between them, and as long as nothing goes wrong the occurrences are exactly the
\* crossings of the candles judged (handle_confirmed_candle, _evaluate_preset).
THEOREM OccurrencesStaySound == Signals!Spec => []OccurrencesAreSound
BY EvaluationInitially, EvaluationInductive, EvaluationIsSound, PTL DEF Signals!Spec

-----------------------------------------------------------------------------
(* Finite sets of integers in order. *)

\* The members of a finite set of integers are counted off one by one.
LEMMA Ranks ==
    ASSUME NEW K \in SUBSET Int, IsFiniteSet(K)
    PROVE  LET rank(i) == Cardinality({j \in K : j <= i})
           IN  /\ Cardinality(K) \in Nat
               /\ \A i \in K : rank(i) \in 1 .. Cardinality(K)
               /\ \A i, j \in K : i < j <=> rank(i) < rank(j)
               /\ \A n \in 1 .. Cardinality(K) : \E i \in K : rank(i) = n
<1> DEFINE upto(i) == {j \in K : j <= i}
           rank(i) == Cardinality(upto(i))
<1>1. Cardinality(K) \in Nat
      BY FS_CardinalityType
<1>2. ASSUME NEW i \in K
      PROVE  /\ upto(i) \in SUBSET K /\ i \in upto(i)
             /\ IsFiniteSet(upto(i)) /\ rank(i) \in 1 .. Cardinality(K)
  <2>1. upto(i) \in SUBSET K /\ i \in upto(i)
        OBVIOUS
  <2>2. IsFiniteSet(upto(i)) /\ rank(i) \in Nat /\ rank(i) <= Cardinality(K)
        BY <2>1, FS_Subset, FS_CardinalityType
  <2>3. rank(i) # 0
        BY <2>1, <2>2, FS_EmptySet
  <2>4. QED
        BY <1>1, <2>1, <2>2, <2>3
<1>3. ASSUME NEW i \in K, NEW j \in K, i < j PROVE rank(i) < rank(j)
  <2>1. upto(i) \in SUBSET upto(j) /\ j \notin upto(i) /\ j \in upto(j)
    <3>1. i \in Int /\ j \in Int /\ \A k \in K : k \in Int
          OBVIOUS
    <3>2. \A k \in K : k <= i => k <= j
          BY <1>3, <3>1
    <3>3. ~(j <= i) /\ j <= j
          BY <1>3, <3>1
    <3>4. QED
          BY <3>2, <3>3
  <2>2. rank(i) <= rank(j) /\ rank(i) # rank(j)
        BY <1>2, <2>1, FS_Subset
  <2>3. QED
        BY <1>1, <1>2, <2>2
<1>4. ASSUME NEW i \in K, NEW j \in K, rank(i) < rank(j) PROVE i < j
  <2>1. i \in Int /\ j \in Int /\ rank(i) \in Int /\ rank(j) \in Int
        BY <1>1, <1>2
  <2>2. j < i => rank(j) < rank(i)
        BY <1>3
  <2>3. i # j
        BY <1>4, <2>1
  <2>4. QED
        BY <1>4, <2>1, <2>2, <2>3
<1> DEFINE f == [i \in K |-> rank(i)]
<1>5. f \in Injection(K, 1 .. Cardinality(K))
  <2>1. f \in [K -> 1 .. Cardinality(K)]
        BY <1>2
  <2>2. ASSUME NEW i \in K, NEW j \in K, f[i] = f[j] PROVE i = j
    <3>1. i \in Int /\ j \in Int /\ rank(i) \in Int /\ rank(j) \in Int /\ rank(i) = rank(j)
          BY <1>1, <1>2, <2>2
    <3>2. (i < j => rank(i) < rank(j)) /\ (j < i => rank(j) < rank(i))
          BY <1>3
    <3>3. QED
          BY <3>1, <3>2
  <2>3. QED
        BY <2>1, <2>2 DEF Injection, IsInjective
<1>6. IsFiniteSet(1 .. Cardinality(K)) /\ Cardinality(1 .. Cardinality(K)) = Cardinality(K)
      BY <1>1, FS_Interval
<1>7. f \in Surjection(K, 1 .. Cardinality(K))
      BY <1>5, <1>6, FS_Injection
<1>8. \A n \in 1 .. Cardinality(K) : \E i \in K : rank(i) = n
      BY <1>7 DEF Surjection
<1> HIDE DEF rank
<1>9. /\ \A i \in K : rank(i) \in 1 .. Cardinality(K)
      /\ \A i, j \in K : i < j <=> rank(i) < rank(j)
      BY <1>2, <1>3, <1>4
<1>10. QED
       BY <1>1, <1>8, <1>9 DEF rank

Increases(s) == \A m, n \in DOMAIN s : m < n => s[m] < s[n]

\* Put in order, a set is a sequence that grows and leaves no member out.
LEMMA AscendingOf ==
    ASSUME NEW K \in SUBSET Int, IsFiniteSet(K)
    PROVE  /\ Cardinality(K) \in Nat
           /\ Ascending(K) \in [1 .. Cardinality(K) -> K]
           /\ Increases(Ascending(K))
           /\ \A k \in K : \E n \in 1 .. Cardinality(K) : Ascending(K)[n] = k
<1> DEFINE rank(i) == Cardinality({j \in K : j <= i})
           N == Cardinality(K)
<1>1. /\ N \in Nat
      /\ \A i \in K : rank(i) \in 1 .. N
      /\ \A i, j \in K : i < j <=> rank(i) < rank(j)
      /\ \A n \in 1 .. N : \E i \in K : rank(i) = n
      BY Ranks
<1>2. Ascending(K) = [n \in 1 .. N |-> CHOOSE k \in K : rank(k) = n]
      BY DEF Ascending, Nth
<1> HIDE DEF rank, N
<1>3. \A n \in 1 .. N : Ascending(K)[n] \in K /\ rank(Ascending(K)[n]) = n
      BY <1>1, <1>2
<1>4. Ascending(K) \in [1 .. N -> K]
      BY <1>2, <1>3
<1>5. \A m, n \in 1 .. N : m < n => Ascending(K)[m] < Ascending(K)[n]
      BY <1>1, <1>3
<1>6. ASSUME NEW k \in K PROVE Ascending(K)[rank(k)] = k
  <2>1. rank(k) \in 1 .. N /\ Ascending(K)[rank(k)] \in K
        /\ rank(Ascending(K)[rank(k)]) = rank(k)
        BY <1>1, <1>3
  <2>2. PICK l : l = Ascending(K)[rank(k)]
        OBVIOUS
  <2>3. l \in K /\ rank(l) = rank(k)
        BY <2>1, <2>2
  <2>4. l \in Int /\ k \in Int /\ ~(l < k) /\ ~(k < l)
        BY <1>1, <2>1, <2>3
  <2>5. l = k
        BY <2>4
  <2>6. QED
        BY <2>2, <2>5
<1>7. QED
      BY <1>1, <1>4, <1>5, <1>6 DEF Increases, N

\* It is the only one.
LEMMA AscendingIs ==
    ASSUME NEW K \in SUBSET Int, NEW N \in Nat, NEW f \in [1 .. N -> K],
           Increases(f), \A k \in K : \E n \in 1 .. N : f[n] = k
    PROVE  IsFiniteSet(K) /\ Cardinality(K) = N /\ Ascending(K) = f
<1>0. \A m, n \in 1 .. N : m < n => f[m] < f[n]
      BY DEF Increases
<1>1. \A m, n \in 1 .. N : f[m] = f[n] => m = n
  <2>1. ASSUME NEW m \in 1 .. N, NEW n \in 1 .. N, f[m] = f[n] PROVE m = n
    <3>1. f[m] \in K /\ f[n] \in K
          OBVIOUS
    <3>2. (\A k \in K : k \in Int) /\ m \in Int /\ n \in Int
          OBVIOUS
    <3>3. \A v \in K : ~(v < v)
          BY <3>2
    <3>4. ~(m < n) /\ ~(n < m)
          BY <1>0, <2>1, <3>1, <3>3
    <3>5. QED
          BY <3>2, <3>4
  <2>2. QED
        BY <2>1
<1>2. f \in Surjection(1 .. N, K) /\ f \in Injection(1 .. N, K)
      BY <1>1 DEF Surjection, Injection, IsInjective
<1>3. IsFiniteSet(K) /\ Cardinality(K) = N
  <2>1. IsFiniteSet(1 .. N) /\ Cardinality(1 .. N) = N
        BY FS_Interval
  <2>2. QED
        BY <1>2, <2>1, FS_Surjection
<1> DEFINE upto(i) == {j \in K : j <= i}
           rank(i) == Cardinality(upto(i))
<1>4. ASSUME NEW n \in 1 .. N PROVE rank(f[n]) = n
  <2> DEFINE g == [m \in 1 .. n |-> f[m]]
  <2>1. ASSUME NEW m \in 1 .. n PROVE g[m] \in upto(f[n]) /\ m \in 1 .. N /\ g[m] = f[m]
    <3>1. m \in 1 .. N /\ (m < n \/ m = n)
          OBVIOUS
    <3>2. f[m] \in Int /\ f[n] \in Int /\ f[m] \in K
          BY <3>1
    <3>3. f[m] <= f[n]
          BY <1>0, <3>1, <3>2
    <3>4. QED
          BY <3>1, <3>2, <3>3
  <2>2. \A l, m \in 1 .. n : g[l] = g[m] => l = m
        BY <1>1, <2>1
  <2>3. ASSUME NEW k \in upto(f[n]) PROVE \E m \in 1 .. n : g[m] = k
    <3>1. PICK m \in 1 .. N : f[m] = k
          OBVIOUS
    <3>2. ~(n < m)
      <4>1. f[m] \in Int /\ f[n] \in Int /\ f[m] <= f[n]
            BY <3>1
      <4>2. QED
            BY <1>0, <4>1
    <3>3. m \in 1 .. n
          BY <3>2
    <3>4. QED
          BY <3>1, <3>3
  <2>4. g \in [1 .. n -> upto(f[n])]
        BY <2>1
  <2> HIDE DEF g, upto
  <2>5. g \in Surjection(1 .. n, upto(f[n])) /\ g \in Injection(1 .. n, upto(f[n]))
        BY <2>2, <2>3, <2>4 DEF Surjection, Injection, IsInjective
  <2>6. IsFiniteSet(1 .. n) /\ Cardinality(1 .. n) = n
        BY FS_Interval
  <2>7. QED
        BY <2>5, <2>6, FS_Surjection
<1>5. \A i, j \in K : i < j <=> rank(i) < rank(j)
      BY <1>3, Ranks
<1>6. ASSUME NEW n \in 1 .. N PROVE (CHOOSE k \in K : rank(k) = n) = f[n]
  <2>1. f[n] \in K /\ rank(f[n]) = n
        BY <1>4
  <2>2. ASSUME NEW k \in K, rank(k) = n PROVE k = f[n]
    <3>1. PICK m \in 1 .. N : f[m] = k
          OBVIOUS
    <3>2. m = n
          BY <1>4, <2>2, <3>1
    <3>3. QED
          BY <3>1, <3>2
  <2> HIDE DEF rank
  <2>3. QED
        BY <2>1, <2>2
<1>7. Ascending(K) = [n \in 1 .. N |-> CHOOSE k \in K : rank(k) = n]
      BY <1>3 DEF Ascending, Nth
<1> HIDE DEF rank
<1>8. Ascending(K) = f
      BY <1>6, <1>7
<1>9. QED
      BY <1>3, <1>8

LEMMA SameOrder ==
    ASSUME NEW S
    PROVE  Views!Ascending(S) = Ascending(S) /\ Inputs!Ascending(S) = Ascending(S)
BY DEF Views!Ascending, Views!Nth, Views!Cardinality, Views!IsFiniteSet,
       Inputs!Ascending, Inputs!Nth, Inputs!Cardinality, Inputs!IsFiniteSet,
       Ascending, Nth, Cardinality, IsFiniteSet

-----------------------------------------------------------------------------
(* ReportViews *)

\* Where the first row of a series is counted from.
Base == IF vSeries = "equity" THEN -1 ELSE 0
Total == IF vSeries = "equity" THEN vReport.points ELSE Len(vReport.trades)

\* A reader has got n rows, and its cursor is at the n-th, if any is left.
ReadUpTo(n) ==
    /\ vReceived = [k \in 1 .. n |-> k + Base]
    /\ vFinished => n = Total
    /\ ~vFinished => vCursor = IF n = 0 THEN None ELSE n + Base

ViewsInv ==
    /\ vReport \in Reports
    /\ vSeries \in {"equity", "trades"}
    /\ vFinished \in BOOLEAN
    /\ \E n \in 0 .. Total : ReadUpTo(n)

LEMMA ReportTypes ==
    ASSUME vReport \in Reports
    PROVE  /\ vReport.points \in Nat
           /\ vReport.trades \in Seq(Views!TradesWithin(vReport.points))
           /\ Len(vReport.trades) \in Nat
           /\ Base \in {-1, 0} /\ Total \in Nat
<1>1. /\ vReport.points \in Nat
      /\ vReport.trades \in Seq(Views!TradesWithin(vReport.points))
      BY ViewsAreAssumed DEF Views!ViewsAssumption
<1>2. Len(vReport.trades) \in Nat
      BY <1>1
<1>3. QED
      BY <1>1, <1>2 DEF Base, Total

LEMMA RowsAre ==
    ASSUME vReport \in Reports, vSeries \in {"equity", "trades"}
    PROVE  Views!Rows = [k \in 1 .. Total |-> k + Base]
<1>1. CASE vSeries = "equity"
  <2>1. Views!Rows = [k \in 1 .. vReport.points |-> k - 1]
        BY <1>1 DEF Views!Rows
  <2>2. Total = vReport.points /\ Base = -1
        BY <1>1 DEF Total, Base
  <2>3. \A k \in 1 .. vReport.points : k - 1 = k + (-1)
        BY ReportTypes
  <2>4. QED
        BY <2>1, <2>2, <2>3
<1>2. CASE vSeries = "trades"
  <2>1. Views!Rows = [k \in 1 .. Len(vReport.trades) |-> k]
        BY <1>2 DEF Views!Rows
  <2>2. Total = Len(vReport.trades) /\ Base = 0
        BY <1>2 DEF Total, Base
  <2>3. \A k \in 1 .. Len(vReport.trades) : k = k + 0
        BY ReportTypes
  <2>4. QED
        BY <2>1, <2>2, <2>3
<1>3. QED
      BY <1>1, <1>2

\* What a page starts with are the rows that have not been read.
LEMMA RowsAfter ==
    ASSUME vReport \in Reports, vSeries \in {"equity", "trades"},
           NEW n \in 0 .. Total, vCursor = IF n = 0 THEN None ELSE n + Base
    PROVE  Views!After(vCursor) = [k \in 1 .. Total - n |-> n + k + Base]
<1> DEFINE K == {s \in Views!Stored : vCursor = None \/ s > vCursor}
           f == [k \in 1 .. Total - n |-> n + k + Base]
<1>0. Total \in Nat /\ Base \in {-1, 0} /\ n \in Nat /\ Total - n \in Nat
      BY ReportTypes
<1>1. Views!Stored = {k + Base : k \in 1 .. Total}
  <2>1. DOMAIN Views!Rows = 1 .. Total /\ \A k \in 1 .. Total : Views!Rows[k] = k + Base
        BY RowsAre
  <2>2. QED
        BY <2>1 DEF Views!Stored
<1>2. K = {k + Base : k \in (n + 1) .. Total}
  <2>1. CASE n = 0
        BY <1>0, <1>1, <2>1
  <2>2. CASE n # 0
    <3>1. vCursor = n + Base /\ n + Base \in Nat /\ vCursor # None
          BY <1>0, <2>2, ViewsAreAssumed DEF Views!ViewsAssumption
    <3>2. K = {s \in {k + Base : k \in 1 .. Total} : s > n + Base}
          BY <1>1, <3>1
    <3>3. \A k \in 1 .. Total : k + Base > n + Base <=> k \in (n + 1) .. Total
          BY <1>0
    <3>4. (n + 1) .. Total \subseteq 1 .. Total
          BY <1>0
    <3> HIDE DEF K
    <3>5. \A s : s \in K <=> s \in {k + Base : k \in (n + 1) .. Total}
          BY <3>2, <3>3, <3>4
    <3>6. QED
          BY <3>5
  <2>3. QED
        BY <2>1, <2>2
<1>3. K \in SUBSET Int
      BY <1>0, <1>2
<1>4. f \in [1 .. Total - n -> K]
  <2>1. \A k \in 1 .. Total - n : n + k \in (n + 1) .. Total /\ n + k + Base = (n + k) + Base
        BY <1>0
  <2> HIDE DEF K
  <2>2. \A k \in 1 .. Total - n : n + k + Base \in K
        BY <1>2, <2>1
  <2>3. QED
        BY <2>2
<1>5. Increases(f)
  <2>1. \A l, m \in 1 .. Total - n : l < m => n + l + Base < n + m + Base
        BY <1>0
  <2>2. QED
        BY <2>1 DEF Increases
<1>6. ASSUME NEW s \in K PROVE \E k \in 1 .. Total - n : f[k] = s
  <2>1. PICK k \in (n + 1) .. Total : s = k + Base
        BY <1>2
  <2>2. k - n \in 1 .. Total - n /\ n + (k - n) + Base = k + Base
        BY <1>0
  <2>3. QED
        BY <2>1, <2>2
<1> HIDE DEF K, f
<1>7. Ascending(K) = f
      BY <1>0, <1>3, <1>4, <1>5, <1>6, AscendingIs
<1>8. Views!After(vCursor) = Views!Ascending(K)
      BY DEF Views!After, K
<1>9. QED
      BY <1>7, <1>8, SameOrder DEF f

LEMMA ViewsInitially == Views!Init => ViewsInv
<1> SUFFICES ASSUME Views!Init PROVE ViewsInv
    OBVIOUS
<1>1. vReport \in Reports /\ vSeries \in {"equity", "trades"} /\ vCursor = None
      /\ vReceived = <<>> /\ vFinished = FALSE
      BY DEF Views!Init
<1>2. Total \in Nat
      BY <1>1, ReportTypes
<1>3. [k \in 1 .. 0 |-> k + Base] = <<>>
  <2> DEFINE s == [k \in 1 .. 0 |-> k + Base]
  <2>1. s \in Seq({}) /\ Len(s) = 0
        OBVIOUS
  <2> HIDE DEF s
  <2>2. s = <<>>
        BY <2>1, EmptySeq
  <2>3. QED
        BY <2>2 DEF s
<1>4. ReadUpTo(0)
  <2>1. ~vFinished /\ vCursor = (IF 0 = 0 THEN None ELSE 0 + Base)
        BY <1>1
  <2>2. vReceived = [k \in 1 .. 0 |-> k + Base]
        BY <1>1, <1>3
  <2>3. QED
        BY <2>1, <2>2, Zenon DEF ReadUpTo
<1>5. 0 \in 0 .. Total
      BY <1>2
<1>6. vFinished \in BOOLEAN
      BY <1>1, Zenon
<1>7. QED
      BY <1>1, <1>4, <1>5, <1>6, Zenon DEF ViewsInv

\* The page is what comes next, and the cursor is left at its last row.
LEMMA PageGoesOn ==
    ASSUME ViewsInv, NEW limit \in Limits, Views!ReadPage(limit)
    PROVE  ViewsInv'
<1>0. /\ vReport \in Reports /\ vSeries \in {"equity", "trades"} /\ vFinished = FALSE
      /\ vReport' = vReport /\ vSeries' = vSeries
      BY DEF ViewsInv, Views!ReadPage
<1>1. /\ Base' = Base /\ Total' = Total
      BY <1>0 DEF Base, Total
<1>2. Total \in Nat /\ Base \in {-1, 0} /\ limit \in Nat \ {0}
      BY <1>0, ReportTypes, ViewsAreAssumed DEF Views!ViewsAssumption
<1>3. PICK n \in 0 .. Total : ReadUpTo(n)
      BY DEF ViewsInv
<1> DEFINE left == Views!After(vCursor)
           rows == Views!Prefix(left, limit + 1)
           page == Views!Prefix(rows, limit)
           r == Total - n
<1>4. /\ vReceived = [k \in 1 .. n |-> k + Base]
      /\ vCursor = IF n = 0 THEN None ELSE n + Base
      /\ r \in Nat /\ n \in Nat
      BY <1>0, <1>2, <1>3 DEF ReadUpTo
<1>5. left = [k \in 1 .. r |-> n + k + Base]
      BY <1>0, <1>4, RowsAfter
<1>6. /\ vReceived' = vReceived \o page
      /\ Len(rows) > limit => vCursor' = Views!Last(page) /\ vFinished' = vFinished
      /\ ~(Len(rows) > limit) => vFinished' = TRUE
      BY DEF Views!ReadPage
<1> HIDE DEF left, r
<1>7. ASSUME NEW m \in 0 .. r
      PROVE  vReceived \o [k \in 1 .. m |-> n + k + Base] = [k \in 1 .. n + m |-> k + Base]
  <2> DEFINE s == [k \in 1 .. n |-> k + Base]
             t == [k \in 1 .. m |-> n + k + Base]
             u == [k \in 1 .. n + m |-> k + Base]
  <2>1. s \in Seq(Int) /\ Len(s) = n
        BY <1>2, <1>4
  <2>2. t \in Seq(Int) /\ Len(t) = m /\ m \in Nat
        BY <1>2, <1>4
  <2>3. u \in Seq(Int) /\ Len(u) = n + m
        BY <1>2, <1>4, <2>2
  <2>4. \A k \in 1 .. n + m : u[k] = IF k <= n THEN s[k] ELSE t[k - n]
    <3>1. ASSUME NEW k \in 1 .. n + m, k <= n PROVE u[k] = s[k]
          BY <1>4, <2>2, <3>1
    <3>2. ASSUME NEW k \in 1 .. n + m, ~(k <= n) PROVE u[k] = t[k - n]
      <4>1. k - n \in 1 .. m /\ n + (k - n) + Base = k + Base
            BY <1>2, <1>4, <2>2, <3>2
      <4>2. QED
            BY <4>1
    <3>3. QED
          BY <3>1, <3>2
  <2> HIDE DEF s, t, u
  <2>5. /\ s \o t \in Seq(Int) /\ Len(s \o t) = n + m
        /\ \A k \in 1 .. n + m : (s \o t)[k] = IF k <= n THEN s[k] ELSE t[k - n]
        BY <2>1, <2>2, ConcatProperties
  <2>6. \A k \in 1 .. n + m : (s \o t)[k] = u[k]
        BY <2>4, <2>5
  <2>7. s \o t = u
        BY <2>3, <2>5, <2>6, SeqEqual
  <2>8. QED
        BY <1>4, <2>7 DEF s, t, u
<1>8. ASSUME NEW m \in Nat, m <= r
      PROVE  Views!Prefix(left, m) = [k \in 1 .. m |-> n + k + Base]
  <2>1. left \in Seq(Int) /\ Len(left) = r /\ r \in Nat
        BY <1>2, <1>4, <1>5 DEF r
  <2>2. CASE r <= m
    <3>1. r = m /\ Len(left) <= m
          BY <1>8, <2>1, <2>2
    <3>2. QED
          BY <1>5, <3>1 DEF Views!Prefix
  <2>3. CASE ~(r <= m)
    <3>1. Views!Prefix(left, m) = SubSeq(left, 1, m)
          BY <2>1, <2>3 DEF Views!Prefix
    <3>2. SubSeq(left, 1, m) = [k \in 1 .. m |-> left[k]]
          BY <1>8, <2>1
    <3>3. \A k \in 1 .. m : k \in 1 .. r
          BY <1>8, <2>1
    <3>4. QED
          BY <1>5, <3>1, <3>2, <3>3
  <2>4. QED
        BY <2>2, <2>3
<1>9. CASE r > limit
  <2>1. rows = [k \in 1 .. limit + 1 |-> n + k + Base]
        BY <1>2, <1>4, <1>8, <1>9
  <2>2. /\ Len(rows) = limit + 1 /\ rows \in Seq(Int)
        BY <1>2, <1>4, <2>1
  <2>3. page = SubSeq(rows, 1, limit)
        BY <1>2, <2>2 DEF Views!Prefix
  <2>4. SubSeq(rows, 1, limit) = [k \in 1 .. limit |-> rows[k]]
        BY <1>2, <2>2
  <2>5. page = [k \in 1 .. limit |-> n + k + Base]
    <3>1. \A k \in 1 .. limit : k \in 1 .. limit + 1
          BY <1>2
    <3>2. QED
          BY <2>1, <2>3, <2>4, <3>1
  <2>6. /\ Len(page) = limit /\ page[limit] = n + limit + Base
        BY <1>2, <1>4, <2>5
  <2>7. /\ vCursor' = n + limit + Base /\ vFinished' = FALSE
        BY <1>0, <1>2, <1>6, <2>2, <2>6 DEF Views!Last
  <2>8. /\ limit \in 0 .. r /\ n + limit \in 0 .. Total /\ n + limit # 0
        BY <1>2, <1>4, <1>9 DEF r
  <2>9. vReceived' = [k \in 1 .. n + limit |-> k + Base]
        BY <1>6, <1>7, <2>5, <2>8
  <2>10. ReadUpTo(n + limit)'
         BY <1>1, <2>7, <2>8, <2>9 DEF ReadUpTo
  <2>11. QED
         BY <1>0, <1>1, <2>7, <2>8, <2>10 DEF ViewsInv
<1>10. CASE ~(r > limit)
  <2>1. left \in Seq(Int) /\ Len(left) = r /\ r \in Nat
        BY <1>2, <1>4, <1>5 DEF r
  <2>2. rows = left /\ page = left
        BY <1>2, <1>10, <2>1 DEF Views!Prefix
  <2>3. vFinished' = TRUE
        BY <1>2, <1>6, <1>10, <2>1, <2>2
  <2>4. r \in 0 .. r /\ n + r = Total
        BY <1>2, <1>4 DEF r
  <2>5. vReceived' = [k \in 1 .. Total |-> k + Base]
        BY <1>5, <1>6, <1>7, <2>2, <2>4
  <2>6. ReadUpTo(Total)'
        BY <1>1, <2>3, <2>5 DEF ReadUpTo
  <2>7. Total \in 0 .. Total
        BY <1>2
  <2>8. QED
        BY <1>0, <1>1, <2>3, <2>6, <2>7 DEF ViewsInv
<1>11. QED
       BY <1>9, <1>10

LEMMA ViewsInductive == ViewsInv /\ [Views!Next]_(Views!vars) => ViewsInv'
<1> SUFFICES ASSUME ViewsInv, [Views!Next]_(Views!vars) PROVE ViewsInv'
    OBVIOUS
<1>1. CASE Views!Next
      BY <1>1, PageGoesOn DEF Views!Next
<1>2. CASE UNCHANGED Views!vars
  <2>1. /\ vReport' = vReport /\ vSeries' = vSeries /\ vCursor' = vCursor
        /\ vReceived' = vReceived /\ vFinished' = vFinished
        BY <1>2 DEF Views!vars
  <2>2. QED
        BY <2>1 DEF ViewsInv, ReadUpTo, Base, Total
<1>3. QED
      BY <1>1, <1>2

LEMMA QuotientNext ==
    ASSUME NEW a \in Int, NEW b \in Nat \ {0}
    PROVE  (a + b) \div b = (a \div b) + 1
OBVIOUS

\* A sample runs from the first to the last and takes nothing twice.
LEMMA SampledSlots ==
    ASSUME NEW L \in Nat, NEW limit \in Nat \ {0, 1}, limit < L
    PROVE  LET place(slot) == 1 + ((slot - 1) * (L - 1)) \div (limit - 1)
           IN  /\ \A slot \in 1 .. limit : place(slot) \in 1 .. L
               /\ place(1) = 1 /\ place(limit) = L
               /\ \A i, j \in 1 .. limit : i < j => place(i) < place(j)
<1> DEFINE N == L - 1
           b == limit - 1
           part(a) == (a * N) \div b
           place(slot) == 1 + ((slot - 1) * (L - 1)) \div (limit - 1)
<1>0. N \in Nat /\ b \in Nat \ {0} /\ b <= N /\ L = N + 1 /\ limit = b + 1
      OBVIOUS
<1>1. \A slot : place(slot) = 1 + part(slot - 1)
      OBVIOUS
<1> HIDE DEF N, b, place
<1>2. \A a \in 0 .. b : part(a) \in 0 .. N
  <2>1. ASSUME NEW a \in 0 .. b PROVE part(a) \in 0 .. N
        BY <1>0, ShareOf
  <2>2. QED
        BY <2>1
<1>3. part(0) = 0
  <2>1. 0 * N = 0 /\ 0 \div b = 0
        BY <1>0
  <2>2. QED
        BY <2>1
<1>4. part(b) = N
      BY <1>0, QuotientWhole
<1>5. ASSUME NEW i \in 0 .. b, NEW j \in 0 .. b, i < j PROVE part(i) < part(j)
  <2> DEFINE x == i * N
             y == (i + 1) * N
             z == j * N
  <2>1. x \in Nat /\ y \in Nat /\ z \in Nat /\ y = x + N
        BY <1>0
  <2>2. y <= z
    <3>1. i + 1 \in Nat /\ j \in Nat /\ i + 1 <= j
          BY <1>0, <1>5
    <3>2. QED
          BY <1>0, <3>1, ProductGrows
  <2>3. part(i) = x \div b /\ part(j) = z \div b
        OBVIOUS
  <2> HIDE DEF x, y, z
  <2>4. x + b <= z /\ x + b \in Nat
        BY <1>0, <2>1, <2>2
  <2>5. (x + b) \div b <= z \div b
        BY <1>0, <2>1, <2>4, QuotientGrows
  <2>6. (x + b) \div b = x \div b + 1
    <3>1. x \in Int
          BY <2>1
    <3>2. QED
          BY <1>0, <3>1, QuotientNext, Zenon
  <2>7. x \div b \in Nat /\ z \div b \in Nat
        BY <1>0, <2>1, QuotientPositive
  <2> HIDE DEF part
  <2>8. QED
        BY <2>3, <2>5, <2>6, <2>7
<1> HIDE DEF part
<1>6. /\ \A slot \in 1 .. limit : slot - 1 \in 0 .. b
      /\ 1 - 1 = 0 /\ limit - 1 = b
      BY <1>0
<1>7. \A slot \in 1 .. limit : place(slot) \in 1 .. L
  <2>1. ASSUME NEW slot \in 1 .. limit PROVE place(slot) \in 1 .. L
    <3>1. part(slot - 1) \in 0 .. N
          BY <1>2, <1>6
    <3>2. QED
          BY <1>0, <1>1, <3>1
  <2>2. QED
        BY <2>1
<1>8. place(1) = 1 /\ place(limit) = L
      BY <1>0, <1>1, <1>3, <1>4, <1>6
<1>9. \A i, j \in 1 .. limit : i < j => place(i) < place(j)
  <2>1. ASSUME NEW i \in 1 .. limit, NEW j \in 1 .. limit, i < j PROVE place(i) < place(j)
    <3>1. i - 1 \in 0 .. b /\ j - 1 \in 0 .. b /\ i - 1 < j - 1
          BY <1>0, <2>1
    <3>2. part(i - 1) < part(j - 1) /\ part(i - 1) \in Int /\ part(j - 1) \in Int
          BY <1>2, <1>5, <3>1
    <3>3. QED
          BY <1>1, <3>2
  <2>2. QED
        BY <2>1
<1>10. QED
       BY <1>7, <1>8, <1>9 DEF place

LEMMA SampledOf ==
    ASSUME NEW S, NEW s \in Seq(S), NEW limit \in Nat \ {0, 1}
    PROVE  LET t == Views!Sampled(s, limit)
           IN  /\ t \in Seq(S) /\ Len(t) \in Nat /\ Len(t) <= limit
               /\ Len(s) > 0 => /\ Len(t) > 0
                                /\ t[1] = s[1] /\ t[Len(t)] = s[Len(s)]
               /\ S \subseteq Int /\ Increases(s) => Increases(t)
<1> DEFINE t == Views!Sampled(s, limit)
           L == Len(s)
           place(slot) == 1 + ((slot - 1) * (L - 1)) \div (limit - 1)
<1>0. L \in Nat
      OBVIOUS
<1>1. CASE L <= limit
  <2>1. t = s
        BY <1>1 DEF Views!Sampled
  <2>2. QED
        BY <1>0, <1>1, <2>1
<1>2. CASE limit < L
  <2>1. t = [slot \in 1 .. limit |-> s[place(slot)]]
        BY <1>0, <1>2 DEF Views!Sampled
  <2>2. /\ \A slot \in 1 .. limit : place(slot) \in 1 .. L
        /\ place(1) = 1 /\ place(limit) = L
        /\ \A i, j \in 1 .. limit : i < j => place(i) < place(j)
        BY <1>0, <1>2, SampledSlots
  <2> HIDE DEF place, t
  <2>3. \A slot \in 1 .. limit : s[place(slot)] \in S
        BY <2>2
  <2>4. t \in Seq(S) /\ Len(t) = limit
        BY <2>1, <2>3
  <2>5. 1 \in 1 .. limit /\ limit \in 1 .. limit
        OBVIOUS
  <2>6. t[1] = s[1] /\ t[limit] = s[L]
        BY <2>1, <2>2, <2>5
  <2>7. ASSUME S \subseteq Int, Increases(s) PROVE Increases(t)
    <3>1. ASSUME NEW i \in 1 .. limit, NEW j \in 1 .. limit, i < j PROVE t[i] < t[j]
      <4>1. place(i) \in DOMAIN s /\ place(j) \in DOMAIN s /\ place(i) < place(j)
            BY <2>2, <3>1
      <4>2. s[place(i)] < s[place(j)]
            BY <2>7, <4>1 DEF Increases
      <4>3. QED
            BY <2>1, <4>2
    <3>2. DOMAIN t = 1 .. limit
          BY <2>1
    <3>3. QED
          BY <3>1, <3>2 DEF Increases
  <2>8. QED
        BY <1>2, <2>4, <2>6, <2>7 DEF t
<1>3. QED
      BY <1>0, <1>1, <1>2

LEMMA CandlesAre ==
    ASSUME vReport \in Reports
    PROVE  LET P == vReport.points
           IN  /\ P \in Nat
               /\ Views!Candles = [k \in 1 .. P |-> k - 1]
               /\ Views!Candles \in Seq(0 .. P - 1) /\ Len(Views!Candles) = P
               /\ Increases(Views!Candles)
<1> DEFINE P == vReport.points
<1>1. P \in Nat
      BY ReportTypes
<1>2. Views!Candles = [k \in 1 .. P |-> k - 1]
      BY DEF Views!Candles
<1> HIDE DEF P
<1>3. \A k \in 1 .. P : k - 1 \in 0 .. P - 1
      BY <1>1
<1>4. Views!Candles \in Seq(0 .. P - 1) /\ Len(Views!Candles) = P
      BY <1>1, <1>2, <1>3
<1>5. \A i, j \in 1 .. P : i < j => i - 1 < j - 1
      BY <1>1
<1>6. Increases(Views!Candles)
      BY <1>2, <1>5 DEF Increases
<1>7. QED
      BY <1>1, <1>2, <1>4, <1>6 DEF P

LEMMA PagesHold == ViewsInv => Views!PagesAreTheSeries
<1> SUFFICES ASSUME ViewsInv PROVE Views!PagesAreTheSeries
    OBVIOUS
<1>0. vReport \in Reports /\ vSeries \in {"equity", "trades"}
      BY DEF ViewsInv
<1>1. PICK n \in 0 .. Total : ReadUpTo(n)
      BY DEF ViewsInv
<1>2. Total \in Nat /\ Base \in {-1, 0} /\ n \in Nat /\ n <= Total
      BY <1>0, ReportTypes
<1>3. Views!Rows = [k \in 1 .. Total |-> k + Base]
      BY <1>0, RowsAre
<1>4. vReceived = [k \in 1 .. n |-> k + Base]
      BY <1>1 DEF ReadUpTo
<1>5. vReceived \in Seq(Int) /\ Len(vReceived) = n
      BY <1>2, <1>4
<1>6. Views!Rows \in Seq(Int) /\ Len(Views!Rows) = Total
      BY <1>2, <1>3
<1>7. SubSeq(vReceived, 1, n) = [k \in 1 .. n |-> vReceived[k]]
      /\ SubSeq(Views!Rows, 1, n) = [k \in 1 .. n |-> Views!Rows[k]]
      BY <1>2, <1>5, <1>6
<1>8. \A k \in 1 .. n : vReceived[k] = k + Base /\ Views!Rows[k] = k + Base
  <2>1. \A k \in 1 .. n : k \in 1 .. Total
        BY <1>2
  <2>2. QED
        BY <1>3, <1>4, <2>1
<1>9. SubSeq(vReceived, 1, n) = SubSeq(Views!Rows, 1, n)
      BY <1>7, <1>8
<1>10. Views!IsPrefix(vReceived, Views!Rows)
       BY <1>2, <1>5, <1>6, <1>9 DEF Views!IsPrefix
<1>11. vFinished => vReceived = Views!Rows
       BY <1>1, <1>3, <1>4 DEF ReadUpTo
<1>12. QED
       BY <1>10, <1>11 DEF Views!PagesAreTheSeries

LEMMA PreviewHolds == ViewsInv => Views!PreviewKeepsEnds
<1> SUFFICES ASSUME ViewsInv PROVE Views!PreviewKeepsEnds
    OBVIOUS
<1> DEFINE P == vReport.points
           preview == Views!Sampled(Views!Candles, EquityPreviewLimit)
<1>1. /\ P \in Nat
      /\ Views!Candles = [k \in 1 .. P |-> k - 1]
      /\ Views!Candles \in Seq(0 .. P - 1) /\ Len(Views!Candles) = P
      /\ Increases(Views!Candles)
      BY CandlesAre DEF ViewsInv
<1>2. EquityPreviewLimit \in Nat \ {0, 1}
      BY ViewsAreAssumed DEF Views!ViewsAssumption
<1> HIDE DEF P, preview
<1>3. 0 .. P - 1 \subseteq Int
      BY <1>1
<1>4. /\ preview \in Seq(0 .. P - 1) /\ Len(preview) \in Nat
      /\ Len(preview) <= EquityPreviewLimit
      /\ P > 0 => /\ Len(preview) > 0
                  /\ preview[1] = Views!Candles[1] /\ preview[Len(preview)] = Views!Candles[P]
      /\ Increases(preview)
      BY <1>1, <1>2, <1>3, SampledOf DEF preview
<1>5. P > 0 => preview[1] = 0 /\ Views!Last(preview) = P - 1
      BY <1>1, <1>4 DEF Views!Last
<1>6. \A k \in 2 .. Len(preview) : preview[k - 1] < preview[k]
  <2>1. DOMAIN preview = 1 .. Len(preview)
        BY <1>4
  <2>2. \A k \in 2 .. Len(preview) : /\ k - 1 \in 1 .. Len(preview) /\ k \in 1 .. Len(preview)
                                     /\ k - 1 < k
        BY <1>4
  <2>3. QED
        BY <1>4, <2>1, <2>2 DEF Increases
<1>7. QED
      BY <1>4, <1>5, <1>6 DEF Views!PreviewKeepsEnds, preview, P

LEMMA MarkersHold == ViewsInv => Views!MarkersAreDrawn
<1> SUFFICES ASSUME ViewsInv, NEW c \in Views!Markers
             PROVE  \E k \in DOMAIN Views!Chart : Views!Chart[k] = c
    BY DEF Views!MarkersAreDrawn
<1> DEFINE P == vReport.points
           touched == UNION {{Views!Shown[n].entry, Views!Shown[n].exit} :
                               n \in DOMAIN Views!Shown}
           sampled == Views!Sampled(Views!Candles, CandlePreviewLimit)
           preview == {sampled[k] : k \in DOMAIN sampled}
           drawn == {d \in 0 .. P - 1 : d \in preview \union touched}
<1>1. P \in Nat /\ vReport.trades \in Seq(Views!TradesWithin(P))
      BY ReportTypes DEF ViewsInv
<1>2. Views!Shown \in Seq(Views!TradesWithin(P))
      BY <1>1, SampledOf, ViewsAreAssumed DEF Views!Shown, Views!ViewsAssumption
<1>3. PICK n \in DOMAIN Views!Shown : c \in {Views!Shown[n].entry, Views!Shown[n].exit}
      BY DEF Views!Markers
<1>4. Views!Shown[n] \in Views!TradesWithin(P)
      BY <1>2, <1>3
<1>5. c \in 0 .. P - 1
      BY <1>3, <1>4 DEF Views!TradesWithin
<1>6. c \in touched
      BY <1>3
<1>7. Views!Chart = Ascending(drawn)
      BY SameOrder DEF Views!Chart
<1>8. drawn \in SUBSET Int /\ IsFiniteSet(drawn)
  <2>1. IsFiniteSet(0 .. P - 1)
    <3>1. 0 \in Int /\ P - 1 \in Int
          BY <1>1
    <3>2. QED
          BY <3>1, FS_Interval
  <2>2. drawn \in SUBSET (0 .. P - 1)
        OBVIOUS
  <2>3. \A d \in 0 .. P - 1 : d \in Int
        BY <1>1
  <2> HIDE DEF drawn, P
  <2>4. QED
        BY <2>1, <2>2, <2>3, FS_Subset
<1> HIDE DEF touched, drawn, P
<1>9. c \in drawn
      BY <1>5, <1>6 DEF drawn
<1>10. QED
       BY <1>7, <1>8, <1>9, AscendingOf

\* Whatever a client asks for, the pages are the series, the preview keeps both ends of the
\* curve, and every marker sits on a candle that is drawn (list_trades_for_user,
\* _downsample_equity_points, _chart_candle_preview).
THEOREM ReportsAreReadWhole == Views!Spec => []ViewsAreComplete
<1>1. ViewsInv => ViewsAreComplete
      BY PagesHold, PreviewHolds, MarkersHold DEF ViewsAreComplete, Views!ViewsAreComplete
<1>2. QED
      BY <1>1, ViewsInitially, ViewsInductive, PTL DEF Views!Spec

-----------------------------------------------------------------------------
(* AnalysisInputs: the open times of a range and its current rows. *)

LEMMA SameSize ==
    ASSUME NEW S
    PROVE  Inputs!Cardinality(S) = Cardinality(S)
BY DEF Inputs!Cardinality, Cardinality

\* Multiples of a positive step.
LEMMA Multiples ==
    ASSUME NEW f \in Nat \ {0}, NEW i \in Int, NEW j \in Int
    PROVE  /\ i * f \in Int
           /\ (i + j) * f = i * f + j * f
           /\ (i - 1) * f = i * f - f
           /\ i < j => i * f + f <= j * f
           /\ 0 * f = 0 /\ 1 * f = f
<1>1. /\ i * f \in Int /\ (i + j) * f = i * f + j * f
      /\ (i - 1) * f = i * f - f /\ 0 * f = 0 /\ 1 * f = f
      OBVIOUS
<1>2. ASSUME i < j PROVE i * f + f <= j * f
  <2>1. j - (i + 1) \in Nat
        BY <1>2
  <2>2. (j - (i + 1)) * f \in Nat
        BY <2>1
  <2>3. (j - (i + 1)) * f = j * f - (i * f + f)
        OBVIOUS
  <2>4. j * f \in Int /\ i * f \in Int /\ f \in Int
        OBVIOUS
  <2>5. QED
        BY <2>2, <2>3, <2>4
<1>3. QED
      BY <1>1, <1>2

LEMMA WholeMultiple ==
    ASSUME NEW t \in Int, NEW f \in Nat \ {0}, t % f = 0
    PROVE  t \div f \in Int /\ t = (t \div f) * f
OBVIOUS

\* The typed request of a range that validate_range accepts: a range of whole candles.
LEMMA RangeIs ==
    ASSUME NEW q \in Requests, Inputs!RangeProblem(q) = "none"
    PROVE  /\ q.frame \in Nat \ {0} /\ q.warmup \in Nat
           /\ q.start \in Int /\ q.end \in Int
           /\ Inputs!ExpectedAnalysis(q) \in Nat \ {0}
           /\ Inputs!ExpectedTotal(q) = q.warmup + Inputs!ExpectedAnalysis(q)
           /\ Inputs!ExpectedTotal(q) \in Nat \ {0}
           /\ q.end = q.start + Inputs!ExpectedAnalysis(q) * q.frame
           /\ q.end - q.start <= MaximumRange
<1>1. /\ q.frame \in Nat \ {0} /\ q.warmup \in Nat
      /\ q.start \in Int /\ q.end \in Int
      BY InputsAreAssumed DEF Inputs!InputsAssumption
<1>2. /\ q.start % q.frame = 0 /\ q.end % q.frame = 0 /\ q.start < q.end
      /\ q.end - q.start <= MaximumRange
  <2>1. MaximumRange \in Int
        BY InputsAreAssumed DEF Inputs!InputsAssumption
  <2>2. /\ ~(~Inputs!OnBoundary(q, q.start) \/ ~Inputs!OnBoundary(q, q.end)
             \/ q.end <= q.start)
        /\ ~(q.end - q.start > MaximumRange)
        BY DEF Inputs!RangeProblem
  <2>3. QED
        BY <1>1, <2>1, <2>2 DEF Inputs!OnBoundary
<1> DEFINE s == q.start \div q.frame
           e == q.end \div q.frame
<1>3. s \in Int /\ e \in Int /\ q.start = s * q.frame /\ q.end = e * q.frame
      BY <1>1, <1>2, WholeMultiple
<1> HIDE DEF s, e
<1>4. s < e
  <2>1. ASSUME e <= s PROVE FALSE
    <3>1. e = s \/ e < s
          BY <2>1, <1>3
    <3>2. e < s => e * q.frame + q.frame <= s * q.frame
          BY <1>1, <1>3, Multiples
    <3>3. QED
          BY <1>1, <1>2, <1>3, <3>1, <3>2
  <2>2. QED
        BY <2>1, <1>3
<1>5. e - s \in Nat \ {0}
      BY <1>3, <1>4
<1>6. q.end - q.start = q.frame * (e - s)
      BY <1>1, <1>3
<1>7. (q.frame * (e - s)) \div q.frame = e - s
      BY <1>1, <1>5, QuotientWhole
<1>8. Inputs!ExpectedAnalysis(q) = e - s
      BY <1>6, <1>7 DEF Inputs!ExpectedAnalysis
<1>9. q.end = q.start + (e - s) * q.frame
      BY <1>1, <1>3, <1>6
<1>10. QED
       BY <1>1, <1>2, <1>5, <1>8, <1>9 DEF Inputs!ExpectedTotal

\* Its open times, one after the other.
Opens(q) == [k \in 1 .. Inputs!ExpectedTotal(q) |-> Inputs!Open(q, k)]

LEMMA OpensAre ==
    ASSUME NEW q \in Requests, Inputs!RangeProblem(q) = "none"
    PROVE  LET T == Inputs!ExpectedTotal(q)
           IN  /\ Opens(q) \in [1 .. T -> Inputs!OpenTimes(q)]
               /\ Inputs!OpenTimes(q) \in SUBSET Int
               /\ \A t \in Inputs!OpenTimes(q) : \E k \in 1 .. T : Opens(q)[k] = t
               /\ Opens(q)[1] = Inputs!Warmup(q)
               /\ Inputs!Warmup(q) \in Int
               /\ Opens(q)[T] + q.frame = q.end
               /\ \A k \in 2 .. T : Opens(q)[k] = Opens(q)[k - 1] + q.frame
               /\ \A k \in 1 .. T : Opens(q)[k] < q.start <=> k <= q.warmup
               /\ Increases(Opens(q))
               /\ \A t \in Inputs!OpenTimes(q) : Inputs!Warmup(q) <= t
<1> DEFINE T == Inputs!ExpectedTotal(q)
           A == Inputs!ExpectedAnalysis(q)
           f == q.frame
           w == q.warmup
           x(i) == i * f
           o(k) == Inputs!Open(q, k)
<1>1. /\ f \in Nat \ {0} /\ w \in Nat /\ q.start \in Int /\ q.end \in Int
      /\ A \in Nat \ {0} /\ T = w + A /\ T \in Nat \ {0} /\ q.end = q.start + x(A)
      BY RangeIs
<1>2. /\ \A i \in Int : x(i) \in Int
      /\ \A i \in Int : x(i - 1) = x(i) - f
      /\ x(0) = 0
      BY <1>1, Multiples
<1>3. \A i, j \in Int : i < j => x(i) + f <= x(j)
      BY <1>1, Multiples
<1>4. x(T) = x(w) + x(A)
      BY <1>1, Multiples
<1>5. Inputs!Warmup(q) = q.start - x(w)
      BY DEF Inputs!Warmup
<1>6. \A k \in 1 .. T : o(k) = q.start - x(w) + x(k - 1)
      BY DEF Inputs!Warmup, Inputs!Open
<1>7. /\ \A k \in 1 .. T : Opens(q)[k] = o(k)
      /\ DOMAIN Opens(q) = 1 .. T /\ Opens(q) = [k \in 1 .. T |-> o(k)]
      /\ Inputs!OpenTimes(q) = {o(k) : k \in 1 .. T}
      BY DEF Opens, Inputs!OpenTimes
<1>8. 1 \in 1 .. T /\ T \in 1 .. T /\ \A k \in 2 .. T : k \in 1 .. T /\ k - 1 \in 1 .. T
      BY <1>1
<1>9. /\ x(T) \in Int /\ x(w) \in Int /\ x(A) \in Int /\ w \in Int
      /\ \A k \in 1 .. T : k \in Int /\ x(k) \in Int /\ x(k - 1) = x(k) - f
      BY <1>1, <1>2
<1> HIDE DEF T, A, f, w, x, o
<1>10. \A k \in 1 .. T : o(k) \in Int /\ o(k) = q.start - x(w) + x(k) - f
       BY <1>1, <1>6, <1>9
<1>11. \A j, k \in 1 .. T : j < k => o(j) < o(k)
  <2>1. ASSUME NEW j \in 1 .. T, NEW k \in 1 .. T, j < k PROVE o(j) < o(k)
    <3>1. x(j) + f <= x(k)
          BY <1>3, <1>9, <2>1
    <3>2. QED
          BY <1>1, <1>9, <1>10, <3>1
  <2>2. QED
        BY <2>1
<1>12. o(1) = Inputs!Warmup(q) /\ Inputs!Warmup(q) \in Int
  <2>1. o(1) = q.start - x(w) + x(1 - 1) /\ 1 - 1 = 0
        BY <1>6, <1>8
  <2>2. QED
        BY <2>1, <1>1, <1>2, <1>5, <1>9
<1>13. o(T) + f = q.end
       BY <1>1, <1>4, <1>8, <1>9, <1>10
<1>14. \A k \in 2 .. T : o(k) = o(k - 1) + f
  <2>1. ASSUME NEW k \in 2 .. T PROVE o(k) = o(k - 1) + f
    <3>1. k \in 1 .. T /\ k - 1 \in 1 .. T
          BY <1>8
    <3>2. QED
          BY <1>1, <1>9, <1>10, <3>1
  <2>2. QED
        BY <2>1
<1>15. \A k \in 1 .. T : o(k) < q.start <=> k <= w
  <2>1. ASSUME NEW k \in 1 .. T PROVE o(k) < q.start <=> k <= w
    <3>1. (k < w => x(k) + f <= x(w)) /\ (w < k => x(w) + f <= x(k))
          BY <1>3, <1>9
    <3>2. QED
          BY <1>1, <1>9, <1>10, <3>1
  <2>2. QED
        BY <2>1
<1>16. Increases(Opens(q))
       BY <1>7, <1>11 DEF Increases
<1>17. \A t \in Inputs!OpenTimes(q) : Inputs!Warmup(q) <= t
  <2>1. ASSUME NEW k \in 1 .. T PROVE o(1) <= o(k)
    <3>1. k = 1 \/ 1 < k
          OBVIOUS
    <3>2. QED
          BY <3>1, <1>8, <1>10, <1>11
  <2>2. QED
        BY <2>1, <1>7, <1>12
<1>18. /\ Opens(q) \in [1 .. T -> Inputs!OpenTimes(q)]
       /\ Inputs!OpenTimes(q) \in SUBSET Int
       /\ \A t \in Inputs!OpenTimes(q) : \E k \in 1 .. T : Opens(q)[k] = t
       BY <1>7, <1>10
<1>19. QED
       BY <1>7, <1>8, <1>12, <1>13, <1>14, <1>15, <1>16, <1>17, <1>18 DEF f, w, T

LEMMA LeastOf ==
    ASSUME NEW X \in SUBSET Nat, X # {}
    PROVE  \E x \in X : \A y \in X : x <= y
<1>1. PICK m \in X : \A k \in X : ~(<<k, m>> \in OpToRel(<, Nat))
      BY NatLessThanWellFounded, WFMin
<1>2. ASSUME NEW k \in X PROVE m <= k
  <2>1. m \in Nat /\ k \in Nat
        OBVIOUS
  <2>2. k < m => <<k, m>> \in OpToRel(<, Nat)
        BY <2>1 DEF OpToRel
  <2>3. ~(k < m)
        BY <1>1, <2>2, Zenon
  <2>4. QED
        BY <2>1, <2>3
<1>3. QED
      BY <1>2

Present(q) == {t \in Inputs!OpenTimes(q) : iStore[t] # "none"}

\* The current rows of a range are its present candles in order, and all of them are its
\* open times one after the other.
LEMMA CurrentRowsAre ==
    ASSUME NEW q \in Requests, Inputs!RangeProblem(q) = "none"
    PROVE  LET cs == Inputs!CurrentRows(q)
               T == Inputs!ExpectedTotal(q)
           IN  /\ Len(cs) \in 0 .. T
               /\ cs \in [1 .. Len(cs) -> Inputs!OpenTimes(q)]
               /\ cs \in Seq(Int)
               /\ \A k \in 1 .. Len(cs) : iStore[cs[k]] # "none"
               /\ \A t \in Present(q) : \E k \in 1 .. Len(cs) : cs[k] = t
               /\ Len(cs) = T <=> Present(q) = Inputs!OpenTimes(q)
               /\ Len(cs) = T => cs = Opens(q)
<1> DEFINE cs == Inputs!CurrentRows(q)
           T == Inputs!ExpectedTotal(q)
           O == Inputs!OpenTimes(q)
           P == Present(q)
<1>1. /\ Opens(q) \in [1 .. T -> O] /\ O \in SUBSET Int
      /\ \A t \in O : \E k \in 1 .. T : Opens(q)[k] = t
      /\ Increases(Opens(q))
      BY OpensAre
<1>2. T \in Nat
      BY RangeIs
<1>3. IsFiniteSet(O) /\ Cardinality(O) = T /\ Ascending(O) = Opens(q)
      BY <1>1, <1>2, AscendingIs
<1>4. P \in SUBSET O
      BY DEF Present
<1>5. IsFiniteSet(P) /\ Cardinality(P) <= T /\ (Cardinality(P) = T => O = P)
      BY <1>3, <1>4, FS_Subset
<1>6. P \in SUBSET Int
      BY <1>1, <1>4
<1>7. cs = Ascending(P)
      BY SameOrder DEF Inputs!CurrentRows, Present
<1>8. /\ Cardinality(P) \in Nat
      /\ Ascending(P) \in [1 .. Cardinality(P) -> P]
      /\ \A k \in P : \E n \in 1 .. Cardinality(P) : Ascending(P)[n] = k
      BY <1>5, <1>6, AscendingOf
<1>9. Len(cs) = Cardinality(P) /\ cs \in [1 .. Len(cs) -> P]
      BY <1>7, <1>8
<1>10. \A t \in P : t \in O /\ t \in Int /\ iStore[t] # "none"
       BY <1>6 DEF Present
<1>11. cs \in [1 .. Len(cs) -> O] /\ cs \in [1 .. Len(cs) -> Int] /\ Len(cs) \in Nat
       BY <1>8, <1>9, <1>10
<1>12. cs \in Seq(Int)
       BY <1>11
<1>13. Len(cs) = T <=> P = O
       BY <1>3, <1>5, <1>9
<1>14. P = O => cs = Opens(q)
       BY <1>3, <1>7
<1>15. Len(cs) \in 0 .. T
       BY <1>2, <1>5, <1>8, <1>9
<1>16. /\ \A k \in 1 .. Len(cs) : iStore[cs[k]] # "none"
       /\ \A t \in P : \E k \in 1 .. Len(cs) : cs[k] = t
       BY <1>7, <1>8, <1>9, <1>10
<1>17. QED
       BY <1>11, <1>12, <1>13, <1>14, <1>15, <1>16

LEMMA UpTo ==
    ASSUME NEW n \in Nat
    PROVE  Cardinality(1 .. n) = n
<1>1. 1 \in Int /\ n \in Int
      OBVIOUS
<1>2. Cardinality(1 .. n) = IF 1 > n THEN 0 ELSE n - 1 + 1
      BY <1>1, FS_Interval
<1>3. QED
      BY <1>2

\* What the judges look at, of the open times themselves.
LEMMA OpensPass ==
    ASSUME NEW q \in Requests, Inputs!RangeProblem(q) = "none"
    PROVE  /\ Len(Opens(q)) = Inputs!ExpectedTotal(q) /\ Opens(q) # <<>>
           /\ Inputs!Contiguous(q, Opens(q))
           /\ Opens(q)[1] = Inputs!Warmup(q)
           /\ Opens(q)[Inputs!ExpectedTotal(q)] + q.frame = q.end
           /\ Inputs!Before(q, Opens(q)) = q.warmup
<1> DEFINE T == Inputs!ExpectedTotal(q)
           w == q.warmup
           before == {k \in DOMAIN Opens(q) : Opens(q)[k] < q.start}
<1>1. /\ T \in Nat \ {0} /\ w \in Nat /\ w <= T
      BY RangeIs
<1>2. /\ Opens(q) \in [1 .. T -> Inputs!OpenTimes(q)]
      /\ Opens(q)[1] = Inputs!Warmup(q)
      /\ Opens(q)[T] + q.frame = q.end
      /\ \A k \in 2 .. T : Opens(q)[k] = Opens(q)[k - 1] + q.frame
      /\ \A k \in 1 .. T : Opens(q)[k] < q.start <=> k <= w
      BY OpensAre
<1>3. Len(Opens(q)) = T /\ Opens(q) # <<>>
  <2>1. DOMAIN Opens(q) = 1 .. T
        BY <1>2
  <2>2. Len(Opens(q)) = T
        BY <1>1 DEF Opens
  <2>3. QED
        BY <1>1, <2>2
<1>4. before = 1 .. w
      BY <1>1, <1>2
<1>5. Cardinality(1 .. w) = w
      BY <1>1, UpTo
<1>6. Inputs!Before(q, Opens(q)) = w
      BY <1>4, <1>5, SameSize DEF Inputs!Before
<1>7. Inputs!Contiguous(q, Opens(q))
      BY <1>2, <1>3 DEF Inputs!Contiguous
<1>8. QED
      BY <1>2, <1>3, <1>6, <1>7

\* The first problem of the dataset's loop is that of some row, if any has one.
LEMMA FirstProblemIs ==
    ASSUME NEW q, NEW cs \in Seq(Int)
    PROVE  /\ Inputs!FirstProblem(q, cs) \in {"none", "incomplete", "gap_detected"}
           /\ Inputs!FirstProblem(q, cs) # "none" =>
                \E k \in DOMAIN cs : Inputs!RowProblem(q, cs, k) = Inputs!FirstProblem(q, cs)
           /\ Inputs!FirstProblem(q, cs) = "none" =>
                \A k \in DOMAIN cs : Inputs!RowProblem(q, cs, k) = "none"
<1> DEFINE problem(k) == Inputs!RowProblem(q, cs, k)
           bad == {k \in DOMAIN cs : problem(k) # "none"}
           first == CHOOSE k \in bad : \A j \in bad : k <= j
<1>1. \A k : problem(k) \in {"none", "incomplete", "gap_detected"}
      BY DEF Inputs!RowProblem
<1>2. Inputs!FirstProblem(q, cs) = IF bad = {} THEN "none" ELSE problem(first)
      BY DEF Inputs!FirstProblem
<1>3. CASE bad = {}
  <2>1. \A k \in DOMAIN cs : problem(k) = "none"
        BY <1>3
  <2> HIDE DEF problem, first
  <2>2. Inputs!FirstProblem(q, cs) = "none"
        BY <1>2, <1>3
  <2>3. QED
        BY <2>1, <2>2 DEF problem
<1>4. CASE bad # {}
  <2>1. bad \in SUBSET Nat
        OBVIOUS
  <2>2. \E k \in bad : \A j \in bad : k <= j
        BY <1>4, <2>1, LeastOf
  <2>3. first \in bad
        BY <2>2
  <2>4. first \in DOMAIN cs /\ problem(first) # "none"
        BY <2>3
  <2> HIDE DEF first, problem
  <2>5. Inputs!FirstProblem(q, cs) = problem(first)
        BY <1>2, <1>4
  <2>6. QED
        BY <1>1, <2>4, <2>5 DEF problem
<1>5. QED
      BY <1>3, <1>4

-----------------------------------------------------------------------------
(* The dataset, the engine and the coverage of the same rows. *)

\* The range of an accepted request is within the dataset's own limit.
LEMMA RangeFits ==
    ASSUME NEW q \in Requests, Inputs!RangeProblem(q) = "none"
    PROVE  Inputs!ExpectedTotal(q) <= Inputs!MaximumCandles(q) /\ Inputs!MaximumCandles(q) \in Int
<1>1. /\ q.frame \in Nat \ {0} /\ q.warmup \in Nat /\ q.start \in Int /\ q.end \in Int
      /\ q.end - q.start <= MaximumRange
      /\ Inputs!ExpectedTotal(q) = q.warmup + Inputs!ExpectedAnalysis(q)
      BY RangeIs
<1>2. MaximumRange \in Int /\ q.end - q.start \in Int
      BY <1>1, InputsAreAssumed DEF Inputs!InputsAssumption
<1>3. (q.end - q.start) \div q.frame <= MaximumRange \div q.frame
      BY <1>1, <1>2, QuotientGrows
<1>4. (q.end - q.start) \div q.frame \in Int /\ MaximumRange \div q.frame \in Int
      BY <1>1, <1>2, Quotient
<1>5. Inputs!MaximumCandles(q) = MaximumRange \div q.frame + q.warmup
      BY DEF Inputs!MaximumCandles
<1>6. Inputs!ExpectedTotal(q) = q.warmup + (q.end - q.start) \div q.frame
      BY <1>1 DEF Inputs!ExpectedAnalysis
<1>7. QED
      BY <1>1, <1>3, <1>4, <1>5, <1>6

\* What the dataset says of a range: the rows are the whole range exactly if it finds
\* nothing, or nothing but an incomplete candle.
LEMMA DatasetOf ==
    ASSUME NEW q \in Requests, Inputs!RangeProblem(q) = "none"
    PROVE  LET cs == Inputs!CurrentRows(q)
               failure == Inputs!DatasetFailure(q, cs)
           IN  /\ failure \in {"none", "insufficient_warmup", "gap_detected", "incomplete"}
               /\ failure = "incomplete" => \E t \in Inputs!OpenTimes(q) : iStore[t] = "incomplete"
               /\ failure = "none" =>
                    /\ Len(cs) = Inputs!ExpectedTotal(q)
                    /\ \A t \in Inputs!OpenTimes(q) : iStore[t] \notin {"none", "incomplete"}
               /\ Len(cs) = Inputs!ExpectedTotal(q) => failure \in {"none", "incomplete"}
               /\ failure = "insufficient_warmup" =>
                    \/ cs = <<>>
                    \/ /\ cs # <<>>
                       /\ Inputs!Contiguous(q, cs)
                       /\ cs[1] > Inputs!Warmup(q) \/ Inputs!Before(q, cs) < q.warmup
<1> DEFINE cs == Inputs!CurrentRows(q)
           T == Inputs!ExpectedTotal(q)
           O == Inputs!OpenTimes(q)
           W == Inputs!Warmup(q)
           before == Inputs!Before(q, cs)
           problem == Inputs!FirstProblem(q, cs)
           failure == Inputs!DatasetFailure(q, cs)
           maximum == Inputs!MaximumCandles(q)
           analysis == Inputs!ExpectedAnalysis(q)
           last == cs[Len(cs)]
<1>1. /\ q.frame \in Nat \ {0} /\ q.warmup \in Nat /\ q.end \in Int
      /\ T = q.warmup + analysis /\ analysis \in Nat \ {0} /\ T \in Nat \ {0}
      BY RangeIs
<1>2. T <= maximum /\ maximum \in Int
      BY RangeFits
<1>3. /\ Len(cs) \in 0 .. T
      /\ cs \in [1 .. Len(cs) -> O] /\ cs \in Seq(Int)
      /\ \A k \in 1 .. Len(cs) : iStore[cs[k]] # "none"
      /\ \A t \in Present(q) : \E k \in 1 .. Len(cs) : cs[k] = t
      /\ Len(cs) = T <=> Present(q) = O
      /\ Len(cs) = T => cs = Opens(q)
      BY CurrentRowsAre
<1>4. /\ Len(Opens(q)) = T /\ Opens(q) # <<>>
      /\ Inputs!Contiguous(q, Opens(q))
      /\ Opens(q)[1] = W
      /\ Opens(q)[T] + q.frame = q.end
      /\ Inputs!Before(q, Opens(q)) = q.warmup
      BY OpensPass
<1>5. /\ problem \in {"none", "incomplete", "gap_detected"}
      /\ problem # "none" => \E k \in DOMAIN cs : Inputs!RowProblem(q, cs, k) = problem
      /\ problem = "none" => \A k \in DOMAIN cs : Inputs!RowProblem(q, cs, k) = "none"
      BY <1>3, FirstProblemIs
<1>6. before \in Nat
  <2>1. IsFiniteSet(1 .. Len(cs))
        BY <1>3, FS_Interval
  <2>2. {k \in DOMAIN cs : cs[k] < q.start} \in SUBSET (1 .. Len(cs))
        BY <1>3
  <2>3. IsFiniteSet({k \in DOMAIN cs : cs[k] < q.start})
        BY <2>1, <2>2, FS_Subset
  <2>4. Cardinality({k \in DOMAIN cs : cs[k] < q.start}) \in Nat
        BY <2>3, FS_CardinalityType
  <2>5. QED
        BY <2>4, SameSize DEF Inputs!Before
<1>7. failure = IF Len(cs) > maximum THEN "too_large"
                ELSE IF cs = <<>> THEN "insufficient_warmup"
                ELSE IF problem # "none" THEN problem
                ELSE IF cs[1] # W THEN "insufficient_warmup"
                ELSE IF last + q.frame # q.end THEN "gap_detected"
                ELSE IF before < q.warmup THEN "insufficient_warmup"
                ELSE IF Len(cs) - before < analysis THEN "gap_detected"
                ELSE IF Len(cs) # T THEN "invalid"
                ELSE "none"
      BY DEF Inputs!DatasetFailure
<1>8. \A k \in DOMAIN cs :
        /\ Inputs!RowProblem(q, cs, k) = "incomplete" => iStore[cs[k]] = "incomplete"
        /\ Inputs!RowProblem(q, cs, k) = "gap_detected" => k > 1 /\ cs[k] # cs[k - 1] + q.frame
        /\ Inputs!RowProblem(q, cs, k) = "none" =>
             iStore[cs[k]] # "incomplete" /\ (k > 1 => cs[k] = cs[k - 1] + q.frame)
      BY DEF Inputs!RowProblem
<1>9. DOMAIN cs = 1 .. Len(cs) /\ \A k \in 1 .. Len(cs) : cs[k] \in O
      BY <1>3
<1>10. ~(Len(cs) > maximum)
       BY <1>1, <1>2, <1>3
<1>11. problem = "none" => /\ Inputs!Contiguous(q, cs)
                           /\ \A t \in Present(q) : iStore[t] # "incomplete"
  <2>1. ASSUME problem = "none" PROVE Inputs!Contiguous(q, cs)
    <3>1. \A k \in 2 .. Len(cs) : k \in DOMAIN cs /\ k > 1
          BY <1>3, <1>9
    <3>2. \A k \in 2 .. Len(cs) : cs[k] = cs[k - 1] + q.frame
          BY <2>1, <3>1, <1>5, <1>8
    <3>3. QED
          BY <3>2 DEF Inputs!Contiguous
  <2>2. ASSUME problem = "none" PROVE \A t \in Present(q) : iStore[t] # "incomplete"
        BY <2>2, <1>3, <1>5, <1>8, <1>9
  <2>3. QED
        BY <2>1, <2>2
<1>12. problem = "incomplete" => \E t \in O : iStore[t] = "incomplete"
       BY <1>5, <1>8, <1>9
<1>13. Len(cs) = T => problem # "gap_detected"
  <2>1. ASSUME Len(cs) = T, problem = "gap_detected" PROVE FALSE
    <3>1. PICK k \in DOMAIN cs : Inputs!RowProblem(q, cs, k) = "gap_detected"
          BY <2>1, <1>5
    <3>2. k > 1 /\ cs[k] # cs[k - 1] + q.frame /\ k \in 2 .. Len(cs)
          BY <3>1, <1>3, <1>8, <1>9
    <3>3. Inputs!Contiguous(q, cs)
          BY <2>1, <1>3, <1>4
    <3>4. QED
          BY <3>2, <3>3 DEF Inputs!Contiguous
  <2>2. QED
        BY <2>1
<1>14. cs # <<>> => cs[1] \in Int /\ W \in Int /\ (cs[1] # W => cs[1] > W)
  <2>1. W \in Int /\ \A t \in O : W <= t /\ t \in Int
        BY OpensAre
  <2>2. ASSUME cs # <<>> PROVE cs[1] \in O
    <3>1. Len(cs) # 0
          BY <1>3, <2>2, EmptySeq
    <3>2. 1 \in 1 .. Len(cs)
          BY <1>3, <3>1
    <3>3. QED
          BY <1>9, <3>2
  <2>3. QED
        BY <2>1, <2>2
<1> HIDE DEF cs, T, O, W, before, problem, failure, maximum, analysis, last
<1>15. failure \in {"none", "insufficient_warmup", "gap_detected", "incomplete"}
       BY <1>1, <1>3, <1>5, <1>6, <1>7, <1>10
<1>16. failure = "incomplete" => \E t \in O : iStore[t] = "incomplete"
  <2>1. failure = "incomplete" => problem = "incomplete"
        BY <1>5, <1>7, <1>10
  <2>2. QED
        BY <2>1, <1>12
<1>17. failure = "none" => Len(cs) = T /\ \A t \in O : iStore[t] \notin {"none", "incomplete"}
  <2>1. ASSUME failure = "none"
        PROVE  Len(cs) = T /\ problem = "none"
        BY <2>1, <1>5, <1>7
  <2>2. ASSUME failure = "none", NEW t \in O
        PROVE  iStore[t] \notin {"none", "incomplete"}
    <3>1. Present(q) = O
          BY <2>1, <2>2, <1>3
    <3>2. t \in Present(q) /\ iStore[t] # "incomplete"
          BY <2>1, <2>2, <3>1, <1>11
    <3>3. QED
          BY <3>2 DEF Present
  <2>3. QED
        BY <2>1, <2>2
<1>18. Len(cs) = T => failure \in {"none", "incomplete"}
  <2>1. ASSUME Len(cs) = T PROVE failure \in {"none", "incomplete"}
    <3>1. /\ cs # <<>> /\ cs[1] = W /\ before = q.warmup /\ cs = Opens(q)
          BY <2>1, <1>3, <1>4 DEF before, cs
    <3>2. last + q.frame = q.end
          BY <2>1, <3>1, <1>4 DEF last
    <3>3. ~(Len(cs) - before < analysis)
          BY <2>1, <3>1, <1>1, <1>3
    <3>4. problem \in {"none", "incomplete"}
          BY <2>1, <1>5, <1>13
    <3>5. ~(before < q.warmup)
          BY <3>1, <1>1
    <3>6. QED
          BY <2>1, <3>1, <3>2, <3>3, <3>4, <3>5, <1>7, <1>10
  <2>2. QED
        BY <2>1
<1>19. failure = "insufficient_warmup" =>
            \/ cs = <<>>
            \/ cs # <<>> /\ Inputs!Contiguous(q, cs) /\ (cs[1] > W \/ before < q.warmup)
  <2>1. failure = "insufficient_warmup" =>
            \/ cs = <<>>
            \/ cs # <<>> /\ problem = "none" /\ (cs[1] # W \/ before < q.warmup)
        BY <1>5, <1>7, <1>10
  <2>2. QED
        BY <2>1, <1>11, <1>14
<1>20. QED
       BY <1>15, <1>16, <1>17, <1>18, <1>19 DEF cs, T, O, W, before, failure

\* The engine's own limits, before it looks at a candle.
BeyondLimits(q) ==
    Inputs!ExpectedAnalysis(q) > MaxAnalysis \/ Inputs!ExpectedTotal(q) > MaxTotal

\* What the engine says of the rows: it takes the whole range and nothing less, and misses
\* the warm-up wherever the dataset does.
LEMMA EngineOf ==
    ASSUME NEW q \in Requests, Inputs!RangeProblem(q) = "none", ~BeyondLimits(q)
    PROVE  LET cs == Inputs!CurrentRows(q)
               failure == Inputs!EngineFailure(q, cs)
           IN  /\ failure = "none" => Len(cs) = Inputs!ExpectedTotal(q)
               /\ cs = <<>> => failure = "missing_warmup"
               /\ (/\ cs # <<>>
                   /\ Inputs!Contiguous(q, cs)
                   /\ cs[1] > Inputs!Warmup(q) \/ Inputs!Before(q, cs) < q.warmup)
                      => failure = "missing_warmup"
<1> DEFINE cs == Inputs!CurrentRows(q)
           T == Inputs!ExpectedTotal(q)
           W == Inputs!Warmup(q)
           before == Inputs!Before(q, cs)
           failure == Inputs!EngineFailure(q, cs)
           last == cs[Len(cs)]
           contiguous == Inputs!Contiguous(q, cs)
<1>1. Len(cs) \in 0 .. T /\ T \in Nat
      BY CurrentRowsAre, RangeIs
<1>2. failure = IF cs = <<>> THEN "missing_warmup"
                ELSE IF Len(cs) > T THEN "dataset_count_invalid"
                ELSE IF ~contiguous THEN "candle_gap"
                ELSE IF cs[1] > W \/ before < q.warmup THEN "missing_warmup"
                ELSE IF Len(cs) < T
                THEN IF last + q.frame < q.end THEN "candle_gap"
                     ELSE "missing_analysis_candles"
                ELSE IF last + q.frame # q.end THEN "candle_gap"
                ELSE "none"
      BY DEF BeyondLimits, Inputs!EngineFailure
<1>3. ~(Len(cs) > T)
      BY <1>1
<1> HIDE DEF cs, T, W, before, failure, last, contiguous
<1>4. failure = "none" => ~(Len(cs) < T)
      BY <1>2
<1>5. failure = "none" => Len(cs) = T
      BY <1>1, <1>4
<1>6. /\ cs = <<>> => failure = "missing_warmup"
      /\ (cs # <<>> /\ contiguous /\ (cs[1] > W \/ before < q.warmup))
            => failure = "missing_warmup"
      BY <1>2, <1>3
<1>7. QED
      BY <1>5, <1>6 DEF cs, T, W, before, failure, contiguous

LEMMA EngineTakesOpens ==
    ASSUME NEW q \in Requests, Inputs!RangeProblem(q) = "none"
    PROVE  Inputs!EngineFailure(q, Opens(q)) =
              IF BeyondLimits(q) THEN "resource_limit_exceeded" ELSE "none"
<1> DEFINE cs == Opens(q)
           T == Inputs!ExpectedTotal(q)
<1>1. T \in Nat \ {0} /\ q.warmup \in Nat /\ q.end \in Int /\ q.frame \in Nat
      BY RangeIs
<1>2. /\ Len(cs) = T /\ cs # <<>>
      /\ Inputs!Contiguous(q, cs)
      /\ cs[1] = Inputs!Warmup(q)
      /\ cs[T] + q.frame = q.end
      /\ Inputs!Before(q, cs) = q.warmup
      BY OpensPass
<1>3. Inputs!Warmup(q) \in Int
      BY OpensAre
<1>4. ~(Len(cs) > T) /\ ~(Len(cs) < T) /\ ~(cs[1] > Inputs!Warmup(q))
      /\ ~(Inputs!Before(q, cs) < q.warmup) /\ cs[Len(cs)] + q.frame = q.end
      BY <1>1, <1>2, <1>3
<1> HIDE DEF cs
<1>5. Inputs!EngineFailure(q, cs) =
         IF BeyondLimits(q) THEN "resource_limit_exceeded" ELSE "none"
      BY <1>2, <1>4 DEF Inputs!EngineFailure, BeyondLimits
<1>6. QED
      BY <1>5 DEF cs

\* The coverage in SQL counts the complete candles, and that is enough.
LEMMA CoverageIs ==
    ASSUME NEW q \in Requests, Inputs!RangeProblem(q) = "none"
    PROVE  Inputs!CoverageReady(q) <=> Inputs!Whole(q)
<1> DEFINE O == Inputs!OpenTimes(q)
           T == Inputs!ExpectedTotal(q)
           complete == {t \in O : iStore[t] = "complete"}
<1>1. /\ Opens(q) \in [1 .. T -> O] /\ O \in SUBSET Int
      /\ \A t \in O : \E k \in 1 .. T : Opens(q)[k] = t
      /\ Opens(q)[1] = Inputs!Warmup(q) /\ Inputs!Warmup(q) \in Int
      /\ Opens(q)[T] + q.frame = q.end
      /\ \A k \in 2 .. T : Opens(q)[k] = Opens(q)[k - 1] + q.frame
      /\ Increases(Opens(q))
      BY OpensAre
<1>2. T \in Nat \ {0} /\ q.end \in Int /\ q.frame \in Int
      BY RangeIs
<1>3. IsFiniteSet(O) /\ Cardinality(O) = T
      BY <1>1, <1>2, AscendingIs
<1>4. Inputs!CoverageReady(q) <=>
        /\ Cardinality(complete) = T
        /\ Inputs!Warmup(q) \in complete
        /\ q.end - q.frame \in complete
        /\ \A t \in complete \ {Inputs!Warmup(q)} : t - q.frame \in complete
      BY SameSize DEF Inputs!CoverageReady
<1>5. ASSUME Inputs!CoverageReady(q) PROVE Inputs!Whole(q)
  <2>1. complete \in SUBSET O /\ Cardinality(complete) = T
        BY <1>4, <1>5
  <2>2. O = complete
        BY <2>1, <1>3, FS_Subset
  <2>3. QED
        BY <2>2 DEF Inputs!Whole
<1>6. ASSUME Inputs!Whole(q) PROVE Inputs!CoverageReady(q)
  <2>1. complete = O
        BY <1>6 DEF Inputs!Whole
  <2>2. \A k \in 1 .. T : Opens(q)[k] \in O /\ Opens(q)[k] \in Int
        BY <1>1
  <2>3. 1 \in 1 .. T /\ T \in 1 .. T
        BY <1>2
  <2>4. Opens(q)[1] \in O /\ Opens(q)[T] \in O /\ Opens(q)[T] \in Int
        BY <2>2, <2>3
  <2>5. q.end - q.frame = Opens(q)[T]
        BY <1>1, <1>2, <2>4
  <2>6. ASSUME NEW t \in O, t # Inputs!Warmup(q) PROVE t - q.frame \in O
    <3>1. PICK k \in 1 .. T : Opens(q)[k] = t
          BY <1>1
    <3>2. k # 1
          BY <1>1, <2>6, <3>1
    <3>3. k \in 2 .. T /\ k - 1 \in 1 .. T
          BY <1>2, <3>2
    <3>4. Opens(q)[k] = Opens(q)[k - 1] + q.frame /\ Opens(q)[k - 1] \in O
          /\ Opens(q)[k - 1] \in Int
          BY <1>1, <2>2, <3>3
    <3>5. t - q.frame = Opens(q)[k - 1]
          BY <1>2, <3>1, <3>4
    <3>6. QED
          BY <3>4, <3>5
  <2>7. QED
        BY <1>1, <1>3, <1>4, <2>1, <2>4, <2>5, <2>6
<1>7. QED
      BY <1>5, <1>6

\* Whatever candles there are, the three judges agree on them.
LEMMA JudgesHold ==
    ASSUME iRequest \in Requests, iStore \in [Inputs!OpenTimes(iRequest) -> Inputs!Kinds]
    PROVE  Inputs!JudgesAgree
<1> SUFFICES ASSUME Inputs!RangeProblem(iRequest) = "none"
             PROVE  LET cs == Inputs!CurrentRows(iRequest)
                        dataset == Inputs!DatasetFailure(iRequest, cs)
                        engine == Inputs!EngineFailure(iRequest, cs)
                    IN /\ Inputs!CoverageReady(iRequest) <=> Inputs!Whole(iRequest)
                       /\ (dataset = "none") <=> Inputs!Whole(iRequest)
                       /\ (engine # "resource_limit_exceeded" /\ dataset # "incomplete") =>
                            /\ dataset = "none" <=> engine = "none"
                            /\ dataset = "insufficient_warmup" => engine = "missing_warmup"
    BY DEF Inputs!JudgesAgree
<1> DEFINE q == iRequest
           cs == Inputs!CurrentRows(q)
           T == Inputs!ExpectedTotal(q)
           dataset == Inputs!DatasetFailure(q, cs)
           engine == Inputs!EngineFailure(q, cs)
<1>1. Inputs!CoverageReady(q) <=> Inputs!Whole(q)
      BY CoverageIs
<1>2. \A t \in Inputs!OpenTimes(q) : iStore[t] \in {"none", "complete", "incomplete"}
      BY DEF Inputs!Kinds
<1>3. /\ dataset \in {"none", "insufficient_warmup", "gap_detected", "incomplete"}
      /\ dataset = "incomplete" => \E t \in Inputs!OpenTimes(q) : iStore[t] = "incomplete"
      /\ dataset = "none" =>
           /\ Len(cs) = T
           /\ \A t \in Inputs!OpenTimes(q) : iStore[t] \notin {"none", "incomplete"}
      /\ Len(cs) = T => dataset \in {"none", "incomplete"}
      /\ dataset = "insufficient_warmup" =>
           \/ cs = <<>>
           \/ /\ cs # <<>>
              /\ Inputs!Contiguous(q, cs)
              /\ cs[1] > Inputs!Warmup(q) \/ Inputs!Before(q, cs) < q.warmup
      BY DatasetOf
<1>4. (Len(cs) = T <=> Present(q) = Inputs!OpenTimes(q)) /\ (Len(cs) = T => cs = Opens(q))
      BY CurrentRowsAre
<1>5. dataset = "none" <=> Inputs!Whole(q)
  <2>1. ASSUME Inputs!Whole(q) PROVE dataset = "none"
    <3>1. Present(q) = Inputs!OpenTimes(q)
          BY <2>1 DEF Inputs!Whole, Present
    <3>2. \A t \in Inputs!OpenTimes(q) : iStore[t] # "incomplete"
          BY <2>1 DEF Inputs!Whole
    <3>3. QED
          BY <3>1, <3>2, <1>3, <1>4
  <2>2. ASSUME dataset = "none" PROVE Inputs!Whole(q)
        BY <2>2, <1>2, <1>3 DEF Inputs!Whole
  <2>3. QED
        BY <2>1, <2>2
<1>6. Len(cs) = T =>
        engine = IF BeyondLimits(q) THEN "resource_limit_exceeded" ELSE "none"
      BY <1>4, EngineTakesOpens
<1>7. BeyondLimits(q) => engine = "resource_limit_exceeded"
      BY DEF BeyondLimits, Inputs!EngineFailure
<1>8. ~BeyondLimits(q) =>
        /\ engine = "none" => Len(cs) = T
        /\ cs = <<>> => engine = "missing_warmup"
        /\ (/\ cs # <<>>
            /\ Inputs!Contiguous(q, cs)
            /\ cs[1] > Inputs!Warmup(q) \/ Inputs!Before(q, cs) < q.warmup)
               => engine = "missing_warmup"
      BY EngineOf
<1> HIDE DEF cs, T, dataset, engine
<1>9. ASSUME engine # "resource_limit_exceeded", dataset # "incomplete"
      PROVE  /\ dataset = "none" <=> engine = "none"
             /\ dataset = "insufficient_warmup" => engine = "missing_warmup"
      BY <1>9, <1>3, <1>6, <1>7, <1>8
<1>10. QED
       BY <1>1, <1>5, <1>9 DEF cs, T, dataset, engine

-----------------------------------------------------------------------------
(* The rules of a strategy. *)

\* The rules of a strategy the service has accepted: one of each type, of known types.
Known(rs) == \A i \in DOMAIN rs : rs[i].type \in Inputs!RuleTypes

\* The rules of rs, each once, in the order of their types.
SortOf(c, rs) ==
    /\ c \in Seq(Inputs!Rules)
    /\ \A n \in DOMAIN c : \E i \in DOMAIN rs : c[n] = rs[i]
    /\ \A i \in DOMAIN rs : \E n \in DOMAIN c : c[n] = rs[i]
    /\ \A m, n \in DOMAIN c : m < n => Inputs!RuleOrder(c[m]) < Inputs!RuleOrder(c[n])

LEMMA OrderOf ==
    ASSUME NEW rule, rule.type \in Inputs!RuleTypes
    PROVE  /\ Inputs!RuleOrder(rule) \in 1 .. 4
           /\ Inputs!RuleOrder(rule) \in DOMAIN Inputs!Priority
           /\ Inputs!Priority[Inputs!RuleOrder(rule)] = rule.type
<1>1. DOMAIN Inputs!Priority = 1 .. 4
      BY DEF Inputs!Priority
<1>2. \E p \in 1 .. 4 : Inputs!Priority[p] = rule.type
  <2>1. /\ Inputs!Priority[1] = "stop_loss_percent" /\ Inputs!Priority[2] = "take_profit_percent"
        /\ Inputs!Priority[3] = "rsi_threshold_cross"
        /\ Inputs!Priority[4] = "max_holding_candles"
        BY DEF Inputs!Priority
  <2>2. 1 \in 1 .. 4 /\ 2 \in 1 .. 4 /\ 3 \in 1 .. 4 /\ 4 \in 1 .. 4
        OBVIOUS
  <2>3. QED
        BY <2>1, <2>2 DEF Inputs!RuleTypes
<1>3. QED
      BY <1>1, <1>2 DEF Inputs!RuleOrder

LEMMA PriorityOf ==
    ASSUME NEW rule, NEW p \in DOMAIN Inputs!Priority, Inputs!Priority[p] = rule.type
    PROVE  Inputs!RuleOrder(rule) = p
<1>1. /\ Inputs!Priority[1] = "stop_loss_percent" /\ Inputs!Priority[2] = "take_profit_percent"
      /\ Inputs!Priority[3] = "rsi_threshold_cross"
      /\ Inputs!Priority[4] = "max_holding_candles"
      /\ DOMAIN Inputs!Priority = 1 .. 4
      BY DEF Inputs!Priority
<1>2. \A j, k \in DOMAIN Inputs!Priority : Inputs!Priority[j] = Inputs!Priority[k] => j = k
      BY <1>1
<1>3. QED
      BY <1>2 DEF Inputs!RuleOrder

\* Rules of different types have different orders.
LEMMA OrdersDiffer ==
    ASSUME NEW rs \in Seq(Inputs!Rules), Inputs!Distinct(rs), Known(rs),
           NEW i \in DOMAIN rs, NEW j \in DOMAIN rs,
           Inputs!RuleOrder(rs[i]) = Inputs!RuleOrder(rs[j])
    PROVE  i = j
<1>1. rs[i].type \in Inputs!RuleTypes /\ rs[j].type \in Inputs!RuleTypes
      BY DEF Known
<1>2. /\ Inputs!Priority[Inputs!RuleOrder(rs[i])] = rs[i].type
      /\ Inputs!Priority[Inputs!RuleOrder(rs[j])] = rs[j].type
      BY <1>1, OrderOf
<1>3. rs[i].type = rs[j].type
      BY <1>2
<1>4. QED
      BY <1>3 DEF Inputs!Distinct

LEMMA SortsAgree ==
    ASSUME NEW rs \in Seq(Inputs!Rules), Inputs!Distinct(rs), Known(rs),
           NEW c, SortOf(c, rs), NEW d, SortOf(d, rs)
    PROVE  c = d
<1> DEFINE S == {Inputs!RuleOrder(rs[i]) : i \in DOMAIN rs}
           orders(s) == [n \in 1 .. Len(s) |-> Inputs!RuleOrder(s[n])]
<1>1. S \in SUBSET Int
  <2>1. \A i \in DOMAIN rs : Inputs!RuleOrder(rs[i]) \in 1 .. 4
        BY OrderOf DEF Known
  <2>2. QED
        BY <2>1
<1>2. ASSUME NEW s, SortOf(s, rs)
      PROVE  Cardinality(S) = Len(s) /\ Ascending(S) = orders(s)
  <2>1. /\ Len(s) \in Nat /\ DOMAIN s = 1 .. Len(s)
        /\ \A n \in 1 .. Len(s) : \E i \in DOMAIN rs : s[n] = rs[i]
        /\ \A i \in DOMAIN rs : \E n \in 1 .. Len(s) : s[n] = rs[i]
        /\ \A m, n \in 1 .. Len(s) :
             m < n => Inputs!RuleOrder(s[m]) < Inputs!RuleOrder(s[n])
    <3>1. s \in Seq(Inputs!Rules)
          BY <1>2 DEF SortOf
    <3>2. Len(s) \in Nat /\ DOMAIN s = 1 .. Len(s)
          BY <3>1
    <3>3. QED
          BY <1>2, <3>2 DEF SortOf
  <2>2. orders(s) \in [1 .. Len(s) -> S]
        BY <2>1
  <2>3. \A k \in S : \E n \in 1 .. Len(s) : orders(s)[n] = k
        BY <2>1
  <2>4. DOMAIN orders(s) = 1 .. Len(s)
        OBVIOUS
  <2>5. Increases(orders(s))
        BY <2>1, <2>4 DEF Increases
  <2> HIDE DEF S, orders
  <2>6. QED
        BY <1>1, <2>1, <2>2, <2>3, <2>5, AscendingIs
<1>3. Len(c) = Len(d) /\ orders(c) = orders(d)
      BY <1>2
<1>4. /\ c \in Seq(Inputs!Rules) /\ d \in Seq(Inputs!Rules)
      /\ \A n \in DOMAIN c : \E i \in DOMAIN rs : c[n] = rs[i]
      /\ \A n \in DOMAIN d : \E i \in DOMAIN rs : d[n] = rs[i]
      /\ DOMAIN c = 1 .. Len(c) /\ DOMAIN d = 1 .. Len(d)
      BY DEF SortOf
<1>5. ASSUME NEW n \in 1 .. Len(c) PROVE c[n] = d[n]
  <2>1. orders(c)[n] = Inputs!RuleOrder(c[n])
        BY <1>5
  <2>2. orders(d)[n] = Inputs!RuleOrder(d[n])
        BY <1>3, <1>5
  <2>3. Inputs!RuleOrder(c[n]) = Inputs!RuleOrder(d[n])
        BY <1>3, <2>1, <2>2
  <2>4. PICK i \in DOMAIN rs : c[n] = rs[i]
        BY <1>4, <1>5
  <2>5. PICK j \in DOMAIN rs : d[n] = rs[j]
        BY <1>3, <1>4, <1>5
  <2>6. i = j
        BY <2>3, <2>4, <2>5, OrdersDiffer
  <2>7. QED
        BY <2>4, <2>5, <2>6
<1>6. QED
      BY <1>3, <1>4, <1>5, SeqEqual

\* The ranks of the rules are those of their orders.
LEMMA CanonicalSorts ==
    ASSUME NEW rs \in Seq(Inputs!Rules), Inputs!Distinct(rs), Known(rs)
    PROVE  SortOf(Inputs!Canonical(rs), rs) /\ Len(Inputs!Canonical(rs)) = Len(rs)
<1> DEFINE D == DOMAIN rs
           r(i) == Inputs!RuleOrder(rs[i])
           S == {r(i) : i \in D}
           upto(i) == {j \in D : r(j) <= r(i)}
           below(p) == {s \in S : s <= p}
           which(n) == CHOOSE i \in D : Inputs!Cardinality(upto(i)) = n
           c == Inputs!Canonical(rs)
<1>1. D = 1 .. Len(rs) /\ Len(rs) \in Nat /\ IsFiniteSet(D) /\ Cardinality(D) = Len(rs)
  <2>1. D = 1 .. Len(rs) /\ Len(rs) \in Nat
        OBVIOUS
  <2>2. IsFiniteSet(1 .. Len(rs))
        BY <2>1, FS_Interval
  <2>3. QED
        BY <2>1, <2>2, UpTo
<1>2. \A i \in D : r(i) \in Int
      BY OrderOf DEF Known
<1>3. \A i, j \in D : r(i) = r(j) => i = j
      BY OrdersDiffer
<1>4. c = [n \in D |-> rs[which(n)]]
      BY DEF Inputs!Canonical
<1> HIDE DEF D, r, c
<1>5. ASSUME NEW X \in SUBSET D
      PROVE  LET Y == {r(i) : i \in X}
             IN  IsFiniteSet(X) /\ IsFiniteSet(Y) /\ Cardinality(Y) = Cardinality(X)
  <2> DEFINE Y == {r(i) : i \in X}
             f == [i \in X |-> r(i)]
  <2>1. IsFiniteSet(X)
        BY <1>1, FS_Subset
  <2>2. f \in [X -> Y] /\ (\A y \in Y : \E i \in X : f[i] = y)
        /\ (\A i, j \in X : f[i] = f[j] => i = j)
        BY <1>3
  <2>3. f \in Surjection(X, Y) /\ f \in Injection(X, Y)
        BY <2>2 DEF Surjection, Injection, IsInjective
  <2> HIDE DEF Y, f
  <2>4. IsFiniteSet(Y) /\ Cardinality(Y) = Cardinality(X)
        BY <2>1, <2>3, FS_Surjection
  <2>5. QED
        BY <2>1, <2>4 DEF Y
<1>6. S \in SUBSET Int
      BY <1>2
<1>7. IsFiniteSet(S) /\ Cardinality(S) = Len(rs)
      BY <1>1, <1>5
<1>8. ASSUME NEW i \in D PROVE Cardinality(upto(i)) = Cardinality(below(r(i)))
  <2>1. below(r(i)) = {r(j) : j \in upto(i)}
        OBVIOUS
  <2>2. upto(i) \in SUBSET D
        OBVIOUS
  <2> HIDE DEF upto, below
  <2>3. QED
        BY <1>5, <2>1, <2>2
<1> HIDE DEF S
<1>9. /\ \A p \in S : Cardinality(below(p)) \in 1 .. Len(rs)
      /\ \A p, s \in S : p < s <=> Cardinality(below(p)) < Cardinality(below(s))
      /\ \A n \in 1 .. Len(rs) : \E p \in S : Cardinality(below(p)) = n
      BY <1>6, <1>7, Ranks
<1>10. \A i \in D : r(i) \in S
       BY DEF S
<1>11. \A p \in S : \E i \in D : p = r(i)
       BY DEF S
<1> HIDE DEF upto, below
<1>12. \A n \in D : \E i \in D : Cardinality(upto(i)) = n
       BY <1>1, <1>8, <1>9, <1>11
<1>13. \A i \in D : Cardinality(upto(i)) \in D
       BY <1>1, <1>8, <1>9, <1>10
<1>14. \A i, j \in D : r(i) < r(j) <=> Cardinality(upto(i)) < Cardinality(upto(j))
       BY <1>8, <1>9, <1>10
<1>15. \A n \in D : which(n) \in D /\ Cardinality(upto(which(n))) = n
       BY <1>12, SameSize
<1> HIDE DEF which
<1>16. DOMAIN c = D /\ \A n \in D : c[n] = rs[which(n)]
       BY <1>4
<1>17. \A n \in D : rs[n] \in Inputs!Rules
       BY DEF D
<1>18. c \in Seq(Inputs!Rules) /\ Len(c) = Len(rs)
  <2>1. c \in [1 .. Len(rs) -> Inputs!Rules]
        BY <1>1, <1>4, <1>15, <1>17
  <2>2. QED
        BY <1>1, <2>1
<1>19. ASSUME NEW i \in D PROVE which(Cardinality(upto(i))) = i
  <2> DEFINE n == Cardinality(upto(i))
             j == which(n)
  <2>1. j \in D /\ Cardinality(upto(j)) = n /\ n \in Int
        BY <1>1, <1>13, <1>15
  <2> HIDE DEF j
  <2>2. ~(r(i) < r(j)) /\ ~(r(j) < r(i))
        BY <1>14, <2>1
  <2>3. r(i) = r(j)
        BY <1>2, <2>1, <2>2
  <2>4. QED
        BY <1>3, <2>1, <2>3 DEF j
<1>20. \A m, n \in D : m < n => r(which(m)) < r(which(n))
       BY <1>14, <1>15
<1>21. \A n \in D : Inputs!RuleOrder(c[n]) = r(which(n))
       BY <1>16 DEF r
<1>22. \A n \in D : \E i \in D : c[n] = rs[i]
       BY <1>15, <1>16
<1>23. \A i \in D : \E n \in D : c[n] = rs[i]
       BY <1>13, <1>16, <1>19
<1>24. \A m, n \in D : m < n => Inputs!RuleOrder(c[m]) < Inputs!RuleOrder(c[n])
       BY <1>20, <1>21
<1>25. SortOf(c, rs)
       BY <1>16, <1>18, <1>22, <1>23, <1>24 DEF SortOf, D
<1>26. QED
       BY <1>18, <1>25 DEF c

LEMMA EngineSorts ==
    ASSUME NEW rs \in Seq(Inputs!Rules), Inputs!Distinct(rs), Known(rs)
    PROVE  SortOf(Inputs!EngineOrder(rs), rs)
<1> DEFINE D == DOMAIN rs
           Q == Inputs!Priority
           parsed(type) == {i \in D : rs[i].type = type}
           P == {p \in DOMAIN Q : parsed(Q[p]) # {}}
           present == Inputs!Ascending(P)
           which(n) == CHOOSE i \in parsed(Q[present[n]]) : TRUE
           c == Inputs!EngineOrder(rs)
<1>1. DOMAIN Q = 1 .. 4
      BY DEF Inputs!Priority
<1>2. P \in SUBSET (1 .. 4) /\ P \in SUBSET Int
      BY <1>1
<1>3. IsFiniteSet(P)
  <2>1. IsFiniteSet(1 .. 4)
    <3>1. 1 \in Int /\ 4 \in Int
          OBVIOUS
    <3>2. QED
          BY <3>1, FS_Interval
  <2> HIDE DEF P
  <2>2. QED
        BY <1>2, <2>1, FS_Subset
<1>4. present = Ascending(P)
      BY SameOrder
<1>5. c = [n \in DOMAIN present |-> rs[which(n)]]
      BY DEF Inputs!EngineOrder
<1> DEFINE K == Cardinality(P)
<1>6. \A p \in P : p \in DOMAIN Q /\ \E i \in D : rs[i].type = Q[p]
      OBVIOUS
<1>7. \A i \in D : rs[i].type \in Inputs!RuleTypes
      BY DEF Known
<1>8. ASSUME NEW i \in D
      PROVE  Inputs!RuleOrder(rs[i]) \in P
  <2>1. /\ Inputs!RuleOrder(rs[i]) \in DOMAIN Q
        /\ Q[Inputs!RuleOrder(rs[i])] = rs[i].type
        BY <1>7, OrderOf
  <2>2. QED
        BY <2>1
<1> HIDE DEF P
<1>9. /\ K \in Nat /\ present \in [1 .. K -> P]
      /\ \A m, n \in DOMAIN present : m < n => present[m] < present[n]
      /\ \A k \in P : \E n \in 1 .. K : present[n] = k
      BY <1>2, <1>3, <1>4, AscendingOf DEF Increases
<1> HIDE DEF present, K
<1>10. DOMAIN present = 1 .. K /\ DOMAIN c = 1 .. K
       BY <1>5, <1>9
<1>11. ASSUME NEW n \in 1 .. K
       PROVE  /\ which(n) \in D /\ c[n] = rs[which(n)]
              /\ Inputs!RuleOrder(c[n]) = present[n]
  <2>1. present[n] \in P
        BY <1>9
  <2>2. present[n] \in DOMAIN Q /\ \E i \in D : rs[i].type = Q[present[n]]
        BY <1>6, <2>1
  <2>3. which(n) \in parsed(Q[present[n]])
        BY <2>2
  <2>4. which(n) \in D /\ rs[which(n)].type = Q[present[n]]
        BY <2>3
  <2>5. c[n] = rs[which(n)]
        BY <1>5, <1>10
  <2> HIDE DEF which, c, D
  <2>6. Inputs!RuleOrder(c[n]) = present[n]
        BY <2>2, <2>4, <2>5, PriorityOf
  <2>7. QED
        BY <2>4, <2>5, <2>6
<1> HIDE DEF which
<1>12. c \in Seq(Inputs!Rules)
  <2>1. \A n \in 1 .. K : c[n] \in Inputs!Rules
        BY <1>11
  <2>2. c \in [1 .. K -> Inputs!Rules]
        BY <1>5, <1>10, <2>1
  <2>3. QED
        BY <1>9, <2>2
<1> HIDE DEF c
<1>13. \A i \in D : \E n \in 1 .. K : c[n] = rs[i]
  <2>1. ASSUME NEW i \in D PROVE \E n \in 1 .. K : c[n] = rs[i]
    <3>1. PICK n \in 1 .. K : present[n] = Inputs!RuleOrder(rs[i])
          BY <1>8, <1>9
    <3>2. which(n) \in D /\ c[n] = rs[which(n)] /\ Inputs!RuleOrder(c[n]) = present[n]
          BY <1>11
    <3>3. Inputs!RuleOrder(rs[which(n)]) = Inputs!RuleOrder(rs[i])
          BY <3>1, <3>2
    <3>4. which(n) = i
          BY <3>2, <3>3, OrdersDiffer
    <3>5. QED
          BY <3>2, <3>4
  <2>2. QED
        BY <2>1
<1>14. \A m, n \in 1 .. K : m < n => Inputs!RuleOrder(c[m]) < Inputs!RuleOrder(c[n])
       BY <1>9, <1>10, <1>11
<1>15. QED
       BY <1>10, <1>11, <1>12, <1>13, <1>14 DEF SortOf, c

\* The canonical rules are again one of each type, and the engine keeps their order.
LEMMA CanonicalIs ==
    ASSUME NEW rs \in Seq(Inputs!Rules), Inputs!Distinct(rs), Known(rs)
    PROVE  LET c == Inputs!Canonical(rs)
           IN  /\ c \in Seq(Inputs!Rules) /\ Len(c) = Len(rs)
               /\ \A n \in DOMAIN c : \E i \in DOMAIN rs : c[n] = rs[i]
               /\ \A i \in DOMAIN rs : \E n \in DOMAIN c : c[n] = rs[i]
               /\ Inputs!Distinct(c)
               /\ Inputs!EngineOrder(c) = c
<1> DEFINE c == Inputs!Canonical(rs)
<1>1. SortOf(c, rs) /\ Len(c) = Len(rs)
      BY CanonicalSorts
<1> HIDE DEF c
<1>2. /\ c \in Seq(Inputs!Rules)
      /\ \A n \in DOMAIN c : \E i \in DOMAIN rs : c[n] = rs[i]
      /\ \A i \in DOMAIN rs : \E n \in DOMAIN c : c[n] = rs[i]
      /\ \A m, n \in DOMAIN c : m < n => Inputs!RuleOrder(c[m]) < Inputs!RuleOrder(c[n])
      BY <1>1 DEF SortOf
<1>3. Known(c)
      BY <1>2 DEF Known
<1>4. \A n \in DOMAIN c : n \in Int /\ Inputs!RuleOrder(c[n]) \in Int
  <2>1. \A n \in DOMAIN c : Inputs!RuleOrder(c[n]) \in 1 .. 4
        BY <1>3, OrderOf DEF Known
  <2>2. QED
        BY <1>2, <2>1
<1>5. ASSUME NEW m \in DOMAIN c, NEW n \in DOMAIN c, c[m].type = c[n].type PROVE m = n
  <2>1. Inputs!RuleOrder(c[m]) = Inputs!RuleOrder(c[n])
        BY <1>5 DEF Inputs!RuleOrder
  <2>2. ~(m < n) /\ ~(n < m)
        BY <1>2, <1>4, <2>1
  <2>3. QED
        BY <1>4, <2>2
<1>6. Inputs!Distinct(c)
      BY <1>5 DEF Inputs!Distinct
<1>7. SortOf(c, c)
      BY <1>2 DEF SortOf
<1>8. SortOf(Inputs!EngineOrder(c), c)
      BY <1>2, <1>3, <1>6, EngineSorts
<1>9. Inputs!EngineOrder(c) = c
      BY <1>2, <1>3, <1>6, <1>7, <1>8, SortsAgree
<1>10. QED
       BY <1>1, <1>2, <1>6, <1>9 DEF c

\* However the rules are submitted, their canonical order is the same.
LEMMA CanonicalForgets ==
    ASSUME NEW rs \in Seq(Inputs!Rules), Inputs!Distinct(rs), Known(rs),
           NEW p \in Inputs!Rearrangements(DOMAIN rs)
    PROVE  Inputs!Canonical([i \in DOMAIN rs |-> rs[p[i]]]) = Inputs!Canonical(rs)
<1> DEFINE D == DOMAIN rs
           other == [i \in D |-> rs[p[i]]]
<1>1. D = 1 .. Len(rs) /\ Len(rs) \in Nat /\ \A i \in D : rs[i] \in Inputs!Rules
      OBVIOUS
<1>2. p \in [D -> D] /\ \A i, j \in D : p[i] = p[j] => i = j
      BY DEF Inputs!Rearrangements
<1>3. \A i \in D : \E j \in D : p[j] = i
  <2>1. IsFiniteSet(D)
    <3>1. IsFiniteSet(1 .. Len(rs))
          BY <1>1, FS_Interval
    <3>2. QED
          BY <1>1, <3>1
  <2>2. p \in Injection(D, D)
        BY <1>2 DEF Injection, IsInjective
  <2> HIDE DEF D
  <2>3. p \in Surjection(D, D)
        BY <2>1, <2>2, FS_Injection
  <2>4. QED
        BY <2>3 DEF Surjection
<1>4. other \in Seq(Inputs!Rules) /\ DOMAIN other = D
  <2>1. other \in [1 .. Len(rs) -> Inputs!Rules]
        BY <1>1, <1>2
  <2>2. QED
        BY <1>1, <2>1
<1>5. \A i \in D : other[i] = rs[p[i]] /\ p[i] \in D
      BY <1>2
<1> HIDE DEF D, other
<1>6. Inputs!Distinct(other)
  <2>1. \A i, j \in D : rs[i].type = rs[j].type => i = j
        BY DEF Inputs!Distinct, D
  <2>2. QED
        BY <1>2, <1>4, <1>5, <2>1 DEF Inputs!Distinct
<1>7. Known(other)
      BY <1>4, <1>5 DEF Known, D
<1>8. SortOf(Inputs!Canonical(other), other)
      BY <1>4, <1>6, <1>7, CanonicalSorts
<1>9. SortOf(Inputs!Canonical(other), rs)
  <2> DEFINE c == Inputs!Canonical(other)
  <2> HIDE DEF c
  <2>1. /\ c \in Seq(Inputs!Rules)
        /\ \A n \in DOMAIN c : \E i \in D : c[n] = other[i]
        /\ \A i \in D : \E n \in DOMAIN c : c[n] = other[i]
        /\ \A m, n \in DOMAIN c : m < n => Inputs!RuleOrder(c[m]) < Inputs!RuleOrder(c[n])
        BY <1>4, <1>8 DEF SortOf, c
  <2>2. \A n \in DOMAIN c : \E i \in D : c[n] = rs[i]
        BY <1>5, <2>1
  <2>3. ASSUME NEW i \in D PROVE \E n \in DOMAIN c : c[n] = rs[i]
    <3>1. PICK j \in D : p[j] = i
          BY <1>3
    <3>2. PICK n \in DOMAIN c : c[n] = other[j]
          BY <2>1
    <3>3. QED
          BY <1>5, <3>1, <3>2
  <2>4. SortOf(c, rs)
        BY <2>1, <2>2, <2>3 DEF SortOf, D
  <2>5. QED
        BY <2>4 DEF c
<1>10. SortOf(Inputs!Canonical(rs), rs)
       BY CanonicalSorts
<1>11. Inputs!Canonical(other) = Inputs!Canonical(rs)
       BY <1>9, <1>10, SortsAgree
<1>12. QED
       BY <1>11 DEF other, D

-----------------------------------------------------------------------------
(* What has been accepted. *)

LEMMA AcceptedStrategy ==
    ASSUME NEW q \in Requests, Inputs!StrategyAccepted(q)
    PROVE  q.rules \in Seq(Inputs!Rules) /\ Inputs!Distinct(q.rules) /\ Known(q.rules)
<1>1. q.rules \in Seq(Inputs!Rules)
      BY InputsAreAssumed DEF Inputs!InputsAssumption
<1>2. CASE q.rules = <<>>
      BY <1>1, <1>2 DEF Inputs!Distinct, Known
<1>3. CASE q.rules # <<>>
      BY <1>1, <1>3 DEF Inputs!StrategyAccepted, Known
<1>4. QED
      BY <1>2, <1>3

\* What the service accepts of a rule the engine accepts too.
LEMMA RangesAgree ==
    ASSUME NEW rule \in Inputs!Rules, Inputs!InRange(rule)
    PROVE  Inputs!EngineInRange(rule)
<1> DEFINE type == rule.type
           value == rule.value
<1>1. value \in Int /\ MaxHoldingCandles \in 0 .. 2200
      BY InputsAreAssumed DEF Inputs!InputsAssumption, Inputs!Rules
<1>2. \/ type = "take_profit_percent" /\ value \in 1 .. 1000 * 100
      \/ type = "stop_loss_percent" /\ value \in 1 .. (100 * 100 - 1)
      \/ type = "rsi_threshold_cross" /\ value \in 1 .. (100 * 100 - 1)
      \/ type = "max_holding_candles" /\ value \in 1 .. MaxHoldingCandles
      BY Zenon DEF Inputs!InRange, Inputs!Percent
<1> DEFINE thousand == 1000 * 100
           hundred == 100 * 100
           most == 2200
<1>3. thousand \in Int /\ hundred \in Int /\ most \in Int /\ MaxHoldingCandles \in 0 .. most
      BY <1>1
<1> HIDE DEF type, value, thousand, hundred, most
<1>4. \/ /\ type \in {"take_profit_percent", "stop_loss_percent"}
         /\ value >= 1
         /\ type = "take_profit_percent" => value <= thousand
         /\ type = "stop_loss_percent" => value < hundred
      \/ type = "rsi_threshold_cross" /\ value > 0 /\ value < hundred
      \/ type = "max_holding_candles" /\ value >= 1 /\ value <= most
  <2>1. \/ type = "take_profit_percent" /\ value \in 1 .. thousand
        \/ type = "stop_loss_percent" /\ value \in 1 .. (hundred - 1)
        \/ type = "rsi_threshold_cross" /\ value \in 1 .. (hundred - 1)
        \/ type = "max_holding_candles" /\ value \in 1 .. MaxHoldingCandles
        BY <1>2 DEF thousand, hundred
  <2>2. QED
        BY <1>1, <1>3, <2>1
<1>5. QED
      BY <1>4, Zenon DEF Inputs!EngineInRange, Inputs!Percent, type, value, thousand, hundred,
         most

\* What the service accepts of a strategy the engine accepts too.
LEMMA EngineTakesRules ==
    ASSUME NEW q \in Requests, Inputs!StrategyAccepted(q), Inputs!Canonical(q.rules) # <<>>
    PROVE  Inputs!EngineAcceptsRules(Inputs!Canonical(q.rules))
<1> DEFINE rs == q.rules
           c == Inputs!Canonical(rs)
<1>1. rs \in Seq(Inputs!Rules) /\ Inputs!Distinct(rs) /\ Known(rs)
      BY AcceptedStrategy
<1>2. /\ c \in Seq(Inputs!Rules) /\ Len(c) = Len(rs)
      /\ \A n \in DOMAIN c : \E i \in DOMAIN rs : c[n] = rs[i]
      /\ \A i \in DOMAIN rs : \E n \in DOMAIN c : c[n] = rs[i]
      /\ Inputs!Distinct(c)
      BY <1>1, CanonicalIs
<1> HIDE DEF c
<1>3. c # <<>>
      BY DEF c
<1>4. Len(c) \in Nat /\ Len(c) # 0
      BY <1>2, <1>3, EmptySeq
<1>5. rs # <<>>
      BY <1>1, <1>2, <1>4, EmptySeq
<1>6. /\ Len(rs) <= 4
      /\ \A i \in DOMAIN rs : rs[i].type \in Inputs!RuleTypes /\ Inputs!InRange(rs[i])
      /\ Inputs!HasMaximum(rs)
      BY <1>5 DEF Inputs!StrategyAccepted
<1>7. Len(c) \in 1 .. 4
  <2>1. \A n \in Nat : n # 0 /\ n <= 4 => n \in 1 .. 4
        OBVIOUS
  <2>2. Len(c) <= 4
        BY <1>2, <1>6
  <2>3. QED
        BY <1>4, <2>1, <2>2, Zenon
<1>8. Inputs!HasMaximum(c)
      BY <1>2, <1>6 DEF Inputs!HasMaximum
<1>9. ASSUME NEW n \in DOMAIN c PROVE Inputs!EngineInRange(c[n])
  <2>1. PICK i \in DOMAIN rs : c[n] = rs[i]
        BY <1>2
  <2>2. rs[i] \in Inputs!Rules
        BY <1>1
  <2>3. QED
        BY <1>6, <2>1, <2>2, RangesAgree
<1>10. Inputs!EngineAcceptsRules(c)
       BY <1>2, <1>7, <1>8, <1>9 DEF Inputs!EngineAcceptsRules
<1>11. QED
       BY <1>10 DEF c

\* What creation has seen of a queued run, and what retention can have changed since: its
\* range is on the boundaries, its strategy is accepted, its rules are the canonical ones,
\* and the candles that have not expired are complete.
InputsInv ==
    /\ Inputs!TypeOK
    /\ Inputs!AcceptedRunsSimulate
    /\ iPhase \in {"submitted", "refused"} => iRules = <<>>
    /\ iPhase \in {"queued", "ready", "failed", "simulating"} =>
         /\ Inputs!RangeProblem(iRequest) = "none"
         /\ Inputs!StrategyAccepted(iRequest)
         /\ iRules = Inputs!Canonical(iRequest.rules)
    /\ iPhase = "queued" =>
         /\ \A t \in Inputs!OpenTimes(iRequest) : iStore[t] # "incomplete"
         /\ iChanges = 0 => Inputs!Whole(iRequest)

LEMMA InputsInitially ==
    ASSUME Inputs!Init
    PROVE  InputsInv
<1>1. /\ Stores \subseteq Inputs!Kinds /\ MaxChanges \in Nat
      BY InputsAreAssumed DEF Inputs!InputsAssumption
<1>2. /\ iRequest \in Requests /\ iStore \in [Inputs!OpenTimes(iRequest) -> Stores]
      /\ iPhase = "submitted" /\ iCode = "none" /\ iRules = <<>> /\ iChanges = 0
      BY DEF Inputs!Init
<1>3. iStore \in [Inputs!OpenTimes(iRequest) -> Inputs!Kinds]
      BY <1>1, <1>2
<1>4. Inputs!TypeOK
      BY <1>1, <1>2, <1>3 DEF Inputs!TypeOK
<1>5. QED
      BY <1>2, <1>4 DEF InputsInv, Inputs!AcceptedRunsSimulate

LEMMA CreateAccepts ==
    ASSUME InputsInv, Inputs!Create
    PROVE  InputsInv'
<1>1. /\ iPhase = "submitted" /\ iRules = <<>> /\ iRequest \in Requests
      /\ iStore \in [Inputs!OpenTimes(iRequest) -> Inputs!Kinds]
      /\ iChanges \in 0 .. MaxChanges /\ iCode = "none"
      BY DEF InputsInv, Inputs!TypeOK, Inputs!Create
<1>2. UNCHANGED <<iRequest, iStore, iChanges>>
      BY DEF Inputs!Create, Inputs!Refuse
<1>3. CASE iPhase' = "refused" /\ iCode' # "none" /\ iRules' = iRules
  <2>1. Inputs!TypeOK'
        BY <1>1, <1>2, <1>3 DEF Inputs!TypeOK, Inputs!OpenTimes, Inputs!ExpectedTotal,
           Inputs!ExpectedAnalysis, Inputs!Open, Inputs!Warmup
  <2>2. QED
        BY <1>1, <1>3, <2>1 DEF InputsInv, Inputs!AcceptedRunsSimulate
<1>4. CASE /\ Inputs!StrategyAccepted(iRequest)
           /\ Inputs!RangeProblem(iRequest) = "none"
           /\ Inputs!CoverageReady(iRequest)
           /\ iPhase' = "queued" /\ iCode' = iCode
           /\ iRules' = Inputs!Canonical(iRequest.rules)
  <2>1. Inputs!Whole(iRequest)
        BY <1>1, <1>4, CoverageIs
  <2>2. \A t \in Inputs!OpenTimes(iRequest) : iStore[t] # "incomplete"
        BY <2>1 DEF Inputs!Whole
  <2>3. Inputs!TypeOK'
        BY <1>1, <1>2, <1>4 DEF Inputs!TypeOK
  <2>4. QED
        BY <1>2, <1>4, <2>1, <2>2, <2>3
        DEF InputsInv, Inputs!AcceptedRunsSimulate, Inputs!Whole
<1>5. QED
      BY <1>1, <1>3, <1>4 DEF Inputs!Create, Inputs!Refuse

LEMMA ExpireDrops ==
    ASSUME InputsInv, NEW t \in Inputs!OpenTimes(iRequest), Inputs!Expire(t)
    PROVE  InputsInv'
<1>1. /\ iPhase \in {"queued", "ready"} /\ iChanges < MaxChanges
      /\ iStore' = [iStore EXCEPT ![t] = "none"] /\ iChanges' = iChanges + 1
      /\ UNCHANGED <<iRequest, iPhase, iCode, iRules>>
      BY DEF Inputs!Expire
<1>2. /\ iRequest \in Requests
      /\ iStore \in [Inputs!OpenTimes(iRequest) -> Inputs!Kinds]
      /\ iChanges \in 0 .. MaxChanges /\ MaxChanges \in Nat
      BY InputsAreAssumed DEF InputsInv, Inputs!TypeOK, Inputs!InputsAssumption
<1>3. /\ iStore' \in [Inputs!OpenTimes(iRequest) -> Inputs!Kinds]
      /\ iChanges' \in 0 .. MaxChanges /\ iChanges' # 0
      BY <1>1, <1>2 DEF Inputs!Kinds
<1>4. Inputs!TypeOK'
      BY <1>1, <1>2, <1>3 DEF InputsInv, Inputs!TypeOK
<1>5. iPhase = "queued" => \A u \in Inputs!OpenTimes(iRequest) : iStore'[u] # "incomplete"
      BY <1>1, <1>2 DEF InputsInv
<1>6. QED
      BY <1>1, <1>3, <1>4, <1>5 DEF InputsInv, Inputs!AcceptedRunsSimulate

\* A run fails with its dataset only where a candle has expired since it was created.
LEMMA PrepareReads ==
    ASSUME InputsInv, Inputs!Prepare
    PROVE  InputsInv'
<1> DEFINE failure == Inputs!DatasetFailure(iRequest, Inputs!CurrentRows(iRequest))
<1>1. /\ iPhase = "queued"
      /\ UNCHANGED <<iRequest, iStore, iRules, iChanges>>
      /\ IF failure # "none" THEN iPhase' = "failed" /\ iCode' = failure
         ELSE iPhase' = "ready" /\ iCode' = iCode
      BY DEF Inputs!Prepare, Inputs!FailWith
<1>2. /\ iRequest \in Requests
      /\ iStore \in [Inputs!OpenTimes(iRequest) -> Inputs!Kinds]
      /\ iChanges \in 0 .. MaxChanges /\ MaxChanges \in Nat /\ iCode = "none"
      BY <1>1, InputsAreAssumed DEF InputsInv, Inputs!TypeOK, Inputs!InputsAssumption
<1>3. /\ Inputs!RangeProblem(iRequest) = "none"
      /\ \A t \in Inputs!OpenTimes(iRequest) : iStore[t] # "incomplete"
      /\ iChanges = 0 => Inputs!Whole(iRequest)
      BY <1>1 DEF InputsInv
<1>4. /\ failure \in {"none", "insufficient_warmup", "gap_detected", "incomplete"}
      /\ failure = "incomplete" =>
           \E t \in Inputs!OpenTimes(iRequest) : iStore[t] = "incomplete"
      BY <1>2, <1>3, DatasetOf
<1>5. Inputs!Whole(iRequest) => failure = "none"
      BY <1>2, <1>3, JudgesHold DEF Inputs!JudgesAgree
<1> HIDE DEF failure
<1>6. failure # "none" => /\ failure \in {"insufficient_warmup", "gap_detected"}
                          /\ iChanges > 0
      BY <1>2, <1>3, <1>4, <1>5
<1>7. Inputs!TypeOK'
      BY <1>1, <1>2 DEF InputsInv, Inputs!TypeOK
<1>8. Inputs!AcceptedRunsSimulate'
      BY <1>1, <1>6 DEF Inputs!AcceptedRunsSimulate
<1>9. iPhase' \in {"failed", "ready"}
      BY <1>1
<1>10. QED
       BY <1>1, <1>7, <1>8, <1>9 DEF InputsInv

\* A ready run fails only by the limits of the worker and the engine.
LEMMA SimulateTakes ==
    ASSUME InputsInv, Inputs!Simulate
    PROVE  InputsInv'
<1> DEFINE q == iRequest
           engine == Inputs!EngineFailure(q, Opens(q))
<1>1. /\ iPhase = "ready"
      /\ UNCHANGED <<iRequest, iStore, iRules, iChanges>>
      /\ IF Inputs!ExpectedTotal(q) > MaxTotal
         THEN iPhase' = "failed" /\ iCode' = "too_large"
         ELSE IF engine # "none" THEN iPhase' = "failed" /\ iCode' = engine
         ELSE IF iRules # <<>> /\ ~Inputs!EngineAcceptsRules(iRules)
              THEN iPhase' = "failed" /\ iCode' = "calculation_invariant"
         ELSE iPhase' = "simulating" /\ iCode' = iCode
      BY DEF Inputs!Simulate, Inputs!FailWith, Opens
<1>2. /\ q \in Requests
      /\ iStore \in [Inputs!OpenTimes(q) -> Inputs!Kinds]
      /\ iChanges \in 0 .. MaxChanges /\ iCode = "none"
      BY <1>1 DEF InputsInv, Inputs!TypeOK
<1>3. /\ Inputs!RangeProblem(q) = "none"
      /\ Inputs!StrategyAccepted(q)
      /\ iRules = Inputs!Canonical(q.rules)
      BY <1>1 DEF InputsInv
<1>4. engine \in {"none", "resource_limit_exceeded"}
      BY <1>2, <1>3, EngineTakesOpens
<1>5. iRules # <<>> => Inputs!EngineAcceptsRules(iRules)
      BY <1>2, <1>3, EngineTakesRules
<1> HIDE DEF engine
<1>6. \/ iPhase' = "simulating" /\ iCode' = "none"
      \/ iPhase' = "failed" /\ iCode' \in {"too_large", "resource_limit_exceeded"}
      BY <1>1, <1>2, <1>4, <1>5
<1>7. Inputs!TypeOK'
      BY <1>1, <1>2, <1>6 DEF InputsInv, Inputs!TypeOK
<1>8. Inputs!AcceptedRunsSimulate'
      BY <1>6 DEF Inputs!AcceptedRunsSimulate
<1>9. QED
      BY <1>1, <1>6, <1>7, <1>8 DEF InputsInv

LEMMA InputsInductive ==
    ASSUME InputsInv, [Inputs!Next]_(Inputs!vars)
    PROVE  InputsInv'
<1>1. CASE Inputs!Create
      BY <1>1, CreateAccepts
<1>2. CASE Inputs!Prepare
      BY <1>2, PrepareReads
<1>3. CASE Inputs!Simulate
      BY <1>3, SimulateTakes
<1>4. CASE \E t \in Inputs!OpenTimes(iRequest) : Inputs!Expire(t)
      BY <1>4, ExpireDrops
<1>5. CASE UNCHANGED Inputs!vars
      BY <1>5 DEF InputsInv, Inputs!vars, Inputs!TypeOK, Inputs!AcceptedRunsSimulate,
         Inputs!Whole
<1>6. QED
      BY <1>1, <1>2, <1>3, <1>4, <1>5 DEF Inputs!Next

\* The rules a run has got are in the engine's order, and every order of submission gives
\* the same.
LEMMA OrderForgotten ==
    ASSUME InputsInv
    PROVE  Inputs!OrderIsForgotten
<1> DEFINE rs == iRequest.rules
<1> SUFFICES ASSUME iPhase # "submitted", iRules # <<>>
             PROVE  /\ Inputs!EngineOrder(iRules) = iRules
                    /\ \A p \in Inputs!Rearrangements(DOMAIN rs) :
                         Inputs!Canonical([i \in DOMAIN rs |-> rs[p[i]]]) = iRules
    BY DEF Inputs!OrderIsForgotten
<1>1. /\ iRequest \in Requests
      /\ Inputs!StrategyAccepted(iRequest)
      /\ iRules = Inputs!Canonical(rs)
      BY DEF InputsInv, Inputs!TypeOK
<1>2. rs \in Seq(Inputs!Rules) /\ Inputs!Distinct(rs) /\ Known(rs)
      BY <1>1, AcceptedStrategy
<1> HIDE DEF rs
<1>3. Inputs!EngineOrder(iRules) = iRules
      BY <1>1, <1>2, CanonicalIs
<1>4. ASSUME NEW p \in Inputs!Rearrangements(DOMAIN rs)
      PROVE  Inputs!Canonical([i \in DOMAIN rs |-> rs[p[i]]]) = iRules
      BY <1>1, <1>2, CanonicalForgets
<1>5. QED
      BY <1>3, <1>4

\* What one part of the program has accepted no later part refuses, for any request,
\* candles, range limits and expiries: the coverage in SQL, the dataset and the engine
\* judge every range alike, a queued run fails only where a candle has expired or a limit
\* applies, and the order its rules were submitted in is forgotten.
THEOREM AcceptedIsNotRefused == Inputs!Spec => []AcceptedStaysAccepted
<1>1. Inputs!Init => InputsInv
      BY InputsInitially
<1>2. InputsInv /\ [Inputs!Next]_(Inputs!vars) => InputsInv'
      BY InputsInductive
<1>3. InputsInv => AcceptedStaysAccepted
  <2>1. ASSUME InputsInv PROVE Inputs!JudgesAgree
    <3>1. /\ iRequest \in Requests
          /\ iStore \in [Inputs!OpenTimes(iRequest) -> Inputs!Kinds]
          BY <2>1 DEF InputsInv, Inputs!TypeOK
    <3>2. QED
          BY <3>1, JudgesHold
  <2>2. QED
        BY <2>1, OrderForgotten
        DEF InputsInv, AcceptedStaysAccepted, Inputs!AcceptedStaysAccepted
<1>4. QED
      BY <1>1, <1>2, <1>3, PTL DEF Inputs!Spec
=============================================================================
