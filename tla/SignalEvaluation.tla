--------------------------- MODULE SignalEvaluation ---------------------------
(***************************************************************************)
(* From a confirmed candle to a signal occurrence: the queue of confirmed  *)
(* candles, the evaluator that judges the crossing of every preset against *)
(* the durable evaluation state, and what disturbs it: gaps, repairs,      *)
(* corrections, unsafe candle data, a failing sink, reconnects, disabled   *)
(* presets.  One market and one timeframe; a slot is one of its candles.   *)
(***************************************************************************)
EXTENDS Integers, FiniteSets, Sequences

CONSTANTS
    Presets,       \* [strategy: {"sma", "rsi"}, direction: {"cross_above", "cross_below"}]
    Period,        \* candles of an average, changes of an RSI
    Threshold,     \* of the RSI presets, out of 100
    Closes,        \* close prices, small integers
    LastSlot,      \* bound on the candles
    QueueSize,     \* room in the queue of confirmed candles
    MaxTrouble     \* bound on the disturbances

VARIABLES
    candles,   \* slot -> the current candle: [revision, close]; revision 0 is no candle
    clock,     \* the slot of the last closed candle
    market,    \* status on the candle state row: "live", or one of Unsafe
    verdict,   \* what reconciliation last said of the candle data
    preset,    \* preset -> "active" or "disabled"
    state,     \* preset -> its evaluation state
    queue,     \* confirmed candles on their way to the sinks
    consumer,  \* what the task that drains the queue is doing
    events,    \* occurrences created
    trouble    \* disturbances so far, at most MaxTrouble

vars == <<candles, clock, market, verdict, preset, state, queue, consumer, events, trouble>>

Slots == 1 .. LastSlot
Unsafe == {"stale", "gapped", "error"}
NoCandle == [revision |-> 0, close |-> 0]
IsComplete(s) == s \in Slots /\ candles[s].revision # 0
Close(s) == candles[s].close

\* relation: how the left value compares to the right one.
Relation(left, right) ==
    IF left < right THEN "below" ELSE IF left > right THEN "above" ELSE "equal"

\* The same, a touch being a crossing already.
CrossesOnTouch(direction, before, now) ==
    \/ direction = "cross_above" /\ before = "below" /\ now # "below"
    \/ direction = "cross_below" /\ before = "above" /\ now # "above"

\* crosses: equality counts with the side the price comes from.
Crosses(direction, before, now) ==
    \/ direction = "cross_above" /\ before # "above" /\ now = "above"
    \/ direction = "cross_below" /\ before # "below" /\ now = "below"

-----------------------------------------------------------------------------
(* Indicators: the relation of left and right value, or why there is none. *)

SumOver(values, from, to) ==
    LET sum[s \in (from - 1) .. to] == IF s < from THEN 0 ELSE sum[s - 1] + values[s]
    IN  sum[to]
Gain(s) == IF Close(s) > Close(s - 1) THEN Close(s) - Close(s - 1) ELSE 0
Loss(s) == IF Close(s) < Close(s - 1) THEN Close(s - 1) - Close(s) ELSE 0
Total(from, to) == SumOver([s \in from .. to |-> Close(s)], from, to)
Gained(from, to) == SumOver([s \in from .. to |-> Gain(s)], from, to)
Lost(from, to) == SumOver([s \in from .. to |-> Loss(s)], from, to)

\* The candles a calculation asks for, and list_complete_candles: the newest ones.
Required(strategy) == IF strategy = "sma" THEN Period ELSE Period + 1
Newest(s, n) ==
    LET present == {t \in 1 .. s : IsComplete(t)}
    IN  {t \in present : Cardinality({u \in present : u > t}) < n}

\* validate_candle_series: consecutive, and enough of them.
SeriesStatus(window, n) ==
    IF \E t, u \in window : t < u /\ \E v \in t .. u : v \notin window THEN "gap_detected"
    ELSE IF Cardinality(window) < n THEN "insufficient_history" ELSE "success"

\* _calculate_rsi_value compared to the threshold: no change at all is an RSI of 50.
RsiRelation(gain, loss) ==
    IF gain = 0 /\ loss = 0 THEN Relation(50, Threshold)
    ELSE Relation(gain * (100 - Threshold), loss * Threshold)

\* calculate_preset: the close against the average of its window, or the RSI of
\* its window, which holds a single value's worth of candles.
Calculation(p, s) ==
    LET n == Required(p.strategy)
        status == SeriesStatus(Newest(s, n), n)
        from == s - n + 1
    IN  IF status # "success" THEN status
        ELSE IF p.strategy = "sma"
             THEN Relation(Close(s) * Period, Total(from, s))
             ELSE RsiRelation(Gained(from + 1, s), Lost(from + 1, s))

-----------------------------------------------------------------------------
\* Assumed of the constants by the module that composes this one.
EvaluationAssumption ==
    /\ Presets \subseteq
          [strategy : {"sma", "rsi"}, direction : {"cross_above", "cross_below"}]
    /\ Period \in Nat \ {0}
    /\ LastSlot \in Nat /\ QueueSize \in Nat

Idle == [phase |-> "idle", slot |-> 0, revision |-> 0, presets |-> {}, unsafe |-> FALSE]
Fresh == [status |-> "warming", slot |-> 0, revision |-> 0, relation |-> "none"]

Init ==
    /\ candles = [s \in Slots |-> NoCandle]
    /\ clock = 0
    /\ market = "live" /\ verdict = "live"
    /\ preset = [p \in Presets |-> "active"]
    /\ state = [p \in Presets |-> Fresh]
    /\ queue = <<>>
    /\ consumer = Idle
    /\ events = {}
    /\ trouble = 0

Disturb == trouble < MaxTrouble /\ trouble' = trouble + 1

\* persist_closed_candle: the candle is stored and put on the queue.
CandleCloses(close) ==
    /\ clock < LastSlot
    /\ Len(queue) < QueueSize
    /\ clock' = clock + 1
    /\ candles' = [candles EXCEPT ![clock + 1] = [revision |-> 1, close |-> close]]
    /\ queue' = Append(queue, [slot |-> clock + 1, revision |-> 1])
    /\ UNCHANGED <<market, verdict, preset, state, consumer, events, trouble>>

\* The stream misses a candle.
CandleIsMissed ==
    /\ clock < LastSlot
    /\ Disturb
    /\ clock' = clock + 1
    /\ UNCHANGED <<candles, market, verdict, preset, state, queue, consumer, events>>

\* Reconciliation or backfill stores a missing candle: its changes are counted and
\* not announced.
CandleIsRepaired(s, close) ==
    /\ s <= clock /\ ~IsComplete(s)
    /\ candles' = [candles EXCEPT ![s] = [revision |-> 1, close |-> close]]
    /\ UNCHANGED <<clock, market, verdict, preset, state, queue, consumer, events, trouble>>

\* The provider sends a candle again with other values: a new revision, announced.
CandleIsCorrected(s, close) ==
    /\ s <= clock /\ IsComplete(s) /\ Close(s) # close
    /\ Len(queue) < QueueSize
    /\ Disturb
    /\ candles' = [candles EXCEPT ![s] = [revision |-> @.revision + 1, close |-> close]]
    /\ queue' = Append(queue, [slot |-> s, revision |-> candles[s].revision + 1])
    /\ UNCHANGED <<clock, market, verdict, preset, state, consumer, events>>

\* The connection ends: a full queue, a provider error, or its 24 hours.  What is
\* queued is lost, the transaction under way is rolled back, a consumer starts anew.
Reconnect ==
    /\ Disturb
    /\ queue' = <<>>
    /\ consumer' = Idle
    /\ UNCHANGED <<candles, clock, market, verdict, preset, state, events>>

\* A reconciliation pass leaves its verdict on the row (CandleRepair).
ReconciliationEnds ==
    /\ Disturb
    /\ verdict' \in {"live", "gapped", "error"} \ {verdict}
    /\ market' = verdict'
    /\ UNCHANGED <<candles, clock, preset, state, queue, consumer, events>>

\* A preset is withdrawn, and the maintenance task stops its evaluation.
PresetIsDisabled(p) ==
    /\ preset[p] = "active"
    /\ Disturb
    /\ preset' = [preset EXCEPT ![p] = "disabled"]
    /\ UNCHANGED <<candles, clock, market, verdict, state, queue, consumer, events>>

ReconcileDisabled(p) ==
    /\ preset[p] = "disabled" /\ state[p].status # "disabled"
    /\ state' = [state EXCEPT ![p].status = "disabled"]
    /\ UNCHANGED <<candles, clock, market, verdict, preset, queue, consumer, events, trouble>>

\* The first sink, CandleStateRecorder, overwrites the row: "live" unless the candle
\* is late.
RecordCandle ==
    /\ consumer.phase = "idle" /\ queue # <<>>
    /\ queue' = Tail(queue)
    /\ consumer' = [Idle EXCEPT !.phase = "recorded", !.slot = Head(queue).slot,
                                !.revision = Head(queue).revision]
    /\ \/ market' = "live" /\ UNCHANGED trouble
       \/ market' = "stale" /\ Disturb
    /\ UNCHANGED <<candles, clock, verdict, preset, state, events>>

\* The second sink, handle_confirmed_candle, and its reads: an outdated revision is
\* passed over.
ReadCandle ==
    /\ consumer.phase = "recorded"
    /\ consumer' = IF candles[consumer.slot].revision # consumer.revision THEN Idle
                   ELSE [consumer EXCEPT !.phase = "taken",
                             !.presets = {p \in Presets : preset[p] = "active"},
                             !.unsafe = market \in Unsafe]
    /\ UNCHANGED <<candles, clock, market, verdict, preset, state, queue, events, trouble>>

\* _evaluate_preset: the early returns, in their order.
IsSameCandle(row) == row.slot = consumer.slot /\ row.revision = consumer.revision
IsOlder(row) == consumer.slot < row.slot

IsCorrectionNever(row) == FALSE

IsCorrection(row) == row.slot = consumer.slot /\ row.revision # 0

IsSilenced(row) == row.status = "disabled"

Skips(row) == IsSilenced(row) \/ IsSameCandle(row) \/ IsOlder(row)

Stored(now) == [status |-> "ready", slot |-> consumer.slot,
                revision |-> consumer.revision, relation |-> now]

\* What becomes of the evaluation state of a preset.
Evaluated(p) ==
    LET row == state[p]
        now == Calculation(p, consumer.slot)
    IN  IF Skips(row) THEN row
        ELSE IF now \notin {"below", "equal", "above"} THEN [row EXCEPT !.status = "warming"]
        ELSE IF IsCorrection(row) THEN [row EXCEPT !.status = "stale"]
        ELSE Stored(now)

\* Whether the candle is an occurrence: the first value only initialises the state.
Triggers(p) ==
    LET row == state[p]
        now == Calculation(p, consumer.slot)
    IN  /\ ~Skips(row) /\ ~IsCorrection(row)
        /\ row.relation # "none"
        /\ Crosses(p.direction, row.relation, now)

Occurrence(p) == [preset |-> p, slot |-> consumer.slot, revision |-> consumer.revision,
                  since |-> state[p].slot]

Suspended(row) == [row EXCEPT !.status = "stale"]

NextState(p) == Evaluated(p)

\* The rest of the transaction: unsafe data suspend every preset, otherwise each one
\* is judged.  uq_signal_events_occurrence keeps a second insertion out.
EvaluateCandle ==
    LET presets == consumer.presets
    IN  /\ consumer.phase = "taken"
        /\ state' = [p \in Presets |->
              IF p \notin presets THEN state[p]
              ELSE IF consumer.unsafe THEN Suspended(state[p]) ELSE NextState(p)]
        /\ events' = events \cup
              {Occurrence(p) : p \in {q \in presets : ~consumer.unsafe /\ Triggers(q)}}
        /\ consumer' = Idle
        /\ UNCHANGED <<candles, clock, market, verdict, preset, queue, trouble>>

\* An exception of a sink ends the consumer; candles go on queueing.
SinkFails ==
    /\ consumer.phase \in {"recorded", "taken"}
    /\ Disturb
    /\ consumer' = [Idle EXCEPT !.phase = "dead"]
    /\ UNCHANGED <<candles, clock, market, verdict, preset, state, queue, events>>

\* The queue is full when a candle comes: it is stored, and the connection ends.
Backpressure(close) ==
    /\ Len(queue) = QueueSize /\ clock < LastSlot
    /\ Disturb
    /\ clock' = clock + 1
    /\ candles' = [candles EXCEPT ![clock + 1] = [revision |-> 1, close |-> close]]
    /\ queue' = <<>>
    /\ consumer' = Idle
    /\ UNCHANGED <<market, verdict, preset, state, events>>

Next ==
    \/ \E close \in Closes : CandleCloses(close) \/ Backpressure(close)
    \/ CandleIsMissed \/ Reconnect \/ ReconciliationEnds
    \/ \E s \in Slots, close \in Closes : CandleIsRepaired(s, close) \/ CandleIsCorrected(s, close)
    \/ \E p \in Presets : PresetIsDisabled(p) \/ ReconcileDisabled(p)
    \/ RecordCandle \/ ReadCandle \/ EvaluateCandle \/ SinkFails

Spec == Init /\ [][Next]_vars

-----------------------------------------------------------------------------
TypeOK ==
    /\ \A s \in Slots : candles[s].revision \in Nat /\ candles[s].close \in Closes \cup {0}
    /\ clock \in 0 .. LastSlot
    /\ market \in Unsafe \cup {"live"}
    /\ \A p \in Presets :
          /\ preset[p] \in {"active", "disabled"}
          /\ state[p].status \in {"warming", "ready", "stale", "disabled"}
          /\ state[p].slot \in 0 .. clock
          /\ state[p].status = "ready" => state[p].relation \in {"below", "equal", "above"}
    /\ Len(queue) <= QueueSize
    /\ consumer.phase \in {"idle", "recorded", "taken", "dead"}

\* A candle is an occurrence of a preset at most once, whatever is corrected, sent
\* twice or evaluated again (the occurrence key of the table holds the revision and
\* would let a corrected candle in again).
OncePerCandle ==
    \A e, f \in events : e.preset = f.preset /\ e.slot = f.slot => e = f

\* Two occurrences of a preset have a candle on the other side between them, which
\* the evaluator has seen.
OccurrencesAlternate ==
    \A e, f \in events :
        e.preset = f.preset /\ e.slot < f.slot => f.since > e.slot

\* While nothing has gone wrong, the occurrences of the evaluated candles are the
\* crossings between neighbours in the candle table.
CrossingAt(p, s) ==
    LET side == IF p.direction = "cross_above" THEN "above" ELSE "below"
    IN  /\ Calculation(p, s - 1) \in {"below", "equal", "above"} \ {side}
        /\ Calculation(p, s) = side
UndisturbedIsExact ==
    trouble = 0 =>
        \A p \in Presets :
            {e.slot : e \in {f \in events : f.preset = p}}
                = {s \in 2 .. state[p].slot : CrossingAt(p, s)}

\* An occurrence is one crossing, whatever is redelivered, late, corrected or lost,
\* and without any of that every crossing is an occurrence.
OccurrencesAreSound ==
    TypeOK /\ OncePerCandle /\ OccurrencesAlternate /\ UndisturbedIsExact
=============================================================================
