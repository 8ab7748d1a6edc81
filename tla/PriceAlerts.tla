----------------------------- MODULE PriceAlerts -----------------------------
(***************************************************************************)
(* Evaluation of one-time price alerts in the market-stream process:       *)
(* trades are accepted from the websocket into a queue                     *)
(* (market_data/stream.py, pipeline.py), the consumer task evaluates each  *)
(* against the alerts of an in-memory registry (alerts/evaluator.py,       *)
(* registry.py) and settles what it finds against the locked database row  *)
(* (alerts/trigger.py), while a maintenance task refreshes the registry    *)
(* and API requests create and delete alerts.                              *)
(*                                                                         *)
(* One market.  A trade is its provider id, its price is price[id].        *)
(***************************************************************************)
EXTENDS Integers, Sequences, FiniteSets

CONSTANTS
    Alerts,         \* alert ids
    Direction,      \* "cross_above" or "cross_below"
    Target,         \* target_price
    Prices,         \* prices a trade can have
    MaxTrades,      \* bound on the trades of the market
    QueueSize,      \* PIPELINE_QUEUE_SIZE
    MaxFaults,      \* bound on reconnects, restarts and database errors
    MaxEdits        \* bound on deletions and market closures

ASSUME AlertAssumption ==
    /\ Direction \in [Alerts -> {"cross_above", "cross_below"}]
    /\ Target \in [Alerts -> Int]
    /\ Prices \subseteq Int
    /\ MaxTrades \in Nat
    /\ QueueSize \in Nat \ {0}
    /\ MaxFaults \in Nat
    /\ MaxEdits \in Nat

VARIABLES
    price,          \* the trades the exchange has published
    alert,          \* price_alerts
    triggers,       \* alert_events and their outbox rows, as <<alert, trade>>
    lastAccepted,   \* _last_accepted_ids of the symbol, 0 when cleared
    queue,          \* accepted trades not yet taken by the consumer
    registry,       \* last_evaluated_provider_id by registered alert, -1 if none
    place,          \* where the consumer task is in handle_price_event
    event,          \* the trade it handles, 0 if none
    todo,           \* registry copies it has still to evaluate, -1 if none
    snapshot,       \* rows each task has read and not applied yet
    maintaining,    \* whether the maintenance task is alive
    faults, edits

streamVars == <<lastAccepted, queue>>
consumerVars == <<place, event, todo>>
taskVars == <<snapshot, maintaining>>
vars == <<price, alert, triggers, streamVars, registry, consumerVars, taskVars,
          faults, edits>>

-----------------------------------------------------------------------------
Tasks == {"consumer", "maintenance"}
Statuses == {"absent", "active", "triggered", "disabled", "deleted"}
Relations == {"below", "equal", "above"}
TradeIds == 1..MaxTrades
Registered == -1..MaxTrades     \* what the registry can hold of an alert

Alert == [status : Statuses,
          lastRelation : Relations \union {"none"},
          lastId : 0..MaxTrades,
          recent : BOOLEAN]     \* updated_at >= _last_refresh_at - overlap

NoAlert == [status |-> "absent", lastRelation |-> "none", lastId |-> 0,
            recent |-> FALSE]

Nothing == [kind |-> "none", rows |-> [a \in Alerts |-> -1], seen |-> {}]

\* A full snapshot replaces the registry, a recent one is merged into it: `seen`
\* are the rows read, `rows` their ids, -1 for a row that is not active.
Snapshot == [kind : {"none", "full", "recent"}, rows : [Alerts -> Registered],
             seen : SUBSET Alerts]

TypeOK ==
    /\ price \in Seq(Prices) /\ Len(price) <= MaxTrades
    /\ alert \in [Alerts -> Alert]
    /\ triggers \subseteq Alerts \X TradeIds
    /\ lastAccepted \in 0..MaxTrades
    /\ queue \in Seq(TradeIds) /\ Len(queue) <= QueueSize
    /\ registry \in [Alerts -> Registered]
    /\ place \in {"idle", "refresh", "evaluate"}
    /\ event \in 0..MaxTrades
    /\ todo \in [Alerts -> Registered]
    /\ snapshot \in [Tasks -> Snapshot]
    /\ maintaining \in BOOLEAN
    /\ faults \in 0..MaxFaults
    /\ edits \in 0..MaxEdits

Empty == [a \in Alerts |-> -1]

Init ==
    /\ price = <<>>
    /\ alert = [a \in Alerts |-> NoAlert]
    /\ triggers = {}
    /\ lastAccepted = 0
    /\ queue = <<>>
    /\ registry = Empty
    /\ place = "idle"
    /\ event = 0
    /\ todo = Empty
    /\ snapshot = [t \in Tasks |-> Nothing]
    /\ maintaining = TRUE
    /\ faults = 0
    /\ edits = 0

-----------------------------------------------------------------------------
(***************************************************************************)
(* relations.py.                                                           *)
(***************************************************************************)
RelationFor(p, target) ==
    IF p < target THEN "below" ELSE IF p > target THEN "above" ELSE "equal"

\* Mutant: leaving an equal price does not count.
CrossesStrictly(direction, previous, current) ==
    \/ direction = "cross_above" /\ previous = "below" /\ current = "above"
    \/ direction = "cross_below" /\ previous = "above" /\ current = "below"

\* Mutant: reaching the target from below counts as crossing above it.
CrossesOnTouch(direction, previous, current) ==
    \/ direction = "cross_above" /\ previous = "below" /\ current # "below"
    \/ direction = "cross_below" /\ previous = "above" /\ current # "above"

CrossesInDirection(direction, previous, current) ==
    \/ direction = "cross_above" /\ previous \in {"below", "equal"} /\ current = "above"
    \/ direction = "cross_below" /\ previous \in {"above", "equal"} /\ current = "below"

-----------------------------------------------------------------------------
(***************************************************************************)
(* API requests and the exchange.                                          *)
(***************************************************************************)

\* AlertService.create, as one step; AlertAdmission models what is inside.
Create(a) ==
    /\ alert[a].status = "absent"
    /\ alert' = [alert EXCEPT ![a] = [NoAlert EXCEPT !.status = "active", !.recent = TRUE]]
    /\ UNCHANGED <<price, triggers, streamVars, registry, consumerVars, taskVars,
                   faults, edits>>

\* AlertService.delete with mark_price_alert_deleted.
Delete(a) ==
    /\ edits < MaxEdits
    /\ alert[a].status \in {"active", "disabled"}
    /\ alert' = [alert EXCEPT ![a].status = "deleted", ![a].recent = TRUE]
    /\ edits' = edits + 1
    /\ UNCHANGED <<price, triggers, streamVars, registry, consumerVars, taskVars, faults>>

\* updated_at falls behind the refresh window, applied or not: it is the time
\* the writing transaction began.
Ages(a) ==
    /\ alert[a].recent
    /\ alert' = [alert EXCEPT ![a].recent = FALSE]
    /\ UNCHANGED <<price, triggers, streamVars, registry, consumerVars, taskVars,
                   faults, edits>>

Publish ==
    /\ Len(price) < MaxTrades
    /\ \E p \in Prices : price' = Append(price, p)
    /\ UNCHANGED <<alert, triggers, streamVars, registry, consumerVars, taskVars,
                   faults, edits>>

-----------------------------------------------------------------------------
(***************************************************************************)
(* The connection.                                                         *)
(***************************************************************************)

\* put_nowait finds room; if not, QueueFull ends the connection.
QueueHasRoom == Len(queue) < QueueSize

\* Any published trade can arrive, again or late; _read_messages drops it unless
\* its id is greater than the last one accepted on this connection.
Accept ==
    /\ QueueHasRoom
    /\ \E t \in 1..Len(price) :
          /\ t > lastAccepted
          /\ lastAccepted' = t
          /\ queue' = Append(queue, t)
    /\ UNCHANGED <<price, alert, triggers, registry, consumerVars, taskVars, faults, edits>>

NewConnection ==
    /\ lastAccepted' = 0
    /\ queue' = <<>>
    /\ place' = "idle"
    /\ event' = 0
    /\ todo' = Empty

\* The connection ends, a full queue included: the consumer task is cancelled
\* with its queue, a transaction it had open is rolled back.
Reconnect ==
    /\ faults < MaxFaults
    /\ NewConnection
    /\ snapshot' = [snapshot EXCEPT !["consumer"] = Nothing]
    /\ faults' = faults + 1
    /\ UNCHANGED <<price, alert, triggers, registry, maintaining, edits>>

\* The catalogue changes during a connection: the ids are forgotten, the queue
\* is kept.
CatalogChanges ==
    /\ faults < MaxFaults
    /\ lastAccepted' = 0
    /\ faults' = faults + 1
    /\ UNCHANGED <<price, alert, triggers, queue, registry, consumerVars, taskVars, edits>>

ActiveRows(S) == [a \in Alerts |->
    IF a \in S /\ alert[a].status = "active" THEN alert[a].lastId ELSE -1]

\* The process restarts; load_initial fills the registry, or fails to.
Restart ==
    /\ faults < MaxFaults
    /\ NewConnection
    /\ snapshot' = [t \in Tasks |-> Nothing]
    /\ maintaining' = TRUE
    /\ registry' \in {ActiveRows(Alerts), Empty}
    /\ faults' = faults + 1
    /\ UNCHANGED <<price, alert, triggers, edits>>

-----------------------------------------------------------------------------
(***************************************************************************)
(* The registry.  A refresh awaits its query and applies the rows only     *)
(* then, so the other task may have changed rows and registry in between.  *)
(***************************************************************************)
MayRead(t) ==
    /\ snapshot[t] = Nothing
    /\ t = "consumer" => place = "refresh"
    /\ t = "maintenance" => maintaining

ReadRebuild(t) ==
    /\ MayRead(t)
    /\ snapshot' = [snapshot EXCEPT ![t] =
          [kind |-> "full", rows |-> ActiveRows(Alerts), seen |-> Alerts]]
    /\ UNCHANGED <<price, alert, triggers, streamVars, registry, consumerVars,
                   maintaining, faults, edits>>

ReadRecent(t) ==
    LET rows == {a \in Alerts : alert[a].recent}
    IN  /\ MayRead(t)
        /\ rows # {}
        /\ snapshot' = [snapshot EXCEPT ![t] =
              [kind |-> "recent", rows |-> ActiveRows(rows), seen |-> rows]]
        /\ UNCHANGED <<price, alert, triggers, streamVars, registry, consumerVars,
                       maintaining, faults, edits>>

\* Mutant: a rebuild is merged like an incremental refresh of the active rows.
MergedActive(s) == [a \in Alerts |-> IF s.rows[a] >= 0 THEN s.rows[a] ELSE registry[a]]

\* The registry after a snapshot: the full one replaces it, the recent one
\* replaces the entries it saw.
Merged(s) ==
    [a \in Alerts |-> IF s.kind = "full" \/ a \in s.seen THEN s.rows[a] ELSE registry[a]]

\* for_market: the consumer takes the registry's entries of the moment.
StartEvaluation(entries) ==
    /\ place' = "evaluate"
    /\ todo' = entries

ApplySnapshot(t) ==
    /\ snapshot[t] # Nothing
    /\ registry' = Merged(snapshot[t])
    /\ snapshot' = [snapshot EXCEPT ![t] = Nothing]
    /\ \/ t = "consumer" /\ StartEvaluation(Merged(snapshot[t])) /\ event' = event
       \/ t = "maintenance" /\ UNCHANGED consumerVars
    /\ UNCHANGED <<price, alert, triggers, streamVars, maintaining, faults, edits>>

\* reconcile_markets, run by the maintenance task, finds the market not ready:
\* each alert that was registered when it looked is disabled if it is still
\* active, and leaves the registry in any case.
DisableForMarket(a) ==
    /\ edits < MaxEdits
    /\ maintaining
    /\ snapshot["maintenance"] = Nothing
    /\ alert[a].status # "absent"
    /\ alert' = IF alert[a].status = "active"
                THEN [alert EXCEPT ![a].status = "disabled", ![a].recent = TRUE]
                ELSE alert
    /\ registry' = [registry EXCEPT ![a] = -1]
    /\ edits' = edits + 1
    /\ UNCHANGED <<price, triggers, streamVars, consumerVars, taskVars, faults>>

\* The loop of the maintenance task also runs reconcile_disabled_presets, which
\* lets a database error through: the task ends, and only a restart of the
\* process creates another one.
MaintenanceDies ==
    /\ faults < MaxFaults
    /\ maintaining
    /\ snapshot["maintenance"] = Nothing
    /\ maintaining' = FALSE
    /\ faults' = faults + 1
    /\ UNCHANGED <<price, alert, triggers, streamVars, registry, consumerVars,
                   snapshot, edits>>

-----------------------------------------------------------------------------
(***************************************************************************)
(* The consumer.                                                           *)
(***************************************************************************)
TakeEvent ==
    /\ place = "idle"
    /\ queue # <<>>
    /\ event' = Head(queue)
    /\ queue' = Tail(queue)
    /\ place' = "refresh"
    /\ UNCHANGED <<price, alert, triggers, lastAccepted, registry, todo, taskVars,
                   faults, edits>>

\* No refresh is due, or its query failed.
NoRefresh ==
    /\ place = "refresh"
    /\ snapshot["consumer"] = Nothing
    /\ StartEvaluation(registry)
    /\ UNCHANGED <<price, alert, triggers, streamVars, registry, event, taskVars,
                   faults, edits>>

Evaluating(a) == place = "evaluate" /\ todo[a] >= 0

\* The copy taken from the registry says the trade was evaluated before.
SkipOldEvent(a) ==
    /\ Evaluating(a)
    /\ todo[a] > 0 /\ event <= todo[a]
    /\ todo' = [todo EXCEPT ![a] = -1]
    /\ UNCHANGED <<price, alert, triggers, streamVars, registry, place, event, taskVars,
                   faults, edits>>

Current(a) == RelationFor(price[event], Target[a])

IsOpen(a) == alert[a].status = "active"

\* Mutant: the row's own provider id is not compared with the trade's.
IsNewWhateverId(a) == TRUE

IsNew(a) == alert[a].lastId = 0 \/ event > alert[a].lastId

Crossing(a) == CrossesInDirection(Direction[a], alert[a].lastRelation, Current(a))

Observed(a, status) == [status |-> status, lastRelation |-> Current(a),
                        lastId |-> event, recent |-> TRUE]

\* What the transaction of PriceAlertTrigger.evaluate commits.
NewRow(a) ==
    IF ~IsOpen(a) \/ ~IsNew(a) THEN alert[a]
    ELSE IF alert[a].lastRelation = "none" THEN Observed(a, "active")
    ELSE IF alert[a].lastRelation = Current(a) THEN alert[a]
    ELSE IF Crossing(a) THEN Observed(a, "triggered")
    ELSE Observed(a, "active")

Triggers(a) == IsOpen(a) /\ IsNew(a) /\ alert[a].lastRelation # "none" /\ Crossing(a)

\* What it does to the registry before it commits.
NewEntry(a) ==
    IF ~IsOpen(a) \/ Triggers(a) THEN -1
    ELSE IF NewRow(a) # alert[a] THEN event
    ELSE registry[a]

Evaluate(a) ==
    /\ Evaluating(a)
    /\ todo[a] = 0 \/ event > todo[a]
    /\ alert' = [alert EXCEPT ![a] = NewRow(a)]
    /\ triggers' = IF Triggers(a) THEN triggers \union {<<a, event>>} ELSE triggers
    /\ registry' = [registry EXCEPT ![a] = NewEntry(a)]
    /\ todo' = [todo EXCEPT ![a] = -1]
    /\ UNCHANGED <<price, streamVars, place, event, taskVars, faults, edits>>

\* The transaction is rolled back, before or after the registry was changed.
EvaluateRolledBack(a) ==
    /\ faults < MaxFaults
    /\ Evaluating(a)
    /\ todo[a] = 0 \/ event > todo[a]
    /\ registry' \in {registry, [registry EXCEPT ![a] = NewEntry(a)]}
    /\ todo' = [todo EXCEPT ![a] = -1]
    /\ faults' = faults + 1
    /\ UNCHANGED <<price, alert, triggers, streamVars, place, event, taskVars, edits>>

EventDone ==
    /\ place = "evaluate"
    /\ todo = Empty
    /\ place' = "idle"
    /\ event' = 0
    /\ UNCHANGED <<price, alert, triggers, streamVars, registry, todo, taskVars,
                   faults, edits>>

-----------------------------------------------------------------------------
ConsumerStep ==
    \/ TakeEvent
    \/ NoRefresh
    \/ ApplySnapshot("consumer")
    \/ \E a \in Alerts : SkipOldEvent(a) \/ Evaluate(a)
    \/ EventDone

Rebuild == \E t \in Tasks : ReadRebuild(t)

Next ==
    \/ \E a \in Alerts : Create(a) \/ Delete(a) \/ Ages(a) \/ DisableForMarket(a)
                         \/ EvaluateRolledBack(a)
    \/ Publish
    \/ Accept
    \/ Reconnect
    \/ CatalogChanges
    \/ Restart
    \/ MaintenanceDies
    \/ Rebuild
    \/ \E t \in Tasks : ReadRecent(t)
    \/ ApplySnapshot("maintenance")
    \/ ConsumerStep

Spec == Init /\ [][Next]_vars

\* Both tasks get the event loop's attention.  refresh_if_due looks at the age of
\* the last rebuild first, and the maintenance task calls it every two seconds
\* while it lives: whatever incremental refreshes are made, a minute later one of
\* the tasks rebuilds the registry.
FairSpec == Spec /\ SF_vars(Rebuild) /\ WF_vars(ApplySnapshot("maintenance"))
                 /\ WF_vars(ConsumerStep)

-----------------------------------------------------------------------------
(***************************************************************************)
(* Properties.                                                             *)
(***************************************************************************)

\* The price of trade t is strictly on the side the alert waits for.
Beyond(a, t) == IF Direction[a] = "cross_above" THEN price[t] > Target[a]
                                                ELSE price[t] < Target[a]

\* Every trigger is a genuine crossing: an earlier trade was not beyond the
\* target and the triggering one is; reconnects, replays, reordered trades and
\* stale registry entries invent none.
TriggerIsCrossing ==
    \A a \in Alerts, b \in TradeIds : <<a, b>> \in triggers =>
        Beyond(a, b) /\ \E p \in 1..(b - 1) : ~Beyond(a, p)

\* No crossing is swallowed: once an alert has been seen on the near side or on
\* its target, it cannot be recorded beyond it without having triggered.
CrossingTriggers ==
    [][\A a \in Alerts :
          /\ alert[a].status = "active"
          /\ alert[a].lastId > 0 /\ ~Beyond(a, alert[a].lastId)
          /\ Beyond(a, alert'[a].lastId)
          => alert'[a].status = "triggered"]_vars

\* One alert, one event, one notification; and the status tells which alerts
\* have them.
TriggersOnce ==
    \A a \in Alerts :
        LET fired == {b \in TradeIds : <<a, b>> \in triggers}
        IN  /\ Cardinality(fired) <= 1
            /\ alert[a].status = "triggered" <=> fired # {}

\* A trigger is a crossing, and the alert's only one.
TriggersAreCrossings == TypeOK /\ TriggerIsCrossing /\ TriggersOnce

\* The last relation of an alert is that of the trade it names, and trades are
\* never taken into account backwards, whatever replays reach the consumer.
ObservationsGoForward ==
    [][\A a \in Alerts :
          /\ alert'[a].lastId >= alert[a].lastId
          /\ alert'[a].lastId > 0 =>
                alert'[a].lastRelation = RelationFor(price[alert'[a].lastId], Target[a])]_vars

\* An alert that left 'active' stays as it is, whatever copies of it the
\* registry and the consumer still hold; only a disabled one can be deleted.
ClosedIsFinal ==
    [][\A a \in Alerts :
          /\ alert[a].status \in {"triggered", "deleted"} =>
                alert'[a].status = alert[a].status
          /\ alert[a].status = "disabled" => alert'[a].status \in {"disabled", "deleted"}
          /\ alert[a].status \notin {"absent", "active"} =>
                alert'[a].lastId = alert[a].lastId]_vars

\* What is recorded of an alert only goes forward.
AlertsGoForward == ObservationsGoForward /\ ClosedIsFinal

\* When users, the exchange and the faults come to rest and the maintenance task
\* has survived them, the registry comes to hold the active alerts and no other,
\* however stale the snapshots and however many transactions were rolled back
\* after it had been changed.
RegistryConverges ==
    <>[]maintaining => <>[](\A a \in Alerts : registry[a] >= 0 <=> alert[a].status = "active")

=============================================================================
