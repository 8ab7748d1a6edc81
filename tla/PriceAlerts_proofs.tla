------------------------- MODULE PriceAlerts_proofs -------------------------
(***************************************************************************)
(* Proofs about PriceAlerts, for every set of alerts, every direction,     *)
(* target and price, and every length of the queue and of the history of   *)
(* trades.                                                                 *)
(***************************************************************************)
EXTENDS PriceAlerts, TLAPS, FiniteSetTheorems

-----------------------------------------------------------------------------
(***************************************************************************)
(* The inductive invariant.  A trade id means something only while it      *)
(* names a published trade, and the row of an alert carries a relation     *)
(* computed earlier, against a price read then: the invariant says that    *)
(* every id the pipeline holds names a published trade, that the stored    *)
(* relation is still the one of the trade the row names, and that the      *)
(* triggers of an alert are told by its row.                               *)
(***************************************************************************)
QueueIsPublished == \A i \in 1..Len(queue) : queue[i] <= Len(price)

EventIsPublished == place # "idle" => event \in 1..Len(price)

\* The consumer has a refresh under way only between taking a trade and
\* evaluating it.
RefreshHasEvent == snapshot["consumer"] # Nothing => place = "refresh"

\* A row names the trade its relation was computed from, or none at all.
RowRecords(a) ==
    /\ alert[a].lastId <= Len(price)
    /\ alert[a].lastId = 0 <=> alert[a].lastRelation = "none"
    /\ alert[a].lastId > 0 =>
          alert[a].lastRelation = RelationFor(price[alert[a].lastId], Target[a])
    /\ alert[a].status = "absent" => alert[a].lastId = 0

Fired(a) == {b \in TradeIds : <<a, b>> \in triggers}

\* A triggered row names the only trade that triggered it, one beyond the
\* target that came after one that was not.
RowTriggers(a) ==
    IF alert[a].status = "triggered"
    THEN /\ alert[a].lastId > 0
         /\ Fired(a) = {alert[a].lastId}
         /\ Beyond(a, alert[a].lastId)
         /\ \E p \in 1..(alert[a].lastId - 1) : ~Beyond(a, p)
    ELSE Fired(a) = {}

IInv ==
    /\ TypeOK
    /\ QueueIsPublished
    /\ EventIsPublished
    /\ RefreshHasEvent
    /\ \A a \in Alerts : RowRecords(a) /\ RowTriggers(a)

-----------------------------------------------------------------------------
(***************************************************************************)
(* Types of the operators.                                                 *)
(***************************************************************************)

LEMMA BoundTypes ==
    /\ Direction \in [Alerts -> {"cross_above", "cross_below"}]
    /\ Target \in [Alerts -> Int]
    /\ Prices \subseteq Int
    /\ MaxTrades \in Nat
    /\ QueueSize \in Nat
    /\ MaxFaults \in Nat
    /\ MaxEdits \in Nat
BY AlertAssumption DEF AlertAssumption

LEMMA EmptyType == Empty \in [Alerts -> Registered]
BY BoundTypes DEF Empty, Registered

LEMMA NothingType == Nothing \in Snapshot
BY BoundTypes DEF Nothing, Snapshot, Registered

LEMMA ActiveRowsType ==
    ASSUME TypeOK, NEW S
    PROVE  ActiveRows(S) \in [Alerts -> Registered]
<1>1. \A a \in Alerts : alert[a].lastId \in Registered /\ -1 \in Registered
      BY BoundTypes DEF TypeOK, Alert, Registered
<1>2. QED
      BY <1>1 DEF ActiveRows

LEMMA MergedType ==
    ASSUME TypeOK, NEW t \in Tasks
    PROVE  Merged(snapshot[t]) \in [Alerts -> Registered]
<1>1. snapshot[t].rows \in [Alerts -> Registered]
      BY DEF TypeOK, Snapshot
<1>2. \A a \in Alerts : registry[a] \in Registered
      BY DEF TypeOK
<1>3. QED
      BY <1>1, <1>2 DEF Merged

LEMMA RelationType ==
    ASSUME NEW p, NEW target
    PROVE  RelationFor(p, target) \in Relations
BY DEF RelationFor, Relations

LEMMA NewRowType ==
    ASSUME TypeOK, NEW a \in Alerts
    PROVE  NewRow(a) \in Alert
<1>1. alert[a] \in Alert /\ event \in 0..MaxTrades
      BY DEF TypeOK
<1>2. Current(a) \in Relations
      BY RelationType DEF Current
<1>3. Observed(a, "active") \in Alert /\ Observed(a, "triggered") \in Alert
      BY <1>1, <1>2 DEF Observed, Alert, Statuses
<1>4. QED
      BY <1>1, <1>3 DEF NewRow

LEMMA NewEntryType ==
    ASSUME TypeOK, NEW a \in Alerts
    PROVE  NewEntry(a) \in Registered
<1>1. -1 \in Registered /\ event \in Registered /\ registry[a] \in Registered
      BY BoundTypes DEF TypeOK, Registered
<1>2. QED
      BY <1>1 DEF NewEntry

\* A row with another status, or seen at another age, is a row.
LEMMA RowEditTypes ==
    ASSUME NEW r \in Alert, NEW s \in Statuses, NEW b \in BOOLEAN
    PROVE  /\ [r EXCEPT !.status = s, !.recent = b] \in Alert
           /\ [r EXCEPT !.recent = b] \in Alert
BY DEF Alert

LEMMA CreatedType == [NoAlert EXCEPT !.status = "active", !.recent = TRUE] \in Alert
<1>1. NoAlert \in Alert
      BY BoundTypes DEF NoAlert, Alert, Statuses
<1>2. "active" \in Statuses
      BY DEF Statuses
<1>3. QED
      BY <1>1, <1>2, RowEditTypes

-----------------------------------------------------------------------------
(***************************************************************************)
(* Type correctness.                                                       *)
(***************************************************************************)

LEMMA InitTypes == Init => TypeOK
<1> SUFFICES ASSUME Init PROVE TypeOK
    OBVIOUS
<1>1. alert \in [Alerts -> Alert]
      BY BoundTypes DEF Init, NoAlert, Alert, Statuses
<1>2. snapshot \in [Tasks -> Snapshot]
      BY NothingType DEF Init
<1>3. registry \in [Alerts -> Registered] /\ todo \in [Alerts -> Registered]
      BY EmptyType DEF Init
<1>4. QED
      BY <1>1, <1>2, <1>3, BoundTypes DEF Init, TypeOK

LEMMA StepTypes == TypeOK /\ EventIsPublished /\ [Next]_vars => TypeOK'
<1> SUFFICES ASSUME TypeOK, EventIsPublished, [Next]_vars PROVE TypeOK'
    OBVIOUS
<1> USE BoundTypes
<1>1. ASSUME NEW a \in Alerts, Create(a) PROVE TypeOK'
      BY <1>1, CreatedType DEF TypeOK, Create, streamVars, consumerVars, taskVars
<1>2. ASSUME NEW a \in Alerts, Delete(a) PROVE TypeOK'
  <2>1. "deleted" \in Statuses
        BY DEF Statuses
  <2>2. [alert[a] EXCEPT !.status = "deleted", !.recent = TRUE] \in Alert
        BY <2>1, RowEditTypes DEF TypeOK
  <2>3. alert' = [alert EXCEPT ![a] = [alert[a] EXCEPT !.status = "deleted", !.recent = TRUE]]
        BY <1>2 DEF Delete, TypeOK, Alert
  <2>4. alert' \in [Alerts -> Alert]
        BY <2>2, <2>3 DEF TypeOK
  <2>5. QED
        BY <1>2, <2>4 DEF TypeOK, Delete, streamVars, consumerVars, taskVars
<1>3. ASSUME NEW a \in Alerts, Ages(a) PROVE TypeOK'
  <2>1. alert' \in [Alerts -> Alert]
        BY <1>3 DEF TypeOK, Ages, Alert
  <2>2. QED
        BY <1>3, <2>1 DEF TypeOK, Ages, streamVars, consumerVars, taskVars
<1>4. ASSUME NEW a \in Alerts, DisableForMarket(a) PROVE TypeOK'
  <2>1. alert' \in [Alerts -> Alert]
        BY <1>4 DEF TypeOK, DisableForMarket, Alert, Statuses
  <2>2. registry' \in [Alerts -> Registered]
        BY <1>4 DEF TypeOK, DisableForMarket, Registered
  <2>3. /\ UNCHANGED <<price, triggers, streamVars, consumerVars, taskVars, faults>>
        /\ edits < MaxEdits /\ edits' = edits + 1
        BY <1>4 DEF DisableForMarket
  <2>4. QED
        BY <2>1, <2>2, <2>3 DEF TypeOK, streamVars, consumerVars, taskVars
<1>5. ASSUME NEW a \in Alerts, EvaluateRolledBack(a) PROVE TypeOK'
  <2>1. registry' \in [Alerts -> Registered]
        BY <1>5, NewEntryType DEF TypeOK, EvaluateRolledBack
  <2>2. todo' \in [Alerts -> Registered]
        BY <1>5 DEF TypeOK, EvaluateRolledBack, Registered
  <2>3. QED
        BY <1>5, <2>1, <2>2 DEF TypeOK, EvaluateRolledBack, streamVars, taskVars
<1>6. CASE Publish
  <2>1. price' \in Seq(Prices) /\ Len(price') <= MaxTrades
        BY <1>6 DEF TypeOK, Publish
  <2>2. QED
        BY <1>6, <2>1 DEF TypeOK, Publish, streamVars, consumerVars, taskVars
<1>7. CASE Accept
  <2>1. PICK t \in 1..Len(price) : lastAccepted' = t /\ queue' = Append(queue, t)
        BY <1>7 DEF Accept
  <2>2. t \in TradeIds
        BY DEF TypeOK, TradeIds
  <2>3. queue' \in Seq(TradeIds) /\ Len(queue') <= QueueSize /\ lastAccepted' \in 0..MaxTrades
        BY <1>7, <2>1, <2>2 DEF TypeOK, Accept, QueueHasRoom, TradeIds
  <2>4. QED
        BY <1>7, <2>3 DEF TypeOK, Accept, consumerVars, taskVars
<1>8. CASE Reconnect
  <2>1. snapshot' \in [Tasks -> Snapshot]
        BY <1>8, NothingType DEF TypeOK, Reconnect
  <2>2. QED
        BY <1>8, <2>1, EmptyType DEF TypeOK, Reconnect, NewConnection
<1>9. CASE CatalogChanges
      BY <1>9 DEF TypeOK, CatalogChanges, consumerVars, taskVars
<1>10. CASE Restart
  <2>1. snapshot' \in [Tasks -> Snapshot]
        BY <1>10, NothingType DEF TypeOK, Restart
  <2>2. registry' \in [Alerts -> Registered]
        BY <1>10, EmptyType, ActiveRowsType DEF Restart
  <2>3. QED
        BY <1>10, <2>1, <2>2, EmptyType DEF TypeOK, Restart, NewConnection
<1>11. CASE MaintenanceDies
  <2>1. /\ UNCHANGED <<price, alert, triggers, streamVars, registry, consumerVars,
                       snapshot, edits>>
        /\ maintaining' \in BOOLEAN
        /\ faults < MaxFaults /\ faults' = faults + 1
        BY <1>11 DEF MaintenanceDies
  <2>2. QED
        BY <2>1 DEF TypeOK, streamVars, consumerVars
<1>12. ASSUME NEW t \in Tasks, ReadRebuild(t) PROVE TypeOK'
  <2>1. [kind |-> "full", rows |-> ActiveRows(Alerts), seen |-> Alerts] \in Snapshot
        BY ActiveRowsType DEF Snapshot
  <2>2. snapshot' \in [Tasks -> Snapshot]
        BY <1>12, <2>1 DEF TypeOK, ReadRebuild
  <2>3. QED
        BY <1>12, <2>2 DEF TypeOK, ReadRebuild, streamVars, consumerVars
<1>13. ASSUME NEW t \in Tasks, ReadRecent(t) PROVE TypeOK'
  <2> DEFINE rows == {a \in Alerts : alert[a].recent}
  <2>1. [kind |-> "recent", rows |-> ActiveRows(rows), seen |-> rows] \in Snapshot
        BY ActiveRowsType DEF Snapshot
  <2>2. snapshot' \in [Tasks -> Snapshot]
        BY <1>13, <2>1 DEF TypeOK, ReadRecent
  <2>3. QED
        BY <1>13, <2>2 DEF TypeOK, ReadRecent, streamVars, consumerVars
<1>14. ASSUME NEW t \in Tasks, ApplySnapshot(t) PROVE TypeOK'
  <2>1. snapshot' \in [Tasks -> Snapshot]
        BY <1>14, NothingType DEF TypeOK, ApplySnapshot
  <2>2. registry' \in [Alerts -> Registered]
        BY <1>14, MergedType DEF ApplySnapshot
  <2>3. /\ place' \in {"idle", "refresh", "evaluate"}
        /\ event' \in 0..MaxTrades
        /\ todo' \in [Alerts -> Registered]
        BY <1>14, MergedType DEF TypeOK, ApplySnapshot, StartEvaluation, consumerVars
  <2>4. QED
        BY <1>14, <2>1, <2>2, <2>3 DEF TypeOK, ApplySnapshot, streamVars
<1>15. CASE TakeEvent
  <2>1. event' \in 0..MaxTrades /\ queue' \in Seq(TradeIds) /\ Len(queue') <= QueueSize
        BY <1>15 DEF TypeOK, TakeEvent, TradeIds
  <2>2. QED
        BY <1>15, <2>1 DEF TypeOK, TakeEvent, taskVars
<1>16. CASE NoRefresh
      BY <1>16 DEF TypeOK, NoRefresh, StartEvaluation, streamVars, taskVars
<1>17. ASSUME NEW a \in Alerts, SkipOldEvent(a) PROVE TypeOK'
  <2>1. todo' \in [Alerts -> Registered]
        BY <1>17 DEF TypeOK, SkipOldEvent, Registered
  <2>2. QED
        BY <1>17, <2>1 DEF TypeOK, SkipOldEvent, streamVars, taskVars
<1>18. ASSUME NEW a \in Alerts, Evaluate(a) PROVE TypeOK'
  <2>1. alert' \in [Alerts -> Alert]
        BY <1>18, NewRowType DEF TypeOK, Evaluate
  <2>2. registry' \in [Alerts -> Registered] /\ todo' \in [Alerts -> Registered]
    <3>1. registry' \in [Alerts -> Registered]
          BY <1>18, NewEntryType DEF TypeOK, Evaluate
    <3>2. todo' \in [Alerts -> Registered]
          BY <1>18 DEF TypeOK, Evaluate, Registered
    <3>3. QED
          BY <3>1, <3>2
  <2>3. triggers' \subseteq Alerts \X TradeIds
        BY <1>18 DEF TypeOK, EventIsPublished, Evaluate, Evaluating, TradeIds
  <2>4. QED
        BY <1>18, <2>1, <2>2, <2>3 DEF TypeOK, Evaluate, streamVars, taskVars
<1>19. CASE EventDone
      BY <1>19 DEF TypeOK, EventDone, streamVars, taskVars
<1>20. CASE UNCHANGED vars
      BY <1>20 DEF TypeOK, vars, streamVars, consumerVars, taskVars
<1>21. QED
      BY <1>1, <1>2, <1>3, <1>4, <1>5, <1>6, <1>7, <1>8, <1>9, <1>10, <1>11, <1>12, <1>13,
         <1>14, <1>15, <1>16, <1>17, <1>18, <1>19, <1>20
      DEF Next, ConsumerStep, Rebuild, Tasks

-----------------------------------------------------------------------------
(***************************************************************************)
(* What a step may do to the trades and to one row.  Everything below      *)
(* follows from these two lemmas.                                          *)
(***************************************************************************)
TradesKept ==
    /\ Len(price) <= Len(price')
    /\ \A i \in 1..Len(price) : price'[i] = price[i]

RowKept(a) ==
    /\ alert'[a].status = alert[a].status
    /\ alert'[a].lastId = alert[a].lastId
    /\ alert'[a].lastRelation = alert[a].lastRelation
    /\ Fired(a)' = Fired(a)

RowCreated(a) ==
    /\ alert[a].status = "absent"
    /\ alert'[a].status = "active"
    /\ alert'[a].lastId = 0
    /\ alert'[a].lastRelation = "none"
    /\ Fired(a)' = Fired(a)

RowClosed(a) ==
    /\ alert[a].status \in {"active", "disabled"}
    /\ alert'[a].status \in {"disabled", "deleted"}
    /\ alert'[a].lastId = alert[a].lastId
    /\ alert'[a].lastRelation = alert[a].lastRelation
    /\ Fired(a)' = Fired(a)

RowObserved(a) ==
    /\ place = "evaluate"
    /\ UNCHANGED price
    /\ IsOpen(a) /\ IsNew(a)
    /\ alert'[a].status = IF Triggers(a) THEN "triggered" ELSE "active"
    /\ alert'[a].lastId = event
    /\ alert'[a].lastRelation = Current(a)
    /\ Fired(a)' = Fired(a) \union (IF Triggers(a) THEN {event} ELSE {})

LEMMA TradeSteps == TypeOK /\ [Next]_vars => TradesKept
<1> SUFFICES ASSUME TypeOK, [Next]_vars PROVE TradesKept
    OBVIOUS
<1>1. CASE Publish
  <2>1. PICK p \in Prices : price' = Append(price, p)
        BY <1>1 DEF Publish
  <2>2. QED
        BY <2>1 DEF TypeOK, TradesKept
<1>2. CASE UNCHANGED price
      BY <1>2 DEF TypeOK, TradesKept
<1>3. Publish \/ UNCHANGED price
      BY DEF Next, ConsumerStep, Rebuild, Create, Delete, Ages, DisableForMarket,
             EvaluateRolledBack, Accept, Reconnect, CatalogChanges, Restart,
             MaintenanceDies, ReadRebuild, ReadRecent, ApplySnapshot, TakeEvent,
             NoRefresh, SkipOldEvent, Evaluate, EventDone, vars
<1>4. QED
      BY <1>1, <1>2, <1>3

LEMMA EvaluatedRow ==
    ASSUME TypeOK, EventIsPublished, NEW a \in Alerts, Evaluate(a)
    PROVE  RowKept(a) \/ RowObserved(a)
<1>1. alert'[a] = NewRow(a) /\ place = "evaluate" /\ UNCHANGED price
      BY DEF Evaluate, Evaluating, TypeOK
<1>2. event \in TradeIds
      BY <1>1 DEF EventIsPublished, TypeOK, TradeIds
<1>3. CASE Triggers(a)
  <2>1. NewRow(a) = Observed(a, "triggered")
    <3>1. alert[a].lastRelation # Current(a)
          BY <1>3 DEF Triggers, Crossing, CrossesInDirection
    <3>2. QED
          BY <3>1, <1>3 DEF Triggers, NewRow
  <2>2. Fired(a)' = Fired(a) \union {event}
        BY <1>2, <1>3 DEF Fired, Evaluate
  <2>3. QED
        BY <1>1, <1>3, <2>1, <2>2 DEF RowObserved, Observed, Triggers
<1>4. CASE ~Triggers(a)
  <2>1. Fired(a)' = Fired(a)
        BY <1>4 DEF Fired, Evaluate
  <2>2. CASE NewRow(a) = alert[a]
        BY <1>1, <2>1, <2>2 DEF RowKept
  <2>3. CASE NewRow(a) # alert[a]
    <3>1. IsOpen(a) /\ IsNew(a) /\ NewRow(a) = Observed(a, "active")
          BY <1>4, <2>3 DEF NewRow, Triggers
    <3>2. QED
          BY <1>1, <1>4, <2>1, <3>1 DEF RowObserved, Observed
  <2>4. QED
        BY <2>2, <2>3
<1>5. QED
      BY <1>3, <1>4

LEMMA RowSteps ==
    ASSUME TypeOK, EventIsPublished, [Next]_vars, NEW a \in Alerts
    PROVE  RowKept(a) \/ RowCreated(a) \/ RowClosed(a) \/ RowObserved(a)
<1> DEFINE Goal == RowKept(a) \/ RowCreated(a) \/ RowClosed(a) \/ RowObserved(a)
<1> SUFFICES Goal
    OBVIOUS
<1>1. ASSUME alert'[a] = alert[a], UNCHANGED triggers PROVE Goal
      BY <1>1 DEF RowKept, Fired
<1>2. ASSUME NEW b \in Alerts, Create(b) PROVE Goal
  <2>1. CASE b = a
    <3>1. alert'[a] = [NoAlert EXCEPT !.status = "active", !.recent = TRUE]
          BY <1>2, <2>1 DEF Create, TypeOK
    <3>2. QED
          BY <1>2, <2>1, <3>1 DEF Create, RowCreated, NoAlert, Fired
  <2>2. CASE b # a
        BY <1>1, <1>2, <2>2 DEF Create, TypeOK
  <2>3. QED
        BY <2>1, <2>2
<1>3. ASSUME NEW b \in Alerts, Delete(b) PROVE Goal
  <2>1. CASE b = a
    <3>1. /\ alert'[a].status = "deleted"
          /\ alert'[a].lastId = alert[a].lastId
          /\ alert'[a].lastRelation = alert[a].lastRelation
          BY <1>3, <2>1 DEF Delete, TypeOK, Alert
    <3>2. QED
          BY <1>3, <2>1, <3>1 DEF Delete, RowClosed, Fired
  <2>2. CASE b # a
        BY <1>1, <1>3, <2>2 DEF Delete, TypeOK
  <2>3. QED
        BY <2>1, <2>2
<1>4. ASSUME NEW b \in Alerts, Ages(b) PROVE Goal
  <2>1. /\ alert'[a].status = alert[a].status
        /\ alert'[a].lastId = alert[a].lastId
        /\ alert'[a].lastRelation = alert[a].lastRelation
        BY <1>4 DEF Ages, TypeOK, Alert
  <2>2. QED
        BY <1>4, <2>1 DEF Ages, RowKept, Fired
<1>5. ASSUME NEW b \in Alerts, DisableForMarket(b) PROVE Goal
  <2>1. CASE b = a /\ alert[a].status = "active"
    <3>1. /\ alert'[a].status = "disabled"
          /\ alert'[a].lastId = alert[a].lastId
          /\ alert'[a].lastRelation = alert[a].lastRelation
          BY <1>5, <2>1 DEF DisableForMarket, TypeOK, Alert
    <3>2. QED
          BY <1>5, <2>1, <3>1 DEF DisableForMarket, RowClosed, Fired
  <2>2. CASE ~(b = a /\ alert[a].status = "active")
    <3>1. alert'[a] = alert[a] /\ UNCHANGED triggers
          BY <1>5, <2>2 DEF DisableForMarket, TypeOK
    <3>2. QED
          BY <1>1, <3>1
  <2>3. QED
        BY <2>1, <2>2
<1>6. ASSUME NEW b \in Alerts, Evaluate(b) PROVE Goal
  <2>1. CASE b = a
        BY <1>6, <2>1, EvaluatedRow
  <2>2. CASE b # a
    <3>1. alert'[a] = alert[a]
          BY <1>6, <2>2 DEF Evaluate, TypeOK
    <3>2. Fired(a)' = Fired(a)
          BY <1>6, <2>2 DEF Evaluate, Fired
    <3>3. QED
          BY <3>1, <3>2 DEF RowKept
  <2>3. QED
        BY <2>1, <2>2
<1>7. ASSUME UNCHANGED <<alert, triggers>> PROVE Goal
      BY <1>1, <1>7
<1>8. \/ \E b \in Alerts : Create(b) \/ Delete(b) \/ Ages(b) \/ DisableForMarket(b) \/ Evaluate(b)
      \/ UNCHANGED <<alert, triggers>>
      BY DEF Next, ConsumerStep, Rebuild, EvaluateRolledBack, Publish, Accept, Reconnect,
             CatalogChanges, Restart, MaintenanceDies, ReadRebuild, ReadRecent,
             ApplySnapshot, TakeEvent, NoRefresh, SkipOldEvent, EventDone, vars
<1>9. QED
      BY <1>2, <1>3, <1>4, <1>5, <1>6, <1>7, <1>8

-----------------------------------------------------------------------------
(***************************************************************************)
(* The arithmetic of relations.py: a crossing is a step onto the far side. *)
(***************************************************************************)

LEMMA PriceTypes ==
    ASSUME TypeOK, NEW t \in 1..Len(price)
    PROVE  price[t] \in Int
<1>1. price[t] \in Prices
      BY DEF TypeOK
<1>2. QED
      BY <1>1, BoundTypes

LEMMA CrossingIsAStepBeyond ==
    ASSUME TypeOK, NEW a \in Alerts, NEW p \in 1..Len(price), NEW t \in 1..Len(price)
    PROVE  CrossesInDirection(Direction[a], RelationFor(price[p], Target[a]),
                              RelationFor(price[t], Target[a]))
              <=> ~Beyond(a, p) /\ Beyond(a, t)
<1>1. price[p] \in Int /\ price[t] \in Int /\ Target[a] \in Int
      BY PriceTypes, BoundTypes
<1>2. Direction[a] \in {"cross_above", "cross_below"}
      BY BoundTypes
<1>3. QED
      BY <1>1, <1>2 DEF CrossesInDirection, Beyond, RelationFor

\* An observation triggers exactly when it is the step from a trade that was not
\* beyond the target, the one the row names, to one that is.
LEMMA TriggersAtCrossing ==
    ASSUME IInv, NEW a \in Alerts, RowObserved(a)
    PROVE  /\ event \in 1..Len(price)
           /\ alert[a].lastId < event
           /\ Triggers(a) <=> /\ alert[a].lastId > 0
                              /\ ~Beyond(a, alert[a].lastId)
                              /\ Beyond(a, event)
<1>1. event \in 1..Len(price)
      BY DEF IInv, EventIsPublished, RowObserved
<1>2. alert[a].lastId \in 0..MaxTrades
      BY DEF IInv, TypeOK, Alert
<1>3. alert[a].lastId < event
      BY <1>1, <1>2 DEF RowObserved, IsNew
<1>4. CASE alert[a].lastId = 0
      BY <1>1, <1>3, <1>4 DEF IInv, RowRecords, Triggers
<1>5. CASE alert[a].lastId > 0
  <2>1. alert[a].lastId \in 1..Len(price)
        BY <1>1, <1>2, <1>3, <1>5
  <2>2. alert[a].lastRelation # "none"
        BY <1>5 DEF IInv, RowRecords
  <2>3. alert[a].lastRelation = RelationFor(price[alert[a].lastId], Target[a])
        BY <1>5 DEF IInv, RowRecords
  <2>4. Crossing(a) <=> ~Beyond(a, alert[a].lastId) /\ Beyond(a, event)
        BY <1>1, <2>1, <2>3, CrossingIsAStepBeyond DEF Crossing, Current, IInv
  <2>5. QED
        BY <1>1, <1>3, <1>5, <2>2, <2>4 DEF Triggers, RowObserved
<1>6. QED
      BY <1>2, <1>4, <1>5

-----------------------------------------------------------------------------
(***************************************************************************)
(* The invariant is inductive.                                             *)
(***************************************************************************)

LEMMA InitInv == Init => IInv
<1> SUFFICES ASSUME Init PROVE IInv
    OBVIOUS
<1>1. TypeOK
      BY InitTypes
<1>2. QueueIsPublished /\ EventIsPublished /\ RefreshHasEvent
      BY DEF Init, QueueIsPublished, EventIsPublished, RefreshHasEvent, Tasks
<1>3. ASSUME NEW a \in Alerts PROVE RowRecords(a) /\ RowTriggers(a)
  <2>1. alert[a] = NoAlert /\ Fired(a) = {}
        BY DEF Init, Fired
  <2>2. QED
        BY <2>1 DEF Init, NoAlert, RowRecords, RowTriggers
<1>4. QED
      BY <1>1, <1>2, <1>3 DEF IInv

\* What the stream hands on names published trades, whatever is replayed, dropped
\* or cancelled on the way.
LEMMA StepPublished ==
    ASSUME IInv, [Next]_vars
    PROVE  QueueIsPublished' /\ EventIsPublished'
<1> USE BoundTypes DEF IInv
<1>1. TradesKept /\ TypeOK'
      BY TradeSteps, StepTypes
<1>2. Len(price) \in Nat /\ Len(price') \in Nat /\ queue \in Seq(TradeIds)
      BY <1>1 DEF TypeOK
<1>3. CASE Accept
  <2>1. PICK t \in 1..Len(price) : queue' = Append(queue, t)
        BY <1>3 DEF Accept
  <2>2. t \in TradeIds
        BY DEF TypeOK, TradeIds
  <2>3. QueueIsPublished'
        BY <1>2, <1>3, <2>1, <2>2 DEF Accept, QueueIsPublished
  <2>4. QED
        BY <1>3, <2>3 DEF Accept, EventIsPublished, consumerVars
<1>4. CASE TakeEvent
  <2>1. event' \in 1..Len(price) /\ QueueIsPublished'
    <3>1. \A i \in 1..Len(queue) : queue[i] \in 1..Len(price)
          BY <1>2 DEF QueueIsPublished, TradeIds
    <3>2. queue # <<>> /\ event' = Head(queue) /\ queue' = Tail(queue) /\ UNCHANGED price
          BY <1>4 DEF TakeEvent
    <3>3. event' \in 1..Len(price)
          BY <1>2, <3>1, <3>2
    <3>4. \A i \in 1..Len(queue') : queue'[i] = queue[i + 1] /\ i + 1 \in 1..Len(queue)
          BY <1>2, <3>2
    <3>5. QED
          BY <1>2, <3>1, <3>2, <3>3, <3>4 DEF QueueIsPublished
  <2>2. QED
        BY <1>4, <2>1 DEF TakeEvent, EventIsPublished
<1>5. CASE NewConnection /\ UNCHANGED price
      BY <1>5 DEF NewConnection, QueueIsPublished, EventIsPublished
<1>6. ASSUME UNCHANGED queue, UNCHANGED event \/ place' = "idle", place = "idle" => place' = "idle"
      PROVE  QueueIsPublished' /\ EventIsPublished'
  <2>1. QueueIsPublished'
        BY <1>1, <1>2, <1>6 DEF QueueIsPublished, TradesKept, TradeIds
  <2>2. EventIsPublished'
        BY <1>1, <1>2, <1>6 DEF EventIsPublished, TradesKept
  <2>3. QED
        BY <2>1, <2>2
<1>7. ASSUME NEW t \in Tasks, ApplySnapshot(t) PROVE  QueueIsPublished' /\ EventIsPublished'
  <2>1. CASE t = "consumer"
    <3>1. place = "refresh" /\ UNCHANGED <<event, queue>> /\ place' = "evaluate"
          BY <1>7, <2>1 DEF ApplySnapshot, RefreshHasEvent, StartEvaluation, streamVars
    <3>2. QED
          BY <1>6, <3>1
  <2>2. CASE t # "consumer"
        BY <1>6, <1>7, <2>2 DEF ApplySnapshot, streamVars, consumerVars
  <2>3. QED
        BY <2>1, <2>2
<1>8. CASE NoRefresh
      BY <1>6, <1>8 DEF NoRefresh, StartEvaluation, streamVars
<1>9. CASE EventDone
      BY <1>6, <1>9 DEF EventDone, streamVars
<1>10. CASE UNCHANGED <<queue, event, place>>
      BY <1>6, <1>10
<1>11. \/ Accept \/ TakeEvent \/ NoRefresh \/ EventDone
       \/ NewConnection /\ UNCHANGED price
       \/ \E t \in Tasks : ApplySnapshot(t)
       \/ UNCHANGED <<queue, event, place>>
      BY DEF Next, ConsumerStep, Rebuild, Create, Delete, Ages, DisableForMarket,
             EvaluateRolledBack, Publish, Reconnect, CatalogChanges, Restart,
             MaintenanceDies, ReadRebuild, ReadRecent, SkipOldEvent, Evaluate, vars,
             streamVars, consumerVars, Tasks
<1>12. QED
      BY <1>3, <1>4, <1>5, <1>7, <1>8, <1>9, <1>10, <1>11

LEMMA StepRefresh ==
    ASSUME IInv, [Next]_vars
    PROVE  RefreshHasEvent'
<1> USE DEF IInv, RefreshHasEvent
<1>1. ASSUME NEW t \in Tasks, snapshot' = [snapshot EXCEPT ![t] = Nothing],
             t = "consumer" \/ UNCHANGED place
      PROVE  RefreshHasEvent'
      BY <1>1 DEF TypeOK
<1>2. ASSUME NEW t \in Tasks, ReadRebuild(t) \/ ReadRecent(t) PROVE RefreshHasEvent'
  <2>1. CASE t = "consumer"
        BY <1>2, <2>1 DEF ReadRebuild, ReadRecent, MayRead, consumerVars
  <2>2. CASE t # "consumer"
    <3>1. UNCHANGED place /\ snapshot'["consumer"] = snapshot["consumer"]
          BY <1>2, <2>2 DEF TypeOK, ReadRebuild, ReadRecent, consumerVars, Tasks
    <3>2. QED
          BY <3>1
  <2>3. QED
        BY <2>1, <2>2
<1>3. ASSUME NEW t \in Tasks, ApplySnapshot(t) PROVE RefreshHasEvent'
      BY <1>1, <1>3 DEF ApplySnapshot, consumerVars
<1>4. CASE Reconnect \/ Restart
      BY <1>4 DEF Reconnect, Restart, Tasks, TypeOK
<1>5. CASE TakeEvent \/ NoRefresh \/ EventDone
      BY <1>5 DEF TakeEvent, NoRefresh, EventDone, taskVars
<1>6. CASE UNCHANGED <<snapshot, place>>
      BY <1>6
<1>7. \/ TakeEvent \/ NoRefresh \/ EventDone \/ Reconnect \/ Restart
      \/ \E t \in Tasks : ReadRebuild(t) \/ ReadRecent(t) \/ ApplySnapshot(t)
      \/ UNCHANGED <<snapshot, place>>
      BY DEF Next, ConsumerStep, Rebuild, Create, Delete, Ages, DisableForMarket,
             EvaluateRolledBack, Publish, Accept, CatalogChanges, MaintenanceDies,
             SkipOldEvent, Evaluate, vars, consumerVars, taskVars, Tasks
<1>8. QED
      BY <1>2, <1>3, <1>4, <1>5, <1>6, <1>7

\* The row of an alert, after each kind of step.
LEMMA StepRow ==
    ASSUME IInv, [Next]_vars, NEW a \in Alerts
    PROVE  RowRecords(a)' /\ RowTriggers(a)'
<1>1. TypeOK /\ EventIsPublished /\ RowRecords(a) /\ RowTriggers(a)
      BY DEF IInv
<1>2. TradesKept /\ TypeOK'
      BY <1>1, TradeSteps, StepTypes
<1>3. /\ Len(price) \in Nat /\ Len(price') \in Nat
      /\ alert[a].lastId \in Nat /\ alert'[a].lastId \in Nat
      BY <1>1, <1>2, BoundTypes DEF TypeOK, Alert
<1>4. \A t \in 1..Len(price) : price'[t] = price[t] /\ (Beyond(a, t)' <=> Beyond(a, t))
      BY <1>2 DEF TradesKept, Beyond
<1>5. CASE RowKept(a)
  <2>1. RowRecords(a)'
        BY <1>1, <1>2, <1>3, <1>4, <1>5 DEF RowRecords, RowKept, TradesKept
  <2>2. RowTriggers(a)'
        BY <1>1, <1>3, <1>4, <1>5 DEF RowRecords, RowTriggers, RowKept
  <2>3. QED
        BY <2>1, <2>2
<1>6. CASE RowCreated(a)
      BY <1>1, <1>3, <1>6 DEF RowRecords, RowTriggers, RowCreated
<1>7. CASE RowClosed(a)
  <2>1. RowRecords(a)'
        BY <1>1, <1>2, <1>3, <1>4, <1>7 DEF RowRecords, RowClosed, TradesKept
  <2>2. RowTriggers(a)'
        BY <1>1, <1>7 DEF RowTriggers, RowClosed
  <2>3. QED
        BY <2>1, <2>2
<1>8. CASE RowObserved(a)
  <2>1. /\ event \in 1..Len(price)
        /\ alert[a].lastId < event
        /\ Triggers(a) <=> /\ alert[a].lastId > 0
                           /\ ~Beyond(a, alert[a].lastId)
                           /\ Beyond(a, event)
        BY <1>8, TriggersAtCrossing
  <2>2. RowRecords(a)'
    <3>1. Current(a) \in Relations /\ Current(a) # "none"
          BY RelationType DEF Current, Relations
    <3>2. QED
          BY <1>8, <2>1, <3>1 DEF RowRecords, RowObserved, Current
  <2>3. Fired(a) = {}
        BY <1>1, <1>8 DEF RowTriggers, RowObserved, IsOpen
  <2>4. CASE Triggers(a)
    <3>1. alert[a].lastId \in 1..(event - 1) /\ alert[a].lastId \in 1..Len(price)
          BY <1>3, <2>1, <2>4
    <3>2. \E p \in 1..(event - 1) : ~Beyond(a, p)'
          BY <1>4, <2>1, <2>4, <3>1
    <3>3. /\ alert'[a].status = "triggered"
          /\ alert'[a].lastId = event
          /\ Fired(a)' = {event}
          BY <1>8, <2>3, <2>4 DEF RowObserved
    <3>4. Beyond(a, alert[a].lastId)'
          BY <1>4, <2>1, <2>4, <3>3 DEF Beyond
    <3>5. QED
          BY <2>1, <2>2, <3>2, <3>3, <3>4 DEF RowTriggers
  <2>5. CASE ~Triggers(a)
        BY <1>8, <2>2, <2>3, <2>5 DEF RowTriggers, RowObserved
  <2>6. QED
        BY <2>4, <2>5
<1>9. QED
      BY <1>1, <1>5, <1>6, <1>7, <1>8, RowSteps

LEMMA StepInv == IInv /\ [Next]_vars => IInv'
<1> SUFFICES ASSUME IInv, [Next]_vars PROVE IInv'
    OBVIOUS
<1>1. TypeOK'
      BY StepTypes DEF IInv
<1>2. QED
      BY <1>1, StepPublished, StepRefresh, StepRow DEF IInv

\* The inductive invariant holds in every reachable state.
LEMMA Inductive == Spec => []IInv
<1>1. QED
      BY InitInv, StepInv, PTL DEF Spec

-----------------------------------------------------------------------------
(***************************************************************************)
(* The theorems.                                                           *)
(***************************************************************************)

\* The state of the pipeline, the registry and the rows keeps its types.
THEOREM TypeCorrect == Spec => []TypeOK
BY Inductive, PTL DEF IInv

LEMMA InvImpliesCrossings == IInv => TriggersAreCrossings
<1> SUFFICES ASSUME IInv PROVE TriggersAreCrossings
    OBVIOUS
<1>1. TypeOK
      BY DEF IInv
<1>2. \A a \in Alerts : RowTriggers(a)
      BY DEF IInv
<1>3. TriggerIsCrossing
  <2> SUFFICES ASSUME NEW a \in Alerts, NEW b \in TradeIds, <<a, b>> \in triggers
               PROVE  Beyond(a, b) /\ \E p \in 1..(b - 1) : ~Beyond(a, p)
      BY DEF TriggerIsCrossing
  <2>1. b \in Fired(a)
        BY DEF Fired
  <2>2. alert[a].status = "triggered" /\ b = alert[a].lastId
        BY <1>2, <2>1 DEF RowTriggers
  <2>3. QED
        BY <1>2, <2>2 DEF RowTriggers
<1>4. TriggersOnce
  <2> SUFFICES ASSUME NEW a \in Alerts
               PROVE  /\ Cardinality(Fired(a)) <= 1
                      /\ alert[a].status = "triggered" <=> Fired(a) # {}
      BY DEF TriggersOnce, Fired
  <2>1. \/ alert[a].status = "triggered" /\ Fired(a) = {alert[a].lastId}
        \/ alert[a].status # "triggered" /\ Fired(a) = {}
        BY <1>2 DEF RowTriggers
  <2>2. QED
    <3>1. CASE Fired(a) = {alert[a].lastId}
      <4>1. Cardinality(Fired(a)) = 1
            BY <3>1, FS_Singleton
      <4>2. QED
            BY <2>1, <3>1, <4>1
    <3>2. CASE Fired(a) = {}
      <4>1. Cardinality(Fired(a)) = 0
            BY <3>2, FS_EmptySet
      <4>2. QED
            BY <2>1, <3>2, <4>1
    <3>3. QED
          BY <2>1, <3>1, <3>2
<1>5. QED
      BY <1>1, <1>3, <1>4 DEF TriggersAreCrossings

\* Whatever is replayed, reordered, rolled back or stale in the registry, an
\* alert is triggered at most once, exactly when its row says so, by a trade
\* beyond the target that follows one that was not.
THEOREM EveryTriggerIsACrossing == Spec => []TriggersAreCrossings
BY Inductive, InvImpliesCrossings, PTL

LEMMA StepCrosses ==
    ASSUME IInv, [Next]_vars, NEW a \in Alerts,
           alert[a].status = "active",
           alert[a].lastId > 0, ~Beyond(a, alert[a].lastId),
           Beyond(a, alert'[a].lastId)
    PROVE  alert'[a].status = "triggered"
<1>1. alert'[a].lastId # alert[a].lastId
      OBVIOUS
<1>2. RowObserved(a)
      BY <1>1, RowSteps DEF IInv, RowKept, RowCreated, RowClosed
<1>3. Triggers(a)
      BY <1>2, TriggersAtCrossing DEF RowObserved
<1>4. QED
      BY <1>2, <1>3 DEF RowObserved

\* PriceAlertTrigger.evaluate never records an alert beyond its target without
\* triggering it, once a trade on the near side or on the target was recorded.
THEOREM NoCrossingIsSwallowed == Spec => CrossingTriggers
<1> DEFINE Crosses == \A a \in Alerts :
               /\ alert[a].status = "active"
               /\ alert[a].lastId > 0 /\ ~Beyond(a, alert[a].lastId)
               /\ Beyond(a, alert'[a].lastId)
               => alert'[a].status = "triggered"
<1>1. IInv /\ [Next]_vars => [Crosses]_vars
      BY StepCrosses
<1>2. QED
      BY <1>1, Inductive, PTL DEF Spec, CrossingTriggers

LEMMA StepGoesForward ==
    ASSUME IInv, [Next]_vars, NEW a \in Alerts
    PROVE  /\ alert'[a].lastId >= alert[a].lastId
           /\ alert'[a].lastId > 0 =>
                 alert'[a].lastRelation = RelationFor(price[alert'[a].lastId], Target[a])
<1>1. RowRecords(a) /\ alert[a].lastId \in Nat
      BY BoundTypes DEF IInv, TypeOK, Alert
<1>2. CASE RowKept(a) \/ RowClosed(a)
      BY <1>1, <1>2 DEF RowRecords, RowKept, RowClosed
<1>3. CASE RowCreated(a)
      BY <1>1, <1>3 DEF RowRecords, RowCreated
<1>4. CASE RowObserved(a)
  <2>1. alert[a].lastId < event /\ event \in 1..Len(price)
        BY <1>4, TriggersAtCrossing
  <2>2. QED
        BY <1>1, <1>4, <2>1 DEF RowObserved, Current
<1>5. QED
      BY <1>2, <1>3, <1>4, RowSteps DEF IInv

LEMMA StepKeepsClosed ==
    ASSUME IInv, [Next]_vars, NEW a \in Alerts
    PROVE  /\ alert[a].status \in {"triggered", "deleted"} =>
                 alert'[a].status = alert[a].status
           /\ alert[a].status = "disabled" => alert'[a].status \in {"disabled", "deleted"}
           /\ alert[a].status \notin {"absent", "active"} =>
                 alert'[a].lastId = alert[a].lastId
BY RowSteps DEF IInv, RowKept, RowCreated, RowClosed, RowObserved, IsOpen

\* The row under lock, not the registry's copy, decides: ids and relations only
\* go forward, and what has left 'active' is never evaluated again.
THEOREM RecordsOnlyGoForward == Spec => AlertsGoForward
<1> DEFINE Forward == \A a \in Alerts :
               /\ alert'[a].lastId >= alert[a].lastId
               /\ alert'[a].lastId > 0 =>
                     alert'[a].lastRelation = RelationFor(price[alert'[a].lastId], Target[a])
           Final == \A a \in Alerts :
               /\ alert[a].status \in {"triggered", "deleted"} =>
                     alert'[a].status = alert[a].status
               /\ alert[a].status = "disabled" => alert'[a].status \in {"disabled", "deleted"}
               /\ alert[a].status \notin {"absent", "active"} =>
                     alert'[a].lastId = alert[a].lastId
<1>1. IInv /\ [Next]_vars => [Forward]_vars /\ [Final]_vars
      BY StepGoesForward, StepKeepsClosed
<1>2. QED
      BY <1>1, Inductive, PTL
      DEF Spec, AlertsGoForward, ObservationsGoForward, ClosedIsFinal

=============================================================================
