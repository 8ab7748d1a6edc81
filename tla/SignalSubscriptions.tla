------------------------ MODULE SignalSubscriptions ------------------------
(***************************************************************************)
(* The signal subscriptions of one user: overlapping requests to enable,   *)
(* disable and set the Telegram preference (signals/subscriptions.py), and *)
(* the log of state events the dispatcher later reads by their time        *)
(* (db/repositories/signal_subscriptions.py).                              *)
(*                                                                         *)
(* Enabling takes the user's advisory lock, and every request the row lock *)
(* of its subscription; the clock is read under the locks, the writes and  *)
(* the event are seen at the commit.                                       *)
(***************************************************************************)
EXTENDS Integers, FiniteSets

CONSTANTS
    Combinations,  \* of a market and a preset
    Requests,
    Limit,         \* ACTIVE_SUBSCRIPTION_LIMIT
    MaxFaults,     \* bound: database errors
    Nobody

\* Nobody stands for NULL.
SubscriptionsAssumption ==
    /\ IsFiniteSet(Combinations) /\ IsFiniteSet(Requests)
    /\ Nobody \notin Requests \union Combinations
    /\ Limit \in Nat /\ MaxFaults \in Nat

VARIABLES
    row,           \* signal_subscriptions: status and delivery preference
    events,        \* signal_subscription_state_events of each row
    clock,
    request,       \* each request: next step, kind, combination, time it has read
    userLock, rowLock,
    faults

vars == <<row, events, clock, request, userLock, rowLock, faults>>

Kinds == {"enable", "disable", "deliver", "silence"}
NoRow == [status |-> "absent", delivery |-> FALSE]
NewRequest == [pc |-> "new", kind |-> "none", on |-> Nobody, at |-> 0]
Event(at, new) == [at |-> at, status |-> new.status, delivery |-> new.delivery]

TypeOK ==
    /\ row \in [Combinations -> [status: {"absent", "active", "disabled"}, delivery: BOOLEAN]]
    /\ clock \in 0..Cardinality(Requests)
    /\ \A c \in Combinations : \A e \in events[c] : e.at \in 1..clock
    /\ request \in [Requests -> [pc: {"new", "lock", "row", "commit", "done"},
                                 kind: Kinds \union {"none"},
                                 on: Combinations \union {Nobody}, at: 0..clock]]
    /\ userLock \in Requests \union {Nobody}
    /\ rowLock \in [Combinations -> Requests \union {Nobody}]
    /\ faults \in 0..MaxFaults

Init ==
    /\ row = [c \in Combinations |-> NoRow]
    /\ events = [c \in Combinations |-> {}]
    /\ clock = 0
    /\ request = [q \in Requests |-> NewRequest]
    /\ userLock = Nobody
    /\ rowLock = [c \in Combinations |-> Nobody]
    /\ faults = 0

-----------------------------------------------------------------------------
Active == {c \in Combinations : row[c].status = "active"}

Go(q, step) == request' = [request EXCEPT ![q].pc = step]
\* commit or rollback ends the request
Finish(q) ==
    /\ Go(q, "done")
    /\ userLock' = IF userLock = q THEN Nobody ELSE userLock
    /\ rowLock' = [c \in Combinations |-> IF rowLock[c] = q THEN Nobody ELSE rowLock[c]]

Ask(q) ==
    /\ request[q].pc = "new"
    /\ \E kind \in Kinds, c \in Combinations :
          request' = [request EXCEPT ![q] =
              [pc |-> IF kind = "enable" THEN "lock" ELSE "row",
               kind |-> kind, on |-> c, at |-> 0]]
    /\ UNCHANGED <<row, events, clock, userLock, rowLock, faults>>

\* Mutant: creations are not serialized by the advisory lock
UserLockIgnored == TRUE
UserLockFree == userLock = Nobody

\* lock_user_subscription_creation; then the preset and the market are looked up
LockUser(q) ==
    /\ request[q].pc = "lock"
    /\ UserLockFree
    /\ \/ userLock' = q /\ Go(q, "row") /\ UNCHANGED rowLock
       \/ Finish(q)     \* preset or market unavailable
    /\ UNCHANGED <<row, events, clock, faults>>

\* Mutant: the subscription is read without FOR UPDATE
RowLockIgnored(c) == TRUE
RowLockFree(c) == rowLock[c] = Nobody

\* what the request changes its row to; the same row if there is nothing to do
Changed(kind, old) ==
    CASE kind = "enable" /\ old.status # "active" -> [status |-> "active", delivery |-> FALSE]
      [] kind = "disable" /\ old.status = "active" -> [status |-> "disabled", delivery |-> FALSE]
      [] kind = "deliver" /\ old.status = "active" -> [old EXCEPT !.delivery = TRUE]
      [] kind = "silence" -> [old EXCEPT !.delivery = FALSE]
      [] OTHER -> old

\* only a new subscription is counted against the limit, not a reactivated one
IsRefused(q) ==
    LET old == row[request[q].on] IN
    \/ request[q].kind = "enable" /\ old.status = "absent" /\ Cardinality(Active) >= Limit
    \/ request[q].kind # "enable" /\ old.status = "absent"
    \/ request[q].kind = "deliver" /\ old.status # "active"

\* read the row and lock it, decide, and read the clock for what will be written
LockRow(q) ==
    LET c == request[q].on
        new == Changed(request[q].kind, row[c]) IN
    /\ request[q].pc = "row"
    /\ RowLockFree(c)
    /\ IF IsRefused(q) \/ new = row[c]
       THEN Finish(q) /\ UNCHANGED clock
       ELSE \/ /\ clock' = clock + 1
               /\ request' = [request EXCEPT ![q].pc = "commit", ![q].at = clock']
               /\ rowLock' = IF row[c].status = "absent" THEN rowLock
                             ELSE [rowLock EXCEPT ![c] = q]
               /\ UNCHANGED userLock
            \/ /\ request[q].kind = "deliver"      \* Telegram is not connected
               /\ Finish(q) /\ UNCHANGED clock
    /\ UNCHANGED <<row, events, faults>>

\* the row and its event in one transaction
Commit(q) ==
    LET c == request[q].on
        new == Changed(request[q].kind, row[c]) IN
    /\ request[q].pc = "commit"
    /\ row' = [row EXCEPT ![c] = new]
    /\ events' = [events EXCEPT ![c] = @ \union {Event(request[q].at, new)}]
    /\ Finish(q)
    /\ UNCHANGED <<clock, faults>>

Fails(q) ==
    /\ faults < MaxFaults
    /\ faults' = faults + 1
    /\ request[q].pc \in {"lock", "row", "commit"}
    /\ Finish(q)
    /\ UNCHANGED <<row, events, clock>>

Step(q) == LockUser(q) \/ LockRow(q) \/ Commit(q)
Next == \E q \in Requests : Ask(q) \/ Step(q) \/ Fails(q)

Spec == Init /\ [][Next]_vars

-----------------------------------------------------------------------------
(* Properties *)

\* The event with the latest time says what the row says, however requests on
\* it overlap: the dispatcher, which goes by these times, sees the order in which
\* the changes took effect.
EventsTellTheRow ==
    \A c \in Combinations :
        /\ events[c] = {} <=> row[c].status = "absent"
        /\ \A e \in events[c] :
              (\A other \in events[c] : other.at <= e.at) =>
                  row[c] = [status |-> e.status, delivery |-> e.delivery]

\* Messages are never on for a subscription that is not.
DeliveryNeedsActive == \A c \in Combinations : row[c].delivery => row[c].status = "active"

\* A subscription is created only below the limit, whatever else the user
\* creates or reactivates at the same time.
CreatedBelowLimit ==
    [][\A c \in Combinations : row[c].status = "absent" /\ row'[c].status # "absent" =>
          Cardinality(Active) < Limit]_vars

\* What always holds of the rows and their events, taken together.
SubscriptionsAreSound == TypeOK /\ EventsTellTheRow /\ DeliveryNeedsActive

=============================================================================
