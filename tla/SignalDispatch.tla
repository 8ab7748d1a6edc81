--------------------------- MODULE SignalDispatch ---------------------------
(***************************************************************************)
(* Fan-out of a signal occurrence into per-user outbox jobs                *)
(* (notifications/signal_dispatcher.py and                                 *)
(* db/repositories/signal_telegram_dispatches.py): dispatcher processes    *)
(* claim signal_telegram_dispatches rows, then work each row off one page  *)
(* of subscriptions per transaction, under the row's lock.                 *)
(*                                                                         *)
(* Only times that are compared are kept: a small clock for effective_at,  *)
(* connected_at and occurred_at, and for a row `due` (available_at <= now) *)
(* and `stale` (locked_at < now - STALE_PROCESSING_AFTER).                 *)
(***************************************************************************)
EXTENDS Integers, Sequences, FiniteSets

CONSTANTS
    Events,        \* signal events, each with at most one dispatch row
    Dispatchers,   \* dispatcher processes, each with its own dispatcher_id
    SubCount,      \* subscriptions of the market and preset, one per user
    Backfilled,    \* events created by a historical backfill
    BatchSize,     \* subscriptions per page
    ClaimLimit,    \* rows a claim takes at most
    MaxAttempts,   \* signal_telegram_dispatches.max_attempts
    MaxAge,        \* SIGNAL_TELEGRAM_FANOUT_MAX_AGE_SECONDS, in clock ticks
    CommitLag,     \* ticks between reading the clock and committing a change
    MaxTime, MaxEdits, MaxFaults,   \* bounds on the clock, changes and faults
    NoDispatcher, NoEvent

Subs == 1..SubCount   \* subscription ids, in the order the pages follow

ASSUME DispatchAssumption ==
    /\ SubCount \in Nat
    /\ Backfilled \subseteq Events
    /\ BatchSize \in Nat \ {0}
    /\ ClaimLimit \in Nat \ {0}
    /\ MaxAttempts \in Nat \ {0}
    /\ MaxAge \in Nat
    /\ CommitLag \in Nat
    /\ MaxTime \in Nat
    /\ MaxEdits \in Nat
    /\ MaxFaults \in Nat
    /\ NoDispatcher \notin Dispatchers
    /\ NoEvent \notin Events

VARIABLES
    now,
    history,       \* committed signal_subscription_state_events, per subscription
    conn,          \* telegram_connections of the subscription's user
    occurredAt,    \* signal_events.occurred_at, -1 before the event exists
    invalidated,   \* events with a signal_event_invalidations row
    dispatch,      \* signal_telegram_dispatches
    jobs,          \* preset-signal outbox rows, as <<event, subscription>>
    entitled,      \* whom each event concerned by what was committed before it
    late,          \* <<e, s>>: a change of s in force at e was committed after e
    pc, batch, current,   \* each dispatcher: its place, its claims, the open one
    edits, faults

envVars == <<history, conn, late, edits>>
eventVars == <<occurredAt, entitled, invalidated>>
dispatcherVars == <<pc, batch, current>>
vars == <<now, envVars, eventVars, dispatch, jobs, dispatcherVars, faults>>

-----------------------------------------------------------------------------
OpenStatuses == {"pending", "processing", "retry_wait"}
Terminal == {"completed", "skipped", "failed"}
ConnStatuses == {"none", "connected", "degraded", "disconnected"}
Codes == {"none", "destination_unavailable", "claim_stale", "attempts_exhausted",
          "retry", "invalidated", "backfill", "expired"}

Dispatch == [status   : {"absent"} \union OpenStatuses \union Terminal,
             attempts : 0..MaxAttempts,
             lockedBy : Dispatchers \union {NoDispatcher},
             stale    : BOOLEAN,
             due      : BOOLEAN,
             cursor   : 0..SubCount,
             created  : Nat,
             skipped  : Nat,
             code     : Codes]

NoDispatch == [status |-> "absent", attempts |-> 0, lockedBy |-> NoDispatcher,
               stale |-> FALSE, due |-> FALSE, cursor |-> 0, created |-> 0,
               skipped |-> 0, code |-> "none"]

TypeOK ==
    /\ now \in 0..MaxTime
    /\ history \in [Subs -> Seq([at : 0..MaxTime, wanted : BOOLEAN])]
    /\ conn \in [Subs -> [status : ConnStatuses, since : 0..MaxTime]]
    /\ occurredAt \in [Events -> -1..MaxTime]
    /\ entitled \in [Events -> SUBSET Subs]
    /\ invalidated \subseteq Events
    /\ dispatch \in [Events -> Dispatch]
    /\ jobs \subseteq Events \X Subs
    /\ late \subseteq Events \X Subs
    /\ pc \in [Dispatchers -> {"down", "polling", "working", "failed"}]
    /\ batch \in [Dispatchers -> SUBSET Events]
    /\ current \in [Dispatchers -> Events \union {NoEvent}]
    /\ edits \in 0..MaxEdits
    /\ faults \in 0..MaxFaults

Exists(e) == dispatch[e].status # "absent"
Closed(e) == dispatch[e].status \in Terminal

\* Any mixture of users who asked for the signal and users who connected.
Init ==
    /\ now = 0
    /\ history \in [Subs -> {<<>>, <<[at |-> 0, wanted |-> TRUE]>>}]
    /\ conn \in [Subs -> [status : {"none", "connected"}, since : {0}]]
    /\ occurredAt = [e \in Events |-> -1]
    /\ entitled = [e \in Events |-> {}]
    /\ invalidated = {}
    /\ dispatch = [e \in Events |-> NoDispatch]
    /\ jobs = {}
    /\ late = {}
    /\ pc = [d \in Dispatchers |-> "down"]
    /\ batch = [d \in Dispatchers |-> {}]
    /\ current = [d \in Dispatchers |-> NoEvent]
    /\ edits = 0
    /\ faults = 0

-----------------------------------------------------------------------------
(***************************************************************************)
(* Users and the signal evaluator.                                         *)
(***************************************************************************)
Tick ==
    /\ now < MaxTime
    /\ now' = now + 1
    /\ UNCHANGED <<envVars, eventVars, dispatch, jobs, dispatcherVars, faults>>

\* Clock readings a transaction that commits now can have stored.
Stamps(oldest) == {t \in 0..now : t >= now - CommitLag /\ t >= oldest}

LastChange(s) == IF history[s] = <<>> THEN 0 ELSE history[s][Len(history[s])].at

\* The events that had already been created when a change of s, in force at
\* their occurrence, is committed.
LateFor(s, t) == {<<e, s>> : e \in {f \in Events : occurredAt[f] >= t}}

\* record_subscription_state_event: the state of a subscription is `wanted`
\* when it is active with Telegram delivery enabled.
ChangeState(s) ==
    /\ edits < MaxEdits
    /\ \E t \in Stamps(LastChange(s)), wanted \in BOOLEAN :
          /\ history' = [history EXCEPT ![s] = Append(@, [at |-> t, wanted |-> wanted])]
          /\ late' = late \union LateFor(s, t)
    /\ edits' = edits + 1
    /\ UNCHANGED <<now, conn, eventVars, dispatch, jobs, dispatcherVars, faults>>

\* create_telegram_connection, reactivate_telegram_connection: both stamp
\* connected_at anew.
Connect(s) ==
    /\ edits < MaxEdits
    /\ conn[s].status \in {"none", "disconnected"}
    /\ \E t \in Stamps(conn[s].since) :
          /\ conn' = [conn EXCEPT ![s] = [status |-> "connected", since |-> t]]
          /\ late' = late \union LateFor(s, t)
    /\ edits' = edits + 1
    /\ UNCHANGED <<now, history, eventVars, dispatch, jobs, dispatcherVars, faults>>

\* mark_telegram_connection_degraded and _disconnected keep connected_at.
LoseConnection(s) ==
    /\ edits < MaxEdits
    /\ \E status \in {"degraded", "disconnected"} :
          /\ conn[s].status \notin {"none", status}
          /\ conn' = [conn EXCEPT ![s].status = status]
    /\ edits' = edits + 1
    /\ UNCHANGED <<now, history, late, eventVars, dispatch, jobs, dispatcherVars, faults>>

\* The latest state of s in force at time t.
WantedAt(s, t) ==
    LET upTo == {i \in 1..Len(history[s]) : history[s][i].at <= t}
    IN  upTo # {} /\ history[s][CHOOSE i \in upTo : \A k \in upTo : k <= i].wanted

\* create_signal_event with create_signal_telegram_dispatch, one transaction; the
\* occurrence is the close of a candle that has passed.
CreateSignalEvent(e) ==
    /\ ~Exists(e)
    /\ \E t \in 0..(now - 1) :
          /\ occurredAt' = [occurredAt EXCEPT ![e] = t]
          /\ entitled' = [entitled EXCEPT ![e] =
                {s \in Subs : /\ WantedAt(s, t)
                              /\ conn[s].status = "connected"
                              /\ conn[s].since <= t}]
    /\ dispatch' = [dispatch EXCEPT ![e] =
            IF e \in Backfilled
            THEN [NoDispatch EXCEPT !.status = "skipped", !.code = "backfill"]
            ELSE [NoDispatch EXCEPT !.status = "pending", !.due = TRUE]]
    /\ UNCHANGED <<now, envVars, invalidated, jobs, dispatcherVars, faults>>

Invalidate(e) ==
    /\ Exists(e)
    /\ e \notin invalidated
    /\ edits < MaxEdits
    /\ invalidated' = invalidated \union {e}
    /\ edits' = edits + 1
    /\ UNCHANGED <<now, history, conn, late, occurredAt, entitled, dispatch, jobs,
                   dispatcherVars, faults>>

LockAges(e) ==
    /\ dispatch[e].status = "processing"
    /\ ~dispatch[e].stale
    /\ dispatch' = [dispatch EXCEPT ![e] = [@ EXCEPT !.stale = TRUE]]
    /\ UNCHANGED <<now, envVars, eventVars, jobs, dispatcherVars, faults>>

BecomesDue(e) ==
    /\ dispatch[e].status = "retry_wait"
    /\ ~dispatch[e].due
    /\ dispatch' = [dispatch EXCEPT ![e] = [@ EXCEPT !.due = TRUE]]
    /\ UNCHANGED <<now, envVars, eventVars, jobs, dispatcherVars, faults>>

-----------------------------------------------------------------------------
(***************************************************************************)
(* The row transitions.                                                    *)
(***************************************************************************)
Unlocked(r) == [r EXCEPT !.lockedBy = NoDispatcher, !.stale = FALSE]

Recovered(r) ==
    IF r.status = "processing" /\ r.stale
    THEN [Unlocked(r) EXCEPT !.status = "pending", !.due = TRUE, !.code = "claim_stale"]
    ELSE r

\* Mutant: exhausted rows are left waiting, where no claim takes them.
ExhaustedLeftWaiting(r) == r

\* fail_exhausted_signal_telegram_dispatches on one row.
Exhausted(r) ==
    IF r.status \in {"pending", "retry_wait"} /\ r.attempts >= MaxAttempts
    THEN [Unlocked(r) EXCEPT !.status = "failed", !.code = "attempts_exhausted"]
    ELSE r

Claimed(r, d) == [r EXCEPT !.status = "processing", !.lockedBy = d,
                           !.stale = FALSE, !.attempts = @ + 1]

\* _mark_terminal.
Terminated(r, status, code) == [Unlocked(r) EXCEPT !.status = status, !.code = code]

\* Mutant: a retry starts the fan-out over.
RetriedFromStart(r) ==
    IF r.attempts >= MaxAttempts THEN Terminated(r, "failed", "attempts_exhausted")
    ELSE [Unlocked(r) EXCEPT !.status = "retry_wait", !.due = FALSE,
                             !.code = "retry", !.cursor = 0]

\* _schedule_retry on a row the dispatcher still owns: the cursor is kept.
Retried(r) ==
    IF r.attempts >= MaxAttempts THEN Terminated(r, "failed", "attempts_exhausted")
    ELSE [Unlocked(r) EXCEPT !.status = "retry_wait", !.due = FALSE, !.code = "retry"]

-----------------------------------------------------------------------------
(***************************************************************************)
(* Claiming.  Recovery of stale rows, failing of exhausted rows and the    *)
(* claim are one transaction.                                              *)
(***************************************************************************)
Start(d) ==
    /\ pc[d] = "down"
    /\ pc' = [pc EXCEPT ![d] = "polling"]
    /\ UNCHANGED <<now, envVars, eventVars, dispatch, jobs, batch, current, faults>>

Swept == [e \in Events |-> Exhausted(Recovered(dispatch[e]))]

ClaimBatch(S) ==
    LET claimable == {e \in Events : /\ Swept[e].status \in {"pending", "retry_wait"}
                                     /\ Swept[e].due
                                     /\ Swept[e].attempts < MaxAttempts}
    IN  /\ S \subseteq claimable
        /\ Cardinality(S) = IF Cardinality(claimable) < ClaimLimit
                            THEN Cardinality(claimable) ELSE ClaimLimit

ClaimRows(S, d) == [e \in Events |-> IF e \in S THEN Claimed(Swept[e], d) ELSE Swept[e]]

\* _claim_and_process; an empty claim goes back to sleep.
Claim(d) ==
    /\ pc[d] = "polling"
    /\ \E S \in SUBSET Events :
          /\ ClaimBatch(S)
          /\ ClaimRows(S, d) # dispatch
          /\ dispatch' = ClaimRows(S, d)
          /\ batch' = [batch EXCEPT ![d] = S]
          /\ pc' = [pc EXCEPT ![d] = IF S = {} THEN "polling" ELSE "working"]
    /\ UNCHANGED <<now, envVars, eventVars, jobs, current, faults>>

\* The claim commits, the dispatcher sees a database error and polls again.
ClaimAcknowledgementLost(d) ==
    /\ faults < MaxFaults
    /\ pc[d] = "polling"
    /\ \E S \in SUBSET Events :
          ClaimBatch(S) /\ S # {} /\ dispatch' = ClaimRows(S, d)
    /\ faults' = faults + 1
    /\ UNCHANGED <<now, envVars, eventVars, jobs, dispatcherVars>>

-----------------------------------------------------------------------------
(***************************************************************************)
(* One page.                                                               *)
(***************************************************************************)

Owns(d, e) == dispatch[e].status = "processing" /\ dispatch[e].lockedBy = d

\* Mutant: the state is read at the time of the page, not of the occurrence.
WantedNow(e) == {s \in Subs : WantedAt(s, now)}

\* The subscriptions list_eligible_signal_subscriptions ranges over.
Eligible(e) == {s \in Subs : WantedAt(s, occurredAt[e])}

\* The first BatchSize of them after the cursor.
PageOf(e) ==
    LET after == {s \in Eligible(e) : s > dispatch[e].cursor}
    IN  {s \in after : Cardinality({r \in after : r < s}) < BatchSize}

\* _has_eligible_destination.
HasDestination(e, s) == conn[s].status = "connected" /\ conn[s].since <= occurredAt[e]

Greatest(S) == CHOOSE s \in S : \A r \in S : r <= s

\* The row after a page: `new` are the inserts that met no existing job.
FannedOut(e, page, new, skipped) ==
    [dispatch[e] EXCEPT
        !.cursor = Greatest(page),
        !.created = @ + Cardinality(new),
        !.skipped = @ + Cardinality(skipped),
        !.code = IF skipped # {} /\ @ = "none" THEN "destination_unavailable" ELSE @]

\* The dispatcher is done with e and turns to the rest of its batch.
Leave(d, e) ==
    /\ batch' = [batch EXCEPT ![d] = @ \ {e}]
    /\ current' = [current EXCEPT ![d] = NoEvent]
    /\ pc' = [pc EXCEPT ![d] = IF batch[d] = {e} THEN "polling" ELSE "working"]

AtWork(d, e) == pc[d] = "working" /\ e \in batch[d] /\ current[d] \in {e, NoEvent}

\* Another dispatcher has taken the row over, or closed it.
PageNotOwned(d, e) ==
    /\ AtWork(d, e)
    /\ ~Owns(d, e)
    /\ Leave(d, e)
    /\ UNCHANGED <<now, envVars, eventVars, dispatch, jobs, faults>>

\* Why the occurrence is not to be delivered at all, in the order of the code.
SkipReason(e) ==
    IF e \in invalidated THEN "invalidated"
    ELSE IF e \in Backfilled THEN "backfill"
    ELSE IF now > occurredAt[e] + MaxAge THEN "expired"
    ELSE "none"

PageSkips(d, e) ==
    /\ AtWork(d, e)
    /\ Owns(d, e)
    /\ SkipReason(e) # "none"
    /\ dispatch' = [dispatch EXCEPT ![e] = Terminated(@, "skipped", SkipReason(e))]
    /\ Leave(d, e)
    /\ UNCHANGED <<now, envVars, eventVars, jobs, faults>>

PageCompletes(d, e) ==
    /\ AtWork(d, e)
    /\ Owns(d, e)
    /\ SkipReason(e) = "none"
    /\ PageOf(e) = {}
    /\ dispatch' = [dispatch EXCEPT ![e] = Terminated(@, "completed", @.code)]
    /\ Leave(d, e)
    /\ UNCHANGED <<now, envVars, eventVars, jobs, faults>>

PageFansOut(d, e) ==
    /\ AtWork(d, e)
    /\ Owns(d, e)
    /\ SkipReason(e) = "none"
    /\ PageOf(e) # {}
    /\ LET page    == PageOf(e)
           reached == {s \in page : HasDestination(e, s)}
           new     == {s \in reached : <<e, s>> \notin jobs}
       IN  /\ jobs' = jobs \union {<<e, s>> : s \in reached}
           /\ dispatch' = [dispatch EXCEPT ![e] = FannedOut(e, page, new, page \ reached)]
    /\ current' = [current EXCEPT ![d] = e]
    /\ UNCHANGED <<now, envVars, eventVars, pc, batch, faults>>

Page(d, e) ==
    PageNotOwned(d, e) \/ PageSkips(d, e) \/ PageCompletes(d, e) \/ PageFansOut(d, e)

\* The page transaction is rolled back by an exception.
PageFails(d, e) ==
    /\ faults < MaxFaults
    /\ AtWork(d, e)
    /\ pc' = [pc EXCEPT ![d] = "failed"]
    /\ current' = [current EXCEPT ![d] = e]
    /\ faults' = faults + 1
    /\ UNCHANGED <<now, envVars, eventVars, dispatch, jobs, batch>>

\* _schedule_retry; it leaves a row it no longer owns alone.
ScheduleRetry(d) ==
    /\ pc[d] = "failed"
    /\ dispatch' = [dispatch EXCEPT ![current[d]] =
                       IF Owns(d, current[d]) THEN Retried(@) ELSE @]
    /\ Leave(d, current[d])
    /\ UNCHANGED <<now, envVars, eventVars, jobs, faults>>

\* Recording the retry fails as well: the row stays in 'processing'.
RetryRecordingFails(d) ==
    /\ faults < MaxFaults
    /\ pc[d] = "failed"
    /\ Leave(d, current[d])
    /\ faults' = faults + 1
    /\ UNCHANGED <<now, envVars, eventVars, dispatch, jobs>>

\* Killed anywhere, or stopped between two pages.
Crash(d) ==
    /\ faults < MaxFaults
    /\ pc[d] # "down"
    /\ pc' = [pc EXCEPT ![d] = "down"]
    /\ batch' = [batch EXCEPT ![d] = {}]
    /\ current' = [current EXCEPT ![d] = NoEvent]
    /\ faults' = faults + 1
    /\ UNCHANGED <<now, envVars, eventVars, dispatch, jobs>>

-----------------------------------------------------------------------------
DispatcherStep(d) ==
    \/ Start(d)
    \/ Claim(d)
    \/ \E e \in Events : Page(d, e)
    \/ ScheduleRetry(d)

Next ==
    \/ Tick
    \/ \E s \in Subs : ChangeState(s) \/ Connect(s) \/ LoseConnection(s)
    \/ \E e \in Events : CreateSignalEvent(e) \/ Invalidate(e)
                         \/ LockAges(e) \/ BecomesDue(e)
    \/ \E d \in Dispatchers : DispatcherStep(d) \/ ClaimAcknowledgementLost(d)
                              \/ RetryRecordingFails(d) \/ Crash(d)
    \/ \E d \in Dispatchers, e \in Events : PageFails(d, e)

Spec == Init /\ [][Next]_vars

\* Time passes for every lock and every delay, and every dispatcher keeps
\* running its loop and is restarted when it is down.
Fairness ==
    /\ \A e \in Events : WF_vars(LockAges(e)) /\ WF_vars(BecomesDue(e))
    /\ \A d \in Dispatchers : WF_vars(DispatcherStep(d))

FairSpec == Spec /\ Fairness

-----------------------------------------------------------------------------
(***************************************************************************)
(* Properties.                                                             *)
(***************************************************************************)

JobsOf(e) == {s \in Subs : <<e, s>> \in jobs}

\* The counters an operator reads are true whatever pages were retried, taken
\* over or rolled back: every job is counted once, none lies beyond the cursor,
\* and unless a change came late the two counters add up to the subscriptions
\* that wanted the signal and that the cursor has passed.
CountsAreTrue ==
    \A e \in Events :
        /\ dispatch[e].created = Cardinality(JobsOf(e))
        /\ \A s \in JobsOf(e) : s <= dispatch[e].cursor
        /\ (\A s \in Subs : <<e, s>> \notin late) =>
              dispatch[e].created + dispatch[e].skipped
                 = Cardinality({s \in Subs : /\ s <= dispatch[e].cursor
                                             /\ WantedAt(s, occurredAt[e])})

\* A completed fan-out left nobody out: everybody whom the event concerned when
\* it was created, and who has been connected ever since, has a job.
CompletedReachedAll ==
    \A e \in Events : \A s \in entitled[e] :
        /\ dispatch[e].status = "completed"
        /\ conn[s].status = "connected"
        /\ conn[s].since <= occurredAt[e]
        /\ <<e, s>> \notin late
        => <<e, s>> \in jobs

\* Nobody is sent a signal that did not concern them when it was created: later
\* wishes and later connections count for nothing, except those that claim a
\* time before the occurrence.
JobsWereEntitled ==
    \A e \in Events : \A s \in JobsOf(e) :
        <<e, s>> \in late \/ s \in entitled[e]

\* Exactly those whom the occurrence concerned are sent the signal.
JobsAreExact == TypeOK /\ CompletedReachedAll /\ JobsWereEntitled

\* A closed dispatch is never reopened, and gets no further job.
ClosedIsFinal ==
    [][\A e \in Events : Closed(e) =>
          dispatch'[e] = dispatch[e] /\ JobsOf(e)' = JobsOf(e)]_vars

Outcome(e) ==
    IF ~Exists(e) THEN "none"
    ELSE IF ~Closed(e) THEN "open"
    ELSE IF dispatch[e].status = "completed" THEN "completed"
    ELSE "dropped"

\* What the rows and jobs mean to the users.
Outcomes == [e \in Events |-> Outcome(e)]
Told == [e \in Events |-> JobsOf(e)]
Unreachable == [e \in Events |-> {s \in Subs : Exists(e) /\ ~HasDestination(e, s)}]
Disputed == [e \in Events |-> {s \in Subs : <<e, s>> \in late}]

Promise == INSTANCE FanOut WITH
    outcome <- Outcomes, concerned <- entitled, told <- Told,
    unreachable <- Unreachable, disputed <- Disputed

\* The rows, pages, retries and take-overs implement the fan-out as a user sees it:
\* every step does what FanOut allows, or nothing a user could notice.
ImplementsFanOut == Promise!FanOutSpec

\* Every fan-out keeps its promise and ends, whatever crashes, failed pages and failed
\* retries leave behind, and stays ended.
EveryDispatchCloses ==
    /\ ImplementsFanOut
    /\ ClosedIsFinal
    /\ \A e \in Events : []<>(Exists(e) => Closed(e))

=============================================================================
