------------------------- MODULE NotificationOutbox -------------------------
(***************************************************************************)
(* The notification outbox (db/repositories/notification_outbox.py) and    *)
(* the worker processes that drain it (notifications/worker.py): claim a   *)
(* batch in one transaction, then for each claimed copy check the          *)
(* destination in a second transaction, call Telegram with no lock held,   *)
(* and record the outcome in a third.                                      *)
(*                                                                         *)
(* One action is one database transaction or one provider call.  Time is   *)
(* abstracted to the two comparisons the code makes: `due` stands for      *)
(* available_at <= now, `stale` for locked_at < now - STALE_PROCESSING_AFTER.*)
(* Both only ever become true by the passage of time (TimePasses).         *)
(***************************************************************************)
EXTENDS Integers, FiniteSets

CONSTANTS
    Jobs,          \* logical notifications, one per (user, idempotency key)
    Workers,       \* worker processes, each with its own uuid worker_id
    Users,
    Owner,         \* the user of a job
    Kind,          \* the kind of a job
    Malformed,     \* preset jobs whose payload or references do not validate
    Configured,    \* workers started with a TELEGRAM_BOT_TOKEN
    MaxAttempts,   \* notification_outbox.max_attempts
    ClaimLimit,    \* rows a claim takes at most
    MaxFaults,     \* bound on crashes, exits and database errors
    MaxEdits,      \* bound on changes made by users and by signal corrections
    NoWorker, NoJob

Kinds == {"telegram_test", "telegram_price_alert", "telegram_preset_signal"}
PresetJobs == {j \in Jobs : Kind[j] = "telegram_preset_signal"}

ASSUME OutboxAssumption ==
    /\ Owner \in [Jobs -> Users]
    /\ Kind \in [Jobs -> Kinds]
    /\ Malformed \subseteq PresetJobs
    /\ Configured \subseteq Workers
    /\ MaxAttempts \in Nat \ {0}
    /\ ClaimLimit \in Nat \ {0}
    /\ MaxFaults \in Nat
    /\ MaxEdits \in Nat
    /\ NoWorker \notin Workers
    /\ NoJob \notin Jobs

VARIABLES
    row,       \* the notification_outbox table
    pc,        \* where each worker is in its loop
    claimed,   \* claimed[w][j]: attempt_count of the copy w holds, 0 if none
    current,   \* the copy w is delivering
    answer,    \* the TelegramDeliveryOutcome w has not recorded yet
    conn,      \* telegram_connections.status of each user
    consent,   \* what the subscription and event of a preset job now say
    accepts,   \* provider side: how often Telegram accepted a job's message
    faults, edits

vars == <<row, pc, claimed, current, answer, conn, consent, accepts, faults, edits>>
workerVars == <<pc, claimed, current, answer>>

-----------------------------------------------------------------------------
Statuses == {"absent", "pending", "processing", "retry_wait", "sent", "failed"}
Outcomes == {"SENT", "RATE_LIMITED", "TEMPORARY_FAILURE", "PERMANENT_FAILURE",
             "NOT_CONFIGURED", "UNCERTAIN"}
ConsentProblems == {"signal_subscription_inactive",
                    "signal_delivery_preference_disabled",
                    "signal_event_invalidated"}
Codes == ConsentProblems \union
         {"none", "notification_payload_invalid", "telegram_not_configured",
          "telegram_connection_unavailable", "telegram_destination_unavailable",
          "telegram_rate_limited", "telegram_temporary_failure",
          "telegram_delivery_outcome_unknown"}
ConnStatuses == {"connected", "degraded", "disconnected"}
Places == {"down", "recovering", "claiming", "idle", "deliver", "send", "record"}

Row == [status   : Statuses,
        attempts : 0..MaxAttempts,
        lockedBy : Workers \union {NoWorker},
        stale    : BOOLEAN,
        due      : BOOLEAN,
        code     : Codes]

NoRow == [status |-> "absent", attempts |-> 0, lockedBy |-> NoWorker,
          stale |-> FALSE, due |-> FALSE, code |-> "none"]

TypeOK ==
    /\ row \in [Jobs -> Row]
    /\ pc \in [Workers -> Places]
    /\ claimed \in [Workers -> [Jobs -> 0..MaxAttempts]]
    /\ current \in [Workers -> Jobs \union {NoJob}]
    /\ answer \in [Workers -> Outcomes \union {"none"}]
    /\ conn \in [Users -> ConnStatuses]
    /\ consent \in [PresetJobs -> ConsentProblems \union {"none"}]
    /\ accepts \in [Jobs -> Nat]
    /\ faults \in 0..MaxFaults
    /\ edits \in 0..MaxEdits

Settled(j) == row[j].status \in {"sent", "failed"}
Waiting(j) == row[j].status \in {"pending", "retry_wait"}

Init ==
    /\ row = [j \in Jobs |-> NoRow]
    /\ pc = [w \in Workers |-> "down"]
    /\ claimed = [w \in Workers |-> [j \in Jobs |-> 0]]
    /\ current = [w \in Workers |-> NoJob]
    /\ answer = [w \in Workers |-> "none"]
    /\ conn = [u \in Users |-> "connected"]
    /\ consent = [j \in PresetJobs |-> "none"]
    /\ accepts = [j \in Jobs |-> 0]
    /\ faults = 0
    /\ edits = 0

-----------------------------------------------------------------------------
(***************************************************************************)
(* The row transitions of the repository.  Each guarded UPDATE matches only *)
(* a row whose status is 'processing' and leaves any other row alone.       *)
(***************************************************************************)
Unlocked(r) == [r EXCEPT !.lockedBy = NoWorker, !.stale = FALSE]

Claimed(r, w) == [r EXCEPT !.status = "processing", !.lockedBy = w,
                           !.stale = FALSE, !.attempts = @ + 1]

\* Mutant: the UPDATE loses its WHERE status = 'processing'.
MarkSentUnguarded(r) == [Unlocked(r) EXCEPT !.status = "sent", !.code = "none"]

MarkSent(r) ==
    IF r.status = "processing"
    THEN [Unlocked(r) EXCEPT !.status = "sent", !.code = "none"]
    ELSE r

MarkRetryWait(r, code) ==
    IF r.status = "processing"
    THEN [Unlocked(r) EXCEPT !.status = "retry_wait", !.due = FALSE, !.code = code]
    ELSE r

MarkFailed(r, code) ==
    IF r.status = "processing"
    THEN [Unlocked(r) EXCEPT !.status = "failed", !.code = code]
    ELSE r

\* Mutant: a stale claim is put back in the queue, as the signal dispatcher does.
RecoveredRequeued(r) ==
    IF r.status = "processing" /\ r.stale
    THEN [Unlocked(r) EXCEPT !.status = "pending", !.code = "none"]
    ELSE r

\* Mutant: a stale claim is reported as an ordinary temporary failure.
RecoveredAsFailure(r) ==
    IF r.stale THEN MarkFailed(r, "telegram_temporary_failure") ELSE r

\* Mutant: recovery compares locked_at the wrong way round.
RecoveredFresh(r) ==
    IF r.stale THEN r ELSE MarkFailed(r, "telegram_delivery_outcome_unknown")

\* recover_stale_processing_notifications on one row.
Recovered(r) ==
    IF r.stale THEN MarkFailed(r, "telegram_delivery_outcome_unknown") ELSE r

-----------------------------------------------------------------------------
(***************************************************************************)
(* Producers and environment.                                              *)
(***************************************************************************)

\* A producer commits the row of j: create_test_notification,
\* create_price_alert_notification, create_preset_signal_notification.  A
\* replay of the same key finds the row and changes nothing.  An alert that
\* triggers does not look at the connection, the other two producers do.
Enqueue(j) ==
    /\ row[j].status = "absent"
    /\ Kind[j] = "telegram_price_alert" \/ conn[Owner[j]] = "connected"
    /\ row' = [row EXCEPT ![j] = [NoRow EXCEPT !.status = "pending", !.due = TRUE]]
    /\ UNCHANGED <<workerVars, conn, consent, accepts, faults, edits>>

\* The user disconnects, or links the same Telegram account again; only a
\* disconnected connection can be reactivated.
Disconnect(u) ==
    /\ edits < MaxEdits
    /\ conn[u] # "disconnected"
    /\ conn' = [conn EXCEPT ![u] = "disconnected"]
    /\ edits' = edits + 1
    /\ UNCHANGED <<row, workerVars, consent, accepts, faults>>

Reactivate(u) ==
    /\ edits < MaxEdits
    /\ conn[u] = "disconnected"
    /\ conn' = [conn EXCEPT ![u] = "connected"]
    /\ edits' = edits + 1
    /\ UNCHANGED <<row, workerVars, consent, accepts, faults>>

\* The subscription or the preference of a preset job is switched, or its event
\* is invalidated; an invalidation is never taken back.
ChangeConsent(j) ==
    /\ edits < MaxEdits
    /\ consent[j] # "signal_event_invalidated"
    /\ \E c \in ConsentProblems \union {"none"} :
          consent' = [consent EXCEPT ![j] = c]
    /\ edits' = edits + 1
    /\ UNCHANGED <<row, workerVars, conn, accepts, faults>>

LockAges(j) ==
    /\ row[j].status = "processing"
    /\ ~row[j].stale
    /\ row' = [row EXCEPT ![j] = [@ EXCEPT !.stale = TRUE]]
    /\ UNCHANGED <<workerVars, conn, consent, accepts, faults, edits>>

BecomesDue(j) ==
    /\ row[j].status = "retry_wait"
    /\ ~row[j].due
    /\ row' = [row EXCEPT ![j] = [@ EXCEPT !.due = TRUE]]
    /\ UNCHANGED <<workerVars, conn, consent, accepts, faults, edits>>

TimePasses == \E j \in Jobs : LockAges(j) \/ BecomesDue(j)

-----------------------------------------------------------------------------
(***************************************************************************)
(* The worker loop.                                                        *)
(***************************************************************************)
Start(w) ==
    /\ pc[w] = "down"
    /\ pc' = [pc EXCEPT ![w] = "recovering"]
    /\ UNCHANGED <<row, claimed, current, answer, conn, consent, accepts, faults, edits>>

\* Ten minutes after the last recovery the loop runs the next one before it
\* claims again.
RecoveryDue(w) ==
    /\ pc[w] = "idle"
    /\ pc' = [pc EXCEPT ![w] = "recovering"]
    /\ UNCHANGED <<row, claimed, current, answer, conn, consent, accepts, faults, edits>>

RecoverStale(w) ==
    /\ pc[w] = "recovering"
    /\ row' = [j \in Jobs |-> Recovered(row[j])]
    /\ pc' = [pc EXCEPT ![w] = "claiming"]
    /\ UNCHANGED <<claimed, current, answer, conn, consent, accepts, faults, edits>>

\* A SQLAlchemyError in the recovery transaction is logged and swallowed.
RecoverStaleFails(w) ==
    /\ faults < MaxFaults
    /\ pc[w] = "recovering"
    /\ pc' = [pc EXCEPT ![w] = "claiming"]
    /\ faults' = faults + 1
    /\ UNCHANGED <<row, claimed, current, answer, conn, consent, accepts, edits>>

ClaimableJobs == {j \in Jobs : Waiting(j) /\ row[j].due}

\* The rows one claim takes: as many as there are, ClaimLimit at most.
ClaimBatch(S) ==
    /\ S # {}
    /\ S \subseteq ClaimableJobs
    /\ Cardinality(S) = IF Cardinality(ClaimableJobs) < ClaimLimit
                        THEN Cardinality(ClaimableJobs) ELSE ClaimLimit

\* The table's CHECK (attempt_count <= max_attempts): one exhausted row in the
\* batch would roll back the whole claim, every time.
ClaimCommits(S) == \A j \in S : row[j].attempts < MaxAttempts

ClaimRows(S, w) == [j \in Jobs |-> IF j \in S THEN Claimed(row[j], w) ELSE row[j]]

Claim(w) ==
    /\ pc[w] \in {"idle", "claiming"}
    /\ \E S \in SUBSET Jobs :
          /\ ClaimBatch(S)
          /\ ClaimCommits(S)
          /\ row' = ClaimRows(S, w)
          /\ claimed' = [claimed EXCEPT ![w] =
                            [j \in Jobs |-> IF j \in S THEN row[j].attempts + 1 ELSE 0]]
    /\ pc' = [pc EXCEPT ![w] = "deliver"]
    /\ UNCHANGED <<current, answer, conn, consent, accepts, faults, edits>>

\* Nothing is due, or the claim was rolled back: the worker sleeps.
ClaimNothing(w) ==
    /\ pc[w] = "claiming"
    /\ \/ ClaimableJobs = {}
       \/ \E S \in SUBSET Jobs : ClaimBatch(S) /\ ~ClaimCommits(S)
    /\ pc' = [pc EXCEPT ![w] = "idle"]
    /\ UNCHANGED <<row, claimed, current, answer, conn, consent, accepts, faults, edits>>

\* The claim commits but its acknowledgement is lost: the worker sees an error
\* and holds nothing, the rows stay in 'processing'.
ClaimAcknowledgementLost(w) ==
    /\ faults < MaxFaults
    /\ pc[w] \in {"idle", "claiming"}
    /\ \E S \in SUBSET Jobs :
          ClaimBatch(S) /\ ClaimCommits(S) /\ row' = ClaimRows(S, w)
    /\ pc' = [pc EXCEPT ![w] = "idle"]
    /\ faults' = faults + 1
    /\ UNCHANGED <<claimed, current, answer, conn, consent, accepts, edits>>

-----------------------------------------------------------------------------
\* The batch goes on after j, or the loop goes round when j was the last copy.
Finish(w, j) ==
    /\ claimed' = [claimed EXCEPT ![w][j] = 0]
    /\ current' = [current EXCEPT ![w] = NoJob]
    /\ answer' = [answer EXCEPT ![w] = "none"]
    /\ pc' = [pc EXCEPT ![w] = IF \E k \in Jobs \ {j} : claimed[w][k] > 0
                               THEN "deliver" ELSE "idle"]

Delivering(w, j) == pc[w] = "deliver" /\ claimed[w][j] > 0

\* _fail_before_provider: the payload does not parse, or there is no bot token.
FailBeforeProvider(w, j) ==
    /\ Delivering(w, j)
    /\ \/ /\ j \in Malformed
          /\ row' = [row EXCEPT ![j] = MarkFailed(@, "notification_payload_invalid")]
       \/ /\ j \notin Malformed
          /\ w \notin Configured
          /\ row' = [row EXCEPT ![j] = MarkFailed(@, "telegram_not_configured")]
    /\ Finish(w, j)
    /\ UNCHANGED <<conn, consent, accepts, faults, edits>>

ReadyToSend(w, j) ==
    /\ current' = [current EXCEPT ![w] = j]
    /\ pc' = [pc EXCEPT ![w] = "send"]
    /\ UNCHANGED <<row, claimed, answer>>

\* _deliver for a test or a price-alert job: only the connection is read, the
\* row itself is not looked at again.
CheckDestination(w, j) ==
    /\ Delivering(w, j)
    /\ j \notin PresetJobs
    /\ w \in Configured
    /\ \/ /\ conn[Owner[j]] = "connected"
          /\ ReadyToSend(w, j)
       \/ /\ conn[Owner[j]] # "connected"
          /\ row' = [row EXCEPT ![j] = MarkFailed(@, "telegram_connection_unavailable")]
          /\ Finish(w, j)
    /\ UNCHANGED <<conn, consent, accepts, faults, edits>>

\* What the recheck of a preset job finds wrong, in the order it looks.
PresetProblem(j) ==
    IF consent[j] # "none" THEN consent[j]
    ELSE IF conn[Owner[j]] # "connected" THEN "telegram_connection_unavailable"
    ELSE "none"

OwnsRow(w, j) == row[j].status = "processing" /\ row[j].lockedBy = w

\* _prepare_preset_signal_delivery: with the row locked, drop a copy this worker
\* no longer owns, fail one that may not be sent, let the others go to Telegram.
PreparePreset(w, j) ==
    /\ Delivering(w, j)
    /\ j \in PresetJobs \ Malformed
    /\ w \in Configured
    /\ \/ /\ ~OwnsRow(w, j)
          /\ row' = row
          /\ Finish(w, j)
       \/ /\ OwnsRow(w, j)
          /\ PresetProblem(j) # "none"
          /\ row' = [row EXCEPT ![j] = MarkFailed(@, PresetProblem(j))]
          /\ Finish(w, j)
       \/ /\ OwnsRow(w, j)
          /\ PresetProblem(j) = "none"
          /\ ReadyToSend(w, j)
    /\ UNCHANGED <<conn, consent, accepts, faults, edits>>

\* Telegram accepted the message in this request, or may have when the outcome
\* is unknown.  A rate limit, a rejection and an HTTP 5xx are refusals.
Delivered(j, accepted) ==
    accepts' = [accepts EXCEPT ![j] = IF accepted THEN @ + 1 ELSE @]

PossiblyAccepted(outcome) ==
    CASE outcome = "SENT" -> {TRUE}
      [] outcome = "UNCERTAIN" -> {TRUE, FALSE}
      [] OTHER -> {FALSE}

Send(w) ==
    /\ pc[w] = "send"
    /\ \E outcome \in Outcomes : \E accepted \in PossiblyAccepted(outcome) :
          /\ answer' = [answer EXCEPT ![w] = outcome]
          /\ Delivered(current[w], accepted)
    /\ pc' = [pc EXCEPT ![w] = "record"]
    /\ UNCHANGED <<row, claimed, current, conn, consent, faults, edits>>

\* attempt_count < max_attempts, read from the claimed copy.
MayRetry(w, j) == claimed[w][j] < MaxAttempts

\* Mutant: an unknown outcome is retried like a temporary failure.
OutcomeRowRetryingUncertain(w, j) ==
    IF answer[w] = "SENT" THEN MarkSent(row[j])
    ELSE IF answer[w] = "PERMANENT_FAILURE"
         THEN MarkFailed(row[j], "telegram_destination_unavailable")
    ELSE IF MayRetry(w, j) THEN MarkRetryWait(row[j], "telegram_temporary_failure")
    ELSE MarkFailed(row[j], "telegram_delivery_outcome_unknown")

\* The row as _record_delivery leaves it.
OutcomeRow(w, j) ==
    CASE answer[w] = "SENT" -> MarkSent(row[j])
      [] answer[w] = "RATE_LIMITED" /\ MayRetry(w, j) ->
            MarkRetryWait(row[j], "telegram_rate_limited")
      [] answer[w] = "TEMPORARY_FAILURE" /\ MayRetry(w, j) ->
            MarkRetryWait(row[j], "telegram_temporary_failure")
      [] answer[w] = "PERMANENT_FAILURE" ->
            MarkFailed(row[j], "telegram_destination_unavailable")
      [] answer[w] = "NOT_CONFIGURED" -> MarkFailed(row[j], "telegram_not_configured")
      [] answer[w] = "UNCERTAIN" ->
            MarkFailed(row[j], "telegram_delivery_outcome_unknown")
      [] OTHER -> MarkFailed(row[j], "telegram_temporary_failure")

\* Mutant: the connection is degraded even when the row was not updated.
DegradesAlways(w, j) == answer[w] = "PERMANENT_FAILURE"

\* mark_telegram_connection_degraded runs in the same transaction, only if the
\* row was still in 'processing'; it does not look at the connection's status.
Degrades(w, j) == answer[w] = "PERMANENT_FAILURE" /\ row[j].status = "processing"

RecordDelivery(w) ==
    /\ pc[w] = "record"
    /\ LET j == current[w]
       IN  /\ row' = [row EXCEPT ![j] = OutcomeRow(w, j)]
           /\ conn' = IF Degrades(w, j)
                      THEN [conn EXCEPT ![Owner[j]] = "degraded"] ELSE conn
           /\ Finish(w, j)
    /\ UNCHANGED <<consent, accepts, faults, edits>>

-----------------------------------------------------------------------------
(***************************************************************************)
(* Faults.                                                                 *)
(***************************************************************************)

\* A process that dies in the middle of the provider call may have been
\* accepted; elsewhere nothing reaches the provider.
LostCall(w) ==
    \/ UNCHANGED accepts
    \/ pc[w] = "send" /\ Delivered(current[w], TRUE)

\* An exception in _deliver is logged; the row is left as it is and the batch
\* goes on with the next copy.
DeliveryError(w) ==
    /\ faults < MaxFaults
    /\ \E j \in Jobs :
          /\ claimed[w][j] > 0
          /\ pc[w] \in {"deliver", "send", "record"}
          /\ current[w] \in {j, NoJob}
          /\ Finish(w, j)
    /\ LostCall(w)
    /\ faults' = faults + 1
    /\ UNCHANGED <<row, conn, consent, edits>>

\* The process is killed anywhere, or a requested shutdown stops it between two
\* deliveries; either way the copies it had claimed are forgotten.
Crash(w) ==
    /\ faults < MaxFaults
    /\ pc[w] # "down"
    /\ LostCall(w)
    /\ pc' = [pc EXCEPT ![w] = "down"]
    /\ claimed' = [claimed EXCEPT ![w] = [j \in Jobs |-> 0]]
    /\ current' = [current EXCEPT ![w] = NoJob]
    /\ answer' = [answer EXCEPT ![w] = "none"]
    /\ faults' = faults + 1
    /\ UNCHANGED <<row, conn, consent, edits>>

-----------------------------------------------------------------------------
WorkerStep(w) ==
    \/ Start(w)
    \/ RecoverStale(w)
    \/ Claim(w)
    \/ ClaimNothing(w)
    \/ \E j \in Jobs : FailBeforeProvider(w, j) \/ CheckDestination(w, j)
                       \/ PreparePreset(w, j)
    \/ Send(w)
    \/ RecordDelivery(w)

Environment ==
    \/ \E j \in Jobs : Enqueue(j)
    \/ \E u \in Users : Disconnect(u) \/ Reactivate(u)
    \/ \E j \in PresetJobs : ChangeConsent(j)

Fault == \E w \in Workers : RecoverStaleFails(w) \/ ClaimAcknowledgementLost(w)
                            \/ DeliveryError(w) \/ Crash(w)

Next ==
    \/ Environment
    \/ TimePasses
    \/ \E w \in Workers : WorkerStep(w) \/ RecoveryDue(w)
    \/ Fault

Spec == Init /\ [][Next]_vars

\* Clocks advance; a worker process is restarted when it is down and keeps
\* running its loop; between two batches its ten-minute recovery timer fires
\* again and again.
Fairness ==
    /\ \A j \in Jobs : WF_vars(LockAges(j)) /\ WF_vars(BecomesDue(j))
    /\ \A w \in Workers : WF_vars(WorkerStep(w)) /\ SF_vars(RecoveryDue(w))

FairSpec == Spec /\ Fairness

-----------------------------------------------------------------------------
(***************************************************************************)
(* Properties.                                                             *)
(***************************************************************************)

\* However workers, crashes, stale recovery and retries interleave, Telegram
\* accepts the message of a job at most once.
AcceptedAtMostOnce == \A j \in Jobs : accepts[j] <= 1

\* What the row reports is what happened: 'sent' means Telegram accepted the
\* message, and a failure other than the outcome-unknown one, like a row that is
\* still waiting, means that it did not.
ReportIsTrue ==
    \A j \in Jobs :
        /\ row[j].status = "sent" => accepts[j] = 1
        /\ row[j].status \in {"absent", "pending", "retry_wait"} => accepts[j] = 0
        /\ row[j].status = "failed"
              /\ row[j].code # "telegram_delivery_outcome_unknown" => accepts[j] = 0

\* A row that waits to be claimed has an attempt left, so the CHECK on
\* attempt_count can never abort the claim of the rows that share its batch.
WaitingHasAttemptLeft ==
    \A j \in Jobs : Waiting(j) => row[j].attempts < MaxAttempts

\* A connection is marked degraded only on the strength of a delivery whose row
\* says that Telegram refused the destination, never by a late answer.
DegradedByRejection ==
    \A u \in Users : conn[u] = "degraded" =>
        \E j \in Jobs : /\ Owner[j] = u
                        /\ row[j].status = "failed"
                        /\ row[j].code = "telegram_destination_unavailable"

\* A row that was reported sent or failed is never changed again, whatever
\* answers and recoveries still arrive.
SettledIsFinal == [][\A j \in Jobs : Settled(j) => row'[j] = row[j]]_vars

\* Every queued job is eventually reported sent or failed, although workers
\* crash with rows claimed and the database drops transactions.
EveryJobSettles == \A j \in Jobs : []<>(row[j].status = "absent" \/ Settled(j))

-----------------------------------------------------------------------------
(***************************************************************************)
(* The inductive invariant behind the properties above.                    *)
(***************************************************************************)

Holds(w, j) == claimed[w][j] > 0

InFlight(w, j) == pc[w] \in {"send", "record"} /\ current[w] = j

\* A worker that is between a check and the record of its outcome is at work on
\* one of the copies it holds, and it holds copies only while it delivers.
WorkerInv ==
    \A w \in Workers :
        /\ pc[w] \in {"send", "record"} => current[w] \in Jobs /\ Holds(w, current[w])
        /\ pc[w] \notin {"send", "record"} => current[w] = NoJob
        /\ pc[w] = "record" => answer[w] \in Outcomes
        /\ \A j \in Jobs : Holds(w, j) => pc[w] \in {"deliver", "send", "record"}

\* A copy a worker holds is the current state of the row, locked by that worker,
\* unless stale recovery has meanwhile closed the row as outcome-unknown.
CopyInv ==
    \A w \in Workers, j \in Jobs : Holds(w, j) =>
        \/ OwnsRow(w, j) /\ row[j].attempts = claimed[w][j]
        \/ row[j].status = "failed" /\ row[j].code = "telegram_delivery_outcome_unknown"

\* No two workers hold a copy of the same row.
HolderInv ==
    \A v, w \in Workers, j \in Jobs : Holds(v, j) /\ Holds(w, j) => v = w

\* Telegram has accepted nothing of a copy whose request is still to come, and
\* an answer waiting to be recorded agrees with what Telegram did.
AnswerInv ==
    \A w \in Workers, j \in Jobs : Holds(w, j) =>
        /\ ~(pc[w] = "record" /\ current[w] = j) => accepts[j] = 0
        /\ pc[w] = "record" /\ current[w] = j =>
              /\ answer[w] = "SENT" => accepts[j] = 1
              /\ answer[w] \notin {"SENT", "UNCERTAIN"} => accepts[j] = 0

\* A holder of a row, a truthful report and an attempt left when waiting: true
\* of every reachable state and preserved by every step.
OutboxInv ==
    /\ WorkerInv
    /\ CopyInv
    /\ HolderInv
    /\ AnswerInv
    /\ AcceptedAtMostOnce
    /\ ReportIsTrue
    /\ WaitingHasAttemptLeft

-----------------------------------------------------------------------------
(***************************************************************************)
(* The outbox implements the delivery promise.                             *)
(***************************************************************************)
Report(r) ==
    CASE r.status = "absent" -> "none"
      [] r.status = "sent" -> "sent"
      [] r.status = "failed" /\ r.code = "telegram_delivery_outcome_unknown" -> "unknown"
      [] r.status = "failed" /\ r.code # "telegram_delivery_outcome_unknown" -> "failed"
      [] OTHER -> "open"

Promise == INSTANCE DeliveryPromise WITH
    report <- [j \in Jobs |-> Report(row[j])],
    accepted <- accepts

\* Every behaviour of the workers, the producers, the users and the faults is,
\* seen through the row's report, one the delivery promise allows.
ImplementsPromise == Promise!PromiseSpec

-----------------------------------------------------------------------------
(***************************************************************************)
(* What the documentation says and the code does not do.                   *)
(***************************************************************************)

\* docs/TELEGRAM.md:95: disabling the preference or the subscription,
\* disconnecting, or invalidating the occurrence before a queued preset-signal
\* send suppresses that provider request.
PresetRequestIsWanted ==
    [][\A w \in Workers : pc[w] = "send" /\ pc'[w] = "record"
                          /\ current[w] \in PresetJobs
          => PresetProblem(current[w]) = "none"]_vars

=============================================================================
