---------------------- MODULE NotificationOutbox_proofs ----------------------
(***************************************************************************)
(* Proofs about NotificationOutbox, for every number of jobs, users and    *)
(* workers and every value of the bounds.                                  *)
(***************************************************************************)
EXTENDS NotificationOutbox, TLAPS

LEMMA BoundTypes ==
    /\ MaxAttempts \in Nat /\ MaxAttempts > 0
    /\ MaxFaults \in Nat
    /\ MaxEdits \in Nat
BY OutboxAssumption DEF OutboxAssumption

LEMMA ConstantTypes ==
    /\ Owner \in [Jobs -> Users]
    /\ NoWorker \notin Workers
    /\ NoJob \notin Jobs
    /\ PresetJobs \subseteq Jobs
BY OutboxAssumption DEF OutboxAssumption, PresetJobs

-----------------------------------------------------------------------------
(***************************************************************************)
(* Each row transition yields a row.                                       *)
(***************************************************************************)

LEMMA RowTransitionTypes ==
    ASSUME NEW r \in Row, NEW code \in Codes
    PROVE  /\ MarkSent(r) \in Row
           /\ MarkRetryWait(r, code) \in Row
           /\ MarkFailed(r, code) \in Row
           /\ Recovered(r) \in Row
<1>1. "telegram_delivery_outcome_unknown" \in Codes /\ "none" \in Codes
      BY DEF Codes
<1>2. \A c \in Codes : MarkFailed(r, c) \in Row
      BY DEF MarkFailed, Unlocked, Row, Statuses
<1>3. MarkSent(r) \in Row
      BY <1>1 DEF MarkSent, Unlocked, Row, Statuses
<1>4. MarkRetryWait(r, code) \in Row
      BY DEF MarkRetryWait, Unlocked, Row, Statuses
<1>5. Recovered(r) \in Row
      BY <1>1, <1>2 DEF Recovered
<1>6. QED
      BY <1>2, <1>3, <1>4, <1>5

LEMMA ClaimedType ==
    ASSUME NEW r \in Row, NEW w \in Workers, r.attempts < MaxAttempts
    PROVE  Claimed(r, w) \in Row
<1> DEFINE locked == [r EXCEPT !.status = "processing", !.lockedBy = w, !.stale = FALSE]
<1>1. locked \in Row /\ locked.attempts = r.attempts
      BY DEF Row, Statuses
<1>2. Claimed(r, w) = [locked EXCEPT !.attempts = r.attempts + 1]
      BY DEF Claimed
<1>3. r.attempts + 1 \in 0..MaxAttempts
      BY BoundTypes DEF Row
<1> HIDE DEF locked
<1>4. QED
      BY <1>1, <1>2, <1>3 DEF Row

LEMMA QueuedType ==
    [NoRow EXCEPT !.status = "pending", !.due = TRUE] \in Row
<1>1. "none" \in Codes /\ 0 \in 0..MaxAttempts
      BY BoundTypes DEF Codes
<1>2. NoRow \in Row
      BY <1>1 DEF NoRow, Row, Statuses
<1>3. ASSUME NEW r \in Row
      PROVE  [r EXCEPT !.status = "pending", !.due = TRUE] \in Row
      BY DEF Row, Statuses
<1>4. QED
      BY <1>2, <1>3

LEMMA TimeTypes ==
    ASSUME NEW r \in Row
    PROVE  /\ [r EXCEPT !.stale = TRUE] \in Row
           /\ [r EXCEPT !.due = TRUE] \in Row
BY DEF Row

LEMMA OutcomeRowType ==
    ASSUME TypeOK, NEW w \in Workers, NEW j \in Jobs
    PROVE  OutcomeRow(w, j) \in Row
<1>1. row[j] \in Row
      BY DEF TypeOK
<1>2. /\ "telegram_rate_limited" \in Codes
      /\ "telegram_temporary_failure" \in Codes
      /\ "telegram_destination_unavailable" \in Codes
      /\ "telegram_not_configured" \in Codes
      /\ "telegram_delivery_outcome_unknown" \in Codes
      BY DEF Codes
<1>3. QED
      BY <1>1, <1>2, RowTransitionTypes DEF OutcomeRow

LEMMA FinishTypes ==
    ASSUME TypeOK, NEW w \in Workers, NEW j \in Jobs, Finish(w, j)
    PROVE  /\ pc' \in [Workers -> Places]
           /\ claimed' \in [Workers -> [Jobs -> 0..MaxAttempts]]
           /\ current' \in [Workers -> Jobs \union {NoJob}]
           /\ answer' \in [Workers -> Outcomes \union {"none"}]
BY BoundTypes DEF Finish, TypeOK, Places

LEMMA ClaimRowsType ==
    ASSUME TypeOK, NEW w \in Workers, NEW S \in SUBSET Jobs, ClaimCommits(S)
    PROVE  ClaimRows(S, w) \in [Jobs -> Row]
BY ClaimedType DEF ClaimRows, ClaimCommits, TypeOK

LEMMA DeliveredType ==
    ASSUME TypeOK, NEW j, NEW accepted \in BOOLEAN, Delivered(j, accepted)
    PROVE  accepts' \in [Jobs -> Nat]
<1>1. accepts \in [Jobs -> Nat]
      BY DEF TypeOK
<1>2. CASE accepted
      <2>1. accepts' = [accepts EXCEPT ![j] = accepts[j] + 1]
            BY <1>2 DEF Delivered
      <2>2. CASE j \in Jobs
            <3>1. accepts[j] + 1 \in Nat
                  BY <1>1, <2>2
            <3>2. QED
                  BY <1>1, <2>1, <3>1
      <2>3. CASE j \notin Jobs
            BY <1>1, <2>1, <2>3
      <2>4. QED
            BY <2>2, <2>3
<1>3. CASE ~accepted
      BY <1>1, <1>3 DEF Delivered
<1>4. QED
      BY <1>2, <1>3

LEMMA LostCallType ==
    ASSUME TypeOK, NEW w \in Workers, LostCall(w)
    PROVE  accepts' \in [Jobs -> Nat]
BY DeliveredType DEF LostCall, TypeOK

(***************************************************************************)
(* Type correctness.                                                       *)
(***************************************************************************)
LEMMA TypeInit == Init => TypeOK
BY BoundTypes DEF Init, TypeOK, NoRow, Row, Statuses, Codes, Places, ConnStatuses

LEMMA TypeStep == TypeOK /\ [Next]_vars => TypeOK'
<1> SUFFICES ASSUME TypeOK, [Next]_vars PROVE TypeOK'
    OBVIOUS
<1>1. CASE UNCHANGED vars
      BY <1>1 DEF TypeOK, vars
<1>2. ASSUME NEW j \in Jobs, Enqueue(j) PROVE TypeOK'
      BY <1>2, QueuedType DEF Enqueue, TypeOK, workerVars
<1>3. ASSUME NEW u \in Users, Disconnect(u) \/ Reactivate(u) PROVE TypeOK'
      BY BoundTypes, <1>3 DEF Disconnect, Reactivate, TypeOK, workerVars, ConnStatuses
<1>4. ASSUME NEW j \in PresetJobs, ChangeConsent(j) PROVE TypeOK'
      BY BoundTypes, <1>4 DEF ChangeConsent, TypeOK, workerVars
<1>5. ASSUME NEW j \in Jobs, LockAges(j) \/ BecomesDue(j) PROVE TypeOK'
      <2>1. row' \in [Jobs -> Row]
            <3>1. row \in [Jobs -> Row] /\ row[j] \in Row
                  BY DEF TypeOK
            <3>2. \E r \in Row : row' = [row EXCEPT ![j] = r]
                  BY <1>5, <3>1, TimeTypes DEF LockAges, BecomesDue
            <3>3. QED
                  BY <3>1, <3>2
      <2>2. QED
            BY <1>5, <2>1 DEF LockAges, BecomesDue, TypeOK, workerVars
<1>6. ASSUME NEW w \in Workers,
             Start(w) \/ RecoveryDue(w) \/ ClaimNothing(w) \/ RecoverStaleFails(w)
      PROVE  TypeOK'
      BY BoundTypes, <1>6 DEF Start, RecoveryDue, ClaimNothing, RecoverStaleFails, TypeOK, Places
<1>7. ASSUME NEW w \in Workers, RecoverStale(w) PROVE TypeOK'
      <2>1. row' \in [Jobs -> Row]
            <3>1. \E c : c \in Codes
                  BY DEF Codes
            <3>2. QED
                  BY <1>7, <3>1, RowTransitionTypes DEF RecoverStale, TypeOK
      <2>2. QED
            BY <1>7, <2>1 DEF RecoverStale, TypeOK, Places
<1>8. ASSUME NEW w \in Workers, Claim(w) PROVE TypeOK'
      <2>1. PICK S \in SUBSET Jobs :
                /\ ClaimCommits(S)
                /\ row' = ClaimRows(S, w)
                /\ claimed' = [claimed EXCEPT ![w] =
                      [j \in Jobs |-> IF j \in S THEN row[j].attempts + 1 ELSE 0]]
            BY <1>8 DEF Claim
      <2>2. row' \in [Jobs -> Row]
            BY <2>1, ClaimRowsType
      <2>3. [j \in Jobs |-> IF j \in S THEN row[j].attempts + 1 ELSE 0]
               \in [Jobs -> 0..MaxAttempts]
            BY <2>1, BoundTypes DEF ClaimCommits, TypeOK, Row
      <2>4. claimed' \in [Workers -> [Jobs -> 0..MaxAttempts]]
            BY <2>1, <2>3 DEF TypeOK
      <2>5. QED
            BY <1>8, <2>2, <2>4 DEF Claim, TypeOK, Places
<1>9. ASSUME NEW w \in Workers, ClaimAcknowledgementLost(w) PROVE TypeOK'
      <2>1. row' \in [Jobs -> Row]
            BY <1>9, ClaimRowsType DEF ClaimAcknowledgementLost
      <2>2. QED
            BY BoundTypes, <1>9, <2>1 DEF ClaimAcknowledgementLost, TypeOK, Places
<1>10. ASSUME NEW w \in Workers, NEW j \in Jobs, FailBeforeProvider(w, j)
       PROVE  TypeOK'
      <2>1. "notification_payload_invalid" \in Codes /\ "telegram_not_configured" \in Codes
            BY DEF Codes
      <2>2. row' \in [Jobs -> Row]
            <3>1. PICK c \in Codes : row' = [row EXCEPT ![j] = MarkFailed(row[j], c)]
                  BY <1>10, <2>1 DEF FailBeforeProvider
            <3>2. MarkFailed(row[j], c) \in Row
                  BY RowTransitionTypes DEF TypeOK
            <3>3. QED
                  BY <3>1, <3>2 DEF TypeOK
      <2>3. QED
            BY <1>10, <2>2, FinishTypes DEF FailBeforeProvider, TypeOK
<1>11. ASSUME NEW w \in Workers, NEW j \in Jobs, CheckDestination(w, j)
       PROVE  TypeOK'
      <2>1. "telegram_connection_unavailable" \in Codes
            BY DEF Codes
      <2>2. CASE ReadyToSend(w, j)
            BY <1>11, <2>2 DEF CheckDestination, ReadyToSend, TypeOK, Places
      <2>3. CASE /\ row' = [row EXCEPT ![j] =
                                MarkFailed(@, "telegram_connection_unavailable")]
                 /\ Finish(w, j)
            BY <1>11, <2>1, <2>3, RowTransitionTypes, FinishTypes
            DEF CheckDestination, TypeOK
      <2>4. QED
            BY <1>11, <2>2, <2>3 DEF CheckDestination
<1>12. ASSUME NEW w \in Workers, NEW j \in Jobs, PreparePreset(w, j)
       PROVE  TypeOK'
      <2>1. PresetProblem(j) \in Codes
            BY <1>12 DEF PreparePreset, PresetProblem, TypeOK, Codes
      <2>2. CASE ReadyToSend(w, j)
            BY <1>12, <2>2 DEF PreparePreset, ReadyToSend, TypeOK, Places
      <2>3. CASE /\ row' = [row EXCEPT ![j] = MarkFailed(@, PresetProblem(j))]
                 /\ Finish(w, j)
            BY <1>12, <2>1, <2>3, RowTransitionTypes, FinishTypes
            DEF PreparePreset, TypeOK
      <2>4. CASE row' = row /\ Finish(w, j)
            BY <1>12, <2>4, FinishTypes DEF PreparePreset, TypeOK
      <2>5. QED
            BY <1>12, <2>2, <2>3, <2>4 DEF PreparePreset
<1>13. ASSUME NEW w \in Workers, Send(w) PROVE TypeOK'
      <2>1. accepts' \in [Jobs -> Nat]
            BY <1>13, DeliveredType DEF Send, PossiblyAccepted, Outcomes
      <2>2. QED
            BY <1>13, <2>1 DEF Send, TypeOK, Places
<1>14. ASSUME NEW w \in Workers, RecordDelivery(w) PROVE  TypeOK'
      <2>1. row' \in [Jobs -> Row]
            BY <1>14, OutcomeRowType DEF RecordDelivery, TypeOK
      <2>2. conn' \in [Users -> ConnStatuses]
            BY <1>14 DEF RecordDelivery, TypeOK, ConnStatuses
      <2>3. QED
            BY <1>14, <2>1, <2>2, FinishTypes DEF RecordDelivery, TypeOK
<1>15. ASSUME NEW w \in Workers, DeliveryError(w) PROVE TypeOK'
      BY BoundTypes, <1>15, FinishTypes, LostCallType DEF DeliveryError, TypeOK
<1>16. ASSUME NEW w \in Workers, Crash(w) PROVE TypeOK'
      BY BoundTypes, <1>16, LostCallType DEF Crash, TypeOK, Places
<1>17. QED
      BY <1>1, <1>2, <1>3, <1>4, <1>5, <1>6, <1>7, <1>8, <1>9, <1>10, <1>11,
         <1>12, <1>13, <1>14, <1>15, <1>16
      DEF Next, Environment, TimePasses, WorkerStep, Fault

\* The rows, workers and reports keep their types in every reachable state.
THEOREM TypeCorrect == Spec => []TypeOK
<1>1. Init => TypeOK
      BY TypeInit
<1>2. TypeOK /\ [Next]_vars => TypeOK'
      BY TypeStep
<1>3. QED
      BY <1>1, <1>2, PTL DEF Spec

-----------------------------------------------------------------------------
(***************************************************************************)
(* What each row transition does to the fields the invariant speaks of.    *)
(***************************************************************************)
Unknown(r) == r.status = "failed" /\ r.code = "telegram_delivery_outcome_unknown"

LEMMA MarkFailedEffect ==
    ASSUME NEW r \in Row, NEW code
    PROVE  /\ r.status # "processing" => MarkFailed(r, code) = r
           /\ r.status = "processing" => /\ MarkFailed(r, code).status = "failed"
                                         /\ MarkFailed(r, code).code = code
BY DEF MarkFailed, Unlocked, Row

LEMMA MarkSentEffect ==
    ASSUME NEW r \in Row
    PROVE  /\ r.status # "processing" => MarkSent(r) = r
           /\ r.status = "processing" => MarkSent(r).status = "sent"
BY DEF MarkSent, Unlocked, Row

LEMMA MarkRetryWaitEffect ==
    ASSUME NEW r \in Row, NEW code
    PROVE  /\ r.status # "processing" => MarkRetryWait(r, code) = r
           /\ r.status = "processing" =>
                 /\ MarkRetryWait(r, code).status = "retry_wait"
                 /\ MarkRetryWait(r, code).attempts = r.attempts
BY DEF MarkRetryWait, Unlocked, Row

LEMMA ClaimedEffect ==
    ASSUME NEW r \in Row, NEW w
    PROVE  /\ Claimed(r, w).status = "processing"
           /\ Claimed(r, w).lockedBy = w
           /\ Claimed(r, w).attempts = r.attempts + 1
BY DEF Claimed, Row

\* A recovered row either stays as it is or becomes outcome-unknown.
LEMMA RecoveredEffect ==
    ASSUME NEW r \in Row
    PROVE  \/ Recovered(r) = r
           \/ r.status = "processing" /\ Unknown(Recovered(r))
BY MarkFailedEffect DEF Recovered, Unknown

-----------------------------------------------------------------------------
(***************************************************************************)
(* The inductive invariant, job by job.                                    *)
(***************************************************************************)
JobOK(j) ==
    /\ accepts[j] <= 1
    /\ row[j].status = "sent" => accepts[j] = 1
    /\ row[j].status \in {"absent", "pending", "retry_wait"} => accepts[j] = 0
    /\ row[j].status = "failed"
          /\ row[j].code # "telegram_delivery_outcome_unknown" => accepts[j] = 0
    /\ Waiting(j) => row[j].attempts < MaxAttempts

LEMMA JobByJob ==
    (\A j \in Jobs : JobOK(j)) <=>
        AcceptedAtMostOnce /\ ReportIsTrue /\ WaitingHasAttemptLeft
BY DEF JobOK, AcceptedAtMostOnce, ReportIsTrue, WaitingHasAttemptLeft

LEMMA JobByJobNext ==
    (\A j \in Jobs : JobOK(j)') <=>
        (AcceptedAtMostOnce /\ ReportIsTrue /\ WaitingHasAttemptLeft)'
BY DEF JobOK, AcceptedAtMostOnce, ReportIsTrue, WaitingHasAttemptLeft, Waiting

\* When a worker is done with the copy of j, nobody holds j any more, so it is
\* enough that the step leaves the other jobs alone and j itself in order.
LEMMA FinishStep ==
    ASSUME TypeOK, OutboxInv, NEW w \in Workers, NEW j \in Jobs,
           Holds(w, j), pc[w] = "deliver" \/ current[w] = j,
           Finish(w, j),
           \A k \in Jobs \ {j} : row'[k] = row[k] /\ accepts'[k] = accepts[k],
           JobOK(j)'
    PROVE  OutboxInv'
<1>1. \A v \in Workers, k \in Jobs :
         claimed'[v][k] = IF v = w /\ k = j THEN 0 ELSE claimed[v][k]
      BY DEF Finish, TypeOK
<1>2. /\ \A v \in Workers \ {w} : /\ pc'[v] = pc[v]
                                  /\ current'[v] = current[v]
                                  /\ answer'[v] = answer[v]
      /\ pc'[w] = IF \E k \in Jobs \ {j} : claimed[w][k] > 0 THEN "deliver" ELSE "idle"
      /\ current'[w] = NoJob
      BY DEF Finish, TypeOK
<1>3. \A v \in Workers, k \in Jobs : Holds(v, k)' => Holds(v, k) /\ k # j
      BY <1>1 DEF Holds, OutboxInv, HolderInv
<1>4. WorkerInv'
      BY <1>1, <1>2, <1>3 DEF OutboxInv, WorkerInv, Holds
<1>5. CopyInv'
      BY <1>1, <1>3 DEF OutboxInv, CopyInv, OwnsRow, Holds
<1>6. HolderInv'
      BY <1>3 DEF OutboxInv, HolderInv
<1>7. AnswerInv'
      <2>1. SUFFICES ASSUME NEW v \in Workers, NEW k \in Jobs, Holds(v, k)'
                     PROVE  /\ ~(pc[v] = "record" /\ current[v] = k)' => accepts'[k] = 0
                            /\ (pc[v] = "record" /\ current[v] = k)' =>
                                  /\ answer'[v] = "SENT" => accepts'[k] = 1
                                  /\ answer'[v] \notin {"SENT", "UNCERTAIN"}
                                        => accepts'[k] = 0
            BY DEF AnswerInv
      <2>2. Holds(v, k) /\ k # j /\ accepts'[k] = accepts[k]
            BY <1>3, <2>1
      <2>3. CASE v = w
            BY <1>2, <2>2, <2>3 DEF OutboxInv, AnswerInv
      <2>4. CASE v # w
            BY <1>2, <2>2, <2>4 DEF OutboxInv, AnswerInv
      <2>5. QED
            BY <2>3, <2>4
<1>8. \A k \in Jobs : JobOK(k)'
      BY JobByJob DEF OutboxInv, JobOK, Waiting
<1>9. QED
      BY <1>4, <1>5, <1>6, <1>7, <1>8, JobByJobNext DEF OutboxInv

LEMMA InvInit == Init => OutboxInv
BY BoundTypes DEF Init, OutboxInv, WorkerInv, CopyInv, HolderInv, AnswerInv, Holds,
   AcceptedAtMostOnce, ReportIsTrue, WaitingHasAttemptLeft, Waiting, NoRow

\* A step that moves no worker and changes no count of acceptances preserves the
\* invariant if it keeps what a holder relies on and leaves every job in order.
LEMMA RowStep ==
    ASSUME OutboxInv, UNCHANGED <<workerVars, accepts>>,
           \A w \in Workers, j \in Jobs : Holds(w, j) =>
               \/ /\ row'[j].status = row[j].status
                  /\ row'[j].lockedBy = row[j].lockedBy
                  /\ row'[j].attempts = row[j].attempts
                  /\ row'[j].code = row[j].code
               \/ Unknown(row'[j]),
           \A j \in Jobs : JobOK(j)'
    PROVE  OutboxInv'
<1>1. WorkerInv' /\ HolderInv'
      BY DEF OutboxInv, WorkerInv, HolderInv, Holds, workerVars
<1>2. CopyInv'
      BY DEF OutboxInv, CopyInv, Holds, OwnsRow, Unknown, workerVars
<1>3. AnswerInv'
      BY DEF OutboxInv, AnswerInv, Holds, workerVars
<1>4. QED
      BY <1>1, <1>2, <1>3, JobByJobNext DEF OutboxInv

\* A step of a worker that holds nothing and only moves on in its loop.
LEMMA LoopStep ==
    ASSUME TypeOK, OutboxInv, NEW w \in Workers, NEW place \in Places,
           pc[w] \notin {"deliver", "send", "record"},
           place \notin {"send", "record"},
           pc' = [pc EXCEPT ![w] = place],
           UNCHANGED <<claimed, current, answer, accepts>>,
           \A v \in Workers, j \in Jobs : Holds(v, j) =>
               row'[j] = row[j] \/ Unknown(row'[j]),
           \A j \in Jobs : JobOK(j)'
    PROVE  OutboxInv'
<1>1. \A v \in Workers : pc'[v] = IF v = w THEN place ELSE pc[v]
      BY DEF TypeOK
<1>2. \A j \in Jobs : ~Holds(w, j)
      BY DEF OutboxInv, WorkerInv
<1>3. WorkerInv' /\ HolderInv'
      BY <1>1, <1>2 DEF OutboxInv, WorkerInv, HolderInv, Holds
<1>4. CopyInv'
      BY DEF OutboxInv, CopyInv, Holds, OwnsRow, Unknown
<1>5. AnswerInv'
      BY <1>1, <1>2 DEF OutboxInv, AnswerInv, Holds
<1>6. QED
      BY <1>3, <1>4, <1>5, JobByJobNext DEF OutboxInv

\* A worker that picked a copy to send and has not sent it yet.
LEMMA ReadyStep ==
    ASSUME TypeOK, OutboxInv, NEW w \in Workers, NEW j \in Jobs,
           Delivering(w, j), ReadyToSend(w, j), UNCHANGED accepts
    PROVE  OutboxInv'
<1>1. \A v \in Workers : /\ pc'[v] = IF v = w THEN "send" ELSE pc[v]
                         /\ current'[v] = IF v = w THEN j ELSE current[v]
      BY DEF ReadyToSend, TypeOK
<1>2. UNCHANGED <<row, claimed, answer>> /\ Holds(w, j) /\ pc[w] = "deliver"
      BY DEF ReadyToSend, Delivering, Holds
<1>3. WorkerInv' /\ HolderInv' /\ CopyInv'
      BY <1>1, <1>2 DEF OutboxInv, WorkerInv, HolderInv, CopyInv, Holds, OwnsRow
<1>4. AnswerInv'
      BY <1>1, <1>2 DEF OutboxInv, AnswerInv, Holds
<1>5. QED
      BY <1>2, <1>3, <1>4
      DEF OutboxInv, AcceptedAtMostOnce, ReportIsTrue, WaitingHasAttemptLeft, Waiting

\* A copy that ends without a request: its row is failed with a definite code,
\* or left alone.
LEMMA DropStep ==
    ASSUME TypeOK, OutboxInv, NEW w \in Workers, NEW j \in Jobs,
           Delivering(w, j), Finish(w, j), UNCHANGED accepts,
           NEW code,
           row' = row \/ row' = [row EXCEPT ![j] = MarkFailed(row[j], code)]
    PROVE  OutboxInv'
<1>1. Holds(w, j) /\ pc[w] = "deliver"
      BY DEF Delivering, Holds
<1>2. row[j] \in Row /\ row \in [Jobs -> Row]
      BY DEF TypeOK
<1>3. \A k \in Jobs \ {j} : row'[k] = row[k]
      BY <1>2
<1>4. row'[j] = row[j] \/ (row[j].status = "processing" /\ row'[j].status = "failed")
      BY <1>2, MarkFailedEffect
<1>5. accepts[j] = 0
      BY <1>1 DEF OutboxInv, AnswerInv
<1>6. JobOK(j)'
      BY <1>4, <1>5, JobByJob DEF OutboxInv, JobOK, Waiting
<1>7. QED
      BY <1>1, <1>3, <1>6, FinishStep

\* The rows a claim takes: nobody holds them, since they are waiting.
LEMMA ClaimRowsEffect ==
    ASSUME TypeOK, OutboxInv, NEW w \in Workers, NEW S \in SUBSET Jobs,
           ClaimBatch(S), ClaimCommits(S), row' = ClaimRows(S, w)
    PROVE  /\ \A j \in S : /\ Waiting(j)
                           /\ accepts[j] = 0
                           /\ row'[j].status = "processing"
                           /\ row'[j].lockedBy = w
                           /\ row'[j].attempts = row[j].attempts + 1
           /\ \A j \in Jobs \ S : row'[j] = row[j]
           /\ \A v \in Workers, j \in S : ~Holds(v, j)
<1>1. \A j \in S : Waiting(j) /\ row[j] \in Row
      BY DEF ClaimBatch, ClaimableJobs, TypeOK
<1>2. \A j \in S : accepts[j] = 0
      BY <1>1 DEF OutboxInv, ReportIsTrue, Waiting
<1>3. \A j \in S : row'[j] = Claimed(row[j], w)
      BY DEF ClaimRows
<1>4. \A j \in Jobs \ S : row'[j] = row[j]
      BY DEF ClaimRows
<1>5. \A v \in Workers, j \in S : ~Holds(v, j)
      BY <1>1 DEF OutboxInv, CopyInv, OwnsRow, Waiting
<1>6. QED
      BY <1>1, <1>2, <1>3, <1>4, <1>5, ClaimedEffect

LEMMA ClaimStep ==
    ASSUME TypeOK, OutboxInv, NEW w \in Workers, Claim(w)
    PROVE  OutboxInv'
<1>1. PICK S \in SUBSET Jobs :
          /\ ClaimBatch(S)
          /\ ClaimCommits(S)
          /\ row' = ClaimRows(S, w)
          /\ claimed' = [claimed EXCEPT ![w] =
                            [j \in Jobs |-> IF j \in S THEN row[j].attempts + 1 ELSE 0]]
      BY DEF Claim
<1>2. /\ \A j \in S : /\ Waiting(j)
                      /\ accepts[j] = 0
                      /\ row'[j].status = "processing"
                      /\ row'[j].lockedBy = w
                      /\ row'[j].attempts = row[j].attempts + 1
      /\ \A j \in Jobs \ S : row'[j] = row[j]
      /\ \A v \in Workers, j \in S : ~Holds(v, j)
      BY <1>1, ClaimRowsEffect
<1>3. /\ \A v \in Workers : pc'[v] = IF v = w THEN "deliver" ELSE pc[v]
      /\ UNCHANGED <<current, answer, accepts>>
      /\ pc[w] \in {"idle", "claiming"}
      BY DEF Claim, TypeOK
<1>4. \A v \in Workers, j \in Jobs :
         claimed'[v][j] = IF v # w THEN claimed[v][j]
                          ELSE IF j \in S THEN row[j].attempts + 1 ELSE 0
      BY <1>1 DEF TypeOK
<1>5. \A v \in Workers, j \in Jobs :
         Holds(v, j)' => \/ v # w /\ Holds(v, j) /\ j \notin S
                         \/ v = w /\ j \in S
      BY <1>2, <1>4 DEF Holds
<1>6. WorkerInv'
      BY <1>2, <1>3, <1>4, <1>5 DEF OutboxInv, WorkerInv, Holds
<1>7. HolderInv'
      BY <1>5 DEF OutboxInv, HolderInv
<1>8. CopyInv'
      BY <1>2, <1>4, <1>5 DEF OutboxInv, CopyInv, OwnsRow, Holds
<1>9. AnswerInv'
      BY <1>2, <1>3, <1>5 DEF OutboxInv, AnswerInv
<1>10. \A j \in Jobs : JobOK(j)'
      BY <1>2, <1>3, JobByJob DEF OutboxInv, JobOK, Waiting
<1>11. QED
      BY <1>6, <1>7, <1>8, <1>9, <1>10, JobByJobNext DEF OutboxInv

LEMMA SendStep ==
    ASSUME TypeOK, OutboxInv, NEW w \in Workers, Send(w)
    PROVE  OutboxInv'
<1>0. PICK j \in Jobs : j = current[w]
      BY DEF Send, OutboxInv, WorkerInv
<1>1. pc[w] = "send" /\ Holds(w, j)
      BY <1>0 DEF Send, OutboxInv, WorkerInv
<1>2. accepts[j] = 0 /\ accepts \in [Jobs -> Nat]
      BY <1>0, <1>1 DEF OutboxInv, AnswerInv, TypeOK
<1>2a. PICK outcome \in Outcomes : \E accepted \in PossiblyAccepted(outcome) :
          /\ answer' = [answer EXCEPT ![w] = outcome]
          /\ Delivered(j, accepted)
      BY <1>0 DEF Send
<1>3. PICK accepted \in PossiblyAccepted(outcome) :
          /\ answer' = [answer EXCEPT ![w] = outcome]
          /\ Delivered(j, accepted)
      BY <1>2a
<1>4. /\ accepted \in BOOLEAN
      /\ outcome = "SENT" => accepted
      /\ outcome \notin {"SENT", "UNCERTAIN"} => ~accepted
      BY <1>3 DEF PossiblyAccepted, Outcomes
<1>5. accepts'[j] = IF accepted THEN 1 ELSE 0
      <2>1. CASE accepted
            BY <1>1, <1>2, <1>3, <2>1 DEF Delivered
      <2>2. CASE ~accepted
            BY <1>1, <1>2, <1>3, <2>2 DEF Delivered
      <2>3. QED
            BY <1>4, <2>1, <2>2
<1>6. \A k \in Jobs \ {j} : accepts'[k] = accepts[k]
      BY <1>2, <1>3 DEF Delivered
<1>7. /\ \A v \in Workers : /\ pc'[v] = IF v = w THEN "record" ELSE pc[v]
                            /\ answer'[v] = IF v = w THEN outcome ELSE answer[v]
      /\ UNCHANGED <<row, claimed, current>>
      BY <1>3 DEF Send, TypeOK
<1>8. WorkerInv' /\ HolderInv' /\ CopyInv'
      BY <1>0, <1>1, <1>7 DEF OutboxInv, WorkerInv, HolderInv, CopyInv, Holds, OwnsRow
<1>9. AnswerInv'
      <2>1. SUFFICES ASSUME NEW v \in Workers, NEW k \in Jobs, Holds(v, k)'
                     PROVE  /\ ~(pc[v] = "record" /\ current[v] = k)' => accepts'[k] = 0
                            /\ (pc[v] = "record" /\ current[v] = k)' =>
                                  /\ answer'[v] = "SENT" => accepts'[k] = 1
                                  /\ answer'[v] \notin {"SENT", "UNCERTAIN"}
                                        => accepts'[k] = 0
            BY DEF AnswerInv
      <2>2. Holds(v, k)
            BY <1>7, <2>1 DEF Holds
      <2>3. CASE k # j
            BY <1>0, <1>1, <1>6, <1>7, <2>2, <2>3 DEF OutboxInv, AnswerInv
      <2>4. CASE k = j
            <3>1. v = w
                  BY <1>1, <2>2, <2>4 DEF OutboxInv, HolderInv
            <3>2. QED
                  BY <1>0, <1>4, <1>5, <1>7, <2>4, <3>1
      <2>5. QED
            BY <2>3, <2>4
<1>10. row[j].status = "processing" \/ Unknown(row[j])
      BY <1>1 DEF OutboxInv, CopyInv, OwnsRow, Unknown
<1>11. \A k \in Jobs : JobOK(k)'
      <2>1. JobOK(j)'
            BY <1>1, <1>4, <1>5, <1>7, <1>10 DEF JobOK, Waiting, Unknown
      <2>2. \A k \in Jobs \ {j} : JobOK(k)'
            BY <1>6, <1>7, JobByJob DEF OutboxInv, JobOK, Waiting
      <2>3. QED
            BY <2>1, <2>2
<1>12. QED
      BY <1>8, <1>9, <1>11, JobByJobNext DEF OutboxInv

LEMMA RecordStep ==
    ASSUME TypeOK, OutboxInv, NEW w \in Workers, RecordDelivery(w)
    PROVE  OutboxInv'
<1>0. PICK j \in Jobs : j = current[w]
      BY DEF RecordDelivery, OutboxInv, WorkerInv
<1>1. pc[w] = "record" /\ Holds(w, j) /\ answer[w] \in Outcomes
      BY <1>0 DEF RecordDelivery, OutboxInv, WorkerInv
<1>2. /\ Finish(w, j)
      /\ row' = [row EXCEPT ![j] = OutcomeRow(w, j)]
      /\ UNCHANGED accepts
      BY <1>0 DEF RecordDelivery
<1>3. row \in [Jobs -> Row] /\ row[j] \in Row /\ accepts[j] \in Nat
      BY <1>1 DEF TypeOK
<1>4. row'[j] = OutcomeRow(w, j) /\ \A k \in Jobs \ {j} : row'[k] = row[k]
      BY <1>1, <1>2, <1>3
<1>5. \/ row[j].status = "processing" /\ row[j].attempts = claimed[w][j]
      \/ Unknown(row[j])
      BY <1>1 DEF OutboxInv, CopyInv, OwnsRow, Unknown
<1>6. /\ answer[w] = "SENT" => accepts[j] = 1
      /\ answer[w] \notin {"SENT", "UNCERTAIN"} => accepts[j] = 0
      /\ accepts[j] <= 1
      BY <1>0, <1>1 DEF OutboxInv, AnswerInv, AcceptedAtMostOnce
<1>7. JobOK(j)'
      <2>1. CASE row[j].status # "processing"
            <3>1. OutcomeRow(w, j) = row[j]
                  BY <1>3, <2>1, MarkSentEffect, MarkFailedEffect, MarkRetryWaitEffect
                  DEF OutcomeRow
            <3>2. QED
                  BY <1>1, <1>2, <1>4, <3>1, JobByJob DEF OutboxInv, JobOK, Waiting
      <2>2. CASE row[j].status = "processing" /\ answer[w] = "SENT"
            <3>1. OutcomeRow(w, j).status = "sent"
                  BY <1>3, <2>2, MarkSentEffect DEF OutcomeRow
            <3>2. QED
                  BY <1>2, <1>4, <1>6, <2>2, <3>1 DEF JobOK, Waiting
      <2>3. CASE row[j].status = "processing" /\ answer[w] = "UNCERTAIN"
            <3>1. Unknown(OutcomeRow(w, j))
                  BY <1>3, <2>3, MarkFailedEffect DEF OutcomeRow, Unknown
            <3>2. QED
                  BY <1>2, <1>4, <1>6, <3>1 DEF JobOK, Waiting, Unknown
      <2>4. CASE row[j].status = "processing" /\ answer[w] \notin {"SENT", "UNCERTAIN"}
            <3>1. \/ OutcomeRow(w, j).status = "failed"
                  \/ /\ OutcomeRow(w, j).status = "retry_wait"
                     /\ OutcomeRow(w, j).attempts < MaxAttempts
                  <4>1. CASE MayRetry(w, j)
                        BY <1>1, <1>3, <1>5, <2>4, <4>1, MarkFailedEffect,
                           MarkRetryWaitEffect
                        DEF OutcomeRow, MayRetry, Outcomes, Unknown
                  <4>2. CASE ~MayRetry(w, j)
                        BY <1>1, <1>3, <2>4, <4>2, MarkFailedEffect
                        DEF OutcomeRow, Outcomes
                  <4>3. QED
                        BY <4>1, <4>2
            <3>2. accepts'[j] = 0
                  BY <1>2, <1>6, <2>4
            <3>3. QED
                  BY <1>4, <3>1, <3>2 DEF JobOK, Waiting
      <2>5. QED
            BY <2>1, <2>2, <2>3, <2>4
<1>8. QED
      BY <1>0, <1>1, <1>2, <1>4, <1>7, FinishStep

\* A call that was lost with its process, or an exception: the copy is given up,
\* the row is not touched, Telegram may have accepted the message.
LEMMA LostCallEffect ==
    ASSUME TypeOK, OutboxInv, NEW w \in Workers, LostCall(w)
    PROVE  \/ UNCHANGED accepts
           \/ \E j \in Jobs : /\ pc[w] = "send" /\ current[w] = j /\ Holds(w, j)
                              /\ accepts[j] = 0 /\ accepts'[j] = 1
                              /\ \A k \in Jobs \ {j} : accepts'[k] = accepts[k]
                              /\ row[j].status = "processing" \/ Unknown(row[j])
<1>1. CASE pc[w] = "send" /\ Delivered(current[w], TRUE)
      <2>1. PICK j \in Jobs : j = current[w] /\ Holds(w, j)
            BY <1>1 DEF OutboxInv, WorkerInv
      <2>2. accepts[j] = 0 /\ accepts \in [Jobs -> Nat]
            BY <1>1, <2>1 DEF OutboxInv, AnswerInv, TypeOK
      <2>3. accepts'[j] = 1 /\ \A k \in Jobs \ {j} : accepts'[k] = accepts[k]
            BY <1>1, <2>1, <2>2 DEF Delivered
      <2>4. row[j].status = "processing" \/ Unknown(row[j])
            BY <2>1 DEF OutboxInv, CopyInv, OwnsRow, Unknown
      <2>5. QED
            BY <1>1, <2>1, <2>2, <2>3, <2>4
<1>2. QED
      BY <1>1 DEF LostCall

\* Whatever a lost call did, every job is still in order.
LEMMA LostCallJobs ==
    ASSUME TypeOK, OutboxInv, NEW w \in Workers, LostCall(w), UNCHANGED row
    PROVE  \A j \in Jobs : JobOK(j)'
<1>1. \A j \in Jobs : JobOK(j)
      BY JobByJob DEF OutboxInv
<1>2. CASE UNCHANGED accepts
      BY <1>1, <1>2 DEF JobOK, Waiting
<1>3. ASSUME NEW j \in Jobs, accepts'[j] = 1,
             \A k \in Jobs \ {j} : accepts'[k] = accepts[k],
             row[j].status = "processing" \/ Unknown(row[j])
      PROVE  \A k \in Jobs : JobOK(k)'
      <2>1. JobOK(j)'
            BY <1>3 DEF JobOK, Waiting, Unknown
      <2>2. \A k \in Jobs \ {j} : JobOK(k)'
            BY <1>1, <1>3 DEF JobOK, Waiting
      <2>3. QED
            BY <2>1, <2>2
<1>4. QED
      BY <1>2, <1>3, LostCallEffect

LEMMA ErrorStep ==
    ASSUME TypeOK, OutboxInv, NEW w \in Workers, DeliveryError(w)
    PROVE  OutboxInv'
<1>1. PICK j \in Jobs : /\ Holds(w, j)
                        /\ pc[w] \in {"deliver", "send", "record"}
                        /\ current[w] \in {j, NoJob}
                        /\ Finish(w, j)
      BY DEF DeliveryError, Holds
<1>2. UNCHANGED row /\ LostCall(w)
      BY DEF DeliveryError
<1>3. pc[w] = "deliver" \/ current[w] = j
      BY <1>1, ConstantTypes DEF OutboxInv, WorkerInv
<1>4. \A k \in Jobs \ {j} : row'[k] = row[k] /\ accepts'[k] = accepts[k]
      <2>1. CASE UNCHANGED accepts
            BY <1>2, <2>1
      <2>2. CASE pc[w] = "send"
            BY <1>2, <1>3, <2>2, LostCallEffect
      <2>3. QED
            BY <1>2, <2>1, <2>2 DEF LostCall
<1>5. JobOK(j)'
      BY <1>2, LostCallJobs
<1>6. QED
      BY <1>1, <1>3, <1>4, <1>5, FinishStep

LEMMA CrashStep ==
    ASSUME TypeOK, OutboxInv, NEW w \in Workers, Crash(w)
    PROVE  OutboxInv'
<1>1. /\ \A v \in Workers : /\ pc'[v] = IF v = w THEN "down" ELSE pc[v]
                            /\ current'[v] = IF v = w THEN NoJob ELSE current[v]
                            /\ answer'[v] = IF v = w THEN "none" ELSE answer[v]
      /\ \A v \in Workers, j \in Jobs :
            claimed'[v][j] = IF v = w THEN 0 ELSE claimed[v][j]
      /\ UNCHANGED row /\ LostCall(w)
      BY DEF Crash, TypeOK
<1>2. \A v \in Workers, j \in Jobs : Holds(v, j)' => v # w /\ Holds(v, j)
      BY <1>1 DEF Holds
<1>3. WorkerInv' /\ HolderInv' /\ CopyInv'
      BY <1>1, <1>2 DEF OutboxInv, WorkerInv, HolderInv, CopyInv, Holds, OwnsRow
<1>4. ASSUME NEW v \in Workers, NEW k \in Jobs, Holds(v, k)'
      PROVE  accepts'[k] = accepts[k]
      <2>1. v # w /\ Holds(v, k)
            BY <1>2, <1>4
      <2>2. ASSUME NEW j \in Jobs, Holds(w, j) PROVE j # k
            BY <2>1, <2>2 DEF OutboxInv, HolderInv
      <2>3. QED
            BY <1>1, <2>2, LostCallEffect
<1>5. AnswerInv'
      BY <1>1, <1>2, <1>4 DEF OutboxInv, AnswerInv
<1>6. QED
      BY <1>1, <1>3, <1>5, LostCallJobs, JobByJobNext DEF OutboxInv

LEMMA RecoverStep ==
    ASSUME TypeOK, OutboxInv, NEW w \in Workers, RecoverStale(w)
    PROVE  OutboxInv'
<1>1. \A j \in Jobs : \/ row'[j] = row[j]
                      \/ row[j].status = "processing" /\ Unknown(row'[j])
      BY RecoveredEffect DEF RecoverStale, TypeOK
<1>2. \A j \in Jobs : JobOK(j)'
      BY <1>1, JobByJob DEF RecoverStale, OutboxInv, JobOK, Waiting, Unknown
<1>3. QED
      BY <1>1, <1>2, LoopStep DEF RecoverStale, Places

LEMMA LostClaimStep ==
    ASSUME TypeOK, OutboxInv, NEW w \in Workers, ClaimAcknowledgementLost(w)
    PROVE  OutboxInv'
<1>1. PICK S \in SUBSET Jobs :
          ClaimBatch(S) /\ ClaimCommits(S) /\ row' = ClaimRows(S, w)
      BY DEF ClaimAcknowledgementLost
<1>2. /\ \A j \in S : accepts[j] = 0 /\ row'[j].status = "processing"
      /\ \A j \in Jobs \ S : row'[j] = row[j]
      /\ \A v \in Workers, j \in S : ~Holds(v, j)
      BY <1>1, ClaimRowsEffect
<1>3. \A j \in Jobs : JobOK(j)'
      BY <1>2, JobByJob
      DEF ClaimAcknowledgementLost, OutboxInv, JobOK, Waiting
<1>4. QED
      BY <1>2, <1>3, LoopStep DEF ClaimAcknowledgementLost, Places

LEMMA EnqueueStep ==
    ASSUME TypeOK, OutboxInv, NEW j \in Jobs, Enqueue(j)
    PROVE  OutboxInv'
<1>1. /\ row[j].status = "absent"
      /\ \A k \in Jobs \ {j} : row'[k] = row[k]
      /\ UNCHANGED <<workerVars, accepts>>
      BY DEF Enqueue, TypeOK
<1>2. row'[j].status = "pending" /\ row'[j].attempts = 0
      BY DEF Enqueue, TypeOK, NoRow
<1>3. \A w \in Workers : ~Holds(w, j)
      BY <1>1 DEF OutboxInv, CopyInv, OwnsRow
<1>4. \A k \in Jobs : JobOK(k)'
      BY <1>1, <1>2, BoundTypes, JobByJob DEF OutboxInv, JobOK, Waiting
<1>5. QED
      BY <1>1, <1>3, <1>4, RowStep

LEMMA TimeStep ==
    ASSUME TypeOK, OutboxInv, NEW j \in Jobs, LockAges(j) \/ BecomesDue(j)
    PROVE  OutboxInv'
<1>1. UNCHANGED <<workerVars, accepts>>
      BY DEF LockAges, BecomesDue
<1>2. \A k \in Jobs : /\ row'[k].status = row[k].status
                      /\ row'[k].lockedBy = row[k].lockedBy
                      /\ row'[k].attempts = row[k].attempts
                      /\ row'[k].code = row[k].code
      <2>1. row \in [Jobs -> Row] /\ row[j] \in Row
            BY DEF TypeOK
      <2>2. \E f \in {"stale", "due"} : row'[j] = [row[j] EXCEPT ![f] = TRUE]
            BY <2>1 DEF LockAges, BecomesDue
      <2>3. \A k \in Jobs \ {j} : row'[k] = row[k]
            BY <2>1 DEF LockAges, BecomesDue
      <2>4. QED
            BY <2>1, <2>2, <2>3 DEF Row
<1>3. \A k \in Jobs : JobOK(k)'
      BY <1>1, <1>2, JobByJob DEF OutboxInv, JobOK, Waiting
<1>4. QED
      BY <1>1, <1>2, <1>3, RowStep

LEMMA InvStep == TypeOK /\ OutboxInv /\ [Next]_vars => OutboxInv'
<1> SUFFICES ASSUME TypeOK, OutboxInv, [Next]_vars PROVE OutboxInv'
    OBVIOUS
<1>1. \A j \in Jobs : JobOK(j)
      BY JobByJob DEF OutboxInv
<1>2. ASSUME UNCHANGED <<row, workerVars, accepts>> PROVE OutboxInv'
      <2>1. \A j \in Jobs : JobOK(j)'
            BY <1>1, <1>2 DEF JobOK, Waiting
      <2>2. QED
            BY <1>2, <2>1, RowStep
<1>3. CASE UNCHANGED vars
      BY <1>2, <1>3 DEF vars, workerVars
<1>4. ASSUME NEW j \in Jobs, Enqueue(j) PROVE OutboxInv'
      BY <1>4, EnqueueStep
<1>5. ASSUME NEW u \in Users, Disconnect(u) \/ Reactivate(u) PROVE OutboxInv'
      BY <1>2, <1>5 DEF Disconnect, Reactivate
<1>6. ASSUME NEW j \in PresetJobs, ChangeConsent(j) PROVE OutboxInv'
      BY <1>2, <1>6 DEF ChangeConsent
<1>7. ASSUME NEW j \in Jobs, LockAges(j) \/ BecomesDue(j) PROVE OutboxInv'
      BY <1>7, TimeStep
<1>8. ASSUME NEW w \in Workers,
             Start(w) \/ RecoveryDue(w) \/ ClaimNothing(w) \/ RecoverStaleFails(w)
      PROVE  OutboxInv'
      <2>1. \E place \in Places : /\ place \notin {"send", "record"}
                                  /\ pc' = [pc EXCEPT ![w] = place]
            BY <1>8 DEF Start, RecoveryDue, ClaimNothing, RecoverStaleFails, Places
      <2>2. /\ pc[w] \notin {"deliver", "send", "record"}
            /\ UNCHANGED <<row, claimed, current, answer, accepts>>
            BY <1>8 DEF Start, RecoveryDue, ClaimNothing, RecoverStaleFails
      <2>3. \A j \in Jobs : JobOK(j)'
            BY <1>1, <2>2 DEF JobOK, Waiting
      <2>4. QED
            BY <2>1, <2>2, <2>3, LoopStep
<1>9. ASSUME NEW w \in Workers, RecoverStale(w) PROVE OutboxInv'
      BY <1>9, RecoverStep
<1>10. ASSUME NEW w \in Workers, Claim(w) PROVE OutboxInv'
      BY <1>10, ClaimStep
<1>11. ASSUME NEW w \in Workers, ClaimAcknowledgementLost(w) PROVE OutboxInv'
      BY <1>11, LostClaimStep
<1>12. ASSUME NEW w \in Workers, NEW j \in Jobs, FailBeforeProvider(w, j)
       PROVE  OutboxInv'
      <2>1. PICK c : row' = [row EXCEPT ![j] = MarkFailed(row[j], c)]
            BY <1>12 DEF FailBeforeProvider
      <2>2. QED
            BY <1>12, <2>1, DropStep DEF FailBeforeProvider
<1>13. ASSUME NEW w \in Workers, NEW j \in Jobs, CheckDestination(w, j)
       PROVE  OutboxInv'
      <2>1. CASE ReadyToSend(w, j)
            BY <1>13, <2>1, ReadyStep DEF CheckDestination
      <2>2. CASE /\ row' = [row EXCEPT ![j] =
                                MarkFailed(@, "telegram_connection_unavailable")]
                 /\ Finish(w, j)
            BY <1>13, <2>2, DropStep DEF CheckDestination
      <2>3. QED
            BY <1>13, <2>1, <2>2 DEF CheckDestination
<1>14. ASSUME NEW w \in Workers, NEW j \in Jobs, PreparePreset(w, j)
       PROVE  OutboxInv'
      <2>1. CASE ReadyToSend(w, j)
            BY <1>14, <2>1, ReadyStep DEF PreparePreset
      <2>2. CASE /\ row' = [row EXCEPT ![j] = MarkFailed(@, PresetProblem(j))]
                 /\ Finish(w, j)
            BY <1>14, <2>2, DropStep DEF PreparePreset
      <2>3. CASE row' = row /\ Finish(w, j)
            BY <1>14, <2>3, DropStep DEF PreparePreset
      <2>4. QED
            BY <1>14, <2>1, <2>2, <2>3 DEF PreparePreset
<1>15. ASSUME NEW w \in Workers, Send(w) PROVE OutboxInv'
      BY <1>15, SendStep
<1>16. ASSUME NEW w \in Workers, RecordDelivery(w) PROVE OutboxInv'
      BY <1>16, RecordStep
<1>17. ASSUME NEW w \in Workers, DeliveryError(w) PROVE OutboxInv'
      BY <1>17, ErrorStep
<1>18. ASSUME NEW w \in Workers, Crash(w) PROVE OutboxInv'
      BY <1>18, CrashStep
<1>19. QED
      BY <1>3, <1>4, <1>5, <1>6, <1>7, <1>8, <1>9, <1>10, <1>11, <1>12, <1>13,
         <1>14, <1>15, <1>16, <1>17, <1>18
      DEF Next, Environment, TimePasses, WorkerStep, Fault

\* The inductive invariant holds for every number of workers, jobs, crashes and
\* attempts: holders own their rows, or their rows are closed as outcome-unknown.
THEOREM OutboxInvariant == Spec => []OutboxInv
<1>1. Init => OutboxInv
      BY InvInit
<1>2. TypeOK /\ OutboxInv /\ [Next]_vars => OutboxInv'
      BY InvStep
<1>3. QED
      BY <1>1, <1>2, TypeCorrect, PTL DEF Spec

\* Telegram accepts the message of a job at most once.
THEOREM AtMostOnce == Spec => []AcceptedAtMostOnce
<1>1. OutboxInv => AcceptedAtMostOnce
      BY DEF OutboxInv
<1>2. QED
      BY <1>1, OutboxInvariant, PTL

\* A row's report of its delivery is true.
THEOREM TrueReport == Spec => []ReportIsTrue
<1>1. OutboxInv => ReportIsTrue
      BY DEF OutboxInv
<1>2. QED
      BY <1>1, OutboxInvariant, PTL

\* A waiting row always has an attempt left, so no claim is rolled back.
THEOREM ClaimNeverPoisoned == Spec => []WaitingHasAttemptLeft
<1>1. OutboxInv => WaitingHasAttemptLeft
      BY DEF OutboxInv
<1>2. QED
      BY <1>1, OutboxInvariant, PTL

-----------------------------------------------------------------------------
(***************************************************************************)
(* Every step changes a row along its life cycle.                          *)
(***************************************************************************)

\* What a step may do to one row.
RowMove(j) ==
    \/ row'[j] = row[j]
    \/ row[j].status = "absent" /\ row'[j].status = "pending"
    \/ row[j].status \in {"pending", "retry_wait"} /\ row'[j].status = "processing"
    \/ row[j].status = row'[j].status /\ ~Settled(j)
    \/ row[j].status = "processing" /\ row'[j].status \in {"retry_wait", "sent", "failed"}

LEMMA RowMoves ==
    ASSUME TypeOK, OutboxInv, [Next]_vars, NEW j \in Jobs
    PROVE  RowMove(j)
<1>1. row \in [Jobs -> Row] /\ row[j] \in Row
      BY DEF TypeOK
<1>2. CASE UNCHANGED row
      BY <1>2 DEF RowMove
<1>3. ASSUME NEW k \in Jobs, Enqueue(k) PROVE RowMove(j)
      BY <1>1, <1>3 DEF Enqueue, RowMove, NoRow
<1>4. ASSUME NEW k \in Jobs, LockAges(k) PROVE RowMove(j)
      BY <1>1, <1>4 DEF LockAges, RowMove, Settled, Row
<1>5. ASSUME NEW k \in Jobs, BecomesDue(k) PROVE RowMove(j)
      BY <1>1, <1>5 DEF BecomesDue, RowMove, Settled, Row
<1>6. ASSUME NEW w \in Workers, RecoverStale(w) PROVE RowMove(j)
      BY <1>1, <1>6, RecoveredEffect DEF RecoverStale, RowMove, Unknown
<1>7. ASSUME NEW w \in Workers, Claim(w) \/ ClaimAcknowledgementLost(w)
      PROVE  RowMove(j)
      <2>1. PICK S \in SUBSET Jobs :
                ClaimBatch(S) /\ ClaimCommits(S) /\ row' = ClaimRows(S, w)
            BY <1>7 DEF Claim, ClaimAcknowledgementLost
      <2>2. QED
            BY <2>1, ClaimRowsEffect DEF RowMove, Waiting
<1>8. ASSUME NEW k \in Jobs, NEW c, row' = [row EXCEPT ![k] = MarkFailed(row[k], c)]
      PROVE  RowMove(j)
      BY <1>1, <1>8, MarkFailedEffect DEF RowMove
<1>9. ASSUME NEW w \in Workers, RecordDelivery(w) PROVE RowMove(j)
      <2>1. PICK k \in Jobs : k = current[w]
            BY <1>9 DEF RecordDelivery, OutboxInv, WorkerInv
      <2>2. row' = [row EXCEPT ![k] = OutcomeRow(w, k)]
            BY <1>9, <2>1 DEF RecordDelivery
      <2>3. CASE k # j
            BY <1>1, <2>2, <2>3 DEF RowMove
      <2>4. CASE k = j
            BY <1>1, <2>2, <2>4, MarkSentEffect, MarkFailedEffect, MarkRetryWaitEffect
            DEF RowMove, OutcomeRow
      <2>5. QED
            BY <2>3, <2>4
<1>10. ASSUME NEW w \in Workers, NEW k \in Jobs,
              FailBeforeProvider(w, k) \/ CheckDestination(w, k) \/ PreparePreset(w, k)
       PROVE  RowMove(j)
      <2>1. \/ UNCHANGED row
            \/ \E c : row' = [row EXCEPT ![k] = MarkFailed(row[k], c)]
            BY <1>10
            DEF FailBeforeProvider, CheckDestination, PreparePreset, ReadyToSend
      <2>2. QED
            BY <1>2, <1>8, <2>1
<1>11. ASSUME NEW w \in Workers,
              \/ Start(w) \/ RecoveryDue(w) \/ ClaimNothing(w) \/ RecoverStaleFails(w)
              \/ Send(w) \/ DeliveryError(w) \/ Crash(w)
       PROVE  RowMove(j)
      BY <1>2, <1>11 DEF Start, RecoveryDue, ClaimNothing, RecoverStaleFails, Send,
                         DeliveryError, Crash
<1>12. CASE Environment
      BY <1>2, <1>3, <1>12 DEF Environment, Disconnect, Reactivate, ChangeConsent
<1>13. CASE UNCHANGED vars
      BY <1>2, <1>13 DEF vars
<1>14. QED
      BY <1>4, <1>5, <1>6, <1>7, <1>9, <1>10, <1>11, <1>12, <1>13
      DEF Next, TimePasses, WorkerStep, Fault

\* A row reported sent or failed is never changed again.
THEOREM SettledRowsAreFinal == Spec => SettledIsFinal
<1>1. TypeOK /\ OutboxInv /\ [Next]_vars
         => [\A j \in Jobs : Settled(j) => row'[j] = row[j]]_vars
      BY RowMoves DEF RowMove, Settled
<1>2. QED
      BY <1>1, TypeCorrect, OutboxInvariant, PTL DEF Spec, SettledIsFinal

\* Only the record of a refusal degrades a connection: one that still finds its row
\* in 'processing', and so leaves it failed for that reason.
LEMMA WhoDegrades ==
    ASSUME TypeOK, OutboxInv, [Next]_vars, NEW u \in Users,
           conn'[u] = "degraded", conn[u] # "degraded"
    PROVE  \E j \in Jobs : /\ Owner[j] = u
                           /\ row'[j].status = "failed"
                           /\ row'[j].code = "telegram_destination_unavailable"
<1>1. conn \in [Users -> ConnStatuses] /\ row \in [Jobs -> Row]
      BY DEF TypeOK
<1>2. ASSUME NEW v \in Users, Disconnect(v) \/ Reactivate(v) PROVE FALSE
      BY <1>1, <1>2 DEF Disconnect, Reactivate
<1>3. conn' # conn
      OBVIOUS
<1>4. PICK w \in Workers : RecordDelivery(w)
      BY <1>2, <1>3
      DEF Next, Environment, Enqueue, ChangeConsent, TimePasses, LockAges, BecomesDue,
          WorkerStep, Start, RecoverStale, Claim, ClaimNothing, FailBeforeProvider,
          CheckDestination, PreparePreset, Send, RecoveryDue, Fault, RecoverStaleFails,
          ClaimAcknowledgementLost, DeliveryError, Crash, vars
<1>5. PICK j \in Jobs : j = current[w]
      BY <1>4 DEF RecordDelivery, OutboxInv, WorkerInv
<1>6. /\ Degrades(w, j) /\ conn' = [conn EXCEPT ![Owner[j]] = "degraded"]
      /\ row' = [row EXCEPT ![j] = OutcomeRow(w, j)]
      BY <1>3, <1>4, <1>5 DEF RecordDelivery
<1>7. Owner[j] = u
      BY <1>1, <1>6
<1>8. row'[j] = MarkFailed(row[j], "telegram_destination_unavailable")
      BY <1>1, <1>6 DEF Degrades, OutcomeRow
<1>9. QED
      BY <1>1, <1>6, <1>7, <1>8, MarkFailedEffect DEF Degrades

\* A degraded connection always has a job whose row says that Telegram refused its
\* destination: a late answer, that finds its row closed, degrades nothing.
THEOREM DegradedOnRefusal == Spec => []DegradedByRejection
<1>1. Init => DegradedByRejection
      BY DEF Init, DegradedByRejection
<1>2. TypeOK /\ OutboxInv /\ DegradedByRejection /\ [Next]_vars => DegradedByRejection'
  <2>1. SUFFICES ASSUME TypeOK, OutboxInv, DegradedByRejection, [Next]_vars,
                        NEW u \in Users, conn'[u] = "degraded"
                 PROVE  \E j \in Jobs : /\ Owner[j] = u
                                        /\ row'[j].status = "failed"
                                        /\ row'[j].code = "telegram_destination_unavailable"
        BY DEF DegradedByRejection
  <2>2. CASE conn[u] # "degraded"
        BY <2>1, <2>2, WhoDegrades
  <2>3. CASE conn[u] = "degraded"
    <3>1. PICK j \in Jobs : /\ Owner[j] = u
                            /\ row[j].status = "failed"
                            /\ row[j].code = "telegram_destination_unavailable"
          BY <2>1, <2>3 DEF DegradedByRejection
    <3>2. row'[j] = row[j]
          BY <2>1, <3>1, RowMoves DEF RowMove, Settled
    <3>3. QED
          BY <3>1, <3>2
  <2>4. QED
        BY <2>2, <2>3
<1>3. QED
      BY <1>1, <1>2, TypeCorrect, OutboxInvariant, PTL DEF Spec

-----------------------------------------------------------------------------
(***************************************************************************)
(* The outbox implements the delivery promise: each step is a step of      *)
(* DeliveryPromise on the reports of the rows, or leaves them unchanged.   *)
(***************************************************************************)
SameReport(k) == Report(row'[k]) = Report(row[k])

LEMMA PromiseStutter ==
    ASSUME UNCHANGED accepts, \A k \in Jobs : SameReport(k)
    PROVE  UNCHANGED Promise!promiseVars
BY DEF Promise!promiseVars, SameReport

LEMMA PromiseQueue ==
    ASSUME NEW j \in Jobs, UNCHANGED accepts,
           \A k \in Jobs \ {j} : SameReport(k),
           Report(row[j]) = "none", Report(row'[j]) = "open"
    PROVE  Promise!PromiseNext
<1>1. Promise!Queue(j)
      BY DEF Promise!Queue, SameReport
<1>2. QED
      BY <1>1 DEF Promise!PromiseNext

LEMMA PromiseAccept ==
    ASSUME TypeOK, NEW j \in Jobs, \A k \in Jobs : SameReport(k),
           Report(row[j]) \in {"open", "unknown"},
           accepts[j] = 0, accepts' = [accepts EXCEPT ![j] = 1]
    PROVE  Promise!PromiseNext
<1>1. Promise!Accept(j)
      BY DEF Promise!Accept, SameReport
<1>2. QED
      BY <1>1 DEF Promise!PromiseNext

LEMMA PromiseReport ==
    ASSUME NEW j \in Jobs, UNCHANGED accepts,
           \A k \in Jobs \ {j} : SameReport(k),
           Report(row[j]) = "open",
           \/ Report(row'[j]) = "sent" /\ accepts[j] = 1
           \/ Report(row'[j]) = "failed" /\ accepts[j] = 0
    PROVE  Promise!PromiseNext
<1>1. Promise!ReportSent(j) \/ Promise!ReportFailed(j)
      BY DEF Promise!ReportSent, Promise!ReportFailed, SameReport
<1>2. QED
      BY <1>1 DEF Promise!PromiseNext

LEMMA PromiseGiveUp ==
    ASSUME NEW S \in SUBSET Jobs, UNCHANGED accepts,
           \A k \in Jobs \ S : SameReport(k),
           \A k \in S : Report(row[k]) = "open" /\ Report(row'[k]) = "unknown"
    PROVE  Promise!PromiseNext
<1>1. Promise!ReportUnknown(S)
      BY DEF Promise!ReportUnknown, SameReport
<1>2. QED
      BY <1>1 DEF Promise!PromiseNext

\* A lost call is an acceptance nobody reports, or nothing.
LEMMA PromiseLostCall ==
    ASSUME TypeOK, OutboxInv, NEW w \in Workers, LostCall(w), UNCHANGED row
    PROVE  Promise!PromiseNext \/ UNCHANGED Promise!promiseVars
<1>1. \A k \in Jobs : SameReport(k)
      BY DEF SameReport
<1>2. CASE UNCHANGED accepts
      BY <1>1, <1>2, PromiseStutter
<1>3. ASSUME NEW j \in Jobs, accepts[j] = 0, accepts'[j] = 1,
             \A k \in Jobs \ {j} : accepts'[k] = accepts[k],
             row[j].status = "processing" \/ Unknown(row[j])
      PROVE  Promise!PromiseNext
      <2>1. accepts' = [accepts EXCEPT ![j] = 1]
            BY <1>3, LostCallType DEF TypeOK
      <2>2. Report(row[j]) \in {"open", "unknown"}
            BY <1>3 DEF Report, Unknown
      <2>3. QED
            BY <1>1, <1>3, <2>1, <2>2, PromiseAccept
<1>4. QED
      BY <1>2, <1>3, LostCallEffect

LEMMA PromiseSend ==
    ASSUME TypeOK, OutboxInv, NEW w \in Workers, Send(w)
    PROVE  Promise!PromiseNext \/ UNCHANGED Promise!promiseVars
<1>1. \E accepted \in BOOLEAN : Delivered(current[w], accepted)
      BY DEF Send, PossiblyAccepted, Outcomes
<1>2. LostCall(w) /\ UNCHANGED row
      <2>1. CASE Delivered(current[w], TRUE)
            BY <2>1 DEF LostCall, Send
      <2>2. CASE Delivered(current[w], FALSE)
            BY <2>2 DEF LostCall, Delivered, TypeOK, Send
      <2>3. QED
            BY <1>1, <2>1, <2>2
<1>3. QED
      BY <1>2, PromiseLostCall

LEMMA PromiseDrop ==
    ASSUME TypeOK, OutboxInv, NEW w \in Workers, NEW j \in Jobs,
           Delivering(w, j), UNCHANGED accepts,
           NEW code, code # "telegram_delivery_outcome_unknown",
           row' = row \/ row' = [row EXCEPT ![j] = MarkFailed(row[j], code)]
    PROVE  Promise!PromiseNext \/ UNCHANGED Promise!promiseVars
<1>1. row \in [Jobs -> Row] /\ row[j] \in Row
      BY DEF TypeOK
<1>2. \A k \in Jobs \ {j} : SameReport(k)
      BY <1>1 DEF SameReport
<1>3. accepts[j] = 0
      BY DEF OutboxInv, AnswerInv, Delivering, Holds
<1>4. CASE row'[j] = row[j]
      BY <1>2, <1>4, PromiseStutter DEF SameReport
<1>5. CASE row'[j] # row[j]
      <2>1. /\ row[j].status = "processing"
            /\ row'[j].status = "failed" /\ row'[j].code = code
            BY <1>1, <1>5, MarkFailedEffect
      <2>2. Report(row[j]) = "open" /\ Report(row'[j]) = "failed"
            BY <2>1 DEF Report
      <2>3. QED
            BY <1>2, <1>3, <2>2, PromiseReport
<1>6. QED
      BY <1>4, <1>5

LEMMA PromiseRecord ==
    ASSUME TypeOK, OutboxInv, NEW w \in Workers, RecordDelivery(w)
    PROVE  Promise!PromiseNext \/ UNCHANGED Promise!promiseVars
<1>0. PICK j \in Jobs : j = current[w]
      BY DEF RecordDelivery, OutboxInv, WorkerInv
<1>1. pc[w] = "record" /\ Holds(w, j) /\ answer[w] \in Outcomes
      BY <1>0 DEF RecordDelivery, OutboxInv, WorkerInv
<1>2. row' = [row EXCEPT ![j] = OutcomeRow(w, j)] /\ UNCHANGED accepts
      BY <1>0 DEF RecordDelivery
<1>3. row \in [Jobs -> Row] /\ row[j] \in Row
      BY DEF TypeOK
<1>4. row'[j] = OutcomeRow(w, j) /\ \A k \in Jobs \ {j} : SameReport(k)
      BY <1>2, <1>3 DEF SameReport
<1>5. /\ answer[w] = "SENT" => accepts[j] = 1
      /\ answer[w] \notin {"SENT", "UNCERTAIN"} => accepts[j] = 0
      BY <1>0, <1>1 DEF OutboxInv, AnswerInv
<1>6. CASE row[j].status # "processing"
      <2>1. OutcomeRow(w, j) = row[j]
            BY <1>3, <1>6, MarkSentEffect, MarkFailedEffect, MarkRetryWaitEffect
            DEF OutcomeRow
      <2>2. QED
            BY <1>2, <1>4, <2>1, PromiseStutter DEF SameReport
<1>7. CASE row[j].status = "processing" /\ answer[w] = "SENT"
      <2>1. OutcomeRow(w, j).status = "sent"
            BY <1>3, <1>7, MarkSentEffect DEF OutcomeRow
      <2>2. Report(row[j]) = "open" /\ Report(row'[j]) = "sent"
            BY <1>4, <1>7, <2>1 DEF Report
      <2>3. QED
            BY <1>2, <1>4, <1>5, <1>7, <2>2, PromiseReport
<1>8. CASE row[j].status = "processing" /\ answer[w] = "UNCERTAIN"
      <2>1. Unknown(OutcomeRow(w, j))
            BY <1>3, <1>8, MarkFailedEffect DEF OutcomeRow, Unknown
      <2>2. Report(row[j]) = "open" /\ Report(row'[j]) = "unknown"
            BY <1>4, <1>8, <2>1 DEF Report, Unknown
      <2>3. QED
            <3>1. /\ {j} \in SUBSET Jobs
                  /\ \A k \in {j} : Report(row[k]) = "open" /\ Report(row'[k]) = "unknown"
                  BY <2>2
            <3>2. QED
                  BY ONLY <1>2, <1>4, <3>1, PromiseGiveUp
<1>9. CASE row[j].status = "processing" /\ answer[w] \notin {"SENT", "UNCERTAIN"}
      <2>1. \/ /\ OutcomeRow(w, j).status = "failed"
               /\ OutcomeRow(w, j).code # "telegram_delivery_outcome_unknown"
            \/ OutcomeRow(w, j).status = "retry_wait"
            BY <1>1, <1>3, <1>9, MarkFailedEffect, MarkRetryWaitEffect
            DEF OutcomeRow, Outcomes
      <2>2. Report(row[j]) = "open" /\ Report(row'[j]) \in {"failed", "open"}
            BY <1>4, <1>9, <2>1 DEF Report
      <2>3. CASE Report(row'[j]) = "failed"
            BY <1>2, <1>4, <1>5, <1>9, <2>2, <2>3, PromiseReport
      <2>4. CASE Report(row'[j]) = "open"
            BY <1>2, <1>4, <2>2, <2>4, PromiseStutter DEF SameReport
      <2>5. QED
            BY <2>2, <2>3, <2>4
<1>10. QED
      BY <1>6, <1>7, <1>8, <1>9

LEMMA PromiseRecover ==
    ASSUME TypeOK, OutboxInv, NEW w \in Workers, RecoverStale(w)
    PROVE  Promise!PromiseNext \/ UNCHANGED Promise!promiseVars
<1> DEFINE S == {k \in Jobs : row'[k] # row[k]}
<1>1. \A k \in Jobs : \/ row'[k] = row[k]
                      \/ row[k].status = "processing" /\ Unknown(row'[k])
      BY RecoveredEffect DEF RecoverStale, TypeOK
<1>2. \A k \in Jobs \ S : SameReport(k)
      BY DEF SameReport
<1>3. \A k \in S : Report(row[k]) = "open" /\ Report(row'[k]) = "unknown"
      BY <1>1 DEF Report, Unknown
<1>4. S \in SUBSET Jobs /\ UNCHANGED accepts
      BY DEF RecoverStale
<1> HIDE DEF S
<1>5. QED
      BY <1>2, <1>3, <1>4, PromiseGiveUp

LEMMA PromiseClaim ==
    ASSUME TypeOK, OutboxInv, NEW w \in Workers, Claim(w) \/ ClaimAcknowledgementLost(w)
    PROVE  UNCHANGED Promise!promiseVars
<1>1. PICK S \in SUBSET Jobs :
          ClaimBatch(S) /\ ClaimCommits(S) /\ row' = ClaimRows(S, w)
      BY DEF Claim, ClaimAcknowledgementLost
<1>2. \A k \in Jobs : SameReport(k)
      BY <1>1, ClaimRowsEffect DEF SameReport, Report, Waiting
<1>3. QED
      BY <1>2, PromiseStutter DEF Claim, ClaimAcknowledgementLost

LEMMA PromiseStep ==
    ASSUME TypeOK, OutboxInv, [Next]_vars
    PROVE  Promise!PromiseNext \/ UNCHANGED Promise!promiseVars
<1>1. row \in [Jobs -> Row]
      BY DEF TypeOK
<1>2. ASSUME UNCHANGED <<row, accepts>> PROVE UNCHANGED Promise!promiseVars
      BY <1>2, PromiseStutter DEF SameReport
<1>3. ASSUME NEW j \in Jobs, Enqueue(j) PROVE Promise!PromiseNext
      BY <1>1, <1>3, PromiseQueue DEF Enqueue, NoRow, Report, SameReport
<1>4. ASSUME NEW j \in Jobs, LockAges(j) \/ BecomesDue(j)
      PROVE  UNCHANGED Promise!promiseVars
      <2>1. row[j] \in Row
            BY <1>1
      <2>2. \/ row' = [row EXCEPT ![j] = [row[j] EXCEPT !.stale = TRUE]]
            \/ row' = [row EXCEPT ![j] = [row[j] EXCEPT !.due = TRUE]]
            BY <1>4 DEF LockAges, BecomesDue
      <2>3. \A k \in Jobs : /\ row'[k].status = row[k].status
                            /\ row'[k].code = row[k].code
            BY <1>1, <2>1, <2>2 DEF Row
      <2>4. QED
            BY <1>4, <2>3, PromiseStutter DEF SameReport, Report, LockAges, BecomesDue
<1>5. ASSUME NEW w \in Workers, RecoverStale(w)
      PROVE  Promise!PromiseNext \/ UNCHANGED Promise!promiseVars
      BY <1>5, PromiseRecover
<1>6. ASSUME NEW w \in Workers, Claim(w) \/ ClaimAcknowledgementLost(w)
      PROVE  UNCHANGED Promise!promiseVars
      BY <1>6, PromiseClaim
<1>7. ASSUME NEW w \in Workers, NEW j \in Jobs,
             FailBeforeProvider(w, j) \/ CheckDestination(w, j) \/ PreparePreset(w, j)
      PROVE  Promise!PromiseNext \/ UNCHANGED Promise!promiseVars
      <2>1. /\ Delivering(w, j)
            /\ UNCHANGED accepts
            BY <1>7 DEF FailBeforeProvider, CheckDestination, PreparePreset
      <2>2. PresetProblem(j) # "telegram_delivery_outcome_unknown" \/ ~PreparePreset(w, j)
            BY DEF PreparePreset, PresetProblem, TypeOK, ConsentProblems
      <2>3. \E c : /\ c # "telegram_delivery_outcome_unknown"
                   /\ row' = row \/ row' = [row EXCEPT ![j] = MarkFailed(row[j], c)]
            <3>1. CASE FailBeforeProvider(w, j)
                  BY <3>1 DEF FailBeforeProvider
            <3>2. CASE CheckDestination(w, j)
                  BY <3>2 DEF CheckDestination, ReadyToSend
            <3>3. CASE PreparePreset(w, j)
                  BY <2>2, <3>3 DEF PreparePreset, ReadyToSend
            <3>4. QED
                  BY <1>7, <3>1, <3>2, <3>3
      <2>4. QED
            BY <2>1, <2>3, PromiseDrop
<1>8. ASSUME NEW w \in Workers, Send(w)
      PROVE  Promise!PromiseNext \/ UNCHANGED Promise!promiseVars
      BY <1>8, PromiseSend
<1>9. ASSUME NEW w \in Workers, RecordDelivery(w)
      PROVE  Promise!PromiseNext \/ UNCHANGED Promise!promiseVars
      BY <1>9, PromiseRecord
<1>10. ASSUME NEW w \in Workers, DeliveryError(w) \/ Crash(w)
      PROVE  Promise!PromiseNext \/ UNCHANGED Promise!promiseVars
      BY <1>10, PromiseLostCall DEF DeliveryError, Crash
<1>11. ASSUME NEW w \in Workers,
              Start(w) \/ RecoveryDue(w) \/ ClaimNothing(w) \/ RecoverStaleFails(w)
       PROVE  UNCHANGED Promise!promiseVars
      BY <1>2, <1>11 DEF Start, RecoveryDue, ClaimNothing, RecoverStaleFails
<1>12. ASSUME Environment PROVE Promise!PromiseNext \/ UNCHANGED Promise!promiseVars
      BY <1>2, <1>3, <1>12 DEF Environment, Disconnect, Reactivate, ChangeConsent
<1>13. CASE UNCHANGED vars
      BY <1>2, <1>13 DEF vars
<1>14. QED
      BY <1>4, <1>5, <1>6, <1>7, <1>8, <1>9, <1>10, <1>11, <1>12, <1>13
      DEF Next, TimePasses, WorkerStep, Fault

\* The outbox, its workers and their faults implement the delivery promise.
THEOREM OutboxImplementsPromise == Spec => ImplementsPromise
<1>1. Init => Promise!PromiseInit
      BY DEF Init, Promise!PromiseInit, NoRow, Report
<1>2. TypeOK /\ OutboxInv /\ [Next]_vars => [Promise!PromiseNext]_(Promise!promiseVars)
      BY PromiseStep
<1>3. QED
      BY <1>1, <1>2, TypeCorrect, OutboxInvariant, PTL
      DEF Spec, ImplementsPromise, Promise!PromiseSpec

=============================================================================
