--------------------------- MODULE HistoricalRuns ---------------------------
(***************************************************************************)
(* The life of historical analysis runs: creation and cancellation by the  *)
(* user, the separate worker that claims runs, prepares a dataset of       *)
(* canonical candles, validates it, simulates and publishes the report,    *)
(* the recovery of stale claims, corrections of candles meanwhile and the  *)
(* cleanup of old runs                                                     *)
(* (historical_analysis/{service,worker,datasets,coverage,cleanup}.py).    *)
(*                                                                         *)
(* One action is one transaction.  A candle is its revision, 0 if there is *)
(* none; a dataset, the input of a simulation and a report are the candle  *)
(* revisions they were made from.  Simulation itself is SimulationEngine.  *)
(***************************************************************************)
EXTENDS Integers, FiniteSets

CONSTANTS
    Runs,           \* one per (user, idempotency key)
    UserOf,         \* the user of each run
    Workers,
    Slots,          \* open times of the warm-up and analysis candles, ascending
    ActiveLimit,    \* MAXIMUM_ACTIVE_RUNS
    MaxAttempts,    \* max_attempts of a run
    ClaimLimit,     \* historical_analysis_worker_claim_limit
    MaxFaults,      \* bound: database errors and engine failures together
    MaxCrashes,     \* bound: workers that die with work in hand
    MaxCorrections, \* bound: corrected or expired candles
    Nobody, NoReport

ASSUME RunsAssumption ==
    /\ MaxAttempts \in Nat \ {0}
    /\ MaxFaults \in Nat
    /\ MaxCrashes \in Nat
    /\ MaxCorrections \in Nat
    /\ Nobody \notin Workers \union Slots \union Runs
    /\ NoReport \notin [Slots -> 1..(MaxCorrections + 1)]

VARIABLES
    row,        \* historical_analysis_runs
    dataset,    \* historical_analysis_datasets with their candle snapshots
    report,     \* historical_analysis_reports: what they were made from
    candle,     \* the current canonical candle of each slot
    correcting, \* the slot whose correction holds its row lock, if any
    worker,     \* what each worker process remembers
    budget      \* faults, crashes and corrections so far

vars == <<row, dataset, report, candle, correcting, worker, budget>>

Waiting == {"queued", "running"}
Settled == {"succeeded", "failed", "cancelled"}
Statuses == {"absent", "deleted"} \union Waiting \union Settled
WorkerSteps == {"begin", "prepare", "progress25", "validate", "load", "progress40",
                "simulate", "ensure", "publish", "failing"}
Steps == {"down", "starting", "claiming", "asleep", "next"} \union WorkerSteps
Snapshots == [Slots -> 1..(MaxCorrections + 1)]

NoDataset == [status |-> "none", snap |-> [s \in Slots |-> 1]]
NoInput == [s \in Slots |-> 1]
NewRow == [status |-> "queued", attempts |-> 0, owner |-> Nobody, stale |-> FALSE,
           due |-> TRUE, asked |-> FALSE]
Absent == [NewRow EXCEPT !.status = "absent"]
Down == [pc |-> "down", batch |-> {}, job |-> Nobody, input |-> NoInput, retry |-> FALSE]

Rows == [status: Statuses, attempts: 0..MaxAttempts, owner: Workers \union {Nobody},
         stale: BOOLEAN, due: BOOLEAN, asked: BOOLEAN]
Datasets == [status: {"none", "ready", "failed", "stale"}, snap: Snapshots]
Memories == [pc: Steps, batch: SUBSET Runs, job: Runs \union {Nobody}, input: Snapshots,
             retry: BOOLEAN]

TypeOK ==
    /\ row \in [Runs -> Rows]
    /\ dataset \in [Runs -> Datasets]
    /\ report \in [Runs -> Snapshots \union {NoReport}]
    /\ candle \in [Slots -> 0..(MaxCorrections + 1)]
    /\ correcting \in Slots \union {Nobody}
    /\ worker \in [Workers -> Memories]
    /\ \A w \in Workers : worker[w].pc \in WorkerSteps => worker[w].job \in Runs
    /\ budget \in [faults: 0..MaxFaults, crashes: 0..MaxCrashes,
                   corrections: 0..MaxCorrections]

Init ==
    /\ row = [r \in Runs |-> Absent]
    /\ dataset = [r \in Runs |-> NoDataset]
    /\ report = [r \in Runs |-> NoReport]
    /\ candle = [s \in Slots |-> 1]
    /\ correcting = Nobody
    /\ worker = [w \in Workers |-> Down]
    /\ budget = [faults |-> 0, crashes |-> 0, corrections |-> 0]

-----------------------------------------------------------------------------
(* Rows of runs *)

MarkCancelled(run) ==
    [run EXCEPT !.status = "cancelled", !.asked = TRUE, !.owner = Nobody, !.stale = FALSE]
MarkFailed(run) ==
    [run EXCEPT !.status = "failed", !.owner = Nobody, !.stale = FALSE]
\* _requeue: available again after the delay of this attempt
Requeue(run) ==
    [run EXCEPT !.status = "queued", !.owner = Nobody, !.stale = FALSE, !.due = FALSE]

MarkSucceeded(run) ==
    [run EXCEPT !.status = "succeeded", !.owner = Nobody, !.stale = FALSE]
Claim(run, w) ==
    [run EXCEPT !.status = "running", !.owner = w, !.stale = FALSE,
                !.attempts = @ + 1]

Claimable(run) ==
    run.status = "queued" /\ run.due /\ ~run.asked /\ run.attempts < MaxAttempts
\* Mutant: the cancellation is overlooked
RecoverUncancelled(run) ==
    IF run.attempts >= MaxAttempts THEN MarkFailed(run) ELSE Requeue(run)
\* what the recovery of a stale claim makes of a row
RecoverRow(run) ==
    IF run.asked THEN MarkCancelled(run)
    ELSE IF run.attempts >= MaxAttempts THEN MarkFailed(run)
    ELSE Requeue(run)
\* Mutant: exhausted rows are left alone
StaleClaimRetryable(run) ==
    run.status = "running" /\ run.stale /\ run.attempts < MaxAttempts
StaleClaim(run) == run.status = "running" /\ run.stale
\* requeue_or_fail_historical_analysis_run, of a row that is still claimed
RequeueOrFail(run, retryable) ==
    IF run.asked THEN MarkCancelled(run)
    ELSE IF retryable /\ run.attempts < MaxAttempts THEN Requeue(run)
    ELSE MarkFailed(run)
\* _get_claimed_run
Owns(w, r) == row[r].status = "running" /\ row[r].owner = w

-----------------------------------------------------------------------------
(* Requests of users.  The advisory lock of a user serialises creations.  *)

Active(u) == {r \in Runs : UserOf[r] = u /\ row[r].status \in Waiting}
\* get_historical_analysis_coverage: every candle of the exact range is there
Covered == \A s \in Slots : candle[s] > 0

Create(r) ==
    /\ row[r].status = "absent"
    /\ Covered
    /\ Cardinality(Active(UserOf[r])) < ActiveLimit
    /\ row' = [row EXCEPT ![r] = NewRow]
    /\ UNCHANGED <<dataset, report, candle, correcting, worker, budget>>

\* cancel_for_user under the row lock; a second request changes nothing
Cancel(r) ==
    /\ row[r].status \in Waiting
    /\ ~row[r].asked
    /\ row' = [row EXCEPT ![r] =
                  IF @.status = "queued" THEN MarkCancelled(@)
                  ELSE [@ EXCEPT !.asked = TRUE]]
    /\ UNCHANGED <<dataset, report, candle, correcting, worker, budget>>

\* the explicit cleanup: rows, datasets and reports of old settled runs
Cleanup(r) ==
    /\ row[r].status \in Settled
    /\ row' = [row EXCEPT ![r] = [Absent EXCEPT !.status = "deleted"]]
    /\ report' = [report EXCEPT ![r] = NoReport]
    /\ dataset' = [dataset EXCEPT ![r] = NoDataset]
    /\ UNCHANGED <<candle, correcting, worker, budget>>

-----------------------------------------------------------------------------
(* Time *)

\* locked_at passes the threshold: nothing a worker does renews it
LockAges(r) ==
    /\ row[r].status = "running"
    /\ ~row[r].stale
    /\ row' = [row EXCEPT ![r].stale = TRUE]
    /\ UNCHANGED <<dataset, report, candle, correcting, worker, budget>>

BecomesDue(r) ==
    /\ row[r].status = "queued"
    /\ ~row[r].due
    /\ row' = [row EXCEPT ![r].due = TRUE]
    /\ UNCHANGED <<dataset, report, candle, correcting, worker, budget>>

-----------------------------------------------------------------------------
(* Candles, as the market data processes change them *)

\* _replace_current_complete_candle: the current row is locked ...
BeginCorrection(s) ==
    /\ correcting = Nobody
    /\ candle[s] > 0
    /\ budget.corrections < MaxCorrections
    /\ correcting' = s
    /\ budget' = [budget EXCEPT !.corrections = @ + 1]
    /\ UNCHANGED <<row, dataset, report, candle, worker>>

\* ... and superseded by the next revision
Corrected == [candle EXCEPT ![correcting] = @ + 1]
EndCorrection ==
    /\ correcting # Nobody
    /\ candle' = Corrected
    /\ correcting' = Nobody
    /\ UNCHANGED <<row, dataset, report, worker, budget>>

\* delete_candle_revisions_before: candles no dataset refers to
Expire(s) ==
    /\ candle[s] > 0
    /\ correcting = Nobody
    /\ budget.corrections < MaxCorrections
    /\ \A r \in Runs : dataset[r].status \notin {"ready", "stale"}
    /\ candle' = [candle EXCEPT ![s] = 0]
    /\ budget' = [budget EXCEPT !.corrections = @ + 1]
    /\ UNCHANGED <<row, dataset, report, correcting, worker>>

-----------------------------------------------------------------------------
(* The worker *)

Job(w) == worker[w].job
At(w, step) == worker[w].pc = step
GoTo(w, step) == worker' = [worker EXCEPT ![w].pc = step]
Fail(w, retryable) ==
    worker' = [worker EXCEPT ![w].pc = "failing", ![w].retry = retryable]
\* the rest of _process_run is skipped: on to the next claimed run
JobDone(w) ==
    worker' = [worker EXCEPT ![w].pc = "next", ![w].job = Nobody, ![w].input = NoInput,
                             ![w].retry = FALSE]

Start(w) ==
    /\ At(w, "down")
    /\ GoTo(w, "starting")
    /\ UNCHANGED <<row, dataset, report, candle, correcting, budget>>

\* _recover_stale_runs, which run() calls once
Recover(w) ==
    /\ At(w, "starting")
    /\ row' = [r \in Runs |-> IF StaleClaim(row[r]) THEN RecoverRow(row[r]) ELSE row[r]]
    /\ GoTo(w, "claiming")
    /\ UNCHANGED <<dataset, report, candle, correcting, budget>>

ClaimRuns(w) ==
    /\ At(w, "claiming")
    /\ \E batch \in SUBSET {r \in Runs : Claimable(row[r])} :
        /\ \/ Cardinality(batch) = ClaimLimit
           \/ /\ Cardinality(batch) < ClaimLimit
              /\ batch = {r \in Runs : Claimable(row[r])}
        /\ row' = [r \in Runs |-> IF r \in batch THEN Claim(row[r], w) ELSE row[r]]
        /\ worker' = [worker EXCEPT ![w].batch = batch,
                                    ![w].pc = IF batch = {} THEN "asleep" ELSE "next"]
    /\ UNCHANGED <<dataset, report, candle, correcting, budget>>

WakeUp(w) ==
    /\ At(w, "asleep")
    /\ GoTo(w, "claiming")
    /\ UNCHANGED <<row, dataset, report, candle, correcting, budget>>

BatchDone(w) ==
    /\ At(w, "next")
    /\ worker[w].batch = {}
    /\ GoTo(w, "claiming")
    /\ UNCHANGED <<row, dataset, report, candle, correcting, budget>>

\* the claimed runs are processed one after another, the next one maybe long
\* after its claim
NextRun(w) ==
    /\ At(w, "next")
    /\ \E r \in worker[w].batch :
          worker' = [worker EXCEPT ![w].pc = "begin", ![w].job = r, ![w].batch = @ \ {r}]
    /\ UNCHANGED <<row, dataset, report, candle, correcting, budget>>

\* _ensure_running and _set_progress: on from one step to the next, or
\* acknowledge a cancellation; the lock is not renewed
EnsureRunning(w, step, next) ==
    /\ At(w, step)
    /\ row' = IF Owns(w, Job(w)) /\ row[Job(w)].asked
              THEN [row EXCEPT ![Job(w)] = MarkCancelled(@)] ELSE row
    /\ IF Owns(w, Job(w)) /\ ~row[Job(w)].asked THEN GoTo(w, next) ELSE JobDone(w)
    /\ UNCHANGED <<dataset, report, candle, correcting, budget>>

\* prepare_historical_analysis_dataset, given the candles its query returns;
\* it locks the run's row but does not ask who has claimed it
PrepareFrom(w, found) ==
    LET r == Job(w) IN
    IF dataset[r].status # "none"
    THEN /\ IF dataset[r].status = "ready" THEN GoTo(w, "progress25") ELSE Fail(w, FALSE)
         /\ UNCHANGED dataset
    ELSE IF row[r].status \notin Waiting \/ row[r].asked
    THEN Fail(w, TRUE) /\ UNCHANGED dataset
    ELSE IF \A s \in Slots : found[s] > 0
    THEN /\ dataset' = [dataset EXCEPT ![r] = [status |-> "ready", snap |-> found]]
         /\ GoTo(w, "progress25")
    ELSE /\ dataset' = [dataset EXCEPT ![r] = [NoDataset EXCEPT !.status = "failed"]]
         /\ Fail(w, FALSE)

Prepare(w) ==
    /\ At(w, "prepare")
    /\ correcting = Nobody
    /\ PrepareFrom(w, candle)
    /\ UNCHANGED <<row, report, candle, correcting, budget>>

\* The query waits for the row a correction has locked.  When it commits the
\* row is no longer current, and its replacement is not in the snapshot.
PrepareAfterWait(w) ==
    /\ At(w, "prepare")
    /\ correcting # Nobody
    /\ PrepareFrom(w, [candle EXCEPT ![correcting] = 0])
    /\ candle' = Corrected
    /\ correcting' = Nobody
    /\ UNCHANGED <<row, report, budget>>

\* the snapshot is still what the current candles are
Current(r) == \A s \in Slots : dataset[r].snap[s] = candle[s]
\* Mutant: only the status of the dataset is looked at
ValidatesStatus(r) == dataset[r].status = "ready"
Validates(r) == dataset[r].status = "ready" /\ Current(r)
\* _validate_..._in_transaction marks a ready dataset that no longer matches
Revalidated(r) ==
    IF dataset[r].status = "ready" /\ ~Current(r)
    THEN [dataset EXCEPT ![r].status = "stale"] ELSE dataset

Validate(w) ==
    /\ At(w, "validate")
    /\ correcting = Nobody
    /\ dataset' = Revalidated(Job(w))
    /\ IF Validates(Job(w)) THEN GoTo(w, "load") ELSE Fail(w, dataset[Job(w)].status = "none")
    /\ UNCHANGED <<row, report, candle, correcting, budget>>

Load(w) ==
    /\ At(w, "load")
    /\ IF dataset[Job(w)].status = "none" THEN Fail(w, FALSE)
       ELSE worker' = [worker EXCEPT ![w].pc = "progress40",
                                     ![w].input = dataset[Job(w)].snap]
    /\ UNCHANGED <<row, dataset, report, candle, correcting, budget>>

Simulate(w) ==
    /\ At(w, "simulate")
    /\ GoTo(w, "ensure")
    /\ UNCHANGED <<row, dataset, report, candle, correcting, budget>>

\* the engine raises, or does not answer "success"
EngineFails(w) ==
    /\ At(w, "simulate")
    /\ budget.faults < MaxFaults
    /\ budget' = [budget EXCEPT !.faults = @ + 1]
    /\ Fail(w, FALSE)
    /\ UNCHANGED <<row, dataset, report, candle, correcting>>

\* Mutant: the rows of the report are written before the dataset is checked
PublishFirst(r, input) ==
    /\ report' = [report EXCEPT ![r] = input]
    /\ row' = [row EXCEPT ![r] =
                  IF Validates(r) THEN MarkSucceeded(@) ELSE RequeueOrFail(@, FALSE)]
    /\ UNCHANGED dataset
\* _publish_report after the claim and the cancellation have been checked
PublishClaimed(r, input) ==
    IF ~Validates(r) \/ dataset[r].snap # input
    THEN /\ row' = [row EXCEPT ![r] = RequeueOrFail(@, dataset[r].status = "none")]
         /\ dataset' = IF dataset[r].status = "ready"
                       THEN [dataset EXCEPT ![r].status = "stale"] ELSE dataset
         /\ UNCHANGED report
    ELSE IF report[r] \notin {NoReport, input}
    THEN /\ row' = [row EXCEPT ![r] = RequeueOrFail(@, FALSE)]
         /\ UNCHANGED <<dataset, report>>
    ELSE /\ report' = [report EXCEPT ![r] = input]
         /\ row' = [row EXCEPT ![r] = MarkSucceeded(@)]
         /\ UNCHANGED dataset

\* one transaction; the candle rows stay share-locked to its end
PublishReport(w) ==
    /\ At(w, "publish")
    /\ LET r == Job(w) IN
       IF ~Owns(w, r) THEN UNCHANGED <<row, dataset, report>>
       ELSE IF row[r].asked
       THEN /\ row' = [row EXCEPT ![r] = MarkCancelled(@)]
            /\ UNCHANGED <<dataset, report>>
       ELSE correcting = Nobody /\ PublishClaimed(r, worker[w].input)
    /\ JobDone(w)
    /\ UNCHANGED <<candle, correcting, budget>>

HandleFailure(w) ==
    /\ At(w, "failing")
    /\ row' = IF Owns(w, Job(w))
              THEN [row EXCEPT ![Job(w)] = RequeueOrFail(@, worker[w].retry)] ELSE row
    /\ JobDone(w)
    /\ UNCHANGED <<dataset, report, candle, correcting, budget>>

-----------------------------------------------------------------------------
(* Failures *)

\* A database error: swallowed by the recovery, taken for "no work" by the
\* claim, handled as a retryable failure while a run is processed, and
\* swallowed again when even that cannot be recorded.
DatabaseFault(w) ==
    /\ worker[w].pc \in {"starting", "claiming"} \union (WorkerSteps \ {"simulate"})
    /\ budget.faults < MaxFaults
    /\ budget' = [budget EXCEPT !.faults = @ + 1]
    /\ CASE At(w, "starting") -> GoTo(w, "claiming")
         [] At(w, "claiming") -> GoTo(w, "asleep")
         [] At(w, "failing") -> JobDone(w)
         [] OTHER -> Fail(w, TRUE)
    /\ UNCHANGED <<row, dataset, report, candle, correcting>>

\* the process dies, or is told to stop and leaves claimed runs behind
Crash(w) ==
    /\ worker[w].pc \notin {"down", "asleep"}
    /\ budget.crashes < MaxCrashes
    /\ budget' = [budget EXCEPT !.crashes = @ + 1]
    /\ worker' = [worker EXCEPT ![w] = Down]
    /\ UNCHANGED <<row, dataset, report, candle, correcting>>

\* request_shutdown while there is nothing to do
Stop(w) ==
    /\ At(w, "asleep")
    /\ worker' = [worker EXCEPT ![w] = Down]
    /\ UNCHANGED <<row, dataset, report, candle, correcting, budget>>

-----------------------------------------------------------------------------
WorkerStep(w) ==
    \/ Recover(w) \/ ClaimRuns(w) \/ NextRun(w) \/ BatchDone(w)
    \/ EnsureRunning(w, "begin", "prepare") \/ Prepare(w) \/ PrepareAfterWait(w)
    \/ EnsureRunning(w, "progress25", "validate") \/ Validate(w) \/ Load(w)
    \/ EnsureRunning(w, "progress40", "simulate") \/ Simulate(w)
    \/ EnsureRunning(w, "ensure", "publish") \/ PublishReport(w) \/ HandleFailure(w)

Next ==
    \/ \E r \in Runs : Create(r) \/ Cancel(r) \/ Cleanup(r) \/ LockAges(r) \/ BecomesDue(r)
    \/ \E s \in Slots : BeginCorrection(s) \/ Expire(s)
    \/ EndCorrection
    \/ \E w \in Workers :
        \/ Start(w) \/ WorkerStep(w) \/ WakeUp(w) \/ EngineFails(w)
        \/ DatabaseFault(w) \/ Crash(w) \/ Stop(w)

Spec == Init /\ [][Next]_vars

\* A process that runs makes progress and wakes up, clocks advance, and the
\* transaction of a correction ends.  Nothing starts or stops a worker.
FairSpec ==
    /\ Spec
    /\ \A w \in Workers : WF_vars(WorkerStep(w)) /\ WF_vars(WakeUp(w))
    /\ \A r \in Runs : WF_vars(LockAges(r)) /\ WF_vars(BecomesDue(r))
    /\ WF_vars(EndCorrection)

-----------------------------------------------------------------------------
(* Properties *)

\* A report exists exactly for a succeeded run: rows of a report and the
\* transition are one transaction, whoever else works on the run.
ReportIffSucceeded ==
    \A r \in Runs : report[r] # NoReport <=> row[r].status = "succeeded"

\* A queued run can be claimed once it is due: it has an attempt left and no
\* cancellation is pending that nobody would ever acknowledge.
QueuedCanBeClaimed ==
    \A r \in Runs : row[r].status = "queued" =>
        row[r].attempts < MaxAttempts /\ ~row[r].asked /\ row[r].owner = Nobody

\* The claim and the lock agree: a run is held by a worker exactly while it is
\* running, so a worker whose claim was taken away can write nothing.
RunningIsOwned ==
    \A r \in Runs : row[r].status = "running" <=> row[r].owner # Nobody

\* Every revision of a candle is one correction that has begun, so the bound on
\* corrections bounds the revisions.
RevisionsAreCounted ==
    /\ \A s \in Slots : candle[s] <= budget.corrections + 1
    /\ correcting # Nobody => candle[correcting] \in 1..budget.corrections

\* The inductive invariant of the runs: types, and the three facts above, whatever
\* overlaps with a claim, a cancellation, a recovery or a publication.
RunsInv ==
    /\ TypeOK
    /\ RevisionsAreCounted
    /\ ReportIffSucceeded
    /\ QueuedCanBeClaimed
    /\ RunningIsOwned

\* What is published was computed from the candles that are current at that
\* very moment, although it was read and simulated long before.
PublishedIsCurrent ==
    [][\A r \in Runs : report'[r] # report[r] /\ report'[r] # NoReport =>
          report'[r] = candle /\ correcting = Nobody]_vars

\* A run whose cancellation the user was promised never succeeds, and is not
\* put back into the queue by a retry or a recovery.
CancellationHolds ==
    [][\A r \in Runs : row[r].asked /\ row[r].status \in Waiting =>
          row'[r].asked /\ row'[r].status \in {"running", "cancelled"}]_vars

\* What the row of a run means to its user.
Answer(run) ==
    IF run.status = "absent" THEN "none"
    ELSE IF run.status \notin Waiting THEN run.status
    ELSE IF run.asked THEN "cancelling" ELSE "waiting"

Promise == INSTANCE AnalysisPromise WITH
    answer <- [r \in Runs |-> Answer(row[r])], result <- report, market <- candle

\* Claims, retries, recoveries and publications answer each run as promised: once, and
\* by what is true when it is answered.
ImplementsAnalyses == Promise!AnalysisSpec

\* Every run is answered as promised, and if workers are started again and again it
\* settles, whatever was lost or failed on the way: recovery happens only at the start
\* of a worker.
RestartsRecur == []<>(\E w \in Workers : At(w, "starting"))
RunsSettle ==
    /\ ImplementsAnalyses
    /\ RestartsRecur => \A r \in Runs : []<>(row[r].status \notin Waiting)

=============================================================================
