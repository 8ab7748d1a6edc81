------------------------ MODULE HistoricalRuns_proofs ------------------------
(***************************************************************************)
(* Proofs about HistoricalRuns, for every set of runs, workers and candles *)
(* and every bound.  What any step makes of the row and the report of one  *)
(* run is said once (RunMoves); the invariants of rows and reports and the *)
(* two action properties follow from that.                                 *)
(***************************************************************************)
EXTENDS HistoryWorkers, TLAPS, WellFoundedInduction, NaturalsInduction

LEMMA ConstantTypes ==
    /\ MaxAttempts \in Nat \ {0}
    /\ MaxFaults \in Nat
    /\ MaxCrashes \in Nat
    /\ MaxCorrections \in Nat
    /\ Nobody \notin Workers
    /\ Nobody \notin Slots
    /\ Nobody \notin Runs
    /\ NoReport \notin Snapshots
BY RunsAssumption DEF RunsAssumption, Snapshots

-----------------------------------------------------------------------------
(***************************************************************************)
(* The transitions of a row.                                               *)
(***************************************************************************)

\* Of a row that can be queued or is claimed: what RunsInv says of it.
RowOK(run) ==
    /\ run \in Rows
    /\ run.status = "queued" =>
          run.attempts < MaxAttempts /\ ~run.asked /\ run.owner = Nobody
    /\ run.status = "running" <=> run.owner # Nobody

\* A row that is closed or put back is held by nobody.
LEMMA MarkedRow ==
    ASSUME NEW run, RowOK(run)
    PROVE  /\ RowOK(MarkCancelled(run)) /\ MarkCancelled(run).status = "cancelled"
           /\ RowOK(MarkFailed(run)) /\ MarkFailed(run).status = "failed"
           /\ RowOK(MarkSucceeded(run)) /\ MarkSucceeded(run).status = "succeeded"
BY DEF RowOK, Rows, MarkCancelled, MarkFailed, MarkSucceeded, Statuses, Settled, Waiting

LEMMA RequeuedRow ==
    ASSUME NEW run, RowOK(run), run.attempts < MaxAttempts, ~run.asked
    PROVE  RowOK(Requeue(run)) /\ Requeue(run).status = "queued"
BY DEF RowOK, Rows, Requeue, Statuses, Settled, Waiting

LEMMA ClaimedRow ==
    ASSUME NEW run, RowOK(run), NEW w \in Workers, Claimable(run)
    PROVE  /\ RowOK(Claim(run, w))
           /\ Claim(run, w).status = "running"
           /\ Claim(run, w).asked = run.asked
<1>1. run.attempts + 1 \in 0..MaxAttempts
      BY ConstantTypes DEF RowOK, Rows, Claimable
<1>2. Claim(run, w) = [run EXCEPT !.status = "running", !.owner = w, !.stale = FALSE,
                                  !.attempts = run.attempts + 1]
      BY DEF Claim, RowOK, Rows
<1>3. /\ Claim(run, w).status = "running" /\ Claim(run, w).owner = w
      /\ Claim(run, w).asked = run.asked
      BY <1>2 DEF RowOK, Rows
<1>4. Claim(run, w) \in Rows
      BY <1>1, <1>2 DEF RowOK, Rows, Statuses, Waiting
<1>5. QED
      BY <1>3, <1>4, ConstantTypes DEF RowOK

\* A recovery, and a failure with or without a retry.
LEMMA PutBackRow ==
    ASSUME NEW run, RowOK(run), run.status = "running", NEW retryable \in BOOLEAN
    PROVE  /\ RowOK(RecoverRow(run))
           /\ RecoverRow(run).status \in {"queued", "failed", "cancelled"}
           /\ run.asked => RecoverRow(run) = MarkCancelled(run)
           /\ RowOK(RequeueOrFail(run, retryable))
           /\ RequeueOrFail(run, retryable).status \in {"queued", "failed", "cancelled"}
           /\ run.asked => RequeueOrFail(run, retryable) = MarkCancelled(run)
<1>1. run.attempts \in 0..MaxAttempts /\ run.asked \in BOOLEAN
      BY DEF RowOK, Rows
<1>2. CASE run.asked
      BY <1>2, MarkedRow DEF RecoverRow, RequeueOrFail
<1>3. CASE ~run.asked /\ run.attempts >= MaxAttempts
      BY <1>1, <1>3, MarkedRow, ConstantTypes DEF RecoverRow, RequeueOrFail
<1>4. CASE ~run.asked /\ run.attempts < MaxAttempts
      BY <1>1, <1>4, MarkedRow, RequeuedRow, ConstantTypes DEF RecoverRow, RequeueOrFail
<1>5. QED
      BY <1>1, <1>2, <1>3, <1>4, ConstantTypes

-----------------------------------------------------------------------------
(***************************************************************************)
(* What a step makes of one run.                                           *)
(***************************************************************************)

\* The transitions that leave the report alone.
RowMoves(old, new) ==
    \/ new = old
    \/ old.status = "absent" /\ new = NewRow
    \/ old.status \in Waiting /\ new = MarkCancelled(old)
    \/ old.status = "running" /\ new = [old EXCEPT !.asked = TRUE]
    \/ old.status = "running" /\ new = [old EXCEPT !.stale = TRUE]
    \/ old.status = "queued" /\ new = [old EXCEPT !.due = TRUE]
    \/ old.status = "running" /\ new = RecoverRow(old)
    \/ Claimable(old) /\ \E w \in Workers : new = Claim(old, w)
    \/ old.status = "running" /\ \E retryable \in BOOLEAN : new = RequeueOrFail(old, retryable)

Succeeds(r) ==
    /\ row[r].status = "running"
    /\ ~row[r].asked
    /\ row'[r] = MarkSucceeded(row[r])
    /\ report'[r] \in Snapshots
    /\ report'[r] = candle
    /\ correcting = Nobody

IsCleaned(r) ==
    /\ row[r].status \in Settled
    /\ row'[r] = [Absent EXCEPT !.status = "deleted"]
    /\ report'[r] = NoReport

RunMoves(r) ==
    \/ RowMoves(row[r], row'[r]) /\ report'[r] = report[r]
    \/ Succeeds(r)
    \/ IsCleaned(r)

RunsMove ==
    /\ row' = [r \in Runs |-> row'[r]]
    /\ report' = [r \in Runs |-> report'[r]]
    /\ \A r \in Runs : RunMoves(r)

\* Everything but a publication, a cleanup and an untouched row.
LEMMA Untouched ==
    ASSUME TypeOK, UNCHANGED <<row, report>>
    PROVE  RunsMove
BY DEF TypeOK, RunsMove, RunMoves, RowMoves

\* A step that changes the row of one run and no report.
LEMMA OneRowMoves ==
    ASSUME TypeOK, NEW q \in Runs, NEW new, RowMoves(row[q], new),
           row' = [row EXCEPT ![q] = new], UNCHANGED report
    PROVE  RunsMove
BY DEF TypeOK, RunsMove, RunMoves, RowMoves

LEMMA UserMoves ==
    ASSUME TypeOK, NEW q \in Runs,
           Create(q) \/ Cancel(q) \/ Cleanup(q) \/ LockAges(q) \/ BecomesDue(q)
    PROVE  RunsMove
<1>1. CASE Create(q)
      BY <1>1, OneRowMoves DEF Create, RowMoves
<1>2. CASE Cancel(q)
  <2>1. CASE row[q].status = "queued"
        BY <1>2, <2>1, OneRowMoves DEF Cancel, RowMoves
  <2>2. CASE row[q].status = "running"
        BY <1>2, <2>2, OneRowMoves DEF Cancel, RowMoves
  <2>3. QED
        BY <1>2, <2>1, <2>2 DEF Cancel, Waiting
<1>3. CASE Cleanup(q)
      BY <1>3 DEF Cleanup, RunsMove, RunMoves, RowMoves, IsCleaned, TypeOK
<1>4. CASE LockAges(q)
      BY <1>4, OneRowMoves DEF LockAges, RowMoves
<1>5. CASE BecomesDue(q)
      BY <1>5, OneRowMoves DEF BecomesDue, RowMoves
<1>6. QED
      BY <1>1, <1>2, <1>3, <1>4, <1>5

LEMMA EnsureMoves ==
    ASSUME TypeOK, NEW w \in Workers, NEW step \in WorkerSteps, NEW next \in Steps,
           EnsureRunning(w, step, next)
    PROVE  RunsMove
<1>1. Job(w) \in Runs
      BY DEF EnsureRunning, TypeOK, At, Job
<1>2. CASE Owns(w, Job(w)) /\ row[Job(w)].asked
  <2>1. RowMoves(row[Job(w)], MarkCancelled(row[Job(w)]))
        BY <1>2 DEF RowMoves, Owns, Waiting
  <2>2. row' = [row EXCEPT ![Job(w)] = MarkCancelled(row[Job(w)])] /\ UNCHANGED report
        BY <1>2 DEF EnsureRunning
  <2>3. QED
        BY <1>1, <2>1, <2>2, OneRowMoves
<1>3. CASE ~(Owns(w, Job(w)) /\ row[Job(w)].asked)
      BY <1>3, Untouched DEF EnsureRunning
<1>4. QED
      BY <1>2, <1>3

\* The candles a dataset was made from are the current ones when it validates.
LEMMA ValidatedIsCurrent ==
    ASSUME TypeOK, NEW r \in Runs, Validates(r)
    PROVE  dataset[r].snap = candle
BY DEF TypeOK, Validates, Current, Datasets, Snapshots

LEMMA PublishMoves ==
    ASSUME TypeOK, NEW w \in Workers, PublishReport(w)
    PROVE  RunsMove
<1> DEFINE q == Job(w)
<1>1. q \in Runs /\ worker[w].input \in Snapshots
      BY DEF PublishReport, TypeOK, At, Job, WorkerSteps, Memories
<1>2. CASE ~Owns(w, q)
      BY <1>2, Untouched DEF PublishReport
<1>3. CASE Owns(w, q) /\ row[q].asked
  <2>1. RowMoves(row[q], MarkCancelled(row[q]))
        BY <1>3 DEF RowMoves, Owns, Waiting
  <2>2. row' = [row EXCEPT ![q] = MarkCancelled(row[q])] /\ UNCHANGED report
        BY <1>3 DEF PublishReport
  <2>3. QED
        BY <1>1, <2>1, <2>2, OneRowMoves
<1>4. CASE Owns(w, q) /\ ~row[q].asked
  <2>1. row[q].status = "running" /\ correcting = Nobody
        BY <1>4 DEF PublishReport, Owns
  <2>2. PublishClaimed(q, worker[w].input)
        BY <1>4 DEF PublishReport
  <2>3. ASSUME NEW retryable \in BOOLEAN, UNCHANGED report,
               row' = [row EXCEPT ![q] = RequeueOrFail(row[q], retryable)]
        PROVE  RunsMove
    <3>1. RowMoves(row[q], RequeueOrFail(row[q], retryable))
          BY <2>1 DEF RowMoves
    <3>2. QED
          BY <1>1, <2>3, <3>1, OneRowMoves
  <2>4. CASE ~Validates(q) \/ dataset[q].snap # worker[w].input
        BY <2>2, <2>3, <2>4 DEF PublishClaimed
  <2>5. CASE /\ Validates(q) /\ dataset[q].snap = worker[w].input
             /\ report[q] \notin {NoReport, worker[w].input}
        BY <2>2, <2>3, <2>5 DEF PublishClaimed
  <2>6. CASE /\ Validates(q) /\ dataset[q].snap = worker[w].input
             /\ report[q] \in {NoReport, worker[w].input}
    <3>1. /\ row' = [row EXCEPT ![q] = MarkSucceeded(row[q])]
          /\ report' = [report EXCEPT ![q] = worker[w].input]
          BY <2>2, <2>6 DEF PublishClaimed
    <3>2. worker[w].input = candle
          BY <1>1, <2>6, ValidatedIsCurrent
    <3>3. Succeeds(q)
          BY <1>1, <1>4, <2>1, <3>1, <3>2 DEF Succeeds, TypeOK
    <3>4. ASSUME NEW r \in Runs, r # q
          PROVE  row'[r] = row[r] /\ report'[r] = report[r]
          BY <1>1, <3>1, <3>4 DEF TypeOK
    <3>5. /\ row' = [r \in Runs |-> row'[r]]
          /\ report' = [r \in Runs |-> report'[r]]
          BY <1>1, <3>1 DEF TypeOK
    <3>6. QED
          BY <3>3, <3>4, <3>5 DEF RunsMove, RunMoves, RowMoves
  <2>7. QED
        BY <2>4, <2>5, <2>6
<1>5. QED
      BY <1>2, <1>3, <1>4

LEMMA FailureMoves ==
    ASSUME TypeOK, NEW w \in Workers, HandleFailure(w)
    PROVE  RunsMove
<1> DEFINE q == Job(w)
           retryable == worker[w].retry
<1>1. q \in Runs /\ retryable \in BOOLEAN
      BY DEF HandleFailure, TypeOK, At, Job, WorkerSteps, Memories
<1>2. CASE Owns(w, q)
  <2>1. RowMoves(row[q], RequeueOrFail(row[q], retryable))
        BY <1>1, <1>2 DEF RowMoves, Owns
  <2>2. row' = [row EXCEPT ![q] = RequeueOrFail(row[q], retryable)] /\ UNCHANGED report
        BY <1>2 DEF HandleFailure
  <2>3. QED
        BY <1>1, <2>1, <2>2, OneRowMoves
<1>3. CASE ~Owns(w, q)
      BY <1>3, Untouched DEF HandleFailure
<1>4. QED
      BY <1>2, <1>3

LEMMA ClaimMoves ==
    ASSUME TypeOK, NEW w \in Workers, Recover(w) \/ ClaimRuns(w)
    PROVE  RunsMove
<1>1. CASE Recover(w)
      BY <1>1 DEF Recover, RunsMove, RunMoves, RowMoves, StaleClaim, TypeOK
<1>2. CASE ClaimRuns(w)
      BY <1>2 DEF ClaimRuns, RunsMove, RunMoves, RowMoves, TypeOK
<1>3. QED
      BY <1>1, <1>2

\* Every step of the system makes of every run one of the moves above.
LEMMA EveryStepMoves ==
    ASSUME TypeOK, [Next]_vars
    PROVE  RunsMove
<1>1. CASE UNCHANGED vars
      BY <1>1, Untouched DEF vars
<1>2. ASSUME NEW q \in Runs,
             Create(q) \/ Cancel(q) \/ Cleanup(q) \/ LockAges(q) \/ BecomesDue(q)
      PROVE  RunsMove
      BY <1>2, UserMoves
<1>3. CASE EndCorrection \/ \E s \in Slots : BeginCorrection(s) \/ Expire(s)
      BY <1>3, Untouched DEF EndCorrection, BeginCorrection, Expire
<1>4. ASSUME NEW w \in Workers, WorkerStep(w)
      PROVE  RunsMove
  <2>1. CASE \/ EnsureRunning(w, "begin", "prepare")
             \/ EnsureRunning(w, "progress25", "validate")
             \/ EnsureRunning(w, "progress40", "simulate")
             \/ EnsureRunning(w, "ensure", "publish")
        BY <2>1, EnsureMoves DEF WorkerSteps, Steps
  <2>2. CASE Recover(w) \/ ClaimRuns(w)
        BY <2>2, ClaimMoves
  <2>3. CASE PublishReport(w)
        BY <2>3, PublishMoves
  <2>4. CASE HandleFailure(w)
        BY <2>4, FailureMoves
  <2>5. CASE \/ NextRun(w) \/ BatchDone(w) \/ Prepare(w) \/ PrepareAfterWait(w)
             \/ Validate(w) \/ Load(w) \/ Simulate(w)
        BY <2>5, Untouched DEF NextRun, BatchDone, Prepare, PrepareAfterWait, Validate,
           Load, Simulate
  <2>6. QED
        BY <1>4, <2>1, <2>2, <2>3, <2>4, <2>5 DEF WorkerStep
<1>5. ASSUME NEW w \in Workers,
             \/ Start(w) \/ WakeUp(w) \/ EngineFails(w)
             \/ DatabaseFault(w) \/ Crash(w) \/ Stop(w)
      PROVE  RunsMove
      BY <1>5, Untouched DEF Start, WakeUp, EngineFails, DatabaseFault, Crash, Stop
<1>6. QED
      BY <1>1, <1>2, <1>3, <1>4, <1>5 DEF Next

-----------------------------------------------------------------------------
(***************************************************************************)
(* Rows and reports.                                                       *)
(***************************************************************************)

\* The parts of RunsInv that are about one run.
RunOK(r) ==
    /\ RowOK(row[r])
    /\ report[r] \in Snapshots \union {NoReport}
    /\ report[r] # NoReport <=> row[r].status = "succeeded"

LEMMA NewRows ==
    /\ RowOK(NewRow) /\ NewRow.status = "queued"
    /\ RowOK(Absent) /\ Absent.status = "absent"
    /\ RowOK([Absent EXCEPT !.status = "deleted"])
    /\ [Absent EXCEPT !.status = "deleted"].status = "deleted"
<1>1. 0 \in 0..MaxAttempts /\ 0 < MaxAttempts
      BY ConstantTypes
<1>2. NewRow \in Rows /\ NewRow.status = "queued" /\ NewRow.owner = Nobody
      BY <1>1 DEF NewRow, Rows, Statuses, Waiting
<1>3. RowOK(NewRow)
      BY <1>1, <1>2 DEF RowOK, NewRow
<1>4. ASSUME NEW run \in Rows, run.owner = Nobody, NEW status \in {"absent", "deleted"}
      PROVE  /\ RowOK([run EXCEPT !.status = status])
             /\ [run EXCEPT !.status = status].status = status
             /\ [run EXCEPT !.status = status].owner = Nobody
      BY <1>4 DEF RowOK, Rows, Statuses
<1>5. RowOK(Absent) /\ Absent.status = "absent" /\ Absent.owner = Nobody
      BY <1>2, <1>4 DEF Absent
<1>6. Absent \in Rows
      BY <1>5 DEF RowOK
<1>7. QED
      BY <1>2, <1>3, <1>4, <1>5, <1>6

LEMMA MovedRow ==
    ASSUME NEW old, NEW new, RowOK(old), RowMoves(old, new)
    PROVE  RowOK(new) /\ (new.status = "succeeded" <=> old.status = "succeeded")
<1>1. CASE new = old
      BY <1>1
<1>2. CASE old.status = "absent" /\ new = NewRow
      BY <1>2, NewRows
<1>3. CASE old.status \in Waiting /\ new = MarkCancelled(old)
      BY <1>3, MarkedRow DEF Waiting
<1>4. CASE \/ old.status = "running" /\ new = [old EXCEPT !.asked = TRUE]
           \/ old.status = "running" /\ new = [old EXCEPT !.stale = TRUE]
           \/ old.status = "queued" /\ new = [old EXCEPT !.due = TRUE]
      BY <1>4 DEF RowOK, Rows
<1>5. CASE old.status = "running" /\ new = RecoverRow(old)
  <2>1. RowOK(new) /\ new.status \in {"queued", "failed", "cancelled"}
        BY <1>5, PutBackRow
  <2>2. QED
        BY <1>5, <2>1
<1>6. CASE Claimable(old) /\ \E w \in Workers : new = Claim(old, w)
      BY <1>6, ClaimedRow DEF Claimable
<1>7. ASSUME old.status = "running", NEW retryable \in BOOLEAN, new = RequeueOrFail(old, retryable)
      PROVE  RowOK(new) /\ (new.status = "succeeded" <=> old.status = "succeeded")
  <2>1. RowOK(new) /\ new.status \in {"queued", "failed", "cancelled"}
        BY <1>7, PutBackRow
  <2>2. QED
        BY <1>7, <2>1
<1>8. QED
      BY <1>1, <1>2, <1>3, <1>4, <1>5, <1>6, <1>7 DEF RowMoves

LEMMA MovedRun ==
    ASSUME NEW r \in Runs, RunOK(r), RunMoves(r)
    PROVE  RunOK(r)'
<1>1. CASE RowMoves(row[r], row'[r]) /\ report'[r] = report[r]
      BY <1>1, MovedRow DEF RunOK
<1>2. CASE Succeeds(r)
  <2>1. RowOK(row'[r]) /\ row'[r].status = "succeeded"
        BY <1>2, MarkedRow DEF Succeeds, RunOK
  <2>2. report'[r] \in Snapshots /\ report'[r] # NoReport
        BY <1>2, ConstantTypes DEF Succeeds
  <2>3. QED
        BY <2>1, <2>2 DEF RunOK
<1>3. CASE IsCleaned(r)
      BY <1>3, NewRows DEF IsCleaned, RunOK
<1>4. QED
      BY <1>1, <1>2, <1>3 DEF RunMoves


-----------------------------------------------------------------------------
(***************************************************************************)
(* The other variables: datasets, candles, memories of workers, bounds.    *)
(***************************************************************************)

LEMMA NoDatasetType ==
    /\ NoInput \in Snapshots
    /\ NoDataset \in Datasets
    /\ [NoDataset EXCEPT !.status = "failed"] \in Datasets
<1>1. 1 \in 1..(MaxCorrections + 1)
      BY ConstantTypes
<1>2. NoInput \in Snapshots
      BY <1>1 DEF NoInput, Snapshots
<1>3. NoDataset = [status |-> "none", snap |-> NoInput]
      BY DEF NoDataset, NoInput
<1>4. QED
      BY <1>2, <1>3 DEF Datasets

\* What a worker may come to remember.
WorkersOK ==
    /\ worker \in [Workers -> Memories]
    /\ \A w \in Workers : worker[w].pc \in WorkerSteps => worker[w].job \in Runs

\* A worker goes on with the run it has, or with none.
LEMMA MemoryChanges ==
    ASSUME WorkersOK, NEW w \in Workers, NEW memory \in Memories,
           memory.pc \in WorkerSteps => memory.job \in Runs,
           worker' = [worker EXCEPT ![w] = memory]
    PROVE  WorkersOK'
BY DEF WorkersOK

LEMMA WorkerGoesTo ==
    ASSUME WorkersOK, NEW w \in Workers, NEW step \in Steps, GoTo(w, step),
           step \in WorkerSteps => worker[w].pc \in WorkerSteps
    PROVE  WorkersOK'
<1>1. worker' = [worker EXCEPT ![w] = [worker[w] EXCEPT !.pc = step]]
      BY DEF GoTo
<1>2. worker[w] \in Memories
      BY DEF WorkersOK
<1>3. [worker[w] EXCEPT !.pc = step] \in Memories
      BY <1>2 DEF Memories
<1>4. /\ [worker[w] EXCEPT !.pc = step].pc = step
      /\ [worker[w] EXCEPT !.pc = step].job = worker[w].job
      BY <1>2 DEF Memories
<1>5. step \in WorkerSteps => worker[w].job \in Runs
      BY DEF WorkersOK
<1>6. QED
      BY <1>1, <1>3, <1>4, <1>5, MemoryChanges

LEMMA WorkerFails ==
    ASSUME WorkersOK, NEW w \in Workers, worker[w].pc \in WorkerSteps,
           NEW retryable \in BOOLEAN, Fail(w, retryable)
    PROVE  WorkersOK'
<1> DEFINE memory == [worker[w] EXCEPT !.pc = "failing", !.retry = retryable]
<1>1. worker' = [worker EXCEPT ![w] = memory]
      BY DEF Fail, WorkersOK
<1>2. worker[w] \in Memories /\ worker[w].job \in Runs
      BY DEF WorkersOK
<1>3. memory \in Memories /\ memory.job = worker[w].job
      BY <1>2 DEF Memories, Steps, WorkerSteps
<1>4. QED
      BY <1>1, <1>2, <1>3, MemoryChanges

LEMMA WorkerIsDone ==
    ASSUME WorkersOK, NEW w \in Workers, JobDone(w)
    PROVE  WorkersOK'
<1> DEFINE memory == [worker[w] EXCEPT !.pc = "next", !.job = Nobody, !.input = NoInput,
                                       !.retry = FALSE]
<1>1. worker' = [worker EXCEPT ![w] = memory]
      BY DEF JobDone, WorkersOK
<1>2. worker[w] \in Memories
      BY DEF WorkersOK
<1>3. memory \in Memories /\ memory.pc = "next"
      BY <1>2, NoDatasetType DEF Memories, Steps
<1>4. QED
      BY <1>1, <1>3, MemoryChanges DEF WorkerSteps

BudgetOK == budget \in [faults: 0..MaxFaults, crashes: 0..MaxCrashes,
                        corrections: 0..MaxCorrections]

CandlesOK ==
    /\ candle \in [Slots -> 0..(MaxCorrections + 1)]
    /\ correcting \in Slots \union {Nobody}
    /\ RevisionsAreCounted

\* The part of RunsInv that is not about rows and reports.
RestOK ==
    /\ dataset \in [Runs -> Datasets]
    /\ CandlesOK
    /\ WorkersOK
    /\ BudgetOK

LEMMA RestUntouched ==
    ASSUME RestOK, UNCHANGED <<dataset, candle, correcting, worker, budget>>
    PROVE  RestOK'
BY DEF RestOK, CandlesOK, WorkersOK, BudgetOK, RevisionsAreCounted

LEMMA CandlesUntouched ==
    ASSUME CandlesOK, UNCHANGED <<candle, correcting, budget.corrections>>
    PROVE  CandlesOK'
BY DEF CandlesOK, RevisionsAreCounted

\* A fault or a crash is one more, within its bound.
LEMMA BudgetSpent ==
    ASSUME BudgetOK,
           \/ /\ budget.faults < MaxFaults
              /\ budget' = [budget EXCEPT !.faults = @ + 1]
           \/ /\ budget.crashes < MaxCrashes
              /\ budget' = [budget EXCEPT !.crashes = @ + 1]
    PROVE  BudgetOK' /\ budget'.corrections = budget.corrections
<1>1. /\ budget.faults \in 0..MaxFaults
      /\ budget.crashes \in 0..MaxCrashes
      BY DEF BudgetOK
<1>2. CASE /\ budget.faults < MaxFaults
           /\ budget' = [budget EXCEPT !.faults = @ + 1]
  <2>1. budget.faults + 1 \in 0..MaxFaults
        BY <1>1, <1>2, ConstantTypes
  <2>2. QED
        BY <1>2, <2>1 DEF BudgetOK
<1>3. CASE /\ budget.crashes < MaxCrashes
           /\ budget' = [budget EXCEPT !.crashes = @ + 1]
  <2>1. budget.crashes + 1 \in 0..MaxCrashes
        BY <1>1, <1>3, ConstantTypes
  <2>2. QED
        BY <1>3, <2>1 DEF BudgetOK
<1>4. QED
      BY <1>2, <1>3

LEMMA CorrectionBegins ==
    ASSUME RestOK, NEW s \in Slots, BeginCorrection(s)
    PROVE  RestOK'
<1>1. budget.corrections \in 0..MaxCorrections /\ budget.corrections < MaxCorrections
      BY DEF RestOK, BudgetOK, BeginCorrection
<1>2. budget.corrections + 1 \in 0..MaxCorrections
      BY <1>1, ConstantTypes
<1>3. BudgetOK' /\ budget'.corrections = budget.corrections + 1
      BY <1>2 DEF RestOK, BudgetOK, BeginCorrection
<1>4. CandlesOK'
  <2>1. \A t \in Slots : candle'[t] <= budget'.corrections + 1
        BY <1>1, <1>3 DEF RestOK, CandlesOK, RevisionsAreCounted, BeginCorrection
  <2>2. candle'[correcting'] \in 1..budget'.corrections
        BY <1>1, <1>3 DEF RestOK, CandlesOK, RevisionsAreCounted, BeginCorrection
  <2>3. QED
        BY <2>1, <2>2 DEF RestOK, CandlesOK, RevisionsAreCounted, BeginCorrection
<1>5. QED
      BY <1>3, <1>4 DEF RestOK, WorkersOK, BeginCorrection

\* The correction a process has begun is committed, by itself or while the
\* preparation of a dataset waits for it.
LEMMA CorrectionEnds ==
    ASSUME CandlesOK, BudgetOK, correcting # Nobody, candle' = Corrected,
           correcting' = Nobody, UNCHANGED budget
    PROVE  CandlesOK'
<1>1. correcting \in Slots /\ candle[correcting] \in 1..budget.corrections
      BY DEF CandlesOK, RevisionsAreCounted
<1>2. budget.corrections \in 0..MaxCorrections
      BY DEF BudgetOK
<1>3. candle' = [candle EXCEPT ![correcting] = candle[correcting] + 1]
      BY DEF Corrected
<1>4. candle[correcting] + 1 \in 0..(MaxCorrections + 1)
      BY <1>1, <1>2, ConstantTypes
<1>5. candle' \in [Slots -> 0..(MaxCorrections + 1)]
      BY <1>1, <1>3, <1>4 DEF CandlesOK
<1>6. \A t \in Slots : candle'[t] <= budget'.corrections + 1
      BY <1>1, <1>2, <1>3 DEF CandlesOK, RevisionsAreCounted
<1>7. QED
      BY <1>5, <1>6 DEF CandlesOK, RevisionsAreCounted

LEMMA CandleExpires ==
    ASSUME RestOK, NEW s \in Slots, Expire(s)
    PROVE  RestOK'
<1>1. budget.corrections \in 0..MaxCorrections /\ budget.corrections < MaxCorrections
      BY DEF RestOK, BudgetOK, Expire
<1>2. budget.corrections + 1 \in 0..MaxCorrections
      BY <1>1, ConstantTypes
<1>3. BudgetOK' /\ budget'.corrections = budget.corrections + 1
      BY <1>2 DEF RestOK, BudgetOK, Expire
<1>4. candle' \in [Slots -> 0..(MaxCorrections + 1)]
      BY ConstantTypes DEF RestOK, CandlesOK, Expire
<1>5. \A t \in Slots : candle'[t] <= budget'.corrections + 1
      BY <1>1, <1>3 DEF RestOK, CandlesOK, RevisionsAreCounted, Expire
<1>6. QED
      BY <1>3, <1>4, <1>5 DEF RestOK, CandlesOK, RevisionsAreCounted, WorkersOK, Expire

LEMMA UsersKeepRest ==
    ASSUME RestOK, NEW r \in Runs,
           Create(r) \/ Cancel(r) \/ Cleanup(r) \/ LockAges(r) \/ BecomesDue(r)
    PROVE  RestOK'
<1>1. CASE Create(r) \/ Cancel(r) \/ LockAges(r) \/ BecomesDue(r)
      BY <1>1, RestUntouched DEF Create, Cancel, LockAges, BecomesDue
<1>2. CASE Cleanup(r)
  <2>1. dataset' \in [Runs -> Datasets]
        BY <1>2, NoDatasetType DEF Cleanup, RestOK
  <2>2. QED
        BY <1>2, <2>1, CandlesUntouched DEF Cleanup, RestOK, WorkersOK, BudgetOK
<1>3. QED
      BY <1>1, <1>2

\* A step of a worker that leaves candles and bounds alone.
LEMMA WorkerKeepsRest ==
    ASSUME RestOK, WorkersOK', dataset' \in [Runs -> Datasets],
           UNCHANGED <<candle, correcting, budget>>
    PROVE  RestOK'
BY CandlesUntouched DEF RestOK, BudgetOK

LEMMA EnsureKeepsRest ==
    ASSUME RestOK, NEW w \in Workers, NEW step \in WorkerSteps, NEW next \in WorkerSteps,
           EnsureRunning(w, step, next)
    PROVE  RestOK'
<1>1. WorkersOK'
  <2>1. CASE GoTo(w, next)
        BY <2>1, WorkerGoesTo DEF EnsureRunning, At, Steps, RestOK
  <2>2. CASE JobDone(w)
        BY <2>2, WorkerIsDone DEF RestOK
  <2>3. QED
        BY <2>1, <2>2 DEF EnsureRunning
<1>2. QED
      BY <1>1, WorkerKeepsRest DEF EnsureRunning, RestOK

\* Every transition of a dataset stays among the four states of one.
LEMMA PreparedDataset ==
    ASSUME RestOK, NEW w \in Workers, At(w, "prepare"),
           NEW found \in [Slots -> 0..(MaxCorrections + 1)], PrepareFrom(w, found)
    PROVE  dataset' \in [Runs -> Datasets] /\ WorkersOK'
<1> DEFINE r == Job(w)
<1>1. r \in Runs /\ worker[w].pc \in WorkerSteps
      BY DEF RestOK, WorkersOK, At, Job, WorkerSteps
<1>2. CASE dataset[r].status # "none"
  <2>1. UNCHANGED dataset /\ (GoTo(w, "progress25") \/ Fail(w, FALSE))
        BY <1>2 DEF PrepareFrom
  <2>2. QED
        BY <1>1, <2>1, WorkerGoesTo, WorkerFails DEF RestOK, Steps, WorkerSteps
<1>3. CASE /\ dataset[r].status = "none"
           /\ row[r].status \notin Waiting \/ row[r].asked
  <2>1. UNCHANGED dataset /\ Fail(w, TRUE)
        BY <1>3 DEF PrepareFrom
  <2>2. QED
        BY <1>1, <2>1, WorkerFails DEF RestOK
<1>4. CASE /\ dataset[r].status = "none"
           /\ ~(row[r].status \notin Waiting \/ row[r].asked)
           /\ \A s \in Slots : found[s] > 0
  <2>1. /\ dataset' = [dataset EXCEPT ![r] = [status |-> "ready", snap |-> found]]
        /\ GoTo(w, "progress25")
        BY <1>4 DEF PrepareFrom
  <2>2. found \in Snapshots
        BY <1>4, ConstantTypes DEF Snapshots
  <2>3. [status |-> "ready", snap |-> found] \in Datasets
        BY <2>2 DEF Datasets
  <2>4. QED
        BY <1>1, <2>1, <2>3, WorkerGoesTo DEF RestOK, Steps, WorkerSteps
<1>5. CASE /\ dataset[r].status = "none"
           /\ ~(row[r].status \notin Waiting \/ row[r].asked)
           /\ ~(\A s \in Slots : found[s] > 0)
  <2>1. /\ dataset' = [dataset EXCEPT ![r] = [NoDataset EXCEPT !.status = "failed"]]
        /\ Fail(w, FALSE)
        BY <1>5 DEF PrepareFrom
  <2>2. QED
        BY <1>1, <2>1, NoDatasetType, WorkerFails DEF RestOK
<1>6. QED
      BY <1>2, <1>3, <1>4, <1>5

LEMMA PrepareKeepsRest ==
    ASSUME RestOK, NEW w \in Workers, Prepare(w) \/ PrepareAfterWait(w)
    PROVE  RestOK'
<1>1. CASE Prepare(w)
  <2>1. dataset' \in [Runs -> Datasets] /\ WorkersOK'
        BY <1>1, PreparedDataset DEF Prepare, RestOK, CandlesOK
  <2>2. QED
        BY <1>1, <2>1, WorkerKeepsRest DEF Prepare
<1>2. CASE PrepareAfterWait(w)
  <2>1. [candle EXCEPT ![correcting] = 0] \in [Slots -> 0..(MaxCorrections + 1)]
    <3>1. 0 \in 0..(MaxCorrections + 1)
          BY ConstantTypes
    <3>2. QED
          BY <3>1 DEF RestOK, CandlesOK
  <2>2. dataset' \in [Runs -> Datasets] /\ WorkersOK'
        BY <1>2, <2>1, PreparedDataset DEF PrepareAfterWait
  <2>3. CandlesOK'
        BY <1>2, CorrectionEnds DEF PrepareAfterWait, RestOK
  <2>4. QED
        BY <1>2, <2>2, <2>3 DEF PrepareAfterWait, RestOK, BudgetOK
<1>3. QED
      BY <1>1, <1>2

\* A dataset that no longer matches is marked.
LEMMA MarkedStale ==
    ASSUME NEW r \in Runs, dataset \in [Runs -> Datasets]
    PROVE  [dataset EXCEPT ![r].status = "stale"] \in [Runs -> Datasets]
BY DEF Datasets

LEMMA ValidateKeepsRest ==
    ASSUME RestOK, NEW w \in Workers, Validate(w) \/ Load(w) \/ Simulate(w)
    PROVE  RestOK'
<1>1. worker[w] \in Memories /\ Job(w) \in Runs /\ worker[w].pc \in WorkerSteps
      BY DEF RestOK, WorkersOK, Validate, Load, Simulate, At, Job, WorkerSteps
<1>2. CASE Validate(w)
  <2>1. dataset' \in [Runs -> Datasets]
        BY <1>1, <1>2, MarkedStale DEF Validate, Revalidated, RestOK
  <2>2. GoTo(w, "load") \/ \E retryable \in BOOLEAN : Fail(w, retryable)
        BY <1>2 DEF Validate
  <2>3. WorkersOK'
        BY <1>1, <2>2, WorkerGoesTo, WorkerFails DEF RestOK, Steps, WorkerSteps
  <2>4. QED
        BY <1>2, <2>1, <2>3, WorkerKeepsRest DEF Validate
<1>3. CASE Load(w)
  <2>1. CASE Fail(w, FALSE)
        BY <1>1, <1>3, <2>1, WorkerFails, WorkerKeepsRest DEF Load, RestOK
  <2>2. CASE worker' = [worker EXCEPT ![w].pc = "progress40",
                                      ![w].input = dataset[Job(w)].snap]
    <3> DEFINE memory == [worker[w] EXCEPT !.pc = "progress40",
                                           !.input = dataset[Job(w)].snap]
    <3>1. worker' = [worker EXCEPT ![w] = memory]
          BY <2>2 DEF RestOK, WorkersOK
    <3>2. dataset[Job(w)].snap \in Snapshots
          BY <1>1 DEF RestOK, Datasets
    <3>3. memory \in Memories /\ memory.job = Job(w)
          BY <1>1, <3>2 DEF Memories, Steps, WorkerSteps, Job
    <3>4. WorkersOK'
          BY <1>1, <3>1, <3>3, MemoryChanges DEF RestOK
    <3>5. QED
          BY <1>3, <3>4, WorkerKeepsRest DEF Load, RestOK
  <2>3. QED
        BY <1>3, <2>1, <2>2 DEF Load
<1>4. CASE Simulate(w)
  <2>1. WorkersOK'
        BY <1>1, <1>4, WorkerGoesTo DEF Simulate, RestOK, Steps, WorkerSteps
  <2>2. QED
        BY <1>4, <2>1, WorkerKeepsRest DEF Simulate, RestOK
<1>5. QED
      BY <1>2, <1>3, <1>4

LEMMA PublishKeepsRest ==
    ASSUME RestOK, NEW w \in Workers, PublishReport(w) \/ HandleFailure(w)
    PROVE  RestOK'
<1>1. WorkersOK' /\ UNCHANGED <<candle, correcting, budget>>
      BY WorkerIsDone DEF PublishReport, HandleFailure, RestOK
<1>2. Job(w) \in Runs
      BY DEF RestOK, WorkersOK, PublishReport, HandleFailure, At, Job, WorkerSteps
<1>3. \/ UNCHANGED dataset
      \/ dataset' = [dataset EXCEPT ![Job(w)].status = "stale"]
      BY DEF PublishReport, PublishClaimed, HandleFailure
<1>4. dataset' \in [Runs -> Datasets]
      BY <1>2, <1>3, MarkedStale DEF RestOK
<1>5. QED
      BY <1>1, <1>4, WorkerKeepsRest

\* The steps between two runs, and the life of the process.
LEMMA IdleKeepsRest ==
    ASSUME RestOK, NEW w \in Workers,
           \/ Start(w) \/ Recover(w) \/ WakeUp(w) \/ BatchDone(w)
    PROVE  RestOK'
<1>1. WorkersOK'
      BY WorkerGoesTo DEF Start, Recover, WakeUp, BatchDone, RestOK, Steps, WorkerSteps
<1>2. QED
      BY <1>1, WorkerKeepsRest DEF Start, Recover, WakeUp, BatchDone, RestOK

LEMMA ClaimKeepsRest ==
    ASSUME RestOK, NEW w \in Workers, ClaimRuns(w) \/ NextRun(w)
    PROVE  RestOK'
<1>1. worker[w] \in Memories
      BY DEF RestOK, WorkersOK
<1>2. ASSUME ClaimRuns(w)
      PROVE  WorkersOK'
  <2>1. PICK batch \in SUBSET Runs :
            worker' = [worker EXCEPT ![w].batch = batch,
                                     ![w].pc = IF batch = {} THEN "asleep" ELSE "next"]
        BY <1>2 DEF ClaimRuns
  <2> DEFINE memory == [worker[w] EXCEPT !.batch = batch,
                                         !.pc = IF batch = {} THEN "asleep" ELSE "next"]
  <2>2. worker' = [worker EXCEPT ![w] = memory]
        BY <2>1 DEF RestOK, WorkersOK
  <2>3. memory \in Memories /\ memory.pc \in {"asleep", "next"}
        BY <1>1 DEF Memories, Steps
  <2>4. QED
        BY <2>2, <2>3, MemoryChanges DEF RestOK, WorkerSteps
<1>3. ASSUME NextRun(w)
      PROVE  WorkersOK'
  <2>1. PICK r \in worker[w].batch :
            worker' = [worker EXCEPT ![w].pc = "begin", ![w].job = r, ![w].batch = @ \ {r}]
        BY <1>3 DEF NextRun
  <2> DEFINE memory == [worker[w] EXCEPT !.pc = "begin", !.job = r,
                                         !.batch = worker[w].batch \ {r}]
  <2>2. worker' = [worker EXCEPT ![w] = memory]
        BY <2>1 DEF RestOK, WorkersOK
  <2>3. memory \in Memories /\ memory.job \in Runs
        BY <1>1, <2>1 DEF Memories, Steps, WorkerSteps
  <2>4. QED
        BY <2>2, <2>3, MemoryChanges DEF RestOK
<1>4. QED
      BY <1>2, <1>3, WorkerKeepsRest DEF ClaimRuns, NextRun, RestOK

LEMMA FaultsKeepRest ==
    ASSUME RestOK, NEW w \in Workers,
           EngineFails(w) \/ DatabaseFault(w) \/ Crash(w) \/ Stop(w)
    PROVE  RestOK'
<1>1. Down \in Memories /\ Down.pc = "down"
      BY NoDatasetType DEF Down, Memories, Steps
<1>2. CASE EngineFails(w)
  <2>1. WorkersOK'
        BY <1>2, WorkerFails DEF EngineFails, At, WorkerSteps, RestOK
  <2>2. QED
        BY <1>2, <2>1, BudgetSpent, CandlesUntouched DEF EngineFails, RestOK
<1>3. CASE DatabaseFault(w)
  <2>1. WorkersOK'
    <3>1. CASE At(w, "starting")
      <4>1. GoTo(w, "claiming")
            BY <1>3, <3>1 DEF DatabaseFault, At
      <4>2. QED
            BY <4>1, WorkerGoesTo DEF RestOK, Steps, WorkerSteps
    <3>2. CASE At(w, "claiming")
          BY <1>3, <3>2, WorkerGoesTo DEF DatabaseFault, RestOK, Steps, WorkerSteps, At
    <3>3. CASE At(w, "failing")
          BY <1>3, <3>3, WorkerIsDone DEF DatabaseFault, RestOK, At
    <3>4. CASE ~At(w, "starting") /\ ~At(w, "claiming") /\ ~At(w, "failing")
      <4>1. Fail(w, TRUE) /\ worker[w].pc \in WorkerSteps
            BY <1>3, <3>4 DEF DatabaseFault, At
      <4>2. QED
            BY <4>1, WorkerFails DEF RestOK
    <3>5. QED
          BY <3>1, <3>2, <3>3, <3>4
  <2>2. QED
        BY <1>3, <2>1, BudgetSpent, CandlesUntouched DEF DatabaseFault, RestOK
<1>4. CASE Crash(w)
  <2>1. WorkersOK'
        BY <1>1, <1>4, MemoryChanges DEF Crash, RestOK, WorkerSteps
  <2>2. QED
        BY <1>4, <2>1, BudgetSpent, CandlesUntouched DEF Crash, RestOK
<1>5. CASE Stop(w)
  <2>1. WorkersOK'
        BY <1>1, <1>5, MemoryChanges DEF Stop, RestOK, WorkerSteps
  <2>2. QED
        BY <1>5, <2>1, WorkerKeepsRest DEF Stop, RestOK
<1>6. QED
      BY <1>2, <1>3, <1>4, <1>5

-----------------------------------------------------------------------------
(***************************************************************************)
(* The theorems.                                                           *)
(***************************************************************************)

LEMMA RunsInvParts == RunsInv <=> RestOK /\ TypeOK /\ \A r \in Runs : RunOK(r)
<1>1. RunsInv => RestOK /\ TypeOK
      BY DEF RunsInv, TypeOK, RestOK, CandlesOK, WorkersOK, BudgetOK
<1>2. RunsInv => \A r \in Runs : RunOK(r)
      BY DEF RunsInv, TypeOK, RunOK, RowOK, ReportIffSucceeded, QueuedCanBeClaimed,
         RunningIsOwned
<1>3. RestOK /\ TypeOK /\ (\A r \in Runs : RunOK(r)) => RunsInv
      BY DEF RunsInv, RestOK, CandlesOK, RunOK, RowOK, ReportIffSucceeded,
         QueuedCanBeClaimed, RunningIsOwned
<1>4. QED
      BY <1>1, <1>2, <1>3

LEMMA RunsInvInit == Init => RunsInv
<1> SUFFICES ASSUME Init PROVE RunsInv
    OBVIOUS
<1>1. Down \in Memories /\ Down.pc = "down"
      BY NoDatasetType DEF Down, Memories, Steps
<1>2. WorkersOK
      BY <1>1 DEF Init, WorkersOK, WorkerSteps
<1>3. BudgetOK
      BY ConstantTypes DEF Init, BudgetOK
<1>4. CandlesOK
  <2>1. 1 \in 0..(MaxCorrections + 1)
        BY ConstantTypes
  <2>2. QED
        BY <2>1 DEF Init, CandlesOK, RevisionsAreCounted
<1>5. RestOK
      BY <1>2, <1>3, <1>4, NoDatasetType DEF Init, RestOK
<1>6. \A r \in Runs : RunOK(r)
      BY NewRows DEF Init, RunOK
<1>7. TypeOK
      BY <1>5, <1>6 DEF Init, TypeOK, RestOK, CandlesOK, WorkersOK, BudgetOK, RunOK, RowOK
<1>8. QED
      BY <1>5, <1>6, <1>7, RunsInvParts

LEMMA RestInductive ==
    ASSUME RestOK, [Next]_vars
    PROVE  RestOK'
<1>1. CASE UNCHANGED vars
      BY <1>1, RestUntouched DEF vars
<1>2. ASSUME NEW r \in Runs,
             Create(r) \/ Cancel(r) \/ Cleanup(r) \/ LockAges(r) \/ BecomesDue(r)
      PROVE  RestOK'
      BY <1>2, UsersKeepRest
<1>3. ASSUME NEW s \in Slots, BeginCorrection(s) \/ Expire(s)
      PROVE  RestOK'
      BY <1>3, CorrectionBegins, CandleExpires
<1>4. CASE EndCorrection
      BY <1>4, CorrectionEnds DEF EndCorrection, RestOK, WorkersOK, BudgetOK
<1>5. ASSUME NEW w \in Workers, WorkerStep(w)
      PROVE  RestOK'
  <2>1. CASE \/ EnsureRunning(w, "begin", "prepare")
             \/ EnsureRunning(w, "progress25", "validate")
             \/ EnsureRunning(w, "progress40", "simulate")
             \/ EnsureRunning(w, "ensure", "publish")
        BY <2>1, EnsureKeepsRest DEF WorkerSteps
  <2>2. CASE \/ Recover(w) \/ BatchDone(w) \/ ClaimRuns(w) \/ NextRun(w)
             \/ Prepare(w) \/ PrepareAfterWait(w) \/ Validate(w) \/ Load(w)
             \/ Simulate(w) \/ PublishReport(w) \/ HandleFailure(w)
        BY <2>2, IdleKeepsRest, ClaimKeepsRest, PrepareKeepsRest, ValidateKeepsRest,
           PublishKeepsRest
  <2>3. QED
        BY <1>5, <2>1, <2>2 DEF WorkerStep
<1>6. ASSUME NEW w \in Workers,
             \/ Start(w) \/ WakeUp(w) \/ EngineFails(w)
             \/ DatabaseFault(w) \/ Crash(w) \/ Stop(w)
      PROVE  RestOK'
      BY <1>6, IdleKeepsRest, FaultsKeepRest
<1>7. QED
      BY <1>1, <1>2, <1>3, <1>4, <1>5, <1>6 DEF Next

LEMMA RunsInvInductive == RunsInv /\ [Next]_vars => RunsInv'
<1> SUFFICES ASSUME RunsInv, [Next]_vars PROVE RunsInv'
    OBVIOUS
<1>1. RestOK /\ TypeOK /\ \A r \in Runs : RunOK(r)
      BY RunsInvParts
<1>2. RestOK'
      BY <1>1, RestInductive
<1>3. RunsMove
      BY <1>1, EveryStepMoves
<1>4. \A r \in Runs : RunOK(r)'
      BY <1>1, <1>3, MovedRun DEF RunsMove
<1>5. TypeOK'
  <2>1. \A r \in Runs : row'[r] \in Rows /\ report'[r] \in Snapshots \union {NoReport}
        BY <1>4 DEF RunOK, RowOK
  <2>2. row' \in [Runs -> Rows] /\ report' \in [Runs -> Snapshots \union {NoReport}]
        BY <1>3, <2>1 DEF RunsMove
  <2>3. QED
        BY <1>2, <2>2 DEF TypeOK, RestOK, CandlesOK, WorkersOK, BudgetOK
<1>6. QED
      BY <1>2, <1>4, <1>5 DEF RunsInv, RestOK, CandlesOK, RunOK, RowOK, ReportIffSucceeded,
         QueuedCanBeClaimed, RunningIsOwned

\* A report exists exactly for a succeeded run, what is queued can be claimed, and
\* a run is held exactly while it is running (_publish_report, _claim_runs,
\* requeue_or_fail_historical_analysis_run, _recover_stale_runs).
THEOREM RunsInvariant == Spec => []RunsInv
<1>1. QED
      BY RunsInvInit, RunsInvInductive, PTL DEF Spec

\* A published report is made of the candles that are current at that moment
\* (_publish_report under share locks, after long reads and a simulation).
THEOREM PublishedCurrent == Spec => PublishedIsCurrent
<1>1. ASSUME RunsInv, [Next]_vars
      PROVE  \A r \in Runs : report'[r] # report[r] /\ report'[r] # NoReport =>
                report'[r] = candle /\ correcting = Nobody
  <2>1. RunsMove
        BY <1>1, EveryStepMoves DEF RunsInv
  <2>2. QED
        BY <2>1 DEF RunsMove, RunMoves, Succeeds, IsCleaned
<1>2. RunsInv /\ [Next]_vars =>
        [\A r \in Runs : report'[r] # report[r] /\ report'[r] # NoReport =>
            report'[r] = candle /\ correcting = Nobody]_vars
      BY <1>1
<1>3. QED
      BY <1>2, RunsInvariant, PTL DEF Spec, PublishedIsCurrent

\* A row that waits with a cancellation is running, and every move of it either
\* leaves it running with the request or cancels it.
LEMMA AskedRow ==
    ASSUME NEW old, NEW new, RowOK(old), old.asked, old.status \in Waiting,
           RowMoves(old, new)
    PROVE  new.asked /\ new.status \in {"running", "cancelled"}
<1>1. old.status = "running" /\ old \in Rows
      BY DEF RowOK, Waiting
<1>2. MarkCancelled(old).asked /\ MarkCancelled(old).status = "cancelled"
      BY <1>1 DEF MarkCancelled, Rows
<1>3. CASE \/ new = old
           \/ new = [old EXCEPT !.asked = TRUE]
           \/ new = [old EXCEPT !.stale = TRUE]
      BY <1>1, <1>3 DEF Rows
<1>4. CASE new = MarkCancelled(old)
      BY <1>2, <1>4
<1>5. CASE new = RecoverRow(old)
      BY <1>2, <1>5 DEF RecoverRow
<1>6. CASE \E retryable \in BOOLEAN : new = RequeueOrFail(old, retryable)
      BY <1>2, <1>6 DEF RequeueOrFail
<1>7. QED
      BY <1>1, <1>3, <1>4, <1>5, <1>6 DEF RowMoves, Claimable

\* A cancellation the user was promised is never undone, by a retry, a recovery
\* or a publication (cancel_for_user and every transition of the worker).
THEOREM CancellationKept == Spec => CancellationHolds
<1>1. ASSUME RunsInv, [Next]_vars, NEW r \in Runs, row[r].asked, row[r].status \in Waiting
      PROVE  row'[r].asked /\ row'[r].status \in {"running", "cancelled"}
  <2>1. RunMoves(r)
        BY <1>1, EveryStepMoves DEF RunsInv, RunsMove
  <2>2. RowOK(row[r])
        BY <1>1, RunsInvParts DEF RunOK
  <2>3. RowMoves(row[r], row'[r])
        BY <1>1, <2>1 DEF RunMoves, Succeeds, IsCleaned, Waiting, Settled
  <2>4. QED
        BY <1>1, <2>2, <2>3, AskedRow
<1>2. RunsInv /\ [Next]_vars =>
        [\A r \in Runs : row[r].asked /\ row[r].status \in Waiting =>
            row'[r].asked /\ row'[r].status \in {"running", "cancelled"}]_vars
      BY <1>1
<1>3. QED
      BY <1>2, RunsInvariant, PTL DEF Spec, CancellationHolds

-----------------------------------------------------------------------------
(***************************************************************************)
(* The promise.  What a step makes of a row decides what it makes of the   *)
(* answer (AnswerMoves); a step that changes candles changes no row.       *)
(***************************************************************************)

LEMMA RowAnswer ==
    ASSUME NEW run \in Rows
    PROVE  /\ Answer(run) \in Promise!Answers
           /\ Answer(MarkCancelled(run)) = "cancelled"
           /\ Answer(MarkFailed(run)) = "failed"
           /\ Answer(MarkSucceeded(run)) = "succeeded"
           /\ ~run.asked => Answer(Requeue(run)) = "waiting"
<1>1. run.asked \in BOOLEAN /\ run.status \in Statuses
      BY DEF Rows
<1>2. Answer(run) \in Promise!Answers
      BY <1>1 DEF Answer, Statuses, Settled, Promise!Answers, Promise!Final
<1>3. QED
      BY <1>1, <1>2 DEF Answer, Rows, Waiting, MarkCancelled, MarkFailed, MarkSucceeded, Requeue

\* A transition of a row moves the answer on as the promise allows, or not at all.
LEMMA AnswerMoves ==
    ASSUME NEW old, NEW new, RowOK(old), RowMoves(old, new)
    PROVE  \/ Answer(new) = Answer(old)
           \/ <<Answer(old), Answer(new)>> \in Promise!WithoutReport
<1>1. old \in Rows /\ old.asked \in BOOLEAN
      BY DEF RowOK, Rows
<1>2. old.status \in Waiting => Answer(old) = IF old.asked THEN "cancelling" ELSE "waiting"
      BY DEF Answer, Waiting
<1>3. CASE new = old
      BY <1>3
<1>4. CASE old.status = "absent" /\ new = NewRow
      BY <1>4 DEF Answer, NewRow, Waiting, Promise!WithoutReport
<1>5. CASE old.status \in Waiting /\ new = MarkCancelled(old)
      BY <1>1, <1>2, <1>5, RowAnswer DEF Promise!WithoutReport
<1>6. CASE old.status = "running" /\ new = [old EXCEPT !.asked = TRUE]
  <2>1. Answer(new) = "cancelling"
        BY <1>1, <1>6 DEF Rows, Answer, Waiting
  <2>2. QED
        BY <1>2, <1>6, <2>1 DEF Waiting, Promise!WithoutReport
<1>7. CASE \/ old.status = "running" /\ new = [old EXCEPT !.stale = TRUE]
           \/ old.status = "queued" /\ new = [old EXCEPT !.due = TRUE]
      BY <1>1, <1>7 DEF Rows, Answer
<1>8. ASSUME old.status = "running",
             \/ new = MarkCancelled(old)
             \/ ~old.asked /\ (new = MarkFailed(old) \/ new = Requeue(old))
      PROVE  \/ Answer(new) = Answer(old)
             \/ <<Answer(old), Answer(new)>> \in Promise!WithoutReport
      BY <1>1, <1>2, <1>8, RowAnswer DEF Waiting, Promise!WithoutReport
<1>9. CASE old.status = "running" /\ new = RecoverRow(old)
  <2>1. \/ new = MarkCancelled(old)
        \/ ~old.asked /\ (new = MarkFailed(old) \/ new = Requeue(old))
        BY <1>9, Zenon DEF RecoverRow
  <2>2. QED
        BY <1>8, <1>9, <2>1
<1>10. CASE Claimable(old) /\ \E w \in Workers : new = Claim(old, w)
  <2>1. new.status = "running" /\ new.asked = old.asked
        BY <1>10, ClaimedRow
  <2>2. QED
        BY <1>2, <1>10, <2>1 DEF Claimable, Answer, Waiting
<1>11. CASE /\ old.status = "running"
            /\ \E retryable \in BOOLEAN : new = RequeueOrFail(old, retryable)
  <2>1. \/ new = MarkCancelled(old)
        \/ ~old.asked /\ (new = MarkFailed(old) \/ new = Requeue(old))
        BY <1>11, Zenon DEF RequeueOrFail
  <2>2. QED
        BY <1>8, <1>11, <2>1
<1>12. QED
      BY <1>3, <1>4, <1>5, <1>6, <1>7, <1>9, <1>10, <1>11 DEF RowMoves

\* A step leaves the candles alone, or the rows and the reports.
LEMMA CandlesOrRows ==
    ASSUME TypeOK, [Next]_vars
    PROVE  UNCHANGED candle \/ UNCHANGED <<row, report>>
<1>1. CASE UNCHANGED vars
      BY <1>1 DEF vars
<1>2. ASSUME NEW q \in Runs,
             Create(q) \/ Cancel(q) \/ Cleanup(q) \/ LockAges(q) \/ BecomesDue(q)
      PROVE  UNCHANGED candle
      BY <1>2 DEF Create, Cancel, Cleanup, LockAges, BecomesDue
<1>3. CASE EndCorrection \/ \E s \in Slots : BeginCorrection(s) \/ Expire(s)
      BY <1>3 DEF EndCorrection, BeginCorrection, Expire
<1>4. ASSUME NEW w \in Workers, WorkerStep(w)
      PROVE  UNCHANGED candle \/ UNCHANGED <<row, report>>
      BY <1>4 DEF WorkerStep, Recover, ClaimRuns, NextRun, BatchDone, EnsureRunning, Prepare,
         PrepareAfterWait, Validate, Load, Simulate, PublishReport, HandleFailure
<1>5. ASSUME NEW w \in Workers,
             \/ Start(w) \/ WakeUp(w) \/ EngineFails(w)
             \/ DatabaseFault(w) \/ Crash(w) \/ Stop(w)
      PROVE  UNCHANGED candle
      BY <1>5 DEF Start, WakeUp, EngineFails, DatabaseFault, Crash, Stop
<1>6. QED
      BY <1>1, <1>2, <1>3, <1>4, <1>5 DEF Next

\* What the row and the report of a run become is a move of the promise.
LEMMA RunKeepsPromise ==
    ASSUME RunsInv, NEW r \in Runs, RunMoves(r)
    PROVE  \/ Answer(row[r])' = Answer(row[r]) /\ report'[r] = report[r]
           \/ /\ <<Answer(row[r]), Answer(row[r])'>> \in Promise!WithoutReport
              /\ report'[r] = report[r]
           \/ /\ Answer(row[r]) = "waiting" /\ Answer(row[r])' = "succeeded"
              /\ report'[r] = candle
           \/ /\ Answer(row[r]) \in Promise!Final /\ Answer(row[r])' = "deleted"
              /\ report'[r] = NoReport
<1>1. RowOK(row[r]) /\ row[r] \in Rows
      BY RunsInvParts DEF RunOK, RowOK
<1>2. CASE RowMoves(row[r], row'[r]) /\ report'[r] = report[r]
      BY <1>1, <1>2, AnswerMoves DEF Answer
<1>3. CASE Succeeds(r)
  <2>1. Answer(row[r])' = "succeeded"
        BY <1>1, <1>3, RowAnswer DEF Succeeds, Answer
  <2>2. Answer(row[r]) = "waiting"
        BY <1>3 DEF Succeeds, Answer, Waiting
  <2>3. QED
        BY <1>3, <2>1, <2>2 DEF Succeeds
<1>4. CASE IsCleaned(r)
  <2>1. Answer(row[r])' = "deleted"
        BY <1>4, NewRows DEF IsCleaned, Answer, Waiting
  <2>2. Answer(row[r]) \in Promise!Final
        BY <1>4 DEF IsCleaned, Answer, Settled, Waiting, Promise!Final
  <2>3. QED
        BY <1>4, <2>1, <2>2 DEF IsCleaned
<1>5. QED
      BY <1>2, <1>3, <1>4 DEF RunMoves

LEMMA PromisedTypes ==
    ASSUME NEW rows \in [Runs -> Rows], NEW reports \in [Runs -> Snapshots \union {NoReport}],
           NEW candles \in [Slots -> 0..(MaxCorrections + 1)]
    PROVE  /\ [r \in Runs |-> Answer(rows[r])] \in [Runs -> Promise!Answers]
           /\ reports \in [Runs -> Promise!Candles \union {NoReport}]
           /\ candles \in Promise!Candles
<1>1. MaxCorrections \in Nat
      BY ConstantTypes
<1>2. Snapshots \subseteq Promise!Candles
      BY <1>1 DEF Snapshots, Promise!Candles
<1>3. candles \in Promise!Candles
      BY <1>1 DEF Promise!Candles
<1>4. QED
      BY <1>2, <1>3, RowAnswer

LEMMA PromisedStep ==
    ASSUME RunsInv, RunsInv', [Next]_vars
    PROVE  Promise!AnalysisNext
<1>1. RunsMove
      BY EveryStepMoves DEF RunsInv
<1>2. UNCHANGED candle \/ UNCHANGED <<row, report>>
      BY CandlesOrRows DEF RunsInv
<1>3. /\ row' \in [Runs -> Rows] /\ report' \in [Runs -> Snapshots \union {NoReport}]
      /\ candle' \in [Slots -> 0..(MaxCorrections + 1)]
      BY DEF RunsInv, TypeOK
<1>4. CASE UNCHANGED <<row, report>>
  <2>1. candle' \in Promise!Candles
        BY <1>3, PromisedTypes
  <2>2. [r \in Runs |-> Answer(row[r])]' = [r \in Runs |-> Answer(row[r])]
        BY <1>4
  <2>3. QED
        BY <1>4, <2>1, <2>2 DEF Promise!AnalysisNext, Promise!Trade
<1>5. CASE UNCHANGED candle
  <2>1. /\ [r \in Runs |-> Answer(row[r])]' \in [Runs -> Promise!Answers]
        /\ report' \in [Runs -> Promise!Candles \union {NoReport}]
        BY <1>3, PromisedTypes
  <2>2. ASSUME NEW r \in Runs
        PROVE  Promise!Stays(r) \/ Promise!Moves(r) \/ Promise!Succeeds(r) \/ Promise!Delete(r)
    <3>1. RunMoves(r)
          BY <1>1 DEF RunsMove
    <3>2. QED
          BY <3>1, RunKeepsPromise
          DEF Promise!Stays, Promise!Moves, Promise!Succeeds, Promise!Delete
  <2>3. QED
        BY <1>5, <2>1, <2>2 DEF Promise!AnalysisNext, Promise!Analyse
<1>6. QED
      BY <1>2, <1>4, <1>5

\* The claims, retries, recoveries and publications of the workers answer every run as
\* its user is promised: once, by the candles that are current when it is answered or by
\* a failure, never after a cancellation was acknowledged, and finally.
THEOREM AnalysesKeepTheirPromise == Spec => ImplementsAnalyses
<1>1. Init => Promise!AnalysisInit
  <2>1. ASSUME Init PROVE Promise!AnalysisInit
    <3>1. \A r \in Runs : Answer(row[r]) = "none"
          BY <2>1, NewRows DEF Init, Answer
    <3>2. candle \in Promise!Candles
          BY <2>1 DEF Init, Promise!Candles
    <3>3. QED
          BY <2>1, <3>1, <3>2 DEF Init, Promise!AnalysisInit
  <2>2. QED
        BY <2>1
<1>2. RunsInv /\ RunsInv' /\ [Next]_vars => [Promise!AnalysisNext]_(Promise!analysisVars)
      BY PromisedStep
<1>3. QED
      BY <1>1, <1>2, RunsInvariant, PTL DEF Spec, ImplementsAnalyses, Promise!AnalysisSpec

-----------------------------------------------------------------------------
(***************************************************************************)
(* The candle backfill.  BackfillInv says what the worker may remember: it *)
(* imports only archives, which takes that the planner finds a newest range *)
(* and an earliest candidate in it (NewestRange, CandidatesDiffer); with   *)
(* the types of the checkpoints, ProgressIsStored is then inductive.       *)
(***************************************************************************)

LEMMA Smallest ==
    ASSUME NEW S \in SUBSET Nat, S # {}
    PROVE  \E m \in S : \A k \in S : m <= k
<1>1. PICK m \in S : \A k \in S : ~(<<k, m>> \in OpToRel(<, Nat))
      BY NatLessThanWellFounded, WFMin
<1>2. ASSUME NEW k \in S PROVE m <= k
  <2>1. m \in Nat /\ k \in Nat
        OBVIOUS
  <2>2. k < m => <<k, m>> \in OpToRel(<, Nat)
        BY <2>1 DEF OpToRel
  <2>3. ~(k < m)
        BY <1>1, <2>2, Zenon
  <2>4. QED
        BY <2>1, <2>3
<1>3. QED
      BY <1>2

LEMMA Largest ==
    ASSUME NEW N \in Nat, NEW S \in SUBSET (0 .. N), S # {}
    PROVE  \E m \in S : \A k \in S : k <= m
<1> DEFINE T == {N - k : k \in S}
<1>1. T \in SUBSET Nat /\ T # {}
  <2>1. ASSUME NEW k \in S PROVE N - k \in Nat
        OBVIOUS
  <2>2. QED
        BY <2>1
<1>2. PICK t \in T : \A k \in T : t <= k
      BY <1>1, Smallest
<1>3. PICK m \in S : t = N - m
      BY <1>2
<1>4. ASSUME NEW k \in S PROVE k <= m
  <2>1. N - k \in T
        OBVIOUS
  <2>2. t <= N - k
        BY <1>2, <2>1
  <2>3. QED
        BY <1>3, <2>2
<1>5. QED
      BY <1>4

LEMMA DivDefined ==
    ASSUME NEW x \in Int, NEW n \in Nat \ {0}
    PROVE  /\ x \div n \in Int
           /\ n * (x \div n) <= x
           /\ x < n * (x \div n) + n
BY SMT

LEMMA DivUnique ==
    ASSUME NEW x \in Int, NEW n \in Nat \ {0}, NEW q \in Int, n * q <= x, x < n * q + n
    PROVE  x \div n = q
BY SMT

LEMMA DivMonotone ==
    ASSUME NEW x \in Int, NEW y \in Int, x <= y, NEW n \in Nat \ {0}
    PROVE  x \div n <= y \div n
BY SMT

-----------------------------------------------------------------------------
LEMMA BackfillConstants ==
    /\ MonthLength \in Nat \ {0}
    /\ TargetDays \in Nat
    /\ FirstToday \in Nat \ {0} /\ LastToday \in Nat /\ FirstToday <= LastToday
    /\ \A h \in Histories : h \subseteq 1 .. (FirstToday - 1)
BY CalendarAssumption DEF Backfill!BackfillAssumption

LEMMA MonthTypes ==
    /\ \A d \in Int : Backfill!Month(d) \in Int
    /\ \A d \in Backfill!Days : Backfill!Month(d) \in 0 .. Backfill!Month(LastToday - 1)
    /\ \A m \in Nat : Backfill!MonthEnd(m) \in Nat \ {0} /\ Backfill!Month(Backfill!MonthEnd(m)) = m
<1>1. ASSUME NEW d \in Int PROVE Backfill!Month(d) \in Int
      BY BackfillConstants, DivDefined DEF Backfill!Month
<1>2. ASSUME NEW d \in Backfill!Days PROVE Backfill!Month(d) \in 0 .. Backfill!Month(LastToday - 1)
  <2>1. /\ d \in Int /\ LastToday - 1 \in Int
        /\ 0 <= d - 1 /\ d - 1 <= LastToday - 1 - 1
        BY BackfillConstants DEF Backfill!Days
  <2>2. 0 \div MonthLength = 0
        BY BackfillConstants, DivUnique
  <2>3. 0 \div MonthLength <= (d - 1) \div MonthLength
        BY <2>1, BackfillConstants, DivMonotone
  <2>4. (d - 1) \div MonthLength <= (LastToday - 1 - 1) \div MonthLength
        BY <2>1, BackfillConstants, DivMonotone
  <2>5. Backfill!Month(d) \in Int /\ Backfill!Month(LastToday - 1) \in Int
        BY <1>1, <2>1
  <2>6. QED
        BY <2>2, <2>3, <2>4, <2>5 DEF Backfill!Month
<1>3. ASSUME NEW m \in Nat
      PROVE  Backfill!MonthEnd(m) \in Nat \ {0} /\ Backfill!Month(Backfill!MonthEnd(m)) = m
  <2>1. Backfill!MonthEnd(m) = MonthLength * m + MonthLength
        BY BackfillConstants DEF Backfill!MonthEnd
  <2>2. MonthLength * m \in Nat
        BY BackfillConstants
  <2>3. Backfill!MonthEnd(m) \in Nat \ {0}
        BY <2>1, <2>2, BackfillConstants
  <2>4. /\ MonthLength * m <= Backfill!MonthEnd(m) - 1
        /\ Backfill!MonthEnd(m) - 1 < MonthLength * m + MonthLength
        BY <2>1, <2>2, BackfillConstants
  <2>5. (Backfill!MonthEnd(m) - 1) \div MonthLength = m
        BY <2>3, <2>4, BackfillConstants, DivUnique
  <2>6. QED
        BY <2>3, <2>5 DEF Backfill!Month
<1>4. QED
      BY <1>1, <1>2, <1>3

\* The period of an archive is of days that have a first and a last one.
LEMMA Periods ==
    ASSUME NEW a \in Backfill!Archives
    PROVE  /\ Backfill!Period(a) \subseteq Backfill!Days
           /\ Backfill!FirstDay(a) \in Backfill!Period(a)
           /\ Backfill!LastDay(a) \in Backfill!Period(a)
           /\ \A d \in Backfill!Period(a) : Backfill!FirstDay(a) <= d /\ d <= Backfill!LastDay(a)
           /\ a.granularity = "daily" => Backfill!Period(a) = {a.period}
           /\ a.granularity = "monthly" => Backfill!Period(a) = Backfill!DaysOf(a.period)
<1>1. Backfill!Period(a) \subseteq Backfill!Days /\ Backfill!Period(a) # {}
  <2>1. CASE \E d \in Backfill!Days : a = Backfill!Daily(d)
        BY <2>1 DEF Backfill!Period, Backfill!Daily
  <2>2. ASSUME NEW m \in 0 .. Backfill!Month(LastToday - 1), Backfill!MonthEnd(m) < LastToday,
               a = Backfill!Monthly(m)
        PROVE  Backfill!Period(a) \subseteq Backfill!Days /\ Backfill!Period(a) # {}
    <3>1. Backfill!Period(a) = Backfill!DaysOf(m)
          BY <2>2 DEF Backfill!Period, Backfill!Monthly
    <3>2. m \in Nat
          BY BackfillConstants, MonthTypes
    <3>3. Backfill!MonthEnd(m) \in Backfill!Days /\ Backfill!Month(Backfill!MonthEnd(m)) = m
          BY <2>2, <3>2, BackfillConstants, MonthTypes DEF Backfill!Days
    <3>4. QED
          BY <3>1, <3>3 DEF Backfill!DaysOf
  <2>3. QED
        BY <2>1, <2>2 DEF Backfill!Archives
<1>2. Backfill!Days \subseteq 0 .. LastToday /\ Backfill!Days \subseteq Nat /\ LastToday \in Nat
      BY BackfillConstants DEF Backfill!Days
<1>3. \E d \in Backfill!Period(a) : \A e \in Backfill!Period(a) : e <= d
  <2>1. Backfill!Period(a) \in SUBSET (0 .. LastToday)
        BY <1>1, <1>2
  <2>2. QED
        BY <1>1, <1>2, <2>1, Largest
<1>4. \E d \in Backfill!Period(a) : \A e \in Backfill!Period(a) : d <= e
      BY <1>1, <1>2, Smallest
<1>5. QED
      BY <1>1, <1>3, <1>4
      DEF Backfill!FirstDay, Backfill!LastDay, Backfill!Period, Backfill!Archives,
          Backfill!Daily, Backfill!Monthly

-----------------------------------------------------------------------------
\* A range is all of the missing days next to any of its days.
LEMMA RangesAreApart ==
    ASSUME NEW r \in Backfill!Ranges, NEW s \in Backfill!Ranges, NEW e \in r, e \in s
    PROVE  r \subseteq s
<1>1. r \subseteq Nat /\ s \subseteq Nat /\ r \subseteq 0 .. LastToday
      BY BackfillConstants
      DEF Backfill!Ranges, Backfill!Missing, Backfill!Target, Backfill!Days
<1>2. /\ \A d, f \in r : \A n \in d .. f : n \in r
      /\ \A d \in s : /\ d - 1 \in Backfill!Missing => d - 1 \in s
                      /\ d + 1 \in Backfill!Missing => d + 1 \in s
      /\ r \subseteq Backfill!Missing
      BY DEF Backfill!Ranges, Backfill!IsRange
<1>3. ASSUME NEW y \in r, y \notin s PROVE FALSE
  <2> DEFINE Below == {n \in r : n \notin s /\ n < e}
             Above == {n \in r : n \notin s /\ e < n}
  <2>1. CASE y < e
    <3>1. Below # {} /\ Below \in SUBSET (0 .. LastToday)
          BY <1>1, <1>3, <2>1
    <3>2. PICK n \in Below : \A k \in Below : k <= n
          BY <3>1, BackfillConstants, Largest
    <3>3. /\ n \in r /\ n \notin s /\ n < e /\ n \in Nat /\ e \in Nat
          BY <1>1, <3>2
    <3>4. n + 1 \in n .. e /\ n + 1 \in Nat
          BY <3>3
    <3>5. n + 1 \in r
          BY <1>2, <3>3, <3>4
    <3>6. n + 1 \in s
      <4>1. CASE n + 1 = e
            BY <4>1
      <4>2. CASE n + 1 # e
        <5>1. n + 1 < e /\ ~(n + 1 <= n)
              BY <3>3, <4>2
        <5>2. n + 1 \notin Below
              BY <3>2, <5>1
        <5>3. QED
              BY <3>5, <5>1, <5>2
      <4>3. QED
            BY <4>1, <4>2
    <3>7. (n + 1) - 1 = n
          BY <3>3
    <3>8. n \in Backfill!Missing
          BY <1>2, <3>3
    <3>9. QED
          BY <1>2, <3>3, <3>6, <3>7, <3>8
  <2>2. CASE e < y
    <3>1. Above # {} /\ Above \in SUBSET Nat
          BY <1>1, <1>3, <2>2
    <3>2. PICK n \in Above : \A k \in Above : n <= k
          BY <3>1, Smallest
    <3>3. /\ n \in r /\ n \notin s /\ e < n /\ n \in Nat /\ e \in Nat
          BY <1>1, <3>2
    <3>4. n - 1 \in e .. n /\ n - 1 \in Nat
          BY <3>3
    <3>5. n - 1 \in r
          BY <1>2, <3>3, <3>4
    <3>6. n - 1 \in s
      <4>1. CASE n - 1 = e
            BY <4>1
      <4>2. CASE n - 1 # e
        <5>1. e < n - 1 /\ ~(n <= n - 1)
              BY <3>3, <4>2
        <5>2. n - 1 \notin Above
              BY <3>2, <5>1
        <5>3. QED
              BY <3>5, <5>1, <5>2
      <4>3. QED
            BY <4>1, <4>2
    <3>7. (n - 1) + 1 = n
          BY <3>3
    <3>8. n \in Backfill!Missing
          BY <1>2, <3>3
    <3>9. QED
          BY <1>2, <3>3, <3>6, <3>7, <3>8
  <2>3. y = e
        BY <1>1, <1>3, <2>1, <2>2
  <2>4. QED
        BY <1>3, <2>3
<1>4. QED
      BY <1>3

\* The planner finds its newest range.
LEMMA NewestRange ==
    ASSUME Backfill!OpenRanges # {}
    PROVE  \E r \in Backfill!OpenRanges : \A s \in Backfill!OpenRanges \ {r} :
               Backfill!NewerRange(r, s)
<1> DEFINE days == UNION Backfill!OpenRanges
<1>1. Backfill!OpenRanges \subseteq Backfill!Ranges
      BY DEF Backfill!OpenRanges
<1>2. \A r \in Backfill!Ranges : r # {} /\ r \subseteq 0 .. LastToday /\ r \subseteq Nat
      BY BackfillConstants
      DEF Backfill!Ranges, Backfill!IsRange, Backfill!Missing, Backfill!Target,
          Backfill!Days
<1>3. days # {} /\ days \in SUBSET (0 .. LastToday)
      BY <1>1, <1>2
<1>4. PICK x \in days : \A k \in days : k <= x
      BY <1>3, BackfillConstants, Largest
<1>5. PICK r \in Backfill!OpenRanges : x \in r
      BY <1>4
<1>6. ASSUME NEW s \in Backfill!OpenRanges \ {r} PROVE Backfill!NewerRange(r, s)
  <2>1. SUFFICES ASSUME NEW d \in r, NEW e \in s, ~(e < d) PROVE FALSE
        BY DEF Backfill!NewerRange
  <2>2. d \in Nat /\ e \in Nat /\ x \in Nat /\ e <= x
        BY <1>1, <1>2, <1>4, <1>5
  <2>3. e \in d .. x
        BY <2>1, <2>2
  <2>4. e \in r
        BY <1>1, <1>5, <2>3 DEF Backfill!Ranges, Backfill!IsRange
  <2>5. r \subseteq s /\ s \subseteq r
        BY <1>1, <2>4, RangesAreApart
  <2>6. QED
        BY <2>5
<1>7. QED
      BY <1>6

\* Candidates of one range begin on different days.
LEMMA CandidatesDiffer ==
    ASSUME today \in FirstToday .. LastToday, NEW r \in Backfill!Ranges,
           NEW c \in Backfill!CandidatesOf(r)
    PROVE  /\ c.primary \in Backfill!Archives /\ c.fallbacks \subseteq Backfill!Archives
           /\ \A e \in Backfill!CandidatesOf(r) :
                 Backfill!FirstDay(e.primary) = Backfill!FirstDay(c.primary) => e = c
<1>1. r \subseteq Backfill!Days
      BY DEF Backfill!Ranges, Backfill!Missing, Backfill!Target
<1>2. \A d \in r : Backfill!Daily(d) \in Backfill!Archives
      BY <1>1 DEF Backfill!Archives
<1>3. ASSUME NEW m \in {Backfill!Month(d) : d \in r}, Backfill!MonthEnd(m) < today
      PROVE  Backfill!Monthly(m) \in Backfill!Archives
  <2>1. m \in 0 .. Backfill!Month(LastToday - 1)
        BY <1>1, MonthTypes
  <2>2. Backfill!MonthEnd(m) \in Nat
        BY <2>1, BackfillConstants, MonthTypes
  <2>3. Backfill!MonthEnd(m) < LastToday
        BY <1>3, <2>2, BackfillConstants
  <2>4. QED
        BY <2>1, <2>3 DEF Backfill!Archives
<1> DEFINE Months == {n \in {Backfill!Month(d) : d \in r} : Backfill!MonthEnd(n) < today}
           ByMonth(m) ==
               Backfill!Candidate(Backfill!Monthly(m),
                                  {Backfill!Daily(d) : d \in r \cap Backfill!DaysOf(m)})
           ThisMonth == {d \in r : Backfill!MonthEnd(Backfill!Month(d)) >= today}
<1>4. Backfill!CandidatesOf(r) = {ByMonth(m) : m \in Months}
          \cup {Backfill!Candidate(Backfill!Daily(d), {}) : d \in ThisMonth}
      BY DEF Backfill!CandidatesOf
<1>5. \A e \in Backfill!CandidatesOf(r) :
          e.primary \in Backfill!Archives /\ e.fallbacks \subseteq Backfill!Archives
      BY <1>2, <1>3, <1>4 DEF Backfill!Candidate
<1>6. ASSUME NEW m \in Months
      PROVE  /\ Backfill!FirstDay(Backfill!Monthly(m)) \in Backfill!Days
             /\ Backfill!Month(Backfill!FirstDay(Backfill!Monthly(m))) = m
             /\ Backfill!MonthEnd(m) < today
      BY <1>3, Periods DEF Backfill!DaysOf, Backfill!Monthly
<1>7. ASSUME NEW d \in ThisMonth
      PROVE  /\ Backfill!FirstDay(Backfill!Daily(d)) = d
             /\ Backfill!MonthEnd(Backfill!Month(d)) >= today
      BY <1>2, Periods DEF Backfill!Daily
<1>8. \A d \in r : Backfill!Month(d) \in Nat /\ Backfill!MonthEnd(Backfill!Month(d)) \in Nat
      BY <1>1, BackfillConstants, MonthTypes
<1>9. today \in Nat
      BY BackfillConstants
<1>10. ASSUME NEW m \in Months, NEW d \in ThisMonth
       PROVE  Backfill!FirstDay(Backfill!Monthly(m)) # Backfill!FirstDay(Backfill!Daily(d))
  <2>1. Backfill!MonthEnd(m) \in Nat /\ ~(Backfill!MonthEnd(m) >= today)
        BY <1>6, <1>8, <1>9
  <2>2. QED
        BY <1>6, <1>7, <2>1
<1>11. ASSUME NEW e \in Backfill!CandidatesOf(r),
              Backfill!FirstDay(e.primary) = Backfill!FirstDay(c.primary)
       PROVE  e = c
  <2>1. CASE (\E m \in Months : c = ByMonth(m)) /\ (\E m \in Months : e = ByMonth(m))
    <3>1. PICK m \in Months : c = ByMonth(m)
          BY <2>1
    <3>2. PICK n \in Months : e = ByMonth(n)
          BY <2>1
    <3>3. c.primary = Backfill!Monthly(m) /\ e.primary = Backfill!Monthly(n)
          BY <3>1, <3>2 DEF Backfill!Candidate
    <3>4. m = n
          BY <1>6, <1>11, <3>3
    <3>5. QED
          BY <3>1, <3>2, <3>4
  <2>2. CASE (\E d \in ThisMonth : c = Backfill!Candidate(Backfill!Daily(d), {}))
             /\ (\E d \in ThisMonth : e = Backfill!Candidate(Backfill!Daily(d), {}))
        BY <1>7, <1>11, <2>2 DEF Backfill!Candidate
  <2>3. CASE (\E m \in Months : c = ByMonth(m))
             /\ (\E d \in ThisMonth : e = Backfill!Candidate(Backfill!Daily(d), {}))
        BY <1>10, <1>11, <2>3 DEF Backfill!Candidate
  <2>4. CASE (\E d \in ThisMonth : c = Backfill!Candidate(Backfill!Daily(d), {}))
             /\ (\E m \in Months : e = ByMonth(m))
        BY <1>10, <1>11, <2>4 DEF Backfill!Candidate
  <2>5. QED
        BY <1>4, <2>1, <2>2, <2>3, <2>4
<1>12. QED
      BY <1>5, <1>11

\* The planner takes up an archive and its fallbacks.
LEMMA UnitsAreArchives ==
    ASSUME today \in FirstToday .. LastToday, Backfill!OpenRanges # {}
    PROVE  /\ Backfill!NextUnit.primary \in Backfill!Archives
           /\ Backfill!NextUnit.fallbacks \subseteq Backfill!Archives
           /\ \E r \in Backfill!Ranges : Backfill!NextUnit \in Backfill!CandidatesOf(r)
<1> DEFINE range == CHOOSE r \in Backfill!OpenRanges : \A s \in Backfill!OpenRanges \ {r} :
               Backfill!NewerRange(r, s)
<1>1. range \in Backfill!OpenRanges
      BY NewestRange
<1>2. /\ range \in Backfill!Ranges
      /\ Backfill!Open(range) # {}
      /\ Backfill!Open(range) \subseteq Backfill!CandidatesOf(range)
      BY <1>1 DEF Backfill!OpenRanges, Backfill!Open
<1>3. Backfill!NextUnit = CHOOSE c \in Backfill!Open(range) :
          \A e \in Backfill!Open(range) \ {c} : Backfill!Older(c, e)
      BY DEF Backfill!NextUnit
<1> HIDE DEF range
<1> DEFINE firsts == {Backfill!FirstDay(c.primary) : c \in Backfill!Open(range)}
<1>4. \A c \in Backfill!Open(range) : c.primary \in Backfill!Archives
      BY <1>2, CandidatesDiffer
<1>5. \A c \in Backfill!Open(range) : Backfill!FirstDay(c.primary) \in Nat
      BY <1>4, Periods DEF Backfill!Days
<1>6. firsts # {} /\ firsts \in SUBSET Nat
      BY <1>2, <1>5
<1>7. PICK n \in firsts : \A k \in firsts : n <= k
      BY <1>6, Smallest
<1>8. PICK c \in Backfill!Open(range) : n = Backfill!FirstDay(c.primary)
      BY <1>7
<1>9. ASSUME NEW e \in Backfill!Open(range) \ {c} PROVE Backfill!Older(c, e)
  <2>1. Backfill!FirstDay(e.primary) # Backfill!FirstDay(c.primary)
        BY <1>2, CandidatesDiffer
  <2>2. Backfill!FirstDay(e.primary) \in firsts
        OBVIOUS
  <2>3. Backfill!FirstDay(c.primary) <= Backfill!FirstDay(e.primary)
        BY <1>7, <1>8, <2>2
  <2>4. QED
        BY <1>5, <2>1, <2>3 DEF Backfill!Older
<1>10. Backfill!NextUnit \in Backfill!Open(range)
      BY <1>3, <1>9
<1>11. QED
      BY <1>2, <1>10, CandidatesDiffer

-----------------------------------------------------------------------------
CoverageRow == [status: {"ready", "backfilling"}, available: SUBSET Backfill!Days]
CheckpointRow == [status: {"open", "complete"}, next: Int, sum: 0 .. 2]
Unit == [primary: Backfill!Archives \cup {Backfill!NoArchive}, fallbacks: SUBSET Backfill!Archives]
WorkerState ==
    [phase: Backfill!Phases, unit: Unit, archive: Backfill!Archives \cup {Backfill!NoArchive},
                row: CoverageRow]

\* A worker that imports has an archive to import.
Importing == {"planned", "download", "import"}

BackfillInv ==
    /\ Backfill!TypeOK
    /\ remote \in [Backfill!Archives -> 0 .. 2]
    /\ checkpoint \in [Backfill!Archives -> CheckpointRow]
    /\ process \in [Processes -> WorkerState]
    /\ \A w \in Processes : process[w].phase \in Importing =>
           process[w].archive \in Backfill!Archives
    /\ Backfill!ProgressIsStored

LEMMA CoverageTypes ==
    ASSUME NEW days
    PROVE  Backfill!CoverageOf(days) \in CoverageRow
BY DEF Backfill!CoverageOf, CoverageRow, Backfill!NewestRun, Backfill!Target

LEMMA IdleTypes ==
    /\ Backfill!Idle \in WorkerState /\ Backfill!Idle.phase = "idle"
    /\ Backfill!NoUnit \in Unit
BY DEF Backfill!Idle, WorkerState, Backfill!NoUnit, Unit, Backfill!Candidate,
       Backfill!NoArchive, Backfill!Phases, CoverageRow

LEMMA BackfillInit == Backfill!Init => BackfillInv
<1>1. SUFFICES ASSUME Backfill!Init PROVE BackfillInv
      OBVIOUS
<1>2. today \in FirstToday .. LastToday /\ today = FirstToday
      BY <1>1, BackfillConstants DEF Backfill!Init
<1>3. stored \subseteq Backfill!Days
      BY <1>1, BackfillConstants DEF Backfill!Init, Backfill!Days
<1>4. remote \in [Backfill!Archives -> 0 .. 2]
      BY <1>1 DEF Backfill!Init
<1>5. /\ checkpoint \in [Backfill!Archives -> CheckpointRow]
      /\ \A a \in Backfill!Archives :
             checkpoint[a] = [status |-> "open", next |-> Backfill!FirstDay(a), sum |-> 0]
      /\ \A a \in Backfill!Archives : Backfill!FirstDay(a) \in Int
      /\ \A a \in Backfill!Archives :
             Backfill!FirstDay(a) \in Backfill!FirstDay(a) .. (Backfill!LastDay(a) + 1)
  <2>1. ASSUME NEW a \in Backfill!Archives
        PROVE  /\ Backfill!FirstDay(a) \in Int
               /\ Backfill!LastDay(a) \in Int
               /\ Backfill!FirstDay(a) <= Backfill!LastDay(a)
        BY <1>1, Periods DEF Backfill!Days
  <2>2. QED
        BY <1>1, <2>1 DEF Backfill!Init, CheckpointRow
<1>6. coverage \in CoverageRow
      BY <1>1, CoverageTypes DEF Backfill!Init
<1>7. /\ lease \in Processes \cup {Backfill!NoWorker}
      /\ process \in [Processes -> WorkerState]
      /\ \A w \in Processes : process[w] = Backfill!Idle
      BY <1>1, IdleTypes DEF Backfill!Init
<1>8. Backfill!TypeOK
      BY <1>2, <1>3, <1>5, <1>6, <1>7, IdleTypes
      DEF Backfill!TypeOK, CheckpointRow, CoverageRow, Backfill!Phases
<1>9. Backfill!ProgressIsStored
  <2>1. ASSUME NEW a \in Backfill!Archives, NEW d \in Backfill!Period(a)
        PROVE  ~(d < Backfill!FirstDay(a))
        BY <1>1, Periods DEF Backfill!Days
  <2>2. QED
        BY <1>5, <2>1 DEF Backfill!ProgressIsStored
<1>10. QED
      BY <1>1, <1>4, <1>5, <1>7, <1>8, <1>9, IdleTypes DEF BackfillInv, Importing

\* What a step makes of the checkpoint of an archive: nothing, or its progress by the
\* day it stores.
LEMMA BackfillSteps ==
    [Backfill!Next]_(Backfill!vars) =>
        \/ \E w \in Processes :
              \/ Backfill!ReadCoverage(w)
              \/ Backfill!ReportAndAcquire(w)
              \/ Backfill!StartAttempt(w)
              \/ Backfill!DownloadArchive(w)
              \/ Backfill!ArchiveAbsent(w)
              \/ Backfill!PersistChunk(w)
              \/ Backfill!CompleteArchive(w)
              \/ Backfill!FinishUnit(w)
              \/ Backfill!DeferUnit(w) \/ Backfill!DownloadFails(w) \/ Backfill!Crash(w)
        \/ Backfill!NextDay
        \/ \E oldest \in {today - TargetDays, today - TargetDays + 1} : Backfill!CleanUp(oldest)
        \/ \E a \in Backfill!Archives : Backfill!Publish(a) \/ Backfill!Republish(a)
        \/ UNCHANGED Backfill!vars
BY DEF Backfill!Next, Backfill!Step

Fallen(w) == [Backfill!Idle EXCEPT !.phase = "failing", !.unit = process[w].unit]
Done == [Backfill!Idle EXCEPT !.phase = "finished"]

LEMMA EndTypes ==
    ASSUME BackfillInv, NEW w \in Processes
    PROVE  /\ Fallen(w) \in WorkerState /\ Fallen(w).phase = "failing"
           /\ Done \in WorkerState /\ Done.phase = "finished"
<1>1. process[w] \in WorkerState
      BY DEF BackfillInv
<1>2. QED
      BY <1>1, IdleTypes DEF Fallen, Done, WorkerState, Backfill!Phases

\* A fallback is an archive.
LEMMA FallbackIsArchive ==
    ASSUME BackfillInv, NEW w \in Processes, Backfill!NextFallbacks(w) # {}
    PROVE  Backfill!Earliest(Backfill!NextFallbacks(w)) \in Backfill!Archives
<1>1. process[w] \in WorkerState
      BY DEF BackfillInv
<1>2. Backfill!NextFallbacks(w) \subseteq Backfill!Archives
      BY <1>1
      DEF Backfill!NextFallbacks, Backfill!FirstFallbacks, Backfill!OpenFallbacks,
          WorkerState, Unit
<1>3. \A a \in Backfill!NextFallbacks(w) : Backfill!FirstDay(a) \in Nat
      BY <1>2, Periods DEF BackfillInv, Backfill!Days
<1> DEFINE firsts == {Backfill!FirstDay(a) : a \in Backfill!NextFallbacks(w)}
<1>4. firsts # {} /\ firsts \in SUBSET Nat
      BY <1>3
<1>5. PICK n \in firsts : \A k \in firsts : n <= k
      BY <1>4, Smallest
<1>6. \E a \in Backfill!NextFallbacks(w) : \A b \in Backfill!NextFallbacks(w) :
          Backfill!FirstDay(a) <= Backfill!FirstDay(b)
      BY <1>5
<1>7. Backfill!Earliest(Backfill!NextFallbacks(w)) \in Backfill!NextFallbacks(w)
      BY <1>6 DEF Backfill!Earliest
<1>8. QED
      BY <1>2, <1>7

\* A step of a worker changes what that worker remembers, within its types.
Remembers(w) ==
    \E new \in WorkerState : /\ process' = [process EXCEPT ![w] = new]
                             /\ new.phase \in Importing => new.archive \in Backfill!Archives

\* What the workers remember keeps its types.
LEMMA StepWorkers ==
    ASSUME BackfillInv, [Backfill!Next]_(Backfill!vars)
    PROVE  /\ process' \in [Processes -> WorkerState]
           /\ \A w \in Processes : process'[w].phase \in Importing =>
                  process'[w].archive \in Backfill!Archives
<1>1. /\ process \in [Processes -> WorkerState]
      /\ \A w \in Processes : process[w].phase \in Importing =>
             process[w].archive \in Backfill!Archives
      BY DEF BackfillInv
<1>2. ASSUME NEW w \in Processes, NEW new \in WorkerState,
             process' = [process EXCEPT ![w] = new],
             new.phase \in Importing => new.archive \in Backfill!Archives
      PROVE  /\ process' \in [Processes -> WorkerState]
             /\ \A v \in Processes : process'[v].phase \in Importing =>
                    process'[v].archive \in Backfill!Archives
      BY <1>1, <1>2
<1>4. ASSUME NEW w \in Processes, Backfill!ReadCoverage(w) \/ Backfill!Rest(w)
      PROVE  Remembers(w)
  <2>1. CASE Backfill!ReadCoverage(w)
    <3> DEFINE new == [process[w] EXCEPT !.row = Backfill!CoverageOf(stored), !.phase = "read"]
    <3>1. new \in WorkerState /\ new.phase = "read"
          BY <1>1, CoverageTypes DEF WorkerState, Backfill!Phases
    <3>2. process' = [process EXCEPT ![w] = new]
          BY <1>1, <2>1 DEF Backfill!ReadCoverage
    <3>3. QED
          BY <3>1, <3>2 DEF Importing, Remembers
  <2>2. CASE Backfill!Rest(w)
        BY <2>2, IdleTypes DEF Backfill!Rest, Importing, Remembers
  <2>3. QED
        BY <1>4, <2>1, <2>2
<1>5. ASSUME NEW w \in Processes, Backfill!ReportAndAcquire(w), ~Backfill!Rest(w)
      PROVE  Remembers(w)
  <2>1. Backfill!OpenRanges # {}
        BY <1>5 DEF Backfill!ReportAndAcquire, Backfill!TryAcquire, Backfill!Plan
  <2>2. /\ Backfill!NextUnit.primary \in Backfill!Archives
        /\ Backfill!NextUnit.fallbacks \subseteq Backfill!Archives
        BY <2>1, UnitsAreArchives DEF BackfillInv, Backfill!TypeOK
  <2>3. Backfill!NextUnit \in Unit
    <3>1. \E r \in Backfill!Ranges : Backfill!NextUnit \in Backfill!CandidatesOf(r)
          BY <2>1, UnitsAreArchives DEF BackfillInv, Backfill!TypeOK
    <3>2. QED
          BY <2>2, <3>1 DEF Backfill!CandidatesOf, Backfill!Candidate, Unit
  <2> DEFINE new == [Backfill!Idle EXCEPT !.phase = "planned", !.unit = Backfill!NextUnit,
                                 !.archive = Backfill!NextUnit.primary]
  <2>4. new \in WorkerState /\ new.archive \in Backfill!Archives
        BY <2>2, <2>3, IdleTypes DEF WorkerState, Backfill!Phases
  <2>5. process' = [process EXCEPT ![w] = new]
        BY <1>5 DEF Backfill!ReportAndAcquire, Backfill!TryAcquire, Backfill!Plan
  <2>6. QED
        BY <2>4, <2>5 DEF Remembers
<1>6. ASSUME NEW w \in Processes, NEW to \in Backfill!Phases, Backfill!Go(w, to),
             process[w].phase \in Importing
      PROVE  Remembers(w)
  <2> DEFINE new == [process[w] EXCEPT !.phase = to]
  <2>1. new \in WorkerState /\ new.archive = process[w].archive
        BY <1>1 DEF WorkerState
  <2>2. process' = [process EXCEPT ![w] = new]
        BY <1>6 DEF Backfill!Go
  <2>3. QED
        BY <1>1, <1>6, <2>1, <2>2 DEF Remembers
<1>7. ASSUME NEW w \in Processes, Backfill!Fail(w) \/ Backfill!Finish(w)
      PROVE  Remembers(w)
      BY <1>7, EndTypes DEF Backfill!Fail, Backfill!Finish, Fallen, Done, Importing, Remembers
<1>8. ASSUME NEW w \in Processes, Backfill!ArchiveAbsent(w), ~Backfill!Fail(w)
      PROVE  Remembers(w)
  <2>1. Backfill!NextFallbacks(w) # {}
        BY <1>8 DEF Backfill!ArchiveAbsent
  <2> DEFINE next == Backfill!Earliest(Backfill!NextFallbacks(w))
             new == [process[w] EXCEPT !.archive = next, !.phase = "planned"]
  <2>2. next \in Backfill!Archives
        BY <2>1, FallbackIsArchive
  <2>3. process' = [process EXCEPT ![w] = new]
        BY <1>1, <1>8, <2>1 DEF Backfill!ArchiveAbsent
  <2> HIDE DEF next
  <2>4. new \in WorkerState /\ new.archive = next
        BY <1>1, <2>2 DEF WorkerState, Backfill!Phases
  <2>5. QED
        BY <2>2, <2>3, <2>4 DEF Remembers
<1>9. CASE UNCHANGED process
      BY <1>1, <1>9
<1>10. ASSUME NEW w \in Processes, Remembers(w)
       PROVE  /\ process' \in [Processes -> WorkerState]
              /\ \A v \in Processes : process'[v].phase \in Importing =>
                     process'[v].archive \in Backfill!Archives
  <2>1. PICK new \in WorkerState : /\ process' = [process EXCEPT ![w] = new]
                                   /\ new.phase \in Importing => new.archive \in Backfill!Archives
        BY <1>10 DEF Remembers
  <2>2. QED
        BY <1>2, <2>1
<1>11. ASSUME NEW w \in Processes,
              \/ Backfill!ReadCoverage(w)
              \/ Backfill!ReportAndAcquire(w)
              \/ Backfill!StartAttempt(w)
              \/ Backfill!DownloadArchive(w)
              \/ Backfill!ArchiveAbsent(w)
              \/ Backfill!CompleteArchive(w)
              \/ Backfill!FinishUnit(w)
              \/ Backfill!DeferUnit(w)
              \/ Backfill!DownloadFails(w)
              \/ Backfill!Crash(w)
       PROVE  Remembers(w)
  <2>1. CASE Backfill!ReadCoverage(w) \/ Backfill!ReportAndAcquire(w)
        BY <1>4, <1>5, <2>1
  <2>2. CASE Backfill!StartAttempt(w) \/ Backfill!DownloadArchive(w)
        BY <1>6, <1>7, <2>2
        DEF Backfill!StartAttempt, Backfill!DownloadArchive, Backfill!At, Importing,
            Backfill!Phases
  <2>3. CASE Backfill!ArchiveAbsent(w)
        BY <1>7, <1>8, <2>3
  <2>4. CASE Backfill!CompleteArchive(w) \/ Backfill!DownloadFails(w)
        BY <1>7, <2>4 DEF Backfill!CompleteArchive, Backfill!DownloadFails
  <2>5. CASE Backfill!FinishUnit(w) \/ Backfill!DeferUnit(w) \/ Backfill!Crash(w)
        BY <1>4, <2>5 DEF Backfill!FinishUnit, Backfill!DeferUnit, Backfill!Crash
  <2>6. QED
        BY <1>11, <2>1, <2>2, <2>3, <2>4, <2>5
<1>12. CASE \/ \E w \in Processes : Backfill!PersistChunk(w)
            \/ Backfill!NextDay
            \/ \E oldest \in {today - TargetDays, today - TargetDays + 1} : Backfill!CleanUp(oldest)
            \/ \E a \in Backfill!Archives : Backfill!Publish(a) \/ Backfill!Republish(a)
            \/ UNCHANGED Backfill!vars
       BY <1>9, <1>12
       DEF Backfill!PersistChunk, Backfill!NextDay, Backfill!CleanUp, Backfill!Publish,
           Backfill!Republish, Backfill!vars
<1>13. QED
      BY <1>10, <1>11, <1>12, BackfillSteps

-----------------------------------------------------------------------------
\* Progress and the table, by one step: what a checkpoint counts is written with it,
\* and only what has left the window is taken away.
ChunkOf(a) ==
    LET d == checkpoint[a].next
    IN  /\ d \in Backfill!Period(a)
        /\ stored' = stored \cup {d}
        /\ checkpoint' = [checkpoint EXCEPT ![a].next = Backfill!Advance(a, d)]
        /\ today' = today /\ remote' = remote

KeepsProgress ==
    /\ checkpoint' \in [Backfill!Archives -> CheckpointRow]
    /\ \A a \in Backfill!Archives : checkpoint'[a].next = checkpoint[a].next

LEMMA CheckpointTypes ==
    ASSUME BackfillInv, NEW a \in Backfill!Archives
    PROVE  /\ checkpoint[a] \in CheckpointRow
           /\ checkpoint[a].next \in Backfill!FirstDay(a) .. (Backfill!LastDay(a) + 1)
           /\ Backfill!Period(a) \subseteq Backfill!Days
           /\ Backfill!FirstDay(a) \in Backfill!Days
           /\ Backfill!LastDay(a) \in Backfill!Days
           /\ Backfill!Days \subseteq Int
BY Periods DEF BackfillInv, Backfill!TypeOK, Backfill!Days

LEMMA ChunkKeepsProgress ==
    ASSUME BackfillInv, NEW a \in Backfill!Archives, ChunkOf(a)
    PROVE  /\ stored' \subseteq Backfill!Days
           /\ checkpoint' \in [Backfill!Archives -> CheckpointRow]
           /\ \A b \in Backfill!Archives :
                  checkpoint'[b].next \in Backfill!FirstDay(b) .. (Backfill!LastDay(b) + 1)
           /\ Backfill!ProgressIsStored'
<1> DEFINE d == checkpoint[a].next
<1>1. /\ d \in Backfill!Period(a) /\ d \in Backfill!Days /\ d \in Int
      /\ stored' = stored \cup {d} /\ today' = today
      BY CheckpointTypes DEF ChunkOf
<1>2. checkpoint' = [checkpoint EXCEPT ![a] = [checkpoint[a] EXCEPT !.next = d + 1]]
  <2>1. checkpoint \in [Backfill!Archives -> CheckpointRow]
        BY DEF BackfillInv
  <2>2. QED
        BY <2>1 DEF ChunkOf, Backfill!Advance
<1> HIDE DEF d
<1>3. checkpoint \in [Backfill!Archives -> CheckpointRow]
      BY DEF BackfillInv
<1>4. [checkpoint[a] EXCEPT !.next = d + 1] \in CheckpointRow
      BY <1>1, <1>3 DEF CheckpointRow
<1>5. checkpoint' \in [Backfill!Archives -> CheckpointRow]
      BY <1>2, <1>3, <1>4
<1>6. /\ checkpoint'[a].next = d + 1
      /\ \A b \in Backfill!Archives \ {a} : checkpoint'[b] = checkpoint[b]
      BY <1>2, <1>3 DEF CheckpointRow
<1>7. d + 1 \in Backfill!FirstDay(a) .. (Backfill!LastDay(a) + 1)
  <2>1. /\ Backfill!FirstDay(a) \in Int
        /\ Backfill!LastDay(a) \in Int
        /\ Backfill!FirstDay(a) <= d
        /\ d <= Backfill!LastDay(a)
        BY <1>1, CheckpointTypes, Periods DEF BackfillInv, Backfill!Days
  <2>2. QED
        BY <1>1, <2>1
<1>8. \A b \in Backfill!Archives :
          checkpoint'[b].next \in Backfill!FirstDay(b) .. (Backfill!LastDay(b) + 1)
      BY <1>6, <1>7, CheckpointTypes
<1>9. stored \subseteq Backfill!Days /\ stored' \subseteq Backfill!Days
      BY <1>1 DEF BackfillInv, Backfill!TypeOK
<1>10. ASSUME NEW b \in Backfill!Archives, NEW e \in Backfill!Period(b), e < checkpoint'[b].next,
              e > today' - TargetDays
       PROVE  e \in stored'
  <2>1. CASE b = a
    <3>1. e \in Int
          BY CheckpointTypes
    <3>2. e < d \/ e = d
          BY <1>1, <1>6, <1>10, <2>1, <3>1
    <3>3. d = checkpoint[a].next
          BY DEF d
    <3>4. e < d => e \in stored
          BY <1>1, <1>10, <2>1, <3>3 DEF BackfillInv, Backfill!ProgressIsStored
    <3>5. QED
          BY <1>1, <3>2, <3>4
  <2>2. CASE b # a
    <3>1. e \in stored
          BY <1>1, <1>6, <1>10, <2>2 DEF BackfillInv, Backfill!ProgressIsStored
    <3>2. QED
          BY <1>1, <3>1
  <2>3. QED
        BY <2>1, <2>2
<1>11. QED
      BY <1>5, <1>8, <1>9, <1>10 DEF Backfill!ProgressIsStored

\* Every other step leaves the progress as it is.
LEMMA OthersKeepProgress ==
    ASSUME BackfillInv, [Backfill!Next]_(Backfill!vars),
           ~(\E w \in Processes : Backfill!PersistChunk(w))
    PROVE  KeepsProgress
<1>1. checkpoint \in [Backfill!Archives -> CheckpointRow]
      BY DEF BackfillInv
<1>2. ASSUME UNCHANGED checkpoint PROVE KeepsProgress
      BY <1>1, <1>2 DEF KeepsProgress
<1>3. ASSUME NEW a \in Backfill!Archives, NEW entry \in CheckpointRow,
             checkpoint' = [checkpoint EXCEPT ![a] = entry], entry.next = checkpoint[a].next
      PROVE  KeepsProgress
      BY <1>1, <1>3 DEF KeepsProgress
<1>4. ASSUME NEW w \in Processes, Backfill!DownloadArchive(w) PROVE KeepsProgress
  <2> DEFINE a == process[w].archive
             entry == [checkpoint[a] EXCEPT !.sum = remote[a]]
  <2>1. a \in Backfill!Archives
        BY <1>4 DEF Backfill!DownloadArchive, Backfill!At, BackfillInv, Importing
  <2>2. checkpoint' = [checkpoint EXCEPT ![a] = entry]
        BY <1>1, <1>4, <2>1 DEF Backfill!DownloadArchive
  <2>3. remote[a] \in 0 .. 2
        BY <2>1 DEF BackfillInv
  <2> HIDE DEF a
  <2>4. entry \in CheckpointRow /\ entry.next = checkpoint[a].next
        BY <1>1, <2>1, <2>3 DEF CheckpointRow
  <2>5. QED
        BY <1>3, <2>1, <2>2, <2>4
<1>5. ASSUME NEW w \in Processes, Backfill!CompleteArchive(w) PROVE KeepsProgress
  <2> DEFINE a == process[w].archive
             entry == [checkpoint[a] EXCEPT !.status = "complete"]
  <2>1. a \in Backfill!Archives
        BY <1>5 DEF Backfill!CompleteArchive, Backfill!At, BackfillInv, Importing
  <2>2. checkpoint' = [checkpoint EXCEPT ![a] = entry] \/ UNCHANGED checkpoint
        BY <1>1, <1>5, <2>1 DEF Backfill!CompleteArchive
  <2> HIDE DEF a
  <2>3. entry \in CheckpointRow /\ entry.next = checkpoint[a].next
        BY <1>1, <2>1 DEF CheckpointRow
  <2>4. QED
        BY <1>2, <1>3, <2>1, <2>2, <2>3
<1>6. ASSUME NEW w \in Processes, Backfill!DeferUnit(w) PROVE KeepsProgress
  <2> DEFINE a == process[w].unit.primary
             entry == [checkpoint[a] EXCEPT !.status = "open"]
  <2>1. checkpoint' = [checkpoint EXCEPT ![a] = entry]
        BY <1>1, <1>6 DEF Backfill!DeferUnit
  <2> HIDE DEF a
  <2>2. CASE a \in Backfill!Archives
    <3>1. entry \in CheckpointRow /\ entry.next = checkpoint[a].next
          BY <1>1, <2>2 DEF CheckpointRow
    <3>2. QED
          BY <1>3, <2>1, <2>2, <3>1
  <2>3. CASE a \notin Backfill!Archives
    <3>1. checkpoint' = checkpoint
          BY <1>1, <2>1, <2>3
    <3>2. QED
          BY <1>2, <3>1
  <2>4. QED
        BY <2>2, <2>3
<1>7. ASSUME NEW w \in Processes,
             \/ Backfill!ReadCoverage(w)
             \/ Backfill!ReportAndAcquire(w)
             \/ Backfill!StartAttempt(w)
             \/ Backfill!ArchiveAbsent(w)
             \/ Backfill!FinishUnit(w) \/ Backfill!DownloadFails(w) \/ Backfill!Crash(w)
      PROVE  UNCHANGED checkpoint
      BY <1>7
      DEF Backfill!ReadCoverage, Backfill!ReportAndAcquire, Backfill!StartAttempt,
          Backfill!ArchiveAbsent, Backfill!FinishUnit, Backfill!DownloadFails,
          Backfill!Crash
<1>8. Backfill!NextDay => UNCHANGED checkpoint
      BY DEF Backfill!NextDay
<1>9. \A oldest : Backfill!CleanUp(oldest) => UNCHANGED checkpoint
      BY DEF Backfill!CleanUp
<1>10. \A a \in Backfill!Archives : Backfill!Publish(a) \/ Backfill!Republish(a) =>
           UNCHANGED checkpoint
      BY DEF Backfill!Publish, Backfill!Republish
<1>11. UNCHANGED Backfill!vars => UNCHANGED checkpoint
      BY DEF Backfill!vars
<1>12. QED
      BY <1>2, <1>4, <1>5, <1>6, <1>7, <1>8, <1>9, <1>10, <1>11, BackfillSteps

\* What a step does to the table and to the day.
LEMMA StoredSteps ==
    ASSUME BackfillInv, [Backfill!Next]_(Backfill!vars),
           ~(\E w \in Processes : Backfill!PersistChunk(w))
    PROVE  /\ today' \in FirstToday .. LastToday /\ today <= today'
           /\ stored' \subseteq Backfill!Days
           /\ \A d \in stored : d > today' - TargetDays => d \in stored'
<1>1. /\ today \in FirstToday .. LastToday /\ FirstToday \in Nat \ {0} /\ LastToday \in Nat
      /\ today \in Nat
      /\ stored \subseteq Backfill!Days
      /\ stored \subseteq Nat
      /\ TargetDays \in Nat
      BY BackfillConstants DEF BackfillInv, Backfill!TypeOK, Backfill!Days
<1>2. CASE UNCHANGED <<today, stored>>
      BY <1>1, <1>2
<1>3. CASE Backfill!NextDay
  <2>1. today' = today + 1 /\ today < LastToday /\ stored' \in {stored, stored \cup {today}}
        BY <1>3 DEF Backfill!NextDay
  <2>2. today \in Backfill!Days
        BY <1>1, <2>1 DEF Backfill!Days
  <2>3. QED
        BY <1>1, <2>1, <2>2
<1>4. ASSUME NEW oldest \in {today - TargetDays, today - TargetDays + 1}, Backfill!CleanUp(oldest)
      PROVE  /\ today' = today /\ stored' \subseteq stored
             /\ \A d \in stored : d > today - TargetDays => d \in stored'
  <2>1. today' = today /\ stored' = {d \in stored : d >= oldest}
        BY <1>4 DEF Backfill!CleanUp
  <2>2. ASSUME NEW d \in stored, d > today - TargetDays PROVE d >= oldest
        BY <1>1, <2>2
  <2>3. QED
        BY <2>1, <2>2
<1>5. ASSUME NEW w \in Processes,
             \/ Backfill!ReadCoverage(w)
             \/ Backfill!ReportAndAcquire(w)
             \/ Backfill!StartAttempt(w)
             \/ Backfill!DownloadArchive(w)
             \/ Backfill!ArchiveAbsent(w) \/ Backfill!CompleteArchive(w) \/ Backfill!FinishUnit(w)
             \/ Backfill!DeferUnit(w) \/ Backfill!DownloadFails(w) \/ Backfill!Crash(w)
      PROVE  UNCHANGED <<today, stored>>
      BY <1>5
      DEF Backfill!ReadCoverage, Backfill!ReportAndAcquire, Backfill!StartAttempt,
          Backfill!DownloadArchive, Backfill!ArchiveAbsent, Backfill!CompleteArchive,
          Backfill!FinishUnit, Backfill!DeferUnit, Backfill!DownloadFails, Backfill!Crash
<1>6. \A a \in Backfill!Archives : Backfill!Publish(a) \/ Backfill!Republish(a) =>
          UNCHANGED <<today, stored>>
      BY DEF Backfill!Publish, Backfill!Republish
<1>7. UNCHANGED Backfill!vars => UNCHANGED <<today, stored>>
      BY DEF Backfill!vars
<1>8. CASE \E oldest \in {today - TargetDays, today - TargetDays + 1} : Backfill!CleanUp(oldest)
  <2>1. /\ today' = today /\ stored' \subseteq stored
        /\ \A d \in stored : d > today - TargetDays => d \in stored'
        BY <1>4, <1>8, Zenon
  <2>2. QED
        BY <1>1, <2>1
<1>9. QED
      BY <1>2, <1>3, <1>5, <1>6, <1>7, <1>8, BackfillSteps

\* What a step does to the archives, the lock and the coverage row.
LEMMA OtherTypes ==
    ASSUME BackfillInv, [Backfill!Next]_(Backfill!vars)
    PROVE  /\ remote' \in [Backfill!Archives -> 0 .. 2]
           /\ lease' \in Processes \cup {Backfill!NoWorker}
           /\ coverage'.status \in {"ready", "backfilling"}
           /\ coverage'.available \subseteq Backfill!Days
<1>1. /\ remote \in [Backfill!Archives -> 0 .. 2]
      /\ lease \in Processes \cup {Backfill!NoWorker}
      /\ coverage.status \in {"ready", "backfilling"} /\ coverage.available \subseteq Backfill!Days
      /\ process \in [Processes -> WorkerState]
      BY DEF BackfillInv, Backfill!TypeOK
<1>2. ASSUME NEW entry \in CoverageRow, coverage' = entry
      PROVE  /\ coverage'.status \in {"ready", "backfilling"}
             /\ coverage'.available \subseteq Backfill!Days
      BY <1>2 DEF CoverageRow
<1>3. ASSUME NEW w \in Processes, Backfill!ReportAndAcquire(w) PROVE coverage' \in CoverageRow
      BY <1>1, <1>3 DEF Backfill!ReportAndAcquire, Backfill!Reported, WorkerState
<1>4. ASSUME NEW w \in Processes, Backfill!ReportAndAcquire(w) PROVE lease' \in {w, lease}
      BY <1>4 DEF Backfill!ReportAndAcquire, Backfill!TryAcquire, Backfill!Plan
<1>5. ASSUME NEW w \in Processes, Backfill!FinishUnit(w) PROVE coverage' \in CoverageRow
      BY <1>5, CoverageTypes DEF Backfill!FinishUnit
<1>6. ASSUME NEW w \in Processes,
             Backfill!FinishUnit(w) \/ Backfill!DeferUnit(w) \/ Backfill!Crash(w)
      PROVE  lease' \in {Backfill!NoWorker, lease}
      BY <1>6 DEF Backfill!FinishUnit, Backfill!DeferUnit, Backfill!Crash, Backfill!Release
<1>7. ASSUME NEW oldest, Backfill!CleanUp(oldest)
      PROVE  coverage' \in CoverageRow /\ UNCHANGED <<lease, remote>>
      BY <1>7, CoverageTypes DEF Backfill!CleanUp
<1>8. ASSUME NEW a \in Backfill!Archives, Backfill!Publish(a) \/ Backfill!Republish(a)
      PROVE  remote' \in [Backfill!Archives -> 0 .. 2] /\ UNCHANGED <<lease, coverage>>
      BY <1>1, <1>8 DEF Backfill!Publish, Backfill!Republish
<1>9. ASSUME NEW w \in Processes,
             \/ Backfill!ReadCoverage(w) \/ Backfill!StartAttempt(w) \/ Backfill!DownloadArchive(w)
             \/ Backfill!ArchiveAbsent(w)
             \/ Backfill!PersistChunk(w)
             \/ Backfill!CompleteArchive(w)
             \/ Backfill!DownloadFails(w)
      PROVE  UNCHANGED <<remote, lease, coverage>>
      BY <1>9
      DEF Backfill!ReadCoverage, Backfill!StartAttempt, Backfill!DownloadArchive,
          Backfill!ArchiveAbsent, Backfill!PersistChunk, Backfill!CompleteArchive,
          Backfill!DownloadFails
<1>10. ASSUME NEW w \in Processes,
              \/ Backfill!ReportAndAcquire(w)
              \/ Backfill!FinishUnit(w) \/ Backfill!DeferUnit(w) \/ Backfill!Crash(w)
       PROVE  UNCHANGED remote /\ (Backfill!DeferUnit(w) \/ Backfill!Crash(w) => UNCHANGED coverage)
      BY <1>10
      DEF Backfill!ReportAndAcquire, Backfill!FinishUnit, Backfill!DeferUnit,
          Backfill!Crash
<1>11. Backfill!NextDay \/ UNCHANGED Backfill!vars => UNCHANGED <<remote, lease, coverage>>
      BY DEF Backfill!NextDay, Backfill!vars
<1>12. remote' \in [Backfill!Archives -> 0 .. 2]
      BY <1>1, <1>7, <1>8, <1>9, <1>10, <1>11, BackfillSteps
<1>13. lease' \in Processes \cup {Backfill!NoWorker}
      BY <1>1, <1>4, <1>6, <1>7, <1>8, <1>9, <1>11, BackfillSteps
<1>14. coverage' \in CoverageRow \/ UNCHANGED coverage
      BY <1>3, <1>5, <1>7, <1>8, <1>9, <1>10, <1>11, BackfillSteps
<1>15. QED
      BY <1>1, <1>2, <1>12, <1>13, <1>14

LEMMA WindowMovesOn ==
    ASSUME NEW d \in Int, NEW t \in Int, NEW u \in Int, NEW n \in Int, t <= u, d > u - n
    PROVE  d > t - n
OBVIOUS

LEMMA BackfillStep ==
    ASSUME BackfillInv, [Backfill!Next]_(Backfill!vars)
    PROVE  BackfillInv'
<1>1. /\ checkpoint' \in [Backfill!Archives -> CheckpointRow]
      /\ \A a \in Backfill!Archives :
             checkpoint'[a].next \in Backfill!FirstDay(a) .. (Backfill!LastDay(a) + 1)
      /\ stored' \subseteq Backfill!Days /\ today' \in FirstToday .. LastToday
      /\ Backfill!ProgressIsStored'
  <2>1. ASSUME NEW w \in Processes, Backfill!PersistChunk(w)
        PROVE  /\ today' = today
               /\ \E a \in Backfill!Archives : ChunkOf(a)
    <3>1. process[w].archive \in Backfill!Archives
          BY <2>1 DEF Backfill!PersistChunk, Backfill!At, BackfillInv, Importing
    <3>2. QED
          BY <2>1, <3>1 DEF Backfill!PersistChunk, ChunkOf
  <2>2. CASE \E w \in Processes : Backfill!PersistChunk(w)
    <3>1. today' \in FirstToday .. LastToday
          BY <2>1, <2>2 DEF BackfillInv, Backfill!TypeOK
    <3>2. PICK a \in Backfill!Archives : ChunkOf(a)
          BY <2>1, <2>2
    <3>3. QED
          BY <3>1, <3>2, ChunkKeepsProgress
  <2>3. CASE ~(\E w \in Processes : Backfill!PersistChunk(w))
    <3>1. KeepsProgress
          BY <2>3, OthersKeepProgress
    <3>2. /\ today' \in FirstToday .. LastToday /\ today <= today'
          /\ stored' \subseteq Backfill!Days
          /\ \A d \in stored : d > today' - TargetDays => d \in stored'
          BY <2>3, StoredSteps
    <3>3. ASSUME NEW a \in Backfill!Archives, NEW d \in Backfill!Period(a), d < checkpoint'[a].next,
                 d > today' - TargetDays
          PROVE  d \in stored'
      <4>1. d \in Int /\ today \in Int /\ today' \in Int /\ TargetDays \in Int
        <5>1. today \in Int /\ today' \in Int /\ TargetDays \in Int
              BY <3>2, BackfillConstants DEF BackfillInv, Backfill!TypeOK
        <5>2. d \in Int
              BY CheckpointTypes
        <5>3. QED
              BY <5>1, <5>2
      <4>2. today <= today' /\ d > today' - TargetDays
            BY <3>2, <3>3
      <4>3. d > today - TargetDays
            BY <4>1, <4>2, WindowMovesOn
      <4>4. d \in stored
            BY <3>1, <3>3, <4>3 DEF KeepsProgress, BackfillInv, Backfill!ProgressIsStored
      <4>5. QED
            BY <3>2, <3>3, <4>4
    <3>4. QED
          BY <3>1, <3>2, <3>3, CheckpointTypes DEF KeepsProgress, Backfill!ProgressIsStored
  <2>4. QED
        BY <2>2, <2>3
<1>2. /\ remote' \in [Backfill!Archives -> 0 .. 2]
      /\ lease' \in Processes \cup {Backfill!NoWorker}
      /\ coverage'.status \in {"ready", "backfilling"}
      /\ coverage'.available \subseteq Backfill!Days
      BY OtherTypes
<1>3. /\ process' \in [Processes -> WorkerState]
      /\ \A w \in Processes : process'[w].phase \in Importing =>
             process'[w].archive \in Backfill!Archives
      BY StepWorkers
<1>4. Backfill!TypeOK'
      BY <1>1, <1>2, <1>3 DEF Backfill!TypeOK, CheckpointRow, WorkerState
<1>5. QED
      BY <1>1, <1>2, <1>3, <1>4 DEF BackfillInv

\* Whatever crashed in between, resuming an archive skips nothing that is still
\* wanted: the days a checkpoint counts as imported are in the table
\* (_persist_chunks writes both in one transaction, cleanup_retention takes away only
\* what has left the window).
THEOREM BackfillHolds == Backfill!Spec => []BackfillIsSound
<1>1. Backfill!Init => BackfillInv
      BY BackfillInit
<1>2. BackfillInv /\ [Backfill!Next]_(Backfill!vars) => BackfillInv'
      BY BackfillStep
<1>3. BackfillInv => BackfillIsSound
      BY DEF BackfillInv, BackfillIsSound, Backfill!BackfillIsSound
<1>4. QED
      BY <1>1, <1>2, <1>3, PTL DEF Backfill!Spec
=============================================================================
