---------------------------- MODULE CandleBackfill ----------------------------
(***************************************************************************)
(* The background worker that fills the candle history from the public     *)
(* archives: it plans the missing days, imports one archive at a time in   *)
(* chunks with a durable checkpoint, and keeps the persisted coverage row. *)
(* A day stands for its 1440 one-minute candles and a chunk of a monthly   *)
(* archive for one day; a daily archive is a single chunk.  One market.    *)
(***************************************************************************)
EXTENDS Integers, FiniteSets

CONSTANTS
    Workers,      \* processes that may run the backfill worker
    MonthLength,  \* days of a month
    TargetDays,   \* days of history wanted (765 in the code)
    FirstToday,   \* the day on which the system starts
    LastToday,    \* bound on the days that pass
    MaxCrashes,   \* bound on the crashes
    Histories     \* sets of days the system may start with

BackfillAssumption ==
    /\ MonthLength \in Nat \ {0}
    /\ TargetDays \in Nat
    /\ FirstToday \in Nat \ {0} /\ LastToday \in Nat /\ FirstToday <= LastToday
    /\ Histories \subseteq SUBSET (1 .. (FirstToday - 1))

VARIABLES
    today,       \* the current day; the days before it are completed
    stored,      \* days whose candles are all current and complete
    remote,      \* archive -> its published version, 0 while it is not published
    checkpoint,  \* archive -> its checkpoint row; "open" stands for no row yet, for
                 \* processing and for failed, which no decision tells apart
    coverage,    \* the persisted coverage row
    lease,       \* the worker that holds the advisory lock, or NoWorker
    worker,      \* worker -> what its process is doing
    crashes      \* crashes so far, at most MaxCrashes

vars == <<today, stored, remote, checkpoint, coverage, lease, worker, crashes>>

Days == 1 .. (LastToday - 1)
NoWorker == "nobody"

Month(d) == (d - 1) \div MonthLength
DaysOf(month) == {d \in Days : Month(d) = month}
MonthEnd(month) == (month + 1) * MonthLength   \* its last day

Daily(d) == [granularity |-> "daily", period |-> d]
Monthly(m) == [granularity |-> "monthly", period |-> m]
\* Only a month that ends within the bound has an archive in the model.
Archives == {Daily(d) : d \in Days}
            \cup {Monthly(m) : m \in {n \in 0 .. Month(LastToday - 1) : MonthEnd(n) < LastToday}}
Period(a) == IF a.granularity = "daily" THEN {a.period} ELSE DaysOf(a.period)
LastDay(a) == CHOOSE d \in Period(a) : \A e \in Period(a) : e <= d
FirstDay(a) == CHOOSE d \in Period(a) : \A e \in Period(a) : d <= e

\* build_coverage_target: the completed days up to midnight, TargetDays of them.
Target == {d \in Days : d < today /\ d >= today - TargetDays}
Missing == Target \ stored

\* _candidate_is_complete: a checkpoint of the month, or of each missing day.
IsDone(a) == checkpoint[a].status = "complete"
Candidate(primary, fallbacks) == [primary |-> primary, fallbacks |-> fallbacks]
CandidateDone(c) ==
    IsDone(c.primary) \/ (c.fallbacks # {} /\ \A a \in c.fallbacks : IsDone(a))

\* find_missing_candle_ranges: maximal runs of missing days.
IsRange(ds) ==
    /\ ds # {} /\ ds \subseteq Missing
    /\ \A d, e \in ds : \A n \in d .. e : n \in ds
    /\ \A d \in ds : /\ d - 1 \in Missing => d - 1 \in ds
                     /\ d + 1 \in Missing => d + 1 \in ds
Ranges == {ds \in SUBSET Missing : IsRange(ds)}
NewerRange(r, s) == \A d \in r, e \in s : e < d

\* plan_archive_candidates: a completed month is one candidate with its missing
\* days as fallbacks; each missing day of the current month is one by itself.
CandidatesOf(range) ==
    {Candidate(Monthly(m), {Daily(d) : d \in range \cap DaysOf(m)}) :
        m \in {n \in {Month(d) : d \in range} : MonthEnd(n) < today}}
    \cup {Candidate(Daily(d), {}) : d \in {e \in range : MonthEnd(Month(e)) >= today}}

Older(c, e) == FirstDay(c.primary) < FirstDay(e.primary)

\* next_work_unit: ranges newest first, the candidates of a range oldest first.
Open(range) == {c \in CandidatesOf(range) : ~CandidateDone(c)}
OpenRanges == {r \in Ranges : Open(r) # {}}
NextUnit ==
    LET range == CHOOSE r \in OpenRanges : \A s \in OpenRanges \ {r} : NewerRange(r, s)
    IN  CHOOSE c \in Open(range) : \A e \in Open(range) \ {c} : Older(c, e)

\* persist_coverage_plan: the newest contiguous run, and ready when nothing misses.
NewestRun(present) ==
    LET newest == CHOOSE d \in present : \A e \in present : e <= d
    IN  {d \in present : \A n \in d .. newest : n \in present}
CoverageOf(days) ==
    [status |-> IF Target \subseteq days THEN "ready" ELSE "backfilling",
     available |-> NewestRun(Target \cap days)]

NoUnit == Candidate(Daily(0), {})
NoArchive == Daily(0)
Idle == [phase |-> "idle", unit |-> NoUnit, archive |-> NoArchive,
         row |-> [status |-> "backfilling", available |-> {}]]

Init ==
    /\ today = FirstToday
    /\ stored \in Histories
    /\ \E absent \in SUBSET {a \in Archives : a.granularity = "monthly"} :
          remote = [a \in Archives |-> IF a \in absent \/ LastDay(a) >= today THEN 0 ELSE 1]
    /\ checkpoint = [a \in Archives |-> [status |-> "open", next |-> FirstDay(a), sum |-> 0]]
    /\ coverage = CoverageOf(stored)
    /\ crashes = 0
    /\ lease = NoWorker
    /\ worker = [w \in Workers |-> Idle]

-----------------------------------------------------------------------------
At(w, phase) == worker[w].phase = phase
Go(w, phase) == worker' = [worker EXCEPT ![w].phase = phase]
Rest(w) == worker' = [worker EXCEPT ![w] = Idle]
Finish(w) == worker' = [worker EXCEPT ![w] = [Idle EXCEPT !.phase = "finished"]]
\* _fail_checkpoint: the checkpoint stays open, and a complete one complete.
Fail(w) == worker' = [worker EXCEPT ![w] =
               [Idle EXCEPT !.phase = "failing", !.unit = worker[w].unit]]

ReleaseNever(w) == UNCHANGED lease

\* Leaving the lease's context closes the connection that holds the lock.
Release(w) == lease' = IF lease = w THEN NoWorker ELSE lease

\* get_coverage_status: every loop refreshes the persisted coverage, from what
\* the table held when it was read.
ReadCoverage(w) ==
    /\ At(w, "idle")
    /\ worker' = [worker EXCEPT ![w].row = CoverageOf(stored), ![w].phase = "read"]
    /\ UNCHANGED <<today, stored, remote, checkpoint, coverage, lease, crashes>>

\* next_work_unit under the lock, or nothing to do until the maintenance time.
Plan(w) ==
    IF OpenRanges = {}
    THEN Rest(w) /\ UNCHANGED lease
    ELSE /\ lease' = w
         /\ worker' = [worker EXCEPT ![w] =
               [Idle EXCEPT !.phase = "planned", !.unit = NextUnit, !.archive = NextUnit.primary]]

\* pg_try_advisory_lock: taken at once, or the worker sleeps and starts over.
TryAcquire(w) ==
    IF lease = NoWorker THEN Plan(w) ELSE Rest(w) /\ UNCHANGED lease

\* persist_coverage_plan overwrites the row, whatever it said.
Reported(w) == worker[w].row

\* The round goes on: the coverage is written, then the lock is tried.
ReportAndAcquire(w) ==
    /\ At(w, "read")
    /\ coverage' = Reported(w)
    /\ TryAcquire(w)
    /\ UNCHANGED <<today, stored, remote, checkpoint, crashes>>

\* ensure_checkpoint and start_checkpoint_attempt, one transaction.
StartAttempt(w) ==
    LET a == worker[w].archive
    IN  /\ At(w, "planned")
        /\ IF IsDone(a)
           THEN Finish(w)
           ELSE Go(w, "download")
        /\ UNCHANGED <<today, stored, remote, checkpoint, coverage, lease, crashes>>

\* Download and checksum, the recorded checksum, and the whole file validated.
DownloadArchive(w) ==
    LET a == worker[w].archive
    IN  /\ At(w, "download")
        /\ remote[a] # 0
        /\ checkpoint[a].sum \in {0, remote[a]}
        /\ checkpoint' = [checkpoint EXCEPT ![a].sum = remote[a]]
        /\ Go(w, "import")
        /\ UNCHANGED <<today, stored, remote, coverage, lease, crashes>>

\* The next archive to fall back to: a missing day whose checkpoint is open.
OpenFallbacks(w, tried) == {a \in worker[w].unit.fallbacks : ~IsDone(a) /\ Older(
    Candidate(tried, {}), Candidate(a, {}))}
FirstFallbacks(w) == {a \in worker[w].unit.fallbacks : ~IsDone(a)}
NextFallbacks(w) ==
    IF worker[w].archive = worker[w].unit.primary
    THEN FirstFallbacks(w) ELSE OpenFallbacks(w, worker[w].archive)
Earliest(archives) == CHOOSE a \in archives : \A b \in archives : FirstDay(a) <= FirstDay(b)

\* A 404: the daily fallbacks of a month are tried one after the other, and the
\* unit fails when none is left.
ArchiveAbsent(w) ==
    LET a == worker[w].archive
    IN  /\ At(w, "download")
        /\ remote[a] = 0
        /\ IF NextFallbacks(w) # {}
           THEN worker' = [worker EXCEPT ![w].archive = Earliest(NextFallbacks(w)),
                                         ![w].phase = "planned"]
           ELSE Fail(w)
        /\ UNCHANGED <<today, stored, remote, checkpoint, coverage, lease, crashes>>

\* A changed checksum, a provider error, or a file that does not validate.
DownloadFails(w) ==
    LET a == worker[w].archive
    IN  /\ At(w, "download")
        /\ remote[a] # 0
        /\ Fail(w)
        /\ UNCHANGED <<today, stored, remote, checkpoint, coverage, lease, crashes>>

\* Mutant: progress is one row past what was written
AdvancePast(a, d) == IF d = LastDay(a) THEN d + 1 ELSE d + 2

\* advance_checkpoint: progress follows the last row of the chunk.
Advance(a, d) == d + 1

\* _persist_chunks: the rows from next_open_time on and the progress, one transaction.
PersistChunk(w) ==
    LET a == worker[w].archive
        d == checkpoint[a].next
    IN  /\ At(w, "import")
        /\ d \in Period(a)
        /\ stored' = stored \cup {d}
        /\ checkpoint' = [checkpoint EXCEPT ![a].next = Advance(a, d)]
        /\ UNCHANGED <<today, remote, coverage, lease, worker, crashes>>

\* get_complete_candle_coverage of the archive's period.
Covered(a) == Period(a) \subseteq stored

\* _complete_checkpoint: only when the whole period is complete in the table.
CompleteArchive(w) ==
    LET a == worker[w].archive
    IN  /\ At(w, "import")
        /\ checkpoint[a].next \notin Period(a)
        /\ IF Covered(a)
           THEN /\ checkpoint' = [checkpoint EXCEPT ![a].status = "complete"]
                /\ Finish(w)
           ELSE Fail(w) /\ UNCHANGED checkpoint
        /\ UNCHANGED <<today, stored, remote, coverage, lease, crashes>>

\* The unit is done: the coverage is refreshed and the lock released.
FinishUnit(w) ==
    /\ At(w, "finished")
    /\ coverage' = CoverageOf(stored)
    /\ Rest(w) /\ Release(w)
    /\ UNCHANGED <<today, stored, remote, checkpoint, crashes>>

\* defer_work_unit marks the checkpoint of the unit failed, whatever it said, and
\* the worker backs off: only the lock keeps another worker from completing it.
DeferUnit(w) ==
    /\ At(w, "failing")
    /\ checkpoint' = [checkpoint EXCEPT ![worker[w].unit.primary].status = "open"]
    /\ Rest(w) /\ Release(w)
    /\ UNCHANGED <<today, stored, remote, coverage, crashes>>

\* A database error ends the process, and so may anything else; it is restarted.
\* A worker without the lock has nothing to lose.
Crash(w) ==
    /\ lease = w
    /\ crashes < MaxCrashes
    /\ crashes' = crashes + 1
    /\ Rest(w) /\ Release(w)
    /\ UNCHANGED <<today, stored, remote, checkpoint, coverage>>

-----------------------------------------------------------------------------
\* Midnight: the stream has stored the whole day, or has left a gap in it.
NextDay ==
    /\ today < LastToday
    /\ today' = today + 1
    /\ stored' \in {stored, stored \cup {today}}
    /\ UNCHANGED <<remote, checkpoint, coverage, lease, worker, crashes>>

\* The provider publishes an archive.
Publish(a) ==
    /\ remote[a] = 0
    /\ LastDay(a) < today
    /\ remote' = [remote EXCEPT ![a] = 1]
    /\ UNCHANGED <<today, stored, checkpoint, coverage, lease, worker, crashes>>

\* The provider replaces an archive whose checksum is on record (for any other
\* archive the version makes no difference).
Republish(a) ==
    /\ remote[a] = 1 /\ checkpoint[a].sum = 1 /\ ~IsDone(a)
    /\ remote' = [remote EXCEPT ![a] = 2]
    /\ UNCHANGED <<today, stored, checkpoint, coverage, lease, worker, crashes>>

\* cleanup_retention: the candles that have left the window go, with part of its
\* oldest day when the command runs after midnight, and the coverage is
\* recalculated in the same transaction.
CleanUp(oldest) ==
    LET kept == {d \in stored : d >= oldest}
    IN  /\ kept # stored
        /\ today < LastToday
        /\ stored' = kept
        /\ coverage' = CoverageOf(kept)
        /\ UNCHANGED <<today, remote, checkpoint, lease, worker, crashes>>

Step(w) ==
    \/ ReadCoverage(w) \/ ReportAndAcquire(w)
    \/ StartAttempt(w) \/ DownloadArchive(w) \/ ArchiveAbsent(w)
    \/ PersistChunk(w) \/ CompleteArchive(w) \/ FinishUnit(w) \/ DeferUnit(w)

Next ==
    \/ \E w \in Workers : Step(w) \/ DownloadFails(w) \/ Crash(w)
    \/ NextDay
    \/ \E oldest \in {today - TargetDays, today - TargetDays + 1} : CleanUp(oldest)
    \/ \E a \in Archives : Publish(a) \/ Republish(a)

\* The workers' loops keep running, and the downloads are not all refused for ever.
Downloads == \E w \in Workers : DownloadArchive(w)
Fairness == (\A w \in Workers : WF_vars(Step(w))) /\ SF_vars(Downloads)

Spec == Init /\ [][Next]_vars /\ Fairness

-----------------------------------------------------------------------------
Phases == {"idle", "read", "planned", "download", "import",
           "finished", "failing"}

TypeOK ==
    /\ today \in FirstToday .. LastToday
    /\ stored \subseteq Days
    /\ lease \in Workers \cup {NoWorker}
    /\ \A a \in Archives :
          /\ checkpoint[a].status \in {"open", "complete"}
          /\ checkpoint[a].next \in FirstDay(a) .. (LastDay(a) + 1)
          /\ checkpoint[a].sum \in 0 .. 2
    /\ coverage.status \in {"ready", "backfilling"} /\ coverage.available \subseteq Days
    /\ \A w \in Workers : worker[w].phase \in Phases

\* What a checkpoint counts as imported is in the table, whatever crashed in
\* between, unless retention has taken it away since: resuming skips nothing.
ProgressIsStored ==
    \A a \in Archives : \A d \in Period(a) :
        d < checkpoint[a].next /\ d > today - TargetDays => d \in stored

\* Every archive of a completed period is published, as it was when it was checked.
Steady == \A a \in Archives :
              LastDay(a) < today => remote[a] # 0 /\ checkpoint[a].sum \in {0, remote[a]}

\* An open checkpoint that counts days as imported which retention has removed.
Cut(a) == /\ ~IsDone(a)
          /\ \E d \in Period(a) : d < checkpoint[a].next /\ d \notin stored

\* Crashes, failures, missing archives and a second worker delay the backfill and
\* do not stop it: once the archives are there the planner runs out of work, or
\* retention has cut into an archive between two chunks or before a resumption.
OnlyCutArchivesBlock ==
    <>[]Steady => <>[](OpenRanges = {}) \/ []<>(\E a \in Archives : Cut(a))

\* The days the coverage row promises are in the table, or will again be: what the
\* worker read before retention removed days is corrected by one of its next rounds;
\* and the backfill itself goes on.
BackfillKeepsGoing == []<>(coverage.available \subseteq stored) /\ OnlyCutArchivesBlock

\* What resuming relies on always holds.
BackfillIsSound == TypeOK /\ ProgressIsStored
=============================================================================
