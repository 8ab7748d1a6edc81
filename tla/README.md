# FreeCoinAlert: verification project

TLA+ models of FreeCoinAlert, the TLC runs that check them on small instances,
and theorems about them checked by TLAPS. Paths below are relative to
`src/apps/api/src/freecoinalert_api/` unless they start with `docs/` or `apps/`.

The system watches Binance spot markets, keeps their candles, triggers one-time
price alerts and preset indicator signals, tells users through Telegram and a
browser feed, and simulates strategies on the stored history. All durable state is
in PostgreSQL; several independent processes share it and coordinate by row locks,
`FOR UPDATE SKIP LOCKED` claims, advisory locks and unique constraints. What is hard
is in the gaps between their transactions, and that is what the models are about:
**one action is one transaction, one statement of a transaction that others can
interleave with, one in-memory step between two awaits, or one provider call**.

## 1. Inventory

| Component | State | Operations | Talks to | Hard behaviour | What makes it correct | Module |
|---|---|---|---|---|---|---|
| Notification outbox and worker (`notifications/worker.py`, `db/repositories/notification_outbox.py`) | `notification_outbox` rows; per worker the claimed copies | enqueue, recover stale, claim, check or prepare, send, record | producers below, Telegram, connections | crash between send and record; recovery of a live claim; retries; loss of the commit acknowledgement | at most one acceptance per job; true, final reports; every job settles | `NotificationOutbox` |
| Telegram client (`telegram/client.py`) | none | send, classify the outcome | Bot API | a timeout leaves acceptance unknown | unknown is never called refused | in `NotificationOutbox` |
| Signal Telegram dispatcher (`notifications/signal_dispatcher.py`) | `signal_telegram_dispatches` rows (cursor, counters, attempts, lock) | sweep, claim, page, retry, terminate | subscriptions, connections, outbox | take-over between pages, expiry, late state events | nobody missed, nobody twice, nobody unentitled; true counters; ends | `SignalDispatch` |
| Price-alert evaluation (`alerts/evaluator.py`, `registry.py`, `trigger.py`, `market_data/pipeline.py`) | in-memory registry, trade queue, `price_alerts`, `alert_events` | accept, refresh, evaluate, disable | API, outbox, exchange | two tasks share the registry across awaits; rollback after it changed; replayed trades | one trigger per alert, for a real crossing; registry converges | `PriceAlerts` |
| Price-alert creation (`alerts/service.py`) | `price_alerts` | create, delete, list | API, connections | concurrent requests, retries | limit, idempotency, connected destination | `AlertAdmission` |
| Market stream (`market_data/stream.py`) | connection, last accepted ids, tasks | connect, read, refresh catalogue, maintain | exchange, evaluation, candles | tasks that die, reconnect | see evaluation | in `PriceAlerts`, `CandleStore`, `SignalEvaluation` |
| Telegram connections, linking, poller (`telegram/`) | connections, link tokens, processed updates | create link, process message, disconnect, degrade | Telegram, outbox | messages delivered again, single-use tokens, opposite lock orders | one account per destination; a token links once | `TelegramLinking` |
| Signal subscriptions (`signals/subscriptions.py`) | subscriptions, append-only state events | enable, disable, preference | dispatcher, feed | concurrent changes, limit | history agrees with the row | `SignalSubscriptions` |
| Candle table (`market_data/candles/ingestion.py`, `aggregation.py`, `db/repositories/market_candles.py`) | candle rows with revisions, derived windows | persist, supersede, rebuild, confirm | stream, reconciliation, archives | three writers, one row; windows read without locks | windows agree with their sources; history is kept | `CandleStore` |
| Candle reconciliation (`market_data/candles/reconciliation.py`) | verdict per market | plan, page, verdict | REST client, table | empty pages, bounded passes | nothing forgotten, nothing asked too often | `CandleRepair` |
| Candle backfill (`market_data/candles/backfill_*.py`, `archive_backfill.py`, `coverage.py`) | checkpoints, coverage row, advisory lease | plan, download, import, resume, retain | public archive, table | crashes between chunks, two workers, retention | resuming skips nothing; coverage is true; it goes on | `CandleBackfill` |
| Signal evaluation (`signals/evaluator.py`, `market_data/candles/pipeline.py`, `state.py`) | evaluation states, occurrences | record, evaluate, suspend | candles, dispatcher, feed | late, repeated, corrected candles; a consumer that dies | one occurrence per crossing | `SignalEvaluation` |
| Signal feed (`signals/feed*.py`, `api/routes/signals.py`) | stream log, per-connection queues, one listener per process | replay, listen, publish, reset, history | browser | replay/live hand-over, overflow, lost notifications, retention | a client misses nothing or is told to reset | `SignalFeed` |
| Event-stream hook (`apps/web/src/features/signals/use-signal-stream.ts`, `use-signal-feed.ts`) | EventSource, timers, two in-flight guards | recover, connect, fall back | feed | overlapping recoveries, visibility, network | a visible tab has a stream or gets one | `SignalStreamHook` |
| Historical runs (`historical_analysis/worker.py`, `service.py`, `cleanup.py`) | runs, datasets, reports | create, cancel, claim, prepare, publish, recover, clean up | candles | cancellation against publication, corrections, crashes | one report per succeeded run, of current candles; a run ends | `HistoricalRuns` |
| Historical inputs (`historical_analysis/service.py`, `strategy.py`, `datasets.py`, coverage repository) | none of their own | validate, cover, prepare | candles, engines | five judges of one range | what one accepts the next does | `AnalysisInputs` |
| Simulation engines (`historical_analysis/engine.py`, `configurable_engine.py`) | position, equity, pending order | fold over candles | runs | exits, entries and signals on one candle | books balance; no exit is missed | `SimulationEngine` |
| Historical reports (`historical_analysis/reports.py`) | none | page, preview | browser | cursors and sampling at their bounds | nothing lost | `ReportViews` |
| Indicators (`signals/calculations.py`, `strategies/`) | none | RSI, SMA over a window | evaluation, engines | warm-up, gaps | see evaluation | in `SignalEvaluation`, without decimal rounding |
| Rate limiters, accounts, catalogue, web application, simulator | - | - | - | - | - | not modelled, section 6 |

`PROJECT.json` lists the hazards line by line, each with the properties that
would catch it.

## 2. Modules

    DeliveryPromise            what the outbox promises        (abstract)
      ^ implemented by
    NotificationOutbox         workers, rows, provider         <- MCNotificationOutbox
      :                                                        <- NotificationOutbox_proofs
      : jobs of kind telegram_preset_signal come from
    FanOut                     what the fan-out promises       (abstract)
      ^ implemented by
    SignalDispatch             fan-out of an occurrence        <- MCSignalDispatch
      :                                                        <- SignalDispatch_proofs
      : jobs of kind telegram_price_alert come from
    PriceAlerts                evaluation in the stream        <- MCPriceAlerts
      :                                                        <- PriceAlerts_proofs
      : whose Create is, in detail,
    AlertAdmission             creation requests               <- MCAlertAdmission
                                                               <- AlertsAndLinks_proofs
    LinksAndSubscriptions      the other requests of a user    <- MCAlertAdmission
      = TelegramLinking beside SignalSubscriptions             <- AlertsAndLinks_proofs
    EventStream                both sides of the event stream  <- MCSignalFeed
      = SignalFeed (from stream row to browser tab)            <- SignalStreamHook_proofs
      beside SignalStreamHook (recovery and timers of a tab)
    AnalysisPromise            what a user is promised of a run (abstract)
      ^ implemented by HistoricalRuns in
    HistoryWorkers             the workers of the history      <- MCHistory
      = HistoricalRuns (runs, publication)                     <- HistoricalRuns_proofs
      beside CandleBackfill
      : whose Create, Simulate and reports are, in detail, three parts of
      SignalsAndAnalyses (below): AnalysisInputs, SimulationEngine, ReportViews
    CandlesAndGaps             the table and its repair        <- MCCandles
      = CandleStore (the table and its writers)                <- CandleStore_proofs
      beside CandleRepair (what its second writer asks for;
      the third is, in detail, CandleBackfill above)
      : from whose candles come
    SignalsAndAnalyses         live signals, analyses          <- MCCandles
      = SignalEvaluation beside AnalysisInputs,                <- SignalsAndAnalyses_proofs
      SimulationEngine and ReportViews
    Ordering                   what ORDER BY and sorted make of a finite set of
                               integers; used by AnalysisInputs and ReportViews

Four of the MC modules check several modules side by side. The modules share no
state there, so their product would only multiply the states: a variable `part`
says which one a behaviour is of, the others rest in a legal state, and every
property is stated for its own part. It is one run for each area of the system.
`LinksAndSubscriptions`, `EventStream`, `HistoryWorkers`, `CandlesAndGaps` and
`SignalsAndAnalyses` hold the instances of the modules that a run and a proof module both
speak of, and name the assumptions on their constants.

Definitions headed `Mutant:` are deliberately wrong versions of the definition that
follows them; no action uses them, and each makes one property fail when it takes
the place of the original.

### NotificationOutbox

`row[j]` is a table row, `claimed[w][j]` the attempt count of the detached copy
worker `w` holds (the code passes ORM objects across sessions), `pc[w]` the place
in `NotificationWorker.run`. `RecoverStale`, `Claim`, `CheckDestination` /
`PreparePreset`, `Send` and `RecordDelivery` are the five steps of a delivery; the
repository's guarded UPDATEs are `MarkSent`, `MarkRetryWait`, `MarkFailed` and
`Recovered`. Test and price-alert jobs do not look at their row before sending,
preset jobs do; the model keeps the difference. Instead of a clock a row has two
flags, `due` and `stale`, for the only comparisons made; they turn true at any
time, so a lock can go stale while its worker is alive and slow.

`accepts[j]` is the provider's side. What is assumed of it is the reading
`telegram/client.py` makes: a rate limit, a rejection, a 5xx and an unconfigured
client mean "not accepted"; a timeout or transport error means either.

Faults: a crash anywhere, inside a provider call included; an exception in one
delivery; a failed recovery transaction; a claim whose commit succeeds and whose
acknowledgement is lost. A shutdown between deliveries is a crash at that place.

`DeliveryPromise` is the interface: a job is reported once, `sent` only of an
accepted message, `failed` only of one that is not and never will be accepted,
`unknown` otherwise. `ImplementsPromise` is the refinement, by the mapping
`Report`.

### SignalDispatch

A dispatch row has status, attempts, lock, cursor and the two counters. `Claim` is
one transaction: recover stale rows, fail exhausted ones, take a batch. A page is
one transaction under the row's lock with four outcomes: not owned, skipped,
completed, fanned out. `PageFails` is any exception in it, `ScheduleRetry` the
second transaction, `RetryRecordingFails` the failure of that one too.

Here times do matter: a subscriber is eligible by the state in force *at the
occurrence* and by a connection *no younger than it*, both read later. There is a
small clock, and a change may be committed with a stamp up to `CommitLag` ticks
old, since the code reads the clock before it commits. `late` records the changes
that so claim a time before an event that already existed: the code cannot serve
these consistently, and the properties say precisely where they are excused.

`FanOut` is what users see of it: whom an occurrence concerns is fixed when it is
created; of those, everybody who is neither `unreachable` nor `disputed` is told before
the fan-out is completed, nobody else ever is, nobody is told twice, and what is over
stays over. `ImplementsFanOut` maps to it: the outcome is what the status of the row
comes to (`Outcome`), told are those who have a job, concerned those in `entitled`,
unreachable those without a connection no younger than the occurrence, disputed those
in `late`. Rows, pages, cursors, locks and retries are hidden: a page is one `Tell`, its
completion `Complete`, and whatever fails, expires or exhausts the attempts is `Drop`.

### PriceAlerts

One market. `registry[a]` holds the provider id of the registry's copy, or -1.
The consumer (`TakeEvent`, an optional refresh, `Evaluate` for each copy taken,
`EventDone`) and the maintenance task interleave at every `await`; a refresh is two
steps, the query and its application (`snapshot`), because the other task and the
API run in between. `Evaluate` is the transaction of `trigger.py` against the locked
row; `EvaluateRolledBack` its failure after the registry has been changed.
`MaintenanceDies` is the uncaught database error of `reconcile_disabled_presets`.
Any published trade may arrive at any time; only ids above the last accepted pass,
and a reconnect or a change of catalogue forgets that id. Prices are three points
(below, on and above the target): a crossing depends on nothing else.

### AlertAdmission

One user (different users share no lock). Every statement between the first
lookup and the commit is an action, since the transaction is READ COMMITTED;
`userLock` is the advisory lock, `rowLock` the lock of `FOR UPDATE` on the
connection. `CloseAlert` and `ConnectionChanges` are the other writers, the latter
waiting for the row lock. `Fails` is a database error at any statement, or a commit
nobody hears of; `Retry` the client with the same key.

### TelegramLinking

`token`, `connection` and `processed` are the three tables, `tokenLock` and `rowLock`
the row locks of the first two. A transaction is one step per lock it waits for and
writes at its commit. The poller handles one message at a time (`Record`, `LockToken`,
`LockUser`, `Decide`, `Confirm`); requests to create a link or to disconnect lock in the
opposite order. `update[m]` says where a /start message is: Telegram hands it out
again until the next request for updates acknowledges it (`Acknowledge`), which
happens whether or not it was handled, so `Crash` brings back what was fetched and not
acknowledged. `Fault` is a database error anywhere; `BreakDeadlock` is PostgreSQL
failing one of two transactions that wait for each other. A token expires at any time
(`Expire`), except that the poller judges it by the time it took the message up.

### SignalSubscriptions

One user. `enable` takes the advisory lock and then, like `disable` and the preference,
the row lock; the clock is read under it and stamps both the row and its state event
at the commit. A row that does not exist cannot be locked, which is what the advisory
lock is for. The limit counts creations only, as `docs/ALERTS.md:84` says.

### CandleStore

Three writers, the stream, the reconciliation and the archive importer, run
`persist_canonical_candles_in_session` statement by statement as READ COMMITTED
transactions: `Seen` is what a writer sees (what is committed, under what it has staged
itself), a row staged by another makes it wait, and after that commit it either finds
the new current row or ends in a unique conflict (`Granted`, `Conflict`, `Resolve`).
Sources are written first, then every affected window is rebuilt from unlocked reads.
`raced` is a history variable: the windows two overlapping transactions have touched.

### CandleRepair, CandleBackfill

`CandleRepair` is one pass of `reconcile_ranges` after the other: per market the ranges
left, the allowance, one page at a time with an answer that may be short, empty or an
error, and the verdict. The gaps are the runs of missing minutes by the rank of their
first minute (`Nth`), as the window query of the code orders them. `CandleBackfill` is the separate worker: each round reads the
coverage, writes the row, tries the advisory lock, plans the newest missing range and
imports one archive, chunk by chunk with its checkpoint in the same transaction. Days,
months and chunks are scaled down; archives appear late, are replaced, and retention
removes days while a chunk is under way.

### SignalEvaluation

One market, one timeframe. A confirmed candle goes through the queue to two sinks in
order, the state recorder and the evaluator; the evaluator reads candle, market state and
evaluation state of each preset and judges the crossing against the stored relation.
`trouble` counts the disturbances: a candle missed, repaired later, corrected or
redelivered, unsafe candle data, a sink that fails and ends the consumer, a reconnect, a
disabled preset. The indicators are the price average and the first Wilder average over
short windows, so that warm-up, gaps and crossings are the code's own.

### HistoricalRuns

`row[r]` is a run, `worker[w]` what a worker process remembers between its transactions
(its batch, its job, the input it has loaded). A candle is its revision; dataset,
loaded input and report are the revisions they were made of, so "current" is an
equality. `BeginCorrection` and `EndCorrection` hold the lock of the row of a candle
in between, which is how `PrepareAfterWait` and `Revalidated` come to wait. `Recover`
happens only when a worker starts, as in the code. A stale claim is a flag that turns
true at any time while a run is running: `locked_at` is set by the claim, and nothing a
worker does later renews it.

`AnalysisPromise` is what the user of a run is told of it: it waits until it is answered,
by a report made of the candles of that very moment or by a failure; a cancellation takes
effect at once or, once acknowledged, in the end; an answer stays as it is until it is
deleted. `ImplementsAnalyses` maps to it by `Answer`, of the status and
`cancellation_requested_at` of the row. Queued and running are the same to the user, so
claims, requeues, datasets and all that a worker remembers are hidden. A step of the
promise moves every run or none, since a recovery settles several in one transaction.

### AnalysisInputs, SimulationEngine, ReportViews

`AnalysisInputs` runs one request through the code that judges it: `Create` (range and
strategy validation, coverage in SQL), `Prepare` (the dataset's loop), `Simulate` (the
limit of the worker, the validation of both engines), with candles that expire (retention)
while the run waits. `SimulationEngine` is one turn of the loop over the candles per
action, for both engines in both versions; the relation of the indicator is an input,
money is scaled integers. `ReportViews` pages through a stored report with any limits
and builds its preview. Rows are read in the order of their time or sequence, which is
`Ascending` of `Ordering`; a sort, unlike a recursive one, that can be proved about.

### SignalFeed

A row is its sequence; one tab sees every row. `CreateStreamEvent` is the commit of an
occurrence with its row and notification; occurrences commit one after the other,
since the market stream that writes them is a singleton with one consumer. `listener` is
the task of `feed_listener.py` (`lost` is the moment between the failure and
`reset_all`), `conn` the connection with its queue and the place of the stream body
that serves it, `plan` its replay, read in two steps, `wire` what is sent and not
received. The tab loads a page, then its cursor (two statements), connects, and on a
`Reset` starts over. `overlooked` is a history variable: the rows that three known holes of
the hand-over let slip, namely a row committed between the two statements of a history
read, one committed while nobody listens to a connection whose replay is planned, and
one deleted before an overdue replay could see it (a cursor below the oldest retained row is
reset, `signals/feed.py:111`, but with no row retained there is nothing to compare it
with). Everything else must arrive.

A connection the tab has left is dropped at once; in the program it lingers until its
next write and only counts against the connection limit (`StreamRefused`).

### SignalStreamHook

The tab alone, with all its guards: `request` is the holder of `requestInFlightRef`,
`recovery` the holder of `recoveryInFlightRef`, `timers` the minute and the ticks of the
fallback. A handler up to its first `await`, with the React effect its state changes
trigger (`Connect`), is one action. `recoverHistory` is refused when a page request is
under way, which is where recoveries and requests meet. `SignalFeed` abstracts all of it
to `stopped` (nothing under way, whether hidden or stranded) and `FallbackRefresh`.

## 3. Runs

Deadlock checking is off everywhere: all counters are bounded, so every model
stops, and some programs may (all jobs settled, workers asleep).

| Run | Shows | Bounds, and why they suffice |
|---|---|---|
| `outbox_safety` | `AcceptedAtMostOnce`, `ReportIsTrue`, `DegradedByRejection`, `SettledIsFinal`, the inductive `OutboxInv` | two workers, a price-alert and a preset job of one user: a recovery races one delivery, a batch holds more than one copy; two attempts allow a retry and its exhaustion; two faults, two edits |
| `outbox_refines` | `ImplementsPromise`, `EveryJobSettles` | a test job, a preset job and a malformed one, one worker without a bot token: the paths the other instance lacks; one attempt, one fault, which strands a batch of two |
| `outbox_consent` | violation, section 5 | the smallest instance that shows it |
| `dispatch` | `CountsAreTrue`, `JobsAreExact`, `EveryDispatchCloses` (which includes `ImplementsFanOut`) | two subscriptions in pages of one, so that a take-over, a failure or a change falls between pages; two attempts; a clock 0..2, so that before, at and after the occurrence exist and it expires half way; two faults, since a page and its retry record must both fail |
| `alerts` | `TriggersAreCrossings`, `CrossingTriggers`, `AlertsGoForward`, `RegistryConverges` | three trades: observe, cross, replay; a queue of one overflows; one fault, one deletion or disabling. One rising alert; a falling one is its mirror image |
| `admission` | of alerts `ActiveLimitHolds`, `KeyMeansOneAlert`, `CreatedWhileConnected`, `EveryRequestAnswered`; `LinksAndSubscriptionsAreSound` (`LinkingIsSound` and `SubscriptionsAreSound`), `LinkedByOpenToken`, `CreatedBelowLimit` | alerts: four requests on two keys (a retry, a second key, a clash), limit one. Linking: two users, destinations, tokens, messages and requests, so that a token can be used twice, a destination claimed by two users and a lock wanted in both orders; the first message is from the first destination, which is no restriction but a choice of names; one fault, crash or deadlock. Subscriptions: two combinations, three requests, limit one, one fault |
| `feed` | of the feed `TabIsCurrent`, `EveryoneIsTold`; of the hook `HookInv` (with `HiddenIsSilent` and `FallbackOnlyWhileDown`), `StreamsUnlessStranded` | feed: three rows, a queue and a replay of two, so both overflow; two faults, so one may hit the recovery from another. Hook: four failures and four user actions: more overlapping requests than guards |
| `feed_loss` | violation, section 5 | two rows suffice |
| `history` | of the runs `RunsInv`, `PublishedIsCurrent`, `CancellationHolds`, `RunsSettle` (which includes `ImplementsAnalyses`); of the backfill `BackfillIsSound`, `BackfillKeepsGoing` | runs: one run, since runs meet only in the limit of a user, two workers, of which one takes over what the other has lost, two candles, two attempts, and one fault, one crash, one correction, which may all meet. Backfill: two workers, months of two days, a target of two days, a day that passes, so that a month, its days, a fallback and retention occur; one crash; an empty history and one with a gap |
| `candles` | `CandlesAreSound` (`StoreIsSound` and `RepairIsBounded`), `QuietWindowsAreFresh`, `HistoryIsKept`, `LiveIsAccounted`, `OccurrencesAreSound`, `AcceptedStaysAccepted`, `BooksBalance`, `ExitsAreNotMissed`, `ViewsAreComplete` | store: four minutes, hours of two, four-hours of four: windows nest, as in the code; three live candles, a repair and an import that overlap them, four revisions. Gaps: two markets, three minutes in pages of one, an allowance of two, two passes: the second pass meets what the first left. Evaluation: two presets of opposite direction and different indicator, period two, five candles (two complete windows, a gap, and one more), a queue of two, two disturbances. Inputs: every range around each limit, every rule at, below and above its bounds, up to three together, and the longest legal list; one candle changes in between. Engines: six candles of four shapes (quiet, rise, gap through the stop, both levels touched), both engines, versions, directions, with and without stops, holding of two or three. Views: up to nine points and five trades, limits 1..3, previews of three to five |
| `store_race`, `engine_exit` | violations, section 5 | the instance of `candles` |

Every property has a mutant in `PROJECT.json`, a plausible slip in the code that TLC
shows to break it. Symmetry (of workers) is used in `outbox_safety` only, the one run
of the outbox without a liveness property. The instance of `dispatch` keeps a single
event, so a claim is a batch of one; it has no backfilled event, which leaves the two
backfill branches of `SignalDispatch` (`CreateSignalEvent`, `SkipReason`) unexercised;
they end a row in one step.

### Fairness

- Outbox: clocks advance (`LockAges`, `BecomesDue`, weak); a worker keeps running its
  loop and is restarted when down (weak: nothing else disables its next step for
  good, and the bound on faults makes crashes finite); the ten-minute recovery timer
  needs strong fairness, because a worker is idle again and again and not
  continuously, and in the code the timer is checked in every round of the loop.
- Dispatcher: the same, with recovery inside the claim, so weak fairness suffices.
- Alerts: asyncio schedules both tasks (weak). Every two seconds the maintenance task
  calls `refresh_if_due`, which looks at the age of the last rebuild first: one of the
  tasks rebuilds again and again (strong, since an incremental refresh may be under way
  whenever one looks), *while the maintenance task is alive*. That it dies of a
  database error is in the model, so the property has its survival as hypothesis.
- Admission: strong fairness per request: PostgreSQL queues waiters for a lock in
  order, so a request that can be granted the lock again and again gets it. Linking
  and subscriptions have safety properties only and assume no fairness.
- Feed: tasks of the event loop, the listener's reconnection and the tab's handlers are
  weakly fair; faults are bounded, and nobody has to show the tab again, so
  `EveryoneIsTold` ends where the tab stops. Hook: requests are answered or fail, and a
  stream can be opened, while online.
- Historical runs: a worker that is up goes on, also after it waits for a correction,
  clocks advance and a correction ends (all weak). Restarts are *not* assumed: nothing
  in the program restarts a worker that is alive, and stale claims are recovered only at
  a start. `RunsSettle` therefore has "workers start again and again" as a hypothesis.
- Backfill: a worker goes on (weak); of the downloads that are tried again and again one
  succeeds (strong), for as long as the archive exists.
- The candle modules of `candles` have safety properties only.

## 4. Theorems

For every number of jobs, workers, users, requests, runs, candles, days, attempts,
faults and edits, from the named assumptions of the modules only (`OutboxAssumption`,
`DispatchAssumption`, `AlertAssumption`, `AdmissionAssumption`, `LinksAssumption`,
`ChangesAssumption`, `HookAssumption`, `FeedBounds`, `RunsAssumption`, `CalendarAssumption`,
`WidthAssumption`, `DayAssumption`, `GapsAssumption`, `EngineIsAssumed`,
`EvaluationIsAssumed`, `InputsAreAssumed`, `ViewsAreAssumed`): types of the constants, markers that are not members of the sets
they mark, finiteness of what is counted, the alignment of hours and four-hours, a
catalogue without repetitions, a longest holding time within the 2,200 candles that the
engine has as its own literal (`MAX_HOLDING_CANDLES` is the same number), pages of one row
or more, previews of two or more, trades within the points of their report, and for the engines a holding window of two candles or more in the fixed version 1 (it is six)
and prices so large against `Scale` that no fill is rounded to zero, which the 50 digits
of the code's decimals never do. Each proof module
first proves an inductive invariant, one lemma per action; TLC has checked each of these invariants on the instance of its run before.

`NotificationOutbox_proofs`: `TypeCorrect`, then `OutboxInvariant`. No property is
inductive alone. At-most-once fails from a state where two workers hold copies of one
row, or a copy outlives its row's requeueing; so `OutboxInv` says that a held copy is
the current row, locked by its holder, *unless recovery has closed the row as
outcome-unknown* (`CopyInv`), that holders are unique (`HolderInv`), that nothing has
been accepted of a copy whose request is still to come and that a pending answer
agrees with the provider (`AnswerInv`). The reason the outbox is safe is visible in
that disjunct: stale recovery of an outbox row never requeues it, it gives up. From
it follow `AtMostOnce`, `TrueReport`, `DegradedOnRefusal`, `ClaimNeverPoisoned`, the action
property `SettledRowsAreFinal` and the refinement `OutboxImplementsPromise`.

`SignalDispatch_proofs`: `CountersStayTrue`, `FanOutIsExact`, `ClosedDispatchIsFinal`. The
invariant says that everything before the cursor has been dealt with (`RowCounts`: a
subscription the cursor has passed is counted as inserted if it has its job and as
skipped if not, and none beyond it has a job), and that what an event asks of a
subscription cannot change any more (`Settled`): the state in force at the occurrence is
fixed once the occurrence exists, *unless a change is committed late*. Without the second
part the first is not inductive, since a change between two pages could make a
subscription eligible that the cursor has passed.

`DispatchKeepsItsPromise` is the refinement of `FanOut`. Most steps bring no fan-out
further, and of those it is enough that each row is kept or closed without completion
(`KeepingSteps`, `KeepingDrops`). A page is a `Tell` or a `Complete` by `RowCounts` and
`Settled`: the counters of the cursor say that everybody concerned has been passed, and
what made them eligible is still so. Changes of users are where the promise itself has
something to say: a connection that is lost is lost to every earlier occurrence, because a
new one is younger, *unless* its stamp is disputed. That step needs one more invariant,
`Unborn`: nothing is disputed of an occurrence that does not exist yet.

`PriceAlerts_proofs`: `EveryTriggerIsACrossing`, `NoCrossingIsSwallowed`,
`RecordsOnlyGoForward`. The registry needs no invariant at all: `Evaluate` takes nothing
from it but the question whether to look. What is needed is that ids name published
trades (in the queue, in hand, in the rows), that a row's relation is the one of the
trade the row names (`RowRecords`), and that a triggered row tells its only trigger
(`RowTriggers`); how one step may change a row is said once (`RowKept`, `RowCreated`,
`RowClosed`, `RowObserved`).

`AlertsAndLinks_proofs`, alerts: `TypeCorrect`, `AdmissionInvariant`, then `LimitHolds`,
`KeysMeanOneAlert`, `CreatedConnected`. The strengthening is `LockInv` (which
statements the holder of each lock is at) and `FoundInv` (what a request has read
stays true until its transaction ends, because whoever could falsify it needs a lock
that is taken, or only makes it truer, as closing an alert does).

`AlertsAndLinks_proofs`, links: `LinksAreSound` and `LinksNeedAnOpenToken` of the linking,
`SubscriptionsHold` and `CreationsAreBelowLimit` of the subscriptions. For linking: who
holds which lock at which statement (`TokenLocks`, `RowLocks`: a token is held from its
lock to the end of the transaction and is outstanding meanwhile; the poller holds the
token and then the row of its owner, a request the row and then the tokens, which is
why every cycle of waits has a request that PostgreSQL can abort), and that what is
confirmed has just been recorded (`Handling`). For subscriptions: what a request found
under its locks stands until it commits (`ChangesStand`).

`SignalStreamHook_proofs`: `HookInvariant`, the conjunction of `TypeOK` and the two
safety invariants, which is inductive; each needs the others, because a handler that
leaves the stream alone is silent in a hidden tab only if it was silent before, and two
recoveries never wait for one answer only because the guards agree (`TypeOK`).
`HiddenTabIsSilent`, `FallbackStops` follow.

`SignalStreamHook_proofs`, feed: `TabStaysCurrent`. `FeedInv` says of every row that has
occurred at which place of the hand-over it is: known to the tab or excused, on the wire,
in the hand of the stream body, in the plan of the replay, in the queue of the
connection, in the channel of the listener; or a reset is due, which makes the tab start
over. It is kept by each step because of a second part, `Order`: what is at a later place
is a later row, so that neither the high-water mark of a connection nor the last event id
of a tab can pass over a row that has not been sent (`CursorIsWatermark`,
`StreamAscends`). A row committed while the listener is lost is at no place; it is excused
(`Late`) only until the `reset_all` that the listener owes every connection. Queues are
filtered by `Retained`, which is written with the rank of the items it keeps, so that
`Ranks` can be proved of it; a recursive filter could not be reasoned about.

`HistoricalRuns_proofs`, runs: many actions change the row of a run, few of them in
different ways. `EveryStepMoves` says once what any step may make of the row and the
report of one run (nothing, a claim, a mark, a return to the queue, a publication), and
everything about rows is proved from that. `RunsInvariant` is the invariant of the run
`history`: types, `ReportIffSucceeded`, `QueuedCanBeClaimed`, `RunningIsOwned`, and
`RevisionsAreCounted`, which makes the types inductive, since a revision grows with each
correction and only their number is bounded. The rest of the state has its own lemma for
each action (`RestInductive`). `PublishedCurrent` needs no invariant but the guard taken
under the locks; `CancellationKept` follows from the moves and from the fact that a
queued run has no cancellation pending (`QueuedCanBeClaimed`). `AnalysesKeepTheirPromise`,
the refinement of `AnalysisPromise`, comes from the same moves: each maps to one of the
promise (`AnswerMoves`, `RunKeepsPromise`), and no step changes candles together with rows
or reports (`CandlesOrRows`). It says what the other two do not: that an answer is final,
and that a report, once there, changes no more whatever becomes of the candles.

`HistoricalRuns_proofs`, backfill: `BackfillHolds`. What a checkpoint counts is in the
table because the two are written together (`KeepsProgress`), which is an induction only
if a worker imports what it planned from the chunk the checkpoint names (`Importing`,
`WorkerState`), and if every day of an archive is one the table wants or has left the
window (the lemmas on ranges and candidates: the planner finds the newest missing range,
and the earliest candidate of it).

`CandleStore_proofs`: `StoreInvariant`, `StoreStaysSound`, `HistoryStays`,
`QuietWindowsStayFresh`. The invariant has a part for the table (`StoreInv`: a candle is a
chain of superseded revisions and a current one, and a window's row holds revisions of
its minutes), one for each open transaction (`TxnInv`: it has its minutes first and its
windows after, and what it has written goes on from what is committed) and `Exclusive`:
no two open transactions have written the same candle, which is what a row lock and a
unique index amount to. Waiting goes up in the order in which candles are locked, so
writers never wait in a circle. Freshness is a second invariant over the first
(`QuietInv`): of a window no two transactions have raced for, what a transaction has in
hand is what its commit will make current.

`CandleStore_proofs`, repair: `RepairBounded`, `LiveAccounted`, and with the table
`CandlesStaySound`. `GapsAre` is the lemma everything else starts from: the planned
ranges are ascending, apart, and cover exactly the missing minutes, which rests on the
existence of the n-th member of a finite set (`NthOf`). `RepairInv` then follows the
minutes of a pass: a market that waits has been asked for nothing and its ranges cover
its plan (`TodoInv`); of the market under way every planned minute is settled, in a
range still to do, or in the unread part of the chunk, and what it has been asked for
plus what it may still ask for stays within the allowance (`MarketInv`). The empty page
is the hard case: it drops the rest of a range and must pay for it.

`SignalsAndAnalyses_proofs`, engines: `BooksAlwaysBalance`, `ExitsAreNeverMissed`. A run
is going on (`Runs`) or has succeeded (`Done`). `BookInv` says after each candle that the
trades are a chain, each entered with what the one before left, that a position asked for
is for the next candle and one that is held began at or before this one with all of the
equity, and that none of its rules fired at this candle. That is what makes every branch
that raises impossible (`Unbroken`), and what the four versions have to be shown to keep
one by one, since the fixed engines close before they open and the configurable ones
after (`FixedTurn`, `ConfigurableTurn`). `CurveInv` ties the curve to the book, and
`CountsInv` every signal to a trade, a position or a refusal. Of the arithmetic nothing is
needed but the bounds of a rounded quotient (`ShareOf`, `QuotientGrows`).

`SignalsAndAnalyses_proofs`, signals: `OccurrencesStaySound`. That a candle occurs once and
that occurrences alternate follow from what an occurrence leaves in the row of its preset
(`BehindRow`): none is ahead of the row, and one at the row's own candle is on the side
the row remembers, so that a second one needs the relation to have turned back. That
occurrences are *all* the crossings is a statement about undisturbed behaviours.
`CalmAt(d)` says what those look like: candles up to `d` are judged, the next is in hand,
the rest queue in order, and the row of each preset is the one that judging every candle
would have left (`JudgedRow`). It is an induction because the calculation at a candle
depends on that candle and earlier ones only (`CalculationStays`): later candles do not
change what has been judged. Nothing is needed of the sums but that equal closes have
equal sums.

`SignalsAndAnalyses_proofs`, reports: `ReportsAreReadWhole`. That the pages are a prefix of
the series is not inductive, since the next page starts behind the cursor and not behind
what has arrived. `ReadUpTo(n)` ties the two: the reader has the first `n` rows and its
cursor is the `n`-th, or no page has been read. What a query with a cursor returns is then
the rest of the series, because a finite set of integers has only one ascending sequence
(`Ranks`, `AscendingOf`, `AscendingIs`). Of the preview it is enough that the sampled slots
grow from the first to the last (`SampledSlots`), which is a fact about rounded quotients.

`SignalsAndAnalyses_proofs`, inputs: `AcceptedIsNotRefused`. That the three judges agree
(`JudgesHold`) is not an induction but holds of *every* store of candles of a legal range:
a count equal to the number of open times means that no open time is missing (coverage),
and so does a gapless list from the first open time to the last (`DatasetOf`, `EngineOf`).
The rest is `InputsInv`, which remembers what creation has seen of a run that waits: its
range and its rules passed, and its candles were whole unless retention has changed some
since. The order of the rules is forgotten since a list of rules of different types has one
sorted form only (`SortsAgree`), which both the canonical form and the questions of the
engine are (`CanonicalSorts`, `EngineSorts`).

Only model-checked, and why:

- liveness, since fairness and ENABLED are out of the prover's reach;
- the indicators' values: the theorems on occurrences hold whatever the sums are.

## 5. Divergences between documentation and code

With a run that shows them:

- **A changed consent after the recheck** (`outbox_consent`). `docs/TELEGRAM.md:95`
  says that disabling, disconnecting or invalidating before the send suppresses the
  request. The recheck is committed before the request is made
  (`notifications/worker.py:231`), so a change in between does not.
- **A row between page and cursor is lost** (`feed_loss`). `list_history` reads the page
  and then the latest sequence (`signals/feed.py:64-72`) with two snapshots. A row
  committed in between is neither on the page nor above the cursor: no replay and no
  live message brings it, against `docs/CONCERNS.md:41` ("prevent silent loss when a
  client reconnects"). A row committed before the listener listens again is lost in
  the same way to a tab that has reconnected by then.
- **A window forgets a minute** (`store_race`). `docs/MARKET_DATA.md:41` says that
  fingerprints digest the current source revisions. `rebuild_window` reads the sources
  without a lock (`market_data/candles/aggregation.py:41`): two writers that change two
  minutes of one hour at once each rebuild it without the other's, and the window stays
  wrong until one of its minutes changes again. `QuietWindowsAreFresh` says that this is
  the only way: a window no two transactions have raced for agrees with its sources.
- **The fixed engine does not exit** (`engine_exit`). `docs/BACKTESTING.md:33` says the
  current fixed engine closes on the scheduled sixth held candle. Outside the legacy
  version a trade has no scheduled index (`historical_analysis/engine.py:1142`), so the
  first position is held to the end of the range.

Met while reading or modelling, kept in the models as the code has them, without a run:

- A rejection of a request sent before a disconnect and recorded after it overwrites
  `disconnected` with `degraded` (`notifications/worker.py:420`); linking then refuses the
  account, while `docs/TELEGRAM.md:31` says a disconnected destination can reactivate.
- A disconnect that finds no row while the first link is being committed succeeds, and
  the connection is there afterwards (`docs/TELEGRAM.md:31`).
- A /start message is acknowledged whether or not it was handled: after a database error
  or a deadlock the link is lost and the user has to start again
  (`telegram/linking.py:169`).
- `docs/OPERATIONS.md:145` says a disconnected tab refreshes every 30 seconds. `recover()`
  clears the interval first (`use-signal-stream.ts:136`); if the refresh fails, nothing is
  left to try again. A tab shown during a page request opens no stream
  (`use-signal-stream.ts:139`), against `docs/PRODUCT.md:34`. These are the two ways
  `StreamsUnlessStranded` excuses.
- The recorder writes `ready` over a gap or an error before the evaluator reads the state
  (`market_data/candles/state.py:19`, `docs/OBSERVABILITY.md:54`), and what a correction
  marks stale becomes ready with the next candle.
- The live RSI loads one candle more than its period (`signals/evaluator.py:59`) and so
  never smooths, unlike the historical one (`docs/STRATEGIES.md:38`).
- Stale historical claims are recovered only when a worker starts
  (`historical_analysis/worker.py:105`, `docs/BACKTESTING.md:53`).
- A dataset may have 2,500 candles (`historical_analysis/worker.py:248`) where
  `docs/BACKTESTING.md:15` admits 17,720.
- Reconciliation: an empty page is asked for again until the allowance is spent, other
  ranges wait meanwhile, and a later success marks the market live; a provider error ends
  the pass for the other markets. `RepairIsBounded` and `LiveIsAccounted`
  say what nevertheless holds.
- Backfill: an archive of which retention removes days while it is imported is not
  complete, and newer days wait for it.

Not a divergence: reactivating subscriptions can exceed the limit of twenty, as
`docs/ALERTS.md:84` and `docs/CONCERNS.md:9` say.

## 6. Not modelled, and why

- Whole components. Rate limiters: buckets of one process under an asyncio lock,
  sequential code a unit test reaches. Accounts and sessions: single-transaction
  handlers around hashing and random tokens. Market catalogue and REST client: HTTP and
  parsing; a market is ready or not wherever a model asks. The pages of the web
  application other than the feed, the provider simulator and the end-to-end suite.
- Feed: subscription changes under a stream, limits of connections, session
  revalidation, further history pages; invalidation rows, which only the end-to-end
  controls write. Hook: highlights, sign-out, unmounting.
- Telegram: `update_cleanup`, which deletes processed updates far older than Telegram
  hands out; commands without a usable token, which change nothing.
- Evaluation: `signals/backfill.py` stops before it writes;
  `corrections.mark_correction_rebuild_required` and
  `disable_subscriptions_for_preset` have no caller; Wilder smoothing after the first
  average, which the live evaluator never reaches.
- Stream: freshness monitoring and the singleton lock, which PostgreSQL holds; several
  markets, which share nothing but the process, except in `CandleRepair`.
- Data: message texts and payloads, decimal formatting and rounding, fingerprints as
  digests (a fingerprint is what it digests), logging. Age filters of stream events drop
  trades, which the model allows by never delivering them. The branch of `trigger.py`
  for an inconsistent alert: no reachable row takes it. Deletion of users and the cascades
  it causes. The provider's behaviour beyond the six outcomes.

## 7. Plan

1. Composition: dispatcher and outbox through the job table, so that `told` of `FanOut`
   becomes the queue of `DeliveryPromise`.
2. `FeedPromise`: a tab's rows only grow and follow the log; implemented by `SignalFeed`.
3. The corrections of `HistoricalRuns` as the transactions of `CandleStore`.
