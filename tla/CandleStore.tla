----------------------------- MODULE CandleStore -----------------------------
(***************************************************************************)
(* The canonical candle table and the one service that writes it.  Three   *)
(* writers share it: the live stream, the recent reconciliation (a task of *)
(* the same process) and the archive importer (another process).  Each     *)
(* call of persist_canonical_candles_in_session is one READ COMMITTED      *)
(* transaction; the actions are its statements, so that two transactions   *)
(* interleave as PostgreSQL lets them.                                     *)
(***************************************************************************)
EXTENDS Integers, FiniteSets, Sequences

CONSTANTS
    HourWidth,      \* minutes of a 1h window (60 in the code)
    FourHourWidth,  \* minutes of a 4h window (240 in the code)
    Minutes,        \* the open times of one day's one-minute candles, 0 .. n-1
    MaxRevision,    \* bound on the revisions of one candle
    MaxLive,        \* bound on the closed klines the stream receives
    MaxRepairs      \* bound on the pages of the reconciliation, and on the archive's chunks

ASSUME WidthAssumption ==
    /\ HourWidth \in Nat \ {0}
    /\ FourHourWidth \in Nat \ {0}
    /\ FourHourWidth % HourWidth = 0

VARIABLES
    store,   \* candle key -> its committed revisions, oldest first
    txn,     \* writer -> its open transaction, or NoTxn
    budget,  \* writer -> transactions it may still begin
    plan,    \* minutes the reconciliation found missing, before it fetched them
    sent,    \* revisions the stream handed to the confirmed-candle pipeline
    twice,   \* TRUE once the stream has handed over the same revision twice
    dayOver, \* TRUE once the day of Minutes has ended and its archive may exist
    raced    \* windows two overlapping transactions have both touched (history)

vars == <<store, txn, budget, plan, sent, twice, dayOver, raced>>

\* The stream and the two repairs that write through the ingestion service.
Writers == {"live", "reconcile", "archive"}

Source(m) == [timeframe |-> "1m", open |-> m]
Hour(m) == [timeframe |-> "1h", open |-> m - (m % HourWidth)]
FourHour(m) == [timeframe |-> "4h", open |-> m - (m % FourHourWidth)]

Sources == {Source(m) : m \in Minutes}
Windows == {Hour(m) : m \in Minutes} \cup {FourHour(m) : m \in Minutes}
Keys == Sources \cup Windows

Width(w) == IF w.timeframe = "1h" THEN HourWidth ELSE FourHourWidth
MinutesOf(w) == {m \in Minutes : m >= w.open /\ m < w.open + Width(w)}

\* Minutes are those of a whole day, so that every window lies within them.
ASSUME DayAssumption ==
    /\ Minutes \subseteq Nat
    /\ \A w \in Windows : w.open .. (w.open + Width(w) - 1) \subseteq Minutes
    /\ MaxLive \in Nat
    /\ MaxRepairs \in Nat

\* ("1h", t) before ("4h", t'), then by open time: the order of sorted().
Before(w, v) == \/ w.timeframe = "1h" /\ v.timeframe = "4h"
                \/ w.timeframe = v.timeframe /\ w.open < v.open
First(ws) == CHOOSE w \in ws : \A v \in ws \ {w} : Before(w, v)

\* A revision holds the row's status and its canonical values: of a source, the
\* provider it came from (a REST or archive row has no trade ids, and an archive
\* close time has another unit, so equal prices are still different values); of
\* a window, the revision of each source it was built from.
Row(status, values) == [status |-> status, values |-> values]

NoTxn == [phase |-> "none"]
NoKey == [timeframe |-> "none", open |-> 0]
Begun(minutes) ==
    [phase |-> "read", minutes |-> minutes, before |-> 0, affected |-> {},
     sources |-> <<>>, staged |-> <<>>, waiting |-> -1, changed |-> {}, derived |-> {}]

Open(x) == txn[x].phase # "none"

\* What writer x sees of a candle: its own writes, else what is committed.
Seen(x, k) == IF k \in DOMAIN txn[x].staged THEN txn[x].staged[k] ELSE store[k]

\* Mutant: nobody waits for a row lock.
LockedByNone(x, k) == FALSE

\* A row is locked, and a key reserved in the unique index, by the transaction
\* that wrote it, until that transaction ends.
LockedByOther(x, k) == \E y \in Writers \ {x} : Open(y) /\ k \in DOMAIN txn[y].staged

Current(revisions) == revisions[Len(revisions)]
IsComplete(revisions) == revisions # <<>> /\ Current(revisions).status = "complete"

Stage(x, k, revisions) ==
    [d \in DOMAIN txn[x].staged \cup {k} |->
        IF d = k THEN revisions ELSE txn[x].staged[d]]

\* _replace_current_complete_candle: the old row is superseded, never overwritten.
Superseded(revisions, values) ==
    Append([revisions EXCEPT ![Len(revisions)].status = "superseded"],
           Row("complete", values))

\* upsert_closed_source_candle: insert, leave alone, or supersede.
UpsertSource(revisions, values) ==
    IF revisions = <<>> THEN <<Row("complete", values)>>
    ELSE IF Current(revisions).values = values THEN revisions
    ELSE Superseded(revisions, values)

\* replace_derived_candle: as a source, but an incomplete row is completed in place.
ReplaceDerived(revisions, values) ==
    IF revisions = <<>> THEN <<Row("complete", values)>>
    ELSE IF Current(revisions).values = values THEN revisions
    ELSE IF Current(revisions).status = "incomplete"
         THEN [revisions EXCEPT ![Len(revisions)] = Row("complete", values)]
         ELSE Superseded(revisions, values)

\* _record_noncomplete_window: a complete row is never demoted.
RecordIncomplete(revisions, values) ==
    IF revisions = <<>> THEN <<Row("incomplete", values)>>
    ELSE IF IsComplete(revisions) THEN revisions
    ELSE [revisions EXCEPT ![Len(revisions)] = Row("incomplete", values)]

\* list_current_source_window: the current complete sources, by revision.
SourcesOf(x, w) ==
    LET present == {m \in MinutesOf(w) : IsComplete(Seen(x, Source(m)))}
    IN  [m \in present |-> Len(Seen(x, Source(m)))]

\* rebuild_window: complete only with every one of its expected sources.
Rebuilt(revisions, w, sources) ==
    IF Cardinality(DOMAIN sources) = Width(w)
    THEN ReplaceDerived(revisions, sources)
    ELSE RecordIncomplete(revisions, sources)

-----------------------------------------------------------------------------
Init ==
    /\ store = [k \in Keys |-> <<>>]
    /\ txn = [x \in Writers |-> NoTxn]
    /\ budget = [x \in Writers |-> IF x = "live" THEN MaxLive ELSE MaxRepairs]
    /\ plan = {}
    /\ sent = {}
    /\ twice = FALSE
    /\ dayOver = FALSE
    /\ raced = {}

Begin(x, ms) ==
    /\ ~Open(x)
    /\ budget[x] > 0
    /\ ms # {}
    /\ txn' = [txn EXCEPT ![x] = Begun(ms)]
    /\ budget' = [budget EXCEPT ![x] = @ - 1]
    /\ UNCHANGED <<store, sent, twice, dayOver, raced>>

\* persist_closed_candle: the stream stores one closed kline at a time; the
\* provider may deliver it again after a reconnection.
ReceiveKline(m) == ~dayOver /\ Begin("live", {m}) /\ UNCHANGED plan

\* The stream has moved on to the klines of another day.
EndDay ==
    /\ ~dayOver /\ ~Open("live")
    /\ dayOver' = TRUE
    /\ UNCHANGED <<store, txn, budget, plan, sent, twice, raced>>

\* _plan_recent_ranges reads the minutes missing up to now; they are fetched later.
PlanRepair(now) ==
    /\ ~Open("reconcile") /\ plan = {} /\ budget["reconcile"] > 0
    /\ plan' = {m \in Minutes : m < now /\ ~IsComplete(store[Source(m)])}
    /\ plan' # {}
    /\ UNCHANGED <<store, txn, budget, sent, twice, dayOver, raced>>

\* The next page of the planned range, whatever was stored in the meantime.
PersistPage(end) ==
    LET page == {m \in plan : m < end}
    IN  Begin("reconcile", page) /\ plan' = plan \ page

\* _persist_chunks: the archive of a completed day holds every minute of it.
PersistChunk == dayOver /\ Begin("archive", Minutes) /\ UNCHANGED plan

-----------------------------------------------------------------------------
\* Mutant: a batch is walked as it was given.
MinuteAsGiven(x) ==
    CHOOSE m \in txn[x].minutes :
        \A n \in txn[x].minutes : IF x = "archive" THEN m >= n ELSE m <= n

\* A batch is walked in ascending open time.
Minute(x) == CHOOSE m \in txn[x].minutes : \A n \in txn[x].minutes : m <= n

\* _current_revision: an unlocked read before the upsert.
ReadRevision(x) ==
    /\ txn[x].phase = "read"
    /\ txn' = [txn EXCEPT ![x].before = Len(Seen(x, Source(Minute(x)))),
                          ![x].phase = "upsert"]
    /\ UNCHANGED <<store, budget, plan, sent, twice, dayOver, raced>>

Target(x) == CASE txn[x].phase = "upsert" -> Source(Minute(x))
               [] txn[x].phase = "write" -> First(txn[x].affected)
               [] OTHER -> NoKey

\* SELECT ... FOR UPDATE, or an INSERT under a unique index, waits for the
\* transaction that holds the candle; the snapshot of the statement stays.
Wait(x) ==
    /\ txn[x].phase \in {"upsert", "write"}
    /\ txn[x].waiting = -1
    /\ LockedByOther(x, Target(x))
    /\ txn' = [txn EXCEPT ![x].waiting = Len(store[Target(x)])]
    /\ UNCHANGED <<store, budget, plan, sent, twice, dayOver, raced>>

Granted(x) == ~LockedByOther(x, Target(x))

\* After a wait the row it saw may have been superseded, or inserted by the
\* other: the re-check finds no row, revision 1 is inserted again, and the
\* unique constraint ends the transaction.
Conflict(x) == txn[x].waiting # -1 /\ txn[x].waiting # Len(store[Target(x)])

Resolve(x) ==
    /\ txn[x].phase \in {"upsert", "write"}
    /\ Granted(x)
    /\ Conflict(x)
    /\ txn' = [txn EXCEPT ![x] = NoTxn]
    /\ UNCHANGED <<store, budget, plan, sent, twice, dayOver, raced>>

\* The next statement of x once the sources in hand are `minutes`.
NextPhase(minutes, affected) ==
    IF minutes # {} THEN "read" ELSE IF affected # {} THEN "sources" ELSE "commit"

\* Mutant: only a new candle counts, not a corrected one.
CountsOnInsert(x, revisions) == txn[x].before = 0

\* Whether the ingestion goes on as if the source had changed.
CountsAsChanged(x, revisions) == Len(revisions) # txn[x].before

WriteSource(x) ==
    LET m == Minute(x)
        k == Source(m)
        revisions == UpsertSource(Seen(x, k), x)
        affected == IF CountsAsChanged(x, revisions)
                    THEN txn[x].affected \cup {Hour(m), FourHour(m)}
                    ELSE txn[x].affected
    IN  /\ txn[x].phase = "upsert"
        /\ Granted(x) /\ ~Conflict(x)
        /\ Len(revisions) <= MaxRevision
        /\ txn' = [txn EXCEPT ![x].staged = Stage(x, k, revisions),
                              ![x].affected = affected,
                              ![x].minutes = @ \ {m},
                              ![x].waiting = -1,
                              ![x].changed = IF CountsAsChanged(x, revisions)
                                             THEN @ \cup {k} ELSE @,
                              ![x].phase = NextPhase(txn[x].minutes \ {m}, affected)]
        /\ UNCHANGED <<store, budget, plan, sent, twice, dayOver, raced>>

ReadSources(x) ==
    /\ txn[x].phase = "sources"
    /\ txn' = [txn EXCEPT ![x].sources = SourcesOf(x, First(txn[x].affected)),
                          ![x].phase = "write"]
    /\ UNCHANGED <<store, budget, plan, sent, twice, dayOver, raced>>

WriteWindow(x) ==
    LET w == First(txn[x].affected)
        revisions == Rebuilt(Seen(x, w), w, txn[x].sources)
        rest == txn[x].affected \ {w}
    IN  /\ txn[x].phase = "write"
        /\ Granted(x) /\ ~Conflict(x)
        /\ Len(revisions) <= MaxRevision
        /\ txn' = [txn EXCEPT ![x].staged = Stage(x, w, revisions),
                              ![x].affected = rest,
                              ![x].sources = <<>>,
                              ![x].waiting = -1,
                              ![x].derived = IF IsComplete(revisions)
                                             THEN @ \cup {w} ELSE @,
                              ![x].phase = NextPhase({}, rest)]
        /\ UNCHANGED <<store, budget, plan, sent, twice, dayOver, raced>>

-----------------------------------------------------------------------------
\* The windows a transaction touches, and those another open one touches too.
Touches(x) == {w \in Windows : \E m \in MinutesOf(w) :
                  Source(m) \in txn[x].changed \cup DOMAIN txn[x].staged}
Contested(x) == {w \in Touches(x) : \E y \in Writers \ {x} :
                    Open(y) /\ \E m \in MinutesOf(w) :
                                   Source(m) \in DOMAIN txn[y].staged \/ m \in txn[y].minutes}

Revision(x, k) == [key |-> k, revision |-> Len(Seen(x, k))]

\* The stream confirms each changed source and each complete window it rebuilt,
\* after the commit; the repairs confirm nothing.
Confirmed(x) ==
    IF x = "live" THEN {Revision(x, k) : k \in txn[x].changed \cup txn[x].derived} ELSE {}

Commit(x) ==
    /\ txn[x].phase = "commit"
    /\ store' = [k \in Keys |-> Seen(x, k)]
    /\ txn' = [txn EXCEPT ![x] = NoTxn]
    /\ twice' = (twice \/ Confirmed(x) \cap sent # {})
    /\ sent' = sent \cup Confirmed(x)
    /\ raced' = raced \cup Contested(x)
    /\ UNCHANGED <<budget, plan, dayOver>>

\* The connection or the process is lost before the commit.
RollBack(x) ==
    /\ Open(x)
    /\ txn' = [txn EXCEPT ![x] = NoTxn]
    /\ UNCHANGED <<store, budget, plan, sent, twice, dayOver, raced>>

Next ==
    \/ \E m \in Minutes : ReceiveKline(m)
    \/ EndDay
    \/ \E m \in Minutes : PlanRepair(m + 1) \/ PersistPage(m + 1)
    \/ PersistChunk
    \/ \E x \in Writers : \/ ReadRevision(x)
                          \/ Wait(x)
                          \/ Resolve(x)
                          \/ WriteSource(x)
                          \/ ReadSources(x)
                          \/ WriteWindow(x)
                          \/ Commit(x)
                          \/ RollBack(x)

Spec == Init /\ [][Next]_vars

-----------------------------------------------------------------------------
\* Every candle's revisions are a chain of which only the last one is current,
\* and a source row is never incomplete.
ChainOK(k) ==
    \A i \in DOMAIN store[k] :
        /\ store[k][i].status = "superseded" <=> i < Len(store[k])
        /\ store[k][i].status \in {"complete", "superseded", "incomplete"}
        /\ k \in Sources => store[k][i].values \in Writers

TypeOK ==
    /\ \A k \in Keys : ChainOK(k)
    /\ budget \in [Writers -> 0 .. (MaxLive + MaxRepairs)]
    /\ plan \subseteq Minutes
    /\ raced \subseteq Windows
    /\ twice \in BOOLEAN
    /\ \A x \in Writers : txn[x].phase \in {"none", "read", "upsert", "sources", "write", "commit"}

\* A window that is complete was built from one revision of every one of its
\* minutes, however many transactions raced for it (aggregation.py).
CompleteHasEverySource ==
    \A w \in Windows : \A i \in DOMAIN store[w] :
        store[w][i].status \in {"complete", "superseded"}
            => /\ DOMAIN store[w][i].values = MinutesOf(w)
               /\ \A m \in MinutesOf(w) :
                     store[w][i].values[m] \in 1 .. Len(store[Source(m)])

\* The window agrees with the sources that are now current.
Fresh(w) ==
    LET present == {m \in MinutesOf(w) : IsComplete(store[Source(m)])}
        revisions == [m \in present |-> Len(store[Source(m)])]
    IN  IF present = MinutesOf(w)
        THEN IsComplete(store[w]) /\ Current(store[w]).values = revisions
        ELSE ~IsComplete(store[w])

Idle == \A x \in Writers : ~Open(x)

\* Once the writers are done, a window that no two of them rebuilt at the same
\* time agrees with its sources: a repair or a correction leaves nothing behind.
QuietWindowsAreFresh == Idle => \A w \in Windows \ raced : Fresh(w)

\* MARKET_DATA.md: "Source fingerprints digest the ordered current source candle
\* ID/revision pairs", of every window, raced for or not.
FingerprintsAreCurrent ==
    Idle => \A w \in Windows : IsComplete(store[w]) => Fresh(w)

\* No set of transactions waits for one another: sources are locked ascending
\* and windows in sorted order, whatever the batch.
Waiting(x) == Open(x) /\ txn[x].waiting # -1
NoWaitCycle ==
    \A xs \in SUBSET {x \in Writers : Waiting(x)} :
        xs # {} => \E x \in xs : \A y \in xs \ {x} : Target(x) \notin DOMAIN txn[y].staged

\* A redelivered or unchanged kline confirms nothing again: no revision of a
\* candle reaches the pipeline twice.
ConfirmedOnce == ~twice

\* What no interleaving of the writers breaks: no window is complete without all of
\* its minutes, nobody waits in a circle, no revision is announced twice.
StoreIsSound == TypeOK /\ CompleteHasEverySource /\ NoWaitCycle /\ ConfirmedOnce

\* A committed revision keeps its values; a complete one is superseded at most,
\* and revisions are only added: no transaction overwrites another's.
Kept(old, new) == \/ new = old
                  \/ old.status = "complete" /\ new = Row("superseded", old.values)
                  \/ old.status = "incomplete" /\ new.status \in {"incomplete", "complete"}
HistoryIsKept ==
    [][\A k \in Keys : /\ Len(store'[k]) >= Len(store[k])
                       /\ \A i \in DOMAIN store[k] : Kept(store[k][i], store'[k][i])]_vars
=============================================================================
