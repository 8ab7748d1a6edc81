----------------------------- MODULE SignalFeed ------------------------------
(***************************************************************************)
(* The live signal feed from the committed occurrence to one browser tab:  *)
(* rows of signal_feed_stream_events and their NOTIFY                      *)
(* (db/repositories/signal_feed_stream_events.py), the listener task       *)
(* (signals/feed_listener.py), the queue of a connection                   *)
(* (signals/feed_connections.py), the replay plan and the history page     *)
(* (signals/feed.py), the body of the event stream (api/routes/signals.py) *)
(* and the browser (apps/web/.../use-signal-stream.ts, use-signal-feed.ts).*)
(*                                                                         *)
(* A row is its sequence.  The user is subscribed to every preset, so that *)
(* every row is visible.  Occurrences are committed one after the other:   *)
(* the market stream that writes them is a singleton with one consumer.    *)
(***************************************************************************)
EXTENDS Integers, Sequences, FiniteSetsExt

CONSTANTS
    MaxRows,        \* bound on the sequences drawn
    QueueSize,      \* queue_size of the connection manager (100)
    ReplayLimit,    \* records one replay may send (100)
    MaxFaults,      \* bound on failures of any kind
    Reset           \* ResetSignal, and the reset message

FeedAssumption ==
    /\ MaxRows \in Nat
    /\ QueueSize \in Nat \ {0}
    /\ ReplayLimit \in Nat
    /\ MaxFaults \in Nat
    /\ Reset \notin Int

VARIABLES
    drawn,          \* the last sequence drawn from the identity column
    occurred,       \* rows whose signal event is committed
    log,            \* rows of signal_feed_stream_events
    listener,       \* "down", "listening", or "lost" before reset_all
    channel,        \* notifications on their way to the listener
    conn,           \* the connection and the stream body that serves it
    plan,           \* its SignalFeedReplayPlan
    wire,           \* messages sent and not yet received
    browser,        \* the tab: hook, event map and cursors
    overlooked,     \* rows the hand-overs of the code let slip, see below
    faults

serverVars == <<conn, plan>>
vars == <<drawn, occurred, log, listener, channel, serverVars, wire, browser,
          overlooked, faults>>

-----------------------------------------------------------------------------
Rows == 1..MaxRows
Cursors == 0..MaxRows

Connection == [at : {"none", "opened", "bounded", "replaying", "live",
                     "fetching", "ended"},
               queue : Seq(Rows \union {Reset}),
               reset : BOOLEAN,         \* reset_requested
               delivered : Cursors,     \* last_delivered_sequence
               item : Cursors]          \* the row being fetched

Plan == [after : Cursors, through : Cursors, records : SUBSET Rows,
         reset : BOOLEAN]

\* "connecting" stands for the native retries of an EventSource too, "refused"
\* for one closed by an HTTP error, "stopped" for a tab that is hidden or has
\* neither a source nor a timer left.
Browser == [at : {"loading", "reading", "connecting", "open", "refused",
                  "stopped"},
            known : SUBSET Rows,        \* eventMapRef
            page : SUBSET Rows,         \* first statement of a history read
            cursor : Cursors,           \* streamCursor
            lastId : Cursors]           \* last event id of the EventSource

NoConnection == [at |-> "none", queue |-> <<>>, reset |-> FALSE,
                 delivered |-> 0, item |-> 0]
NoPlan == [after |-> 0, through |-> 0, records |-> {}, reset |-> FALSE]

TypeOK ==
    /\ drawn \in Cursors
    /\ occurred \subseteq 1..drawn
    /\ log \subseteq occurred
    /\ listener \in {"down", "listening", "lost"}
    /\ channel \in Seq(Rows)
    /\ conn \in Connection /\ Len(conn.queue) <= QueueSize
    /\ plan \in Plan
    /\ wire \in Seq(Rows \union {Reset})
    /\ browser \in Browser
    /\ overlooked \subseteq occurred
    /\ faults \in 0..MaxFaults

Init ==
    /\ drawn = 0 /\ occurred = {} /\ log = {}
    /\ listener = "down" /\ channel = <<>>
    /\ conn = NoConnection /\ plan = NoPlan
    /\ wire = <<>>
    /\ browser = [at |-> "loading", known |-> {}, page |-> {}, cursor |-> 0,
                  lastId |-> 0]
    /\ overlooked = {}
    /\ faults = 0

Fault == faults < MaxFaults /\ faults' = faults + 1

Latest(rows) == Max(rows \union {0})
InQueue(c) == {c.queue[i] : i \in DOMAIN c.queue}

-----------------------------------------------------------------------------
(***************************************************************************)
(* Occurrences.  The notification leaves at commit, to whoever listens     *)
(* then.  A row committed after reset_all and before the next LISTEN is    *)
(* told to nobody: a connection whose plan is read already has missed it.  *)
(***************************************************************************)
Planned(c) == c.at \in {"bounded", "replaying", "live", "fetching"}

CreateStreamEvent ==
    /\ drawn < MaxRows
    /\ drawn' = drawn + 1
    /\ occurred' = occurred \union {drawn'}
    /\ log' = log \union {drawn'}
    /\ channel' = IF listener = "listening" THEN Append(channel, drawn')
                                             ELSE channel
    /\ overlooked' = IF listener = "down" /\ Planned(conn)
                       THEN overlooked \union {drawn'} ELSE overlooked
    /\ UNCHANGED <<listener, serverVars, wire, browser, faults>>

\* The transaction rolls back; the sequence it drew is not drawn again.
OccurrenceRolledBack ==
    /\ drawn < MaxRows
    /\ drawn' = drawn + 1
    /\ UNCHANGED <<occurred, log, listener, channel, serverVars, wire, browser,
                   overlooked, faults>>

\* delete_old_stream_events.  Nothing waits in a queue for the seven days of the
\* retention.  A row deleted between the bounds and the records of a plan is
\* in neither.
DeleteOldest ==
    /\ log # {}
    /\ LET oldest == Min(log) IN
         /\ oldest \notin InQueue(conn) \union {conn.item}
                          \union {channel[i] : i \in DOMAIN channel}
         /\ log' = log \ {oldest}
         /\ overlooked' = IF conn.at = "bounded" /\ oldest > plan.after
                            THEN overlooked \union {oldest} ELSE overlooked
    /\ UNCHANGED <<drawn, occurred, listener, channel, serverVars, wire, browser,
                   faults>>

-----------------------------------------------------------------------------
(***************************************************************************)
(* SignalFeedConnection.  queued_sequences is the set of rows in the queue:*)
(* the body marks a row delivered in the step in which it takes it.        *)
(***************************************************************************)
RequestReset(c) ==
    IF c.reset THEN c ELSE [c EXCEPT !.reset = TRUE, !.queue = <<Reset>>]

Enqueue(c, r) ==
    IF c.reset \/ r <= c.delivered \/ r \in InQueue(c) THEN c
    ELSE IF Len(c.queue) = QueueSize THEN RequestReset(c)
    ELSE [c EXCEPT !.queue = Append(@, r)]

\* finish_replay: the items that were not replayed stay in the queue, in their order.
Retained(items, through) ==
    LET kept == {i \in DOMAIN items : items[i] = Reset \/ items[i] > through}
        before(i) == {j \in kept : j <= i}
    IN  [n \in 1..Cardinality(kept) |-> items[CHOOSE i \in kept : Cardinality(before(i)) = n]]

ReplayFinished(c, through) ==
    [c EXCEPT !.at = "live", !.queue = Retained(@, through)]

MarkDelivered(c, r) ==
    [c EXCEPT !.delivered = IF r > @ THEN r ELSE @]

-----------------------------------------------------------------------------
(***************************************************************************)
(* SignalFeedListener.  The connection drops, every open connection is told*)
(* to reset, and after a delay the task connects and listens again.        *)
(***************************************************************************)
Listen ==
    /\ listener = "down"
    /\ listener' = "listening"
    /\ UNCHANGED <<drawn, occurred, log, channel, serverVars, wire, browser,
                   overlooked, faults>>

\* The row is read again; one deleted meanwhile is not published.
DispatchSequence ==
    /\ listener = "listening" /\ channel # <<>>
    /\ channel' = Tail(channel)
    /\ conn' = IF conn.at \notin {"none", "ended"} /\ Head(channel) \in log
                 THEN Enqueue(conn, Head(channel)) ELSE conn
    /\ UNCHANGED <<drawn, occurred, log, listener, plan, wire, browser,
                   overlooked, faults>>

\* Its connection fails, or a query of _dispatch_sequence does.
ListenerFails ==
    /\ listener = "listening"
    /\ Fault
    /\ listener' = "lost"
    /\ channel' = <<>>
    /\ UNCHANGED <<drawn, occurred, log, serverVars, wire, browser, overlooked>>

\* Mutant: connections are not told.
ResetNobody(c) == c

ResetIfOpen(c) == IF c.at \in {"none", "ended"} THEN c ELSE RequestReset(c)

ResetAll ==
    /\ listener = "lost"
    /\ listener' = "down"
    /\ conn' = ResetIfOpen(conn)
    /\ UNCHANGED <<drawn, occurred, log, channel, plan, wire, browser, overlooked,
                   faults>>

-----------------------------------------------------------------------------
(***************************************************************************)
(* The stream request.  The connection is opened, so that it queues what is*)
(* published, before the plan is read: its bounds, then its records.       *)
(***************************************************************************)

\* Mutant: the connection takes nothing that is published before its replay ends.
OpenedDeaf == [NoConnection EXCEPT !.at = "opened", !.delivered = MaxRows]

Opened == [NoConnection EXCEPT !.at = "opened"]

ResumeAfter == IF browser.lastId > browser.cursor THEN browser.lastId
                                                   ELSE browser.cursor

OpenStream ==
    /\ browser.at = "connecting" /\ conn.at = "none"
    /\ conn' = Opened
    /\ plan' = [NoPlan EXCEPT !.after = ResumeAfter]
    /\ UNCHANGED <<drawn, occurred, log, listener, channel, wire, browser,
                   overlooked, faults>>

TooOld(after) == log # {} /\ after < Min(log) - 1

\* oldest and high water; the status line goes out when the plan is complete.  No
\* cursor is too old for an empty log, whatever has been deleted from it.
ReadBounds ==
    /\ conn.at = "opened"
    /\ conn' = [conn EXCEPT !.at = IF TooOld(plan.after) THEN "replaying" ELSE "bounded"]
    /\ plan' = [plan EXCEPT !.through = Latest(log), !.reset = TooOld(plan.after)]
    /\ browser' = IF TooOld(plan.after) THEN [browser EXCEPT !.at = "open"] ELSE browser
    /\ overlooked' = IF log = {} THEN overlooked \union {r \in occurred : r > plan.after}
                                 ELSE overlooked
    /\ UNCHANGED <<drawn, occurred, log, listener, channel, wire, faults>>

ReadRecords ==
    /\ conn.at = "bounded"
    /\ LET records == {r \in log : plan.after < r /\ r <= plan.through}
           tooMany == Cardinality(records) > ReplayLimit IN
         plan' = [plan EXCEPT !.records = IF tooMany THEN {} ELSE records,
                              !.reset = tooMany]
    /\ conn' = [conn EXCEPT !.at = "replaying"]
    /\ browser' = [browser EXCEPT !.at = "open"]
    /\ UNCHANGED <<drawn, occurred, log, listener, channel, wire, overlooked, faults>>

\* A rate or connection limit, an expired session or a failed query: an HTTP
\* error closes the EventSource for good.
StreamRefused ==
    /\ browser.at = "connecting"
    /\ Fault
    /\ browser' = [browser EXCEPT !.at = "refused"]
    /\ conn' = NoConnection /\ plan' = NoPlan
    /\ UNCHANGED <<drawn, occurred, log, listener, channel, wire, overlooked>>

-----------------------------------------------------------------------------
(***************************************************************************)
(* signal_feed_stream_body.                                                *)
(***************************************************************************)
SendReset ==
    /\ wire' = Append(wire, Reset)
    /\ conn' = [NoConnection EXCEPT !.at = "ended"]

ReplayRecord ==
    /\ conn.at = "replaying" /\ ~plan.reset /\ plan.records # {}
    /\ LET r == Min(plan.records) IN
         /\ wire' = Append(wire, r)
         /\ conn' = MarkDelivered(conn, r)
         /\ plan' = [plan EXCEPT !.records = @ \ {r}]
    /\ UNCHANGED <<drawn, occurred, log, listener, channel, browser, overlooked, faults>>

PlannedReset ==
    /\ conn.at = "replaying" /\ plan.reset
    /\ SendReset
    /\ UNCHANGED <<drawn, occurred, log, listener, channel, plan, browser, overlooked,
                   faults>>

FinishReplay ==
    /\ conn.at = "replaying" /\ ~plan.reset /\ plan.records = {}
    /\ conn' = ReplayFinished(conn, plan.through)
    /\ UNCHANGED <<drawn, occurred, log, listener, channel, plan, wire, browser,
                   overlooked, faults>>

\* A row is marked delivered before it is read from the database.
TakeItem ==
    /\ conn.at = "live" /\ conn.queue # <<>>
    /\ LET item == Head(conn.queue) IN
         IF item = Reset
           THEN SendReset
           ELSE /\ conn' = [MarkDelivered(conn, item) EXCEPT
                              !.at = "fetching", !.item = item, !.queue = Tail(@)]
                /\ UNCHANGED wire
    /\ UNCHANGED <<drawn, occurred, log, listener, channel, plan, browser, overlooked,
                   faults>>

SendItem ==
    /\ conn.at = "fetching"
    /\ wire' = IF conn.item \in log THEN Append(wire, conn.item) ELSE wire
    /\ conn' = [conn EXCEPT !.at = "live", !.item = 0]
    /\ UNCHANGED <<drawn, occurred, log, listener, channel, plan, browser, overlooked,
                   faults>>

\* The row cannot be read, or the session cannot be revalidated.
BodyFails ==
    /\ conn.at \in {"live", "fetching"}
    /\ Fault
    /\ SendReset
    /\ UNCHANGED <<drawn, occurred, log, listener, channel, plan, browser, overlooked>>

-----------------------------------------------------------------------------
(***************************************************************************)
(* The browser.  It loads the first history page, opens an EventSource at  *)
(* its streamCursor, and on a reset closes it and starts over.  The page is*)
(* read by two statements of a READ COMMITTED transaction; a row committed *)
(* between them is not on the page and not above the cursor.               *)
(***************************************************************************)
Reload(b) == [b EXCEPT !.at = "loading", !.page = {}]

Disconnect == conn' = NoConnection /\ plan' = NoPlan /\ wire' = <<>>

ReadPage ==
    /\ browser.at = "loading"
    /\ browser' = [browser EXCEPT !.at = "reading", !.page = occurred]
    /\ overlooked' = {}
    /\ UNCHANGED <<drawn, occurred, log, listener, channel, serverVars, wire, faults>>

ReadCursor ==
    /\ browser.at = "reading"
    /\ browser' = [browser EXCEPT !.at = "connecting", !.known = @ \union browser.page,
                                  !.page = {}, !.cursor = Latest(log), !.lastId = 0]
    /\ overlooked' = overlooked \union (occurred \ browser'.known)
    /\ UNCHANGED <<drawn, occurred, log, listener, channel, serverVars, wire, faults>>

\* recover() has cleared every timer by then.
HistoryFails ==
    /\ browser.at \in {"loading", "reading"}
    /\ Fault
    /\ browser' = [browser EXCEPT !.at = "stopped", !.page = {}]
    /\ UNCHANGED <<drawn, occurred, log, listener, channel, serverVars, wire, overlooked>>

Receive ==
    /\ browser.at = "open" /\ wire # <<>>
    /\ IF Head(wire) = Reset
         THEN browser' = Reload(browser) /\ Disconnect
         ELSE /\ browser' = [browser EXCEPT !.known = @ \union {Head(wire)},
                                            !.lastId = Head(wire)]
              /\ wire' = Tail(wire)
              /\ UNCHANGED serverVars
    /\ UNCHANGED <<drawn, occurred, log, listener, channel, overlooked, faults>>

\* What was on the wire is lost; the EventSource retries with its last event id.
StreamDrops ==
    /\ browser.at = "open"
    /\ Fault
    /\ browser' = [browser EXCEPT !.at = "connecting"]
    /\ Disconnect
    /\ UNCHANGED <<drawn, occurred, log, listener, channel, overlooked>>

ApiRestarts ==
    /\ Fault
    /\ listener' = "down" /\ channel' = <<>>
    /\ Disconnect
    /\ browser' = IF browser.at = "open" THEN [browser EXCEPT !.at = "connecting"]
                                         ELSE browser
    /\ UNCHANGED <<drawn, occurred, log, overlooked>>

\* A minute without a connection, and the next half-minute tick.
FallbackRefresh ==
    /\ browser.at \in {"connecting", "refused"}
    /\ browser' = Reload(browser)
    /\ Disconnect
    /\ UNCHANGED <<drawn, occurred, log, listener, channel, overlooked, faults>>

Hide ==
    /\ browser.at # "stopped"
    /\ browser' = [browser EXCEPT !.at = "stopped", !.page = {}]
    /\ Disconnect
    /\ UNCHANGED <<drawn, occurred, log, listener, channel, overlooked, faults>>

\* The tab becomes visible, the network returns, or the user asks to reconnect.
Return ==
    /\ browser.at = "stopped"
    /\ browser' = Reload(browser)
    /\ UNCHANGED <<drawn, occurred, log, listener, channel, serverVars, wire,
                   overlooked, faults>>

-----------------------------------------------------------------------------
Database == CreateStreamEvent \/ OccurrenceRolledBack \/ DeleteOldest
Listener == Listen \/ DispatchSequence \/ ResetAll
Request == OpenStream \/ ReadBounds \/ ReadRecords
Body == PlannedReset \/ ReplayRecord \/ FinishReplay \/ TakeItem \/ SendItem
Tab == ReadPage \/ ReadCursor \/ Receive
Perturbation == ListenerFails \/ StreamRefused \/ BodyFails \/ HistoryFails
                \/ StreamDrops \/ ApiRestarts

Next == Database \/ Listener \/ Request \/ Body \/ Tab \/ FallbackRefresh
        \/ Hide \/ Return \/ Perturbation

Spec == Init /\ [][Next]_vars

\* Tasks of the event loop and the browser go on; nobody has to write, to hide
\* the tab or to return to it.
FairSpec == Spec /\ WF_vars(Listener) /\ WF_vars(Request) /\ WF_vars(Body)
                 /\ WF_vars(Tab) /\ WF_vars(FallbackRefresh)

-----------------------------------------------------------------------------
(***************************************************************************)
(* Properties.                                                             *)
(***************************************************************************)
Excused == browser.known \union overlooked

Quiet ==
    /\ listener = "listening" /\ channel = <<>>
    /\ browser.at = "open" /\ conn.at = "live"
    /\ conn.queue = <<>> /\ wire = <<>>

\* A tab whose stream is live and idle shows every occurrence, however replay
\* and live delivery, overflow, failures and resets interleaved, apart from the
\* rows the code is known to overlook.
QuietTabIsCurrent == Quiet => occurred \subseteq Excused

\* The same without the excuse, as docs/CONCERNS.md:41 has it: "Durable stream
\* cursors, bounded replay, reset recovery [...] prevent silent loss when a
\* client reconnects".
NothingIsSilentlyLost == Quiet => occurred \subseteq browser.known

\* The cursor a tab resumes from is a watermark: it has seen all there is below
\* it, so that a replay from there misses nothing.
CursorIsWatermark ==
    browser.at \in {"connecting", "open", "refused"} =>
        \A r \in occurred : r <= ResumeAfter => r \in Excused

\* One connection sends every row once and in order, though it is both replayed
\* and queued: the last event id the tab resumes from never hides a row that was
\* sent before it and lost.  (A later connection may send a row again, when its
\* notification is dispatched after the replay; the tab knows it by then.)
StreamAscends ==
    \A i, j \in DOMAIN wire :
        i < j /\ wire[j] # Reset => wire[i] # Reset /\ wire[i] < wire[j]

\* What a tab shows, what it resumes from and what it is sent miss nothing else.
TabIsCurrent == TypeOK /\ QuietTabIsCurrent /\ CursorIsWatermark /\ StreamAscends

\* Every occurrence becomes known to a tab that does not stop, unless overlooked.
EveryoneIsTold ==
    \A r \in Rows : []<>(r \in occurred => r \in Excused \/ browser.at = "stopped")

=============================================================================
