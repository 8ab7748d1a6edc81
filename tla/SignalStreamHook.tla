-------------------------- MODULE SignalStreamHook ---------------------------
(***************************************************************************)
(* How a browser tab keeps its event stream: the hook use-signal-stream.ts *)
(* with the requests of use-signal-feed.ts it shares a guard with and      *)
(* recoverHistory of preset-signal-panel.tsx, all under                    *)
(* apps/web/src/features/signals/.  The user stays signed in.              *)
(*                                                                         *)
(* An event handler runs to its first await, and the effect that opens the *)
(* EventSource after the state changes of one handler: each is one action. *)
(***************************************************************************)
EXTENDS Naturals

CONSTANTS
    MaxFaults,      \* bound on failed requests and broken streams
    MaxEdits        \* bound on what the user does

ASSUME HookAssumption == MaxFaults \in Nat /\ MaxEdits \in Nat

VARIABLES
    shown,          \* document.visibilityState = "visible"
    online,         \* the network, as the browser reports it
    isVisible,      \* React state isVisible
    baseline,       \* baselineReady, with a streamCursor
    request,        \* who holds requestInFlightRef of use-signal-feed
    recovery,       \* who holds recoveryInFlightRef
    answer,         \* what recoverHistory has from refreshFirstPage
    source,         \* the EventSource of sourceRef
    timers,         \* "minute": disconnectedTimerRef, "ticks": fallbackIntervalRef
    down,           \* disconnected for a minute, and not connected since
    faults, edits

documentVars == <<shown, online>>
recoveryVars == <<request, recovery, answer>>
streamVars == <<source, timers>>
vars == <<documentVars, isVisible, baseline, recoveryVars, streamVars, down,
          faults, edits>>

TypeOK ==
    /\ shown \in BOOLEAN /\ online \in BOOLEAN
    /\ isVisible \in BOOLEAN /\ baseline \in BOOLEAN
    /\ request \in {"none", "initial", "more", "refresh", "recovery"}
    /\ recovery \in {"none", "recover", "control"}
    /\ answer \in {"none", "pending", "loaded", "failed"}
    /\ source \in {"none", "connecting", "open", "failed"}
    /\ timers \subseteq {"minute", "ticks"}
    /\ down \in BOOLEAN
    /\ faults \in 0..MaxFaults
    /\ edits \in 0..MaxEdits
    /\ answer = "none" <=> recovery = "none"
    /\ answer = "pending" <=> request = "recovery"

\* The dashboard may be opened in a background tab.
Init ==
    /\ shown \in BOOLEAN /\ online = TRUE
    /\ isVisible = shown
    /\ baseline = FALSE
    /\ request = "initial" /\ recovery = "none" /\ answer = "none"
    /\ source = "none" /\ timers = {}
    /\ down = FALSE
    /\ faults = 0 /\ edits = 0

Fault == faults < MaxFaults /\ faults' = faults + 1
Edit == edits < MaxEdits /\ edits' = edits + 1

-----------------------------------------------------------------------------
\* closeSource and clearFallback.
Quiesce == source' = "none" /\ timers' = {}

\* Mutant: the effect does not look at the visibility of the document.
ConnectAnyhow(ready, visible) ==
    /\ source' = IF ready THEN "connecting" ELSE "none"
    /\ timers' = {}

\* The effect that owns the EventSource, run again when one of its inputs changed.
Connect(ready, visible) ==
    /\ source' = IF ready /\ visible /\ shown THEN "connecting" ELSE "none"
    /\ timers' = {}

\* Mutant: the fallback timers survive a connection.
KeepTimers == timers

NoTimers == {}

\* recoverHistory asks for the first page; it is refused at once when another
\* request of use-signal-feed is under way.
AskForHistory(who) ==
    /\ recovery' = who
    /\ IF request = "none" THEN request' = "recovery" /\ answer' = "pending"
                           ELSE answer' = "failed" /\ UNCHANGED request

\* recover(): its caller has made the document visible.
Recover ==
    IF recovery # "none"
      THEN UNCHANGED <<recoveryVars, streamVars>>
      ELSE Quiesce /\ AskForHistory("recover")

-----------------------------------------------------------------------------
(***************************************************************************)
(* Requests of use-signal-feed other than a recovery: the first load, the  *)
(* next page, the refresh after a subscription change or by the button.    *)
(***************************************************************************)
StartRequest(kind) ==
    /\ kind \in {"more", "refresh"}
    /\ request = "none"
    /\ kind = "more" => baseline
    /\ Edit
    /\ request' = kind
    /\ UNCHANGED <<documentVars, isVisible, baseline, recovery, answer, streamVars,
                   down, faults>>

\* A page that is loaded anew moves streamCursor or restartToken.
RequestAnswered ==
    /\ request \in {"initial", "more", "refresh"}
    /\ online
    /\ request' = "none"
    /\ baseline' = (baseline \/ request # "more")
    /\ \/ request # "more" /\ Connect(TRUE, isVisible)
       \/ request \in {"more", "refresh"} /\ baseline /\ UNCHANGED streamVars
    /\ UNCHANGED <<documentVars, isVisible, recovery, answer, down, faults, edits>>

RequestFails ==
    /\ request \in {"initial", "more", "refresh"}
    /\ Fault
    /\ request' = "none"
    /\ UNCHANGED <<documentVars, isVisible, baseline, recovery, answer, streamVars,
                   down, edits>>

-----------------------------------------------------------------------------
(***************************************************************************)
(* A recovery: the first page, which may move the cursor and so connect,   *)
(* and the subscriptions, awaited together.                                *)
(***************************************************************************)
PageLoaded ==
    /\ request = "recovery" /\ online
    /\ request' = "none" /\ answer' = "loaded"
    /\ baseline' = TRUE
    /\ \/ Connect(TRUE, isVisible)
       \/ baseline /\ UNCHANGED streamVars
    /\ UNCHANGED <<documentVars, isVisible, recovery, down, faults, edits>>

PageFails ==
    /\ request = "recovery"
    /\ Fault
    /\ request' = "none" /\ answer' = "failed"
    /\ UNCHANGED <<documentVars, isVisible, baseline, recovery, streamVars, down, edits>>

\* Mutant: the guard is released on success only, without the finally.
ReleasedOnSuccess == IF answer = "loaded" THEN "none" ELSE recovery

Released == "none"

RecoveryDone == recovery # "none" /\ answer # "pending"

\* Only recover() makes isVisible true again.
Recovered ==
    /\ RecoveryDone /\ answer = "loaded" /\ shown
    /\ recovery' = Released /\ answer' = "none"
    /\ isVisible' = (isVisible \/ recovery = "recover")
    /\ Connect(baseline, isVisible')
    /\ UNCHANGED <<documentVars, baseline, request, down, faults, edits>>

\* The page or the subscriptions failed, or the document is hidden: no timer is
\* left to try again.
NotRecovered ==
    /\ RecoveryDone
    /\ IF answer = "loaded" /\ shown THEN Fault ELSE UNCHANGED faults
    /\ recovery' = Released /\ answer' = "none"
    /\ UNCHANGED <<documentVars, isVisible, baseline, request, streamVars, down, edits>>

-----------------------------------------------------------------------------
(***************************************************************************)
(* The EventSource.                                                        *)
(***************************************************************************)
Opens ==
    /\ source = "connecting" /\ online
    /\ source' = "open" /\ timers' = NoTimers
    /\ down' = FALSE
    /\ UNCHANGED <<documentVars, isVisible, baseline, recoveryVars, faults, edits>>

\* onerror: the browser retries, or gives up after an HTTP error.
Errors ==
    /\ source \in {"connecting", "open"}
    /\ Fault
    /\ source' \in {"connecting"} \union (IF source = "connecting" THEN {"failed"} ELSE {})
    /\ timers' = IF shown THEN timers \union {"minute"} ELSE timers
    /\ UNCHANGED <<documentVars, isVisible, baseline, recoveryVars, down, edits>>

\* Without network every attempt to connect fails.
FailsOffline ==
    /\ source = "connecting" /\ ~online /\ "minute" \notin timers /\ shown
    /\ timers' = timers \union {"minute"}
    /\ UNCHANGED <<documentVars, isVisible, baseline, recoveryVars, source, down,
                   faults, edits>>

\* A reset, or an invalidation of an event the tab does not know.
ControlEvent ==
    /\ source = "open"
    /\ Fault
    /\ Quiesce
    /\ IF recovery # "none" THEN UNCHANGED recoveryVars ELSE AskForHistory("control")
    /\ UNCHANGED <<documentVars, isVisible, baseline, down, edits>>

MinuteFires ==
    /\ "minute" \in timers
    /\ timers' = (timers \ {"minute"}) \union {"ticks"}
    /\ down' = TRUE
    /\ UNCHANGED <<documentVars, isVisible, baseline, recoveryVars, source, faults, edits>>

TickFires ==
    /\ "ticks" \in timers /\ shown
    /\ Recover
    /\ UNCHANGED <<documentVars, isVisible, baseline, down, faults, edits>>

-----------------------------------------------------------------------------
(***************************************************************************)
(* The user and the network.                                               *)
(***************************************************************************)
Hide ==
    /\ shown
    /\ Edit
    /\ shown' = FALSE /\ isVisible' = FALSE /\ down' = FALSE
    /\ Quiesce
    /\ UNCHANGED <<online, baseline, recoveryVars, faults>>

Show ==
    /\ ~shown
    /\ Edit
    /\ shown' = TRUE
    /\ Recover
    /\ UNCHANGED <<online, isVisible, baseline, down, faults>>

GoesOffline ==
    /\ online
    /\ Edit
    /\ online' = FALSE /\ isVisible' = FALSE /\ down' = FALSE
    /\ Quiesce
    /\ UNCHANGED <<shown, baseline, recoveryVars, faults>>

GoesOnline ==
    /\ ~online
    /\ Edit
    /\ online' = TRUE
    /\ IF shown THEN Recover ELSE UNCHANGED <<recoveryVars, streamVars>>
    /\ UNCHANGED <<shown, isVisible, baseline, down, faults>>

\* The button of a tab that shows "disconnected".
Reconnect ==
    /\ shown /\ source # "open"
    /\ Edit
    /\ Recover
    /\ UNCHANGED <<documentVars, isVisible, baseline, down, faults>>

-----------------------------------------------------------------------------
Requests == RequestAnswered \/ PageLoaded
Recoveries == Recovered \/ NotRecovered
Timers == MinuteFires \/ TickFires
User == (\E kind \in {"more", "refresh"} : StartRequest(kind))
        \/ Hide \/ Show \/ GoesOffline \/ GoesOnline \/ Reconnect
Failures == RequestFails \/ PageFails \/ Errors \/ FailsOffline \/ ControlEvent

Next == Requests \/ Recoveries \/ Opens \/ Timers \/ User \/ Failures

Spec == Init /\ [][Next]_vars

\* Requests are answered while online, timers fire, a reachable API accepts.
FairSpec == Spec /\ WF_vars(RequestAnswered \/ PageLoaded) /\ WF_vars(Recoveries)
                 /\ WF_vars(Opens) /\ WF_vars(MinuteFires) /\ WF_vars(TickFires)

-----------------------------------------------------------------------------
(***************************************************************************)
(* Properties.                                                             *)
(***************************************************************************)

\* A hidden tab holds no stream and no timer, whatever was under way when it was
\* hidden.
HiddenIsSilent == ~shown => source = "none" /\ timers = {}

\* The fallback polls only a tab whose stream is not open.
FallbackOnlyWhileDown == timers # {} => source \in {"connecting", "failed"}

\* What holds in every state of a tab, whatever requests, recoveries and visibility
\* changes overlap. It is inductive: each part needs the others.
HookInv == TypeOK /\ HiddenIsSilent /\ FallbackOnlyWhileDown

\* Nothing is under way that could give the tab its stream back.
Stranded ==
    source = "none" /\ timers = {} /\ recovery = "none" /\ request = "none"

\* A visible tab with network gets its stream, again and again, unless it strands.
StreamsUnlessStranded ==
    <>[](shown /\ online) => []<>(source = "open" \/ Stranded)

=============================================================================
