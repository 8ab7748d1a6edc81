----------------------------- MODULE EventStream ------------------------------
(***************************************************************************)
(* The two sides of the event stream, side by side: the hook of a tab that *)
(* opens, leaves and replaces its stream (SignalStreamHook), and the feed  *)
(* as such a tab sees it (SignalFeed).  They share no state here.          *)
(***************************************************************************)
EXTENDS SignalStreamHook, Integers, Sequences

CONSTANTS
    MaxRows, QueueSize, ReplayLimit, Reset,
    MaxFeedFaults           \* bound of SignalFeed

VARIABLES drawn, occurred, log, listener, channel, conn, plan, wire, browser, overlooked,
          feedFaults

feedVars == <<drawn, occurred, log, listener, channel, conn, plan, wire, browser,
              overlooked, feedFaults>>

Feed == INSTANCE SignalFeed WITH faults <- feedFaults, MaxFaults <- MaxFeedFaults

ASSUME FeedBounds == Feed!FeedAssumption

-----------------------------------------------------------------------------
\* A tab whose stream is live and idle shows every occurrence it is not excused from;
\* what it shows, resumes from and is sent misses nothing else (see SignalFeed).
TabIsCurrent == Feed!TabIsCurrent

\* Every occurrence becomes known to a tab that does not stop (see there).
EveryoneIsTold == Feed!EveryoneIsTold
=============================================================================
