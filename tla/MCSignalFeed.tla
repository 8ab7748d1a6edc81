----------------------------- MODULE MCSignalFeed ----------------------------
(***************************************************************************)
(* The two sides of the event stream (EventStream), each on a small        *)
(* instance: a behaviour is a behaviour of one of them, the other at rest. *)
(***************************************************************************)
EXTENDS EventStream

VARIABLE part   \* the module the behaviour is of

\* A hidden tab asks nothing of its stream, an empty feed nothing of its tabs.
MCInit ==
    /\ part \in {"hook", "feed"}
    /\ Init
    /\ part = "feed" => ~shown
    /\ Feed!Init

MCNext ==
    \/ part = "hook" /\ Next /\ UNCHANGED <<part, feedVars>>
    \/ part = "feed" /\ Feed!Next /\ UNCHANGED <<part, vars>>

\* The fairness of the modules, each for its own behaviours.
MCFairness ==
    /\ WF_vars(part = "hook" /\ (RequestAnswered \/ PageLoaded))
    /\ WF_vars(part = "hook" /\ Recoveries)
    /\ WF_vars(part = "hook" /\ Opens)
    /\ WF_vars(part = "hook" /\ MinuteFires)
    /\ WF_vars(part = "hook" /\ TickFires)
    /\ WF_feedVars(part = "feed" /\ Feed!Listener)
    /\ WF_feedVars(part = "feed" /\ Feed!Request)
    /\ WF_feedVars(part = "feed" /\ Feed!Body)
    /\ WF_feedVars(part = "feed" /\ Feed!Tab)
    /\ WF_feedVars(part = "feed" /\ Feed!FallbackRefresh)

MCSpec == MCInit /\ [][MCNext]_<<part, vars, feedVars>> /\ MCFairness
=============================================================================
