-------------------------------- MODULE FanOut --------------------------------
(***************************************************************************)
(* What the fan-out of signal occurrences promises to the users who have   *)
(* asked for them (notifications/signal_dispatcher.py, docs/ALERTS.md).    *)
(* Whom an occurrence concerns is fixed when it is created.  Of those, a   *)
(* subscription that stays reachable and undisputed is told before the     *)
(* fan-out is complete, nobody else ever is, and a fan-out that is over    *)
(* stays over.  Dispatch rows, pages, cursors, locks, retries and crashes  *)
(* are hidden.                                                             *)
(***************************************************************************)
CONSTANTS Events, Subs

VARIABLES
    outcome,      \* of each occurrence: "none", "open", "completed" or "dropped"
    concerned,    \* whom it concerned when it was created
    told,         \* who has a job for it
    unreachable,  \* who is without the connection of that time
    disputed      \* whose change claims to be older than the occurrence

fanOutVars == <<outcome, concerned, told, unreachable, disputed>>

FanOutInit ==
    /\ outcome = [e \in Events |-> "none"]
    /\ concerned = [e \in Events |-> {}]
    /\ told = [e \in Events |-> {}]
    /\ unreachable = [e \in Events |-> {}]
    /\ disputed = [e \in Events |-> {}]

\* Only those can be concerned who are reachable; nothing is sent of a backfilled
\* occurrence, which is over at once.
Occur(e) ==
    /\ outcome[e] = "none"
    /\ \E next \in {"open", "dropped"}, whom \in SUBSET Subs, missing \in SUBSET Subs :
          /\ whom \intersect missing = {}
          /\ outcome' = [outcome EXCEPT ![e] = next]
          /\ concerned' = [concerned EXCEPT ![e] = whom]
          /\ unreachable' = [unreachable EXCEPT ![e] = missing]
    /\ UNCHANGED <<told, disputed>>

\* Each is told once, and only who is reachable and entitled.
Tell(e) ==
    /\ outcome[e] = "open"
    /\ \E whom \in SUBSET Subs :
          /\ whom # {}
          /\ whom \intersect (told[e] \union unreachable[e]) = {}
          /\ whom \subseteq concerned[e] \union disputed[e]
          /\ told' = [told EXCEPT ![e] = @ \union whom]
    /\ UNCHANGED <<outcome, concerned, unreachable, disputed>>

Complete(e) ==
    /\ outcome[e] = "open"
    /\ concerned[e] \subseteq told[e] \union unreachable[e] \union disputed[e]
    /\ outcome' = [outcome EXCEPT ![e] = "completed"]
    /\ UNCHANGED <<concerned, told, unreachable, disputed>>

\* Expired, invalidated or out of attempts; one sweep may find several.
Drop(S) ==
    /\ \A e \in S : outcome[e] = "open"
    /\ outcome' = [e \in Events |-> IF e \in S THEN "dropped" ELSE outcome[e]]
    /\ UNCHANGED <<concerned, told, unreachable, disputed>>

\* Users change their minds and their connections: a connection that is lost is lost to
\* every earlier occurrence, unless the change that brings it back is disputed.
Change ==
    /\ unreachable' \in [Events -> SUBSET Subs]
    /\ disputed' \in [Events -> SUBSET Subs]
    /\ \A e \in Events :
          /\ disputed[e] \subseteq disputed'[e]
          /\ unreachable[e] \subseteq unreachable'[e] \union disputed'[e]
          /\ outcome[e] = "none" => /\ disputed'[e] = disputed[e]
                                    /\ unreachable'[e] = unreachable[e]
    /\ UNCHANGED <<outcome, concerned, told>>

FanOutNext ==
    \/ \E e \in Events : Occur(e) \/ Tell(e) \/ Complete(e)
    \/ \E S \in SUBSET Events : Drop(S)
    \/ Change

FanOutSpec == FanOutInit /\ [][FanOutNext]_fanOutVars
=============================================================================
