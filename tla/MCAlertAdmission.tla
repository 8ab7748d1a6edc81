-------------------------- MODULE MCAlertAdmission --------------------------
(***************************************************************************)
(* What users may create and link, each on a small instance: price alerts  *)
(* (AlertAdmission: two requests that share a key, one of them with        *)
(* another body, and requests with keys of their own), the Telegram        *)
(* destination and signal subscriptions (LinksAndSubscriptions, whose two  *)
(* instances take their steps here).  They share no state here: a          *)
(* behaviour is a behaviour of one of them, the others at rest.            *)
(***************************************************************************)
EXTENDS AlertAdmission, LinksAndSubscriptions

CONSTANTS first, retry, other, clash, k1, k2, b1, b2

MCKey == [r \in Requests |-> IF r = other THEN k2 ELSE k1]

MCBody == [r \in Requests |-> IF r = clash THEN b2 ELSE b1]

VARIABLE part    \* the module the behaviour is of

\* The first message comes from one destination, the second from that or another.
MCSenders == [m \in Updates |-> IF m = "m1" THEN {"d1"} ELSE {"d1", "d2"}]

\* Every request has failed and its client has given up.
AdmissionRests ==
    /\ alert = [k \in Keys |-> NoAlert]
    /\ conn = "connected"
    /\ pc = [r \in Requests |-> "done"]
    /\ answer = [r \in Requests |-> "unavailable"]
    /\ userLock = NoOne /\ rowLock = NoOne
    /\ faults = 0 /\ edits = 0

MCInit ==
    /\ part \in {"alerts", "linking", "subscriptions"}
    /\ IF part = "alerts" THEN Init ELSE AdmissionRests
    /\ Linking!Init
    /\ Subscriptions!Init

MCNext ==
    \/ part = "alerts" /\ Next /\ UNCHANGED <<part, linkingVars, subscriptionVars>>
    \/ part = "linking" /\ Linking!Next /\ UNCHANGED <<part, vars, subscriptionVars>>
    \/ part = "subscriptions" /\ Subscriptions!Next /\ UNCHANGED <<part, vars, linkingVars>>

\* The fairness of AlertAdmission, for its own behaviours.
MCFairness == \A r \in Requests : SF_vars(part = "alerts" /\ Step(r))

MCSpec ==
    MCInit /\ [][MCNext]_<<part, vars, linkingVars, subscriptionVars>> /\ MCFairness
=============================================================================
