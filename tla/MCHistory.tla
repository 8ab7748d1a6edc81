------------------------------ MODULE MCHistory ------------------------------
(***************************************************************************)
(* The two workers that go through the past (HistoryWorkers), each on a    *)
(* small instance: a behaviour is a behaviour of one of them, the other at *)
(* rest.                                                                   *)
(***************************************************************************)
EXTENDS HistoryWorkers

CONSTANTS ann, r1
MCUserOf == [r \in Runs |-> ann]

VARIABLE part   \* the module the behaviour is of

\* Nothing is missing, so the backfill finds nothing to do.
BackfillRests ==
    /\ today = 3
    /\ stored = {1, 2}
    /\ remote = [a \in Backfill!Archives |-> 0]
    /\ checkpoint = [a \in Backfill!Archives |->
                       [status |-> "open", next |-> Backfill!FirstDay(a), sum |-> 0]]
    /\ coverage = Backfill!CoverageOf(stored)
    /\ crashes = 0 /\ lease = "nobody"
    /\ process = [w \in Processes |-> Backfill!Idle]

MCInit ==
    /\ part \in {"runs", "backfill"}
    /\ Init
    /\ IF part = "backfill" THEN Backfill!Init ELSE BackfillRests

MCNext ==
    \/ part = "runs" /\ Next /\ UNCHANGED <<part, backfillVars>>
    \/ part = "backfill" /\ Backfill!Next /\ UNCHANGED <<part, vars>>

\* The fairness of the modules, each for its own behaviours.
MCFairness ==
    /\ \A w \in Workers : /\ WF_vars(part = "runs" /\ WorkerStep(w))
                          /\ WF_vars(part = "runs" /\ WakeUp(w))
    /\ \A r \in Runs : /\ WF_vars(part = "runs" /\ LockAges(r))
                       /\ WF_vars(part = "runs" /\ BecomesDue(r))
    /\ WF_vars(part = "runs" /\ EndCorrection)
    /\ \A w \in Processes : WF_backfillVars(part = "backfill" /\ Backfill!Step(w))
    /\ SF_backfillVars(part = "backfill" /\ Backfill!Downloads)

MCSpec == MCInit /\ [][MCNext]_<<part, vars, backfillVars>> /\ MCFairness
=============================================================================
