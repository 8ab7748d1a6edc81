--------------------------- MODULE DeliveryPromise ---------------------------
(***************************************************************************)
(* What the notification outbox promises to the rest of the system and to  *)
(* the user (notifications/worker.py, docs/TELEGRAM.md): each queued job is *)
(* accepted by Telegram at most once, its report is final, 'sent' is        *)
(* reported only of an accepted message, and a message reported failed is   *)
(* never accepted, neither before nor after, unless the report admits that  *)
(* the outcome is unknown.  Workers, claims, retries and crashes are hidden.*)
(***************************************************************************)
EXTENDS Naturals

CONSTANT Jobs

VARIABLES
    report,    \* what the system says of each job
    accepted   \* how often Telegram accepted the job's message

promiseVars == <<report, accepted>>

PromiseTypeOK ==
    /\ report \in [Jobs -> {"none", "open", "sent", "failed", "unknown"}]
    /\ accepted \in [Jobs -> Nat]

PromiseInit ==
    /\ report = [j \in Jobs |-> "none"]
    /\ accepted = [j \in Jobs |-> 0]

Queue(j) ==
    /\ report[j] = "none"
    /\ report' = [report EXCEPT ![j] = "open"]
    /\ UNCHANGED accepted

\* Telegram accepts the message; it may do so after the system gave up on
\* learning the outcome.
Accept(j) ==
    /\ report[j] \in {"open", "unknown"}
    /\ accepted[j] = 0
    /\ accepted' = [accepted EXCEPT ![j] = 1]
    /\ UNCHANGED report

ReportSent(j) ==
    /\ report[j] = "open"
    /\ accepted[j] = 1
    /\ report' = [report EXCEPT ![j] = "sent"]
    /\ UNCHANGED accepted

ReportFailed(j) ==
    /\ report[j] = "open"
    /\ accepted[j] = 0
    /\ report' = [report EXCEPT ![j] = "failed"]
    /\ UNCHANGED accepted

\* Several jobs can be given up at once by stale recovery.
ReportUnknown(S) ==
    /\ \A j \in S : report[j] = "open"
    /\ report' = [j \in Jobs |-> IF j \in S THEN "unknown" ELSE report[j]]
    /\ UNCHANGED accepted

PromiseNext ==
    \/ \E j \in Jobs : Queue(j) \/ Accept(j) \/ ReportSent(j) \/ ReportFailed(j)
    \/ \E S \in SUBSET Jobs : ReportUnknown(S)

PromiseSpec == PromiseInit /\ [][PromiseNext]_promiseVars

=============================================================================
