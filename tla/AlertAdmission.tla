--------------------------- MODULE AlertAdmission ---------------------------
(***************************************************************************)
(* Concurrent creation of price alerts by one user (alerts/service.py):    *)
(* an idempotency key, a limit on active alerts and the requirement of a   *)
(* connected Telegram destination, decided under a per-user advisory lock  *)
(* and the row lock of the connection, both held until the transaction of  *)
(* the request ends.  The statements of the transaction are READ COMMITTED *)
(* and are separate steps.  Users share no lock, so one is enough.         *)
(***************************************************************************)
EXTENDS Integers, FiniteSets

CONSTANTS
    Requests,      \* POST requests of the user, some retries of others
    Keys,          \* their Idempotency-Keys
    Bodies,        \* what they ask for: market, direction and target
    Key, Body,     \* of each request
    Limit,         \* ACTIVE_ALERT_LIMIT
    MaxFaults,     \* bound on database errors and killed requests
    MaxEdits,      \* bound on changes of the connection and of alerts
    NoOne, NoBody

ASSUME AdmissionAssumption ==
    /\ IsFiniteSet(Keys)
    /\ Key \in [Requests -> Keys]
    /\ Body \in [Requests -> Bodies]
    /\ Limit \in Nat
    /\ MaxFaults \in Nat
    /\ MaxEdits \in Nat
    /\ NoOne \notin Requests
    /\ NoBody \notin Bodies

VARIABLES
    alert,       \* the user's price_alerts by creation_idempotency_key
    conn,        \* telegram_connections.status of the user
    pc, answer,  \* each request: its next statement, and its response
    userLock,    \* the request that holds the advisory lock
    rowLock,     \* the request that holds the connection's row lock
    faults, edits

vars == <<alert, conn, pc, answer, userLock, rowLock, faults, edits>>

-----------------------------------------------------------------------------
Places == {"start", "lock", "recheck", "count", "market", "connection", "insert", "done"}
Answers == {"none", "created", "replayed", "key_conflict", "limit_reached",
            "market_unavailable", "not_connected", "degraded", "unavailable"}
ConnStatuses == {"connected", "degraded", "disconnected"}

NoAlert == [status |-> "absent", body |-> NoBody]

TypeOK ==
    /\ alert \in [Keys -> [status : {"absent", "active", "closed"},
                           body : Bodies \union {NoBody}]]
    /\ conn \in ConnStatuses
    /\ pc \in [Requests -> Places]
    /\ answer \in [Requests -> Answers]
    /\ userLock \in Requests \union {NoOne}
    /\ rowLock \in Requests \union {NoOne}
    /\ faults \in 0..MaxFaults
    /\ edits \in 0..MaxEdits

Active == {k \in Keys : alert[k].status = "active"}

Init ==
    /\ alert = [k \in Keys |-> NoAlert]
    /\ conn \in ConnStatuses
    /\ pc = [r \in Requests |-> "start"]
    /\ answer = [r \in Requests |-> "none"]
    /\ userLock = NoOne
    /\ rowLock = NoOne
    /\ faults = 0
    /\ edits = 0

-----------------------------------------------------------------------------
\* Mutant: a rejected request keeps the locks of its transaction.
KeepLocks(r) == UNCHANGED <<userLock, rowLock>>

\* The transaction ends: commit, rollback, or the session is closed.
ReleaseLocks(r) ==
    /\ userLock' = IF userLock = r THEN NoOne ELSE userLock
    /\ rowLock' = IF rowLock = r THEN NoOne ELSE rowLock

Respond(r, response) ==
    /\ answer' = [answer EXCEPT ![r] = response]
    /\ pc' = [pc EXCEPT ![r] = "done"]

Reject(r, response) ==
    /\ Respond(r, response)
    /\ ReleaseLocks(r)
    /\ UNCHANGED alert

GoTo(r, place) ==
    /\ pc' = [pc EXCEPT ![r] = place]
    /\ UNCHANGED <<alert, answer>>

\* Mutant: a key is replayed whatever it was first used for.
ReplayAny(r) == "replayed"

\* _require_matching_replay.
Replay(r) == IF alert[Key[r]].body = Body[r] THEN "replayed" ELSE "key_conflict"

LookUpKey(r, next) ==
    \/ /\ alert[Key[r]].status # "absent"
       /\ Reject(r, Replay(r))
    \/ /\ alert[Key[r]].status = "absent"
       /\ GoTo(r, next)
       /\ UNCHANGED <<userLock, rowLock>>

FirstLookUp(r) ==
    /\ pc[r] = "start"
    /\ LookUpKey(r, "lock")
    /\ UNCHANGED <<conn, faults, edits>>

\* Mutant: no advisory lock.
NeverWaits(r) == TRUE

UserLockFree(r) == userLock = NoOne

\* lock_user_price_alert_creation.
LockUser(r) ==
    /\ pc[r] = "lock"
    /\ UserLockFree(r)
    /\ userLock' = r
    /\ GoTo(r, "recheck")
    /\ UNCHANGED <<conn, rowLock, faults, edits>>

SecondLookUp(r) ==
    /\ pc[r] = "recheck"
    /\ LookUpKey(r, "count")
    /\ UNCHANGED <<conn, faults, edits>>

CountActive(r) ==
    /\ pc[r] = "count"
    /\ \/ Cardinality(Active) >= Limit /\ Reject(r, "limit_reached")
       \/ Cardinality(Active) < Limit /\ GoTo(r, "market")
                                      /\ UNCHANGED <<userLock, rowLock>>
    /\ UNCHANGED <<conn, faults, edits>>

\* The catalogue is not modelled: the market is ready or it is not.
CheckMarket(r) ==
    /\ pc[r] = "market"
    /\ \/ Reject(r, "market_unavailable")
       \/ GoTo(r, "connection") /\ UNCHANGED <<userLock, rowLock>>
    /\ UNCHANGED <<conn, faults, edits>>

\* get_telegram_connection_by_user_id(for_update=True).
LockConnection(r) ==
    /\ pc[r] = "connection"
    /\ rowLock = NoOne
    /\ \/ /\ conn = "connected"
          /\ rowLock' = r
          /\ GoTo(r, "insert")
          /\ UNCHANGED userLock
       \/ conn = "disconnected" /\ Reject(r, "not_connected")
       \/ conn = "degraded" /\ Reject(r, "degraded")
    /\ UNCHANGED <<conn, faults, edits>>

Inserted(r) == [alert EXCEPT ![Key[r]] = [status |-> "active", body |-> Body[r]]]

\* create_price_alert and the commit.  A key that exists by now violates the
\* unique constraint and is replayed.
Insert(r) ==
    /\ pc[r] = "insert"
    /\ LET fresh == alert[Key[r]].status = "absent"
       IN  /\ alert' = IF fresh THEN Inserted(r) ELSE alert
           /\ Respond(r, IF fresh THEN "created" ELSE Replay(r))
    /\ ReleaseLocks(r)
    /\ UNCHANGED <<conn, faults, edits>>

\* A database error rolls the request back; when the acknowledgement of its
\* commit is lost the alert exists all the same.
Fails(r) ==
    /\ faults < MaxFaults
    /\ pc[r] # "done"
    /\ Respond(r, "unavailable")
    /\ ReleaseLocks(r)
    /\ \/ UNCHANGED alert
       \/ /\ pc[r] = "insert"
          /\ alert[Key[r]].status = "absent"
          /\ alert' = Inserted(r)
    /\ faults' = faults + 1
    /\ UNCHANGED <<conn, edits>>

\* The client sends a failed request again, with the same key.
Retry(r) ==
    /\ answer[r] = "unavailable"
    /\ answer' = [answer EXCEPT ![r] = "none"]
    /\ pc' = [pc EXCEPT ![r] = "start"]
    /\ UNCHANGED <<alert, conn, userLock, rowLock, faults, edits>>

\* An active alert triggers, or is deleted, disabled or failed.
CloseAlert(k) ==
    /\ edits < MaxEdits
    /\ alert[k].status = "active"
    /\ alert' = [alert EXCEPT ![k].status = "closed"]
    /\ edits' = edits + 1
    /\ UNCHANGED <<conn, pc, answer, userLock, rowLock, faults>>

\* Mutant: a change of the connection does not wait for its row lock.
AnyTime == TRUE

RowLockFree == rowLock = NoOne

\* The connection is linked, disconnected or degraded by another transaction,
\* whose UPDATE waits for the row lock.
ConnectionChanges ==
    /\ edits < MaxEdits
    /\ RowLockFree
    /\ \E status \in ConnStatuses \ {conn} : conn' = status
    /\ edits' = edits + 1
    /\ UNCHANGED <<alert, pc, answer, userLock, rowLock, faults>>

-----------------------------------------------------------------------------
Step(r) ==
    \/ FirstLookUp(r)
    \/ LockUser(r)
    \/ SecondLookUp(r)
    \/ CountActive(r)
    \/ CheckMarket(r)
    \/ LockConnection(r)
    \/ Insert(r)
    \/ Retry(r)

Next ==
    \/ \E r \in Requests : Step(r) \/ Fails(r)
    \/ \E k \in Keys : CloseAlert(k)
    \/ ConnectionChanges

Spec == Init /\ [][Next]_vars

\* Every request is served and repeated after an error; the advisory lock is
\* granted in the order of arrival, so a request is not passed over for ever.
FairSpec == Spec /\ \A r \in Requests : SF_vars(Step(r))

-----------------------------------------------------------------------------
(***************************************************************************)
(* Properties.                                                             *)
(***************************************************************************)

\* However requests overlap, no user has more than ACTIVE_ALERT_LIMIT active
\* alerts.
ActiveLimitHolds == Cardinality(Active) <= Limit

\* A key stands for one alert: it is created at most once, and a request that
\* was told 'created' or 'replayed' finds the alert it asked for, and no other,
\* under its key.
KeyMeansOneAlert ==
    \A r, q \in Requests :
        /\ answer[r] = "created" /\ answer[q] = "created" /\ Key[r] = Key[q] => r = q
        /\ answer[r] \in {"created", "replayed"} =>
              /\ alert[Key[r]].status # "absent"
              /\ alert[Key[r]].body = Body[r]

\* An alert comes into being only while its owner's destination is connected,
\* although the connection is checked some statements before the commit.
CreatedWhileConnected ==
    [][\A k \in Keys : alert[k].status = "absent" /\ alert'[k].status # "absent"
          => conn = "connected"]_vars

\* No request waits for ever for a lock that another one keeps.
EveryRequestAnswered == \A r \in Requests : <>[](pc[r] = "done")

-----------------------------------------------------------------------------
(***************************************************************************)
(* The inductive invariant behind them.                                    *)
(***************************************************************************)

\* The two locks tell which statements their holders can be at; a request that
\* is answered holds neither.
LockInv ==
    \A r \in Requests :
        /\ pc[r] \in {"recheck", "count", "market", "connection", "insert"}
              <=> userLock = r
        /\ pc[r] = "insert" <=> rowLock = r
        /\ answer[r] # "none" <=> pc[r] = "done"

\* What a request has found stays true until its transaction ends: its key is
\* unused, the user has room for one more alert, the destination is connected.
FoundInv ==
    \A r \in Requests :
        /\ pc[r] \in {"count", "market", "connection", "insert"} =>
              alert[Key[r]].status = "absent"
        /\ pc[r] \in {"market", "connection", "insert"} => Cardinality(Active) < Limit
        /\ pc[r] = "insert" => conn = "connected"

\* Locks, what was found under them, and the two promises.
AdmissionInv ==
    /\ LockInv
    /\ FoundInv
    /\ ActiveLimitHolds
    /\ KeyMeansOneAlert

=============================================================================
