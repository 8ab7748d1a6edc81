----------------------- MODULE AlertsAndLinks_proofs -----------------------
(***************************************************************************)
(* Proofs about the account's alerts, links and subscriptions: for every   *)
(* set of requests and every limit (AlertAdmission), for every number of   *)
(* users, tokens, messages and requests (TelegramLinking), and for every   *)
(* number of subscriptions and changes of them (SignalSubscriptions).      *)
(***************************************************************************)
EXTENDS AlertAdmission, LinksAndSubscriptions, FiniteSetTheorems, TLAPS

-----------------------------------------------------------------------------
(***************************************************************************)
(* Price alerts: what the constants are.                                   *)
(***************************************************************************)

LEMMA BoundTypes ==
    /\ Limit \in Nat
    /\ MaxFaults \in Nat
    /\ MaxEdits \in Nat
BY AdmissionAssumption DEF AdmissionAssumption

LEMMA ConstantTypes ==
    /\ Key \in [Requests -> Keys]
    /\ Body \in [Requests -> Bodies]
    /\ NoOne \notin Requests
    /\ NoBody \notin Bodies
BY AdmissionAssumption DEF AdmissionAssumption

-----------------------------------------------------------------------------
(***************************************************************************)
(* Type correctness.                                                       *)
(***************************************************************************)

LEMMA ReplayType ==
    ASSUME NEW r \in Requests
    PROVE  Replay(r) \in {"replayed", "key_conflict"}
BY DEF Replay

\* Responding, rejecting and releasing the locks keep the types.
LEMMA RespondType ==
    ASSUME TypeOK, NEW r \in Requests, NEW response \in Answers, Respond(r, response)
    PROVE  pc' \in [Requests -> Places] /\ answer' \in [Requests -> Answers]
BY DEF TypeOK, Respond, Places

LEMMA ReleaseType ==
    ASSUME TypeOK, NEW r \in Requests, ReleaseLocks(r)
    PROVE  userLock' \in Requests \union {NoOne} /\ rowLock' \in Requests \union {NoOne}
BY DEF TypeOK, ReleaseLocks

LEMMA RejectType ==
    ASSUME TypeOK, NEW r \in Requests, NEW response \in Answers, Reject(r, response),
           UNCHANGED <<conn, faults, edits>>
    PROVE  TypeOK'
<1>1. pc' \in [Requests -> Places] /\ answer' \in [Requests -> Answers]
      BY RespondType DEF Reject
<1>2. userLock' \in Requests \union {NoOne} /\ rowLock' \in Requests \union {NoOne}
      BY ReleaseType DEF Reject
<1>3. QED
      BY <1>1, <1>2 DEF Reject, TypeOK

LEMMA GoToType ==
    ASSUME TypeOK, NEW r \in Requests, NEW place \in Places, GoTo(r, place),
           UNCHANGED <<conn, faults, edits>>,
           userLock' \in Requests \union {NoOne}, rowLock' \in Requests \union {NoOne}
    PROVE  TypeOK'
BY DEF TypeOK, GoTo

LEMMA InsertedType ==
    ASSUME TypeOK, NEW r \in Requests
    PROVE  Inserted(r) \in [Keys -> [status : {"absent", "active", "closed"},
                                     body : Bodies \union {NoBody}]]
BY ConstantTypes DEF TypeOK, Inserted

LEMMA LookUpType ==
    ASSUME TypeOK, NEW r \in Requests, NEW next \in Places, LookUpKey(r, next),
           UNCHANGED <<conn, faults, edits>>
    PROVE  TypeOK'
<1>1. Replay(r) \in Answers
      BY ReplayType DEF Answers
<1>2. CASE Reject(r, Replay(r))
      BY <1>1, <1>2, RejectType
<1>3. CASE GoTo(r, next) /\ UNCHANGED <<userLock, rowLock>>
      BY <1>3, GoToType DEF TypeOK
<1>4. QED
      BY <1>2, <1>3 DEF LookUpKey

LEMMA StepType ==
    ASSUME TypeOK, NEW r \in Requests, Step(r) \/ Fails(r)
    PROVE  TypeOK'
<1> USE DEF Answers, Places
<1>1. CASE FirstLookUp(r)
      BY <1>1, LookUpType DEF FirstLookUp
<1>2. CASE LockUser(r)
      BY <1>2, GoToType DEF LockUser, TypeOK
<1>3. CASE SecondLookUp(r)
      BY <1>3, LookUpType DEF SecondLookUp
<1>4. CASE CountActive(r)
  <2>1. CASE Reject(r, "limit_reached")
        BY <1>4, <2>1, RejectType DEF CountActive
  <2>2. CASE GoTo(r, "market") /\ UNCHANGED <<userLock, rowLock>>
        BY <1>4, <2>2, GoToType DEF CountActive, TypeOK
  <2>3. QED
        BY <1>4, <2>1, <2>2 DEF CountActive
<1>5. CASE CheckMarket(r)
  <2>1. CASE Reject(r, "market_unavailable")
        BY <1>5, <2>1, RejectType DEF CheckMarket
  <2>2. CASE GoTo(r, "connection") /\ UNCHANGED <<userLock, rowLock>>
        BY <1>5, <2>2, GoToType DEF CheckMarket, TypeOK
  <2>3. QED
        BY <1>5, <2>1, <2>2 DEF CheckMarket
<1>6. CASE LockConnection(r)
  <2>1. CASE GoTo(r, "insert") /\ rowLock' = r /\ UNCHANGED userLock
        BY <1>6, <2>1, GoToType DEF LockConnection, TypeOK
  <2>2. CASE Reject(r, "not_connected") \/ Reject(r, "degraded")
        BY <1>6, <2>2, RejectType DEF LockConnection
  <2>3. QED
        BY <1>6, <2>1, <2>2 DEF LockConnection
<1>7. CASE Insert(r)
  <2>1. PICK response \in Answers : Respond(r, response)
        BY <1>7, ReplayType DEF Insert
  <2>2. pc' \in [Requests -> Places] /\ answer' \in [Requests -> Answers]
        BY <2>1, RespondType
  <2>3. userLock' \in Requests \union {NoOne} /\ rowLock' \in Requests \union {NoOne}
        BY <1>7, ReleaseType DEF Insert
  <2>4. QED
        BY <1>7, <2>2, <2>3, InsertedType DEF Insert, TypeOK
<1>8. CASE Retry(r)
      BY <1>8 DEF Retry, TypeOK
<1>9. CASE Fails(r)
  <2>1. pc' \in [Requests -> Places] /\ answer' \in [Requests -> Answers]
        BY <1>9, RespondType DEF Fails
  <2>2. userLock' \in Requests \union {NoOne} /\ rowLock' \in Requests \union {NoOne}
        BY <1>9, ReleaseType DEF Fails
  <2>3. alert' \in [Keys -> [status : {"absent", "active", "closed"},
                             body : Bodies \union {NoBody}]]
        BY <1>9, InsertedType DEF Fails, TypeOK
  <2>4. faults' \in 0..MaxFaults
        BY <1>9, BoundTypes DEF Fails, TypeOK
  <2>5. QED
        BY <1>9, <2>1, <2>2, <2>3, <2>4 DEF Fails, TypeOK
<1>10. QED
      BY <1>1, <1>2, <1>3, <1>4, <1>5, <1>6, <1>7, <1>8, <1>9 DEF Step

\* The state keeps its types: requests, locks, alerts and the bounds.
THEOREM TypeCorrect == Spec => []TypeOK
<1>1. Init => TypeOK
      BY BoundTypes DEF Init, TypeOK, NoAlert, Places, Answers, ConnStatuses
<1>2. TypeOK /\ [Next]_vars => TypeOK'
  <2> SUFFICES ASSUME TypeOK, [Next]_vars PROVE TypeOK'
        OBVIOUS
  <2>1. CASE \E r \in Requests : Step(r) \/ Fails(r)
        BY <2>1, StepType
  <2>2. ASSUME NEW k \in Keys, CloseAlert(k) PROVE TypeOK'
    <3>1. [alert EXCEPT ![k].status = "closed"]
             \in [Keys -> [status : {"absent", "active", "closed"},
                           body : Bodies \union {NoBody}]]
          BY DEF TypeOK
    <3>2. QED
          BY <2>2, <3>1, BoundTypes DEF CloseAlert, TypeOK
  <2>3. CASE ConnectionChanges
        BY <2>3, BoundTypes DEF ConnectionChanges, TypeOK
  <2>4. CASE UNCHANGED vars
        BY <2>4 DEF vars, TypeOK
  <2>5. QED
        BY <2>1, <2>2, <2>3, <2>4 DEF Next
<1>3. QED
      BY <1>1, <1>2, PTL DEF Spec

-----------------------------------------------------------------------------
(***************************************************************************)
(* How many active alerts there are.                                       *)
(***************************************************************************)

LEMMA ActiveCounts ==
    ASSUME NEW S \in SUBSET Keys
    PROVE  /\ IsFiniteSet(S)
           /\ Cardinality(S) \in Nat
           /\ \A k : k \notin S => Cardinality(S \union {k}) = Cardinality(S) + 1
           /\ \A k : k \in S => Cardinality(S \ {k}) = Cardinality(S) - 1
<1>1. IsFiniteSet(Keys)
      BY AdmissionAssumption DEF AdmissionAssumption
<1>2. IsFiniteSet(S)
      BY <1>1, FS_Subset
<1>3. QED
      BY <1>2, FS_CardinalityType, FS_AddElement, FS_RemoveElement

\* A new alert is one more.
LEMMA InsertedCount ==
    ASSUME TypeOK, NEW r \in Requests, alert[Key[r]].status = "absent",
           alert' = Inserted(r)
    PROVE  Cardinality(Active') = Cardinality(Active) + 1
<1>1. Key[r] \in Keys
      BY ConstantTypes
<1>2. \A k \in Keys : alert'[k].status =
                         IF k = Key[r] THEN "active" ELSE alert[k].status
      BY <1>1 DEF TypeOK, Inserted
<1>3. Active' = Active \union {Key[r]} /\ Key[r] \notin Active
      BY <1>1, <1>2 DEF Active
<1>4. Active \in SUBSET Keys
      BY DEF Active
<1>5. QED
      BY <1>3, <1>4, ActiveCounts

\* A closed alert is one less.
LEMMA ClosedCount ==
    ASSUME TypeOK, NEW k \in Keys, CloseAlert(k)
    PROVE  Cardinality(Active') = Cardinality(Active) - 1
<1>1. \A j \in Keys : alert'[j].status = IF j = k THEN "closed" ELSE alert[j].status
      BY DEF TypeOK, CloseAlert
<1>2. Active' = Active \ {k} /\ k \in Active
      BY <1>1 DEF Active, CloseAlert
<1>3. Active \in SUBSET Keys
      BY DEF Active
<1>4. QED
      BY <1>2, <1>3, ActiveCounts

LEMMA CountType == Cardinality(Active) \in Nat
<1>1. Active \in SUBSET Keys
      BY DEF Active
<1>2. QED
      BY <1>1, ActiveCounts

LEMMA SameActive == alert' = alert => Active' = Active
BY DEF Active

-----------------------------------------------------------------------------
(***************************************************************************)
(* What a step of a request does, whichever statement it is: it ends the   *)
(* transaction, goes on to the next statement, or starts again.            *)
(***************************************************************************)

\* The places where a request holds the advisory lock.
Locked == {"recheck", "count", "market", "connection", "insert"}

\* The request goes on: one statement later, with the locks this takes and
\* what the statement found.
Advances(r) ==
    /\ UNCHANGED <<alert, answer, conn>>
    /\ \/ pc' = [pc EXCEPT ![r] = "lock"] /\ pc[r] = "start"
          /\ UNCHANGED <<userLock, rowLock>>
       \/ pc' = [pc EXCEPT ![r] = "recheck"] /\ pc[r] = "lock"
          /\ userLock = NoOne /\ userLock' = r /\ UNCHANGED rowLock
       \/ pc' = [pc EXCEPT ![r] = "count"] /\ pc[r] = "recheck"
          /\ alert[Key[r]].status = "absent" /\ UNCHANGED <<userLock, rowLock>>
       \/ pc' = [pc EXCEPT ![r] = "market"] /\ pc[r] = "count"
          /\ Cardinality(Active) < Limit /\ UNCHANGED <<userLock, rowLock>>
       \/ pc' = [pc EXCEPT ![r] = "connection"] /\ pc[r] = "market"
          /\ UNCHANGED <<userLock, rowLock>>
       \/ pc' = [pc EXCEPT ![r] = "insert"] /\ pc[r] = "connection"
          /\ conn = "connected" /\ rowLock = NoOne /\ rowLock' = r
          /\ UNCHANGED userLock

\* The request ends without an alert of its own.
EndsAsItWas(r) ==
    /\ UNCHANGED <<alert, conn>>
    /\ pc' = [pc EXCEPT ![r] = "done"]
    /\ ReleaseLocks(r)
    /\ \E response \in Answers \ {"created", "none"} :
          /\ answer' = [answer EXCEPT ![r] = response]
          /\ response = "replayed" => /\ alert[Key[r]].status # "absent"
                                      /\ alert[Key[r]].body = Body[r]

\* The request ends with a new alert, whether or not it learns so.
EndsWithAlert(r) ==
    /\ UNCHANGED conn
    /\ pc[r] = "insert"
    /\ alert[Key[r]].status = "absent"
    /\ alert' = Inserted(r)
    /\ pc' = [pc EXCEPT ![r] = "done"]
    /\ ReleaseLocks(r)
    /\ \E response \in {"created", "unavailable"} :
          answer' = [answer EXCEPT ![r] = response]

\* The request is sent again.
StartsAgain(r) ==
    /\ UNCHANGED <<alert, conn, userLock, rowLock>>
    /\ answer[r] = "unavailable"
    /\ pc' = [pc EXCEPT ![r] = "start"]
    /\ answer' = [answer EXCEPT ![r] = "none"]

LEMMA LookUpKinds ==
    ASSUME NEW r \in Requests, NEW next, LookUpKey(r, next), UNCHANGED conn,
           \/ pc[r] = "start" /\ next = "lock"
           \/ pc[r] = "recheck" /\ next = "count"
    PROVE  Advances(r) \/ EndsAsItWas(r)
<1>1. CASE alert[Key[r]].status # "absent" /\ Reject(r, Replay(r))
  <2>1. Replay(r) \in Answers \ {"created", "none"}
        BY DEF Replay, Answers
  <2>2. Replay(r) = "replayed" => alert[Key[r]].body = Body[r]
        BY DEF Replay
  <2>3. QED
        BY <1>1, <2>1, <2>2 DEF EndsAsItWas, Reject, Respond
<1>2. CASE /\ alert[Key[r]].status = "absent"
           /\ GoTo(r, next)
           /\ UNCHANGED <<userLock, rowLock>>
      BY <1>2 DEF Advances, GoTo
<1>3. QED
      BY <1>1, <1>2 DEF LookUpKey

LEMMA RejectKinds ==
    ASSUME NEW r \in Requests, NEW response \in Answers \ {"created", "replayed", "none"},
           Reject(r, response), UNCHANGED conn
    PROVE  EndsAsItWas(r)
BY DEF EndsAsItWas, Reject, Respond

LEMMA StepKinds ==
    ASSUME TypeOK, NEW r \in Requests, Step(r) \/ Fails(r)
    PROVE  Advances(r) \/ EndsAsItWas(r) \/ EndsWithAlert(r) \/ StartsAgain(r)
<1>1. CASE FirstLookUp(r)
      BY <1>1, LookUpKinds DEF FirstLookUp
<1>2. CASE LockUser(r)
      BY <1>2 DEF LockUser, UserLockFree, GoTo, Advances
<1>3. CASE SecondLookUp(r)
      BY <1>3, LookUpKinds DEF SecondLookUp
<1>4. CASE CountActive(r)
  <2>1. CASE Reject(r, "limit_reached")
        BY <1>4, <2>1, RejectKinds DEF CountActive, Answers
  <2>2. CASE /\ Cardinality(Active) < Limit
             /\ GoTo(r, "market")
             /\ UNCHANGED <<userLock, rowLock>>
        BY <1>4, <2>2 DEF CountActive, GoTo, Advances
  <2>3. QED
        BY <1>4, <2>1, <2>2 DEF CountActive
<1>5. CASE CheckMarket(r)
  <2>1. CASE Reject(r, "market_unavailable")
        BY <1>5, <2>1, RejectKinds DEF CheckMarket, Answers
  <2>2. CASE GoTo(r, "connection") /\ UNCHANGED <<userLock, rowLock>>
        BY <1>5, <2>2 DEF CheckMarket, GoTo, Advances
  <2>3. QED
        BY <1>5, <2>1, <2>2 DEF CheckMarket
<1>6. CASE LockConnection(r)
  <2>1. CASE Reject(r, "not_connected") \/ Reject(r, "degraded")
        BY <1>6, <2>1, RejectKinds DEF LockConnection, Answers
  <2>2. CASE conn = "connected" /\ rowLock' = r /\ GoTo(r, "insert") /\ UNCHANGED userLock
        BY <1>6, <2>2 DEF LockConnection, GoTo, Advances
  <2>3. QED
        BY <1>6, <2>1, <2>2 DEF LockConnection
<1>7. CASE Insert(r)
  <2>1. CASE alert[Key[r]].status = "absent"
        BY <1>7, <2>1 DEF Insert, Respond, EndsWithAlert
  <2>2. CASE alert[Key[r]].status # "absent"
    <3>1. Replay(r) \in Answers \ {"created", "none"}
          BY DEF Replay, Answers
    <3>2. Replay(r) = "replayed" => alert[Key[r]].body = Body[r]
          BY DEF Replay
    <3>3. QED
          BY <1>7, <2>2, <3>1, <3>2 DEF Insert, Respond, EndsAsItWas
  <2>3. QED
        BY <2>1, <2>2
<1>8. CASE Retry(r)
      BY <1>8 DEF Retry, StartsAgain
<1>9. CASE Fails(r)
  <2>1. "unavailable" \in Answers \ {"created", "none"}
        BY DEF Answers
  <2>2. QED
        BY <1>9, <2>1 DEF Fails, Respond, EndsAsItWas, EndsWithAlert
<1>10. QED
      BY <1>1, <1>2, <1>3, <1>4, <1>5, <1>6, <1>7, <1>8, <1>9 DEF Step

-----------------------------------------------------------------------------
(***************************************************************************)
(* The inductive invariant, part by part.                                  *)
(***************************************************************************)

\* Only the holder of the lock moves among the locked statements.
LEMMA LocksKept ==
    ASSUME TypeOK, LockInv, NEW r \in Requests,
           Advances(r) \/ EndsAsItWas(r) \/ EndsWithAlert(r) \/ StartsAgain(r)
    PROVE  LockInv'
<1> SUFFICES ASSUME NEW q \in Requests
             PROVE  /\ pc'[q] \in Locked <=> userLock' = q
                    /\ pc'[q] = "insert" <=> rowLock' = q
                    /\ answer'[q] # "none" <=> pc'[q] = "done"
    BY DEF LockInv, Locked
<1>1. /\ pc[q] \in Locked <=> userLock = q
      /\ pc[q] = "insert" <=> rowLock = q
      /\ answer[q] # "none" <=> pc[q] = "done"
      BY DEF LockInv, Locked
<1>2. /\ pc[r] \in Locked <=> userLock = r
      /\ pc[r] = "insert" <=> rowLock = r
      /\ answer[r] # "none" <=> pc[r] = "done"
      BY DEF LockInv, Locked
<1>3. NoOne \notin Requests
      BY ConstantTypes
<1>4. pc \in [Requests -> Places] /\ answer \in [Requests -> Answers]
      BY DEF TypeOK
<1>5. CASE Advances(r)
      BY <1>1, <1>2, <1>3, <1>4, <1>5 DEF Advances, Locked
<1>6. CASE EndsAsItWas(r)
      BY <1>1, <1>2, <1>3, <1>4, <1>6 DEF EndsAsItWas, ReleaseLocks, Locked, Answers
<1>7. CASE EndsWithAlert(r)
      BY <1>1, <1>2, <1>3, <1>4, <1>7 DEF EndsWithAlert, ReleaseLocks, Locked
<1>8. CASE StartsAgain(r)
      BY <1>1, <1>2, <1>3, <1>4, <1>8 DEF StartsAgain, Locked
<1>9. QED
      BY <1>5, <1>6, <1>7, <1>8

\* What a request found survives the steps of all others: the lock keeps
\* them out.
LEMMA FindingsKept ==
    ASSUME TypeOK, LockInv, FoundInv, NEW r \in Requests,
           Advances(r) \/ EndsAsItWas(r) \/ EndsWithAlert(r) \/ StartsAgain(r)
    PROVE  FoundInv'
<1> SUFFICES ASSUME NEW q \in Requests
             PROVE  /\ pc'[q] \in {"count", "market", "connection", "insert"} =>
                          alert'[Key[q]].status = "absent"
                    /\ pc'[q] \in {"market", "connection", "insert"} =>
                          Cardinality(Active') < Limit
                    /\ pc'[q] = "insert" => conn' = "connected"
    BY DEF FoundInv
<1>1. /\ pc[q] \in {"count", "market", "connection", "insert"} =>
            alert[Key[q]].status = "absent"
      /\ pc[q] \in {"market", "connection", "insert"} => Cardinality(Active) < Limit
      /\ pc[q] = "insert" => conn = "connected"
      BY DEF FoundInv
<1>2. pc \in [Requests -> Places]
      BY DEF TypeOK
<1>3. CASE Advances(r)
      BY <1>1, <1>2, <1>3, SameActive DEF Advances
<1>4. CASE EndsAsItWas(r)
      BY <1>1, <1>2, <1>4, SameActive DEF EndsAsItWas
<1>5. CASE EndsWithAlert(r)
  <2>1. pc[q] \in Locked => q = r
        BY <1>5 DEF EndsWithAlert, LockInv, Locked
  <2>2. pc'[q] \notin {"count", "market", "connection", "insert"}
        BY <1>2, <1>5, <2>1 DEF EndsWithAlert, Locked
  <2>3. QED
        BY <2>2
<1>6. CASE StartsAgain(r)
      BY <1>1, <1>2, <1>6, SameActive DEF StartsAgain
<1>7. QED
      BY <1>3, <1>4, <1>5, <1>6

\* The one step that adds an alert is taken below the limit.
LEMMA LimitKept ==
    ASSUME TypeOK, FoundInv, ActiveLimitHolds, NEW r \in Requests,
           Advances(r) \/ EndsAsItWas(r) \/ EndsWithAlert(r) \/ StartsAgain(r)
    PROVE  ActiveLimitHolds'
<1>1. CASE alert' = alert
      BY <1>1, SameActive DEF ActiveLimitHolds
<1>2. CASE EndsWithAlert(r)
  <2>1. Cardinality(Active) < Limit
        BY <1>2 DEF EndsWithAlert, FoundInv
  <2>2. Cardinality(Active') = Cardinality(Active) + 1
        BY <1>2, InsertedCount DEF EndsWithAlert
  <2>3. QED
        BY <2>1, <2>2, CountType, BoundTypes DEF ActiveLimitHolds
<1>3. QED
      BY <1>1, <1>2 DEF Advances, EndsAsItWas, StartsAgain

\* A key is created once: who creates it finds it unused.
LEMMA KeysKept ==
    ASSUME TypeOK, KeyMeansOneAlert, NEW r \in Requests,
           Advances(r) \/ EndsAsItWas(r) \/ EndsWithAlert(r) \/ StartsAgain(r)
    PROVE  KeyMeansOneAlert'
<1> SUFFICES ASSUME NEW p \in Requests, NEW q \in Requests
             PROVE  /\ answer'[p] = "created" /\ answer'[q] = "created"
                          /\ Key[p] = Key[q] => p = q
                    /\ answer'[p] \in {"created", "replayed"} =>
                          /\ alert'[Key[p]].status # "absent"
                          /\ alert'[Key[p]].body = Body[p]
    BY DEF KeyMeansOneAlert
<1>1. /\ answer[p] = "created" /\ answer[q] = "created" /\ Key[p] = Key[q] => p = q
      /\ answer[p] \in {"created", "replayed"} =>
            /\ alert[Key[p]].status # "absent"
            /\ alert[Key[p]].body = Body[p]
      BY DEF KeyMeansOneAlert
<1>2. /\ answer[q] = "created" => alert[Key[q]].status # "absent"
      BY DEF KeyMeansOneAlert
<1>3. answer \in [Requests -> Answers]
      BY DEF TypeOK
<1>4. CASE Advances(r)
      BY <1>1, <1>4 DEF Advances
<1>5. CASE EndsAsItWas(r)
  <2>1. PICK response \in Answers \ {"created", "none"} :
             /\ answer' = [answer EXCEPT ![r] = response]
             /\ response = "replayed" => /\ alert[Key[r]].status # "absent"
                                         /\ alert[Key[r]].body = Body[r]
        BY <1>5 DEF EndsAsItWas
  <2>2. alert' = alert
        BY <1>5 DEF EndsAsItWas
  <2>3. QED
        BY <1>1, <1>3, <2>1, <2>2
<1>6. CASE EndsWithAlert(r)
  <2>1. PICK response \in {"created", "unavailable"} :
             answer' = [answer EXCEPT ![r] = response]
        BY <1>6 DEF EndsWithAlert
  <2>2. alert[Key[r]].status = "absent"
        BY <1>6 DEF EndsWithAlert
  <2>3. \A k \in Keys : alert'[k] =
            IF k = Key[r] THEN [status |-> "active", body |-> Body[r]] ELSE alert[k]
        BY <1>6 DEF EndsWithAlert, Inserted, TypeOK
  <2>4. Key[p] \in Keys /\ Key[r] \in Keys
        BY ConstantTypes
  <2>5. CASE p = r
        BY <1>2, <1>3, <2>1, <2>2, <2>3, <2>4, <2>5
  <2>6. CASE p # r
        BY <1>1, <1>3, <2>1, <2>2, <2>3, <2>4, <2>6
  <2>7. QED
        BY <2>5, <2>6
<1>7. CASE StartsAgain(r)
      BY <1>1, <1>3, <1>7 DEF StartsAgain
<1>8. QED
      BY <1>4, <1>5, <1>6, <1>7

\* Alerts that close, and changes of the connection, leave it true as well.
LEMMA EditsKept ==
    ASSUME TypeOK, AdmissionInv,
           (\E k \in Keys : CloseAlert(k)) \/ ConnectionChanges
    PROVE  AdmissionInv'
<1>1. CASE \E k \in Keys : CloseAlert(k)
  <2>1. PICK k \in Keys : CloseAlert(k)
        BY <1>1
  <2>2. UNCHANGED <<conn, pc, answer, userLock, rowLock>>
        BY <2>1 DEF CloseAlert
  <2>3. \A j \in Keys : /\ alert'[j].body = alert[j].body
                        /\ alert'[j].status = "absent" <=> alert[j].status = "absent"
        BY <2>1 DEF CloseAlert, TypeOK
  <2>4. Cardinality(Active') = Cardinality(Active) - 1
        BY <2>1, ClosedCount
  <2>5. LockInv'
        BY <2>2 DEF AdmissionInv, LockInv
  <2>6. FoundInv'
        BY <2>2, <2>3, <2>4, CountType, BoundTypes, ConstantTypes
        DEF AdmissionInv, FoundInv
  <2>7. ActiveLimitHolds'
        BY <2>4, CountType, BoundTypes DEF AdmissionInv, ActiveLimitHolds
  <2>8. KeyMeansOneAlert'
        BY <2>2, <2>3, ConstantTypes DEF AdmissionInv, KeyMeansOneAlert
  <2>9. QED
        BY <2>5, <2>6, <2>7, <2>8 DEF AdmissionInv
<1>2. CASE ConnectionChanges
  <2>1. UNCHANGED <<alert, pc, answer, userLock, rowLock>> /\ rowLock = NoOne
        BY <1>2 DEF ConnectionChanges, RowLockFree
  <2>2. \A r \in Requests : pc[r] # "insert"
        BY <2>1, ConstantTypes DEF AdmissionInv, LockInv
  <2>3. LockInv'
        BY <2>1 DEF AdmissionInv, LockInv
  <2>4. FoundInv'
        BY <2>1, <2>2, SameActive DEF AdmissionInv, FoundInv
  <2>5. ActiveLimitHolds'
        BY <2>1, SameActive DEF AdmissionInv, ActiveLimitHolds
  <2>6. KeyMeansOneAlert'
        BY <2>1 DEF AdmissionInv, KeyMeansOneAlert
  <2>7. QED
        BY <2>3, <2>4, <2>5, <2>6 DEF AdmissionInv
<1>3. QED
      BY <1>1, <1>2

LEMMA AdmissionInit == Init => AdmissionInv
<1> SUFFICES ASSUME Init PROVE AdmissionInv
    OBVIOUS
<1>1. Active = {}
      BY DEF Init, Active, NoAlert
<1>2. Cardinality(Active) = 0
      BY <1>1, FS_EmptySet
<1>3. LockInv
      BY ConstantTypes DEF Init, LockInv
<1>4. FoundInv
      BY DEF Init, FoundInv
<1>5. ActiveLimitHolds
      BY <1>2, BoundTypes DEF ActiveLimitHolds
<1>6. KeyMeansOneAlert
      BY DEF Init, KeyMeansOneAlert
<1>7. QED
      BY <1>3, <1>4, <1>5, <1>6 DEF AdmissionInv

LEMMA AdmissionStep == TypeOK /\ AdmissionInv /\ [Next]_vars => AdmissionInv'
<1> SUFFICES ASSUME TypeOK, AdmissionInv, [Next]_vars PROVE AdmissionInv'
    OBVIOUS
<1>1. ASSUME NEW r \in Requests, Step(r) \/ Fails(r) PROVE AdmissionInv'
  <2>1. Advances(r) \/ EndsAsItWas(r) \/ EndsWithAlert(r) \/ StartsAgain(r)
        BY <1>1, StepKinds
  <2>2. LockInv'
        BY <2>1, LocksKept DEF AdmissionInv
  <2>3. FoundInv'
        BY <2>1, FindingsKept DEF AdmissionInv
  <2>4. ActiveLimitHolds'
        BY <2>1, LimitKept DEF AdmissionInv
  <2>5. KeyMeansOneAlert'
        BY <2>1, KeysKept DEF AdmissionInv
  <2>6. QED
        BY <2>2, <2>3, <2>4, <2>5 DEF AdmissionInv
<1>2. CASE (\E k \in Keys : CloseAlert(k)) \/ ConnectionChanges
      BY <1>2, EditsKept
<1>3. CASE UNCHANGED vars
      BY <1>3, SameActive DEF vars, AdmissionInv, LockInv, FoundInv, ActiveLimitHolds,
                              KeyMeansOneAlert
<1>4. QED
      BY <1>1, <1>2, <1>3 DEF Next

-----------------------------------------------------------------------------
(***************************************************************************)
(* The theorems.                                                           *)
(***************************************************************************)

\* The locks, what is found under them and the two promises hold together.
THEOREM AdmissionInvariant == Spec => []AdmissionInv
BY TypeCorrect, AdmissionInit, AdmissionStep, PTL DEF Spec

\* Whatever the number of concurrent requests and the limit, the active alerts
\* of a user stay within it.
THEOREM LimitHolds == Spec => []ActiveLimitHolds
<1>1. AdmissionInv => ActiveLimitHolds
      BY DEF AdmissionInv
<1>2. QED
      BY <1>1, AdmissionInvariant, PTL

\* Retries with the same idempotency key never create a second alert, and are
\* answered with the one they asked for.
THEOREM KeysMeanOneAlert == Spec => []KeyMeansOneAlert
<1>1. AdmissionInv => KeyMeansOneAlert
      BY DEF AdmissionInv
<1>2. QED
      BY <1>1, AdmissionInvariant, PTL

\* The row lock keeps the destination connected from its check to the commit.
THEOREM CreatedConnected == Spec => CreatedWhileConnected
<1>1. TypeOK /\ AdmissionInv /\ [Next]_vars =>
         [\A k \in Keys : alert[k].status = "absent" /\ alert'[k].status # "absent"
             => conn = "connected"]_vars
  <2> SUFFICES ASSUME TypeOK, AdmissionInv, [Next]_vars, NEW k \in Keys,
                      alert[k].status = "absent", alert'[k].status # "absent"
               PROVE  conn = "connected"
      OBVIOUS
  <2>1. ASSUME NEW r \in Requests, Step(r) \/ Fails(r) PROVE conn = "connected"
    <3>1. EndsWithAlert(r)
          BY <2>1, StepKinds DEF Advances, EndsAsItWas, StartsAgain
    <3>2. QED
          BY <3>1 DEF EndsWithAlert, AdmissionInv, FoundInv
  <2>2. ASSUME NEW j \in Keys, CloseAlert(j) PROVE FALSE
        BY <2>2 DEF CloseAlert, TypeOK
  <2>3. ~ConnectionChanges /\ ~UNCHANGED vars
        BY DEF ConnectionChanges, vars
  <2>4. QED
        BY <2>1, <2>2, <2>3 DEF Next
<1>2. QED
      BY <1>1, TypeCorrect, AdmissionInvariant, PTL DEF Spec, CreatedWhileConnected

-----------------------------------------------------------------------------
(***************************************************************************)
(* The inductive invariant: what the poller knows of its message, who can  *)
(* hold which lock in which place, and what a lock keeps as it is.         *)
(***************************************************************************)

\* A message that was sent names a token that had been created, and what the
\* poller works on has been fetched.
MessagesAreSent ==
    /\ \A m \in Updates : update[m].at # "user" =>
          /\ update[m].token \in Tokens
          /\ update[m].dest \in Destinations
          /\ token[update[m].token].status # "none"
    /\ poller.pc # "idle" =>
          /\ poller.update \in Updates
          /\ update[poller.update].at \in {"fetched", "gone"}

UsersAreNamed ==
    /\ \A t \in Tokens : token[t].status # "none" => token[t].user \in Users
    /\ \A q \in LinkRequests :
          linkRequest[q].pc \in {"connection", "tokens", "insert"} => linkRequest[q].user \in Users

\* Tokens are held by the poller from LockToken on and by a request from Revoke
\* on; a held token is still outstanding.
TokenLocks ==
    /\ \A t \in Tokens : tokenLock[t] = "poller" =>
          poller.pc \in {"user", "decide"} /\ t = Linking!Message.token
    /\ \A t \in Tokens : \A q \in LinkRequests : tokenLock[t] = q =>
          /\ linkRequest[q].pc = "insert"
          /\ token[t].status \in {"open", "expired"}
    /\ poller.pc \in {"user", "decide"} =>
          /\ tokenLock[Linking!Message.token] = "poller"
          /\ token[Linking!Message.token].status = "open"

\* A request holds the row of its own user only, and the poller at most that of
\* the token's owner between two steps.
RowLocks ==
    /\ \A u \in Users : connectionLock[u] = "poller" => poller.pc = "decide" /\ u = Linking!Owner
    /\ \A u \in Users : \A q \in LinkRequests : connectionLock[u] = q =>
          linkRequest[q].pc \in {"tokens", "insert"} /\ linkRequest[q].user = u

\* The poller is past Record only with a message that was not handled before, and
\* confirms only one it has just recorded.
Handling ==
    /\ poller.pc \in {"token", "user", "decide"} => poller.update \notin processed
    /\ poller.pc = "confirm" => poller.update \in processed /\ confirmed[poller.update] = 0

IInv ==
    /\ Linking!LinkingAssumption
    /\ Linking!TypeOK
    /\ MessagesAreSent
    /\ UsersAreNamed
    /\ TokenLocks
    /\ RowLocks
    /\ Handling
    /\ Linking!ConfirmedOnce
    /\ Linking!OneOwner

-----------------------------------------------------------------------------
(***************************************************************************)
(* The steps, each of them once: an error or a deadlock rolls back what a  *)
(* failing request or the failing poller has done.                         *)
(***************************************************************************)
AnyStep ==
    \/ \E q \in LinkRequests : \/ Linking!Ask(q) \/ Linking!LockConnection(q)
                               \/ Linking!Disconnect(q) \/ Linking!Revoke(q)
                               \/ Linking!InsertToken(q) \/ Linking!RequestFails(q)
    \/ \E m \in Updates : Linking!SendStart(m) \/ Linking!Acknowledge(m) \/ Linking!Fetch(m)
    \/ \E t \in Tokens : Linking!Expire(t)
    \/ \E u \in Users : Linking!Degrade(u)
    \/ Linking!Record \/ Linking!LockToken \/ Linking!LockUser \/ Linking!Decide
    \/ Linking!Confirm \/ Linking!PollerFails \/ Linking!Crash
    \/ UNCHANGED Linking!vars

LEMMA Steps == [Linking!Next]_(Linking!vars) => AnyStep
BY DEF Linking!Next, AnyStep, Linking!RequestStep, Linking!BreakDeadlock,
   Linking!OutOfTokens, Linking!PollerStep, Linking!Fault

\* What remains of the locks when a transaction ends.
LEMMA EndedLocks ==
    ASSUME Linking!TypeOK, NEW by, Linking!EndTransaction(by)
    PROVE  /\ \A t \in Tokens :
                 tokenLock'[t] = IF tokenLock[t] = by THEN Nobody ELSE tokenLock[t]
           /\ \A u \in Users :
                 connectionLock'[u] = IF connectionLock[u] = by THEN Nobody ELSE connectionLock[u]
<1>1. DOMAIN tokenLock = Tokens /\ DOMAIN connectionLock = Users
      BY DEF Linking!TypeOK
<1>2. QED
      BY <1>1 DEF Linking!EndTransaction, Linking!Held

LEMMA EndedLockTypes ==
    ASSUME NEW S, NEW T, NEW lock \in [S -> T], NEW by, Nobody \in T
    PROVE  Linking!Held(lock, by) \in [S -> T]
BY DEF Linking!Held

-----------------------------------------------------------------------------
(***************************************************************************)
(* Type correctness, by the variable.                                      *)
(***************************************************************************)
TokenRow == [status: {"none", "open", "expired", "consumed", "revoked"},
             user: Users \union {Nobody}]
ConnectionRow == [status: {"none", "connected", "degraded", "disconnected"},
                  dest: Destinations \union {Nobody}]
MessageRow == [at: {"user", "telegram", "fetched", "gone"},
               token: Tokens \union {Nobody},
               dest: Destinations \union {Nobody}]
RequestRow == [pc: {"new", "connection", "tokens", "insert", "done"},
               kind: {"none", "create", "disconnect"},
               user: Users \union {Nobody}]
PollerRow == [pc: {"idle", "record", "token", "user", "decide", "confirm"},
              update: Updates \union {Nobody}]

LEMMA InitTypes == Linking!LinkingAssumption /\ Linking!Init => Linking!TypeOK
BY DEF Linking!LinkingAssumption, Linking!Init, Linking!TypeOK, Linking!NoToken,
   Linking!NoConnection, Linking!Unsent, Linking!IdlePoller, Linking!NewRequest

LEMMA TokenSteps ==
    [Linking!Next]_(Linking!vars) =>
      \/ \E q \in LinkRequests : Linking!Disconnect(q) \/ Linking!InsertToken(q)
      \/ \E t \in Tokens : Linking!Expire(t)
      \/ Linking!Decide
      \/ UNCHANGED token
BY Steps
DEF AnyStep, Linking!Ask, Linking!LockConnection, Linking!Revoke, Linking!RequestFails,
    Linking!SendStart, Linking!Acknowledge, Linking!Fetch, Linking!Degrade,
    Linking!Record, Linking!LockToken, Linking!LockUser, Linking!Confirm,
    Linking!PollerFails, Linking!Crash, Linking!vars

LEMMA StepTokenType ==
    ASSUME IInv, [Linking!Next]_(Linking!vars)
    PROVE  token' \in [Tokens -> TokenRow]
<1>1. token \in [Tokens -> TokenRow]
      BY DEF IInv, Linking!TypeOK, TokenRow
<1>2. ASSUME NEW ts PROVE Linking!Revoked(ts) \in [Tokens -> TokenRow]
      BY <1>1 DEF Linking!Revoked, TokenRow
<1>3. ASSUME NEW q \in LinkRequests, Linking!Disconnect(q) PROVE token' \in [Tokens -> TokenRow]
      BY <1>2, <1>3 DEF Linking!Disconnect
<1>4. ASSUME NEW q \in LinkRequests, Linking!InsertToken(q)
      PROVE  token' \in [Tokens -> TokenRow]
  <2>1. CASE UNCHANGED token
        BY <1>1, <2>1
  <2>2. CASE \E t \in Tokens : \E ts :
                token' = [Linking!Revoked(ts) EXCEPT ![t] =
                           [status |-> "open", user |-> linkRequest[q].user]]
    <3>1. [status |-> "open", user |-> linkRequest[q].user] \in TokenRow
          BY <1>4 DEF Linking!InsertToken, IInv, UsersAreNamed, TokenRow
    <3>2. QED
          BY <1>2, <2>2, <3>1
  <2>3. QED
        BY <1>4, <2>1, <2>2 DEF Linking!InsertToken
<1>5. ASSUME NEW t \in Tokens, Linking!Expire(t) PROVE token' \in [Tokens -> TokenRow]
      BY <1>1, <1>5 DEF Linking!Expire, TokenRow
<1>6. ASSUME Linking!Decide PROVE token' \in [Tokens -> TokenRow]
      BY <1>1, <1>6 DEF Linking!Decide, TokenRow
<1>7. QED
      BY <1>1, <1>3, <1>4, <1>5, <1>6, TokenSteps

LEMMA ConnectionSteps ==
    [Linking!Next]_(Linking!vars) =>
      \/ \E q \in LinkRequests : Linking!Disconnect(q)
      \/ \E u \in Users : Linking!Degrade(u)
      \/ Linking!Decide
      \/ UNCHANGED connection
BY Steps
DEF AnyStep, Linking!Ask, Linking!LockConnection, Linking!Revoke, Linking!InsertToken,
    Linking!RequestFails, Linking!SendStart, Linking!Acknowledge, Linking!Fetch,
    Linking!Expire, Linking!Record, Linking!LockToken, Linking!LockUser, Linking!Confirm,
    Linking!PollerFails, Linking!Crash, Linking!vars

LEMMA StepConnectionType ==
    ASSUME IInv, [Linking!Next]_(Linking!vars)
    PROVE  connection' \in [Users -> ConnectionRow]
<1>1. connection \in [Users -> ConnectionRow]
      BY DEF IInv, Linking!TypeOK, ConnectionRow
<1>2. ASSUME Linking!Decide PROVE connection' \in [Users -> ConnectionRow]
  <2>1. Linking!Message.dest \in Destinations
        BY <1>2 DEF Linking!Decide, IInv, MessagesAreSent, Linking!Message
  <2>2. [status |-> "connected", dest |-> Linking!Message.dest] \in ConnectionRow
        BY <2>1 DEF ConnectionRow
  <2>3. QED
        BY <1>1, <1>2, <2>2 DEF Linking!Decide
<1>3. ASSUME NEW q \in LinkRequests, Linking!Disconnect(q)
      PROVE  connection' \in [Users -> ConnectionRow]
      BY <1>1, <1>3 DEF Linking!Disconnect, ConnectionRow
<1>4. ASSUME NEW u \in Users, Linking!Degrade(u) PROVE connection' \in [Users -> ConnectionRow]
      BY <1>1, <1>4 DEF Linking!Degrade, ConnectionRow
<1>5. QED
      BY <1>1, <1>2, <1>3, <1>4, ConnectionSteps

LEMMA UpdateSteps ==
    [Linking!Next]_(Linking!vars) =>
      \/ \E m \in Updates : Linking!SendStart(m) \/ Linking!Acknowledge(m) \/ Linking!Fetch(m)
      \/ Linking!Crash
      \/ UNCHANGED update
BY Steps
DEF AnyStep, Linking!Ask, Linking!LockConnection, Linking!Disconnect, Linking!Revoke,
    Linking!InsertToken, Linking!RequestFails, Linking!Expire, Linking!Degrade,
    Linking!Record, Linking!LockToken, Linking!LockUser, Linking!Decide, Linking!Confirm,
    Linking!PollerFails, Linking!vars

LEMMA StepUpdateType ==
    ASSUME IInv, [Linking!Next]_(Linking!vars)
    PROVE  update' \in [Updates -> MessageRow]
<1>1. update \in [Updates -> MessageRow]
      BY DEF IInv, Linking!TypeOK, MessageRow
<1>2. ASSUME NEW m \in Updates, Linking!SendStart(m) PROVE update' \in [Updates -> MessageRow]
      BY <1>1, <1>2 DEF Linking!SendStart, MessageRow, IInv, Linking!LinkingAssumption
<1>3. ASSUME NEW m \in Updates, Linking!Acknowledge(m) \/ Linking!Fetch(m)
      PROVE  update' \in [Updates -> MessageRow]
      BY <1>1, <1>3 DEF Linking!Acknowledge, Linking!Fetch, MessageRow
<1>4. ASSUME Linking!Crash PROVE update' \in [Updates -> MessageRow]
      BY <1>1, <1>4 DEF Linking!Crash, MessageRow
<1>5. QED
      BY <1>1, <1>2, <1>3, <1>4, UpdateSteps

LEMMA PollerSteps ==
    [Linking!Next]_(Linking!vars) =>
      \/ \E m \in Updates : Linking!Fetch(m)
      \/ Linking!Record
      \/ Linking!LockToken
      \/ Linking!LockUser
      \/ Linking!Decide
      \/ Linking!Confirm
      \/ Linking!PollerFails \/ Linking!Crash
      \/ UNCHANGED poller
BY Steps
DEF AnyStep, Linking!Ask, Linking!LockConnection, Linking!Disconnect, Linking!Revoke,
    Linking!InsertToken, Linking!RequestFails, Linking!SendStart, Linking!Acknowledge,
    Linking!Expire, Linking!Degrade, Linking!vars

LEMMA StepPollerType ==
    ASSUME IInv, [Linking!Next]_(Linking!vars)
    PROVE  poller' \in PollerRow
<1>1. poller \in PollerRow /\ Linking!IdlePoller \in PollerRow
      BY DEF IInv, Linking!TypeOK, PollerRow, Linking!IdlePoller
<1>2. ASSUME NEW step \in {"token", "user", "decide", "confirm"}, Linking!PollerGoes(step)
      PROVE  poller' \in PollerRow
      BY <1>1, <1>2 DEF Linking!PollerGoes, PollerRow
<1>3. ASSUME NEW m \in Updates, Linking!Fetch(m) PROVE poller' \in PollerRow
      BY <1>3 DEF Linking!Fetch, PollerRow
<1>4. QED
      BY <1>1, <1>2, <1>3, PollerSteps
      DEF Linking!Record, Linking!LockToken, Linking!LockUser, Linking!Decide,
          Linking!Confirm, Linking!PollerFails, Linking!Crash

LEMMA RequestSteps ==
    [Linking!Next]_(Linking!vars) =>
      \/ \E q \in LinkRequests : \/ Linking!Ask(q) \/ Linking!LockConnection(q)
                                 \/ Linking!Disconnect(q) \/ Linking!Revoke(q)
                                 \/ Linking!InsertToken(q) \/ Linking!RequestFails(q)
      \/ UNCHANGED linkRequest
BY Steps
DEF AnyStep, Linking!SendStart, Linking!Acknowledge, Linking!Fetch, Linking!Expire,
    Linking!Degrade, Linking!Record, Linking!LockToken, Linking!LockUser, Linking!Decide,
    Linking!Confirm, Linking!PollerFails, Linking!Crash, Linking!vars

LEMMA StepRequestType ==
    ASSUME IInv, [Linking!Next]_(Linking!vars)
    PROVE  linkRequest' \in [LinkRequests -> RequestRow]
<1>1. linkRequest \in [LinkRequests -> RequestRow]
      BY DEF IInv, Linking!TypeOK, RequestRow
<1>2. ASSUME NEW q \in LinkRequests, NEW step \in {"tokens", "insert", "done"}, Linking!Go(q, step)
      PROVE  linkRequest' \in [LinkRequests -> RequestRow]
      BY <1>1, <1>2 DEF Linking!Go, RequestRow
<1>3. ASSUME NEW q \in LinkRequests, Linking!Ask(q)
      PROVE  linkRequest' \in [LinkRequests -> RequestRow]
      BY <1>1, <1>3 DEF Linking!Ask, RequestRow
<1>4. QED
      BY <1>1, <1>2, <1>3, RequestSteps
      DEF Linking!LockConnection, Linking!Disconnect, Linking!Revoke, Linking!InsertToken,
          Linking!RequestFails

LEMMA TokenLockSteps ==
    [Linking!Next]_(Linking!vars) =>
      \/ \E q \in LinkRequests : Linking!Revoke(q) \/ Linking!EndTransaction(q)
      \/ Linking!LockToken \/ Linking!EndTransaction("poller")
      \/ UNCHANGED tokenLock
BY Steps
DEF AnyStep, Linking!Ask, Linking!LockConnection, Linking!Disconnect, Linking!InsertToken,
    Linking!RequestFails, Linking!SendStart, Linking!Acknowledge, Linking!Fetch,
    Linking!Expire, Linking!Degrade, Linking!Record, Linking!LockUser, Linking!Decide,
    Linking!Confirm, Linking!PollerFails, Linking!Crash, Linking!vars

LEMMA RowLockSteps ==
    [Linking!Next]_(Linking!vars) =>
      \/ \E q \in LinkRequests : Linking!LockConnection(q) \/ Linking!EndTransaction(q)
      \/ Linking!LockUser \/ Linking!EndTransaction("poller")
      \/ UNCHANGED connectionLock
BY Steps
DEF AnyStep, Linking!Ask, Linking!Disconnect, Linking!Revoke, Linking!InsertToken,
    Linking!RequestFails, Linking!SendStart, Linking!Acknowledge, Linking!Fetch,
    Linking!Expire, Linking!Degrade, Linking!Record, Linking!LockToken, Linking!Decide,
    Linking!Confirm, Linking!PollerFails, Linking!Crash, Linking!vars

LEMMA StepLockTypes ==
    ASSUME IInv, [Linking!Next]_(Linking!vars)
    PROVE  /\ tokenLock' \in [Tokens -> LinkRequests \union {"poller", Nobody}]
           /\ connectionLock' \in [Users -> LinkRequests \union {"poller", Nobody}]
<1> DEFINE Holders == LinkRequests \union {"poller", Nobody}
<1>1. tokenLock \in [Tokens -> Holders] /\ connectionLock \in [Users -> Holders]
      BY DEF IInv, Linking!TypeOK
<1>2. ASSUME NEW by \in Holders, Linking!EndTransaction(by)
      PROVE  tokenLock' \in [Tokens -> Holders] /\ connectionLock' \in [Users -> Holders]
      BY <1>1, <1>2, EndedLockTypes DEF Linking!EndTransaction
<1>3. ASSUME NEW by \in LinkRequests \union {"poller"}, NEW u, Linking!LocksRow(by, u)
      PROVE  connectionLock' \in [Users -> Holders]
      BY <1>1, <1>3 DEF Linking!LocksRow
<1>4. tokenLock' \in [Tokens -> Holders]
  <2>1. ASSUME NEW q \in LinkRequests, Linking!Revoke(q)
        PROVE  tokenLock' \in [Tokens -> Holders]
        BY <1>1, <2>1 DEF Linking!Revoke
  <2>2. ASSUME Linking!LockToken PROVE tokenLock' \in [Tokens -> Holders]
        BY <1>1, <2>2 DEF Linking!LockToken, Linking!TokenLocked
  <2>3. QED
        BY <1>1, <1>2, <2>1, <2>2, TokenLockSteps
<1>5. connectionLock' \in [Users -> Holders]
  <2>1. ASSUME NEW q \in LinkRequests, Linking!LockConnection(q)
        PROVE  connectionLock' \in [Users -> Holders]
        BY <1>1, <1>3, <2>1 DEF Linking!LockConnection
  <2>2. ASSUME Linking!LockUser PROVE connectionLock' \in [Users -> Holders]
        BY <1>3, <2>2 DEF Linking!LockUser
  <2>3. QED
        BY <1>1, <1>2, <2>1, <2>2, RowLockSteps
<1>6. QED
      BY <1>4, <1>5

LEMMA StepTypes ==
    ASSUME IInv, [Linking!Next]_(Linking!vars)
    PROVE  Linking!TypeOK'
<1>1. processed' \subseteq Updates
  <2>1. \/ UNCHANGED processed
        \/ (Linking!LockToken \/ Linking!Decide) /\ processed' = processed \union {poller.update}
        BY Steps
        DEF AnyStep, Linking!Ask, Linking!LockConnection, Linking!Disconnect,
            Linking!Revoke, Linking!InsertToken, Linking!RequestFails, Linking!SendStart,
            Linking!Acknowledge, Linking!Fetch, Linking!Expire, Linking!Degrade,
            Linking!Record, Linking!LockToken, Linking!LockUser, Linking!Decide,
            Linking!Confirm, Linking!PollerFails, Linking!Crash, Linking!vars
  <2>2. Linking!LockToken \/ Linking!Decide => poller.update \in Updates
        BY DEF Linking!LockToken, Linking!Decide, IInv, MessagesAreSent
  <2>3. QED
        BY <2>1, <2>2 DEF IInv, Linking!TypeOK
<1>2. confirmed' \in [Updates -> Nat]
  <2>1. Linking!Confirm \/ UNCHANGED confirmed
        BY Steps
        DEF AnyStep, Linking!Ask, Linking!LockConnection, Linking!Disconnect,
            Linking!Revoke, Linking!InsertToken, Linking!RequestFails, Linking!SendStart,
            Linking!Acknowledge, Linking!Fetch, Linking!Expire, Linking!Degrade,
            Linking!Record, Linking!LockToken, Linking!LockUser, Linking!Decide,
            Linking!PollerFails, Linking!Crash, Linking!vars
  <2>2. QED
        BY <2>1 DEF Linking!Confirm, IInv, Linking!TypeOK
<1>3. linkFaults' \in 0..MaxLinkFaults
  <2>1. UNCHANGED linkFaults \/ (linkFaults < MaxLinkFaults /\ linkFaults' = linkFaults + 1)
        BY DEF Linking!Next, Linking!RequestStep, Linking!PollerStep, Linking!OutOfTokens,
               Linking!BreakDeadlock, Linking!Ask, Linking!LockConnection,
               Linking!Disconnect, Linking!Revoke, Linking!InsertToken, Linking!SendStart,
               Linking!Acknowledge, Linking!Fetch, Linking!Expire, Linking!Degrade,
               Linking!Record, Linking!LockToken, Linking!LockUser, Linking!Decide,
               Linking!Confirm, Linking!Fault, Linking!Crash, Linking!vars
  <2>2. QED
        BY <2>1 DEF IInv, Linking!TypeOK, Linking!LinkingAssumption
<1>4. QED
      BY <1>1, <1>2, <1>3, StepTokenType, StepConnectionType, StepUpdateType,
         StepPollerType, StepRequestType, StepLockTypes
      DEF Linking!TypeOK, TokenRow, ConnectionRow, MessageRow, PollerRow, RequestRow

-----------------------------------------------------------------------------
(***************************************************************************)
(* Messages, tokens and users.                                             *)
(***************************************************************************)

\* A message keeps its token and its sender once it was sent.
LEMMA MessageKept ==
    ASSUME IInv, [Linking!Next]_(Linking!vars), NEW m \in Updates, update[m].at # "user"
    PROVE  /\ update'[m].at # "user"
           /\ update'[m].token = update[m].token
           /\ update'[m].dest = update[m].dest
           /\ update[m].at \in {"fetched", "gone"} /\ ~Linking!Crash =>
                 update'[m].at \in {"fetched", "gone"}
<1>1. update \in [Updates -> MessageRow]
      BY DEF IInv, Linking!TypeOK, MessageRow
<1>2. ASSUME NEW n \in Updates, Linking!SendStart(n) \/ Linking!Acknowledge(n) \/ Linking!Fetch(n)
      PROVE  /\ update'[m].at # "user"
             /\ update'[m].token = update[m].token
             /\ update'[m].dest = update[m].dest
             /\ update[m].at \in {"fetched", "gone"} => update'[m].at \in {"fetched", "gone"}
      BY <1>1, <1>2 DEF Linking!SendStart, Linking!Acknowledge, Linking!Fetch, MessageRow
<1>3. QED
      BY <1>1, <1>2, UpdateSteps DEF Linking!Crash, MessageRow

\* A token keeps its owner once it was created.
LEMMA TokenKept ==
    ASSUME IInv, [Linking!Next]_(Linking!vars), NEW t \in Tokens, token[t].status # "none"
    PROVE  token'[t].status # "none" /\ token'[t].user = token[t].user
<1>1. token \in [Tokens -> TokenRow]
      BY DEF IInv, Linking!TypeOK, TokenRow
<1>2. ASSUME NEW ts PROVE /\ Linking!Revoked(ts)[t].status # "none"
                         /\ Linking!Revoked(ts)[t].user = token[t].user
      BY <1>1 DEF Linking!Revoked, TokenRow
<1>3. ASSUME NEW q \in LinkRequests, Linking!Disconnect(q)
      PROVE  token'[t].status # "none" /\ token'[t].user = token[t].user
      BY <1>2, <1>3 DEF Linking!Disconnect
<1>4. ASSUME NEW q \in LinkRequests, Linking!InsertToken(q)
      PROVE  token'[t].status # "none" /\ token'[t].user = token[t].user
  <2>1. CASE UNCHANGED token
        BY <2>1
  <2>2. ASSUME NEW n \in Tokens, NEW ts, NEW put, token[n].status = "none",
               token' = [Linking!Revoked(ts) EXCEPT ![n] = put]
        PROVE  token'[t].status # "none" /\ token'[t].user = token[t].user
    <3>1. token'[t] = Linking!Revoked(ts)[t]
          BY <2>2 DEF Linking!Revoked
    <3>2. QED
          BY <1>2, <3>1
  <2>3. QED
        BY <1>4, <2>1, <2>2 DEF Linking!InsertToken
<1>5. ASSUME NEW n \in Tokens, Linking!Expire(n)
      PROVE  token'[t].status # "none" /\ token'[t].user = token[t].user
      BY <1>1, <1>5 DEF Linking!Expire, TokenRow
<1>6. ASSUME Linking!Decide
      PROVE  token'[t].status # "none" /\ token'[t].user = token[t].user
      BY <1>1, <1>6 DEF Linking!Decide, TokenRow
<1>7. QED
      BY <1>3, <1>4, <1>5, <1>6, TokenSteps

\* Between two steps with the same message, the poller keeps it.
LEMMA PollerKeeps ==
    ASSUME IInv, [Linking!Next]_(Linking!vars),
           poller'.pc \in {"token", "user", "decide", "confirm"}
    PROVE  /\ poller.pc # "idle" /\ poller'.update = poller.update
           /\ poller.update \in Updates
           /\ Linking!Message'.token = Linking!Message.token
           /\ Linking!Message'.dest = Linking!Message.dest
<1>1. poller.pc # "idle" /\ poller'.update = poller.update
  <2>1. poller \in PollerRow
        BY DEF IInv, Linking!TypeOK, PollerRow
  <2>2. QED
        BY <2>1, PollerSteps
        DEF Linking!Fetch, Linking!Record, Linking!LockToken, Linking!LockUser,
            Linking!Decide, Linking!Confirm, Linking!PollerFails, Linking!Crash,
            Linking!PollerGoes, Linking!IdlePoller, PollerRow
<1>2. poller.update \in Updates /\ update[poller.update].at # "user"
      BY <1>1 DEF IInv, MessagesAreSent
<1>3. QED
      BY <1>1, <1>2, MessageKept DEF Linking!Message

LEMMA StepMessages ==
    ASSUME IInv, [Linking!Next]_(Linking!vars)
    PROVE  MessagesAreSent'
<1>1. update \in [Updates -> MessageRow] /\ token \in [Tokens -> TokenRow]
      BY DEF IInv, Linking!TypeOK, MessageRow, TokenRow
<1>2. ASSUME NEW m \in Updates, update'[m].at # "user"
      PROVE  /\ update'[m].token \in Tokens
             /\ update'[m].dest \in Destinations
             /\ token'[update'[m].token].status # "none"
  <2>1. CASE update[m].at # "user"
        BY <2>1, MessageKept, TokenKept DEF IInv, MessagesAreSent
  <2>2. CASE update[m].at = "user"
    <3>1. Linking!SendStart(m)
          BY <1>1, <1>2, <2>2, UpdateSteps DEF Linking!SendStart, Linking!Acknowledge,
             Linking!Fetch, Linking!Crash, MessageRow
    <3>2. QED
          BY <1>1, <3>1 DEF Linking!SendStart, MessageRow, IInv, Linking!LinkingAssumption
  <2>3. QED
        BY <2>1, <2>2
<1>3. ASSUME poller'.pc # "idle"
      PROVE  poller'.update \in Updates /\ update'[poller'.update].at \in {"fetched", "gone"}
  <2>1. CASE \E m \in Updates : Linking!Fetch(m)
        BY <1>1, <2>1 DEF Linking!Fetch, MessageRow
  <2>2. CASE ~ \E m \in Updates : Linking!Fetch(m)
    <3>1. poller \in PollerRow
          BY DEF IInv, Linking!TypeOK, PollerRow
    <3>2. poller.pc # "idle" /\ poller'.update = poller.update /\ ~Linking!Crash
          BY <1>3, <2>2, <3>1, PollerSteps
          DEF Linking!Record, Linking!LockToken, Linking!LockUser, Linking!Decide,
              Linking!Confirm, Linking!PollerFails, Linking!Crash, Linking!PollerGoes,
              Linking!IdlePoller, PollerRow
    <3>3. QED
          BY <3>2, MessageKept DEF IInv, MessagesAreSent
  <2>3. QED
        BY <2>1, <2>2
<1>4. QED
      BY <1>2, <1>3 DEF MessagesAreSent

LEMMA StepUsers ==
    ASSUME IInv, [Linking!Next]_(Linking!vars)
    PROVE  UsersAreNamed'
<1>1. linkRequest \in [LinkRequests -> RequestRow] /\ token \in [Tokens -> TokenRow]
      BY DEF IInv, Linking!TypeOK, RequestRow, TokenRow
<1>2. ASSUME NEW t \in Tokens, token'[t].status # "none"
      PROVE  token'[t].user \in Users
  <2>1. CASE token[t].status # "none"
        BY <2>1, TokenKept DEF IInv, UsersAreNamed
  <2>2. CASE token[t].status = "none"
    <3>1. PICK q \in LinkRequests : Linking!InsertToken(q)
          BY <1>1, <1>2, <2>2, TokenSteps
          DEF Linking!Disconnect, Linking!Revoked, Linking!OpenTokens, Linking!Expire,
              Linking!Decide, TokenRow, IInv, TokenLocks
    <3>2. linkRequest[q].user \in Users /\ tokenLock[t] # q
          BY <2>2, <3>1 DEF Linking!InsertToken, IInv, UsersAreNamed, TokenLocks
    <3>3. token' # token
          BY <1>2, <2>2
    <3>4. PICK n \in Tokens :
              token' = [Linking!Revoked({x \in Tokens : tokenLock[x] = q}) EXCEPT
                            ![n] = [status |-> "open", user |-> linkRequest[q].user]]
          BY <3>1, <3>3 DEF Linking!InsertToken
    <3>5. n = t
          BY <1>2, <2>2, <3>2, <3>4 DEF Linking!Revoked
    <3>6. QED
          BY <3>2, <3>4, <3>5 DEF Linking!Revoked
  <2>3. QED
        BY <2>1, <2>2
<1>3. ASSUME NEW q \in LinkRequests, linkRequest'[q].pc \in {"connection", "tokens", "insert"}
      PROVE  linkRequest'[q].user \in Users
  <2>1. CASE linkRequest'[q] = linkRequest[q]
        BY <1>3, <2>1 DEF IInv, UsersAreNamed
  <2>2. CASE linkRequest'[q] # linkRequest[q]
    <3>1. ASSUME NEW p \in LinkRequests, NEW step, Linking!Go(p, step),
                 linkRequest[p].pc \in {"connection", "tokens", "insert"}
          PROVE  linkRequest'[q].user \in Users
          BY <1>1, <2>2, <3>1 DEF Linking!Go, RequestRow, IInv, UsersAreNamed
    <3>2. ASSUME NEW p \in LinkRequests, Linking!Ask(p)
          PROVE  linkRequest'[q].user \in Users
          BY <1>1, <2>2, <3>2 DEF Linking!Ask
    <3>3. QED
          BY <2>2, <3>1, <3>2, RequestSteps
          DEF Linking!LockConnection, Linking!Disconnect, Linking!Revoke,
              Linking!InsertToken, Linking!RequestFails
  <2>3. QED
        BY <2>1, <2>2
<1>4. QED
      BY <1>2, <1>3 DEF UsersAreNamed

-----------------------------------------------------------------------------
(***************************************************************************)
(* Who moves, and what becomes of the locks.                               *)
(***************************************************************************)

\* The steps at which a transaction ends.
RequestEnds(q) == Linking!Disconnect(q) \/ Linking!InsertToken(q) \/ Linking!RequestFails(q)
PollerEnds == Linking!Decide \/ Linking!PollerFails \/ Linking!Crash

\* A request moves by steps of its own.
LEMMA RequestMoves ==
    ASSUME IInv, [Linking!Next]_(Linking!vars), NEW q \in LinkRequests
    PROVE  \/ linkRequest'[q] = linkRequest[q]
           \/ Linking!Ask(q) \/ Linking!LockConnection(q) \/ Linking!Revoke(q)
           \/ RequestEnds(q)
<1>1. linkRequest \in [LinkRequests -> RequestRow]
      BY DEF IInv, Linking!TypeOK, RequestRow
<1>2. ASSUME NEW p \in LinkRequests, p # q, NEW step, Linking!Go(p, step)
      PROVE  linkRequest'[q] = linkRequest[q]
      BY <1>1, <1>2 DEF Linking!Go
<1>3. ASSUME NEW p \in LinkRequests, p # q, Linking!Ask(p)
      PROVE  linkRequest'[q] = linkRequest[q]
      BY <1>1, <1>3 DEF Linking!Ask
<1>4. ASSUME NEW p \in LinkRequests,
             Linking!Ask(p) \/ Linking!LockConnection(p) \/ Linking!Revoke(p) \/ RequestEnds(p)
      PROVE  \/ linkRequest'[q] = linkRequest[q]
             \/ Linking!Ask(q) \/ Linking!LockConnection(q) \/ Linking!Revoke(q)
             \/ RequestEnds(q)
  <2>1. CASE p = q
        BY <1>4, <2>1
  <2>2. CASE p # q
        BY <1>2, <1>3, <1>4, <2>2
        DEF Linking!LockConnection, Linking!Disconnect, Linking!Revoke,
            Linking!InsertToken, Linking!RequestFails, RequestEnds
  <2>3. QED
        BY <2>1, <2>2
<1>5. QED
      BY <1>4, RequestSteps DEF RequestEnds

LEMMA RequestEndsIt ==
    ASSUME IInv, NEW q \in LinkRequests, RequestEnds(q)
    PROVE  linkRequest'[q].pc = "done" /\ Linking!EndTransaction(q) /\ UNCHANGED <<poller, update>>
<1>1. linkRequest \in [LinkRequests -> RequestRow]
      BY DEF IInv, Linking!TypeOK, RequestRow
<1>2. QED
      BY <1>1 DEF RequestEnds, Linking!Disconnect, Linking!InsertToken,
         Linking!RequestFails, Linking!Go, RequestRow

LEMMA PollerEndsIt ==
    ASSUME IInv, PollerEnds
    PROVE  poller'.pc \in {"idle", "confirm"} /\ Linking!EndTransaction("poller")
<1>1. poller \in PollerRow
      BY DEF IInv, Linking!TypeOK, PollerRow
<1>2. QED
      BY <1>1 DEF PollerEnds, Linking!Decide, Linking!PollerFails, Linking!Crash,
         Linking!PollerGoes, Linking!IdlePoller, PollerRow

LEMMA TokenLockMoves ==
    ASSUME IInv, [Linking!Next]_(Linking!vars), NEW t \in Tokens
    PROVE  \/ tokenLock'[t] = tokenLock[t]
           \/ /\ tokenLock'[t] = Nobody
              /\ \/ tokenLock[t] = "poller" /\ PollerEnds
                 \/ tokenLock[t] \in LinkRequests /\ RequestEnds(tokenLock[t])
           \/ /\ tokenLock[t] = Nobody
              /\ \E q \in LinkRequests : /\ Linking!Revoke(q) /\ tokenLock'[t] = q
                                         /\ t \in Linking!OpenTokens(linkRequest[q].user)
           \/ /\ tokenLock[t] = Nobody
              /\ Linking!LockToken /\ t = Linking!Message.token /\ tokenLock'[t] = "poller"
<1>1. tokenLock \in [Tokens -> LinkRequests \union {"poller", Nobody}]
      BY DEF IInv, Linking!TypeOK
<1>2. ASSUME NEW q \in LinkRequests, RequestEnds(q)
      PROVE  tokenLock'[t] = IF tokenLock[t] = q THEN Nobody ELSE tokenLock[t]
      BY <1>1, <1>2, RequestEndsIt, EndedLocks DEF IInv
<1>3. ASSUME PollerEnds
      PROVE  tokenLock'[t] = IF tokenLock[t] = "poller" THEN Nobody ELSE tokenLock[t]
      BY <1>1, <1>3, PollerEndsIt, EndedLocks DEF IInv
<1>4. ASSUME NEW q \in LinkRequests, Linking!Revoke(q)
      PROVE  \/ tokenLock'[t] = tokenLock[t]
             \/ /\ tokenLock[t] = Nobody /\ tokenLock'[t] = q
                /\ t \in Linking!OpenTokens(linkRequest[q].user)
      BY <1>1, <1>4 DEF Linking!Revoke, Linking!TokensFree
<1>5. ASSUME Linking!LockToken
      PROVE  \/ tokenLock'[t] = tokenLock[t]
             \/ tokenLock[t] = Nobody /\ t = Linking!Message.token /\ tokenLock'[t] = "poller"
      BY <1>1, <1>5 DEF Linking!LockToken, Linking!TokenLocked
<1>6. \/ \E q \in LinkRequests : Linking!Revoke(q) \/ RequestEnds(q)
      \/ Linking!LockToken \/ PollerEnds
      \/ UNCHANGED tokenLock
      BY Steps
      DEF AnyStep, Linking!Ask, Linking!LockConnection, Linking!SendStart,
          Linking!Acknowledge, Linking!Fetch, Linking!Expire, Linking!Degrade,
          Linking!Record, Linking!LockUser, Linking!Confirm, Linking!vars, RequestEnds,
          PollerEnds
<1>7. QED
      BY <1>2, <1>3, <1>4, <1>5, <1>6

LEMMA RowLockMoves ==
    ASSUME IInv, [Linking!Next]_(Linking!vars), NEW u \in Users
    PROVE  \/ connectionLock'[u] = connectionLock[u]
           \/ /\ connectionLock'[u] = Nobody
              /\ \/ connectionLock[u] = "poller" /\ PollerEnds
                 \/ connectionLock[u] \in LinkRequests /\ RequestEnds(connectionLock[u])
           \/ /\ connectionLock[u] = Nobody /\ connection[u].status # "none"
              /\ \E q \in LinkRequests : /\ Linking!LockConnection(q) /\ connectionLock'[u] = q
                                         /\ u = linkRequest[q].user /\ Linking!Go(q, "tokens")
           \/ /\ connectionLock[u] = Nobody /\ connection[u].status # "none"
              /\ Linking!LockUser /\ u = Linking!Owner /\ connectionLock'[u] = "poller"
<1>1. connectionLock \in [Users -> LinkRequests \union {"poller", Nobody}]
      BY DEF IInv, Linking!TypeOK
<1>2. ASSUME NEW q \in LinkRequests, RequestEnds(q)
      PROVE  connectionLock'[u] = IF connectionLock[u] = q THEN Nobody ELSE connectionLock[u]
      BY <1>1, <1>2, RequestEndsIt, EndedLocks DEF IInv
<1>3. ASSUME PollerEnds
      PROVE  connectionLock'[u] = IF connectionLock[u] = "poller" THEN Nobody ELSE connectionLock[u]
      BY <1>1, <1>3, PollerEndsIt, EndedLocks DEF IInv
<1>4. ASSUME NEW by, NEW v, Linking!LocksRow(by, v)
      PROVE  \/ connectionLock'[u] = connectionLock[u]
             \/ /\ connectionLock[u] = Nobody /\ u = v /\ connectionLock'[u] = by
                /\ connection[u].status # "none"
      BY <1>1, <1>4 DEF Linking!LocksRow
<1>5. ASSUME NEW q \in LinkRequests, Linking!LockConnection(q)
      PROVE  \/ connectionLock'[u] = connectionLock[u]
             \/ /\ connectionLock[u] = Nobody /\ connectionLock'[u] = q
                /\ connection[u].status # "none"
                /\ u = linkRequest[q].user /\ Linking!Go(q, "tokens")
      BY <1>4, <1>5 DEF Linking!LockConnection
<1>6. ASSUME Linking!LockUser
      PROVE  \/ connectionLock'[u] = connectionLock[u]
             \/ /\ connectionLock[u] = Nobody /\ connection[u].status # "none"
                /\ u = Linking!Owner /\ connectionLock'[u] = "poller"
      BY <1>4, <1>6 DEF Linking!LockUser
<1>7. \/ \E q \in LinkRequests : Linking!LockConnection(q) \/ RequestEnds(q)
      \/ Linking!LockUser \/ PollerEnds
      \/ UNCHANGED connectionLock
      BY Steps
      DEF AnyStep, Linking!Ask, Linking!Revoke, Linking!SendStart, Linking!Acknowledge,
          Linking!Fetch, Linking!Expire, Linking!Degrade, Linking!Record,
          Linking!LockToken, Linking!Confirm, Linking!vars, RequestEnds, PollerEnds
<1>8. QED
      BY <1>2, <1>3, <1>5, <1>6, <1>7

\* A token that stays locked stays as it is, but for the clock.
LEMMA HeldTokenKept ==
    ASSUME IInv, [Linking!Next]_(Linking!vars), NEW t \in Tokens,
           tokenLock[t] # Nobody, tokenLock'[t] = tokenLock[t]
    PROVE  \/ token'[t] = token[t]
           \/ tokenLock[t] # "poller" /\ token'[t].status = "expired"
<1>1. /\ token \in [Tokens -> TokenRow]
      /\ tokenLock \in [Tokens -> LinkRequests \union {"poller", Nobody}]
      BY DEF IInv, Linking!TypeOK, TokenRow
<1>2. token[t].status \in {"open", "expired"}
      BY <1>1 DEF IInv, TokenLocks
<1>3. ASSUME NEW q \in LinkRequests, Linking!Disconnect(q) PROVE token'[t] = token[t]
  <2>1. tokenLock[t] # q
        BY <1>3 DEF Linking!Disconnect, IInv, TokenLocks
  <2>2. t \notin Linking!OpenTokens(linkRequest[q].user)
        BY <1>3, <2>1 DEF Linking!Disconnect, Linking!TokensFree
  <2>3. QED
        BY <1>3, <2>2 DEF Linking!Disconnect, Linking!Revoked
<1>4. ASSUME NEW q \in LinkRequests, Linking!InsertToken(q) PROVE token'[t] = token[t]
  <2>1. tokenLock[t] # q
    <3>1. tokenLock'[t] = IF tokenLock[t] = q THEN Nobody ELSE tokenLock[t]
          BY <1>1, <1>4, EndedLocks DEF Linking!InsertToken, IInv
    <3>2. QED
          BY <3>1
  <2>2. CASE UNCHANGED token
        BY <2>2
  <2>3. ASSUME NEW n \in Tokens, NEW put, token[n].status = "none",
               token' = [Linking!Revoked({x \in Tokens : tokenLock[x] = q}) EXCEPT ![n] = put]
        PROVE  token'[t] = token[t]
        BY <1>2, <2>1, <2>3 DEF Linking!Revoked
  <2>4. QED
        BY <1>4, <2>2, <2>3 DEF Linking!InsertToken
<1>5. ASSUME NEW n \in Tokens, Linking!Expire(n)
      PROVE  \/ token'[t] = token[t]
             \/ tokenLock[t] # "poller" /\ token'[t].status = "expired"
      BY <1>1, <1>5 DEF Linking!Expire, TokenRow, IInv, TokenLocks
<1>6. ASSUME Linking!Decide PROVE token'[t] = token[t]
  <2>1. tokenLock'[t] = IF tokenLock[t] = "poller" THEN Nobody ELSE tokenLock[t]
        BY <1>1, <1>6, EndedLocks DEF Linking!Decide, IInv
  <2>2. t # Linking!Message.token
        BY <1>6, <2>1 DEF Linking!Decide, IInv, TokenLocks
  <2>3. QED
        BY <1>1, <1>6, <2>2 DEF Linking!Decide
<1>7. QED
      BY <1>3, <1>4, <1>5, <1>6, TokenSteps

-----------------------------------------------------------------------------
(***************************************************************************)
(* The invariant is inductive.                                             *)
(***************************************************************************)

\* The poller is in the middle of its transaction since a step that locked the
\* token, or was there before.
LEMMA PollerAdvances ==
    ASSUME IInv, [Linking!Next]_(Linking!vars)
    PROVE  /\ poller'.pc = "token" => \/ UNCHANGED <<poller, processed>>
                                      \/ Linking!Record /\ poller.update \notin processed
           /\ poller'.pc = "user" => \/ UNCHANGED <<poller, processed>>
                                     \/ /\ Linking!LockToken /\ UNCHANGED processed
                                        /\ token[Linking!Message.token].status = "open"
                                        /\ tokenLock' = Linking!TokenLocked(Linking!Message.token)
           /\ poller'.pc = "decide" => UNCHANGED <<poller, processed>> \/ Linking!LockUser
           /\ poller'.pc = "confirm" => UNCHANGED <<poller, processed, confirmed>> \/ Linking!Decide
<1>1. poller \in PollerRow
      BY DEF IInv, Linking!TypeOK, PollerRow
<1>2. \/ \E m \in Updates : Linking!Fetch(m)
      \/ Linking!Record \/ Linking!LockToken \/ Linking!LockUser \/ Linking!Decide
      \/ Linking!Confirm \/ Linking!PollerFails \/ Linking!Crash
      \/ UNCHANGED <<poller, processed, confirmed>>
      BY Steps
      DEF AnyStep, Linking!Ask, Linking!LockConnection, Linking!Disconnect,
          Linking!Revoke, Linking!InsertToken, Linking!RequestFails, Linking!SendStart,
          Linking!Acknowledge, Linking!Expire, Linking!Degrade, Linking!vars
<1>3. QED
      BY <1>1, <1>2
      DEF Linking!Fetch, Linking!Record, Linking!LockToken, Linking!LockUser,
          Linking!Decide, Linking!Confirm, Linking!PollerFails, Linking!Crash,
          Linking!PollerGoes, Linking!IdlePoller, PollerRow

LEMMA StepHandling ==
    ASSUME IInv, [Linking!Next]_(Linking!vars)
    PROVE  Handling'
<1>1. ASSUME poller'.pc \in {"token", "user", "decide"}
      PROVE  poller'.update \notin processed'
  <2>1. poller'.update = poller.update
        BY <1>1, PollerKeeps
  <2>2. QED
        BY <1>1, <2>1, PollerAdvances DEF IInv, Handling, Linking!Record,
           Linking!LockToken, Linking!LockUser
<1>2. ASSUME poller'.pc = "confirm"
      PROVE  poller'.update \in processed' /\ confirmed'[poller'.update] = 0
  <2>1. poller'.update = poller.update /\ poller.update \in Updates
        BY <1>2, PollerKeeps
  <2>2. CASE Linking!Decide
    <3>1. confirmed[poller.update] # 1
          BY <2>1, <2>2 DEF Linking!Decide, IInv, Handling, Linking!ConfirmedOnce
    <3>2. confirmed[poller.update] \in Nat /\ confirmed[poller.update] <= 1
          BY <2>1 DEF IInv, Linking!TypeOK, Linking!ConfirmedOnce
    <3>3. confirmed[poller.update] = 0
          BY <3>1, <3>2
    <3>4. QED
          BY <2>1, <2>2, <3>3 DEF Linking!Decide
  <2>3. CASE UNCHANGED <<poller, processed, confirmed>>
        BY <1>2, <2>3 DEF IInv, Handling
  <2>4. QED
        BY <1>2, <2>2, <2>3, PollerAdvances
<1>3. QED
      BY <1>1, <1>2 DEF Handling

LEMMA StepConfirmedOnce ==
    ASSUME IInv, [Linking!Next]_(Linking!vars)
    PROVE  Linking!ConfirmedOnce'
<1>1. confirmed \in [Updates -> Nat]
      BY DEF IInv, Linking!TypeOK
<1>2. processed \subseteq processed'
      BY Steps
      DEF AnyStep, Linking!Ask, Linking!LockConnection, Linking!Disconnect,
          Linking!Revoke, Linking!InsertToken, Linking!RequestFails, Linking!SendStart,
          Linking!Acknowledge, Linking!Fetch, Linking!Expire, Linking!Degrade,
          Linking!Record, Linking!LockToken, Linking!LockUser, Linking!Decide,
          Linking!Confirm, Linking!PollerFails, Linking!Crash, Linking!vars
<1>3. Linking!Confirm \/ UNCHANGED confirmed
      BY Steps
      DEF AnyStep, Linking!Ask, Linking!LockConnection, Linking!Disconnect,
          Linking!Revoke, Linking!InsertToken, Linking!RequestFails, Linking!SendStart,
          Linking!Acknowledge, Linking!Fetch, Linking!Expire, Linking!Degrade,
          Linking!Record, Linking!LockToken, Linking!LockUser, Linking!Decide,
          Linking!PollerFails, Linking!Crash, Linking!vars
<1>4. ASSUME Linking!Confirm, NEW m \in Updates
      PROVE  confirmed'[m] <= 1 /\ (confirmed'[m] = 1 => m \in processed)
  <2>1. poller.update \in processed /\ confirmed[poller.update] = 0
        BY <1>4 DEF Linking!Confirm, IInv, Handling
  <2>2. confirmed'[m] = IF m = poller.update THEN 1 ELSE confirmed[m]
        BY <1>1, <1>4, <2>1 DEF Linking!Confirm
  <2>3. QED
        BY <2>1, <2>2 DEF IInv, Linking!ConfirmedOnce
<1>5. QED
      BY <1>2, <1>3, <1>4 DEF IInv, Linking!ConfirmedOnce

LEMMA StepOneOwner ==
    ASSUME IInv, [Linking!Next]_(Linking!vars)
    PROVE  Linking!OneOwner'
<1>1. connection \in [Users -> ConnectionRow]
      BY DEF IInv, Linking!TypeOK, ConnectionRow
<1>2. ASSUME \A u \in Users : connection'[u].dest = connection[u].dest
      PROVE  Linking!OneOwner'
      BY <1>2 DEF IInv, Linking!OneOwner
<1>3. ASSUME NEW q \in LinkRequests, Linking!Disconnect(q)
      PROVE  \A u \in Users : connection'[u].dest = connection[u].dest
      BY <1>1, <1>3 DEF Linking!Disconnect, ConnectionRow
<1>4. ASSUME NEW u \in Users, Linking!Degrade(u)
      PROVE  \A v \in Users : connection'[v].dest = connection[v].dest
      BY <1>1, <1>4 DEF Linking!Degrade, ConnectionRow
<1>5. ASSUME Linking!Decide, Linking!Links
      PROVE  Linking!OneOwner'
  <2>1. \A u \in Users \ {Linking!Owner} : connection[u].dest # Linking!Message.dest
        BY <1>5 DEF Linking!Links, Linking!Others
  <2>2. \A u \in Users : connection'[u].dest = IF u = Linking!Owner THEN Linking!Message.dest
                                             ELSE connection[u].dest
        BY <1>1, <1>5 DEF Linking!Decide
  <2>3. QED
        BY <2>1, <2>2 DEF IInv, Linking!OneOwner
<1>6. QED
      BY <1>2, <1>3, <1>4, <1>5, ConnectionSteps DEF Linking!Decide

LEMMA StepTokenLocks ==
    ASSUME IInv, [Linking!Next]_(Linking!vars)
    PROVE  TokenLocks'
<1>1. /\ tokenLock \in [Tokens -> LinkRequests \union {"poller", Nobody}]
      /\ poller \in PollerRow /\ linkRequest \in [LinkRequests -> RequestRow]
      /\ token \in [Tokens -> TokenRow]
      /\ Nobody \notin LinkRequests /\ Nobody # "poller" /\ "poller" \notin LinkRequests
      BY DEF IInv, Linking!TypeOK, Linking!LinkingAssumption, PollerRow, RequestRow, TokenRow
<1>2. ASSUME NEW t \in Tokens, tokenLock'[t] = "poller"
      PROVE  poller'.pc \in {"user", "decide"} /\ t = Linking!Message'.token
  <2>1. CASE tokenLock[t] = "poller"
    <3>1. poller.pc \in {"user", "decide"} /\ t = Linking!Message.token
          BY <2>1 DEF IInv, TokenLocks
    <3>2. ~PollerEnds
      <4>1. SUFFICES ASSUME PollerEnds PROVE FALSE
            OBVIOUS
      <4>2. tokenLock'[t] = Nobody
            BY <1>1, <2>1, <4>1, PollerEndsIt, EndedLocks DEF IInv
      <4>3. QED
            BY <1>1, <1>2, <4>2
    <3>3. poller'.pc \in {"user", "decide"}
          BY <1>1, <3>1, <3>2, PollerSteps
          DEF Linking!Fetch, Linking!Record, Linking!LockToken, Linking!LockUser,
              Linking!Confirm, PollerEnds, Linking!PollerGoes, PollerRow
    <3>4. QED
          BY <3>1, <3>3, PollerKeeps
  <2>2. CASE tokenLock[t] # "poller"
    <3>1. Linking!LockToken /\ t = Linking!Message.token
          BY <1>1, <1>2, <2>2, TokenLockMoves
    <3>2. tokenLock' # tokenLock
          BY <1>2, <2>2
    <3>3. poller'.pc = "user"
          BY <1>1, <3>1, <3>2 DEF Linking!LockToken, Linking!PollerGoes, PollerRow
    <3>4. QED
          BY <3>1, <3>3, PollerKeeps
  <2>3. QED
        BY <2>1, <2>2
<1>3. ASSUME NEW t \in Tokens, NEW q \in LinkRequests, tokenLock'[t] = q
      PROVE  linkRequest'[q].pc = "insert" /\ token'[t].status \in {"open", "expired"}
  <2>1. CASE tokenLock[t] = q
    <3>1. linkRequest[q].pc = "insert" /\ token[t].status \in {"open", "expired"}
          BY <2>1 DEF IInv, TokenLocks
    <3>2. ~RequestEnds(q)
      <4>1. SUFFICES ASSUME RequestEnds(q) PROVE FALSE
            OBVIOUS
      <4>2. tokenLock'[t] = Nobody
            BY <1>1, <2>1, <4>1, RequestEndsIt, EndedLocks DEF IInv
      <4>3. QED
            BY <1>1, <1>3, <4>2
    <3>3. linkRequest'[q] = linkRequest[q]
          BY <3>1, <3>2, RequestMoves DEF Linking!Ask, Linking!LockConnection, Linking!Revoke
    <3>4. QED
          BY <1>1, <1>3, <2>1, <3>1, <3>3, HeldTokenKept
  <2>2. CASE tokenLock[t] # q
    <3>1. Linking!Revoke(q) /\ t \in Linking!OpenTokens(linkRequest[q].user)
          BY <1>1, <1>3, <2>2, TokenLockMoves
    <3>2. QED
          BY <1>1, <3>1 DEF Linking!Revoke, Linking!OpenTokens, Linking!Go, RequestRow
  <2>3. QED
        BY <2>1, <2>2
<1>4. ASSUME poller'.pc \in {"user", "decide"}
      PROVE  /\ tokenLock'[Linking!Message'.token] = "poller"
             /\ token'[Linking!Message'.token].status = "open"
  <2>1. Linking!Message'.token = Linking!Message.token /\ Linking!Message.token \in Tokens
        BY <1>4, PollerKeeps DEF IInv, MessagesAreSent, Linking!Message
  <2>2. CASE Linking!LockToken /\ poller'.pc = "user" /\ ~UNCHANGED poller
        BY <1>1, <2>1, <2>2, PollerAdvances DEF Linking!LockToken, Linking!TokenLocked
  <2>3. CASE poller.pc \in {"user", "decide"}
    <3>1. /\ tokenLock[Linking!Message.token] = "poller"
          /\ token[Linking!Message.token].status = "open"
          BY <2>3 DEF IInv, TokenLocks
    <3>2. ~PollerEnds
          BY <1>4, PollerEndsIt
    <3>3. tokenLock'[Linking!Message.token] = "poller"
          BY <1>1, <2>1, <3>1, <3>2, TokenLockMoves
    <3>4. QED
          BY <1>1, <2>1, <3>1, <3>3, HeldTokenKept
  <2>4. QED
        BY <1>4, <2>2, <2>3, PollerAdvances DEF Linking!LockUser
<1>5. QED
      BY <1>2, <1>3, <1>4 DEF TokenLocks

LEMMA StepRowLocks ==
    ASSUME IInv, [Linking!Next]_(Linking!vars)
    PROVE  RowLocks'
<1>1. /\ connectionLock \in [Users -> LinkRequests \union {"poller", Nobody}]
      /\ poller \in PollerRow /\ linkRequest \in [LinkRequests -> RequestRow]
      /\ Nobody \notin LinkRequests /\ Nobody # "poller" /\ "poller" \notin LinkRequests
      BY DEF IInv, Linking!TypeOK, Linking!LinkingAssumption, PollerRow, RequestRow
<1>2. ASSUME NEW u \in Users, connectionLock'[u] = "poller"
      PROVE  poller'.pc = "decide" /\ u = Linking!Owner'
  <2>1. poller.pc \in {"user", "decide"} /\ u = Linking!Owner /\ poller'.pc = "decide"
    <3>1. CASE connectionLock[u] = "poller"
      <4>1. poller.pc = "decide" /\ u = Linking!Owner
            BY <3>1 DEF IInv, RowLocks
      <4>2. ~PollerEnds
        <5>1. SUFFICES ASSUME PollerEnds PROVE FALSE
              OBVIOUS
        <5>2. connectionLock'[u] = Nobody
              BY <1>1, <3>1, <5>1, PollerEndsIt, EndedLocks DEF IInv
        <5>3. QED
              BY <1>1, <1>2, <5>2
      <4>3. poller'.pc = "decide"
            BY <1>1, <4>1, <4>2, PollerSteps
            DEF Linking!Fetch, Linking!Record, Linking!LockToken, Linking!LockUser,
                Linking!Confirm, PollerEnds
      <4>4. QED
            BY <4>1, <4>3
    <3>2. CASE connectionLock[u] # "poller"
      <4>1. Linking!LockUser /\ u = Linking!Owner
            BY <1>1, <1>2, <3>2, RowLockMoves
      <4>2. QED
            BY <1>1, <4>1 DEF Linking!LockUser, Linking!PollerGoes, PollerRow
    <3>3. QED
          BY <3>1, <3>2
  <2>2. /\ Linking!Message'.token = Linking!Message.token /\ Linking!Message.token \in Tokens
        /\ token[Linking!Message.token].status # "none"
        BY <2>1, PollerKeeps DEF IInv, MessagesAreSent, Linking!Message
  <2>3. Linking!Owner' = Linking!Owner
        BY <2>2, TokenKept DEF Linking!Owner
  <2>4. QED
        BY <2>1, <2>3
<1>3. ASSUME NEW u \in Users, NEW q \in LinkRequests, connectionLock'[u] = q
      PROVE  linkRequest'[q].pc \in {"tokens", "insert"} /\ linkRequest'[q].user = u
  <2>1. CASE connectionLock[u] = q
    <3>1. linkRequest[q].pc \in {"tokens", "insert"} /\ linkRequest[q].user = u
          BY <2>1 DEF IInv, RowLocks
    <3>2. ~RequestEnds(q)
      <4>1. SUFFICES ASSUME RequestEnds(q) PROVE FALSE
            OBVIOUS
      <4>2. connectionLock'[u] = Nobody
            BY <1>1, <2>1, <4>1, RequestEndsIt, EndedLocks DEF IInv
      <4>3. QED
            BY <1>1, <1>3, <4>2
    <3>3. linkRequest'[q] = linkRequest[q] \/ Linking!Revoke(q)
          BY <3>1, <3>2, RequestMoves DEF Linking!Ask, Linking!LockConnection
    <3>4. QED
          BY <1>1, <3>1, <3>3 DEF Linking!Revoke, Linking!Go, RequestRow
  <2>2. CASE connectionLock[u] # q
    <3>1. u = linkRequest[q].user /\ Linking!Go(q, "tokens")
          BY <1>1, <1>3, <2>2, RowLockMoves
    <3>2. QED
          BY <1>1, <3>1 DEF Linking!Go, RequestRow
  <2>3. QED
        BY <2>1, <2>2
<1>4. QED
      BY <1>2, <1>3 DEF RowLocks

LEMMA InitInv == Linking!LinkingAssumption /\ Linking!Init => IInv
<1>1. SUFFICES ASSUME Linking!LinkingAssumption, Linking!Init PROVE IInv
      OBVIOUS
<1>2. Linking!TypeOK
      BY <1>1, InitTypes
<1>3. MessagesAreSent /\ UsersAreNamed /\ Linking!ConfirmedOnce /\ Linking!OneOwner
      BY <1>1
      DEF Linking!Init, MessagesAreSent, UsersAreNamed, Linking!ConfirmedOnce,
          Linking!OneOwner, Linking!Unsent, Linking!NoToken, Linking!NoConnection,
          Linking!NewRequest, Linking!IdlePoller
<1>4. TokenLocks /\ RowLocks /\ Handling
      BY <1>1 DEF Linking!LinkingAssumption, Linking!Init, TokenLocks, RowLocks, Handling,
         Linking!IdlePoller
<1>5. QED
      BY <1>1, <1>2, <1>3, <1>4 DEF IInv

LEMMA StepInv == IInv /\ [Linking!Next]_(Linking!vars) => IInv'
<1>1. SUFFICES ASSUME IInv, [Linking!Next]_(Linking!vars) PROVE IInv'
      OBVIOUS
<1>2. Linking!LinkingAssumption'
      BY <1>1 DEF IInv, Linking!LinkingAssumption
<1>3. QED
      BY <1>1, <1>2, StepTypes, StepMessages, StepUsers, StepTokenLocks, StepRowLocks,
         StepHandling, StepConfirmedOnce, StepOneOwner
      DEF IInv

LEMMA Inductive == Linking!LinkingAssumption /\ Linking!Spec => []IInv
BY InitInv, StepInv, PTL DEF Linking!Spec

-----------------------------------------------------------------------------
(***************************************************************************)
(* The deadlock.                                                           *)
(***************************************************************************)

\* A request that has its tokens waits for nobody, so whoever holds a token and
\* waits is the poller, past LockToken.
LEMMA TokenHolderWaits ==
    ASSUME IInv, NEW t \in Tokens, NEW x \in LinkRequests \union {"poller"},
           tokenLock[t] = x, Linking!Blockers(x) # {}
    PROVE  x = "poller" /\ poller.pc \in {"user", "decide"} /\ t = Linking!Message.token
<1>1. CASE x = "poller"
      BY <1>1 DEF IInv, TokenLocks
<1>2. CASE x \in LinkRequests
      BY <1>2 DEF Linking!Blockers, IInv, TokenLocks, Linking!LinkingAssumption
<1>3. QED
      BY <1>1, <1>2

\* Whoever holds the row of a connection and waits is the poller with the row of
\* the token's owner, or a request that waits for a token of the poller.
LEMMA RowHolderWaits ==
    ASSUME IInv, NEW u \in Users, NEW x \in LinkRequests \union {"poller"},
           connectionLock[u] = x, Linking!Blockers(x) # {}
    PROVE  \/ x = "poller" /\ poller.pc = "decide" /\ u = Linking!Owner
           \/ x \in LinkRequests /\ linkRequest[x].pc = "tokens" /\ linkRequest[x].user = u
<1>1. CASE x = "poller"
      BY <1>1 DEF IInv, RowLocks
<1>2. CASE x \in LinkRequests
      BY <1>2 DEF Linking!Blockers, IInv, RowLocks, Linking!LinkingAssumption
<1>3. QED
      BY <1>1, <1>2

LEMMA DeadlocksAreOfOneKind == IInv => Linking!OneDeadlockOnly
<1>1. SUFFICES ASSUME IInv, NEW xs \in SUBSET (LinkRequests \union {"poller"}), xs # {},
                      \A x \in xs : Linking!Blockers(x) \cap xs # {}
               PROVE  \E q \in xs : Linking!Deadlock(q)
      BY DEF Linking!OneDeadlockOnly
<1>2. /\ poller \in PollerRow /\ linkRequest \in [LinkRequests -> RequestRow]
      /\ "poller" \notin LinkRequests
      BY <1>1 DEF IInv, Linking!TypeOK, Linking!LinkingAssumption, PollerRow, RequestRow
\* a request of the set that waits for tokens waits for the poller's
<1>3. ASSUME NEW q \in xs, q \in LinkRequests, linkRequest[q].pc = "tokens"
      PROVE  /\ "poller" \in xs /\ poller.pc \in {"user", "decide"}
             /\ linkRequest[q].user = Linking!Owner /\ tokenLock[Linking!Message.token] = "poller"
  <2>1. PICK y \in xs : y \in Linking!Blockers(q)
        BY <1>1
  <2>2. PICK t \in Linking!OpenTokens(linkRequest[q].user) : tokenLock[t] = y
        BY <1>2, <1>3, <2>1 DEF Linking!Blockers
  <2>3. t \in Tokens /\ token[t].user = linkRequest[q].user
        BY <2>2 DEF Linking!OpenTokens
  <2>4. y = "poller" /\ poller.pc \in {"user", "decide"} /\ t = Linking!Message.token
        BY <1>1, <2>1, <2>2, <2>3, TokenHolderWaits
  <2>5. QED
        BY <2>1, <2>2, <2>3, <2>4 DEF Linking!Owner
\* so does one that waits for a connection, through its holder
<1>4. "poller" \in xs
  <2>1. SUFFICES ASSUME NEW q \in xs, q \in LinkRequests PROVE "poller" \in xs
        BY <1>1
  <2>2. PICK y \in xs : y \in Linking!Blockers(q)
        BY <1>1
  <2>3. CASE linkRequest[q].pc = "tokens"
        BY <1>3, <2>1, <2>3
  <2>4. CASE linkRequest[q].pc = "connection"
    <3>1. linkRequest[q].user \in Users /\ y = connectionLock[linkRequest[q].user]
          BY <1>1, <1>2, <2>1, <2>2, <2>4 DEF Linking!Blockers, IInv, UsersAreNamed
    <3>2. \/ y = "poller"
          \/ y \in LinkRequests /\ linkRequest[y].pc = "tokens"
          BY <1>1, <3>1, RowHolderWaits
    <3>3. QED
          BY <1>3, <3>2
  <2>5. QED
        BY <1>2, <2>1, <2>2, <2>3, <2>4 DEF Linking!Blockers
<1>5. PICK y \in xs : y \in Linking!Blockers("poller")
      BY <1>1, <1>4
<1>6. y # "poller"
      BY <1>5 DEF Linking!Blockers
<1>7. poller.pc \in {"token", "user", "decide"}
      BY <1>2, <1>5 DEF Linking!Blockers
<1>8. /\ Linking!Message.token \in Tokens /\ Linking!Owner \in Users
      BY <1>1, <1>7 DEF IInv, MessagesAreSent, UsersAreNamed, Linking!Message, Linking!Owner
<1>9. CASE poller.pc = "token"
  <2>1. tokenLock[Linking!Message.token] = y
        BY <1>5, <1>9 DEF Linking!Blockers
  <2>2. QED
        BY <1>1, <1>6, <1>8, <2>1, TokenHolderWaits
<1>10. CASE poller.pc = "user"
  <2>1. connectionLock[Linking!Owner] = y
        BY <1>5, <1>10 DEF Linking!Blockers
  <2>2. y \in LinkRequests /\ linkRequest[y].pc = "tokens"
        BY <1>1, <1>6, <1>8, <2>1, RowHolderWaits
  <2>3. linkRequest[y].user = Linking!Owner /\ tokenLock[Linking!Message.token] = "poller"
        BY <1>3, <2>2
  <2>4. QED
        BY <1>10, <2>1, <2>2, <2>3 DEF Linking!Deadlock
<1>11. CASE poller.pc = "decide"
  <2>1. PICK u \in Linking!Others : connectionLock[u] = y
        BY <1>5, <1>11 DEF Linking!Blockers
  <2>2. u \in Users /\ u # Linking!Owner
        BY <2>1 DEF Linking!Others
  <2>3. y \in LinkRequests /\ linkRequest[y].pc = "tokens" /\ linkRequest[y].user = u
        BY <1>1, <1>6, <2>1, <2>2, RowHolderWaits
  <2>4. QED
        BY <1>3, <2>2, <2>3
<1>12. QED
       BY <1>7, <1>9, <1>10, <1>11

-----------------------------------------------------------------------------
(***************************************************************************)
(* The theorems.                                                           *)
(***************************************************************************)

\* Whatever the users, tokens, messages and requests, with crashes, errors and
\* messages delivered again (telegram/{linking,poller,service}.py): a message is
\* confirmed once and after its commit, a destination has one owner, and the poller
\* and the requests block each other in the one way that the database breaks.
THEOREM LinksAreSound == Linking!Spec => []Linking!LinkingIsSound
<1>1. IInv => Linking!LinkingIsSound
      BY DeadlocksAreOfOneKind DEF IInv, Linking!LinkingIsSound
<1>2. QED
      BY <1>1, LinksAssumption, Inductive, PTL

\* Who becomes connected does so in Decide, for a token that is open then.
LEMMA ConnectingConsumes ==
    ASSUME IInv, [Linking!Next]_(Linking!vars), NEW u \in Users,
           connection'[u].status = "connected", connection[u].status # "connected"
    PROVE  /\ Linking!Decide /\ u = Linking!Owner /\ Linking!Message.token \in Tokens
           /\ token[Linking!Message.token] = [status |-> "open", user |-> u]
           /\ token'[Linking!Message.token].status = "consumed"
<1>1. connection \in [Users -> ConnectionRow] /\ token \in [Tokens -> TokenRow]
      BY DEF IInv, Linking!TypeOK, ConnectionRow, TokenRow
<1>2. ASSUME NEW q \in LinkRequests, Linking!Disconnect(q) PROVE FALSE
      BY <1>1, <1>2 DEF Linking!Disconnect, ConnectionRow
<1>3. ASSUME NEW v \in Users, Linking!Degrade(v) PROVE FALSE
      BY <1>1, <1>3 DEF Linking!Degrade, ConnectionRow
<1>4. Linking!Decide
      BY <1>2, <1>3, ConnectionSteps
<1>5. u = Linking!Owner
      BY <1>1, <1>4 DEF Linking!Decide
<1>6. Linking!Message.token \in Tokens /\ token[Linking!Message.token].status = "open"
      BY <1>4 DEF Linking!Decide, IInv, MessagesAreSent, TokenLocks, Linking!Message
<1>7. token[Linking!Message.token] = [status |-> "open", user |-> u]
      BY <1>1, <1>5, <1>6 DEF Linking!Owner, TokenRow
<1>8. token'[Linking!Message.token].status = "consumed"
      BY <1>1, <1>4, <1>6 DEF Linking!Decide, TokenRow
<1>9. QED
      BY <1>4, <1>5, <1>6, <1>7, <1>8

\* Nothing changes a token that was consumed or revoked.
LEMMA EndedTokenKept ==
    ASSUME IInv, [Linking!Next]_(Linking!vars), NEW t \in Tokens,
           token[t].status \in {"consumed", "revoked"}
    PROVE  token'[t] = token[t]
<1>1. token \in [Tokens -> TokenRow]
      BY DEF IInv, Linking!TypeOK, TokenRow
<1>2. ASSUME NEW q \in LinkRequests, Linking!Disconnect(q) PROVE token'[t] = token[t]
      BY <1>2 DEF Linking!Disconnect, Linking!Revoked, Linking!OpenTokens
<1>3. ASSUME NEW q \in LinkRequests, Linking!InsertToken(q) PROVE token'[t] = token[t]
  <2>1. tokenLock[t] # q
        BY DEF IInv, TokenLocks
  <2>2. ASSUME NEW n \in Tokens, NEW put, token[n].status = "none",
               token' = [Linking!Revoked({x \in Tokens : tokenLock[x] = q}) EXCEPT ![n] = put]
        PROVE  token'[t] = token[t]
        BY <2>1, <2>2 DEF Linking!Revoked
  <2>3. QED
        BY <1>3, <2>2 DEF Linking!InsertToken
<1>4. ASSUME NEW n \in Tokens, Linking!Expire(n) PROVE token'[t] = token[t]
      BY <1>1, <1>4 DEF Linking!Expire
<1>5. ASSUME Linking!Decide PROVE token'[t] = token[t]
  <2>1. t # Linking!Message.token
        BY <1>5 DEF Linking!Decide, IInv, TokenLocks
  <2>2. QED
        BY <1>1, <1>5, <2>1 DEF Linking!Decide
<1>6. QED
      BY <1>2, <1>3, <1>4, <1>5, TokenSteps

\* A connection comes to life only with the consumption of a token of its user that
\* is open at that very commit, between requests that revoke tokens and a clock that
\* expires them; and the outcome of a token is final (linking.py, service.py).
THEOREM LinksNeedAnOpenToken == Linking!Spec => LinkedByOpenToken
<1>1. ASSUME IInv, [Linking!Next]_(Linking!vars)
      PROVE  [/\ \A u \in Users :
                    connection'[u].status = "connected" /\ connection[u].status # "connected" =>
                      \E t \in Tokens : /\ token[t] = [status |-> "open", user |-> u]
                                        /\ token'[t].status = "consumed"
              /\ \A t \in Tokens :
                    token[t].status \in {"consumed", "revoked"} =>
                        token'[t] = token[t]]_(Linking!vars)
      BY <1>1, ConnectingConsumes, EndedTokenKept
<1>2. QED
      BY <1>1, LinksAssumption, Inductive, PTL
      DEF Linking!Spec, LinkedByOpenToken, Linking!LinkedByOpenToken

-----------------------------------------------------------------------------
(***************************************************************************)
(* The subscriptions of one user: the module and its inductive invariant.  *)
(* The events tell the row because a change that waits for its commit is   *)
(* the only one of its row, and later than all that are recorded of it.    *)
(***************************************************************************)
\* The operators of FiniteSets as the instance has them.
LEMMA SameCardinality ==
    ASSUME NEW S
    PROVE  /\ Subscriptions!IsFiniteSet(S) <=> IsFiniteSet(S)
           /\ Subscriptions!Cardinality(S) = Cardinality(S)
BY DEF Subscriptions!IsFiniteSet, IsFiniteSet, Subscriptions!Cardinality, Cardinality

EventRow == [at: Nat, status: {"active", "disabled"}, delivery: BOOLEAN]

\* Every request reads the clock at most once.
ClockIsBounded ==
    clock + Cardinality({q \in Changes : change[q].pc \in {"new", "lock", "row"}})
        <= Cardinality(Changes)

ChangesAreNamed ==
    /\ \A q \in Changes : change[q].pc \in {"lock", "row", "commit"} =>
          change[q].kind \in Subscriptions!Kinds /\ change[q].on \in Combinations
    /\ \A q \in Changes : change[q].pc = "lock" => change[q].kind = "enable"

\* Who enables holds the user's lock once past it; a row is locked by the request
\* that is about to change it.
ChangesLock ==
    /\ \A q \in Changes :
          change[q].pc \in {"row", "commit"} /\ change[q].kind = "enable" => subscriberLock = q
    /\ \A c \in Combinations : \A q \in Changes : changeLock[c] = q =>
          change[q].pc = "commit" /\ change[q].on = c /\ row[c].status # "absent"

\* What a request found still holds when it commits.
ChangesStand ==
    \A q \in Changes : change[q].pc = "commit" =>
        /\ change[q].at \in 1..clock
        /\ \A e \in events[change[q].on] : e.at < change[q].at
        /\ \/ changeLock[change[q].on] = q
           \/ /\ row[change[q].on].status = "absent" /\ change[q].kind = "enable"
              /\ Cardinality(Subscriptions!Active) < SubscriptionLimit
        /\ change[q].kind = "deliver" => row[change[q].on].status = "active"

SInv ==
    /\ Subscriptions!SubscriptionsAssumption
    /\ Subscriptions!TypeOK
    /\ events \in [Combinations -> SUBSET EventRow]
    /\ ClockIsBounded
    /\ ChangesAreNamed
    /\ ChangesLock
    /\ ChangesStand
    /\ Subscriptions!EventsTellTheRow
    /\ Subscriptions!DeliveryNeedsActive

-----------------------------------------------------------------------------
(***************************************************************************)
(* Subscriptions: what a step moves.                                       *)
(***************************************************************************)
ChangeStep(q) ==
    \/ Subscriptions!Ask(q) \/ Subscriptions!LockUser(q) \/ Subscriptions!LockRow(q)
    \/ Subscriptions!Commit(q) \/ Subscriptions!Fails(q)

ChangeRow == [pc: {"new", "lock", "row", "commit", "done"},
              kind: Subscriptions!Kinds \union {"none"},
              on: Combinations \union {Nobody}, at: Nat]
SubscriptionRow == [status: {"absent", "active", "disabled"}, delivery: BOOLEAN]

LEMMA SubscriptionTypes ==
    ASSUME SInv
    PROVE  /\ row \in [Combinations -> SubscriptionRow]
           /\ clock \in Nat
           /\ change \in [Changes -> ChangeRow]
           /\ subscriberLock \in Changes \union {Nobody}
           /\ changeLock \in [Combinations -> Changes \union {Nobody}]
           /\ Nobody \notin Changes
           /\ Cardinality(Changes) \in Nat
           /\ events \in [Combinations -> SUBSET EventRow]
<1>1. Cardinality(Changes) \in Nat
      BY SameCardinality, FS_CardinalityType DEF SInv, Subscriptions!SubscriptionsAssumption
<1>2. clock \in Nat
      BY <1>1 DEF SInv, Subscriptions!TypeOK
<1>3. 0..clock \subseteq Nat
      BY <1>2
<1>4. change \in [Changes -> ChangeRow]
      BY <1>3 DEF SInv, Subscriptions!TypeOK, ChangeRow
<1>5. QED
      BY <1>1, <1>2, <1>4 DEF SInv, Subscriptions!TypeOK, SubscriptionRow,
         Subscriptions!SubscriptionsAssumption

\* What a step does to the requests and to the clock.
LEMMA ChangeMoves ==
    ASSUME SInv, NEW q \in Changes, ChangeStep(q)
    PROVE  /\ \A p \in Changes \ {q} : change'[p] = change[p]
           /\ \/ clock' = clock
              \/ clock' = clock + 1 /\ change[q].pc = "row" /\ change'[q].pc = "commit"
           /\ change[q].pc # "done" /\ change'[q] \in ChangeRow
           /\ change'[q].pc \in {"new", "lock", "row"} => change[q].pc \in {"new", "lock", "row"}
           /\ change'[q].at \in {0, change[q].at, clock'}
<1>1. change \in [Changes -> ChangeRow] /\ clock \in Nat
      BY SubscriptionTypes
<1>2. ASSUME NEW step \in {"row", "done"}, Subscriptions!Go(q, step)
      PROVE  /\ \A p \in Changes \ {q} : change'[p] = change[p]
             /\ change'[q] \in ChangeRow /\ change'[q].pc = step
             /\ change'[q].at = change[q].at
      BY <1>1, <1>2 DEF Subscriptions!Go, ChangeRow
<1>3. CASE Subscriptions!Ask(q)
      BY <1>1, <1>3 DEF Subscriptions!Ask, ChangeRow
<1>4. CASE Subscriptions!LockUser(q) \/ Subscriptions!Commit(q) \/ Subscriptions!Fails(q)
      BY <1>2, <1>4
      DEF Subscriptions!LockUser, Subscriptions!Commit, Subscriptions!Fails,
          Subscriptions!Finish
<1>5. CASE Subscriptions!LockRow(q)
  <2>1. CASE Subscriptions!Finish(q) /\ UNCHANGED clock
        BY <1>2, <1>5, <2>1 DEF Subscriptions!LockRow, Subscriptions!Finish
  <2>2. CASE /\ clock' = clock + 1
             /\ change' = [change EXCEPT ![q].pc = "commit", ![q].at = clock']
    <3>1. change[q].pc = "row" /\ clock' \in Nat
          BY <1>1, <1>5, <2>2 DEF Subscriptions!LockRow
    <3>2. /\ \A p \in Changes \ {q} : change'[p] = change[p]
          /\ change'[q] = [change[q] EXCEPT !.pc = "commit", !.at = clock']
          BY <1>1, <2>2
    <3>3. change'[q] \in ChangeRow /\ change'[q].pc = "commit" /\ change'[q].at = clock'
          BY <1>1, <3>1, <3>2 DEF ChangeRow
    <3>4. QED
          BY <2>2, <3>1, <3>2, <3>3
  <2>3. QED
        BY <1>5, <2>1, <2>2 DEF Subscriptions!LockRow
<1>6. QED
      BY <1>3, <1>4, <1>5 DEF ChangeStep

LEMMA ClockAdvances ==
    ASSUME SInv, NEW q \in Changes, ChangeStep(q)
    PROVE  /\ ClockIsBounded'
           /\ clock' \in 0..Subscriptions!Cardinality(Changes)
           /\ clock <= clock'
<1> DEFINE early == {p \in Changes : change[p].pc \in {"new", "lock", "row"}}
<1> DEFINE later == {p \in Changes : change'[p].pc \in {"new", "lock", "row"}}
<1>1. later \subseteq early /\ early \subseteq Changes
      BY ChangeMoves
<1>2. clock' = clock \/ (clock' = clock + 1 /\ q \in early /\ later \subseteq early \ {q})
      BY <1>1, ChangeMoves
<1>3. clock \in Nat /\ clock + Cardinality(early) <= Cardinality(Changes)
      BY SubscriptionTypes DEF SInv, ClockIsBounded
<1>4. IsFiniteSet(Changes)
      BY SameCardinality DEF SInv, Subscriptions!SubscriptionsAssumption
<1> HIDE DEF early, later
<1>5. IsFiniteSet(early)
      BY <1>1, <1>4, FS_Subset
<1>6. IsFiniteSet(early \ {q}) /\ (q \in early => Cardinality(early \ {q}) = Cardinality(early) - 1)
      BY <1>5, FS_RemoveElement
<1>7. Cardinality(later) <= Cardinality(early) /\ IsFiniteSet(later)
      BY <1>1, <1>5, FS_Subset
<1>8. clock' = clock + 1 => Cardinality(later) <= Cardinality(early) - 1
  <2>1. SUFFICES ASSUME clock' = clock + 1 PROVE Cardinality(later) <= Cardinality(early) - 1
        OBVIOUS
  <2>2. q \in early /\ later \subseteq early \ {q}
        BY <1>2, <1>3, <2>1
  <2>3. QED
        BY <1>6, <2>2, FS_Subset
<1>9. /\ Cardinality(early) \in Nat /\ Cardinality(later) \in Nat /\ Cardinality(Changes) \in Nat
      /\ clock' = clock \/ clock' = clock + 1
      BY <1>2, <1>4, <1>5, <1>7, FS_CardinalityType
<1>10. clock' + Cardinality(later) <= Cardinality(Changes) /\ clock <= clock'
      BY <1>3, <1>7, <1>8, <1>9
<1>11. clock' \in 0..Cardinality(Changes)
      BY <1>3, <1>9, <1>10
<1>12. QED
      BY <1>10, <1>11, SameCardinality DEF ClockIsBounded, later

\* Only a commit changes rows and events: those of its own subscription.
LEMMA RowMoves ==
    ASSUME SInv, NEW q \in Changes, ChangeStep(q)
    PROVE  Subscriptions!Commit(q) \/ UNCHANGED <<row, events>>
BY DEF ChangeStep, Subscriptions!Ask, Subscriptions!LockUser, Subscriptions!LockRow,
       Subscriptions!Fails

LEMMA CommitMoves ==
    ASSUME SInv, NEW q \in Changes, Subscriptions!Commit(q),
           NEW c \in Combinations, c = change[q].on,
           NEW new, new = Subscriptions!Changed(change[q].kind, row[c])
    PROVE  /\ change[q].pc = "commit" /\ change[q].kind \in Subscriptions!Kinds
           /\ new \in SubscriptionRow /\ new.status # "absent"
           /\ new.delivery => new.status = "active"
           /\ row' = [row EXCEPT ![c] = new]
           /\ events' = [events EXCEPT ![c] = @ \union {Subscriptions!Event(change[q].at, new)}]
           /\ Subscriptions!Event(change[q].at, new) \in EventRow
           /\ UNCHANGED clock
<1>1. change[q].pc = "commit" /\ change[q].kind \in Subscriptions!Kinds
      BY DEF Subscriptions!Commit, SInv, ChangesAreNamed
<1>2. row[c] \in SubscriptionRow /\ change[q].at \in Nat
      BY SubscriptionTypes DEF ChangeRow
<1>3. row[c].delivery => row[c].status = "active"
      BY DEF SInv, Subscriptions!DeliveryNeedsActive
<1>4. change[q].kind # "enable" => row[c].status # "absent"
      BY <1>1 DEF SInv, ChangesStand, ChangesLock
<1>5. /\ new \in SubscriptionRow /\ new.status # "absent"
      /\ new.delivery => new.status = "active"
      BY <1>1, <1>2, <1>3, <1>4
      DEF Subscriptions!Changed, SubscriptionRow, Subscriptions!Kinds
<1>6. Subscriptions!Event(change[q].at, new) \in EventRow
      BY <1>2, <1>5 DEF Subscriptions!Event, EventRow, SubscriptionRow
<1>7. QED
      BY <1>1, <1>5, <1>6 DEF Subscriptions!Commit

-----------------------------------------------------------------------------
(***************************************************************************)
(* Subscriptions: the invariant is inductive.                              *)
(***************************************************************************)
LEMMA StepSubscriptionTypes ==
    ASSUME SInv, NEW q \in Changes, ChangeStep(q)
    PROVE  Subscriptions!TypeOK' /\ events' \in [Combinations -> SUBSET EventRow]
<1>1. /\ row' \in [Combinations -> SubscriptionRow]
      /\ events' \in [Combinations -> SUBSET EventRow]
      /\ \A c \in Combinations : \A e \in events'[c] : e.at \in 1..clock'
  <2>1. CASE UNCHANGED <<row, events>>
        BY <2>1, ClockAdvances, SubscriptionTypes DEF SInv, Subscriptions!TypeOK
  <2>2. CASE Subscriptions!Commit(q)
    <3> DEFINE c == change[q].on
               new == Subscriptions!Changed(change[q].kind, row[c])
               event == Subscriptions!Event(change[q].at, new)
    <3>1. c \in Combinations
          BY <2>2 DEF Subscriptions!Commit, SInv, ChangesAreNamed
    <3>2. /\ new \in SubscriptionRow /\ row' = [row EXCEPT ![c] = new]
          /\ events' = [events EXCEPT ![c] = @ \union {event}]
          /\ event \in EventRow /\ UNCHANGED clock /\ change[q].pc = "commit"
          BY <2>2, <3>1, CommitMoves
    <3>3. event.at \in 1..clock
          BY <3>2 DEF SInv, ChangesStand, Subscriptions!Event
    <3> HIDE DEF event, new, c
    <3>4. row' \in [Combinations -> SubscriptionRow]
          BY <3>1, <3>2, SubscriptionTypes
    <3>5. events' \in [Combinations -> SUBSET EventRow]
          BY <3>1, <3>2, SubscriptionTypes
    <3>6. \A d \in Combinations : \A e \in events'[d] : e \in events[d] \/ e = event
          BY <3>1, <3>2, SubscriptionTypes
    <3>7. \A d \in Combinations : \A e \in events'[d] : e.at \in 1..clock'
          BY <3>2, <3>3, <3>6 DEF SInv, Subscriptions!TypeOK
    <3>8. QED
          BY <3>4, <3>5, <3>7
  <2>3. QED
        BY <2>1, <2>2, RowMoves
<1>2. change' \in [Changes -> [pc: {"new", "lock", "row", "commit", "done"},
                               kind: Subscriptions!Kinds \union {"none"},
                               on: Combinations \union {Nobody}, at: 0..clock']]
  <2>1. ASSUME NEW p \in Changes PROVE change'[p] \in ChangeRow /\ change'[p].at \in 0..clock'
    <3>1. change[p].at \in 0..clock /\ change[q].at \in 0..clock /\ change[p] \in ChangeRow
          BY SubscriptionTypes DEF SInv, Subscriptions!TypeOK
    <3>2. clock \in Nat /\ clock' \in Nat /\ clock <= clock'
          BY SubscriptionTypes, ClockAdvances
    <3>3. CASE p = q
          BY <3>1, <3>2, <3>3, ChangeMoves
    <3>4. CASE p # q
          BY <3>1, <3>2, <3>4, ChangeMoves
    <3>5. QED
          BY <3>3, <3>4
  <2>2. DOMAIN change' = Changes /\ change' = [p \in DOMAIN change' |-> change'[p]]
    <3>1. DOMAIN change = Changes
          BY SubscriptionTypes
    <3>2. QED
          BY <3>1
          DEF ChangeStep, Subscriptions!Ask, Subscriptions!LockUser,
              Subscriptions!LockRow, Subscriptions!Commit, Subscriptions!Fails,
              Subscriptions!Finish, Subscriptions!Go
  <2>3. QED
        BY <2>1, <2>2 DEF ChangeRow
<1>3. /\ subscriberLock' \in Changes \union {Nobody}
      /\ changeLock' \in [Combinations -> Changes \union {Nobody}]
  <2>1. ASSUME Subscriptions!Finish(q)
        PROVE  /\ subscriberLock' \in Changes \union {Nobody}
               /\ changeLock' \in [Combinations -> Changes \union {Nobody}]
        BY <2>1, SubscriptionTypes DEF Subscriptions!Finish
  <2>2. QED
        BY <2>1, SubscriptionTypes
        DEF ChangeStep, Subscriptions!Ask, Subscriptions!LockUser, Subscriptions!LockRow,
            Subscriptions!Commit, Subscriptions!Fails
<1>4. changeFaults' \in 0..MaxChangeFaults
      BY DEF SInv, Subscriptions!TypeOK, Subscriptions!SubscriptionsAssumption,
             ChangeStep, Subscriptions!Ask, Subscriptions!LockUser, Subscriptions!LockRow,
             Subscriptions!Commit, Subscriptions!Fails
<1>5. QED
      BY <1>1, <1>2, <1>3, <1>4, ClockAdvances DEF Subscriptions!TypeOK, SubscriptionRow

LEMMA StepChangesAreNamed ==
    ASSUME SInv, NEW q \in Changes, ChangeStep(q)
    PROVE  ChangesAreNamed'
<1>1. change \in [Changes -> ChangeRow]
      BY SubscriptionTypes
<1>2. /\ change'[q].pc \in {"lock", "row", "commit"} =>
            change'[q].kind \in Subscriptions!Kinds /\ change'[q].on \in Combinations
      /\ change'[q].pc = "lock" => change'[q].kind = "enable"
  <2>1. CASE Subscriptions!Ask(q)
        BY <1>1, <2>1 DEF Subscriptions!Ask
  <2>2. CASE ~Subscriptions!Ask(q) /\ change'[q].pc \in {"lock", "row", "commit"}
    <3>1. /\ change[q].pc \in {"lock", "row"} /\ change'[q].pc \in {"row", "commit"}
          /\ change'[q].kind = change[q].kind /\ change'[q].on = change[q].on
          BY <1>1, <2>2
          DEF ChangeStep, Subscriptions!LockUser, Subscriptions!LockRow,
              Subscriptions!Commit, Subscriptions!Fails, Subscriptions!Finish,
              Subscriptions!Go, ChangeRow
    <3>2. QED
          BY <3>1 DEF SInv, ChangesAreNamed
  <2>3. QED
        BY <2>1, <2>2
<1>3. QED
      BY <1>2, ChangeMoves DEF SInv, ChangesAreNamed

\* A request keeps the locks of others.
LEMMA OthersKeepTheirLocks ==
    ASSUME SInv, NEW q \in Changes, ChangeStep(q), NEW p \in Changes, p # q
    PROVE  /\ subscriberLock = p => subscriberLock' = p
           /\ \A c \in Combinations : changeLock'[c] = p <=> changeLock[c] = p
<1>1. /\ changeLock \in [Combinations -> Changes \union {Nobody}] /\ Nobody \notin Changes
      BY SubscriptionTypes
<1>2. CASE Subscriptions!Finish(q)
      BY <1>1, <1>2 DEF Subscriptions!Finish
<1>3. CASE Subscriptions!Ask(q)
      BY <1>3 DEF Subscriptions!Ask
<1>4. CASE Subscriptions!LockUser(q)
      BY <1>1, <1>2, <1>4 DEF Subscriptions!LockUser, Subscriptions!UserLockFree
<1>5. CASE Subscriptions!LockRow(q)
      BY <1>1, <1>2, <1>5 DEF Subscriptions!LockRow, Subscriptions!RowLockFree
<1>6. QED
      BY <1>2, <1>3, <1>4, <1>5
      DEF ChangeStep, Subscriptions!Commit, Subscriptions!Fails

LEMMA StepChangesLock ==
    ASSUME SInv, NEW q \in Changes, ChangeStep(q)
    PROVE  ChangesLock'
<1>1. /\ changeLock \in [Combinations -> Changes \union {Nobody}] /\ Nobody \notin Changes
      /\ change \in [Changes -> ChangeRow] /\ row \in [Combinations -> SubscriptionRow]
      BY SubscriptionTypes
<1>2. \A c \in Combinations : row[c].status # "absent" => row'[c].status # "absent"
  <2>1. CASE Subscriptions!Commit(q)
    <3>1. change[q].on \in Combinations
          BY <2>1 DEF Subscriptions!Commit, SInv, ChangesAreNamed
    <3>2. QED
          BY <1>1, <2>1, <3>1, CommitMoves
  <2>2. QED
        BY <2>1, RowMoves
<1>3. ASSUME change'[q].pc \in {"row", "commit"}, change'[q].kind = "enable"
      PROVE  subscriberLock' = q
  <2>1. CASE Subscriptions!Ask(q)
        BY <1>1, <1>3, <2>1 DEF Subscriptions!Ask
  <2>2. CASE Subscriptions!LockUser(q)
        BY <1>1, <1>3, <2>2 DEF Subscriptions!LockUser, Subscriptions!Finish, Subscriptions!Go,
           ChangeRow
  <2>3. CASE Subscriptions!LockRow(q)
    <3>1. change[q].kind = "enable" /\ UNCHANGED subscriberLock /\ change[q].pc = "row"
          BY <1>1, <1>3, <2>3
          DEF Subscriptions!LockRow, Subscriptions!Finish, Subscriptions!Go, ChangeRow
    <3>2. QED
          BY <3>1 DEF SInv, ChangesLock
  <2>4. QED
        BY <1>1, <1>3, <2>1, <2>2, <2>3
        DEF ChangeStep, Subscriptions!Commit, Subscriptions!Fails, Subscriptions!Finish,
            Subscriptions!Go, ChangeRow
<1>4. ASSUME NEW c \in Combinations, changeLock'[c] = q
      PROVE  change'[q].pc = "commit" /\ change'[q].on = c /\ row'[c].status # "absent"
  <2>1. ~Subscriptions!Finish(q)
        BY <1>1, <1>4 DEF Subscriptions!Finish
  <2>2. CASE Subscriptions!LockRow(q)
    <3>1. CASE changeLock[c] = q
          BY <2>2, <3>1 DEF Subscriptions!LockRow, SInv, ChangesLock
    <3>2. CASE changeLock[c] # q
          BY <1>1, <1>4, <2>1, <2>2, <3>2 DEF Subscriptions!LockRow, ChangeRow
    <3>3. QED
          BY <3>1, <3>2
  <2>3. CASE Subscriptions!Ask(q) \/ Subscriptions!LockUser(q)
    <3>1. changeLock[c] = q /\ change[q].pc # "commit"
          BY <1>4, <2>1, <2>3 DEF Subscriptions!Ask, Subscriptions!LockUser
    <3>2. QED
          BY <3>1 DEF SInv, ChangesLock
  <2>4. QED
        BY <2>1, <2>2, <2>3 DEF ChangeStep, Subscriptions!Commit, Subscriptions!Fails
<1>5. ASSUME NEW p \in Changes, p # q
      PROVE  /\ change'[p].pc \in {"row", "commit"} /\ change'[p].kind = "enable" =>
                    subscriberLock' = p
             /\ \A c \in Combinations : changeLock'[c] = p =>
                   change'[p].pc = "commit" /\ change'[p].on = c /\ row'[c].status # "absent"
  <2>1. change'[p] = change[p]
        BY <1>5, ChangeMoves
  <2>2. QED
        BY <1>2, <1>5, <2>1, OthersKeepTheirLocks DEF SInv, ChangesLock
<1>6. QED
      BY <1>3, <1>4, <1>5 DEF ChangesLock

\* Two requests that are about to change the same subscription are one.
LEMMA OneChangeAtATime ==
    ASSUME SInv, NEW q \in Changes, NEW p \in Changes,
           change[q].pc = "commit", change[p].pc = "commit",
           \/ change[q].on = change[p].on
           \/ /\ row[change[p].on].status = "absent" /\ change[q].kind = "enable"
              /\ changeLock[change[p].on] # p
    PROVE  p = q
<1>1. change[q].on \in Combinations /\ change[p].on \in Combinations
      BY DEF SInv, ChangesAreNamed
<1>2. CASE changeLock[change[p].on] = p
      BY <1>1, <1>2 DEF SInv, ChangesLock, ChangesStand
<1>3. CASE changeLock[change[p].on] # p
  <2>1. change[p].kind = "enable" /\ subscriberLock = p /\ row[change[p].on].status = "absent"
        BY <1>3 DEF SInv, ChangesStand, ChangesLock
  <2>2. change[q].kind = "enable"
        BY <1>1, <2>1 DEF SInv, ChangesStand, ChangesLock
  <2>3. subscriberLock = q
        BY <2>2 DEF SInv, ChangesLock
  <2>4. QED
        BY <2>1, <2>3
<1>4. QED
      BY <1>2, <1>3

LEMMA StepChangesStand ==
    ASSUME SInv, NEW q \in Changes, ChangeStep(q)
    PROVE  ChangesStand'
<1>1. /\ changeLock \in [Combinations -> Changes \union {Nobody}] /\ Nobody \notin Changes
      /\ change \in [Changes -> ChangeRow] /\ row \in [Combinations -> SubscriptionRow]
      /\ events \in [Combinations -> SUBSET EventRow]
      /\ clock \in Nat /\ clock' \in Nat /\ clock <= clock'
      BY SubscriptionTypes, ClockAdvances
<1>2. \A c \in Combinations : \A e \in events[c] : e.at \in 1..clock
      BY DEF SInv, Subscriptions!TypeOK
<1>3. IsFiniteSet(Subscriptions!Active) /\ SubscriptionLimit \in Nat
  <2>1. IsFiniteSet(Combinations) /\ SubscriptionLimit \in Nat
        BY SameCardinality DEF SInv, Subscriptions!SubscriptionsAssumption
  <2>2. QED
        BY <2>1, FS_Subset DEF Subscriptions!Active
<1>4. Cardinality(Subscriptions!Active) \in Nat
      BY <1>3, FS_CardinalityType
<1> DEFINE Stands(p) ==
        /\ change'[p].at \in 1..clock'
        /\ \A e \in events'[change'[p].on] : e.at < change'[p].at
        /\ \/ changeLock'[change'[p].on] = p
           \/ /\ row'[change'[p].on].status = "absent" /\ change'[p].kind = "enable"
              /\ Cardinality(Subscriptions!Active') < SubscriptionLimit
        /\ change'[p].kind = "deliver" => row'[change'[p].on].status = "active"
<1>5. ASSUME change'[q].pc = "commit" PROVE Stands(q)
  <2> DEFINE c == change[q].on
  <2>1. change[q].pc = "row" /\ Subscriptions!LockRow(q) /\ ~Subscriptions!Finish(q)
        BY <1>1, <1>5
        DEF ChangeStep, Subscriptions!Ask, Subscriptions!LockUser, Subscriptions!LockRow,
            Subscriptions!Commit, Subscriptions!Fails, Subscriptions!Finish,
            Subscriptions!Go, ChangeRow
  <2>2. /\ ~Subscriptions!IsRefused(q)
        /\ clock' = clock + 1
        /\ change' = [change EXCEPT ![q].pc = "commit", ![q].at = clock']
        /\ changeLock' = IF row[c].status = "absent" THEN changeLock
                         ELSE [changeLock EXCEPT ![c] = q]
        /\ UNCHANGED <<row, events>>
        BY <2>1 DEF Subscriptions!LockRow
  <2>3. c \in Combinations
        BY <2>1 DEF SInv, ChangesAreNamed
  <2>4. /\ change'[q].on = c /\ change'[q].kind = change[q].kind
        /\ change'[q].at = clock + 1
        BY <1>1, <2>2 DEF ChangeRow
  <2>5. /\ row[c].status = "absent" =>
              change[q].kind = "enable" /\ ~(Cardinality(Subscriptions!Active) >= SubscriptionLimit)
        /\ change[q].kind = "deliver" => row[c].status = "active"
        BY <2>2, SameCardinality DEF Subscriptions!IsRefused
  <2>6. row[c].status = "absent" => Cardinality(Subscriptions!Active) < SubscriptionLimit
        BY <1>3, <1>4, <2>5
  <2>7. Subscriptions!Active' = Subscriptions!Active
        BY <2>2 DEF Subscriptions!Active
  <2>8. change'[q].at \in 1..clock' /\ \A e \in events'[c] : e.at < change'[q].at
        BY <1>1, <1>2, <2>2, <2>3, <2>4
  <2>9. changeLock'[c] = q \/ row[c].status = "absent"
        BY <1>1, <2>2, <2>3
  <2>10. QED
        BY <2>2, <2>4, <2>5, <2>6, <2>7, <2>8, <2>9
<1>6. ASSUME NEW p \in Changes, p # q, change'[p].pc = "commit" PROVE Stands(p)
  <2> DEFINE c == change[p].on
  <2>1. change'[p] = change[p] /\ change[p].pc = "commit" /\ c \in Combinations
        BY <1>6, ChangeMoves DEF SInv, ChangesAreNamed
  <2>2. /\ change[p].at \in 1..clock
        /\ \A e \in events[c] : e.at < change[p].at
        /\ changeLock[c] = p \/ ( /\ row[c].status = "absent" /\ change[p].kind = "enable"
                                  /\ Cardinality(Subscriptions!Active) < SubscriptionLimit
                                  /\ changeLock[c] # p)
        /\ change[p].kind = "deliver" => row[c].status = "active"
        BY <2>1, SameCardinality DEF SInv, ChangesStand
  <2>3. changeLock'[c] = p <=> changeLock[c] = p
        BY <1>6, <2>1, OthersKeepTheirLocks
  <2>4. change[p].at \in 1..clock'
        BY <1>1, <2>2
  <2>5. CASE UNCHANGED <<row, events>>
    <3>1. Subscriptions!Active' = Subscriptions!Active
          BY <2>5 DEF Subscriptions!Active
    <3>2. QED
          BY <2>1, <2>2, <2>3, <2>4, <2>5, <3>1
  <2>6. CASE Subscriptions!Commit(q)
    <3> DEFINE d == change[q].on
               new == Subscriptions!Changed(change[q].kind, row[d])
               event == Subscriptions!Event(change[q].at, new)
    <3>1. change[q].pc = "commit" /\ d \in Combinations
          BY <2>6 DEF Subscriptions!Commit, SInv, ChangesAreNamed
    <3>2. c # d
          BY <1>6, <2>1, <3>1, OneChangeAtATime
    <3>3. /\ row' = [row EXCEPT ![d] = new]
          /\ events' = [events EXCEPT ![d] = @ \union {event}]
          /\ change[q].kind \in Subscriptions!Kinds
          BY <2>6, <3>1, CommitMoves
    <3>4. row'[c] = row[c] /\ events'[c] = events[c]
          BY <1>1, <2>1, <3>2, <3>3
    <3>5. CASE changeLock[c] = p
          BY <2>1, <2>2, <2>3, <2>4, <3>4, <3>5
    <3>6. CASE changeLock[c] # p
      <4>1. change[q].kind # "enable"
            BY <1>6, <2>1, <2>2, <3>1, <3>6, OneChangeAtATime
      <4>2. new.status = "active" => row[d].status = "active"
        <5>1. change[q].kind = "deliver" => row[d].status = "active"
              BY <3>1 DEF SInv, ChangesStand
        <5>2. row[d] \in SubscriptionRow
              BY <1>1, <3>1
        <5>3. QED
              BY <3>3, <4>1, <5>1, <5>2 DEF Subscriptions!Changed, Subscriptions!Kinds,
                 SubscriptionRow
      <4>3. \A b \in Combinations : row'[b].status = "active" => row[b].status = "active"
            BY <1>1, <3>1, <3>3, <4>2
      <4>4. Subscriptions!Active' \subseteq Subscriptions!Active
            BY <4>3 DEF Subscriptions!Active
      <4>5. /\ IsFiniteSet(Subscriptions!Active')
            /\ Cardinality(Subscriptions!Active') <= Cardinality(Subscriptions!Active)
            BY <1>3, <4>4, FS_Subset
      <4>6. Cardinality(Subscriptions!Active') \in Nat
            BY <4>5, FS_CardinalityType
      <4>7. Cardinality(Subscriptions!Active') < SubscriptionLimit
            BY <1>3, <1>4, <2>2, <3>6, <4>5, <4>6
      <4>8. QED
            BY <2>1, <2>2, <2>4, <3>4, <3>6, <4>7
    <3>7. QED
          BY <3>5, <3>6
  <2>7. QED
        BY <2>5, <2>6, RowMoves
<1>7. QED
  <2>1. \A p \in Changes : change'[p].pc = "commit" => Stands(p)
        BY <1>5, <1>6
  <2>2. QED
        BY <2>1, SameCardinality DEF ChangesStand

LEMMA StepEvents ==
    ASSUME SInv, NEW q \in Changes, ChangeStep(q)
    PROVE  Subscriptions!EventsTellTheRow' /\ Subscriptions!DeliveryNeedsActive'
<1>1. /\ row \in [Combinations -> SubscriptionRow]
      /\ events \in [Combinations -> SUBSET EventRow]
      /\ change \in [Changes -> ChangeRow]
      BY SubscriptionTypes
<1>2. CASE UNCHANGED <<row, events>>
      BY <1>2 DEF SInv, Subscriptions!EventsTellTheRow, Subscriptions!DeliveryNeedsActive
<1>3. CASE Subscriptions!Commit(q)
  <2> DEFINE c == change[q].on
             new == Subscriptions!Changed(change[q].kind, row[c])
             event == Subscriptions!Event(change[q].at, new)
  <2>1. change[q].pc = "commit" /\ c \in Combinations
        BY <1>3 DEF Subscriptions!Commit, SInv, ChangesAreNamed
  <2>2. /\ new \in SubscriptionRow /\ new.status # "absent"
        /\ new.delivery => new.status = "active"
        /\ row' = [row EXCEPT ![c] = new]
        /\ events' = [events EXCEPT ![c] = @ \union {event}]
        BY <1>3, <2>1, CommitMoves
  <2>3. event.at = change[q].at /\ new = [status |-> event.status, delivery |-> event.delivery]
        BY <2>2 DEF Subscriptions!Event, SubscriptionRow
  <2>4. change[q].at \in Nat /\ \A e \in events[c] : e.at < change[q].at
        BY <1>1, <2>1 DEF SInv, ChangesStand, ChangeRow
  <2> HIDE DEF event, new, c
  <2>5. row'[c] = new /\ events'[c] = events[c] \union {event}
        BY <1>1, <2>1, <2>2
  <2>6. \A d \in Combinations \ {c} : row'[d] = row[d] /\ events'[d] = events[d]
        BY <1>1, <2>1, <2>2
  <2>7. ASSUME NEW e \in events'[c], \A other \in events'[c] : other.at <= e.at
        PROVE  row'[c] = [status |-> e.status, delivery |-> e.delivery]
    <3>1. e \notin events[c]
      <4>1. SUFFICES ASSUME e \in events[c] PROVE FALSE
            OBVIOUS
      <4>2. change[q].at <= e.at /\ e.at < change[q].at /\ e.at \in Nat
            BY <1>1, <2>1, <2>3, <2>4, <2>5, <2>7, <4>1 DEF EventRow
      <4>3. QED
            BY <2>4, <4>2
    <3>2. e = event
          BY <2>5, <3>1
    <3>3. QED
          BY <2>3, <2>5, <3>2
  <2>8. Subscriptions!EventsTellTheRow'
    <3>1. events'[c] # {} /\ row'[c].status # "absent"
          BY <2>2, <2>5
    <3>2. QED
          BY <2>6, <2>7, <3>1 DEF SInv, Subscriptions!EventsTellTheRow
  <2>9. Subscriptions!DeliveryNeedsActive'
        BY <2>2, <2>5, <2>6 DEF SInv, Subscriptions!DeliveryNeedsActive
  <2>10. QED
        BY <2>8, <2>9
<1>4. QED
      BY <1>2, <1>3, RowMoves

LEMMA SubscriptionsInit ==
    Subscriptions!SubscriptionsAssumption /\ Subscriptions!Init => SInv
<1>1. SUFFICES ASSUME Subscriptions!SubscriptionsAssumption, Subscriptions!Init PROVE SInv
      OBVIOUS
<1>2. /\ IsFiniteSet(Changes) /\ Cardinality(Changes) \in Nat
      /\ Subscriptions!Cardinality(Changes) = Cardinality(Changes)
      BY <1>1, SameCardinality, FS_CardinalityType DEF Subscriptions!SubscriptionsAssumption
<1>3. Subscriptions!TypeOK /\ events \in [Combinations -> SUBSET EventRow]
      BY <1>1, <1>2
      DEF Subscriptions!SubscriptionsAssumption, Subscriptions!Init, Subscriptions!TypeOK,
          Subscriptions!NoRow, Subscriptions!NewRequest
<1>4. ClockIsBounded
  <2> DEFINE early == {p \in Changes : change[p].pc \in {"new", "lock", "row"}}
  <2>1. early = Changes /\ clock = 0
        BY <1>1 DEF Subscriptions!Init, Subscriptions!NewRequest
  <2> HIDE DEF early
  <2>2. clock + Cardinality(early) <= Cardinality(Changes)
        BY <1>2, <2>1
  <2>3. QED
        BY <2>2 DEF ClockIsBounded, early
<1>5. ChangesAreNamed /\ ChangesLock /\ ChangesStand
      BY <1>1
      DEF Subscriptions!SubscriptionsAssumption, Subscriptions!Init,
          Subscriptions!NewRequest, ChangesAreNamed, ChangesLock, ChangesStand
<1>6. Subscriptions!EventsTellTheRow /\ Subscriptions!DeliveryNeedsActive
      BY <1>1
      DEF Subscriptions!Init, Subscriptions!NoRow, Subscriptions!EventsTellTheRow,
          Subscriptions!DeliveryNeedsActive
<1>7. QED
      BY <1>1, <1>3, <1>4, <1>5, <1>6 DEF SInv

LEMMA SubscriptionSteps ==
    [Subscriptions!Next]_(Subscriptions!vars) =>
        (\E q \in Changes : ChangeStep(q)) \/ UNCHANGED Subscriptions!vars
BY DEF Subscriptions!Next, Subscriptions!Step, ChangeStep

LEMMA SubscriptionsStep == SInv /\ [Subscriptions!Next]_(Subscriptions!vars) => SInv'
<1>1. SUFFICES ASSUME SInv, [Subscriptions!Next]_(Subscriptions!vars) PROVE SInv'
      OBVIOUS
<1>2. CASE UNCHANGED Subscriptions!vars
  <2>1. UNCHANGED <<row, events, clock, change, subscriberLock, changeLock, changeFaults>>
        BY <1>2 DEF Subscriptions!vars
  <2>2. Subscriptions!Active' = Subscriptions!Active
        BY <2>1 DEF Subscriptions!Active
  <2>3. Subscriptions!TypeOK' /\ Subscriptions!SubscriptionsAssumption'
        BY <1>1, <2>1 DEF SInv, Subscriptions!TypeOK, Subscriptions!SubscriptionsAssumption
  <2>4. ClockIsBounded' /\ ChangesAreNamed' /\ ChangesLock' /\ ChangesStand'
        BY <1>1, <2>1, <2>2
        DEF SInv, ClockIsBounded, ChangesAreNamed, ChangesLock, ChangesStand
  <2>5. Subscriptions!EventsTellTheRow' /\ Subscriptions!DeliveryNeedsActive'
        BY <1>1, <2>1
        DEF SInv, Subscriptions!EventsTellTheRow, Subscriptions!DeliveryNeedsActive
  <2>6. QED
        BY <1>1, <2>1, <2>3, <2>4, <2>5 DEF SInv
<1>3. ASSUME NEW q \in Changes, ChangeStep(q) PROVE SInv'
  <2>1. Subscriptions!SubscriptionsAssumption'
        BY <1>1 DEF SInv, Subscriptions!SubscriptionsAssumption
  <2>2. QED
        BY <1>1, <1>3, <2>1, StepSubscriptionTypes, ClockAdvances, StepChangesAreNamed,
           StepChangesLock, StepChangesStand, StepEvents
        DEF SInv
<1>4. QED
      BY <1>1, <1>2, <1>3, SubscriptionSteps

LEMMA SubscriptionsInductive ==
    Subscriptions!SubscriptionsAssumption /\ Subscriptions!Spec => []SInv
BY SubscriptionsInit, SubscriptionsStep, PTL DEF Subscriptions!Spec

-----------------------------------------------------------------------------
(***************************************************************************)
(* Subscriptions: the theorems.                                            *)
(***************************************************************************)
\* For any number of subscriptions and requests on them (signals/subscriptions.py): the
\* event with the latest time tells the row, so the dispatcher that goes by these times
\* sees the order in which the changes took effect, and messages are on only for a
\* subscription that is.
THEOREM SubscriptionsHold == Subscriptions!Spec => []Subscriptions!SubscriptionsAreSound
<1>1. SInv => Subscriptions!SubscriptionsAreSound
      BY DEF SInv, Subscriptions!SubscriptionsAreSound
<1>2. QED
      BY <1>1, ChangesAssumption, SubscriptionsInductive, PTL

\* A subscription is created only below the limit, whatever else the user creates or
\* reactivates at the same time: what the creation counted under the user's lock
\* still bounds the active ones when it commits.
THEOREM CreationsAreBelowLimit == Subscriptions!Spec => CreatedBelowLimit
<1>1. ASSUME SInv, [Subscriptions!Next]_(Subscriptions!vars), NEW c \in Combinations,
             row[c].status = "absent", row'[c].status # "absent"
      PROVE  Subscriptions!Cardinality(Subscriptions!Active) < SubscriptionLimit
  <2>1. row' # row
        BY <1>1
  <2>2. PICK q \in Changes : Subscriptions!Commit(q)
        BY <1>1, <2>1, SubscriptionSteps, RowMoves DEF Subscriptions!vars
  <2>3. change[q].pc = "commit" /\ change[q].on = c
        BY <1>1, <2>2, SubscriptionTypes DEF Subscriptions!Commit
  <2>4. changeLock[c] # q
        BY <1>1 DEF SInv, ChangesLock
  <2>5. QED
        BY <1>1, <2>3, <2>4, SameCardinality DEF SInv, ChangesStand
<1>2. SInv /\ [Subscriptions!Next]_(Subscriptions!vars) =>
          [\A c \in Combinations : row[c].status = "absent" /\ row'[c].status # "absent" =>
              Subscriptions!Cardinality(Subscriptions!Active) < SubscriptionLimit]_(Subscriptions!vars)
      BY <1>1
<1>3. QED
      BY <1>2, ChangesAssumption, SubscriptionsInductive, PTL
      DEF Subscriptions!Spec, CreatedBelowLimit, Subscriptions!CreatedBelowLimit

\* Links and subscriptions side by side keep what each of them promises.
THEOREM LinksAndSubscriptionsHold ==
    Linking!Spec /\ Subscriptions!Spec => []LinksAndSubscriptionsAreSound
BY LinksAreSound, SubscriptionsHold, PTL DEF LinksAndSubscriptionsAreSound

=============================================================================
