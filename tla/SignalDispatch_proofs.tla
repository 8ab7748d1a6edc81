------------------------ MODULE SignalDispatch_proofs ------------------------
(***************************************************************************)
(* Proofs about SignalDispatch, for every number of events, subscriptions  *)
(* and dispatchers, every page size and every bound on time and faults.    *)
(***************************************************************************)
EXTENDS SignalDispatch, TLAPS, FiniteSetTheorems, WellFoundedInduction

-----------------------------------------------------------------------------
(***************************************************************************)
(* The inductive invariant.  The fan-out of an event is spread over many   *)
(* transactions of several dispatchers, and users and connections change   *)
(* in between; what a page may rely on is that everything before the       *)
(* cursor has been dealt with, and that what an event asks about a         *)
(* subscription, its state and connection at the occurrence, cannot change *)
(* unless a change came late.                                              *)
(***************************************************************************)
FailedHasEvent == \A d \in Dispatchers : pc[d] = "failed" => current[d] \in Events

\* Subscriptions of the event that the cursor has passed.
Passed(e) == {s \in Subs : s <= dispatch[e].cursor /\ WantedAt(s, occurredAt[e])}

NothingLate(e) == \A s \in Subs : <<e, s>> \notin late

RowCounts(e) ==
    /\ dispatch[e].created = Cardinality(JobsOf(e))
    /\ \A s \in JobsOf(e) : s <= dispatch[e].cursor
    /\ NothingLate(e) => dispatch[e].created + dispatch[e].skipped = Cardinality(Passed(e))
    /\ ~Exists(e) => /\ dispatch[e].cursor = 0
                     /\ dispatch[e].created = 0
                     /\ dispatch[e].skipped = 0

\* What is known of a subscription for which nothing came late.
Settled(e, s) ==
    /\ s \in entitled[e] => WantedAt(s, occurredAt[e])
    /\ WantedAt(s, occurredAt[e]) /\ HasDestination(e, s) => s \in entitled[e]
    /\ s \in entitled[e] /\ s <= dispatch[e].cursor /\ HasDestination(e, s) => <<e, s>> \in jobs
    /\ dispatch[e].status = "completed" /\ WantedAt(s, occurredAt[e]) => s <= dispatch[e].cursor
    /\ <<e, s>> \in jobs => s \in entitled[e]

IInv ==
    /\ TypeOK
    /\ FailedHasEvent
    /\ \A e \in Events : RowCounts(e)
    /\ \A e \in Events : \A s \in Subs : <<e, s>> \notin late => Settled(e, s)

-----------------------------------------------------------------------------
(***************************************************************************)
(* The constants, and the numbers a finite set of subscriptions has.       *)
(***************************************************************************)

LEMMA BoundTypes ==
    /\ SubCount \in Nat
    /\ BatchSize \in Nat /\ BatchSize > 0
    /\ MaxAttempts \in Nat /\ MaxAttempts > 0
    /\ MaxAge \in Nat
    /\ CommitLag \in Nat
    /\ MaxTime \in Nat
    /\ MaxEdits \in Nat
    /\ MaxFaults \in Nat
    /\ NoEvent \notin Events
BY DispatchAssumption DEF DispatchAssumption

LEMMA SubsetsAreFinite ==
    ASSUME NEW S \in SUBSET Subs
    PROVE  IsFiniteSet(S) /\ Cardinality(S) \in Nat
<1>1. IsFiniteSet(Subs)
      BY BoundTypes, FS_Interval DEF Subs
<1>2. IsFiniteSet(S)
      BY <1>1, FS_Subset
<1>3. QED
      BY <1>2, FS_CardinalityType

LEMMA DisjointCount ==
    ASSUME NEW S \in SUBSET Subs, NEW T \in SUBSET Subs, S \intersect T = {}
    PROVE  Cardinality(S \union T) = Cardinality(S) + Cardinality(T)
<1>1. IsFiniteSet(S) /\ IsFiniteSet(T)
      BY SubsetsAreFinite
<1>2. Cardinality(S \intersect T) = 0
      BY FS_EmptySet
<1>3. Cardinality(S) \in Nat /\ Cardinality(T) \in Nat
      BY SubsetsAreFinite
<1>4. Cardinality(S \union T)
         = Cardinality(S) + Cardinality(T) - Cardinality(S \intersect T)
      BY <1>1, FS_Union
<1>5. QED
      BY <1>2, <1>3, <1>4

LEMMA Smallest ==
    ASSUME NEW S \in SUBSET Nat, S # {}
    PROVE  \E m \in S : \A k \in S : m <= k
<1>1. PICK m \in S : \A k \in S : ~(<<k, m>> \in OpToRel(<, Nat))
      BY NatLessThanWellFounded, WFMin
<1>2. ASSUME NEW k \in S PROVE m <= k
  <2>1. m \in Nat /\ k \in Nat
        OBVIOUS
  <2>2. k < m => <<k, m>> \in OpToRel(<, Nat)
        BY <2>1 DEF OpToRel
  <2>3. ~(k < m)
        BY <1>1, <2>2, Zenon
  <2>4. QED
        BY <2>1, <2>3
<1>3. QED
      BY <1>2

LEMMA Largest ==
    ASSUME NEW n \in Nat, NEW S \in SUBSET (1..n), S # {}
    PROVE  \E m \in S : \A k \in S : k <= m
<1> DEFINE T == {i \in Nat : n - i \in S}
<1>1. \A k \in S : n - k \in T
  <2> SUFFICES ASSUME NEW k \in S PROVE n - k \in T
      OBVIOUS
  <2>1. n - k \in Nat /\ n - (n - k) = k
        OBVIOUS
  <2>2. QED
        BY <2>1
<1>2. PICK i \in T : \A k \in T : i <= k
  <2>1. T \in SUBSET Nat /\ T # {}
        BY <1>1
  <2>2. QED
        BY <2>1, Smallest
<1>3. ASSUME NEW k \in S PROVE k <= n - i
      BY <1>1, <1>2
<1>4. QED
      BY <1>2, <1>3

LEMMA GreatestIsLargest ==
    ASSUME NEW S \in SUBSET Subs, S # {}
    PROVE  Greatest(S) \in S /\ \A r \in S : r <= Greatest(S)
<1>1. \E s \in S : \A r \in S : r <= s
      BY Largest, BoundTypes DEF Subs
<1>2. QED
      BY <1>1 DEF Greatest

-----------------------------------------------------------------------------
(***************************************************************************)
(* A page: list_eligible_signal_subscriptions orders by id, so what comes  *)
(* before a member of the page and after the cursor is on the page too,    *)
(* and an empty page means that nothing is left.                           *)
(***************************************************************************)
After(e) == {s \in Eligible(e) : s > dispatch[e].cursor}

LEMMA PageIsAfterCursor ==
    ASSUME NEW e
    PROVE  /\ PageOf(e) \subseteq After(e)
           /\ After(e) \subseteq Eligible(e)
           /\ Eligible(e) \subseteq Subs
           /\ \A s \in PageOf(e) : WantedAt(s, occurredAt[e]) /\ s > dispatch[e].cursor
BY DEF PageOf, After, Eligible

LEMMA PageHasNoGaps ==
    ASSUME NEW e, NEW s \in PageOf(e), NEW q \in After(e), q <= s
    PROVE  q \in PageOf(e)
<1> DEFINE Before(x) == {r \in After(e) : r < x}
<1>1. After(e) \in SUBSET Subs /\ s \in Subs /\ q \in Subs
      BY PageIsAfterCursor
<1>2. Before(s) \in SUBSET Subs /\ Before(q) \in SUBSET Subs
      BY <1>1
<1>3. Before(q) \subseteq Before(s)
      BY <1>1, BoundTypes DEF Subs
<1>4. /\ Cardinality(Before(q)) \in Nat /\ Cardinality(Before(s)) \in Nat
      /\ Cardinality(Before(q)) <= Cardinality(Before(s))
      BY <1>2, <1>3, SubsetsAreFinite, FS_Subset
<1>5. Cardinality(Before(s)) < BatchSize
      BY DEF PageOf, After
<1>6. Cardinality(Before(q)) < BatchSize
      BY <1>4, <1>5, BoundTypes
<1>7. QED
      BY <1>6 DEF PageOf, After

LEMMA EmptyPageIsLast ==
    ASSUME NEW e, PageOf(e) = {}
    PROVE  After(e) = {}
<1> SUFFICES ASSUME After(e) # {} PROVE FALSE
    OBVIOUS
<1>1. After(e) \in SUBSET Nat
      BY PageIsAfterCursor, BoundTypes DEF Subs
<1>2. PICK m \in After(e) : \A k \in After(e) : m <= k
      BY <1>1, Smallest
<1>3. {r \in After(e) : r < m} = {}
      BY <1>1, <1>2
<1>4. Cardinality({r \in After(e) : r < m}) < BatchSize
      BY <1>3, FS_EmptySet, BoundTypes
<1>5. m \in PageOf(e)
      BY <1>4 DEF PageOf, After
<1>6. QED
      BY <1>5

\* What the page adds to what the cursor has passed.
LEMMA PageAdvances ==
    ASSUME NEW e \in Events, dispatch[e].cursor \in 0..SubCount, PageOf(e) # {}
    PROVE  /\ Greatest(PageOf(e)) \in Subs
           /\ dispatch[e].cursor < Greatest(PageOf(e))
           /\ \A s \in PageOf(e) : s <= Greatest(PageOf(e))
           /\ {s \in Subs : s <= Greatest(PageOf(e)) /\ WantedAt(s, occurredAt[e])}
                 = Passed(e) \union PageOf(e)
<1> DEFINE g == Greatest(PageOf(e))
<1>1. PageOf(e) \in SUBSET Subs
      BY PageIsAfterCursor
<1>2. g \in PageOf(e) /\ \A s \in PageOf(e) : s <= g
      BY <1>1, GreatestIsLargest
<1>3. dispatch[e].cursor < g /\ g \in Subs
      BY <1>1, <1>2, PageIsAfterCursor
<1> HIDE DEF g
<1>4. ASSUME NEW s \in Subs, s <= g, WantedAt(s, occurredAt[e]), s > dispatch[e].cursor
      PROVE  s \in PageOf(e)
      BY <1>2, <1>4, PageHasNoGaps DEF After, Eligible
<1>5. ASSUME NEW s \in Subs
      PROVE  s <= g /\ WantedAt(s, occurredAt[e]) <=> s \in Passed(e) \union PageOf(e)
  <2>1. s \in Nat /\ g \in Nat /\ dispatch[e].cursor \in Nat
        BY <1>3, BoundTypes DEF Subs
  <2>2. QED
        BY <1>2, <1>3, <1>4, <2>1, PageIsAfterCursor DEF Passed
<1>6. Passed(e) \subseteq Subs
      BY DEF Passed
<1>7. QED
      BY <1>1, <1>2, <1>3, <1>5, <1>6 DEF g

-----------------------------------------------------------------------------
(***************************************************************************)
(* Types of the row transitions.                                           *)
(***************************************************************************)

LEMMA NoDispatchType == NoDispatch \in Dispatch
BY BoundTypes DEF NoDispatch, Dispatch, OpenStatuses, Terminal, Codes

LEMMA RowTransitionTypes ==
    ASSUME NEW r \in Dispatch
    PROVE  /\ Unlocked(r) \in Dispatch
           /\ \A status \in Terminal, code \in Codes : Terminated(r, status, code) \in Dispatch
           /\ [r EXCEPT !.stale = TRUE] \in Dispatch
           /\ [r EXCEPT !.due = TRUE] \in Dispatch
<1>1. Unlocked(r) \in Dispatch
      BY DEF Unlocked, Dispatch
<1>2. ASSUME NEW q \in Dispatch, NEW status \in Terminal, NEW code \in Codes
      PROVE  [q EXCEPT !.status = status, !.code = code] \in Dispatch
      BY <1>2 DEF Dispatch
<1>3. [r EXCEPT !.stale = TRUE] \in Dispatch /\ [r EXCEPT !.due = TRUE] \in Dispatch
      BY DEF Dispatch
<1>4. QED
      BY <1>1, <1>2, <1>3 DEF Terminated

LEMMA RetriedType ==
    ASSUME NEW r \in Dispatch
    PROVE  Retried(r) \in Dispatch
<1>1. "failed" \in Terminal /\ "attempts_exhausted" \in Codes
      BY DEF Terminal, Codes
<1>2. ASSUME NEW q \in Dispatch
      PROVE  [q EXCEPT !.status = "retry_wait", !.due = FALSE, !.code = "retry"] \in Dispatch
      BY <1>2 DEF Dispatch, OpenStatuses, Codes
<1>3. QED
      BY <1>1, <1>2, RowTransitionTypes DEF Retried

LEMMA SweptType ==
    ASSUME TypeOK, NEW e \in Events
    PROVE  Swept[e] \in Dispatch
<1>1. ASSUME NEW q \in Dispatch
      PROVE  [q EXCEPT !.status = "pending", !.due = TRUE, !.code = "claim_stale"] \in Dispatch
      BY <1>1 DEF Dispatch, OpenStatuses, Codes
<1>2. ASSUME NEW q \in Dispatch
      PROVE  [q EXCEPT !.status = "failed", !.code = "attempts_exhausted"] \in Dispatch
      BY <1>2 DEF Dispatch, Terminal, Codes
<1>3. Recovered(dispatch[e]) \in Dispatch
      BY <1>1, RowTransitionTypes DEF Recovered, TypeOK
<1>4. Exhausted(Recovered(dispatch[e])) \in Dispatch
      BY <1>2, <1>3, RowTransitionTypes DEF Exhausted
<1>5. QED
      BY <1>4 DEF Swept

LEMMA ClaimRowsType ==
    ASSUME TypeOK, NEW d \in Dispatchers, NEW S, ClaimBatch(S)
    PROVE  ClaimRows(S, d) \in [Events -> Dispatch]
<1>1. ASSUME NEW e \in S PROVE e \in Events /\ Swept[e].attempts < MaxAttempts
      BY <1>1 DEF ClaimBatch
<1>2. ASSUME NEW r \in Dispatch, r.attempts < MaxAttempts
      PROVE  Claimed(r, d) \in Dispatch
  <2>1. r.attempts + 1 \in 0..MaxAttempts
        BY <1>2, BoundTypes DEF Dispatch
  <2>2. Claimed(r, d) = [r EXCEPT !.status = "processing", !.lockedBy = d,
                                  !.stale = FALSE, !.attempts = r.attempts + 1]
        BY DEF Claimed
  <2>3. QED
        BY <2>1, <2>2 DEF Dispatch, OpenStatuses
<1>3. QED
      BY <1>1, <1>2, SweptType DEF ClaimRows

\* The row a page leaves behind.
LEMMA FannedOutType ==
    ASSUME TypeOK, NEW e \in Events, PageOf(e) # {},
           NEW new \in SUBSET PageOf(e), NEW skipped \in SUBSET PageOf(e)
    PROVE  LET r == FannedOut(e, PageOf(e), new, skipped)
           IN  /\ r \in Dispatch
               /\ r.status = dispatch[e].status
               /\ r.cursor = Greatest(PageOf(e))
               /\ r.created = dispatch[e].created + Cardinality(new)
               /\ r.skipped = dispatch[e].skipped + Cardinality(skipped)
<1> DEFINE code == IF skipped # {} /\ dispatch[e].code = "none"
                   THEN "destination_unavailable" ELSE dispatch[e].code
           g == Greatest(PageOf(e))
           n == dispatch[e].created + Cardinality(new)
           k == dispatch[e].skipped + Cardinality(skipped)
<1>1. dispatch[e] \in Dispatch
      BY DEF TypeOK
<1>2. PageOf(e) \in SUBSET Subs
      BY PageIsAfterCursor
<1>3. g \in 0..SubCount
      BY <1>2, GreatestIsLargest, BoundTypes DEF Subs
<1>4. n \in Nat /\ k \in Nat
      BY <1>1, <1>2, SubsetsAreFinite DEF Dispatch
<1>5. code \in Codes
      BY <1>1 DEF Dispatch, Codes
<1>6. FannedOut(e, PageOf(e), new, skipped)
         = [dispatch[e] EXCEPT !.cursor = g, !.created = n, !.skipped = k, !.code = code]
      BY <1>1 DEF FannedOut, Dispatch
<1> HIDE DEF g, n, k, code
<1>7. QED
      BY <1>1, <1>3, <1>4, <1>5, <1>6 DEF Dispatch, g, n, k

-----------------------------------------------------------------------------
(***************************************************************************)
(* Type correctness.                                                       *)
(***************************************************************************)

LEMMA InitTypes == Init => TypeOK /\ FailedHasEvent
<1> SUFFICES ASSUME Init PROVE TypeOK /\ FailedHasEvent
    OBVIOUS
<1>1. history \in [Subs -> Seq([at : 0..MaxTime, wanted : BOOLEAN])]
  <2>1. <<[at |-> 0, wanted |-> TRUE]>> \in Seq([at : 0..MaxTime, wanted : BOOLEAN])
        BY BoundTypes
  <2>2. <<>> \in Seq([at : 0..MaxTime, wanted : BOOLEAN])
        OBVIOUS
  <2>3. QED
        BY <2>1, <2>2 DEF Init
<1>2. conn \in [Subs -> [status : ConnStatuses, since : 0..MaxTime]]
      BY BoundTypes DEF Init, ConnStatuses
<1>3. dispatch \in [Events -> Dispatch]
      BY NoDispatchType DEF Init
<1>4. /\ occurredAt \in [Events -> -1..MaxTime]
      /\ entitled \in [Events -> SUBSET Subs]
      /\ now \in 0..MaxTime /\ edits \in 0..MaxEdits /\ faults \in 0..MaxFaults
      BY BoundTypes DEF Init
<1>5. /\ pc \in [Dispatchers -> {"down", "polling", "working", "failed"}]
      /\ batch \in [Dispatchers -> SUBSET Events]
      /\ current \in [Dispatchers -> Events \union {NoEvent}]
      /\ FailedHasEvent
      BY DEF Init, FailedHasEvent
<1>6. invalidated \subseteq Events /\ jobs \subseteq Events \X Subs /\ late \subseteq Events \X Subs
      BY DEF Init
<1>7. QED
      BY <1>1, <1>2, <1>3, <1>4, <1>5, <1>6 DEF TypeOK

LEMMA SkipReasonType == ASSUME NEW e PROVE SkipReason(e) \in Codes
BY DEF SkipReason, Codes

-----------------------------------------------------------------------------
(***************************************************************************)
(* What each kind of step touches, by groups of variables.                 *)
(***************************************************************************)

LEMMA UserSteps ==
    [Next]_vars => \/ \E s \in Subs : ChangeState(s) \/ Connect(s) \/ LoseConnection(s)
                   \/ UNCHANGED <<history, conn, late>>
BY DEF Next, DispatcherStep, Page, Tick, CreateSignalEvent, Invalidate, LockAges,
       BecomesDue, Start, Claim, ClaimAcknowledgementLost, PageNotOwned, PageSkips,
       PageCompletes, PageFansOut, PageFails, ScheduleRetry, RetryRecordingFails, Crash,
       vars, envVars

LEMMA EventSteps ==
    [Next]_vars => \/ \E e \in Events : CreateSignalEvent(e)
                   \/ /\ UNCHANGED <<occurredAt, entitled>>
                      /\ \/ \E e \in Events : invalidated' = invalidated \union {e}
                         \/ UNCHANGED invalidated
BY DEF Next, DispatcherStep, Page, Tick, ChangeState, Connect, LoseConnection,
       Invalidate, LockAges, BecomesDue, Start, Claim, ClaimAcknowledgementLost,
       PageNotOwned, PageSkips, PageCompletes, PageFansOut, PageFails, ScheduleRetry,
       RetryRecordingFails, Crash, vars, eventVars

LEMMA CounterSteps ==
    [Next]_vars => /\ now' = now \/ (now < MaxTime /\ now' = now + 1)
                   /\ edits' = edits \/ (edits < MaxEdits /\ edits' = edits + 1)
                   /\ faults' = faults \/ (faults < MaxFaults /\ faults' = faults + 1)
<1>1. [Next]_vars => UNCHANGED now \/ Tick
      BY DEF Next, DispatcherStep, Page, ChangeState, Connect, LoseConnection,
             CreateSignalEvent, Invalidate, LockAges, BecomesDue, Start, Claim,
             ClaimAcknowledgementLost, PageNotOwned, PageSkips, PageCompletes,
             PageFansOut, PageFails, ScheduleRetry, RetryRecordingFails, Crash,
             vars, envVars
<1>2. [Next]_vars => \/ UNCHANGED edits
                     \/ \E s \in Subs : ChangeState(s) \/ Connect(s) \/ LoseConnection(s)
                     \/ \E e \in Events : Invalidate(e)
      BY DEF Next, DispatcherStep, Page, Tick, CreateSignalEvent, LockAges,
             BecomesDue, Start, Claim, ClaimAcknowledgementLost, PageNotOwned,
             PageSkips, PageCompletes, PageFansOut, PageFails, ScheduleRetry,
             RetryRecordingFails, Crash, vars, envVars
<1>3. [Next]_vars => \/ UNCHANGED faults
                     \/ \E d \in Dispatchers : \/ ClaimAcknowledgementLost(d)
                                                \/ RetryRecordingFails(d) \/ Crash(d)
                     \/ \E d \in Dispatchers, e \in Events : PageFails(d, e)
      BY DEF Next, DispatcherStep, Page, Tick, ChangeState, Connect,
             LoseConnection, CreateSignalEvent, Invalidate, LockAges, BecomesDue,
             Start, Claim, PageNotOwned, PageSkips, PageCompletes, PageFansOut,
             ScheduleRetry, vars, envVars
<1>4. [Next]_vars => now' = now \/ (now < MaxTime /\ now' = now + 1)
      BY <1>1 DEF Tick
<1>5. [Next]_vars => edits' = edits \/ (edits < MaxEdits /\ edits' = edits + 1)
      BY <1>2 DEF ChangeState, Connect, LoseConnection, Invalidate
<1>6. [Next]_vars => faults' = faults \/ (faults < MaxFaults /\ faults' = faults + 1)
      BY <1>3 DEF ClaimAcknowledgementLost, RetryRecordingFails, Crash, PageFails
<1>7. QED
      BY <1>4, <1>5, <1>6

\* A claim, acknowledged or not, of the rows S.
ClaimStep(d) == \E S \in SUBSET Events : ClaimBatch(S) /\ dispatch' = ClaimRows(S, d)

LEMMA WriteSteps ==
    [Next]_vars =>
        \/ \E e \in Events : CreateSignalEvent(e)
        \/ \E e \in Events : LockAges(e) \/ BecomesDue(e)
        \/ UNCHANGED jobs /\ \E d \in Dispatchers : ClaimStep(d)
        \/ \E d \in Dispatchers, e \in Events :
              PageSkips(d, e) \/ PageCompletes(d, e) \/ PageFansOut(d, e)
        \/ \E d \in Dispatchers : ScheduleRetry(d)
        \/ UNCHANGED <<dispatch, jobs>>
BY DEF Next, DispatcherStep, Page, Tick, ChangeState, Connect, LoseConnection,
       Invalidate, Start, Claim, ClaimAcknowledgementLost, ClaimStep, PageNotOwned,
       PageFails, RetryRecordingFails, Crash, vars

DispatcherTypes ==
    /\ pc \in [Dispatchers -> {"down", "polling", "working", "failed"}]
    /\ batch \in [Dispatchers -> SUBSET Events]
    /\ current \in [Dispatchers -> Events \union {NoEvent}]
    /\ FailedHasEvent

LEMMA StepDispatcherTypes == DispatcherTypes /\ [Next]_vars => DispatcherTypes'
<1> SUFFICES ASSUME DispatcherTypes, [Next]_vars PROVE DispatcherTypes'
    OBVIOUS
<1> USE DEF DispatcherTypes, FailedHasEvent
<1>1. ASSUME NEW d \in Dispatchers, NEW e \in Events, Leave(d, e) PROVE DispatcherTypes'
      BY <1>1 DEF Leave
<1>2. ASSUME NEW d \in Dispatchers, Start(d) \/ Crash(d) PROVE DispatcherTypes'
      BY <1>2 DEF Start, Crash
<1>3. ASSUME NEW d \in Dispatchers, Claim(d) PROVE DispatcherTypes'
      BY <1>3 DEF Claim
<1>4. ASSUME NEW d \in Dispatchers, NEW e \in Events, PageFansOut(d, e) \/ PageFails(d, e)
      PROVE  DispatcherTypes'
      BY <1>4 DEF PageFansOut, PageFails
<1>5. ASSUME NEW d \in Dispatchers, ScheduleRetry(d) \/ RetryRecordingFails(d)
      PROVE  DispatcherTypes'
      BY <1>1, <1>5 DEF ScheduleRetry, RetryRecordingFails
<1>6. CASE UNCHANGED dispatcherVars
      BY <1>6 DEF dispatcherVars
<1>7. \/ \E d \in Dispatchers : \/ Start(d) \/ Crash(d) \/ Claim(d)
                                \/ ScheduleRetry(d) \/ RetryRecordingFails(d)
      \/ \E d \in Dispatchers, e \in Events :
            Leave(d, e) \/ PageFansOut(d, e) \/ PageFails(d, e)
      \/ UNCHANGED dispatcherVars
      BY DEF Next, DispatcherStep, Page, Tick, ChangeState, Connect, LoseConnection,
             CreateSignalEvent, Invalidate, LockAges, BecomesDue, PageNotOwned,
             PageSkips, PageCompletes, ClaimAcknowledgementLost, vars
<1>8. QED
      BY <1>1, <1>2, <1>3, <1>4, <1>5, <1>6, <1>7

LEMMA StepUserTypes ==
    ASSUME TypeOK, [Next]_vars
    PROVE  /\ history' \in [Subs -> Seq([at : 0..MaxTime, wanted : BOOLEAN])]
           /\ conn' \in [Subs -> [status : ConnStatuses, since : 0..MaxTime]]
           /\ late' \subseteq Events \X Subs
<1> DEFINE Goal == /\ history' \in [Subs -> Seq([at : 0..MaxTime, wanted : BOOLEAN])]
                   /\ conn' \in [Subs -> [status : ConnStatuses, since : 0..MaxTime]]
                   /\ late' \subseteq Events \X Subs
<1>1. /\ history \in [Subs -> Seq([at : 0..MaxTime, wanted : BOOLEAN])]
      /\ conn \in [Subs -> [status : ConnStatuses, since : 0..MaxTime]]
      /\ late \subseteq Events \X Subs
      /\ now \in 0..MaxTime
      BY DEF TypeOK
<1>2. ASSUME NEW s \in Subs, NEW t PROVE LateFor(s, t) \subseteq Events \X Subs
      BY DEF LateFor
<1>3. ASSUME NEW s \in Subs, ChangeState(s) PROVE Goal
  <2>1. PICK t \in Stamps(LastChange(s)), wanted \in BOOLEAN :
            /\ history' = [history EXCEPT ![s] = Append(@, [at |-> t, wanted |-> wanted])]
            /\ late' = late \union LateFor(s, t)
        BY <1>3 DEF ChangeState
  <2>2. t \in 0..MaxTime
        BY <1>1, BoundTypes DEF Stamps
  <2> DEFINE Entry == [at : 0..MaxTime, wanted : BOOLEAN]
             new == [at |-> t, wanted |-> wanted]
  <2>3. Append(history[s], new) \in Seq(Entry)
    <3>1. new \in Entry /\ history[s] \in Seq(Entry)
          BY <1>1, <2>2
    <3> HIDE DEF new, Entry
    <3>2. QED
          BY <3>1
  <2>4. history' \in [Subs -> Seq([at : 0..MaxTime, wanted : BOOLEAN])]
        BY <1>1, <2>1, <2>3
  <2>5. QED
        BY <1>1, <1>2, <1>3, <2>1, <2>4 DEF ChangeState
<1>4. ASSUME NEW s \in Subs, Connect(s) PROVE Goal
  <2>1. PICK t \in Stamps(conn[s].since) :
            /\ conn' = [conn EXCEPT ![s] = [status |-> "connected", since |-> t]]
            /\ late' = late \union LateFor(s, t)
        BY <1>4 DEF Connect
  <2>2. t \in 0..MaxTime
        BY <1>1, BoundTypes DEF Stamps
  <2>3. conn' \in [Subs -> [status : ConnStatuses, since : 0..MaxTime]]
        BY <1>1, <2>1, <2>2 DEF ConnStatuses
  <2>4. QED
        BY <1>1, <1>2, <1>4, <2>1, <2>3 DEF Connect
<1>5. ASSUME NEW s \in Subs, LoseConnection(s) PROVE Goal
      BY <1>1, <1>5 DEF LoseConnection, ConnStatuses
<1>6. QED
      BY <1>1, <1>3, <1>4, <1>5, UserSteps

LEMMA StepEventTypes ==
    ASSUME TypeOK, [Next]_vars
    PROVE  /\ occurredAt' \in [Events -> -1..MaxTime]
           /\ entitled' \in [Events -> SUBSET Subs]
           /\ invalidated' \subseteq Events
<1>1. ASSUME NEW e \in Events, CreateSignalEvent(e)
      PROVE  /\ occurredAt' \in [Events -> -1..MaxTime]
             /\ entitled' \in [Events -> SUBSET Subs]
             /\ invalidated' \subseteq Events
  <2>1. PICK t \in 0..(now - 1) :
            /\ occurredAt' = [occurredAt EXCEPT ![e] = t]
            /\ entitled' = [entitled EXCEPT ![e] =
                  {s \in Subs : /\ WantedAt(s, t)
                                /\ conn[s].status = "connected"
                                /\ conn[s].since <= t}]
        BY <1>1 DEF CreateSignalEvent
  <2>2. t \in -1..MaxTime
        BY BoundTypes DEF TypeOK
  <2>3. QED
        BY <1>1, <2>1, <2>2 DEF TypeOK, CreateSignalEvent
<1>2. QED
      BY <1>1, EventSteps DEF TypeOK

LEMMA StepRowTypes ==
    ASSUME TypeOK, FailedHasEvent, [Next]_vars
    PROVE  dispatch' \in [Events -> Dispatch] /\ jobs' \subseteq Events \X Subs
<1> DEFINE Goal == dispatch' \in [Events -> Dispatch] /\ jobs' \subseteq Events \X Subs
<1>1. dispatch \in [Events -> Dispatch] /\ jobs \subseteq Events \X Subs
      BY DEF TypeOK
<1>2. ASSUME NEW e \in Events, NEW r \in Dispatch, dispatch' = [dispatch EXCEPT ![e] = r],
             UNCHANGED jobs
      PROVE  Goal
      BY <1>1, <1>2
<1>3. ASSUME NEW e \in Events, CreateSignalEvent(e) PROVE Goal
  <2>1. [NoDispatch EXCEPT !.status = "skipped", !.code = "backfill"] \in Dispatch
        BY NoDispatchType DEF Dispatch, Terminal, Codes
  <2>2. [NoDispatch EXCEPT !.status = "pending", !.due = TRUE] \in Dispatch
        BY NoDispatchType DEF Dispatch, OpenStatuses
  <2>3. QED
        BY <1>2, <1>3, <2>1, <2>2 DEF CreateSignalEvent
<1>4. ASSUME NEW e \in Events, LockAges(e) \/ BecomesDue(e) PROVE Goal
  <2>1. \/ dispatch' = [dispatch EXCEPT ![e] = [dispatch[e] EXCEPT !.stale = TRUE]]
        \/ dispatch' = [dispatch EXCEPT ![e] = [dispatch[e] EXCEPT !.due = TRUE]]
        BY <1>1, <1>4 DEF LockAges, BecomesDue
  <2>2. UNCHANGED jobs
        BY <1>4 DEF LockAges, BecomesDue
  <2>3. QED
        BY <1>1, <1>2, <2>1, <2>2, RowTransitionTypes
<1>5. ASSUME NEW d \in Dispatchers, ClaimStep(d), UNCHANGED jobs PROVE Goal
      BY <1>1, <1>5, ClaimRowsType DEF ClaimStep
<1>6. ASSUME NEW d \in Dispatchers, NEW e \in Events, PageSkips(d, e) \/ PageCompletes(d, e)
      PROVE  Goal
  <2>1. "skipped" \in Terminal /\ "completed" \in Terminal
        BY DEF Terminal
  <2>2. SkipReason(e) \in Codes /\ dispatch[e].code \in Codes
        BY <1>1, SkipReasonType DEF Dispatch
  <2>3. /\ UNCHANGED jobs
        /\ \/ dispatch' = [dispatch EXCEPT ![e] =
                              Terminated(dispatch[e], "skipped", SkipReason(e))]
           \/ dispatch' = [dispatch EXCEPT ![e] =
                              Terminated(dispatch[e], "completed", dispatch[e].code)]
        BY <1>1, <1>6 DEF PageSkips, PageCompletes
  <2>4. QED
        BY <1>1, <1>2, <2>1, <2>2, <2>3, RowTransitionTypes
<1>7. ASSUME NEW d \in Dispatchers, NEW e \in Events, PageFansOut(d, e) PROVE Goal
  <2> DEFINE reached == {s \in PageOf(e) : HasDestination(e, s)}
             new == {s \in reached : <<e, s>> \notin jobs}
  <2>1. /\ PageOf(e) # {}
        /\ jobs' = jobs \union {<<e, s>> : s \in reached}
        /\ dispatch' = [dispatch EXCEPT
              ![e] = FannedOut(e, PageOf(e), new, PageOf(e) \ reached)]
        BY <1>7 DEF PageFansOut
  <2>2. /\ reached \subseteq Subs
        /\ new \in SUBSET PageOf(e)
        /\ PageOf(e) \ reached \in SUBSET PageOf(e)
        BY PageIsAfterCursor
  <2> HIDE DEF new, reached
  <2>3. FannedOut(e, PageOf(e), new, PageOf(e) \ reached) \in Dispatch
        BY <2>1, <2>2, FannedOutType
  <2>4. QED
        BY <1>1, <2>1, <2>2, <2>3
<1>8. ASSUME NEW d \in Dispatchers, ScheduleRetry(d) PROVE Goal
  <2>1. current[d] \in Events
        BY <1>8 DEF ScheduleRetry, FailedHasEvent
  <2>2. /\ UNCHANGED jobs
        /\ \/ dispatch' = [dispatch EXCEPT ![current[d]] = Retried(dispatch[current[d]])]
           \/ dispatch' = [dispatch EXCEPT ![current[d]] = dispatch[current[d]]]
        BY <1>8 DEF ScheduleRetry
  <2>3. QED
        BY <1>1, <1>2, <2>1, <2>2, RetriedType
<1>9. QED
      BY <1>1, <1>3, <1>4, <1>5, <1>6, <1>7, <1>8, WriteSteps

LEMMA StepTypes == TypeOK /\ FailedHasEvent /\ [Next]_vars => TypeOK' /\ FailedHasEvent'
<1> SUFFICES ASSUME TypeOK, FailedHasEvent, [Next]_vars PROVE TypeOK' /\ FailedHasEvent'
    OBVIOUS
<1>1. DispatcherTypes
      BY DEF TypeOK, DispatcherTypes
<1>2. DispatcherTypes'
      BY <1>1, StepDispatcherTypes
<1>3. now' \in 0..MaxTime /\ edits' \in 0..MaxEdits /\ faults' \in 0..MaxFaults
      BY CounterSteps, BoundTypes DEF TypeOK
<1>4. QED
      BY <1>2, <1>3, StepUserTypes, StepEventTypes, StepRowTypes DEF TypeOK, DispatcherTypes

-----------------------------------------------------------------------------
(***************************************************************************)
(* What an event asks of a subscription.  A later stamp does not change    *)
(* the state at an earlier time; so the answer stays, or the change came   *)
(* late.                                                                   *)
(***************************************************************************)
Entry == [at : 0..MaxTime, wanted : BOOLEAN]

\* WantedAt, of the recorded changes themselves.
Wants(h, t) ==
    LET upTo == {i \in 1..Len(h) : h[i].at <= t}
    IN  upTo # {} /\ h[CHOOSE i \in upTo : \A k \in upTo : k <= i].wanted

LEMMA WantedIsWants ==
    ASSUME NEW e, NEW s
    PROVE  /\ WantedAt(s, occurredAt[e]) <=> Wants(history[s], occurredAt[e])
           /\ WantedAt(s, occurredAt[e])' <=> Wants(history'[s], occurredAt'[e])
BY DEF WantedAt, Wants

LEMMA LaterStampIsNotSeen ==
    ASSUME NEW h \in Seq(Entry), NEW r \in Entry, NEW t \in Int, t < r.at
    PROVE  Wants(Append(h, r), t) <=> Wants(h, t)
<1> DEFINE UpTo(q) == {i \in 1..Len(q) : q[i].at <= t}
           Last(S) == CHOOSE i \in S : \A k \in S : k <= i
<1>1. UpTo(Append(h, r)) = UpTo(h)
  <2>1. r.at \in Int
        BY BoundTypes DEF Entry
  <2>2. \A i \in 1..Len(h) : Append(h, r)[i] = h[i]
        OBVIOUS
  <2>3. Len(Append(h, r)) = Len(h) + 1 /\ Append(h, r)[Len(h) + 1] = r
        OBVIOUS
  <2>4. QED
        BY <2>1, <2>2, <2>3
<1>2. CASE UpTo(h) # {}
  <2>1. UpTo(h) \in SUBSET (1..Len(h)) /\ Len(h) \in Nat
        OBVIOUS
  <2>2. \E m \in UpTo(h) : \A k \in UpTo(h) : k <= m
        BY <1>2, <2>1, Largest
  <2>3. Last(UpTo(h)) \in UpTo(h)
        BY <2>2
  <2>4. Append(h, r)[Last(UpTo(h))] = h[Last(UpTo(h))]
        BY <2>3
  <2>5. QED
        BY <1>1, <2>4 DEF Wants
<1>3. CASE UpTo(h) = {}
      BY <1>1, <1>3 DEF Wants
<1>4. QED
      BY <1>2, <1>3

LEMMA WishStays ==
    ASSUME TypeOK, [Next]_vars, NEW e \in Events, NEW s \in Subs,
           occurredAt'[e] = occurredAt[e], <<e, s>> \notin late'
    PROVE  /\ <<e, s>> \notin late
           /\ WantedAt(s, occurredAt[e])' <=> WantedAt(s, occurredAt[e])
           /\ HasDestination(e, s)' => HasDestination(e, s)
<1> DEFINE Goal == /\ <<e, s>> \notin late
                   /\ Wants(history'[s], occurredAt[e]) <=> Wants(history[s], occurredAt[e])
                   /\ HasDestination(e, s)' => HasDestination(e, s)
<1>1. SUFFICES Goal
      BY WantedIsWants
<1>2. /\ occurredAt[e] \in Int
      /\ conn \in [Subs -> [status : ConnStatuses, since : 0..MaxTime]]
      /\ history[s] \in Seq(Entry)
  <2>1. occurredAt[e] \in Int
        BY BoundTypes DEF TypeOK
  <2>2. history[s] \in Seq(Entry)
        BY DEF TypeOK, Entry
  <2>3. QED
        BY <2>1, <2>2 DEF TypeOK
<1>3. ASSUME NEW q \in Subs, ChangeState(q) PROVE Goal
  <2>1. PICK t \in Stamps(LastChange(q)), wanted \in BOOLEAN :
            /\ history' = [history EXCEPT ![q] = Append(@, [at |-> t, wanted |-> wanted])]
            /\ late' = late \union LateFor(q, t)
        BY <1>3 DEF ChangeState
  <2>2. t \in 0..MaxTime
        BY BoundTypes DEF TypeOK, Stamps
  <2>3. HasDestination(e, s)' => HasDestination(e, s)
        BY <1>3 DEF ChangeState, HasDestination
  <2>4. CASE q = s
    <3>1. occurredAt[e] < t
          BY <1>2, <2>1, <2>2, <2>4 DEF LateFor
    <3>2. [at |-> t, wanted |-> wanted] \in Entry
          BY <2>2 DEF Entry
    <3>3. Wants(history'[s], occurredAt[e]) <=> Wants(history[s], occurredAt[e])
      <4> DEFINE r == [at |-> t, wanted |-> wanted]
      <4>1. history'[s] = Append(history[s], r)
            BY <2>1, <2>4 DEF TypeOK
      <4>2. r.at = t
            OBVIOUS
      <4> HIDE DEF r
      <4>3. QED
            BY <1>2, <3>1, <3>2, <4>1, <4>2, LaterStampIsNotSeen DEF r
    <3>4. QED
          BY <2>1, <2>3, <3>3
  <2>5. CASE q # s
        BY <2>1, <2>3, <2>5 DEF TypeOK
  <2>6. QED
        BY <2>4, <2>5
<1>4. ASSUME NEW q \in Subs, Connect(q) PROVE Goal
  <2>1. PICK t \in Stamps(conn[q].since) :
            /\ conn' = [conn EXCEPT ![q] = [status |-> "connected", since |-> t]]
            /\ late' = late \union LateFor(q, t)
        BY <1>4 DEF Connect
  <2>2. t \in 0..MaxTime
        BY BoundTypes DEF TypeOK, Stamps
  <2>3. history' = history
        BY <1>4 DEF Connect
  <2>4. CASE q = s
    <3>1. occurredAt[e] < t
          BY <1>2, <2>1, <2>2, <2>4 DEF LateFor
    <3>2. ~HasDestination(e, s)'
          BY <1>2, <2>1, <2>2, <2>4, <3>1, BoundTypes DEF HasDestination
    <3>3. QED
          BY <2>1, <2>3, <3>2
  <2>5. CASE q # s
        BY <1>2, <2>1, <2>3, <2>5 DEF HasDestination
  <2>6. QED
        BY <2>4, <2>5
<1>5. ASSUME NEW q \in Subs, LoseConnection(q) PROVE Goal
      BY <1>2, <1>5 DEF LoseConnection, HasDestination
<1>6. CASE UNCHANGED <<history, conn, late>>
      BY <1>6 DEF HasDestination
<1>7. QED
      BY <1>3, <1>4, <1>5, <1>6, UserSteps

-----------------------------------------------------------------------------
(***************************************************************************)
(* What a step does to the row and the jobs of one event: it keeps them,   *)
(* creates the row, completes it or fans a page out.                       *)
(***************************************************************************)
SameCounts(q, r) ==
    /\ q.cursor = r.cursor
    /\ q.created = r.created
    /\ q.skipped = r.skipped
    /\ q.status = "absent" <=> r.status = "absent"
    /\ q.status = "completed" <=> r.status = "completed"

LEMMA TransitionsKeepCounts ==
    ASSUME NEW r \in Dispatch, NEW d, NEW code
    PROVE  /\ r.status = "processing" => SameCounts(Terminated(r, "skipped", code), r)
           /\ r.status = "processing" => SameCounts(Retried(r), r)
           /\ r.status \in {"pending", "retry_wait"} => SameCounts(Claimed(r, d), r)
           /\ SameCounts([r EXCEPT !.stale = TRUE], r)
           /\ SameCounts([r EXCEPT !.due = TRUE], r)
<1>1. r.status = "processing" => SameCounts(Terminated(r, "skipped", code), r)
      BY DEF Terminated, Unlocked, Dispatch, SameCounts
<1>2. r.status = "processing" => SameCounts(Retried(r), r)
      BY DEF Retried, Terminated, Unlocked, Dispatch, SameCounts
<1>3. r.status \in {"pending", "retry_wait"} => SameCounts(Claimed(r, d), r)
      BY DEF Claimed, Dispatch, SameCounts
<1>4. SameCounts([r EXCEPT !.stale = TRUE], r) /\ SameCounts([r EXCEPT !.due = TRUE], r)
      BY DEF Dispatch, SameCounts
<1>5. QED
      BY <1>1, <1>2, <1>3, <1>4

LEMMA SweptKeepsCounts ==
    ASSUME TypeOK, NEW e \in Events
    PROVE  /\ SameCounts(Swept[e], dispatch[e])
           /\ Closed(e) => Swept[e] = dispatch[e]
<1> DEFINE r == dispatch[e]
<1>1. r \in Dispatch
      BY DEF TypeOK
<1>2. SameCounts(Recovered(r), r) /\ (Closed(e) => Recovered(r) = r)
      BY <1>1 DEF Recovered, Unlocked, Dispatch, SameCounts, Closed, Terminal
<1>3. Recovered(r) \in Dispatch
  <2>1. ASSUME NEW q \in Dispatch
        PROVE  [q EXCEPT !.status = "pending", !.due = TRUE, !.code = "claim_stale"]
                  \in Dispatch
        BY <2>1 DEF Dispatch, OpenStatuses, Codes
  <2>2. QED
        BY <1>1, <2>1, RowTransitionTypes DEF Recovered
<1>4. ASSUME NEW q \in Dispatch
      PROVE  /\ SameCounts(Exhausted(q), q)
             /\ q.status \in Terminal => Exhausted(q) = q
      BY <1>4 DEF Exhausted, Unlocked, Dispatch, SameCounts, Terminal
<1>5. Swept[e] = Exhausted(Recovered(r))
      BY DEF Swept
<1> HIDE DEF r
<1>6. QED
      BY <1>2, <1>3, <1>4, <1>5 DEF SameCounts, Closed, r

RowKept(e) ==
    /\ occurredAt'[e] = occurredAt[e]
    /\ entitled'[e] = entitled[e]
    /\ JobsOf(e)' = JobsOf(e)
    /\ SameCounts(dispatch'[e], dispatch[e])
    /\ Closed(e) => dispatch'[e] = dispatch[e]

RowCreated(e) ==
    /\ ~Exists(e)
    /\ UNCHANGED <<history, conn, late>>
    /\ occurredAt'[e] \in Nat
    /\ entitled'[e] = {s \in Subs : /\ WantedAt(s, occurredAt'[e])
                                    /\ conn[s].status = "connected"
                                    /\ conn[s].since <= occurredAt'[e]}
    /\ JobsOf(e)' = JobsOf(e)
    /\ dispatch'[e].status \notin {"absent", "completed"}
    /\ dispatch'[e].cursor = 0
    /\ dispatch'[e].created = 0
    /\ dispatch'[e].skipped = 0

RowCompleted(e) ==
    /\ dispatch[e].status = "processing"
    /\ UNCHANGED <<history, conn, late, occurredAt, entitled>>
    /\ PageOf(e) = {}
    /\ JobsOf(e)' = JobsOf(e)
    /\ dispatch'[e].status = "completed"
    /\ dispatch'[e].cursor = dispatch[e].cursor
    /\ dispatch'[e].created = dispatch[e].created
    /\ dispatch'[e].skipped = dispatch[e].skipped

Reached(e) == {s \in PageOf(e) : HasDestination(e, s)}

RowFannedOut(e) ==
    /\ dispatch[e].status = "processing"
    /\ UNCHANGED <<history, conn, late, occurredAt, entitled>>
    /\ PageOf(e) # {}
    /\ JobsOf(e)' = JobsOf(e) \union Reached(e)
    /\ dispatch'[e].status = "processing"
    /\ dispatch'[e].cursor = Greatest(PageOf(e))
    /\ dispatch'[e].created = dispatch[e].created + Cardinality(Reached(e) \ JobsOf(e))
    /\ dispatch'[e].skipped = dispatch[e].skipped + Cardinality(PageOf(e) \ Reached(e))

\* The steps that bring no fan-out further.
KeepingStep ==
    \/ \E f \in Events : LockAges(f) \/ BecomesDue(f)
    \/ UNCHANGED jobs /\ \E d \in Dispatchers : ClaimStep(d)
    \/ \E d \in Dispatchers, f \in Events : PageSkips(d, f)
    \/ \E d \in Dispatchers : ScheduleRetry(d)
    \/ UNCHANGED <<dispatch, jobs>>

LEMMA KeepingSteps ==
    ASSUME TypeOK, FailedHasEvent, KeepingStep, UNCHANGED <<occurredAt, entitled>>,
           NEW e \in Events
    PROVE  RowKept(e)
<1> DEFINE Goal == RowKept(e)
<1>1. dispatch \in [Events -> Dispatch] /\ jobs \subseteq Events \X Subs
      BY DEF TypeOK
<1>2. ASSUME UNCHANGED <<occurredAt, entitled, jobs>>,
             SameCounts(dispatch'[e], dispatch[e]),
             Closed(e) => dispatch'[e] = dispatch[e]
      PROVE  Goal
      BY <1>2 DEF RowKept, JobsOf
<1>3. ASSUME UNCHANGED <<occurredAt, entitled, jobs>>, dispatch'[e] = dispatch[e] PROVE Goal
      BY <1>2, <1>3 DEF SameCounts
<1>4. ASSUME NEW f \in Events, LockAges(f) \/ BecomesDue(f) PROVE Goal
  <2>1. UNCHANGED <<occurredAt, entitled, jobs>>
        BY <1>4 DEF LockAges, BecomesDue, eventVars
  <2>2. CASE f = e
    <3>1. /\ ~Closed(e)
          /\ \/ dispatch'[e] = [dispatch[e] EXCEPT !.stale = TRUE]
             \/ dispatch'[e] = [dispatch[e] EXCEPT !.due = TRUE]
          BY <1>1, <1>4, <2>2 DEF LockAges, BecomesDue, Closed, Terminal
    <3>2. QED
          BY <1>1, <1>2, <2>1, <3>1, TransitionsKeepCounts
  <2>3. CASE f # e
        BY <1>1, <1>3, <1>4, <2>1, <2>3 DEF LockAges, BecomesDue
  <2>4. QED
        BY <2>2, <2>3
<1>5. ASSUME NEW d \in Dispatchers, ClaimStep(d), UNCHANGED <<occurredAt, entitled, jobs>>
      PROVE  Goal
  <2>1. PICK S \in SUBSET Events : ClaimBatch(S) /\ dispatch' = ClaimRows(S, d)
        BY <1>5 DEF ClaimStep
  <2>2. SameCounts(Swept[e], dispatch[e]) /\ (Closed(e) => Swept[e] = dispatch[e])
        BY SweptKeepsCounts
  <2>3. CASE e \in S
    <3>1. Swept[e].status \in {"pending", "retry_wait"} /\ Swept[e] \in Dispatch
          BY <2>1, <2>3, SweptType DEF ClaimBatch
    <3>2. dispatch'[e] = Claimed(Swept[e], d)
          BY <2>1, <2>3 DEF ClaimRows
    <3>3. SameCounts(dispatch'[e], Swept[e])
          BY <3>1, <3>2, TransitionsKeepCounts
    <3>4. ~Closed(e)
          BY <2>2, <3>1 DEF Closed, Terminal
    <3>5. QED
          BY <1>2, <1>5, <2>2, <3>3, <3>4 DEF SameCounts
  <2>4. CASE e \notin S
    <3>1. dispatch'[e] = Swept[e]
          BY <2>1, <2>4 DEF ClaimRows
    <3>2. QED
          BY <1>2, <1>5, <2>2, <3>1
  <2>5. QED
        BY <2>3, <2>4
<1>6. ASSUME NEW d \in Dispatchers, NEW f \in Events, PageSkips(d, f) PROVE Goal
  <2>1. /\ UNCHANGED <<occurredAt, entitled, jobs>>
        /\ dispatch[f].status = "processing"
        /\ dispatch' = [dispatch EXCEPT
                           ![f] = Terminated(dispatch[f], "skipped", SkipReason(f))]
        BY <1>1, <1>6 DEF PageSkips, Owns, eventVars
  <2>2. CASE f = e
    <3>1. ~Closed(e)
          BY <2>1, <2>2 DEF Closed, Terminal
    <3>2. dispatch'[e] = Terminated(dispatch[e], "skipped", SkipReason(e))
          BY <1>1, <2>1, <2>2
    <3>3. QED
          BY <1>1, <1>2, <2>1, <2>2, <3>1, <3>2, TransitionsKeepCounts
  <2>3. CASE f # e
        BY <1>1, <1>3, <2>1, <2>3
  <2>4. QED
        BY <2>2, <2>3
<1>7. ASSUME NEW d \in Dispatchers, ScheduleRetry(d) PROVE Goal
  <2>1. /\ UNCHANGED <<occurredAt, entitled, jobs>>
        /\ current[d] \in Events
        /\ dispatch' = [dispatch EXCEPT ![current[d]] =
              IF Owns(d, current[d]) THEN Retried(dispatch[current[d]])
                                     ELSE dispatch[current[d]]]
        BY <1>7 DEF ScheduleRetry, eventVars, FailedHasEvent
  <2>2. CASE current[d] = e /\ Owns(d, e)
    <3>1. dispatch[e].status = "processing" /\ ~Closed(e)
          BY <2>2 DEF Owns, Closed, Terminal
    <3>2. dispatch'[e] = Retried(dispatch[e])
          BY <1>1, <2>1, <2>2
    <3>3. QED
          BY <1>1, <1>2, <2>1, <3>1, <3>2, TransitionsKeepCounts
  <2>3. CASE ~(current[d] = e /\ Owns(d, e))
    <3>1. dispatch'[e] = dispatch[e]
          BY <1>1, <2>1, <2>3
    <3>2. QED
          BY <1>3, <2>1, <3>1
  <2>4. QED
        BY <2>2, <2>3
<1>8. CASE UNCHANGED <<dispatch, jobs>>
      BY <1>3, <1>8
<1>9. QED
      BY <1>4, <1>5, <1>6, <1>7, <1>8 DEF KeepingStep

LEMMA RowSteps ==
    ASSUME TypeOK, FailedHasEvent, [Next]_vars, NEW e \in Events
    PROVE  RowKept(e) \/ RowCreated(e) \/ RowCompleted(e) \/ RowFannedOut(e)
<1> DEFINE Goal == RowKept(e) \/ RowCreated(e) \/ RowCompleted(e) \/ RowFannedOut(e)
<1>1. dispatch \in [Events -> Dispatch] /\ jobs \subseteq Events \X Subs
      BY DEF TypeOK
<1>2. ASSUME NEW f \in Events, CreateSignalEvent(f) PROVE Goal
  <2>1. PICK t \in 0..(now - 1) :
            /\ occurredAt' = [occurredAt EXCEPT ![f] = t]
            /\ entitled' = [entitled EXCEPT ![f] =
                  {s \in Subs : /\ WantedAt(s, t)
                                /\ conn[s].status = "connected"
                                /\ conn[s].since <= t}]
        BY <1>2 DEF CreateSignalEvent
  <2>2. UNCHANGED <<history, conn, late, jobs>> /\ JobsOf(e)' = JobsOf(e)
        BY <1>2 DEF CreateSignalEvent, envVars, JobsOf
  <2>3. CASE f = e
    <3>1. /\ dispatch'[e].status \notin {"absent", "completed"}
          /\ dispatch'[e].cursor = 0
          /\ dispatch'[e].created = 0
          /\ dispatch'[e].skipped = 0
          BY <1>1, <1>2, <2>3 DEF CreateSignalEvent, NoDispatch
    <3>2. occurredAt'[e] = t /\ t \in Nat
          BY <2>1, <2>3 DEF TypeOK
    <3>3. entitled'[e] = {s \in Subs : /\ WantedAt(s, t)
                                       /\ conn[s].status = "connected"
                                       /\ conn[s].since <= t}
          BY <2>1, <2>3 DEF TypeOK
    <3>4. ~Exists(e)
          BY <1>2, <2>3 DEF CreateSignalEvent
    <3>5. QED
          BY <2>2, <3>1, <3>2, <3>3, <3>4 DEF RowCreated
  <2>4. CASE f # e
    <3>1. /\ occurredAt'[e] = occurredAt[e] /\ entitled'[e] = entitled[e]
          /\ dispatch'[e] = dispatch[e]
          BY <1>2, <2>1, <2>4 DEF CreateSignalEvent, TypeOK
    <3>2. QED
          BY <2>2, <3>1 DEF RowKept, SameCounts
  <2>5. QED
        BY <2>3, <2>4
<1>3. ASSUME NEW d \in Dispatchers, NEW f \in Events, PageCompletes(d, f) PROVE Goal
  <2>1. /\ UNCHANGED <<history, conn, late, occurredAt, entitled, jobs>>
        /\ dispatch[f].status = "processing"
        /\ PageOf(f) = {}
        /\ dispatch' = [dispatch EXCEPT
                           ![f] = Terminated(dispatch[f], "completed", dispatch[f].code)]
        BY <1>1, <1>3 DEF PageCompletes, Owns, envVars, eventVars
  <2>2. CASE f = e
    <3>1. dispatch'[e] = Terminated(dispatch[e], "completed", dispatch[e].code)
          BY <1>1, <2>1, <2>2
    <3>2. /\ dispatch'[e].status = "completed"
          /\ dispatch'[e].cursor = dispatch[e].cursor
          /\ dispatch'[e].created = dispatch[e].created
          /\ dispatch'[e].skipped = dispatch[e].skipped
          BY <1>1, <3>1 DEF Terminated, Unlocked, Dispatch
    <3>3. JobsOf(e)' = JobsOf(e)
          BY <2>1 DEF JobsOf
    <3>4. QED
          BY <2>1, <2>2, <3>2, <3>3 DEF RowCompleted
  <2>3. CASE f # e
        BY <1>1, <2>1, <2>3 DEF RowKept, SameCounts, JobsOf
  <2>4. QED
        BY <2>2, <2>3
<1>4. ASSUME NEW d \in Dispatchers, NEW f \in Events, PageFansOut(d, f) PROVE Goal
  <2> DEFINE new == {s \in Reached(f) : <<f, s>> \notin jobs}
  <2>1. /\ UNCHANGED <<history, conn, late, occurredAt, entitled>>
        /\ dispatch[f].status = "processing"
        /\ PageOf(f) # {}
        /\ jobs' = jobs \union {<<f, s>> : s \in Reached(f)}
        /\ dispatch' = [dispatch EXCEPT
              ![f] = FannedOut(f, PageOf(f), new, PageOf(f) \ Reached(f))]
        BY <1>4 DEF PageFansOut, Reached, Owns, envVars, eventVars
  <2>2. CASE f = e
    <3>1. /\ Reached(e) \subseteq Subs
          /\ new \in SUBSET PageOf(e)
          /\ PageOf(e) \ Reached(e) \in SUBSET PageOf(e)
          BY <2>2, PageIsAfterCursor DEF Reached
    <3>2. new = Reached(e) \ JobsOf(e)
          BY <2>2, <3>1 DEF JobsOf
    <3>3. JobsOf(e)' = JobsOf(e) \union Reached(e)
          BY <2>1, <2>2, <3>1 DEF JobsOf
    <3> HIDE DEF new
    <3>4. dispatch'[e] = FannedOut(e, PageOf(e), new, PageOf(e) \ Reached(e))
          BY <1>1, <2>1, <2>2
    <3>5. /\ dispatch'[e].status = "processing"
          /\ dispatch'[e].cursor = Greatest(PageOf(e))
          /\ dispatch'[e].created = dispatch[e].created + Cardinality(new)
          /\ dispatch'[e].skipped = dispatch[e].skipped + Cardinality(PageOf(e) \ Reached(e))
      <4> DEFINE r == FannedOut(e, PageOf(e), new, PageOf(e) \ Reached(e))
      <4>1. /\ r.status = dispatch[e].status
            /\ r.cursor = Greatest(PageOf(e))
            /\ r.created = dispatch[e].created + Cardinality(new)
            /\ r.skipped = dispatch[e].skipped + Cardinality(PageOf(e) \ Reached(e))
            BY <2>1, <2>2, <3>1, FannedOutType
      <4>2. dispatch'[e] = r
            BY <3>4
      <4> HIDE DEF r
      <4>3. QED
            BY <2>1, <2>2, <4>1, <4>2
    <3>6. QED
          BY <2>1, <2>2, <3>2, <3>3, <3>5 DEF RowFannedOut
  <2>3. CASE f # e
    <3>1. JobsOf(e)' = JobsOf(e)
          BY <2>1, <2>3 DEF JobsOf
    <3>2. dispatch'[e] = dispatch[e]
          BY <1>1, <2>1, <2>3
    <3>3. QED
          BY <2>1, <3>1, <3>2 DEF RowKept, SameCounts
  <2>4. QED
        BY <2>2, <2>3
<1>5. CASE KeepingStep /\ UNCHANGED <<occurredAt, entitled>>
      BY <1>5, KeepingSteps
<1>6. \/ \E f \in Events : CreateSignalEvent(f)
      \/ UNCHANGED <<occurredAt, entitled>>
      BY EventSteps
<1>7. QED
      BY <1>2, <1>3, <1>4, <1>5, <1>6, WriteSteps DEF KeepingStep

-----------------------------------------------------------------------------
(***************************************************************************)
(* The invariant is inductive.                                             *)
(***************************************************************************)

LEMMA NobodyPassedAtZero == ASSUME NEW e, dispatch[e].cursor = 0 PROVE Cardinality(Passed(e)) = 0
<1>1. Passed(e) = {}
      BY BoundTypes DEF Passed, Subs
<1>2. QED
      BY <1>1, FS_EmptySet

LEMMA InitInv == Init => IInv
<1> SUFFICES ASSUME Init PROVE IInv
    OBVIOUS
<1>1. TypeOK /\ FailedHasEvent
      BY InitTypes
<1>2. ASSUME NEW e \in Events PROVE RowCounts(e)
  <2>1. dispatch[e] = NoDispatch /\ JobsOf(e) = {}
        BY DEF Init, JobsOf
  <2>2. Cardinality(Passed(e)) = 0
        BY <2>1, NobodyPassedAtZero DEF NoDispatch
  <2>3. QED
        BY <2>1, <2>2, FS_EmptySet DEF RowCounts, NoDispatch
<1>3. ASSUME NEW e \in Events, NEW s \in Subs PROVE Settled(e, s)
  <2>1. /\ entitled[e] = {} /\ occurredAt[e] = -1 /\ jobs = {} /\ dispatch[e] = NoDispatch
        /\ conn[s].since = 0
        BY DEF Init
  <2>2. QED
        BY <2>1 DEF Settled, HasDestination, NoDispatch
<1>4. QED
      BY <1>1, <1>2, <1>3 DEF IInv

\* What is known of a subscription stays known, or a change came late.
LEMMA StepSettled ==
    ASSUME IInv, [Next]_vars, NEW e \in Events, NEW s \in Subs, <<e, s>> \notin late'
    PROVE  Settled(e, s)'
<1>1. TypeOK /\ FailedHasEvent /\ RowCounts(e)
      BY DEF IInv
<1>2. JobsOf(e)' = {q \in Subs : <<e, q>> \in jobs'}
      BY DEF JobsOf
<1>3. CASE RowKept(e)
  <2>1. /\ <<e, s>> \notin late
        /\ WantedAt(s, occurredAt[e])' <=> WantedAt(s, occurredAt[e])
        /\ HasDestination(e, s)' => HasDestination(e, s)
        BY <1>1, <1>3, WishStays DEF RowKept
  <2>2. Settled(e, s)
        BY <2>1 DEF IInv
  <2>3. <<e, s>> \in jobs' <=> <<e, s>> \in jobs
        BY <1>2, <1>3 DEF RowKept, JobsOf
  <2>4. QED
        BY <1>3, <2>1, <2>2, <2>3 DEF RowKept, SameCounts, Settled
<1>4. CASE RowCreated(e)
  <2>1. WantedAt(s, occurredAt[e])' <=> WantedAt(s, occurredAt'[e])
        BY <1>4 DEF RowCreated, WantedAt
  <2>2. s \in entitled'[e] <=> WantedAt(s, occurredAt[e])' /\ HasDestination(e, s)'
        BY <1>4, <2>1 DEF RowCreated, HasDestination
  <2>3. JobsOf(e)' = {} /\ dispatch'[e].cursor = 0 /\ dispatch'[e].status # "completed"
    <3>1. \A q \in JobsOf(e) : q <= 0
          BY <1>1, <1>4 DEF RowCreated, RowCounts
    <3>2. JobsOf(e) = {}
          BY <3>1, BoundTypes DEF JobsOf, Subs
    <3>3. QED
          BY <1>4, <3>2 DEF RowCreated
  <2>4. <<e, s>> \notin jobs' /\ ~(s <= dispatch'[e].cursor)
        BY <1>2, <2>3, BoundTypes DEF Subs
  <2>5. QED
        BY <2>2, <2>3, <2>4 DEF Settled
<1>5. CASE RowCompleted(e)
  <2>1. Settled(e, s)
        BY <1>5 DEF IInv, RowCompleted
  <2>2. /\ WantedAt(s, occurredAt[e])' <=> WantedAt(s, occurredAt[e])
        /\ HasDestination(e, s)' <=> HasDestination(e, s)
        BY <1>5 DEF RowCompleted, WantedAt, HasDestination
  <2>3. <<e, s>> \in jobs' <=> <<e, s>> \in jobs
        BY <1>2, <1>5 DEF RowCompleted, JobsOf
  <2>4. WantedAt(s, occurredAt[e]) => s <= dispatch[e].cursor
    <3>1. s \notin After(e)
          BY <1>5, EmptyPageIsLast DEF RowCompleted
    <3>2. s \in Nat /\ dispatch[e].cursor \in Nat
          BY <1>1, BoundTypes DEF TypeOK, Dispatch, Subs
    <3>3. QED
          BY <3>1, <3>2 DEF After, Eligible
  <2>5. QED
        BY <1>5, <2>1, <2>2, <2>3, <2>4 DEF RowCompleted, Settled
<1>6. CASE RowFannedOut(e)
  <2>1. Settled(e, s)
        BY <1>6 DEF IInv, RowFannedOut
  <2>2. /\ WantedAt(s, occurredAt[e])' <=> WantedAt(s, occurredAt[e])
        /\ HasDestination(e, s)' <=> HasDestination(e, s)
        BY <1>6 DEF RowFannedOut, WantedAt, HasDestination
  <2>3. <<e, s>> \in jobs' <=> <<e, s>> \in jobs \/ s \in Reached(e)
        BY <1>2, <1>6 DEF RowFannedOut, JobsOf
  <2>4. s \in Reached(e) => WantedAt(s, occurredAt[e]) /\ HasDestination(e, s)
        BY PageIsAfterCursor DEF Reached
  <2>5. WantedAt(s, occurredAt[e]) /\ s <= Greatest(PageOf(e))
            => s <= dispatch[e].cursor \/ s \in PageOf(e)
    <3>1. dispatch[e].cursor \in 0..SubCount /\ PageOf(e) # {}
          BY <1>1, <1>6 DEF TypeOK, Dispatch, RowFannedOut
    <3>2. {q \in Subs : q <= Greatest(PageOf(e)) /\ WantedAt(q, occurredAt[e])}
             = Passed(e) \union PageOf(e)
          BY <3>1, PageAdvances
    <3>3. QED
          BY <3>2 DEF Passed
  <2>6. /\ s \in entitled'[e] <=> s \in entitled[e]
        /\ dispatch'[e].cursor = Greatest(PageOf(e))
        /\ dispatch'[e].status # "completed"
        BY <1>6 DEF RowFannedOut
  <2>7. /\ s \in entitled[e] => WantedAt(s, occurredAt[e])
        /\ WantedAt(s, occurredAt[e]) /\ HasDestination(e, s) => s \in entitled[e]
        /\ s \in entitled[e] /\ s <= dispatch[e].cursor /\ HasDestination(e, s)
              => <<e, s>> \in jobs
        /\ <<e, s>> \in jobs => s \in entitled[e]
        BY <2>1 DEF Settled
  <2>8. s \in entitled[e] /\ s <= Greatest(PageOf(e)) /\ HasDestination(e, s)
            => <<e, s>> \in jobs'
        BY <2>3, <2>5, <2>7 DEF Reached
  <2>9. QED
        BY <2>2, <2>3, <2>4, <2>6, <2>7, <2>8 DEF Settled
<1>7. QED
      BY <1>1, <1>3, <1>4, <1>5, <1>6, RowSteps

\* The counters stay those of the jobs and of the subscriptions passed.
LEMMA StepCounts ==
    ASSUME IInv, [Next]_vars, NEW e \in Events
    PROVE  RowCounts(e)'
<1>1. TypeOK /\ FailedHasEvent /\ RowCounts(e)
      BY DEF IInv
<1>2. ASSUME NothingLate(e)', occurredAt'[e] = occurredAt[e]
      PROVE  /\ NothingLate(e)
             /\ \A s \in Subs : WantedAt(s, occurredAt[e])' <=> WantedAt(s, occurredAt[e])
      BY <1>1, <1>2, WishStays DEF NothingLate
<1>3. CASE RowKept(e)
  <2>1. /\ JobsOf(e)' = JobsOf(e)
        /\ dispatch'[e].created = dispatch[e].created
        /\ dispatch'[e].skipped = dispatch[e].skipped
        /\ dispatch'[e].cursor = dispatch[e].cursor
        /\ Exists(e)' <=> Exists(e)
        BY <1>3 DEF RowKept, SameCounts, Exists
  <2>2. ASSUME NothingLate(e)' PROVE NothingLate(e) /\ Passed(e)' = Passed(e)
        BY <1>2, <1>3, <2>1, <2>2 DEF RowKept, Passed
  <2>3. QED
        BY <1>1, <2>1, <2>2 DEF RowCounts
<1>4. CASE RowCreated(e)
  <2>1. /\ dispatch'[e].created = 0
        /\ dispatch'[e].skipped = 0
        /\ dispatch'[e].cursor = 0
        /\ Exists(e)'
        /\ JobsOf(e)' = JobsOf(e)
        BY <1>4 DEF RowCreated, Exists
  <2>2. Cardinality(JobsOf(e)) = 0 /\ \A s \in JobsOf(e) : s <= 0
        BY <1>1, <1>4 DEF RowCreated, RowCounts
  <2>3. Passed(e)' = {}
        BY <2>1, BoundTypes DEF Passed, Subs
  <2>4. Cardinality(Passed(e)') = 0
        BY <2>3, FS_EmptySet
  <2>5. QED
        BY <2>1, <2>2, <2>4 DEF RowCounts
<1>5. CASE RowCompleted(e)
  <2>1. Exists(e)' /\ (NothingLate(e)' <=> NothingLate(e)) /\ Passed(e)' = Passed(e)
        BY <1>5 DEF RowCompleted, Exists, NothingLate, Passed, WantedAt
  <2>2. QED
        BY <1>1, <1>5, <2>1 DEF RowCounts, RowCompleted
<1>6. CASE RowFannedOut(e)
  <2> DEFINE g == Greatest(PageOf(e))
  <2>1. /\ Exists(e)'
        /\ NothingLate(e)' <=> NothingLate(e)
        /\ JobsOf(e)' = JobsOf(e) \union Reached(e)
        /\ dispatch'[e].cursor = g
        /\ dispatch'[e].created = dispatch[e].created + Cardinality(Reached(e) \ JobsOf(e))
        /\ dispatch'[e].skipped = dispatch[e].skipped + Cardinality(PageOf(e) \ Reached(e))
        BY <1>6 DEF RowFannedOut, Exists, NothingLate
  <2>2. dispatch[e].cursor \in 0..SubCount /\ PageOf(e) # {}
        BY <1>1, <1>6 DEF TypeOK, Dispatch, RowFannedOut
  <2>3. Passed(e)' = Passed(e) \union PageOf(e)
    <3>1. Passed(e)' = {s \in Subs : s <= g /\ WantedAt(s, occurredAt[e])}
          BY <1>6 DEF RowFannedOut, Passed, WantedAt
    <3>2. QED
          BY <2>2, <3>1, PageAdvances
  <2>4. /\ PageOf(e) \in SUBSET Subs /\ Reached(e) \subseteq PageOf(e)
        /\ JobsOf(e) \in SUBSET Subs /\ Passed(e) \in SUBSET Subs
        /\ \A s \in PageOf(e) : s > dispatch[e].cursor
        /\ \A s \in JobsOf(e) : s <= dispatch[e].cursor
        /\ \A s \in Passed(e) : s <= dispatch[e].cursor
        BY <1>1, PageIsAfterCursor DEF Reached, JobsOf, Passed, RowCounts
  <2>5. PageOf(e) \intersect JobsOf(e) = {} /\ PageOf(e) \intersect Passed(e) = {}
        BY <2>2, <2>4, BoundTypes DEF Subs
  <2>6. /\ Reached(e) \ JobsOf(e) = Reached(e)
        /\ JobsOf(e) \intersect Reached(e) = {}
        /\ Passed(e) \intersect PageOf(e) = {}
        BY <2>4, <2>5
  <2>7. Cardinality(JobsOf(e)') = Cardinality(JobsOf(e)) + Cardinality(Reached(e))
        BY <2>1, <2>4, <2>6, DisjointCount
  <2>8. Cardinality(Passed(e)') = Cardinality(Passed(e)) + Cardinality(PageOf(e))
        BY <2>3, <2>4, <2>6, DisjointCount
  <2>9. Cardinality(PageOf(e)) = Cardinality(Reached(e)) + Cardinality(PageOf(e) \ Reached(e))
    <3>1. /\ Reached(e) \in SUBSET Subs /\ PageOf(e) \ Reached(e) \in SUBSET Subs
          /\ Reached(e) \intersect (PageOf(e) \ Reached(e)) = {}
          /\ PageOf(e) = Reached(e) \union (PageOf(e) \ Reached(e))
          BY <2>4
    <3>2. Cardinality(Reached(e) \union (PageOf(e) \ Reached(e)))
             = Cardinality(Reached(e)) + Cardinality(PageOf(e) \ Reached(e))
          BY <3>1, DisjointCount
    <3>3. QED
          BY <3>1, <3>2
  <2>10. /\ Cardinality(Reached(e)) \in Nat /\ Cardinality(PageOf(e) \ Reached(e)) \in Nat
         /\ Cardinality(JobsOf(e)) \in Nat /\ Cardinality(Passed(e)) \in Nat
         /\ dispatch[e].created \in Nat /\ dispatch[e].skipped \in Nat
    <3>1. Reached(e) \in SUBSET Subs /\ PageOf(e) \ Reached(e) \in SUBSET Subs
          BY <2>4
    <3>2. QED
          BY <1>1, <2>4, <3>1, SubsetsAreFinite DEF TypeOK, Dispatch
  <2>11. dispatch[e].created = Cardinality(JobsOf(e))
         BY <1>1 DEF RowCounts
  <2>12. dispatch'[e].created = Cardinality(JobsOf(e)')
         BY <2>1, <2>6, <2>7, <2>11
  <2>13. \A s \in JobsOf(e)' : s <= dispatch'[e].cursor
    <3>1. dispatch[e].cursor < g /\ g \in Subs /\ \A s \in PageOf(e) : s <= g
          BY <2>2, PageAdvances
    <3>2. QED
          BY <2>1, <2>2, <2>4, <3>1, BoundTypes DEF Subs
  <2>14. NothingLate(e) => dispatch'[e].created + dispatch'[e].skipped = Cardinality(Passed(e)')
    <3>1. NothingLate(e) => dispatch[e].created + dispatch[e].skipped = Cardinality(Passed(e))
          BY <1>1 DEF RowCounts
    <3> HIDE DEF g
    <3>2. QED
          BY <2>1, <2>6, <2>8, <2>9, <2>10, <3>1
  <2>15. QED
         BY <2>1, <2>12, <2>13, <2>14 DEF RowCounts
<1>7. QED
      BY <1>1, <1>3, <1>4, <1>5, <1>6, RowSteps

LEMMA StepInv == IInv /\ [Next]_vars => IInv'
<1> SUFFICES ASSUME IInv, [Next]_vars PROVE IInv'
    OBVIOUS
<1>1. TypeOK' /\ FailedHasEvent'
      BY StepTypes DEF IInv
<1>2. QED
      BY <1>1, StepCounts, StepSettled DEF IInv

LEMMA Inductive == Spec => []IInv
BY InitInv, StepInv, PTL DEF Spec

-----------------------------------------------------------------------------
(***************************************************************************)
(* The rows implement the fan-out as a user sees it.  What is needed on    *)
(* top of the invariant is that nothing is disputed before there is an     *)
(* occurrence to dispute.                                                  *)
(***************************************************************************)
Unborn(e) == ~Exists(e) => occurredAt[e] = -1 /\ NothingLate(e)

LEMMA UnbornInitially == Init => \A e \in Events : Unborn(e)
BY DEF Init, Unborn, NothingLate

LEMMA UnbornStays ==
    ASSUME IInv, [Next]_vars, NEW e \in Events, Unborn(e)
    PROVE  Unborn(e)'
<1> SUFFICES ASSUME ~Exists(e)' PROVE occurredAt'[e] = -1 /\ NothingLate(e)'
    BY DEF Unborn
<1>1. RowKept(e)
  <2>1. ~RowCreated(e) /\ ~RowCompleted(e) /\ ~RowFannedOut(e)
        BY DEF RowCreated, RowCompleted, RowFannedOut, Exists
  <2>2. QED
        BY <2>1, RowSteps DEF IInv
<1>2. occurredAt'[e] = -1 /\ occurredAt[e] = -1 /\ NothingLate(e)
      BY <1>1 DEF RowKept, SameCounts, Exists, Unborn
<1>3. \A s, q \in Subs : \A t \in 0..now : <<e, s>> \notin LateFor(q, t)
  <2>1. now \in Nat
        BY BoundTypes DEF IInv, TypeOK
  <2>2. QED
        BY <1>2, <2>1 DEF LateFor
<1>4. ASSUME NEW q \in Subs, NEW t \in 0..now, late' = late \union LateFor(q, t)
      PROVE  NothingLate(e)'
      BY <1>2, <1>3, <1>4 DEF NothingLate
<1>5. ASSUME NEW q \in Subs, ChangeState(q) PROVE NothingLate(e)'
      BY <1>4, <1>5 DEF ChangeState, Stamps
<1>6. ASSUME NEW q \in Subs, Connect(q) PROVE NothingLate(e)'
      BY <1>4, <1>6 DEF Connect, Stamps
<1>7. (late' = late) => NothingLate(e)'
      BY <1>2 DEF NothingLate
<1>8. QED
      BY <1>2, <1>5, <1>6, <1>7, UserSteps DEF LoseConnection

FanInv == IInv /\ \A e \in Events : Unborn(e)

LEMMA FanInductive == Spec => []FanInv
<1>1. Init => FanInv
      BY InitInv, UnbornInitially DEF FanInv
<1>2. FanInv /\ [Next]_vars => FanInv'
      BY StepInv, UnbornStays DEF FanInv
<1>3. QED
      BY <1>1, <1>2, PTL DEF Spec

\* A row that keeps its counters is at most given up.
LEMMA KeptOutcome ==
    ASSUME NEW e \in Events, RowKept(e)
    PROVE  \/ Outcome(e)' = Outcome(e)
           \/ Outcome(e) = "open" /\ Outcome(e)' = "dropped"
<1>1. dispatch[e].status = "completed" => Closed(e)
      BY DEF Closed, Terminal
<1>2. dispatch'[e].status = "completed" => Closed(e)'
      BY DEF Closed, Terminal
<1>3. Closed(e) => Closed(e)' /\ Exists(e)
      BY DEF RowKept, Closed, Exists, Terminal
<1>4. /\ Exists(e)' <=> Exists(e)
      /\ dispatch'[e].status = "completed" <=> dispatch[e].status = "completed"
      BY DEF RowKept, SameCounts, Exists
<1>5. QED
      BY <1>1, <1>2, <1>3, <1>4 DEF Outcome

\* Of the steps that change no user, no occurrence and no job.
LEMMA KeepingDrops ==
    ASSUME FanInv, KeepingStep, UNCHANGED <<history, conn, late, occurredAt, entitled>>
    PROVE  Promise!FanOutNext
<1> DEFINE S == {e \in Events : Outcome(e)' # Outcome(e)}
<1>1. \A e \in Events : RowKept(e)
      BY KeepingSteps DEF FanInv, IInv
<1>2. \A e \in Events : \/ Outcome(e)' = Outcome(e)
                        \/ Outcome(e) = "open" /\ Outcome(e)' = "dropped"
      BY <1>1, KeptOutcome
<1>3. Outcomes' = [e \in Events |-> IF e \in S THEN "dropped" ELSE Outcomes[e]]
      BY <1>2 DEF Outcomes
<1>4. \A e \in S : Outcomes[e] = "open"
      BY <1>2 DEF Outcomes
<1>5. Told' = Told
      BY <1>1 DEF Told, RowKept
<1>6. Unreachable' = Unreachable /\ Disputed' = Disputed
  <2>1. \A e \in Events : Exists(e)' <=> Exists(e)
        BY <1>1 DEF RowKept, SameCounts, Exists
  <2>2. QED
        BY <2>1 DEF Unreachable, Disputed, HasDestination
<1>7. Promise!Drop(S)
      BY <1>3, <1>4, <1>5, <1>6 DEF Promise!Drop
<1>8. QED
      BY <1>7 DEF Promise!FanOutNext

LEMMA CreationOccurs ==
    ASSUME FanInv, NEW e \in Events, CreateSignalEvent(e)
    PROVE  Promise!FanOutNext
<1>1. PICK t \in 0..(now - 1) :
          /\ occurredAt' = [occurredAt EXCEPT ![e] = t]
          /\ entitled' = [entitled EXCEPT ![e] =
                {s \in Subs : /\ WantedAt(s, t)
                              /\ conn[s].status = "connected"
                              /\ conn[s].since <= t}]
      BY DEF CreateSignalEvent
<1>2. /\ ~Exists(e)
      /\ UNCHANGED <<history, conn, late, jobs>>
      /\ dispatch' = [dispatch EXCEPT ![e] =
            IF e \in Backfilled
            THEN [NoDispatch EXCEPT !.status = "skipped", !.code = "backfill"]
            ELSE [NoDispatch EXCEPT !.status = "pending", !.due = TRUE]]
      BY DEF CreateSignalEvent, envVars
<1>3. TypeOK
      BY DEF FanInv, IInv
<1>4. /\ occurredAt'[e] = t
      /\ dispatch'[e].status \in {"skipped", "pending"}
      /\ \A f \in Events \ {e} : occurredAt'[f] = occurredAt[f] /\ dispatch'[f] = dispatch[f]
      BY <1>1, <1>2, <1>3 DEF TypeOK, NoDispatch
<1> DEFINE next == Outcome(e)'
           whom == entitled'[e]
           missing == {s \in Subs : ~(conn[s].status = "connected" /\ conn[s].since <= t)}
<1>5. Outcomes[e] = "none" /\ next \in {"open", "dropped"}
      BY <1>2, <1>4 DEF Outcomes, Outcome, Exists, Closed, Terminal
<1>6. /\ whom \in SUBSET Subs /\ missing \in SUBSET Subs /\ whom \intersect missing = {}
      /\ entitled' = [entitled EXCEPT ![e] = whom]
      BY <1>1, <1>3 DEF TypeOK
<1>7. Outcomes' = [Outcomes EXCEPT ![e] = next]
  <2>1. \A f \in Events \ {e} : Outcome(f)' = Outcome(f)
        BY <1>4 DEF Outcome, Exists, Closed
  <2>2. QED
        BY <2>1 DEF Outcomes
<1>8. Unreachable' = [Unreachable EXCEPT ![e] = missing]
  <2>1. {s \in Subs : Exists(e)' /\ ~HasDestination(e, s)'} = missing
        BY <1>2, <1>4 DEF Exists, HasDestination
  <2>2. \A f \in Events \ {e} : /\ Exists(f)' <=> Exists(f)
                                /\ \A s \in Subs : HasDestination(f, s)' <=> HasDestination(f, s)
        BY <1>2, <1>4 DEF Exists, HasDestination
  <2> HIDE DEF missing
  <2>3. QED
        BY <2>1, <2>2 DEF Unreachable
<1>9. UNCHANGED <<Told, Disputed>>
      BY <1>2 DEF Told, Disputed, JobsOf
<1> HIDE DEF next, whom, missing
<1>10. Promise!Occur(e)
       BY <1>5, <1>6, <1>7, <1>8, <1>9 DEF Promise!Occur
<1>11. QED
       BY <1>10 DEF Promise!FanOutNext

\* Everybody the occurrence concerned has been dealt with: the cursor has passed them.
LEMMA CompletionCompletes ==
    ASSUME FanInv, [Next]_vars, NEW d \in Dispatchers, NEW e \in Events, PageCompletes(d, e)
    PROVE  Promise!FanOutNext
<1>1. /\ UNCHANGED <<history, conn, late, occurredAt, entitled, jobs>>
      /\ dispatch[e].status = "processing"
      /\ dispatch' = [dispatch EXCEPT
                         ![e] = Terminated(dispatch[e], "completed", dispatch[e].code)]
      BY DEF PageCompletes, Owns, envVars, eventVars, FanInv, IInv, TypeOK
<1>2. dispatch \in [Events -> Dispatch] /\ entitled \in [Events -> SUBSET Subs]
      BY DEF FanInv, IInv, TypeOK
<1>3. /\ dispatch'[e].status = "completed"
      /\ \A f \in Events \ {e} : dispatch'[f] = dispatch[f]
      BY <1>1, <1>2 DEF Terminated, Unlocked, Dispatch
<1>4. Outcomes[e] = "open" /\ Outcome(e)' = "completed"
      BY <1>1, <1>3 DEF Outcomes, Outcome, Exists, Closed, Terminal
<1>5. Outcomes' = [Outcomes EXCEPT ![e] = "completed"]
  <2>1. \A f \in Events \ {e} : Outcome(f)' = Outcome(f)
        BY <1>3 DEF Outcome, Exists, Closed
  <2>2. QED
        BY <1>4, <2>1 DEF Outcomes
<1>6. UNCHANGED <<Told, Unreachable, Disputed>>
  <2>1. \A f \in Events : Exists(f)' <=> Exists(f)
        BY <1>1, <1>3 DEF Exists
  <2>2. QED
        BY <1>1, <2>1 DEF Told, Unreachable, Disputed, JobsOf, HasDestination
<1>7. entitled[e] \subseteq Told[e] \union Unreachable[e] \union Disputed[e]
  <2> SUFFICES ASSUME NEW s \in entitled[e], s \notin Unreachable[e], s \notin Disputed[e]
               PROVE  s \in Told[e]
      OBVIOUS
  <2>1. s \in Subs /\ Exists(e)
        BY <1>1, <1>2 DEF Exists
  <2>2. HasDestination(e, s) /\ <<e, s>> \notin late
        BY <2>1 DEF Unreachable, Disputed
  <2>3. IInv'
        BY StepInv DEF FanInv
  <2>4. Settled(e, s)'
        BY <1>1, <2>1, <2>2, <2>3 DEF IInv
  <2>5. <<e, s>> \in jobs
        BY <1>1, <1>3, <2>2, <2>4 DEF Settled, HasDestination, WantedAt
  <2>6. QED
        BY <2>1, <2>5 DEF Told, JobsOf
<1>8. Promise!Complete(e)
      BY <1>1, <1>4, <1>5, <1>6, <1>7 DEF Promise!Complete
<1>9. QED
      BY <1>8 DEF Promise!FanOutNext

\* A page tells those of it who have a destination, or nobody.
LEMMA PageTells ==
    ASSUME FanInv, [Next]_vars, NEW d \in Dispatchers, NEW e \in Events, PageFansOut(d, e)
    PROVE  Promise!FanOutNext \/ UNCHANGED Promise!fanOutVars
<1> DEFINE whom == Reached(e) \ JobsOf(e)
<1>1. /\ UNCHANGED <<history, conn, late, occurredAt, entitled>>
      /\ dispatch[e].status = "processing"
      /\ PageOf(e) # {}
      /\ jobs' = jobs \union {<<e, s>> : s \in Reached(e)}
      /\ \E row : dispatch' = [dispatch EXCEPT ![e] = row] /\ row.status = "processing"
  <2>1. PICK new \in SUBSET PageOf(e), skipped \in SUBSET PageOf(e) :
            dispatch' = [dispatch EXCEPT ![e] = FannedOut(e, PageOf(e), new, skipped)]
        BY DEF PageFansOut
  <2>2. TypeOK /\ PageOf(e) # {} /\ dispatch[e].status = "processing"
        BY DEF PageFansOut, Owns, FanInv, IInv
  <2>3. FannedOut(e, PageOf(e), new, skipped).status = "processing"
        BY <2>2, FannedOutType
  <2>4. QED
        BY <2>1, <2>2, <2>3 DEF PageFansOut, Reached, envVars, eventVars
<1>2. dispatch \in [Events -> Dispatch] /\ jobs \subseteq Events \X Subs
      BY DEF FanInv, IInv, TypeOK
<1>3. dispatch'[e].status = "processing" /\ \A f \in Events \ {e} : dispatch'[f] = dispatch[f]
      BY <1>1, <1>2
<1>4. Outcomes[e] = "open" /\ Outcome(e)' = "open"
      BY <1>1, <1>3 DEF Outcomes, Outcome, Exists, Closed, Terminal
<1>5. Outcomes' = Outcomes
  <2>1. \A f \in Events \ {e} : Outcome(f)' = Outcome(f)
        BY <1>3 DEF Outcome, Exists, Closed
  <2>2. QED
        BY <1>4, <2>1 DEF Outcomes
<1>6. UNCHANGED <<Unreachable, Disputed>>
  <2>1. \A f \in Events : Exists(f)' <=> Exists(f)
        BY <1>1, <1>3 DEF Exists
  <2>2. QED
        BY <1>1, <2>1 DEF Unreachable, Disputed, HasDestination
<1>7. Reached(e) \subseteq Subs
      BY PageIsAfterCursor DEF Reached
<1>8. Told' = [Told EXCEPT ![e] = @ \union whom]
  <2>1. JobsOf(e)' = JobsOf(e) \union whom
        BY <1>1, <1>7 DEF JobsOf
  <2>2. \A f \in Events \ {e} : JobsOf(f)' = JobsOf(f)
        BY <1>1 DEF JobsOf
  <2> HIDE DEF whom
  <2>3. QED
        BY <2>1, <2>2 DEF Told
<1>9. whom \intersect (Told[e] \union Unreachable[e]) = {}
      BY DEF Told, Unreachable, Reached
<1>10. whom \subseteq entitled[e] \union Disputed[e]
  <2> SUFFICES ASSUME NEW s \in whom, <<e, s>> \notin late PROVE s \in entitled[e]
      BY <1>7 DEF Disputed
  <2>1. s \in Subs /\ WantedAt(s, occurredAt[e]) /\ HasDestination(e, s)
        BY PageIsAfterCursor DEF Reached
  <2>2. Settled(e, s)
        BY <2>1 DEF FanInv, IInv
  <2>3. QED
        BY <2>1, <2>2 DEF Settled
<1>11. whom \in SUBSET Subs
       BY <1>7
<1> HIDE DEF whom
<1>12. CASE whom = {}
  <2>1. Told' = Told
        BY <1>8, <1>12 DEF Told
  <2>2. QED
        BY <1>1, <1>5, <1>6, <2>1 DEF Promise!fanOutVars
<1>13. CASE whom # {}
  <2>1. entitled' = entitled
        BY <1>1
  <2>2. Promise!Tell(e)
        BY <1>4, <1>5, <1>6, <1>8, <1>9, <1>10, <1>11, <1>13, <2>1 DEF Promise!Tell
  <2>3. QED
        BY <2>2 DEF Promise!FanOutNext
<1>14. QED
       BY <1>12, <1>13

\* A connection of the time of the occurrence that is lost does not come back, unless
\* the change that brings it back claims to be older.
LEMMA UsersChange ==
    ASSUME FanInv, [Next]_vars, UNCHANGED <<dispatch, jobs, occurredAt, entitled>>
    PROVE  Promise!FanOutNext
<1>1. UNCHANGED <<Outcomes, Told>> /\ \A e \in Events : Exists(e)' <=> Exists(e)
      BY DEF Outcomes, Outcome, Told, JobsOf, Exists, Closed
<1>2. Unreachable' \in [Events -> SUBSET Subs] /\ Disputed' \in [Events -> SUBSET Subs]
      BY DEF Unreachable, Disputed
<1>3. ASSUME NEW e \in Events, NEW s \in Subs, <<e, s>> \notin late'
      PROVE  /\ <<e, s>> \notin late
             /\ HasDestination(e, s)' => HasDestination(e, s)
      BY <1>3, WishStays DEF FanInv, IInv
<1>4. ASSUME NEW e \in Events
      PROVE  /\ Disputed[e] \subseteq Disputed'[e]
             /\ Unreachable[e] \subseteq Unreachable'[e] \union Disputed'[e]
      BY <1>1, <1>3 DEF Unreachable, Disputed
<1>5. ASSUME NEW e \in Events, Outcomes[e] = "none"
      PROVE  Disputed'[e] = Disputed[e] /\ Unreachable'[e] = Unreachable[e]
  <2>1. ~Exists(e) /\ ~Exists(e)'
        BY <1>1, <1>5 DEF Outcomes, Outcome
  <2>2. Unborn(e) /\ Unborn(e)'
        BY UnbornStays DEF FanInv
  <2>3. NothingLate(e) /\ NothingLate(e)'
        BY <2>1, <2>2 DEF Unborn
  <2>4. QED
        BY <2>1, <2>3 DEF Disputed, Unreachable, NothingLate
<1>6. Promise!Change
      BY <1>1, <1>2, <1>4, <1>5 DEF Promise!Change
<1>7. QED
      BY <1>6 DEF Promise!FanOutNext

LEMMA PromiseStep ==
    ASSUME FanInv, [Next]_vars
    PROVE  Promise!FanOutNext \/ UNCHANGED Promise!fanOutVars
<1>1. ASSUME NEW s \in Subs, ChangeState(s) \/ Connect(s) \/ LoseConnection(s)
      PROVE  UNCHANGED <<dispatch, jobs, occurredAt, entitled>>
      BY <1>1 DEF ChangeState, Connect, LoseConnection, eventVars
<1>2. CASE UNCHANGED <<history, conn, late>> /\ UNCHANGED <<occurredAt, entitled>>
      BY <1>2, WriteSteps, KeepingDrops, CompletionCompletes, PageTells, CreationOccurs
      DEF KeepingStep
<1>3. QED
      BY <1>1, <1>2, UsersChange, CreationOccurs, UserSteps, EventSteps

-----------------------------------------------------------------------------
(***************************************************************************)
(* The theorems.                                                           *)
(***************************************************************************)

\* The rows, jobs, users and dispatchers keep their types; a page that failed
\* leaves its dispatcher holding an event.
THEOREM TypeCorrect == Spec => []TypeOK
BY Inductive, PTL DEF IInv

\* The counters of a dispatch are true whatever pages were retried, taken over by
\* another dispatcher or rolled back.
THEOREM CountersStayTrue == Spec => []CountsAreTrue
<1>1. IInv => CountsAreTrue
  <2> SUFFICES ASSUME IInv, NEW e \in Events
               PROVE  /\ dispatch[e].created = Cardinality(JobsOf(e))
                      /\ \A s \in JobsOf(e) : s <= dispatch[e].cursor
                      /\ NothingLate(e) =>
                            dispatch[e].created + dispatch[e].skipped = Cardinality(Passed(e))
      BY DEF CountsAreTrue, NothingLate, Passed
  <2>1. QED
        BY DEF IInv, RowCounts
<1>2. QED
      BY <1>1, Inductive, PTL

\* A completed fan-out has reached everybody whom the event concerned when it was
\* created and who is still there, and nobody else.
THEOREM FanOutIsExact == Spec => []JobsAreExact
<1>1. IInv => JobsAreExact
  <2> SUFFICES ASSUME IInv PROVE JobsAreExact
      OBVIOUS
  <2>1. TypeOK
        BY DEF IInv
  <2>2. CompletedReachedAll
    <3> SUFFICES ASSUME NEW e \in Events, NEW s \in entitled[e],
                        dispatch[e].status = "completed",
                        conn[s].status = "connected",
                        conn[s].since <= occurredAt[e],
                        <<e, s>> \notin late
                 PROVE  <<e, s>> \in jobs
        BY DEF CompletedReachedAll
    <3>1. s \in Subs
          BY <2>1 DEF TypeOK
    <3>2. Settled(e, s)
          BY <3>1 DEF IInv
    <3>3. QED
          BY <3>2 DEF Settled, HasDestination
  <2>3. JobsWereEntitled
        BY DEF IInv, Settled, JobsWereEntitled, JobsOf
  <2>4. QED
        BY <2>1, <2>2, <2>3 DEF JobsAreExact
<1>2. QED
      BY <1>1, Inductive, PTL

\* Every transition a dispatcher makes is guarded by its ownership of a row in
\* 'processing': a dispatch that is completed, skipped or failed keeps its row and
\* its jobs.
THEOREM ClosedDispatchIsFinal == Spec => ClosedIsFinal
<1> DEFINE Final == \A e \in Events : Closed(e) =>
                       dispatch'[e] = dispatch[e] /\ JobsOf(e)' = JobsOf(e)
<1>1. ASSUME IInv, [Next]_vars, NEW e \in Events, Closed(e)
      PROVE  dispatch'[e] = dispatch[e] /\ JobsOf(e)' = JobsOf(e)
      BY <1>1, RowSteps
      DEF IInv, RowKept, RowCreated, RowCompleted, RowFannedOut, Closed, Exists, Terminal
<1>2. IInv /\ [Next]_vars => [Final]_vars
      BY <1>1
<1>3. QED
      BY <1>2, Inductive, PTL DEF Spec, ClosedIsFinal

\* The dispatch rows, their pages, retries and take-overs implement the fan-out as a user
\* sees it: whom an occurrence concerns is fixed, everybody of them who stays reachable
\* and undisputed is told before it is complete, nobody else ever is, and what is over
\* stays over.
THEOREM DispatchKeepsItsPromise == Spec => ImplementsFanOut
<1>1. Init => Promise!FanOutInit
  <2> SUFFICES ASSUME Init PROVE Promise!FanOutInit
      OBVIOUS
  <2>1. \A e \in Events : Outcome(e) = "none" /\ ~Exists(e) /\ JobsOf(e) = {}
        BY DEF Init, Outcome, Exists, NoDispatch, JobsOf
  <2>2. entitled = [e \in Events |-> {}] /\ late = {}
        BY DEF Init
  <2>3. QED
        BY <2>1, <2>2 DEF Promise!FanOutInit, Outcomes, Told, Unreachable, Disputed
<1>2. FanInv /\ [Next]_vars => [Promise!FanOutNext]_(Promise!fanOutVars)
      BY PromiseStep
<1>3. QED
      BY <1>1, <1>2, FanInductive, PTL DEF Spec, ImplementsFanOut, Promise!FanOutSpec

=============================================================================
