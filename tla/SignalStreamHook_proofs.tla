----------------------- MODULE SignalStreamHook_proofs -----------------------
(***************************************************************************)
(* Proofs about the two sides of the event stream.  First the hook, for    *)
(* any number of failures and of user actions: the two safety invariants   *)
(* need each other and the types, since a handler that leaves the stream   *)
(* alone is silent in a hidden tab because there was no stream to begin    *)
(* with.  Then the feed, for any number of rows and of failures, and for   *)
(* queues and replays of any size: see FeedInv.                            *)
(***************************************************************************)
EXTENDS EventStream, TLAPS, FiniteSetTheorems, WellFoundedInduction, NaturalsInduction

LEMMA BoundTypes == MaxFaults \in Nat /\ MaxEdits \in Nat
BY HookAssumption DEF HookAssumption

LEMMA FaultType ==
    ASSUME TypeOK, Fault
    PROVE  faults' \in 0..MaxFaults
BY BoundTypes DEF TypeOK, Fault

LEMMA EditType ==
    ASSUME TypeOK, Edit
    PROVE  edits' \in 0..MaxEdits
BY BoundTypes DEF TypeOK, Edit

\* What running the effect gives, for the visibility of the document it looks at.
LEMMA ConnectSilent ==
    ASSUME NEW ready, NEW visible, Connect(ready, visible)
    PROVE  /\ source' \in {"none", "connecting"}
           /\ timers' = {}
           /\ ~shown => source' = "none"
BY DEF Connect

\* A recovery starts from nothing, or joins the one under way.
LEMMA RecoverEffect ==
    ASSUME TypeOK, Recover
    PROVE  /\ request' \in {"none", "initial", "more", "refresh", "recovery"}
           /\ recovery' \in {"none", "recover", "control"}
           /\ answer' \in {"none", "pending", "loaded", "failed"}
           /\ answer' = "none" <=> recovery' = "none"
           /\ answer' = "pending" <=> request' = "recovery"
           /\ \/ source' = "none" /\ timers' = {}
              \/ source' = source /\ timers' = timers
<1>1. CASE recovery # "none"
      BY <1>1 DEF Recover, TypeOK, recoveryVars, streamVars
<1>2. CASE recovery = "none"
      BY <1>2 DEF Recover, TypeOK, AskForHistory, Quiesce
<1>3. QED
      BY <1>1, <1>2

-----------------------------------------------------------------------------
LEMMA InitHookInv == Init => HookInv
<1> SUFFICES ASSUME Init
             PROVE  HookInv
    OBVIOUS
<1>1. /\ shown \in BOOLEAN /\ online \in BOOLEAN
      /\ isVisible \in BOOLEAN /\ baseline \in BOOLEAN
      /\ down \in BOOLEAN
      BY Zenon DEF Init
<1>2. faults \in 0..MaxFaults /\ edits \in 0..MaxEdits
      BY BoundTypes DEF Init
<1>3. TypeOK
      BY <1>1, <1>2 DEF Init, TypeOK
<1>4. HiddenIsSilent /\ FallbackOnlyWhileDown
      BY DEF Init, HiddenIsSilent, FallbackOnlyWhileDown
<1>5. QED
      BY <1>3, <1>4 DEF HookInv

LEMMA RequestStep ==
    ASSUME HookInv, RequestAnswered \/ RequestFails
           \/ (\E kind \in {"more", "refresh"} : StartRequest(kind))
    PROVE  HookInv'
<1> USE DEF HookInv, HiddenIsSilent, FallbackOnlyWhileDown
<1>1. CASE RequestAnswered
  <2>1. \/ Connect(TRUE, isVisible)
        \/ UNCHANGED streamVars
        BY <1>1 DEF RequestAnswered
  <2>2. QED
        BY <1>1, <2>1, ConnectSilent DEF RequestAnswered, TypeOK, documentVars, streamVars
<1>2. CASE RequestFails
      BY <1>2, FaultType DEF RequestFails, TypeOK, documentVars, streamVars
<1>3. ASSUME NEW kind \in {"more", "refresh"}, StartRequest(kind)
      PROVE  HookInv'
      BY <1>3, EditType DEF StartRequest, TypeOK, documentVars, streamVars
<1>4. QED
      BY <1>1, <1>2, <1>3

LEMMA RecoveryStep ==
    ASSUME HookInv, PageLoaded \/ PageFails \/ Recovered \/ NotRecovered
    PROVE  HookInv'
<1> USE DEF HookInv, HiddenIsSilent, FallbackOnlyWhileDown
<1>1. CASE PageLoaded
  <2>1. \/ Connect(TRUE, isVisible)
        \/ UNCHANGED streamVars
        BY <1>1 DEF PageLoaded
  <2>2. QED
        BY <1>1, <2>1, ConnectSilent DEF PageLoaded, TypeOK, documentVars, streamVars
<1>2. CASE PageFails
      BY <1>2, FaultType DEF PageFails, TypeOK, documentVars, streamVars
<1>3. CASE Recovered
  <2>1. Connect(baseline, isVisible')
        BY <1>3 DEF Recovered
  <2>2. QED
        BY <1>3, <2>1, ConnectSilent
        DEF Recovered, RecoveryDone, Released, TypeOK, documentVars
<1>4. CASE NotRecovered
  <2>1. faults' \in 0..MaxFaults
        BY <1>4, FaultType DEF NotRecovered, TypeOK
  <2>2. QED
        BY <1>4, <2>1
        DEF NotRecovered, RecoveryDone, Released, TypeOK, documentVars, streamVars
<1>5. QED
      BY <1>1, <1>2, <1>3, <1>4

LEMMA SourceStep ==
    ASSUME HookInv, Opens \/ Errors \/ FailsOffline \/ ControlEvent
    PROVE  HookInv'
<1> USE DEF HookInv, HiddenIsSilent, FallbackOnlyWhileDown
<1>1. CASE Opens
      BY <1>1 DEF Opens, NoTimers, TypeOK, documentVars, recoveryVars
<1>2. CASE Errors
      BY <1>2, FaultType DEF Errors, TypeOK, documentVars, recoveryVars
<1>3. CASE FailsOffline
      BY <1>3 DEF FailsOffline, TypeOK, documentVars, recoveryVars
<1>4. CASE ControlEvent
      BY <1>4, FaultType
      DEF ControlEvent, Quiesce, AskForHistory, TypeOK, documentVars, recoveryVars
<1>5. QED
      BY <1>1, <1>2, <1>3, <1>4

LEMMA TimerStep ==
    ASSUME HookInv, MinuteFires \/ TickFires
    PROVE  HookInv'
<1> USE DEF HookInv, HiddenIsSilent, FallbackOnlyWhileDown
<1>1. CASE MinuteFires
      BY <1>1 DEF MinuteFires, TypeOK, documentVars, recoveryVars
<1>2. CASE TickFires
      BY <1>2, RecoverEffect DEF TickFires, TypeOK, documentVars
<1>3. QED
      BY <1>1, <1>2

LEMMA UserStep ==
    ASSUME HookInv, Hide \/ Show \/ GoesOffline \/ GoesOnline \/ Reconnect
    PROVE  HookInv'
<1> USE DEF HookInv, HiddenIsSilent, FallbackOnlyWhileDown
<1>1. CASE Hide
      BY <1>1, EditType DEF Hide, Quiesce, TypeOK, recoveryVars
<1>2. CASE Show
      BY <1>2, EditType, RecoverEffect DEF Show, TypeOK
<1>3. CASE GoesOffline
      BY <1>3, EditType DEF GoesOffline, Quiesce, TypeOK, recoveryVars
<1>4. CASE GoesOnline
  <2>1. CASE shown
        BY <1>4, <2>1, EditType, RecoverEffect DEF GoesOnline, TypeOK
  <2>2. CASE ~shown
        BY <1>4, <2>2, EditType DEF GoesOnline, TypeOK, recoveryVars, streamVars
  <2>3. QED
        BY <2>1, <2>2
<1>5. CASE Reconnect
      BY <1>5, EditType, RecoverEffect DEF Reconnect, TypeOK, documentVars
<1>6. QED
      BY <1>1, <1>2, <1>3, <1>4, <1>5

LEMMA NextHookInv == HookInv /\ [Next]_vars => HookInv'
<1> SUFFICES ASSUME HookInv, [Next]_vars
             PROVE  HookInv'
    OBVIOUS
<1>1. CASE UNCHANGED vars
      BY <1>1 DEF HookInv, TypeOK, HiddenIsSilent, FallbackOnlyWhileDown, vars,
                  documentVars, recoveryVars, streamVars
<1>2. CASE Next
      BY <1>2, RequestStep, RecoveryStep, SourceStep, TimerStep, UserStep
      DEF Next, Requests, Recoveries, Timers, User, Failures
<1>3. QED
      BY <1>1, <1>2

\* In every state of every tab, the two guards of the hook agree, a hidden tab is
\* silent and the fallback polls only without an open stream (use-signal-stream.ts).
THEOREM HookInvariant == Spec => []HookInv
BY InitHookInv, NextHookInv, PTL DEF Spec

\* The values of the hook are of their types, and its two guards agree on what is
\* under way: no recovery waits for an answer nobody will give.
THEOREM TypeCorrect == Spec => []TypeOK
BY HookInvariant, PTL DEF HookInv

\* No interleaving of requests, recoveries and visibility changes leaves a hidden
\* tab with a stream or a timer.
THEOREM HiddenTabIsSilent == Spec => []HiddenIsSilent
BY HookInvariant, PTL DEF HookInv

\* No interleaving leaves the fallback polling behind an open stream.
THEOREM FallbackStops == Spec => []FallbackOnlyWhileDown
BY HookInvariant, PTL DEF HookInv


-----------------------------------------------------------------------------
(***************************************************************************)
(* The feed.  Least and greatest elements, the elements of a sequence and  *)
(* sequences that ascend, as queue, channel and wire do.                   *)
(***************************************************************************)
Elements(s) == {s[i] : i \in DOMAIN s}
Ascends(s) == \A i, j \in DOMAIN s : i < j => s[i] < s[j]

LEMMA Smallest ==
    ASSUME NEW S \in SUBSET Nat, S # {}
    PROVE  Feed!Min(S) \in S /\ \A k \in S : Feed!Min(S) <= k
<1>1. PICK m \in S : \A k \in S : ~(<<k, m>> \in OpToRel(<, Nat))
      BY NatLessThanWellFounded, WFMin
<1>2. ASSUME NEW k \in S PROVE m <= k
  <2>1. m \in Nat /\ k \in Nat
        OBVIOUS
  <2>2. k < m => <<k, m>> \in OpToRel(<, Nat)
        BY <2>1 DEF OpToRel
  <2>3. ~(k < m)
        BY <1>1, <2>2, Zenon
  <2>4. QED
        BY <2>1, <2>3
<1>3. QED
      BY <1>2 DEF Feed!Min

LEMMA Largest ==
    ASSUME NEW N \in Nat, NEW S \in SUBSET (0..N), S # {}
    PROVE  Feed!Max(S) \in S /\ \A k \in S : k <= Feed!Max(S)
<1> DEFINE T == {N - k : k \in S}
<1>1. T \in SUBSET Nat /\ T # {}
  <2>1. ASSUME NEW k \in S PROVE N - k \in Nat
        OBVIOUS
  <2>2. QED
        BY <2>1
<1>2. Feed!Min(T) \in T /\ \A k \in T : Feed!Min(T) <= k
      BY <1>1, Smallest
<1>3. PICK m \in S : Feed!Min(T) = N - m
      BY <1>2
<1>4. ASSUME NEW k \in S PROVE k <= m
  <2>1. N - k \in T
        OBVIOUS
  <2>2. N - m <= N - k
        BY <1>2, <1>3, <2>1
  <2>3. QED
        BY <2>2
<1>5. QED
      BY <1>4 DEF Feed!Max

-----------------------------------------------------------------------------
LEMMA AppendElements ==
    ASSUME NEW S, NEW s \in Seq(S), NEW x
    PROVE  Elements(Append(s, x)) = Elements(s) \cup {x}
<1>1. DOMAIN Append(s, x) = 1..(Len(s) + 1) /\ DOMAIN s = 1..Len(s) /\ Len(s) \in Nat
      OBVIOUS
<1>2. \A i \in 1..Len(s) : Append(s, x)[i] = s[i]
      OBVIOUS
<1>3. Append(s, x)[Len(s) + 1] = x
      OBVIOUS
<1>4. \A i \in 1..(Len(s) + 1) : i \in 1..Len(s) \/ i = Len(s) + 1
      BY <1>1
<1>5. \A i \in 1..Len(s) : i \in 1..(Len(s) + 1)
      BY <1>1
<1>6. Len(s) + 1 \in 1..(Len(s) + 1)
      BY <1>1
<1>7. QED
      BY <1>1, <1>2, <1>3, <1>4, <1>5, <1>6 DEF Elements

LEMMA TailElements ==
    ASSUME NEW S, NEW s \in Seq(S), s # <<>>
    PROVE  /\ Elements(s) = {Head(s)} \cup Elements(Tail(s))
           /\ Head(s) \in S
           /\ Tail(s) \in Seq(S)
           /\ Len(Tail(s)) = Len(s) - 1
<1>1. /\ DOMAIN s = 1..Len(s) /\ Len(s) \in Nat \ {0} /\ Head(s) = s[1]
      /\ DOMAIN Tail(s) = 1..(Len(s) - 1)
      OBVIOUS
<1>2. \A i \in 1..(Len(s) - 1) : Tail(s)[i] = s[i + 1] /\ i + 1 \in 1..Len(s)
      BY <1>1
<1>3. \A i \in 1..Len(s) : i = 1 \/ (i - 1 \in 1..(Len(s) - 1) /\ (i - 1) + 1 = i)
      BY <1>1
<1>4. 1 \in 1..Len(s)
      BY <1>1
<1>5. ASSUME NEW i \in 1..Len(s) PROVE s[i] \in {Head(s)} \cup Elements(Tail(s))
  <2>1. CASE i = 1
        BY <1>1, <2>1
  <2>2. CASE i # 1
    <3>1. i - 1 \in 1..(Len(s) - 1) /\ (i - 1) + 1 = i
          BY <1>1, <2>2
    <3>2. Tail(s)[i - 1] = s[i]
          BY <1>2, <3>1
    <3>3. QED
          BY <1>1, <3>1, <3>2 DEF Elements
  <2>3. QED
        BY <2>1, <2>2
<1>6. Head(s) \in Elements(s)
      BY <1>1, <1>4 DEF Elements
<1>7. ASSUME NEW i \in 1..(Len(s) - 1) PROVE Tail(s)[i] \in Elements(s)
      BY <1>1, <1>2 DEF Elements
<1>8. Elements(s) \subseteq {Head(s)} \cup Elements(Tail(s))
      BY <1>1, <1>5 DEF Elements
<1>9. Elements(Tail(s)) \subseteq Elements(s)
      BY <1>1, <1>7 DEF Elements
<1>10. QED
       BY <1>1, <1>6, <1>8, <1>9

LEMMA ElementsIn ==
    ASSUME NEW S, NEW s \in Seq(S)
    PROVE  /\ Elements(s) \subseteq S
           /\ s = <<>> <=> Elements(s) = {}
           /\ \A T : Elements(s) \subseteq T => s \in Seq(T)
<1>1. DOMAIN s = 1..Len(s) /\ Len(s) \in Nat
      OBVIOUS
<1>2. Elements(s) \subseteq S
      BY <1>1 DEF Elements
<1>3. s # <<>> => 1 \in DOMAIN s
      OBVIOUS
<1>4. s = <<>> <=> Elements(s) = {}
      BY <1>3 DEF Elements
<1>5. ASSUME NEW T, Elements(s) \subseteq T PROVE s \in Seq(T)
      BY <1>1, <1>5 DEF Elements
<1>6. QED
      BY <1>2, <1>4, <1>5

LEMMA AppendAscends ==
    ASSUME NEW s \in Seq(Int), Ascends(s), NEW x \in Int, \A e \in Elements(s) : e < x
    PROVE  Ascends(Append(s, x))
<1>1. DOMAIN Append(s, x) = 1..(Len(s) + 1) /\ DOMAIN s = 1..Len(s) /\ Len(s) \in Nat
      OBVIOUS
<1>2. \A i \in 1..Len(s) : Append(s, x)[i] = s[i] /\ s[i] < x
      BY DEF Elements
<1>3. Append(s, x)[Len(s) + 1] = x
      OBVIOUS
<1>4. ASSUME NEW i \in 1..(Len(s) + 1), NEW j \in 1..(Len(s) + 1), i < j
      PROVE  Append(s, x)[i] < Append(s, x)[j]
  <2>1. i \in 1..Len(s)
        BY <1>1, <1>4
  <2>2. CASE j \in 1..Len(s)
        BY <1>1, <1>2, <1>4, <2>1, <2>2 DEF Ascends
  <2>3. CASE j \notin 1..Len(s)
    <3>1. j = Len(s) + 1
          BY <1>1, <2>3
    <3>2. QED
          BY <1>2, <1>3, <2>1, <3>1
  <2>4. QED
        BY <2>2, <2>3
<1>5. QED
      BY <1>1, <1>4 DEF Ascends

LEMMA TailAscends ==
    ASSUME NEW s \in Seq(Int), Ascends(s), s # <<>>
    PROVE  /\ Ascends(Tail(s))
           /\ \A e \in Elements(Tail(s)) : Head(s) < e
<1>1. /\ DOMAIN s = 1..Len(s) /\ Len(s) \in Nat \ {0} /\ Head(s) = s[1]
      /\ DOMAIN Tail(s) = 1..(Len(s) - 1)
      OBVIOUS
<1>2. \A i \in 1..(Len(s) - 1) : Tail(s)[i] = s[i + 1] /\ i + 1 \in 1..Len(s) /\ 1 < i + 1
      BY <1>1
<1>3. ASSUME NEW i \in 1..(Len(s) - 1), NEW j \in 1..(Len(s) - 1), i < j
      PROVE  Tail(s)[i] < Tail(s)[j]
  <2>1. i + 1 < j + 1
        BY <1>1, <1>3
  <2>2. QED
        BY <1>1, <1>2, <2>1 DEF Ascends
<1>4. ASSUME NEW i \in 1..(Len(s) - 1) PROVE Head(s) < Tail(s)[i]
  <2>1. 1 \in 1..Len(s)
        BY <1>1
  <2>2. QED
        BY <1>1, <1>2, <2>1 DEF Ascends
<1>5. QED
      BY <1>1, <1>3, <1>4 DEF Ascends, Elements

-----------------------------------------------------------------------------
\* Cardinality as the instance has it.
LEMMA SameCardinality ==
    ASSUME NEW S
    PROVE  Feed!Cardinality(S) = Cardinality(S)
BY DEF Feed!IsFiniteSet, IsFiniteSet, Feed!Cardinality, Cardinality

\* The members of a set of naturals are counted off one by one.
LEMMA Ranks ==
    ASSUME NEW N \in Nat, NEW K \in SUBSET (1..N)
    PROVE  LET rank(i) == Feed!Cardinality({j \in K : j <= i})
           IN  /\ Feed!Cardinality(K) \in 0..N
               /\ \A i \in K : rank(i) \in 1..Feed!Cardinality(K)
               /\ \A i, j \in K : i < j <=> rank(i) < rank(j)
               /\ \A n \in 1..Feed!Cardinality(K) : \E i \in K : rank(i) = n
<1> DEFINE upto(i) == {j \in K : j <= i}
           rank(i) == Cardinality(upto(i))
<1>1. /\ IsFiniteSet(1..N) /\ Cardinality(1..N) = N
      BY FS_Interval
<1>2. IsFiniteSet(K) /\ Cardinality(K) \in Nat /\ Cardinality(K) <= N
      BY <1>1, FS_Subset, FS_CardinalityType
<1>3. ASSUME NEW i \in K
      PROVE  /\ upto(i) \in SUBSET K /\ i \in upto(i)
             /\ IsFiniteSet(upto(i)) /\ rank(i) \in 1..Cardinality(K)
  <2>1. upto(i) \in SUBSET K /\ i \in upto(i)
        OBVIOUS
  <2>2. IsFiniteSet(upto(i)) /\ rank(i) \in Nat /\ rank(i) <= Cardinality(K)
        BY <1>2, <2>1, FS_Subset, FS_CardinalityType
  <2>3. rank(i) # 0
        BY <2>1, <2>2, FS_EmptySet
  <2>4. QED
        BY <1>2, <2>1, <2>2, <2>3
<1>4. ASSUME NEW i \in K, NEW j \in K, i < j PROVE rank(i) < rank(j)
  <2>1. upto(i) \in SUBSET upto(j) /\ j \notin upto(i) /\ j \in upto(j)
    <3>1. i \in Int /\ j \in Int /\ \A k \in K : k \in Int
          OBVIOUS
    <3>2. \A k \in K : k <= i => k <= j
          BY <1>4, <3>1
    <3>3. ~(j <= i) /\ j <= j
          BY <1>4, <3>1
    <3>4. QED
          BY <3>2, <3>3
  <2>2. rank(i) <= rank(j) /\ rank(i) # rank(j)
        BY <1>3, <2>1, FS_Subset
  <2>3. QED
        BY <1>2, <1>3, <2>2
<1>5. ASSUME NEW i \in K, NEW j \in K, rank(i) < rank(j) PROVE i < j
  <2>1. i \in Int /\ j \in Int /\ rank(i) \in Int /\ rank(j) \in Int
        BY <1>2, <1>3
  <2>2. j < i => rank(j) < rank(i)
        BY <1>4
  <2>3. i # j
        BY <1>5, <2>1
  <2>4. QED
        BY <1>5, <2>1, <2>2, <2>3
<1> DEFINE f == [i \in K |-> rank(i)]
<1>6. f \in Injection(K, 1..Cardinality(K))
  <2>1. f \in [K -> 1..Cardinality(K)]
        BY <1>3
  <2>2. ASSUME NEW i \in K, NEW j \in K, f[i] = f[j] PROVE i = j
    <3>1. i \in Int /\ j \in Int /\ rank(i) \in Int /\ rank(j) \in Int /\ rank(i) = rank(j)
          BY <1>2, <1>3, <2>2
    <3>2. (i < j => rank(i) < rank(j)) /\ (j < i => rank(j) < rank(i))
          BY <1>4
    <3>3. QED
          BY <3>1, <3>2
  <2>3. QED
        BY <2>1, <2>2 DEF Injection, IsInjective
<1>7. IsFiniteSet(1..Cardinality(K)) /\ Cardinality(1..Cardinality(K)) = Cardinality(K)
      BY <1>2, FS_Interval
<1>8. f \in Surjection(K, 1..Cardinality(K))
      BY <1>6, <1>7, FS_Injection
<1>9. \A n \in 1..Cardinality(K) : \E i \in K : rank(i) = n
      BY <1>8 DEF Surjection
<1> DEFINE number(i) == Feed!Cardinality(upto(i))
<1>10. Feed!Cardinality(K) = Cardinality(K) /\ \A i : number(i) = rank(i)
       BY SameCardinality
<1> HIDE DEF rank, number
<1>11. /\ \A i \in K : number(i) \in 1..Cardinality(K)
       /\ \A i, j \in K : i < j <=> number(i) < number(j)
       /\ \A n \in 1..Cardinality(K) : \E i \in K : number(i) = n
       BY <1>3, <1>4, <1>5, <1>9, <1>10
<1>12. QED
       BY <1>2, <1>10, <1>11 DEF number

\* finish_replay keeps the items that were not replayed, in their order.
LEMMA RetainedItems ==
    ASSUME NEW S, NEW items \in Seq(S), NEW through
    PROVE  /\ Feed!Retained(items, through) \in Seq(S)
           /\ Len(Feed!Retained(items, through)) <= Len(items)
           /\ Elements(Feed!Retained(items, through)) =
                 {e \in Elements(items) : e = Reset \/ e > through}
           /\ Ascends(items) => Ascends(Feed!Retained(items, through))
           /\ items = <<Reset>> => Feed!Retained(items, through) = items
<1> DEFINE kept == {i \in DOMAIN items : items[i] = Reset \/ items[i] > through}
           rank(i) == Feed!Cardinality({j \in kept : j <= i})
           place(n) == CHOOSE i \in kept : rank(i) = n
           result == Feed!Retained(items, through)
<1>1. DOMAIN items = 1..Len(items) /\ Len(items) \in Nat
      OBVIOUS
<1>2. kept \in SUBSET (1..Len(items))
      BY <1>1
<1>3. /\ Feed!Cardinality(kept) \in 0..Len(items)
      /\ \A i \in kept : rank(i) \in 1..Feed!Cardinality(kept)
      /\ \A i, j \in kept : i < j <=> rank(i) < rank(j)
      /\ \A n \in 1..Feed!Cardinality(kept) : \E i \in kept : rank(i) = n
      BY <1>1, <1>2, Ranks
<1>4. result = [n \in 1..Feed!Cardinality(kept) |-> items[place(n)]]
      BY DEF Feed!Retained
<1>5. \A n \in 1..Feed!Cardinality(kept) : place(n) \in kept /\ rank(place(n)) = n
      BY <1>3
<1>6. \A i \in kept : items[i] \in S /\ items[i] \in Elements(items)
                      /\ (items[i] = Reset \/ items[i] > through)
      BY DEF Elements
<1> HIDE DEF rank
<1>7. \A i \in kept : place(rank(i)) = i
  <2>1. ASSUME NEW i \in kept, NEW j \in kept, rank(i) = rank(j) PROVE i = j
    <3>1. /\ i \in Int /\ j \in Int /\ rank(i) \in Int
          /\ ~(rank(i) < rank(j)) /\ ~(rank(j) < rank(i))
          BY <1>2, <1>3, <2>1
    <3>2. QED
          BY <1>3, <3>1
  <2>2. QED
        BY <1>3, <1>5, <2>1
<1> HIDE DEF kept, place, result
<1>8. /\ result \in Seq(S) /\ Len(result) = Feed!Cardinality(kept)
      /\ DOMAIN result = 1..Feed!Cardinality(kept)
      BY <1>3, <1>4, <1>5, <1>6
<1>9. Elements(result) = {items[i] : i \in kept}
  <2>1. ASSUME NEW n \in 1..Feed!Cardinality(kept) PROVE result[n] \in {items[i] : i \in kept}
        BY <1>4, <1>5
  <2>2. ASSUME NEW i \in kept
        PROVE  items[i] = result[rank(i)] /\ rank(i) \in 1..Feed!Cardinality(kept)
        BY <1>3, <1>4, <1>7
  <2>3. QED
        BY <1>8, <2>1, <2>2 DEF Elements
<1>10. {items[i] : i \in kept} = {e \in Elements(items) : e = Reset \/ e > through}
       BY DEF kept, Elements
<1>11. ASSUME Ascends(items) PROVE Ascends(result)
  <2>1. ASSUME NEW m \in 1..Feed!Cardinality(kept), NEW n \in 1..Feed!Cardinality(kept), m < n
        PROVE  result[m] < result[n]
    <3>1. place(m) < place(n)
          BY <1>3, <1>5, <2>1
    <3>2. place(m) \in DOMAIN items /\ place(n) \in DOMAIN items
          BY <1>1, <1>2, <1>5
    <3>3. QED
          BY <1>4, <1>11, <3>1, <3>2 DEF Ascends
  <2>2. QED
        BY <1>8, <2>1 DEF Ascends
<1>12. ASSUME items = <<Reset>> PROVE result = items
  <2>1. kept = {1}
        BY <1>12 DEF kept
  <2>2. Feed!Cardinality(kept) = 1
        BY <2>1, FS_Singleton, SameCardinality
  <2>3. place(1) = 1
        BY <1>5, <2>1, <2>2
  <2>4. QED
        BY <1>4, <1>12, <2>2, <2>3
<1>13. QED
       BY <1>3, <1>8, <1>9, <1>10, <1>11, <1>12 DEF result

-----------------------------------------------------------------------------
(***************************************************************************)
(* The inductive invariant of the feed: every row that occurred is at one  *)
(* of the places of the hand-over.  It is known to the tab or excused, on  *)
(* the wire, in the hands of the body, in the plan, in the queue or still  *)
(* on its way to the queue (Covered, of each place the stream may be at),  *)
(* and what comes later at a place is a later row (Order), so that neither *)
(* a high-water mark nor a last event id skips anything.                   *)
(***************************************************************************)
\* Where the tab is and where its stream is.
Places ==
    /\ browser.at = "connecting" => conn.at \in {"none", "opened", "bounded"}
    /\ browser.at = "open" => conn.at \in {"replaying", "live", "fetching", "ended"}
    /\ browser.at \notin {"connecting", "open"} => conn.at = "none"
    /\ browser.at # "open" => wire = <<>>
    /\ conn.at \in {"none", "ended"} => conn.queue = <<>> /\ ~conn.reset
    /\ conn.at \in {"none", "opened", "bounded"} => conn.delivered = 0
    /\ conn.at \in {"opened", "bounded"} => plan.after = Feed!ResumeAfter /\ ~plan.reset
    /\ conn.at = "fetching" <=> conn.item # 0
    /\ conn.at # "ended" => Reset \notin Elements(wire)
    /\ IF conn.reset THEN conn.queue = <<Reset>> ELSE Reset \notin Elements(conn.queue)
    /\ listener # "listening" => channel = <<>>

\* Whatever is on its way is in the log, and whatever has been seen has been drawn.
Known ==
    /\ \A r \in log, s \in occurred : r < s => s \in log
    /\ Elements(channel) \subseteq log
    /\ Elements(conn.queue) \subseteq log \cup {Reset}
    /\ conn.item # 0 => conn.item \in log
    /\ browser.page \subseteq occurred
    /\ browser.cursor <= drawn /\ browser.lastId <= drawn
    /\ plan.through <= drawn /\ plan.records \subseteq occurred
    /\ conn.delivered <= drawn
    /\ \A r \in Elements(wire) \ {Reset} : r <= drawn

\* What is sent, then what is queued, then what is notified: each in order.
Order ==
    /\ Ascends(channel)
    /\ ~conn.reset => /\ Ascends(conn.queue)
                      /\ \A q \in Elements(conn.queue), r \in Elements(channel) : q < r
    /\ conn.at \in {"replaying", "live"} => \A r \in Elements(wire) : r <= conn.delivered
    /\ conn.at = "fetching" =>
          /\ conn.item = conn.delivered
          /\ \A r \in Elements(wire) : r < conn.item
    /\ conn.at \in {"live", "fetching"} /\ ~conn.reset =>
          \A r \in Elements(conn.queue) : r > conn.delivered
    /\ conn.at = "replaying" /\ ~plan.reset =>
          /\ conn.delivered <= plan.through
          /\ \A r \in plan.records : conn.delivered < r /\ r <= plan.through

\* What need not be sent any more: known, excused, sent, or about to be sent.
Sent == Feed!Excused \cup Elements(wire) \cup {conn.item}

\* A row that a lost listener has let go, and that the tab will be told to reset for.
Late(r) ==
    /\ listener = "lost"
    /\ r > conn.delivered
    /\ \A q \in Elements(conn.queue) : q < r

\* What the connection will come to, or reset instead.
Due(r) == conn.reset \/ r \in Elements(channel) \/ r \in Elements(conn.queue) \/ Late(r)

\* All that is older than a row on the wire is known or on the wire before it.
WireCovered ==
    \A r \in Elements(wire) \ {Reset} : \A s \in occurred :
        s < r => s \in Feed!Excused \cup Elements(wire)

\* last_delivered_sequence is a watermark.
DeliveredCovered ==
    conn.at # "ended" => \A r \in occurred : r <= conn.delivered => r \in Sent

\* What is not sent is in the plan or will be queued, and the plan says which.
PlanCovered ==
    conn.at \in {"bounded", "replaying"} /\ ~plan.reset =>
        \A r \in occurred \ Sent :
            /\ r <= plan.through => r \in (IF conn.at = "bounded" THEN log ELSE plan.records)
            /\ r > plan.through => Due(r)

\* Once live, whatever is not sent is due.
LiveCovered ==
    conn.at \in {"live", "fetching"} => \A r \in occurred \ Sent : Due(r)

FeedInv ==
    /\ Feed!TypeOK /\ Places /\ Known /\ Order
    /\ Feed!CursorIsWatermark /\ Feed!StreamAscends
    /\ WireCovered /\ DeliveredCovered /\ PlanCovered /\ LiveCovered

\* The types and bounds that follow, as the steps below need them.
LEMMA Facts ==
    ASSUME FeedInv
    PROVE  /\ MaxRows \in Nat /\ QueueSize \in Nat \ {0} /\ Reset \notin Int
           /\ drawn \in Nat /\ drawn <= MaxRows
           /\ \A r \in occurred : r \in Int /\ r \in Feed!Rows /\ 1 <= r /\ r <= drawn
           /\ log \subseteq occurred /\ occurred \subseteq Feed!Rows /\ Feed!Rows \subseteq Int
           /\ \A r \in Feed!Rows : r \in Int /\ 1 <= r
           /\ channel \in Seq(Feed!Rows) /\ channel \in Seq(Int)
           /\ ~conn.reset => conn.queue \in Seq(Feed!Rows) /\ conn.queue \in Seq(Int)
                             /\ Elements(conn.queue) \subseteq log
           /\ conn.at # "ended" => wire \in Seq(Feed!Rows) /\ wire \in Seq(Int)
           /\ Elements(wire) \ {Reset} \subseteq Feed!Rows
           /\ \A r \in Elements(wire) \ {Reset} : r \in Int /\ r <= drawn
           /\ conn.delivered \in Int /\ 0 <= conn.delivered /\ conn.delivered <= drawn
           /\ plan.through \in Int /\ plan.after \in Int
           /\ browser.cursor \in Int /\ browser.lastId \in Int
           /\ Feed!ResumeAfter \in Int /\ Feed!ResumeAfter <= drawn
<1>1. /\ MaxRows \in Nat /\ QueueSize \in Nat \ {0} /\ Reset \notin Int
      BY FeedBounds DEF Feed!FeedAssumption
<1>2. /\ drawn \in Nat /\ drawn <= MaxRows
      /\ Feed!Rows \subseteq Int /\ \A r \in Feed!Rows : r \in Int /\ 1 <= r
      BY <1>1 DEF FeedInv, Feed!TypeOK, Feed!Cursors, Feed!Rows
<1>3. /\ \A r \in occurred : r \in Int /\ r \in Feed!Rows /\ 1 <= r /\ r <= drawn
      /\ log \subseteq occurred /\ occurred \subseteq Feed!Rows
      BY <1>1, <1>2 DEF FeedInv, Feed!TypeOK, Feed!Rows
<1>4. channel \in Seq(Feed!Rows) /\ channel \in Seq(Int)
  <2>1. channel \in Seq(Feed!Rows)
        BY DEF FeedInv, Feed!TypeOK
  <2>2. Elements(channel) \subseteq Int
        BY <1>2, <2>1, ElementsIn
  <2>3. QED
        BY <2>1, <2>2, ElementsIn
<1>5. ASSUME ~conn.reset
      PROVE  conn.queue \in Seq(Feed!Rows) /\ conn.queue \in Seq(Int)
             /\ Elements(conn.queue) \subseteq log
  <2>1. conn.queue \in Seq(Feed!Rows \cup {Reset}) /\ Elements(conn.queue) \subseteq log
        BY <1>5 DEF FeedInv, Feed!TypeOK, Feed!Connection, Places, Known
  <2>2. Elements(conn.queue) \subseteq Feed!Rows /\ Elements(conn.queue) \subseteq Int
        BY <1>2, <1>3, <2>1
  <2>3. QED
        BY <2>1, <2>2, ElementsIn
<1>6. Elements(wire) \subseteq Feed!Rows \cup {Reset} /\ wire \in Seq(Feed!Rows \cup {Reset})
      BY ElementsIn DEF FeedInv, Feed!TypeOK
<1>7. ASSUME conn.at # "ended" PROVE wire \in Seq(Feed!Rows) /\ wire \in Seq(Int)
  <2>1. Elements(wire) \subseteq Feed!Rows /\ Elements(wire) \subseteq Int
        BY <1>2, <1>6, <1>7 DEF FeedInv, Places
  <2>2. QED
        BY <1>6, <2>1, ElementsIn
<1>8. /\ conn.delivered \in Int /\ 0 <= conn.delivered
      /\ plan.through \in Int /\ plan.after \in Int
      /\ browser.cursor \in Int /\ browser.lastId \in Int
      BY <1>1 DEF FeedInv, Feed!TypeOK, Feed!Connection, Feed!Plan, Feed!Browser, Feed!Cursors
<1>11. conn.delivered <= drawn /\ \A r \in Elements(wire) \ {Reset} : r \in Int /\ r <= drawn
       BY <1>2, <1>6 DEF FeedInv, Known
<1>9. Feed!ResumeAfter \in Int /\ Feed!ResumeAfter <= drawn
      BY <1>8 DEF FeedInv, Known, Feed!ResumeAfter
<1>10. QED
       BY <1>1, <1>2, <1>3, <1>4, <1>5, <1>6, <1>7, <1>8, <1>9, <1>11

-----------------------------------------------------------------------------
(***************************************************************************)
(* One lemma for each action: it keeps the invariant.                      *)
(***************************************************************************)
\* The notification of a new row goes to the channel, or the row is excused, or the
\* listener is lost and a reset is to come.
LEMMA CreateKeeps ==
    ASSUME FeedInv, Feed!CreateStreamEvent
    PROVE  FeedInv'
<1> SUFFICES ASSUME NEW CONSTANT n, n = drawn + 1
             PROVE  FeedInv'
    OBVIOUS
<1>1. /\ drawn < MaxRows /\ drawn' = n
      /\ occurred' = occurred \cup {n} /\ log' = log \cup {n}
      /\ IF listener = "listening" THEN channel' = Append(channel, n) ELSE channel' = channel
      /\ overlooked' = overlooked \/ overlooked' = overlooked \cup {n}
      /\ listener = "down" /\ Feed!Planned(conn) => n \in overlooked'
      /\ UNCHANGED <<listener, conn, plan, wire, browser, feedFaults>>
      BY DEF Feed!CreateStreamEvent, Feed!serverVars
<1>2. /\ n \in Feed!Rows /\ n \in Int /\ \A r \in occurred : r < n
      /\ Feed!ResumeAfter < n /\ conn.delivered < n /\ plan.through < n
      /\ \A r \in Elements(wire) \ {Reset} : r < n
  <2>1. n \in Feed!Rows /\ n \in Int /\ \A r \in occurred : r < n
        BY <1>1, Facts DEF Feed!Rows
  <2>2. Feed!ResumeAfter < n /\ conn.delivered < n /\ plan.through < n
        BY <2>1, Facts DEF FeedInv, Known
  <2>3. \A r \in Elements(wire) \ {Reset} : r < n
        BY <2>1, Facts
  <2>4. QED
        BY <2>1, <2>2, <2>3
<1>3. /\ channel' \in Seq(Feed!Rows) /\ Ascends(channel')
      /\ Elements(channel') = Elements(channel) \cup (IF listener = "listening" THEN {n} ELSE {})
  <2>1. channel \in Seq(Feed!Rows) /\ channel \in Seq(Int) /\ Ascends(channel)
        BY Facts DEF FeedInv, Order
  <2>2. \A e \in Elements(channel) : e < n
        BY <1>2, Facts DEF FeedInv, Known
  <2>3. CASE listener = "listening"
    <3>1. channel' = Append(channel, n)
          BY <1>1, <2>3
    <3>2. channel' \in Seq(Feed!Rows)
          BY <1>2, <2>1, <3>1
    <3>3. Elements(channel') = Elements(channel) \cup {n}
          BY <2>1, <3>1, AppendElements
    <3>4. Ascends(channel')
          BY <1>2, <2>1, <2>2, <3>1, AppendAscends
    <3>5. QED
          BY <2>3, <3>2, <3>3, <3>4
  <2>4. CASE listener # "listening"
        BY <1>1, <2>1, <2>4
  <2>5. QED
        BY <2>3, <2>4
<1>4. Feed!TypeOK'
  <2>1. drawn' \in Feed!Cursors /\ occurred' \subseteq 1..drawn' /\ log' \subseteq occurred'
        BY <1>1, <1>2, Facts DEF Feed!Cursors, Feed!Rows
  <2>2. overlooked' \subseteq occurred'
        BY <1>1 DEF FeedInv, Feed!TypeOK
  <2>3. QED
        BY <1>1, <1>3, <2>1, <2>2 DEF FeedInv, Feed!TypeOK
<1>5. Places'
      BY <1>1 DEF FeedInv, Places, Feed!ResumeAfter
<1>6. Known'
  <2>1. \A r \in log', s \in occurred' : r < s => s \in log'
        BY <1>1, <1>2, Facts DEF FeedInv, Known
  <2>2. /\ browser.cursor <= drawn' /\ browser.lastId <= drawn'
        /\ plan.through <= drawn' /\ conn.delivered <= drawn'
        BY <1>1, <1>2, Facts DEF FeedInv, Known
  <2>3. \A r \in Elements(wire) \ {Reset} : r <= drawn'
    <3>1. \A r \in Elements(wire) \ {Reset} : r \in Int /\ r < n
          BY <1>2, Facts
    <3>2. QED
          BY <1>1, <1>2, <3>1
  <2>4. QED
        BY <1>1, <1>3, <2>1, <2>2, <2>3 DEF FeedInv, Known
<1>7. Order'
  <2>1. ~conn.reset => \A q \in Elements(conn.queue) : q < n
        BY <1>2, Facts
  <2>2. QED
        BY <1>1, <1>3, <2>1 DEF FeedInv, Order
<1>8. Feed!CursorIsWatermark'
      BY <1>1, <1>2, Facts DEF FeedInv, Feed!CursorIsWatermark, Feed!Excused, Feed!ResumeAfter
<1>9. Feed!StreamAscends'
      BY <1>1 DEF FeedInv, Feed!StreamAscends
<1>10. /\ Feed!Excused \subseteq Feed!Excused' /\ Sent \subseteq Sent'
       /\ Elements(wire)' = Elements(wire)
       BY <1>1 DEF Feed!Excused, Sent
<1>11. WireCovered'
  <2>1. ASSUME NEW r \in Elements(wire) \ {Reset}, NEW s \in occurred', s < r
        PROVE  s \in Feed!Excused \cup Elements(wire)
    <3>1. r \in Int /\ r < n /\ n \in Int
          BY <1>2, Facts
    <3>2. s # n
          BY <2>1, <3>1
    <3>3. QED
          BY <1>1, <2>1, <3>2 DEF FeedInv, WireCovered
  <2>2. QED
        BY <1>10, <2>1 DEF WireCovered
<1>12. DeliveredCovered'
  <2>1. ~(n <= conn.delivered)
        BY <1>2, Facts
  <2>2. QED
        BY <1>1, <1>10, <2>1 DEF FeedInv, DeliveredCovered
<1>13. \A r \in occurred : Due(r) => Due(r)'
       BY <1>1, <1>3 DEF Due, Late
<1>14. Feed!Planned(conn) => n \in Sent' \/ Due(n)'
  <2>1. CASE listener = "listening"
        BY <1>1, <1>3, <2>1 DEF Due
  <2>2. CASE listener = "down"
        BY <1>1, <2>2 DEF Sent, Feed!Excused
  <2>3. CASE listener = "lost"
    <3>1. ~conn.reset => \A q \in Elements(conn.queue) : q < n
          BY <1>2, Facts
    <3>2. QED
          BY <1>1, <1>2, <2>3, <3>1 DEF Due, Late
  <2>4. QED
        BY <2>1, <2>2, <2>3 DEF FeedInv, Feed!TypeOK
<1>15. PlanCovered'
  <2>1. ASSUME conn.at \in {"bounded", "replaying"}, ~plan.reset, NEW r \in occurred' \ Sent'
        PROVE  /\ r <= plan.through => r \in (IF conn.at = "bounded" THEN log' ELSE plan.records)
               /\ r > plan.through => Due(r)'
    <3>1. CASE r = n
          BY <1>2, <1>14, <2>1, <3>1, Facts DEF Feed!Planned
    <3>2. CASE r # n
          BY <1>1, <1>10, <1>13, <2>1, <3>2 DEF FeedInv, PlanCovered
    <3>3. QED
          BY <3>1, <3>2
  <2>2. QED
        BY <1>1, <2>1 DEF PlanCovered
<1>16. LiveCovered'
  <2>1. ASSUME conn.at \in {"live", "fetching"}, NEW r \in occurred' \ Sent'
        PROVE  Due(r)'
        BY <1>1, <1>10, <1>13, <1>14, <2>1 DEF FeedInv, LiveCovered, Feed!Planned
  <2>2. QED
        BY <1>1, <2>1 DEF LiveCovered
<1>17. QED
       BY <1>4, <1>5, <1>6, <1>7, <1>8, <1>9, <1>11, <1>12, <1>15, <1>16 DEF FeedInv

\* Nothing of what the hand-over does is under way without a connection.
LEMMA NoStreamKeeps ==
    ASSUME FeedInv, Feed!TypeOK', Feed!CursorIsWatermark', UNCHANGED <<drawn, occurred, log>>,
           conn' = Feed!NoConnection, wire' = <<>>, plan' = plan \/ plan' = Feed!NoPlan,
           browser'.at # "open", browser'.page \subseteq occurred,
           browser'.cursor <= drawn, browser'.lastId <= drawn,
           channel' = channel \/ channel' = <<>>,
           listener' # "listening" => channel' = <<>>
    PROVE  FeedInv'
<1>1. /\ conn'.at = "none" /\ conn'.queue = <<>> /\ ~conn'.reset
      /\ conn'.delivered = 0 /\ conn'.item = 0
      BY DEF Feed!NoConnection
<1>2. Elements(wire') = {} /\ Elements(conn'.queue) = {}
      BY <1>1 DEF Elements
<1>3. Ascends(channel') /\ Elements(channel') \subseteq log
      BY DEF FeedInv, Order, Known, Ascends, Elements
<1>4. Places'
      BY <1>1, <1>2 DEF Places
<1>5. Known'
  <2>1. plan'.through <= drawn /\ plan'.records \subseteq occurred
        BY Facts DEF FeedInv, Known, Feed!NoPlan
  <2>2. \A r \in log', s \in occurred' : r < s => s \in log'
        BY DEF FeedInv, Known
  <2>3. conn'.delivered <= drawn
        BY <1>1, Facts
  <2>4. QED
        BY <1>1, <1>2, <1>3, <2>1, <2>2, <2>3 DEF Known
<1>6. Order'
  <2>1. Ascends(conn'.queue)
        BY <1>1 DEF Ascends
  <2>2. QED
        BY <1>1, <1>2, <1>3, <2>1 DEF Order
<1>7. Feed!StreamAscends' /\ WireCovered' /\ PlanCovered' /\ LiveCovered'
      BY <1>1, <1>2 DEF Feed!StreamAscends, WireCovered, PlanCovered, LiveCovered
<1>8. DeliveredCovered'
  <2>1. \A r \in occurred : ~(r <= 0)
        BY Facts
  <2>2. QED
        BY <1>1, <2>1 DEF DeliveredCovered
<1>9. QED
      BY <1>4, <1>5, <1>6, <1>7, <1>8 DEF FeedInv

LEMMA WatermarkStays ==
    ASSUME FeedInv, UNCHANGED <<occurred, overlooked>>,
           browser'.cursor = browser.cursor, browser'.lastId = browser.lastId,
           browser'.known = browser.known,
           browser'.at \in {"connecting", "open", "refused"} =>
               browser.at \in {"connecting", "open", "refused"}
    PROVE  Feed!CursorIsWatermark'
BY DEF FeedInv, Feed!CursorIsWatermark, Feed!ResumeAfter, Feed!Excused

LEMMA NoStream ==
    ASSUME FeedInv, conn.at = "none"
    PROVE  conn = Feed!NoConnection /\ wire = <<>> /\ browser.at # "open"
<1>1. /\ conn.queue = <<>> /\ ~conn.reset /\ conn.delivered = 0 /\ conn.item = 0
      BY DEF FeedInv, Feed!TypeOK, Feed!Connection, Places
<1>2. conn = Feed!NoConnection
      BY <1>1 DEF FeedInv, Feed!TypeOK, Feed!Connection, Feed!NoConnection
<1>3. QED
      BY <1>2 DEF FeedInv, Places

\* What a Reload, a Hide and the other ways to leave a stream make of the tab.
LEMMA TabTypes ==
    ASSUME FeedInv, NEW at \in {"loading", "reading", "connecting", "refused", "stopped"}
    PROVE  [browser EXCEPT !.at = at, !.page = {}] \in Feed!Browser
           /\ [browser EXCEPT !.at = at] \in Feed!Browser
BY DEF FeedInv, Feed!TypeOK, Feed!Browser

LEMMA NoneAreTyped ==
    /\ Feed!NoConnection \in Feed!Connection /\ Len(Feed!NoConnection.queue) <= QueueSize
    /\ Feed!NoPlan \in Feed!Plan
    /\ <<>> \in Seq(Feed!Rows) /\ <<>> \in Seq(Feed!Rows \cup {Reset})
<1>1. 0 \in Feed!Cursors /\ QueueSize \in Nat
      BY FeedBounds DEF Feed!FeedAssumption, Feed!Cursors
<1>2. QED
      BY <1>1 DEF Feed!NoConnection, Feed!Connection, Feed!NoPlan, Feed!Plan

LEMMA FaultCounts == FeedInv /\ Feed!Fault => feedFaults' \in 0..MaxFeedFaults
BY FeedBounds DEF Feed!FeedAssumption, FeedInv, Feed!TypeOK, Feed!Fault

\* The browser leaves its stream, or had none, and does not open another yet.
Leaves(at) ==
    /\ browser' = [browser EXCEPT !.at = at] \/ browser' = [browser EXCEPT !.at = at, !.page = {}]
    /\ conn' = Feed!NoConnection /\ wire' = <<>> /\ (plan' = plan \/ plan' = Feed!NoPlan)
    /\ UNCHANGED <<drawn, occurred, log, overlooked>>
    /\ \/ UNCHANGED <<listener, channel>>
       \/ listener' = "down" /\ channel' = <<>>
    /\ feedFaults' = feedFaults \/ Feed!Fault

LEMMA LeavesKeeps ==
    ASSUME FeedInv, NEW at \in {"loading", "reading", "connecting", "refused", "stopped"},
           Leaves(at),
           at \in {"connecting", "refused"} => browser.at \in {"connecting", "open", "refused"}
    PROVE  FeedInv'
<1>1. browser' \in Feed!Browser
      BY TabTypes DEF Leaves
<1>2. /\ browser'.at = at /\ (browser'.page = browser.page \/ browser'.page = {})
      /\ browser'.known = browser.known
      /\ browser'.cursor = browser.cursor /\ browser'.lastId = browser.lastId
      BY DEF FeedInv, Feed!TypeOK, Feed!Browser, Leaves
<1>3. Feed!TypeOK'
  <2>1. conn' \in Feed!Connection /\ Len(conn'.queue) <= QueueSize /\ plan' \in Feed!Plan
        /\ wire' \in Seq(Feed!Rows \cup {Reset}) /\ channel' \in Seq(Feed!Rows)
        BY NoneAreTyped DEF FeedInv, Feed!TypeOK, Leaves
  <2>2. feedFaults' \in 0..MaxFeedFaults
        BY FaultCounts DEF FeedInv, Feed!TypeOK, Leaves
  <2>3. listener' \in {"down", "listening", "lost"}
        BY DEF FeedInv, Feed!TypeOK, Leaves
  <2>4. QED
        BY <1>1, <2>1, <2>2, <2>3 DEF FeedInv, Feed!TypeOK, Leaves
<1>4. Feed!CursorIsWatermark'
      BY <1>2, WatermarkStays DEF Leaves
<1>5. channel' = channel \/ channel' = <<>>
      BY DEF Leaves
<1>6. listener' # "listening" => channel' = <<>>
      BY DEF Leaves, FeedInv, Places
<1>7. browser'.at # "open" /\ browser'.page \subseteq occurred
      /\ browser'.cursor <= drawn /\ browser'.lastId <= drawn
      BY <1>2 DEF FeedInv, Known
<1>8. QED
      BY <1>3, <1>4, <1>5, <1>6, <1>7, NoStreamKeeps DEF Leaves

LEMMA StreamDropsKeeps == FeedInv /\ Feed!StreamDrops => FeedInv'
<1>1. Feed!StreamDrops => Leaves("connecting") /\ browser.at = "open"
      BY DEF Feed!StreamDrops, Feed!Disconnect, Leaves
<1>2. QED
      BY <1>1, LeavesKeeps

LEMMA ApiRestartsKeeps == FeedInv /\ Feed!ApiRestarts => FeedInv'
<1> SUFFICES ASSUME FeedInv, Feed!ApiRestarts PROVE FeedInv'
    OBVIOUS
<1>1. CASE browser.at = "open"
  <2>1. Leaves("connecting")
        BY <1>1 DEF Feed!ApiRestarts, Feed!Disconnect, Leaves
  <2>2. QED
        BY <1>1, <2>1, LeavesKeeps
<1>2. CASE browser.at # "open"
  <2>1. browser' = [browser EXCEPT !.at = browser.at]
        BY <1>2 DEF Feed!ApiRestarts, FeedInv, Feed!TypeOK, Feed!Browser
  <2>2. Leaves(browser.at)
        BY <2>1 DEF Feed!ApiRestarts, Feed!Disconnect, Leaves
  <2>3. browser.at \in {"loading", "reading", "connecting", "refused", "stopped"}
        BY <1>2 DEF FeedInv, Feed!TypeOK, Feed!Browser
  <2>4. QED
        BY <2>2, <2>3, LeavesKeeps
<1>3. QED
      BY <1>1, <1>2

LEMMA FallbackRefreshKeeps == FeedInv /\ Feed!FallbackRefresh => FeedInv'
<1>1. Feed!FallbackRefresh => Leaves("loading")
      BY DEF Feed!FallbackRefresh, Feed!Reload, Feed!Disconnect, Leaves
<1>2. QED
      BY <1>1, LeavesKeeps

LEMMA HideKeeps == FeedInv /\ Feed!Hide => FeedInv'
<1>1. Feed!Hide => Leaves("stopped")
      BY DEF Feed!Hide, Feed!Disconnect, Leaves
<1>2. QED
      BY <1>1, LeavesKeeps

LEMMA ReturnKeeps == FeedInv /\ Feed!Return => FeedInv'
<1> SUFFICES ASSUME FeedInv, Feed!Return PROVE FeedInv'
    OBVIOUS
<1>1. conn.at = "none"
      BY DEF Feed!Return, FeedInv, Places
<1>2. Leaves("loading")
      BY <1>1, NoStream DEF Feed!Return, Feed!Reload, Leaves, Feed!serverVars
<1>3. QED
      BY <1>2, LeavesKeeps

LEMMA HistoryFailsKeeps == FeedInv /\ Feed!HistoryFails => FeedInv'
<1> SUFFICES ASSUME FeedInv, Feed!HistoryFails PROVE FeedInv'
    OBVIOUS
<1>1. conn.at = "none"
      BY DEF Feed!HistoryFails, FeedInv, Places
<1>2. Leaves("stopped")
      BY <1>1, NoStream DEF Feed!HistoryFails, Leaves, Feed!serverVars
<1>3. QED
      BY <1>2, LeavesKeeps

LEMMA StreamRefusedKeeps == FeedInv /\ Feed!StreamRefused => FeedInv'
<1> SUFFICES ASSUME FeedInv, Feed!StreamRefused PROVE FeedInv'
    OBVIOUS
<1>1. wire = <<>> /\ browser.at = "connecting"
      BY DEF Feed!StreamRefused, FeedInv, Places
<1>2. Leaves("refused")
      BY <1>1 DEF Feed!StreamRefused, Leaves
<1>3. QED
      BY <1>1, <1>2, LeavesKeeps

LEMMA ReadPageKeeps == FeedInv /\ Feed!ReadPage => FeedInv'
<1> SUFFICES ASSUME FeedInv, Feed!ReadPage PROVE FeedInv'
    OBVIOUS
<1>1. conn.at = "none"
      BY DEF Feed!ReadPage, FeedInv, Places
<1>2. conn' = Feed!NoConnection /\ wire' = <<>> /\ plan' = plan
      BY <1>1, NoStream DEF Feed!ReadPage, Feed!serverVars
<1>3. /\ browser' \in Feed!Browser /\ browser'.at = "reading" /\ browser'.page = occurred
      /\ browser'.cursor = browser.cursor /\ browser'.lastId = browser.lastId
      BY Facts DEF Feed!ReadPage, FeedInv, Feed!TypeOK, Feed!Browser
<1>4. Feed!TypeOK'
      BY <1>2, <1>3, NoneAreTyped DEF Feed!ReadPage, FeedInv, Feed!TypeOK, Feed!serverVars
<1>5. Feed!CursorIsWatermark'
      BY <1>3 DEF Feed!CursorIsWatermark
<1>6. /\ UNCHANGED <<drawn, occurred, log, listener, channel>>
      /\ listener # "listening" => channel = <<>>
      BY DEF Feed!ReadPage, FeedInv, Places
<1>7. browser.cursor <= drawn /\ browser.lastId <= drawn
      BY DEF FeedInv, Known
<1>8. QED
      BY <1>2, <1>3, <1>4, <1>5, <1>6, <1>7, NoStreamKeeps

LEMMA LatestIs ==
    ASSUME FeedInv
    PROVE  /\ Feed!Latest(log) \in Feed!Cursors /\ Feed!Latest(log) \in Int
           /\ Feed!Latest(log) <= drawn
           /\ \A r \in log : r <= Feed!Latest(log)
           /\ Feed!Latest(log) = 0 \/ Feed!Latest(log) \in log
<1>1. log \cup {0} \in SUBSET (0..drawn) /\ log \cup {0} # {}
      BY Facts
<1>2. Feed!Latest(log) \in log \cup {0} /\ \A r \in log \cup {0} : r <= Feed!Latest(log)
      BY <1>1, Largest, Facts DEF Feed!Latest
<1>3. QED
      BY <1>1, <1>2, Facts DEF Feed!Cursors

LEMMA ReadCursorKeeps == FeedInv /\ Feed!ReadCursor => FeedInv'
<1> SUFFICES ASSUME FeedInv, Feed!ReadCursor PROVE FeedInv'
    OBVIOUS
<1>1. conn.at = "none"
      BY DEF Feed!ReadCursor, FeedInv, Places
<1>2. conn' = Feed!NoConnection /\ wire' = <<>> /\ plan' = plan
      BY <1>1, NoStream DEF Feed!ReadCursor, Feed!serverVars
<1>3. /\ browser' \in Feed!Browser /\ browser'.at = "connecting" /\ browser'.page = {}
      /\ browser'.cursor = Feed!Latest(log) /\ browser'.lastId = 0
  <2>1. 0 \in Feed!Cursors
        BY FeedBounds DEF Feed!FeedAssumption, Feed!Cursors
  <2>2. QED
        BY <2>1, LatestIs DEF Feed!ReadCursor, FeedInv, Feed!TypeOK, Feed!Browser
<1>4. overlooked' = overlooked \cup (occurred \ browser'.known) /\ occurred' = occurred
      BY DEF Feed!ReadCursor
<1>5. Feed!TypeOK'
      BY <1>2, <1>3, <1>4, NoneAreTyped
      DEF Feed!ReadCursor, FeedInv, Feed!TypeOK, Feed!serverVars
<1>6. Feed!CursorIsWatermark'
      BY <1>4 DEF Feed!CursorIsWatermark, Feed!Excused
<1>7. /\ UNCHANGED <<drawn, occurred, log, listener, channel>>
      /\ listener # "listening" => channel = <<>>
      BY DEF Feed!ReadCursor, FeedInv, Places
<1>8. 0 <= drawn
      BY Facts
<1>9. QED
      BY <1>2, <1>3, <1>5, <1>6, <1>7, <1>8, LatestIs, NoStreamKeeps

LEMMA RowsAreCursors == Feed!Rows \subseteq Feed!Cursors /\ 0 \in Feed!Cursors
BY FeedBounds DEF Feed!FeedAssumption, Feed!Rows, Feed!Cursors

\* The wire without its first message.
LEMMA WireTail ==
    ASSUME FeedInv, wire # <<>>
    PROVE  /\ Elements(wire) = {Head(wire)} \cup Elements(Tail(wire))
           /\ Head(wire) \in Feed!Rows \cup {Reset}
           /\ Tail(wire) \in Seq(Feed!Rows \cup {Reset})
           /\ \A e \in Elements(Tail(wire)) : e # Reset => Head(wire) < e
           /\ wire' = Tail(wire) => Feed!StreamAscends'
<1>1. wire \in Seq(Feed!Rows \cup {Reset})
      BY DEF FeedInv, Feed!TypeOK
<1>2. /\ Elements(wire) = {Head(wire)} \cup Elements(Tail(wire))
      /\ Head(wire) \in Feed!Rows \cup {Reset}
      /\ Tail(wire) \in Seq(Feed!Rows \cup {Reset})
      BY <1>1, TailElements
<1>3. /\ DOMAIN wire = 1..Len(wire) /\ Len(wire) \in Nat \ {0} /\ Head(wire) = wire[1]
      /\ DOMAIN Tail(wire) = 1..(Len(wire) - 1)
      BY <1>1
<1>4. \A i \in 1..(Len(wire) - 1) :
          Tail(wire)[i] = wire[i + 1] /\ i + 1 \in 1..Len(wire) /\ 1 < i + 1
      BY <1>1, <1>3
<1>5. 1 \in 1..Len(wire)
      BY <1>3
<1>6. ASSUME NEW i \in 1..(Len(wire) - 1), Tail(wire)[i] # Reset
      PROVE  Head(wire) < Tail(wire)[i]
      BY <1>3, <1>4, <1>5, <1>6 DEF FeedInv, Feed!StreamAscends
<1>7. ASSUME wire' = Tail(wire) PROVE Feed!StreamAscends'
  <2>1. ASSUME NEW i \in 1..(Len(wire) - 1), NEW j \in 1..(Len(wire) - 1),
               i < j, Tail(wire)[j] # Reset
        PROVE  Tail(wire)[i] # Reset /\ Tail(wire)[i] < Tail(wire)[j]
    <3>1. i + 1 < j + 1
          BY <1>3, <2>1
    <3>2. QED
          BY <1>3, <1>4, <2>1, <3>1 DEF FeedInv, Feed!StreamAscends
  <2>2. QED
        BY <1>3, <1>7, <2>1 DEF Feed!StreamAscends
<1>8. QED
      BY <1>2, <1>3, <1>6, <1>7 DEF Elements

LEMMA ReceiveKeeps == FeedInv /\ Feed!Receive => FeedInv'
<1> SUFFICES ASSUME FeedInv, Feed!Receive PROVE FeedInv'
    OBVIOUS
<1>1. CASE Head(wire) = Reset
  <2>1. Leaves("loading")
        BY <1>1 DEF Feed!Receive, Feed!Reload, Feed!Disconnect, Leaves
  <2>2. QED
        BY <2>1, LeavesKeeps
<1>2. CASE Head(wire) # Reset
  <2> DEFINE h == Head(wire)
  <2>1. /\ wire # <<>> /\ wire' = Tail(wire) /\ browser.at = "open"
        /\ browser' = [browser EXCEPT !.known = @ \cup {h}, !.lastId = h]
        /\ UNCHANGED <<drawn, occurred, log, listener, channel, conn, plan, overlooked,
                       feedFaults>>
        BY <1>2 DEF Feed!Receive, Feed!serverVars
  <2>2. /\ h \in Feed!Rows /\ Elements(wire) = {h} \cup Elements(wire')
        /\ wire' \in Seq(Feed!Rows \cup {Reset})
        /\ \A e \in Elements(wire') : e # Reset => h < e
        BY <1>2, <2>1, WireTail
  <2>3. /\ browser'.at = "open" /\ browser'.known = browser.known \cup {h}
        /\ browser'.lastId = h /\ browser'.cursor = browser.cursor
        /\ browser'.page = browser.page
        BY <2>1 DEF FeedInv, Feed!TypeOK, Feed!Browser
  <2>4. h \in Elements(wire) \ {Reset} /\ h \in Int /\ h <= drawn
        BY <1>2, <2>2, Facts
  <2> HIDE DEF h
  <2>5. Feed!TypeOK'
    <3>1. browser' \in Feed!Browser
          BY <2>1, <2>2, RowsAreCursors DEF FeedInv, Feed!TypeOK, Feed!Browser
    <3>2. QED
          BY <2>1, <2>2, <3>1 DEF FeedInv, Feed!TypeOK
  <2>6. Places'
        BY <2>1, <2>2, <2>3 DEF FeedInv, Places
  <2>7. Known'
        BY <2>1, <2>2, <2>3, <2>4 DEF FeedInv, Known
  <2>8. Order'
        BY <2>1, <2>2 DEF FeedInv, Order
  <2>9. Feed!StreamAscends'
        BY <2>1, WireTail
  <2>10. Feed!Excused' = Feed!Excused \cup {h}
         BY <2>1, <2>3 DEF Feed!Excused
  <2>11. WireCovered'
         BY <2>1, <2>2, <2>10 DEF FeedInv, WireCovered
  <2>12. Sent' = Sent
         BY <2>1, <2>2, <2>10 DEF Sent
  <2>13. \A r : Due(r)' <=> Due(r)
         BY <2>1 DEF Due, Late
  <2>14. DeliveredCovered' /\ PlanCovered' /\ LiveCovered'
         BY <2>1, <2>12, <2>13 DEF FeedInv, DeliveredCovered, PlanCovered, LiveCovered
  <2>15. Feed!CursorIsWatermark'
    <3>1. ASSUME NEW r \in occurred, r < h PROVE r \in Feed!Excused'
      <4>1. r \in Feed!Excused \cup Elements(wire)
            BY <2>4, <3>1 DEF FeedInv, WireCovered
      <4>2. r \in Int /\ r # Reset
            BY Facts
      <4>3. r \notin Elements(wire')
            BY <2>2, <2>4, <3>1, <4>2
      <4>4. QED
            BY <2>2, <2>10, <4>1, <4>3
    <3>2. ASSUME NEW r \in occurred, r <= Feed!ResumeAfter' PROVE r \in Feed!Excused'
      <4>1. r \in Int /\ browser.cursor \in Int /\ browser.lastId \in Int
            BY Facts
      <4>2. CASE h > browser.cursor
        <5>1. r <= h
              BY <2>3, <3>2, <4>2 DEF Feed!ResumeAfter
        <5>2. r < h \/ r = h
              BY <2>4, <4>1, <5>1
        <5>3. QED
              BY <2>10, <3>1, <5>2
      <4>3. CASE ~(h > browser.cursor)
        <5>1. r <= browser.cursor
              BY <2>3, <3>2, <4>3 DEF Feed!ResumeAfter
        <5>2. r <= Feed!ResumeAfter
              BY <4>1, <5>1 DEF Feed!ResumeAfter
        <5>3. QED
              BY <2>1, <2>10, <5>2 DEF FeedInv, Feed!CursorIsWatermark
      <4>4. QED
            BY <4>2, <4>3
    <3>3. QED
          BY <2>1, <3>2 DEF Feed!CursorIsWatermark
  <2>16. QED
         BY <2>5, <2>6, <2>7, <2>8, <2>9, <2>11, <2>14, <2>15 DEF FeedInv
<1>3. QED
      BY <1>1, <1>2

-----------------------------------------------------------------------------
LEMMA OpenStreamKeeps == FeedInv /\ Feed!OpenStream => FeedInv'
<1> SUFFICES ASSUME FeedInv, Feed!OpenStream PROVE FeedInv'
    OBVIOUS
<1>1. /\ browser.at = "connecting" /\ conn.at = "none" /\ wire = <<>>
      /\ UNCHANGED <<drawn, occurred, log, listener, channel, wire, browser, overlooked,
                     feedFaults>>
      BY DEF Feed!OpenStream, FeedInv, Places
<1>2. /\ conn'.at = "opened" /\ conn'.queue = <<>> /\ ~conn'.reset
      /\ conn'.delivered = 0 /\ conn'.item = 0 /\ conn' \in Feed!Connection
      /\ Len(conn'.queue) = 0
      BY NoneAreTyped DEF Feed!OpenStream, Feed!Opened, Feed!NoConnection, Feed!Connection
<1>3. /\ plan'.after = Feed!ResumeAfter /\ plan'.through = 0 /\ plan'.records = {}
      /\ ~plan'.reset /\ plan' \in Feed!Plan
  <2>1. Feed!ResumeAfter \in Feed!Cursors
        BY DEF FeedInv, Feed!TypeOK, Feed!Browser, Feed!ResumeAfter
  <2>2. QED
        BY <2>1, NoneAreTyped DEF Feed!OpenStream, Feed!NoPlan, Feed!Plan
<1>4. Elements(wire) = {} /\ Elements(conn'.queue) = {} /\ Ascends(conn'.queue)
      BY <1>1, <1>2 DEF Elements, Ascends
<1>5. Feed!TypeOK'
  <2>1. Len(conn'.queue) <= QueueSize
        BY <1>2, FeedBounds DEF Feed!FeedAssumption
  <2>2. QED
        BY <1>1, <1>2, <1>3, <2>1 DEF FeedInv, Feed!TypeOK
<1>6. Places'
      BY <1>1, <1>2, <1>3, <1>4 DEF FeedInv, Places, Feed!ResumeAfter
<1>7. Known'
      BY <1>1, <1>2, <1>3, <1>4, Facts DEF FeedInv, Known
<1>8. Order'
      BY <1>1, <1>2, <1>4 DEF FeedInv, Order
<1>9. Feed!CursorIsWatermark' /\ Feed!StreamAscends' /\ WireCovered'
      BY <1>1
      DEF FeedInv, Feed!CursorIsWatermark, Feed!StreamAscends, WireCovered, Feed!Excused,
          Feed!ResumeAfter
<1>10. DeliveredCovered'
  <2>1. \A r \in occurred : ~(r <= 0)
        BY Facts
  <2>2. QED
        BY <1>1, <1>2, <2>1 DEF DeliveredCovered
<1>11. PlanCovered' /\ LiveCovered'
       BY <1>2 DEF PlanCovered, LiveCovered
<1>12. QED
       BY <1>5, <1>6, <1>7, <1>8, <1>9, <1>10, <1>11 DEF FeedInv

\* What a request for the stream reads.
LEMMA LogIsWhole ==
    ASSUME FeedInv, conn.at = "opened", ~Feed!TooOld(plan.after),
           NEW r \in occurred \ Feed!Excused
    PROVE  IF log = {} THEN r > plan.after ELSE r \in log /\ r <= Feed!Latest(log)
<1>1. browser.at = "connecting" /\ plan.after = Feed!ResumeAfter
      BY DEF FeedInv, Places
<1>2. r \in Int /\ Feed!ResumeAfter \in Int
      BY Facts
<1>3. r > plan.after
      BY <1>1, <1>2 DEF FeedInv, Feed!CursorIsWatermark
<1>4. ASSUME log # {} PROVE r \in log /\ r <= Feed!Latest(log)
  <2>1. log \in SUBSET Nat
        BY Facts
  <2>2. Feed!Min(log) \in log
        BY <1>4, <2>1, Smallest
  <2>3. Feed!Min(log) \in Int /\ Feed!Min(log) - 1 <= plan.after
    <3>1. Feed!Min(log) \in Int
          BY <2>2, Facts
    <3>4. plan.after \in Int
          BY <1>1, <1>2
    <3>2. ~(plan.after < Feed!Min(log) - 1)
          BY <1>4 DEF Feed!TooOld
    <3>3. QED
          BY <3>1, <3>2, <3>4
  <2>4. Feed!Min(log) <= r
        BY <1>1, <1>2, <1>3, <2>3
  <2>5. Feed!Min(log) < r \/ Feed!Min(log) = r
        BY <1>2, <2>3, <2>4
  <2>6. r \in log
        BY <2>2, <2>5 DEF FeedInv, Known
  <2>7. QED
        BY <2>6, LatestIs
<1>5. QED
      BY <1>3, <1>4

LEMMA ReadBoundsKeeps == FeedInv /\ Feed!ReadBounds => FeedInv'
<1> SUFFICES ASSUME FeedInv, Feed!ReadBounds PROVE FeedInv'
    OBVIOUS
<1>1. /\ conn.at = "opened" /\ browser.at = "connecting" /\ wire = <<>>
      /\ conn.delivered = 0 /\ plan.after = Feed!ResumeAfter /\ conn.item = 0
      /\ UNCHANGED <<drawn, occurred, log, listener, channel, wire, feedFaults>>
      BY DEF Feed!ReadBounds, FeedInv, Places, Feed!TypeOK, Feed!Connection
<1>2. /\ conn'.at = (IF Feed!TooOld(plan.after) THEN "replaying" ELSE "bounded")
      /\ conn'.queue = conn.queue /\ conn'.reset = conn.reset
      /\ conn'.delivered = 0 /\ conn'.item = 0 /\ conn' \in Feed!Connection
      BY <1>1 DEF Feed!ReadBounds, FeedInv, Feed!TypeOK, Feed!Connection
<1>3. /\ plan'.after = Feed!ResumeAfter /\ plan'.through = Feed!Latest(log)
      /\ plan'.records = plan.records /\ plan'.reset = Feed!TooOld(plan.after)
      /\ plan' \in Feed!Plan
  <2>1. Feed!TooOld(plan.after) \in BOOLEAN
        BY DEF Feed!TooOld
  <2>2. QED
        BY <1>1, <2>1, LatestIs DEF Feed!ReadBounds, FeedInv, Feed!TypeOK, Feed!Plan
<1>4. /\ browser'.at = (IF Feed!TooOld(plan.after) THEN "open" ELSE "connecting")
      /\ browser'.page = browser.page /\ browser'.known = browser.known
      /\ browser'.cursor = browser.cursor /\ browser'.lastId = browser.lastId
      /\ browser' \in Feed!Browser
      BY <1>1 DEF Feed!ReadBounds, FeedInv, Feed!TypeOK, Feed!Browser
<1>5. /\ overlooked \subseteq overlooked' /\ overlooked' \subseteq occurred
      /\ log = {} => \A r \in occurred : r > plan.after => r \in overlooked'
      BY DEF Feed!ReadBounds, FeedInv, Feed!TypeOK
<1>6. /\ Feed!Excused \subseteq Feed!Excused' /\ overlooked' \subseteq Feed!Excused'
      /\ Elements(wire) = {}
      BY <1>1, <1>4, <1>5 DEF Feed!Excused, Elements
<1>7. Feed!ResumeAfter' = Feed!ResumeAfter
      BY <1>4 DEF Feed!ResumeAfter
<1>8. Feed!TypeOK'
      BY <1>1, <1>2, <1>3, <1>4, <1>5 DEF FeedInv, Feed!TypeOK
<1>9. Places'
      BY <1>1, <1>2, <1>3, <1>4, <1>6, <1>7 DEF FeedInv, Places
<1>10. Known'
       BY <1>1, <1>2, <1>3, <1>4, <1>6, Facts, LatestIs DEF FeedInv, Known
<1>11. Order'
       BY <1>1, <1>2, <1>3, <1>6 DEF FeedInv, Order
<1>12. Feed!CursorIsWatermark'
       BY <1>1, <1>6, <1>7 DEF FeedInv, Feed!CursorIsWatermark
<1>13. Feed!StreamAscends' /\ WireCovered'
       BY <1>1, <1>6 DEF FeedInv, Feed!StreamAscends, WireCovered
<1>14. DeliveredCovered'
  <2>1. \A r \in occurred : ~(r <= 0)
        BY Facts
  <2>2. QED
        BY <1>1, <1>2, <2>1 DEF DeliveredCovered
<1>15. PlanCovered'
  <2>1. ASSUME ~Feed!TooOld(plan.after), NEW r \in occurred \ Sent'
        PROVE  r \in log /\ ~(r > Feed!Latest(log))
    <3>1. r \in occurred \ Feed!Excused /\ r \notin overlooked'
          BY <1>6, <2>1 DEF Sent
    <3>2. log # {}
          BY <1>1, <1>5, <2>1, <3>1, LogIsWhole
    <3>3. r \in log /\ r <= Feed!Latest(log)
          BY <1>1, <2>1, <3>1, <3>2, LogIsWhole
    <3>4. QED
          BY <3>3, Facts, LatestIs
  <2>2. QED
        BY <1>1, <1>2, <1>3, <2>1 DEF PlanCovered
<1>16. LiveCovered'
       BY <1>2 DEF LiveCovered
<1>17. QED
       BY <1>8, <1>9, <1>10, <1>11, <1>12, <1>13, <1>14, <1>15, <1>16 DEF FeedInv

LEMMA ReadRecordsKeeps == FeedInv /\ Feed!ReadRecords => FeedInv'
<1> SUFFICES ASSUME FeedInv, Feed!ReadRecords PROVE FeedInv'
    OBVIOUS
<1>1. /\ conn.at = "bounded" /\ browser.at = "connecting" /\ wire = <<>>
      /\ conn.delivered = 0 /\ plan.after = Feed!ResumeAfter /\ conn.item = 0 /\ ~plan.reset
      /\ UNCHANGED <<drawn, occurred, log, listener, channel, wire, overlooked, feedFaults>>
      BY DEF Feed!ReadRecords, FeedInv, Places, Feed!TypeOK, Feed!Connection
<1>2. /\ conn'.at = "replaying" /\ conn'.queue = conn.queue /\ conn'.reset = conn.reset
      /\ conn'.delivered = 0 /\ conn'.item = 0 /\ conn' \in Feed!Connection
      BY <1>1 DEF Feed!ReadRecords, FeedInv, Feed!TypeOK, Feed!Connection
<1> DEFINE records == {r \in log : plan.after < r /\ r <= plan.through}
<1>3. /\ plan'.after = Feed!ResumeAfter /\ plan'.through = plan.through
      /\ plan'.reset \in BOOLEAN
      /\ plan'.records = (IF plan'.reset THEN {} ELSE records)
      /\ plan' \in Feed!Plan
  <2>1. plan' = [plan EXCEPT
                   !.records = IF Feed!Cardinality(records) > ReplayLimit THEN {} ELSE records,
                   !.reset = Feed!Cardinality(records) > ReplayLimit]
        BY DEF Feed!ReadRecords
  <2>2. records \subseteq Feed!Rows
        BY Facts
  <2>3. (Feed!Cardinality(records) > ReplayLimit) \in BOOLEAN
        OBVIOUS
  <2> HIDE DEF records
  <2>4. QED
        BY <1>1, <2>1, <2>2, <2>3 DEF FeedInv, Feed!TypeOK, Feed!Plan
<1>4. /\ browser'.at = "open"
      /\ browser'.page = browser.page /\ browser'.known = browser.known
      /\ browser'.cursor = browser.cursor /\ browser'.lastId = browser.lastId
      /\ browser' \in Feed!Browser
      BY <1>1 DEF Feed!ReadRecords, FeedInv, Feed!TypeOK, Feed!Browser
<1>5. Feed!Excused' = Feed!Excused /\ Elements(wire) = {} /\ Feed!ResumeAfter' = Feed!ResumeAfter
      BY <1>1, <1>4 DEF Feed!Excused, Elements, Feed!ResumeAfter
<1>6. Sent' = Sent /\ \A r : Due(r)' <=> Due(r)
      BY <1>1, <1>2, <1>5 DEF Sent, Due, Late
<1>7. records \subseteq occurred /\ \A r \in records : 0 < r /\ r <= plan.through
      BY Facts
<1> HIDE DEF records
<1>8. Feed!TypeOK'
      BY <1>1, <1>2, <1>3, <1>4 DEF FeedInv, Feed!TypeOK
<1>9. Places'
      BY <1>1, <1>2, <1>3, <1>4, <1>5 DEF FeedInv, Places
<1>10. Known'
       BY <1>1, <1>2, <1>3, <1>4, <1>5, <1>7 DEF FeedInv, Known
<1>11. Order'
  <2>1. 0 <= plan.through
        BY FeedBounds DEF Feed!FeedAssumption, FeedInv, Feed!TypeOK, Feed!Plan, Feed!Cursors
  <2>2. QED
        BY <1>1, <1>2, <1>3, <1>5, <1>7, <2>1 DEF FeedInv, Order
<1>12. Feed!CursorIsWatermark' /\ Feed!StreamAscends' /\ WireCovered'
       BY <1>1, <1>5 DEF FeedInv, Feed!CursorIsWatermark, Feed!StreamAscends, WireCovered
<1>13. DeliveredCovered'
       BY <1>1, <1>2, <1>6 DEF FeedInv, DeliveredCovered
<1>14. PlanCovered'
  <2>1. ASSUME ~plan'.reset, NEW r \in occurred \ Sent
        PROVE  /\ r <= plan.through => r \in records
               /\ r > plan.through => Due(r)
    <3>1. /\ r <= plan.through => r \in log
          /\ r > plan.through => Due(r)
          BY <1>1, <2>1 DEF FeedInv, PlanCovered
    <3>2. ~(r <= plan.after) /\ r \in Int /\ plan.after \in Int
          BY <1>1, <2>1, Facts DEF FeedInv, Feed!CursorIsWatermark, Sent
    <3>3. QED
          BY <3>1, <3>2 DEF records
  <2>2. QED
        BY <1>1, <1>2, <1>3, <1>6, <2>1 DEF PlanCovered
<1>15. LiveCovered'
       BY <1>2 DEF LiveCovered
<1>16. QED
       BY <1>8, <1>9, <1>10, <1>11, <1>12, <1>13, <1>14, <1>15 DEF FeedInv

\* One more message on the wire.
LEMMA WireAppend ==
    ASSUME FeedInv, conn.at # "ended", NEW x \in Feed!Rows \cup {Reset}, wire' = Append(wire, x),
           x # Reset => \A e \in Elements(wire) : e < x
    PROVE  /\ Elements(wire') = Elements(wire) \cup {x}
           /\ wire' \in Seq(Feed!Rows \cup {Reset})
           /\ Feed!StreamAscends'
<1>1. /\ wire \in Seq(Feed!Rows) /\ wire \in Seq(Feed!Rows \cup {Reset})
      /\ Reset \notin Elements(wire)
      BY Facts DEF FeedInv, Places, Feed!TypeOK
<1>2. Elements(wire') = Elements(wire) \cup {x} /\ wire' \in Seq(Feed!Rows \cup {Reset})
      BY <1>1, AppendElements
<1>3. DOMAIN wire' = 1..(Len(wire) + 1) /\ DOMAIN wire = 1..Len(wire) /\ Len(wire) \in Nat
      BY <1>1
<1>4. \A i \in 1..Len(wire) : wire'[i] = wire[i] /\ wire[i] # Reset /\ wire[i] \in Elements(wire)
      BY <1>1, <1>3 DEF Elements
<1>5. wire'[Len(wire) + 1] = x
      BY <1>1
<1>6. ASSUME NEW i \in 1..(Len(wire) + 1), NEW j \in 1..(Len(wire) + 1),
             i < j, wire'[j] # Reset
      PROVE  wire'[i] # Reset /\ wire'[i] < wire'[j]
  <2>1. i \in 1..Len(wire)
        BY <1>3, <1>6
  <2>2. CASE j \in 1..Len(wire)
        BY <1>3, <1>4, <1>6, <2>1, <2>2 DEF FeedInv, Feed!StreamAscends
  <2>3. CASE j \notin 1..Len(wire)
    <3>1. j = Len(wire) + 1
          BY <1>3, <2>3
    <3>2. QED
          BY <1>4, <1>5, <1>6, <2>1, <3>1
  <2>4. QED
        BY <2>2, <2>3
<1>7. QED
      BY <1>2, <1>3, <1>6 DEF Feed!StreamAscends

\* The body of the stream runs only in an open stream.
LEMMA BodyRuns ==
    ASSUME FeedInv, conn.at \in {"replaying", "live", "fetching"}
    PROVE  browser.at = "open"
BY DEF FeedInv, Places, Feed!TypeOK, Feed!Browser

LEMMA SendResetKeeps ==
    ASSUME FeedInv, Feed!SendReset, conn.at \in {"replaying", "live", "fetching"},
           UNCHANGED <<drawn, occurred, log, listener, channel, plan, browser, overlooked>>,
           feedFaults' = feedFaults \/ Feed!Fault
    PROVE  FeedInv'
<1>1. browser.at = "open" /\ conn.at # "ended"
      BY BodyRuns
<1>2. /\ conn'.at = "ended" /\ conn'.queue = <<>> /\ ~conn'.reset
      /\ conn'.delivered = 0 /\ conn'.item = 0 /\ conn' \in Feed!Connection
      /\ Len(conn'.queue) <= QueueSize
      BY NoneAreTyped DEF Feed!SendReset, Feed!NoConnection, Feed!Connection
<1>3. Elements(wire') = Elements(wire) \cup {Reset} /\ wire' \in Seq(Feed!Rows \cup {Reset})
      /\ Feed!StreamAscends'
      BY <1>1, WireAppend DEF Feed!SendReset
<1>4. Elements(conn'.queue) = {} /\ Ascends(conn'.queue)
      BY <1>2 DEF Elements, Ascends
<1>5. Feed!TypeOK'
  <2>1. feedFaults' \in 0..MaxFeedFaults
        BY FaultCounts DEF FeedInv, Feed!TypeOK
  <2>2. QED
        BY <1>2, <1>3, <2>1 DEF FeedInv, Feed!TypeOK
<1>6. Places'
      BY <1>1, <1>2, <1>4 DEF FeedInv, Places
<1>7. Known'
      BY <1>2, <1>3, <1>4, Facts DEF FeedInv, Known
<1>8. Order'
      BY <1>2, <1>4 DEF FeedInv, Order
<1>9. Feed!CursorIsWatermark'
      BY DEF FeedInv, Feed!CursorIsWatermark, Feed!ResumeAfter, Feed!Excused
<1>10. WireCovered'
       BY <1>3 DEF FeedInv, WireCovered, Feed!Excused
<1>11. DeliveredCovered' /\ PlanCovered' /\ LiveCovered'
       BY <1>2 DEF DeliveredCovered, PlanCovered, LiveCovered
<1>12. QED
       BY <1>3, <1>5, <1>6, <1>7, <1>8, <1>9, <1>10, <1>11 DEF FeedInv

LEMMA PlannedResetKeeps == FeedInv /\ Feed!PlannedReset => FeedInv'
BY SendResetKeeps DEF Feed!PlannedReset

LEMMA BodyFailsKeeps == FeedInv /\ Feed!BodyFails => FeedInv'
BY SendResetKeeps DEF Feed!BodyFails

\* The least of the records to replay comes next, and all before it has been sent.
LEMMA ReplayRecordKeeps == FeedInv /\ Feed!ReplayRecord => FeedInv'
<1> SUFFICES ASSUME FeedInv, Feed!ReplayRecord,
                    NEW CONSTANT r, r = Feed!Min(plan.records)
             PROVE  FeedInv'
    OBVIOUS
<1>1. /\ conn.at = "replaying" /\ ~plan.reset /\ plan.records # {}
      /\ wire' = Append(wire, r) /\ conn' = Feed!MarkDelivered(conn, r)
      /\ plan' = [plan EXCEPT !.records = @ \ {r}]
      /\ UNCHANGED <<drawn, occurred, log, listener, channel, browser, overlooked, feedFaults>>
      BY DEF Feed!ReplayRecord
<1>2. browser.at = "open" /\ conn.item = 0
      BY <1>1, BodyRuns DEF FeedInv, Places
<1>3. r \in plan.records /\ \A s \in plan.records : r <= s
  <2>1. plan.records \in SUBSET Nat
        BY Facts DEF FeedInv, Known
  <2>2. QED
        BY <1>1, <2>1, Smallest
<1>4. r \in occurred /\ r \in Int /\ r \in Feed!Rows /\ r <= drawn /\ r # Reset
      BY <1>3, Facts DEF FeedInv, Known
<1>5. conn.delivered < r /\ r <= plan.through
      /\ conn.delivered \in Int /\ plan.through \in Int
      BY <1>1, <1>3, Facts DEF FeedInv, Order
<1>6. /\ conn'.at = "replaying" /\ conn'.queue = conn.queue /\ conn'.reset = conn.reset
      /\ conn'.delivered = r /\ conn'.item = 0 /\ conn' \in Feed!Connection
      BY <1>1, <1>2, <1>4, <1>5, RowsAreCursors
      DEF Feed!MarkDelivered, FeedInv, Feed!TypeOK, Feed!Connection
<1>7. /\ plan'.after = plan.after /\ plan'.through = plan.through /\ ~plan'.reset
      /\ plan'.records = plan.records \ {r} /\ plan' \in Feed!Plan
      BY <1>1 DEF FeedInv, Feed!TypeOK, Feed!Plan
<1>8. \A e \in Elements(wire) : e <= conn.delivered /\ e \in Int /\ e # Reset
      BY <1>1, Facts DEF FeedInv, Order, Places
<1>9. \A e \in Elements(wire) : e < r
      BY <1>4, <1>5, <1>8
<1>10. /\ Elements(wire') = Elements(wire) \cup {r}
       /\ wire' \in Seq(Feed!Rows \cup {Reset}) /\ Feed!StreamAscends'
       BY <1>1, <1>4, <1>9, WireAppend
<1>11. Feed!Excused' = Feed!Excused /\ \A s : s \in Sent' <=> s \in Sent \/ s = r
       BY <1>1, <1>2, <1>6, <1>10 DEF Feed!Excused, Sent
<1>12. ASSUME NEW s \in occurred, s < r PROVE s \in Feed!Excused \cup Elements(wire)
  <2>1. s \in Int /\ s # 0
        BY Facts
  <2>2. s <= plan.through
        BY <1>4, <1>5, <1>12, <2>1
  <2>3. s \notin plan.records
        BY <1>3, <1>4, <1>12, <2>1
  <2>4. s \in Sent
        BY <1>1, <2>2, <2>3 DEF FeedInv, PlanCovered
  <2>5. QED
        BY <1>2, <2>1, <2>4 DEF Sent
<1>13. Feed!TypeOK'
       BY <1>1, <1>6, <1>7, <1>10 DEF FeedInv, Feed!TypeOK
<1>14. Places'
       BY <1>1, <1>2, <1>4, <1>6, <1>7, <1>10 DEF FeedInv, Places
<1>15. Known'
       BY <1>1, <1>4, <1>6, <1>7, <1>10 DEF FeedInv, Known
<1>16. Order'
  <2>1. \A e \in Elements(wire') : e <= r
        BY <1>4, <1>8, <1>9, <1>10
  <2>2. \A s \in plan'.records : r < s /\ s <= plan.through
    <3>1. \A s \in plan.records : s \in Int
          BY Facts DEF FeedInv, Known
    <3>2. QED
          BY <1>1, <1>3, <1>4, <1>7, <3>1 DEF FeedInv, Order
  <2>3. QED
        BY <1>1, <1>5, <1>6, <1>7, <2>1, <2>2 DEF FeedInv, Order
<1>17. Feed!CursorIsWatermark'
       BY <1>1, <1>11 DEF FeedInv, Feed!CursorIsWatermark, Feed!ResumeAfter
<1>18. WireCovered'
       BY <1>1, <1>10, <1>11, <1>12 DEF FeedInv, WireCovered
<1>19. DeliveredCovered'
  <2>1. ASSUME NEW s \in occurred, s <= r PROVE s \in Sent'
    <3>1. s < r \/ s = r
          BY <1>4, <2>1, Facts
    <3>2. QED
          BY <1>11, <1>12, <3>1 DEF Sent
  <2>2. QED
        BY <1>1, <1>6, <2>1 DEF DeliveredCovered
<1>20. PlanCovered'
  <2>1. ASSUME NEW s \in occurred \ Sent'
        PROVE  /\ s <= plan.through => s \in plan'.records
               /\ s > plan.through => Due(s)'
    <3>1. s \in Int /\ s # r /\ s \notin Sent
          BY <1>11, <2>1, Facts
    <3>2. /\ s <= plan.through => s \in plan.records
          /\ s > plan.through => Due(s)
          BY <1>1, <2>1, <3>1 DEF FeedInv, PlanCovered
    <3>3. s > plan.through => s > r
          BY <1>4, <1>5, <3>1
    <3>4. QED
          BY <1>1, <1>6, <1>7, <3>1, <3>2, <3>3 DEF Due, Late
  <2>2. QED
        BY <1>1, <1>6, <1>7, <2>1 DEF PlanCovered
<1>21. LiveCovered'
       BY <1>6 DEF LiveCovered
<1>22. QED
       BY <1>10, <1>13, <1>14, <1>15, <1>16, <1>17, <1>18, <1>19, <1>20, <1>21 DEF FeedInv

LEMMA FinishReplayKeeps == FeedInv /\ Feed!FinishReplay => FeedInv'
<1> SUFFICES ASSUME FeedInv, Feed!FinishReplay PROVE FeedInv'
    OBVIOUS
<1>1. /\ conn.at = "replaying" /\ ~plan.reset /\ plan.records = {}
      /\ conn' = Feed!ReplayFinished(conn, plan.through)
      /\ UNCHANGED <<drawn, occurred, log, listener, channel, plan, wire, browser,
                     overlooked, feedFaults>>
      BY DEF Feed!FinishReplay
<1>2. browser.at = "open" /\ conn.item = 0
      BY <1>1, BodyRuns DEF FeedInv, Places
<1> DEFINE kept == Feed!Retained(conn.queue, plan.through)
<1>3. /\ kept \in Seq(Feed!Rows \cup {Reset}) /\ Len(kept) <= Len(conn.queue)
      /\ Elements(kept) = {e \in Elements(conn.queue) : e = Reset \/ e > plan.through}
      /\ Ascends(conn.queue) => Ascends(kept)
      /\ conn.queue = <<Reset>> => kept = conn.queue
  <2>1. conn.queue \in Seq(Feed!Rows \cup {Reset})
        BY DEF FeedInv, Feed!TypeOK, Feed!Connection
  <2>2. QED
        BY <2>1, RetainedItems
<1>4. /\ conn'.at = "live" /\ conn'.queue = kept /\ conn'.reset = conn.reset
      /\ conn'.delivered = conn.delivered /\ conn'.item = 0
      BY <1>1, <1>2 DEF Feed!ReplayFinished, FeedInv, Feed!TypeOK, Feed!Connection
<1> HIDE DEF kept
<1>5. conn' \in Feed!Connection /\ Len(conn'.queue) <= QueueSize
  <2>1. conn' \in Feed!Connection
        BY <1>1, <1>3 DEF kept, Feed!ReplayFinished, FeedInv, Feed!TypeOK, Feed!Connection
  <2>2. Len(kept) \in Nat /\ Len(conn.queue) \in Nat /\ QueueSize \in Nat
        BY <1>3, Facts DEF FeedInv, Feed!TypeOK, Feed!Connection
  <2>3. QED
        BY <1>3, <1>4, <2>1, <2>2 DEF FeedInv, Feed!TypeOK
<1>6. Feed!Excused' = Feed!Excused /\ Sent' = Sent
      BY <1>1, <1>2, <1>4 DEF Feed!Excused, Sent
<1>7. Elements(kept) \subseteq Elements(conn.queue)
      BY <1>3
<1>8. conn.delivered <= plan.through /\ conn.delivered \in Int /\ plan.through \in Int
      BY <1>1, Facts DEF FeedInv, Order
<1>9. Feed!TypeOK'
      BY <1>1, <1>5 DEF FeedInv, Feed!TypeOK
<1>10. Places'
       BY <1>1, <1>2, <1>3, <1>4, <1>7 DEF FeedInv, Places
<1>11. Known'
       BY <1>1, <1>4, <1>7 DEF FeedInv, Known
<1>12. Order'
  <2>1. ASSUME ~conn.reset PROVE \A e \in Elements(kept) : e > conn.delivered
    <3>1. \A e \in Elements(kept) : e \in Int /\ e > plan.through
          BY <1>3, <2>1, Facts DEF FeedInv, Places
    <3>2. QED
          BY <1>8, <3>1
  <2>2. ~conn.reset => /\ Ascends(kept)
                       /\ \A q \in Elements(kept), r \in Elements(channel) : q < r
        BY <1>3, <1>7 DEF FeedInv, Order
  <2>3. \A r \in Elements(wire) : r <= conn.delivered
        BY <1>1 DEF FeedInv, Order
  <2>4. QED
        BY <1>1, <1>4, <2>1, <2>2, <2>3 DEF FeedInv, Order
<1>13. Feed!CursorIsWatermark' /\ Feed!StreamAscends' /\ WireCovered'
       BY <1>1, <1>6
       DEF FeedInv, Feed!CursorIsWatermark, Feed!StreamAscends, WireCovered, Feed!ResumeAfter
<1>14. DeliveredCovered'
       BY <1>1, <1>4, <1>6 DEF FeedInv, DeliveredCovered
<1>15. PlanCovered'
       BY <1>4 DEF PlanCovered
<1>16. LiveCovered'
  <2>1. ASSUME NEW r \in occurred \ Sent PROVE Due(r)'
    <3>1. r \in Int /\ ~(r <= plan.through)
          BY <1>1, <2>1, Facts DEF FeedInv, PlanCovered
    <3>2. r > plan.through
          BY <1>8, <3>1
    <3>3. Due(r)
          BY <1>1, <2>1, <3>2 DEF FeedInv, PlanCovered
    <3>4. r \in Elements(conn.queue) => r \in Elements(kept)
          BY <1>3, <3>2
    <3>5. QED
          BY <1>1, <1>4, <1>7, <3>3, <3>4 DEF Due, Late
  <2>2. QED
        BY <1>1, <1>6, <2>1 DEF LiveCovered
<1>17. QED
       BY <1>9, <1>10, <1>11, <1>12, <1>13, <1>14, <1>15, <1>16 DEF FeedInv

LEMMA TakeItemKeeps == FeedInv /\ Feed!TakeItem => FeedInv'
<1> SUFFICES ASSUME FeedInv, Feed!TakeItem PROVE FeedInv'
    OBVIOUS
<1>1. CASE Head(conn.queue) = Reset
      BY <1>1, SendResetKeeps DEF Feed!TakeItem
<1>2. CASE Head(conn.queue) # Reset
  <2> SUFFICES ASSUME NEW CONSTANT item, item = Head(conn.queue) PROVE FeedInv'
      OBVIOUS
  <2>1. /\ conn.at = "live" /\ conn.queue # <<>> /\ item # Reset
        /\ conn' = [Feed!MarkDelivered(conn, item) EXCEPT
                      !.at = "fetching", !.item = item, !.queue = Tail(@)]
        /\ UNCHANGED <<drawn, occurred, log, listener, channel, plan, wire, browser,
                       overlooked, feedFaults>>
        BY <1>2 DEF Feed!TakeItem
  <2>2. ~conn.reset
    <3>1. Head(<<Reset>>) = Reset
          OBVIOUS
    <3>2. QED
          BY <1>2, <3>1 DEF FeedInv, Places
  <2>3. browser.at = "open" /\ conn.item = 0
        BY <2>1, BodyRuns DEF FeedInv, Places
  <2>4. /\ Elements(conn.queue) = {item} \cup Elements(Tail(conn.queue))
        /\ item \in Feed!Rows /\ Tail(conn.queue) \in Seq(Feed!Rows)
        /\ Len(Tail(conn.queue)) = Len(conn.queue) - 1
        /\ Ascends(Tail(conn.queue))
        /\ \A e \in Elements(Tail(conn.queue)) : item < e
    <3>1. conn.queue \in Seq(Feed!Rows) /\ conn.queue \in Seq(Int) /\ Ascends(conn.queue)
          BY <2>2, Facts DEF FeedInv, Order
    <3>2. /\ Elements(conn.queue) = {item} \cup Elements(Tail(conn.queue))
          /\ item \in Feed!Rows /\ Tail(conn.queue) \in Seq(Feed!Rows)
          /\ Len(Tail(conn.queue)) = Len(conn.queue) - 1
          BY <2>1, <3>1, TailElements
    <3>3. /\ Ascends(Tail(conn.queue))
          /\ \A e \in Elements(Tail(conn.queue)) : item < e
          BY <2>1, <3>1, TailAscends
    <3>4. QED
          BY <3>2, <3>3
  <2>5. item \in Elements(conn.queue) /\ item \in log /\ item \in occurred
        /\ item \in Int /\ item # 0 /\ item <= drawn
        BY <2>2, <2>4, Facts
  <2>6. conn.delivered < item /\ conn.delivered \in Int
        BY <2>1, <2>2, <2>5, Facts DEF FeedInv, Order
  <2>7. /\ conn'.at = "fetching" /\ conn'.queue = Tail(conn.queue) /\ ~conn'.reset
        /\ conn'.delivered = item /\ conn'.item = item
        BY <2>1, <2>2, <2>6 DEF Feed!MarkDelivered, FeedInv, Feed!TypeOK, Feed!Connection
  <2>8. conn' \in Feed!Connection
    <3>1. Tail(conn.queue) \in Seq(Feed!Rows \cup {Reset})
          BY <2>4, ElementsIn
    <3>2. item \in Feed!Cursors
          BY <2>4, RowsAreCursors
    <3>3. QED
          BY <2>1, <2>6, <3>1, <3>2
          DEF Feed!MarkDelivered, FeedInv, Feed!TypeOK, Feed!Connection
  <2>9. Len(conn'.queue) <= QueueSize
    <3>1. Len(conn.queue) \in Nat /\ QueueSize \in Nat /\ Len(conn.queue) <= QueueSize
          BY Facts DEF FeedInv, Feed!TypeOK, Feed!Connection
    <3>2. QED
          BY <2>4, <2>7, <3>1
  <2>10. /\ Feed!Excused' = Feed!Excused
         /\ \A r \in occurred : r \in Sent' <=> r \in Sent \/ r = item
    <3>1. 0 \notin occurred
          BY Facts
    <3>2. QED
          BY <2>1, <2>3, <2>7, <3>1 DEF Feed!Excused, Sent
  <2>11. \A e \in Elements(wire) : e \in Int /\ e < item
    <3>1. \A e \in Elements(wire) : e <= conn.delivered /\ e # Reset
          BY <2>1 DEF FeedInv, Order, Places
    <3>2. \A e \in Elements(wire) : e \in Int
          BY <3>1, Facts
    <3>3. QED
          BY <2>5, <2>6, <3>1, <3>2
  <2>12. Feed!TypeOK'
         BY <2>1, <2>8, <2>9 DEF FeedInv, Feed!TypeOK
  <2>13. Places'
    <3>1. Reset \notin Elements(Tail(conn.queue))
          BY <2>2, <2>4, Facts DEF FeedInv, Places
    <3>2. QED
          BY <2>1, <2>3, <2>5, <2>7, <3>1 DEF FeedInv, Places
  <2>14. Known'
         BY <2>1, <2>4, <2>5, <2>7 DEF FeedInv, Known
  <2>15. Order'
         BY <2>1, <2>2, <2>4, <2>7, <2>11 DEF FeedInv, Order
  <2>16. Feed!CursorIsWatermark' /\ Feed!StreamAscends' /\ WireCovered'
         BY <2>1, <2>10
         DEF FeedInv, Feed!CursorIsWatermark, Feed!StreamAscends, WireCovered, Feed!ResumeAfter
  <2>17. ASSUME NEW r \in occurred \ Sent PROVE Due(r)
         BY <2>1, <2>17 DEF FeedInv, LiveCovered
  <2>18. ASSUME NEW r \in occurred \ Sent PROVE r >= item
    <3>1. r \in Int
          BY Facts
    <3>2. CASE r \in Elements(channel)
      <4>1. item < r
            BY <2>2, <2>5, <3>2 DEF FeedInv, Order
      <4>2. QED
            BY <2>5, <3>1, <4>1
    <3>3. CASE r \in Elements(conn.queue)
          BY <2>4, <2>5, <3>1, <3>3
    <3>4. CASE Late(r)
      <4>1. item < r
            BY <2>5, <3>4 DEF Late
      <4>2. QED
            BY <2>5, <3>1, <4>1
    <3>5. QED
          BY <2>2, <2>17, <3>2, <3>3, <3>4 DEF Due
  <2>19. DeliveredCovered'
    <3>1. ASSUME NEW r \in occurred, r <= item PROVE r \in Sent'
      <4>1. r \in Int
            BY Facts
      <4>2. r \notin Sent => r = item
            BY <2>5, <2>18, <3>1, <4>1
      <4>3. QED
            BY <2>10, <4>2
    <3>2. QED
          BY <2>1, <2>7, <3>1 DEF DeliveredCovered
  <2>20. PlanCovered'
         BY <2>7 DEF PlanCovered
  <2>21. LiveCovered'
    <3>1. ASSUME NEW r \in occurred \ Sent' PROVE Due(r)'
      <4>1. r \notin Sent /\ r # item /\ r \in Int
            BY <2>10, <3>1, Facts
      <4>2. Due(r) /\ r > item
            BY <2>5, <2>17, <2>18, <3>1, <4>1
      <4>3. QED
            BY <2>1, <2>2, <2>4, <2>7, <4>1, <4>2 DEF Due, Late
    <3>2. QED
          BY <2>1, <3>1 DEF LiveCovered
  <2>22. QED
         BY <2>12, <2>13, <2>14, <2>15, <2>16, <2>19, <2>20, <2>21 DEF FeedInv
<1>3. QED
      BY <1>1, <1>2

LEMMA SendItemKeeps == FeedInv /\ Feed!SendItem => FeedInv'
<1> SUFFICES ASSUME FeedInv, Feed!SendItem,
                    NEW CONSTANT item, item = conn.item
             PROVE  FeedInv'
    OBVIOUS
<1>1. conn.at = "fetching" /\ item # 0 /\ item \in log /\ browser.at = "open"
      BY BodyRuns DEF Feed!SendItem, FeedInv, Places, Known
<1>2. /\ wire' = Append(wire, item) /\ conn' = [conn EXCEPT !.at = "live", !.item = 0]
      /\ UNCHANGED <<drawn, occurred, log, listener, channel, plan, browser, overlooked,
                     feedFaults>>
      BY <1>1 DEF Feed!SendItem
<1>3. item \in occurred /\ item \in Feed!Rows /\ item \in Int /\ item <= drawn /\ item # Reset
      BY <1>1, Facts
<1>4. conn.delivered = item /\ \A e \in Elements(wire) : e < item
      BY <1>1 DEF FeedInv, Order
<1>5. /\ Elements(wire') = Elements(wire) \cup {item}
      /\ wire' \in Seq(Feed!Rows \cup {Reset}) /\ Feed!StreamAscends'
      BY <1>1, <1>2, <1>3, <1>4, WireAppend
<1>6. /\ conn'.at = "live" /\ conn'.queue = conn.queue /\ conn'.reset = conn.reset
      /\ conn'.delivered = item /\ conn'.item = 0 /\ conn' \in Feed!Connection
      BY <1>2, <1>4, RowsAreCursors DEF FeedInv, Feed!TypeOK, Feed!Connection
<1>7. Feed!Excused' = Feed!Excused /\ Sent \subseteq Sent'
      BY <1>2, <1>5, <1>6 DEF Feed!Excused, Sent
<1>8. Feed!TypeOK'
      BY <1>2, <1>5, <1>6 DEF FeedInv, Feed!TypeOK
<1>9. Places'
      BY <1>1, <1>2, <1>3, <1>5, <1>6 DEF FeedInv, Places
<1>10. Known'
       BY <1>1, <1>2, <1>3, <1>5, <1>6 DEF FeedInv, Known
<1>11. Order'
  <2>1. \A e \in Elements(wire') : e <= item
    <3>1. \A e \in Elements(wire) : e \in Int
          BY <1>1, Facts DEF FeedInv, Places
    <3>2. QED
          BY <1>3, <1>4, <1>5, <3>1
  <2>2. QED
        BY <1>1, <1>2, <1>4, <1>6, <2>1 DEF FeedInv, Order
<1>12. Feed!CursorIsWatermark'
       BY <1>2, <1>7 DEF FeedInv, Feed!CursorIsWatermark, Feed!ResumeAfter
<1>13. WireCovered'
  <2>1. ASSUME NEW s \in occurred, s < item PROVE s \in Feed!Excused \cup Elements(wire)
    <3>1. s \in Int /\ s <= conn.delivered /\ s # item
          BY <1>3, <1>4, <2>1, Facts
    <3>2. QED
          BY <1>1, <3>1 DEF FeedInv, DeliveredCovered, Sent
  <2>2. QED
        BY <1>2, <1>5, <1>7, <2>1 DEF FeedInv, WireCovered
<1>14. DeliveredCovered'
       BY <1>1, <1>2, <1>4, <1>6, <1>7 DEF FeedInv, DeliveredCovered
<1>15. PlanCovered'
       BY <1>6 DEF PlanCovered
<1>16. LiveCovered'
  <2>1. \A r : Due(r)' <=> Due(r)
        BY <1>2, <1>4, <1>6 DEF Due, Late
  <2>2. QED
        BY <1>1, <1>2, <1>6, <1>7, <2>1 DEF FeedInv, LiveCovered
<1>17. QED
       BY <1>5, <1>8, <1>9, <1>10, <1>11, <1>12, <1>13, <1>14, <1>15, <1>16 DEF FeedInv

\* What the listener does changes the queue of the connection, and nothing it has
\* sent.
LEMMA ListenerKeeps ==
    ASSUME FeedInv, Feed!TypeOK',
           UNCHANGED <<drawn, occurred, log, plan, wire, browser, overlooked>>,
           conn'.at = conn.at, conn'.delivered = conn.delivered, conn'.item = conn.item,
           conn.at \in {"none", "ended"} => conn' = conn,
           conn'.reset => conn'.queue = <<Reset>>,
           ~conn'.reset => /\ Ascends(conn'.queue) /\ Elements(conn'.queue) \subseteq log
                           /\ \A q \in Elements(conn'.queue), r \in Elements(channel') : q < r
                           /\ conn.at \in {"live", "fetching"} =>
                                 \A q \in Elements(conn'.queue) : q > conn.delivered,
           Ascends(channel'), Elements(channel') \subseteq log,
           listener' # "listening" => channel' = <<>>,
           conn.at \notin {"none", "ended"} => \A r \in occurred \ Sent : Due(r) => Due(r)'
    PROVE  FeedInv'
<1>1. Feed!Excused' = Feed!Excused /\ Sent' = Sent /\ Feed!ResumeAfter' = Feed!ResumeAfter
      BY DEF Feed!Excused, Sent, Feed!ResumeAfter
<1>2. Elements(conn'.queue) \subseteq log \cup {Reset}
  <2>1. Elements(<<Reset>>) = {Reset}
        BY DEF Elements
  <2>2. QED
        BY <2>1
<1>3. ~conn'.reset => Reset \notin Elements(conn'.queue)
      BY Facts
<1>4. Places'
      BY <1>1, <1>3 DEF FeedInv, Places
<1>5. Known'
      BY <1>2 DEF FeedInv, Known
<1>6. Order'
      BY DEF FeedInv, Order
<1>7. Feed!CursorIsWatermark' /\ Feed!StreamAscends' /\ WireCovered' /\ DeliveredCovered'
      BY <1>1
      DEF FeedInv, Feed!CursorIsWatermark, Feed!StreamAscends, WireCovered, DeliveredCovered
<1>8. PlanCovered'
  <2>1. ASSUME conn.at \in {"bounded", "replaying"}, ~plan.reset, NEW r \in occurred \ Sent
        PROVE  /\ r <= plan.through => r \in (IF conn.at = "bounded" THEN log ELSE plan.records)
               /\ r > plan.through => Due(r)'
        BY <2>1 DEF FeedInv, PlanCovered
  <2>2. QED
        BY <1>1, <2>1 DEF PlanCovered
<1>9. LiveCovered'
  <2>1. ASSUME conn.at \in {"live", "fetching"}, NEW r \in occurred \ Sent
        PROVE  Due(r)'
        BY <2>1 DEF FeedInv, LiveCovered
  <2>2. QED
        BY <1>1, <2>1 DEF LiveCovered
<1>10. QED
       BY <1>4, <1>5, <1>6, <1>7, <1>8, <1>9 DEF FeedInv

\* The queue as it is, in the terms of that lemma.
LEMMA QueueNow ==
    ASSUME FeedInv
    PROVE  /\ conn.reset => conn.queue = <<Reset>>
           /\ ~conn.reset => /\ Ascends(conn.queue) /\ Elements(conn.queue) \subseteq log
                             /\ conn.at \in {"live", "fetching"} =>
                                   \A q \in Elements(conn.queue) : q > conn.delivered
BY Facts DEF FeedInv, Places, Order

LEMMA Empty == Ascends(<<>>) /\ Elements(<<>>) = {}
BY DEF Ascends, Elements

LEMMA ListenKeeps == FeedInv /\ Feed!Listen => FeedInv'
<1> SUFFICES ASSUME FeedInv, Feed!Listen PROVE FeedInv'
    OBVIOUS
<1>1. /\ listener = "down" /\ listener' = "listening" /\ channel = <<>>
      /\ UNCHANGED <<drawn, occurred, log, channel, conn, plan, wire, browser, overlooked,
                     feedFaults>>
      BY DEF Feed!Listen, Feed!serverVars, FeedInv, Places
<1>2. Feed!TypeOK'
      BY <1>1 DEF FeedInv, Feed!TypeOK
<1>3. \A r : Due(r) => Due(r)'
      BY <1>1 DEF Due, Late
<1>4. QED
      BY <1>1, <1>2, <1>3, QueueNow, Empty, ListenerKeeps

LEMMA ListenerFailsKeeps == FeedInv /\ Feed!ListenerFails => FeedInv'
<1> SUFFICES ASSUME FeedInv, Feed!ListenerFails PROVE FeedInv'
    OBVIOUS
<1>1. /\ listener = "listening" /\ listener' = "lost" /\ channel' = <<>> /\ Feed!Fault
      /\ UNCHANGED <<drawn, occurred, log, conn, plan, wire, browser, overlooked>>
      BY DEF Feed!ListenerFails, Feed!serverVars
<1>2. Feed!TypeOK'
  <2>1. <<>> \in Seq(Feed!Rows)
        OBVIOUS
  <2>2. QED
        BY <1>1, <2>1, FaultCounts DEF FeedInv, Feed!TypeOK
<1>3. ASSUME conn.at \notin {"none", "ended"}, NEW r \in occurred \ Sent, Due(r)
      PROVE  Due(r)'
  <2>1. CASE conn.reset \/ r \in Elements(conn.queue)
        BY <1>1, <2>1 DEF Due
  <2>2. CASE ~conn.reset /\ r \in Elements(channel)
    <3>1. \A q \in Elements(conn.queue) : q < r
          BY <2>2 DEF FeedInv, Order
    <3>2. ~(r <= conn.delivered) /\ r \in Int /\ conn.delivered \in Int
          BY <1>3, Facts DEF FeedInv, DeliveredCovered
    <3>3. r > conn.delivered
          BY <3>2
    <3>4. QED
          BY <1>1, <3>1, <3>3 DEF Due, Late
  <2>3. QED
        BY <1>1, <1>3, <2>1, <2>2 DEF Due, Late
<1>4. QED
      BY <1>1, <1>2, <1>3, QueueNow, Empty, ListenerKeeps

\* Nothing a connection is due is lost by a reset.
LEMMA ResetIsTyped ==
    ASSUME FeedInv
    PROVE  /\ Feed!RequestReset(conn) \in Feed!Connection
           /\ Len(Feed!RequestReset(conn).queue) <= QueueSize
           /\ Feed!RequestReset(conn).at = conn.at
           /\ Feed!RequestReset(conn).delivered = conn.delivered
           /\ Feed!RequestReset(conn).item = conn.item
           /\ Feed!RequestReset(conn).reset
           /\ Feed!RequestReset(conn).queue = <<Reset>>
<1>1. QueueSize \in Nat \ {0} /\ Len(<<Reset>>) = 1 /\ <<Reset>> \in Seq(Feed!Rows \cup {Reset})
      BY Facts
<1>2. 1 <= QueueSize
      BY <1>1
<1>3. CASE conn.reset
      BY <1>3 DEF Feed!RequestReset, FeedInv, Feed!TypeOK, Places
<1>4. CASE ~conn.reset
      BY <1>1, <1>2, <1>4 DEF Feed!RequestReset, FeedInv, Feed!TypeOK, Feed!Connection
<1>5. QED
      BY <1>3, <1>4

LEMMA ResetAllKeeps == FeedInv /\ Feed!ResetAll => FeedInv'
<1> SUFFICES ASSUME FeedInv, Feed!ResetAll PROVE FeedInv'
    OBVIOUS
<1>1. /\ listener = "lost" /\ listener' = "down" /\ channel = <<>>
      /\ conn' = Feed!ResetIfOpen(conn)
      /\ UNCHANGED <<drawn, occurred, log, channel, plan, wire, browser, overlooked,
                     feedFaults>>
      BY DEF Feed!ResetAll, FeedInv, Places
<1>2. CASE conn.at \in {"none", "ended"}
  <2>1. conn' = conn
        BY <1>1, <1>2 DEF Feed!ResetIfOpen
  <2>2. Feed!TypeOK'
        BY <1>1, <2>1 DEF FeedInv, Feed!TypeOK
  <2>3. QED
        BY <1>1, <1>2, <2>1, <2>2, QueueNow, Empty, ListenerKeeps
<1>3. CASE conn.at \notin {"none", "ended"}
  <2>1. conn' = Feed!RequestReset(conn)
        BY <1>1, <1>3 DEF Feed!ResetIfOpen
  <2>2. Feed!TypeOK'
        BY <1>1, <2>1, ResetIsTyped DEF FeedInv, Feed!TypeOK
  <2>3. \A r : Due(r)'
        BY <2>1, ResetIsTyped DEF Due
  <2>4. QED
        BY <1>1, <1>3, <2>1, <2>2, <2>3, ResetIsTyped, Empty, ListenerKeeps
<1>4. QED
      BY <1>2, <1>3

LEMMA DispatchSequenceKeeps == FeedInv /\ Feed!DispatchSequence => FeedInv'
<1> SUFFICES ASSUME FeedInv, Feed!DispatchSequence,
                    NEW CONSTANT r, r = Head(channel)
             PROVE  FeedInv'
    OBVIOUS
<1>1. /\ listener = "listening" /\ channel # <<>> /\ channel' = Tail(channel)
      /\ conn' = (IF conn.at \notin {"none", "ended"} /\ r \in log
                    THEN Feed!Enqueue(conn, r) ELSE conn)
      /\ UNCHANGED <<drawn, occurred, log, listener, plan, wire, browser, overlooked,
                     feedFaults>>
      BY DEF Feed!DispatchSequence
<1>2. /\ Elements(channel) = {r} \cup Elements(Tail(channel))
      /\ r \in Feed!Rows /\ Tail(channel) \in Seq(Feed!Rows)
      /\ Ascends(Tail(channel))
      /\ \A e \in Elements(Tail(channel)) : r < e
  <2>1. channel \in Seq(Feed!Rows) /\ channel \in Seq(Int) /\ Ascends(channel)
        BY Facts DEF FeedInv, Order
  <2>2. QED
        BY <1>1, <2>1, TailElements, TailAscends
<1>3. r \in log /\ r \in Int /\ Elements(Tail(channel)) \subseteq log
      /\ r \in Elements(channel) /\ r # Reset
      BY <1>2, Facts DEF FeedInv, Known
<1>4. ASSUME NEW s, Due(s), s # r, listener' = "listening", conn' = conn
      PROVE  Due(s)'
      BY <1>1, <1>2, <1>4 DEF Due, Late
<1>5. CASE conn' = conn /\ (\/ conn.at \in {"none", "ended"} \/ conn.reset
                            \/ r <= conn.delivered \/ r \in Feed!InQueue(conn))
  <2>1. Feed!TypeOK'
        BY <1>1, <1>2, <1>5 DEF FeedInv, Feed!TypeOK
  <2>2. ASSUME conn.at \notin {"none", "ended"}, NEW s \in occurred \ Sent, Due(s)
        PROVE  Due(s)'
    <3>1. CASE s # r
          BY <1>1, <1>4, <1>5, <2>2, <3>1
    <3>2. CASE s = r
      <4>1. ~(s <= conn.delivered)
            BY <2>2 DEF FeedInv, DeliveredCovered
      <4>2. conn.reset \/ s \in Elements(conn.queue)
            BY <1>5, <2>2, <3>2, <4>1 DEF Feed!InQueue, Elements
      <4>3. QED
            BY <1>5, <4>2 DEF Due
    <3>3. QED
          BY <3>1, <3>2
  <2>3. ~conn.reset => \A q \in Elements(conn.queue), s \in Elements(channel') : q < s
        BY <1>1, <1>2 DEF FeedInv, Order
  <2>4. QED
        BY <1>1, <1>2, <1>3, <1>5, <2>1, <2>2, <2>3, QueueNow, ListenerKeeps
<1>6. CASE conn' = Feed!RequestReset(conn) /\ conn.at \notin {"none", "ended"}
  <2>1. Feed!TypeOK'
        BY <1>1, <1>2, <1>6, ResetIsTyped DEF FeedInv, Feed!TypeOK
  <2>2. \A s : Due(s)'
        BY <1>6, ResetIsTyped DEF Due
  <2>3. QED
        BY <1>1, <1>2, <1>3, <1>6, <2>1, <2>2, ResetIsTyped, ListenerKeeps
<1>7. CASE /\ conn' = [conn EXCEPT !.queue = Append(@, r)] /\ conn.at \notin {"none", "ended"}
           /\ ~conn.reset /\ ~(r <= conn.delivered) /\ Len(conn.queue) # QueueSize
  <2>1. conn.queue \in Seq(Feed!Rows) /\ conn.queue \in Seq(Int) /\ Ascends(conn.queue)
        /\ Elements(conn.queue) \subseteq log /\ conn.delivered \in Int
        BY <1>7, Facts DEF FeedInv, Order
  <2>2. \A q \in Elements(conn.queue) : q < r
        BY <1>3, <1>7 DEF FeedInv, Order
  <2>3. /\ conn'.queue = Append(conn.queue, r) /\ conn'.at = conn.at
        /\ conn'.delivered = conn.delivered /\ conn'.item = conn.item /\ ~conn'.reset
        BY <1>7 DEF FeedInv, Feed!TypeOK, Feed!Connection
  <2>4. Elements(conn'.queue) = Elements(conn.queue) \cup {r} /\ Ascends(conn'.queue)
        BY <1>3, <2>1, <2>2, <2>3, AppendElements, AppendAscends
  <2>5. Feed!TypeOK'
    <3>1. conn' \in Feed!Connection
      <4>1. conn.queue \in Seq(Feed!Rows \cup {Reset})
            BY DEF FeedInv, Feed!TypeOK, Feed!Connection
      <4>2. Append(conn.queue, r) \in Seq(Feed!Rows \cup {Reset})
            BY <1>2, <4>1
      <4>3. QED
            BY <1>7, <4>2 DEF FeedInv, Feed!TypeOK, Feed!Connection
    <3>2. Len(conn'.queue) <= QueueSize
      <4>1. /\ Len(conn.queue) \in Nat /\ QueueSize \in Nat /\ Len(conn.queue) <= QueueSize
            /\ Len(conn'.queue) = Len(conn.queue) + 1
            BY <1>2, <2>1, <2>3, Facts DEF FeedInv, Feed!TypeOK
      <4>2. QED
            BY <1>7, <4>1
    <3>3. QED
          BY <1>1, <1>2, <3>1, <3>2 DEF FeedInv, Feed!TypeOK
  <2>6. \A q \in Elements(conn'.queue), s \in Elements(channel') : q < s
        BY <1>1, <1>2, <1>7, <2>4 DEF FeedInv, Order
  <2>7. conn.at \in {"live", "fetching"} =>
            \A q \in Elements(conn'.queue) : q > conn.delivered
    <3>1. r > conn.delivered
          BY <1>3, <1>7, <2>1
    <3>2. QED
          BY <1>7, <2>4, <3>1 DEF FeedInv, Order
  <2>8. ASSUME NEW s, Due(s) PROVE Due(s)'
        BY <1>1, <1>2, <1>7, <2>4, <2>8 DEF Due, Late
  <2>9. QED
        BY <1>1, <1>2, <1>3, <1>7, <2>1, <2>3, <2>4, <2>5, <2>6, <2>7, <2>8, ListenerKeeps
<1>8. QED
      BY <1>1, <1>3, <1>5, <1>6, <1>7 DEF Feed!Enqueue

LEMMA DeleteOldestKeeps == FeedInv /\ Feed!DeleteOldest => FeedInv'
<1> SUFFICES ASSUME FeedInv, Feed!DeleteOldest,
                    NEW CONSTANT oldest, oldest = Feed!Min(log)
             PROVE  FeedInv'
    OBVIOUS
<1>1. /\ log # {} /\ log' = log \ {oldest}
      /\ oldest \notin Elements(conn.queue) /\ oldest # conn.item
      /\ oldest \notin Elements(channel)
      /\ overlooked' = (IF conn.at = "bounded" /\ oldest > plan.after
                          THEN overlooked \cup {oldest} ELSE overlooked)
      /\ UNCHANGED <<drawn, occurred, listener, channel, conn, plan, wire, browser, feedFaults>>
      BY DEF Feed!DeleteOldest, Feed!InQueue, Elements, Feed!serverVars
<1>2. oldest \in log /\ oldest \in occurred /\ oldest \in Int /\ \A r \in log : oldest <= r
  <2>1. log \in SUBSET Nat
        BY Facts
  <2>2. QED
        BY <1>1, <2>1, Smallest, Facts
<1>3. /\ Feed!Excused \subseteq Feed!Excused' /\ Sent \subseteq Sent'
      /\ Feed!ResumeAfter' = Feed!ResumeAfter
      /\ \A r : Due(r)' <=> Due(r)
      BY <1>1 DEF Feed!Excused, Sent, Feed!ResumeAfter, Due, Late
<1>4. Feed!TypeOK'
      BY <1>1, <1>2 DEF FeedInv, Feed!TypeOK
<1>5. Places'
      BY <1>1, <1>3 DEF FeedInv, Places
<1>6. Known'
  <2>1. ASSUME NEW r \in log', NEW s \in occurred, r < s PROVE s \in log'
    <3>1. s \in log
          BY <1>1, <2>1 DEF FeedInv, Known
    <3>2. r \in Int /\ s \in Int /\ oldest <= r
          BY <1>1, <1>2, <2>1, Facts
    <3>3. s # oldest
          BY <1>2, <2>1, <3>2
    <3>4. QED
          BY <1>1, <3>1, <3>3
  <2>2. QED
        BY <1>1, <2>1 DEF FeedInv, Known
<1>7. Order'
      BY <1>1 DEF FeedInv, Order
<1>8. Feed!CursorIsWatermark' /\ Feed!StreamAscends' /\ WireCovered' /\ DeliveredCovered'
      BY <1>1, <1>3
      DEF FeedInv, Feed!CursorIsWatermark, Feed!StreamAscends, WireCovered, DeliveredCovered
<1>9. PlanCovered'
  <2>1. ASSUME conn.at \in {"bounded", "replaying"}, ~plan.reset, NEW r \in occurred \ Sent'
        PROVE  /\ r <= plan.through => r \in (IF conn.at = "bounded" THEN log' ELSE plan.records)
               /\ r > plan.through => Due(r)
    <3>1. /\ r <= plan.through => r \in (IF conn.at = "bounded" THEN log ELSE plan.records)
          /\ r > plan.through => Due(r)
          BY <1>3, <2>1 DEF FeedInv, PlanCovered
    <3>2. ASSUME conn.at = "bounded" PROVE r # oldest
      <4>1. browser.at = "connecting" /\ plan.after = Feed!ResumeAfter
            BY <3>2 DEF FeedInv, Places, Feed!TypeOK, Feed!Browser
      <4>2. r \notin Feed!Excused /\ r \notin overlooked'
            BY <1>3, <2>1 DEF Sent, Feed!Excused
      <4>3. ~(r <= plan.after) /\ r \in Int /\ plan.after \in Int
            BY <4>1, <4>2, Facts DEF FeedInv, Feed!CursorIsWatermark
      <4>4. r > plan.after
            BY <4>3
      <4>5. QED
            BY <1>1, <3>2, <4>2, <4>4
    <3>3. QED
          BY <1>1, <3>1, <3>2
  <2>2. QED
        BY <1>1, <1>3, <2>1 DEF PlanCovered
<1>10. LiveCovered'
  <2>1. ASSUME conn.at \in {"live", "fetching"}, NEW r \in occurred \ Sent' PROVE Due(r)
        BY <1>3, <2>1 DEF FeedInv, LiveCovered
  <2>2. QED
        BY <1>1, <1>3, <2>1 DEF LiveCovered
<1>11. QED
       BY <1>4, <1>5, <1>6, <1>7, <1>8, <1>9, <1>10 DEF FeedInv

LEMMA RolledBackKeeps == FeedInv /\ Feed!OccurrenceRolledBack => FeedInv'
<1> SUFFICES ASSUME FeedInv, Feed!OccurrenceRolledBack PROVE FeedInv'
    OBVIOUS
<1>1. /\ drawn < MaxRows /\ drawn' = drawn + 1
      /\ UNCHANGED <<occurred, log, listener, channel, conn, plan, wire, browser,
                     overlooked, feedFaults>>
      BY DEF Feed!OccurrenceRolledBack, Feed!serverVars
<1>2. drawn \in Int /\ drawn' \in Int /\ drawn <= drawn' /\ drawn' \in Feed!Cursors
      BY <1>1, Facts DEF Feed!Cursors
<1>3. Feed!TypeOK'
  <2>1. occurred \subseteq 1..drawn'
        BY <1>1, <1>2, Facts
  <2>2. QED
        BY <1>1, <1>2, <2>1 DEF FeedInv, Feed!TypeOK
<1>4. Known'
  <2>1. /\ browser.cursor <= drawn' /\ browser.lastId <= drawn'
        /\ plan.through <= drawn' /\ conn.delivered <= drawn'
        BY <1>2, Facts DEF FeedInv, Known
  <2>2. \A r \in Elements(wire) \ {Reset} : r <= drawn'
        BY <1>2, Facts
  <2>3. QED
        BY <1>1, <2>1, <2>2 DEF FeedInv, Known
<1>5. Feed!Excused' = Feed!Excused /\ Sent' = Sent /\ Feed!ResumeAfter' = Feed!ResumeAfter
      /\ \A r : Due(r)' <=> Due(r)
      BY <1>1 DEF Feed!Excused, Sent, Feed!ResumeAfter, Due, Late
<1>6. Places' /\ Order'
      BY <1>1, <1>5 DEF FeedInv, Places, Order
<1>7. Feed!CursorIsWatermark' /\ Feed!StreamAscends' /\ WireCovered' /\ DeliveredCovered'
      BY <1>1, <1>5
      DEF FeedInv, Feed!CursorIsWatermark, Feed!StreamAscends, WireCovered, DeliveredCovered
<1>8. PlanCovered' /\ LiveCovered'
      BY <1>1, <1>5 DEF FeedInv, PlanCovered, LiveCovered
<1>9. QED
      BY <1>3, <1>4, <1>6, <1>7, <1>8 DEF FeedInv

LEMMA Initially == Feed!Init => FeedInv
<1> SUFFICES ASSUME Feed!Init PROVE FeedInv
    OBVIOUS
<1>1. Feed!TypeOK
  <2>1. 0 \in 0..MaxFeedFaults /\ {} \subseteq 1..0
        BY FeedBounds DEF Feed!FeedAssumption
  <2>2. browser \in Feed!Browser
        BY RowsAreCursors DEF Feed!Init, Feed!Browser
  <2>3. QED
        BY <2>1, <2>2, NoneAreTyped, RowsAreCursors DEF Feed!Init, Feed!TypeOK
<1>2. Elements(channel) = {} /\ Elements(wire) = {} /\ Elements(conn.queue) = {}
      /\ Ascends(channel) /\ Ascends(conn.queue)
      BY Empty DEF Feed!Init, Feed!NoConnection
<1>3. Places /\ Known /\ Order
      BY <1>2 DEF Feed!Init, Places, Known, Order, Feed!NoConnection, Feed!NoPlan
<1>4. Feed!CursorIsWatermark /\ Feed!StreamAscends /\ WireCovered /\ DeliveredCovered
      BY
      DEF Feed!Init, Feed!CursorIsWatermark, Feed!StreamAscends, WireCovered, DeliveredCovered
<1>5. PlanCovered /\ LiveCovered
      BY DEF Feed!Init, PlanCovered, LiveCovered
<1>6. QED
      BY <1>1, <1>3, <1>4, <1>5 DEF FeedInv

LEMMA StuttersKeep == FeedInv /\ UNCHANGED Feed!vars => FeedInv'
<1> SUFFICES ASSUME FeedInv, UNCHANGED Feed!vars PROVE FeedInv'
    OBVIOUS
<1>1. UNCHANGED <<drawn, occurred, log, listener, channel, conn, plan, wire, browser,
                  overlooked, feedFaults>>
      BY DEF Feed!vars, Feed!serverVars
<1>2. Feed!Excused' = Feed!Excused /\ Sent' = Sent /\ Feed!ResumeAfter' = Feed!ResumeAfter
      /\ \A r : Due(r)' <=> Due(r)
      BY <1>1 DEF Feed!Excused, Sent, Feed!ResumeAfter, Due, Late
<1>3. Feed!TypeOK' /\ Places' /\ Known' /\ Order'
      BY <1>1, <1>2 DEF FeedInv, Feed!TypeOK, Places, Known, Order
<1>4. Feed!CursorIsWatermark' /\ Feed!StreamAscends' /\ WireCovered' /\ DeliveredCovered'
      BY <1>1, <1>2
      DEF FeedInv, Feed!CursorIsWatermark, Feed!StreamAscends, WireCovered, DeliveredCovered
<1>5. PlanCovered' /\ LiveCovered'
      BY <1>1, <1>2 DEF FeedInv, PlanCovered, LiveCovered
<1>6. QED
      BY <1>3, <1>4, <1>5 DEF FeedInv

LEMMA Inductive == FeedInv /\ [Feed!Next]_(Feed!vars) => FeedInv'
<1> SUFFICES ASSUME FeedInv, [Feed!Next]_(Feed!vars) PROVE FeedInv'
    OBVIOUS
<1>1. CASE Feed!Database
      BY <1>1, CreateKeeps, RolledBackKeeps, DeleteOldestKeeps DEF Feed!Database
<1>2. CASE Feed!Listener
      BY <1>2, ListenKeeps, DispatchSequenceKeeps, ResetAllKeeps DEF Feed!Listener
<1>3. CASE Feed!Request
      BY <1>3, OpenStreamKeeps, ReadBoundsKeeps, ReadRecordsKeeps DEF Feed!Request
<1>4. CASE Feed!Body
      BY <1>4, PlannedResetKeeps, ReplayRecordKeeps, FinishReplayKeeps, TakeItemKeeps,
         SendItemKeeps DEF Feed!Body
<1>5. CASE Feed!Tab
      BY <1>5, ReadPageKeeps, ReadCursorKeeps, ReceiveKeeps DEF Feed!Tab
<1>6. CASE Feed!FallbackRefresh \/ Feed!Hide \/ Feed!Return
      BY <1>6, FallbackRefreshKeeps, HideKeeps, ReturnKeeps
<1>7. CASE Feed!Perturbation
      BY <1>7, ListenerFailsKeeps, StreamRefusedKeeps, BodyFailsKeeps, HistoryFailsKeeps,
         StreamDropsKeeps, ApiRestartsKeeps DEF Feed!Perturbation
<1>8. CASE UNCHANGED Feed!vars
      BY <1>8, StuttersKeep
<1>9. QED
      BY <1>1, <1>2, <1>3, <1>4, <1>5, <1>6, <1>7, <1>8 DEF Feed!Next

LEMMA QuietIsCurrent == FeedInv => Feed!TabIsCurrent
<1> SUFFICES ASSUME FeedInv PROVE Feed!QuietTabIsCurrent
    BY DEF FeedInv, Feed!TabIsCurrent
<1>1. ASSUME Feed!Quiet, NEW r \in occurred PROVE r \in Feed!Excused
  <2>1. /\ Elements(channel) = {} /\ Elements(conn.queue) = {} /\ Elements(wire) = {}
        /\ conn.at = "live" /\ listener = "listening" /\ conn.queue = <<>>
        BY <1>1, Empty DEF Feed!Quiet
  <2>2. ~conn.reset /\ conn.item = 0 /\ r # 0
    <3>1. <<>> # <<Reset>>
          OBVIOUS
    <3>2. QED
          BY <2>1, <3>1, Facts DEF FeedInv, Places
  <2>3. ~Due(r)
        BY <2>1, <2>2 DEF Due, Late
  <2>4. r \in Sent
        BY <2>1, <2>3 DEF FeedInv, LiveCovered
  <2>5. QED
        BY <2>1, <2>2, <2>4 DEF Sent
<1>2. QED
      BY <1>1 DEF Feed!QuietTabIsCurrent

\* For any number of rows, failures, restarts and visits: a tab whose stream is live
\* and idle shows every occurrence it is not excused from; the cursor it resumes from
\* has nothing below it that the tab has not seen; and one stream sends each row once,
\* in order (routes/signals.py, feed.py, feed_connections.py, feed_listener.py).
THEOREM TabStaysCurrent == Feed!Spec => []TabIsCurrent
<1>1. Feed!Spec => []FeedInv
      BY Initially, Inductive, PTL DEF Feed!Spec
<1>2. FeedInv => TabIsCurrent
      BY QuietIsCurrent DEF TabIsCurrent
<1>3. QED
      BY <1>1, <1>2, PTL
=============================================================================
