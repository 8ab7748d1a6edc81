-------------------------- MODULE CandleStore_proofs --------------------------
(***************************************************************************)
(* Proofs about CandleStore, for every set of minutes and every width of   *)
(* the windows, whatever the writers interleave; then about CandleRepair,  *)
(* for any markets, gaps, pages and allowance.                             *)
(***************************************************************************)
EXTENDS CandlesAndGaps, TLAPS, SequenceTheorems, FiniteSetTheorems, WellFoundedInduction,
        NaturalsInduction

-----------------------------------------------------------------------------
(***************************************************************************)
(* The inductive invariant.  A transaction goes through its minutes and    *)
(* then through its windows, each once and in ascending order; nobody      *)
(* commits a candle another transaction has written, so what it has        *)
(* written still goes on from what is committed when it commits.           *)
(***************************************************************************)

\* Revisions of a source and of a window.
Picked == UNION {[ms -> Nat] : ms \in SUBSET Minutes}
SourceRow == [status: {"complete", "superseded"}, values: Writers]
WindowRow == [status: {"complete", "superseded", "incomplete"}, values: Picked]
RowsOf(k) == IF k \in Sources THEN SourceRow ELSE WindowRow

Chain(k, revisions) ==
    /\ revisions \in Seq(RowsOf(k))
    /\ \A i \in 1 .. Len(revisions) :
          revisions[i].status = "superseded" <=> i < Len(revisions)

\* What HistoryIsKept says of one candle.
KeptAll(old, new) ==
    /\ Len(new) >= Len(old)
    /\ \A i \in 1 .. Len(old) : Kept(old[i], new[i])

Staging == UNION {[ks -> Seq(SourceRow \cup WindowRow)] : ks \in SUBSET Keys}
Transaction ==
    [phase: {"read", "upsert", "sources", "write", "commit"}, minutes: SUBSET Minutes,
     before: Nat, affected: SUBSET Windows, sources: Picked, staged: Staging,
     waiting: Int, changed: SUBSET Sources, derived: SUBSET Windows]

StoreType == store \in [Keys -> Seq(SourceRow \cup WindowRow)]
TxnType == txn \in [Writers -> Transaction \cup {NoTxn}]
RestType ==
    /\ budget \in [Writers -> 0 .. (MaxLive + MaxRepairs)]
    /\ plan \subseteq Minutes
    /\ raced \subseteq Windows
    /\ twice \in BOOLEAN

\* A row of a window that is, or was, complete holds a revision of each of its
\* minutes, `known` of them; one that is incomplete does not hold them all.
RowHolds(w, row, known) ==
    IF row.status = "incomplete" THEN DOMAIN row.values # MinutesOf(w)
    ELSE /\ DOMAIN row.values = MinutesOf(w)
         /\ \A m \in MinutesOf(w) : row.values[m] \in 1 .. known[m]

Committed(w) == [m \in MinutesOf(w) |-> Len(store[Source(m)])]
Known(x, w) == [m \in MinutesOf(w) |-> Len(Seen(x, Source(m)))]

StoreInv ==
    /\ \A k \in Keys : Chain(k, store[k])
    /\ \A w \in Windows : \A i \in 1 .. Len(store[w]) : RowHolds(w, store[w][i], Committed(w))

\* Where a transaction is: first its minutes, then its windows, then the commit.
InOrder(x) ==
    /\ txn[x].phase \in {"read", "upsert"} <=> txn[x].minutes # {}
    /\ txn[x].phase \in {"sources", "write"} <=> (txn[x].minutes = {} /\ txn[x].affected # {})
    /\ txn[x].waiting # -1 => txn[x].phase \in {"upsert", "write"}
    /\ \A k \in DOMAIN txn[x].staged :
          /\ k \in Sources => \A m \in txn[x].minutes : k.open < m
          /\ k \in Windows => txn[x].minutes = {} /\ \A w \in txn[x].affected : Before(k, w)

\* What a transaction has written goes on from what is committed, and every window
\* it has to do with has a source that it changed.
WritesOn(x) ==
    /\ \A k \in DOMAIN txn[x].staged :
          /\ Chain(k, txn[x].staged[k])
          /\ KeptAll(store[k], txn[x].staged[k])
          /\ k \in Sources => /\ txn[x].staged[k] # <<>>
                              /\ Current(txn[x].staged[k]).values = x
                              /\ Len(txn[x].staged[k]) <= Len(store[k]) + 1
    /\ txn[x].changed \cup txn[x].derived \subseteq DOMAIN txn[x].staged
    /\ \A k \in txn[x].changed : Len(txn[x].staged[k]) > Len(store[k])
    /\ \A k \in txn[x].derived : IsComplete(txn[x].staged[k])
    /\ \A w \in txn[x].affected \cup (DOMAIN txn[x].staged \cap Windows) :
          \E m \in MinutesOf(w) : Source(m) \in txn[x].changed

\* A revision committed since x read the candle is not one of its own.
ReadsOn(x) ==
    txn[x].phase = "upsert" =>
        LET k == Source(Minute(x)) IN
        /\ txn[x].before <= Len(store[k])
        /\ \A i \in 1 .. Len(store[k]) : i > txn[x].before => store[k][i].values # x

\* The sources in hand are revisions of the minutes of the window, the own ones
\* among them.
HasSources(x) ==
    txn[x].phase = "write" =>
        LET w == First(txn[x].affected)
            sources == txn[x].sources IN
        /\ DOMAIN sources \subseteq MinutesOf(w)
        /\ \A m \in DOMAIN sources : sources[m] \in 1 .. Len(Seen(x, Source(m)))
        /\ \A m \in MinutesOf(w) : Source(m) \in DOMAIN txn[x].staged =>
              m \in DOMAIN sources /\ sources[m] = Len(txn[x].staged[Source(m)])

WindowsHaveSources(x) ==
    \A w \in DOMAIN txn[x].staged \cap Windows : \A i \in 1 .. Len(txn[x].staged[w]) :
        RowHolds(w, txn[x].staged[w][i], Known(x, w))

TxnInv(x) == InOrder(x) /\ WritesOn(x) /\ ReadsOn(x) /\ HasSources(x) /\ WindowsHaveSources(x)

SentAreCommitted ==
    \A s \in sent :
        /\ s.key \in Keys /\ s.revision \in 1 .. Len(store[s.key])
        /\ s.key \in Windows => store[s.key][s.revision].status # "incomplete"

\* The stream is about to announce only what it has not announced, and has every
\* source of a window it has announced before.
AnnouncesNew ==
    Open("live") =>
        /\ \A k \in txn["live"].derived : Revision("live", k) \notin sent
        /\ txn["live"].phase = "write" =>
              \A s \in sent : s.key = First(txn["live"].affected) =>
                  DOMAIN txn["live"].sources = MinutesOf(First(txn["live"].affected))

Exclusive ==
    \A x, y \in Writers : x # y /\ Open(x) /\ Open(y) =>
        DOMAIN txn[x].staged \cap DOMAIN txn[y].staged = {}

IInv ==
    /\ StoreType
    /\ TxnType
    /\ RestType
    /\ StoreInv
    /\ \A x \in Writers : Open(x) => TxnInv(x)
    /\ SentAreCommitted
    /\ AnnouncesNew
    /\ Exclusive
    /\ ConfirmedOnce

-----------------------------------------------------------------------------
(***************************************************************************)
(* Minutes and windows.                                                    *)
(***************************************************************************)

LEMMA Smallest ==
    ASSUME NEW S \in SUBSET Nat, S # {}
    PROVE  \E m \in S : \A k \in S : m <= k
<1>1. PICK m \in S : \A k \in S : ~(<<k, m>> \in OpToRel(<, Nat))
      BY NatLessThanWellFounded, WFMin
<1>2. ASSUME NEW k \in S PROVE m <= k
  <2>1. m \in Nat /\ k \in Nat
        OBVIOUS
  <2>2. k < m => <<k, m>> \in OpToRel(<, Nat)
        BY <2>1 DEF OpToRel
  <2>3. ~(k < m)
        BY <1>1, <2>2, Zenon
  <2>4. QED
        BY <2>1, <2>3
<1>3. QED
      BY <1>2

LEMMA WidthTypes ==
    /\ HourWidth \in Nat /\ HourWidth > 0
    /\ FourHourWidth \in Nat /\ FourHourWidth > 0
    /\ Minutes \subseteq Nat
    /\ MaxLive \in Nat /\ MaxRepairs \in Nat
BY WidthAssumption, DayAssumption

\* Two multiples of a width within less than it of one minute are the same.
LEMMA OneMultiple ==
    ASSUME NEW n \in Nat, n > 0, NEW p \in Int, NEW q \in Int, NEW m \in Int,
           n * p <= m, m < n * p + n, n * q <= m, m < n * q + n
    PROVE  p = q
<1>1. ASSUME NEW a \in Int, NEW b \in Int, a < b, n * b <= m, m < n * a + n
      PROVE  FALSE
  <2>1. b - (a + 1) \in Nat
        BY <1>1
  <2>2. n * (b - (a + 1)) >= 0
        BY <2>1
  <2>3. n * (b - (a + 1)) = n * b - (n * a + n)
        BY <1>1
  <2>4. n * a \in Int /\ n * b \in Int
        BY <1>1
  <2>5. QED
        BY <1>1, <2>2, <2>3, <2>4
<1>2. QED
      BY <1>1

LEMMA Multiple ==
    ASSUME NEW n \in Nat, n > 0, NEW m \in Nat
    PROVE  /\ m - (m % n) \in Nat
           /\ m - (m % n) <= m
           /\ m < m - (m % n) + n
           /\ \E q \in Int : m - (m % n) = n * q
<1>1. m % n \in 0 .. (n - 1)
      OBVIOUS
<1>2. m \div n \in Int /\ m = n * (m \div n) + (m % n)
      OBVIOUS
<1>3. m \div n >= 0
      OBVIOUS
<1>4. n * (m \div n) >= 0
      BY <1>2, <1>3
<1>5. QED
      BY <1>1, <1>2, <1>4

LEMMA SourceKeys ==
    /\ \A m \in Minutes : Source(m) \in Sources /\ Source(m).open = m
    /\ \A m, n \in Minutes : Source(m) = Source(n) => m = n
    /\ \A k \in Sources : k.open \in Minutes /\ k = Source(k.open)
    /\ Sources \cap Windows = {}
    /\ Keys = Sources \cup Windows
<1>1. \A k \in Sources : k.timeframe = "1m"
      BY DEF Sources, Source
<1>2. \A k \in Windows : k.timeframe = "1h" \/ k.timeframe = "4h"
      BY DEF Windows, Hour, FourHour
<1>3. QED
      BY <1>1, <1>2 DEF Sources, Source, Keys

LEMMA WindowKeys ==
    ASSUME NEW w \in Windows
    PROVE  /\ w = [timeframe |-> w.timeframe, open |-> w.open]
           /\ w.timeframe \in {"1h", "4h"}
           /\ w.open \in Nat
           /\ Width(w) \in Nat /\ Width(w) > 0
           /\ \E q \in Int : w.open = Width(w) * q
<1>1. ASSUME NEW m \in Minutes, w = Hour(m)
      PROVE  /\ w = [timeframe |-> "1h", open |-> m - (m % HourWidth)]
             /\ Width(w) = HourWidth
      BY <1>1 DEF Hour, Width
<1>2. ASSUME NEW m \in Minutes, w = FourHour(m)
      PROVE  /\ w = [timeframe |-> "4h", open |-> m - (m % FourHourWidth)]
             /\ Width(w) = FourHourWidth
      BY <1>2 DEF FourHour, Width
<1>3. \A m \in Minutes : /\ m - (m % HourWidth) \in Nat
                         /\ m - (m % FourHourWidth) \in Nat
                         /\ \E q \in Int : m - (m % HourWidth) = HourWidth * q
                         /\ \E q \in Int : m - (m % FourHourWidth) = FourHourWidth * q
  <2>1. TAKE m \in Minutes
  <2>2. m \in Nat
        BY WidthTypes
  <2>3. QED
        BY <2>2, WidthTypes, Multiple
<1>4. (\E m \in Minutes : w = Hour(m)) \/ (\E m \in Minutes : w = FourHour(m))
      BY DEF Windows
<1>5. CASE \E m \in Minutes : w = Hour(m)
  <2>1. PICK m \in Minutes : w = Hour(m)
        BY <1>5
  <2>2. w = [timeframe |-> "1h", open |-> m - (m % HourWidth)] /\ Width(w) = HourWidth
        BY <2>1, <1>1
  <2>3. QED
        BY <2>2, <1>3, WidthTypes
<1>6. CASE \E m \in Minutes : w = FourHour(m)
  <2>1. PICK m \in Minutes : w = FourHour(m)
        BY <1>6
  <2>2. w = [timeframe |-> "4h", open |-> m - (m % FourHourWidth)] /\ Width(w) = FourHourWidth
        BY <2>1, <1>2
  <2>3. QED
        BY <2>2, <1>3, WidthTypes
<1>7. QED
      BY <1>4, <1>5, <1>6

\* A minute lies in its hour and its four hours, and in no other window.
LEMMA WindowsOfMinute ==
    ASSUME NEW m \in Minutes
    PROVE  /\ Hour(m) \in Windows /\ m \in MinutesOf(Hour(m))
           /\ FourHour(m) \in Windows /\ m \in MinutesOf(FourHour(m))
           /\ \A w \in Windows : m \in MinutesOf(w) => w \in {Hour(m), FourHour(m)}
<1>1. m \in Nat
      BY WidthTypes
<1>2. Hour(m) \in Windows /\ FourHour(m) \in Windows
      BY DEF Windows
<1>3. /\ m - (m % HourWidth) <= m /\ m < m - (m % HourWidth) + HourWidth
      /\ m - (m % HourWidth) \in Nat
      /\ \E q \in Int : m - (m % HourWidth) = HourWidth * q
      BY <1>1, Multiple, WidthTypes
<1>4. /\ m - (m % FourHourWidth) <= m /\ m < m - (m % FourHourWidth) + FourHourWidth
      /\ m - (m % FourHourWidth) \in Nat
      /\ \E q \in Int : m - (m % FourHourWidth) = FourHourWidth * q
      BY <1>1, Multiple, WidthTypes
<1>5. m \in MinutesOf(Hour(m)) /\ m \in MinutesOf(FourHour(m))
      BY <1>3, <1>4 DEF MinutesOf, Hour, FourHour, Width
<1>6. ASSUME NEW w \in Windows, m \in MinutesOf(w)
      PROVE  w \in {Hour(m), FourHour(m)}
  <2>1. w.open <= m /\ m < w.open + Width(w) /\ w.open \in Nat /\ Width(w) \in Nat /\ Width(w) > 0
        BY <1>1, <1>6, WindowKeys DEF MinutesOf
  <2>2. PICK q \in Int : w.open = Width(w) * q
        BY WindowKeys
  <2>3. CASE w.timeframe = "1h"
    <3>1. Width(w) = HourWidth
          BY <2>3 DEF Width
    <3>2. PICK p \in Int : m - (m % HourWidth) = HourWidth * p
          BY <1>3
    <3>3. p = q
          BY <1>1, <1>3, <2>1, <2>2, <3>1, <3>2, OneMultiple, WidthTypes
    <3>4. w.open = m - (m % HourWidth)
          BY <2>2, <3>1, <3>2, <3>3
    <3>5. QED
          BY <2>3, <3>4, WindowKeys DEF Hour
  <2>4. CASE w.timeframe = "4h"
    <3>1. Width(w) = FourHourWidth
          BY <2>4 DEF Width
    <3>2. PICK p \in Int : m - (m % FourHourWidth) = FourHourWidth * p
          BY <1>4
    <3>3. p = q
          BY <1>1, <1>4, <2>1, <2>2, <3>1, <3>2, OneMultiple, WidthTypes
    <3>4. w.open = m - (m % FourHourWidth)
          BY <2>2, <3>1, <3>2, <3>3
    <3>5. QED
          BY <2>4, <3>4, WindowKeys DEF FourHour
  <2>5. QED
        BY <2>3, <2>4, WindowKeys
<1>7. QED
      BY <1>2, <1>5, <1>6

\* A window has as many minutes as it is wide.
LEMMA WholeWindow ==
    ASSUME NEW w \in Windows
    PROVE  /\ MinutesOf(w) \subseteq Minutes
           /\ \A m \in MinutesOf(w) : Source(m) \in Sources
           /\ \A S \in SUBSET MinutesOf(w) : Cardinality(S) = Width(w) <=> S = MinutesOf(w)
<1>1. w.open \in Nat /\ Width(w) \in Nat /\ Width(w) > 0
      BY WindowKeys
<1>2. w.open .. (w.open + Width(w) - 1) \subseteq Minutes
      BY DayAssumption
<1>3. MinutesOf(w) = w.open .. (w.open + Width(w) - 1)
  <2>1. ASSUME NEW m \in MinutesOf(w) PROVE m \in w.open .. (w.open + Width(w) - 1)
    <3>1. m \in Nat /\ m >= w.open /\ m < w.open + Width(w)
          BY WidthTypes DEF MinutesOf
    <3>2. QED
          BY <1>1, <3>1
  <2>2. ASSUME NEW m \in w.open .. (w.open + Width(w) - 1) PROVE m \in MinutesOf(w)
    <3>1. m \in Minutes
          BY <1>2
    <3>2. m >= w.open /\ m < w.open + Width(w)
          BY <1>1
    <3>3. QED
          BY <3>1, <3>2 DEF MinutesOf
  <2>3. QED
        BY <2>1, <2>2
<1>4. IsFiniteSet(MinutesOf(w)) /\ Cardinality(MinutesOf(w)) = Width(w)
  <2>1. w.open \in Int /\ w.open + Width(w) - 1 \in Int /\ w.open <= w.open + Width(w) - 1
        BY <1>1
  <2>2. /\ IsFiniteSet(w.open .. (w.open + Width(w) - 1))
        /\ Cardinality(w.open .. (w.open + Width(w) - 1)) = (w.open + Width(w) - 1) - w.open + 1
        BY <2>1, FS_Interval
  <2>3. QED
        BY <1>1, <1>3, <2>2
<1>5. \A S \in SUBSET MinutesOf(w) : Cardinality(S) = Cardinality(MinutesOf(w)) => S = MinutesOf(w)
      BY <1>4, FS_Subset
<1>6. MinutesOf(w) \subseteq Minutes
      BY DEF MinutesOf
<1>7. QED
      BY <1>4, <1>5, <1>6, SourceKeys

LEMMA BeforeIsStrict ==
    /\ \A w \in Windows : ~Before(w, w)
    /\ \A u, v, w \in Windows : Before(u, v) /\ Before(v, w) => Before(u, w)
BY WindowKeys DEF Before

\* A set of windows has a first one.
LEMMA FirstIsFirst ==
    ASSUME NEW ws \in SUBSET Windows, ws # {}
    PROVE  First(ws) \in ws /\ \A v \in ws \ {First(ws)} : Before(First(ws), v)
<1> DEFINE Opens(t) == {w.open : w \in {v \in ws : v.timeframe = t}}
<1>1. ASSUME NEW t \in {"1h", "4h"}, NEW u \in ws, u.timeframe = t
      PROVE  \E w \in ws : w.timeframe = t /\ \A v \in ws : v.timeframe = t => w.open <= v.open
  <2>1. Opens(t) \in SUBSET Nat
        BY WindowKeys
  <2>2. u.open \in Opens(t)
        BY <1>1
  <2>3. PICK o \in Opens(t) : \A p \in Opens(t) : o <= p
        BY <2>1, <2>2, Smallest
  <2>4. QED
        BY <2>3
<1>2. \A u, v \in ws : u.timeframe = v.timeframe /\ u.open = v.open => u = v
      BY WindowKeys
<1>3. \A v \in ws : v.timeframe \in {"1h", "4h"} /\ v.open \in Nat
      BY WindowKeys
<1>4. \E w \in ws : \A v \in ws \ {w} : Before(w, v)
  <2>1. CASE \E u \in ws : u.timeframe = "1h"
    <3>1. PICK w \in ws : w.timeframe = "1h" /\ \A v \in ws : v.timeframe = "1h" => w.open <= v.open
          BY <2>1, <1>1
    <3>2. ASSUME NEW v \in ws \ {w} PROVE Before(w, v)
          BY <3>1, <1>2, <1>3 DEF Before
    <3>3. QED
          BY <3>2
  <2>2. CASE ~ \E u \in ws : u.timeframe = "1h"
    <3>1. PICK w \in ws : w.timeframe = "4h" /\ \A v \in ws : v.timeframe = "4h" => w.open <= v.open
          BY <2>2, <1>1, <1>3
    <3>2. ASSUME NEW v \in ws \ {w} PROVE Before(w, v)
          BY <2>2, <3>1, <1>2, <1>3 DEF Before
    <3>3. QED
          BY <3>2
  <2>3. QED
        BY <2>1, <2>2
<1>5. QED
      BY <1>4 DEF First

-----------------------------------------------------------------------------
(***************************************************************************)
(* What writing a candle does to its revisions.                            *)
(***************************************************************************)

LEMMA RowTypes ==
    /\ \A k \in Sources : RowsOf(k) = SourceRow
    /\ \A k \in Windows : RowsOf(k) = WindowRow
    /\ \A k \in Keys : RowsOf(k) \subseteq SourceRow \cup WindowRow
    /\ \A x \in Writers : Row("complete", x) \in SourceRow /\ Row("superseded", x) \in SourceRow
    /\ \A v \in Picked : /\ Row("complete", v) \in WindowRow
                         /\ Row("superseded", v) \in WindowRow
                         /\ Row("incomplete", v) \in WindowRow
BY SourceKeys DEF RowsOf, SourceRow, WindowRow, Row

LEMMA ChainFacts ==
    ASSUME NEW k \in Keys, NEW revisions, Chain(k, revisions)
    PROVE  /\ revisions \in Seq(RowsOf(k))
           /\ Len(revisions) \in Nat
           /\ DOMAIN revisions = 1 .. Len(revisions)
           /\ \A i \in 1 .. Len(revisions) :
                 /\ revisions[i] \in RowsOf(k)
                 /\ revisions[i].status = "superseded" <=> i < Len(revisions)
           /\ revisions = <<>> <=> Len(revisions) = 0
           /\ Len(revisions) > 0 => /\ Current(revisions) = revisions[Len(revisions)]
                                    /\ Current(revisions) \in RowsOf(k)
                                    /\ Current(revisions).status # "superseded"
<1>1. revisions \in Seq(RowsOf(k))
      BY DEF Chain
<1>2. Len(revisions) \in Nat /\ DOMAIN revisions = 1 .. Len(revisions)
      BY <1>1, LenProperties
<1>3. \A i \in 1 .. Len(revisions) :
         /\ revisions[i] \in RowsOf(k)
         /\ revisions[i].status = "superseded" <=> i < Len(revisions)
      BY <1>1, ElementOfSeq DEF Chain
<1>4. revisions = <<>> <=> Len(revisions) = 0
      BY <1>1, EmptySeq
<1>5. Len(revisions) > 0 => Len(revisions) \in 1 .. Len(revisions)
      BY <1>2
<1>6. QED
      BY <1>1, <1>2, <1>3, <1>4, <1>5 DEF Current

\* A source is complete as soon as it has a row.
LEMMA SourceIsComplete ==
    ASSUME NEW k \in Sources, NEW revisions, Chain(k, revisions)
    PROVE  IsComplete(revisions) <=> Len(revisions) > 0
<1>1. k \in Keys /\ RowsOf(k) = SourceRow
      BY SourceKeys, RowTypes
<1>2. Len(revisions) > 0 =>
          Current(revisions) \in SourceRow /\ Current(revisions).status # "superseded"
      BY <1>1, ChainFacts
<1>3. \A row \in SourceRow : row.status \in {"complete", "superseded"}
      BY DEF SourceRow
<1>4. Len(revisions) \in Nat /\ (revisions = <<>> <=> Len(revisions) = 0)
      BY <1>1, ChainFacts
<1>5. QED
      BY <1>2, <1>3, <1>4 DEF IsComplete

LEMMA NewRow ==
    ASSUME NEW k \in Keys, NEW row \in RowsOf(k), row.status # "superseded"
    PROVE  /\ Chain(k, <<row>>)
           /\ KeptAll(<<>>, <<row>>)
           /\ Len(<<row>>) = 1 /\ <<row>>[1] = row /\ Current(<<row>>) = row
BY DEF Chain, KeptAll, Current

LEMMA SupersededGrows ==
    ASSUME NEW k \in Keys, NEW old, Chain(k, old), Len(old) > 0,
           Current(old).status = "complete", NEW v, Row("complete", v) \in RowsOf(k)
    PROVE  LET new == Superseded(old, v)
           IN  /\ Chain(k, new)
               /\ KeptAll(old, new)
               /\ Len(new) = Len(old) + 1
               /\ \A i \in 1 .. Len(old) : /\ new[i].values = old[i].values
                                           /\ new[i].status # "incomplete"
                                           /\ old[i].status # "incomplete"
               /\ new[Len(old) + 1] = Row("complete", v)
               /\ Current(new) = Row("complete", v)
<1> DEFINE n == Len(old)
           row == Row("superseded", old[n].values)
           mid == [old EXCEPT ![n] = row]
           new == Superseded(old, v)
<1>1. /\ old \in Seq(RowsOf(k)) /\ n \in Nat /\ n \in 1 .. n
      /\ old[n] \in RowsOf(k) /\ old[n].status = "complete"
      BY ChainFacts
<1>2. row \in RowsOf(k)
      BY <1>1, RowTypes DEF RowsOf, SourceRow, WindowRow, Row
<1>3. [old EXCEPT ![n].status = "superseded"] = mid
  <2>1. old[n] \in SourceRow \/ old[n] \in WindowRow
        BY <1>1 DEF RowsOf
  <2>2. \A r \in SourceRow \cup WindowRow :
           [r EXCEPT !.status = "superseded"] = [status |-> "superseded", values |-> r.values]
        BY DEF SourceRow, WindowRow
  <2>3. [old[n] EXCEPT !.status = "superseded"] = row
        BY <2>1, <2>2 DEF Row
  <2>4. QED
        BY <2>3
<1>4. /\ mid \in Seq(RowsOf(k)) /\ Len(mid) = n
      /\ \A j \in 1 .. n : mid[j] = IF j = n THEN row ELSE old[j]
      BY <1>1, <1>2, ExceptSeq
<1>5. new = Append(mid, Row("complete", v))
      BY <1>3 DEF Superseded
<1> HIDE DEF mid, row, new
<1>6. /\ new \in Seq(RowsOf(k)) /\ Len(new) = n + 1
      /\ \A i \in 1 .. n : new[i] = mid[i]
      /\ new[n + 1] = Row("complete", v)
      BY <1>4, <1>5, AppendProperties
<1>7. \A i \in 1 .. n : new[i] = IF i = n THEN row ELSE old[i]
      BY <1>4, <1>6
<1>8. \A i \in 1 .. n : old[i].status = "superseded" <=> i < n
      BY ChainFacts
<1>9. /\ row.status = "superseded"
      /\ row.values = old[n].values
      /\ Row("complete", v).status = "complete"
      BY DEF row, Row
<1>10. Chain(k, new)
  <2>1. ASSUME NEW i \in 1 .. Len(new) PROVE new[i].status = "superseded" <=> i < Len(new)
    <3>1. CASE i = n + 1
          BY <3>1, <1>6, <1>9, <1>1
    <3>2. CASE i \in 1 .. n
          BY <3>2, <1>1, <1>6, <1>7, <1>8, <1>9
    <3>3. QED
          BY <3>1, <3>2, <1>1, <1>6
  <2>2. QED
        BY <2>1, <1>6 DEF Chain
<1>11. KeptAll(old, new)
  <2>1. ASSUME NEW i \in 1 .. n PROVE Kept(old[i], new[i])
        BY <1>1, <1>7 DEF Kept, row
  <2>2. QED
        BY <2>1, <1>6, <1>1 DEF KeptAll
<1>12. \A i \in 1 .. n : /\ new[i].values = old[i].values
                         /\ new[i].status # "incomplete"
                         /\ old[i].status # "incomplete"
      BY <1>1, <1>7, <1>8, <1>9
<1>13. QED
      BY <1>6, <1>10, <1>11, <1>12 DEF Current, new

WrittenOver(revisions, row) == [revisions EXCEPT ![Len(revisions)] = row]

\* A row that is not complete is written over.
LEMMA ReplacedInPlace ==
    ASSUME NEW k \in Keys, NEW old, Chain(k, old), Len(old) > 0,
           Current(old).status = "incomplete",
           NEW row \in RowsOf(k), row.status \in {"incomplete", "complete"},
           NEW new, new = WrittenOver(old, row)
    PROVE  /\ Chain(k, new)
           /\ KeptAll(old, new)
           /\ Len(new) = Len(old)
           /\ \A i \in 1 .. Len(old) : i # Len(old) => new[i] = old[i]
           /\ new[Len(old)] = row
           /\ Current(new) = row
<1> DEFINE n == Len(old)
<1>1. /\ old \in Seq(RowsOf(k)) /\ n \in Nat /\ n \in 1 .. n
      /\ old[n].status = "incomplete"
      BY ChainFacts
<1>2. /\ new \in Seq(RowsOf(k)) /\ Len(new) = n
      /\ \A j \in 1 .. n : new[j] = IF j = n THEN row ELSE old[j]
      BY <1>1, ExceptSeq DEF WrittenOver
<1>3. \A i \in 1 .. n : old[i].status = "superseded" <=> i < n
      BY ChainFacts
<1>4. Chain(k, new)
      BY <1>1, <1>2, <1>3 DEF Chain
<1>5. KeptAll(old, new)
      BY <1>1, <1>2 DEF KeptAll, Kept
<1>6. QED
      BY <1>1, <1>2, <1>4, <1>5 DEF Current

LEMMA Unchanged ==
    ASSUME NEW k \in Keys, NEW old, Chain(k, old)
    PROVE  KeptAll(old, old)
BY ChainFacts DEF KeptAll, Kept

LEMMA UpsertGrows ==
    ASSUME NEW k \in Sources, NEW old, Chain(k, old), NEW x \in Writers
    PROVE  LET new == UpsertSource(old, x)
           IN  /\ Chain(k, new)
               /\ KeptAll(old, new)
               /\ new # <<>> /\ Current(new).values = x
               /\ Len(new) \in Nat /\ Len(new) <= Len(old) + 1
               /\ Len(new) = Len(old) => new = old
<1>1. k \in Keys /\ RowsOf(k) = SourceRow /\ Row("complete", x) \in SourceRow
      BY SourceKeys, RowTypes
<1>2. Row("complete", x).status = "complete" /\ Row("complete", x).values = x
      BY DEF Row
<1>3. CASE old = <<>>
  <2> DEFINE new == <<Row("complete", x)>>
  <2>1. UpsertSource(old, x) = new
        BY <1>3 DEF UpsertSource
  <2>2. /\ Chain(k, new) /\ KeptAll(old, new)
        /\ Len(new) = 1
        /\ Current(new) = Row("complete", x)
        BY <1>1, <1>2, <1>3, NewRow
  <2>3. new # <<>> /\ Len(old) = 0
        BY <1>3
  <2> HIDE DEF new
  <2>4. QED
        BY <1>2, <2>1, <2>2, <2>3
<1>4. CASE old # <<>> /\ Current(old).values = x
  <2>1. UpsertSource(old, x) = old
        BY <1>4 DEF UpsertSource
  <2>2. QED
        BY <1>1, <1>4, <2>1, ChainFacts, Unchanged
<1>5. CASE old # <<>> /\ Current(old).values # x
  <2>1. UpsertSource(old, x) = Superseded(old, x)
        BY <1>5 DEF UpsertSource
  <2>2. Len(old) > 0 /\ Len(old) \in Nat /\ Current(old).status = "complete"
        BY <1>1, <1>5, ChainFacts, SourceIsComplete DEF IsComplete
  <2>3. Superseded(old, x) # <<>>
        BY <1>1, <2>2, SupersededGrows
  <2>4. QED
        BY <1>1, <1>2, <2>1, <2>2, <2>3, SupersededGrows
<1>6. QED
      BY <1>3, <1>4, <1>5

\* A rebuilt window keeps its rows, but for the last, and gets at most the sources
\* it was rebuilt from: as a complete row if they are all there.
LEMMA RebuiltGrows ==
    ASSUME NEW w \in Windows, NEW old, Chain(w, old), NEW sources \in Picked,
           DOMAIN sources \subseteq MinutesOf(w)
    PROVE  LET new == Rebuilt(old, w, sources)
               all == DOMAIN sources = MinutesOf(w)
           IN  /\ Chain(w, new)
               /\ KeptAll(old, new)
               /\ Len(new) \in Nat /\ Len(new) > 0
               /\ \A i \in 1 .. Len(new) :
                     \/ /\ i \in 1 .. Len(old)
                        /\ new[i].values = old[i].values
                        /\ new[i].status = "incomplete" <=> old[i].status = "incomplete"
                     \/ /\ new[i].values = sources
                        /\ new[i].status = IF all THEN "complete" ELSE "incomplete"
               /\ all => Current(new).values = sources
               /\ ~all /\ ~IsComplete(old) => ~IsComplete(new)
               /\ new # old => Current(new).values = sources
<1> DEFINE all == DOMAIN sources = MinutesOf(w)
           new == Rebuilt(old, w, sources)
           n == Len(old)
<1>1. w \in Keys /\ RowsOf(w) = WindowRow
      BY SourceKeys, RowTypes
<1>2. \A s \in {"complete", "incomplete"} : /\ Row(s, sources) \in WindowRow
                                            /\ Row(s, sources).status = s
                                            /\ Row(s, sources).values = sources
      BY RowTypes DEF Row
<1>3. new = IF all THEN ReplaceDerived(old, sources) ELSE RecordIncomplete(old, sources)
      BY WholeWindow DEF Rebuilt
<1>4. /\ n \in Nat
      /\ old = <<>> <=> n = 0
      /\ n > 0 => /\ Current(old) = old[n] /\ Current(old).status # "superseded"
                  /\ Current(old).status \in {"complete", "incomplete"}
  <2>1. \A row \in WindowRow : row.status \in {"complete", "superseded", "incomplete"}
        BY DEF WindowRow
  <2>2. QED
        BY <1>1, <2>1, ChainFacts
<1> HIDE DEF all
<1>5. CASE old = <<>>
  <2> DEFINE s == IF all THEN "complete" ELSE "incomplete"
  <2>1. new = <<Row(s, sources)>>
        BY <1>3, <1>5 DEF ReplaceDerived, RecordIncomplete
  <2>2. s \in {"complete", "incomplete"} /\ (all <=> s = "complete")
        OBVIOUS
  <2> HIDE DEF s, new
  <2>3. Row(s, sources) \in RowsOf(w) /\ Row(s, sources).status # "superseded"
        BY <1>1, <1>2, <2>2
  <2>4. /\ Chain(w, new) /\ KeptAll(old, new) /\ Len(new) = 1
        /\ new[1] = Row(s, sources) /\ Current(new) = Row(s, sources)
        BY <1>1, <1>5, <2>1, <2>3, NewRow
  <2>5. QED
        BY <1>2, <2>2, <2>4 DEF all, IsComplete, s, new
<1>6. CASE old # <<>> /\ new = old /\ (all => Current(old).values = sources)
  <2>1. Chain(w, new) /\ KeptAll(old, new) /\ Len(new) = n /\ n > 0
        BY <1>1, <1>4, <1>6, Unchanged
  <2> HIDE DEF new
  <2>2. QED
        BY <1>4, <1>6, <2>1 DEF new, all
<1>7. CASE /\ old # <<>> /\ Current(old).status = "incomplete"
           /\ \E s \in {"complete", "incomplete"} :
                 /\ new = WrittenOver(old, Row(s, sources))
                 /\ all <=> s = "complete"
  <2>1. PICK s \in {"complete", "incomplete"} : /\ new = WrittenOver(old, Row(s, sources))
                                                /\ all <=> s = "complete"
        BY <1>7
  <2> HIDE DEF new
  <2>2. Row(s, sources) \in RowsOf(w)
        BY <1>1, <1>2
  <2>3. n > 0
        BY <1>4, <1>7
  <2>4. Row(s, sources).status \in {"incomplete", "complete"}
        BY <1>2
  <2>5. /\ Chain(w, new) /\ KeptAll(old, new) /\ Len(new) = n
        /\ \A i \in 1 .. n : i # n => new[i] = old[i]
        /\ new[n] = Row(s, sources) /\ Current(new) = Row(s, sources)
    <3>1. new = WrittenOver(old, Row(s, sources))
          BY <2>1
    <3>2. Current(old).status = "incomplete" /\ Len(old) > 0 /\ w \in Keys
          BY <1>1, <1>7, <2>3
    <3>3. QED
          BY <2>2, <2>4, <3>1, <3>2, ReplacedInPlace
  <2>6. QED
        BY <1>2, <1>4, <2>1, <2>3, <2>5 DEF all, IsComplete, new
<1>8. CASE old # <<>> /\ Current(old).status = "complete" /\ all /\ new = Superseded(old, sources)
  <2> HIDE DEF new
  <2>1. Row("complete", sources) \in RowsOf(w) /\ n > 0
        BY <1>1, <1>2, <1>4, <1>8
  <2>2. /\ Chain(w, new) /\ KeptAll(old, new) /\ Len(new) = n + 1
        /\ \A i \in 1 .. n : /\ new[i].values = old[i].values
                             /\ new[i].status # "incomplete"
                             /\ old[i].status # "incomplete"
        /\ new[n + 1] = Row("complete", sources)
        /\ Current(new) = Row("complete", sources)
        BY <1>1, <1>8, <2>1, SupersededGrows
  <2>3. \A i \in 1 .. (n + 1) : i \in 1 .. n \/ i = n + 1
        BY <1>4
  <2>4. QED
        BY <1>2, <1>4, <1>8, <2>2, <2>3 DEF all, new
<1>9. \/ old = <<>>
      \/ old # <<>> /\ new = old /\ (all => Current(old).values = sources)
      \/ /\ old # <<>> /\ Current(old).status = "incomplete"
         /\ \E s \in {"complete", "incomplete"} :
               /\ new = WrittenOver(old, Row(s, sources))
               /\ all <=> s = "complete"
      \/ old # <<>> /\ Current(old).status = "complete" /\ all /\ new = Superseded(old, sources)
  <2>1. CASE all
        BY <1>3, <1>4, <2>1 DEF ReplaceDerived, WrittenOver
  <2>2. CASE ~all
        BY <1>3, <1>4, <2>2 DEF RecordIncomplete, IsComplete, WrittenOver
  <2>3. QED
        BY <2>1, <2>2
<1>10. QED
      BY <1>5, <1>6, <1>7, <1>8, <1>9

-----------------------------------------------------------------------------
(***************************************************************************)
(* The steps, and the types of what they write.                            *)
(***************************************************************************)

\* x begins a transaction, or loses it; nothing else that is proved about moves.
Starts(x) == /\ ~Open(x)
             /\ \E ms \in SUBSET Minutes : ms # {} /\ txn' = [txn EXCEPT ![x] = Begun(ms)]
Ends(x) == Open(x) /\ txn' = [txn EXCEPT ![x] = NoTxn]
Works(x) == ReadRevision(x) \/ Wait(x) \/ WriteSource(x) \/ ReadSources(x) \/ WriteWindow(x)

LEMMA Steps ==
    ASSUME RestType, [Next]_vars
    PROVE  \/ \E x \in Writers : Starts(x) /\ UNCHANGED <<store, sent, twice, raced>>
           \/ \E x \in Writers : Ends(x) /\ UNCHANGED <<store, sent, twice, raced>>
           \/ \E x \in Writers : Works(x)
           \/ \E x \in Writers : Commit(x)
           \/ UNCHANGED <<store, txn, sent, twice, raced>>
<1>1. "live" \in Writers /\ "reconcile" \in Writers /\ "archive" \in Writers
      BY DEF Writers
<1>2. ASSUME NEW x \in Writers, NEW ms \in SUBSET Minutes, Begin(x, ms)
      PROVE  Starts(x) /\ UNCHANGED <<store, sent, twice, raced>>
      BY <1>2 DEF Begin, Starts
<1>3. ASSUME NEW m \in Minutes, ReceiveKline(m)
      PROVE  Starts("live") /\ UNCHANGED <<store, sent, twice, raced>>
      BY <1>1, <1>2, <1>3 DEF ReceiveKline
<1>4. ASSUME NEW m \in Minutes, PersistPage(m + 1)
      PROVE  Starts("reconcile") /\ UNCHANGED <<store, sent, twice, raced>>
      BY <1>1, <1>2, <1>4 DEF PersistPage, RestType
<1>5. ASSUME PersistChunk
      PROVE  Starts("archive") /\ UNCHANGED <<store, sent, twice, raced>>
      BY <1>1, <1>2, <1>5 DEF PersistChunk
<1>6. ASSUME NEW x \in Writers, Resolve(x)
      PROVE  Ends(x) /\ UNCHANGED <<store, sent, twice, raced>>
      BY <1>6 DEF Resolve, Ends, Open
<1>7. ASSUME NEW x \in Writers, RollBack(x)
      PROVE  Ends(x) /\ UNCHANGED <<store, sent, twice, raced>>
      BY <1>7 DEF RollBack, Ends
<1>8. EndDay => UNCHANGED <<store, txn, sent, twice, raced>>
      BY DEF EndDay
<1>9. \A m \in Minutes : PlanRepair(m + 1) => UNCHANGED <<store, txn, sent, twice, raced>>
      BY DEF PlanRepair
<1>10. UNCHANGED vars => UNCHANGED <<store, txn, sent, twice, raced>>
      BY DEF vars
<1>11. QED
      BY <1>1, <1>3, <1>4, <1>5, <1>6, <1>7, <1>8, <1>9, <1>10 DEF Next, Works

LEMMA WorkChanges ==
    ASSUME NEW x \in Writers, Works(x)
    PROVE  Open(x) /\ UNCHANGED <<store, budget, plan, sent, twice, dayOver, raced>>
BY DEF Works, ReadRevision, Wait, WriteSource, ReadSources, WriteWindow, Open

LEMMA TxnFacts ==
    ASSUME TxnType, NEW x \in Writers
    PROVE  /\ Open(x) => txn[x] \in Transaction
           /\ ~Open(x) => txn[x] = NoTxn
BY DEF TxnType, Open, Transaction, NoTxn

LEMMA StagingFacts ==
    ASSUME NEW staged \in Staging
    PROVE  DOMAIN staged \subseteq Keys
BY DEF Staging

LEMMA PickedFacts ==
    /\ <<>> \in Picked
    /\ \A s \in Picked : DOMAIN s \subseteq Minutes /\ \A m \in DOMAIN s : s[m] \in Nat
<1>1. <<>> \in [{} -> Nat]
      OBVIOUS
<1>2. QED
      BY <1>1 DEF Picked

LEMMA BegunType ==
    ASSUME NEW ms \in SUBSET Minutes
    PROVE  Begun(ms) \in Transaction
<1>1. <<>> \in [{} -> Seq(SourceRow \cup WindowRow)]
      OBVIOUS
<1>2. <<>> \in Staging
      BY <1>1 DEF Staging
<1>3. QED
      BY <1>2, PickedFacts DEF Begun, Transaction

LEMMA StageType ==
    ASSUME TxnType, NEW x \in Writers, Open(x),
           NEW k \in Keys, NEW revisions, Chain(k, revisions)
    PROVE  Stage(x, k, revisions) \in Staging
<1>1. txn[x].staged \in Staging
      BY TxnFacts DEF Transaction
<1>2. PICK ks \in SUBSET Keys : txn[x].staged \in [ks -> Seq(SourceRow \cup WindowRow)]
      BY <1>1 DEF Staging
<1>3. revisions \in Seq(SourceRow \cup WindowRow)
  <2>1. revisions \in Seq(RowsOf(k)) /\ RowsOf(k) \subseteq SourceRow \cup WindowRow
        BY RowTypes DEF Chain
  <2>2. QED
        BY <2>1
<1>4. Stage(x, k, revisions) \in [ks \cup {k} -> Seq(SourceRow \cup WindowRow)]
      BY <1>2, <1>3 DEF Stage
<1>5. ks \cup {k} \in SUBSET Keys
      OBVIOUS
<1>6. Stage(x, k, revisions) \in Staging
      BY <1>4, <1>5 DEF Staging
<1>7. QED
      BY <1>6

LEMMA MinuteIsFirst ==
    ASSUME TxnType, NEW x \in Writers, Open(x), txn[x].minutes # {}
    PROVE  /\ Minute(x) \in txn[x].minutes /\ Minute(x) \in Minutes
           /\ \A n \in txn[x].minutes \ {Minute(x)} : Minute(x) < n
<1>1. txn[x].minutes \in SUBSET Minutes
      BY TxnFacts DEF Transaction
<1>2. txn[x].minutes \in SUBSET Nat
      BY <1>1, WidthTypes
<1>3. \E m \in txn[x].minutes : \A n \in txn[x].minutes : m <= n
      BY <1>2, Smallest
<1>4. Minute(x) \in txn[x].minutes /\ \A n \in txn[x].minutes : Minute(x) <= n
      BY <1>3 DEF Minute
<1>5. QED
      BY <1>1, <1>2, <1>4

\* What each statement of a transaction does to it.
LEMMA ReadRevisionDoes ==
    ASSUME TxnType, StoreType, StoreInv, NEW x \in Writers, Open(x), TxnInv(x), ReadRevision(x)
    PROVE  /\ txn' = [txn EXCEPT ![x] = txn'[x]]
           /\ txn'[x] \in Transaction
           /\ txn'[x] = [txn[x] EXCEPT !.before = Len(store[Source(Minute(x))]), !.phase = "upsert"]
           /\ Source(Minute(x)) \notin DOMAIN txn[x].staged
<1>1. txn[x] \in Transaction /\ txn[x].phase = "read" /\ txn[x].minutes # {}
      BY TxnFacts DEF ReadRevision, TxnInv, InOrder
<1>2. /\ Minute(x) \in txn[x].minutes
      /\ Source(Minute(x)) \in Sources
      /\ Source(Minute(x)).open = Minute(x)
      BY <1>1, MinuteIsFirst, SourceKeys
<1>3. Minute(x) \in Nat
      BY <1>1, MinuteIsFirst, WidthTypes
<1>4. Source(Minute(x)) \notin DOMAIN txn[x].staged
      BY <1>2, <1>3 DEF TxnInv, InOrder
<1>5. Seen(x, Source(Minute(x))) = store[Source(Minute(x))]
      BY <1>4 DEF Seen
<1>6. Len(store[Source(Minute(x))]) \in Nat
      BY <1>2, ChainFacts, SourceKeys DEF StoreInv
<1>7. txn'[x] = [txn[x] EXCEPT !.before = Len(store[Source(Minute(x))]), !.phase = "upsert"]
      BY <1>5 DEF ReadRevision, TxnType
<1>8. txn' = [txn EXCEPT ![x] = txn'[x]]
      BY DEF ReadRevision, TxnType
<1>9. txn'[x] \in Transaction
      BY <1>1, <1>6, <1>7 DEF Transaction
<1>10. QED
      BY <1>4, <1>7, <1>8, <1>9

\* The order in which candles are locked.
Below(k, l) == \/ k \in Sources /\ l \in Sources /\ k.open < l.open
               \/ k \in Sources /\ l \in Windows
               \/ k \in Windows /\ l \in Windows /\ Before(k, l)

LEMMA BelowIsStrict ==
    /\ \A k \in Keys : ~Below(k, k)
    /\ \A k, l, m \in Keys : Below(k, l) /\ Below(l, m) => Below(k, m)
<1>1. \A k \in Sources : k.open \in Nat
      BY SourceKeys, WidthTypes
<1>2. QED
      BY <1>1, SourceKeys, BeforeIsStrict DEF Below

\* The candle a transaction is about to write comes after all it has written.
LEMMA TargetFacts ==
    ASSUME TxnType, NEW x \in Writers, Open(x), InOrder(x), txn[x].phase \in {"upsert", "write"}
    PROVE  /\ Target(x) \in Keys
           /\ Target(x) \notin DOMAIN txn[x].staged
           /\ \A k \in DOMAIN txn[x].staged : Below(k, Target(x))
           /\ txn[x].phase = "upsert" =>
                 /\ Target(x) = Source(Minute(x)) /\ Target(x) \in Sources
                 /\ Minute(x) \in txn[x].minutes /\ Minute(x) \in Minutes
                 /\ \A n \in txn[x].minutes \ {Minute(x)} : Minute(x) < n
           /\ txn[x].phase = "write" =>
                 /\ Target(x) = First(txn[x].affected) /\ Target(x) \in Windows
                 /\ txn[x].minutes = {}
                 /\ First(txn[x].affected) \in txn[x].affected
                 /\ \A w \in txn[x].affected \ {First(txn[x].affected)} :
                       Before(First(txn[x].affected), w)
<1>1. DOMAIN txn[x].staged \subseteq Sources \cup Windows /\ txn[x].affected \in SUBSET Windows
      BY TxnFacts, StagingFacts, SourceKeys DEF Transaction
<1>2. CASE txn[x].phase = "upsert"
  <2>1. txn[x].minutes # {}
        BY <1>2 DEF InOrder
  <2>2. /\ Minute(x) \in txn[x].minutes /\ Minute(x) \in Minutes
        /\ \A n \in txn[x].minutes \ {Minute(x)} : Minute(x) < n
        BY <2>1, MinuteIsFirst
  <2>3. Target(x) = Source(Minute(x))
        BY <1>2 DEF Target
  <2>4. Target(x) \in Sources /\ Target(x).open = Minute(x)
        BY <2>2, <2>3, SourceKeys
  <2>5. \A k \in DOMAIN txn[x].staged : k \in Sources /\ k.open < Minute(x)
        BY <1>1, <2>1, <2>2 DEF InOrder
  <2>6. \A k \in DOMAIN txn[x].staged : Below(k, Target(x))
        BY <2>4, <2>5 DEF Below
  <2>7. QED
        BY <1>2, <2>2, <2>3, <2>4, <2>6, BelowIsStrict, SourceKeys
<1>3. CASE txn[x].phase = "write"
  <2>1. txn[x].minutes = {} /\ txn[x].affected # {}
        BY <1>3 DEF InOrder
  <2>2. /\ First(txn[x].affected) \in txn[x].affected
        /\ \A w \in txn[x].affected \ {First(txn[x].affected)} : Before(First(txn[x].affected), w)
        BY <1>1, <2>1, FirstIsFirst
  <2>3. Target(x) = First(txn[x].affected)
        BY <1>3 DEF Target
  <2>4. Target(x) \in Windows
        BY <1>1, <2>2, <2>3
  <2>5. \A k \in DOMAIN txn[x].staged : k \in Sources \/ (k \in Windows /\ Before(k, Target(x)))
        BY <1>1, <2>2, <2>3 DEF InOrder
  <2>6. \A k \in DOMAIN txn[x].staged : Below(k, Target(x))
        BY <2>4, <2>5 DEF Below
  <2>7. QED
        BY <1>3, <2>1, <2>2, <2>3, <2>4, <2>6, BelowIsStrict, SourceKeys
<1>4. QED
      BY <1>2, <1>3

LEMMA WaitDoes ==
    ASSUME TxnType, StoreType, StoreInv, NEW x \in Writers, Open(x), TxnInv(x), Wait(x)
    PROVE  /\ txn' = [txn EXCEPT ![x] = txn'[x]]
           /\ txn'[x] \in Transaction
           /\ txn'[x] = [txn[x] EXCEPT !.waiting = Len(store[Target(x)])]
           /\ txn[x].phase \in {"upsert", "write"}
<1>1. txn[x] \in Transaction /\ txn[x].phase \in {"upsert", "write"}
      BY TxnFacts DEF Wait
<1>2. Target(x) \in Keys
      BY <1>1, TargetFacts DEF TxnInv
<1>3. Len(store[Target(x)]) \in Int
      BY <1>2, ChainFacts DEF StoreInv
<1>4. txn'[x] = [txn[x] EXCEPT !.waiting = Len(store[Target(x)])]
      BY DEF Wait, TxnType
<1>5. txn' = [txn EXCEPT ![x] = txn'[x]]
      BY DEF Wait, TxnType
<1>6. txn'[x] \in Transaction
      BY <1>1, <1>3, <1>4 DEF Transaction
<1>7. QED
      BY <1>1, <1>4, <1>5, <1>6

LEMMA ReadSourcesDoes ==
    ASSUME TxnType, StoreType, StoreInv, NEW x \in Writers, Open(x), TxnInv(x), ReadSources(x)
    PROVE  /\ txn' = [txn EXCEPT ![x] = txn'[x]]
           /\ txn'[x] \in Transaction
           /\ txn'[x] = [txn[x] EXCEPT !.sources = SourcesOf(x, First(txn[x].affected)),
                                        !.phase = "write"]
           /\ txn[x].phase = "sources"
           /\ First(txn[x].affected) \in Windows
<1>1. txn[x] \in Transaction /\ txn[x].phase = "sources" /\ txn[x].affected # {}
      BY TxnFacts DEF ReadSources, TxnInv, InOrder
<1> DEFINE w == First(txn[x].affected)
<1>2. w \in Windows
      BY <1>1, FirstIsFirst DEF Transaction
<1>3. \A m \in MinutesOf(w) : Len(Seen(x, Source(m))) \in Nat
  <2>1. TAKE m \in MinutesOf(w)
  <2>2. Source(m) \in Keys
        BY <1>2, WholeWindow, SourceKeys
  <2>3. Chain(Source(m), Seen(x, Source(m)))
        BY <2>2 DEF Seen, TxnInv, WritesOn, StoreInv
  <2>4. QED
        BY <2>2, <2>3, ChainFacts
<1>4. SourcesOf(x, w) \in Picked
  <2> DEFINE present == {m \in MinutesOf(w) : IsComplete(Seen(x, Source(m)))}
  <2>1. present \in SUBSET Minutes
        BY <1>2, WholeWindow
  <2>2. [m \in present |-> Len(Seen(x, Source(m)))] \in [present -> Nat]
        BY <1>3
  <2>3. QED
        BY <2>1, <2>2 DEF SourcesOf, Picked
<1>5. txn'[x] = [txn[x] EXCEPT !.sources = SourcesOf(x, w), !.phase = "write"]
      BY DEF ReadSources, TxnType
<1>6. txn' = [txn EXCEPT ![x] = txn'[x]]
      BY DEF ReadSources, TxnType
<1>7. txn'[x] \in Transaction
      BY <1>1, <1>4, <1>5 DEF Transaction
<1>8. QED
      BY <1>1, <1>2, <1>5, <1>6, <1>7

LEMMA NextPhaseType ==
    \A minutes, affected :
        NextPhase(minutes, affected) \in {"read", "sources", "commit"}
BY DEF NextPhase

LEMMA WriteSourceDoes ==
    ASSUME TxnType, StoreType, StoreInv, NEW x \in Writers, Open(x), TxnInv(x), WriteSource(x)
    PROVE  LET m == Minute(x)
               k == Source(m)
               revisions == UpsertSource(store[k], x)
               counts == Len(revisions) # txn[x].before
               affected == IF counts THEN txn[x].affected \cup {Hour(m), FourHour(m)}
                           ELSE txn[x].affected
           IN  /\ txn' = [txn EXCEPT ![x] = txn'[x]]
               /\ txn'[x] \in Transaction
               /\ txn'[x].phase = NextPhase(txn[x].minutes \ {m}, affected)
               /\ txn'[x].minutes = txn[x].minutes \ {m}
               /\ txn'[x].affected = affected
               /\ txn'[x].sources = txn[x].sources
               /\ txn'[x].staged = Stage(x, k, revisions)
               /\ txn'[x].waiting = -1
               /\ txn'[x].changed = IF counts THEN txn[x].changed \cup {k} ELSE txn[x].changed
               /\ txn'[x].derived = txn[x].derived
               /\ txn[x].phase = "upsert"
               /\ ~LockedByOther(x, k)
               /\ Chain(k, revisions)
               /\ Len(revisions) \in Nat
<1> DEFINE m == Minute(x)
           k == Source(m)
           revisions == UpsertSource(store[k], x)
           counts == Len(revisions) # txn[x].before
           affected == IF counts THEN txn[x].affected \cup {Hour(m), FourHour(m)}
                       ELSE txn[x].affected
           changed == IF counts THEN txn[x].changed \cup {k} ELSE txn[x].changed
<1>1. txn[x] \in Transaction /\ txn[x].phase = "upsert"
      BY TxnFacts DEF WriteSource
<1>2. /\ Target(x) = k /\ k \in Sources /\ k \in Keys /\ m \in Minutes
      /\ k \notin DOMAIN txn[x].staged
      BY <1>1, TargetFacts, SourceKeys DEF TxnInv
<1>3. Seen(x, k) = store[k]
      BY <1>2 DEF Seen
<1>4. Chain(k, revisions) /\ Len(revisions) \in Nat
      BY <1>2, UpsertGrows DEF StoreInv
<1>5. Stage(x, k, revisions) \in Staging
      BY <1>2, <1>4, StageType
<1>6. /\ txn'[x] = [txn[x] EXCEPT !.staged = Stage(x, k, revisions),
                                  !.affected = affected,
                                  !.minutes = txn[x].minutes \ {m},
                                  !.waiting = -1,
                                  !.changed = changed,
                                  !.phase = NextPhase(txn[x].minutes \ {m}, affected)]
      /\ txn' = [txn EXCEPT ![x] = txn'[x]]
      /\ Granted(x)
      BY <1>3 DEF WriteSource, TxnType, CountsAsChanged
<1>7. /\ affected \in SUBSET Windows /\ changed \in SUBSET Sources /\ -1 \in Int
      /\ txn[x].minutes \ {m} \in SUBSET Minutes
      BY <1>1, <1>2, WindowsOfMinute DEF Transaction
<1>8. NextPhase(txn[x].minutes \ {m}, affected) \in {"read", "sources", "commit"}
      BY NextPhaseType
<1> HIDE DEF m, k, revisions, counts, affected, changed
<1>9. txn'[x] \in Transaction
      BY <1>1, <1>5, <1>6, <1>7, <1>8 DEF Transaction
<1>10. /\ txn'[x].phase = NextPhase(txn[x].minutes \ {m}, affected)
       /\ txn'[x].minutes = txn[x].minutes \ {m}
       /\ txn'[x].affected = affected
       /\ txn'[x].sources = txn[x].sources
       /\ txn'[x].staged = Stage(x, k, revisions)
       /\ txn'[x].waiting = -1
       /\ txn'[x].changed = changed
       /\ txn'[x].derived = txn[x].derived
      BY <1>1, <1>6 DEF Transaction
<1>11. ~LockedByOther(x, k)
      BY <1>2, <1>6 DEF Granted
<1>12. QED
      BY <1>1, <1>4, <1>6, <1>9, <1>10, <1>11 DEF m, k, revisions, counts, affected, changed

LEMMA WriteWindowDoes ==
    ASSUME TxnType, StoreType, StoreInv, NEW x \in Writers, Open(x), TxnInv(x), WriteWindow(x)
    PROVE  LET w == First(txn[x].affected)
               revisions == Rebuilt(store[w], w, txn[x].sources)
               rest == txn[x].affected \ {w}
           IN  /\ txn' = [txn EXCEPT ![x] = txn'[x]]
               /\ txn'[x] \in Transaction
               /\ txn'[x].phase = NextPhase({}, rest)
               /\ txn'[x].minutes = {}
               /\ txn'[x].affected = rest
               /\ txn'[x].staged = Stage(x, w, revisions)
               /\ txn'[x].waiting = -1
               /\ txn'[x].changed = txn[x].changed
               /\ txn'[x].derived = IF IsComplete(revisions)
                                    THEN txn[x].derived \cup {w} ELSE txn[x].derived
               /\ txn[x].phase = "write"
               /\ ~LockedByOther(x, w)
               /\ Chain(w, revisions)
<1> DEFINE w == First(txn[x].affected)
           revisions == Rebuilt(store[w], w, txn[x].sources)
           rest == txn[x].affected \ {w}
           derived == IF IsComplete(revisions) THEN txn[x].derived \cup {w} ELSE txn[x].derived
<1>1. txn[x] \in Transaction /\ txn[x].phase = "write"
      BY TxnFacts DEF WriteWindow
<1>2. /\ Target(x) = w /\ w \in Windows /\ w \in Keys /\ txn[x].minutes = {}
      /\ w \notin DOMAIN txn[x].staged
      BY <1>1, TargetFacts, SourceKeys DEF TxnInv
<1>3. Seen(x, w) = store[w]
      BY <1>2 DEF Seen
<1>4. Chain(w, revisions)
  <2>1. txn[x].sources \in Picked /\ DOMAIN txn[x].sources \subseteq MinutesOf(w)
        BY <1>1 DEF Transaction, TxnInv, HasSources
  <2>2. QED
        BY <1>2, <2>1, RebuiltGrows DEF StoreInv
<1>5. Stage(x, w, revisions) \in Staging
      BY <1>2, <1>4, StageType
<1>6. /\ txn'[x] = [txn[x] EXCEPT !.staged = Stage(x, w, revisions),
                                  !.affected = rest,
                                  !.sources = <<>>,
                                  !.waiting = -1,
                                  !.derived = derived,
                                  !.phase = NextPhase({}, rest)]
      /\ txn' = [txn EXCEPT ![x] = txn'[x]]
      /\ Granted(x)
      BY <1>3 DEF WriteWindow, TxnType
<1>7. rest \in SUBSET Windows /\ derived \in SUBSET Windows /\ -1 \in Int
      BY <1>1, <1>2 DEF Transaction
<1>8. NextPhase({}, rest) \in {"read", "sources", "commit"}
      BY NextPhaseType
<1> HIDE DEF w, revisions, rest, derived
<1>9. txn'[x] \in Transaction
      BY <1>1, <1>5, <1>6, <1>7, <1>8, PickedFacts DEF Transaction
<1>10. /\ txn'[x].phase = NextPhase({}, rest)
       /\ txn'[x].minutes = {}
       /\ txn'[x].affected = rest
       /\ txn'[x].staged = Stage(x, w, revisions)
       /\ txn'[x].waiting = -1
       /\ txn'[x].changed = txn[x].changed
       /\ txn'[x].derived = derived
      BY <1>1, <1>2, <1>6 DEF Transaction
<1>11. ~LockedByOther(x, w)
      BY <1>2, <1>6 DEF Granted
<1>12. QED
      BY <1>1, <1>4, <1>6, <1>9, <1>10, <1>11 DEF w, revisions, rest, derived

-----------------------------------------------------------------------------
(***************************************************************************)
(* What is known of a transaction, step by step.                           *)
(***************************************************************************)

LEMMA SeenFacts ==
    ASSUME TxnType, StoreInv, NEW x \in Writers, Open(x), WritesOn(x), NEW k \in Keys
    PROVE  /\ Chain(k, Seen(x, k))
           /\ Len(Seen(x, k)) \in Nat /\ Len(store[k]) \in Nat
           /\ Len(Seen(x, k)) >= Len(store[k])
<1>1. Chain(k, Seen(x, k))
      BY DEF Seen, WritesOn, StoreInv
<1>2. Len(Seen(x, k)) \in Nat /\ Len(store[k]) \in Nat
      BY <1>1, ChainFacts DEF StoreInv
<1>3. Len(Seen(x, k)) >= Len(store[k])
      BY <1>2 DEF Seen, WritesOn, KeptAll
<1>4. QED
      BY <1>1, <1>2, <1>3

LEMMA SeenKept ==
    ASSUME NEW x \in Writers, txn'[x].staged = txn[x].staged, UNCHANGED store
    PROVE  \A k : Seen(x, k)' = Seen(x, k)
BY DEF Seen

LEMMA KnownKept ==
    ASSUME NEW x \in Writers, NEW w,
           \A m \in MinutesOf(w) : Seen(x, Source(m))' = Seen(x, Source(m))
    PROVE  Known(x, w)' = Known(x, w)
BY DEF Known

\* What a row holds it goes on holding while its sources get more revisions.
LEMMA HoldsMore ==
    ASSUME NEW w \in Windows, NEW row, NEW f, NEW g, RowHolds(w, row, f),
           \A m \in MinutesOf(w) : f[m] \in Nat /\ g[m] \in Nat /\ f[m] <= g[m]
    PROVE  RowHolds(w, row, g)
BY DEF RowHolds

LEMMA CommittedHolds ==
    ASSUME TxnType, StoreInv, NEW x \in Writers, Open(x), WritesOn(x),
           NEW w \in Windows, NEW i \in 1 .. Len(store[w])
    PROVE  RowHolds(w, store[w][i], Known(x, w))
<1>1. RowHolds(w, store[w][i], Committed(w))
      BY DEF StoreInv
<1>2. ASSUME NEW m \in MinutesOf(w)
      PROVE  /\ Committed(w)[m] \in Nat /\ Known(x, w)[m] \in Nat
             /\ Committed(w)[m] <= Known(x, w)[m]
  <2>1. Source(m) \in Keys
        BY WholeWindow, SourceKeys
  <2>2. Committed(w)[m] = Len(store[Source(m)]) /\ Known(x, w)[m] = Len(Seen(x, Source(m)))
        BY DEF Committed, Known
  <2>3. QED
        BY <2>1, <2>2, SeenFacts
<1>3. QED
      BY <1>1, <1>2, HoldsMore

\* Another writer's work leaves a transaction as it is.
LEMMA Framed ==
    ASSUME NEW y \in Writers, TxnInv(y), txn'[y] = txn[y], UNCHANGED store
    PROVE  TxnInv(y)'
<1>1. \A k : Seen(y, k)' = Seen(y, k)
      BY SeenKept
<1>2. Minute(y)' = Minute(y)
      BY DEF Minute
<1>3. \A w : Known(y, w)' = Known(y, w)
      BY <1>1, KnownKept
<1>4. InOrder(y)'
      BY DEF TxnInv, InOrder
<1>5. WritesOn(y)'
      BY DEF TxnInv, WritesOn
<1>6. ReadsOn(y)'
      BY <1>2 DEF TxnInv, ReadsOn
<1>7. HasSources(y)'
      BY <1>1 DEF TxnInv, HasSources
<1>8. WindowsHaveSources(y)'
      BY <1>3 DEF TxnInv, WindowsHaveSources
<1>9. QED
      BY <1>4, <1>5, <1>6, <1>7, <1>8 DEF TxnInv

LEMMA WritesKept ==
    ASSUME NEW x \in Writers, TxnInv(x), UNCHANGED store,
           txn'[x].staged = txn[x].staged, txn'[x].changed = txn[x].changed,
           txn'[x].derived = txn[x].derived, txn'[x].affected = txn[x].affected
    PROVE  WritesOn(x)' /\ WindowsHaveSources(x)'
<1>1. \A w : Known(x, w)' = Known(x, w)
      BY SeenKept, KnownKept
<1>2. WritesOn(x)'
      BY DEF TxnInv, WritesOn
<1>3. WindowsHaveSources(x)'
      BY <1>1 DEF TxnInv, WindowsHaveSources
<1>4. QED
      BY <1>2, <1>3

LEMMA ReadRevisionKeeps ==
    ASSUME TxnType, StoreType, StoreInv, NEW x \in Writers, Open(x), TxnInv(x), ReadRevision(x)
    PROVE  TxnInv(x)'
<1> DEFINE k == Source(Minute(x))
<1>1. /\ txn[x] \in Transaction
      /\ txn'[x] = [txn[x] EXCEPT !.before = Len(store[k]), !.phase = "upsert"]
      /\ txn[x].phase = "read"
      /\ UNCHANGED store
      BY TxnFacts, ReadRevisionDoes DEF ReadRevision
<1>2. /\ txn'[x].phase = "upsert" /\ txn'[x].before = Len(store[k])
      /\ txn'[x].minutes = txn[x].minutes /\ txn'[x].affected = txn[x].affected
      /\ txn'[x].sources = txn[x].sources /\ txn'[x].staged = txn[x].staged
      /\ txn'[x].waiting = txn[x].waiting /\ txn'[x].changed = txn[x].changed
      /\ txn'[x].derived = txn[x].derived
      BY <1>1 DEF Transaction
<1>3. WritesOn(x)' /\ WindowsHaveSources(x)'
      BY <1>1, <1>2, WritesKept
<1>4. InOrder(x)'
      BY <1>1, <1>2 DEF TxnInv, InOrder
<1>5. ReadsOn(x)'
  <2>1. Minute(x)' = Minute(x)
        BY <1>2 DEF Minute
  <2>2. Minute(x) \in Minutes
        BY <1>1, MinuteIsFirst DEF TxnInv, InOrder
  <2>3. Len(store[k]) \in Nat
        BY <2>2, SourceKeys, ChainFacts DEF StoreInv
  <2>4. QED
        BY <1>1, <1>2, <2>1, <2>3 DEF ReadsOn
<1>6. HasSources(x)'
      BY <1>2 DEF HasSources
<1>7. QED
      BY <1>3, <1>4, <1>5, <1>6 DEF TxnInv

LEMMA WaitKeeps ==
    ASSUME TxnType, StoreType, StoreInv, NEW x \in Writers, Open(x), TxnInv(x), Wait(x)
    PROVE  TxnInv(x)'
<1>1. /\ txn[x] \in Transaction
      /\ txn'[x] = [txn[x] EXCEPT !.waiting = Len(store[Target(x)])]
      /\ txn[x].phase \in {"upsert", "write"}
      /\ UNCHANGED store
      BY TxnFacts, WaitDoes DEF Wait
<1>2. /\ txn'[x].phase = txn[x].phase /\ txn'[x].before = txn[x].before
      /\ txn'[x].minutes = txn[x].minutes /\ txn'[x].affected = txn[x].affected
      /\ txn'[x].sources = txn[x].sources /\ txn'[x].staged = txn[x].staged
      /\ txn'[x].changed = txn[x].changed /\ txn'[x].derived = txn[x].derived
      BY <1>1 DEF Transaction
<1>3. WritesOn(x)' /\ WindowsHaveSources(x)'
      BY <1>1, <1>2, WritesKept
<1>4. InOrder(x)'
      BY <1>1, <1>2 DEF TxnInv, InOrder
<1>5. Minute(x)' = Minute(x)
      BY <1>2 DEF Minute
<1>6. ReadsOn(x)'
      BY <1>1, <1>2, <1>5 DEF TxnInv, ReadsOn
<1>7. HasSources(x)'
  <2>1. \A k : Seen(x, k)' = Seen(x, k)
        BY <1>1, <1>2, SeenKept
  <2>2. SUFFICES ASSUME txn[x].phase = "write"
                 PROVE  HasSources(x)'
        BY <1>2 DEF HasSources
  <2> DEFINE w == First(txn[x].affected)
  <2> DEFINE sources == txn[x].sources
  <2>3. First(txn'[x].affected) = w /\ txn'[x].sources = sources
        BY <1>2
  <2>4. /\ DOMAIN sources \subseteq MinutesOf(w)
        /\ \A m \in DOMAIN sources : sources[m] \in 1 .. Len(Seen(x, Source(m)))
        /\ \A m \in MinutesOf(w) : Source(m) \in DOMAIN txn[x].staged =>
              m \in DOMAIN sources /\ sources[m] = Len(txn[x].staged[Source(m)])
        BY <2>2 DEF TxnInv, HasSources
  <2>5. \A m \in DOMAIN sources : sources[m] \in 1 .. Len(Seen(x, Source(m))')
        BY <2>1, <2>4
  <2>6. \A m \in MinutesOf(w) : Source(m) \in DOMAIN txn'[x].staged =>
              m \in DOMAIN sources /\ sources[m] = Len(txn'[x].staged[Source(m)])
        BY <1>2, <2>4
  <2>7. QED
        BY <2>3, <2>4, <2>5, <2>6 DEF HasSources
<1>8. QED
      BY <1>3, <1>4, <1>6, <1>7 DEF TxnInv

\* What a transaction reads of the sources of a window.
LEMMA SourcesRead ==
    ASSUME TxnType, StoreInv, NEW x \in Writers, Open(x), WritesOn(x), NEW w \in Windows
    PROVE  LET sources == SourcesOf(x, w)
           IN  /\ DOMAIN sources \subseteq MinutesOf(w)
               /\ \A m \in MinutesOf(w) : m \in DOMAIN sources <=> Len(Seen(x, Source(m))) > 0
               /\ \A m \in DOMAIN sources : /\ sources[m] = Len(Seen(x, Source(m)))
                                            /\ sources[m] \in 1 .. Len(Seen(x, Source(m)))
<1>1. \A m \in MinutesOf(w) : /\ Len(Seen(x, Source(m))) \in Nat
                              /\ IsComplete(Seen(x, Source(m))) <=> Len(Seen(x, Source(m))) > 0
  <2>1. TAKE m \in MinutesOf(w)
  <2>2. Source(m) \in Sources /\ Source(m) \in Keys
        BY WholeWindow, SourceKeys
  <2>3. Chain(Source(m), Seen(x, Source(m))) /\ Len(Seen(x, Source(m))) \in Nat
        BY <2>2, SeenFacts
  <2>4. QED
        BY <2>2, <2>3, SourceIsComplete
<1>2. QED
      BY <1>1 DEF SourcesOf

LEMMA ReadSourcesKeeps ==
    ASSUME TxnType, StoreType, StoreInv, NEW x \in Writers, Open(x), TxnInv(x), ReadSources(x)
    PROVE  TxnInv(x)'
<1> DEFINE w == First(txn[x].affected)
<1>1. /\ txn[x] \in Transaction
      /\ txn'[x] = [txn[x] EXCEPT !.sources = SourcesOf(x, w), !.phase = "write"]
      /\ txn[x].phase = "sources"
      /\ w \in Windows
      /\ UNCHANGED store
      BY TxnFacts, ReadSourcesDoes DEF ReadSources
<1>2. /\ txn'[x].phase = "write" /\ txn'[x].sources = SourcesOf(x, w)
      /\ txn'[x].minutes = txn[x].minutes /\ txn'[x].affected = txn[x].affected
      /\ txn'[x].staged = txn[x].staged /\ txn'[x].waiting = txn[x].waiting
      /\ txn'[x].changed = txn[x].changed /\ txn'[x].derived = txn[x].derived
      BY <1>1 DEF Transaction
<1>3. WritesOn(x)' /\ WindowsHaveSources(x)'
      BY <1>1, <1>2, WritesKept
<1>4. InOrder(x)'
      BY <1>1, <1>2 DEF TxnInv, InOrder
<1>5. ReadsOn(x)'
      BY <1>2 DEF ReadsOn
<1>6. HasSources(x)'
  <2>1. /\ DOMAIN SourcesOf(x, w) \subseteq MinutesOf(w)
        /\ \A m \in MinutesOf(w) : m \in DOMAIN SourcesOf(x, w) <=> Len(Seen(x, Source(m))) > 0
        /\ \A m \in DOMAIN SourcesOf(x, w) :
              /\ SourcesOf(x, w)[m] = Len(Seen(x, Source(m)))
              /\ SourcesOf(x, w)[m] \in 1 .. Len(Seen(x, Source(m)))
        BY <1>1, SourcesRead DEF TxnInv
  <2>2. ASSUME NEW m \in MinutesOf(w), Source(m) \in DOMAIN txn[x].staged
        PROVE  m \in DOMAIN SourcesOf(x, w) /\ SourcesOf(x, w)[m] = Len(txn[x].staged[Source(m)])
    <3>1. Source(m) \in Sources /\ Source(m) \in Keys
          BY <1>1, WholeWindow, SourceKeys
    <3>2. txn[x].staged[Source(m)] # <<>> /\ Chain(Source(m), txn[x].staged[Source(m)])
          BY <2>2, <3>1 DEF TxnInv, WritesOn
    <3>3. Len(txn[x].staged[Source(m)]) > 0
          BY <3>1, <3>2, ChainFacts
    <3>4. Seen(x, Source(m)) = txn[x].staged[Source(m)]
          BY <2>2 DEF Seen
    <3>5. QED
          BY <2>1, <2>2, <3>3, <3>4
  <2>3. \A k : Seen(x, k)' = Seen(x, k)
        BY <1>1, <1>2, SeenKept
  <2>4. First(txn'[x].affected) = w
        BY <1>2
  <2> HIDE DEF w
  <2>5. QED
        BY <1>2, <2>1, <2>2, <2>3, <2>4 DEF HasSources
<1>7. QED
      BY <1>3, <1>4, <1>5, <1>6 DEF TxnInv

\* The source counts as changed exactly when it has a revision more.
LEMMA CountsIfLonger ==
    ASSUME TxnType, StoreInv, NEW x \in Writers, Open(x), TxnInv(x), txn[x].phase = "upsert"
    PROVE  LET k == Source(Minute(x))
               revisions == UpsertSource(store[k], x)
           IN  Len(revisions) # txn[x].before => Len(revisions) > Len(store[k])
<1> DEFINE k == Source(Minute(x))
           revisions == UpsertSource(store[k], x)
<1>1. k \in Sources /\ k \in Keys
      BY TargetFacts, SourceKeys DEF TxnInv
<1>2. /\ Chain(k, revisions) /\ KeptAll(store[k], revisions)
      /\ revisions # <<>> /\ Current(revisions).values = x
      /\ Len(revisions) \in Nat
      /\ Len(revisions) = Len(store[k]) => revisions = store[k]
      BY <1>1, UpsertGrows DEF StoreInv
<1>3. Len(revisions) >= Len(store[k]) /\ Len(store[k]) \in Nat
      BY <1>1, <1>2, ChainFacts DEF KeptAll, StoreInv
<1>4. /\ txn[x].before <= Len(store[k]) /\ txn[x].before \in Nat
      /\ \A i \in 1 .. Len(store[k]) : i > txn[x].before => store[k][i].values # x
      BY TxnFacts DEF TxnInv, ReadsOn, Transaction
<1>5. ASSUME Len(revisions) = Len(store[k]) PROVE Len(revisions) = txn[x].before
  <2>1. revisions = store[k] /\ Len(store[k]) > 0
        BY <1>1, <1>2, <1>5, ChainFacts
  <2>2. store[k][Len(store[k])].values = x
        BY <1>2, <2>1 DEF Current
  <2>3. Len(store[k]) \in 1 .. Len(store[k])
        BY <1>3, <2>1
  <2>4. ~(Len(store[k]) > txn[x].before)
        BY <1>4, <2>2, <2>3
  <2>5. QED
        BY <1>3, <1>4, <1>5, <2>4
<1>6. QED
      BY <1>2, <1>3, <1>5

LEMMA WriteSourceKeeps ==
    ASSUME TxnType, StoreType, StoreInv, NEW x \in Writers, Open(x), TxnInv(x), WriteSource(x)
    PROVE  TxnInv(x)'
<1> DEFINE m == Minute(x)
           k == Source(m)
           revisions == UpsertSource(store[k], x)
           counts == Len(revisions) # txn[x].before
           affected == IF counts THEN txn[x].affected \cup {Hour(m), FourHour(m)}
                       ELSE txn[x].affected
           changed == IF counts THEN txn[x].changed \cup {k} ELSE txn[x].changed
<1>1. /\ txn'[x].phase = NextPhase(txn[x].minutes \ {m}, affected)
      /\ txn'[x].minutes = txn[x].minutes \ {m}
      /\ txn'[x].affected = affected
      /\ txn'[x].staged = Stage(x, k, revisions)
      /\ txn'[x].waiting = -1
      /\ txn'[x].changed = changed
      /\ txn'[x].derived = txn[x].derived
      /\ txn[x].phase = "upsert"
      /\ UNCHANGED store
      BY WriteSourceDoes DEF WriteSource
<1>2. /\ k \in Sources /\ k \in Keys /\ k \notin Windows /\ k.open = m
      /\ k \notin DOMAIN txn[x].staged
      /\ m \in txn[x].minutes /\ m \in Minutes
      /\ \A n \in txn[x].minutes \ {m} : m < n
      BY <1>1, TargetFacts, SourceKeys DEF TxnInv
<1>3. /\ Chain(k, revisions) /\ KeptAll(store[k], revisions)
      /\ revisions # <<>> /\ Current(revisions).values = x
      /\ Len(revisions) <= Len(store[k]) + 1
      BY <1>2, UpsertGrows DEF StoreInv
<1>4. counts => Len(revisions) > Len(store[k])
      BY <1>1, CountsIfLonger
<1> HIDE DEF revisions
<1>5. /\ DOMAIN txn'[x].staged = DOMAIN txn[x].staged \cup {k}
      /\ txn'[x].staged[k] = revisions
      /\ \A d \in DOMAIN txn[x].staged : d # k => txn'[x].staged[d] = txn[x].staged[d]
  <2>1. txn'[x].staged = Stage(x, k, revisions)
        BY <1>1
  <2>2. DOMAIN Stage(x, k, revisions) = DOMAIN txn[x].staged \cup {k}
        BY DEF Stage
  <2>3. Stage(x, k, revisions)[k] = revisions
        BY DEF Stage
  <2>4. \A d \in DOMAIN txn[x].staged :
              d # k => Stage(x, k, revisions)[d] = txn[x].staged[d]
        BY DEF Stage
  <2>5. QED
        BY <2>1, <2>2, <2>3, <2>4
<1>6. /\ Hour(m) \in Windows /\ m \in MinutesOf(Hour(m))
      /\ FourHour(m) \in Windows /\ m \in MinutesOf(FourHour(m))
      BY <1>2, WindowsOfMinute
<1>7. DOMAIN txn[x].staged \cap Windows = {}
      BY <1>2 DEF TxnInv, InOrder
<1>8. counts => k \in changed
      OBVIOUS
<1>9. txn[x].changed \subseteq changed /\ changed \subseteq txn[x].changed \cup {k}
      OBVIOUS
<1>10. /\ txn[x].affected \subseteq affected
       /\ counts => affected = txn[x].affected \cup {Hour(m), FourHour(m)}
       /\ ~counts => affected = txn[x].affected
      OBVIOUS
<1>11. ~counts => changed = txn[x].changed
      OBVIOUS
<1>12. k = Source(m)
      OBVIOUS
<1> HIDE DEF m, k, counts, affected, changed
<1>13. InOrder(x)'
      BY <1>1, <1>2, <1>5, <1>7 DEF TxnInv, InOrder, NextPhase
<1>14. WritesOn(x)'
  <2>1. ASSUME NEW d \in DOMAIN txn'[x].staged
        PROVE  /\ Chain(d, txn'[x].staged[d])
               /\ KeptAll(store[d], txn'[x].staged[d])
               /\ d \in Sources => /\ txn'[x].staged[d] # <<>>
                                   /\ Current(txn'[x].staged[d]).values = x
                                   /\ Len(txn'[x].staged[d]) <= Len(store[d]) + 1
    <3>1. CASE d = k
          BY <3>1, <1>3, <1>5
    <3>2. CASE d # k
          BY <3>2, <1>5 DEF TxnInv, WritesOn
    <3>3. QED
          BY <3>1, <3>2
  <2>2. changed \cup txn[x].derived \subseteq DOMAIN txn'[x].staged
        BY <1>5, <1>9 DEF TxnInv, WritesOn
  <2>3. ASSUME NEW d \in changed PROVE Len(txn'[x].staged[d]) > Len(store[d])
    <3>1. CASE d \in txn[x].changed
          BY <3>1, <1>2, <1>5 DEF TxnInv, WritesOn
    <3>2. CASE d \notin txn[x].changed
          BY <3>2, <1>4, <1>5, <1>9, <1>11
    <3>3. QED
          BY <3>1, <3>2
  <2>4. \A d \in txn[x].derived : IsComplete(txn'[x].staged[d])
        BY <1>2, <1>5 DEF TxnInv, WritesOn
  <2>5. ASSUME NEW w \in affected \cup (DOMAIN txn'[x].staged \cap Windows)
        PROVE  \E n \in MinutesOf(w) : Source(n) \in changed
    <3>1. w \in affected
          BY <1>2, <1>5, <1>7
    <3>2. CASE w \in txn[x].affected
          BY <3>2, <1>9 DEF TxnInv, WritesOn
    <3>3. CASE w \notin txn[x].affected
          BY <3>1, <3>3, <1>6, <1>8, <1>10, <1>12
    <3>4. QED
          BY <3>2, <3>3
  <2>6. QED
        BY <1>1, <2>1, <2>2, <2>3, <2>4, <2>5 DEF WritesOn
<1>15. ReadsOn(x)' /\ HasSources(x)'
      BY <1>1 DEF ReadsOn, HasSources, NextPhase
<1>16. WindowsHaveSources(x)'
      BY <1>2, <1>5, <1>7 DEF WindowsHaveSources
<1>17. QED
      BY <1>13, <1>14, <1>15, <1>16 DEF TxnInv

LEMMA WriteWindowKeeps ==
    ASSUME TxnType, StoreType, StoreInv, NEW x \in Writers, Open(x), TxnInv(x), WriteWindow(x)
    PROVE  TxnInv(x)'
<1> DEFINE w == First(txn[x].affected)
           sources == txn[x].sources
           revisions == Rebuilt(store[w], w, sources)
           rest == txn[x].affected \ {w}
           derived == IF IsComplete(revisions) THEN txn[x].derived \cup {w} ELSE txn[x].derived
           all == DOMAIN sources = MinutesOf(w)
<1>1. /\ txn'[x].phase = NextPhase({}, rest)
      /\ txn'[x].minutes = {}
      /\ txn'[x].affected = rest
      /\ txn'[x].staged = Stage(x, w, revisions)
      /\ txn'[x].waiting = -1
      /\ txn'[x].changed = txn[x].changed
      /\ txn'[x].derived = derived
      /\ txn[x].phase = "write"
      /\ UNCHANGED store
      BY WriteWindowDoes DEF WriteWindow
<1>2. /\ w \in Windows /\ w \in Keys /\ w \notin Sources
      /\ w \notin DOMAIN txn[x].staged
      /\ txn[x].minutes = {}
      /\ w \in txn[x].affected
      /\ \A v \in rest : Before(w, v)
      BY <1>1, TargetFacts, SourceKeys DEF TxnInv
<1>3. /\ sources \in Picked /\ DOMAIN sources \subseteq MinutesOf(w)
      /\ \A m \in DOMAIN sources : sources[m] \in 1 .. Len(Seen(x, Source(m)))
      BY <1>1, TxnFacts DEF TxnInv, HasSources, Transaction
<1>4. /\ Chain(w, revisions) /\ KeptAll(store[w], revisions)
      /\ \A i \in 1 .. Len(revisions) :
            \/ /\ i \in 1 .. Len(store[w])
               /\ revisions[i].values = store[w][i].values
               /\ revisions[i].status = "incomplete" <=> store[w][i].status = "incomplete"
            \/ /\ revisions[i].values = sources
               /\ revisions[i].status = IF all THEN "complete" ELSE "incomplete"
      BY <1>2, <1>3, RebuiltGrows DEF StoreInv
<1> HIDE DEF revisions
<1>5. /\ DOMAIN txn'[x].staged = DOMAIN txn[x].staged \cup {w}
      /\ txn'[x].staged[w] = revisions
      /\ \A d \in DOMAIN txn[x].staged : d # w => txn'[x].staged[d] = txn[x].staged[d]
  <2>1. txn'[x].staged = Stage(x, w, revisions)
        BY <1>1
  <2>2. DOMAIN Stage(x, w, revisions) = DOMAIN txn[x].staged \cup {w}
        BY DEF Stage
  <2>3. Stage(x, w, revisions)[w] = revisions
        BY DEF Stage
  <2>4. \A d \in DOMAIN txn[x].staged :
              d # w => Stage(x, w, revisions)[d] = txn[x].staged[d]
        BY DEF Stage
  <2>5. QED
        BY <2>1, <2>2, <2>3, <2>4
<1>6. /\ IsComplete(revisions) => derived = txn[x].derived \cup {w}
      /\ ~IsComplete(revisions) => derived = txn[x].derived
      OBVIOUS
<1> HIDE DEF w, rest, derived, sources, all
<1>7. InOrder(x)'
  <2>1. rest \subseteq txn[x].affected
        BY DEF rest
  <2>2. QED
        BY <1>1, <1>2, <1>5, <2>1 DEF TxnInv, InOrder, NextPhase
<1>8. WritesOn(x)'
  <2>1. ASSUME NEW d \in DOMAIN txn'[x].staged
        PROVE  /\ Chain(d, txn'[x].staged[d])
               /\ KeptAll(store[d], txn'[x].staged[d])
               /\ d \in Sources => /\ txn'[x].staged[d] # <<>>
                                   /\ Current(txn'[x].staged[d]).values = x
                                   /\ Len(txn'[x].staged[d]) <= Len(store[d]) + 1
    <3>1. CASE d = w
          BY <3>1, <1>2, <1>4, <1>5
    <3>2. CASE d # w
          BY <3>2, <1>5 DEF TxnInv, WritesOn
    <3>3. QED
          BY <3>1, <3>2
  <2>2. txn[x].changed \cup derived \subseteq DOMAIN txn'[x].staged
        BY <1>5, <1>6 DEF TxnInv, WritesOn
  <2>3. \A d \in txn[x].changed : Len(txn'[x].staged[d]) > Len(store[d])
        BY <1>2, <1>5 DEF TxnInv, WritesOn
  <2>4. ASSUME NEW d \in derived PROVE IsComplete(txn'[x].staged[d])
    <3>1. CASE d \in txn[x].derived
          BY <3>1, <1>2, <1>5 DEF TxnInv, WritesOn
    <3>2. CASE d \notin txn[x].derived
          BY <3>2, <1>5, <1>6
    <3>3. QED
          BY <3>1, <3>2
  <2>5. \A v \in rest \cup (DOMAIN txn'[x].staged \cap Windows) :
           v \in txn[x].affected \cup (DOMAIN txn[x].staged \cap Windows)
        BY <1>2, <1>5 DEF rest
  <2>6. \A v \in rest \cup (DOMAIN txn'[x].staged \cap Windows) :
           \E n \in MinutesOf(v) : Source(n) \in txn[x].changed
        BY <2>5 DEF TxnInv, WritesOn
  <2>7. QED
        BY <1>1, <2>1, <2>2, <2>3, <2>4, <2>6 DEF WritesOn
<1>9. ReadsOn(x)' /\ HasSources(x)'
      BY <1>1 DEF ReadsOn, HasSources, NextPhase
<1>10. WindowsHaveSources(x)'
  <2>1. ASSUME NEW v \in Windows PROVE Known(x, v)' = Known(x, v)
    <3>1. ASSUME NEW m \in MinutesOf(v) PROVE Seen(x, Source(m))' = Seen(x, Source(m))
      <4>1. Source(m) # w
            BY <1>2, WholeWindow
      <4>2. QED
            BY <1>1, <1>5, <4>1 DEF Seen
    <3>2. QED
          BY <3>1, KnownKept
  <2>2. ASSUME NEW i \in 1 .. Len(revisions) PROVE RowHolds(w, revisions[i], Known(x, w))
    <3>1. CASE /\ i \in 1 .. Len(store[w])
               /\ revisions[i].values = store[w][i].values
               /\ revisions[i].status = "incomplete" <=> store[w][i].status = "incomplete"
      <4>1. RowHolds(w, store[w][i], Known(x, w))
            BY <1>2, <3>1, CommittedHolds DEF TxnInv
      <4>2. QED
            BY <3>1, <4>1 DEF RowHolds
    <3>2. CASE /\ revisions[i].values = sources
               /\ revisions[i].status = IF all THEN "complete" ELSE "incomplete"
          BY <3>2, <1>3 DEF RowHolds, Known, all
    <3>3. QED
          BY <1>4, <3>1, <3>2
  <2>3. ASSUME NEW v \in DOMAIN txn'[x].staged \cap Windows, NEW i \in 1 .. Len(txn'[x].staged[v])
        PROVE  RowHolds(v, txn'[x].staged[v][i], Known(x, v))
    <3>1. CASE v = w
          BY <3>1, <1>5, <2>2, <2>3
    <3>2. CASE v # w
          BY <3>2, <1>5, <2>3 DEF TxnInv, WindowsHaveSources
    <3>3. QED
          BY <3>1, <3>2
  <2>4. QED
        BY <2>1, <2>3 DEF WindowsHaveSources
<1>11. QED
      BY <1>7, <1>8, <1>9, <1>10 DEF TxnInv

-----------------------------------------------------------------------------
(***************************************************************************)
(* What a commit does to the store, and to the transactions still open.    *)
(***************************************************************************)

LEMMA CommitDoes ==
    ASSUME TxnType, StoreInv, NEW x \in Writers, Open(x), TxnInv(x), Commit(x)
    PROVE  /\ DOMAIN store' = Keys
           /\ \A k \in Keys : /\ store'[k] = Seen(x, k)
                              /\ Chain(k, store'[k])
                              /\ KeptAll(store[k], store'[k])
                              /\ Len(store[k]) \in Nat /\ Len(store'[k]) \in Nat
                              /\ Len(store[k]) <= Len(store'[k])
                              /\ k \notin DOMAIN txn[x].staged => store'[k] = store[k]
<1>1. store' = [k \in Keys |-> Seen(x, k)]
      BY DEF Commit
<1>2. ASSUME NEW k \in Keys
      PROVE  /\ Chain(k, Seen(x, k)) /\ KeptAll(store[k], Seen(x, k))
             /\ Len(store[k]) \in Nat /\ Len(Seen(x, k)) \in Nat
             /\ Len(store[k]) <= Len(Seen(x, k))
             /\ k \notin DOMAIN txn[x].staged => Seen(x, k) = store[k]
  <2>1. Chain(k, Seen(x, k)) /\ Len(store[k]) \in Nat /\ Len(Seen(x, k)) \in Nat
        BY SeenFacts DEF TxnInv
  <2>2. Len(store[k]) <= Len(Seen(x, k))
        BY <2>1, SeenFacts DEF TxnInv
  <2>3. KeptAll(store[k], Seen(x, k))
        BY Unchanged DEF Seen, TxnInv, WritesOn, StoreInv
  <2>4. QED
        BY <2>1, <2>2, <2>3 DEF Seen
<1>3. QED
      BY <1>1, <1>2

LEMMA StoreStaysTyped ==
    ASSUME TxnType, StoreInv, NEW x \in Writers, Open(x), TxnInv(x), Commit(x)
    PROVE  StoreType' /\ StoreInv'
<1>1. \A k \in Keys : store'[k] = Seen(x, k) /\ Chain(k, store'[k])
      BY CommitDoes
<1>2. store' = [k \in Keys |-> Seen(x, k)]
      BY DEF Commit
<1>3. \A k \in Keys : Seen(x, k) \in Seq(SourceRow \cup WindowRow)
  <2>1. TAKE k \in Keys
  <2>2. Seen(x, k) \in Seq(RowsOf(k)) /\ RowsOf(k) \subseteq SourceRow \cup WindowRow
        BY <1>1, RowTypes DEF Chain
  <2>3. QED
        BY <2>2
<1>4. StoreType'
      BY <1>2, <1>3 DEF StoreType
<1>5. ASSUME NEW w \in Windows PROVE Committed(w)' = Known(x, w)
  <2>1. \A m \in MinutesOf(w) : store'[Source(m)] = Seen(x, Source(m))
        BY <1>1, WholeWindow, SourceKeys
  <2>2. QED
        BY <2>1 DEF Committed, Known
<1>6. ASSUME NEW w \in Windows, NEW i \in 1 .. Len(store'[w])
      PROVE  RowHolds(w, store'[w][i], Known(x, w))
  <2>1. store'[w] = Seen(x, w)
        BY <1>1, SourceKeys
  <2>2. CASE w \in DOMAIN txn[x].staged
        BY <1>6, <2>1, <2>2 DEF Seen, TxnInv, WindowsHaveSources
  <2>3. CASE w \notin DOMAIN txn[x].staged
        BY <1>6, <2>1, <2>3, CommittedHolds DEF Seen, TxnInv
  <2>4. QED
        BY <2>2, <2>3
<1>7. StoreInv'
      BY <1>1, <1>5, <1>6 DEF StoreInv
<1>8. QED
      BY <1>4, <1>7

\* A commit adds no revision of another writer's, but its own.
LEMMA CommittedByX ==
    ASSUME TxnType, StoreInv, NEW x \in Writers, Open(x), TxnInv(x), Commit(x),
           NEW k \in Sources, NEW i \in 1 .. Len(store'[k])
    PROVE  \/ i \in 1 .. Len(store[k]) /\ store'[k][i].values = store[k][i].values
           \/ i > Len(store[k]) /\ store'[k][i].values = x
<1>1. /\ k \in Keys /\ store'[k] = Seen(x, k)
      /\ KeptAll(store[k], store'[k])
      /\ Len(store[k]) \in Nat /\ Len(store'[k]) \in Nat
      /\ k \notin DOMAIN txn[x].staged => store'[k] = store[k]
      BY CommitDoes, SourceKeys
<1>2. CASE i <= Len(store[k])
  <2>1. i \in 1 .. Len(store[k])
        BY <1>1, <1>2
  <2>2. store[k][i] \in SourceRow
        BY <1>1, <2>1, ChainFacts, RowTypes DEF StoreInv
  <2>3. store[k][i].status # "incomplete"
        BY <2>2 DEF SourceRow
  <2>4. Kept(store[k][i], store'[k][i])
        BY <1>1, <2>1 DEF KeptAll
  <2>5. QED
        BY <2>1, <2>3, <2>4 DEF Kept, Row
<1>3. CASE i > Len(store[k])
  <2>1. k \in DOMAIN txn[x].staged /\ store'[k] = txn[x].staged[k]
        BY <1>1, <1>3 DEF Seen
  <2>2. Len(store'[k]) <= Len(store[k]) + 1 /\ Current(store'[k]).values = x
        BY <2>1 DEF TxnInv, WritesOn
  <2>3. i = Len(store'[k])
        BY <1>1, <1>3, <2>2
  <2>4. QED
        BY <1>3, <2>2, <2>3 DEF Current
<1>4. QED
      BY <1>1, <1>2, <1>3

LEMMA OthersStand ==
    ASSUME TxnType, StoreInv, Exclusive, NEW x \in Writers, Open(x), TxnInv(x), Commit(x),
           NEW y \in Writers, y # x, Open(y), TxnInv(y)
    PROVE  TxnInv(y)'
<1>1. txn'[y] = txn[y]
      BY DEF Commit, TxnType
<1>2. \A k \in Keys : /\ Chain(k, store'[k])
                      /\ Len(store[k]) \in Nat /\ Len(store'[k]) \in Nat
                      /\ Len(store[k]) <= Len(store'[k])
                      /\ k \in DOMAIN txn[y].staged => store'[k] = store[k]
  <2>1. DOMAIN txn[x].staged \cap DOMAIN txn[y].staged = {}
        BY DEF Exclusive
  <2>2. QED
        BY <2>1, CommitDoes
<1>3. DOMAIN txn[y].staged \subseteq Keys
      BY TxnFacts, StagingFacts DEF Transaction
<1>4. ASSUME NEW k \in Keys
      PROVE  /\ Len(Seen(y, k)) \in Nat /\ Len(Seen(y, k)') \in Nat
             /\ Len(Seen(y, k)) <= Len(Seen(y, k)')
             /\ k \in DOMAIN txn[y].staged => Seen(y, k)' = txn[y].staged[k]
  <2>1. Len(Seen(y, k)) \in Nat
        BY SeenFacts DEF TxnInv
  <2>2. CASE k \in DOMAIN txn[y].staged
        BY <1>1, <2>1, <2>2 DEF Seen
  <2>3. CASE k \notin DOMAIN txn[y].staged
        BY <1>1, <1>2, <2>3 DEF Seen
  <2>4. QED
        BY <2>1, <2>2, <2>3
<1>5. Minute(y)' = Minute(y)
      BY <1>1 DEF Minute
<1>6. InOrder(y)'
      BY <1>1 DEF TxnInv, InOrder
<1>7. WritesOn(y)'
  <2>1. \A k \in DOMAIN txn[y].staged : store'[k] = store[k]
        BY <1>2, <1>3
  <2>2. QED
        BY <1>1, <2>1 DEF TxnInv, WritesOn
<1>8. ReadsOn(y)'
  <2>1. SUFFICES ASSUME txn[y].phase = "upsert"
                 PROVE  LET k == Source(Minute(y)) IN
                        /\ txn[y].before <= Len(store'[k])
                        /\ \A i \in 1 .. Len(store'[k]) :
                              i > txn[y].before => store'[k][i].values # y
        BY <1>1, <1>5 DEF ReadsOn
  <2> DEFINE k == Source(Minute(y))
  <2>2. k \in Sources /\ k \in Keys
        BY <2>1, TargetFacts, SourceKeys DEF TxnInv
  <2>3. /\ txn[y].before \in Nat /\ txn[y].before <= Len(store[k])
        /\ \A i \in 1 .. Len(store[k]) : i > txn[y].before => store[k][i].values # y
        BY <2>1, TxnFacts DEF TxnInv, ReadsOn, Transaction
  <2> HIDE DEF k
  <2>4. txn[y].before <= Len(store'[k])
        BY <1>2, <2>2, <2>3
  <2>5. ASSUME NEW i \in 1 .. Len(store'[k]), i > txn[y].before
        PROVE  store'[k][i].values # y
        BY <2>2, <2>3, <2>5, CommittedByX
  <2>6. QED
        BY <2>4, <2>5 DEF k
<1>9. HasSources(y)'
  <2>1. SUFFICES ASSUME txn[y].phase = "write"
                 PROVE  LET w == First(txn[y].affected)
                            sources == txn[y].sources IN
                        /\ DOMAIN sources \subseteq MinutesOf(w)
                        /\ \A m \in DOMAIN sources : sources[m] \in 1 .. Len(Seen(y, Source(m))')
                        /\ \A m \in MinutesOf(w) : Source(m) \in DOMAIN txn[y].staged =>
                              m \in DOMAIN sources /\ sources[m] = Len(txn[y].staged[Source(m)])
        BY <1>1 DEF HasSources
  <2> DEFINE w == First(txn[y].affected)
             sources == txn[y].sources
  <2>2. w \in Windows
        BY <2>1, TargetFacts DEF TxnInv
  <2>3. /\ DOMAIN sources \subseteq MinutesOf(w)
        /\ \A m \in DOMAIN sources : sources[m] \in 1 .. Len(Seen(y, Source(m)))
        /\ \A m \in MinutesOf(w) : Source(m) \in DOMAIN txn[y].staged =>
              m \in DOMAIN sources /\ sources[m] = Len(txn[y].staged[Source(m)])
        BY <2>1 DEF TxnInv, HasSources
  <2> HIDE DEF w, sources
  <2>4. ASSUME NEW m \in DOMAIN sources PROVE sources[m] \in 1 .. Len(Seen(y, Source(m))')
    <3>1. Source(m) \in Keys
          BY <2>2, <2>3, WholeWindow, SourceKeys
    <3>2. QED
          BY <1>4, <2>3, <3>1
  <2>5. QED
        BY <2>3, <2>4 DEF w, sources
<1>10. WindowsHaveSources(y)'
  <2>1. ASSUME NEW w \in DOMAIN txn[y].staged \cap Windows, NEW i \in 1 .. Len(txn[y].staged[w])
        PROVE  RowHolds(w, txn[y].staged[w][i], Known(y, w)')
    <3>1. RowHolds(w, txn[y].staged[w][i], Known(y, w))
          BY DEF TxnInv, WindowsHaveSources
    <3>2. ASSUME NEW m \in MinutesOf(w)
          PROVE  /\ Known(y, w)[m] \in Nat /\ Known(y, w)'[m] \in Nat
                 /\ Known(y, w)[m] <= Known(y, w)'[m]
      <4>1. Source(m) \in Keys
            BY WholeWindow, SourceKeys
      <4>2. Known(y, w)[m] = Len(Seen(y, Source(m))) /\ Known(y, w)'[m] = Len(Seen(y, Source(m))')
            BY DEF Known
      <4>3. QED
            BY <1>4, <4>1, <4>2
    <3>3. QED
          BY <3>1, <3>2, HoldsMore
  <2>2. QED
        BY <1>1, <2>1 DEF WindowsHaveSources
<1>11. QED
      BY <1>6, <1>7, <1>8, <1>9, <1>10 DEF TxnInv

-----------------------------------------------------------------------------
(***************************************************************************)
(* What the stream has announced, and who writes which candle.             *)
(***************************************************************************)

LEMMA DerivedSeen ==
    ASSUME TxnType, NEW x \in Writers, Open(x), WritesOn(x), NEW k \in txn[x].derived
    PROVE  k \in Windows /\ k \in DOMAIN txn[x].staged /\ Seen(x, k) = txn[x].staged[k]
BY TxnFacts DEF Transaction, WritesOn, Seen

LEMMA SentStays ==
    ASSUME TxnType, StoreInv, SentAreCommitted, AnnouncesNew, ConfirmedOnce,
           NEW x \in Writers, Open(x), TxnInv(x), Commit(x)
    PROVE  SentAreCommitted' /\ ConfirmedOnce'
<1>1. /\ \A k \in Keys : /\ store'[k] = Seen(x, k)
                         /\ Chain(k, store'[k])
                         /\ KeptAll(store[k], store'[k])
                         /\ Len(store[k]) \in Nat /\ Len(store'[k]) \in Nat
                         /\ Len(store[k]) <= Len(store'[k])
      /\ txn[x] \in Transaction
      BY CommitDoes, TxnFacts
<1>2. ASSUME NEW s \in sent
      PROVE  /\ s.key \in Keys /\ s.revision \in 1 .. Len(store'[s.key])
             /\ s.key \in Windows => store'[s.key][s.revision].status # "incomplete"
  <2>1. /\ s.key \in Keys /\ s.revision \in 1 .. Len(store[s.key])
        /\ s.key \in Windows => store[s.key][s.revision].status # "incomplete"
        BY DEF SentAreCommitted
  <2>2. s.revision \in 1 .. Len(store'[s.key])
        BY <1>1, <2>1
  <2>3. Kept(store[s.key][s.revision], store'[s.key][s.revision])
        BY <1>1, <2>1 DEF KeptAll
  <2>4. QED
        BY <2>1, <2>2, <2>3 DEF Kept, Row
<1>3. ASSUME x = "live", NEW k \in txn[x].changed \cup txn[x].derived
      PROVE  /\ k \in Keys /\ Len(store'[k]) \in 1 .. Len(store'[k])
             /\ k \in Windows => store'[k][Len(store'[k])].status # "incomplete"
             /\ Revision(x, k) \notin sent
             /\ Revision(x, k) = [key |-> k, revision |-> Len(store'[k])]
  <2>1. k \in Keys /\ k \in DOMAIN txn[x].staged
        BY <1>1, SourceKeys DEF TxnInv, WritesOn, Transaction
  <2>2. store'[k] = txn[x].staged[k] /\ store'[k] = Seen(x, k)
        BY <1>1, <2>1 DEF Seen
  <2>3. Revision(x, k) = [key |-> k, revision |-> Len(store'[k])]
        BY <2>2 DEF Revision
  <2>4. CASE k \in txn[x].changed
    <3>1. k \in Sources /\ k \notin Windows
          BY <1>1, <2>4, SourceKeys DEF Transaction
    <3>2. Len(store'[k]) > Len(store[k])
          BY <2>2, <2>4 DEF TxnInv, WritesOn
    <3>3. Revision(x, k) \notin sent
      <4>1. ASSUME Revision(x, k) \in sent PROVE FALSE
        <5>1. Revision(x, k).revision \in 1 .. Len(store[Revision(x, k).key])
              BY <4>1 DEF SentAreCommitted
        <5>2. Len(store'[k]) \in 1 .. Len(store[k])
              BY <2>3, <5>1
        <5>3. QED
              BY <1>1, <2>1, <3>2, <5>2
      <4>2. QED
            BY <4>1
    <3>4. QED
          BY <1>1, <2>1, <2>3, <3>1, <3>2, <3>3
  <2>5. CASE k \in txn[x].derived
    <3>1. IsComplete(store'[k])
          BY <2>2, <2>5 DEF TxnInv, WritesOn
    <3>2. Len(store'[k]) > 0 /\ store'[k][Len(store'[k])].status = "complete"
          BY <1>1, <2>1, <3>1, ChainFacts DEF IsComplete, Current
    <3>3. Revision(x, k) \notin sent
          BY <1>3, <2>5 DEF AnnouncesNew
    <3>4. QED
          BY <1>1, <2>1, <2>3, <3>2, <3>3
  <2>6. QED
        BY <2>4, <2>5
<1>4. CASE x = "live"
  <2>1. Confirmed(x) = {Revision(x, k) : k \in txn[x].changed \cup txn[x].derived}
        BY <1>4 DEF Confirmed
  <2>2. Confirmed(x) \cap sent = {}
        BY <1>3, <1>4, <2>1
  <2>3. ConfirmedOnce'
        BY <2>2 DEF Commit, ConfirmedOnce
  <2>4. ASSUME NEW s \in Confirmed(x)
        PROVE  /\ s.key \in Keys /\ s.revision \in 1 .. Len(store'[s.key])
               /\ s.key \in Windows => store'[s.key][s.revision].status # "incomplete"
    <3>1. PICK k \in txn[x].changed \cup txn[x].derived : s = Revision(x, k)
          BY <2>1
    <3>2. s.key = k /\ s.revision = Len(store'[k])
          BY <1>3, <1>4, <3>1
    <3>3. QED
          BY <1>3, <1>4, <3>2
  <2>5. sent' = sent \cup Confirmed(x)
        BY DEF Commit
  <2>6. SentAreCommitted'
        BY <1>2, <2>4, <2>5 DEF SentAreCommitted
  <2>7. QED
        BY <2>3, <2>6
<1>5. CASE x # "live"
  <2>1. Confirmed(x) = {}
        BY <1>5 DEF Confirmed
  <2>2. sent' = sent \cup {} /\ twice' = (twice \/ {} \cap sent # {})
        BY <2>1 DEF Commit
  <2>3. sent' = sent /\ ~twice'
        BY <2>2 DEF ConfirmedOnce
  <2>4. QED
        BY <1>2, <2>3 DEF SentAreCommitted, ConfirmedOnce
<1>6. QED
      BY <1>4, <1>5

LEMMA WorkPhases ==
    ASSUME TxnType, NEW x \in Writers, Open(x), WriteSource(x) \/ WriteWindow(x)
    PROVE  txn'[x].phase # "write" /\ txn'[x].phase # "upsert"
<1>1. txn[x] \in Transaction
      BY TxnFacts
<1>2. PICK minutes, affected : txn'[x].phase = NextPhase(minutes, affected)
      BY <1>1 DEF WriteSource, WriteWindow, TxnType, Transaction
<1>3. QED
      BY <1>2, NextPhaseType

\* The stream's own statements announce nothing twice.
LEMMA LiveAnnouncesNew ==
    ASSUME TxnType, StoreType, StoreInv, Open("live"), TxnInv("live"),
           SentAreCommitted, AnnouncesNew, Works("live")
    PROVE  AnnouncesNew'
<1> DEFINE x == "live"
           w == First(txn[x].affected)
<1>1. x \in Writers /\ txn[x] \in Transaction /\ UNCHANGED <<store, sent>>
      BY TxnFacts, WorkChanges DEF Writers
<1>2. \A k \in txn[x].derived : Revision(x, k) \notin sent
      BY DEF AnnouncesNew
<1>3. ASSUME txn'[x].staged = txn[x].staged, txn'[x].derived = txn[x].derived
      PROVE  \A k \in txn'[x].derived : Revision(x, k)' \notin sent
      BY <1>1, <1>2, <1>3, SeenKept DEF Revision
<1>4. CASE ReadRevision(x)
  <2>1. txn'[x] = [txn[x] EXCEPT !.before = Len(store[Source(Minute(x))]), !.phase = "upsert"]
        BY <1>1, <1>4, ReadRevisionDoes
  <2>2. /\ txn'[x].staged = txn[x].staged /\ txn'[x].derived = txn[x].derived
        /\ txn'[x].phase = "upsert"
        BY <1>1, <2>1 DEF Transaction
  <2>3. QED
        BY <1>1, <1>3, <2>2 DEF AnnouncesNew
<1>5. CASE Wait(x)
  <2>1. txn'[x] = [txn[x] EXCEPT !.waiting = Len(store[Target(x)])]
        BY <1>1, <1>5, WaitDoes
  <2>2. /\ txn'[x].staged = txn[x].staged /\ txn'[x].derived = txn[x].derived
        /\ txn'[x].phase = txn[x].phase /\ txn'[x].affected = txn[x].affected
        /\ txn'[x].sources = txn[x].sources
        BY <1>1, <2>1 DEF Transaction
  <2>3. QED
        BY <1>1, <1>3, <2>2 DEF AnnouncesNew
<1>6. CASE ReadSources(x)
  <2>1. /\ txn'[x] = [txn[x] EXCEPT !.sources = SourcesOf(x, w), !.phase = "write"]
        /\ w \in Windows
        BY <1>1, <1>6, ReadSourcesDoes
  <2>2. /\ txn'[x].staged = txn[x].staged /\ txn'[x].derived = txn[x].derived
        /\ txn'[x].affected = txn[x].affected /\ txn'[x].sources = SourcesOf(x, w)
        BY <1>1, <2>1 DEF Transaction
  <2>3. ASSUME NEW s \in sent, s.key = w PROVE DOMAIN SourcesOf(x, w) = MinutesOf(w)
    <3>1. /\ s.revision \in 1 .. Len(store[w])
          /\ store[w][s.revision].status # "incomplete"
          BY <2>1, <2>3 DEF SentAreCommitted
    <3>2. RowHolds(w, store[w][s.revision], Committed(w))
          BY <2>1, <3>1 DEF StoreInv
    <3>3. ASSUME NEW m \in MinutesOf(w) PROVE Len(Seen(x, Source(m))) > 0
      <4>1. store[w][s.revision].values[m] \in 1 .. Len(store[Source(m)])
            BY <3>1, <3>2 DEF RowHolds, Committed
      <4>2. Source(m) \in Keys
            BY <2>1, WholeWindow, SourceKeys
      <4>3. /\ Len(Seen(x, Source(m))) \in Nat /\ Len(store[Source(m)]) \in Nat
            /\ Len(Seen(x, Source(m))) >= Len(store[Source(m)])
            BY <1>1, <4>2, SeenFacts DEF TxnInv
      <4>4. QED
            BY <4>1, <4>3
    <3>4. /\ DOMAIN SourcesOf(x, w) \subseteq MinutesOf(w)
          /\ \A m \in MinutesOf(w) : m \in DOMAIN SourcesOf(x, w) <=> Len(Seen(x, Source(m))) > 0
          BY <1>1, <2>1, SourcesRead DEF TxnInv
    <3>5. QED
          BY <3>3, <3>4
  <2>4. QED
        BY <1>1, <1>3, <2>2, <2>3 DEF AnnouncesNew
<1>7. CASE WriteSource(x)
  <2> DEFINE k == Source(Minute(x))
             revisions == UpsertSource(store[k], x)
  <2>1. /\ txn'[x].staged = Stage(x, k, revisions)
        /\ txn'[x].derived = txn[x].derived
        /\ txn[x].phase = "upsert"
        BY <1>1, <1>7, WriteSourceDoes
  <2>2. k \in Sources /\ k \notin Windows
        BY <1>1, <2>1, TargetFacts, SourceKeys DEF TxnInv
  <2>3. txn'[x].phase # "write"
        BY <1>1, <1>7, WorkPhases
  <2> HIDE DEF k, revisions
  <2>4. ASSUME NEW d \in txn[x].derived PROVE Revision(x, d)' = Revision(x, d)
    <3>1. d \in Windows /\ d \in DOMAIN txn[x].staged
          BY <1>1, DerivedSeen DEF TxnInv
    <3>2. d \in DOMAIN txn'[x].staged /\ txn'[x].staged[d] = txn[x].staged[d]
          BY <2>1, <2>2, <3>1 DEF Stage
    <3>3. QED
          BY <3>1, <3>2 DEF Revision, Seen
  <2>5. QED
        BY <1>1, <1>2, <2>1, <2>3, <2>4 DEF AnnouncesNew
<1>8. CASE WriteWindow(x)
  <2> DEFINE revisions == Rebuilt(store[w], w, txn[x].sources)
             all == DOMAIN txn[x].sources = MinutesOf(w)
  <2>1. /\ txn'[x].staged = Stage(x, w, revisions)
        /\ txn'[x].derived =
              IF IsComplete(revisions) THEN txn[x].derived \cup {w} ELSE txn[x].derived
        /\ txn[x].phase = "write"
        BY <1>1, <1>8, WriteWindowDoes
  <2>2. /\ w \in Windows /\ w \in Keys /\ w \notin DOMAIN txn[x].staged
        /\ w \in txn[x].affected
        BY <1>1, <2>1, TargetFacts, SourceKeys DEF TxnInv
  <2>3. /\ txn[x].sources \in Picked /\ DOMAIN txn[x].sources \subseteq MinutesOf(w)
        BY <1>1, <2>1 DEF TxnInv, HasSources, Transaction
  <2>4. /\ Chain(w, revisions) /\ KeptAll(store[w], revisions)
        /\ Len(revisions) \in Nat /\ Len(revisions) > 0
        /\ all => Current(revisions).values = txn[x].sources
        BY <2>2, <2>3, RebuiltGrows DEF StoreInv
  <2>5. ASSUME [key |-> w, revision |-> Len(revisions)] \in sent
        PROVE  FALSE
    <3> DEFINE n == Len(store[w])
    <3>1. /\ Len(revisions) \in 1 .. n
          /\ store[w][Len(revisions)].status # "incomplete"
          BY <2>2, <2>5 DEF SentAreCommitted
    <3>2. n \in Nat /\ Len(revisions) >= n
          BY <2>2, <2>4, ChainFacts DEF KeptAll, StoreInv
    <3>3. Len(revisions) = n /\ n \in 1 .. n
          BY <3>1, <3>2
    <3>4. all
          BY <2>1, <2>5 DEF AnnouncesNew
    <3>5. revisions[n].values = txn[x].sources
          BY <2>4, <3>3, <3>4 DEF Current
    <3>6. store[w][n].status # "incomplete" /\ Kept(store[w][n], revisions[n])
          BY <2>4, <3>1, <3>3 DEF KeptAll
    <3>7. store[w][n].values = txn[x].sources
          BY <3>5, <3>6 DEF Kept, Row
    <3>8. RowHolds(w, store[w][n], Committed(w))
          BY <2>2, <3>3 DEF StoreInv
    <3>9. PICK m \in MinutesOf(w) : Source(m) \in txn[x].changed
          BY <2>2 DEF TxnInv, WritesOn
    <3>10. txn[x].sources[m] \in 1 .. Len(store[Source(m)])
          BY <3>6, <3>7, <3>8 DEF RowHolds, Committed
    <3>11. Source(m) \in Sources /\ Source(m) \in Keys
          BY <2>2, WholeWindow, SourceKeys
    <3>12. /\ Source(m) \in DOMAIN txn[x].staged
           /\ Len(txn[x].staged[Source(m)]) > Len(store[Source(m)])
          BY <3>9 DEF TxnInv, WritesOn
    <3>13. txn[x].sources[m] = Len(txn[x].staged[Source(m)])
          BY <2>1, <3>12 DEF TxnInv, HasSources
    <3>14. Len(store[Source(m)]) \in Nat
          BY <3>11, ChainFacts DEF StoreInv
    <3>15. QED
          BY <3>10, <3>12, <3>13, <3>14
  <2>6. txn'[x].phase # "write"
        BY <1>1, <1>8, WorkPhases
  <2> HIDE DEF w, revisions, all
  <2>7. PICK v \in Windows : v = w
        BY <2>2
  <2>8. v \in DOMAIN txn'[x].staged /\ txn'[x].staged[v] = revisions
        BY <2>1, <2>7 DEF Stage
  <2>9. Revision(x, v)' = [key |-> w, revision |-> Len(revisions)]
        BY <2>7, <2>8 DEF Revision, Seen
  <2>10. ASSUME NEW d \in txn[x].derived PROVE Revision(x, d)' = Revision(x, d)
    <3>1. d \in DOMAIN txn[x].staged
          BY <1>1, DerivedSeen DEF TxnInv
    <3>2. d \in DOMAIN txn'[x].staged /\ txn'[x].staged[d] = txn[x].staged[d]
          BY <2>1, <2>2, <3>1 DEF Stage
    <3>3. QED
          BY <3>1, <3>2 DEF Revision, Seen
  <2>11. ASSUME NEW d \in txn'[x].derived PROVE Revision(x, d)' \notin sent
    <3>1. CASE d \in txn[x].derived
          BY <1>2, <2>10, <3>1
    <3>2. CASE d \notin txn[x].derived
      <4>1. d = v
            BY <2>1, <2>7, <2>11, <3>2
      <4>2. Revision(x, d)' = Revision(x, v)'
            BY <4>1
      <4>3. QED
            BY <2>5, <2>9, <4>2
    <3>3. QED
          BY <3>1, <3>2
  <2>12. QED
        BY <1>1, <2>6, <2>11 DEF AnnouncesNew
<1>9. QED
      BY <1>4, <1>5, <1>6, <1>7, <1>8 DEF Works

LEMMA WorksOnOne ==
    ASSUME TxnType, StoreType, StoreInv, NEW x \in Writers, Open(x), TxnInv(x), Works(x)
    PROVE  /\ txn' = [txn EXCEPT ![x] = txn'[x]]
           /\ txn'[x] \in Transaction
           /\ TxnInv(x)'
           /\ \A y \in Writers \ {x} : txn'[y] = txn[y]
<1>1. /\ txn' = [txn EXCEPT ![x] = txn'[x]]
      /\ txn'[x] \in Transaction
      /\ TxnInv(x)'
  <2>1. CASE ReadRevision(x)
        BY <2>1, ReadRevisionDoes, ReadRevisionKeeps
  <2>2. CASE Wait(x)
        BY <2>2, WaitDoes, WaitKeeps
  <2>3. CASE WriteSource(x)
        BY <2>3, WriteSourceDoes, WriteSourceKeeps
  <2>4. CASE ReadSources(x)
        BY <2>4, ReadSourcesDoes, ReadSourcesKeeps
  <2>5. CASE WriteWindow(x)
        BY <2>5, WriteWindowDoes, WriteWindowKeeps
  <2>6. QED
        BY <2>1, <2>2, <2>3, <2>4, <2>5 DEF Works
<1>2. QED
      BY <1>1 DEF TxnType

\* A candle is written only by one that no other open transaction has written.
LEMMA WritesAlone ==
    ASSUME TxnType, StoreType, StoreInv, NEW x \in Writers, Open(x), TxnInv(x), Works(x)
    PROVE  \A k \in DOMAIN txn'[x].staged : k \in DOMAIN txn[x].staged \/ ~LockedByOther(x, k)
<1>1. txn[x] \in Transaction
      BY TxnFacts
<1>2. CASE ReadRevision(x)
  <2>1. txn'[x] = [txn[x] EXCEPT !.before = Len(store[Source(Minute(x))]), !.phase = "upsert"]
        BY <1>2, ReadRevisionDoes
  <2>2. QED
        BY <1>1, <2>1 DEF Transaction
<1>3. CASE Wait(x)
  <2>1. txn'[x] = [txn[x] EXCEPT !.waiting = Len(store[Target(x)])]
        BY <1>3, WaitDoes
  <2>2. QED
        BY <1>1, <2>1 DEF Transaction
<1>4. CASE ReadSources(x)
  <2>1. txn'[x] = [txn[x] EXCEPT !.sources = SourcesOf(x, First(txn[x].affected)),
                                 !.phase = "write"]
        BY <1>4, ReadSourcesDoes
  <2>2. QED
        BY <1>1, <2>1 DEF Transaction
<1>5. CASE WriteSource(x)
  <2> DEFINE k == Source(Minute(x))
             revisions == UpsertSource(store[k], x)
  <2>1. txn'[x].staged = Stage(x, k, revisions) /\ ~LockedByOther(x, k)
        BY <1>5, WriteSourceDoes
  <2> HIDE DEF k, revisions
  <2>2. DOMAIN txn'[x].staged = DOMAIN txn[x].staged \cup {k}
        BY <2>1 DEF Stage
  <2>3. QED
        BY <2>1, <2>2
<1>6. CASE WriteWindow(x)
  <2> DEFINE w == First(txn[x].affected)
             revisions == Rebuilt(store[w], w, txn[x].sources)
  <2>1. txn'[x].staged = Stage(x, w, revisions) /\ ~LockedByOther(x, w)
        BY <1>6, WriteWindowDoes
  <2> HIDE DEF w, revisions
  <2>2. DOMAIN txn'[x].staged = DOMAIN txn[x].staged \cup {w}
        BY <2>1 DEF Stage
  <2>3. QED
        BY <2>1, <2>2
<1>7. QED
      BY <1>2, <1>3, <1>4, <1>5, <1>6 DEF Works

-----------------------------------------------------------------------------
(***************************************************************************)
(* The invariant holds.                                                    *)
(***************************************************************************)

LEMMA Initially == Init => IInv
<1> SUFFICES ASSUME Init PROVE IInv
    OBVIOUS
<1>1. /\ \A k \in Keys : store[k] = <<>>
      /\ \A x \in Writers : txn[x] = NoTxn /\ ~Open(x)
      /\ sent = {} /\ twice = FALSE /\ plan = {} /\ raced = {}
      BY DEF Init, Open, NoTxn
<1>2. StoreType
      BY DEF Init, StoreType
<1>3. TxnType
      BY DEF Init, TxnType
<1>4. RestType
  <2>1. budget \in [Writers -> 0 .. (MaxLive + MaxRepairs)]
        BY WidthTypes DEF Init
  <2>2. QED
        BY <1>1, <2>1 DEF RestType
<1>5. StoreInv
  <2>1. ASSUME NEW k \in Keys PROVE Chain(k, store[k])
    <3>1. <<>> \in Seq(RowsOf(k)) /\ Len(<<>>) = 0
          BY EmptySeq
    <3>2. 1 .. 0 = {}
          OBVIOUS
    <3>3. QED
          BY <1>1, <3>1, <3>2 DEF Chain
  <2>2. \A w \in Windows : 1 .. Len(store[w]) = {}
        BY <1>1, SourceKeys
  <2>3. QED
        BY <2>1, <2>2 DEF StoreInv
<1>6. SentAreCommitted /\ AnnouncesNew /\ Exclusive /\ ConfirmedOnce
      BY <1>1 DEF SentAreCommitted, AnnouncesNew, Exclusive, ConfirmedOnce, Writers
<1>7. QED
      BY <1>1, <1>2, <1>3, <1>4, <1>5, <1>6 DEF IInv

LEMMA RestStays == IInv /\ [Next]_vars => RestType'
<1> SUFFICES ASSUME IInv, [Next]_vars PROVE RestType'
    OBVIOUS
<1>1. MaxLive + MaxRepairs \in Nat
      BY WidthTypes
<1>2. ASSUME NEW x \in Writers, NEW ms, Begin(x, ms)
      PROVE  /\ budget' \in [Writers -> 0 .. (MaxLive + MaxRepairs)]
             /\ UNCHANGED <<raced, twice>>
      BY <1>1, <1>2 DEF Begin, IInv, RestType
<1>3. "live" \in Writers /\ "reconcile" \in Writers /\ "archive" \in Writers
      BY DEF Writers
<1>4. CASE \E m \in Minutes : ReceiveKline(m)
      BY <1>2, <1>3, <1>4 DEF ReceiveKline, IInv, RestType
<1>5. CASE \E m \in Minutes : PersistPage(m + 1)
      BY <1>2, <1>3, <1>5 DEF PersistPage, IInv, RestType
<1>6. CASE PersistChunk
      BY <1>2, <1>3, <1>6 DEF PersistChunk, IInv, RestType
<1>7. CASE EndDay \/ \E m \in Minutes : PlanRepair(m + 1)
      BY <1>7 DEF EndDay, PlanRepair, IInv, RestType
<1>8. CASE \E x \in Writers : Resolve(x) \/ RollBack(x) \/ Works(x)
      BY <1>8, WorkChanges DEF Resolve, RollBack, IInv, RestType
<1>9. CASE \E x \in Writers : Commit(x)
      BY <1>9 DEF Commit, Contested, Touches, IInv, RestType
<1>10. CASE UNCHANGED vars
      BY <1>10 DEF vars, IInv, RestType
<1>11. QED
      BY <1>4, <1>5, <1>6, <1>7, <1>8, <1>9, <1>10 DEF Next, Works

\* What a step leaves alone when x is the only one whose transaction moves.
LEMMA RestFramed ==
    ASSUME IInv, UNCHANGED <<store, sent, twice>>, TxnType',
           NEW x \in Writers, \A y \in Writers \ {x} : txn'[y] = txn[y],
           Open(x)' => TxnInv(x)',
           Open(x)' => \A k \in DOMAIN txn'[x].staged : ~LockedByOther(x, k),
           x = "live" => AnnouncesNew'
    PROVE  /\ StoreType' /\ StoreInv'
           /\ \A y \in Writers : Open(y)' => TxnInv(y)'
           /\ SentAreCommitted' /\ AnnouncesNew' /\ Exclusive' /\ ConfirmedOnce'
<1>1. StoreType' /\ StoreInv' /\ SentAreCommitted' /\ ConfirmedOnce'
      BY DEF IInv, StoreType, StoreInv, Committed, SentAreCommitted, ConfirmedOnce
<1>2. ASSUME NEW y \in Writers, Open(y)' PROVE TxnInv(y)'
  <2>1. CASE y = x
        BY <1>2, <2>1
  <2>2. CASE y # x
    <3>1. txn'[y] = txn[y]
          BY <2>2
    <3>2. Open(y)
          BY <1>2, <3>1 DEF Open
    <3>3. QED
          BY <3>1, <3>2, Framed DEF IInv
  <2>3. QED
        BY <2>1, <2>2
<1>3. AnnouncesNew'
  <2>1. CASE x # "live"
    <3>1. "live" \in Writers /\ txn'["live"] = txn["live"]
          BY <2>1 DEF Writers
    <3>2. \A k : Revision("live", k)' = Revision("live", k)
          BY <3>1, SeenKept DEF Revision
    <3>3. QED
          BY <3>1, <3>2 DEF AnnouncesNew, IInv, Open
  <2>2. QED
        BY <2>1
<1>4. Exclusive'
  <2>1. ASSUME NEW y \in Writers, NEW z \in Writers, y # z, Open(y)', Open(z)'
        PROVE  DOMAIN txn'[y].staged \cap DOMAIN txn'[z].staged = {}
    <3>1. ASSUME NEW u \in Writers, u # x, Open(u)', Open(x)'
          PROVE  DOMAIN txn'[u].staged \cap DOMAIN txn'[x].staged = {}
      <4>1. txn'[u] = txn[u]
            BY <3>1
      <4>2. Open(u)
            BY <3>1, <4>1 DEF Open
      <4>3. \A k \in DOMAIN txn[u].staged : LockedByOther(x, k)
            BY <3>1, <4>2 DEF LockedByOther
      <4>4. QED
            BY <3>1, <4>1, <4>3
    <3>2. CASE y = x \/ z = x
          BY <2>1, <3>1, <3>2
    <3>3. CASE y # x /\ z # x
      <4>1. txn'[y] = txn[y] /\ txn'[z] = txn[z]
            BY <3>3
      <4>2. Open(y) /\ Open(z)
            BY <2>1, <4>1 DEF Open
      <4>3. QED
            BY <2>1, <4>1, <4>2 DEF IInv, Exclusive
    <3>4. QED
          BY <3>2, <3>3
  <2>2. QED
        BY <2>1 DEF Exclusive
<1>5. QED
      BY <1>1, <1>2, <1>3, <1>4

LEMMA Inductive == IInv /\ [Next]_vars => IInv'
<1> SUFFICES ASSUME IInv, [Next]_vars PROVE IInv'
    OBVIOUS
<1>1. RestType'
      BY RestStays
<1>2. TxnType /\ StoreType /\ StoreInv /\ RestType
      BY DEF IInv
<1>3. ASSUME NEW x \in Writers, Starts(x), UNCHANGED <<store, sent, twice>> PROVE IInv'
  <2>1. PICK ms \in SUBSET Minutes : ms # {} /\ txn' = [txn EXCEPT ![x] = Begun(ms)]
        BY <1>3 DEF Starts
  <2>2. TxnType' /\ txn'[x] = Begun(ms) /\ \A y \in Writers \ {x} : txn'[y] = txn[y]
        BY <1>2, <2>1, BegunType DEF TxnType
  <2>3. /\ txn'[x].phase = "read" /\ txn'[x].minutes # {} /\ txn'[x].affected = {}
        /\ txn'[x].waiting = -1 /\ txn'[x].changed = {} /\ txn'[x].derived = {}
        /\ DOMAIN txn'[x].staged = {}
        BY <2>1, <2>2 DEF Begun
  <2>4. TxnInv(x)'
    <3>1. InOrder(x)'
          BY <2>3 DEF InOrder
    <3>2. WritesOn(x)'
          BY <2>3 DEF WritesOn
    <3>3. ReadsOn(x)' /\ HasSources(x)' /\ WindowsHaveSources(x)'
          BY <2>3 DEF ReadsOn, HasSources, WindowsHaveSources
    <3>4. QED
          BY <3>1, <3>2, <3>3 DEF TxnInv
  <2>5. x = "live" => AnnouncesNew'
        BY <2>3 DEF AnnouncesNew
  <2>6. QED
        BY <1>1, <1>3, <2>2, <2>3, <2>4, <2>5, RestFramed DEF IInv
<1>4. ASSUME NEW x \in Writers, Ends(x), UNCHANGED <<store, sent, twice>> PROVE IInv'
  <2>1. TxnType' /\ txn'[x] = NoTxn /\ \A y \in Writers \ {x} : txn'[y] = txn[y]
        BY <1>2, <1>4 DEF Ends, TxnType
  <2>2. ~Open(x)'
        BY <2>1 DEF Open, NoTxn
  <2>3. x = "live" => AnnouncesNew'
        BY <2>2 DEF AnnouncesNew
  <2>4. QED
        BY <1>1, <1>4, <2>1, <2>2, <2>3, RestFramed DEF IInv
<1>5. ASSUME NEW x \in Writers, Works(x) PROVE IInv'
  <2>1. Open(x) /\ UNCHANGED <<store, sent, twice>>
        BY <1>5, WorkChanges
  <2>2. TxnInv(x)
        BY <2>1 DEF IInv
  <2>3. /\ txn' = [txn EXCEPT ![x] = txn'[x]]
        /\ txn'[x] \in Transaction
        /\ TxnInv(x)'
        /\ \A y \in Writers \ {x} : txn'[y] = txn[y]
        BY <1>2, <1>5, <2>1, <2>2, WorksOnOne
  <2>4. TxnType'
        BY <1>2, <2>3 DEF TxnType
  <2>5. ASSUME NEW k \in DOMAIN txn'[x].staged PROVE ~LockedByOther(x, k)
    <3>1. CASE k \in DOMAIN txn[x].staged
          BY <2>1, <3>1 DEF IInv, Exclusive, LockedByOther
    <3>2. CASE k \notin DOMAIN txn[x].staged
          BY <1>2, <1>5, <2>1, <2>2, <3>2, WritesAlone
    <3>3. QED
          BY <3>1, <3>2
  <2>6. x = "live" => AnnouncesNew'
        BY <1>5, <2>1, <2>2, LiveAnnouncesNew DEF IInv
  <2>7. QED
        BY <1>1, <2>1, <2>3, <2>4, <2>5, <2>6, RestFramed DEF IInv
<1>6. ASSUME NEW x \in Writers, Commit(x) PROVE IInv'
  <2>1. Open(x)
        BY <1>6 DEF Commit, Open
  <2>2. TxnInv(x)
        BY <2>1 DEF IInv
  <2>3. TxnType' /\ txn'[x] = NoTxn /\ \A y \in Writers \ {x} : txn'[y] = txn[y]
        BY <1>2, <1>6 DEF Commit, TxnType
  <2>4. ~Open(x)'
        BY <2>3 DEF Open, NoTxn
  <2>5. StoreType' /\ StoreInv'
        BY <1>2, <1>6, <2>1, <2>2, StoreStaysTyped
  <2>6. SentAreCommitted' /\ ConfirmedOnce'
        BY <1>6, <2>1, <2>2, SentStays DEF IInv
  <2>7. ASSUME NEW y \in Writers, Open(y)' PROVE Open(y) /\ y # x /\ TxnInv(y) /\ TxnInv(y)'
    <3>1. y # x
          BY <2>4, <2>7
    <3>2. Open(y)
          BY <2>3, <2>7, <3>1 DEF Open
    <3>3. TxnInv(y) /\ Exclusive
          BY <3>2 DEF IInv
    <3>4. QED
          BY <1>2, <1>6, <2>1, <2>2, <3>1, <3>2, <3>3, OthersStand
  <2>8. AnnouncesNew'
    <3>1. SUFFICES ASSUME Open("live")' PROVE AnnouncesNew'
          BY DEF AnnouncesNew
    <3> DEFINE y == "live"
    <3>2. y \in Writers
          BY DEF Writers
    <3>3. Open(y) /\ y # x /\ TxnInv(y) /\ txn'[y] = txn[y]
          BY <2>3, <2>7, <3>1, <3>2
    <3>4. sent' = sent
      <4>1. Confirmed(x) = {}
            BY <3>3 DEF Confirmed
      <4>2. QED
            BY <1>6, <4>1 DEF Commit
    <3>5. ASSUME NEW k \in txn[y].derived PROVE Revision(y, k)' = Revision(y, k)
      <4>1. k \in DOMAIN txn[y].staged
            BY <1>2, <3>2, <3>3, DerivedSeen DEF TxnInv
      <4>2. QED
            BY <3>3, <4>1 DEF Revision, Seen
    <3>6. AnnouncesNew
          BY DEF IInv
    <3>7. QED
          BY <3>3, <3>4, <3>5, <3>6 DEF AnnouncesNew
  <2>9. Exclusive'
    <3>1. \A y, z \in Writers : y # z /\ Open(y)' /\ Open(z)' =>
             DOMAIN txn[y].staged \cap DOMAIN txn[z].staged = {}
          BY <2>7 DEF IInv, Exclusive
    <3>2. \A y \in Writers : Open(y)' => txn'[y] = txn[y]
          BY <2>3, <2>7
    <3>3. QED
          BY <3>1, <3>2 DEF Exclusive
  <2>10. QED
        BY <1>1, <2>3, <2>5, <2>6, <2>7, <2>8, <2>9 DEF IInv
<1>7. CASE UNCHANGED <<store, txn, sent, twice, raced>>
  <2>1. TxnType' /\ StoreType' /\ StoreInv' /\ SentAreCommitted' /\ ConfirmedOnce'
        BY <1>2, <1>7 DEF TxnType, StoreType, StoreInv, Committed, SentAreCommitted,
                          ConfirmedOnce, IInv
  <2>2. ASSUME NEW y \in Writers, Open(y)' PROVE TxnInv(y)'
    <3>1. Open(y) /\ txn'[y] = txn[y]
          BY <1>7, <2>2 DEF Open
    <3>2. QED
          BY <1>7, <3>1, Framed DEF IInv
  <2>3. Exclusive'
        BY <1>7 DEF IInv, Exclusive, Open
  <2>4. AnnouncesNew'
    <3>1. \A k : Revision("live", k)' = Revision("live", k)
          BY <1>7, SeenKept DEF Revision, Writers
    <3>2. QED
          BY <1>7, <3>1 DEF IInv, AnnouncesNew, Open
  <2>5. QED
        BY <1>1, <2>1, <2>2, <2>3, <2>4 DEF IInv
<1>8. QED
      BY <1>2, <1>3, <1>4, <1>5, <1>6, <1>7, Steps

\* What the writers rely on of one another holds in every state they reach.
THEOREM StoreInvariant == Spec => []IInv
BY Initially, Inductive, PTL DEF Spec

-----------------------------------------------------------------------------
(***************************************************************************)
(* What follows from it.                                                   *)
(***************************************************************************)

LEMMA InvTypes == IInv => TypeOK
<1> SUFFICES ASSUME IInv PROVE TypeOK
    OBVIOUS
<1>1. ASSUME NEW k \in Keys PROVE ChainOK(k)
  <2>1. Chain(k, store[k])
        BY DEF IInv, StoreInv
  <2>2. /\ DOMAIN store[k] = 1 .. Len(store[k])
        /\ \A i \in 1 .. Len(store[k]) :
              /\ store[k][i] \in RowsOf(k)
              /\ store[k][i].status = "superseded" <=> i < Len(store[k])
        BY <2>1, ChainFacts
  <2>3. \A row \in RowsOf(k) :
           /\ row.status \in {"complete", "superseded", "incomplete"}
           /\ k \in Sources => row.values \in Writers
        BY DEF RowsOf, SourceRow, WindowRow
  <2>4. QED
        BY <2>2, <2>3 DEF ChainOK
<1>2. \A x \in Writers : txn[x].phase \in {"none", "read", "upsert", "sources", "write", "commit"}
      BY TxnFacts DEF IInv, Open, Transaction, NoTxn
<1>3. QED
      BY <1>1, <1>2 DEF TypeOK, IInv, RestType

LEMMA InvComplete == IInv => CompleteHasEverySource
<1> SUFFICES ASSUME IInv, NEW w \in Windows, NEW i \in DOMAIN store[w],
                    store[w][i].status \in {"complete", "superseded"}
             PROVE  /\ DOMAIN store[w][i].values = MinutesOf(w)
                    /\ \A m \in MinutesOf(w) : store[w][i].values[m] \in 1 .. Len(store[Source(m)])
    BY DEF CompleteHasEverySource
<1>1. i \in 1 .. Len(store[w])
      BY SourceKeys, ChainFacts DEF IInv, StoreInv
<1>2. RowHolds(w, store[w][i], Committed(w))
      BY <1>1 DEF IInv, StoreInv
<1>3. store[w][i].status # "incomplete"
      OBVIOUS
<1>4. QED
      BY <1>2, <1>3 DEF RowHolds, Committed

\* Three writers cannot each wait for a candle beyond the one another waits for.
LEMMA NoCircle ==
    ASSUME NEW xs \in SUBSET Writers, xs # {},
           NEW T, \A x \in xs : T[x] \in Keys,
           \A x \in xs : \E y \in xs : Below(T[x], T[y])
    PROVE  FALSE
<1>1. \A x, y, z \in xs : Below(T[x], T[y]) /\ Below(T[y], T[z]) => Below(T[x], T[z])
      BY BelowIsStrict
<1>2. \A x \in xs : ~Below(T[x], T[x])
      BY BelowIsStrict
<1>3. PICK a \in xs : TRUE
      OBVIOUS
<1>4. PICK b \in xs : Below(T[a], T[b])
      OBVIOUS
<1>5. PICK c \in xs : Below(T[b], T[c])
      OBVIOUS
<1>6. PICK d \in xs : Below(T[c], T[d])
      OBVIOUS
<1>7. Below(T[a], T[c]) /\ Below(T[b], T[d]) /\ Below(T[a], T[d])
      BY <1>1, <1>4, <1>5, <1>6
<1>8. a # b /\ a # c /\ a # d /\ b # c /\ b # d /\ c # d
      BY <1>2, <1>4, <1>5, <1>6, <1>7
<1>9. QED
      BY <1>8 DEF Writers

LEMMA InvNoCycle == IInv => NoWaitCycle
<1> SUFFICES ASSUME IInv, NEW xs \in SUBSET {x \in Writers : Waiting(x)}, xs # {},
                    \A x \in xs : \E y \in xs \ {x} : Target(x) \in DOMAIN txn[y].staged
             PROVE  FALSE
    BY DEF NoWaitCycle
<1> DEFINE T == [x \in xs |-> Target(x)]
<1>1. ASSUME NEW x \in xs
      PROVE  /\ x \in Writers /\ Target(x) \in Keys
             /\ \A k \in DOMAIN txn[x].staged : Below(k, Target(x))
  <2>1. x \in Writers /\ Open(x) /\ txn[x].waiting # -1
        BY DEF Waiting
  <2>2. TxnType /\ InOrder(x)
        BY <2>1 DEF IInv, TxnInv
  <2>3. txn[x].phase \in {"upsert", "write"}
        BY <2>1, <2>2 DEF InOrder
  <2>4. QED
        BY <2>1, <2>2, <2>3, TargetFacts
<1>2. \A x \in xs : T[x] = Target(x) /\ T[x] \in Keys
      BY <1>1
<1>3. \A x \in xs : \E y \in xs : Below(T[x], T[y])
      BY <1>1, <1>2
<1> HIDE DEF T
<1>4. xs \in SUBSET Writers
      OBVIOUS
<1>5. QED
      BY <1>2, <1>3, <1>4, NoCircle

\* Whatever the three writers interleave: no window is complete without all of its
\* minutes, they never wait for one another in a circle, and no revision of a
\* candle is announced twice.
THEOREM StoreStaysSound == Spec => []StoreIsSound
<1>1. IInv => StoreIsSound
      BY InvTypes, InvComplete, InvNoCycle DEF StoreIsSound, IInv
<1>2. QED
      BY <1>1, StoreInvariant, PTL

\* No transaction overwrites what another one has committed: revisions are only
\* added, and a complete one is superseded at most.
THEOREM HistoryStays == Spec => HistoryIsKept
<1> DEFINE Keeps == \A k \in Keys :
              /\ Len(store'[k]) >= Len(store[k])
              /\ \A i \in DOMAIN store[k] : Kept(store[k][i], store'[k][i])
<1>1. IInv /\ [Next]_vars => Keeps
  <2> SUFFICES ASSUME IInv, [Next]_vars, NEW k \in Keys
               PROVE  /\ Len(store'[k]) >= Len(store[k])
                      /\ \A i \in DOMAIN store[k] : Kept(store[k][i], store'[k][i])
      OBVIOUS
  <2>1. Chain(k, store[k]) /\ DOMAIN store[k] = 1 .. Len(store[k])
        BY ChainFacts DEF IInv, StoreInv
  <2>2. KeptAll(store[k], store'[k])
    <3>1. CASE store' = store
          BY <2>1, <3>1, Unchanged
    <3>2. ASSUME NEW x \in Writers, Commit(x) PROVE KeptAll(store[k], store'[k])
      <4>1. Open(x)
            BY <3>2 DEF Commit, Open
      <4>2. TxnType /\ StoreInv /\ TxnInv(x)
            BY <4>1 DEF IInv
      <4>3. QED
            BY <3>2, <4>1, <4>2, CommitDoes
    <3>3. RestType
          BY DEF IInv
    <3>4. store' = store \/ \E x \in Writers : Commit(x)
          BY <3>3, Steps, WorkChanges
    <3>5. QED
          BY <3>1, <3>2, <3>4
  <2>3. QED
        BY <2>1, <2>2 DEF KeptAll
<1>2. IInv /\ [Next]_vars => [Keeps]_vars
      BY <1>1
<1> HIDE DEF Keeps
<1>3. Spec => [][Keeps]_vars
      BY <1>2, StoreInvariant, PTL DEF Spec
<1>4. QED
      BY <1>3 DEF Keeps, HistoryIsKept

-----------------------------------------------------------------------------
(***************************************************************************)
(* Windows nobody has raced for.  Until another transaction commits one of *)
(* the sources of a window, what a transaction has read of the window is   *)
(* what is committed, so a changed source is never overlooked and the      *)
(* window is rebuilt from what its sources are when it commits.            *)
(***************************************************************************)

Agrees(w, revisions, sources) ==
    IF DOMAIN sources = MinutesOf(w)
    THEN IsComplete(revisions) /\ Current(revisions).values = sources
    ELSE ~IsComplete(revisions)

CommittedSources(w) ==
    LET present == {m \in MinutesOf(w) : IsComplete(store[Source(m)])}
    IN  [m \in present |-> Len(store[Source(m)])]

\* The transaction has, or had, one of the window's sources to write.
Concerns(x, w) ==
    \E m \in MinutesOf(w) : m \in txn[x].minutes \/ Source(m) \in DOMAIN txn[x].staged

QuietIn(x, w) ==
    /\ txn[x].phase = "upsert" /\ Minute(x) \in MinutesOf(w) =>
          txn[x].before = Len(store[Source(Minute(x))])
    /\ txn[x].phase = "write" /\ w = First(txn[x].affected) =>
          txn[x].sources = SourcesOf(x, w)
    /\ w \in DOMAIN txn[x].staged => Agrees(w, txn[x].staged[w], SourcesOf(x, w))
    /\ \A m \in MinutesOf(w) :
          Source(m) \in DOMAIN txn[x].staged /\ txn[x].staged[Source(m)] # store[Source(m)]
              => w \in txn[x].affected \cup DOMAIN txn[x].staged

QuietTxn(x) == \A w \in Windows \ raced : Concerns(x, w) => QuietIn(x, w)

QuietInv ==
    /\ \A w \in Windows \ raced : Agrees(w, store[w], CommittedSources(w))
    /\ \A x \in Writers : Open(x) => QuietTxn(x)

LEMMA FreshAgrees ==
    ASSUME NEW w \in Windows
    PROVE  Fresh(w) <=> Agrees(w, store[w], CommittedSources(w))
BY DEF Fresh, Agrees, CommittedSources

LEMMA SourcesKept ==
    ASSUME NEW x \in Writers, NEW w,
           \A m \in MinutesOf(w) : Seen(x, Source(m))' = Seen(x, Source(m))
    PROVE  SourcesOf(x, w)' = SourcesOf(x, w)
BY DEF SourcesOf

LEMMA QuietFramed ==
    ASSUME NEW y \in Writers, QuietTxn(y), txn'[y] = txn[y], UNCHANGED <<store, raced>>
    PROVE  QuietTxn(y)'
<1>1. \A w : SourcesOf(y, w)' = SourcesOf(y, w)
      BY SeenKept, SourcesKept
<1>2. Minute(y)' = Minute(y)
      BY DEF Minute
<1>3. QED
      BY <1>1, <1>2 DEF QuietTxn, Concerns, QuietIn

\* A window that has a source to be rebuilt for is one the transaction concerns.
LEMMA WrittenConcerns ==
    ASSUME NEW x \in Writers, WritesOn(x), NEW w \in Windows,
           w \in txn[x].affected \/ w \in DOMAIN txn[x].staged
    PROVE  Concerns(x, w) /\ \E m \in MinutesOf(w) : Source(m) \in DOMAIN txn[x].staged
BY DEF WritesOn, Concerns

\* A window rebuilt from what its sources are agrees with them.
LEMMA RebuiltAgrees ==
    ASSUME TxnType, StoreInv, NEW x \in Writers, Open(x), WritesOn(x), NEW w \in Windows,
           Agrees(w, store[w], CommittedSources(w))
    PROVE  Agrees(w, Rebuilt(store[w], w, SourcesOf(x, w)), SourcesOf(x, w))
<1> DEFINE sources == SourcesOf(x, w)
           old == store[w]
           new == Rebuilt(old, w, sources)
           all == DOMAIN sources = MinutesOf(w)
<1>1. /\ DOMAIN sources \subseteq MinutesOf(w)
      /\ \A m \in MinutesOf(w) : m \in DOMAIN sources <=> Len(Seen(x, Source(m))) > 0
      /\ \A m \in DOMAIN sources : sources[m] \in 1 .. Len(Seen(x, Source(m)))
      BY SourcesRead
<1>2. sources \in Picked
  <2>1. DOMAIN sources \in SUBSET Minutes
        BY <1>1, WholeWindow
  <2>2. \A m \in DOMAIN sources : sources[m] \in Nat
        BY <1>1
  <2>3. sources = [m \in DOMAIN sources |-> sources[m]]
        BY DEF SourcesOf
  <2> HIDE DEF sources
  <2>4. sources \in [DOMAIN sources -> Nat]
        BY <2>2, <2>3
  <2>5. QED
        BY <2>1, <2>4 DEF Picked
<1>3. w \in Keys /\ Chain(w, old)
      BY SourceKeys DEF StoreInv
<1> HIDE DEF sources
<1>4. /\ Chain(w, new)
      /\ Len(new) \in Nat /\ Len(new) > 0
      /\ \A i \in 1 .. Len(new) :
            \/ /\ i \in 1 .. Len(old)
               /\ new[i].values = old[i].values
               /\ new[i].status = "incomplete" <=> old[i].status = "incomplete"
            \/ /\ new[i].values = sources
               /\ new[i].status = IF all THEN "complete" ELSE "incomplete"
      /\ all => Current(new).values = sources
      /\ ~all /\ ~IsComplete(old) => ~IsComplete(new)
      BY <1>1, <1>2, <1>3, RebuiltGrows
<1> HIDE DEF new
<1>5. CASE all
  <2> DEFINE n == Len(new)
  <2>1. /\ n \in 1 .. n /\ Current(new) = new[n] /\ Current(new).status # "superseded"
        /\ Current(new).status \in {"complete", "superseded", "incomplete"}
        /\ new # <<>>
    <3>1. Current(new) \in WindowRow
          BY <1>3, <1>4, ChainFacts, RowTypes
    <3>2. \A row \in WindowRow : row.status \in {"complete", "superseded", "incomplete"}
          BY DEF WindowRow
    <3>3. QED
          BY <1>3, <1>4, <3>1, <3>2, ChainFacts
  <2>2. new[n].values = sources
        BY <1>4, <1>5, <2>1
  <2>3. ASSUME new[n].status = "incomplete" PROVE FALSE
    <3>1. /\ n \in 1 .. Len(old) /\ old[n].values = sources
          /\ old[n].status = "incomplete"
          BY <1>4, <1>5, <2>1, <2>2, <2>3
    <3>2. RowHolds(w, old[n], Committed(w))
          BY <3>1 DEF StoreInv
    <3>3. QED
          BY <1>5, <3>1, <3>2 DEF RowHolds
  <2>4. IsComplete(new)
        BY <2>1, <2>3 DEF IsComplete
  <2>5. QED
        BY <1>4, <1>5, <2>4 DEF Agrees, new, sources
<1>6. CASE ~all
  <2>1. PICK m \in MinutesOf(w) : Len(Seen(x, Source(m))) <= 0
    <3>1. PICK m \in MinutesOf(w) : m \notin DOMAIN sources
          BY <1>1, <1>6
    <3>2. Source(m) \in Keys
          BY WholeWindow, SourceKeys
    <3>3. Len(Seen(x, Source(m))) \in Nat /\ ~(Len(Seen(x, Source(m))) > 0)
          BY <1>1, <3>1, <3>2, SeenFacts
    <3>4. QED
          BY <3>3
  <2>2. Source(m) \in Sources /\ Source(m) \in Keys
        BY WholeWindow, SourceKeys
  <2>3. ~(Len(store[Source(m)]) > 0)
        BY <2>1, <2>2, SeenFacts
  <2>4. ~IsComplete(store[Source(m)])
        BY <2>2, <2>3, SourceIsComplete DEF StoreInv
  <2>5. DOMAIN CommittedSources(w) # MinutesOf(w)
        BY <2>4 DEF CommittedSources
  <2>6. ~IsComplete(old)
        BY <2>5 DEF Agrees
  <2>7. ~IsComplete(new)
        BY <1>4, <1>6, <2>6
  <2>8. QED
        BY <1>6, <2>7 DEF Agrees, new, sources
<1>7. QED
      BY <1>5, <1>6

\* A statement that writes nothing keeps what QuietTxn says of what is written.
LEMMA ReadsKeepQuiet ==
    ASSUME NEW x \in Writers, NEW w \in Windows, Concerns(x, w) => QuietIn(x, w),
           UNCHANGED store,
           txn'[x].staged = txn[x].staged, txn'[x].affected = txn[x].affected,
           txn'[x].minutes = txn[x].minutes,
           Concerns(x, w) =>
               /\ txn'[x].phase = "upsert" /\ Minute(x) \in MinutesOf(w) =>
                     txn'[x].before = Len(store[Source(Minute(x))])
               /\ txn'[x].phase = "write" /\ w = First(txn[x].affected) =>
                     txn'[x].sources = SourcesOf(x, w)
    PROVE  Concerns(x, w)' => QuietIn(x, w)'
<1>1. SourcesOf(x, w)' = SourcesOf(x, w)
      BY SeenKept, SourcesKept
<1>2. Minute(x)' = Minute(x)
      BY DEF Minute
<1>3. Concerns(x, w)' => Concerns(x, w)
      BY DEF Concerns
<1>4. QED
      BY <1>1, <1>2, <1>3 DEF QuietIn

LEMMA WriteSourceQuiet ==
    ASSUME TxnType, StoreType, StoreInv, NEW x \in Writers, Open(x), TxnInv(x), WriteSource(x),
           NEW w \in Windows, Concerns(x, w) => QuietIn(x, w), Concerns(x, w)'
    PROVE  QuietIn(x, w)'
<1> DEFINE m == Minute(x)
           k == Source(m)
           revisions == UpsertSource(store[k], x)
           counts == Len(revisions) # txn[x].before
           affected == IF counts THEN txn[x].affected \cup {Hour(m), FourHour(m)}
                       ELSE txn[x].affected
<1>1. /\ txn'[x].minutes = txn[x].minutes \ {m}
      /\ txn'[x].affected = affected
      /\ txn'[x].staged = Stage(x, k, revisions)
      /\ txn[x].phase = "upsert"
      /\ UNCHANGED store
      BY WriteSourceDoes DEF WriteSource
<1>2. /\ k \in Sources /\ k \in Keys /\ k \notin Windows /\ k = Source(m)
      /\ m \in txn[x].minutes /\ m \in Minutes
      BY <1>1, TargetFacts, SourceKeys DEF TxnInv
<1>3. Len(revisions) # Len(store[k]) \/ revisions = store[k]
      BY <1>2, UpsertGrows DEF StoreInv
<1>4. w \notin DOMAIN txn[x].staged
      BY <1>2 DEF TxnInv, InOrder
<1>5. txn[x].affected \subseteq affected /\ (counts => {Hour(m), FourHour(m)} \subseteq affected)
      OBVIOUS
<1>6. m \in MinutesOf(w) => w \in {Hour(m), FourHour(m)}
      BY <1>2, WindowsOfMinute
<1>7. counts <=> Len(revisions) # txn[x].before
      OBVIOUS
<1>8. txn'[x].phase # "write" /\ txn'[x].phase # "upsert"
      BY WorkPhases
<1>9. m = Minute(x)
      OBVIOUS
<1> HIDE DEF m, k, revisions, counts, affected
<1>10. /\ DOMAIN txn'[x].staged = DOMAIN txn[x].staged \cup {k}
       /\ txn'[x].staged[k] = revisions
       /\ \A d \in DOMAIN txn[x].staged : d # k => txn'[x].staged[d] = txn[x].staged[d]
  <2>1. txn'[x].staged = Stage(x, k, revisions)
        BY <1>1
  <2>2. QED
        BY <2>1 DEF Stage
<1>11. Concerns(x, w)
  <2>1. \A n \in MinutesOf(w) : Source(n) = k => n = m
        BY <1>2, SourceKeys, WholeWindow
  <2>2. PICK n \in MinutesOf(w) : n \in txn'[x].minutes \/ Source(n) \in DOMAIN txn'[x].staged
        BY DEF Concerns
  <2>3. n \in txn[x].minutes \/ Source(n) \in DOMAIN txn[x].staged
        BY <1>1, <1>2, <1>10, <2>1, <2>2
  <2>4. QED
        BY <2>3 DEF Concerns
<1>12. QuietIn(x, w)
       BY <1>11
<1>13. ASSUME NEW n \in MinutesOf(w), Source(n) \in DOMAIN txn'[x].staged,
              txn'[x].staged[Source(n)] # store[Source(n)]
       PROVE  w \in affected
  <2>1. CASE Source(n) = k
    <3>1. n = m
          BY <1>2, <2>1, SourceKeys, WholeWindow
    <3>2. txn[x].before = Len(store[k])
          BY <1>1, <1>2, <1>9, <1>12, <3>1 DEF QuietIn
    <3>3. revisions # store[k]
          BY <1>10, <1>13, <2>1
    <3>4. counts
          BY <1>3, <1>7, <3>2, <3>3
    <3>5. QED
          BY <1>5, <1>6, <3>1, <3>4
  <2>2. CASE Source(n) # k
    <3>1. Source(n) \in DOMAIN txn[x].staged /\ txn[x].staged[Source(n)] # store[Source(n)]
          BY <1>10, <1>13, <2>2
    <3>2. w \in txn[x].affected
          BY <1>4, <1>12, <3>1 DEF QuietIn
    <3>3. QED
          BY <1>5, <3>2
  <2>3. QED
        BY <2>1, <2>2
<1>14. w \notin DOMAIN txn'[x].staged
       BY <1>2, <1>4, <1>10
<1>15. QED
       BY <1>1, <1>8, <1>13, <1>14 DEF QuietIn

LEMMA WriteWindowQuiet ==
    ASSUME TxnType, StoreType, StoreInv, NEW x \in Writers, Open(x), TxnInv(x), WriteWindow(x),
           NEW w \in Windows, Concerns(x, w) => QuietIn(x, w), Concerns(x, w)',
           Agrees(w, store[w], CommittedSources(w))
    PROVE  QuietIn(x, w)'
<1> DEFINE v == First(txn[x].affected)
           revisions == Rebuilt(store[v], v, txn[x].sources)
<1>1. /\ txn'[x].minutes = {}
      /\ txn'[x].affected = txn[x].affected \ {v}
      /\ txn'[x].staged = Stage(x, v, revisions)
      /\ txn[x].phase = "write"
      /\ UNCHANGED store
      BY WriteWindowDoes DEF WriteWindow
<1>2. /\ v \in Windows /\ v \notin Sources /\ v \in txn[x].affected
      /\ v \notin DOMAIN txn[x].staged /\ txn[x].minutes = {}
      BY <1>1, TargetFacts, SourceKeys DEF TxnInv
<1>3. txn'[x].phase # "write" /\ txn'[x].phase # "upsert"
      BY WorkPhases
<1>4. v = First(txn[x].affected) /\ (w = v => revisions = Rebuilt(store[w], w, txn[x].sources))
      OBVIOUS
<1> HIDE DEF v, revisions
<1>5. /\ DOMAIN txn'[x].staged = DOMAIN txn[x].staged \cup {v}
      /\ txn'[x].staged[v] = revisions
      /\ \A d \in DOMAIN txn[x].staged : d # v => txn'[x].staged[d] = txn[x].staged[d]
  <2>1. txn'[x].staged = Stage(x, v, revisions)
        BY <1>1
  <2>2. QED
        BY <2>1 DEF Stage
<1>6. \A m \in MinutesOf(w) : Source(m) # v
      BY <1>2, WholeWindow
<1>7. SourcesOf(x, w)' = SourcesOf(x, w)
  <2>1. \A m \in MinutesOf(w) : Seen(x, Source(m))' = Seen(x, Source(m))
        BY <1>1, <1>5, <1>6 DEF Seen
  <2>2. QED
        BY <2>1, SourcesKept
<1>8. Concerns(x, w)
      BY <1>1, <1>5, <1>6 DEF Concerns
<1>9. QuietIn(x, w)
      BY <1>8
<1>10. w \in DOMAIN txn'[x].staged => Agrees(w, txn'[x].staged[w], SourcesOf(x, w))
  <2>1. CASE w = v
    <3>1. txn[x].sources = SourcesOf(x, w)
          BY <1>1, <1>4, <1>9, <2>1 DEF QuietIn
    <3>2. txn'[x].staged[w] = Rebuilt(store[w], w, SourcesOf(x, w))
          BY <1>4, <1>5, <2>1, <3>1
    <3>3. QED
          BY <3>2, RebuiltAgrees DEF TxnInv
  <2>2. CASE w # v
        BY <1>5, <1>9, <2>2 DEF QuietIn
  <2>3. QED
        BY <2>1, <2>2
<1>11. ASSUME NEW m \in MinutesOf(w), Source(m) \in DOMAIN txn'[x].staged,
              txn'[x].staged[Source(m)] # store[Source(m)]
       PROVE  w \in txn'[x].affected \cup DOMAIN txn'[x].staged
  <2>1. Source(m) \in DOMAIN txn[x].staged /\ txn[x].staged[Source(m)] # store[Source(m)]
        BY <1>5, <1>6, <1>11
  <2>2. w \in txn[x].affected \cup DOMAIN txn[x].staged
        BY <1>9, <2>1 DEF QuietIn
  <2>3. QED
        BY <1>1, <1>5, <2>2
<1>12. QED
       BY <1>1, <1>3, <1>7, <1>10, <1>11 DEF QuietIn

LEMMA WorkStaysQuiet ==
    ASSUME IInv, QuietInv, NEW x \in Writers, Works(x)
    PROVE  QuietTxn(x)'
<1>1. Open(x) /\ UNCHANGED <<store, raced>>
      BY WorkChanges DEF Works, ReadRevision, Wait, WriteSource, ReadSources, WriteWindow
<1>2. /\ TxnType /\ StoreType /\ StoreInv /\ TxnInv(x) /\ txn[x] \in Transaction
      BY <1>1, TxnFacts DEF IInv
<1>3. SUFFICES ASSUME NEW w \in Windows \ raced, Concerns(x, w)'
               PROVE  QuietIn(x, w)'
      BY <1>1 DEF QuietTxn
<1>4. /\ Concerns(x, w) => QuietIn(x, w)
      /\ Agrees(w, store[w], CommittedSources(w))
      BY <1>1 DEF QuietInv, QuietTxn
<1>5. CASE ReadRevision(x)
  <2>1. txn'[x] = [txn[x] EXCEPT !.before = Len(store[Source(Minute(x))]), !.phase = "upsert"]
        BY <1>1, <1>2, <1>5, ReadRevisionDoes
  <2>2. /\ txn'[x].staged = txn[x].staged /\ txn'[x].affected = txn[x].affected
        /\ txn'[x].minutes = txn[x].minutes /\ txn'[x].phase = "upsert"
        /\ txn'[x].before = Len(store[Source(Minute(x))])
        BY <1>2, <2>1 DEF Transaction
  <2>3. QED
        BY <1>1, <1>3, <1>4, <2>2, ReadsKeepQuiet
<1>6. CASE Wait(x)
  <2>1. txn'[x] = [txn[x] EXCEPT !.waiting = Len(store[Target(x)])]
        BY <1>1, <1>2, <1>6, WaitDoes
  <2>2. /\ txn'[x].staged = txn[x].staged /\ txn'[x].affected = txn[x].affected
        /\ txn'[x].minutes = txn[x].minutes /\ txn'[x].phase = txn[x].phase
        /\ txn'[x].before = txn[x].before /\ txn'[x].sources = txn[x].sources
        BY <1>2, <2>1 DEF Transaction
  <2>3. Concerns(x, w) =>
           /\ txn'[x].phase = "upsert" /\ Minute(x) \in MinutesOf(w) =>
                 txn'[x].before = Len(store[Source(Minute(x))])
           /\ txn'[x].phase = "write" /\ w = First(txn[x].affected) =>
                 txn'[x].sources = SourcesOf(x, w)
        BY <1>4, <2>2 DEF QuietIn
  <2>4. QED
        BY <1>1, <1>3, <1>4, <2>2, <2>3, ReadsKeepQuiet
<1>7. CASE ReadSources(x)
  <2>1. txn'[x] = [txn[x] EXCEPT !.sources = SourcesOf(x, First(txn[x].affected)),
                                 !.phase = "write"]
        BY <1>1, <1>2, <1>7, ReadSourcesDoes
  <2>2. /\ txn'[x].staged = txn[x].staged /\ txn'[x].affected = txn[x].affected
        /\ txn'[x].minutes = txn[x].minutes /\ txn'[x].phase = "write"
        /\ txn'[x].sources = SourcesOf(x, First(txn[x].affected))
        BY <1>2, <2>1 DEF Transaction
  <2>3. QED
        BY <1>1, <1>3, <1>4, <2>2, ReadsKeepQuiet
<1>8. CASE WriteSource(x)
      BY <1>1, <1>2, <1>3, <1>4, <1>8, WriteSourceQuiet
<1>9. CASE WriteWindow(x)
      BY <1>1, <1>2, <1>3, <1>4, <1>9, WriteWindowQuiet
<1>10. QED
       BY <1>5, <1>6, <1>7, <1>8, <1>9 DEF Works

\* After a commit every window nobody has raced for agrees with its sources.
LEMMA CommitLeavesFresh ==
    ASSUME IInv, QuietInv, NEW x \in Writers, Commit(x), NEW w \in Windows \ raced
    PROVE  Agrees(w, store'[w], CommittedSources(w)')
<1>1. Open(x) /\ txn[x].phase = "commit"
      BY DEF Commit, Open
<1>2. TxnType /\ StoreInv /\ TxnInv(x) /\ QuietTxn(x)
      BY <1>1 DEF IInv, QuietInv
<1>3. \A k \in Keys : store'[k] = Seen(x, k)
      BY <1>1, <1>2, CommitDoes
<1>4. CommittedSources(w)' = SourcesOf(x, w)
  <2>1. \A m \in MinutesOf(w) : store'[Source(m)] = Seen(x, Source(m))
        BY <1>3, WholeWindow, SourceKeys
  <2>2. QED
        BY <2>1 DEF CommittedSources, SourcesOf
<1>5. store'[w] = Seen(x, w)
      BY <1>3, SourceKeys
<1>6. CASE w \in DOMAIN txn[x].staged
  <2>1. Concerns(x, w)
        BY <1>2, <1>6, WrittenConcerns DEF TxnInv
  <2>2. Agrees(w, txn[x].staged[w], SourcesOf(x, w))
        BY <1>2, <1>6, <2>1 DEF QuietTxn, QuietIn
  <2>3. store'[w] = txn[x].staged[w]
        BY <1>5, <1>6 DEF Seen
  <2>4. QED
        BY <1>4, <2>2, <2>3
<1>7. CASE w \notin DOMAIN txn[x].staged
  <2>1. txn[x].affected = {}
        BY <1>1, <1>2 DEF TxnInv, InOrder
  <2>2. ASSUME NEW m \in MinutesOf(w) PROVE Seen(x, Source(m)) = store[Source(m)]
    <3>1. CASE Source(m) \in DOMAIN txn[x].staged
      <4>1. QuietIn(x, w)
            BY <1>2, <3>1 DEF QuietTxn, Concerns
      <4>2. txn[x].staged[Source(m)] = store[Source(m)]
            BY <1>7, <2>1, <3>1, <4>1 DEF QuietIn
      <4>3. QED
            BY <3>1, <4>2 DEF Seen
    <3>2. CASE Source(m) \notin DOMAIN txn[x].staged
          BY <3>2 DEF Seen
    <3>3. QED
          BY <3>1, <3>2
  <2>3. SourcesOf(x, w) = CommittedSources(w)
        BY <2>2 DEF SourcesOf, CommittedSources
  <2>4. store'[w] = store[w]
        BY <1>5, <1>7 DEF Seen
  <2>5. QED
        BY <1>4, <2>3, <2>4 DEF QuietInv
<1>8. QED
      BY <1>6, <1>7

\* To a transaction still open, a window not raced for looks as it did.
LEMMA CommitLeavesQuiet ==
    ASSUME IInv, QuietInv, NEW x \in Writers, Commit(x),
           NEW y \in Writers, y # x, Open(y)
    PROVE  QuietTxn(y)'
<1>1. Open(x)
      BY DEF Commit, Open
<1>2. TxnType /\ StoreInv /\ TxnInv(x) /\ TxnInv(y) /\ QuietTxn(y)
      BY <1>1 DEF IInv, QuietInv
<1>3. txn'[y] = txn[y]
      BY <1>2 DEF Commit, TxnType
<1>4. raced' = raced \cup Contested(x)
      BY DEF Commit
<1>5. SUFFICES ASSUME NEW w \in Windows, w \notin raced, w \notin Contested(x), Concerns(y, w)
               PROVE  QuietIn(y, w)'
      BY <1>3, <1>4 DEF QuietTxn, Concerns
<1>6. \A m \in MinutesOf(w) : Source(m) \notin DOMAIN txn[x].staged
  <2>1. w \notin Touches(x)
        BY <1>5 DEF Contested, Concerns
  <2>2. QED
        BY <2>1 DEF Touches
<1>7. w \notin DOMAIN txn[x].staged
      BY <1>2, <1>6, WrittenConcerns DEF TxnInv
<1>8. \A m \in MinutesOf(w) : store'[Source(m)] = store[Source(m)]
      BY <1>1, <1>2, <1>6, CommitDoes, WholeWindow, SourceKeys
<1>9. \A m \in MinutesOf(w) : Seen(y, Source(m))' = Seen(y, Source(m))
      BY <1>3, <1>8 DEF Seen
<1>10. SourcesOf(y, w)' = SourcesOf(y, w)
       BY <1>9, SourcesKept
<1>11. Minute(y)' = Minute(y)
       BY <1>3 DEF Minute
<1>12. QuietIn(y, w)
       BY <1>2, <1>5 DEF QuietTxn
<1>13. QED
       BY <1>3, <1>8, <1>10, <1>11, <1>12 DEF QuietIn

LEMMA QuietInitially == Init => QuietInv
<1> SUFFICES ASSUME Init PROVE QuietInv
    OBVIOUS
<1>1. ASSUME NEW w \in Windows PROVE Agrees(w, store[w], CommittedSources(w))
  <2>1. store[w] = <<>> /\ \A m \in MinutesOf(w) : store[Source(m)] = <<>>
        BY WholeWindow, SourceKeys DEF Init
  <2>2. DOMAIN CommittedSources(w) = {}
        BY <2>1 DEF CommittedSources, IsComplete
  <2>3. MinutesOf(w) # {}
        BY WindowsOfMinute DEF Windows
  <2>4. QED
        BY <2>1, <2>2, <2>3 DEF Agrees, IsComplete
<1>2. \A x \in Writers : ~Open(x)
      BY DEF Init, Open, NoTxn
<1>3. QED
      BY <1>1, <1>2 DEF QuietInv

LEMMA QuietInductive == IInv /\ QuietInv /\ [Next]_vars => QuietInv'
<1> SUFFICES ASSUME IInv, QuietInv, [Next]_vars PROVE QuietInv'
    OBVIOUS
<1>1. TxnType /\ RestType
      BY DEF IInv
<1>2. ASSUME UNCHANGED <<store, raced>>,
             NEW x \in Writers, \A y \in Writers \ {x} : txn'[y] = txn[y],
             Open(x)' => QuietTxn(x)'
      PROVE  QuietInv'
  <2>1. ASSUME NEW w \in Windows \ raced PROVE Agrees(w, store[w], CommittedSources(w))'
        BY <1>2, <2>1 DEF QuietInv, CommittedSources
  <2>2. ASSUME NEW y \in Writers, Open(y)' PROVE QuietTxn(y)'
    <3>1. CASE y = x
          BY <1>2, <2>2, <3>1
    <3>2. CASE y # x
      <4>1. txn'[y] = txn[y]
            BY <1>2, <3>2
      <4>2. Open(y)
            BY <2>2, <4>1 DEF Open
      <4>3. QED
            BY <1>2, <4>1, <4>2, QuietFramed DEF QuietInv
    <3>3. QED
          BY <3>1, <3>2
  <2>3. QED
        BY <1>2, <2>1, <2>2 DEF QuietInv, Agrees
<1>3. ASSUME NEW x \in Writers, Starts(x), UNCHANGED <<store, sent, twice, raced>> PROVE QuietInv'
  <2>1. PICK ms \in SUBSET Minutes : txn' = [txn EXCEPT ![x] = Begun(ms)]
        BY <1>3 DEF Starts
  <2>2. /\ txn'[x].phase = "read" /\ DOMAIN txn'[x].staged = {}
        /\ \A y \in Writers \ {x} : txn'[y] = txn[y]
        BY <1>1, <2>1 DEF TxnType, Begun
  <2>3. QuietTxn(x)'
        BY <2>2 DEF QuietTxn, QuietIn
  <2>4. QED
        BY <1>2, <1>3, <2>2, <2>3
<1>4. ASSUME NEW x \in Writers, Ends(x), UNCHANGED <<store, sent, twice, raced>> PROVE QuietInv'
  <2>1. txn'[x] = NoTxn /\ \A y \in Writers \ {x} : txn'[y] = txn[y]
        BY <1>1, <1>4 DEF Ends, TxnType
  <2>2. ~Open(x)'
        BY <2>1 DEF Open, NoTxn
  <2>3. QED
        BY <1>2, <1>4, <2>1, <2>2
<1>5. ASSUME NEW x \in Writers, Works(x) PROVE QuietInv'
  <2>1. UNCHANGED <<store, raced>>
        BY <1>5 DEF Works, ReadRevision, Wait, WriteSource, ReadSources, WriteWindow
  <2>2. Open(x) /\ StoreType /\ StoreInv /\ TxnInv(x)
        BY <1>5, WorkChanges DEF IInv
  <2>3. \A y \in Writers \ {x} : txn'[y] = txn[y]
        BY <1>1, <1>5, <2>2, WorksOnOne
  <2>4. QuietTxn(x)'
        BY <1>5, WorkStaysQuiet
  <2>5. QED
        BY <1>2, <2>1, <2>3, <2>4
<1>6. ASSUME NEW x \in Writers, Commit(x) PROVE QuietInv'
  <2>1. raced \subseteq raced'
        BY <1>6 DEF Commit
  <2>2. \A w \in Windows \ raced' : Agrees(w, store'[w], CommittedSources(w)')
        BY <1>6, <2>1, CommitLeavesFresh
  <2>3. ~Open(x)' /\ \A y \in Writers \ {x} : txn'[y] = txn[y]
        BY <1>1, <1>6 DEF Commit, TxnType, Open, NoTxn
  <2>4. ASSUME NEW y \in Writers, Open(y)' PROVE QuietTxn(y)'
    <3>1. y # x /\ Open(y)
          BY <2>3, <2>4 DEF Open
    <3>2. QED
          BY <1>6, <3>1, CommitLeavesQuiet
  <2>5. QED
        BY <2>2, <2>4 DEF QuietInv, Agrees
<1>7. CASE UNCHANGED <<store, txn, sent, twice, raced>>
  <2>1. "live" \in Writers /\ (Open("live")' => Open("live"))
        BY <1>7 DEF Writers, Open
  <2>2. Open("live")' => QuietTxn("live")'
        BY <1>7, <2>1, QuietFramed DEF QuietInv
  <2>3. QED
        BY <1>2, <1>7, <2>1, <2>2
<1>8. QED
      BY <1>1, <1>3, <1>4, <1>5, <1>6, <1>7, Steps

\* Once the writers are done, a window that no two of them rebuilt at the same time
\* agrees with its sources, whatever they replayed, repaired and corrected.
THEOREM QuietWindowsStayFresh == Spec => []QuietWindowsAreFresh
<1>1. QuietInv => QuietWindowsAreFresh
      BY FreshAgrees DEF QuietInv, QuietWindowsAreFresh
<1>2. Spec => []QuietInv
      BY QuietInitially, QuietInductive, StoreInvariant, PTL DEF Spec
<1>3. QED
      BY <1>1, <1>2, PTL

-----------------------------------------------------------------------------
\* A set of naturals has a least member.
LEMMA Least ==
    ASSUME NEW S \in SUBSET Nat, S # {}
    PROVE  Gaps!Min(S) \in S /\ \A k \in S : Gaps!Min(S) <= k
<1>1. PICK m \in S : \A k \in S : ~(<<k, m>> \in OpToRel(<, Nat))
      BY NatLessThanWellFounded, WFMin
<1>2. ASSUME NEW k \in S PROVE m <= k
  <2>1. m \in Nat /\ k \in Nat
        OBVIOUS
  <2>2. k < m => <<k, m>> \in OpToRel(<, Nat)
        BY <2>1 DEF OpToRel
  <2>3. ~(k < m)
        BY <1>1, <2>2, Zenon
  <2>4. QED
        BY <2>1, <2>3
<1>3. QED
      BY <1>2 DEF Gaps!Min

\* Cardinality as the instance has it.
LEMMA SameCardinality ==
    ASSUME NEW S
    PROVE  Gaps!Cardinality(S) = Cardinality(S)
BY DEF Gaps!IsFiniteSet, IsFiniteSet, Gaps!Cardinality, Cardinality

\* The n-th member is the member with n members up to it.
LEMMA NthOf ==
    ASSUME NEW N \in Nat, NEW K \in SUBSET (1..N)
    PROVE  /\ Gaps!Cardinality(K) \in 0..N
           /\ \A n \in 1..Gaps!Cardinality(K) : Gaps!Nth(K, n) \in K
           /\ \A n, o \in 1..Gaps!Cardinality(K) : n < o => Gaps!Nth(K, n) < Gaps!Nth(K, o)
           /\ \A k \in K : \E n \in 1..Gaps!Cardinality(K) : Gaps!Nth(K, n) = k
<1> DEFINE upto(i) == {j \in K : j <= i}
           rank(i) == Cardinality(upto(i))
<1>1. /\ IsFiniteSet(1..N) /\ Cardinality(1..N) = N
      BY FS_Interval
<1>2. IsFiniteSet(K) /\ Cardinality(K) \in Nat /\ Cardinality(K) <= N
      BY <1>1, FS_Subset, FS_CardinalityType
<1>3. ASSUME NEW i \in K
      PROVE  /\ upto(i) \in SUBSET K /\ i \in upto(i)
             /\ IsFiniteSet(upto(i)) /\ rank(i) \in 1..Cardinality(K)
  <2>1. upto(i) \in SUBSET K /\ i \in upto(i)
        OBVIOUS
  <2>2. IsFiniteSet(upto(i)) /\ rank(i) \in Nat /\ rank(i) <= Cardinality(K)
        BY <1>2, <2>1, FS_Subset, FS_CardinalityType
  <2>3. rank(i) # 0
        BY <2>1, <2>2, FS_EmptySet
  <2>4. QED
        BY <1>2, <2>1, <2>2, <2>3
<1>4. ASSUME NEW i \in K, NEW j \in K, i < j PROVE rank(i) < rank(j)
  <2>1. upto(i) \in SUBSET upto(j) /\ j \notin upto(i) /\ j \in upto(j)
    <3>1. i \in Int /\ j \in Int /\ \A k \in K : k \in Int
          OBVIOUS
    <3>2. \A k \in K : k <= i => k <= j
          BY <1>4, <3>1
    <3>3. ~(j <= i) /\ j <= j
          BY <1>4, <3>1
    <3>4. QED
          BY <3>2, <3>3
  <2>2. rank(i) <= rank(j) /\ rank(i) # rank(j)
        BY <1>3, <2>1, FS_Subset
  <2>3. QED
        BY <1>2, <1>3, <2>2
<1>5. ASSUME NEW i \in K, NEW j \in K, rank(i) < rank(j) PROVE i < j
  <2>1. i \in Int /\ j \in Int /\ rank(i) \in Int /\ rank(j) \in Int
        BY <1>2, <1>3
  <2>2. j < i => rank(j) < rank(i)
        BY <1>4
  <2>3. i # j
        BY <1>5, <2>1
  <2>4. QED
        BY <1>5, <2>1, <2>2, <2>3
<1>6. ASSUME NEW i \in K, NEW j \in K, rank(i) = rank(j) PROVE i = j
  <2>1. i \in Int /\ j \in Int /\ rank(i) \in Int /\ rank(j) \in Int
        BY <1>2, <1>3
  <2>2. (i < j => rank(i) < rank(j)) /\ (j < i => rank(j) < rank(i))
        BY <1>4
  <2>3. QED
        BY <1>6, <2>1, <2>2
<1> DEFINE f == [i \in K |-> rank(i)]
<1>7. f \in Injection(K, 1..Cardinality(K))
  <2>1. f \in [K -> 1..Cardinality(K)]
        BY <1>3
  <2>2. \A i, j \in K : f[i] = f[j] => i = j
        BY <1>6
  <2>3. QED
        BY <2>1, <2>2 DEF Injection, IsInjective
<1>8. IsFiniteSet(1..Cardinality(K)) /\ Cardinality(1..Cardinality(K)) = Cardinality(K)
      BY <1>2, FS_Interval
<1>9. f \in Surjection(K, 1..Cardinality(K))
      BY <1>2, <1>7, <1>8, FS_Injection
<1>10. \A n \in 1..Cardinality(K) : \E i \in K : rank(i) = n
      BY <1>9 DEF Surjection
<1> DEFINE number(i) == Gaps!Cardinality(upto(i))
<1>11. \A n : Gaps!Nth(K, n) = CHOOSE i \in K : number(i) = n
       BY DEF Gaps!Nth
<1>c. Gaps!Cardinality(K) = Cardinality(K) /\ \A i : number(i) = rank(i)
       BY SameCardinality
<1> HIDE DEF rank, number
<1>12. \A n \in 1..Cardinality(K) : Gaps!Nth(K, n) \in K /\ rank(Gaps!Nth(K, n)) = n
  <2>1. \A n \in 1..Cardinality(K) : \E i \in K : number(i) = n
        BY <1>10, <1>c
  <2>2. \A n \in 1..Cardinality(K) : Gaps!Nth(K, n) \in K /\ number(Gaps!Nth(K, n)) = n
        BY <1>11, <2>1
  <2>3. QED
        BY <1>c, <2>2
<1>13. ASSUME NEW n \in 1..Cardinality(K), NEW o \in 1..Cardinality(K), n < o
       PROVE  Gaps!Nth(K, n) < Gaps!Nth(K, o)
       BY <1>5, <1>12, <1>13
<1>14. ASSUME NEW k \in K PROVE \E n \in 1..Cardinality(K) : Gaps!Nth(K, n) = k
  <2>1. rank(k) \in 1..Cardinality(K)
        BY <1>3 DEF rank
  <2>2. Gaps!Nth(K, rank(k)) \in K /\ rank(Gaps!Nth(K, rank(k))) = rank(k)
        BY <1>12, <2>1
  <2>3. Gaps!Nth(K, rank(k)) = k
        BY <1>6, <2>2
  <2>4. QED
        BY <2>1, <2>3
<1>15. QED
       BY <1>2, <1>12, <1>13, <1>14, <1>c

-----------------------------------------------------------------------------
(***************************************************************************)
(* Spans of minutes, and sequences of them: what they cover, and whether   *)
(* they are in order.                                                      *)
(***************************************************************************)
Spans == {r \in [from : Gaps!RecentMinutes, to : 2 .. (LastMinute + 1)] : r.from < r.to}
Covered(s) == UNION {Gaps!MinutesOf(s[i]) : i \in DOMAIN s}
Ordered(s) == \A i, j \in DOMAIN s : i < j => s[i].to <= s[j].from

LEMMA SpanFields ==
    ASSUME NEW r \in Spans
    PROVE  /\ r.from \in Int /\ r.to \in Int
           /\ 1 <= r.from /\ r.from < r.to /\ r.to <= LastMinute + 1
           /\ r.from \in Gaps!RecentMinutes
           /\ Gaps!MinutesOf(r) = r.from .. (r.to - 1)
           /\ r = [from |-> r.from, to |-> r.to]
BY GapsAssumption DEF Spans, Gaps!MinutesOf, Gaps!RepairAssumption, Gaps!RecentMinutes

LEMMA SpanMade ==
    ASSUME NEW a \in Int, NEW b \in Int, 1 <= a, a < b, b <= LastMinute + 1
    PROVE  [from |-> a, to |-> b] \in Spans
<1>1. LastMinute \in Nat
      BY GapsAssumption DEF Gaps!RepairAssumption
<1>2. a \in Gaps!RecentMinutes /\ b \in 2 .. (LastMinute + 1)
      BY <1>1 DEF Gaps!RecentMinutes
<1>3. QED
      BY <1>2 DEF Spans

\* Taking the first span of a sequence,
LEMMA TailCovers ==
    ASSUME NEW s \in Seq(Spans), s # <<>>
    PROVE  /\ Head(s) \in Spans /\ Tail(s) \in Seq(Spans)
           /\ Covered(s) = Gaps!MinutesOf(Head(s)) \cup Covered(Tail(s))
           /\ Ordered(s) => /\ Ordered(Tail(s))
                            /\ \A i \in DOMAIN Tail(s) : Head(s).to <= Tail(s)[i].from
<1>1. /\ DOMAIN s = 1..Len(s) /\ Len(s) \in Nat \ {0} /\ Head(s) = s[1]
      /\ DOMAIN Tail(s) = 1..(Len(s) - 1)
      /\ Tail(s) \in Seq(Spans) /\ Head(s) \in Spans
      OBVIOUS
<1>2. \A i \in 1..(Len(s) - 1) : Tail(s)[i] = s[i + 1] /\ i + 1 \in 1..Len(s)
      BY <1>1
<1>3. \A i \in 1..Len(s) : i = 1 \/ (i - 1 \in 1..(Len(s) - 1) /\ (i - 1) + 1 = i)
      BY <1>1
<1>4. 1 \in 1..Len(s)
      BY <1>1
<1>5. ASSUME NEW i \in 1..Len(s), i # 1 PROVE \E j \in DOMAIN Tail(s) : Tail(s)[j] = s[i]
      BY <1>1, <1>2, <1>3, <1>5
<1>6. ASSUME NEW x \in Covered(s) PROVE x \in Gaps!MinutesOf(Head(s)) \cup Covered(Tail(s))
  <2>1. PICK i \in 1..Len(s) : x \in Gaps!MinutesOf(s[i])
        BY <1>1 DEF Covered
  <2>2. CASE i = 1
        BY <1>1, <2>1, <2>2
  <2>3. CASE i # 1
        BY <1>5, <2>1, <2>3 DEF Covered
  <2>4. QED
        BY <2>2, <2>3
<1>7. ASSUME NEW x \in Gaps!MinutesOf(Head(s)) PROVE x \in Covered(s)
      BY <1>1, <1>4 DEF Covered
<1>8. ASSUME NEW x \in Covered(Tail(s)) PROVE x \in Covered(s)
  <2>1. PICK i \in 1..(Len(s) - 1) : x \in Gaps!MinutesOf(Tail(s)[i])
        BY <1>1 DEF Covered
  <2>2. x \in Gaps!MinutesOf(s[i + 1]) /\ i + 1 \in DOMAIN s
        BY <1>1, <1>2, <2>1
  <2>3. QED
        BY <2>2 DEF Covered
<1>9. ASSUME Ordered(s) PROVE Ordered(Tail(s))
  <2>1. ASSUME NEW i \in DOMAIN Tail(s), NEW j \in DOMAIN Tail(s), i < j
        PROVE  Tail(s)[i].to <= Tail(s)[j].from
    <3>1. i + 1 \in DOMAIN s /\ j + 1 \in DOMAIN s /\ i + 1 < j + 1
          BY <1>1, <1>2, <2>1
    <3>2. s[i + 1].to <= s[j + 1].from
          BY <1>9, <3>1 DEF Ordered
    <3>3. QED
          BY <1>1, <1>2, <3>2
  <2>2. QED
        BY <2>1 DEF Ordered
<1>10. ASSUME Ordered(s), NEW i \in DOMAIN Tail(s) PROVE Head(s).to <= Tail(s)[i].from
  <2>1. i + 1 \in DOMAIN s /\ 1 \in DOMAIN s /\ 1 < i + 1
        BY <1>1, <1>2
  <2>2. s[1].to <= s[i + 1].from
        BY <1>10, <2>1 DEF Ordered
  <2>3. QED
        BY <1>1, <1>2, <2>2
<1>11. QED
       BY <1>1, <1>6, <1>7, <1>8, <1>9, <1>10

\* and putting one in front of it.
LEMMA FrontCovers ==
    ASSUME NEW s \in Seq(Spans), Ordered(s), NEW r \in Spans,
           \A i \in DOMAIN s : r.to <= s[i].from,
           NEW f, f = <<r>> \o s
    PROVE  /\ f \in Seq(Spans) /\ Len(f) = Len(s) + 1
           /\ Ordered(f) /\ Covered(f) = Gaps!MinutesOf(r) \cup Covered(s)
           /\ \A b \in Int : b <= r.from => \A i \in DOMAIN f : b <= f[i].from
<1>1. /\ f \in Seq(Spans) /\ f # <<>> /\ Head(f) = r /\ Tail(f) = s
      /\ Len(f) = Len(s) + 1 /\ Len(s) \in Nat /\ DOMAIN s = 1..Len(s)
      OBVIOUS
<1>2. DOMAIN f = 1..(Len(s) + 1) /\ f[1] = r /\ \A i \in 2..(Len(s) + 1) : f[i] = s[i - 1]
      OBVIOUS
<1>3. Covered(f) = Gaps!MinutesOf(r) \cup Covered(s)
      BY <1>1, TailCovers
<1>4. \A i \in 1..(Len(s) + 1) : i = 1 \/ (i \in 2..(Len(s) + 1) /\ i - 1 \in 1..Len(s))
      BY <1>1
<1>5. ASSUME NEW i \in 1..(Len(s) + 1), NEW j \in 1..(Len(s) + 1), i < j
      PROVE  f[i].to <= f[j].from
  <2>1. j # 1 /\ j - 1 \in 1..Len(s) /\ f[j] = s[j - 1]
        BY <1>1, <1>2, <1>4, <1>5
  <2>2. CASE i = 1
        BY <1>1, <1>2, <2>1, <2>2
  <2>3. CASE i # 1
    <3>1. i - 1 \in 1..Len(s) /\ f[i] = s[i - 1] /\ i - 1 < j - 1
          BY <1>1, <1>2, <1>4, <1>5, <2>3
    <3>2. QED
          BY <1>1, <2>1, <3>1 DEF Ordered
  <2>4. QED
        BY <2>2, <2>3
<1>6. ASSUME NEW b \in Int, b <= r.from, NEW i \in 1..(Len(s) + 1) PROVE b <= f[i].from
  <2>1. CASE i = 1
        BY <1>2, <1>6, <2>1
  <2>2. CASE i # 1
    <3>1. i - 1 \in 1..Len(s) /\ f[i] = s[i - 1]
          BY <1>2, <1>4, <2>2
    <3>2. s[i - 1] \in Spans /\ r.to <= s[i - 1].from
          BY <1>1, <3>1
    <3>3. QED
          BY <1>6, <3>1, <3>2, SpanFields
  <2>3. QED
        BY <2>1, <2>2
<1>7. Ordered(f)
      BY <1>2, <1>5, Zenon DEF Ordered
<1>8. QED
      BY <1>1, <1>2, <1>3, <1>6, <1>7

(***************************************************************************)
(* The plan: the gaps of a market are in order and cover all it misses.    *)
(***************************************************************************)
Missing(m) == Gaps!RecentMinutes \ gStored[m]

LEMMA GapIs ==
    ASSUME NEW m, gStored[m] \in SUBSET Gaps!RecentMinutes, NEW a \in Gaps!GapStarts(m)
    PROVE  LET g == Gaps!GapFrom(m, a)
           IN  /\ g \in Spans /\ g.from = a
               /\ Gaps!MinutesOf(g) \cap gStored[m] = {}
               /\ g.to = LastMinute + 1 \/ g.to \in gStored[m]
<1> DEFINE T == {n \in gStored[m] : n > a} \cup {LastMinute + 1}
           g == Gaps!GapFrom(m, a)
<1>1. LastMinute \in Nat /\ a \in Gaps!RecentMinutes /\ a \notin gStored[m]
      BY GapsAssumption DEF Gaps!RepairAssumption, Gaps!GapStarts
<1>2. T \in SUBSET Nat /\ T # {}
      BY <1>1 DEF Gaps!RecentMinutes
<1>3. Gaps!Min(T) \in T /\ \A k \in T : Gaps!Min(T) <= k
      BY <1>2, Least
<1>4. g = [from |-> a, to |-> Gaps!Min(T)]
      BY DEF Gaps!GapFrom
<1>5. Gaps!Min(T) = LastMinute + 1 \/ (Gaps!Min(T) \in gStored[m] /\ Gaps!Min(T) > a)
      BY <1>3
<1> HIDE DEF g
<1>6. a \in Int /\ 1 <= a /\ a <= LastMinute /\ Gaps!Min(T) \in Int
      BY <1>1, <1>2, <1>3 DEF Gaps!RecentMinutes
<1>7. \A n \in gStored[m] : n \in Int /\ 1 <= n /\ n <= LastMinute
      BY <1>1 DEF Gaps!RecentMinutes
<1>8. a < Gaps!Min(T) /\ Gaps!Min(T) <= LastMinute + 1
      BY <1>1, <1>5, <1>6, <1>7
<1>9. ASSUME NEW n \in a .. (Gaps!Min(T) - 1) PROVE n \notin gStored[m]
  <2>1. n \in Int /\ a <= n /\ n < Gaps!Min(T)
        BY <1>6
  <2>2. n = a \/ n > a
        BY <1>6, <2>1
  <2>3. n \in T => Gaps!Min(T) <= n
        BY <1>3
  <2>4. n \in gStored[m] /\ n > a => n \in T
        OBVIOUS
  <2> HIDE DEF T
  <2>5. n \notin T
        BY <1>6, <2>1, <2>3
  <2>6. QED
        BY <1>1, <2>2, <2>4, <2>5
<1>10. g \in Spans
       BY <1>4, <1>6, <1>8, SpanMade
<1>11. QED
       BY <1>4, <1>5, <1>9, <1>10 DEF g, Gaps!MinutesOf

LEMMA GapsAre ==
    ASSUME NEW m, gStored[m] \in SUBSET Gaps!RecentMinutes
    PROVE  /\ Gaps!GapsOf(m) \in Seq(Spans)
           /\ Ordered(Gaps!GapsOf(m))
           /\ Missing(m) \subseteq Covered(Gaps!GapsOf(m))
<1> DEFINE S == Gaps!GapStarts(m)
           gaps == Gaps!GapsOf(m)
<1>1. LastMinute \in Nat /\ S \in SUBSET (1..LastMinute)
      BY GapsAssumption DEF Gaps!RepairAssumption, Gaps!GapStarts, Gaps!RecentMinutes
<1>2. /\ Gaps!Cardinality(S) \in Nat
      /\ \A n \in 1..Gaps!Cardinality(S) : Gaps!Nth(S, n) \in S
      /\ \A n, o \in 1..Gaps!Cardinality(S) : n < o => Gaps!Nth(S, n) < Gaps!Nth(S, o)
      /\ \A k \in S : \E n \in 1..Gaps!Cardinality(S) : Gaps!Nth(S, n) = k
      BY <1>1, NthOf
<1>3. gaps = [n \in 1..Gaps!Cardinality(S) |-> Gaps!GapFrom(m, Gaps!Nth(S, n))]
      BY DEF Gaps!GapsOf
<1> HIDE DEF gaps
<1>4. \A a \in S : /\ Gaps!GapFrom(m, a) \in Spans /\ Gaps!GapFrom(m, a).from = a
                   /\ Gaps!MinutesOf(Gaps!GapFrom(m, a)) \cap gStored[m] = {}
                   /\ \/ Gaps!GapFrom(m, a).to = LastMinute + 1
                      \/ Gaps!GapFrom(m, a).to \in gStored[m]
      BY GapIs
<1> HIDE DEF S
<1>5. DOMAIN gaps = 1..Gaps!Cardinality(S)
      BY <1>3
<1>6. \A n \in 1..Gaps!Cardinality(S) : gaps[n] = Gaps!GapFrom(m, Gaps!Nth(S, n))
      BY <1>3
<1>7. gaps \in Seq(Spans)
  <2>1. \A n \in 1..Gaps!Cardinality(S) : Gaps!GapFrom(m, Gaps!Nth(S, n)) \in Spans
        BY <1>2, <1>4
  <2>2. gaps \in [1..Gaps!Cardinality(S) -> Spans]
        BY <1>3, <2>1
  <2>3. QED
        BY <1>2, <2>2
<1>8. ASSUME NEW a \in S, NEW b \in S, a < b PROVE Gaps!GapFrom(m, a).to <= b
  <2> DEFINE g == Gaps!GapFrom(m, a)
  <2>1. /\ g \in Spans /\ g.from = a /\ Gaps!MinutesOf(g) \cap gStored[m] = {}
        BY <1>4
  <2> HIDE DEF g
  <2>2. /\ a \in Int /\ b \in Int /\ 1 <= a /\ a \notin gStored[m] /\ b <= LastMinute
        /\ b = 1 \/ b - 1 \in gStored[m]
        BY <1>1 DEF S, Gaps!GapStarts, Gaps!RecentMinutes
  <2>3. b - 1 \in gStored[m] /\ a <= b - 1
        BY <1>8, <2>2
  <2>4. b - 1 \notin a .. (g.to - 1)
        BY <2>1, <2>3 DEF Gaps!MinutesOf
  <2>5. g.to \in Int
        BY <2>1, SpanFields
  <2>6. g.to <= b
        BY <2>2, <2>3, <2>4, <2>5
  <2>7. QED
        BY <2>6 DEF g
<1>9. Ordered(gaps)
  <2>1. ASSUME NEW i \in 1..Gaps!Cardinality(S), NEW j \in 1..Gaps!Cardinality(S), i < j
        PROVE  gaps[i].to <= gaps[j].from
    <3>1. Gaps!Nth(S, i) \in S /\ Gaps!Nth(S, j) \in S /\ Gaps!Nth(S, i) < Gaps!Nth(S, j)
          BY <1>2, <2>1
    <3>2. Gaps!GapFrom(m, Gaps!Nth(S, i)).to <= Gaps!Nth(S, j)
          /\ Gaps!GapFrom(m, Gaps!Nth(S, j)).from = Gaps!Nth(S, j)
          BY <1>4, <1>8, <3>1
    <3>3. QED
          BY <1>6, <3>2
  <2>2. QED
        BY <1>5, <2>1, Zenon DEF Ordered
<1>10. ASSUME NEW x \in Missing(m) PROVE x \in Covered(gaps)
  <2> DEFINE T == {s \in 1..x : \A y \in s..x : y \notin gStored[m]}
  <2>1. x \in Int /\ 1 <= x /\ x <= LastMinute /\ x \notin gStored[m]
        BY <1>1 DEF Missing, Gaps!RecentMinutes
  <2>2. x \in T /\ T \in SUBSET Nat
        BY <2>1
  <2>3. Gaps!Min(T) \in T /\ \A k \in T : Gaps!Min(T) <= k
        BY <2>2, Least
  <2>4. PICK a \in T : \A k \in T : a <= k
        BY <2>3
  <2>5. a \in Int /\ 1 <= a /\ a <= x /\ \A y \in a..x : y \notin gStored[m]
        BY <2>1
  <2>6. a = 1 \/ a - 1 \in gStored[m]
    <3>1. SUFFICES ASSUME a # 1, a - 1 \notin gStored[m] PROVE FALSE
          OBVIOUS
    <3>2. a - 1 \in 1..x
          BY <2>1, <2>5, <3>1
    <3>3. \A y \in (a - 1)..x : y = a - 1 \/ y \in a..x
          BY <2>1, <2>5
    <3>4. a - 1 \in T
          BY <2>5, <3>1, <3>2, <3>3
    <3>5. a <= a - 1
          BY <2>4, <3>4
    <3>6. QED
          BY <2>5, <3>5
  <2>7. a \in S
    <3>1. a \in 1..LastMinute /\ a \in a..x
          BY <1>1, <2>1, <2>5
    <3>2. QED
          BY <2>5, <2>6, <3>1 DEF S, Gaps!GapStarts, Gaps!RecentMinutes
  <2>8. PICK n \in 1..Gaps!Cardinality(S) : Gaps!Nth(S, n) = a
        BY <1>2, <2>7
  <2>9. /\ gaps[n] \in Spans /\ gaps[n].from = a
        /\ gaps[n].to = LastMinute + 1 \/ gaps[n].to \in gStored[m]
        BY <1>4, <1>6, <2>7, <2>8
  <2>10. gaps[n].to \in Int /\ a < gaps[n].to
         BY <2>9, SpanFields
  <2>11. x < gaps[n].to
    <3>1. CASE gaps[n].to = LastMinute + 1
          BY <1>1, <2>1, <3>1
    <3>2. CASE gaps[n].to \in gStored[m]
      <4>1. gaps[n].to \notin a..x
            BY <2>5, <3>2
      <4>2. QED
            BY <2>1, <2>5, <2>10, <4>1
    <3>3. QED
          BY <2>9, <3>1, <3>2
  <2>12. x \in a .. (gaps[n].to - 1)
         BY <2>1, <2>5, <2>10, <2>11
  <2>13. x \in Gaps!MinutesOf(gaps[n])
         BY <2>9, <2>12 DEF Gaps!MinutesOf
  <2>14. QED
         BY <1>5, <2>13 DEF Covered
<1>11. QED
       BY <1>7, <1>9, <1>10 DEF gaps

-----------------------------------------------------------------------------
(***************************************************************************)
(* The invariant of the passes.  The markets of the plan wait, each once,  *)
(* unasked and with all they miss still to be covered.  Of the market      *)
(* under way, what was planned is answered for, covered by the spans left, *)
(* or in the chunk taken up; and what was asked for and what is still      *)
(* allowed, which is reduced when a chunk is done with, stay within the    *)
(* allowance.                                                              *)
(***************************************************************************)
Plans == [market : Gaps!MarketSet, ranges : Seq(Spans)]
Verdicts == [status : {"starting", "live", "gapped", "error"}, gaps : Nat]
LiveIsWhole(v) == v.status = "live" <=> v.gaps = 0 /\ v.status # "starting"

RepairTypes ==
    /\ gStored \in [Gaps!MarketSet -> SUBSET Gaps!RecentMinutes]
    /\ gRow \in [Gaps!MarketSet -> {v \in Verdicts : LiveIsWhole(v)}]
    /\ gTodo \in Seq(Plans)
    /\ gRemaining \in Seq(Spans)
    /\ gAllowed \in 0 .. Allowance
    /\ gChunk \in [start : Nat, to : Nat, at : Nat]
    /\ gPhase \in {"idle", "market", "range", "page"}
    /\ gPlanned \in [Gaps!MarketSet -> SUBSET Gaps!RecentMinutes]
    /\ gSettled \in [Gaps!MarketSet -> SUBSET Int]
    /\ gAsked \in [Gaps!MarketSet -> 0 .. Allowance]

AtMarket == gPhase \in {"range", "page"}

TodoInv ==
    /\ \A i, j \in DOMAIN gTodo : gTodo[i].market = gTodo[j].market => i = j
    /\ \A i \in DOMAIN gTodo :
          /\ Ordered(gTodo[i].ranges)
          /\ (i # 1 \/ ~AtMarket) =>
                /\ gAsked[gTodo[i].market] = 0
                /\ gPlanned[gTodo[i].market] \subseteq Covered(gTodo[i].ranges)

\* The minutes of the market under way that have been answered for or are still to do.
Left == gSettled[Gaps!Current] \cup Covered(gRemaining)

MarketInv ==
    /\ Ordered(gRemaining)
    /\ AtMarket => gTodo # <<>>
    /\ gPhase = "range" =>
          /\ gAsked[Gaps!Current] + gAllowed <= Allowance
          /\ gPlanned[Gaps!Current] \subseteq Left
    /\ gPhase = "page" =>
          /\ 1 <= gChunk.start /\ gChunk.start <= gChunk.at
          /\ gChunk.at < gChunk.to /\ gChunk.to <= LastMinute + 1
          /\ gChunk.to - gChunk.start <= gAllowed
          /\ gAsked[Gaps!Current] + gAllowed - (gChunk.at - gChunk.start) <= Allowance
          /\ \A i \in DOMAIN gRemaining : gChunk.to <= gRemaining[i].from
          /\ gPlanned[Gaps!Current] \subseteq Left \cup (gChunk.at .. (gChunk.to - 1))

RepairInv == RepairTypes /\ TodoInv /\ MarketInv

LEMMA RepairBounds ==
    /\ LastMinute \in Nat /\ Allowance \in Nat
    /\ PageMinutes \in Nat /\ PageMinutes > 0
    /\ Markets \in Seq(Gaps!MarketSet)
BY GapsAssumption DEF Gaps!RepairAssumption

LEMMA NoneOrdered == Ordered(<<>>) /\ Covered(<<>>) = {} /\ <<>> \in Seq(Spans)
BY DEF Ordered, Covered

LEMMA HeadMarket ==
    ASSUME RepairInv, gTodo # <<>>
    PROVE  /\ Gaps!Current \in Gaps!MarketSet /\ Gaps!Current = gTodo[1].market
           /\ 1 \in DOMAIN gTodo
           /\ Head(gTodo).ranges \in Seq(Spans) /\ Ordered(Head(gTodo).ranges)
           /\ Head(gTodo) = gTodo[1]
<1>1. Head(gTodo) = gTodo[1] /\ 1 \in DOMAIN gTodo /\ Head(gTodo) \in Plans
      BY DEF RepairInv, RepairTypes
<1>2. QED
      BY <1>1 DEF Gaps!Current, Plans, RepairInv, TodoInv

LEMMA RepairInitially == Gaps!Init => RepairInv
<1> SUFFICES ASSUME Gaps!Init PROVE RepairInv
    OBVIOUS
<1>1. gRow \in [Gaps!MarketSet -> {v \in Verdicts : LiveIsWhole(v)}]
      BY DEF Gaps!Init, Verdicts, LiveIsWhole
<1>2. RepairTypes
      BY <1>1, RepairBounds, NoneOrdered DEF Gaps!Init, RepairTypes, Gaps!NoChunk
<1>3. QED
      BY <1>2, NoneOrdered DEF Gaps!Init, RepairInv, TodoInv, MarketInv, AtMarket

\* A step inside the market under way leaves the others as they wait.
LEMMA OthersWait ==
    ASSUME RepairInv, AtMarket, AtMarket', gTodo' = gTodo, gPlanned' = gPlanned,
           NEW x, gAsked' = [gAsked EXCEPT ![Gaps!Current] = x]
    PROVE  TodoInv'
<1>1. gTodo # <<>>
      BY DEF RepairInv, MarketInv
<1>2. Gaps!Current = gTodo[1].market /\ 1 \in DOMAIN gTodo
      BY <1>1, HeadMarket
<1>3. \A i \in DOMAIN gTodo : i # 1 => gTodo[i].market # Gaps!Current
      BY <1>2 DEF RepairInv, TodoInv
<1>4. \A i \in DOMAIN gTodo : gTodo[i].market \in Gaps!MarketSet
  <2>1. \A i \in DOMAIN gTodo : gTodo[i] \in Plans
        BY DEF RepairInv, RepairTypes
  <2>2. QED
        BY <2>1 DEF Plans
<1>5. \A i \in DOMAIN gTodo : i # 1 => gAsked'[gTodo[i].market] = gAsked[gTodo[i].market]
      BY <1>3, <1>4 DEF RepairInv, RepairTypes
<1>6. QED
      BY <1>5 DEF RepairInv, TodoInv

LEMMA StartPassKeeps == RepairInv /\ Gaps!StartPass => RepairInv'
<1> SUFFICES ASSUME RepairInv, Gaps!StartPass PROVE RepairInv'
    OBVIOUS
<1> USE DEF RepairInv
<1>1. DOMAIN Markets = 1..Len(Markets) /\ Len(Markets) \in Nat
      BY RepairBounds
<1>2. Gaps!Gapped \in SUBSET (1..Len(Markets))
      BY <1>1 DEF Gaps!Gapped
<1>3. /\ Gaps!Cardinality(Gaps!Gapped) \in Nat
      /\ \A n \in 1..Gaps!Cardinality(Gaps!Gapped) : Gaps!Nth(Gaps!Gapped, n) \in Gaps!Gapped
      /\ \A n, o \in 1..Gaps!Cardinality(Gaps!Gapped) :
            n < o => Gaps!Nth(Gaps!Gapped, n) < Gaps!Nth(Gaps!Gapped, o)
      BY <1>1, <1>2, NthOf
<1>4. \A m \in Gaps!MarketSet : /\ Gaps!GapsOf(m) \in Seq(Spans) /\ Ordered(Gaps!GapsOf(m))
                           /\ Missing(m) \subseteq Covered(Gaps!GapsOf(m))
      BY GapsAre DEF RepairTypes
<1>5. \A i \in DOMAIN Markets : Markets[i] \in Gaps!MarketSet
      BY <1>1, RepairBounds
<1>6. \A i, j \in DOMAIN Markets : Markets[i] = Markets[j] => i = j
      BY GapsAssumption DEF Gaps!RepairAssumption
<1> DEFINE at(n) == Markets[Gaps!Nth(Gaps!Gapped, n)]
<1>7. \A n \in 1..Gaps!Cardinality(Gaps!Gapped) : at(n) \in Gaps!MarketSet
      BY <1>1, <1>2, <1>3, <1>5
<1>8. \A n, o \in 1..Gaps!Cardinality(Gaps!Gapped) : at(n) = at(o) => n = o
  <2>1. ASSUME NEW n \in 1..Gaps!Cardinality(Gaps!Gapped),
               NEW o \in 1..Gaps!Cardinality(Gaps!Gapped), at(n) = at(o)
        PROVE  n = o
    <3>1. Gaps!Nth(Gaps!Gapped, n) = Gaps!Nth(Gaps!Gapped, o)
          BY <1>1, <1>2, <1>3, <1>6, <2>1
    <3>2. ~(n < o) /\ ~(o < n)
      <4>1. Gaps!Nth(Gaps!Gapped, n) \in Gaps!Gapped /\ Gaps!Nth(Gaps!Gapped, o) \in Gaps!Gapped
            BY <1>3
      <4>2. \A k \in 1..Len(Markets) : k \in Int
            BY <1>1
      <4>3. Gaps!Nth(Gaps!Gapped, n) \in Int /\ Gaps!Nth(Gaps!Gapped, o) \in Int
            BY <1>2, <4>1, <4>2
      <4>4. QED
            BY <1>3, <3>1, <4>3
    <3>3. QED
          BY <1>3, <3>2
  <2>2. QED
        BY <2>1
<1> HIDE DEF at
<1>9. gTodo' = [n \in 1..Gaps!Cardinality(Gaps!Gapped) |-> Gaps!PlanOf(at(n))]
      BY DEF Gaps!StartPass, at
<1>10. \A n \in 1..Gaps!Cardinality(Gaps!Gapped) :
          /\ Gaps!PlanOf(at(n)) \in Plans
          /\ Gaps!PlanOf(at(n)).market = at(n)
          /\ Gaps!PlanOf(at(n)).ranges = Gaps!GapsOf(at(n))
       BY <1>4, <1>7 DEF Gaps!PlanOf, Plans
<1>11. gTodo' \in Seq(Plans) /\ DOMAIN gTodo' = 1..Gaps!Cardinality(Gaps!Gapped)
  <2>1. gTodo' \in [1..Gaps!Cardinality(Gaps!Gapped) -> Plans]
        BY <1>9, <1>10
  <2>2. QED
        BY <1>3, <2>1
<1>12. \A n \in DOMAIN gTodo' : gTodo'[n].market = at(n) /\ gTodo'[n].ranges = Gaps!GapsOf(at(n))
       BY <1>9, <1>10, <1>11
<1>13. gPhase' = "market" /\ ~AtMarket'
       BY DEF Gaps!StartPass, AtMarket
<1>14. TodoInv'
  <2>1. \A m \in Gaps!MarketSet : gAsked'[m] = 0 /\ gPlanned'[m] = Missing(m)
        BY DEF Gaps!StartPass, Missing
  <2>2. ASSUME NEW i \in DOMAIN gTodo'
        PROVE  /\ Ordered(gTodo'[i].ranges)
               /\ gAsked'[gTodo'[i].market] = 0
               /\ gPlanned'[gTodo'[i].market] \subseteq Covered(gTodo'[i].ranges)
        BY <1>4, <1>7, <1>11, <1>12, <2>1
  <2>3. ASSUME NEW i \in DOMAIN gTodo', NEW j \in DOMAIN gTodo', gTodo'[i].market = gTodo'[j].market
        PROVE  i = j
        BY <1>8, <1>11, <1>12, <2>3
  <2>4. QED
        BY <2>2, <2>3 DEF TodoInv
<1>15. MarketInv'
       BY <1>13 DEF Gaps!StartPass, MarketInv, Ordered
<1>16. RepairTypes'
  <2>1. gPlanned' \in [Gaps!MarketSet -> SUBSET Gaps!RecentMinutes]
        BY DEF Gaps!StartPass
  <2>2. gSettled' \in [Gaps!MarketSet -> SUBSET Int]
        BY DEF Gaps!StartPass
  <2>3. gAsked' \in [Gaps!MarketSet -> 0 .. Allowance]
        BY RepairBounds DEF Gaps!StartPass
  <2>4. QED
        BY <1>11, <1>13, <2>1, <2>2, <2>3 DEF Gaps!StartPass, RepairTypes
<1>17. QED
       BY <1>14, <1>15, <1>16

LEMMA TakeMarketKeeps == RepairInv /\ Gaps!TakeMarket => RepairInv'
<1> SUFFICES ASSUME RepairInv, Gaps!TakeMarket PROVE RepairInv'
    OBVIOUS
<1> USE DEF RepairInv
<1>1. /\ Gaps!Current \in Gaps!MarketSet /\ Gaps!Current = gTodo[1].market
      /\ 1 \in DOMAIN gTodo
      /\ Head(gTodo).ranges \in Seq(Spans) /\ Ordered(Head(gTodo).ranges)
      /\ Head(gTodo) = gTodo[1]
      BY HeadMarket DEF Gaps!TakeMarket
<1>2. /\ gRemaining' = Head(gTodo).ranges /\ gAllowed' = Allowance /\ gPhase' = "range"
      /\ gTodo' = gTodo /\ gPlanned' = gPlanned /\ gSettled' = gSettled /\ gAsked' = gAsked
      /\ gPhase = "market" /\ gTodo # <<>>
      BY DEF Gaps!TakeMarket
<1>3. RepairTypes'
      BY <1>1, <1>2, RepairBounds DEF Gaps!TakeMarket, RepairTypes
<1>4. TodoInv'
      BY <1>2 DEF TodoInv, AtMarket
<1>5. gAsked[Gaps!Current] = 0 /\ gPlanned[Gaps!Current] \subseteq Covered(Head(gTodo).ranges)
      BY <1>1, <1>2 DEF TodoInv, AtMarket
<1>6. Gaps!Current' = Gaps!Current
      BY <1>2 DEF Gaps!Current
<1>7. gAsked'[Gaps!Current'] + gAllowed' <= Allowance
      BY <1>2, <1>5, <1>6, RepairBounds
<1>8. gPlanned'[Gaps!Current'] \subseteq Left'
      BY <1>2, <1>5, <1>6 DEF Left
<1>9. Ordered(gRemaining')
      BY <1>1, <1>2
<1>10. MarketInv'
       BY <1>2, <1>7, <1>8, <1>9 DEF MarketInv, AtMarket
<1>11. QED
       BY <1>3, <1>4, <1>10

LEMMA EndPassKeeps == RepairInv /\ Gaps!EndPass => RepairInv'
<1> SUFFICES ASSUME RepairInv, Gaps!EndPass PROVE RepairInv'
    OBVIOUS
<1>1. RepairTypes'
      BY DEF Gaps!EndPass, RepairInv, RepairTypes
<1>2. TodoInv'
      BY DEF Gaps!EndPass, RepairInv, TodoInv
<1>3. MarketInv'
      BY DEF Gaps!EndPass, RepairInv, MarketInv, AtMarket
<1>4. QED
      BY <1>1, <1>2, <1>3 DEF RepairInv

LEMMA TakeRangeKeeps == RepairInv /\ Gaps!TakeRange => RepairInv'
<1> SUFFICES ASSUME RepairInv, Gaps!TakeRange PROVE RepairInv'
    OBVIOUS
<1> USE DEF RepairInv
<1> SUFFICES ASSUME NEW CONSTANT range, range = Head(gRemaining),
                    NEW CONSTANT to, to = Gaps!Bounded(range),
                    NEW CONSTANT rest, rest = Tail(gRemaining)
             PROVE  RepairInv'
    OBVIOUS
<1>1. /\ gPhase = "range" /\ gRemaining # <<>> /\ gAllowed > 0
      /\ gRemaining' = Gaps!PutBackRest(range, to)
      /\ gChunk' = [start |-> range.from, to |-> to, at |-> range.from]
      /\ gPhase' = "page" /\ gTodo' = gTodo /\ gAllowed' = gAllowed
      /\ gPlanned' = gPlanned /\ gSettled' = gSettled /\ gAsked' = gAsked
      /\ gStored' = gStored /\ gRow' = gRow
      BY DEF Gaps!TakeRange
<1>2. /\ range \in Spans /\ rest \in Seq(Spans)
      /\ Covered(gRemaining) = Gaps!MinutesOf(range) \cup Covered(rest)
      /\ Ordered(rest) /\ \A i \in DOMAIN rest : range.to <= rest[i].from
      BY <1>1, TailCovers DEF RepairTypes, MarketInv
<1>3. /\ range.from \in Int /\ range.to \in Int
      /\ 1 <= range.from /\ range.from < range.to /\ range.to <= LastMinute + 1
      /\ Gaps!MinutesOf(range) = range.from .. (range.to - 1)
      BY <1>2, SpanFields
<1>4. /\ to \in Int /\ range.from < to /\ to <= range.to /\ to - range.from <= gAllowed
      BY <1>1, <1>3, RepairBounds DEF Gaps!Bounded, Gaps!Smaller, RepairTypes
<1>5. /\ gRemaining' \in Seq(Spans) /\ Ordered(gRemaining')
      /\ \A i \in DOMAIN gRemaining' : to <= gRemaining'[i].from
      /\ Covered(gRemaining) \subseteq (range.from .. (to - 1)) \cup Covered(gRemaining')
  <2>1. CASE to < range.to
    <3>1. PICK r : r = [from |-> to, to |-> range.to]
          OBVIOUS
    <3>2. r \in Spans /\ r.from = to /\ r.to = range.to
          BY <1>3, <1>4, <2>1, <3>1, SpanMade
    <3>3. \A i \in DOMAIN rest : r.to <= rest[i].from
          BY <1>2, <3>2
    <3>4. PICK front : front = <<r>> \o rest
          OBVIOUS
    <3>5. /\ front \in Seq(Spans) /\ Ordered(front)
          /\ Covered(front) = Gaps!MinutesOf(r) \cup Covered(rest)
          /\ \A b \in Int : b <= r.from => \A i \in DOMAIN front : b <= front[i].from
          BY <1>2, <3>2, <3>3, <3>4, FrontCovers
    <3>6. Gaps!MinutesOf(range) \subseteq (range.from .. (to - 1)) \cup Gaps!MinutesOf(r)
          BY <1>3, <1>4, <3>2 DEF Gaps!MinutesOf
    <3>7. \A i \in DOMAIN front : to <= front[i].from
          BY <1>4, <3>2, <3>5
    <3>8. gRemaining' = front
          BY <1>1, <2>1, <3>1, <3>4 DEF Gaps!PutBackRest
    <3>9. QED
          BY <1>2, <3>5, <3>6, <3>7, <3>8
  <2>2. CASE ~(to < range.to)
    <3>1. gRemaining' = rest /\ to = range.to
          BY <1>1, <1>3, <1>4, <2>2 DEF Gaps!PutBackRest
    <3>2. QED
          BY <1>2, <1>3, <3>1
  <2>3. QED
        BY <2>1, <2>2
<1>6. /\ gChunk' \in [start : Nat, to : Nat, at : Nat]
      /\ gChunk'.start = range.from /\ gChunk'.at = range.from /\ gChunk'.to = to
      BY <1>1, <1>3, <1>4
<1>7. RepairTypes'
      BY <1>1, <1>5, <1>6 DEF RepairTypes
<1>8. TodoInv'
      BY <1>1 DEF TodoInv, AtMarket
<1>9. Gaps!Current' = Gaps!Current /\ gTodo # <<>>
      BY <1>1 DEF Gaps!Current, MarketInv, AtMarket
<1>10. Gaps!Current \in Gaps!MarketSet /\ gAsked[Gaps!Current] \in Int
       BY <1>9, HeadMarket, RepairBounds DEF RepairTypes
<1>11. gAsked'[Gaps!Current'] + gAllowed' - (gChunk'.at - gChunk'.start) <= Allowance
  <2>1. gAsked[Gaps!Current] + gAllowed <= Allowance /\ gAllowed \in Int
        BY <1>1, RepairBounds DEF MarketInv, RepairTypes
  <2>2. gChunk'.at - gChunk'.start = 0
        BY <1>3, <1>6
  <2>3. QED
        BY <1>1, <1>9, <1>10, <2>1, <2>2, RepairBounds
<1>12. gPlanned'[Gaps!Current'] \subseteq Left' \cup (gChunk'.at .. (gChunk'.to - 1))
       BY <1>1, <1>5, <1>6, <1>9 DEF MarketInv, Left
<1>13. /\ 1 <= gChunk'.start /\ gChunk'.start <= gChunk'.at
       /\ gChunk'.at < gChunk'.to /\ gChunk'.to <= LastMinute + 1
       /\ gChunk'.to - gChunk'.start <= gAllowed'
       BY <1>1, <1>3, <1>4, <1>6, RepairBounds
<1>14. MarketInv'
       BY <1>1, <1>5, <1>6, <1>9, <1>11, <1>12, <1>13 DEF MarketInv, AtMarket
<1>15. QED
       BY <1>7, <1>8, <1>14

LEMMA TailPlans ==
    ASSUME NEW s \in Seq(Plans), s # <<>>
    PROVE  /\ Tail(s) \in Seq(Plans) /\ DOMAIN Tail(s) \in SUBSET Int
           /\ \A i \in DOMAIN Tail(s) :
                 i + 1 \in DOMAIN s /\ i + 1 # 1 /\ Tail(s)[i] = s[i + 1]
OBVIOUS

LEMMA FinishMarketKeeps == RepairInv /\ Gaps!FinishMarket => RepairInv'
<1> SUFFICES ASSUME RepairInv, Gaps!FinishMarket PROVE RepairInv'
    OBVIOUS
<1> USE DEF RepairInv
<1>1. /\ gPhase = "range" /\ gTodo # <<>> /\ AtMarket
      /\ gTodo' = Tail(gTodo) /\ gRemaining' = <<>> /\ gChunk' = Gaps!NoChunk
      /\ gPhase' = "market"
      /\ gStored' = gStored /\ gAllowed' = gAllowed /\ gPlanned' = gPlanned
      /\ gSettled' = gSettled /\ gAsked' = gAsked /\ ~AtMarket'
      BY DEF Gaps!FinishMarket, MarketInv, AtMarket
<1>2. Gaps!Current \in Gaps!MarketSet
      BY <1>1, HeadMarket
<1>3. gRow' \in [Gaps!MarketSet -> {v \in Verdicts : LiveIsWhole(v)}]
  <2> DEFINE v == [status |-> IF gRemaining = <<>> THEN "live" ELSE "gapped",
                   gaps |-> Len(gRemaining)]
  <2>1. Len(gRemaining) \in Nat /\ (Len(gRemaining) = 0 <=> gRemaining = <<>>)
        BY DEF RepairTypes
  <2>2. v \in Verdicts /\ LiveIsWhole(v)
        BY <2>1 DEF Verdicts, LiveIsWhole
  <2>3. gRow' = [gRow EXCEPT ![Gaps!Current] = v]
        BY DEF Gaps!FinishMarket
  <2> HIDE DEF v
  <2>4. QED
        BY <2>2, <2>3 DEF RepairTypes
<1>4. /\ Tail(gTodo) \in Seq(Plans)
      /\ \A i \in DOMAIN Tail(gTodo) :
            i + 1 \in DOMAIN gTodo /\ i + 1 # 1 /\ Tail(gTodo)[i] = gTodo[i + 1] /\ i \in Int
      BY <1>1, TailPlans DEF RepairTypes
<1>5. RepairTypes'
      BY <1>1, <1>3, <1>4, NoneOrdered DEF RepairTypes, Gaps!NoChunk
<1>6. TodoInv'
  <2>1. ASSUME NEW i \in DOMAIN Tail(gTodo), NEW j \in DOMAIN Tail(gTodo),
               Tail(gTodo)[i].market = Tail(gTodo)[j].market
        PROVE  i = j
    <3>1. i + 1 = j + 1
          BY <1>4, <2>1 DEF TodoInv
    <3>2. QED
          BY <1>4, <3>1
  <2>2. ASSUME NEW i \in DOMAIN Tail(gTodo)
        PROVE  /\ Ordered(Tail(gTodo)[i].ranges)
               /\ gAsked[Tail(gTodo)[i].market] = 0
               /\ gPlanned[Tail(gTodo)[i].market] \subseteq Covered(Tail(gTodo)[i].ranges)
        BY <1>4 DEF TodoInv
  <2>3. QED
        BY <1>1, <2>1, <2>2 DEF TodoInv
<1>7. MarketInv'
      BY <1>1, NoneOrdered DEF MarketInv
<1>8. QED
      BY <1>5, <1>6, <1>7

\* The sums of a page: start and end of the chunk, the page from at to end, what is left
\* of the allowance and what was used of it.
LEMMA Payments ==
    ASSUME NEW start \in Int, NEW at \in Int, NEW end \in Int, NEW to \in Int,
           NEW left \in Nat, NEW used \in Nat, NEW limit \in Nat, left <= limit,
           start <= at, at < end, end <= to, to - start <= left,
           used + left - (at - start) <= limit
    PROVE  /\ used + (end - at) \in 0 .. limit
           /\ used + (end - at) + left - (end - start) <= limit
           /\ left - (to - start) \in 0 .. limit
           /\ used + (end - at) + (left - (to - start)) <= limit
OBVIOUS

LEMMA PageIs ==
    ASSUME RepairInv, gPhase = "page"
    PROVE  /\ gChunk.at \in Int /\ gChunk.to \in Int /\ gChunk.start \in Int
           /\ Gaps!PageEnd \in Int /\ gChunk.at < Gaps!PageEnd /\ Gaps!PageEnd <= gChunk.to
           /\ 1 <= gChunk.at /\ gChunk.to <= LastMinute + 1
           /\ Gaps!Page = gChunk.at .. (Gaps!PageEnd - 1)
           /\ Gaps!Page \in SUBSET Gaps!RecentMinutes
           /\ gTodo # <<>> /\ Gaps!Current \in Gaps!MarketSet
           /\ gAsked[Gaps!Current] \in Nat /\ gAllowed \in Nat
           /\ Gaps!Ask => /\ gAsked' = [gAsked EXCEPT ![Gaps!Current] = @ + (Gaps!PageEnd - gChunk.at)]
                     /\ gAsked[Gaps!Current] + (Gaps!PageEnd - gChunk.at) \in 0 .. Allowance
           /\ Gaps!PageEnd \in Nat
           /\ gAsked[Gaps!Current] + (Gaps!PageEnd - gChunk.at) + gAllowed
                  - (Gaps!PageEnd - gChunk.start) <= Allowance
           /\ gAllowed - (gChunk.to - gChunk.start) \in 0 .. Allowance
           /\ gAsked[Gaps!Current] + (Gaps!PageEnd - gChunk.at) + (gAllowed - (gChunk.to - gChunk.start))
                  <= Allowance
<1> USE DEF RepairInv
<1>1. /\ gChunk.at \in Int /\ gChunk.to \in Int /\ gChunk.start \in Int
      /\ gTodo # <<>>
      /\ 1 <= gChunk.start /\ gChunk.start <= gChunk.at
      /\ gChunk.at < gChunk.to /\ gChunk.to <= LastMinute + 1
      /\ gChunk.to - gChunk.start <= gAllowed
      /\ gAsked[Gaps!Current] + gAllowed - (gChunk.at - gChunk.start) <= Allowance
      BY DEF RepairTypes, MarketInv, AtMarket
<1>2. Gaps!PageEnd \in Int /\ gChunk.at < Gaps!PageEnd /\ Gaps!PageEnd <= gChunk.to
      BY <1>1, RepairBounds DEF Gaps!PageEnd, Gaps!Smaller
<1>3. Gaps!Current \in Gaps!MarketSet
      BY <1>1, HeadMarket
<1>4. gAsked \in [Gaps!MarketSet -> 0 .. Allowance] /\ gAsked[Gaps!Current] \in Nat /\ gAllowed \in Nat
      BY <1>3, RepairBounds DEF RepairTypes
<1>5. Gaps!Page = gChunk.at .. (Gaps!PageEnd - 1)
      BY DEF Gaps!Page
<1>6. Gaps!Page \in SUBSET Gaps!RecentMinutes
      BY <1>1, <1>2, <1>5, RepairBounds DEF Gaps!RecentMinutes
<1>7. Gaps!Cardinality(Gaps!Page) = Gaps!PageEnd - gChunk.at
  <2>1. \A a, b \in Int : a < b => Gaps!Cardinality(a..(b - 1)) = b - a
    <3> SUFFICES ASSUME NEW a \in Int, NEW b \in Int, a < b
                 PROVE  Gaps!Cardinality(a..(b - 1)) = b - a
        OBVIOUS
    <3>1. b - 1 \in Int /\ a <= b - 1 /\ (b - 1) - a + 1 = b - a
          OBVIOUS
    <3>2. Gaps!Cardinality(a..(b - 1)) = IF a > b - 1 THEN 0 ELSE (b - 1) - a + 1
          BY <3>1, FS_Interval, SameCardinality
    <3>3. QED
          BY <3>1, <3>2
  <2>2. QED
        BY <1>1, <1>2, <1>5, <2>1
<1>8. /\ gAsked[Gaps!Current] + (Gaps!PageEnd - gChunk.at) \in 0 .. Allowance
      /\ gAsked[Gaps!Current] + (Gaps!PageEnd - gChunk.at) + gAllowed
             - (Gaps!PageEnd - gChunk.start) <= Allowance
      /\ gAllowed - (gChunk.to - gChunk.start) \in 0 .. Allowance
      /\ gAsked[Gaps!Current] + (Gaps!PageEnd - gChunk.at) + (gAllowed - (gChunk.to - gChunk.start))
             <= Allowance
  <2>1. gAllowed <= Allowance
        BY RepairBounds DEF RepairTypes
  <2>2. QED
        BY <1>1, <1>2, <1>4, <2>1, RepairBounds, Payments
<1>9. Gaps!Smaller(gAsked[Gaps!Current] + (Gaps!PageEnd - gChunk.at), Allowance + 1)
          = gAsked[Gaps!Current] + (Gaps!PageEnd - gChunk.at)
      BY <1>8, RepairBounds DEF Gaps!Smaller
<1>10. Gaps!Ask => gAsked' = [gAsked EXCEPT ![Gaps!Current] = @ + (Gaps!PageEnd - gChunk.at)]
       BY <1>7, <1>9 DEF Gaps!Ask
<1>11. Gaps!PageEnd \in Nat /\ 1 <= gChunk.at
       BY <1>1, <1>2
<1>12. QED
       BY <1>1, <1>2, <1>3, <1>4, <1>5, <1>6, <1>8, <1>10, <1>11

LEMMA PageArrivesKeeps == RepairInv /\ Gaps!PageArrives => RepairInv'
<1> SUFFICES ASSUME RepairInv, Gaps!PageArrives PROVE RepairInv'
    OBVIOUS
<1> USE DEF RepairInv
<1>1. /\ gPhase = "page" /\ Gaps!Ask /\ Gaps!Settle(Gaps!Page) /\ gRow' = gRow
      /\ gTodo' = gTodo
      /\ gRemaining' = gRemaining /\ gPlanned' = gPlanned
      /\ IF Gaps!PageEnd < gChunk.to
         THEN /\ gChunk' = [gChunk EXCEPT !.at = Gaps!PageEnd]
              /\ gAllowed' = gAllowed /\ gPhase' = gPhase
         ELSE Gaps!Pay(gChunk.to) /\ gChunk' = Gaps!NoChunk /\ gPhase' = "range"
      BY DEF Gaps!PageArrives
<1>2. PICK from \in Gaps!Page, to \in Gaps!Page :
         gStored' = [gStored EXCEPT ![Gaps!Current] = @ \cup (from .. to)]
      BY DEF Gaps!PageArrives
<1>3. /\ gChunk.at \in Int /\ gChunk.to \in Int /\ gChunk.start \in Int
      /\ Gaps!PageEnd \in Int /\ gChunk.at < Gaps!PageEnd /\ Gaps!PageEnd <= gChunk.to
      /\ 1 <= gChunk.at /\ gChunk.to <= LastMinute + 1
      /\ Gaps!Page = gChunk.at .. (Gaps!PageEnd - 1)
      /\ Gaps!Page \in SUBSET Gaps!RecentMinutes
      /\ gTodo # <<>> /\ Gaps!Current \in Gaps!MarketSet
      /\ gAsked[Gaps!Current] \in Nat /\ gAllowed \in Nat
      /\ gAsked' = [gAsked EXCEPT ![Gaps!Current] = @ + (Gaps!PageEnd - gChunk.at)]
      /\ gAsked[Gaps!Current] + (Gaps!PageEnd - gChunk.at) \in 0 .. Allowance
      /\ Gaps!PageEnd \in Nat
      /\ gAsked[Gaps!Current] + (Gaps!PageEnd - gChunk.at) + gAllowed
             - (Gaps!PageEnd - gChunk.start) <= Allowance
      /\ gAllowed - (gChunk.to - gChunk.start) \in 0 .. Allowance
      /\ gAsked[Gaps!Current] + (Gaps!PageEnd - gChunk.at) + (gAllowed - (gChunk.to - gChunk.start))
             <= Allowance
      BY <1>1, PageIs
<1>4. Gaps!Current' = Gaps!Current
      BY <1>1 DEF Gaps!Current
<1>5. gStored' \in [Gaps!MarketSet -> SUBSET Gaps!RecentMinutes]
  <2>1. from .. to \in SUBSET Gaps!RecentMinutes
    <3>1. from \in 1 .. LastMinute /\ to \in 1 .. LastMinute
          BY <1>3 DEF Gaps!RecentMinutes
    <3>2. QED
          BY <3>1, RepairBounds DEF Gaps!RecentMinutes
  <2>2. gStored[Gaps!Current] \cup (from .. to) \in SUBSET Gaps!RecentMinutes
        BY <1>3, <2>1 DEF RepairTypes
  <2>3. QED
        BY <1>2, <1>3, <2>2 DEF RepairTypes
<1>6. gAsked' \in [Gaps!MarketSet -> 0 .. Allowance]
      /\ gAsked'[Gaps!Current'] = gAsked[Gaps!Current] + (Gaps!PageEnd - gChunk.at)
      BY <1>3, <1>4 DEF RepairTypes
<1>7. gSettled' \in [Gaps!MarketSet -> SUBSET Int] /\ gSettled'[Gaps!Current'] =
            gSettled[Gaps!Current] \cup Gaps!Page
  <2>1. gSettled' = [gSettled EXCEPT ![Gaps!Current] = gSettled[Gaps!Current] \cup Gaps!Page]
        BY <1>1 DEF Gaps!Settle
  <2>2. gSettled[Gaps!Current] \cup Gaps!Page \in SUBSET Int
        BY <1>3 DEF RepairTypes
  <2>3. QED
        BY <1>3, <1>4, <2>1, <2>2 DEF RepairTypes
<1>8. AtMarket /\ AtMarket'
      BY <1>1 DEF AtMarket
<1>9. TodoInv'
      BY <1>1, <1>3, <1>8, OthersWait
<1>10. /\ Ordered(gRemaining) /\ 1 <= gChunk.start /\ gChunk.start <= gChunk.at
       /\ gChunk.to - gChunk.start <= gAllowed
       /\ gAsked[Gaps!Current] + gAllowed - (gChunk.at - gChunk.start) <= Allowance
       /\ \A i \in DOMAIN gRemaining : gChunk.to <= gRemaining[i].from
       /\ gPlanned[Gaps!Current] \subseteq Left \cup (gChunk.at .. (gChunk.to - 1))
       BY <1>1 DEF MarketInv
<1>11. Left' = Left \cup Gaps!Page
       BY <1>1, <1>4, <1>7 DEF Left
<1>12. CASE Gaps!PageEnd < gChunk.to
  <2>1. /\ gChunk' = [gChunk EXCEPT !.at = Gaps!PageEnd]
        /\ gAllowed' = gAllowed /\ gPhase' = "page"
        BY <1>1, <1>12
  <2>2. /\ gChunk'.start = gChunk.start /\ gChunk'.to = gChunk.to /\ gChunk'.at = Gaps!PageEnd
        /\ gChunk' \in [start : Nat, to : Nat, at : Nat]
        BY <1>3, <2>1 DEF RepairTypes
  <2>3. RepairTypes'
        BY <1>1, <1>5, <1>6, <1>7, <2>1, <2>2 DEF RepairTypes
  <2>4. gChunk.at .. (gChunk.to - 1) \subseteq Gaps!Page \cup (Gaps!PageEnd .. (gChunk.to - 1))
        BY <1>3
  <2>5. gPlanned'[Gaps!Current'] \subseteq Left' \cup (gChunk'.at .. (gChunk'.to - 1))
        BY <1>1, <1>4, <1>10, <1>11, <2>2, <2>4
  <2>6. gAsked'[Gaps!Current'] + gAllowed' - (gChunk'.at - gChunk'.start) <= Allowance
    <3>1. /\ gAsked'[Gaps!Current'] = gAsked[Gaps!Current] + (Gaps!PageEnd - gChunk.at)
          /\ gAllowed' = gAllowed
          /\ gChunk'.at = Gaps!PageEnd /\ gChunk'.start = gChunk.start
          BY <1>6, <2>1, <2>2
    <3>2. /\ gAsked[Gaps!Current] + (Gaps!PageEnd - gChunk.at) \in Int /\ gAllowed \in Int
          /\ Gaps!PageEnd \in Int /\ gChunk.start \in Int
          /\ gAsked[Gaps!Current] + (Gaps!PageEnd - gChunk.at) + gAllowed
                 - (Gaps!PageEnd - gChunk.start) <= Allowance
          BY <1>3
    <3>3. \A u, v, x, y \in Int : u = gAsked[Gaps!Current] + (Gaps!PageEnd - gChunk.at) /\ v = gAllowed
              /\ x = Gaps!PageEnd /\ y = gChunk.start => u + v - (x - y) <= Allowance
          BY <3>2
    <3>4. QED
          BY <3>1, <3>2, <3>3, Zenon
  <2>7. /\ 1 <= gChunk'.start /\ gChunk'.start <= gChunk'.at
        /\ gChunk'.at < gChunk'.to /\ gChunk'.to <= LastMinute + 1
        /\ gChunk'.to - gChunk'.start <= gAllowed'
        /\ \A i \in DOMAIN gRemaining' : gChunk'.to <= gRemaining'[i].from
        BY <1>1, <1>3, <1>10, <1>12, <2>1, <2>2
  <2>8. MarketInv'
        BY <1>1, <1>3, <1>10, <2>1, <2>5, <2>6, <2>7 DEF MarketInv, AtMarket
  <2>9. QED
        BY <1>9, <2>3, <2>8
<1>13. CASE ~(Gaps!PageEnd < gChunk.to)
  <2>1. /\ gAllowed' = gAllowed - (gChunk.to - gChunk.start) /\ gChunk' = Gaps!NoChunk
        /\ gPhase' = "range" /\ Gaps!PageEnd = gChunk.to
        BY <1>1, <1>3, <1>13 DEF Gaps!Pay
  <2>2. gAllowed' \in 0 .. Allowance
        BY <1>3, <2>1
  <2>3. RepairTypes'
        BY <1>1, <1>5, <1>6, <1>7, <2>1, <2>2 DEF RepairTypes, Gaps!NoChunk
  <2>4. gPlanned'[Gaps!Current'] \subseteq Left'
        BY <1>1, <1>3, <1>4, <1>10, <1>11, <2>1
  <2>5. gAsked'[Gaps!Current'] + gAllowed' <= Allowance
        BY <1>3, <1>6, <2>1
  <2>6. MarketInv'
        BY <1>1, <1>3, <1>10, <2>1, <2>4, <2>5 DEF MarketInv
  <2>7. QED
        BY <1>9, <2>3, <2>6
<1>14. QED
       BY <1>12, <1>13

LEMMA PageIsEmptyKeeps == RepairInv /\ Gaps!PageIsEmpty => RepairInv'
<1> SUFFICES ASSUME RepairInv, Gaps!PageIsEmpty PROVE RepairInv'
    OBVIOUS
<1> USE DEF RepairInv
<1>1. /\ gPhase = "page" /\ Gaps!Ask /\ Gaps!Settle(Gaps!PageEnd .. (gChunk.to - 1))
      /\ gRemaining' = <<[from |-> gChunk.at, to |-> Gaps!PageEnd]>> \o gRemaining
      /\ gAllowed' = gAllowed - (gChunk.to - gChunk.start)
      /\ gChunk' = Gaps!NoChunk /\ gPhase' = "range"
      /\ gStored' = gStored /\ gRow' = gRow /\ gTodo' = gTodo /\ gPlanned' = gPlanned
      BY DEF Gaps!PageIsEmpty, Gaps!Reinserted, Gaps!PayForEmpty, Gaps!Pay
<1>2. /\ gChunk.at \in Int /\ gChunk.to \in Int /\ gChunk.start \in Int
      /\ Gaps!PageEnd \in Int /\ gChunk.at < Gaps!PageEnd /\ Gaps!PageEnd <= gChunk.to
      /\ 1 <= gChunk.at /\ gChunk.to <= LastMinute + 1
      /\ gTodo # <<>> /\ Gaps!Current \in Gaps!MarketSet
      /\ gAsked[Gaps!Current] \in Nat /\ gAllowed \in Nat
      /\ gAsked' = [gAsked EXCEPT ![Gaps!Current] = @ + (Gaps!PageEnd - gChunk.at)]
      /\ gAsked[Gaps!Current] + (Gaps!PageEnd - gChunk.at) \in 0 .. Allowance
      /\ Gaps!PageEnd \in Nat
      /\ gAsked[Gaps!Current] + (Gaps!PageEnd - gChunk.at) + gAllowed
             - (Gaps!PageEnd - gChunk.start) <= Allowance
      /\ gAllowed - (gChunk.to - gChunk.start) \in 0 .. Allowance
      /\ gAsked[Gaps!Current] + (Gaps!PageEnd - gChunk.at) + (gAllowed - (gChunk.to - gChunk.start))
             <= Allowance
      BY <1>1, PageIs
<1>3. Gaps!Current' = Gaps!Current
      BY <1>1 DEF Gaps!Current
<1>4. gAsked' \in [Gaps!MarketSet -> 0 .. Allowance]
      /\ gAsked'[Gaps!Current'] = gAsked[Gaps!Current] + (Gaps!PageEnd - gChunk.at)
      BY <1>2, <1>3 DEF RepairTypes
<1>5. gSettled' \in [Gaps!MarketSet -> SUBSET Int]
      /\ gSettled'[Gaps!Current'] = gSettled[Gaps!Current] \cup (Gaps!PageEnd .. (gChunk.to - 1))
  <2>1. gSettled' = [gSettled EXCEPT ![Gaps!Current] = gSettled[Gaps!Current]
                   \cup (Gaps!PageEnd .. (gChunk.to - 1))]
        BY <1>1 DEF Gaps!Settle
  <2>2. gSettled[Gaps!Current] \cup (Gaps!PageEnd .. (gChunk.to - 1)) \in SUBSET Int
        BY <1>2 DEF RepairTypes
  <2>3. QED
        BY <1>2, <1>3, <2>1, <2>2 DEF RepairTypes
<1>6. /\ Ordered(gRemaining) /\ gRemaining \in Seq(Spans)
      /\ gAsked[Gaps!Current] + gAllowed - (gChunk.at - gChunk.start) <= Allowance
      /\ \A i \in DOMAIN gRemaining : gChunk.to <= gRemaining[i].from
      /\ gPlanned[Gaps!Current] \subseteq Left \cup (gChunk.at .. (gChunk.to - 1))
      BY <1>1 DEF MarketInv, RepairTypes
<1>7. PICK again : again = [from |-> gChunk.at, to |-> Gaps!PageEnd]
      OBVIOUS
<1>8. again \in Spans /\ again.from = gChunk.at /\ again.to = Gaps!PageEnd
  <2>1. Gaps!PageEnd <= LastMinute + 1
        BY <1>2, RepairBounds
  <2>2. [from |-> gChunk.at, to |-> Gaps!PageEnd] \in Spans
        BY <1>2, <2>1, SpanMade
  <2>3. QED
        BY <1>7, <2>2
<1>9. \A i \in DOMAIN gRemaining : again.to <= gRemaining[i].from
  <2>1. \A i \in DOMAIN gRemaining : gRemaining[i] \in Spans
        BY <1>6
  <2>2. \A i \in DOMAIN gRemaining : gRemaining[i].from \in Int
        BY <2>1, SpanFields
  <2>3. ASSUME NEW i \in DOMAIN gRemaining PROVE Gaps!PageEnd <= gRemaining[i].from
    <3>1. gChunk.to <= gRemaining[i].from /\ gRemaining[i].from \in Int
          BY <1>6, <2>2
    <3>2. QED
          BY <1>2, <3>1
  <2>4. QED
        BY <1>8, <2>3
<1>10. PICK front : front = <<again>> \o gRemaining
       OBVIOUS
<1>11. /\ front \in Seq(Spans) /\ Ordered(front)
       /\ Covered(front) = Gaps!MinutesOf(again) \cup Covered(gRemaining)
       BY <1>6, <1>8, <1>9, <1>10, FrontCovers
<1>12. gRemaining' = front
       BY <1>1, <1>7, <1>10
<1>13. Gaps!MinutesOf(again) = gChunk.at .. (Gaps!PageEnd - 1)
       BY <1>8 DEF Gaps!MinutesOf
<1>14. AtMarket /\ AtMarket'
       BY <1>1 DEF AtMarket
<1>15. TodoInv'
       BY <1>1, <1>2, <1>14, OthersWait
<1>16. gAllowed' \in 0 .. Allowance
       BY <1>1, <1>2
<1>17. RepairTypes'
       BY <1>1, <1>4, <1>5, <1>11, <1>12, <1>16 DEF RepairTypes, Gaps!NoChunk
<1>18. gChunk.at .. (gChunk.to - 1) \subseteq
          (gChunk.at .. (Gaps!PageEnd - 1)) \cup (Gaps!PageEnd .. (gChunk.to - 1))
       BY <1>2
<1>19. Left' = Left \cup (Gaps!PageEnd .. (gChunk.to - 1)) \cup (gChunk.at .. (Gaps!PageEnd - 1))
       BY <1>3, <1>5, <1>11, <1>12, <1>13 DEF Left
<1>20. gPlanned'[Gaps!Current'] \subseteq Left'
       BY <1>1, <1>3, <1>6, <1>18, <1>19
<1>21. gAsked'[Gaps!Current'] + gAllowed' <= Allowance
       BY <1>1, <1>2, <1>4
<1>22. MarketInv'
       BY <1>1, <1>2, <1>11, <1>12, <1>20, <1>21 DEF MarketInv
<1>23. QED
       BY <1>15, <1>17, <1>22

LEMMA ProviderFailsKeeps == RepairInv /\ Gaps!ProviderFails => RepairInv'
<1> SUFFICES ASSUME RepairInv, Gaps!ProviderFails PROVE RepairInv'
    OBVIOUS
<1> USE DEF RepairInv
<1>1. /\ gPhase = "page" /\ Gaps!Ask /\ gTodo' = <<>> /\ gRemaining' = <<>>
      /\ gChunk' = Gaps!NoChunk
      /\ gPhase' = "market" /\ gStored' = gStored /\ gAllowed' = gAllowed
      /\ gPlanned' = gPlanned /\ gSettled' = gSettled
      BY DEF Gaps!ProviderFails
<1>2. /\ Gaps!Current \in Gaps!MarketSet
      /\ gAsked' = [gAsked EXCEPT ![Gaps!Current] = @ + (Gaps!PageEnd - gChunk.at)]
      /\ gAsked[Gaps!Current] + (Gaps!PageEnd - gChunk.at) \in 0 .. Allowance
      BY <1>1, PageIs
<1>3. gAsked' \in [Gaps!MarketSet -> 0 .. Allowance]
      BY <1>2 DEF RepairTypes
<1>4. gRow' \in [Gaps!MarketSet -> {v \in Verdicts : LiveIsWhole(v)}]
  <2> DEFINE v == [status |-> "error", gaps |-> Len(gRemaining) + 1]
  <2>1. v \in Verdicts /\ LiveIsWhole(v)
        BY DEF RepairTypes, Verdicts, LiveIsWhole
  <2>2. gRow' = [gRow EXCEPT ![Gaps!Current] = v]
        BY DEF Gaps!ProviderFails
  <2> HIDE DEF v
  <2>3. QED
        BY <1>2, <2>1, <2>2 DEF RepairTypes
<1>5. RepairTypes'
      BY <1>1, <1>3, <1>4, NoneOrdered DEF RepairTypes, Gaps!NoChunk
<1>6. TodoInv' /\ MarketInv'
      BY <1>1, NoneOrdered DEF TodoInv, MarketInv, AtMarket
<1>7. QED
      BY <1>5, <1>6

LEMMA OtherWriterKeeps ==
    ASSUME RepairInv, NEW m \in Gaps!MarketSet, NEW minute \in Gaps!RecentMinutes,
           Gaps!OtherWriter(m, minute)
    PROVE  RepairInv'
<1>1. gStored' \in [Gaps!MarketSet -> SUBSET Gaps!RecentMinutes]
  <2>1. gStored[m] \cup {minute} \in SUBSET Gaps!RecentMinutes
        BY DEF RepairInv, RepairTypes
  <2>2. QED
        BY <2>1 DEF Gaps!OtherWriter, RepairInv, RepairTypes
<1>2. RepairTypes'
      BY <1>1 DEF Gaps!OtherWriter, RepairInv, RepairTypes
<1>3. TodoInv'
      BY DEF Gaps!OtherWriter, RepairInv, TodoInv, AtMarket
<1>4. MarketInv'
      BY DEF Gaps!OtherWriter, RepairInv, MarketInv, AtMarket, Left, Gaps!Current
<1>5. QED
      BY <1>2, <1>3, <1>4 DEF RepairInv

LEMMA RepairInductive == RepairInv /\ [Gaps!Next]_(Gaps!vars) => RepairInv'
<1> SUFFICES ASSUME RepairInv, [Gaps!Next]_(Gaps!vars) PROVE RepairInv'
    OBVIOUS
<1>1. CASE UNCHANGED Gaps!vars
  <2>1. RepairTypes'
        BY <1>1 DEF Gaps!vars, RepairInv, RepairTypes
  <2>2. TodoInv'
        BY <1>1 DEF Gaps!vars, RepairInv, TodoInv, AtMarket
  <2>3. MarketInv'
        BY <1>1 DEF Gaps!vars, RepairInv, MarketInv, AtMarket, Left, Gaps!Current
  <2>4. QED
        BY <2>1, <2>2, <2>3 DEF RepairInv
<1>2. CASE Gaps!StartPass
      BY <1>2, StartPassKeeps
<1>3. CASE Gaps!Step
      BY <1>3, TakeMarketKeeps, EndPassKeeps, TakeRangeKeeps, FinishMarketKeeps,
         PageArrivesKeeps, PageIsEmptyKeeps, ProviderFailsKeeps DEF Gaps!Step
<1>4. CASE \E m \in Gaps!MarketSet, minute \in Gaps!RecentMinutes : Gaps!OtherWriter(m, minute)
      BY <1>4, OtherWriterKeeps
<1>5. QED
      BY <1>1, <1>2, <1>3, <1>4 DEF Gaps!Next

LEMMA InvBoundsRepair == RepairInv => Gaps!RepairIsBounded
<1> SUFFICES ASSUME RepairInv PROVE Gaps!RepairIsBounded
    OBVIOUS
<1>1. \A m \in Gaps!MarketSet : gRow[m] \in Verdicts /\ LiveIsWhole(gRow[m])
      BY DEF RepairInv, RepairTypes
<1>2. \A i \in DOMAIN gRemaining : gRemaining[i] \in Spans
      BY DEF RepairInv, RepairTypes
<1>3. Gaps!TypeOK
  <2>1. \A i \in DOMAIN gRemaining : gRemaining[i].from < gRemaining[i].to
        BY <1>2, SpanFields
  <2>2. \A m \in Gaps!MarketSet :
          /\ gStored[m] \subseteq Gaps!RecentMinutes
          /\ gRow[m].status \in {"starting", "live", "gapped", "error"}
          /\ gRow[m].status = "live" <=> gRow[m].gaps = 0 /\ gRow[m].status # "starting"
        BY <1>1 DEF RepairInv, RepairTypes, Verdicts, LiveIsWhole
  <2>3. QED
        BY <2>1, <2>2 DEF Gaps!TypeOK, RepairInv, RepairTypes, MarketInv
<1>4. Gaps!BoundIsKept
      BY RepairBounds DEF Gaps!BoundIsKept, RepairInv, RepairTypes
<1>5. Gaps!RangesAreOrdered
      BY DEF Gaps!RangesAreOrdered, RepairInv, MarketInv, Ordered
<1>6. QED
      BY <1>3, <1>4, <1>5 DEF Gaps!RepairIsBounded

\* Only a market that has run out of spans is called live.
LEMMA LiveStep ==
    ASSUME RepairInv, [Gaps!Next]_(Gaps!vars), NEW m \in Gaps!MarketSet,
           gRow'[m] # gRow[m], gRow'[m].status = "live"
    PROVE  gPlanned[m] \subseteq gSettled[m]
<1>1. gRow' # gRow
      OBVIOUS
<1>2. Gaps!FinishMarket \/ Gaps!ProviderFails
      BY <1>1 DEF Gaps!Next, Gaps!Step, Gaps!vars, Gaps!StartPass, Gaps!TakeMarket,
                  Gaps!EndPass, Gaps!TakeRange, Gaps!PageArrives,
                  Gaps!PageIsEmpty, Gaps!OtherWriter
<1>3. gTodo # <<>> /\ gRow \in [Gaps!MarketSet -> {v \in Verdicts : LiveIsWhole(v)}]
      BY <1>2 DEF Gaps!FinishMarket, Gaps!ProviderFails, RepairInv, RepairTypes, MarketInv, AtMarket
<1>4. Gaps!Current \in Gaps!MarketSet
      BY <1>3, HeadMarket
<1>5. m = Gaps!Current
      BY <1>2, <1>3 DEF Gaps!FinishMarket, Gaps!ProviderFails
<1>6. CASE Gaps!FinishMarket
  <2>1. gRemaining = <<>> /\ gPhase = "range"
        BY <1>3, <1>4, <1>5, <1>6 DEF Gaps!FinishMarket
  <2>2. QED
        BY <1>5, <2>1, NoneOrdered DEF RepairInv, MarketInv, Left
<1>7. CASE Gaps!ProviderFails
      BY <1>3, <1>4, <1>5, <1>7 DEF Gaps!ProviderFails
<1>8. QED
      BY <1>2, <1>6, <1>7

\* Every pass, over any markets and gaps and whatever the provider answers: the spans left
\* are in order, and no market is asked for more minutes than its allowance
\* (candles/reconciliation.py).
THEOREM RepairBounded == Gaps!Spec => []Gaps!RepairIsBounded
BY RepairInitially, RepairInductive, InvBoundsRepair, PTL DEF Gaps!Spec

\* A market is called live only when every minute the pass planned has had an answer, or
\* was dropped behind an empty page: cutting and putting back spans loses none.
THEOREM LiveAccounted == Gaps!Spec => LiveIsAccounted
<1>1. RepairInv /\ [Gaps!Next]_(Gaps!vars) =>
        [\A m \in Gaps!MarketSet :
            gRow'[m] # gRow[m] /\ gRow'[m].status = "live" =>
                gPlanned[m] \subseteq gSettled[m]]_(Gaps!vars)
      BY LiveStep
<1>2. QED
      BY <1>1, RepairInitially, RepairInductive, PTL
      DEF Gaps!Spec, LiveIsAccounted, Gaps!LiveIsAccounted

\* The table and the passes over its gaps, side by side.
THEOREM CandlesStaySound == Spec /\ Gaps!Spec => []CandlesAreSound
BY StoreStaysSound, RepairBounded, PTL DEF CandlesAreSound
=============================================================================
