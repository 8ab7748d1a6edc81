----------------------------- MODULE CandleRepair -----------------------------
(***************************************************************************)
(* reconcile_recent and reconcile_ranges: a pass plans the missing minutes *)
(* of every market, asks the provider for them page by page, market by     *)
(* market, within an allowance per market, and leaves a verdict on each    *)
(* market's row.  What storing a page does is CandleStore.                 *)
(***************************************************************************)
EXTENDS Integers, FiniteSets, Sequences, SequencesExt

CONSTANTS
    Markets,     \* the ready product markets, as a sequence in catalogue order
    LastMinute,  \* the look-back window is the minutes 1 .. LastMinute
    PageMinutes, \* MAX_KLINE_PAGE_MINUTES
    Allowance,   \* MAX_REST_REPAIR_MINUTES_PER_SYMBOL
    MaxPasses    \* bound on the passes

VARIABLES
    stored,      \* market -> minutes whose candle is complete
    row,         \* market -> the verdict on its state row: [status, gaps]
    todo,        \* [market, ranges] still to do in this pass, in order
    remaining,   \* the ranges of the market under way, each [from, to), oldest first
    allowed,     \* minutes the market may still ask for
    chunk,       \* the range taken up: [start, to, at], asked for up to at
    phase,       \* "idle", "market", "range", "page"
    planned,     \* market -> minutes the pass set out to repair (for the properties)
    settled,     \* market -> minutes answered for, or left behind an empty page
    asked,       \* market -> minutes asked for in this pass, up to one past the allowance
    passes       \* passes started, at most MaxPasses

vars == <<stored, row, todo, remaining, allowed, chunk, phase, planned, settled, asked, passes>>

RecentMinutes == 1 .. LastMinute
MarketSet == ToSet(Markets)

\* Assumed of the constants by the module that composes this one: a market is in the
\* catalogue once.
RepairAssumption ==
    /\ Markets \in Seq(MarketSet)
    /\ \A i, j \in DOMAIN Markets : Markets[i] = Markets[j] => i = j
    /\ LastMinute \in Nat /\ Allowance \in Nat
    /\ PageMinutes \in Nat \ {0}

MinutesOf(range) == range.from .. (range.to - 1)
NoChunk == [start |-> 0, to |-> 0, at |-> 0]
Smaller(a, b) == IF a < b THEN a ELSE b

\* The n-th number of a set, from the least.
Nth(S, n) == CHOOSE k \in S : Cardinality({j \in S : j <= k}) = n

\* find_missing_one_minute_ranges: the maximal runs of missing minutes, in order.
GapStarts(m) == {n \in RecentMinutes \ stored[m] : n = 1 \/ n - 1 \in stored[m]}
GapFrom(m, start) ==
    [from |-> start,
     to |-> Min({n \in stored[m] : n > start} \cup {LastMinute + 1})]
GapsOf(m) == [n \in 1 .. Cardinality(GapStarts(m)) |-> GapFrom(m, Nth(GapStarts(m), n))]

Current == Head(todo).market

Init ==
    /\ stored \in [MarketSet -> SUBSET RecentMinutes]
    /\ row = [m \in MarketSet |-> [status |-> "starting", gaps |-> 0]]
    /\ todo = <<>> /\ remaining = <<>>
    /\ allowed = 0 /\ chunk = NoChunk /\ phase = "idle"
    /\ planned = [m \in MarketSet |-> {}]
    /\ settled = [m \in MarketSet |-> {}]
    /\ asked = [m \in MarketSet |-> 0]
    /\ passes = 0

\* _plan_recent_ranges: markets without a gap do not take part.
Gapped == {i \in DOMAIN Markets : GapsOf(Markets[i]) # <<>>}
PlanOf(m) == [market |-> m, ranges |-> GapsOf(m)]

StartPass ==
    /\ phase = "idle" /\ passes < MaxPasses
    /\ passes' = passes + 1
    /\ phase' = "market"
    /\ todo' = [n \in 1 .. Cardinality(Gapped) |-> PlanOf(Markets[Nth(Gapped, n)])]
    /\ planned' = [m \in MarketSet |-> RecentMinutes \ stored[m]]
    /\ settled' = [m \in MarketSet |-> {}]
    /\ asked' = [m \in MarketSet |-> 0]
    /\ UNCHANGED <<stored, row, remaining, allowed, chunk>>

TakeMarket ==
    /\ phase = "market" /\ todo # <<>>
    /\ remaining' = Head(todo).ranges
    /\ allowed' = Allowance
    /\ phase' = "range"
    /\ UNCHANGED <<stored, row, todo, chunk, planned, settled, asked, passes>>

EndPass ==
    /\ phase = "market" /\ todo = <<>>
    /\ phase' = "idle"
    /\ UNCHANGED <<stored, row, todo, remaining, allowed, chunk, planned, settled, asked, passes>>

\* Mutant: without the rest of a range that exceeds the allowance.
LeaveOutRest(range, to) == Tail(remaining)

\* A range that exceeds the allowance is cut, its rest goes back to the front.
PutBackRest(range, to) ==
    IF to < range.to THEN <<[from |-> to, to |-> range.to]>> \o Tail(remaining)
    ELSE Tail(remaining)

Bounded(range) == range.from + Smaller(range.to - range.from, allowed)

TakeRange ==
    LET range == Head(remaining)
        to == Bounded(range)
    IN  /\ phase = "range" /\ remaining # <<>> /\ allowed > 0
        /\ remaining' = PutBackRest(range, to)
        /\ chunk' = [start |-> range.from, to |-> to, at |-> range.from]
        /\ phase' = "page"
        /\ UNCHANGED <<stored, row, todo, allowed, planned, settled, asked, passes>>

\* The verdict of a market that has run out of ranges or of allowance.
FinishMarket ==
    /\ phase = "range" /\ (remaining = <<>> \/ allowed = 0)
    /\ row' = [row EXCEPT ![Current] =
          [status |-> IF remaining = <<>> THEN "live" ELSE "gapped", gaps |-> Len(remaining)]]
    /\ todo' = Tail(todo)
    /\ remaining' = <<>> /\ chunk' = NoChunk /\ phase' = "market"
    /\ UNCHANGED <<stored, allowed, planned, settled, asked, passes>>

PageEnd == Smaller(chunk.at + PageMinutes, chunk.to)
Page == chunk.at .. (PageEnd - 1)
Ask == asked' = [asked EXCEPT ![Current] = Smaller(@ + Cardinality(Page), Allowance + 1)]
Settle(minutes) == settled' = [settled EXCEPT ![Current] = @ \cup minutes]

\* The allowance pays for the whole chunk, however much of it was asked for.
Pay(to) == allowed' = allowed - (to - chunk.start)

\* A page with candles: consecutive rows within the page, possibly not all of it.
PageArrives ==
    /\ phase = "page"
    /\ \E from, to \in Page :
          /\ from <= to
          /\ stored' = [stored EXCEPT ![Current] = @ \cup (from .. to)]
    /\ Ask /\ Settle(Page)
    /\ IF PageEnd < chunk.to
       THEN /\ chunk' = [chunk EXCEPT !.at = PageEnd]
            /\ UNCHANGED <<allowed, phase>>
       ELSE Pay(chunk.to) /\ chunk' = NoChunk /\ phase' = "range"
    /\ UNCHANGED <<row, todo, remaining, planned, passes>>

\* Mutant: only the pages that were answered are paid for
PayForAnswered == Pay(chunk.at)

PayForEmpty == Pay(chunk.to)

Reinserted(range) == <<range>> \o remaining

\* An empty page is put back to be asked for again; what the chunk had left behind
\* that page is not.
PageIsEmpty ==
    /\ phase = "page"
    /\ remaining' = Reinserted([from |-> chunk.at, to |-> PageEnd])
    /\ Ask /\ Settle(PageEnd .. (chunk.to - 1))
    /\ PayForEmpty
    /\ chunk' = NoChunk /\ phase' = "range"
    /\ UNCHANGED <<stored, row, todo, planned, passes>>

\* A provider error ends the whole pass, for the other markets too.
ProviderFails ==
    /\ phase = "page"
    /\ Ask
    /\ row' = [row EXCEPT ![Current] = [status |-> "error", gaps |-> Len(remaining) + 1]]
    /\ todo' = <<>> /\ remaining' = <<>> /\ chunk' = NoChunk /\ phase' = "market"
    /\ UNCHANGED <<stored, allowed, planned, settled, passes>>

\* The stream or the backfill stores a candle on its own.
OtherWriter(m, minute) ==
    /\ minute \notin stored[m]
    /\ stored' = [stored EXCEPT ![m] = @ \cup {minute}]
    /\ UNCHANGED <<row, todo, remaining, allowed, chunk, phase, planned, settled, asked, passes>>

Step ==
    \/ TakeMarket \/ EndPass \/ TakeRange \/ FinishMarket
    \/ PageArrives \/ PageIsEmpty \/ ProviderFails
Next == StartPass \/ Step \/ \E m \in MarketSet, minute \in RecentMinutes : OtherWriter(m, minute)

Spec == Init /\ [][Next]_vars

-----------------------------------------------------------------------------
TypeOK ==
    /\ \A m \in MarketSet :
          /\ stored[m] \subseteq RecentMinutes
          /\ row[m].status \in {"starting", "live", "gapped", "error"}
          /\ row[m].status = "live" <=> row[m].gaps = 0 /\ row[m].status # "starting"
    /\ \A i \in DOMAIN remaining : remaining[i].from < remaining[i].to
    /\ allowed \in 0 .. Allowance
    /\ phase = "page" => chunk.start <= chunk.at /\ chunk.at < chunk.to

\* However often pages come back empty and ranges are cut, a pass asks for no more
\* minutes of a market than its allowance.
BoundIsKept == \A m \in MarketSet : asked[m] <= Allowance

\* The ranges left to do are in order and do not overlap, so nothing is asked twice
\* for another reason than an empty page.
RangesAreOrdered ==
    \A i, j \in DOMAIN remaining : i < j => remaining[i].to <= remaining[j].from

\* A pass that leaves a market "live" has had an answer for every minute it planned,
\* or has dropped it behind an empty page: cutting a range loses none.
LiveIsAccounted ==
    [][\A m \in MarketSet :
          row'[m] # row[m] /\ row'[m].status = "live" => planned[m] \subseteq settled[m]]_vars

\* What always holds of a pass, taken together.
RepairIsBounded == TypeOK /\ BoundIsKept /\ RangesAreOrdered
=============================================================================
