----------------------------- MODULE ReportViews -----------------------------
(***************************************************************************)
(* How the immutable report of a run is read back                          *)
(* (historical_analysis/reports.py, report repository): the equity points  *)
(* and trades page by page through cursors, and the bounded preview with   *)
(* its chart candles and trade markers.  Points are numbered from 0 and    *)
(* trades from 1, as the engines number them; a point stands for its       *)
(* candle as well.                                                         *)
(***************************************************************************)
EXTENDS Ordering, Sequences, SequencesExt

CONSTANTS
    Reports,        \* what may be stored: [points, trades], a trade is [entry, exit]
    Limits,         \* page sizes a client may ask for
    EquityPreviewLimit, CandlePreviewLimit, TradeMarkerLimit,
    None            \* no cursor

TradesWithin(points) == [entry : 0 .. points - 1, exit : 0 .. points - 1, closed : BOOLEAN]

\* Assumed of the constants by the module that composes this one.
ViewsAssumption ==
    /\ \A r \in Reports : r.points \in Nat /\ r.trades \in Seq(TradesWithin(r.points))
    /\ Limits \subseteq Nat \ {0}
    /\ {EquityPreviewLimit, CandlePreviewLimit, TradeMarkerLimit} \subseteq Nat \ {0, 1}
    /\ None \notin Nat

VARIABLES report, series, cursor, received, finished

vars == <<report, series, cursor, received, finished>>

\* the rows of a series in the order of their sequence
Rows == IF series = "equity" THEN [k \in 1..report.points |-> k - 1]
        ELSE [k \in 1..Len(report.trades) |-> k]
Stored == {Rows[k] : k \in DOMAIN Rows}

Init ==
    /\ report \in Reports
    /\ series \in {"equity", "trades"}
    /\ cursor = None
    /\ received = <<>>
    /\ finished = FALSE

\* list_historical_analysis_trades_page, list_historical_analysis_equity_page
After(c) == Ascending({s \in Stored : c = None \/ s > c})

Prefix(s, n) == IF Len(s) <= n THEN s ELSE SubSeq(s, 1, n)

\* list_trades_for_user, list_equity_for_user: one row more than the page is read, and
\* the cursor names the last row of the page
ReadPage(limit) ==
    /\ ~finished
    /\ LET rows == Prefix(After(cursor), limit + 1)
           page == Prefix(rows, limit)
       IN /\ received' = received \o page
          /\ IF Len(rows) > limit
             THEN cursor' = Last(page) /\ UNCHANGED finished
             ELSE finished' = TRUE /\ UNCHANGED cursor
    /\ UNCHANGED <<report, series>>

Next == \E limit \in Limits : ReadPage(limit)

Spec == Init /\ [][Next]_vars

-----------------------------------------------------------------------------
(* The preview of a report *)

\* _downsample_equity_points, _bounded_candles, _downsample_trades
Sampled(s, limit) ==
    IF Len(s) <= limit THEN s
    ELSE [slot \in 1..limit |-> s[1 + ((slot - 1) * (Len(s) - 1)) \div (limit - 1)]]

Candles == [k \in 1..report.points |-> k - 1]
Shown == Sampled(report.trades, TradeMarkerLimit)

\* Mutant: only the sampled candles are drawn
ChartWithoutTrades == Sampled(Candles, CandlePreviewLimit)
\* _chart_candle_preview: the sampled candles and those the shown trades touch, in order
Chart ==
    LET touched == UNION {{Shown[n].entry, Shown[n].exit} : n \in DOMAIN Shown}
        sampled == Sampled(Candles, CandlePreviewLimit)
        preview == {sampled[k] : k \in DOMAIN sampled}
    IN Ascending({c \in 0 .. report.points - 1 : c \in preview \union touched})
\* _trade_marker_responses: an entry, and an exit if the trade was closed
Markers == UNION {{Shown[n].entry} \union (IF Shown[n].closed THEN {Shown[n].exit} ELSE {}) :
                    n \in DOMAIN Shown}

-----------------------------------------------------------------------------
(* Properties *)

\* Whatever page sizes a client asks for, the pages are the series: what has arrived is a
\* prefix of it, and all of it when no cursor is left.
PagesAreTheSeries ==
    /\ IsPrefix(received, Rows)
    /\ finished => received = Rows

\* The preview of the equity curve keeps the first and the last point, in order and
\* without doubling any, within its limit.
PreviewKeepsEnds ==
    LET preview == Sampled(Candles, EquityPreviewLimit)
    IN /\ Len(preview) <= EquityPreviewLimit
       /\ report.points > 0 => preview[1] = 0 /\ Last(preview) = report.points - 1
       /\ \A k \in 2..Len(preview) : preview[k - 1] < preview[k]

\* Every marker sits on a candle that is drawn, however coarsely the candles are sampled.
MarkersAreDrawn == \A c \in Markers : \E k \in DOMAIN Chart : Chart[k] = c

\* Nothing of a report is lost on its way to the reader: pages, preview and markers.
ViewsAreComplete == PagesAreTheSeries /\ PreviewKeepsEnds /\ MarkersAreDrawn
=============================================================================
