------------------------------ MODULE MCCandles ------------------------------
(***************************************************************************)
(* What is stored of candles and what is computed from them, each module   *)
(* on a small instance: the table, its writers and the repair of recent    *)
(* gaps (CandlesAndGaps), the signals judged from it and the parts of a    *)
(* historical analysis (SignalsAndAnalyses).  They share no state here: a  *)
(* behaviour is a behaviour of one of them, the others at rest.            *)
(***************************************************************************)
EXTENDS CandlesAndGaps, SignalsAndAnalyses

MCMinutes == 0 .. 3
MCMarkets == <<"btc", "eth">>

VARIABLE part       \* the module the behaviour is of

-----------------------------------------------------------------------------
Strategy(engine, direction, stop, take, rsi, hold) ==
    [engine |-> engine, direction |-> direction, stop |-> stop, take |-> take,
     rsi |-> rsi, hold |-> hold]

MCStrategies ==
    {Strategy(e, d, 0, 0, FALSE, 2) :
        e \in {"fixed_v1", "fixed_v2"}, d \in {"cross_above", "cross_below"}}
    \union {Strategy(e, "cross_above", 10, 10, r, 2) :
        e \in {"configurable_v1", "configurable_v2"}, r \in BOOLEAN}
    \union {Strategy("configurable_v2", "cross_below", 10, 0, FALSE, 3)}

Shape(open, high, low, close) == [open |-> open, high |-> high, low |-> low, close |-> close]

\* quiet, a rise, a gap down, both levels touched, and twice the price
MCShapes ==
    {Shape(10000, 10500, 9500, 10000), Shape(8500, 8700, 8000, 8000),
     Shape(10000, 12000, 8000, 11000), Shape(20000, 21000, 20000, 21000)}

EngineRests ==
    /\ eStrategy = CHOOSE s \in MCStrategies : TRUE
    /\ eCandle = CHOOSE c \in MCShapes : TRUE
    /\ eRelation = "equal"
    /\ Engine!Init

-----------------------------------------------------------------------------
Request(frame, warmup, start, end, long, rs) ==
    [frame |-> frame, warmup |-> warmup, start |-> start, end |-> end, long |-> long,
     rules |-> rs]
Rule(type, value) == [type |-> type, value |-> value]

\* every rule at, below and above its bounds
MCRules ==
    {Rule("stop_loss_percent", v) : v \in {0, 9999, 10000}}
    \union {Rule("take_profit_percent", v) : v \in {1, 100001}}
    \union {Rule("rsi_threshold_cross", v) : v \in {0, 3000, 10000}}
    \union {Rule("max_holding_candles", v) : v \in {0, 1, 2200, 2201}}
    \union {Rule("trailing_stop", 1)}

MCRanges ==
    {q \in [frame : {1, 2}, warmup : {1, 2}, start : {2, 3}, end : 3..8, long : {TRUE},
            rules : {<<>>}] : q.end <= q.start + 5}
MCSubmitted ==
    {Request(2, 1, 2, 4, long, rs) :
        long \in BOOLEAN, rs \in UNION {[1..n -> MCRules] : n \in 0..3}}
Good == <<Rule("max_holding_candles", 1), Rule("rsi_threshold_cross", 3000),
          Rule("take_profit_percent", 1), Rule("stop_loss_percent", 9999)>>
MCLong == {Request(2, 1, 2, 4, TRUE, Good), Request(2, 1, 2, 4, TRUE, Append(Good, Good[1]))}

MCRequests == MCRanges \union MCSubmitted \union MCLong
MCStores == {"none", "complete", "incomplete"}

InputsRest ==
    /\ iRequest = Request(2, 1, 2, 4, TRUE, <<>>)
    /\ iStore = [t \in Inputs!OpenTimes(iRequest) |-> "complete"]
    /\ iPhase = "submitted" /\ iCode = "none" /\ iRules = <<>> /\ iChanges = 0

-----------------------------------------------------------------------------
\* the n-th of the trades of a report: entered and left one after the other
Trade(n, held, closed) == [entry |-> n, exit |-> n + held, closed |-> closed]
MCReports ==
    {[points |-> p, trades |-> [n \in 1..k |-> Trade(n, held, n < k \/ closed)]] :
        p \in 7..9, k \in 0..5, held \in {0, 1}, closed \in BOOLEAN}
    \union {[points |-> p, trades |-> <<>>] : p \in 0..5}

ViewsRest ==
    /\ vReport = [points |-> 0, trades |-> <<>>] /\ vSeries = "equity"
    /\ vCursor = None /\ vReceived = <<>> /\ vFinished = FALSE

-----------------------------------------------------------------------------
MCPresets == {[strategy |-> "sma", direction |-> "cross_above"],
              [strategy |-> "rsi", direction |-> "cross_below"]}

GapsRest == gStored = [m \in Gaps!MarketSet |-> {}] /\ Gaps!Init

-----------------------------------------------------------------------------
MCInit ==
    /\ part \in {"store", "gaps", "evaluation", "inputs", "engine", "views"}
    /\ Init
    /\ Signals!Init
    /\ IF part = "gaps" THEN Gaps!Init ELSE GapsRest
    /\ IF part = "inputs" THEN Inputs!Init ELSE InputsRest
    /\ IF part = "engine" THEN Engine!Init ELSE EngineRests
    /\ IF part = "views" THEN Views!Init ELSE ViewsRest

MCNext ==
    /\ UNCHANGED part
    /\ \/ part = "store" /\ Next /\ UNCHANGED <<gVars, sVars, iVars, eVars, vVars>>
       \/ part = "gaps" /\ Gaps!Next /\ UNCHANGED <<vars, sVars, iVars, eVars, vVars>>
       \/ part = "evaluation" /\ Signals!Next /\ UNCHANGED <<vars, gVars, iVars, eVars, vVars>>
       \/ part = "inputs" /\ Inputs!Next /\ UNCHANGED <<vars, gVars, sVars, eVars, vVars>>
       \/ part = "engine" /\ Engine!Next /\ UNCHANGED <<vars, gVars, sVars, iVars, vVars>>
       \/ part = "views" /\ Views!Next /\ UNCHANGED <<vars, gVars, sVars, iVars, eVars>>

MCSpec == MCInit /\ [][MCNext]_<<part, vars, gVars, sVars, iVars, eVars, vVars>>

=============================================================================
