---------------------------- MODULE MCPriceAlerts ----------------------------
(***************************************************************************)
(* Small instances of PriceAlerts for TLC: one alert of each direction on  *)
(* the same target, prices below, at and above it.                         *)
(***************************************************************************)
EXTENDS PriceAlerts

CONSTANTS rise, fall

MCDirection == [a \in Alerts |-> IF a = rise THEN "cross_above" ELSE "cross_below"]

MCTarget == [a \in Alerts |-> 2]

=============================================================================
