------------------------------- MODULE Ordering -------------------------------
(***************************************************************************)
(* A finite set of integers as a sequence: what ORDER BY and sorted make   *)
(* of it.                                                                  *)
(***************************************************************************)
EXTENDS Integers, FiniteSets

Nth(S, n) == CHOOSE k \in S : Cardinality({j \in S : j <= k}) = n
Ascending(S) == [n \in 1 .. Cardinality(S) |-> Nth(S, n)]
=============================================================================
