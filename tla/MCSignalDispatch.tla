-------------------------- MODULE MCSignalDispatch --------------------------
(***************************************************************************)
(* Small instances of SignalDispatch for TLC.                              *)
(***************************************************************************)
EXTENDS SignalDispatch, TLC

\* Dispatchers are interchangeable; used by safety runs only.
MCSymmetry == Permutations(Dispatchers)

=============================================================================
