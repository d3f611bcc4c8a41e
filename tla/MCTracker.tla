----------------------------- MODULE MCTracker -----------------------------
(***************************************************************************)
(* Model checking of Tracker: which transaction is which makes no          *)
(* difference.                                                             *)
(***************************************************************************)
EXTENDS Tracker, TLC

Symmetry == Permutations(Tx)
=============================================================================
