-------------------------- MODULE MCTimedDispatch --------------------------
(* Model checking of TimedDispatch. *)
EXTENDS TimedDispatch, TLC

Symmetry == Permutations(Tx)
=============================================================================
