-------------------------- MODULE MCLoadGenerator --------------------------
(* Model checking of LoadGenerator.  Liveness is checked, so no symmetry.  *)
EXTENDS LoadGenerator
=============================================================================
