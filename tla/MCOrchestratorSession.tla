----------------------- MODULE MCOrchestratorSession -----------------------
(* Model checking of OrchestratorSession. *)
EXTENDS OrchestratorSession
=============================================================================
