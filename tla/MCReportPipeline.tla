-------------------------- MODULE MCReportPipeline --------------------------
(* Model checking of ReportPipeline. *)
EXTENDS ReportPipeline
=============================================================================
