---------------------------- MODULE ReportStream ----------------------------
(***************************************************************************)
(* What the orchestrator may rely on when it takes reports from a started  *)
(* load generator: one report for each second of warmup and pause and for  *)
(* each step of the profile, in order and with the target time of that     *)
(* step, and Finished only after all of them.  The stream may break off at *)
(* any moment.  The reports of the drain, between the last step and        *)
(* Finished, are not counted.                                              *)
(***************************************************************************)
EXTENDS Naturals

CONSTANTS WarmupSteps, PauseSteps, LoadSteps

VARIABLES
  sent,  \* how many steps have been reported
  time,  \* target time of the last one, in steps of its phase
  stream \* "open", "finished" while Finished is on its way, or "closed"

streamVars == <<sent, time, stream>>

Measured == WarmupSteps + PauseSteps + LoadSteps

(* A report names no phase; its target time starts anew with each.         *)
Target(k) ==
  CASE k <= WarmupSteps              -> k
    [] k > WarmupSteps + PauseSteps  -> k - WarmupSteps - PauseSteps
    [] OTHER                         -> k - WarmupSteps

Init == sent = 0 /\ time = 0 /\ stream = "open"

ReportStep ==
  /\ stream = "open" /\ sent < Measured
  /\ sent' = sent + 1 /\ time' = Target(sent + 1)
  /\ UNCHANGED stream

Finish ==
  /\ stream = "open" /\ sent = Measured
  /\ stream' = "finished"
  /\ UNCHANGED <<sent, time>>

Close ==
  /\ stream # "closed"
  /\ stream' = "closed"
  /\ UNCHANGED <<sent, time>>

Next == ReportStep \/ Finish \/ Close

Spec == Init /\ [][Next]_streamVars
=============================================================================
