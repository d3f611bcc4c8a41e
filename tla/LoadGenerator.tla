--------------------------- MODULE LoadGenerator ---------------------------
(***************************************************************************)
(* One load generator process from the moment it is ready to its exit:     *)
(* the reporting task (load_generator/phases/ready.rs), the pacer thread   *)
(* (Dispatcher::run_schedule in dispatch.rs) and one task per transaction, *)
(* all sharing the Tracker.                                                *)
(*                                                                         *)
(* Time is abstracted to order: a step's deadline passes at some moment    *)
(* after the pacer announced the step, and the pacer may be arbitrarily    *)
(* late.  The arrivals of the Poisson schedule are any non-decreasing      *)
(* sequence of step indices.                                               *)
(***************************************************************************)
EXTENDS Tracker, Sequences

CONSTANTS WarmupSteps, \* seconds of warmup, one step each
          PauseSteps,  \* seconds of pause, one report each
          LoadSteps,   \* steps of the load profile
          NoTx         \* "no dispatch": None of Option<RelativeLoadTestTime>

ASSUME StepsAssumption == WarmupSteps \in Nat /\ PauseSteps \in Nat /\ LoadSteps \in Nat
ASSUME NoTxAssumption == NoTx \notin Tx

VARIABLES
  phase,        \* "ready", "warmup", "pause", "load" or "drain"
  reporter,     \* where the reporting task is
  pacer,        \* "off", "drawing" the next arrival, or "emitting" what is due before it
  arrival,      \* the step of the arrival drawn, or the number of steps after the last one
  nextStep,     \* index of the next StepDone
  lastDispatch, \* last transaction dispatched since the last StepDone
  stepsDone,    \* the channel of StepDone messages
  current,      \* the StepDone being reported
  report,       \* the statistics being sent
  reports,      \* <<phase, index, last_dispatch>> of each report sent, drain reports left out
  connected,    \* is the orchestrator still there?
  home          \* phase and step each transaction was dispatched in

scheduleVars == <<pacer, arrival, nextStep, lastDispatch>>
reportVars   == <<current, report, reports>>
generatorVars == <<phase, reporter, scheduleVars, stepsDone, reportVars, connected, home>>
vars == <<trackerVars, generatorVars>>

Exited  == reporter = "exited"
Steps   == IF phase = "warmup" THEN WarmupSteps ELSE LoadSteps
NoStep  == [index |-> 0, last |-> NoTx]

-----------------------------------------------------------------------------
(* The pacer: for each arrival, first announce the steps that ended before *)
(* it, then dispatch it; after the last arrival announce the other steps.  *)
DrawArrival ==
  /\ ~Exited /\ pacer = "drawing"
  /\ pacer' = "emitting"
  /\ \E step \in arrival .. Steps :
       /\ step < Steps => \E t \in Tx : stage[t] = "new"
       /\ arrival' = step
  /\ UNCHANGED <<trackerVars, phase, reporter, nextStep, lastDispatch, stepsDone,
                 reportVars, connected, home>>

AnnounceStepEarly ==   \* mutant: announces the arrival's own step too
  /\ ~Exited /\ pacer = "emitting" /\ nextStep <= arrival
  /\ stepsDone' = Append(stepsDone, [index |-> nextStep, last |-> lastDispatch])
  /\ lastDispatch' = NoTx
  /\ nextStep' = nextStep + 1
  /\ UNCHANGED <<trackerVars, phase, reporter, pacer, arrival, reportVars, connected, home>>

AnnounceStepStale ==   \* mutant: last_dispatch is copied, not taken
  /\ ~Exited /\ pacer = "emitting" /\ nextStep < arrival
  /\ stepsDone' = Append(stepsDone, [index |-> nextStep, last |-> lastDispatch])
  /\ nextStep' = nextStep + 1
  /\ UNCHANGED <<trackerVars, phase, reporter, pacer, arrival, lastDispatch, reportVars,
                 connected, home>>

AnnounceStep ==
  /\ ~Exited /\ pacer = "emitting" /\ nextStep < arrival
  /\ IF reporter = "failed"            \* the receiver is gone: return early
     THEN pacer' = "off" /\ UNCHANGED <<nextStep, lastDispatch, stepsDone>>
     ELSE /\ stepsDone' = Append(stepsDone, [index |-> nextStep, last |-> lastDispatch])
          /\ lastDispatch' = NoTx
          /\ nextStep' = nextStep + 1
          /\ UNCHANGED pacer
  /\ UNCHANGED <<trackerVars, phase, reporter, arrival, reportVars, connected, home>>

DispatchUncounted(t) ==   \* mutant: the task is spawned without log_dispatched
  /\ ~Exited /\ pacer = "emitting" /\ nextStep >= arrival /\ arrival < Steps
  /\ stage[t] = "new"
  /\ stage' = [stage EXCEPT ![t] = "running"]
  /\ home' = [home EXCEPT ![t] = [phase |-> phase, step |-> arrival]]
  /\ lastDispatch' = t
  /\ pacer' = "drawing"
  /\ UNCHANGED <<outcome, millis, totalVars, shareVars, callVars, phase, reporter, arrival,
                 nextStep, stepsDone, reportVars, connected>>

Dispatch(t) ==
  /\ ~Exited /\ pacer = "emitting" /\ nextStep >= arrival /\ arrival < Steps
  /\ LogDispatched(t)
  /\ home' = [home EXCEPT ![t] = [phase |-> phase, step |-> arrival]]
  /\ lastDispatch' = t
  /\ pacer' = "drawing"
  /\ UNCHANGED <<phase, reporter, arrival, nextStep, stepsDone, reportVars, connected>>

PacerReturnsEarly ==   \* mutant: the steps after the last arrival are not announced
  /\ ~Exited /\ pacer = "emitting" /\ arrival = Steps
  /\ pacer' = "off"
  /\ UNCHANGED <<trackerVars, phase, reporter, arrival, nextStep, lastDispatch,
                 stepsDone, reportVars, connected, home>>

PacerReturns ==
  /\ ~Exited /\ pacer = "emitting" /\ nextStep >= arrival /\ arrival = Steps
  /\ pacer' = "off"
  /\ UNCHANGED <<trackerVars, phase, reporter, arrival, nextStep, lastDispatch,
                 stepsDone, reportVars, connected, home>>

-----------------------------------------------------------------------------
(* The task of a transaction: acquire_on_time and the request end with any *)
(* outcome (VirtualUserPool models how); then log_result.                  *)
Complete(t) ==
  /\ ~Exited /\ LogResult(t)
  /\ UNCHANGED generatorVars

-----------------------------------------------------------------------------
(* The reporting task.  In a run_phase it is "receiving", in the pause it  *)
(* is "pausing", in the drain it is "checking" inflight_count; from each   *)
(* it goes through "reporting" and "sending" back to where it was.         *)
StartPhase(p) ==
  /\ phase' = p
  /\ reporter' = "receiving"
  /\ pacer' = "drawing"
  /\ arrival' = 0 /\ nextStep' = 0 /\ lastDispatch' = NoTx
  /\ stepsDone' = <<>>

(* wait_for_command, then serve: Start begins the warmup, Abort and a lost *)
(* connection end the process with an error.                               *)
ReceiveStart ==
  /\ reporter = "ready"
  /\ StartPhase("warmup")
  /\ UNCHANGED <<trackerVars, reportVars, connected, home>>

ReceiveAbort ==
  /\ reporter = "ready"
  /\ reporter' = "failed"
  /\ UNCHANGED <<trackerVars, phase, scheduleVars, stepsDone, reportVars, connected, home>>

(* run_phase: wait for a StepDone and its deadline, then take the interval.*)
ReceiveStepDone ==
  /\ reporter = "receiving" /\ stepsDone # <<>>
  /\ current' = Head(stepsDone)
  /\ stepsDone' = Tail(stepsDone)
  /\ reporter' = "reporting"
  /\ BeginInterval
  /\ UNCHANGED <<phase, scheduleVars, report, reports, connected, home>>

ReceiveEmpty ==   \* mutant: leaves run_phase when no StepDone is waiting
  /\ reporter = "receiving" /\ stepsDone = <<>>
  /\ IF phase = "warmup"
     THEN /\ phase' = "pause" /\ reporter' = "pausing"
          /\ UNCHANGED trackerVars
     ELSE /\ phase' = "drain" /\ reporter' = "checking"
          /\ BeginInflight
  /\ UNCHANGED <<scheduleVars, stepsDone, reportVars, connected, home>>

ReceiveClosed ==   \* the pacer has dropped its sender, and is awaited
  /\ reporter = "receiving" /\ stepsDone = <<>> /\ pacer = "off"
  /\ IF phase = "warmup"
     THEN /\ phase' = "pause" /\ reporter' = "pausing"
          /\ UNCHANGED trackerVars
     ELSE /\ phase' = "drain" /\ reporter' = "checking"
          /\ BeginInflight
  /\ UNCHANGED <<scheduleVars, stepsDone, reportVars, connected, home>>

PauseReports == Cardinality({i \in DOMAIN reports : reports[i][1] = "pause"})

PauseTick ==
  /\ reporter = "pausing" /\ PauseReports < PauseSteps
  /\ current' = [index |-> PauseReports, last |-> NoTx]
  /\ reporter' = "reporting"
  /\ BeginInterval
  /\ UNCHANGED <<phase, scheduleVars, stepsDone, report, reports, connected, home>>

PauseEndsCleared ==   \* mutant: warmup results still held are thrown away
  /\ reporter = "pausing" /\ PauseReports = PauseSteps
  /\ StartPhase("load")
  /\ rows' = {}
  /\ UNCHANGED <<txVars, totalVars, counts, timeSum, timeCount, callVars, reportVars,
                 connected, home>>

PauseEnds ==   \* warmup's in-flight check only warns; load_test follows
  /\ reporter = "pausing" /\ PauseReports = PauseSteps
  /\ StartPhase("load")
  /\ UNCHANGED <<trackerVars, reportVars, connected, home>>

(* interval_statistics, swap by swap. *)
SwapInterval ==
  /\ reporter = "reporting"
  /\ \/ \E k \in Kinds : SwapCount(k)
     \/ SwapTimeSum
     \/ SwapTimeCount
  /\ UNCHANGED generatorVars

TakeReport ==
  /\ reporter = "reporting"
  /\ TakeRows
  /\ report' = [stats EXCEPT !.rows = rows]
  /\ reporter' = "sending"
  /\ UNCHANGED <<phase, scheduleVars, stepsDone, current, reports, connected, home>>

SendReport ==
  /\ reporter = "sending"
  /\ report' = NoStats
  /\ current' = NoStep
  /\ reports' = IF phase = "drain" THEN reports
                ELSE Append(reports, <<phase, current.index, current.last>>)
  /\ CASE phase = "pause" -> reporter' = "pausing" /\ UNCHANGED trackerVars
       [] phase = "drain" -> reporter' = "checking" /\ BeginInflight
       [] OTHER           -> reporter' = "receiving" /\ UNCHANGED trackerVars
  /\ UNCHANGED <<phase, scheduleVars, stepsDone, connected, home>>

(* load_test's drain: report once a second while transactions are in       *)
(* flight, then say Finished.                                              *)
CheckInflight ==
  /\ reporter = "checking" /\ InflightCount
  /\ UNCHANGED generatorVars

DrainTick ==
  /\ reporter = "checking" /\ call = "none" /\ answer > 0
  /\ reporter' = "reporting"
  /\ BeginInterval
  /\ UNCHANGED <<phase, scheduleVars, stepsDone, reportVars, connected, home>>

SendFinished ==
  /\ reporter = "checking" /\ call = "none" /\ answer = 0
  /\ reporter' = "finished"
  /\ UNCHANGED <<trackerVars, phase, scheduleVars, stepsDone, reportVars, connected, home>>

(* Losing the orchestrator shows only in a failed receive or send; a send  *)
(* after the loss may still appear to succeed.                             *)
Disconnect ==
  /\ ~Exited /\ connected
  /\ connected' = FALSE
  /\ UNCHANGED <<trackerVars, phase, reporter, scheduleVars, stepsDone, reportVars, home>>

ConnectionFails ==
  /\ ~connected
  /\ \/ reporter \in {"ready", "sending"}
     \/ reporter = "checking" /\ call = "none" /\ answer = 0
  /\ reporter' = "failed"
  /\ UNCHANGED <<trackerVars, phase, scheduleVars, stepsDone, reportVars, connected, home>>

(* main returns or calls exit(1): the pacer and the tasks stop with it.    *)
Exit ==
  /\ reporter \in {"finished", "failed"}
  /\ reporter' = "exited"
  /\ UNCHANGED <<trackerVars, phase, scheduleVars, stepsDone, reportVars, connected, home>>

-----------------------------------------------------------------------------
GeneratorInit ==
  /\ Init
  /\ phase = "ready" /\ reporter = "ready"
  /\ pacer = "off" /\ arrival = 0 /\ nextStep = 0 /\ lastDispatch = NoTx
  /\ stepsDone = <<>>
  /\ current = NoStep /\ report = NoStats /\ reports = <<>>
  /\ connected = TRUE
  /\ home = [t \in Tx |-> [phase |-> "none", step |-> 0]]

Pacer == DrawArrival \/ AnnounceStep \/ (\E t \in Tx : Dispatch(t)) \/ PacerReturns

Reporter ==
  \/ ReceiveStepDone \/ ReceiveClosed \/ PauseTick \/ PauseEnds
  \/ SwapInterval \/ TakeReport \/ SendReport
  \/ CheckInflight \/ DrainTick \/ SendFinished \/ Exit

GeneratorNext ==
  \/ ReceiveStart \/ ReceiveAbort \/ Reporter
  \/ Pacer
  \/ \E t \in Tx : Complete(t)
  \/ Disconnect \/ ConnectionFails

GeneratorSpec == GeneratorInit /\ [][GeneratorNext]_vars

(* The runtime schedules every ready task, the pacer has a thread of its   *)
(* own, and a request ends because its client has a timeout.               *)
Fairness ==
  /\ WF_vars(Reporter) /\ WF_vars(Pacer)
  /\ \A t \in Tx : WF_vars(Complete(t))

FairSpec == GeneratorSpec /\ Fairness

-----------------------------------------------------------------------------
(* Type invariant of the load generator; TypeOK is the tracker's. *)
StepDones == [index : Nat, last : Tx \cup {NoTx}]
Phases    == {"ready", "warmup", "pause", "load", "drain"}

GeneratorTypeOK ==
  /\ TypeOK
  /\ phase \in Phases
  /\ reporter \in {"ready", "receiving", "pausing", "checking", "reporting", "sending",
                   "finished", "failed", "exited"}
  /\ pacer \in {"off", "drawing", "emitting"}
  /\ arrival \in Nat /\ nextStep \in Nat /\ lastDispatch \in Tx \cup {NoTx}
  /\ stepsDone \in Seq(StepDones) /\ current \in StepDones
  /\ report \in Statistics
  /\ reports \in Seq(Phases \X Nat \X (Tx \cup {NoTx}))
  /\ connected \in BOOLEAN
  /\ home \in [Tx -> [phase : Phases \cup {"none"}, step : Nat]]

(* Finished is never sent while a dispatched transaction's outcome is      *)
(* unknown: log_dispatched precedes the spawn, the pacer is awaited before *)
(* the drain, and inflight_count reads dispatched first (dispatch.rs:75,   *)
(* ready.rs:178, 187).                                                     *)
FinishedMeansCounted ==
  reporter = "finished" => \A t \in Tx : stage[t] # "running"

(* The reporting task makes one call at a time, and drains only behind a   *)
(* pacer that has returned (ready.rs:178, 187).                            *)
ControlOK ==
  /\ reporter = "reporting" <=> call = "interval_statistics"
  /\ call = "inflight_count" => reporter = "checking"
  /\ reporter \in {"checking", "finished"} => phase = "drain"
  /\ phase \notin {"warmup", "load"} => pacer = "off"

(* What inflight_count has loaded never exceeds the totals, which only     *)
(* grow, so the answer 0 means that dispatched has been reached.           *)
Passed(k) == IF Position[k] < Position[field] THEN total[k] ELSE 0
AllCounted == dispatched <= total["success"] + total["failed"] + total["timeout"] + total["dropped"]

InflightSound ==
  /\ call = "inflight_count" =>
       /\ field \in Kinds /\ seen.dispatched = dispatched
       /\ seen.sum <= Passed("success") + Passed("failed") + Passed("timeout")
  /\ reporter = "checking" /\ call = "none" /\ answer = 0 => AllCounted
  /\ reporter = "finished" => AllCounted

(* The inductive invariant behind FinishedMeansCounted.                    *)
GeneratorInv == GeneratorTypeOK /\ ControlOK /\ InflightSound

(* Once a step is announced no transaction of it is dispatched any more,   *)
(* whatever the reporting task does meanwhile (dispatch.rs:111-129).       *)
AnnouncedIn(p) ==
  {i \in 0 .. LoadSteps + WarmupSteps :
     \/ p = phase /\ \E j \in DOMAIN stepsDone : stepsDone[j].index = i
     \/ p = phase /\ reporter \in {"reporting", "sending"} /\ current.index = i
     \/ \E j \in DOMAIN reports : reports[j][1] = p /\ reports[j][2] = i}

AnnouncedStepsAreClosed ==
  [][\A t \in Tx : home[t] # home'[t] => home'[t].step \notin AnnouncedIn(home'[t].phase)]_vars

Here(p, i) == {t \in Tx : home[t] = [phase |-> p, step |-> i]}
IsLastOf(last, p, i) == IF Here(p, i) = {} THEN last = NoTx ELSE last \in Here(p, i)

(* The last dispatch reported with a step (final_batch_time) is one of     *)
(* that step, and is empty only if the step dispatched nothing.            *)
LastDispatchOfItsStep ==
  \A j \in DOMAIN reports : reports[j][1] \in {"warmup", "load"} =>
    IsLastOf(reports[j][3], reports[j][1], reports[j][2])

(* Each second of warmup and pause and each step of the profile is         *)
(* reported exactly once, in order (ready.rs:104-180); behind StreamSpec.  *)
PhaseOf(j) ==
  CASE j <= WarmupSteps              -> <<"warmup", j - 1>>
    [] j > WarmupSteps + PauseSteps  -> <<"load", j - 1 - WarmupSteps - PauseSteps>>
    [] OTHER                         -> <<"pause", j - 1 - WarmupSteps>>

OneReportPerStep ==
  /\ \A j \in DOMAIN reports : <<reports[j][1], reports[j][2]>> = PhaseOf(j)
  /\ phase = "drain" => Len(reports) = WarmupSteps + PauseSteps + LoadSteps

(* The inductive invariant behind the three.  First, where the reporting   *)
(* task can be in each phase.                                              *)
Paced   == phase \in {"warmup", "load"}
InHand  == IF reporter \in {"reporting", "sending"} THEN 1 ELSE 0
Stopped == reporter \in {"failed", "exited"}

PlaceOK ==
  /\ phase = "ready" => reporter \in {"ready", "failed", "exited"} /\ reports = <<>>
  /\ reporter = "ready" => phase = "ready"
  /\ reporter = "receiving" => Paced
  /\ reporter = "pausing" => phase = "pause"

(* The steps of a phase are, in order, those reported, the one in hand,    *)
(* those in the channel and those the pacer has not announced yet; the     *)
(* pacer never announces the step of the arrival it has drawn.             *)
Before == IF phase = "load" THEN WarmupSteps + PauseSteps ELSE 0   \* reports of earlier phases

AnnouncedInOrder ==
  Paced =>
    /\ nextStep <= arrival /\ arrival <= Steps
    /\ Before <= Len(reports) /\ Len(reports) - Before + Len(stepsDone) <= nextStep
    /\ \A j \in DOMAIN stepsDone : stepsDone[j].index = nextStep - Len(stepsDone) + j - 1
    /\ InHand = 1 => current.index = Len(reports) - Before
    /\ ~Stopped => nextStep = Len(reports) - Before + InHand + Len(stepsDone)
    /\ ~Stopped /\ pacer = "off" => nextStep = Steps

PausedInOrder ==
  phase = "pause" =>
    /\ WarmupSteps <= Len(reports) /\ Len(reports) + InHand <= WarmupSteps + PauseSteps
    /\ InHand = 1 => current.index = Len(reports) - WarmupSteps

(* A transaction is dispatched in the step the pacer will announce next,   *)
(* whose last dispatch it keeps until then.                                *)
HomesOK ==
  /\ \A t \in Tx : stage[t] = "new" => home[t].phase = "none"
  /\ phase = "ready" => \A t \in Tx : home[t].phase = "none"
  /\ phase \in {"warmup", "pause"} => \A t \in Tx : home[t].phase # "load"
  /\ Paced => \A t \in Tx : home[t].phase = phase => home[t].step <= nextStep

LastsOK ==
  Paced =>
    /\ IsLastOf(lastDispatch, phase, nextStep)
    /\ \A j \in DOMAIN stepsDone : IsLastOf(stepsDone[j].last, phase, stepsDone[j].index)
    /\ InHand = 1 => IsLastOf(current.last, phase, current.index)

OrderInv == PlaceOK /\ AnnouncedInOrder /\ PausedInOrder /\ OneReportPerStep
StepsInv == OrderInv /\ HomesOK /\ LastsOK /\ LastDispatchOfItsStep

(* The load generator keeps what ReportStream promises of it, whatever the *)
(* pacer, the transactions and the connection do (ready.rs:104-203).  The  *)
(* orchestrator tells the phases apart by counting reports, so one too few *)
(* would shift every later one.                                            *)
Promised == INSTANCE ReportStream WITH
  sent   <- Len(reports),
  time   <- IF reports = <<>> THEN 0 ELSE reports[Len(reports)][2] + 1,
  stream <- CASE reporter = "finished" -> "finished"
              [] Stopped              -> "closed"
              [] OTHER                -> "open"

StreamSpec == Promised!Spec

(* What the documentation says of the result files and the code does not   *)
(* do: every dispatched transaction has a row in some report by the time   *)
(* Finished is sent.  A result logged between the last interval_statistics *)
(* and the inflight_count that returns 0 has none (ready.rs:187).          *)
FinishedMeansReported ==
  reporter = "finished" => reported.rows = Dispatched

(* What the documentation says of avg_service_time and the code does not   *)
(* do: the sum and the count that a report divides belong to the same      *)
(* transactions, so the average lies within the service times of the test. *)
AverageOfWholeTransactions ==
  \A low \in Millis, high \in Millis :
    (\A ms \in Millis : low <= ms /\ ms <= high) =>
      /\ report.count * low <= report.sum
      /\ report.sum <= report.count * high

(* A started load test ends: the drain stops once the last response is in. *)
StartedTestEnds == phase # "ready" ~> Exited

(* The load generator uses the tracker as Tracker allows it, so what holds *)
(* of every use of the tracker holds here.                                 *)
TrackerSpec == Spec
=============================================================================
