--------------------------- MODULE ReportPipeline ---------------------------
(***************************************************************************)
(* The orchestrator while a test runs: it collects one interval report     *)
(* per round from every load generator that has not finished, adds them    *)
(* up, counts drops and hands the sum to the writer task, which appends it *)
(* to the output files (orchestrator/phases/collect.rs, runner.rs,         *)
(* persist/mod.rs, summary.rs).                                            *)
(*                                                                         *)
(* A load generator is what ReportStream promises of it: one report per    *)
(* step of warmup, pause and load, any number of drain reports, Finished.  *)
(* It may crash at any moment.  Its connection and the reader task that    *)
(* forwards what arrives (start.rs) are one queue of updates.              *)
(***************************************************************************)
EXTENDS Naturals, Sequences

CONSTANTS N,           \* load generators, numbered as in the command line
          WarmupSteps, \* seconds of warmup, one report each
          PauseSteps,  \* seconds of pause, one report each
          LoadSteps,   \* steps of the load profile, one report each
          Files,       \* persisters that can fail; the console swallows errors
          Droppers,    \* bound: the generators that may drop transactions
          MaxDrain,    \* bound: drain reports of one generator
          MaxLate,     \* bound: seconds a drain report may skip
          MaxInFlight  \* bound: updates in one connection

ASSUME PipelineAssumption ==
  /\ {N, Files} \subseteq Nat \ {0}
  /\ {WarmupSteps, PauseSteps, LoadSteps, MaxDrain, MaxLate, MaxInFlight} \subseteq Nat

VARIABLES
  progress,  \* reports each generator has sent
  last,      \* target time of the last one
  link,      \* updates on their way from each generator
  ended,     \* has the generator closed its connection?
  collector, \* where the runner is
  outcome,   \* why it left the collecting loop
  handles,   \* GeneratorHandles that have not finished
  position,  \* collect_reports' index into handles
  round,     \* the reports of the current round
  summary,   \* DropSummary: its classifier's count, and whether drops were counted
  channel,   \* the mpsc channel to the writer
  error,     \* the oneshot channel back: "none", "sent" or "taken"
  writer,    \* where the writer task is
  file,      \* the persister it is at
  row,       \* the report being persisted, with its phase
  classified,\* the count of the writer's PhaseClassifier
  written,   \* rows given to each persister
  flushed,   \* how many of them are known to be on disk
  rounds     \* history: the rounds added up so far

generatorVars == <<progress, last, link, ended>>
loopVars      == <<handles, position, round, summary, rounds>>
runnerVars    == <<collector, outcome, loopVars>>
writerVars    == <<writer, file, row, classified, written, flushed>>
vars == <<generatorVars, runnerVars, channel, error, writerVars>>

Generators == 1 .. N
Persisters == 1 .. Files
Measured   == WarmupSteps + PauseSteps + LoadSteps
Verdicts   == {"finished", "collect_failed", "persist_failed", "panicked"}

-----------------------------------------------------------------------------
(* An update is a report or Finished.  `index' counts the reports of one   *)
(* generator; the code knows only its target time, which restarts with     *)
(* each phase.                                                             *)
Finished == [index |-> 0, time |-> 0, dropped |-> FALSE]

PhaseOf(k) == CASE k <= WarmupSteps              -> "warmup"
                [] k > WarmupSteps + PauseSteps  -> "load"
                [] OTHER                        -> "pause"

TimeOf(k) == CASE PhaseOf(k) = "warmup" -> k
               [] PhaseOf(k) = "pause"  -> k - WarmupSteps
               [] OTHER                 -> k - WarmupSteps - PauseSteps

Drops(g) == IF g \in Droppers THEN BOOLEAN ELSE {FALSE}

(* Once the collecting loop is left, what the generators send goes nowhere. *)
Running(g) == ~ended[g] /\ collector \in {"receiving", "sending"}

Transmit(g, update) ==
  /\ Len(link[g]) < MaxInFlight
  /\ link' = [link EXCEPT ![g] = Append(@, update)]

SendReport(g, time, dropped) ==
  /\ Transmit(g, [index |-> progress[g] + 1, time |-> time, dropped |-> dropped])
  /\ progress' = [progress EXCEPT ![g] = @ + 1]
  /\ last' = [last EXCEPT ![g] = time]
  /\ UNCHANGED <<ended, runnerVars, channel, error, writerVars>>

ReportStep(g) ==
  /\ Running(g) /\ progress[g] < Measured
  /\ \E dropped \in Drops(g) : SendReport(g, TimeOf(progress[g] + 1), dropped)

(* The first full second after now: the next one, or a later one when the  *)
(* generator is behind.                                                    *)
ReportDrain(g) ==
  /\ Running(g) /\ progress[g] >= Measured /\ progress[g] < Measured + MaxDrain
  /\ LET previous == IF progress[g] = Measured THEN LoadSteps ELSE last[g]
     IN  \E late \in 0 .. MaxLate, dropped \in Drops(g) :
           SendReport(g, previous + 1 + late, dropped)

SendFinished(g) ==
  /\ Running(g) /\ progress[g] >= Measured
  /\ Transmit(g, Finished)
  /\ ended' = [ended EXCEPT ![g] = TRUE]
  /\ UNCHANGED <<progress, last, runnerVars, channel, error, writerVars>>

Crash(g) ==   \* what has not arrived yet may be lost
  /\ Running(g)
  /\ ended' = [ended EXCEPT ![g] = TRUE]
  /\ \E n \in 0 .. Len(link[g]) : link' = [link EXCEPT ![g] = SubSeq(@, 1, n)]
  /\ UNCHANGED <<progress, last, runnerVars, channel, error, writerVars>>

-----------------------------------------------------------------------------
(* PhaseClassifier::classify, given how many reports came before. *)
ClassifyLate(count) ==   \* mutant: one report too many counts as warmup
  CASE count <= WarmupSteps             -> "warmup"
    [] count > WarmupSteps + PauseSteps -> "load"
    [] OTHER                            -> "pause"

Classify(count) ==
  CASE count < WarmupSteps              -> "warmup"
    [] count >= WarmupSteps + PauseSteps -> "load"
    [] OTHER                            -> "pause"

(* collect_reports: receive from each handle in turn. *)
Receiving == collector = "receiving" /\ position <= Len(handles)
Awaited   == handles[position]

LeaveLoop(why) == collector' = "closing" /\ outcome' = why

ReceiveReportTwice ==   \* mutant: the position does not advance
  /\ Receiving /\ link[Awaited] # <<>> /\ Head(link[Awaited]) # Finished
  /\ round' = Append(round, [from |-> Awaited, report |-> Head(link[Awaited])])
  /\ link' = [link EXCEPT ![Awaited] = Tail(@)]
  /\ position' = IF Len(round') < Len(handles) THEN position ELSE Len(handles) + 1
  /\ UNCHANGED <<progress, last, ended, collector, outcome, handles, summary, rounds,
                 channel, error, writerVars>>

ReceiveReport ==
  /\ Receiving /\ link[Awaited] # <<>> /\ Head(link[Awaited]) # Finished
  /\ round' = Append(round, [from |-> Awaited, report |-> Head(link[Awaited])])
  /\ link' = [link EXCEPT ![Awaited] = Tail(@)]
  /\ position' = position + 1
  /\ UNCHANGED <<progress, last, ended, collector, outcome, handles, summary, rounds,
                 channel, error, writerVars>>

(* Vec::swap_remove: the last handle takes the place of the one removed.   *)
SwapRemove(s, i) == [j \in 1 .. Len(s) - 1 |-> IF j = i THEN s[Len(s)] ELSE s[j]]

ReceiveFinishedSkipping ==   \* mutant: the handle moved into the gap is skipped
  /\ Receiving /\ link[Awaited] # <<>> /\ Head(link[Awaited]) = Finished
  /\ handles' = SwapRemove(handles, position)
  /\ link' = [link EXCEPT ![Awaited] = Tail(@)]
  /\ position' = position + 1
  /\ UNCHANGED <<progress, last, ended, collector, outcome, round, summary, rounds,
                 channel, error, writerVars>>

ReceiveFinished ==
  /\ Receiving /\ link[Awaited] # <<>> /\ Head(link[Awaited]) = Finished
  /\ handles' = SwapRemove(handles, position)
  /\ link' = [link EXCEPT ![Awaited] = Tail(@)]
  /\ UNCHANGED <<progress, last, ended, collector, outcome, position, round, summary,
                 rounds, channel, error, writerVars>>

InstanceCrashedIgnored ==   \* mutant: a lost connection counts as Finished
  /\ Receiving /\ link[Awaited] = <<>> /\ ended[Awaited]
  /\ handles' = SwapRemove(handles, position)
  /\ UNCHANGED <<generatorVars, collector, outcome, position, round, summary, rounds,
                 channel, error, writerVars>>

InstanceCrashed ==
  /\ Receiving /\ link[Awaited] = <<>> /\ ended[Awaited]
  /\ handles' = SwapRemove(handles, position)
  /\ LeaveLoop("crashed")
  /\ UNCHANGED <<generatorVars, position, round, summary, rounds, channel, error, writerVars>>

(* The end of a round: nothing left, out of sync, or a report to persist,  *)
(* which the summary records before it is sent.                            *)
RoundEnds == collector = "receiving" /\ position > Len(handles)
InSync    == \A i \in DOMAIN round : round[i].report.time = round[1].report.time

Sum(reports) ==
  [members |-> {[from |-> reports[i].from, index |-> reports[i].report.index] :
                  i \in DOMAIN reports},
   dropped |-> \E i \in DOMAIN reports : reports[i].report.dropped]

Exhausted ==
  /\ RoundEnds /\ round = <<>>
  /\ LeaveLoop("exhausted")
  /\ UNCHANGED <<generatorVars, loopVars, channel, error, writerVars>>

TimeMismatch ==
  /\ RoundEnds /\ ~InSync
  /\ LeaveLoop("mismatch")
  /\ UNCHANGED <<generatorVars, loopVars, channel, error, writerVars>>

RecordUncounted(report) ==   \* mutant: only reports with drops are counted
  summary' = [count |-> summary.count + (IF report.dropped THEN 1 ELSE 0),
              load  |-> summary.load \/ (Classify(summary.count) = "load" /\ report.dropped)]

Record(report) ==   \* DropSummary::record
  summary' = [count |-> summary.count + 1,
              load  |-> summary.load \/ (Classify(summary.count) = "load" /\ report.dropped)]

AddUp ==
  /\ RoundEnds /\ round # <<>> /\ InSync
  /\ Record(Sum(round))
  /\ rounds' = Append(rounds, Sum(round))
  /\ collector' = "sending"
  /\ UNCHANGED <<generatorVars, outcome, handles, position, round, channel, error, writerVars>>

SendUnbounded ==   \* mutant: an unbounded channel
  /\ collector = "sending" /\ writer # "done"
  /\ channel' = Append(channel, Sum(round))
  /\ collector' = "receiving" /\ position' = 1 /\ round' = <<>>
  /\ UNCHANGED <<generatorVars, outcome, handles, summary, rounds, error, writerVars>>

SendToWriter ==
  /\ collector = "sending" /\ writer # "done" /\ Len(channel) < 2
  /\ channel' = Append(channel, Sum(round))
  /\ collector' = "receiving" /\ position' = 1 /\ round' = <<>>
  /\ UNCHANGED <<generatorVars, outcome, handles, summary, rounds, error, writerVars>>

(* The receiver is gone: error_rx.try_recv().expect(...). *)
SendFails ==
  /\ collector = "sending" /\ writer = "done"
  /\ IF error = "sent"
     THEN error' = "taken" /\ LeaveLoop("persist_failed")
     ELSE collector' = "panicked" /\ UNCHANGED <<error, outcome>>
  /\ UNCHANGED <<generatorVars, loopVars, channel, writerVars>>

(* select! polls error_rx whenever collect_reports waits, or has yet to    *)
(* begin; the round collected so far is dropped with its future.           *)
ErrorSignaled ==
  /\ collector = "receiving" /\ (position = 1 \/ Receiving)
  /\ error = "sent"
  /\ error' = "taken" /\ LeaveLoop("persist_failed")
  /\ UNCHANGED <<generatorVars, loopVars, channel, writerVars>>

(* The sender is dropped and the writer awaited. *)
Conclude ==
  /\ collector = "closing" /\ writer = "done"
  /\ collector' = CASE outcome = "exhausted" /\ error = "none"    -> "finished"
                    [] outcome \in {"crashed", "mismatch"}        -> "collect_failed"
                    [] OTHER                                      -> "persist_failed"
  /\ UNCHANGED <<generatorVars, outcome, loopVars, channel, error, writerVars>>

-----------------------------------------------------------------------------
(* writer_loop. *)
WriterReceives ==
  /\ writer = "receiving" /\ channel # <<>>
  /\ channel' = Tail(channel)
  /\ row' = [report |-> Head(channel), phase |-> Classify(classified)]
  /\ classified' = classified + 1
  /\ writer' = "persisting" /\ file' = 1
  /\ UNCHANGED <<generatorVars, runnerVars, error, written, flushed>>

WriterClosedOnSuccess ==   \* mutant: the sender is dropped only after success
  /\ writer = "receiving" /\ channel = <<>> /\ collector = "closing"
  /\ outcome = "exhausted"
  /\ writer' = "flushing_last" /\ file' = 1
  /\ UNCHANGED <<generatorVars, runnerVars, channel, error, row, classified, written, flushed>>

WriterClosed ==
  /\ writer = "receiving" /\ channel = <<>> /\ collector = "closing"
  /\ writer' = "flushing_last" /\ file' = 1
  /\ UNCHANGED <<generatorVars, runnerVars, channel, error, row, classified, written, flushed>>

NextFile(then) ==
  IF file < Files THEN file' = file + 1 /\ UNCHANGED writer
                  ELSE file' = 1 /\ writer' = then

Persist ==
  /\ writer = "persisting"
  /\ written' = [written EXCEPT ![file] = Append(@, row)]
  /\ NextFile("flushing")
  /\ UNCHANGED <<generatorVars, runnerVars, channel, error, row, classified, flushed>>

Flush ==
  /\ writer \in {"flushing", "flushing_last"}
  /\ flushed' = [flushed EXCEPT ![file] = Len(written[file])]
  /\ NextFile(IF writer = "flushing" THEN "receiving" ELSE "done")
  /\ UNCHANGED <<generatorVars, runnerVars, channel, error, row, classified, written>>

(* A persister fails: tell the runner, then return and drop the receiver.  *)
PersisterFailsUntold ==   \* mutant: returns without telling
  /\ writer \in {"persisting", "flushing", "flushing_last"}
  /\ writer' = "failing"
  /\ UNCHANGED <<generatorVars, runnerVars, channel, error, file, row, classified, written,
                 flushed>>

PersisterFails ==
  /\ writer \in {"persisting", "flushing", "flushing_last"}
  /\ error' = "sent"
  /\ writer' = "failing"
  /\ UNCHANGED <<generatorVars, runnerVars, channel, file, row, classified, written, flushed>>

WriterReturns ==
  /\ writer = "failing"
  /\ writer' = "done"
  /\ UNCHANGED <<generatorVars, runnerVars, channel, error, file, row, classified, written,
                 flushed>>

-----------------------------------------------------------------------------
NoRow == [report |-> [members |-> {}, dropped |-> FALSE], phase |-> "none"]

Init ==
  /\ progress = [g \in Generators |-> 0]
  /\ last = [g \in Generators |-> 0]
  /\ link = [g \in Generators |-> <<>>]
  /\ ended = [g \in Generators |-> FALSE]
  /\ collector = "receiving" /\ outcome = "none"
  /\ handles = [i \in 1 .. N |-> i] /\ position = 1 /\ round = <<>>
  /\ summary = [count |-> 0, load |-> FALSE]
  /\ channel = <<>> /\ error = "none"
  /\ writer = "receiving" /\ file = 1 /\ row = NoRow /\ classified = 0
  /\ written = [p \in Persisters |-> <<>>]
  /\ flushed = [p \in Persisters |-> 0]
  /\ rounds = <<>>

Generate(g) == ReportStep(g) \/ ReportDrain(g) \/ SendFinished(g)

Collect ==
  \/ ReceiveReport \/ ReceiveFinished \/ InstanceCrashed
  \/ Exhausted \/ TimeMismatch \/ AddUp
  \/ SendToWriter \/ SendFails \/ ErrorSignaled \/ Conclude

WriterTask ==
  \/ WriterReceives \/ WriterClosed \/ Persist \/ Flush \/ WriterReturns

Next ==
  \/ \E g \in Generators : Generate(g) \/ Crash(g)
  \/ Collect
  \/ WriterTask \/ PersisterFails

Spec == Init /\ [][Next]_vars

(* Both tasks are run while they can go on, and a load generator goes on   *)
(* until it is Finished (StartedTestEnds of LoadGenerator) or crashes.     *)
FairSpec ==
  /\ Spec
  /\ WF_vars(Collect) /\ WF_vars(WriterTask)
  /\ \A g \in Generators : WF_vars(Generate(g))

-----------------------------------------------------------------------------
(* Type invariant of the pipeline. *)
Members == [from : Generators, index : Nat]
Totals  == [members : SUBSET Members, dropped : BOOLEAN]
Rows    == [report : Totals, phase : {"warmup", "pause", "load", "none"}]
Updates == [index : Nat, time : Nat, dropped : BOOLEAN]

PipelineTypeOK ==
  /\ progress \in [Generators -> Nat] /\ last \in [Generators -> Nat]
  /\ link \in [Generators -> Seq(Updates)] /\ ended \in [Generators -> BOOLEAN]
  /\ collector \in {"receiving", "sending", "closing"} \cup Verdicts
  /\ outcome \in {"none", "exhausted", "crashed", "mismatch", "persist_failed"}
  /\ handles \in Seq(Generators) /\ position \in Nat \ {0}
  /\ round \in Seq([from : Generators, report : Updates])
  /\ summary \in [count : Nat, load : BOOLEAN]
  /\ channel \in Seq(Totals) /\ Len(channel) <= 2
  /\ error \in {"none", "sent", "taken"}
  /\ writer \in {"receiving", "persisting", "flushing", "flushing_last", "failing", "done"}
  /\ file \in Persisters /\ row \in Rows /\ classified \in Nat
  /\ written \in [Persisters -> Seq(Rows)] /\ flushed \in [Persisters -> Nat]
  /\ rounds \in Seq(Totals)

(* The n-th round holds the n-th report of every generator that has sent   *)
(* one, and nothing else, whichever generators have finished before and    *)
(* however their handles were moved (collect.rs:33-48).                    *)
RoundsComplete ==
  \A n \in DOMAIN rounds :
    rounds[n].members = {[from |-> g, index |-> n] : g \in {h \in Generators : progress[h] >= n}}

(* Generators can fall out of sync in the drain only: as long as there are *)
(* steps to report, the reports of one round have the same target time     *)
(* (collect.rs:61).                                                        *)
MismatchOnlyInDrain ==
  outcome = "mismatch" => \E i \in DOMAIN round : round[i].report.index > Measured

(* Whatever fails, each output file is a prefix of the rounds, with the    *)
(* phase in which the generators measured them; the files are at most one  *)
(* row apart (persist/mod.rs:73-94).                                       *)
FilesArePrefixes ==
  \A p \in Persisters :
    /\ Len(written[p]) <= Len(rounds) /\ flushed[p] <= Len(written[p])
    /\ \A n \in DOMAIN written[p] :
         written[p][n] = [report |-> rounds[n], phase |-> PhaseOf(n)]
    /\ \A q \in p .. Files : Len(written[p]) - Len(written[q]) \in {0, 1}

(* A test that is said to have finished has every report of every          *)
(* generator in every file, on disk (runner.rs:195-202).                   *)
FinishedMeansWritten ==
  collector = "finished" =>
    /\ \A g \in Generators : ended[g] /\ link[g] = <<>> /\ progress[g] <= Len(rounds)
    /\ \A p \in Persisters : flushed[p] = Len(rounds) /\ Len(written[p]) = Len(rounds)

(* The run is called valid exactly if no row of the load phase has a drop, *)
(* although the summary classifies the reports by a count of its own, and  *)
(* before the writer does (summary.rs:91-108, runner.rs:285).              *)
ValidMeansNoLoadDrop ==
  collector = "finished" =>
    \A p \in Persisters :
      summary.load <=> \E n \in DOMAIN written[p] :
                         written[p][n].phase = "load" /\ written[p][n].report.dropped

(* The runner finds the error that made the writer drop its receiver:      *)
(* expect never panics (runner.rs:286-291, persist/mod.rs:77, 83, 90).     *)
ErrorPrecedesReturn == collector # "panicked"

-----------------------------------------------------------------------------
(* The inductive invariant behind the six.  First the collector: it has    *)
(* taken the same number of reports from every handle, one more from those *)
(* before its position, and what is left in a link continues from there.   *)
Looping == collector \in {"receiving", "sending"}

Taken(i) == IF collector = "receiving" /\ i < position THEN Len(rounds) + 1 ELSE Len(rounds)

OnTime(report) == report.index <= Measured => report.time = TimeOf(report.index)

LinkContinues(g, taken) ==
  /\ taken <= progress[g]
  /\ ~ended[g] => progress[g] = taken + Len(link[g])
  /\ \A j \in DOMAIN link[g] :
       \/ /\ link[g][j] # Finished /\ OnTime(link[g][j])
          /\ link[g][j].index = taken + j /\ taken + j <= progress[g]
       \/ /\ link[g][j] = Finished /\ ended[g]
          /\ j = Len(link[g]) /\ progress[g] = taken + j - 1

Gone(g) == ended[g] /\ link[g] = <<>> /\ progress[g] <= Len(rounds)

HandlesOK ==
  Looping =>
    /\ \A i, j \in DOMAIN handles : handles[i] = handles[j] => i = j
    /\ \A i \in DOMAIN handles : LinkContinues(handles[i], Taken(i))
    /\ \A g \in Generators : Gone(g) \/ \E i \in DOMAIN handles : handles[i] = g

RoundOK ==
  /\ collector = "receiving" =>
       /\ Len(round) = position - 1 /\ position <= Len(handles) + 1
       /\ \A i \in DOMAIN round : /\ round[i].from = handles[i] /\ OnTime(round[i].report)
                                  /\ round[i].report.index = Len(rounds) + 1
  /\ collector = "sending" => rounds # <<>> /\ rounds[Len(rounds)] = Sum(round)

OutcomeOK ==
  /\ outcome = "none" <=> collector \in {"receiving", "sending", "panicked"}
  /\ outcome = "exhausted" => \A g \in Generators : Gone(g)
  /\ collector = "finished" => outcome = "exhausted" /\ writer = "done" /\ error = "none"

(* Then the way of a round to the files.                                   *)
RowOf(n) == [report |-> rounds[n], phase |-> PhaseOf(n)]

ChannelOK ==
  /\ classified + Len(channel) <= Len(rounds)
  /\ collector = "receiving" \/ outcome = "exhausted" => classified + Len(channel) = Len(rounds)
  /\ collector = "sending" => classified + Len(channel) + 1 = Len(rounds)
  /\ \A i \in DOMAIN channel : channel[i] = rounds[classified + i]

WrittenOK ==
  /\ \A p \in Persisters : Len(written[p]) <= classified
  /\ writer \in {"receiving", "flushing", "flushing_last"} =>
       \A p \in Persisters : Len(written[p]) = classified
  /\ writer = "persisting" =>
       /\ classified > 0 /\ row = RowOf(classified)
       /\ \A p \in Persisters : Len(written[p]) = IF p < file THEN classified ELSE classified - 1

(* The last flush, and the error that takes its place.                     *)
WriterEndOK ==
  /\ writer \in {"flushing_last", "done"} => ~Looping \/ error # "none"
  /\ writer = "flushing_last" =>
       channel = <<>> /\ \A p \in Persisters : p < file => flushed[p] = classified
  /\ writer = "done" /\ error = "none" =>
       /\ channel = <<>>
       /\ \A p \in Persisters : flushed[p] = classified /\ Len(written[p]) = classified
  /\ error # "none" => writer \in {"failing", "done"}
  /\ writer = "failing" => error # "none"
  /\ error = "taken" => ~Looping

SummaryOK ==
  /\ summary.count = Len(rounds)
  /\ summary.load <=> \E n \in DOMAIN rounds : PhaseOf(n) = "load" /\ rounds[n].dropped

PipelineInv ==
  /\ PipelineTypeOK
  /\ HandlesOK /\ RoundOK /\ OutcomeOK
  /\ ChannelOK /\ WrittenOK /\ WriterEndOK /\ SummaryOK
  /\ RoundsComplete /\ MismatchOnlyInDrain /\ FilesArePrefixes /\ ErrorPrecedesReturn

-----------------------------------------------------------------------------
(* The generators do no more here than ReportStream allows, which is what  *)
(* LoadGenerator is shown to keep to (ready.rs:104-203, collect.rs:33-48). *)
Stream(g) == INSTANCE ReportStream WITH
  sent   <- IF progress[g] <= Measured THEN progress[g] ELSE Measured,
  time   <- IF progress[g] <= Measured THEN last[g] ELSE TimeOf(Measured),
  stream <- IF ~ended[g] THEN "open"
            ELSE IF \E j \in DOMAIN link[g] : link[g][j] = Finished THEN "finished"
            ELSE "closed"

StreamsAsPromised == \A g \in Generators : Stream(g)!Spec

-----------------------------------------------------------------------------
(* The orchestrator ends, with a result or an error.                       *)
CollectingEnds == <>(collector \in Verdicts)
=============================================================================
