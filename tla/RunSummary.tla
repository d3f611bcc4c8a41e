----------------------------- MODULE RunSummary -----------------------------
(***************************************************************************)
(* What the orchestrator says of the reports it collects: the summary of   *)
(* dropped transactions (orchestrator/summary.rs), a row of interval.csv   *)
(* (persist/interval.rs) and a line of the console (persist/console.rs).   *)
(* A result is its outcome, a drop the reason for it; of numbers and texts *)
(* only what is said is kept, not how it is written.                       *)
(***************************************************************************)
EXTENDS Integers, Sequences, FiniteSets

Reasons  == {"no_virtual_user", "late", "error"}
Outcomes == {"success", "failed", "timeout"} \cup Reasons

-----------------------------------------------------------------------------
(* PhaseDrops                                                              *)
NoDrops == [transactions |-> 0, no_virtual_user |-> 0, late |-> 0, error |-> 0]

Total(drops) == drops.no_virtual_user + drops.late + drops.error

CountIn(results, first, last, outcome) ==
  Cardinality({i \in first .. last : results[i] = outcome})

CountOf(results, outcome) == CountIn(results, 1, Len(results), outcome)

(* The results of a report, recorded one by one.                           *)
RecordResults(drops, results) ==
  [transactions    |-> drops.transactions + Len(results),
   no_virtual_user |-> drops.no_virtual_user + CountOf(results, "no_virtual_user"),
   late            |-> drops.late + CountOf(results, "late"),
   error           |-> drops.error + CountOf(results, "error")]

(* The reasons that breakdown names and hints gives advice on.             *)
ReasonsGiven(drops) == {reason \in Reasons : drops[reason] > 0}

-----------------------------------------------------------------------------
(* DropSummary.  count is that of its classifier.                          *)
Classify(warmup, count) ==
  CASE count < warmup.duration                 -> "warmup"
    [] count >= warmup.duration + warmup.pause -> "load"
    [] OTHER                                   -> "pause"

NewSummary == [count |-> 0, load |-> NoDrops, warmup |-> NoDrops]

Record(warmup, summary, report) ==
  LET part == IF Classify(warmup, summary.count) = "load" THEN "load" ELSE "warmup"
  IN [summary EXCEPT !.count = @ + 1, ![part] = RecordResults(@, report.results)]

IsValid(summary) == Total(summary.load) = 0

(* None, or the counts of both parts.                                      *)
DropReport(summary) ==
  IF Total(summary.load) + Total(summary.warmup) > 0
  THEN <<[load |-> summary.load, warmup |-> summary.warmup]>> ELSE <<>>

(* log warns of each part that lost transactions, with their number, their *)
(* share and the reasons.                                                  *)
Warning(part, drops) ==
  [part |-> part, dropped |-> Total(drops), of |-> drops.transactions,
   reasons |-> ReasonsGiven(drops)]

Logged(summary) ==
  {Warning(part, summary[part]) : part \in {p \in {"load", "warmup"} : Total(summary[p]) > 0}}

-----------------------------------------------------------------------------
(* Persisters                                                              *)
AverageServiceTime(stats) ==
  IF stats.response_time_count = 0 THEN 0
  ELSE stats.response_time_sum \div stats.response_time_count

IntervalRow(report, phase) ==
  [target_time |-> report.target_time, load_level |-> report.load_level,
   successful_transactions |-> report.stats.successful_transactions,
   failed_transactions |-> report.stats.failed_transactions,
   timeout_transactions |-> report.stats.timeout_transactions,
   dropped_transactions |-> report.stats.dropped_transactions,
   avg_service_time |-> AverageServiceTime(report.stats),
   final_batch_time |-> report.final_batch_time, phase |-> phase]

(* The console counts the seconds up to the load phase, and then from it.  *)
DisplayTarget(warmup, target, phase) ==
  CASE phase = "warmup" -> target - (warmup.duration + warmup.pause)
    [] phase = "pause"  -> target - warmup.pause
    [] phase = "load"   -> target

ConsoleLine(warmup, report, phase) ==
  [target |-> DisplayTarget(warmup, report.target_time, phase),
   load |-> report.load_level,
   succ |-> report.stats.successful_transactions,
   fail |-> report.stats.failed_transactions,
   to |-> report.stats.timeout_transactions,
   drop |-> report.stats.dropped_transactions,
   avg_st |-> AverageServiceTime(report.stats)]

(* The report that is the n-th from 0, as the files hold it.               *)
RowAt(warmup, reports, n) == IntervalRow(reports[n + 1], Classify(warmup, n))
=============================================================================
