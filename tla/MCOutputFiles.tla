--------------------------- MODULE MCOutputFiles ---------------------------
(* Model checking of OutputFiles: two runs, two of the four input files,   *)
(* and tests with drops in the warmup alone or in the load phase as well.  *)
EXTENDS OutputFiles, TLC, SequencesExt

Symmetry == Permutations(Runs)

Count(results, of) == Cardinality({i \in DOMAIN results : results[i] \in of})

Report(time, results) ==
  [target_time |-> time, load_level |-> Len(results), final_batch_time |-> <<time>>,
   results |-> results,
   stats |-> [successful_transactions |-> Count(results, {"success"}),
              failed_transactions |-> Count(results, {"failed"}),
              timeout_transactions |-> Count(results, {"timeout"}),
              dropped_transactions |-> Count(results, Reasons),
              response_time_sum |-> 7, response_time_count |-> Count(results, Outcomes \ Reasons)]]

Lossy ==
  [warmup |-> [duration |-> 1, pause |-> 0],
   reports |-> <<Report(1, <<"late">>), Report(1, <<"error", "timeout">>)>>]

WarmupLossy ==
  [warmup |-> [duration |-> 1, pause |-> 0],
   reports |-> <<Report(1, <<"no_virtual_user">>), Report(1, <<"failed">>)>>]

MCTests == {Lossy, WarmupLossy}
MCInputs == <<"profile.csv", "script.lua">>

-----------------------------------------------------------------------------
(* The summary on its own, for every sequence of up to four reports of up  *)
(* to two results, by the definition of what it counts.                    *)
Sequences(set, n) == UNION {[1 .. k -> set] : k \in 0 .. n}

Few == Sequences({"success", "late", "error"}, 2)
Warmups == [duration : 0 .. 2, pause : 0 .. 1]

Summarize(warmup, reports) ==
  FoldLeft(LAMBDA sofar, report : Record(warmup, sofar, report), NewSummary, reports)

Places(reports, first, last, reason) ==
  {p \in (first .. last) \X (1 .. 2) :
     p[1] <= Len(reports) /\ p[2] \in DOMAIN reports[p[1]].results
       /\ reports[p[1]].results[p[2]] = reason}

(* Each drop is counted once, under its reason, in the part of the test it *)
(* was reported in, and a warning is logged for each part that had one.    *)
ASSUME \A warmup \in Warmups, results \in Sequences(Few, 2) \cup [1 .. 3 -> {<<"late">>, <<"error", "late">>}] :
         LET reports == [i \in DOMAIN results |-> Report(i, results[i])]
             said    == Summarize(warmup, reports)
             before  == warmup.duration + warmup.pause
         IN /\ \A reason \in Reasons :
                 /\ said.warmup[reason] = Cardinality(Places(reports, 1, before, reason))
                 /\ said.load[reason] = Cardinality(Places(reports, before + 1, 4, reason))
            /\ IsValid(said) <=> \A w \in Logged(said) : w.part # "load"
            /\ DropReport(said) = <<>> <=> Logged(said) = {}

(* The seconds on the console go up by one from report to report, through  *)
(* warmup and pause to the load phase, which begins after 0.               *)
TimeOf(warmup, k) ==
  CASE Classify(warmup, k - 1) = "warmup" -> k
    [] Classify(warmup, k - 1) = "pause"  -> k - warmup.duration
    [] Classify(warmup, k - 1) = "load"   -> k - warmup.duration - warmup.pause

ASSUME \A duration, pause \in 0 .. 3, k \in 1 .. 9 :
         LET warmup == [duration |-> duration, pause |-> pause]
             line   == ConsoleLine(warmup, Report(TimeOf(warmup, k), <<>>), Classify(warmup, k - 1))
         IN line.target = k - duration - pause /\ line.avg_st = 0
=============================================================================
