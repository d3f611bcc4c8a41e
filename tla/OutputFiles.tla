---------------------------- MODULE OutputFiles ----------------------------
(***************************************************************************)
(* One output directory and the orchestrators that are run on it: reading  *)
(* the input files (orchestrator/config.rs, orchestrator/io.rs), the check *)
(* of the directory, the copies of the inputs, the result files and, when  *)
(* the test has finished, run.json (orchestrator/runner.rs,                *)
(* orchestrator/metadata.rs).                                              *)
(*                                                                         *)
(* Runs may follow each other or overlap, read their inputs from where the *)
(* user keeps them or from the output directory itself, fail at any await  *)
(* or be killed, and the user may edit the inputs at any moment.  The test *)
(* is a sequence of reports; OrchestratorSession and ReportPipeline say    *)
(* when it comes about.                                                    *)
(*                                                                         *)
(* A file is written in two steps, since it is truncated first.  by are    *)
(* the runs (or the user) whose bytes it may hold; when there are several  *)
(* its content is not meaningful.                                          *)
(***************************************************************************)
EXTENDS RunSummary

CONSTANTS
  Runs,     \* processes of the orchestrator
  User,     \* who puts files in the directory before the first run
  Inputs,   \* the names of the input files, in the order they are read
  MaxEdits, \* bound: how often the user changes an input file
  Tests     \* tests there may be: a warmup and the reports of it

Intervals    == "interval.csv"
Transactions == "transactions.csv"
Metadata     == "run.json"

Results == {Intervals, Transactions}

Stats ==
  [{"successful_transactions", "failed_transactions", "timeout_transactions",
    "dropped_transactions", "response_time_sum", "response_time_count"} -> Nat]

Reports ==
  [target_time : Nat, load_level : Nat, stats : Stats, final_batch_time : Seq(Nat),
   results : Seq(Outcomes)]

(* The names are constants of the program (InputFiles::named), and differ. *)
ASSUME OutputAssumption ==
  /\ User \notin Runs
  /\ MaxEdits \in Nat
  /\ Inputs \in Seq(STRING \ (Results \cup {Metadata}))
  /\ \A i, j \in DOMAIN Inputs : Inputs[i] = Inputs[j] => i = j
  /\ Tests # {}
  /\ \A t \in Tests : /\ t.warmup \in [duration : Nat, pause : Nat]
                      /\ t.reports \in Seq(Reports)

VARIABLES
  source,    \* the user's input files, outside of the output directory
  directory, \* whether the output directory exists
  files,     \* the files in it
  pc,        \* where each run is
  overwrite, \* --overwrite-outputs
  origin,    \* where it reads its inputs
  inputs,    \* LoadTestConfig::inputs, as far as read
  copied,    \* input files it has written
  test,      \* the test it runs
  summary,   \* DropSummary of the reports it has persisted
  older,     \* history: who had ended when it began to check the directory
  alone,     \* history: no other run has written since it passed the check
  latest     \* history: the last one to pass the check

runVars == <<overwrite, origin>>
history == <<older, alone, latest>>
vars == <<source, directory, files, pc, runVars, inputs, copied, test, summary, history>>

Names   == {Inputs[i] : i \in DOMAIN Inputs} \cup Results \cup {Metadata}
Absent  == [by |-> {}, content |-> <<>>]

Exists(name) == files[name].by # {}
Ended(r)     == pc[r] \in {"finished", "failed"}
Writing(r)   == pc[r] \in {"copying", "writing", "opening", "creating", "collecting", "recording"}

Goto(r, place) == pc' = [pc EXCEPT ![r] = place]

(* File::create                                                            *)
Truncates(r, name) == files' = [files EXCEPT ![name] = [by |-> {r}, content |-> <<>>]]

Written(r, file, content) ==
  [by |-> file.by \cup {r}, content |-> IF file.by = {r} THEN content ELSE <<>>]

Writes(r, name, content) == files' = [files EXCEPT ![name] = Written(r, @, content)]

-----------------------------------------------------------------------------
(* The command line                                                        *)
StartRun(r) ==
  /\ pc[r] = "idle"
  /\ \E replace \in BOOLEAN, from \in {"user", "output"} :
       /\ overwrite' = [overwrite EXCEPT ![r] = replace]
       /\ origin' = [origin EXCEPT ![r] = from]
  /\ Goto(r, "reading")
  /\ UNCHANGED <<source, directory, files, inputs, copied, test, summary, history>>

(* InputFiles::read, one await per file, before anything is written.       *)
ReadInput(r) ==
  /\ pc[r] = "reading" /\ Len(inputs[r]) < Len(Inputs)
  /\ LET name == Inputs[Len(inputs[r]) + 1] IN
     /\ origin[r] = "output" => Exists(name)
     /\ inputs' = [inputs EXCEPT ![r] = Append(@, IF origin[r] = "output" THEN files[name].content
                                                                         ELSE source[name])]
  /\ UNCHANGED <<source, directory, files, pc, runVars, copied, test, summary, history>>

(* All four parse; otherwise the run fails.  A file that is read while it  *)
(* is being written stands for any part of it, which may parse.            *)
ParseInputs(r) ==
  /\ pc[r] = "reading" /\ Len(inputs[r]) = Len(Inputs)
  /\ Goto(r, "checking")
  /\ UNCHANGED <<source, directory, files, runVars, inputs, copied, test, summary, history>>

-----------------------------------------------------------------------------
(* OutputDir::new                                                          *)
Passes(r) ==
  LET others == {o \in Runs \ {r} : Writing(o)} IN
  /\ Goto(r, "copying")
  /\ alone' = [o \in Runs |-> IF o = r THEN others = {} ELSE alone[o] /\ o \notin others]
  /\ latest' = r

CheckExists(r) ==
  /\ pc[r] = "checking"
  /\ older' = [older EXCEPT ![r] = {User} \cup {o \in Runs : Ended(o)}]
  /\ \/ directory = "missing" /\ Goto(r, "making") /\ UNCHANGED <<alone, latest>>
     \/ directory = "there" /\ ~overwrite[r] /\ Goto(r, "listing") /\ UNCHANGED <<alone, latest>>
     \/ directory = "there" /\ overwrite[r] /\ Passes(r)
     \/ directory = "a file" /\ Goto(r, "failed") /\ UNCHANGED <<alone, latest>>
  /\ UNCHANGED <<source, directory, files, runVars, inputs, copied, test, summary>>

(* create_dir_all accepts a directory that is there by now.                *)
CreateDir(r) ==
  /\ pc[r] = "making"
  /\ directory' = "there"
  /\ Passes(r)
  /\ UNCHANGED <<source, files, runVars, inputs, copied, test, summary, older>>

ListDirForRecord(r) ==   \* mutant: only a directory with results counts as used
  /\ pc[r] = "listing"
  /\ IF Exists(Metadata)
     THEN Goto(r, "failed") /\ UNCHANGED <<alone, latest>> ELSE Passes(r)
  /\ UNCHANGED <<source, directory, files, runVars, inputs, copied, test, summary, older>>

ListDir(r) ==
  /\ pc[r] = "listing"
  /\ IF \E name \in Names : Exists(name)
     THEN Goto(r, "failed") /\ UNCHANGED <<alone, latest>> ELSE Passes(r)
  /\ UNCHANGED <<source, directory, files, runVars, inputs, copied, test, summary, older>>

-----------------------------------------------------------------------------
(* LoadTestRunner::run: OutputDir::write_file for each input              *)
TruncateInput(r) ==
  /\ pc[r] = "copying" /\ copied[r] < Len(Inputs)
  /\ Truncates(r, Inputs[copied[r] + 1])
  /\ Goto(r, "writing")
  /\ UNCHANGED <<source, directory, runVars, inputs, copied, test, summary, history>>

WriteInputReread(r) ==   \* mutant: the file is copied from where it was read
  /\ pc[r] = "writing"
  /\ LET name == Inputs[copied[r] + 1] IN
     Writes(r, name, IF origin[r] = "output" THEN files[name].content ELSE source[name])
  /\ copied' = [copied EXCEPT ![r] = @ + 1]
  /\ Goto(r, "copying")
  /\ UNCHANGED <<source, directory, runVars, inputs, test, summary, history>>

WriteInput(r) ==
  /\ pc[r] = "writing"
  /\ Writes(r, Inputs[copied[r] + 1], inputs[r][copied[r] + 1])
  /\ copied' = [copied EXCEPT ![r] = @ + 1]
  /\ Goto(r, "copying")
  /\ UNCHANGED <<source, directory, runVars, inputs, test, summary, history>>

(* All generators are connected, configured and started; only then are the *)
(* result files opened.                                                    *)
StartTest(r) ==
  /\ pc[r] = "copying" /\ copied[r] = Len(Inputs)
  /\ \E t \in Tests : test' = [test EXCEPT ![r] = t]
  /\ Goto(r, "opening")
  /\ UNCHANGED <<source, directory, files, runVars, inputs, copied, summary, history>>

OpenIntervals(r) ==
  /\ pc[r] = "opening"
  /\ Truncates(r, Intervals)
  /\ Goto(r, "creating")
  /\ UNCHANGED <<source, directory, runVars, inputs, copied, test, summary, history>>

OpenTransactions(r) ==
  /\ pc[r] = "creating"
  /\ Truncates(r, Transactions)
  /\ Goto(r, "collecting")
  /\ UNCHANGED <<source, directory, runVars, inputs, copied, test, summary, history>>

(* The next report is recorded in the summary and persisted.               *)
NextReport(r) == test[r].reports[summary[r].count + 1]

PersistReport(r) ==
  /\ pc[r] = "collecting" /\ summary[r].count < Len(test[r].reports)
  /\ LET row == RowAt(test[r].warmup, test[r].reports, summary[r].count) IN
     files' = [files EXCEPT
                 ![Intervals]    = Written(r, @, Append(@.content, row)),
                 ![Transactions] = Written(r, @, @.content \o NextReport(r).results)]
  /\ summary' = [summary EXCEPT ![r] = Record(test[r].warmup, @, NextReport(r))]
  /\ UNCHANGED <<source, directory, pc, runVars, inputs, copied, test, history>>

(* The collecting loop is exhausted and the writer has no error.           *)
TruncateMetadata(r) ==
  /\ pc[r] = "collecting" /\ summary[r].count = Len(test[r].reports)
  /\ Truncates(r, Metadata)
  /\ Goto(r, "recording")
  /\ UNCHANGED <<source, directory, runVars, inputs, copied, test, summary, history>>

RunMetadata(r) == [valid |-> IsValid(summary[r]), drops |-> DropReport(summary[r])]

WriteMetadata(r) ==
  /\ pc[r] = "recording"
  /\ Writes(r, Metadata, <<RunMetadata(r)>>)
  /\ Goto(r, "finished")
  /\ UNCHANGED <<source, directory, runVars, inputs, copied, test, summary, history>>

(* Every error of a run, in its session, its test or a file, ends it and   *)
(* leaves the files as they are; so does the end of the process.           *)
Fails(r) ==
  /\ pc[r] # "idle" /\ ~Ended(r)
  /\ Goto(r, "failed")
  /\ UNCHANGED <<source, directory, files, runVars, inputs, copied, test, summary, history>>

-----------------------------------------------------------------------------
(* The content of an input file is the number of its edit.                 *)
EditInput ==
  /\ \E name \in DOMAIN source :
       /\ source[name][1] < MaxEdits
       /\ source' = [source EXCEPT ![name] = <<@[1] + 1>>]
  /\ UNCHANGED <<directory, files, pc, runVars, inputs, copied, test, summary, history>>

Placed == {Absent, [by |-> {User}, content |-> <<0>>]}

(* No directory, a file in its place, or one the user may have put inputs in. *)
Init ==
  /\ source = [name \in {Inputs[i] : i \in DOMAIN Inputs} |-> <<0>>]
  /\ files \in {f \in [Names -> Placed] : \A name \in Results \cup {Metadata} : f[name] = Absent}
  /\ directory \in {"there", "missing", "a file"}
  /\ directory # "there" => \A name \in Names : ~Exists(name)
  /\ pc = [r \in Runs |-> "idle"]
  /\ overwrite = [r \in Runs |-> FALSE]
  /\ origin = [r \in Runs |-> "user"]
  /\ inputs = [r \in Runs |-> <<>>]
  /\ copied = [r \in Runs |-> 0]
  /\ test = [r \in Runs |-> CHOOSE t \in Tests : TRUE]
  /\ summary = [r \in Runs |-> NewSummary]
  /\ older = [r \in Runs |-> {}]
  /\ alone = [r \in Runs |-> FALSE]
  /\ latest = User

Run(r) ==
  \/ StartRun(r) \/ ReadInput(r) \/ ParseInputs(r)
  \/ CheckExists(r) \/ CreateDir(r) \/ ListDir(r)
  \/ TruncateInput(r) \/ WriteInput(r) \/ StartTest(r)
  \/ OpenIntervals(r) \/ OpenTransactions(r) \/ PersistReport(r)
  \/ TruncateMetadata(r) \/ WriteMetadata(r) \/ Fails(r)

Next == EditInput \/ \E r \in Runs : Run(r)

Spec == Init /\ [][Next]_vars

-----------------------------------------------------------------------------
OutputTypeOK ==
  /\ directory \in {"there", "missing", "a file"}
  /\ \A name \in Names : files[name].by \subseteq Runs \cup {User}
  /\ directory # "there" => \A name \in Names : ~Exists(name)
  /\ \A r \in Runs : /\ copied[r] <= Len(inputs[r])
                     /\ summary[r].count <= Len(test[r].reports)

(* A directory whose last run has finished, with no other run beside it.   *)
OfOneRun(r) == pc[r] = "finished" /\ alone[r] /\ latest = r

Sole(r, name) == files[name].by = {r}

(* run.json vouches for the files beside it: all are of the run it is of,  *)
(* the inputs are those that run was configured with, whatever the user    *)
(* did meanwhile, and interval.csv has a row for every report.             *)
FilesAreOfTheRun(r) ==
  /\ \A name \in Names : Sole(r, name)
  /\ \A i \in DOMAIN Inputs : files[Inputs[i]].content = inputs[r][i]
  /\ files[Intervals].content =
       [i \in DOMAIN test[r].reports |-> RowAt(test[r].warmup, test[r].reports, i - 1)]

(* A report's count of dropped transactions is that of the drops it lists. *)
Consistent(report) ==
  report.stats.dropped_transactions =
    CountOf(report.results, "no_virtual_user") + CountOf(report.results, "late")
      + CountOf(report.results, "error")

(* What drops, of one part of a test, says of the rows first to last.      *)
Counts(drops, results, first, last) ==
  /\ drops.transactions = last - first + 1
  /\ \A reason \in Reasons : drops[reason] = CountIn(results, first, last, reason)

(* What run.json says of the drops can be read off the other two files:    *)
(* the first rows of transactions.csv are those of the warmup, and the     *)
(* rest, with the drops that make a run invalid, those of the load phase.  *)
SummaryIsInTheFiles(r) ==
  LET metadata == files[Metadata].content[1]
      rows     == files[Intervals].content
      results  == files[Transactions].content
  IN /\ metadata.drops = <<>> => metadata.valid
     /\ metadata.drops = <<>> <=> \A i \in DOMAIN results : results[i] \notin Reasons
     /\ metadata.drops # <<>> =>
          LET drops == metadata.drops[1]
              split == drops.warmup.transactions
          IN /\ Counts(drops.warmup, results, 1, split)
             /\ Counts(drops.load, results, split + 1, Len(results))
             /\ metadata.valid <=> \A i \in split + 1 .. Len(results) : results[i] \notin Reasons
     /\ (\A i \in DOMAIN test[r].reports : Consistent(test[r].reports[i])) =>
          (metadata.valid <=>
             \A i \in DOMAIN rows : rows[i].phase = "load" => rows[i].dropped_transactions = 0)

(* A run that failed or was killed leaves no whole run.json.               *)
RecordedRunsFinished ==
  \A r \in Runs : Sole(r, Metadata) /\ files[Metadata].content # <<>> => pc[r] = "finished"

(* A run.json is of a run that finished, and unless another run has since  *)
(* been let into the directory, or was there with it, all seven files are  *)
(* that run's, whole, and agree.                                           *)
RecordInv ==
  /\ OutputTypeOK
  /\ RecordedRunsFinished
  /\ \A r \in Runs : OfOneRun(r) => FilesAreOfTheRun(r) /\ SummaryIsInTheFiles(r)

(* Without --overwrite-outputs a run never touches a file of the user, or  *)
(* of a run that had ended when it looked at the directory.                *)
OldResultsKept ==
  [][\A name \in Names : files'[name] # files[name] =>
       \A r \in files'[name].by \cap Runs :
         ~overwrite[r] => files[name].by \cap older[r] = {}]_vars
=============================================================================
