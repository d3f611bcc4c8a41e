------------------------- MODULE OutputFilesProofs -------------------------
(***************************************************************************)
(* Theorems about OutputFiles, for any number of runs on a directory and   *)
(* whatever the tests report.                                              *)
(***************************************************************************)
EXTENDS OutputFiles, FiniteSetTheorems, SequenceTheorems, TLAPS

-----------------------------------------------------------------------------
(* The results of a report appended to a file are counted after its rows.  *)
LEMMA CountInFinite ==
  ASSUME NEW s, NEW first \in Int, NEW last \in Int, NEW o
  PROVE  /\ IsFiniteSet({i \in first .. last : s[i] = o})
         /\ CountIn(s, first, last, o) \in Nat
         /\ CountIn(s, first, last, o) = 0 <=> \A i \in first .. last : s[i] # o
<1>1. IsFiniteSet(first .. last)
  BY FS_Interval
<1>2. IsFiniteSet({i \in first .. last : s[i] = o})
  BY <1>1, FS_Subset
<1>3. QED
  BY <1>2, FS_CardinalityType, FS_EmptySet DEF CountIn

LEMMA CountInAppended ==
  ASSUME NEW T, NEW s \in Seq(T), NEW t \in Seq(T), NEW first \in 1 .. Len(s) + 1, NEW o
  PROVE  CountIn(s \o t, first, Len(s \o t), o) = CountIn(s, first, Len(s), o) + CountOf(t, o)
<1> DEFINE A == {i \in first .. Len(s \o t) : (s \o t)[i] = o}
           B == {i \in first .. Len(s) : s[i] = o}
           C == {i \in 1 .. Len(t) : t[i] = o}
           D == {i \in Len(s) + 1 .. Len(s) + Len(t) : t[i - Len(s)] = o}
<1>1. Len(s) \in Nat /\ Len(t) \in Nat /\ Len(s \o t) = Len(s) + Len(t)
  OBVIOUS
<1>2. IsFiniteSet(B) /\ IsFiniteSet(C) /\ IsFiniteSet(D)
  <2>0. first \in Int /\ 1 \in Int /\ Len(s) \in Int /\ Len(t) \in Int
    BY <1>1
  <2>1. IsFiniteSet(B)
    BY <2>0, CountInFinite, Zenon
  <2>2. IsFiniteSet(C)
    BY <2>0, CountInFinite, Zenon
  <2>3. IsFiniteSet(Len(s) + 1 .. Len(s) + Len(t))
    BY <1>1, FS_Interval
  <2>4. QED
    BY <2>1, <2>2, <2>3, FS_Subset
<1>3. A = B \cup D
  <2>1. \A i \in first .. Len(s) : (s \o t)[i] = s[i]
    BY <1>1
  <2>2. \A i \in Len(s) + 1 .. Len(s) + Len(t) : (s \o t)[i] = t[i - Len(s)]
    BY <1>1
  <2>3. first .. Len(s \o t) = (first .. Len(s)) \cup (Len(s) + 1 .. Len(s) + Len(t))
    BY <1>1
  <2>4. QED
    BY <2>1, <2>2, <2>3
<1>4. B \cap D = {}
  BY <1>1
<1> HIDE DEF A, B, C, D
<1>5. Cardinality(A) = Cardinality(B) + Cardinality(D)
  <2>1. Cardinality(B \cup D) = Cardinality(B) + Cardinality(D) - Cardinality(B \cap D)
    BY <1>2, FS_Union
  <2>2. Cardinality(B \cap D) = 0
    BY <1>4, FS_EmptySet
  <2>3. Cardinality(B) \in Nat /\ Cardinality(D) \in Nat
    BY <1>2, FS_CardinalityType
  <2>4. QED
    BY <1>3, <2>1, <2>2, <2>3
<1>6. Cardinality(D) = Cardinality(C)
  <2> DEFINE f == [i \in C |-> i + Len(s)]
  <2>1. f \in Bijection(C, D)
    <3>1. f \in [C -> D]
      <4>1. ASSUME NEW i \in C
            PROVE  i + Len(s) \in D
        <5>1. (i + Len(s)) - Len(s) = i
          BY <1>1 DEF C
        <5>2. QED
          BY <1>1, <5>1 DEF C, D
      <4>2. QED
        BY <4>1
    <3>2. \A i, j \in C : f[i] = f[j] => i = j
      BY <1>1 DEF C
    <3>3. ASSUME NEW d \in D
          PROVE  \E i \in C : f[i] = d
      <4>1. d - Len(s) \in C /\ (d - Len(s)) + Len(s) = d
        BY <1>1 DEF C, D
      <4>2. QED
        BY <4>1
    <3> HIDE DEF f
    <3>4. QED
      BY <3>1, <3>2, <3>3, Zenon DEF Bijection, Injection, Surjection, IsInjective
  <2>2. QED
    BY <2>1, <1>2, FS_Bijection DEF ExistsBijection
<1>7. QED
  BY <1>5, <1>6 DEF CountIn, CountOf, A, B, C

LEMMA CountInPrefix ==
  ASSUME NEW T, NEW s \in Seq(T), NEW t \in Seq(T), NEW last \in 0 .. Len(s), NEW o
  PROVE  CountIn(s \o t, 1, last, o) = CountIn(s, 1, last, o)
<1>1. \A i \in 1 .. last : (s \o t)[i] = s[i]
  OBVIOUS
<1>2. {i \in 1 .. last : (s \o t)[i] = o} = {i \in 1 .. last : s[i] = o}
  BY <1>1
<1>3. QED
  BY <1>2 DEF CountIn

-----------------------------------------------------------------------------
Before == {"idle", "reading", "checking", "making", "listing"}
Phases == Before \cup {"copying", "writing", "opening", "creating", "collecting", "recording",
                       "finished", "failed"}

Drops == [transactions : Nat, no_virtual_user : Nat, late : Nat, error : Nat]

Summaries == [count : Nat, load : Drops, warmup : Drops]

IsAFunction(f, S) == DOMAIN f = S /\ f = [x \in DOMAIN f |-> f[x]]

Typed ==
  /\ source \in [{Inputs[i] : i \in DOMAIN Inputs} -> Seq(Nat)]
  /\ \A name \in DOMAIN source : Len(source[name]) = 1
  /\ directory \in {"there", "missing", "a file"}
  /\ IsAFunction(files, Names)
  /\ \A name \in Names : files[name].by \subseteq Runs \cup {User}
  /\ \A i \in DOMAIN Inputs : files[Inputs[i]].content \in Seq(Nat)
  /\ pc \in [Runs -> Phases]
  /\ overwrite \in [Runs -> BOOLEAN]
  /\ origin \in [Runs -> {"user", "output"}]
  /\ inputs \in [Runs -> Seq(Seq(Nat))]
  /\ copied \in [Runs -> Nat]
  /\ test \in [Runs -> Tests]
  /\ summary \in [Runs -> Summaries]
  /\ older \in [Runs -> SUBSET (Runs \cup {User})]
  /\ alone \in [Runs -> BOOLEAN]
  /\ latest \in Runs \cup {User}

(* How far a run is, by where it is.                                       *)
Progress(r) ==
  /\ copied[r] <= Len(inputs[r]) /\ Len(inputs[r]) <= Len(Inputs)
  /\ pc[r] \notin {"idle", "reading", "failed"} => Len(inputs[r]) = Len(Inputs)
  /\ pc[r] \in Before => copied[r] = 0
  /\ pc[r] = "writing" => copied[r] < Len(Inputs)
  /\ pc[r] \in {"opening", "creating", "collecting", "recording", "finished"} =>
       copied[r] = Len(Inputs)
  /\ pc[r] \in Before \cup {"copying", "writing", "opening", "creating"} =>
       summary[r] = NewSummary
  /\ summary[r].count <= Len(test[r].reports)
  /\ pc[r] \in {"recording", "finished"} => summary[r].count = Len(test[r].reports)
  /\ pc[r] = "listing" \/ Writing(r) => directory = "there"

(* The load phase has drops if and only if a report of it said so.         *)
Summarized(r) ==
  /\ summary[r].count < test[r].warmup.duration + test[r].warmup.pause =>
       summary[r].load = NoDrops
  /\ (\A i \in DOMAIN test[r].reports : Consistent(test[r].reports[i])) =>
       (IsValid(summary[r]) <=>
          \A i \in 1 .. summary[r].count :
            Classify(test[r].warmup, i - 1) = "load" =>
              test[r].reports[i].stats.dropped_transactions = 0)

-----------------------------------------------------------------------------
(* No run has been let in after r, and none writes beside it.              *)
Solo(r) == alone[r] /\ latest = r

InputsCopied(r) ==
  /\ \A i \in 1 .. copied[r] :
       Sole(r, Inputs[i]) /\ files[Inputs[i]].content = inputs[r][i]
  /\ pc[r] = "writing" => Sole(r, Inputs[copied[r] + 1])

RowsWritten(r) ==
  pc[r] \in {"creating", "collecting", "recording", "finished"} =>
    /\ Sole(r, Intervals)
    /\ files[Intervals].content =
         [i \in 1 .. summary[r].count |-> RowAt(test[r].warmup, test[r].reports, i - 1)]

ResultsWritten(r) ==
  pc[r] \in {"collecting", "recording", "finished"} =>
    LET results == files[Transactions].content
        split   == summary[r].warmup.transactions
    IN /\ Sole(r, Transactions)
       /\ results \in Seq(Outcomes)
       /\ Counts(summary[r].warmup, results, 1, split)
       /\ Counts(summary[r].load, results, split + 1, Len(results))

MetadataWritten(r) ==
  /\ pc[r] \in {"recording", "finished"} => Sole(r, Metadata)
  /\ pc[r] = "finished" => files[Metadata].content = <<RunMetadata(r)>>

SoloInv(r) ==
  Solo(r) =>
    /\ pc[r] \notin Before
    /\ \A o \in Runs \ {r} : ~Writing(o)
    /\ pc[r] # "failed" => /\ InputsCopied(r) /\ RowsWritten(r)
                           /\ ResultsWritten(r) /\ MetadataWritten(r)

(* What a run without --overwrite-outputs found ended is in no file, from  *)
(* when it has seen the directory empty.                                   *)
KeptInv(r) ==
  /\ older[r] \subseteq {User} \cup {o \in Runs : Ended(o)}
  /\ \A name \in Names : r \in files[name].by => pc[r] \notin Before
  /\ ~overwrite[r] /\ (pc[r] = "making" \/ Writing(r) \/ \E name \in Names : r \in files[name].by) =>
       \A name \in Names : files[name].by \cap older[r] = {}

RecordIInv ==
  /\ Typed
  /\ directory # "there" => \A name \in Names : ~Exists(name)
  /\ RecordedRunsFinished
  /\ \A r \in Runs : Progress(r) /\ Summarized(r) /\ SoloInv(r) /\ KeptInv(r)

-----------------------------------------------------------------------------
(* The names, and what a write does to the file of a name.                 *)
LEMMA NamesFacts ==
  /\ Len(Inputs) \in Nat /\ DOMAIN Inputs = 1 .. Len(Inputs)
  /\ \A i \in DOMAIN Inputs : Inputs[i] \in Names \ {Intervals, Transactions, Metadata}
  /\ \A i, j \in DOMAIN Inputs : Inputs[i] = Inputs[j] => i = j
  /\ {Intervals, Transactions, Metadata} \subseteq Names
  /\ Intervals # Transactions /\ Intervals # Metadata /\ Transactions # Metadata
  /\ \A name \in Names \ {Intervals, Transactions, Metadata} :
       \E i \in DOMAIN Inputs : Inputs[i] = name
<1>1. Inputs \in Seq(STRING \ (Results \cup {Metadata}))
  BY OutputAssumption
<1>2. \A i \in DOMAIN Inputs : Inputs[i] \notin Results \cup {Metadata}
  BY <1>1
<1>3. QED
  BY <1>1, <1>2, OutputAssumption DEF Names, Results, Intervals, Transactions, Metadata

LEMMA TruncatesFile ==
  ASSUME IsAFunction(files, Names), NEW r \in Runs, NEW name \in Names, Truncates(r, name)
  PROVE  /\ IsAFunction(files', Names)
         /\ files'[name] = [by |-> {r}, content |-> <<>>]
         /\ \A n \in Names \ {name} : files'[n] = files[n]
  BY DEF IsAFunction, Truncates

LEMMA WritesFile ==
  ASSUME IsAFunction(files, Names), NEW r \in Runs, NEW name \in Names, NEW content,
         Writes(r, name, content)
  PROVE  /\ IsAFunction(files', Names)
         /\ files'[name].by = files[name].by \cup {r}
         /\ files'[name].content = IF files[name].by = {r} THEN content ELSE <<>>
         /\ \A n \in Names \ {name} : files'[n] = files[n]
  BY DEF IsAFunction, Writes, Written

LEMMA PersistsFiles ==
  ASSUME IsAFunction(files, Names), NEW r \in Runs, PersistReport(r)
  PROVE  /\ IsAFunction(files', Names)
         /\ \A name \in Results : files'[name].by = files[name].by \cup {r}
         /\ files'[Intervals].content =
              IF files[Intervals].by = {r}
              THEN Append(files[Intervals].content,
                          RowAt(test[r].warmup, test[r].reports, summary[r].count))
              ELSE <<>>
         /\ files'[Transactions].content =
              IF files[Transactions].by = {r}
              THEN files[Transactions].content \o NextReport(r).results ELSE <<>>
         /\ \A n \in Names \ Results : files'[n] = files[n]
<1> DEFINE row  == RowAt(test[r].warmup, test[r].reports, summary[r].count)
           ints == Written(r, files[Intervals], Append(files[Intervals].content, row))
           txs  == Written(r, files[Transactions], files[Transactions].content \o NextReport(r).results)
<1>1. files' = [files EXCEPT ![Intervals] = ints, ![Transactions] = txs]
  BY DEF PersistReport
<1>2. /\ ints.by = files[Intervals].by \cup {r}
      /\ ints.content = IF files[Intervals].by = {r} THEN Append(files[Intervals].content, row) ELSE <<>>
      /\ txs.by = files[Transactions].by \cup {r}
      /\ txs.content = IF files[Transactions].by = {r}
                       THEN files[Transactions].content \o NextReport(r).results ELSE <<>>
  BY DEF Written
<1> HIDE DEF ints, txs
<1>3. DOMAIN files = Names /\ {Intervals, Transactions} \subseteq Names /\ Intervals # Transactions
  BY NamesFacts DEF IsAFunction
<1>4. IsAFunction(files', Names)
  BY <1>1, <1>3 DEF IsAFunction
<1>5. /\ files'[Intervals] = ints /\ files'[Transactions] = txs
      /\ \A n \in Names \ {Intervals, Transactions} : files'[n] = files[n]
  BY <1>1, <1>3
<1>6. QED
  BY <1>2, <1>4, <1>5 DEF Results

(* Only a run that is past the check writes, and it adds itself.           *)
LEMMA FilesStep ==
  ASSUME Typed, NEW r \in Runs, Run(r), Progress(r)
  PROVE  /\ IsAFunction(files', Names)
         /\ \/ files' = files
            \/ /\ Writing(r)
               /\ \A name \in Names : \/ files'[name] = files[name]
                                     \/ files'[name].by = {r}
                                     \/ files'[name].by = files[name].by \cup {r}
<1>t. IsAFunction(files, Names) /\ copied[r] \in Nat /\ inputs[r] \in Seq(Seq(Nat))
  BY DEF Typed
<1>1. CASE files' = files
  BY <1>1, <1>t
<1>2. ASSUME NEW name \in Names, Truncates(r, name), Writing(r)
      PROVE  /\ IsAFunction(files', Names)
             /\ \A n \in Names : files'[n] = files[n] \/ files'[n].by = {r}
  <2>1. /\ IsAFunction(files', Names)
        /\ files'[name] = [by |-> {r}, content |-> <<>>]
        /\ \A n \in Names \ {name} : files'[n] = files[n]
    BY <1>t, <1>2, TruncatesFile
  <2>2. QED
    BY <2>1
<1>3. ASSUME NEW name \in Names, NEW content, Writes(r, name, content), Writing(r)
      PROVE  /\ IsAFunction(files', Names)
             /\ \A n \in Names : files'[n] = files[n] \/ files'[n].by = files[n].by \cup {r}
  <2>1. /\ IsAFunction(files', Names)
        /\ files'[name].by = files[name].by \cup {r}
        /\ \A n \in Names \ {name} : files'[n] = files[n]
    BY <1>t, <1>3, WritesFile
  <2>2. QED
    BY <2>1
<1>4. CASE TruncateInput(r)
  <2>1. copied[r] + 1 \in DOMAIN Inputs
    BY <1>4, <1>t, NamesFacts DEF TruncateInput
  <2>2. Inputs[copied[r] + 1] \in Names
    BY <2>1, NamesFacts
  <2>3. QED
    BY <1>2, <1>4, <2>2 DEF TruncateInput, Writing
<1>5. CASE WriteInput(r)
  <2>1. copied[r] + 1 \in DOMAIN Inputs
    BY <1>5, <1>t, NamesFacts DEF WriteInput, Progress
  <2>2. Inputs[copied[r] + 1] \in Names
    BY <2>1, NamesFacts
  <2>3. QED
    BY <1>3, <1>5, <2>2 DEF WriteInput, Writing
<1>6. CASE OpenIntervals(r)
  BY <1>2, <1>6, NamesFacts DEF OpenIntervals, Writing
<1>7. CASE OpenTransactions(r)
  BY <1>2, <1>7, NamesFacts DEF OpenTransactions, Writing
<1>8. CASE TruncateMetadata(r)
  BY <1>2, <1>8, NamesFacts DEF TruncateMetadata, Writing
<1>9. CASE PersistReport(r)
  BY <1>t, <1>9, PersistsFiles DEF PersistReport, Writing, Results
<1>10. CASE WriteMetadata(r)
  BY <1>3, <1>10, NamesFacts DEF WriteMetadata, Writing
<1>11. QED
  BY <1>1, <1>4, <1>5, <1>6, <1>7, <1>8, <1>9, <1>10
     DEF Run, StartRun, ReadInput, ParseInputs, CheckExists, CreateDir, ListDir, StartTest, Fails

-----------------------------------------------------------------------------
(* A report is recorded in the part of the test that its number is in.     *)
LEMMA ReportTyped ==
  ASSUME Typed, NEW r \in Runs, summary[r].count < Len(test[r].reports)
  PROVE  /\ test[r].warmup.duration \in Nat /\ test[r].warmup.pause \in Nat
         /\ NextReport(r) \in Reports /\ NextReport(r).results \in Seq(Outcomes)
         /\ NextReport(r) = test[r].reports[summary[r].count + 1]
         /\ summary[r].count + 1 \in DOMAIN test[r].reports
<1>1. /\ test[r] \in Tests /\ summary[r] \in Summaries /\ summary[r].count \in Nat
  BY DEF Typed, Summaries
<1>2. test[r].warmup \in [duration : Nat, pause : Nat] /\ test[r].reports \in Seq(Reports)
  BY <1>1, OutputAssumption
<1>3. summary[r].count + 1 \in DOMAIN test[r].reports
  BY <1>1, <1>2
<1>4. test[r].reports[summary[r].count + 1] \in Reports
  BY <1>2, <1>3
<1>5. QED
  BY <1>2, <1>3, <1>4 DEF NextReport, Reports

LEMMA RecordedResults ==
  ASSUME NEW drops \in Drops, NEW results \in Seq(Outcomes)
  PROVE  /\ RecordResults(drops, results) \in Drops
         /\ RecordResults(drops, results).transactions = drops.transactions + Len(results)
         /\ \A reason \in Reasons :
              RecordResults(drops, results)[reason] = drops[reason] + CountOf(results, reason)
<1>1. \A o : CountOf(results, o) \in Nat
  <2>1. 1 \in Int /\ Len(results) \in Int
    OBVIOUS
  <2>2. QED
    BY <2>1, CountInFinite, Zenon DEF CountOf
<1>2. QED
  BY <1>1 DEF RecordResults, Drops, Reasons

LEMMA Recorded ==
  ASSUME NEW warmup \in [duration : Nat, pause : Nat], NEW s \in Summaries,
         NEW report \in Reports
  PROVE  /\ Record(warmup, s, report) \in Summaries
         /\ Record(warmup, s, report).count = s.count + 1
         /\ s.count < warmup.duration + warmup.pause =>
              /\ Classify(warmup, s.count) # "load"
              /\ Record(warmup, s, report).load = s.load
              /\ Record(warmup, s, report).warmup = RecordResults(s.warmup, report.results)
         /\ s.count >= warmup.duration + warmup.pause =>
              /\ Classify(warmup, s.count) = "load"
              /\ Record(warmup, s, report).warmup = s.warmup
              /\ Record(warmup, s, report).load = RecordResults(s.load, report.results)
<1> DEFINE part == IF Classify(warmup, s.count) = "load" THEN "load" ELSE "warmup"
<1>1. Record(warmup, s, report) =
        [s EXCEPT !.count = @ + 1, ![part] = RecordResults(@, report.results)]
  BY DEF Record
<1>2. /\ s.count < warmup.duration + warmup.pause => Classify(warmup, s.count) # "load"
      /\ s.count >= warmup.duration + warmup.pause => Classify(warmup, s.count) = "load"
  BY DEF Classify, Summaries
<1>3. /\ s.count \in Nat /\ s.load \in Drops /\ s.warmup \in Drops
      /\ warmup.duration + warmup.pause \in Nat
      /\ report.results \in Seq(Outcomes)
  BY DEF Summaries, Reports
<1>4. /\ RecordResults(s.load, report.results) \in Drops
      /\ RecordResults(s.warmup, report.results) \in Drops
  BY <1>3, RecordedResults
<1>5. CASE s.count < warmup.duration + warmup.pause
  <2>1. part = "warmup"
    BY <1>2, <1>5
  <2>2. Record(warmup, s, report) =
          [count |-> s.count + 1,
           load |-> s.load, warmup |-> RecordResults(s.warmup, report.results)]
    BY <1>1, <2>1 DEF Summaries
  <2>3. QED
    BY <1>2, <1>3, <1>4, <1>5, <2>2 DEF Summaries
<1>6. CASE s.count >= warmup.duration + warmup.pause
  <2>1. part = "load"
    BY <1>2, <1>6
  <2>2. Record(warmup, s, report) =
          [count |-> s.count + 1,
           load |-> RecordResults(s.load, report.results), warmup |-> s.warmup]
    BY <1>1, <2>1 DEF Summaries
  <2>3. QED
    BY <1>2, <1>3, <1>4, <1>6, <2>2 DEF Summaries
<1>7. QED
  BY <1>3, <1>5, <1>6

-----------------------------------------------------------------------------
(* Type correctness, given how far each run is.                            *)
LEMMA InitTyped == Init => Typed
<1> SUFFICES ASSUME Init
             PROVE  Typed
  OBVIOUS
<1>1. /\ <<0>> \in Seq(Nat) /\ Len(<<0>>) = 1 /\ <<>> \in Seq(Nat) /\ <<>> \in Seq(Seq(Nat))
      /\ NewSummary \in Summaries
  BY DEF NewSummary, Summaries, NoDrops, Drops
<1>2. (CHOOSE t \in Tests : TRUE) \in Tests
  BY OutputAssumption
<1>3. files \in [Names -> Placed]
  BY DEF Init
<1>4. ASSUME NEW name \in Names
      PROVE  files[name].by \subseteq Runs \cup {User} /\ files[name].content \in Seq(Nat)
  <2>1. files[name] \in Placed
    BY <1>3
  <2>2. /\ files[name].by = {} \/ files[name].by = {User}
        /\ files[name].content = <<>> \/ files[name].content = <<0>>
    BY <2>1 DEF Placed, Absent
  <2>3. QED
    BY <1>1, <2>2
<1>5. IsAFunction(files, Names)
  BY <1>3 DEF IsAFunction
<1>6. \A i \in DOMAIN Inputs : Inputs[i] \in Names
  BY NamesFacts
<1>7. QED
  BY <1>1, <1>2, <1>4, <1>5, <1>6 DEF Init, Typed, Phases, Before

(* What a run leaves to the others.                                        *)
LEMMA RunFrame ==
  ASSUME Typed, NEW r \in Runs, Run(r)
  PROVE  /\ source' = source
         /\ \A o \in Runs \ {r} :
              /\ pc'[o] = pc[o] /\ inputs'[o] = inputs[o] /\ copied'[o] = copied[o]
              /\ overwrite'[o] = overwrite[o] /\ origin'[o] = origin[o]
              /\ test'[o] = test[o] /\ summary'[o] = summary[o] /\ older'[o] = older[o]
              /\ alone'[o] => alone[o]
              /\ latest' = o => latest = o
         /\ directory = "there" => directory' = "there"
         /\ ~Ended(r)
  <1> USE DEF Typed, Ended
  <1>1. CASE StartRun(r) \/ ReadInput(r) \/ ParseInputs(r)
    BY <1>1 DEF StartRun, ReadInput, ParseInputs, Goto, history, runVars
  <1>2. CASE CheckExists(r)
    BY <1>2 DEF CheckExists, Passes, Goto, history, runVars
  <1>3. CASE CreateDir(r) \/ ListDir(r)
    BY <1>3 DEF CreateDir, ListDir, Passes, Goto, history, runVars
  <1>4. CASE TruncateInput(r) \/ WriteInput(r) \/ StartTest(r)
    BY <1>4 DEF TruncateInput, WriteInput, StartTest, Goto, history, runVars
  <1>5. CASE OpenIntervals(r) \/ OpenTransactions(r) \/ PersistReport(r)
    BY <1>5 DEF OpenIntervals, OpenTransactions, PersistReport, Goto, history, runVars
  <1>6. CASE TruncateMetadata(r) \/ WriteMetadata(r) \/ Fails(r)
    BY <1>6 DEF TruncateMetadata, WriteMetadata, Fails, Goto, history, runVars
  <1>7. QED
    BY <1>1, <1>2, <1>3, <1>4, <1>5, <1>6 DEF Run

LEMMA InputsStayTyped ==
  ASSUME Typed, NEW r \in Runs, Run(r), Progress(r), NEW i \in DOMAIN Inputs
  PROVE  files'[Inputs[i]].content \in Seq(Nat)
<1> DEFINE name == Inputs[i]
<1>t. /\ IsAFunction(files, Names) /\ copied[r] \in Nat /\ inputs[r] \in Seq(Seq(Nat))
      /\ files[name].content \in Seq(Nat) /\ <<>> \in Seq(Nat)
  <2>1. IsAFunction(files, Names) /\ copied[r] \in Nat /\ inputs[r] \in Seq(Seq(Nat))
    BY DEF Typed
  <2>2. files[name].content \in Seq(Nat)
    BY DEF Typed
  <2>3. <<>> \in Seq(Nat)
    OBVIOUS
  <2>4. QED
    BY <2>1, <2>2, <2>3
<1>n. name \in Names /\ name # Intervals /\ name # Transactions /\ name # Metadata
  BY NamesFacts
<1> HIDE DEF name
<1>1. CASE files'[name] = files[name]
  BY <1>1, <1>t DEF name
<1>2. CASE files'[name] = [by |-> {r}, content |-> <<>>]
  BY <1>2, <1>t DEF name
<1>3. CASE TruncateInput(r)
  <2>1. copied[r] + 1 \in DOMAIN Inputs
    BY <1>3, <1>t, NamesFacts DEF TruncateInput
  <2>2. Inputs[copied[r] + 1] \in Names /\ Truncates(r, Inputs[copied[r] + 1])
    BY <1>3, <2>1, NamesFacts DEF TruncateInput
  <2>3. QED
    BY <1>1, <1>2, <1>t, <1>n, <2>2, TruncatesFile
<1>4. CASE WriteInput(r)
  <2>1. copied[r] + 1 \in DOMAIN Inputs /\ copied[r] + 1 \in DOMAIN inputs[r]
    BY <1>4, <1>t, NamesFacts DEF WriteInput, Progress
  <2>2. /\ Inputs[copied[r] + 1] \in Names
        /\ Writes(r, Inputs[copied[r] + 1], inputs[r][copied[r] + 1])
    BY <1>4, <2>1, NamesFacts DEF WriteInput
  <2>3. inputs[r][copied[r] + 1] \in Seq(Nat)
    BY <1>t, <2>1
  <2>4. CASE name = Inputs[copied[r] + 1]
    <3>1. files'[name].content \in {inputs[r][copied[r] + 1], <<>>}
      BY <1>t, <1>n, <2>2, <2>4, WritesFile
    <3>2. QED
      BY <1>t, <2>3, <3>1 DEF name
  <2>5. CASE name # Inputs[copied[r] + 1]
    BY <1>1, <1>t, <1>n, <2>2, <2>5, WritesFile
  <2>6. QED
    BY <2>4, <2>5
<1>5. CASE OpenIntervals(r)
  <2>1. Truncates(r, Intervals) /\ Intervals \in Names
    BY <1>5, NamesFacts DEF OpenIntervals
  <2>2. QED
    BY <1>1, <1>t, <1>n, <2>1, TruncatesFile
<1>6. CASE OpenTransactions(r)
  <2>1. Truncates(r, Transactions) /\ Transactions \in Names
    BY <1>6, NamesFacts DEF OpenTransactions
  <2>2. QED
    BY <1>1, <1>t, <1>n, <2>1, TruncatesFile
<1>7. CASE TruncateMetadata(r)
  <2>1. Truncates(r, Metadata) /\ Metadata \in Names
    BY <1>7, NamesFacts DEF TruncateMetadata
  <2>2. QED
    BY <1>1, <1>t, <1>n, <2>1, TruncatesFile
<1>8. CASE WriteMetadata(r)
  BY <1>1, <1>8, <1>t, <1>n, NamesFacts, WritesFile DEF WriteMetadata
<1>9. CASE PersistReport(r)
  BY <1>1, <1>9, <1>t, <1>n, NamesFacts, PersistsFiles DEF Results
<1>10. CASE files' = files
  BY <1>1, <1>10
<1>11. QED
  BY <1>3, <1>4, <1>5, <1>6, <1>7, <1>8, <1>9, <1>10
     DEF Run, StartRun, ReadInput, ParseInputs, CheckExists, CreateDir, ListDir, StartTest, Fails

LEMMA RunTyped ==
  ASSUME Typed, NEW r \in Runs, Run(r), Progress(r)
  PROVE  Typed'
<1>1. /\ IsAFunction(files', Names)
      /\ \A name \in Names : files'[name].by \subseteq Runs \cup {User}
  <2>1. \A name \in Names : files[name].by \subseteq Runs \cup {User}
    BY DEF Typed
  <2>2. /\ IsAFunction(files', Names)
        /\ \A name \in Names : \/ files'[name] = files[name]
                              \/ files'[name].by = {r}
                              \/ files'[name].by = files[name].by \cup {r}
    BY FilesStep
  <2>3. QED
    BY <2>1, <2>2
<1>2. \A i \in DOMAIN Inputs : files'[Inputs[i]].content \in Seq(Nat)
  BY InputsStayTyped
<1>3. /\ source' \in [{Inputs[i] : i \in DOMAIN Inputs} -> Seq(Nat)]
      /\ \A name \in DOMAIN source' : Len(source'[name]) = 1
  BY RunFrame DEF Typed
<1>4. pc' \in [Runs -> Phases]
  <2> USE DEF Typed, Phases, Before, Goto
  <2>1. CASE StartRun(r) \/ ReadInput(r) \/ ParseInputs(r)
    BY <2>1 DEF StartRun, ReadInput, ParseInputs
  <2>2. CASE CheckExists(r) \/ CreateDir(r) \/ ListDir(r)
    <3>1. \E place \in Phases : pc' = [pc EXCEPT ![r] = place]
      BY <2>2 DEF CheckExists, CreateDir, ListDir, Passes
    <3>2. QED
      BY <3>1
  <2>3. CASE TruncateInput(r) \/ WriteInput(r) \/ StartTest(r) \/ Fails(r)
    BY <2>3 DEF TruncateInput, WriteInput, StartTest, Fails
  <2>4. CASE OpenIntervals(r) \/ OpenTransactions(r) \/ PersistReport(r)
    BY <2>4 DEF OpenIntervals, OpenTransactions, PersistReport
  <2>5. CASE TruncateMetadata(r) \/ WriteMetadata(r)
    BY <2>5 DEF TruncateMetadata, WriteMetadata
  <2>6. QED
    BY <2>1, <2>2, <2>3, <2>4, <2>5 DEF Run
<1>5. inputs' \in [Runs -> Seq(Seq(Nat))]
  <2>1. CASE ReadInput(r)
    <3> DEFINE name == Inputs[Len(inputs[r]) + 1]
    <3>1. Len(inputs[r]) + 1 \in DOMAIN Inputs
      <4>1. inputs[r] \in Seq(Seq(Nat)) /\ Len(inputs[r]) < Len(Inputs)
        BY <2>1 DEF Typed, ReadInput
      <4>2. Len(inputs[r]) \in Nat
        BY <4>1
      <4>3. QED
        BY <4>1, <4>2, NamesFacts
    <3>2. files[name].content \in Seq(Nat) /\ source[name] \in Seq(Nat)
      BY <3>1 DEF Typed
    <3> HIDE DEF name
    <3>3. PICK content \in Seq(Nat) : inputs' = [inputs EXCEPT ![r] = Append(@, content)]
      <4>1. inputs' = [inputs EXCEPT ![r] =
                         Append(@, IF origin[r] = "output" THEN files[name].content ELSE source[name])]
        BY <2>1 DEF ReadInput, name
      <4>2. QED
        BY <3>2, <4>1
    <3>4. inputs[r] \in Seq(Seq(Nat))
      BY DEF Typed
    <3>5. Append(inputs[r], content) \in Seq(Seq(Nat))
      BY <3>4
    <3>6. QED
      BY <3>3, <3>5 DEF Typed
  <2>2. CASE inputs' = inputs
    BY <2>2 DEF Typed
  <2>3. QED
    BY <2>1, <2>2 DEF Run, StartRun, ParseInputs, CheckExists, CreateDir, ListDir, TruncateInput,
         WriteInput, StartTest, OpenIntervals, OpenTransactions, PersistReport, TruncateMetadata,
         WriteMetadata, Fails
<1>6. summary' \in [Runs -> Summaries]
  <2>1. CASE PersistReport(r)
    <3>1. summary[r].count < Len(test[r].reports)
      BY <2>1 DEF PersistReport
    <3>2. NextReport(r) \in Reports
      BY <3>1, ReportTyped
    <3>3. test[r].warmup \in [duration : Nat, pause : Nat]
      BY OutputAssumption DEF Typed
    <3>4. Record(test[r].warmup, summary[r], NextReport(r)) \in Summaries
      BY <3>2, <3>3, Recorded DEF Typed
    <3>5. QED
      BY <2>1, <3>4 DEF PersistReport, Typed
  <2>2. CASE summary' = summary
    BY <2>2 DEF Typed
  <2>3. QED
    BY <2>1, <2>2 DEF Run, StartRun, ReadInput, ParseInputs, CheckExists, CreateDir, ListDir,
         TruncateInput, WriteInput, StartTest, OpenIntervals, OpenTransactions, TruncateMetadata,
         WriteMetadata, Fails
<1>9. [copied EXCEPT ![r] = @ + 1] \in [Runs -> Nat]
  <2>1. copied \in [Runs -> Nat]
    BY DEF Typed
  <2>2. copied[r] + 1 \in Nat
    BY <2>1
  <2>3. QED
    BY <2>1, <2>2
<1>7. /\ directory' \in {"there", "missing", "a file"}
      /\ overwrite' \in [Runs -> BOOLEAN]
      /\ origin' \in [Runs -> {"user", "output"}]
      /\ copied' \in [Runs -> Nat]
      /\ test' \in [Runs -> Tests]
      /\ older' \in [Runs -> SUBSET (Runs \cup {User})]
      /\ alone' \in [Runs -> BOOLEAN]
      /\ latest' \in Runs \cup {User}
  <2> USE DEF Typed, history, runVars
  <2>1. CASE StartRun(r) \/ ReadInput(r) \/ ParseInputs(r)
    BY <2>1 DEF StartRun, ReadInput, ParseInputs
  <2>2. CASE CheckExists(r)
    BY <2>2 DEF CheckExists, Passes
  <2>3. CASE CreateDir(r) \/ ListDir(r)
    BY <2>3 DEF CreateDir, ListDir, Passes
  <2>4. CASE TruncateInput(r)
    BY <2>4 DEF TruncateInput
  <2>9. CASE WriteInput(r)
    <3>3. copied' \in [Runs -> Nat]
      BY <1>9, <2>9 DEF WriteInput
    <3>4. UNCHANGED <<directory, overwrite, origin, test, older, alone, latest>>
      BY <2>9 DEF WriteInput
    <3>5. QED
      BY <3>3, <3>4
  <2>7. CASE StartTest(r)
    BY <2>7 DEF StartTest
  <2>5. CASE OpenIntervals(r) \/ OpenTransactions(r) \/ PersistReport(r)
    BY <2>5 DEF OpenIntervals, OpenTransactions, PersistReport
  <2>6. CASE TruncateMetadata(r) \/ WriteMetadata(r) \/ Fails(r)
    BY <2>6 DEF TruncateMetadata, WriteMetadata, Fails
  <2>8. QED
    BY <2>1, <2>2, <2>3, <2>4, <2>5, <2>6, <2>7, <2>9 DEF Run
<1>8. QED
  BY <1>1, <1>2, <1>3, <1>4, <1>5, <1>6, <1>7 DEF Typed

-----------------------------------------------------------------------------
(* Each step takes a run on as far as where it is then says.               *)
LEMMA OthersProgress ==
  ASSUME Typed, NEW r \in Runs, Run(r), NEW o \in Runs \ {r}, Progress(o)
  PROVE  Progress(o)'
  BY RunFrame DEF Progress, Writing

LEMMA RunProgress ==
  ASSUME Typed, NEW r \in Runs, Run(r), Progress(r)
  PROVE  Progress(r)'
<1>t. /\ copied[r] \in Nat /\ inputs[r] \in Seq(Seq(Nat)) /\ Len(inputs[r]) \in Nat
      /\ Len(Inputs) \in Nat /\ summary[r].count \in Nat /\ Len(test[r].reports) \in Nat
  <2>1. copied[r] \in Nat /\ inputs[r] \in Seq(Seq(Nat)) /\ test[r] \in Tests /\ summary[r] \in Summaries
    BY DEF Typed
  <2>2. test[r].reports \in Seq(Reports)
    BY <2>1, OutputAssumption
  <2>3. QED
    BY <2>1, <2>2, NamesFacts DEF Summaries
<1>d. /\ DOMAIN pc = Runs /\ DOMAIN inputs = Runs /\ DOMAIN copied = Runs
      /\ DOMAIN test = Runs /\ DOMAIN summary = Runs
  BY DEF Typed
<1> USE <1>t, <1>d DEF Progress, Writing, Goto, Before
<1>1. CASE StartRun(r) \/ ParseInputs(r)
  BY <1>1 DEF StartRun, ParseInputs, runVars
<1>2. CASE ReadInput(r)
  <2>1. \E content : inputs'[r] = Append(inputs[r], content)
    BY <1>2 DEF ReadInput
  <2>2. Len(inputs'[r]) = Len(inputs[r]) + 1
    BY <2>1
  <2>3. QED
    BY <1>2, <2>2 DEF ReadInput
<1>3. CASE CheckExists(r)
  BY <1>3 DEF CheckExists, Passes
<1>4. CASE CreateDir(r)
  BY <1>4 DEF CreateDir, Passes
<1>5. CASE ListDir(r)
  BY <1>5 DEF ListDir, Passes
<1>6. CASE TruncateInput(r)
  BY <1>6 DEF TruncateInput
<1>7. CASE WriteInput(r)
  BY <1>7 DEF WriteInput
<1>8. CASE StartTest(r)
  <2>1. PICK t \in Tests : test' = [test EXCEPT ![r] = t]
    BY <1>8 DEF StartTest
  <2>2. test'[r] = t /\ t.reports \in Seq(Reports) /\ Len(t.reports) \in Nat
    BY <2>1, OutputAssumption
  <2>3. summary'[r] = NewSummary /\ summary'[r].count = 0
    BY <1>8 DEF StartTest, NewSummary
  <2>4. QED
    BY <1>8, <2>2, <2>3 DEF StartTest
<1>9. CASE OpenIntervals(r) \/ OpenTransactions(r)
  BY <1>9 DEF OpenIntervals, OpenTransactions
<1>10. CASE PersistReport(r)
  <2>1. summary'[r].count = summary[r].count + 1
    <3>1. NextReport(r) \in Reports
      BY <1>10, ReportTyped DEF PersistReport
    <3>2. test[r].warmup \in [duration : Nat, pause : Nat] /\ summary[r] \in Summaries
      BY OutputAssumption DEF Typed
    <3>3. Record(test[r].warmup, summary[r], NextReport(r)).count = summary[r].count + 1
      BY <3>1, <3>2, Recorded
    <3>4. QED
      BY <1>10, <3>3 DEF PersistReport
  <2>2. QED
    BY <1>10, <2>1 DEF PersistReport
<1>11. CASE TruncateMetadata(r) \/ WriteMetadata(r)
  BY <1>11 DEF TruncateMetadata, WriteMetadata
<1>12. CASE Fails(r)
  BY <1>12 DEF Fails
<1>13. QED
  BY <1>1, <1>2, <1>3, <1>4, <1>5, <1>6, <1>7, <1>8, <1>9, <1>10, <1>11, <1>12 DEF Run

LEMMA SummarizedStep ==
  ASSUME Typed, NEW r \in Runs, Run(r), \A o \in Runs : Progress(o) /\ Summarized(o), NEW o \in Runs
  PROVE  Summarized(o)'
<1>1. CASE test'[o] = test[o] /\ summary'[o] = summary[o]
  BY <1>1 DEF Summarized, IsValid, Total
<1>2. CASE o # r
  BY <1>1, <1>2, RunFrame
<1>3. CASE o = r /\ StartTest(r)
  <2>1. summary'[o] = NewSummary
    BY <1>3 DEF StartTest, Progress
  <2>2. summary'[o].load = NoDrops /\ summary'[o].count = 0 /\ IsValid(summary'[o])
    BY <2>1 DEF NewSummary, IsValid, NoDrops, Total
  <2>3. 1 .. summary'[o].count = {}
    BY <2>2
  <2>4. QED
    BY <2>2, <2>3 DEF Summarized
<1>4. CASE o = r /\ PersistReport(r)
  <2> DEFINE w == test[r].warmup
             s == summary[r]
             n == NextReport(r)
             m == Record(w, s, n)
  <2>1. w \in [duration : Nat, pause : Nat] /\ s \in Summaries /\ test[r].reports \in Seq(Reports)
    BY OutputAssumption DEF Typed
  <2>2. /\ n \in Reports /\ n.results \in Seq(Outcomes) /\ n = test[r].reports[s.count + 1]
        /\ s.count + 1 \in DOMAIN test[r].reports
    BY <1>4, ReportTyped DEF PersistReport
  <2>3. summary'[r] = m /\ test'[r] = test[r]
    BY <1>4 DEF PersistReport, Typed
  <2>4. /\ m \in Summaries /\ m.count = s.count + 1
        /\ s.count < w.duration + w.pause => Classify(w, s.count) # "load" /\ m.load = s.load
        /\ s.count >= w.duration + w.pause =>
             Classify(w, s.count) = "load" /\ m.load = RecordResults(s.load, n.results)
    BY <2>1, <2>2, Recorded
  <2>5. s.count \in Nat /\ w.duration + w.pause \in Nat /\ s.load \in Drops
    BY <2>1 DEF Summaries
  <2> HIDE DEF w, s, n, m
  <2>6. m.count < w.duration + w.pause => m.load = NoDrops
    <3>1. s.count < w.duration + w.pause => s.load = NoDrops
      BY DEF Summarized, w, s
    <3>2. QED
      BY <2>4, <2>5, <3>1
  <2>7. ASSUME \A i \in DOMAIN test[r].reports : Consistent(test[r].reports[i])
        PROVE  IsValid(m) <=> \A i \in 1 .. m.count : Classify(w, i - 1) = "load" =>
                                test[r].reports[i].stats.dropped_transactions = 0
    <3>1. IsValid(s) <=> \A i \in 1 .. s.count : Classify(w, i - 1) = "load" =>
                           test[r].reports[i].stats.dropped_transactions = 0
      BY <2>7 DEF Summarized, w, s
    <3>2. 1 .. m.count = (1 .. s.count) \cup {s.count + 1} /\ (s.count + 1) - 1 = s.count
      BY <2>4, <2>5
    <3>3. n.stats.dropped_transactions =
            CountOf(n.results, "no_virtual_user") + CountOf(n.results, "late") + CountOf(n.results, "error")
      BY <2>2, <2>7 DEF Consistent
    <3>4. CASE s.count < w.duration + w.pause
      BY <2>2, <2>4, <3>1, <3>2, <3>4 DEF IsValid
    <3>5. CASE s.count >= w.duration + w.pause
      <4>1. /\ m.load \in Drops
            /\ \A reason \in Reasons : m.load[reason] = s.load[reason] + CountOf(n.results, reason)
        BY <2>2, <2>4, <2>5, <3>5, RecordedResults
      <4>2. \A reason \in Reasons : CountOf(n.results, reason) \in Nat
        <5>1. 1 \in Int /\ Len(n.results) \in Int
          BY <2>2
        <5>2. QED
          BY <5>1, CountInFinite, Zenon DEF CountOf
      <4>3. /\ s.load.no_virtual_user \in Nat /\ s.load.late \in Nat /\ s.load.error \in Nat
        BY <2>5 DEF Drops
      <4>4. Total(m.load) = Total(s.load) + n.stats.dropped_transactions
        BY <3>3, <4>1, <4>2, <4>3 DEF Total, Reasons
      <4>5. Total(s.load) \in Nat /\ n.stats.dropped_transactions \in Nat
        BY <3>3, <4>2, <4>3 DEF Total, Reasons
      <4>6. IsValid(m) <=> IsValid(s) /\ n.stats.dropped_transactions = 0
        BY <4>4, <4>5 DEF IsValid
      <4>7. QED
        BY <2>2, <2>4, <3>1, <3>2, <3>5, <4>6
    <3>6. QED
      BY <2>5, <3>4, <3>5
  <2>8. QED
    BY <1>4, <2>3, <2>6, <2>7 DEF Summarized, w
<1>5. QED
  BY <1>1, <1>2, <1>3, <1>4 DEF Run, StartRun, ReadInput, ParseInputs, CheckExists, CreateDir,
     ListDir, TruncateInput, WriteInput, OpenIntervals, OpenTransactions, TruncateMetadata,
     WriteMetadata, Fails

-----------------------------------------------------------------------------
(* Where a run is after its step, as far as the invariants ask.            *)
Passing(r) == (CheckExists(r) \/ CreateDir(r) \/ ListDir(r)) /\ Passes(r)

LEMMA RunMoves ==
  ASSUME Typed, NEW r \in Runs, Run(r)
  PROVE  /\ pc[r] \notin Before => pc'[r] \notin Before
         /\ pc'[r] = "making" \/ Writing(r)' =>
              \/ pc[r] = "making" \/ Writing(r) \/ CheckExists(r)
              \/ ListDir(r) /\ \A name \in Names : ~Exists(name)
         /\ overwrite'[r] # overwrite[r] => pc'[r] = "reading"
         /\ older'[r] # older[r] => CheckExists(r)
         /\ Passing(r) \/ /\ alone' = alone /\ latest' = latest
                          /\ Writing(r)' => Writing(r)
<1>d. DOMAIN pc = Runs /\ DOMAIN overwrite = Runs /\ DOMAIN older = Runs
  BY DEF Typed
<1> USE <1>d DEF Before, Writing, Goto, history, runVars
<1>1. CASE StartRun(r) \/ ReadInput(r) \/ ParseInputs(r)
  BY <1>1 DEF StartRun, ReadInput, ParseInputs
<1>2. CASE CheckExists(r)
  BY <1>2 DEF CheckExists, Passing
<1>3. CASE CreateDir(r)
  BY <1>3 DEF CreateDir, Passing
<1>4. CASE ListDir(r)
  BY <1>4 DEF ListDir, Passing
<1>5. CASE TruncateInput(r) \/ WriteInput(r) \/ StartTest(r)
  BY <1>5 DEF TruncateInput, WriteInput, StartTest
<1>6. CASE OpenIntervals(r) \/ OpenTransactions(r) \/ PersistReport(r)
  BY <1>6 DEF OpenIntervals, OpenTransactions, PersistReport
<1>7. CASE TruncateMetadata(r) \/ WriteMetadata(r) \/ Fails(r)
  BY <1>7 DEF TruncateMetadata, WriteMetadata, Fails
<1>8. QED
  BY <1>1, <1>2, <1>3, <1>4, <1>5, <1>6, <1>7 DEF Run

(* Whoever had ended does not write any more, so what a run that was let   *)
(* in found is all that matters.                                           *)
LEMMA KeptStep ==
  ASSUME Typed, NEW r \in Runs, Run(r), Progress(r), NEW o \in Runs, KeptInv(o),
         directory # "there" => \A name \in Names : ~Exists(name)
  PROVE  KeptInv(o)'
<1>1. /\ IsAFunction(files', Names)
      /\ \/ files' = files
         \/ Writing(r) /\ \A name \in Names : files'[name].by \subseteq files[name].by \cup {r}
  BY FilesStep
<1>2. \A name \in Names : files'[name].by \subseteq files[name].by \cup {r}
  BY <1>1
<1>3. older[o] \subseteq {User} \cup {e \in Runs : Ended(e)} /\ r \notin older[o]
  BY RunFrame, OutputAssumption DEF KeptInv
<1>4. \A e \in Runs : Ended(e) => Ended(e)'
  BY RunFrame DEF Ended
<1>5. CASE o # r
  <2>1. /\ pc'[o] = pc[o] /\ overwrite'[o] = overwrite[o] /\ older'[o] = older[o]
        /\ Writing(o)' = Writing(o)
    BY <1>5, RunFrame DEF Writing
  <2>2. \A name \in Names : o \in files'[name].by => o \in files[name].by
    BY <1>2, <1>5
  <2>3. QED
    BY <1>2, <1>3, <1>4, <2>1, <2>2 DEF KeptInv
<1>6. CASE o = r
  <2>1. older'[o] \subseteq {User} \cup {e \in Runs : Ended(e)'}
    <3>1. CASE older'[o] = older[o]
      BY <1>3, <1>4, <3>1
    <3>2. CASE CheckExists(r)
      <4>1. older'[o] = {User} \cup {e \in Runs : Ended(e)}
        BY <1>6, <3>2 DEF CheckExists, Typed
      <4>2. QED
        BY <1>4, <4>1
    <3>3. QED
      BY <1>6, <3>1, <3>2, RunMoves
  <2>2. ASSUME NEW name \in Names, o \in files'[name].by
        PROVE  pc[o] \notin Before /\ pc'[o] \notin Before
    <3>1. o \in files[name].by \/ Writing(o)
      BY <1>1, <1>6, <2>2
    <3>2. pc[o] \notin Before
      BY <3>1 DEF KeptInv, Writing, Before
    <3>3. QED
      BY <1>6, <3>2, RunMoves
  <2>3. ASSUME ~overwrite'[o],
               pc'[o] = "making" \/ Writing(o)' \/ \E name \in Names : o \in files'[name].by
        PROVE  \A name \in Names : files'[name].by \cap older'[o] = {}
    <3>1. overwrite'[o] = overwrite[o]
      BY <1>6, <2>2, <2>3, RunMoves DEF Before, Writing
    <3>2. CASE CheckExists(r)
      <4>1. files' = files /\ pc[r] = "checking"
        BY <3>2 DEF CheckExists
      <4>2. pc'[r] = "making" \/ Writing(r)'
        BY <1>6, <2>2, <2>3, <4>1 DEF Before
      <4>3. directory = "missing"
        BY <1>6, <2>3, <3>1, <3>2, <4>2 DEF CheckExists, Goto, Writing, Typed
      <4>4. QED
        BY <4>1, <4>3 DEF Exists
    <3>3. CASE ListDir(r) /\ \A name \in Names : ~Exists(name)
      <4>1. files' = files
        BY <3>3 DEF ListDir
      <4>2. QED
        BY <3>3, <4>1 DEF Exists
    <3>4. CASE /\ ~CheckExists(r)
               /\ pc[o] = "making" \/ Writing(o) \/ \E name \in Names : o \in files[name].by
      <4>1. older'[o] = older[o]
        BY <1>6, <3>4, RunMoves
      <4>2. \A name \in Names : files[name].by \cap older[o] = {}
        BY <2>3, <3>1, <3>4 DEF KeptInv
      <4>3. QED
        BY <1>2, <1>3, <4>1, <4>2
    <3>5. QED
      BY <1>1, <1>6, <2>3, <3>2, <3>3, <3>4, RunMoves
  <2>4. QED
    BY <2>1, <2>2, <2>3 DEF KeptInv
<1>7. QED
  BY <1>5, <1>6

LEMMA RecordedStep ==
  ASSUME Typed, NEW r \in Runs, Run(r), Progress(r), RecordedRunsFinished
  PROVE  RecordedRunsFinished'
<1> SUFFICES ASSUME NEW o \in Runs, files'[Metadata].by = {o}, files'[Metadata].content # <<>>
             PROVE  pc'[o] = "finished"
  BY DEF RecordedRunsFinished, Sole
<1>t. /\ IsAFunction(files, Names) /\ Metadata \in Names /\ DOMAIN pc = Runs
      /\ copied[r] \in Nat /\ inputs[r] \in Seq(Seq(Nat)) /\ Len(inputs[r]) \in Nat
  <2>1. IsAFunction(files, Names) /\ DOMAIN pc = Runs /\ copied[r] \in Nat /\ inputs[r] \in Seq(Seq(Nat))
    BY DEF Typed
  <2>2. QED
    BY <2>1, NamesFacts
<1>1. CASE files'[Metadata] = files[Metadata]
  <2>1. pc[o] = "finished"
    BY <1>1 DEF RecordedRunsFinished, Sole
  <2>2. QED
    BY <2>1, RunFrame DEF Ended
<1>c. ASSUME NEW name \in Names, Truncates(r, name)
      PROVE  files'[Metadata] = files[Metadata]
  <2>1. /\ files'[name] = [by |-> {r}, content |-> <<>>]
        /\ \A n \in Names \ {name} : files'[n] = files[n]
    BY <1>c, <1>t, TruncatesFile
  <2>2. QED
    BY <1>t, <2>1
<1>2. CASE TruncateMetadata(r)
  BY <1>1, <1>2, <1>c, <1>t DEF TruncateMetadata
<1>3. CASE WriteMetadata(r)
  <2>1. files'[Metadata].by = files[Metadata].by \cup {r}
    BY <1>3, <1>t, WritesFile DEF WriteMetadata
  <2>2. o = r
    BY <2>1
  <2>3. QED
    BY <1>3, <1>t, <2>2 DEF WriteMetadata, Goto
<1>4. CASE TruncateInput(r)
  <2>1. copied[r] + 1 \in DOMAIN Inputs
    BY <1>4, <1>t, NamesFacts DEF TruncateInput
  <2>2. QED
    BY <1>1, <1>4, <1>c, <2>1, NamesFacts DEF TruncateInput
<1>5. CASE WriteInput(r)
  <2>1. copied[r] + 1 \in DOMAIN Inputs
    BY <1>5, <1>t, NamesFacts DEF WriteInput, Progress
  <2>2. QED
    BY <1>1, <1>5, <1>t, <2>1, NamesFacts, WritesFile DEF WriteInput
<1>6. CASE OpenIntervals(r)
  BY <1>1, <1>6, <1>c, NamesFacts DEF OpenIntervals
<1>7. CASE OpenTransactions(r)
  BY <1>1, <1>7, <1>c, NamesFacts DEF OpenTransactions
<1>8. CASE PersistReport(r)
  BY <1>1, <1>8, <1>t, NamesFacts, PersistsFiles DEF Results
<1>9. QED
  BY <1>1, <1>2, <1>3, <1>4, <1>5, <1>6, <1>7, <1>8 DEF Run, StartRun, ReadInput, ParseInputs,
     CheckExists, CreateDir, ListDir, StartTest, Fails

-----------------------------------------------------------------------------
(* What a summary says of the rows of transactions.csv, report by report.  *)
LEMMA CountsNothing ==
  ASSUME NEW results, NEW n \in Nat
  PROVE  Counts(NoDrops, results, n + 1, n)
<1>1. \A reason \in Reasons : CountIn(results, n + 1, n, reason) = 0
  <2>1. n + 1 \in Int /\ n \in Int /\ n + 1 .. n = {}
    OBVIOUS
  <2>2. QED
    BY <2>1, CountInFinite
<1>2. QED
  BY <1>1 DEF Counts, NoDrops, Reasons

LEMMA CountsAppended ==
  ASSUME NEW drops \in Drops, NEW results \in Seq(Outcomes), NEW more \in Seq(Outcomes),
         NEW first \in 1 .. Len(results) + 1, Counts(drops, results, first, Len(results))
  PROVE  Counts(RecordResults(drops, more), results \o more, first, Len(results \o more))
<1>1. Len(results \o more) = Len(results) + Len(more) /\ Len(results) \in Nat /\ Len(more) \in Nat
  OBVIOUS
<1>2. /\ RecordResults(drops, more).transactions = drops.transactions + Len(more)
      /\ \A reason \in Reasons :
           RecordResults(drops, more)[reason] = drops[reason] + CountOf(more, reason)
  BY RecordedResults
<1>3. \A reason \in Reasons : CountIn(results \o more, first, Len(results \o more), reason) =
                               CountIn(results, first, Len(results), reason) + CountOf(more, reason)
  BY CountInAppended
<1>4. RecordResults(drops, more).transactions = Len(results \o more) - first + 1
  BY <1>1, <1>2 DEF Counts, Drops
<1>5. QED
  BY <1>2, <1>3, <1>4 DEF Counts

LEMMA CountsKept ==
  ASSUME NEW drops \in Drops, NEW results \in Seq(Outcomes), NEW more \in Seq(Outcomes),
         NEW last \in 0 .. Len(results), Counts(drops, results, 1, last)
  PROVE  Counts(drops, results \o more, 1, last)
  BY CountInPrefix DEF Counts

(* The inputs stay as copied while the results are written.                *)
LEMMA InputsUntouched ==
  ASSUME Typed, NEW r \in Runs, InputsCopied(r), copied'[r] = copied[r], inputs'[r] = inputs[r],
         copied[r] <= Len(Inputs), pc'[r] # "writing",
         \A name \in Names \ {Intervals, Transactions, Metadata} : files'[name] = files[name]
  PROVE  InputsCopied(r)'
<1>1. copied[r] \in Nat
  BY DEF Typed
<1>2. \A i \in 1 .. copied[r] : i \in DOMAIN Inputs
  BY <1>1, NamesFacts
<1>3. \A i \in 1 .. copied[r] : files'[Inputs[i]] = files[Inputs[i]]
  BY <1>2, NamesFacts
<1>4. QED
  BY <1>3 DEF InputsCopied, Sole

LEMMA PersistKeepsTheRecord ==
  ASSUME Typed, NEW r \in Runs, PersistReport(r), Progress(r), Summarized(r),
         RowsWritten(r), ResultsWritten(r)
  PROVE  RowsWritten(r)' /\ ResultsWritten(r)'
<1> DEFINE w == test[r].warmup
           s == summary[r]
           n == NextReport(r)
           m == Record(w, s, n)
           results == files[Transactions].content
           row == RowAt(w, test[r].reports, s.count)
<1>t. IsAFunction(files, Names) /\ pc[r] = "collecting" /\ s.count < Len(test[r].reports)
  BY DEF Typed, PersistReport
<1>1. w \in [duration : Nat, pause : Nat] /\ s \in Summaries
  BY OutputAssumption DEF Typed
<1>2. n \in Reports /\ n.results \in Seq(Outcomes)
  BY <1>t, ReportTyped
<1>3. summary'[r] = m /\ test'[r] = test[r] /\ pc'[r] = pc[r]
  BY DEF PersistReport, Typed
<1>4. /\ m \in Summaries /\ m.count = s.count + 1
      /\ s.count < w.duration + w.pause =>
           m.load = s.load /\ m.warmup = RecordResults(s.warmup, n.results)
      /\ s.count >= w.duration + w.pause =>
           m.warmup = s.warmup /\ m.load = RecordResults(s.load, n.results)
  BY <1>1, <1>2, Recorded
<1>5. /\ s.count \in Nat /\ w.duration + w.pause \in Nat
      /\ s.load \in Drops /\ s.warmup \in Drops /\ s.warmup.transactions \in Nat
  BY <1>1 DEF Summaries, Drops
<1>6. /\ Sole(r, Transactions) /\ results \in Seq(Outcomes)
      /\ Counts(s.warmup, results, 1, s.warmup.transactions)
      /\ Counts(s.load, results, s.warmup.transactions + 1, Len(results))
  BY <1>t DEF ResultsWritten
<1>7. /\ files'[Intervals].by = files[Intervals].by \cup {r}
      /\ files'[Transactions].by = files[Transactions].by \cup {r}
      /\ files[Intervals].by = {r} => files'[Intervals].content = Append(files[Intervals].content, row)
      /\ files[Transactions].by = {r} => files'[Transactions].content = results \o n.results
  BY <1>t, PersistsFiles DEF Results
<1>8. files'[Transactions].content = results \o n.results /\ Sole(r, Transactions)'
  BY <1>6, <1>7 DEF Sole
<1>9. Sole(r, Intervals) /\ Sole(r, Intervals)'
  BY <1>t, <1>7 DEF Sole, RowsWritten
<1>10. /\ files[Intervals].content = [i \in 1 .. s.count |-> RowAt(w, test[r].reports, i - 1)]
       /\ files'[Intervals].content = Append(files[Intervals].content, row)
  BY <1>t, <1>7, <1>9 DEF Sole, RowsWritten
<1> HIDE DEF w, s, n, m, results, row
<1>11. files'[Intervals].content = [i \in 1 .. m.count |-> RowAt(w, test[r].reports, i - 1)]
  <2> DEFINE R(i) == RowAt(w, test[r].reports, i - 1)
  <2>1. R(s.count + 1) = row
    <3>1. (s.count + 1) - 1 = s.count
      BY <1>5
    <3>2. QED
      BY <3>1 DEF row, s, w
  <2> HIDE DEF R
  <2>2. files[Intervals].content = [i \in 1 .. s.count |-> R(i)]
    BY <1>10 DEF R
  <2>3. Append(files[Intervals].content, row) = [i \in 1 .. s.count + 1 |-> R(i)]
    BY <1>5, <2>1, <2>2
  <2>4. QED
    BY <1>4, <1>10, <2>3 DEF R
<1>12. RowsWritten(r)'
  BY <1>3, <1>9, <1>11 DEF RowsWritten, w
<1>13. /\ results \o n.results \in Seq(Outcomes)
       /\ Len(results \o n.results) = Len(results) + Len(n.results)
       /\ Len(results) \in Nat /\ Len(n.results) \in Nat
  BY <1>2, <1>6
<1>14. /\ Counts(m.warmup, results \o n.results, 1, m.warmup.transactions)
       /\ Counts(m.load, results \o n.results, m.warmup.transactions + 1, Len(results \o n.results))
  <2>1. CASE s.count < w.duration + w.pause
    <3>1. s.load = NoDrops
      BY <2>1 DEF Summarized, s, w
    <3>2. Len(results) = s.warmup.transactions
      BY <1>5, <1>6, <1>13, <3>1 DEF Counts, NoDrops
    <3>3. Counts(s.warmup, results, 1, Len(results)) /\ 1 \in 1 .. Len(results) + 1
      BY <1>6, <1>13, <3>2
    <3>4. Counts(m.warmup, results \o n.results, 1, Len(results \o n.results))
      BY <1>2, <1>4, <1>5, <1>6, <2>1, <3>3, CountsAppended
    <3>5. m.warmup.transactions = Len(results \o n.results)
      BY <1>13, <3>4 DEF Counts
    <3>6. m.load = NoDrops
      BY <1>4, <2>1, <3>1
    <3>7. Len(results \o n.results) \in Nat
      BY <1>13
    <3>8. Counts(m.load, results \o n.results, Len(results \o n.results) + 1, Len(results \o n.results))
      BY <3>6, <3>7, CountsNothing
    <3>9. QED
      BY <3>4, <3>5, <3>8
  <2>2. CASE s.count >= w.duration + w.pause
    <3>1. s.load.transactions \in Nat
      BY <1>5 DEF Drops
    <3>2. s.warmup.transactions \in 0 .. Len(results)
      BY <1>5, <1>6, <1>13, <3>1 DEF Counts
    <3>3. s.warmup.transactions + 1 \in 1 .. Len(results) + 1
      BY <1>13, <3>2
    <3>4. Counts(s.warmup, results \o n.results, 1, s.warmup.transactions)
      BY <1>2, <1>5, <1>6, <3>2, CountsKept
    <3>5. Counts(m.load, results \o n.results, s.warmup.transactions + 1, Len(results \o n.results))
      BY <1>2, <1>4, <1>5, <1>6, <2>2, <3>3, CountsAppended
    <3>6. QED
      BY <1>4, <2>2, <3>4, <3>5
  <2>3. QED
    BY <1>5, <2>1, <2>2
<1>15. ResultsWritten(r)'
  BY <1>3, <1>8, <1>13, <1>14 DEF ResultsWritten
<1>16. QED
  BY <1>12, <1>15

(* A run that is alone in the directory brings its files where it is.      *)
Whole(r) == InputsCopied(r) /\ RowsWritten(r) /\ ResultsWritten(r) /\ MetadataWritten(r)

LEMMA WholeStep ==
  ASSUME Typed, NEW r \in Runs, Run(r), Progress(r), Progress(r)', Summarized(r), Whole(r),
         pc[r] \notin Before, pc'[r] # "failed"
  PROVE  Whole(r)'
<1>t. /\ IsAFunction(files, Names) /\ DOMAIN pc = Runs /\ DOMAIN copied = Runs
      /\ copied[r] \in Nat /\ Len(inputs[r]) \in Nat /\ copied[r] <= Len(Inputs)
      /\ {Intervals, Transactions, Metadata} \subseteq Names
      /\ Intervals # Transactions /\ Intervals # Metadata /\ Transactions # Metadata
  <2>1. /\ IsAFunction(files, Names) /\ DOMAIN pc = Runs /\ DOMAIN copied = Runs
        /\ copied[r] \in Nat /\ inputs[r] \in Seq(Seq(Nat))
    BY DEF Typed
  <2>2. QED
    BY <2>1, NamesFacts DEF Progress
<1>1. CASE TruncateInput(r)
  <2> DEFINE name == Inputs[copied[r] + 1]
  <2>1. copied[r] + 1 \in DOMAIN Inputs /\ \A i \in 1 .. copied[r] : i \in DOMAIN Inputs
    BY <1>1, <1>t, NamesFacts DEF TruncateInput
  <2>2. name \in Names /\ \A i \in 1 .. copied[r] : Inputs[i] \in Names \ {name}
    BY <1>t, <2>1, NamesFacts
  <2>3. Truncates(r, name)
    BY <1>1 DEF TruncateInput
  <2>4. /\ pc'[r] = "writing" /\ copied'[r] = copied[r] /\ inputs'[r] = inputs[r]
    BY <1>1, <1>t DEF TruncateInput, Goto
  <2> HIDE DEF name
  <2>5. /\ files'[name].by = {r}
        /\ \A i \in 1 .. copied[r] : files'[Inputs[i]] = files[Inputs[i]]
    <3>1. /\ files'[name] = [by |-> {r}, content |-> <<>>]
          /\ \A n \in Names \ {name} : files'[n] = files[n]
      BY <1>t, <2>2, <2>3, TruncatesFile
    <3>2. QED
      BY <2>2, <3>1
  <2>6. InputsCopied(r)'
    BY <2>4, <2>5 DEF Whole, InputsCopied, Sole, name
  <2>7. QED
    BY <2>4, <2>6 DEF Whole, RowsWritten, ResultsWritten, MetadataWritten
<1>2. CASE WriteInput(r)
  <2> DEFINE name == Inputs[copied[r] + 1]
  <2>1. copied[r] + 1 \in DOMAIN Inputs /\ \A i \in 1 .. copied[r] : i \in DOMAIN Inputs
    BY <1>2, <1>t, NamesFacts DEF WriteInput, Progress
  <2>2. name \in Names /\ \A i \in 1 .. copied[r] : Inputs[i] \in Names \ {name}
    BY <1>t, <2>1, NamesFacts
  <2>3. Writes(r, name, inputs[r][copied[r] + 1])
    BY <1>2 DEF WriteInput
  <2>4. pc'[r] = "copying" /\ copied'[r] = copied[r] + 1 /\ inputs'[r] = inputs[r]
    BY <1>2, <1>t DEF WriteInput, Goto
  <2>5. files[name].by = {r}
    BY <1>2 DEF Whole, InputsCopied, Sole, WriteInput
  <2> HIDE DEF name
  <2>6. /\ files'[name].by = {r} /\ files'[name].content = inputs[r][copied[r] + 1]
        /\ \A i \in 1 .. copied[r] : files'[Inputs[i]] = files[Inputs[i]]
    BY <1>t, <2>2, <2>3, <2>5, WritesFile
  <2>7. 1 .. copied'[r] = (1 .. copied[r]) \cup {copied[r] + 1}
    BY <1>t, <2>4
  <2>8. InputsCopied(r)'
    BY <2>4, <2>6, <2>7 DEF Whole, InputsCopied, Sole, name
  <2>9. QED
    BY <2>4, <2>8 DEF Whole, RowsWritten, ResultsWritten, MetadataWritten
<1>3. CASE StartTest(r)
  <2>1. /\ pc'[r] = "opening" /\ copied'[r] = copied[r] /\ inputs'[r] = inputs[r] /\ files' = files
    BY <1>3, <1>t DEF StartTest, Goto
  <2>2. QED
    BY <2>1 DEF Whole, InputsCopied, Sole, RowsWritten, ResultsWritten, MetadataWritten
<1>4. CASE OpenIntervals(r)
  <2>1. /\ pc'[r] = "creating" /\ copied'[r] = copied[r] /\ inputs'[r] = inputs[r]
        /\ summary'[r] = summary[r] /\ test'[r] = test[r]
    BY <1>4, <1>t DEF OpenIntervals, Goto
  <2>2. /\ files'[Intervals] = [by |-> {r}, content |-> <<>>]
        /\ \A n \in Names \ {Intervals} : files'[n] = files[n]
    BY <1>4, <1>t, TruncatesFile DEF OpenIntervals
  <2>3. InputsCopied(r)'
    BY <1>t, <2>1, <2>2, InputsUntouched DEF Whole
  <2>4. summary'[r].count = 0
    BY <2>1 DEF Progress, NewSummary
  <2>5. files'[Intervals].content =
          [i \in 1 .. summary'[r].count |-> RowAt(test'[r].warmup, test'[r].reports, i - 1)]
    BY <2>2, <2>4
  <2>6. QED
    BY <2>1, <2>2, <2>3, <2>5 DEF Whole, RowsWritten, ResultsWritten, MetadataWritten, Sole
<1>5. CASE OpenTransactions(r)
  <2>1. /\ pc[r] = "creating" /\ pc'[r] = "collecting" /\ copied'[r] = copied[r]
        /\ inputs'[r] = inputs[r] /\ summary'[r] = summary[r] /\ test'[r] = test[r]
    BY <1>5, <1>t DEF OpenTransactions, Goto
  <2>2. /\ files'[Transactions] = [by |-> {r}, content |-> <<>>]
        /\ \A n \in Names \ {Transactions} : files'[n] = files[n]
    BY <1>5, <1>t, TruncatesFile DEF OpenTransactions
  <2>3. InputsCopied(r)'
    BY <1>t, <2>1, <2>2, InputsUntouched DEF Whole
  <2>4. RowsWritten(r)'
    BY <1>t, <2>1, <2>2 DEF Whole, RowsWritten, Sole
  <2>5. summary[r] = NewSummary
    BY <2>1 DEF Progress
  <2>6. /\ summary'[r].warmup = NoDrops /\ summary'[r].load = NoDrops
        /\ NoDrops.transactions = 0 /\ Len(<<>>) = 0 /\ <<>> \in Seq(Outcomes)
    BY <2>1, <2>5 DEF NewSummary, NoDrops
  <2>7. Counts(NoDrops, <<>>, 0 + 1, 0)
    BY CountsNothing
  <2>8. ResultsWritten(r)'
    BY <2>2, <2>6, <2>7 DEF ResultsWritten, Sole
  <2>9. QED
    BY <2>1, <2>3, <2>4, <2>8 DEF Whole, MetadataWritten
<1>6. CASE PersistReport(r)
  <2>1. /\ pc'[r] = "collecting" /\ copied'[r] = copied[r] /\ inputs'[r] = inputs[r]
    BY <1>6, <1>t DEF PersistReport
  <2>2. \A name \in Names \ {Intervals, Transactions, Metadata} : files'[name] = files[name]
    BY <1>6, <1>t, PersistsFiles DEF Results
  <2>3. InputsCopied(r)'
    BY <1>t, <2>1, <2>2, InputsUntouched DEF Whole
  <2>4. QED
    BY <1>6, <2>1, <2>3, PersistKeepsTheRecord DEF Whole, MetadataWritten
<1>7. CASE TruncateMetadata(r)
  <2>1. /\ pc[r] = "collecting" /\ pc'[r] = "recording" /\ copied'[r] = copied[r]
        /\ inputs'[r] = inputs[r] /\ summary'[r] = summary[r] /\ test'[r] = test[r]
    BY <1>7, <1>t DEF TruncateMetadata, Goto
  <2>2. /\ files'[Metadata] = [by |-> {r}, content |-> <<>>]
        /\ \A n \in Names \ {Metadata} : files'[n] = files[n]
    BY <1>7, <1>t, TruncatesFile DEF TruncateMetadata
  <2>3. InputsCopied(r)'
    BY <1>t, <2>1, <2>2, InputsUntouched DEF Whole
  <2>4. RowsWritten(r)' /\ ResultsWritten(r)'
    BY <1>t, <2>1, <2>2 DEF Whole, RowsWritten, ResultsWritten, Sole
  <2>5. QED
    BY <2>1, <2>2, <2>3, <2>4 DEF Whole, MetadataWritten, Sole
<1>8. CASE WriteMetadata(r)
  <2>1. /\ pc[r] = "recording" /\ pc'[r] = "finished" /\ copied'[r] = copied[r]
        /\ inputs'[r] = inputs[r] /\ summary'[r] = summary[r] /\ test'[r] = test[r]
    BY <1>8, <1>t DEF WriteMetadata, Goto
  <2>2. /\ Writes(r, Metadata, <<RunMetadata(r)>>) /\ files[Metadata].by = {r}
    BY <1>8, <2>1 DEF WriteMetadata, Whole, MetadataWritten, Sole
  <2>3. /\ files'[Metadata].by = {r} /\ files'[Metadata].content = <<RunMetadata(r)>>
        /\ \A n \in Names \ {Metadata} : files'[n] = files[n]
    BY <1>t, <2>2, WritesFile
  <2>4. InputsCopied(r)'
    BY <1>t, <2>1, <2>3, InputsUntouched DEF Whole
  <2>5. RowsWritten(r)' /\ ResultsWritten(r)'
    BY <1>t, <2>1, <2>3 DEF Whole, RowsWritten, ResultsWritten, Sole
  <2>6. RunMetadata(r)' = RunMetadata(r)
    BY <2>1 DEF RunMetadata
  <2>7. QED
    BY <2>1, <2>3, <2>4, <2>5, <2>6 DEF Whole, MetadataWritten, Sole
<1>9. CASE Fails(r)
  BY <1>9, <1>t DEF Fails, Goto
<1>10. QED
  BY <1>1, <1>2, <1>3, <1>4, <1>5, <1>6, <1>7, <1>8, <1>9 DEF Run, StartRun, ReadInput,
     ParseInputs, CheckExists, CreateDir, ListDir, Before

LEMMA SoloStep ==
  ASSUME Typed, NEW r \in Runs, Run(r), \A o \in Runs : Progress(o) /\ Progress(o)' /\ Summarized(o),
         NEW o \in Runs, SoloInv(o)
  PROVE  SoloInv(o)'
<1> SUFFICES ASSUME Solo(o)'
             PROVE  /\ pc'[o] \notin Before
                    /\ \A e \in Runs \ {o} : ~Writing(e)'
                    /\ pc'[o] # "failed" => Whole(o)'
  BY DEF SoloInv, Whole
<1>d. DOMAIN pc = Runs
  BY DEF Typed
<1>1. CASE o # r
  <2>1. Solo(o) /\ pc'[o] = pc[o]
    BY <1>1, RunFrame DEF Solo
  <2>2. /\ pc[o] \notin Before /\ \A e \in Runs \ {o} : ~Writing(e)
        /\ pc[o] # "failed" => Whole(o)
    BY <2>1 DEF SoloInv, Whole
  <2>3. ~Writing(r)
    BY <1>1, <2>2
  <2>4. files' = files
    BY <2>3, FilesStep
  <2>5. ~Passing(r)
    BY <1>1 DEF Passing, Passes, Solo
  <2>6. ~Writing(r)'
    BY <2>3, <2>5, RunMoves
  <2>7. \A e \in Runs \ {r} : Writing(e)' = Writing(e)
    BY RunFrame DEF Writing
  <2>8. /\ copied'[o] = copied[o] /\ inputs'[o] = inputs[o]
        /\ test'[o] = test[o] /\ summary'[o] = summary[o]
    BY <1>1, RunFrame
  <2>9. Whole(o) => Whole(o)'
    BY <2>1, <2>4, <2>8 DEF Whole, InputsCopied, RowsWritten, ResultsWritten, MetadataWritten,
       Sole, RunMetadata
  <2>10. QED
    BY <2>1, <2>2, <2>6, <2>7, <2>9
<1>2. CASE o = r /\ Passing(r)
  <2>1. pc'[r] = "copying" /\ alone'[r] = ({e \in Runs \ {r} : Writing(e)} = {})
    BY <1>2, <1>d DEF Passing, Passes, Goto
  <2>2. \A e \in Runs \ {r} : Writing(e)' = Writing(e)
    BY RunFrame DEF Writing
  <2>3. copied'[r] = 0
    <3>1. pc[r] \in Before /\ copied' = copied
      BY <1>2 DEF Passing, CheckExists, CreateDir, ListDir, Before
    <3>2. QED
      BY <3>1 DEF Progress
  <2>4. InputsCopied(r)'
    BY <2>1, <2>3 DEF InputsCopied
  <2>5. Whole(r)'
    BY <2>1, <2>4 DEF Whole, RowsWritten, ResultsWritten, MetadataWritten
  <2>6. QED
    BY <1>2, <2>1, <2>2, <2>5 DEF Solo, Before
<1>3. CASE o = r /\ ~Passing(r)
  <2>1. Solo(r)
    BY <1>3, RunMoves DEF Solo
  <2>2. /\ pc[r] \notin Before /\ \A e \in Runs \ {r} : ~Writing(e)
        /\ pc[r] # "failed" => Whole(r)
    BY <1>3, <2>1 DEF SoloInv, Whole
  <2>3. \A e \in Runs \ {r} : Writing(e)' = Writing(e)
    BY RunFrame DEF Writing
  <2>4. pc'[r] \notin Before
    BY <2>2, RunMoves
  <2>5. pc[r] # "failed"
    BY RunFrame DEF Ended
  <2>6. pc'[r] # "failed" => Whole(r)'
    BY <2>2, <2>5, WholeStep
  <2>7. QED
    BY <1>3, <2>2, <2>3, <2>4, <2>6
<1>4. QED
  BY <1>1, <1>2, <1>3

-----------------------------------------------------------------------------
LEMMA RunTypes ==
  ASSUME Typed, NEW r \in Runs
  PROVE  /\ test[r].reports \in Seq(Reports) /\ Len(test[r].reports) \in Nat
         /\ summary[r].count \in Nat /\ summary[r].load \in Drops /\ summary[r].warmup \in Drops
<1>1. test[r] \in Tests /\ summary[r] \in Summaries
  BY DEF Typed
<1>2. test[r].reports \in Seq(Reports)
  BY <1>1, OutputAssumption
<1>3. QED
  BY <1>1, <1>2 DEF Summaries

(* An edit of the user's files is nothing to a run that has read its own.  *)
LEMMA RunUnchanged ==
  ASSUME NEW r \in Runs,
         UNCHANGED <<directory, files, pc, overwrite, inputs, copied, test, summary,
                     older, alone, latest>>,
         Progress(r), Summarized(r), SoloInv(r), KeptInv(r)
  PROVE  (Progress(r) /\ Summarized(r) /\ SoloInv(r) /\ KeptInv(r))'
<1>1. Progress(r)'
  BY DEF Progress, Writing
<1>2. Summarized(r)'
  BY DEF Summarized, IsValid, Total
<1>3. KeptInv(r)'
  BY DEF KeptInv, Ended, Writing
<1>4. SoloInv(r)'
  <2>1. Whole(r) => Whole(r)'
    BY DEF Whole, InputsCopied, RowsWritten, ResultsWritten, MetadataWritten, RunMetadata, Sole
  <2>2. QED
    BY <2>1 DEF SoloInv, Solo, Whole, Writing
<1>5. QED
  BY <1>1, <1>2, <1>3, <1>4

LEMMA InitRecord == Init => RecordIInv
<1> SUFFICES ASSUME Init
             PROVE  RecordIInv
  OBVIOUS
<1>1. Typed
  BY InitTyped
<1>2. \A name \in Names : files[name].by \subseteq {User}
  <2>1. ASSUME NEW name \in Names
        PROVE  files[name].by \subseteq {User}
    <3>1. files[name] \in Placed
      BY DEF Init
    <3>2. QED
      BY <3>1 DEF Placed, Absent
  <2>2. QED
    BY <2>1
<1>3. \A r \in Runs : r # User
  BY OutputAssumption
<1>4. RecordedRunsFinished
  BY <1>2, <1>3, NamesFacts DEF RecordedRunsFinished, Sole
<1>5. ASSUME NEW r \in Runs
      PROVE  Progress(r) /\ Summarized(r) /\ SoloInv(r) /\ KeptInv(r)
  <2>1. /\ pc[r] = "idle" /\ inputs[r] = <<>> /\ Len(inputs[r]) = 0 /\ copied[r] = 0
        /\ summary[r] = NewSummary /\ older[r] = {} /\ alone[r] = FALSE
    BY DEF Init
  <2>2. test[r].reports \in Seq(Reports) /\ Len(test[r].reports) \in Nat
    BY <1>1, RunTypes
  <2>3. /\ summary[r].count = 0 /\ 1 .. summary[r].count = {}
        /\ summary[r].load = NoDrops /\ IsValid(summary[r])
    BY <2>1 DEF NewSummary, IsValid, Total, NoDrops
  <2>4. Progress(r)
    BY <2>1, <2>2, <2>3, NamesFacts DEF Progress, Before, Writing
  <2>5. Summarized(r)
    BY <2>3 DEF Summarized
  <2>6. SoloInv(r)
    BY <2>1 DEF SoloInv, Solo
  <2>7. KeptInv(r)
    BY <1>2, <1>3, <2>1 DEF KeptInv
  <2>8. QED
    BY <2>4, <2>5, <2>6, <2>7
<1>6. QED
  BY <1>1, <1>4, <1>5 DEF RecordIInv, Init

LEMMA NextRecord == RecordIInv /\ [Next]_vars => RecordIInv'
<1> SUFFICES ASSUME RecordIInv, [Next]_vars
             PROVE  RecordIInv'
  OBVIOUS
<1>1. ASSUME NEW r \in Runs, Run(r)
      PROVE  RecordIInv'
  <2>1. Typed /\ \A o \in Runs : Progress(o) /\ Summarized(o) /\ SoloInv(o) /\ KeptInv(o)
    BY DEF RecordIInv
  <2>2. Typed'
    BY <1>1, <2>1, RunTyped
  <2>3. \A o \in Runs : Progress(o)'
    BY <1>1, <2>1, OthersProgress, RunProgress
  <2>4. \A o \in Runs : Summarized(o)'
    BY <1>1, <2>1, SummarizedStep
  <2>5. \A o \in Runs : SoloInv(o)'
    BY <1>1, <2>1, <2>3, SoloStep
  <2>6. \A o \in Runs : KeptInv(o)'
    BY <1>1, <2>1, KeptStep DEF RecordIInv
  <2>7. RecordedRunsFinished'
    BY <1>1, <2>1, RecordedStep DEF RecordIInv
  <2>8. directory' # "there" => \A name \in Names : ~Exists(name)'
    <3>1. CASE Writing(r)
      BY <1>1, <2>1, <3>1, RunFrame DEF Progress
    <3>2. CASE ~Writing(r)
      <4>1. files' = files
        BY <1>1, <2>1, <3>2, FilesStep
      <4>2. directory' # "there" => directory # "there"
        BY <1>1, <2>1, RunFrame
      <4>3. QED
        BY <4>1, <4>2 DEF RecordIInv, Exists
    <3>3. QED
      BY <3>1, <3>2
  <2>9. QED
    BY <2>2, <2>3, <2>4, <2>5, <2>6, <2>7, <2>8 DEF RecordIInv
<1>2. CASE EditInput
  <2>1. source' \in [{Inputs[i] : i \in DOMAIN Inputs} -> Seq(Nat)]
        /\ \A name \in DOMAIN source' : Len(source'[name]) = 1
    <3>1. PICK name \in DOMAIN source : source' = [source EXCEPT ![name] = <<@[1] + 1>>]
      BY <1>2 DEF EditInput
    <3>2. source[name] \in Seq(Nat) /\ Len(source[name]) = 1
      BY DEF RecordIInv, Typed
    <3>3. source[name][1] + 1 \in Nat
      BY <3>2
    <3>4. <<source[name][1] + 1>> \in Seq(Nat) /\ Len(<<source[name][1] + 1>>) = 1
      BY <3>3
    <3>5. source \in [{Inputs[i] : i \in DOMAIN Inputs} -> Seq(Nat)]
          /\ \A n \in DOMAIN source : Len(source[n]) = 1
      BY DEF RecordIInv, Typed
    <3>6. QED
      BY <3>1, <3>4, <3>5
  <2>2. UNCHANGED <<directory, files, pc, overwrite, origin, inputs, copied, test, summary,
                    older, alone, latest>>
    BY <1>2 DEF EditInput, runVars, history
  <2>3. Typed'
    BY <2>1, <2>2 DEF RecordIInv, Typed
  <2>4. ASSUME NEW r \in Runs
        PROVE  (Progress(r) /\ Summarized(r) /\ SoloInv(r) /\ KeptInv(r))'
    BY <2>2, RunUnchanged DEF RecordIInv
  <2>5. RecordedRunsFinished'
    BY <2>2 DEF RecordIInv, RecordedRunsFinished, Sole
  <2>6. QED
    BY <2>2, <2>3, <2>4, <2>5 DEF RecordIInv, Exists
<1>3. CASE UNCHANGED vars
  <2> USE <1>3 DEF vars, runVars, history
  <2>1. Typed' /\ RecordedRunsFinished'
    BY DEF RecordIInv, Typed, RecordedRunsFinished, Sole
  <2>2. ASSUME NEW r \in Runs
        PROVE  (Progress(r) /\ Summarized(r) /\ SoloInv(r) /\ KeptInv(r))'
    BY RunUnchanged DEF RecordIInv
  <2>3. QED
    BY <2>1, <2>2 DEF RecordIInv, Exists
<1>4. QED
  BY <1>1, <1>2, <1>3 DEF Next

-----------------------------------------------------------------------------
(* From the summary and the rows to what run.json says.                    *)
LEMMA FinishedRecord ==
  ASSUME RecordIInv, NEW r \in Runs, OfOneRun(r)
  PROVE  FilesAreOfTheRun(r) /\ SummaryIsInTheFiles(r)
<1> DEFINE s == summary[r]
           results == files[Transactions].content
           rows == files[Intervals].content
           split == s.warmup.transactions
           reports == test[r].reports
           load(i) == Classify(test[r].warmup, i - 1) = "load"
<1>1. /\ pc[r] = "finished" /\ Typed /\ Progress(r) /\ Summarized(r)
      /\ InputsCopied(r) /\ RowsWritten(r) /\ ResultsWritten(r) /\ MetadataWritten(r)
  BY DEF RecordIInv, OfOneRun, SoloInv, Solo
<1>2. /\ Sole(r, Intervals) /\ Sole(r, Transactions) /\ Sole(r, Metadata)
      /\ files[Metadata].content = <<RunMetadata(r)>>
      /\ rows = [i \in 1 .. s.count |-> RowAt(test[r].warmup, reports, i - 1)]
      /\ results \in Seq(Outcomes)
      /\ Counts(s.warmup, results, 1, split)
      /\ Counts(s.load, results, split + 1, Len(results))
  BY <1>1 DEF RowsWritten, ResultsWritten, MetadataWritten
<1>3. /\ s.count \in Nat /\ s.load \in Drops /\ s.warmup \in Drops /\ split \in Nat
      /\ reports \in Seq(Reports) /\ s.count = Len(reports) /\ DOMAIN reports = 1 .. s.count
  <2>1. summary[r].count = Len(test[r].reports)
    BY <1>1 DEF Progress
  <2>2. QED
    BY <1>1, <2>1, RunTypes DEF Drops
<1>4. FilesAreOfTheRun(r)
  <2>1. copied[r] = Len(Inputs)
    BY <1>1 DEF Progress
  <2>2. \A i \in DOMAIN Inputs : Sole(r, Inputs[i]) /\ files[Inputs[i]].content = inputs[r][i]
    BY <1>1, <2>1, NamesFacts DEF InputsCopied
  <2>3. \A name \in Names : Sole(r, name)
    BY <1>2, <2>2, NamesFacts
  <2>4. QED
    BY <1>2, <1>3, <2>2, <2>3 DEF FilesAreOfTheRun
<1>5. /\ s.load.no_virtual_user \in Nat /\ s.load.late \in Nat /\ s.load.error \in Nat
      /\ s.warmup.no_virtual_user \in Nat /\ s.warmup.late \in Nat /\ s.warmup.error \in Nat
      /\ s.load.transactions \in Nat /\ Len(results) \in Nat
  BY <1>2, <1>3 DEF Drops
<1>6. split <= Len(results)
  <2>1. s.load.transactions = Len(results) - (split + 1) + 1
    BY <1>2 DEF Counts
  <2> HIDE DEF s, results, split
  <2>2. QED
    BY <1>3, <1>5, <2>1
<1>m. /\ files[Metadata].content[1] = RunMetadata(r)
      /\ RunMetadata(r).valid = IsValid(s) /\ RunMetadata(r).drops = DropReport(s)
  BY <1>2 DEF RunMetadata
<1> HIDE DEF s, results, rows, split, reports, load
<1>7. Total(s.load) = 0 <=> \A i \in split + 1 .. Len(results) : results[i] \notin Reasons
  <2>1. Total(s.load) = 0 <=> \A reason \in Reasons : s.load[reason] = 0
    BY <1>5 DEF Total, Reasons
  <2>2. \A reason \in Reasons : s.load[reason] = CountIn(results, split + 1, Len(results), reason)
    BY <1>2 DEF Counts
  <2>3. split + 1 \in Int /\ Len(results) \in Int
    BY <1>3, <1>5
  <2>4. \A reason \in Reasons : CountIn(results, split + 1, Len(results), reason) = 0 <=>
                                 \A i \in split + 1 .. Len(results) : results[i] # reason
    BY <2>3, CountInFinite, Zenon
  <2>5. QED
    BY <2>1, <2>2, <2>4
<1>8. Total(s.warmup) = 0 <=> \A i \in 1 .. split : results[i] \notin Reasons
  <2>1. Total(s.warmup) = 0 <=> \A reason \in Reasons : s.warmup[reason] = 0
    BY <1>5 DEF Total, Reasons
  <2>2. \A reason \in Reasons : s.warmup[reason] = CountIn(results, 1, split, reason)
    BY <1>2 DEF Counts
  <2>3. 1 \in Int /\ split \in Int
    BY <1>3
  <2>4. \A reason \in Reasons : CountIn(results, 1, split, reason) = 0 <=>
                                 \A i \in 1 .. split : results[i] # reason
    BY <2>3, CountInFinite, Zenon
  <2>5. QED
    BY <2>1, <2>2, <2>4
<1>9. Total(s.load) \in Nat /\ Total(s.warmup) \in Nat
  <2>1. \A a, b, c \in Nat : a + b + c \in Nat
    OBVIOUS
  <2>2. QED
    BY <1>5, <2>1 DEF Total
<1>10. DropReport(s) = <<>> <=> \A i \in DOMAIN results : results[i] \notin Reasons
  <2>1. DOMAIN results = (1 .. split) \cup (split + 1 .. Len(results))
    <3>1. DOMAIN results = 1 .. Len(results)
      BY <1>2
    <3>2. QED
      BY <1>3, <1>5, <1>6, <3>1
  <2>2. DropReport(s) = <<>> <=> Total(s.load) = 0 /\ Total(s.warmup) = 0
    BY <1>9 DEF DropReport
  <2>3. QED
    BY <1>7, <1>8, <2>1, <2>2
<1>11. DropReport(s) = <<>> => IsValid(s)
  BY <1>9 DEF DropReport, IsValid
<1>12. DropReport(s) # <<>> => DropReport(s)[1] = [load |-> s.load, warmup |-> s.warmup]
  BY DEF DropReport
<1>13. (\A i \in DOMAIN reports : Consistent(reports[i])) =>
         (IsValid(s) <=> \A i \in DOMAIN rows :
                           rows[i].phase = "load" => rows[i].dropped_transactions = 0)
  <2>1. DOMAIN rows = 1 .. s.count
    BY <1>2
  <2>2. ASSUME NEW i \in 1 .. s.count
        PROVE  /\ rows[i].phase = Classify(test[r].warmup, i - 1)
               /\ rows[i].dropped_transactions = reports[i].stats.dropped_transactions
    <3>1. rows[i] = RowAt(test[r].warmup, reports, i - 1) /\ (i - 1) + 1 = i
      BY <1>2, <1>3
    <3>2. QED
      BY <3>1 DEF RowAt, IntervalRow
  <2>3. QED
    BY <1>1, <2>1, <2>2 DEF Summarized, s, reports
<1>14. SummaryIsInTheFiles(r)
  <2> DEFINE drops == DropReport(s)
  <2>1. drops # <<>> =>
          /\ Counts(drops[1].warmup, results, 1, drops[1].warmup.transactions)
          /\ Counts(drops[1].load, results, drops[1].warmup.transactions + 1, Len(results))
          /\ IsValid(s) <=> \A i \in drops[1].warmup.transactions + 1 .. Len(results) :
                               results[i] \notin Reasons
    BY <1>2, <1>7, <1>12 DEF IsValid, split
  <2>2. QED
    BY <1>10, <1>11, <1>13, <1>m, <2>1 DEF SummaryIsInTheFiles, rows, results, reports
<1>15. QED
  BY <1>4, <1>14

LEMMA RecordHolds == RecordIInv => RecordInv
<1> SUFFICES ASSUME RecordIInv
             PROVE  RecordInv
  OBVIOUS
<1>1. OutputTypeOK
  BY DEF RecordIInv, Typed, Progress, OutputTypeOK
<1>2. QED
  BY <1>1, FinishedRecord DEF RecordInv, RecordIInv

(* run.json vouches for the directory: one that is whole is of a run that  *)
(* finished, and unless another run was let in since or beside it, all     *)
(* files are of that run, and agree with what run.json says.               *)
THEOREM RecordIsTrue == Spec => []RecordInv
<1>1. QED
  BY InitRecord, NextRecord, RecordHolds, PTL DEF Spec

(* Without --overwrite-outputs nothing of the user or of an earlier run is *)
(* ever touched, however the runs interleave.                              *)
THEOREM OldFilesAreSafe == Spec => OldResultsKept
<1>1. ASSUME RecordIInv, [Next]_vars
      PROVE  [\A name \in Names : files'[name] # files[name] =>
                \A r \in files'[name].by \cap Runs :
                  ~overwrite[r] => files[name].by \cap older[r] = {}]_vars
  <2> SUFFICES ASSUME NEW name \in Names, files'[name] # files[name],
                      NEW r \in Runs, r \in files'[name].by, ~overwrite[r]
               PROVE  files[name].by \cap older[r] = {}
    OBVIOUS
  <2>1. PICK w \in Runs : Run(w)
    BY <1>1 DEF Next, EditInput, vars
  <2>2. Writing(w) /\ files'[name].by \subseteq files[name].by \cup {w}
    BY <1>1, <2>1, FilesStep DEF RecordIInv
  <2>3. Writing(r) \/ r \in files[name].by
    BY <2>2
  <2>4. QED
    BY <1>1, <2>3 DEF RecordIInv, KeptInv
<1>2. QED
  BY <1>1, InitRecord, NextRecord, PTL DEF Spec, OldResultsKept
=============================================================================
