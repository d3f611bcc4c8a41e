------------------------ MODULE ReportPipelineProofs ------------------------
(***************************************************************************)
(* Theorems about ReportPipeline, for every number of load generators and  *)
(* output files and every length of warmup, pause and load profile.        *)
(***************************************************************************)
EXTENDS ReportPipeline, SequenceTheorems, TLAPS

-----------------------------------------------------------------------------
(* Constants, phases and sequences.                                        *)
LEMMA Constants ==
  /\ N \in Nat \ {0} /\ Files \in Nat \ {0}
  /\ WarmupSteps \in Nat /\ PauseSteps \in Nat /\ LoadSteps \in Nat /\ Measured \in Nat
  /\ MaxDrain \in Nat /\ MaxLate \in Nat /\ MaxInFlight \in Nat
<1>1. /\ N \in Nat \ {0} /\ Files \in Nat \ {0}
      /\ WarmupSteps \in Nat /\ PauseSteps \in Nat /\ LoadSteps \in Nat
      /\ MaxDrain \in Nat /\ MaxLate \in Nat /\ MaxInFlight \in Nat
  BY PipelineAssumption
<1>2. QED
  BY <1>1 DEF Measured

(* The classifier's count and the generators' phases agree.                *)
LEMMA Phases ==
  /\ \A k \in Nat : Classify(k) = PhaseOf(k + 1)
  /\ \A k \in Nat \ {0} : PhaseOf(k) \in {"warmup", "pause", "load"} /\ TimeOf(k) \in Nat
<1>1. ASSUME NEW k \in Nat
      PROVE  Classify(k) = PhaseOf(k + 1)
  BY Constants DEF Classify, PhaseOf
<1>2. ASSUME NEW k \in Nat \ {0}
      PROVE  PhaseOf(k) \in {"warmup", "pause", "load"} /\ TimeOf(k) \in Nat
  <2>1. CASE k <= WarmupSteps
    BY <2>1, Constants DEF PhaseOf, TimeOf
  <2>2. CASE k > WarmupSteps + PauseSteps
    BY <2>2, Constants DEF PhaseOf, TimeOf
  <2>3. CASE k > WarmupSteps /\ k <= WarmupSteps + PauseSteps
    BY <2>3, Constants DEF PhaseOf, TimeOf
  <2>4. QED
    BY <2>1, <2>2, <2>3, Constants
<1>3. QED
  BY <1>1, <1>2

LEMMA Removed ==
  ASSUME NEW S, NEW s \in Seq(S), NEW i \in 1 .. Len(s)
  PROVE  /\ SwapRemove(s, i) \in Seq(S) /\ Len(SwapRemove(s, i)) = Len(s) - 1
         /\ \A j \in 1 .. Len(s) - 1 : j # i => SwapRemove(s, i)[j] = s[j]
         /\ i <= Len(s) - 1 => SwapRemove(s, i)[i] = s[Len(s)]
<1>1. /\ Len(s) \in Nat \ {0} /\ DOMAIN s = 1 .. Len(s)
      /\ \A j \in 1 .. Len(s) : s[j] \in S
  OBVIOUS
<1>2. SwapRemove(s, i) \in [1 .. Len(s) - 1 -> S]
  BY <1>1 DEF SwapRemove
<1>3. Len(s) - 1 \in Nat
  BY <1>1
<1>4. SwapRemove(s, i) \in Seq(S) /\ Len(SwapRemove(s, i)) = Len(s) - 1
  BY <1>2, <1>3, IsASeq, LenProperties
<1>5. QED
  BY <1>1, <1>4 DEF SwapRemove

LEMMA Added ==
  ASSUME NEW S, NEW s \in Seq(S), NEW x \in S
  PROVE  /\ Append(s, x) \in Seq(S) /\ Len(Append(s, x)) = Len(s) + 1
         /\ DOMAIN Append(s, x) = 1 .. Len(s) + 1
         /\ Append(s, x)[Len(s) + 1] = x
         /\ \A i \in 1 .. Len(s) : Append(s, x)[i] = s[i]
OBVIOUS

LEMMA Dropped ==
  ASSUME NEW S, NEW s \in Seq(S), s # <<>>
  PROVE  /\ Len(s) \in Nat \ {0} /\ Head(s) \in S /\ Head(s) = s[1]
         /\ Tail(s) \in Seq(S) /\ Len(Tail(s)) = Len(s) - 1
         /\ DOMAIN Tail(s) = 1 .. Len(s) - 1
         /\ \A i \in 1 .. Len(s) - 1 : Tail(s)[i] = s[i + 1]
OBVIOUS

LEMMA Cut ==
  ASSUME NEW S, NEW s \in Seq(S), NEW n \in 0 .. Len(s)
  PROVE  /\ SubSeq(s, 1, n) \in Seq(S) /\ Len(SubSeq(s, 1, n)) = n
         /\ \A i \in 1 .. n : SubSeq(s, 1, n)[i] = s[i]
OBVIOUS

LEMMA Element ==
  ASSUME NEW S, NEW s \in Seq(S), NEW i \in DOMAIN s
  PROVE  s[i] \in S
OBVIOUS

(* The total of a round of reports.                                        *)
LEMMA SumIsTotal ==
  ASSUME round \in Seq([from : Generators, report : Updates])
  PROVE  Sum(round) \in Totals
<1>1. ASSUME NEW i \in DOMAIN round
      PROVE  /\ round[i].from \in Generators /\ round[i].report.index \in Nat
             /\ round[i].report.dropped \in BOOLEAN
  <2>1. round[i] \in [from : Generators, report : Updates]
    BY Element
  <2>2. round[i].from \in Generators /\ round[i].report \in [index : Nat, time : Nat, dropped : BOOLEAN]
    BY <2>1 DEF Updates
  <2>3. round[i].report.index \in Nat
    BY <2>2
  <2>4. round[i].report.dropped \in BOOLEAN
    BY <2>2, Zenon
  <2>5. QED
    BY <2>2, <2>3, <2>4
<1>2. {[from |-> round[i].from, index |-> round[i].report.index] : i \in DOMAIN round}
        \in SUBSET Members
  BY <1>1 DEF Members
<1>3. (\E i \in DOMAIN round : round[i].report.dropped) \in BOOLEAN
  OBVIOUS
<1>4. QED
  BY <1>2, <1>3 DEF Sum, Totals
-----------------------------------------------------------------------------
(* The generators' steps.                                                  *)
LEMMA GeneratorStepsLeave ==
  ASSUME PipelineInv, UNCHANGED <<runnerVars, channel, error, writerVars>>
  PROVE  /\ RoundOK' /\ ChannelOK' /\ WrittenOK' /\ WriterEndOK' /\ SummaryOK'
         /\ MismatchOnlyInDrain' /\ FilesArePrefixes' /\ ErrorPrecedesReturn'
<1>1. /\ RoundOK' /\ SummaryOK' /\ MismatchOnlyInDrain' /\ ErrorPrecedesReturn'
  BY DEF PipelineInv, runnerVars, loopVars, RoundOK, SummaryOK, MismatchOnlyInDrain,
         ErrorPrecedesReturn, Sum, OnTime
<1>2. /\ ChannelOK' /\ WrittenOK' /\ WriterEndOK' /\ FilesArePrefixes'
  BY DEF PipelineInv, runnerVars, loopVars, writerVars, ChannelOK, WrittenOK, WriterEndOK,
         FilesArePrefixes, RowOf, Looping
<1>3. QED
  BY <1>1, <1>2

LEMMA RoundNumbers ==
  ASSUME PipelineInv
  PROVE  Len(rounds) \in Nat /\ DOMAIN rounds = 1 .. Len(rounds)
<1>1. rounds \in Seq(Totals)
  BY DEF PipelineInv, PipelineTypeOK
<1>2. QED
  BY <1>1

(* A generator that runs has a handle, and its reports go on from there.   *)
LEMMA RunningHasHandle ==
  ASSUME PipelineInv, NEW g \in Generators, Running(g)
  PROVE  /\ Looping /\ ~ended[g] /\ Len(rounds) \in Nat /\ progress[g] \in Nat
         /\ Len(rounds) <= progress[g]
         /\ \E i \in DOMAIN handles :
              /\ handles[i] = g /\ LinkContinues(g, Taken(i)) /\ Taken(i) \in Nat
              /\ \A j \in DOMAIN handles : handles[j] = g => j = i
<1>1. Looping /\ ~ended[g]
  BY DEF Running, Looping
<1>2. Len(rounds) \in Nat /\ progress[g] \in Nat
  BY DEF PipelineInv, PipelineTypeOK
<1>3. PICK i \in DOMAIN handles : handles[i] = g
  BY <1>1 DEF PipelineInv, HandlesOK, Gone
<1>4. LinkContinues(g, Taken(i)) /\ \A j \in DOMAIN handles : handles[j] = g => j = i
  BY <1>1, <1>3 DEF PipelineInv, HandlesOK
<1>5. Taken(i) \in Nat /\ Len(rounds) <= Taken(i)
  BY <1>2 DEF Taken
<1>6. Taken(i) <= progress[g]
  BY <1>4 DEF LinkContinues
<1>7. QED
  BY <1>1, <1>2, <1>3, <1>4, <1>5, <1>6

(* What a step of one generator must show of itself.                       *)
LEMMA OneGeneratorMoves ==
  ASSUME PipelineInv, NEW g \in Generators, Running(g),
         UNCHANGED <<runnerVars, channel, error, writerVars>>,
         PipelineTypeOK',
         \A h \in Generators \ {g} : /\ progress'[h] = progress[h] /\ link'[h] = link[h]
                                     /\ ended'[h] = ended[h],
         progress'[g] >= progress[g],
         \A i \in DOMAIN handles :
           handles[i] = g /\ Taken(i) \in Nat /\ LinkContinues(g, Taken(i)) => LinkContinues(g, Taken(i))'
  PROVE  PipelineInv'
<1>1. PICK i \in DOMAIN handles :
        /\ handles[i] = g /\ LinkContinues(g, Taken(i)) /\ Taken(i) \in Nat
        /\ \A j \in DOMAIN handles : handles[j] = g => j = i
  BY RunningHasHandle
<1>2. Looping /\ ~ended[g] /\ Len(rounds) \in Nat /\ Len(rounds) <= progress[g] /\ progress[g] \in Nat
  BY RunningHasHandle
<1>3. /\ UNCHANGED <<collector, outcome, handles, position, round, rounds, writer, error>>
      /\ Looping'
  BY <1>2 DEF runnerVars, loopVars, writerVars, Looping
<1>4. HandlesOK'
  <2>1. \A j, k \in DOMAIN handles : handles[j] = handles[k] => j = k
    BY <1>2 DEF PipelineInv, HandlesOK
  <2>2. ASSUME NEW j \in DOMAIN handles
        PROVE  LinkContinues(handles[j], Taken(j))'
    <3>1. CASE handles[j] = g
      <4>1. j = i
        BY <1>1, <3>1
      <4>2. LinkContinues(g, Taken(i))'
        BY <1>1
      <4>3. QED
        BY <1>3, <3>1, <4>1, <4>2
    <3>2. CASE handles[j] # g
      <4>1. handles[j] \in Generators
        BY Element DEF PipelineInv, PipelineTypeOK
      <4>2. LinkContinues(handles[j], Taken(j))
        BY <1>2 DEF PipelineInv, HandlesOK
      <4>3. /\ Taken(j)' = Taken(j) /\ handles'[j] = handles[j]
            /\ progress'[handles[j]] = progress[handles[j]]
            /\ link'[handles[j]] = link[handles[j]] /\ ended'[handles[j]] = ended[handles[j]]
        BY <1>3, <3>2, <4>1 DEF Taken
      <4>4. QED
        BY <4>2, <4>3 DEF LinkContinues, OnTime
    <3>3. QED
      BY <3>1, <3>2
  <2>3. ASSUME NEW h \in Generators
        PROVE  Gone(h)' \/ \E j \in DOMAIN handles : handles[j] = h
    BY <1>1, <1>2, <1>3 DEF PipelineInv, HandlesOK, Gone
  <2>4. QED
    BY <1>3, <2>1, <2>2, <2>3 DEF HandlesOK
<1>5. OutcomeOK'
  BY <1>2, <1>3 DEF PipelineInv, OutcomeOK, Looping
<1>6. RoundsComplete'
  <2>1. ASSUME NEW n \in DOMAIN rounds, NEW h \in Generators
        PROVE  progress'[h] >= n <=> progress[h] >= n
    <3>1. CASE h = g
      <4>1. n \in Nat /\ n <= Len(rounds)
        BY <1>2, RoundNumbers
      <4>2. progress'[g] \in Nat
        BY DEF PipelineTypeOK
      <4>3. QED
        BY <1>2, <3>1, <4>1, <4>2
    <3>2. QED
      BY <3>1
  <2>2. \A n \in DOMAIN rounds :
          {h \in Generators : progress'[h] >= n} = {h \in Generators : progress[h] >= n}
    BY <2>1
  <2>3. \A n \in DOMAIN rounds :
          rounds[n].members = {[from |-> h, index |-> n] : h \in {k \in Generators : progress[k] >= n}}
    BY DEF PipelineInv, RoundsComplete
  <2>4. QED
    BY <1>3, <2>2, <2>3 DEF RoundsComplete
<1>7. QED
  BY <1>4, <1>5, <1>6, GeneratorStepsLeave DEF PipelineInv

LEMMA GeneratorTypes ==
  ASSUME PipelineInv, UNCHANGED <<runnerVars, channel, error, writerVars>>,
         progress' \in [Generators -> Nat], last' \in [Generators -> Nat],
         link' \in [Generators -> Seq(Updates)], ended' \in [Generators -> BOOLEAN]
  PROVE  PipelineTypeOK'
BY DEF PipelineInv, PipelineTypeOK, runnerVars, loopVars, writerVars

LEMMA SendReportKeeps ==
  ASSUME PipelineInv, NEW g \in Generators, Running(g),
         NEW time \in Nat, NEW dropped \in BOOLEAN, SendReport(g, time, dropped),
         progress[g] + 1 <= Measured => time = TimeOf(progress[g] + 1)
  PROVE  PipelineInv'
<1> DEFINE update == [index |-> progress[g] + 1, time |-> time, dropped |-> dropped]
           queue  == link[g]
<1>1. /\ ~ended[g] /\ progress[g] \in Nat /\ queue \in Seq(Updates)
      /\ progress \in [Generators -> Nat] /\ last \in [Generators -> Nat]
      /\ link \in [Generators -> Seq(Updates)] /\ ended \in [Generators -> BOOLEAN]
  BY DEF Running, PipelineInv, PipelineTypeOK
<1>2. update \in Updates /\ update # Finished /\ OnTime(update)
  BY <1>1 DEF Updates, Finished, OnTime
<1>3. /\ progress' = [progress EXCEPT ![g] = @ + 1] /\ last' = [last EXCEPT ![g] = time]
      /\ link' = [link EXCEPT ![g] = Append(@, update)] /\ ended' = ended
      /\ UNCHANGED <<runnerVars, channel, error, writerVars>>
  BY DEF SendReport, Transmit
<1> HIDE DEF update
<1>4. /\ Append(queue, update) \in Seq(Updates) /\ Len(queue) \in Nat
      /\ Len(Append(queue, update)) = Len(queue) + 1
      /\ DOMAIN queue = 1 .. Len(queue)
      /\ DOMAIN Append(queue, update) = 1 .. Len(queue) + 1
      /\ Append(queue, update)[Len(queue) + 1] = update
      /\ \A j \in 1 .. Len(queue) : Append(queue, update)[j] = queue[j]
  BY <1>1, <1>2, Added
<1>5. PipelineTypeOK'
  BY <1>1, <1>3, <1>4, GeneratorTypes
<1>6. /\ progress'[g] = progress[g] + 1 /\ link'[g] = Append(queue, update)
      /\ \A h \in Generators \ {g} : progress'[h] = progress[h] /\ link'[h] = link[h]
  BY <1>1, <1>3
<1>7. ASSUME NEW i \in DOMAIN handles,
             handles[i] = g, Taken(i) \in Nat, LinkContinues(g, Taken(i))
      PROVE  LinkContinues(g, Taken(i))'
  <2> DEFINE taken == Taken(i)
  <2>1. Taken(i)' = taken
    BY <1>3 DEF Taken, runnerVars, loopVars
  <2> HIDE DEF taken, queue
  <2>2. taken \in Nat /\ taken <= progress[g] /\ progress[g] = taken + Len(queue)
    BY <1>1, <1>7 DEF LinkContinues, taken, queue
  <2>3. \A j \in 1 .. Len(queue) :
          /\ queue[j] # Finished /\ OnTime(queue[j])
          /\ queue[j].index = taken + j /\ taken + j <= progress[g]
    BY <1>1, <1>4, <1>7 DEF LinkContinues, taken, queue
  <2>4. update.index = taken + (Len(queue) + 1)
    BY <1>1, <1>4, <2>2 DEF update
  <2>5. ASSUME NEW j \in 1 .. Len(queue) + 1
        PROVE  /\ link'[g][j] # Finished /\ OnTime(link'[g][j])
               /\ link'[g][j].index = taken + j /\ taken + j <= progress'[g]
    <3>1. CASE j = Len(queue) + 1
      BY <1>2, <1>4, <1>6, <2>2, <2>4, <3>1
    <3>2. CASE j \in 1 .. Len(queue)
      BY <1>1, <1>4, <1>6, <2>2, <2>3, <3>2
    <3>3. QED
      BY <1>4, <3>1, <3>2
  <2>6. /\ taken <= progress'[g] /\ progress'[g] = taken + Len(link'[g])
        /\ DOMAIN link'[g] = 1 .. Len(queue) + 1
    BY <1>1, <1>4, <1>6, <2>2
  <2>7. QED
    BY <2>1, <2>5, <2>6 DEF LinkContinues, OnTime
<1>8. /\ \A h \in Generators \ {g} : /\ progress'[h] = progress[h] /\ link'[h] = link[h]
                                        /\ ended'[h] = ended[h]
      /\ progress'[g] >= progress[g]
  BY <1>1, <1>3, <1>6
<1>9. \A i \in DOMAIN handles :
        handles[i] = g /\ Taken(i) \in Nat /\ LinkContinues(g, Taken(i)) => LinkContinues(g, Taken(i))'
  BY <1>7
<1>10. QED
  BY <1>1, <1>3, <1>5, <1>8, <1>9, OneGeneratorMoves

LEMMA SendFinishedKeeps ==
  ASSUME PipelineInv, NEW g \in Generators, SendFinished(g)
  PROVE  PipelineInv'
<1> DEFINE queue == link[g]
<1>1. /\ Running(g) /\ ~ended[g] /\ progress[g] \in Nat /\ queue \in Seq(Updates)
      /\ progress \in [Generators -> Nat] /\ last \in [Generators -> Nat]
      /\ link \in [Generators -> Seq(Updates)] /\ ended \in [Generators -> BOOLEAN]
  BY DEF SendFinished, Running, PipelineInv, PipelineTypeOK
<1>2. Finished \in Updates
  BY DEF Updates, Finished
<1>3. /\ progress' = progress /\ last' = last
      /\ link' = [link EXCEPT ![g] = Append(@, Finished)]
      /\ ended' = [ended EXCEPT ![g] = TRUE]
      /\ UNCHANGED <<runnerVars, channel, error, writerVars>>
  BY DEF SendFinished, Transmit
<1>4. /\ Append(queue, Finished) \in Seq(Updates) /\ Len(queue) \in Nat
      /\ Len(Append(queue, Finished)) = Len(queue) + 1
      /\ DOMAIN queue = 1 .. Len(queue)
      /\ DOMAIN Append(queue, Finished) = 1 .. Len(queue) + 1
      /\ Append(queue, Finished)[Len(queue) + 1] = Finished
      /\ \A j \in 1 .. Len(queue) : Append(queue, Finished)[j] = queue[j]
  BY <1>1, <1>2, Added
<1>5. PipelineTypeOK'
  BY <1>1, <1>3, <1>4, GeneratorTypes
<1>6. /\ link'[g] = Append(queue, Finished) /\ ended'[g]
      /\ \A h \in Generators \ {g} : ended'[h] = ended[h] /\ link'[h] = link[h]
  BY <1>1, <1>3
<1>7. ASSUME NEW i \in DOMAIN handles,
             handles[i] = g, Taken(i) \in Nat, LinkContinues(g, Taken(i))
      PROVE  LinkContinues(g, Taken(i))'
  <2> DEFINE taken == Taken(i)
  <2>1. Taken(i)' = taken
    BY <1>3 DEF Taken, runnerVars, loopVars
  <2> HIDE DEF taken, queue
  <2>2. taken \in Nat /\ taken <= progress[g] /\ progress[g] = taken + Len(queue)
    BY <1>1, <1>7 DEF LinkContinues, taken, queue
  <2>3. \A j \in 1 .. Len(queue) :
          /\ queue[j] # Finished /\ OnTime(queue[j])
          /\ queue[j].index = taken + j /\ taken + j <= progress[g]
    BY <1>1, <1>4, <1>7 DEF LinkContinues, taken, queue
  <2>4. DOMAIN link'[g] = 1 .. Len(queue) + 1 /\ Len(link'[g]) = Len(queue) + 1
    BY <1>4, <1>6
  <2>5. link'[g][Len(queue) + 1] = Finished /\ progress[g] = taken + (Len(queue) + 1) - 1
    BY <1>4, <1>6, <2>2
  <2>6. \A j \in 1 .. Len(queue) : link'[g][j] = queue[j]
    BY <1>4, <1>6
  <2>7. \A j \in 1 .. Len(queue) + 1 : j = Len(queue) + 1 \/ j \in 1 .. Len(queue)
    BY <1>4
  <2>8. ASSUME NEW j \in DOMAIN link'[g]
        PROVE  \/ /\ link'[g][j] # Finished /\ OnTime(link'[g][j])
                  /\ link'[g][j].index = taken + j /\ taken + j <= progress[g]
               \/ /\ link'[g][j] = Finished /\ ended'[g]
                  /\ j = Len(link'[g]) /\ progress[g] = taken + j - 1
    <3>1. CASE j = Len(queue) + 1
      BY <1>6, <2>4, <2>5, <3>1
    <3>2. CASE j \in 1 .. Len(queue)
      BY <2>3, <2>6, <3>2
    <3>3. QED
      BY <2>4, <2>7, <3>1, <3>2
  <2>9. QED
    BY <1>3, <1>6, <2>1, <2>2, <2>8 DEF LinkContinues, OnTime
<1>8. /\ \A h \in Generators \ {g} : /\ progress'[h] = progress[h] /\ link'[h] = link[h]
                                        /\ ended'[h] = ended[h]
      /\ progress'[g] >= progress[g]
  BY <1>1, <1>3, <1>6
<1>9. \A i \in DOMAIN handles :
        handles[i] = g /\ Taken(i) \in Nat /\ LinkContinues(g, Taken(i)) => LinkContinues(g, Taken(i))'
  BY <1>7
<1>10. QED
  BY <1>1, <1>3, <1>5, <1>8, <1>9, OneGeneratorMoves

LEMMA CrashKeeps ==
  ASSUME PipelineInv, NEW g \in Generators, Crash(g)
  PROVE  PipelineInv'
<1> DEFINE queue == link[g]
<1>1. /\ Running(g) /\ ~ended[g] /\ progress[g] \in Nat /\ queue \in Seq(Updates)
      /\ progress \in [Generators -> Nat] /\ last \in [Generators -> Nat]
      /\ link \in [Generators -> Seq(Updates)] /\ ended \in [Generators -> BOOLEAN]
  BY DEF Crash, Running, PipelineInv, PipelineTypeOK
<1>2. PICK n \in 0 .. Len(queue) : link' = [link EXCEPT ![g] = SubSeq(@, 1, n)]
  BY DEF Crash
<1>3. /\ progress' = progress /\ last' = last /\ ended' = [ended EXCEPT ![g] = TRUE]
      /\ UNCHANGED <<runnerVars, channel, error, writerVars>>
  BY DEF Crash
<1>4. /\ SubSeq(queue, 1, n) \in Seq(Updates) /\ Len(SubSeq(queue, 1, n)) = n
      /\ n \in Nat /\ n <= Len(queue) /\ Len(queue) \in Nat
      /\ DOMAIN queue = 1 .. Len(queue) /\ DOMAIN SubSeq(queue, 1, n) = 1 .. n
      /\ \A j \in 1 .. n : SubSeq(queue, 1, n)[j] = queue[j]
  BY <1>1, Cut
<1>5. PipelineTypeOK'
  BY <1>1, <1>2, <1>3, <1>4, GeneratorTypes
<1>6. /\ link'[g] = SubSeq(queue, 1, n) /\ ended'[g]
      /\ \A h \in Generators \ {g} : ended'[h] = ended[h] /\ link'[h] = link[h]
  BY <1>1, <1>2, <1>3
<1>7. ASSUME NEW i \in DOMAIN handles,
             handles[i] = g, Taken(i) \in Nat, LinkContinues(g, Taken(i))
      PROVE  LinkContinues(g, Taken(i))'
  <2> DEFINE taken == Taken(i)
  <2>1. Taken(i)' = taken
    BY <1>3 DEF Taken, runnerVars, loopVars
  <2> HIDE DEF taken, queue
  <2>2. taken <= progress[g]
    BY <1>7 DEF LinkContinues, taken
  <2>3. \A j \in 1 .. Len(queue) :
          /\ queue[j] # Finished /\ OnTime(queue[j])
          /\ queue[j].index = taken + j /\ taken + j <= progress[g]
    BY <1>1, <1>4, <1>7 DEF LinkContinues, taken, queue
  <2>4. \A j \in DOMAIN link'[g] : j \in 1 .. Len(queue) /\ link'[g][j] = queue[j]
    BY <1>4, <1>6
  <2>5. QED
    BY <1>3, <1>6, <2>1, <2>2, <2>3, <2>4 DEF LinkContinues, OnTime
<1>8. /\ \A h \in Generators \ {g} : /\ progress'[h] = progress[h] /\ link'[h] = link[h]
                                        /\ ended'[h] = ended[h]
      /\ progress'[g] >= progress[g]
  BY <1>1, <1>3, <1>6
<1>9. \A i \in DOMAIN handles :
        handles[i] = g /\ Taken(i) \in Nat /\ LinkContinues(g, Taken(i)) => LinkContinues(g, Taken(i))'
  BY <1>7
<1>10. QED
  BY <1>1, <1>3, <1>5, <1>8, <1>9, OneGeneratorMoves

LEMMA GeneratorsKeep ==
  ASSUME PipelineInv, NEW g \in Generators, Generate(g) \/ Crash(g)
  PROVE  PipelineInv'
<1>1. progress[g] \in Nat /\ last[g] \in Nat /\ \A dropped \in Drops(g) : dropped \in BOOLEAN
  BY DEF PipelineInv, PipelineTypeOK, Drops
<1>2. CASE ReportStep(g)
  <2>1. PICK dropped \in Drops(g) : SendReport(g, TimeOf(progress[g] + 1), dropped)
    BY <1>2 DEF ReportStep
  <2>2. TimeOf(progress[g] + 1) \in Nat
    BY <1>1, Phases
  <2>3. QED
    BY <1>1, <1>2, <2>1, <2>2, SendReportKeeps DEF ReportStep
<1>3. CASE ReportDrain(g)
  <2> DEFINE previous == IF progress[g] = Measured THEN LoadSteps ELSE last[g]
  <2>1. PICK late \in 0 .. MaxLate, dropped \in Drops(g) :
          SendReport(g, previous + 1 + late, dropped)
    BY <1>3 DEF ReportDrain
  <2>2. previous + 1 + late \in Nat /\ ~(progress[g] + 1 <= Measured) /\ Running(g)
    BY <1>1, <1>3, Constants DEF ReportDrain
  <2>3. QED
    BY <1>1, <2>1, <2>2, SendReportKeeps
<1>4. QED
  BY <1>2, <1>3, SendFinishedKeeps, CrashKeeps DEF Generate

-----------------------------------------------------------------------------
(* The collector receives.                                                 *)
LEMMA AwaitedFacts ==
  ASSUME PipelineInv, Receiving
  PROVE  /\ Looping /\ collector = "receiving" /\ outcome = "none" /\ Len(rounds) \in Nat
         /\ handles \in Seq(Generators) /\ Len(handles) \in Nat /\ DOMAIN handles = 1 .. Len(handles)
         /\ position \in 1 .. Len(handles) /\ Awaited \in Generators /\ Awaited = handles[position]
         /\ link \in [Generators -> Seq(Updates)] /\ progress[Awaited] \in Nat
         /\ LinkContinues(Awaited, Len(rounds))
         /\ \A i \in DOMAIN handles : i # position => handles[i] # Awaited
<1>1. /\ Looping /\ collector = "receiving" /\ outcome = "none"
  BY DEF PipelineInv, OutcomeOK, Receiving, Looping
<1>2. /\ handles \in Seq(Generators) /\ link \in [Generators -> Seq(Updates)]
      /\ position \in Nat \ {0} /\ progress \in [Generators -> Nat]
  BY DEF PipelineInv, PipelineTypeOK
<1>3. /\ Len(handles) \in Nat /\ DOMAIN handles = 1 .. Len(handles)
  BY <1>2
<1>4. position \in 1 .. Len(handles)
  BY <1>2, <1>3 DEF Receiving
<1>5. Awaited \in Generators /\ Awaited = handles[position] /\ progress[Awaited] \in Nat
  BY <1>2, <1>3, <1>4 DEF Awaited
<1>6. LinkContinues(Awaited, Taken(position)) /\ \A i \in DOMAIN handles : i # position => handles[i] # Awaited
  BY <1>1, <1>3, <1>4, <1>5 DEF PipelineInv, HandlesOK
<1>7. Taken(position) = Len(rounds)
  BY <1>4 DEF Taken
<1>8. QED
  BY <1>1, <1>2, <1>3, <1>4, <1>5, <1>6, <1>7, RoundNumbers

LEMMA ReceivingLeaves ==
  ASSUME PipelineInv, collector = "receiving", outcome = "none",
         UNCHANGED <<collector, outcome, progress, ended, summary, rounds, channel, error, writerVars>>
  PROVE  /\ OutcomeOK' /\ ChannelOK' /\ WrittenOK' /\ WriterEndOK' /\ SummaryOK'
         /\ RoundsComplete' /\ MismatchOnlyInDrain' /\ FilesArePrefixes' /\ ErrorPrecedesReturn'
<1>1. OutcomeOK' /\ SummaryOK' /\ MismatchOnlyInDrain' /\ ErrorPrecedesReturn'
  BY DEF PipelineInv, OutcomeOK, SummaryOK, MismatchOnlyInDrain, ErrorPrecedesReturn
<1>2. RoundsComplete'
  BY DEF PipelineInv, RoundsComplete
<1>3. ChannelOK' /\ WrittenOK' /\ WriterEndOK' /\ FilesArePrefixes'
  BY DEF PipelineInv, writerVars, ChannelOK, WrittenOK, WriterEndOK, FilesArePrefixes, RowOf, Looping
<1>4. QED
  BY <1>1, <1>2, <1>3

LEMMA ReceivingTypes ==
  ASSUME PipelineInv,
         UNCHANGED <<collector, outcome, progress, last, ended, summary, rounds, channel, error, writerVars>>,
         link' \in [Generators -> Seq(Updates)], handles' \in Seq(Generators),
         position' \in Nat \ {0}, round' \in Seq([from : Generators, report : Updates])
  PROVE  PipelineTypeOK'
BY DEF PipelineInv, PipelineTypeOK, writerVars

(* What is behind a report continues from it.                              *)
LEMMA HeadTaken ==
  ASSUME NEW g \in Generators, NEW taken \in Nat, LinkContinues(g, taken),
         progress[g] \in Nat, link[g] \in Seq(Updates), link[g] # <<>>, Head(link[g]) # Finished,
         link'[g] = Tail(link[g]), progress'[g] = progress[g], ended'[g] = ended[g]
  PROVE  /\ Head(link[g]).index = taken + 1 /\ OnTime(Head(link[g])) /\ taken + 1 <= progress[g]
         /\ LinkContinues(g, taken + 1)'
<1> DEFINE queue == link[g]
<1>1. /\ Len(queue) \in Nat \ {0} /\ Head(queue) = queue[1]
      /\ Len(Tail(queue)) = Len(queue) - 1
      /\ DOMAIN Tail(queue) = 1 .. Len(queue) - 1 /\ DOMAIN queue = 1 .. Len(queue)
      /\ \A i \in 1 .. Len(queue) - 1 : Tail(queue)[i] = queue[i + 1]
  BY Dropped
<1>2. /\ ~ended[g] => progress[g] = taken + Len(queue)
      /\ \A j \in 1 .. Len(queue) :
           \/ /\ queue[j] # Finished /\ OnTime(queue[j])
              /\ queue[j].index = taken + j /\ taken + j <= progress[g]
           \/ /\ queue[j] = Finished /\ ended[g]
              /\ j = Len(queue) /\ progress[g] = taken + j - 1
  BY <1>1 DEF LinkContinues
<1>3. queue[1] # Finished /\ Head(queue) = queue[1] /\ 1 \in 1 .. Len(queue) /\ link'[g] = Tail(queue)
  BY <1>1
<1> HIDE DEF queue
<1>4. queue[1].index = taken + 1 /\ OnTime(queue[1]) /\ taken + 1 <= progress[g]
  BY <1>2, <1>3
<1>5. ASSUME NEW j \in 1 .. Len(queue) - 1
      PROVE  \/ /\ Tail(queue)[j] # Finished /\ OnTime(Tail(queue)[j])
                /\ Tail(queue)[j].index = (taken + 1) + j /\ (taken + 1) + j <= progress[g]
             \/ /\ Tail(queue)[j] = Finished /\ ended[g]
                /\ j = Len(Tail(queue)) /\ progress[g] = (taken + 1) + j - 1
  <2>1. j + 1 \in 1 .. Len(queue) /\ Tail(queue)[j] = queue[j + 1] /\ j \in Nat
    BY <1>1
  <2>2. taken + (j + 1) = (taken + 1) + j /\ taken + (j + 1) - 1 = (taken + 1) + j - 1
    BY <2>1
  <2>3. CASE queue[j + 1] # Finished
    BY <1>2, <2>1, <2>2, <2>3
  <2>4. CASE queue[j + 1] = Finished
    <3>1. ended[g] /\ j + 1 = Len(queue) /\ progress[g] = taken + (j + 1) - 1
      BY <1>2, <2>1, <2>4
    <3>2. j = Len(queue) - 1
      <4>1. Len(queue) \in Nat /\ j \in Nat /\ j + 1 = Len(queue)
        BY <1>1, <2>1, <3>1, Zenon
      <4>2. QED
        BY <4>1
    <3>3. j = Len(Tail(queue)) /\ progress[g] = (taken + 1) + j - 1 /\ Tail(queue)[j] = Finished
      BY <1>1, <2>1, <2>2, <2>4, <3>1, <3>2, Zenon
    <3>4. QED
      BY <3>1, <3>3, Zenon
  <2>5. QED
    BY <2>3, <2>4
<1>6. ~ended[g] => progress[g] = (taken + 1) + Len(Tail(queue))
  <2>1. taken + Len(queue) = (taken + 1) + (Len(queue) - 1)
    BY <1>1
  <2>2. QED
    BY <1>1, <1>2, <2>1, Zenon
<1>7. LinkContinues(g, taken + 1)'
  BY <1>1, <1>3, <1>4, <1>5, <1>6 DEF LinkContinues, OnTime
<1>8. QED
  BY <1>3, <1>4, <1>7 DEF queue

LEMMA ReceiveReportKeeps ==
  ASSUME PipelineInv, ReceiveReport
  PROVE  PipelineInv'
<1>1. /\ Receiving /\ link[Awaited] # <<>> /\ Head(link[Awaited]) # Finished
      /\ round' = Append(round, [from |-> Awaited, report |-> Head(link[Awaited])])
      /\ link' = [link EXCEPT ![Awaited] = Tail(@)] /\ position' = position + 1
      /\ UNCHANGED <<progress, last, ended, collector, outcome, handles, summary, rounds,
                     channel, error, writerVars>>
  BY DEF ReceiveReport
<1>2. /\ Looping /\ collector = "receiving" /\ outcome = "none" /\ Len(rounds) \in Nat
      /\ handles \in Seq(Generators) /\ Len(handles) \in Nat /\ DOMAIN handles = 1 .. Len(handles)
      /\ position \in 1 .. Len(handles) /\ Awaited \in Generators /\ Awaited = handles[position]
      /\ link \in [Generators -> Seq(Updates)] /\ progress[Awaited] \in Nat
      /\ LinkContinues(Awaited, Len(rounds))
      /\ \A i \in DOMAIN handles : i # position => handles[i] # Awaited
  BY <1>1, AwaitedFacts
<1> DEFINE taken == Len(rounds)
           entry == [from |-> Awaited, report |-> Head(link[Awaited])]
<1>3. PICK g \in Generators : g = Awaited
  BY <1>2
<1>4. /\ link[g] \in Seq(Updates) /\ Head(link[g]) \in Updates /\ Tail(link[g]) \in Seq(Updates)
  BY <1>1, <1>2, <1>3, Dropped
<1>5. /\ link' \in [Generators -> Seq(Updates)] /\ link'[g] = Tail(link[g])
      /\ \A h \in Generators : h # g => link'[h] = link[h]
  BY <1>1, <1>2, <1>3, <1>4
<1>6. /\ Head(link[g]).index = taken + 1 /\ OnTime(Head(link[g]))
      /\ \A k \in Nat : k = taken => LinkContinues(g, k + 1)'
  <2>1. ASSUME NEW k \in Nat, k = taken
        PROVE  /\ Head(link[g]).index = k + 1 /\ OnTime(Head(link[g]))
               /\ LinkContinues(g, k + 1)'
    <3>1. /\ LinkContinues(g, k) /\ progress[g] \in Nat /\ link[g] \in Seq(Updates)
          /\ link[g] # <<>> /\ Head(link[g]) # Finished /\ link'[g] = Tail(link[g])
          /\ progress'[g] = progress[g] /\ ended'[g] = ended[g]
      BY <1>1, <1>2, <1>3, <1>4, <1>5, <2>1
    <3>2. QED
      BY <3>1, HeadTaken
  <2>2. QED
    BY <1>2, <2>1
<1>7. /\ round \in Seq([from : Generators, report : Updates]) /\ Len(round) = position - 1
      /\ \A i \in DOMAIN round : /\ round[i].from = handles[i] /\ OnTime(round[i].report)
                                 /\ round[i].report.index = taken + 1
  BY <1>2 DEF PipelineInv, PipelineTypeOK, RoundOK
<1>8. entry \in [from : Generators, report : Updates] /\ entry.from = g /\ entry.report = Head(link[g])
  BY <1>3, <1>4
<1> HIDE DEF entry, taken
<1>9. /\ round' \in Seq([from : Generators, report : Updates]) /\ Len(round') = position
      /\ DOMAIN round' = 1 .. position /\ round'[position] = entry
      /\ DOMAIN round = 1 .. position - 1
      /\ \A i \in 1 .. position - 1 : round'[i] = round[i]
  <2>1. round' = Append(round, entry)
    BY <1>1 DEF entry
  <2>2. position - 1 + 1 = position
    BY <1>2
  <2>3. DOMAIN round = 1 .. Len(round)
    BY <1>7
  <2>4. QED
    BY <1>7, <1>8, <2>1, <2>2, <2>3, Added
<1>10. PipelineTypeOK'
  <2>1. position' \in Nat \ {0}
    BY <1>1, <1>2
  <2>2. QED
    BY <1>1, <1>2, <1>5, <1>9, <2>1, ReceivingTypes
<1>11. RoundOK'
  <2>1. ASSUME NEW i \in 1 .. position
        PROVE  /\ round'[i].from = handles[i] /\ OnTime(round'[i].report)
               /\ round'[i].report.index = taken + 1
    <3>1. CASE i = position
      BY <1>2, <1>3, <1>6, <1>8, <1>9, <3>1
    <3>2. CASE i # position
      <4>1. i \in 1 .. position - 1
        BY <1>2, <3>2
      <4>2. QED
        BY <1>7, <1>9, <4>1
    <3>3. QED
      BY <3>1, <3>2
  <2>2. /\ Len(round') = position' - 1 /\ position' <= Len(handles) + 1
        /\ DOMAIN round' = 1 .. position /\ collector' = "receiving" /\ handles' = handles
        /\ Len(rounds') = taken
    BY <1>1, <1>2, <1>9 DEF taken
  <2>3. QED
    BY <2>1, <2>2 DEF RoundOK, OnTime
<1>12. HandlesOK'
  <2>1. /\ Looping' /\ handles' = handles /\ rounds' = rounds /\ collector' = "receiving"
        /\ position' = position + 1 /\ \A h \in Generators : progress'[h] = progress[h] /\ ended'[h] = ended[h]
    BY <1>1, <1>2 DEF Looping
  <2>2. \A i, j \in DOMAIN handles : handles[i] = handles[j] => i = j
    BY <1>2 DEF PipelineInv, HandlesOK
  <2>3. ASSUME NEW i \in DOMAIN handles
        PROVE  LinkContinues(handles[i], Taken(i))'
    <3>1. CASE i = position
      <4>1. Taken(i)' = taken + 1 /\ handles'[i] = g
        BY <1>2, <1>3, <2>1, <3>1 DEF Taken, taken
      <4>2. PICK k \in Nat : k = taken
        BY <1>2 DEF taken
      <4>3. LinkContinues(g, k + 1)'
        BY <1>6, <4>2
      <4>4. QED
        BY <4>1, <4>2, <4>3 DEF LinkContinues
    <3>2. CASE i # position
      <4>1. handles[i] \in Generators /\ handles[i] # g
        BY <1>2, <1>3, <3>2
      <4>2. LinkContinues(handles[i], Taken(i))
        BY <1>2 DEF PipelineInv, HandlesOK
      <4>3. i < position + 1 <=> i < position
        BY <1>2, <3>2
      <4>4. Taken(i)' = Taken(i) /\ handles'[i] = handles[i] /\ link'[handles[i]] = link[handles[i]]
            /\ progress'[handles[i]] = progress[handles[i]] /\ ended'[handles[i]] = ended[handles[i]]
        BY <1>2, <1>5, <2>1, <4>1, <4>3 DEF Taken
      <4>5. QED
        BY <4>2, <4>4 DEF LinkContinues, OnTime
    <3>3. QED
      BY <3>1, <3>2
  <2>4. ASSUME NEW h \in Generators
        PROVE  Gone(h)' \/ \E i \in DOMAIN handles : handles[i] = h
    <3>1. CASE h = g
      BY <1>2, <1>3, <3>1
    <3>2. CASE h # g
      BY <1>2, <1>5, <2>1, <3>2 DEF PipelineInv, HandlesOK, Gone
    <3>3. QED
      BY <3>1, <3>2
  <2>5. QED
    BY <2>1, <2>2, <2>3, <2>4 DEF HandlesOK
<1>13. QED
  BY <1>1, <1>2, <1>10, <1>11, <1>12, ReceivingLeaves DEF PipelineInv

(* A generator whose Finished is read has nothing else to report, and the  *)
(* handle that takes its place has not been read in this round.            *)
LEMMA ReceiveFinishedKeeps ==
  ASSUME PipelineInv, ReceiveFinished
  PROVE  PipelineInv'
<1>1. /\ Receiving /\ link[Awaited] # <<>> /\ Head(link[Awaited]) = Finished
      /\ handles' = SwapRemove(handles, position) /\ link' = [link EXCEPT ![Awaited] = Tail(@)]
      /\ UNCHANGED <<progress, last, ended, collector, outcome, position, round, summary, rounds,
                     channel, error, writerVars>>
  BY DEF ReceiveFinished
<1>2. /\ Looping /\ collector = "receiving" /\ outcome = "none" /\ Len(rounds) \in Nat
      /\ handles \in Seq(Generators) /\ Len(handles) \in Nat /\ DOMAIN handles = 1 .. Len(handles)
      /\ position \in 1 .. Len(handles) /\ Awaited \in Generators /\ Awaited = handles[position]
      /\ link \in [Generators -> Seq(Updates)] /\ progress[Awaited] \in Nat
      /\ LinkContinues(Awaited, Len(rounds))
      /\ \A i \in DOMAIN handles : i # position => handles[i] # Awaited
  BY <1>1, AwaitedFacts
<1>3. PICK g \in Generators : g = Awaited
  BY <1>2
<1>4. /\ link[g] \in Seq(Updates) /\ Tail(link[g]) \in Seq(Updates) /\ Len(link[g]) \in Nat \ {0}
      /\ Len(Tail(link[g])) = Len(link[g]) - 1 /\ Head(link[g]) = link[g][1]
      /\ DOMAIN link[g] = 1 .. Len(link[g])
  BY <1>1, <1>2, <1>3, Dropped
<1>5. /\ link' \in [Generators -> Seq(Updates)] /\ link'[g] = Tail(link[g])
      /\ \A h \in Generators : h # g => link'[h] = link[h]
  BY <1>1, <1>2, <1>3, <1>4
<1>6. Gone(g)'
  <2>1. 1 \in DOMAIN link[g] /\ link[g][1] = Finished
    BY <1>1, <1>3, <1>4
  <2>2. LinkContinues(g, Len(rounds))
    BY <1>2, <1>3
  <2>3. ended[g] /\ 1 = Len(link[g]) /\ progress[g] = Len(rounds) + 1 - 1
    BY <2>1, <2>2 DEF LinkContinues
  <2>4. Len(Tail(link[g])) = 0
    BY <1>4, <2>3
  <2>5. Tail(link[g]) = <<>>
    BY <1>4, <2>4, EmptySeq
  <2>6. QED
    BY <1>1, <1>2, <1>5, <2>3, <2>5 DEF Gone
<1>7. /\ handles' \in Seq(Generators) /\ Len(handles') = Len(handles) - 1
      /\ \A j \in 1 .. Len(handles) - 1 : j # position => handles'[j] = handles[j]
      /\ position <= Len(handles) - 1 => handles'[position] = handles[Len(handles)]
  BY <1>1, <1>2, Removed
<1>8. DOMAIN handles' = 1 .. Len(handles) - 1
  BY <1>2, <1>7
(* Where the handles come from.                                            *)
<1> DEFINE From(j) == IF j = position THEN Len(handles) ELSE j
<1>9. ASSUME NEW j \in DOMAIN handles'
      PROVE  /\ From(j) \in DOMAIN handles /\ From(j) # position /\ handles'[j] = handles[From(j)]
             /\ j < position <=> From(j) < position
  <2>1. /\ position \in Nat \ {0} /\ Len(handles) \in Nat /\ j \in 1 .. Len(handles) - 1
        /\ position <= Len(handles)
    BY <1>2, <1>8
  <2>2. CASE j = position
    <3>1. From(j) = Len(handles) /\ position <= Len(handles) - 1
      BY <2>1, <2>2
    <3>2. From(j) \in 1 .. Len(handles) /\ From(j) # position /\ ~(j < position) /\ ~(From(j) < position)
      BY <2>1, <2>2, <3>1
    <3>3. handles'[j] = handles[From(j)]
      BY <1>7, <2>2, <3>1, Zenon
    <3>4. QED
      BY <1>2, <3>2, <3>3
  <2>3. CASE j # position
    <3>1. From(j) = j
      BY <2>3
    <3>2. handles'[j] = handles[j]
      BY <1>7, <2>1, <2>3
    <3>3. j \in 1 .. Len(handles)
      BY <2>1
    <3>4. QED
      BY <1>2, <2>3, <3>1, <3>2, <3>3
  <2>4. QED
    BY <2>2, <2>3
<1>10. ASSUME NEW i \in DOMAIN handles, i # position
       PROVE  \E j \in DOMAIN handles' : From(j) = i
  <2>1. CASE i = Len(handles)
    <3>1. position \in DOMAIN handles'
      <4>1. /\ Len(handles) \in Nat /\ position \in 1 .. Len(handles)
            /\ position # Len(handles)
        BY <1>2, <1>10, <2>1
      <4>2. position \in 1 .. Len(handles) - 1
        BY <4>1
      <4>3. QED
        BY <1>8, <4>2, Zenon
    <3>2. QED
      BY <2>1, <3>1
  <2>2. CASE i # Len(handles)
    <3>1. i \in DOMAIN handles'
      <4>1. Len(handles) \in Nat /\ i \in 1 .. Len(handles) /\ i # Len(handles)
        BY <1>2, <1>10, <2>2
      <4>2. i \in 1 .. Len(handles) - 1
        BY <4>1
      <4>3. QED
        BY <1>8, <4>2, Zenon
    <3>2. QED
      BY <1>10, <3>1
  <2>3. QED
    BY <2>1, <2>2
<1>11. PipelineTypeOK'
  <2>1. /\ position' \in Nat \ {0} /\ round' \in Seq([from : Generators, report : Updates])
    BY <1>1 DEF PipelineInv, PipelineTypeOK
  <2>2. QED
    BY <1>1, <1>5, <1>7, <2>1, ReceivingTypes
<1>12. RoundOK'
  <2>1. /\ round \in Seq([from : Generators, report : Updates]) /\ Len(round) = position - 1
        /\ \A i \in DOMAIN round : /\ round[i].from = handles[i] /\ OnTime(round[i].report)
                                   /\ round[i].report.index = Len(rounds) + 1
    BY <1>2 DEF PipelineInv, PipelineTypeOK, RoundOK
  <2>2. DOMAIN round = 1 .. position - 1
    BY <2>1
  <2>3. ASSUME NEW i \in DOMAIN round
        PROVE  handles'[i] = handles[i]
    <3>1. i \in 1 .. position - 1 /\ position \in 1 .. Len(handles)
      BY <1>2, <2>2
    <3>2. i \in 1 .. Len(handles) - 1 /\ i # position
      BY <1>2, <3>1
    <3>3. QED
      BY <1>7, <3>2
  <2>4. /\ position <= Len(handles') + 1 /\ collector' = "receiving"
        /\ round' = round /\ position' = position /\ rounds' = rounds
    BY <1>1, <1>2, <1>7
  <2>5. QED
    BY <2>1, <2>3, <2>4 DEF RoundOK, OnTime
<1>13. HandlesOK'
  <2>1. /\ Looping' /\ rounds' = rounds /\ collector' = "receiving" /\ position' = position
        /\ \A h \in Generators : progress'[h] = progress[h] /\ ended'[h] = ended[h]
    BY <1>1, <1>2 DEF Looping
  <2>2. ASSUME NEW i \in DOMAIN handles', NEW j \in DOMAIN handles', handles'[i] = handles'[j]
        PROVE  i = j
    <3>1. From(i) = From(j)
      BY <1>2, <1>9, <2>2 DEF PipelineInv, HandlesOK
    <3>2. QED
      BY <1>2, <1>8, <3>1
  <2>3. ASSUME NEW j \in DOMAIN handles'
        PROVE  LinkContinues(handles[j], Taken(j))'
    <3>1. PICK i \in DOMAIN handles : i = From(j)
      BY <1>9
    <3>2. i # position /\ handles'[j] = handles[i] /\ (j < position <=> i < position)
      BY <1>9, <3>1
    <3>3. handles[i] \in Generators /\ handles[i] # g
      BY <1>2, <1>3, <3>2
    <3>4. LinkContinues(handles[i], Taken(i))
      BY <1>2 DEF PipelineInv, HandlesOK
    <3>5. Taken(j)' = Taken(i) /\ link'[handles[i]] = link[handles[i]]
          /\ progress'[handles[i]] = progress[handles[i]] /\ ended'[handles[i]] = ended[handles[i]]
      BY <1>2, <1>5, <2>1, <3>2, <3>3 DEF Taken
    <3>6. QED
      BY <3>2, <3>4, <3>5 DEF LinkContinues, OnTime
  <2>4. ASSUME NEW h \in Generators
        PROVE  Gone(h)' \/ \E j \in DOMAIN handles' : handles'[j] = h
    <3>1. CASE h = g
      BY <1>6, <3>1
    <3>2. CASE h # g /\ Gone(h)
      BY <1>5, <2>1, <3>2 DEF Gone
    <3>3. CASE h # g /\ ~Gone(h)
      <4>1. PICK i \in DOMAIN handles : handles[i] = h
        BY <1>2, <3>3 DEF PipelineInv, HandlesOK
      <4>2. i # position
        BY <1>2, <1>3, <3>3, <4>1
      <4>3. PICK j \in DOMAIN handles' : From(j) = i
        BY <1>10, <4>2
      <4>4. QED
        BY <1>9, <4>1, <4>3
    <3>4. QED
      BY <3>1, <3>2, <3>3
  <2>5. QED
    BY <2>1, <2>2, <2>3, <2>4 DEF HandlesOK
<1>14. QED
  BY <1>1, <1>2, <1>11, <1>12, <1>13, ReceivingLeaves DEF PipelineInv

-----------------------------------------------------------------------------
(* The collecting loop is left.                                            *)
LEMMA LoopLeft ==
  ASSUME PipelineInv, Looping, collector' = "closing",
         outcome' \in {"exhausted", "crashed", "mismatch", "persist_failed"},
         handles' \in Seq(Generators),
         UNCHANGED <<generatorVars, position, round, summary, rounds, channel, writerVars>>,
         error' = error \/ (error = "sent" /\ error' = "taken"),
         outcome' = "exhausted" => collector = "receiving" /\ \A g \in Generators : Gone(g),
         outcome' = "mismatch" => \E i \in DOMAIN round : round[i].report.index > Measured
  PROVE  PipelineInv'
<1>1. PipelineTypeOK'
  BY DEF PipelineInv, PipelineTypeOK, generatorVars, writerVars
<1>2. HandlesOK' /\ RoundOK' /\ MismatchOnlyInDrain' /\ ErrorPrecedesReturn'
  BY DEF HandlesOK, RoundOK, Looping, MismatchOnlyInDrain, ErrorPrecedesReturn
<1>3. OutcomeOK'
  BY DEF OutcomeOK, Gone, generatorVars
<1>4. ChannelOK'
  BY DEF PipelineInv, ChannelOK, writerVars
<1>5. WrittenOK' /\ SummaryOK' /\ RoundsComplete' /\ FilesArePrefixes'
  BY DEF PipelineInv, WrittenOK, SummaryOK, RoundsComplete, FilesArePrefixes, RowOf,
         generatorVars, writerVars
<1>6. WriterEndOK'
  BY DEF PipelineInv, WriterEndOK, Looping, writerVars
<1>7. QED
  BY <1>1, <1>2, <1>3, <1>4, <1>5, <1>6 DEF PipelineInv

LEMMA InstanceCrashedKeeps ==
  ASSUME PipelineInv, InstanceCrashed
  PROVE  PipelineInv'
<1>1. /\ Looping /\ handles \in Seq(Generators) /\ position \in 1 .. Len(handles)
  BY AwaitedFacts DEF InstanceCrashed
<1>2. handles' \in Seq(Generators)
  BY <1>1, Removed DEF InstanceCrashed
<1>3. QED
  BY <1>1, <1>2, LoopLeft DEF InstanceCrashed, LeaveLoop

(* No report in a round means that no handle is left.                      *)
LEMMA ExhaustedKeeps ==
  ASSUME PipelineInv, Exhausted
  PROVE  PipelineInv'
<1>1. /\ collector = "receiving" /\ Looping /\ position > Len(handles) /\ round = <<>>
      /\ collector' = "closing" /\ outcome' = "exhausted"
      /\ UNCHANGED <<generatorVars, loopVars, channel, error, writerVars>>
  BY DEF Exhausted, RoundEnds, LeaveLoop, Looping
<1>2. handles \in Seq(Generators) /\ position \in Nat /\ Len(round) = position - 1
  BY <1>1 DEF PipelineInv, PipelineTypeOK, RoundOK
<1>3. Len(handles) \in Nat /\ DOMAIN handles = 1 .. Len(handles)
  BY <1>2
<1>4. Len(round) = 0
  BY <1>1
<1>5. Len(handles) = 0
  BY <1>1, <1>2, <1>3, <1>4
<1>6. \A g \in Generators : Gone(g)
  BY <1>1, <1>3, <1>5 DEF PipelineInv, HandlesOK
<1>7. QED
  BY <1>1, <1>2, <1>6, LoopLeft DEF loopVars

(* The reports of a round carry the same number, so while there are steps  *)
(* to report they carry the same time.                                     *)
LEMMA TimeMismatchKeeps ==
  ASSUME PipelineInv, TimeMismatch
  PROVE  PipelineInv'
<1>1. /\ collector = "receiving" /\ Looping /\ ~InSync
      /\ collector' = "closing" /\ outcome' = "mismatch"
      /\ UNCHANGED <<generatorVars, loopVars, channel, error, writerVars>>
  BY DEF TimeMismatch, RoundEnds, LeaveLoop, Looping
<1>2. /\ handles \in Seq(Generators) /\ round \in Seq([from : Generators, report : Updates])
      /\ \A i \in DOMAIN round : /\ OnTime(round[i].report)
                                 /\ round[i].report.index = Len(rounds) + 1
  BY <1>1 DEF PipelineInv, PipelineTypeOK, RoundOK
<1>3. PICK i \in DOMAIN round : round[i].report.time # round[1].report.time
  BY <1>1 DEF InSync
<1>4. 1 \in DOMAIN round
  BY <1>2
<1>5. Len(rounds) + 1 > Measured
  <2>1. SUFFICES ASSUME ~(Len(rounds) + 1 > Measured) PROVE FALSE
    OBVIOUS
  <2>2. Len(rounds) + 1 <= Measured
    BY <2>1, RoundNumbers, Constants
  <2>3. /\ round[i].report.time = TimeOf(Len(rounds) + 1)
        /\ round[1].report.time = TimeOf(Len(rounds) + 1)
    BY <1>2, <1>4, <2>2 DEF OnTime
  <2>4. QED
    BY <1>3, <2>3
<1>6. \E k \in DOMAIN round : round[k].report.index > Measured
  BY <1>2, <1>4, <1>5
<1>7. QED
  BY <1>1, <1>2, <1>6, LoopLeft DEF loopVars

(* A send fails only when the writer has returned, and it told before.     *)
LEMMA SendFailsKeeps ==
  ASSUME PipelineInv, SendFails
  PROVE  PipelineInv'
<1>1. /\ collector = "sending" /\ Looping /\ writer = "done"
      /\ UNCHANGED <<generatorVars, loopVars, channel, writerVars>>
  BY DEF SendFails, Looping
<1>2. error = "sent" /\ handles \in Seq(Generators)
  BY <1>1 DEF PipelineInv, PipelineTypeOK, WriterEndOK
<1>3. error' = "taken" /\ collector' = "closing" /\ outcome' = "persist_failed"
  BY <1>2 DEF SendFails, LeaveLoop
<1>4. QED
  BY <1>1, <1>2, <1>3, LoopLeft DEF loopVars

LEMMA ErrorSignaledKeeps ==
  ASSUME PipelineInv, ErrorSignaled
  PROVE  PipelineInv'
<1>1. handles \in Seq(Generators)
  BY DEF PipelineInv, PipelineTypeOK
<1>2. QED
  BY <1>1, LoopLeft DEF ErrorSignaled, LeaveLoop, Looping, loopVars

LEMMA ConcludeKeeps ==
  ASSUME PipelineInv, Conclude
  PROVE  PipelineInv'
<1>1. /\ collector = "closing" /\ writer = "done" /\ outcome # "none"
      /\ UNCHANGED <<generatorVars, outcome, loopVars, channel, error, writerVars>>
  BY DEF Conclude, PipelineInv, OutcomeOK
<1>2. /\ collector' \in {"finished", "collect_failed", "persist_failed"}
      /\ collector' = "finished" => outcome = "exhausted" /\ error = "none"
  BY DEF Conclude
<1>3. PipelineTypeOK'
  BY <1>1, <1>2 DEF PipelineInv, PipelineTypeOK, generatorVars, loopVars, writerVars, Verdicts
<1>4. HandlesOK' /\ RoundOK' /\ MismatchOnlyInDrain' /\ ErrorPrecedesReturn'
  BY <1>1, <1>2 DEF PipelineInv, HandlesOK, RoundOK, Looping, MismatchOnlyInDrain,
                    ErrorPrecedesReturn, loopVars
<1>5. OutcomeOK'
  BY <1>1, <1>2 DEF PipelineInv, OutcomeOK, Gone, generatorVars, loopVars, writerVars
<1>6. ChannelOK'
  BY <1>1, <1>2 DEF PipelineInv, ChannelOK, loopVars, writerVars
<1>7. WrittenOK' /\ SummaryOK' /\ RoundsComplete' /\ FilesArePrefixes'
  BY <1>1 DEF PipelineInv, WrittenOK, SummaryOK, RoundsComplete, FilesArePrefixes, RowOf,
              generatorVars, loopVars, writerVars
<1>8. WriterEndOK'
  BY <1>1, <1>2 DEF PipelineInv, WriterEndOK, Looping, writerVars
<1>9. QED
  BY <1>3, <1>4, <1>5, <1>6, <1>7, <1>8 DEF PipelineInv

(* A round that is added up holds a report of every handle, and there is   *)
(* no handle for a generator that has reported less.                       *)
LEMMA RoundMembers ==
  ASSUME PipelineInv, collector = "receiving", position > Len(handles)
  PROVE  Sum(round).members =
           {[from |-> g, index |-> Len(rounds) + 1] : g \in {h \in Generators : progress[h] >= Len(rounds) + 1}}
<1>1. /\ handles \in Seq(Generators) /\ round \in Seq([from : Generators, report : Updates])
      /\ position \in Nat /\ Len(round) = position - 1 /\ position <= Len(handles) + 1
      /\ progress \in [Generators -> Nat] /\ Len(rounds) \in Nat
      /\ \A i \in DOMAIN round : /\ round[i].from = handles[i]
                                 /\ round[i].report.index = Len(rounds) + 1
  BY RoundNumbers DEF PipelineInv, PipelineTypeOK, RoundOK
<1>2. Len(handles) \in Nat /\ DOMAIN handles = 1 .. Len(handles) /\ DOMAIN round = 1 .. Len(round)
  BY <1>1
<1>3. Len(round) \in Nat /\ position = Len(handles) + 1
  BY <1>1, <1>2
<1>4. Len(round) = Len(handles)
  BY <1>1, <1>2, <1>3
<1>5. DOMAIN round = DOMAIN handles
  BY <1>2, <1>4
<1>6. \A i \in DOMAIN handles : handles[i] \in Generators /\ progress[handles[i]] >= Len(rounds) + 1
  <2>1. ASSUME NEW i \in DOMAIN handles
        PROVE  handles[i] \in Generators /\ progress[handles[i]] >= Len(rounds) + 1
    <3>1. LinkContinues(handles[i], Taken(i)) /\ handles[i] \in Generators
      BY <1>1, Element DEF PipelineInv, HandlesOK, Looping
    <3>2. Taken(i) = Len(rounds) + 1
      <4>1. i < position
        BY <1>2, <1>3
      <4>2. QED
        BY <4>1 DEF Taken
    <3>3. Len(rounds) + 1 <= progress[handles[i]] /\ progress[handles[i]] \in Nat
      BY <1>1, <3>1, <3>2 DEF LinkContinues
    <3>4. QED
      BY <1>1, <3>1, <3>3
  <2>2. QED
    BY <2>1
<1>7. \A g \in Generators : progress[g] >= Len(rounds) + 1 => \E i \in DOMAIN handles : handles[i] = g
  <2>1. ASSUME NEW g \in Generators, progress[g] >= Len(rounds) + 1
        PROVE  ~Gone(g)
    BY <1>1, <2>1 DEF Gone
  <2>2. QED
    BY <2>1 DEF PipelineInv, HandlesOK, Looping
<1>8. Sum(round).members = {[from |-> handles[i], index |-> Len(rounds) + 1] : i \in DOMAIN handles}
  <2>1. \A i \in DOMAIN round : [from |-> round[i].from, index |-> round[i].report.index]
                                  = [from |-> handles[i], index |-> Len(rounds) + 1]
    BY <1>1
  <2>2. Sum(round).members = {[from |-> round[i].from, index |-> round[i].report.index] : i \in DOMAIN round}
    BY DEF Sum
  <2> DEFINE E(i) == [from |-> round[i].from, index |-> round[i].report.index]
             F(i) == [from |-> handles[i], index |-> Len(rounds) + 1]
  <2>3. /\ Sum(round).members = {E(i) : i \in DOMAIN round}
        /\ \A i \in DOMAIN round : E(i) = F(i)
    BY <2>1, <2>2
  <2> HIDE DEF E, F
  <2>4. {E(i) : i \in DOMAIN round} = {F(i) : i \in DOMAIN handles}
    BY <1>5, <2>3
  <2>5. QED
    BY <2>3, <2>4 DEF F
<1>9. QED
  BY <1>6, <1>7, <1>8

LEMMA AddUpKeeps ==
  ASSUME PipelineInv, AddUp
  PROVE  PipelineInv'
<1> DEFINE total == Sum(round)
           done  == Len(rounds)
<1>1. /\ collector = "receiving" /\ Looping /\ outcome = "none" /\ position > Len(handles)
      /\ rounds' = Append(rounds, total) /\ collector' = "sending"
      /\ summary' = [count |-> summary.count + 1,
                     load  |-> summary.load \/ (Classify(summary.count) = "load" /\ total.dropped)]
      /\ UNCHANGED <<generatorVars, outcome, handles, position, round, channel, error, writerVars>>
  BY DEF AddUp, Record, RoundEnds, Looping, PipelineInv, OutcomeOK
<1>2. total \in Totals /\ rounds \in Seq(Totals) /\ done \in Nat /\ handles \in Seq(Generators)
  BY SumIsTotal, RoundNumbers DEF PipelineInv, PipelineTypeOK
<1>3. total.members = {[from |-> g, index |-> done + 1] : g \in {h \in Generators : progress[h] >= done + 1}}
  BY <1>1, RoundMembers
<1> HIDE DEF total
<1>4. /\ rounds' \in Seq(Totals) /\ Len(rounds') = done + 1 /\ DOMAIN rounds' = 1 .. done + 1
      /\ rounds'[done + 1] = total /\ DOMAIN rounds = 1 .. done
      /\ \A n \in 1 .. done : rounds'[n] = rounds[n]
  BY <1>1, <1>2, Added
<1> HIDE DEF done
<1>5. summary \in [count : Nat, load : BOOLEAN] /\ summary.count = done
  BY DEF PipelineInv, PipelineTypeOK, SummaryOK, done
<1>6. summary' \in [count : Nat, load : BOOLEAN]
  <2>1. summary.count + 1 \in Nat
    BY <1>2, <1>5
  <2>2. (summary.load \/ (Classify(summary.count) = "load" /\ total.dropped)) \in BOOLEAN
    BY Zenon
  <2>3. QED
    BY <1>1, <2>1, <2>2
<1>7. PipelineTypeOK'
  BY <1>1, <1>4, <1>6 DEF PipelineInv, PipelineTypeOK, generatorVars, writerVars
<1>8. HandlesOK'
  <2>1. Len(handles) \in Nat /\ DOMAIN handles = 1 .. Len(handles) /\ position \in Nat
    BY <1>2 DEF PipelineInv, PipelineTypeOK
  <2>2. ASSUME NEW i \in DOMAIN handles
        PROVE  LinkContinues(handles[i], Taken(i))'
    <3>1. LinkContinues(handles[i], Taken(i))
      BY <1>1 DEF PipelineInv, HandlesOK
    <3>2. i < position
      BY <1>1, <2>1
    <3>3. Taken(i)' = Taken(i)
      BY <1>1, <1>4, <3>2 DEF Taken, done
    <3>4. QED
      BY <1>1, <3>1, <3>3 DEF LinkContinues, OnTime, generatorVars
  <2>3. ASSUME NEW g \in Generators, Gone(g)
        PROVE  Gone(g)'
    <3>1. progress[g] \in Nat /\ progress[g] <= done
      BY <2>3 DEF PipelineInv, PipelineTypeOK, Gone, done
    <3>2. progress[g] <= done + 1
      BY <1>2, <3>1 DEF done
    <3>3. QED
      BY <1>1, <1>4, <2>3, <3>2 DEF Gone, generatorVars
  <2>4. QED
    BY <1>1, <2>2, <2>3 DEF PipelineInv, HandlesOK
<1>9. RoundOK'
  <2>1. Len(rounds') \in 1 .. done + 1 /\ rounds' # <<>>
    BY <1>2, <1>4 DEF done
  <2>2. Sum(round)' = total
    BY <1>1 DEF total, Sum
  <2>3. QED
    BY <1>1, <1>4, <2>1, <2>2 DEF RoundOK
<1>10. OutcomeOK' /\ MismatchOnlyInDrain' /\ ErrorPrecedesReturn'
  BY <1>1 DEF OutcomeOK, MismatchOnlyInDrain, ErrorPrecedesReturn
<1>11. /\ classified \in Nat /\ Len(channel) \in Nat /\ DOMAIN channel = 1 .. Len(channel)
       /\ classified + Len(channel) = done
       /\ \A i \in DOMAIN channel : channel[i] = rounds[classified + i]
  BY <1>1 DEF PipelineInv, PipelineTypeOK, ChannelOK, done
<1>12. ChannelOK'
  <2>1. classified' = classified /\ channel' = channel
    BY <1>1 DEF writerVars
  <2>2. classified + Len(channel) <= done + 1 /\ classified + Len(channel) + 1 = done + 1
    BY <1>11
  <2>3. ASSUME NEW i \in DOMAIN channel
        PROVE  channel[i] = rounds'[classified + i]
    <3>1. classified + i \in 1 .. done
      BY <1>11
    <3>2. QED
      BY <1>4, <1>11, <3>1
  <2>4. QED
    BY <1>1, <1>4, <2>1, <2>2, <2>3 DEF ChannelOK
<1>13. WrittenOK'
  <2>1. ASSUME writer = "persisting"
        PROVE  row = [report |-> rounds'[classified], phase |-> PhaseOf(classified)]
    <3>1. classified > 0 /\ row = [report |-> rounds[classified], phase |-> PhaseOf(classified)]
      BY <2>1 DEF PipelineInv, WrittenOK, RowOf
    <3>2. classified \in 1 .. done
      BY <1>11, <3>1
    <3>3. QED
      BY <1>4, <3>1, <3>2
  <2>2. QED
    BY <1>1, <2>1 DEF PipelineInv, WrittenOK, RowOf, writerVars
<1>14. WriterEndOK'
  BY <1>1 DEF PipelineInv, WriterEndOK, Looping, writerVars
<1>15. \A n \in 1 .. done + 1 : n \in 1 .. done \/ n = done + 1
  BY <1>2
<1>16. SummaryOK'
  <2>1. summary'.count = done + 1
    BY <1>1, <1>5
  <2>2. Classify(done) = PhaseOf(done + 1)
    BY <1>2, Phases DEF done
  <2>3. summary.load <=> \E n \in 1 .. done : PhaseOf(n) = "load" /\ rounds[n].dropped
    BY <1>4 DEF PipelineInv, SummaryOK
  <2>4. (\E n \in 1 .. done + 1 : PhaseOf(n) = "load" /\ rounds'[n].dropped)
          <=> \/ \E n \in 1 .. done : PhaseOf(n) = "load" /\ rounds[n].dropped
              \/ PhaseOf(done + 1) = "load" /\ total.dropped
    <3>1. done + 1 \in 1 .. done + 1 /\ \A n \in 1 .. done : n \in 1 .. done + 1
      BY <1>2 DEF done
    <3>2. QED
      BY <1>4, <1>15, <3>1, Zenon
  <2>5. summary'.load <=> (summary.load \/ (Classify(done) = "load" /\ total.dropped))
    BY <1>1, <1>5
  <2>6. QED
    BY <1>4, <2>1, <2>2, <2>3, <2>4, <2>5 DEF SummaryOK
<1>17. RoundsComplete'
  <2>1. \A n \in 1 .. done : rounds[n].members =
          {[from |-> g, index |-> n] : g \in {h \in Generators : progress[h] >= n}}
    BY <1>4 DEF PipelineInv, RoundsComplete
  <2>2. ASSUME NEW n \in 1 .. done + 1
        PROVE  rounds'[n].members =
                 {[from |-> g, index |-> n] : g \in {h \in Generators : progress[h] >= n}}
    BY <1>3, <1>4, <1>15, <2>1
  <2>3. progress' = progress
    BY <1>1 DEF generatorVars
  <2>4. QED
    BY <1>4, <2>2, <2>3 DEF RoundsComplete
<1>18. FilesArePrefixes'
  <2>1. ASSUME NEW p \in Persisters
        PROVE  /\ Len(written[p]) <= done + 1
               /\ \A n \in DOMAIN written[p] :
                    written[p][n] = [report |-> rounds'[n], phase |-> PhaseOf(n)]
    <3>1. /\ Len(written[p]) <= done
          /\ \A n \in DOMAIN written[p] :
               written[p][n] = [report |-> rounds[n], phase |-> PhaseOf(n)]
      BY DEF PipelineInv, FilesArePrefixes, done
    <3>2. Len(written[p]) \in Nat /\ DOMAIN written[p] = 1 .. Len(written[p])
      BY DEF PipelineInv, PipelineTypeOK
    <3>3. Len(written[p]) <= done + 1 /\ \A n \in DOMAIN written[p] : n \in 1 .. done
      BY <1>2, <3>1, <3>2 DEF done
    <3>4. QED
      BY <1>4, <3>1, <3>3
  <2>2. QED
    BY <1>1, <1>4, <2>1 DEF PipelineInv, FilesArePrefixes, writerVars
<1>19. QED
  BY <1>7, <1>8, <1>9, <1>10, <1>12, <1>13, <1>14, <1>16, <1>17, <1>18 DEF PipelineInv

LEMMA SendToWriterKeeps ==
  ASSUME PipelineInv, SendToWriter
  PROVE  PipelineInv'
<1> DEFINE total == Sum(round)
<1>1. /\ collector = "sending" /\ Looping /\ outcome = "none" /\ writer # "done"
      /\ Len(channel) < 2 /\ channel' = Append(channel, total)
      /\ collector' = "receiving" /\ position' = 1 /\ round' = <<>>
      /\ UNCHANGED <<generatorVars, outcome, handles, summary, rounds, error, writerVars>>
  BY DEF SendToWriter, Looping, PipelineInv, OutcomeOK
<1>2. /\ total \in Totals /\ channel \in Seq(Totals) /\ handles \in Seq(Generators)
      /\ classified \in Nat /\ Len(rounds) \in Nat
      /\ rounds[Len(rounds)] = total /\ classified + Len(channel) + 1 = Len(rounds)
      /\ \A i \in DOMAIN channel : channel[i] = rounds[classified + i]
  BY <1>1, SumIsTotal, RoundNumbers DEF PipelineInv, PipelineTypeOK, RoundOK, ChannelOK
<1> HIDE DEF total
<1>3. /\ channel' \in Seq(Totals) /\ Len(channel') = Len(channel) + 1 /\ Len(channel) \in Nat
      /\ DOMAIN channel' = 1 .. Len(channel) + 1 /\ channel'[Len(channel) + 1] = total
      /\ DOMAIN channel = 1 .. Len(channel)
      /\ \A i \in 1 .. Len(channel) : channel'[i] = channel[i]
  BY <1>1, <1>2, Added
<1>4. PipelineTypeOK'
  BY <1>1, <1>3 DEF PipelineInv, PipelineTypeOK, generatorVars, writerVars
<1>5. HandlesOK'
  <2>1. ASSUME NEW i \in DOMAIN handles
        PROVE  Taken(i)' = Taken(i)
    <3>1. i \in Nat \ {0}
      BY <1>2
    <3>2. QED
      BY <1>1, <3>1 DEF Taken
  <2>2. QED
    BY <1>1, <2>1 DEF PipelineInv, HandlesOK, Looping, LinkContinues, OnTime, Gone, generatorVars
<1>6. RoundOK'
  <2>1. Len(handles) \in Nat
    BY <1>2
  <2>2. Len(<<>>) = 0 /\ DOMAIN <<>> = {} /\ 1 <= Len(handles) + 1
    BY <2>1
  <2>3. QED
    BY <1>1, <2>2 DEF RoundOK
<1>7. OutcomeOK' /\ MismatchOnlyInDrain' /\ ErrorPrecedesReturn'
  BY <1>1 DEF OutcomeOK, MismatchOnlyInDrain, ErrorPrecedesReturn
<1>8. ChannelOK'
  <2>1. classified + Len(channel') = Len(rounds)
    BY <1>2, <1>3
  <2>2. ASSUME NEW i \in 1 .. Len(channel) + 1
        PROVE  channel'[i] = rounds[classified + i]
    <3>1. CASE i = Len(channel) + 1
      <4>1. classified + i = Len(rounds)
        BY <1>2, <1>3, <3>1
      <4>2. QED
        BY <1>2, <1>3, <3>1, <4>1, Zenon
    <3>2. CASE i \in 1 .. Len(channel)
      BY <1>2, <1>3, <3>2
    <3>3. QED
      BY <1>3, <3>1, <3>2
  <2>3. classified' = classified /\ rounds' = rounds /\ classified + Len(channel') <= Len(rounds)
    BY <1>1, <1>2, <2>1 DEF writerVars
  <2>4. QED
    BY <1>1, <1>3, <2>1, <2>2, <2>3 DEF ChannelOK
<1>9. WrittenOK' /\ SummaryOK' /\ RoundsComplete' /\ FilesArePrefixes'
  BY <1>1 DEF PipelineInv, WrittenOK, SummaryOK, RoundsComplete, FilesArePrefixes, RowOf,
              generatorVars, writerVars
<1>10. WriterEndOK'
  BY <1>1 DEF PipelineInv, WriterEndOK, Looping, writerVars
<1>11. QED
  BY <1>4, <1>5, <1>6, <1>7, <1>8, <1>9, <1>10 DEF PipelineInv

LEMMA CollectKeeps ==
  ASSUME PipelineInv, Collect
  PROVE  PipelineInv'
BY ReceiveReportKeeps, ReceiveFinishedKeeps, InstanceCrashedKeeps, ExhaustedKeeps,
   TimeMismatchKeeps, AddUpKeeps, SendToWriterKeeps, SendFailsKeeps, ErrorSignaledKeeps,
   ConcludeKeeps DEF Collect

-----------------------------------------------------------------------------
(* The writer's steps.                                                     *)
LEMMA WriterStepsLeave ==
  ASSUME PipelineInv, UNCHANGED <<generatorVars, runnerVars>>,
         writer # "done" \/ UNCHANGED <<writer, error>>
  PROVE  /\ HandlesOK' /\ RoundOK' /\ OutcomeOK' /\ SummaryOK' /\ RoundsComplete'
         /\ MismatchOnlyInDrain' /\ ErrorPrecedesReturn'
<1>1. UNCHANGED <<progress, last, link, ended, collector, outcome, handles, position, round,
                  summary, rounds>>
  BY DEF generatorVars, runnerVars, loopVars
<1>2. HandlesOK'
  <2>1. \A i \in DOMAIN handles : Taken(i)' = Taken(i)
    BY <1>1 DEF Taken
  <2>2. \A i \in DOMAIN handles :
          LinkContinues(handles[i], Taken(i)) => LinkContinues(handles[i], Taken(i))'
    BY <1>1, <2>1 DEF LinkContinues, OnTime
  <2>3. \A g \in Generators : Gone(g)' <=> Gone(g)
    BY <1>1 DEF Gone
  <2>4. QED
    BY <1>1, <2>2, <2>3 DEF PipelineInv, HandlesOK, Looping
<1>3. RoundOK' /\ SummaryOK' /\ RoundsComplete' /\ MismatchOnlyInDrain' /\ ErrorPrecedesReturn'
  BY <1>1 DEF PipelineInv, RoundOK, SummaryOK, RoundsComplete, MismatchOnlyInDrain,
              ErrorPrecedesReturn, Sum, OnTime
<1>4. OutcomeOK'
  BY <1>1 DEF PipelineInv, OutcomeOK, Gone
<1>5. QED
  BY <1>2, <1>3, <1>4

LEMMA WriterReceivesKeeps ==
  ASSUME PipelineInv, WriterReceives
  PROVE  PipelineInv'
<1>1. /\ writer = "receiving" /\ channel # <<>> /\ channel' = Tail(channel)
      /\ row' = [report |-> Head(channel), phase |-> Classify(classified)]
      /\ classified' = classified + 1 /\ writer' = "persisting" /\ file' = 1
      /\ UNCHANGED <<generatorVars, runnerVars, error, written, flushed>>
  BY DEF WriterReceives
<1>2. /\ channel \in Seq(Totals) /\ classified \in Nat /\ rounds \in Seq(Totals)
      /\ Len(rounds) \in Nat /\ Len(channel) <= 2 /\ written \in [Persisters -> Seq(Rows)]
      /\ UNCHANGED <<collector, outcome, rounds>>
  BY <1>1, RoundNumbers DEF PipelineInv, PipelineTypeOK, runnerVars, loopVars
<1>3. /\ Len(channel) \in Nat \ {0} /\ Head(channel) \in Totals /\ Head(channel) = channel[1]
      /\ channel' \in Seq(Totals) /\ Len(channel') = Len(channel) - 1
      /\ DOMAIN channel' = 1 .. Len(channel) - 1 /\ DOMAIN channel = 1 .. Len(channel)
      /\ \A i \in 1 .. Len(channel) - 1 : channel'[i] = channel[i + 1]
  BY <1>1, <1>2, Dropped
<1>4. /\ Classify(classified) = PhaseOf(classified + 1)
      /\ PhaseOf(classified + 1) \in {"warmup", "pause", "load"}
  <2>1. classified + 1 \in Nat \ {0}
    BY <1>2
  <2>2. QED
    BY <1>2, <2>1, Phases
<1>5. /\ classified + Len(channel) <= Len(rounds)
      /\ collector = "receiving" \/ outcome = "exhausted" => classified + Len(channel) = Len(rounds)
      /\ collector = "sending" => classified + Len(channel) + 1 = Len(rounds)
      /\ \A i \in DOMAIN channel : channel[i] = rounds[classified + i]
  BY DEF PipelineInv, ChannelOK
<1>6. row' = RowOf(classified + 1)
  <2>1. 1 \in DOMAIN channel
    BY <1>3
  <2>2. Head(channel) = rounds[classified + 1]
    BY <1>3, <1>5, <2>1
  <2>3. QED
    BY <1>1, <1>4, <2>2 DEF RowOf
<1>7. PipelineTypeOK'
  <2>1. row' \in Rows
    BY <1>1, <1>3, <1>4 DEF Rows
  <2>2. 1 \in Persisters
    BY Constants DEF Persisters
  <2>3. classified + 1 \in Nat /\ Len(channel') <= 2
    BY <1>2, <1>3
  <2>4. QED
    BY <1>1, <1>3, <2>1, <2>2, <2>3 DEF PipelineInv, PipelineTypeOK, generatorVars, runnerVars, loopVars
<1>8. ChannelOK'
  <2>1. (classified + 1) + Len(channel') = classified + Len(channel)
    BY <1>2, <1>3
  <2>2. ASSUME NEW i \in 1 .. Len(channel) - 1
        PROVE  channel'[i] = rounds[(classified + 1) + i]
    <3>1. i + 1 \in 1 .. Len(channel) /\ classified + (i + 1) = (classified + 1) + i
      BY <1>2, <1>3
    <3>2. channel[i + 1] = rounds[classified + (i + 1)]
      BY <1>3, <1>5, <3>1
    <3>3. QED
      BY <1>3, <3>1, <3>2, Zenon
  <2>3. QED
    BY <1>1, <1>2, <1>3, <1>5, <2>1, <2>2 DEF ChannelOK
<1>9. WrittenOK'
  <2>1. \A p \in Persisters : Len(written[p]) = classified
    BY <1>1 DEF PipelineInv, WrittenOK
  <2>2. classified + 1 > 0 /\ classified <= classified + 1 /\ classified + 1 - 1 = classified
    BY <1>2
  <2>3. \A p \in Persisters : ~(p < 1)
    BY DEF Persisters
  <2>4. row' = [report |-> rounds'[classified + 1], phase |-> PhaseOf(classified + 1)]
    BY <1>2, <1>6 DEF RowOf
  <2>5. QED
    BY <1>1, <2>1, <2>2, <2>3, <2>4 DEF WrittenOK, RowOf
<1>10. WriterEndOK' /\ FilesArePrefixes'
  BY <1>1, <1>2 DEF PipelineInv, WriterEndOK, FilesArePrefixes
<1>11. QED
  BY <1>1, <1>7, <1>8, <1>9, <1>10, WriterStepsLeave DEF PipelineInv

LEMMA WriterClosedKeeps ==
  ASSUME PipelineInv, WriterClosed
  PROVE  PipelineInv'
<1>1. /\ writer = "receiving" /\ channel = <<>> /\ collector = "closing"
      /\ writer' = "flushing_last" /\ file' = 1
      /\ UNCHANGED <<generatorVars, runnerVars, channel, error, row, classified, written, flushed>>
  BY DEF WriterClosed
<1>2. UNCHANGED <<collector, outcome, rounds>>
  BY <1>1 DEF runnerVars, loopVars
<1>3. 1 \in Persisters /\ \A p \in Persisters : ~(p < 1)
  BY Constants DEF Persisters
<1>4. PipelineTypeOK'
  BY <1>1, <1>3 DEF PipelineInv, PipelineTypeOK, generatorVars, runnerVars, loopVars
<1>5. ChannelOK' /\ WrittenOK' /\ FilesArePrefixes'
  BY <1>1, <1>2 DEF PipelineInv, ChannelOK, WrittenOK, FilesArePrefixes
<1>6. WriterEndOK'
  BY <1>1, <1>2, <1>3 DEF PipelineInv, WriterEndOK, Looping
<1>7. QED
  BY <1>1, <1>4, <1>5, <1>6, WriterStepsLeave DEF PipelineInv

LEMMA NextFileFacts ==
  ASSUME PipelineInv, NEW then, NextFile(then)
  PROVE  /\ file \in Nat \ {0} /\ file <= Files
         /\ \/ file < Files /\ file' = file + 1 /\ writer' = writer
            \/ file = Files /\ file' = 1 /\ writer' = then
         /\ file' \in Persisters
<1>1. file \in 1 .. Files
  BY DEF PipelineInv, PipelineTypeOK, Persisters
<1>2. CASE file < Files
  BY <1>1, <1>2, Constants DEF NextFile, Persisters
<1>3. CASE file = Files
  BY <1>1, <1>3, Constants DEF NextFile, Persisters
<1>4. QED
  BY <1>1, <1>2, <1>3, Constants

LEMMA PersistKeeps ==
  ASSUME PipelineInv, Persist
  PROVE  PipelineInv'
<1>1. /\ writer = "persisting" /\ NextFile("flushing")
      /\ written' = [written EXCEPT ![file] = Append(@, row)]
      /\ UNCHANGED <<generatorVars, runnerVars, channel, error, row, classified, flushed>>
  BY DEF Persist
<1>2. /\ file \in Nat \ {0} /\ file <= Files /\ file' \in Persisters
      /\ \/ file < Files /\ file' = file + 1 /\ writer' = "persisting"
         \/ file = Files /\ file' = 1 /\ writer' = "flushing"
  BY <1>1, NextFileFacts
<1>3. /\ file \in Persisters /\ row \in Rows /\ written \in [Persisters -> Seq(Rows)]
      /\ flushed \in [Persisters -> Nat] /\ classified \in Nat /\ Len(channel) \in Nat
      /\ Len(rounds) \in Nat
      /\ UNCHANGED <<collector, outcome, rounds>>
  BY <1>1, RoundNumbers DEF PipelineInv, PipelineTypeOK, runnerVars, loopVars
<1>4. /\ written[file] \in Seq(Rows) /\ Len(written[file]) \in Nat
      /\ DOMAIN written[file] = 1 .. Len(written[file])
      /\ Append(written[file], row) \in Seq(Rows)
      /\ Len(Append(written[file], row)) = Len(written[file]) + 1
      /\ DOMAIN Append(written[file], row) = 1 .. Len(written[file]) + 1
      /\ Append(written[file], row)[Len(written[file]) + 1] = row
      /\ \A n \in 1 .. Len(written[file]) : Append(written[file], row)[n] = written[file][n]
  BY <1>3, Added
<1>5. /\ written' \in [Persisters -> Seq(Rows)] /\ written'[file] = Append(written[file], row)
      /\ \A p \in Persisters : p # file => written'[p] = written[p]
  BY <1>1, <1>3, <1>4
<1>6. /\ classified > 0 /\ row = RowOf(classified) /\ classified <= Len(rounds)
      /\ \A p \in Persisters : Len(written[p]) = IF p < file THEN classified ELSE classified - 1
  BY <1>1, <1>3 DEF PipelineInv, WrittenOK, ChannelOK
<1>7. Len(written[file]) = classified - 1 /\ Len(written'[file]) = classified
  BY <1>2, <1>3, <1>4, <1>5, <1>6
<1>8. ASSUME NEW p \in Persisters
      PROVE  Len(written'[p]) = IF p <= file THEN classified ELSE classified - 1
  <2>1. p \in Nat
    BY DEF Persisters
  <2>2. CASE p = file
    BY <1>7, <2>1, <2>2
  <2>3. CASE p # file
    BY <1>2, <1>5, <1>6, <2>1, <2>3
  <2>4. QED
    BY <2>2, <2>3
<1>9. PipelineTypeOK'
  BY <1>1, <1>2, <1>5 DEF PipelineInv, PipelineTypeOK, generatorVars, runnerVars, loopVars
<1>10. ChannelOK'
  BY <1>1, <1>3 DEF PipelineInv, ChannelOK
<1>11. WrittenOK'
  <2>1. \A p \in Persisters : Len(written'[p]) <= classified
    BY <1>3, <1>6, <1>8
  <2>2. CASE writer' = "persisting"
    <3>1. \A p \in Persisters : p <= file <=> p < file'
      BY <1>2, <2>2 DEF Persisters
    <3>2. QED
      BY <1>1, <1>3, <1>6, <1>8, <2>1, <2>2, <3>1 DEF WrittenOK, RowOf
  <2>3. CASE writer' = "flushing"
    <3>1. \A p \in Persisters : p <= file
      BY <1>2, <2>3 DEF Persisters
    <3>2. QED
      BY <1>1, <1>8, <2>1, <2>3, <3>1 DEF WrittenOK
  <2>4. QED
    BY <1>2, <2>2, <2>3
<1>12. WriterEndOK'
  BY <1>1, <1>2 DEF PipelineInv, WriterEndOK
<1>13. FilesArePrefixes'
  <2>1. ASSUME NEW p \in Persisters
        PROVE  /\ Len(written'[p]) <= Len(rounds) /\ flushed[p] <= Len(written'[p])
               /\ \A n \in DOMAIN written'[p] : written'[p][n] = RowOf(n)
               /\ \A q \in p .. Files : Len(written'[p]) - Len(written'[q]) \in {0, 1}
    <3>1. /\ Len(written[p]) <= Len(rounds) /\ flushed[p] <= Len(written[p])
          /\ \A n \in DOMAIN written[p] : written[p][n] = RowOf(n)
          /\ flushed[p] \in Nat /\ Len(written[p]) \in Nat
      BY <1>3 DEF PipelineInv, FilesArePrefixes, RowOf
    <3>2. Len(written'[p]) <= Len(rounds)
      BY <1>3, <1>6, <1>8
    <3>3. flushed[p] <= Len(written'[p])
      <4>1. CASE p = file
        <5>1. flushed[p] <= classified - 1
          BY <1>7, <3>1, <4>1
        <5>2. flushed[p] <= classified
          BY <1>3, <3>1, <5>1
        <5>3. QED
          BY <1>7, <4>1, <5>2
      <4>2. CASE p # file
        BY <1>5, <3>1, <4>2
      <4>3. QED
        BY <4>1, <4>2
    <3>4. \A n \in DOMAIN written'[p] : written'[p][n] = RowOf(n)
      <4>1. CASE p = file
        <5>1. ASSUME NEW n \in 1 .. Len(written[file]) + 1
              PROVE  written'[file][n] = RowOf(n)
          <6>1. CASE n = Len(written[file]) + 1
            <7>1. n = classified
              BY <1>3, <1>7, <6>1
            <7>2. QED
              BY <1>4, <1>5, <1>6, <6>1, <7>1
          <6>2. CASE n \in 1 .. Len(written[file])
            BY <1>4, <1>5, <3>1, <4>1, <6>2
          <6>3. QED
            BY <1>4, <6>1, <6>2
        <5>2. QED
          BY <1>4, <1>5, <4>1, <5>1
      <4>2. CASE p # file
        BY <1>5, <3>1, <4>2
      <4>3. QED
        BY <4>1, <4>2
    <3>5. ASSUME NEW q \in p .. Files
          PROVE  Len(written'[p]) - Len(written'[q]) \in {0, 1}
      <4>1. q \in Persisters /\ p \in Nat /\ q \in Nat /\ p <= q
        BY Constants DEF Persisters
      <4>2. /\ Len(written'[p]) = IF p <= file THEN classified ELSE classified - 1
            /\ Len(written'[q]) = IF q <= file THEN classified ELSE classified - 1
        BY <1>8, <4>1
      <4>3. QED
        BY <1>2, <1>3, <4>1, <4>2
    <3>6. QED
      BY <3>2, <3>3, <3>4, <3>5
  <2>2. flushed' = flushed /\ rounds' = rounds
    BY <1>1, <1>3
  <2>3. QED
    BY <2>1, <2>2 DEF FilesArePrefixes, RowOf
<1>14. QED
  BY <1>1, <1>9, <1>10, <1>11, <1>12, <1>13, WriterStepsLeave DEF PipelineInv

LEMMA FlushKeeps ==
  ASSUME PipelineInv, Flush
  PROVE  PipelineInv'
<1>1. /\ writer \in {"flushing", "flushing_last"}
      /\ NextFile(IF writer = "flushing" THEN "receiving" ELSE "done")
      /\ flushed' = [flushed EXCEPT ![file] = Len(written[file])]
      /\ UNCHANGED <<generatorVars, runnerVars, channel, error, row, classified, written>>
  BY DEF Flush
<1>2. /\ file \in Nat \ {0} /\ file <= Files /\ file' \in Persisters
      /\ \/ file < Files /\ file' = file + 1 /\ writer' = writer
         \/ file = Files /\ file' = 1 /\ writer' = IF writer = "flushing" THEN "receiving" ELSE "done"
  BY <1>1, NextFileFacts
<1>3. /\ file \in Persisters /\ flushed \in [Persisters -> Nat] /\ classified \in Nat
      /\ written \in [Persisters -> Seq(Rows)] /\ Len(written[file]) \in Nat
      /\ UNCHANGED <<collector, outcome, rounds>>
  BY <1>1 DEF PipelineInv, PipelineTypeOK, runnerVars, loopVars
<1>4. /\ flushed' \in [Persisters -> Nat] /\ flushed'[file] = Len(written[file])
      /\ \A p \in Persisters : p # file => flushed'[p] = flushed[p]
  BY <1>1, <1>3
<1>5. \A p \in Persisters : Len(written[p]) = classified
  BY <1>1 DEF PipelineInv, WrittenOK
<1>6. PipelineTypeOK'
  BY <1>1, <1>2, <1>4 DEF PipelineInv, PipelineTypeOK, generatorVars, runnerVars, loopVars
<1>7. ChannelOK'
  BY <1>1, <1>3 DEF PipelineInv, ChannelOK
<1>8. WrittenOK'
  <2>1. classified <= classified /\ writer' # "persisting"
    BY <1>1, <1>2, <1>3
  <2>2. QED
    BY <1>1, <1>5, <2>1 DEF WrittenOK
<1>9. WriterEndOK'
  <2>1. error = "none" /\ error' = "none"
    BY <1>1 DEF PipelineInv, WriterEndOK
  <2>2. CASE writer = "flushing"
    BY <1>1, <1>2, <2>1, <2>2 DEF WriterEndOK
  <2>3. CASE writer = "flushing_last"
    <3>1. /\ ~Looping /\ ~Looping' /\ channel = <<>> /\ channel' = <<>>
          /\ \A p \in Persisters : p < file => flushed[p] = classified
      BY <1>1, <1>3, <2>1, <2>3 DEF PipelineInv, WriterEndOK, Looping
    <3>2. ASSUME NEW p \in Persisters, p <= file
          PROVE  flushed'[p] = classified
      <4>1. p = file \/ p < file
        BY <1>2, <3>2 DEF Persisters
      <4>2. p \in Nat /\ (p < file => p # file)
        BY <1>2 DEF Persisters
      <4>3. QED
        BY <1>3, <1>4, <1>5, <3>1, <4>1, <4>2
    <3>3. CASE writer' = "flushing_last"
      <4>1. \A p \in Persisters : p < file' => p <= file
        BY <1>2, <2>3, <3>3 DEF Persisters
      <4>2. QED
        BY <1>1, <2>1, <3>1, <3>2, <3>3, <4>1 DEF WriterEndOK
    <3>4. CASE writer' = "done"
      <4>1. \A p \in Persisters : p <= file
        BY <1>2, <2>3, <3>4 DEF Persisters
      <4>2. QED
        BY <1>1, <1>5, <2>1, <3>1, <3>2, <3>4, <4>1 DEF WriterEndOK
    <3>5. QED
      BY <1>2, <2>3, <3>3, <3>4
  <2>4. QED
    BY <1>1, <2>2, <2>3
<1>10. FilesArePrefixes'
  <2>1. ASSUME NEW p \in Persisters
        PROVE  flushed'[p] <= Len(written[p])
    <3>1. flushed[p] <= Len(written[p])
      BY DEF PipelineInv, FilesArePrefixes
    <3>2. CASE p = file
      BY <1>3, <1>4, <3>2
    <3>3. CASE p # file
      BY <1>4, <3>1, <3>3
    <3>4. QED
      BY <3>2, <3>3
  <2>2. QED
    BY <1>1, <1>3, <2>1 DEF PipelineInv, FilesArePrefixes
<1>11. QED
  BY <1>1, <1>6, <1>7, <1>8, <1>9, <1>10, WriterStepsLeave DEF PipelineInv

LEMMA PersisterFailsKeeps ==
  ASSUME PipelineInv, PersisterFails
  PROVE  PipelineInv'
<1>1. /\ writer \in {"persisting", "flushing", "flushing_last"}
      /\ error' = "sent" /\ writer' = "failing"
      /\ UNCHANGED <<generatorVars, runnerVars, channel, file, row, classified, written, flushed>>
  BY DEF PersisterFails
<1>2. UNCHANGED <<collector, outcome, rounds>>
  BY <1>1 DEF runnerVars, loopVars
<1>3. PipelineTypeOK'
  BY <1>1 DEF PipelineInv, PipelineTypeOK, generatorVars, runnerVars, loopVars
<1>4. ChannelOK' /\ WrittenOK' /\ WriterEndOK' /\ FilesArePrefixes'
  BY <1>1, <1>2 DEF PipelineInv, ChannelOK, WrittenOK, WriterEndOK, FilesArePrefixes
<1>5. QED
  BY <1>1, <1>3, <1>4, WriterStepsLeave DEF PipelineInv

LEMMA WriterReturnsKeeps ==
  ASSUME PipelineInv, WriterReturns
  PROVE  PipelineInv'
<1>1. /\ writer = "failing" /\ writer' = "done"
      /\ UNCHANGED <<generatorVars, runnerVars, channel, error, file, row, classified, written,
                     flushed>>
  BY DEF WriterReturns
<1>2. UNCHANGED <<collector, outcome, rounds>>
  BY <1>1 DEF runnerVars, loopVars
<1>3. PipelineTypeOK'
  BY <1>1 DEF PipelineInv, PipelineTypeOK, generatorVars, runnerVars, loopVars
<1>4. ChannelOK' /\ WrittenOK' /\ FilesArePrefixes'
  BY <1>1, <1>2 DEF PipelineInv, ChannelOK, WrittenOK, FilesArePrefixes
<1>5. WriterEndOK'
  BY <1>1, <1>2 DEF PipelineInv, WriterEndOK, Looping
<1>6. QED
  BY <1>1, <1>3, <1>4, <1>5, WriterStepsLeave DEF PipelineInv

-----------------------------------------------------------------------------
(* The inductive invariant.                                                *)
LEMMA InitPipelineInv == Init => PipelineInv
<1> SUFFICES ASSUME Init
             PROVE  PipelineInv
  OBVIOUS
<1> USE DEF Init
<1>1. /\ 1 \in Persisters /\ NoRow \in Rows /\ \A i \in 1 .. N : i \in Generators
      /\ N \in Nat
  BY Constants DEF Persisters, NoRow, Rows, Totals, Generators
<1>2. /\ handles \in [1 .. N -> Generators] /\ handles \in Seq(Generators)
      /\ Len(handles) = N /\ DOMAIN handles = 1 .. N
  <2>1. handles \in [1 .. N -> Generators]
    BY <1>1
  <2>2. handles \in Seq(Generators)
    BY <1>1, <2>1, IsASeq
  <2>3. QED
    BY <1>1, <2>1, <2>2, LenProperties
<1>3. PipelineTypeOK
  BY <1>1, <1>2 DEF PipelineTypeOK
<1>4. HandlesOK
  <2>1. \A g \in Generators : \E i \in DOMAIN handles : handles[i] = g
    BY <1>2 DEF Generators
  <2>2. ASSUME NEW i \in DOMAIN handles
        PROVE  LinkContinues(handles[i], Taken(i))
    <3>1. handles[i] \in Generators /\ i \in Nat \ {0}
      BY <1>2
    <3>2. Taken(i) = 0
      BY <3>1 DEF Taken
    <3>3. Len(<<>>) = 0 /\ DOMAIN <<>> = {}
      OBVIOUS
    <3>4. QED
      BY <3>1, <3>2, <3>3 DEF LinkContinues
  <2>3. \A i, j \in DOMAIN handles : handles[i] = handles[j] => i = j
    BY <1>2
  <2>4. QED
    BY <2>1, <2>2, <2>3 DEF HandlesOK
<1>5. RoundOK /\ OutcomeOK /\ ChannelOK /\ ErrorPrecedesReturn /\ MismatchOnlyInDrain
  BY <1>1, <1>2 DEF RoundOK, OutcomeOK, ChannelOK, ErrorPrecedesReturn, MismatchOnlyInDrain
<1>6. WrittenOK /\ WriterEndOK /\ SummaryOK /\ RoundsComplete
  BY DEF WrittenOK, WriterEndOK, SummaryOK, RoundsComplete
<1>7. FilesArePrefixes
  <2>1. \A p \in Persisters : written[p] = <<>> /\ flushed[p] = 0 /\ \A q \in p .. Files : q \in Persisters
    BY Constants DEF Persisters
  <2>2. Len(<<>>) = 0 /\ DOMAIN <<>> = {}
    OBVIOUS
  <2>3. QED
    BY <2>1, <2>2 DEF FilesArePrefixes
<1>8. QED
  BY <1>3, <1>4, <1>5, <1>6, <1>7 DEF PipelineInv

LEMMA NextKeepsPipelineInv == PipelineInv /\ [Next]_vars => PipelineInv'
<1> SUFFICES ASSUME PipelineInv, [Next]_vars
             PROVE  PipelineInv'
  OBVIOUS
<1>1. CASE \E g \in Generators : Generate(g) \/ Crash(g)
  BY <1>1, GeneratorsKeep
<1>2. CASE Collect
  BY <1>2, CollectKeeps
<1>3. CASE WriterTask
  BY <1>3, WriterReceivesKeeps, WriterClosedKeeps, PersistKeeps, FlushKeeps, WriterReturnsKeeps
     DEF WriterTask
<1>4. CASE PersisterFails
  BY <1>4, PersisterFailsKeeps
<1>5. CASE UNCHANGED vars
  <2>1. UNCHANGED <<generatorVars, runnerVars, channel, error, writerVars>>
    BY <1>5 DEF vars
  <2>2. PipelineTypeOK'
    BY <2>1 DEF PipelineInv, PipelineTypeOK, generatorVars, runnerVars, loopVars, writerVars
  <2>3. QED
    BY <2>1, <2>2, WriterStepsLeave, GeneratorStepsLeave DEF PipelineInv, writerVars
<1>6. QED
  BY <1>1, <1>2, <1>3, <1>4, <1>5 DEF Next

(* The inductive invariant of the pipeline: what every handle has been     *)
(* read, what is left on its link, the way of each round through the       *)
(* channel to the files, and the error that precedes the writer's return.  *)
THEOREM PipelineInvariance == Spec => []PipelineInv
<1>1. QED
  BY InitPipelineInv, NextKeepsPipelineInv, PTL DEF Spec

(* Every round is complete (collect.rs:33-48).                             *)
THEOREM RoundsAreComplete == Spec => []RoundsComplete
<1>1. PipelineInv => RoundsComplete
  BY DEF PipelineInv
<1>2. QED
  BY <1>1, PipelineInvariance, PTL

(* Generators are out of sync in the drain only (collect.rs:61).           *)
THEOREM InSyncUntilDrain == Spec => []MismatchOnlyInDrain
<1>1. PipelineInv => MismatchOnlyInDrain
  BY DEF PipelineInv
<1>2. QED
  BY <1>1, PipelineInvariance, PTL

(* Whatever fails, the files are prefixes of the rounds, with the right    *)
(* phases (persist/mod.rs:73-94).                                          *)
THEOREM FilesStayPrefixes == Spec => []FilesArePrefixes
<1>1. PipelineInv => FilesArePrefixes
  BY DEF PipelineInv
<1>2. QED
  BY <1>1, PipelineInvariance, PTL

(* The runner always finds the error when a send fails (runner.rs:288).    *)
THEOREM NoPanic == Spec => []ErrorPrecedesReturn
<1>1. PipelineInv => ErrorPrecedesReturn
  BY DEF PipelineInv
<1>2. QED
  BY <1>1, PipelineInvariance, PTL

LEMMA WrittenAtEnd == PipelineInv => FinishedMeansWritten
<1> SUFFICES ASSUME PipelineInv, collector = "finished"
             PROVE  /\ \A g \in Generators : ended[g] /\ link[g] = <<>> /\ progress[g] <= Len(rounds)
                    /\ \A p \in Persisters : flushed[p] = Len(rounds) /\ Len(written[p]) = Len(rounds)
  BY DEF FinishedMeansWritten
<1>1. outcome = "exhausted" /\ writer = "done" /\ error = "none" /\ \A g \in Generators : Gone(g)
  BY DEF PipelineInv, OutcomeOK
<1>2. channel = <<>> /\ \A p \in Persisters : flushed[p] = classified /\ Len(written[p]) = classified
  BY <1>1 DEF PipelineInv, WriterEndOK
<1>3. classified + Len(channel) = Len(rounds) /\ classified \in Nat
  BY <1>1 DEF PipelineInv, ChannelOK, PipelineTypeOK
<1>4. classified = Len(rounds)
  <2>1. Len(channel) = 0
    BY <1>2
  <2>2. QED
    BY <1>3, <2>1
<1>5. QED
  BY <1>1, <1>2, <1>4 DEF Gone

(* A test that finishes is on disk, every report of every generator in     *)
(* every file (runner.rs:195-202).                                         *)
THEOREM FinishedIsWritten == Spec => []FinishedMeansWritten
<1>1. QED
  BY WrittenAtEnd, PipelineInvariance, PTL

(* A finished run is called valid exactly if its files show no drop in the *)
(* load phase (summary.rs:91-108).                                         *)
THEOREM ValidityIsWritten == Spec => []ValidMeansNoLoadDrop
<1>1. PipelineInv => ValidMeansNoLoadDrop
  <2> SUFFICES ASSUME PipelineInv, collector = "finished", NEW p \in Persisters
               PROVE  summary.load <=> \E n \in DOMAIN written[p] :
                        written[p][n].phase = "load" /\ written[p][n].report.dropped
    BY DEF ValidMeansNoLoadDrop
  <2>1. Len(written[p]) = Len(rounds)
    BY WrittenAtEnd DEF FinishedMeansWritten
  <2>2. DOMAIN written[p] = 1 .. Len(written[p]) /\ DOMAIN rounds = 1 .. Len(rounds)
    BY RoundNumbers DEF PipelineInv, PipelineTypeOK
  <2>3. \A n \in DOMAIN written[p] : /\ written[p][n].report = rounds[n]
                                     /\ written[p][n].phase = PhaseOf(n)
    <3>1. \A n \in DOMAIN written[p] :
            written[p][n] = [report |-> rounds[n], phase |-> PhaseOf(n)]
      BY DEF PipelineInv, FilesArePrefixes
    <3>2. ASSUME NEW n \in DOMAIN written[p]
          PROVE  written[p][n].report = rounds[n] /\ written[p][n].phase = PhaseOf(n)
      <4> DEFINE report == rounds[n]
                 phase  == PhaseOf(n)
      <4>1. written[p][n] = [report |-> report, phase |-> phase]
        BY <3>1
      <4> HIDE DEF report, phase
      <4>2. written[p][n].report = report /\ written[p][n].phase = phase
        BY <4>1
      <4>3. QED
        BY <4>2 DEF report, phase
    <3>3. QED
      BY <3>2
  <2>4. DOMAIN written[p] = DOMAIN rounds
    BY <2>1, <2>2
  <2>5. QED
    BY <2>3, <2>4 DEF PipelineInv, SummaryOK
<1>2. QED
  BY <1>1, PipelineInvariance, PTL


-----------------------------------------------------------------------------
(* The generators keep to ReportStream.  Their target times are those of   *)
(* the steps until the drain begins.                                       *)
LastOnTime == \A g \in Generators : progress[g] <= Measured => last[g] = TimeOf(progress[g])

SentBy(g)    == IF progress[g] <= Measured THEN progress[g] ELSE Measured
TimeSent(g)  == IF progress[g] <= Measured THEN last[g] ELSE TimeOf(Measured)
FinishedIn(q) == \E j \in DOMAIN q : q[j] = Finished
StreamOf(g)  == IF ~ended[g] THEN "open" ELSE IF FinishedIn(link[g]) THEN "finished" ELSE "closed"

LEMMA SameTargets ==
  ASSUME NEW g, NEW k \in Nat
  PROVE  Stream(g)!Target(k) = TimeOf(k) /\ Stream(g)!Measured = Measured
<1>1. CASE k <= WarmupSteps
  BY <1>1, Constants DEF Stream!Target, Stream!Measured, Measured, TimeOf, PhaseOf
<1>2. CASE k > WarmupSteps + PauseSteps
  BY <1>2, Constants DEF Stream!Target, Stream!Measured, Measured, TimeOf, PhaseOf
<1>3. CASE k > WarmupSteps /\ k <= WarmupSteps + PauseSteps
  BY <1>3, Constants DEF Stream!Target, Stream!Measured, Measured, TimeOf, PhaseOf
<1> QED
  BY <1>1, <1>2, <1>3, Constants

LEMMA SendReportSends ==
  ASSUME PipelineInv, NEW g \in Generators, NEW time, NEW dropped, SendReport(g, time, dropped)
  PROVE  /\ progress'[g] = progress[g] + 1 /\ last'[g] = time /\ ended'[g] = ended[g]
         /\ \A h \in Generators \ {g} : /\ progress'[h] = progress[h] /\ last'[h] = last[h]
                                        /\ link'[h] = link[h] /\ ended'[h] = ended[h]
BY DEF SendReport, Transmit, PipelineInv, PipelineTypeOK

(* Whatever is not a step of generator g leaves what it has sent alone; at *)
(* most it takes the update at the head of its link.                       *)
Elsewhere(g) ==
  /\ progress'[g] = progress[g] /\ last'[g] = last[g] /\ ended'[g] = ended[g]
  /\ link'[g] = link[g] \/ (link[g] # <<>> /\ link'[g] = Tail(link[g]))

LEMMA OthersElsewhere ==
  ASSUME PipelineInv, NEW g \in Generators, [Next]_vars, ~ Generate(g), ~ Crash(g)
  PROVE  Elsewhere(g)
<1>1. link \in [Generators -> Seq(Updates)] /\ ended \in [Generators -> BOOLEAN]
  BY DEF PipelineInv, PipelineTypeOK
<1>2. ASSUME UNCHANGED generatorVars
      PROVE  Elsewhere(g)
  BY <1>2 DEF generatorVars, Elsewhere
<1>3. ASSUME NEW h \in Generators, h # g, Generate(h) \/ Crash(h)
      PROVE  Elsewhere(g)
  <2>1. CASE ReportStep(h) \/ ReportDrain(h)
    <3>1. PICK time, dropped : SendReport(h, time, dropped)
      BY <2>1 DEF ReportStep, ReportDrain
    <3> QED
      BY <1>3, <3>1, SendReportSends DEF Elsewhere
  <2>2. CASE SendFinished(h) \/ Crash(h)
    BY <1>1, <1>3, <2>2 DEF SendFinished, Transmit, Crash, Elsewhere
  <2> QED
    BY <1>3, <2>1, <2>2 DEF Generate
<1>4. CASE ReceiveReport \/ ReceiveFinished
  <2>1. /\ UNCHANGED <<progress, last, ended>> /\ link[Awaited] # <<>>
        /\ link' = [link EXCEPT ![Awaited] = Tail(@)]
    BY <1>4 DEF ReceiveReport, ReceiveFinished
  <2>2. link'[g] = IF Awaited = g THEN Tail(link[g]) ELSE link[g]
    BY <1>1, <2>1, Zenon
  <2> QED
    BY <2>1, <2>2 DEF Elsewhere
<1>5. CASE \/ InstanceCrashed \/ Exhausted \/ TimeMismatch \/ AddUp
           \/ SendToWriter \/ SendFails \/ ErrorSignaled \/ Conclude
  BY <1>2, <1>5 DEF InstanceCrashed, Exhausted, TimeMismatch, AddUp, SendToWriter, SendFails,
     ErrorSignaled, Conclude
<1>6. CASE WriterTask \/ PersisterFails \/ UNCHANGED vars
  BY <1>2, <1>6 DEF WriterTask, WriterReceives, WriterClosed, Persist, Flush, WriterReturns,
     PersisterFails, vars
<1> QED
  BY <1>3, <1>4, <1>5, <1>6 DEF Next, Collect

LEMMA LastOnTimeStep ==
  ASSUME PipelineInv, LastOnTime, [Next]_vars
  PROVE  LastOnTime'
<1> SUFFICES ASSUME NEW g \in Generators, progress'[g] <= Measured
             PROVE  last'[g] = TimeOf(progress'[g])
  BY DEF LastOnTime
<1>1. progress[g] \in Nat /\ Measured \in Nat
  BY Constants DEF PipelineInv, PipelineTypeOK
<1>2. CASE ReportStep(g)
  <2>1. PICK dropped : SendReport(g, TimeOf(progress[g] + 1), dropped)
    BY <1>2 DEF ReportStep
  <2> QED
    BY <2>1, SendReportSends
<1>3. CASE ReportDrain(g)
  <2>1. PICK time, dropped : SendReport(g, time, dropped)
    BY <1>3 DEF ReportDrain
  <2>2. progress'[g] = progress[g] + 1 /\ progress[g] >= Measured
    BY <1>3, <2>1, SendReportSends DEF ReportDrain
  <2> QED
    BY <1>1, <2>2
<1>4. CASE SendFinished(g) \/ Crash(g)
  BY <1>4 DEF SendFinished, Crash, LastOnTime
<1>5. CASE ~ Generate(g) /\ ~ Crash(g)
  <2>1. progress'[g] = progress[g] /\ last'[g] = last[g]
    BY <1>5, OthersElsewhere DEF Elsewhere
  <2> QED
    BY <2>1 DEF LastOnTime
<1> QED
  BY <1>2, <1>3, <1>4, <1>5 DEF Generate

LEMMA SentUnchanged ==
  ASSUME NEW g, progress'[g] = progress[g], last'[g] = last[g]
  PROVE  SentBy(g)' = SentBy(g) /\ TimeSent(g)' = TimeSent(g)
BY DEF SentBy, TimeSent

LEMMA StreamClosesOrStays ==
  ASSUME NEW g, progress'[g] = progress[g], last'[g] = last[g],
         StreamOf(g)' = StreamOf(g) \/ StreamOf(g)' = "closed"
  PROVE  Stream(g)!Next \/ UNCHANGED Stream(g)!streamVars
<1>1. SentBy(g)' = SentBy(g) /\ TimeSent(g)' = TimeSent(g)
  BY SentUnchanged
<1>2. CASE StreamOf(g)' = StreamOf(g)
  BY <1>1, <1>2 DEF Stream!streamVars, SentBy, TimeSent, StreamOf, FinishedIn
<1>3. CASE StreamOf(g)' # StreamOf(g)
  <2>1. StreamOf(g) # "closed" /\ StreamOf(g)' = "closed"
    BY <1>3
  <2> QED
    BY <1>1, <2>1 DEF Stream!Next, Stream!Close, SentBy, TimeSent, StreamOf, FinishedIn
<1> QED
  BY <1>2, <1>3

(* Only what is on its way can be Finished, and only a generator that has  *)
(* ended has sent it.                                                      *)
LEMMA NotYetFinished ==
  ASSUME PipelineInv, NEW g \in Generators, Running(g)
  PROVE  ~ended[g] /\ StreamOf(g) = "open" /\ ~FinishedIn(link[g])
<1>1. ~ended[g] /\ \E i \in DOMAIN handles : LinkContinues(g, Taken(i))
  BY RunningHasHandle
<1>2. ~FinishedIn(link[g])
  BY <1>1 DEF LinkContinues, FinishedIn
<1> QED
  BY <1>1, <1>2 DEF StreamOf

LEMMA GeneratorStreams ==
  ASSUME PipelineInv, LastOnTime, NEW g \in Generators, Generate(g) \/ Crash(g)
  PROVE  Stream(g)!Next \/ UNCHANGED Stream(g)!streamVars
<1>1. /\ progress[g] \in Nat /\ progress \in [Generators -> Nat] /\ Measured \in Nat
      /\ link \in [Generators -> Seq(Updates)] /\ ended \in [Generators -> BOOLEAN]
      /\ Stream(g)!Measured = Measured
  BY SameTargets, Constants DEF PipelineInv, PipelineTypeOK
<1>2. Running(g) /\ ~ended[g] /\ StreamOf(g) = "open" /\ ~FinishedIn(link[g])
  <2>1. Running(g)
    BY DEF Generate, ReportStep, ReportDrain, SendFinished, Crash
  <2> QED
    BY <2>1, NotYetFinished
<1>3. CASE ReportStep(g)
  <2>1. PICK dropped : SendReport(g, TimeOf(progress[g] + 1), dropped)
    BY <1>3 DEF ReportStep
  <2>2. /\ progress'[g] = progress[g] + 1 /\ last'[g] = TimeOf(progress[g] + 1)
        /\ ended'[g] = ended[g] /\ progress[g] < Measured
    BY <1>3, <2>1, SendReportSends DEF ReportStep
  <2>3. /\ SentBy(g) = progress[g] /\ SentBy(g)' = progress[g] + 1
        /\ TimeSent(g)' = TimeOf(progress[g] + 1)
    BY <1>1, <2>2 DEF SentBy, TimeSent
  <2>4. StreamOf(g)' = "open"
    BY <1>2, <2>2 DEF StreamOf
  <2>5. Stream(g)!Target(progress[g] + 1) = TimeOf(progress[g] + 1)
    BY <1>1, SameTargets
  <2>6. /\ StreamOf(g) = "open" /\ SentBy(g) < Stream(g)!Measured
        /\ SentBy(g)' = SentBy(g) + 1
        /\ TimeSent(g)' = Stream(g)!Target(SentBy(g) + 1)
        /\ StreamOf(g)' = StreamOf(g)
    BY <1>1, <1>2, <2>2, <2>3, <2>4, <2>5
  <2> QED
    BY <2>6 DEF Stream!Next, Stream!ReportStep, StreamOf, SentBy, TimeSent, FinishedIn
<1>4. CASE ReportDrain(g)
  <2>1. PICK time, dropped : SendReport(g, time, dropped)
    BY <1>4 DEF ReportDrain
  <2>2. /\ progress'[g] = progress[g] + 1 /\ ended'[g] = ended[g] /\ progress[g] >= Measured
    BY <1>4, <2>1, SendReportSends DEF ReportDrain
  <2>3. SentBy(g) = Measured /\ SentBy(g)' = Measured
    BY <1>1, <2>2 DEF SentBy
  <2>4. TimeSent(g) = TimeOf(Measured) /\ TimeSent(g)' = TimeOf(Measured)
    BY <1>1, <2>2 DEF TimeSent, LastOnTime
  <2>5. StreamOf(g)' = "open"
    BY <1>2, <2>2 DEF StreamOf
  <2>6. SentBy(g)' = SentBy(g) /\ TimeSent(g)' = TimeSent(g) /\ StreamOf(g)' = StreamOf(g)
    BY <1>2, <2>3, <2>4, <2>5
  <2> QED
    BY <2>6 DEF Stream!streamVars, StreamOf, SentBy, TimeSent, FinishedIn
<1>5. CASE SendFinished(g)
  <2>1. /\ progress[g] >= Measured /\ UNCHANGED <<progress, last>>
        /\ link' = [link EXCEPT ![g] = Append(@, Finished)]
        /\ ended' = [ended EXCEPT ![g] = TRUE]
    BY <1>5 DEF SendFinished, Transmit
  <2>2. Finished \in Updates
    BY DEF Finished, Updates
  <2>3. /\ Append(link[g], Finished)[Len(link[g]) + 1] = Finished
        /\ Len(link[g]) + 1 \in DOMAIN Append(link[g], Finished)
    <3>1. Len(link[g]) \in Nat
      BY <1>1
    <3> QED
      BY <1>1, <2>2, <3>1, Added
  <2>4. StreamOf(g)' = "finished"
    BY <1>1, <2>1, <2>3 DEF StreamOf, FinishedIn
  <2>5. SentBy(g) = Measured /\ SentBy(g)' = SentBy(g) /\ TimeSent(g)' = TimeSent(g)
    BY <1>1, <2>1 DEF SentBy, TimeSent
  <2> QED
    BY <1>1, <1>2, <2>4, <2>5
       DEF Stream!Next, Stream!Finish, StreamOf, SentBy, TimeSent, FinishedIn
<1>6. CASE Crash(g)
  <2>1. PICK n \in 0 .. Len(link[g]) :
          /\ link' = [link EXCEPT ![g] = SubSeq(@, 1, n)]
          /\ ended' = [ended EXCEPT ![g] = TRUE] /\ UNCHANGED <<progress, last>>
    BY <1>6 DEF Crash
  <2>2. /\ Len(SubSeq(link[g], 1, n)) = n /\ n \in Nat
        /\ SubSeq(link[g], 1, n) \in Seq(Updates)
        /\ \A i \in 1 .. n : i \in DOMAIN link[g] /\ SubSeq(link[g], 1, n)[i] = link[g][i]
    BY <1>1, Cut
  <2>3. ~FinishedIn(SubSeq(link[g], 1, n))
    BY <1>2, <2>2 DEF FinishedIn
  <2>4. StreamOf(g)' = "closed"
    BY <1>1, <2>1, <2>3 DEF StreamOf, FinishedIn
  <2> QED
    BY <2>1, <2>4, StreamClosesOrStays
<1> QED
  BY <1>3, <1>4, <1>5, <1>6 DEF Generate

LEMMA ElsewhereStreams ==
  ASSUME PipelineInv, NEW g \in Generators, Elsewhere(g)
  PROVE  Stream(g)!Next \/ UNCHANGED Stream(g)!streamVars
<1>1. CASE FinishedIn(link[g]) \/ ~FinishedIn(link'[g]) \/ ~ended[g]
  <2>1. StreamOf(g)' = StreamOf(g) \/ StreamOf(g)' = "closed"
    BY <1>1 DEF Elsewhere, StreamOf, FinishedIn
  <2> QED
    BY <2>1, StreamClosesOrStays DEF Elsewhere
<1>2. CASE ~FinishedIn(link[g]) /\ FinishedIn(link'[g])
  <2>1. link[g] # <<>> /\ link'[g] = Tail(link[g]) /\ link[g] \in Seq(Updates)
    <3>1. link'[g] # link[g]
      BY <1>2
    <3>2. link'[g] = Tail(link[g]) /\ link[g] # <<>>
      BY <3>1 DEF Elsewhere
    <3>3. link[g] \in Seq(Updates)
      BY DEF PipelineInv, PipelineTypeOK
    <3> QED
      BY <3>2, <3>3
  <2>2. \A i \in DOMAIN Tail(link[g]) :
          i + 1 \in DOMAIN link[g] /\ Tail(link[g])[i] = link[g][i + 1]
    BY <2>1
  <2> QED
    BY <1>2, <2>1, <2>2 DEF FinishedIn
<1> QED
  BY <1>1, <1>2

(* Every load generator of the pipeline keeps to ReportStream, as the one  *)
(* of LoadGenerator is shown to: the collector (collect.rs:33-48) counts   *)
(* on no more than the reporting task (ready.rs:104-203) sends.            *)
THEOREM GeneratorsKeepToStream == Spec => StreamsAsPromised
<1> SUFFICES ASSUME NEW g \in Generators
             PROVE  Spec => Stream(g)!Spec
  BY DEF StreamsAsPromised
<1>1. Init => LastOnTime
  <2>1. TimeOf(0) = 0
    BY Constants DEF TimeOf, PhaseOf
  <2> QED
    BY <2>1 DEF Init, LastOnTime
<1>2. Init => Stream(g)!Init
  BY Constants DEF Init, Stream!Init
<1>3. PipelineInv /\ LastOnTime /\ [Next]_vars => [Stream(g)!Next]_(Stream(g)!streamVars)
  BY GeneratorStreams, ElsewhereStreams, OthersElsewhere
<1>4. PipelineInv /\ LastOnTime /\ [Next]_vars => LastOnTime'
  BY LastOnTimeStep
<1> QED
  BY <1>1, <1>2, <1>3, <1>4, PipelineInvariance, PTL DEF Spec, Stream!Spec
=============================================================================
