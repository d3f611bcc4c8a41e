------------------------ MODULE ConfigurationProofs ------------------------
(***************************************************************************)
(* Proofs about LoadPlan, Framer and Configuration: shares add up, and     *)
(* whatever the profile and the number of load generators, each gets a     *)
(* schedule whose arrivals lie in their own steps; however its bytes are   *)
(* cut into reads a connection carries whole messages, and the load the    *)
(* orchestrator hears of is the load it planned.                           *)
(***************************************************************************)
EXTENDS Configuration, TLAPS, SequenceTheorems, FiniteSetTheorems

(* What generators 1 to g get together.                                    *)
Least(a, b) == IF a <= b THEN a ELSE b
Together(total, divisor, g) == g * (total \div divisor) + Least(g, total % divisor)

LEMMA Division ==
  ASSUME NEW total \in Nat, NEW divisor \in Nat \ {0}
  PROVE  /\ total \div divisor \in Nat
         /\ total % divisor \in 0 .. divisor - 1
         /\ total = divisor * (total \div divisor) + (total % divisor)
  BY Z3

LEMMA Add ==
  ASSUME NEW a \in Nat, NEW g \in Nat \ {0}
  PROVE  g * a = (g - 1) * a + a
  BY Z3

(* However many generators share a count, they get all of it: the shares   *)
(* of the first g generators are Together(g), which is 0 for none and the  *)
(* whole count for all; and no share is more than one larger than another  *)
(* (distribute.rs:3-15).                                                   *)
THEOREM SharesAddUpToTheCount ==
  ASSUME NEW total \in Nat, NEW divisor \in Nat \ {0}
  PROVE  LET share == DistributeCount(total, divisor) IN
         /\ share \in [1 .. divisor -> Nat]
         /\ Together(total, divisor, 0) = 0
         /\ \A g \in 1 .. divisor :
              Together(total, divisor, g) = Together(total, divisor, g - 1) + share[g]
         /\ Together(total, divisor, divisor) = total
         /\ \A g, h \in 1 .. divisor : g < h => share[g] \in {share[h], share[h] + 1}
<1> DEFINE base == total \div divisor
           rest == total % divisor
           share == DistributeCount(total, divisor)
<1>1. /\ base \in Nat /\ rest \in Nat /\ rest < divisor
      /\ total = divisor * base + rest
  BY Division
<1>2. \A g \in 1 .. divisor : share[g] = IF g - 1 < rest THEN base + 1 ELSE base
  BY DEF DistributeCount
<1>3. share \in [1 .. divisor -> Nat]
  BY <1>1 DEF DistributeCount
<1>4. Together(total, divisor, 0) = 0
  BY <1>1, 0 * base = 0 DEF Together, Least
<1>5. ASSUME NEW g \in 1 .. divisor
      PROVE  Together(total, divisor, g) = Together(total, divisor, g - 1) + share[g]
  <2>1. g * base = (g - 1) * base + base
    <3> HIDE DEF base
    <3> QED BY <1>1, Add
  <2>2. g * base \in Nat /\ (g - 1) * base \in Nat
    BY <1>1
  <2>3. Least(g, rest) = Least(g - 1, rest) + (IF g - 1 < rest THEN 1 ELSE 0)
    BY <1>1 DEF Least
  <2> HIDE DEF base, rest, share
  <2>4. Least(g - 1, rest) \in Nat
    BY <1>1 DEF Least
  <2> QED BY <1>1, <1>2, <2>1, <2>2, <2>3, <2>4 DEF Together, base, rest
<1>6. Together(total, divisor, divisor) = total
  BY <1>1 DEF Together, Least
<1>7. \A g, h \in 1 .. divisor : g < h => share[g] \in {share[h], share[h] + 1}
  <2> HIDE DEF base, rest, share
  <2> QED BY <1>1, <1>2
<1> QED BY <1>3, <1>4, <1>5, <1>6, <1>7

-----------------------------------------------------------------------------
(* Shares of counts and rates are numbers, and so are quotients.           *)
LEMMA ShareIsNat ==
  ASSUME NEW total \in Nat, NEW divisor \in Nat \ {0}, NEW g \in 1 .. divisor
  PROVE  DistributeCount(total, divisor)[g] \in Nat
<1>1. total \div divisor \in Nat
  BY Division
<1>2. DistributeCount(total, divisor)[g]
        \in {total \div divisor, total \div divisor + 1}
  BY DEF DistributeCount
<1> QED BY <1>1, <1>2

LEMMA RateOK ==
  ASSUME NEW count \in Nat, NEW duration \in Nat
  PROVE  Rate(count, duration) \in [requests : Nat, ticks : Nat \ {0}]
  BY DEF Rate, NoRate

LEMMA StepTypes ==
  ASSUME NEW s \in Seq(Steps)
  PROVE  /\ Len(s) \in Nat /\ DOMAIN s = 1 .. Len(s)
         /\ \A i \in DOMAIN s : s[i].deadline \in Nat
<1>1. \A i \in DOMAIN s : s[i] \in Steps
  BY LenProperties
<1> QED BY <1>1, LenProperties DEF Steps

(* The steps of a warmup follow each other.                                *)
StepsOK(newSteps) ==
  /\ newSteps \in Seq(Steps)
  /\ \A i \in DOMAIN newSteps :
       i > 1 => newSteps[i - 1].deadline <= newSteps[i].deadline

LEMMA WarmupSteps ==
  ASSUME NEW warmup \in Warmups, NEW n \in Nat \ {0}, NEW g \in 1 .. n
  PROVE  StepsOK(FromWarmup(DistributeWarmup(warmup, n)[g]))
<1> DEFINE share == DistributeWarmup(warmup, n)[g]
           result == FromWarmup(share)
<1>1. /\ share.rate \in Nat /\ share.duration = warmup.duration
      /\ warmup.duration \in Nat
  BY ShareIsNat DEF DistributeWarmup, Warmups
<1>2. TicksPerSecond \in Nat \ {0}
  BY LoadPlanAssumption
<1> HIDE DEF share
<1>3. result = [i \in 1 .. share.duration |->
                  [deadline |-> i * TicksPerSecond,
                   rate |-> [requests |-> share.rate, ticks |-> TicksPerSecond]]]
  BY DEF FromWarmup
<1>4. \A i \in 1 .. share.duration : i * TicksPerSecond \in Nat
  BY <1>1, <1>2
<1>5. result \in Seq(Steps) /\ DOMAIN result = 1 .. share.duration
  <2>1. \A i \in 1 .. share.duration : result[i] \in Steps
    BY <1>1, <1>2, <1>3, <1>4 DEF Steps
  <2> QED BY <2>1, <1>1, <1>3
<1>6. ASSUME NEW i \in 1 .. share.duration, i > 1
      PROVE  result[i - 1].deadline <= result[i].deadline
  <2>1. i * TicksPerSecond = (i - 1) * TicksPerSecond + TicksPerSecond
    BY <1>1, <1>2, Add
  <2>2. i - 1 \in 1 .. share.duration
    BY <1>1, <1>6
  <2>3. /\ result[i].deadline = i * TicksPerSecond
        /\ result[i - 1].deadline = (i - 1) * TicksPerSecond
    BY <2>2, <1>3
  <2>4. i * TicksPerSecond \in Nat /\ (i - 1) * TicksPerSecond \in Nat
    BY <1>4, <2>2
  <2> QED BY <2>1, <2>3, <2>4, <1>2
<1>7. StepsOK(result)
  <2> HIDE DEF result
  <2> QED BY <1>5, <1>6 DEF StepsOK
<1> QED BY <1>7 DEF share

(* So do the steps of a share of a valid profile: its deadlines are those  *)
(* of the file.                                                            *)
LEMMA ProfileSteps ==
  ASSUME NEW rows \in Seq(Rows), ProfileIsValid(rows),
         NEW n \in Nat \ {0}, NEW g \in 1 .. n
  PROVE  StepsOK(FromProfile(DistributeProfile(Profile(rows), n)[g]))
<1> DEFINE share == DistributeProfile(Profile(rows), n)[g]
           result == FromProfile(share)
<1>1. Len(rows) \in Nat /\ DOMAIN rows = 1 .. Len(rows) /\ \A i \in DOMAIN rows : rows[i] \in Rows
  BY LenProperties
<1>2. \A i \in DOMAIN rows : rows[i].deadline \in Nat /\ rows[i].count \in Nat
  BY <1>1 DEF Rows
<1>3. DOMAIN share = DOMAIN rows
  BY DEF DistributeProfile, Profile
<1>4. \A i \in DOMAIN rows :
        share[i].deadline = rows[i].deadline /\ share[i].count \in Nat
  BY <1>2, ShareIsNat DEF DistributeProfile, Profile
<1>5. \A i \in DOMAIN rows : i > 1 => rows[i - 1].deadline < rows[i].deadline
  BY <1>1, <1>2 DEF ProfileIsValid, RowError, DeadlineParses
<1> HIDE DEF share
<1>6. /\ DOMAIN result = DOMAIN rows
      /\ \A i \in DOMAIN rows :
           result[i] = [deadline |-> share[i].deadline,
                        rate |-> Rate(share[i].count,
                                      Since(share[i].deadline, Previous(share, i)))]
  BY <1>3 DEF FromProfile
<1>7. \A i \in DOMAIN rows : result[i] \in Steps
  <2> SUFFICES ASSUME NEW i \in DOMAIN rows PROVE result[i] \in Steps
    OBVIOUS
  <2>1. Previous(share, i) \in Nat
    BY <1>1, <1>2, <1>4 DEF Previous
  <2>2. Since(share[i].deadline, Previous(share, i)) \in Nat
    BY <2>1, <1>2, <1>4 DEF Since
  <2>3. Rate(share[i].count, Since(share[i].deadline, Previous(share, i)))
          \in [requests : Nat, ticks : Nat \ {0}]
    BY <2>2, <1>4, RateOK
  <2>4. share[i].deadline \in Nat
    BY <1>2, <1>4
  <2> HIDE DEF result
  <2> QED BY <2>3, <2>4, <1>6 DEF Steps
<1>8. result \in Seq(Steps)
  <2>1. result = [i \in 1 .. Len(rows) |-> result[i]]
    BY <1>1, <1>3 DEF FromProfile
  <2> HIDE DEF result
  <2> QED BY <2>1, <1>1, <1>7
<1>9. \A i \in DOMAIN rows : i > 1 => result[i - 1].deadline <= result[i].deadline
  <2> HIDE DEF result
  <2> QED BY <1>1, <1>2, <1>4, <1>5, <1>6
<1>10. StepsOK(result)
  <2> HIDE DEF result
  <2> QED BY <1>6, <1>8, <1>9 DEF StepsOK
<1> QED BY <1>10 DEF share

-----------------------------------------------------------------------------
(* A new schedule is before its first step, and has no arrivals.           *)
LEMMA NewScheduleOK ==
  ASSUME NEW newSteps, StepsOK(newSteps), NewSchedule(newSteps)
  PROVE  ScheduleInv'
<1>1. Len(steps') \in Nat /\ DOMAIN steps' = 1 .. Len(steps')
  BY LenProperties DEF StepsOK, NewSchedule
<1>2. ScheduleTypeOK'
  BY <1>1 DEF StepsOK, NewSchedule, ScheduleTypeOK, NoArrival
<1>3. \A i \in DOMAIN steps' : steps'[i].deadline \in Nat
  BY StepTypes DEF StepsOK, NewSchedule
<1>4. StepsInOrder'
  BY <1>1, <1>3 DEF StepsOK, NewSchedule, StepsInOrder, StepStart
<1>5. ArrivalInItsStep'
  BY DEF NewSchedule, ArrivalInItsStep, StepStart
<1> QED BY <1>2, <1>4, <1>5 DEF ScheduleInv

LEMMA DrawArrivalOK ==
  ASSUME ScheduleInv, DrawArrival
  PROVE  ScheduleInv'
<1>1. PICK gap \in Gaps :
        /\ clock + gap < steps[current].deadline
        /\ clock' = clock + gap
        /\ arrival' = [offset |-> clock + gap, step |-> current]
  BY DEF DrawArrival
<1>2. /\ steps' = steps /\ current' = current /\ current \in DOMAIN steps
      /\ clock \in Nat /\ gap \in Nat /\ current \in Nat
      /\ Len(steps) \in Nat /\ DOMAIN steps = 1 .. Len(steps)
  BY LoadPlanAssumption, LenProperties DEF DrawArrival, ScheduleInv, ScheduleTypeOK, Gaps
<1>3. StepStart(current) <= clock /\ StepStart(current) \in Nat
  <2>1. \A i \in DOMAIN steps : steps[i].deadline \in Nat
    BY StepTypes DEF ScheduleInv, ScheduleTypeOK
  <2> QED BY <1>2, <2>1 DEF ScheduleInv, ArrivalInItsStep, StepStart
<1>4. ScheduleTypeOK'
  BY <1>1, <1>2 DEF ScheduleInv, ScheduleTypeOK
<1>5. StepsInOrder'
  BY <1>2 DEF ScheduleInv, StepsInOrder, StepStart
<1>6. \A i : StepStart(i)' = StepStart(i)
  BY <1>2 DEF StepStart
<1>7. ArrivalInItsStep'
  <2> HIDE DEF StepStart
  <2> QED BY <1>1, <1>2, <1>3, <1>6 DEF ArrivalInItsStep
<1> QED BY <1>4, <1>5, <1>7 DEF ScheduleInv

LEMMA NextStepOK ==
  ASSUME ScheduleInv, NextStep
  PROVE  ScheduleInv'
<1>1. /\ steps' = steps /\ arrival' = arrival /\ current' = current + 1
      /\ clock' = Later(clock, steps[current].deadline)
      /\ current \in DOMAIN steps /\ current \in Nat /\ clock \in Nat
      /\ Len(steps) \in Nat /\ DOMAIN steps = 1 .. Len(steps)
  BY LenProperties DEF NextStep, ScheduleInv, ScheduleTypeOK
<1>2. \A i \in DOMAIN steps : steps[i].deadline \in Nat
  BY StepTypes DEF ScheduleInv, ScheduleTypeOK
<1>3. clock' \in Nat /\ clock <= clock' /\ steps[current].deadline <= clock'
  BY <1>1, <1>2 DEF Later
<1>4. ScheduleTypeOK'
  BY <1>1, <1>3 DEF ScheduleInv, ScheduleTypeOK
<1>5. StepsInOrder'
  BY <1>1 DEF ScheduleInv, StepsInOrder, StepStart
<1>6. StepStart(current + 1) = steps[current].deadline
  BY <1>1 DEF StepStart
<1>7. \A i : StepStart(i)' = StepStart(i)
  BY <1>1 DEF StepStart
<1>8. ArrivalInItsStep'
  <2>1. arrival.offset \in Nat /\ arrival.step \in Nat
    BY DEF ScheduleInv, ScheduleTypeOK
  <2> HIDE DEF StepStart
  <2> QED BY <1>1, <1>3, <1>6, <1>7, <2>1 DEF ScheduleInv, ArrivalInItsStep
<1> QED BY <1>4, <1>5, <1>8 DEF ScheduleInv

(* A step of the schedule.                                                 *)
LEMMA ScheduleStep == ScheduleInv /\ [ScheduleNext]_scheduleVars => ScheduleInv'
<1> SUFFICES ASSUME ScheduleInv, [ScheduleNext]_scheduleVars PROVE ScheduleInv'
  OBVIOUS
<1>1. CASE ScheduleWarmup
  <2> HIDE DEF ScheduleInv, NewSchedule, FromWarmup, DistributeWarmup, StepsOK
  <2> QED BY <1>1, WarmupSteps, NewScheduleOK DEF ScheduleWarmup
<1>2. CASE ScheduleProfile
  <2> HIDE DEF ScheduleInv, NewSchedule, FromProfile, DistributeProfile, Profile, StepsOK,
               ProfileIsValid
  <2> QED BY <1>2, ProfileSteps, NewScheduleOK DEF ScheduleProfile
<1>3. CASE DrawArrival
  BY <1>3, DrawArrivalOK
<1>4. CASE NextStep
  BY <1>4, NextStepOK
<1>5. CASE UNCHANGED scheduleVars
  BY <1>5 DEF scheduleVars, ScheduleInv, ScheduleTypeOK, StepsInOrder, ArrivalInItsStep, StepStart
<1> QED BY <1>1, <1>2, <1>3, <1>4, <1>5 DEF ScheduleNext

(* Whatever profile the orchestrator accepts and however many generators   *)
(* share it, arrivals lie in their own steps (schedule.rs:105-123).        *)
THEOREM ScheduleInvariance == ScheduleSpec => []ScheduleInv
<1>1. ScheduleInit => ScheduleInv
  BY EmptySeq DEF ScheduleInit, ScheduleInv, ScheduleTypeOK, StepsInOrder, ArrivalInItsStep,
     NoArrival
<1> QED BY <1>1, ScheduleStep, PTL DEF ScheduleSpec

(* Within a phase arrivals come in the order of their times, as the pacer  *)
(* waits for one after the other (dispatch.rs:97, schedule.rs:105).        *)
THEOREM ArrivalsNeverGoBack == ScheduleSpec => NeverBack
<1>1. ScheduleInv /\ [ScheduleNext]_scheduleVars
        => [current' >= current /\ steps' = steps => arrival'.offset >= arrival.offset]_scheduleVars
  <2> SUFFICES ASSUME ScheduleInv, ScheduleNext, current' >= current, steps' = steps
               PROVE  arrival'.offset >= arrival.offset
    OBVIOUS
  <2>1. /\ arrival.offset \in Nat /\ arrival.step \in Nat
        /\ clock \in Nat /\ arrival.offset <= clock
    BY DEF ScheduleInv, ScheduleTypeOK, ArrivalInItsStep, NoArrival
  <2>2. CASE ScheduleDone /\ current' = 1
    <3>1. Len(steps) \in Nat /\ DOMAIN steps = 1 .. Len(steps) /\ current \in 1 .. Len(steps) + 1
      BY LenProperties DEF ScheduleInv, ScheduleTypeOK
    <3>2. DOMAIN steps = {}
      BY <2>2, <3>1 DEF ScheduleDone
    <3>3. arrival = NoArrival
      BY <3>2 DEF ScheduleInv, ArrivalInItsStep
    <3>4. arrival'.offset \in Nat
      <4>1. ScheduleInv'
        BY ScheduleStep
      <4> QED BY <4>1 DEF ScheduleInv, ScheduleTypeOK
    <3> QED BY <3>3, <3>4 DEF NoArrival
  <2>3. CASE DrawArrival
    BY <2>1, <2>3, LoadPlanAssumption DEF DrawArrival, Gaps
  <2>4. CASE NextStep
    BY <2>1, <2>4 DEF NextStep
  <2> QED BY <2>2, <2>3, <2>4 DEF ScheduleNext, ScheduleWarmup, ScheduleProfile, NewSchedule
<1> QED BY <1>1, ScheduleInvariance, PTL DEF ScheduleSpec, NeverBack

-----------------------------------------------------------------------------
(* Bits of an id and of a phase are apart in a seed.                       *)
LEMMA BitOfId ==
  ASSUME NEW seed, NEW id \in SUBSET IdBits, NEW phase \in Phases, NEW b \in IdBits
  PROVE  b \in id <=> ~(b + 32 \in ArrivalSeed(seed, id, phase) <=> b + 32 \in seed)
<1>1. b + 32 \in Shifted(id, 32) <=> b \in id
  <2>1. \A c \in IdBits : b + 32 = c + 32 => b = c
    BY DEF IdBits
  <2>2. b + 32 \in Shifted(id, 32) <=> \E c \in id : b + 32 = c + 32
    BY Zenon DEF Shifted
  <2>3. id \subseteq IdBits
    OBVIOUS
  <2> QED BY <2>1, <2>2, <2>3, Zenon
<1>2. b + 32 \notin Shifted(phase, 48)
  <2>1. b + 32 # 0 + 48
    BY DEF IdBits
  <2>2. b + 32 \in Shifted(phase, 48) => \E c \in phase : b + 32 = c + 48
    BY Zenon DEF Shifted
  <2>3. \A c \in phase : c = 0
    BY Zenon DEF Phases
  <2> QED BY <2>1, <2>2, <2>3, Zenon
<1> QED BY <1>1, <1>2, Zenon DEF ArrivalSeed, Xor

LEMMA BitOfPhase ==
  ASSUME NEW seed, NEW id \in SUBSET IdBits, NEW phase \in Phases
  PROVE  0 \in phase <=> ~(48 \in ArrivalSeed(seed, id, phase) <=> 48 \in seed)
<1>1. 48 \notin Shifted(id, 32)
  <2>1. \A c \in id : 48 # c + 32
    BY DEF IdBits
  <2> QED BY <2>1, Zenon DEF Shifted
<1>2. 48 \in Shifted(phase, 48) <=> 0 \in phase
  <2>1. 48 = 0 + 48
    BY SMT
  <2>2. 48 \in Shifted(phase, 48) <=> \E c \in phase : 48 = c + 48
    BY Zenon DEF Shifted
  <2>3. \A c \in phase : c = 0
    BY Zenon DEF Phases
  <2> QED BY <2>1, <2>2, <2>3, Zenon
<1> QED BY <1>1, <1>2, Zenon DEF ArrivalSeed, Xor

(* Whatever the seed of a run, no two of its arrival streams are drawn     *)
(* from the same one (ready.rs:46-52).                                     *)
THEOREM StreamsAreApart ==
  ASSUME NEW seed
  PROVE  SeedsDiffer(seed)
<1> SUFFICES ASSUME NEW id \in SUBSET IdBits, NEW otherId \in SUBSET IdBits,
                    NEW phase \in Phases, NEW otherPhase \in Phases,
                    ArrivalSeed(seed, id, phase) = ArrivalSeed(seed, otherId, otherPhase)
             PROVE  id = otherId /\ phase = otherPhase
  BY DEF SeedsDiffer
<1>1. \A b \in IdBits : b \in id <=> b \in otherId
  <2> TAKE b \in IdBits
  <2> QED BY BitOfId
<1>2. 0 \in phase <=> 0 \in otherPhase
  BY BitOfPhase
<1>3. id = otherId
  BY <1>1
<1>4. phase = otherPhase
  BY <1>2 DEF Phases
<1> QED BY <1>3, <1>4

-----------------------------------------------------------------------------
(* Sequences                                                               *)
LEMMA FiniteSeq ==
  ASSUME NEW S, NEW n \in Nat, NEW f \in [1 .. n -> S]
  PROVE  f \in Seq(S) /\ Len(f) = n
<1>1. f \in Seq(S)
  BY SeqDef
<1>2. Len(f) \in Nat /\ DOMAIN f = 1 .. Len(f)
  BY <1>1, LenProperties
<1>3. DOMAIN f = 1 .. n
  OBVIOUS
<1>4. Len(f) = n
  BY <1>2, <1>3
<1> QED BY <1>1, <1>4

(* c is a followed by b.                                                   *)
Joins(c, a, b) ==
  /\ c \in Seq(Bytes) /\ Len(c) = Len(a) + Len(b)
  /\ Len(a) \in Nat /\ Len(b) \in Nat
  /\ \A k \in 1 .. Len(a) : c[k] = a[k]
  /\ \A k \in 1 .. Len(b) : c[Len(a) + k] = b[k]

LEMMA Join ==
  ASSUME NEW a \in Seq(Bytes), NEW b \in Seq(Bytes)
  PROVE  Joins(a \o b, a, b)
<1> DEFINE c == a \o b
<1>1. c \in Seq(Bytes) /\ Len(c) = Len(a) + Len(b)
  BY ConcatProperties
<1>2. \A i \in 1 .. Len(a) + Len(b) : c[i] = IF i <= Len(a) THEN a[i] ELSE b[i - Len(a)]
  BY ConcatProperties
<1>3. Len(a) \in Nat /\ Len(b) \in Nat
  BY LenProperties
<1> HIDE DEF c
<1>4. ASSUME NEW k \in 1 .. Len(a) PROVE c[k] = a[k]
  BY <1>2, <1>3
<1>5. ASSUME NEW k \in 1 .. Len(b) PROVE c[Len(a) + k] = b[k]
  <2>1. /\ Len(a) + k \in 1 .. Len(a) + Len(b) /\ ~(Len(a) + k <= Len(a))
        /\ Len(a) + k - Len(a) = k
    BY <1>3
  <2> QED BY <1>2, <2>1
<1> QED BY <1>1, <1>3, <1>4, <1>5 DEF c, Joins

-----------------------------------------------------------------------------
(* Frames                                                                  *)
LEMMA Digit ==
  ASSUME NEW n \in Nat, n < Huge
  PROVE  /\ n % 256 \in Bytes /\ (n \div 256) % 256 \in Bytes /\ (n \div 65536) % 256 \in Bytes
         /\ n = (n % 256) + ((n \div 256) % 256) * 256 + ((n \div 65536) % 256) * 65536
  BY Z3 DEF Huge, Bytes

LEMMA Numbers ==
  ASSUME NEW n \in Nat, n < Huge, NEW b, b = BigEndian(n, 8)
  PROVE  /\ b \in Seq(Bytes) /\ Len(b) = 8
         /\ \A i \in 1 .. 5 : b[i] = 0
         /\ b[6] = (n \div 65536) % 256 /\ b[7] = (n \div 256) % 256 /\ b[8] = n % 256
<1>1. \A i \in 1 .. 8 : b[i] = IF 8 - i > 2 THEN 0 ELSE (n \div Place[8 - i + 1]) % 256
  BY DEF BigEndian
<1>2. DOMAIN b = 1 .. 8 /\ b = [i \in 1 .. 8 |-> b[i]]
  BY Zenon DEF BigEndian
<1>3. Place[1] = 1 /\ Place[2] = 256 /\ Place[3] = 65536
  BY DEF Place
<1>4. n \div 1 = n
  BY Z3
<1>5. b[6] = (n \div 65536) % 256
  <2>1. 8 - 6 + 1 = 3 /\ ~(8 - 6 > 2) /\ 6 \in 1 .. 8
    BY SMT
  <2> QED BY <1>1, <1>3, <2>1
<1>6. b[7] = (n \div 256) % 256
  <2>1. 8 - 7 + 1 = 2 /\ ~(8 - 7 > 2) /\ 7 \in 1 .. 8
    BY SMT
  <2> QED BY <1>1, <1>3, <2>1
<1>7. b[8] = n % 256
  <2>1. 8 - 8 + 1 = 1 /\ ~(8 - 8 > 2) /\ 8 \in 1 .. 8
    BY SMT
  <2> QED BY <1>1, <1>3, <1>4, <2>1
<1>8. \A i \in 1 .. 5 : b[i] = 0
  BY <1>1
<1>9. \A i \in 1 .. 8 : b[i] \in Bytes
  <2>1. \A i \in 1 .. 8 : i \in 1 .. 5 \/ i = 6 \/ i = 7 \/ i = 8
    BY SMT
  <2>2. 0 \in Bytes
    BY DEF Bytes
  <2> QED BY <2>1, <2>2, <1>5, <1>6, <1>7, <1>8, Digit
<1>10. b \in Seq(Bytes) /\ Len(b) = 8
  <2>1. b \in [1 .. 8 -> Bytes]
    BY <1>2, <1>9, Zenon
  <2> QED BY <2>1, FiniteSeq, 8 \in Nat, Zenon
<1> QED BY <1>5, <1>6, <1>7, <1>8, <1>10

LEMMA MagicBytes ==
  ASSUME NEW b, b = BigEndian(MagicNumber, 2) \o <<Version, 0>>
  PROVE  /\ b \in Seq(Bytes) /\ Len(b) = 4
         /\ b[1] = 171 /\ b[2] = 205 /\ b[3] = Version
<1>1. Place[1] = 1 /\ Place[2] = 256
  BY DEF Place
<1>2. BigEndian(43981, 2) = [i \in 1 .. 2 |-> IF 2 - i > 2 THEN 0 ELSE (43981 \div Place[2 - i + 1]) % 256]
  BY DEF BigEndian
<1>3. (43981 \div 1) % 256 = 205 /\ (43981 \div 256) % 256 = 171
  BY Z3
<1>4. BigEndian(MagicNumber, 2) = <<171, 205>>
  BY <1>1, <1>2, <1>3 DEF MagicNumber
<1>5. /\ <<171, 205>> \in Seq(Bytes) /\ Len(<<171, 205>>) = 2
      /\ <<Version, 0>> \in Seq(Bytes) /\ Len(<<Version, 0>>) = 2
      /\ <<171, 205>>[1] = 171 /\ <<171, 205>>[2] = 205 /\ <<Version, 0>>[1] = Version
  BY DEF Bytes, Version
<1> DEFINE x == <<171, 205>>
           y == <<Version, 0>>
<1>6. b = x \o y
  BY <1>4, Zenon
<1>7. x \in Seq(Bytes) /\ y \in Seq(Bytes) /\ Len(x) = 2 /\ Len(y) = 2
  BY <1>5
<1>8. x[1] = 171 /\ x[2] = 205 /\ y[1] = Version
  BY <1>5
<1> HIDE DEF x, y
<1>9. Joins(b, x, y)
  BY <1>6, <1>7, Join, Zenon
<1>10. b[1] = x[1] /\ b[2] = x[2] /\ b[3] = y[1]
  <2>1. 1 \in 1 .. 2 /\ 2 \in 1 .. 2 /\ 2 + 1 = 3
    BY SMT
  <2> QED BY <1>7, <1>9, <2>1 DEF Joins
<1> QED BY <1>7, <1>8, <1>9, <1>10 DEF Joins

(* The twelve bytes of a header of a payload of n bytes, and the payload.  *)
IsFrame(f, n, payload) ==
  /\ f \in Seq(Bytes) /\ n \in Nat /\ Len(f) = 12 + n
  /\ f[1] = 171 /\ f[2] = 205 /\ f[3] = Version
  /\ \A k \in 5 .. 9 : f[k] = 0
  /\ f[10] = (n \div 65536) % 256
  /\ f[11] = (n \div 256) % 256
  /\ f[12] = n % 256
  /\ \A k \in 1 .. n : f[12 + k] = payload[k]

LEMMA FrameBytes ==
  ASSUME NEW payload \in Seq(Bytes), NEW n, n = Len(payload), n < Huge
  PROVE  IsFrame(Header(n) \o payload, n, payload)
<1> DEFINE m == BigEndian(MagicNumber, 2) \o <<Version, 0>>
           b == BigEndian(n, 8)
           h == Header(n)
<1>1. n \in Nat
  BY LenProperties
<1>2. h = m \o b
  BY Zenon DEF Header
<1>3. /\ m \in Seq(Bytes) /\ Len(m) = 4
      /\ m[1] = 171 /\ m[2] = 205 /\ m[3] = Version
  BY MagicBytes
<1>4. /\ b \in Seq(Bytes) /\ Len(b) = 8
      /\ \A i \in 1 .. 5 : b[i] = 0
      /\ b[6] = (n \div 65536) % 256 /\ b[7] = (n \div 256) % 256 /\ b[8] = n % 256
  BY <1>1, Numbers
<1> HIDE DEF m, b, h
<1>5. Joins(h, m, b)
  <2>1. m \in Seq(Bytes) /\ b \in Seq(Bytes)
    BY <1>3, <1>4
  <2>2. Joins(m \o b, m, b)
    BY <2>1, Join, Zenon
  <2> QED BY <1>2, <2>2, Zenon
<1>6. Joins(h \o payload, h, payload)
  <2>1. h \in Seq(Bytes)
    BY <1>5 DEF Joins
  <2> QED BY <2>1, Join, Zenon
<1> DEFINE f == h \o payload
<1>7. Joins(f, h, payload)
  BY <1>6
<1> HIDE DEF f
<1>8. Len(h) = 12
  BY <1>3, <1>4, <1>5 DEF Joins
<1>9. f \in Seq(Bytes) /\ Len(f) = 12 + n /\ \A k \in 1 .. n : f[12 + k] = payload[k]
  BY <1>7, <1>8 DEF Joins
<1>10. ASSUME NEW k \in 1 .. 4 PROVE f[k] = m[k]
  BY <1>3, <1>5, <1>7, <1>8 DEF Joins
<1>11. ASSUME NEW k \in 1 .. 8 PROVE f[4 + k] = b[k]
  <2>1. 4 + k \in 1 .. 12
    OBVIOUS
  <2>2. h[4 + k] = b[k]
    <3>1. \A i \in 1 .. Len(b) : h[Len(m) + i] = b[i]
      BY <1>5, Zenon DEF Joins
    <3>2. Len(m) = 4 /\ Len(b) = 8
      BY <1>3, <1>4
    <3> QED BY <3>1, <3>2, Zenon
  <2>3. f[4 + k] = h[4 + k]
    BY <2>1, <1>7, <1>8 DEF Joins
  <2> QED BY <2>2, <2>3
<1>12. f[1] = m[1] /\ f[2] = m[2] /\ f[3] = m[3]
  BY <1>10
<1>13. ASSUME NEW k \in 5 .. 9 PROVE f[k] = 0
  <2>1. k - 4 \in 1 .. 5 /\ k - 4 \in 1 .. 8 /\ 4 + (k - 4) = k
    OBVIOUS
  <2> QED BY <2>1, <1>4, <1>11
<1>14. f[10] = b[6] /\ f[11] = b[7] /\ f[12] = b[8]
  <2>1. /\ 6 \in 1 .. 8 /\ 7 \in 1 .. 8 /\ 8 \in 1 .. 8
        /\ 4 + 6 = 10 /\ 4 + 7 = 11 /\ 4 + 8 = 12
    BY SMT
  <2> QED BY <2>1, <1>11
<1>15. IsFrame(f, n, payload)
  BY <1>1, <1>3, <1>4, <1>9, <1>12, <1>13, <1>14 DEF IsFrame
<1> QED BY <1>15 DEF f, h

(* A number that has been written is read.                                 *)
LEMMA ReadMagic ==
  ASSUME NEW b \in Seq(Bytes), Len(b) >= HeaderSize, b[1] = 171, b[2] = 205
  PROVE  FromBigEndian(SubSeq(b, 1, 2)) = MagicNumber
<1> DEFINE s == SubSeq(b, 1, 2)
<1>1. Len(b) \in Nat /\ Len(b) >= 12 /\ \A i \in 1 .. 2 : b[i] \in Bytes
  BY LenProperties, ElementOfSeq DEF HeaderSize
<1>2. s \in Seq(Bytes) /\ Len(s) = 2 /\ s[1] = 171 /\ s[2] = 205
  <2>1. /\ SubSeq(b, 1, 2) \in Seq(Bytes) /\ Len(SubSeq(b, 1, 2)) = 2
        /\ \A i \in 1 .. 2 - 1 + 1 : SubSeq(b, 1, 2)[i] = b[1 + i - 1]
    BY <1>1, SubSeqProperties
  <2>2. s[1] = b[1] /\ s[2] = b[2]
    BY <2>1
  <2> QED BY <2>1, <2>2
<1> HIDE DEF s
<1>3. Place[1] = 1 /\ Place[2] = 256
  BY DEF Place
<1>4. ~\E i \in 1 .. 2 : i + 3 <= 2 /\ s[i] # 0
  BY SMT
<1>5. FromBigEndian(s) = s[2] * Place[1] + s[1] * Place[2] + 0
  <2>1. 2 - 0 = 2 /\ 2 - 1 = 1 /\ 0 < 2 /\ 1 < 2 /\ ~(2 < 2) /\ 0 + 1 = 1 /\ 1 + 1 = 2
    BY SMT
  <2> QED BY <1>2, <1>4, <2>1 DEF FromBigEndian
<1>6. FromBigEndian(s) = 205 + 171 * 256
  BY <1>2, <1>3, <1>5
<1> QED BY <1>6 DEF MagicNumber, s

LEMMA ReadSize ==
  ASSUME NEW b \in Seq(Bytes), Len(b) >= HeaderSize, NEW n \in Nat, n < Huge,
         \A k \in 5 .. 9 : b[k] = 0,
         b[10] = (n \div 65536) % 256, b[11] = (n \div 256) % 256, b[12] = n % 256
  PROVE  FrameSize(b) = HeaderSize + n
<1> DEFINE s == SubSeq(b, 5, 12)
<1>1. Len(b) \in Nat /\ Len(b) >= 12 /\ \A i \in 5 .. 12 : b[i] \in Bytes
  BY LenProperties, ElementOfSeq DEF HeaderSize
<1>2. /\ Len(s) = 8 /\ \A i \in 1 .. 8 : s[i] = b[i + 4]
  <2>1. /\ Len(SubSeq(b, 5, 12)) = 8
        /\ \A i \in 1 .. 12 - 5 + 1 : SubSeq(b, 5, 12)[i] = b[5 + i - 1]
    BY <1>1, SubSeqProperties
  <2>2. \A i \in 1 .. 8 : i \in 1 .. 12 - 5 + 1 /\ 5 + i - 1 = i + 4
    BY SMT
  <2> QED BY <2>1, <2>2
<1> HIDE DEF s
<1>3. Place[1] = 1 /\ Place[2] = 256 /\ Place[3] = 65536
  BY DEF Place
<1>4. ~\E i \in 1 .. 8 : i + 3 <= 8 /\ s[i] # 0
  <2>1. \A i \in 1 .. 8 : i + 3 <= 8 => i + 4 \in 5 .. 9
    BY SMT
  <2> QED BY <1>2, <2>1
<1>5. s[8] = n % 256 /\ s[7] = (n \div 256) % 256 /\ s[6] = (n \div 65536) % 256
  <2>1. 6 + 4 = 10 /\ 7 + 4 = 11 /\ 8 + 4 = 12 /\ 6 \in 1 .. 8 /\ 7 \in 1 .. 8 /\ 8 \in 1 .. 8
    BY SMT
  <2> QED BY <1>2, <2>1
<1>6. FromBigEndian(s) = s[8] * Place[1] + s[7] * Place[2] + s[6] * Place[3]
  <2>1. /\ 8 - 0 = 8 /\ 8 - 1 = 7 /\ 8 - 2 = 6 /\ 0 < 8 /\ 1 < 8 /\ 2 < 8
        /\ 0 + 1 = 1 /\ 1 + 1 = 2 /\ 2 + 1 = 3
    BY SMT
  <2> QED BY <1>2, <1>4, <2>1 DEF FromBigEndian
<1>7. FromBigEndian(s) = n
  <2>1. n % 256 \in Nat
    BY Z3
  <2> QED BY <1>3, <1>5, <1>6, <2>1, Digit DEF Bytes
<1> QED BY <1>7 DEF FrameSize, HeaderSize, s

(* What the decoder makes of the front of a frame, and of a frame with     *)
(* more behind it.                                                         *)
LEMMA DecodeFrame ==
  ASSUME NEW type, NEW m, NEW n, NEW f, NEW payload, payload \in Seq(Bytes), n < Huge,
         IsFrame(f, n, payload), Len(payload) = n,
         Deserialize(type, payload).ok, Deserialize(type, payload).value = m,
         NEW b \in Seq(Bytes), \A k \in 1 .. Len(f) : k <= Len(b) => b[k] = f[k]
  PROVE  /\ Len(b) < Len(f) => Decode(type, b) = NeedMore
         /\ Len(b) >= Len(f) => Decode(type, b) = Message(m, Drop(b, Len(f)))
<1>1. Len(b) \in Nat /\ n \in Nat /\ Len(f) = 12 + n /\ HeaderSize = 12
  BY LenProperties DEF IsFrame, HeaderSize
<1>2. CASE Len(b) < HeaderSize
  <2>1. Len(b) < Len(f)
    BY <1>1, <1>2
  <2> QED BY <1>1, <1>2, <2>1 DEF Decode
<1>3. CASE Len(b) >= HeaderSize
  <2>1. \A k \in 1 .. 12 : b[k] = f[k]
    BY <1>1, <1>3
  <2>2. HeaderIsValid(b)
    <3>1. b[1] = 171 /\ b[2] = 205 /\ b[3] = Version
      <4>1. 1 \in 1 .. 12 /\ 2 \in 1 .. 12 /\ 3 \in 1 .. 12
        BY SMT
      <4>2. b[1] = f[1] /\ b[2] = f[2] /\ b[3] = f[3]
        BY <2>1, <4>1, Zenon
      <4>3. f[1] = 171 /\ f[2] = 205 /\ f[3] = Version
        BY DEF IsFrame
      <4> QED BY <4>2, <4>3
    <3> QED BY <1>3, <3>1, ReadMagic DEF HeaderIsValid
  <2>3. FrameSize(b) = 12 + n
    <3>1. /\ \A k \in 5 .. 9 : b[k] = 0
          /\ b[10] = (n \div 65536) % 256 /\ b[11] = (n \div 256) % 256 /\ b[12] = n % 256
      <4>1. (\A k \in 5 .. 9 : k \in 1 .. 12) /\ 10 \in 1 .. 12 /\ 11 \in 1 .. 12 /\ 12 \in 1 .. 12
        BY SMT
      <4>2. b[10] = f[10] /\ b[11] = f[11] /\ b[12] = f[12]
        BY <2>1, <4>1, Zenon
      <4>3. \A k \in 5 .. 9 : b[k] = f[k]
        BY <2>1, <4>1, Zenon
      <4>4. \A k \in 5 .. 9 : f[k] = 0
        BY DEF IsFrame
      <4>5. \A k \in 5 .. 9 : b[k] = 0
        BY <4>3, <4>4, Zenon
      <4>6. f[10] = (n \div 65536) % 256 /\ f[11] = (n \div 256) % 256 /\ f[12] = n % 256
        BY DEF IsFrame
      <4>7. b[10] = (n \div 65536) % 256 /\ b[11] = (n \div 256) % 256 /\ b[12] = n % 256
        BY <4>2, <4>6
      <4> QED BY <4>5, <4>7
    <3> QED BY <1>1, <1>3, <3>1, ReadSize
  <2>4. CASE Len(b) < Len(f)
    <3>1. ~(Len(b) < HeaderSize) /\ Len(b) < FrameSize(b) /\ ~(Len(b) >= Len(f))
      BY <1>1, <1>3, <2>3, <2>4
    <3> QED BY <2>2, <3>1, Zenon DEF Decode
  <2>5. CASE Len(b) >= Len(f)
    <3> DEFINE p == SubSeq(b, HeaderSize + 1, FrameSize(b))
    <3>1. ~(Len(b) < HeaderSize) /\ ~(Len(b) < FrameSize(b)) /\ ~(Len(b) < Len(f))
      BY <1>1, <1>3, <2>3, <2>5
    <3>2. p = payload
      <4>1. \A i \in 13 .. 12 + n : b[i] \in Bytes
        BY <1>1, <2>5, ElementOfSeq
      <4>2. /\ SubSeq(b, 13, 12 + n) \in Seq(Bytes)
            /\ Len(SubSeq(b, 13, 12 + n)) = IF 13 <= 12 + n THEN 12 + n - 13 + 1 ELSE 0
            /\ \A i \in 1 .. 12 + n - 13 + 1 : SubSeq(b, 13, 12 + n)[i] = b[13 + i - 1]
        BY <1>1, <4>1, SubSeqProperties
      <4>3. p = SubSeq(b, 13, 12 + n)
        BY <1>1, <2>3
      <4> HIDE DEF p
      <4>4. p \in Seq(Bytes) /\ Len(p) = n
        BY <1>1, <4>2, <4>3
      <4>5. ASSUME NEW i \in 1 .. n PROVE p[i] = payload[i]
        <5>1. /\ i \in 1 .. 12 + n - 13 + 1 /\ 13 + i - 1 = 12 + i
              /\ 12 + i \in 1 .. Len(f) /\ 12 + i <= Len(b)
          BY <1>1, <2>5
        <5>2. p[i] = b[12 + i]
          BY <4>2, <4>3, <5>1
        <5>3. f[12 + i] = payload[i]
          BY DEF IsFrame
        <5> QED BY <5>1, <5>2, <5>3
      <4> QED BY <4>4, <4>5, SeqEqual
    <3> HIDE DEF p
    <3>3. Decode(type, b) = DecodePayload(type, b)
      BY <2>2, <3>1, Zenon DEF Decode
    <3>4. DecodePayload(type, b) = Message(m, Drop(b, FrameSize(b)))
      BY <3>2, Zenon DEF DecodePayload, p
    <3> QED BY <1>1, <2>3, <3>1, <3>3, <3>4
  <2> QED BY <1>1, <2>4, <2>5
<1> QED BY <1>1, <1>2, <1>3

-----------------------------------------------------------------------------
(* The bytes of all frames after the first r, one after the other: frame i *)
(* ends at ends[i] of all that is ever written.                            *)
Frames == Seq(Seq(Bytes))

LaidOut(bytes, frames, r, ends) ==
  /\ ends \in [0 .. Len(frames) -> Nat]
  /\ \A i \in 1 .. Len(frames) : ends[i] = ends[i - 1] + Len(frames[i])
  /\ \A i, j \in 0 .. Len(frames) : i <= j => ends[i] <= ends[j]
  /\ Len(bytes) = ends[Len(frames)] - ends[r]
  /\ \A i \in r + 1 .. Len(frames) : \A k \in 1 .. Len(frames[i]) :
       bytes[ends[i - 1] - ends[r] + k] = frames[i][k]

Carry(bytes, frames, r) == \E ends : LaidOut(bytes, frames, r, ends)

(* Where a byte of a frame from first to end is in what starts at start.   *)
LEMMA Offset ==
  ASSUME NEW start \in Nat, NEW first \in Nat, NEW size \in Nat, NEW end, end = first + size,
         NEW last \in Nat, NEW k \in Nat, start <= first, 1 <= k, k <= size, end <= last
  PROVE  /\ first - start + k \in Int /\ first - start + k >= 1
         /\ first - start + k <= end - start
         /\ first - start + k \in 1 .. last - start
  OBVIOUS

LEMMA CarryNothing == Carry(<<>>, <<>>, 0)
<1> DEFINE ends == [i \in 0 .. 0 |-> 0]
<1>1. Len(<<>>) = 0 /\ ends[0] = 0 /\ ends \in [0 .. 0 -> Nat]
  OBVIOUS
<1>2. \A i, j \in 0 .. 0 : ends[i] <= ends[j]
  OBVIOUS
<1> HIDE DEF ends
<1>3. LaidOut(<<>>, <<>>, 0, ends)
  BY <1>1, <1>2 DEF LaidOut
<1> QED BY <1>3 DEF Carry

LEMMA CarryEmpty ==
  ASSUME NEW bytes \in Seq(Bytes), NEW frames, Carry(bytes, frames, Len(frames)),
         Len(frames) \in Nat
  PROVE  bytes = <<>>
<1>1. PICK ends : LaidOut(bytes, frames, Len(frames), ends)
  BY DEF Carry
<1>2. ends[Len(frames)] \in Nat /\ Len(bytes) = ends[Len(frames)] - ends[Len(frames)]
  BY <1>1 DEF LaidOut
<1>3. Len(bytes) = 0
  BY <1>2
<1> QED BY <1>3, LenProperties, EmptySeq

(* The next frame is at the front.                                         *)
LEMMA CarryFirst ==
  ASSUME NEW bytes \in Seq(Bytes), NEW frames \in Frames, NEW r \in 0 .. Len(frames),
         r < Len(frames), Carry(bytes, frames, r), NEW f, f = frames[r + 1]
  PROVE  /\ f \in Seq(Bytes) /\ Len(f) <= Len(bytes)
         /\ \A k \in 1 .. Len(f) : bytes[k] = f[k]
<1>1. PICK ends : LaidOut(bytes, frames, r, ends)
  BY DEF Carry
<1>2. Len(frames) \in Nat /\ r \in Nat /\ r + 1 \in 1 .. Len(frames)
  BY LenProperties DEF Frames
<1>3. f \in Seq(Bytes)
  BY <1>2, ElementOfSeq DEF Frames
<1>4. Len(f) \in Nat /\ Len(bytes) \in Nat
  BY <1>3, LenProperties
<1>5. ends[r] \in Nat /\ ends[r + 1] \in Nat /\ ends[Len(frames)] \in Nat
  <2>1. r \in 0 .. Len(frames) /\ r + 1 \in 0 .. Len(frames) /\ Len(frames) \in 0 .. Len(frames)
    BY <1>2
  <2>2. ends \in [0 .. Len(frames) -> Nat]
    BY <1>1 DEF LaidOut
  <2> QED BY <2>1, <2>2
<1>6. ends[r + 1] = ends[r] + Len(f) /\ ends[r + 1] <= ends[Len(frames)]
  <2>1. r + 1 - 1 = r /\ r + 1 \in 0 .. Len(frames) /\ Len(frames) \in 0 .. Len(frames)
        /\ r + 1 <= Len(frames)
    BY <1>2
  <2>2. ends[r + 1] = ends[r + 1 - 1] + Len(frames[r + 1])
    <3>1. \A i \in 1 .. Len(frames) : ends[i] = ends[i - 1] + Len(frames[i])
      BY <1>1, Zenon DEF LaidOut
    <3> QED BY <1>2, <3>1
  <2>3. ends[r + 1] <= ends[Len(frames)]
    BY <1>1, <2>1, Zenon DEF LaidOut
  <2> QED BY <2>1, <2>2, <2>3
<1>7. Len(f) <= Len(bytes)
  BY <1>1, <1>4, <1>5, <1>6 DEF LaidOut
<1>8. ASSUME NEW k \in 1 .. Len(f) PROVE bytes[k] = f[k]
  <2>1. r + 1 \in r + 1 .. Len(frames) /\ ends[r + 1 - 1] - ends[r] + k = k
    BY <1>2, <1>5
  <2>2. bytes[ends[r + 1 - 1] - ends[r] + k] = frames[r + 1][k]
    <3>1. \A i \in r + 1 .. Len(frames) : \A j \in 1 .. Len(frames[i]) :
            bytes[ends[i - 1] - ends[r] + j] = frames[i][j]
      BY <1>1, Zenon DEF LaidOut
    <3>2. k \in 1 .. Len(frames[r + 1])
      OBVIOUS
    <3> QED BY <2>1, <3>1, <3>2
  <2> QED BY <2>1, <2>2
<1> QED BY <1>3, <1>7, <1>8

LEMMA DropBytes ==
  ASSUME NEW bytes \in Seq(Bytes), NEW n \in Nat, n <= Len(bytes)
  PROVE  /\ Drop(bytes, n) \in Seq(Bytes) /\ Len(Drop(bytes, n)) = Len(bytes) - n
         /\ \A k \in 1 .. Len(bytes) - n : Drop(bytes, n)[k] = bytes[n + k]
<1>1. Len(bytes) \in Nat
  BY LenProperties
<1>2. \A i \in n + 1 .. Len(bytes) : bytes[i] \in Bytes
  BY <1>1, ElementOfSeq
<1> DEFINE d == SubSeq(bytes, n + 1, Len(bytes))
<1>3. /\ d \in Seq(Bytes)
      /\ Len(d) = IF n + 1 <= Len(bytes) THEN Len(bytes) - (n + 1) + 1 ELSE 0
      /\ \A i \in 1 .. Len(bytes) - (n + 1) + 1 : d[i] = bytes[n + 1 + i - 1]
  BY <1>1, <1>2, SubSeqProperties
<1> HIDE DEF d
<1>4. ASSUME NEW k \in 1 .. Len(bytes) - n PROVE d[k] = bytes[n + k]
  <2>1. k \in 1 .. Len(bytes) - (n + 1) + 1 /\ n + 1 + k - 1 = n + k
    BY <1>1
  <2> QED BY <1>3, <2>1
<1>5. Len(d) = Len(bytes) - n
  BY <1>1, <1>3
<1> QED BY <1>3, <1>4, <1>5, Zenon DEF d, Drop

LEMMA CarryRest ==
  ASSUME NEW bytes \in Seq(Bytes), NEW frames \in Frames, NEW r \in 0 .. Len(frames),
         r < Len(frames), Carry(bytes, frames, r)
  PROVE  Carry(Drop(bytes, Len(frames[r + 1])), frames, r + 1)
<1> DEFINE f == frames[r + 1]
           rest == Drop(bytes, Len(f))
<1>1. PICK ends : LaidOut(bytes, frames, r, ends)
  BY DEF Carry
<1>2. Len(frames) \in Nat /\ r \in Nat /\ r + 1 \in 1 .. Len(frames)
  BY LenProperties DEF Frames
<1>3. f \in Seq(Bytes) /\ Len(f) <= Len(bytes)
  BY CarryFirst
<1>4. Len(f) \in Nat /\ Len(bytes) \in Nat
  BY <1>3, LenProperties
<1>5. /\ rest \in Seq(Bytes) /\ Len(rest) = Len(bytes) - Len(f)
      /\ \A k \in 1 .. Len(bytes) - Len(f) : rest[k] = bytes[Len(f) + k]
  BY <1>3, <1>4, DropBytes
<1> HIDE DEF rest
<1>6. ends[r] \in Nat /\ ends[r + 1] = ends[r] + Len(f) /\ ends[Len(frames)] \in Nat
  <2>1. r + 1 - 1 = r
    BY <1>2
  <2>2. ends[r + 1] = ends[r + 1 - 1] + Len(frames[r + 1])
    <3>1. \A i \in 1 .. Len(frames) : ends[i] = ends[i - 1] + Len(frames[i])
      BY <1>1, Zenon DEF LaidOut
    <3> QED BY <1>2, <3>1
  <2>3. ends[r] \in Nat /\ ends[Len(frames)] \in Nat
    BY <1>1, <1>2 DEF LaidOut
  <2> QED BY <2>1, <2>2, <2>3
<1> HIDE DEF f
<1>7. Len(bytes) = ends[Len(frames)] - ends[r]
  BY <1>1 DEF LaidOut
<1>8. Len(rest) = ends[Len(frames)] - ends[r + 1]
  BY <1>4, <1>5, <1>6, <1>7
<1>9. ASSUME NEW i \in r + 1 + 1 .. Len(frames), NEW k \in 1 .. Len(frames[i])
      PROVE  rest[ends[i - 1] - ends[r + 1] + k] = frames[i][k]
  <2>1. /\ i \in r + 1 .. Len(frames) /\ i \in 1 .. Len(frames)
        /\ i - 1 \in 0 .. Len(frames) /\ r + 1 \in 0 .. Len(frames) /\ i \in 0 .. Len(frames)
        /\ r + 1 <= i - 1 /\ i <= Len(frames) /\ Len(frames) \in 0 .. Len(frames)
    BY <1>2
  <2>2. /\ ends[i - 1] \in Nat /\ ends[i] \in Nat
        /\ ends[r + 1] <= ends[i - 1] /\ ends[i] <= ends[Len(frames)]
        /\ ends[i] = ends[i - 1] + Len(frames[i])
    <3>1. ends[i - 1] \in Nat /\ ends[i] \in Nat
      BY <1>1, <2>1 DEF LaidOut
    <3>2. ends[r + 1] <= ends[i - 1] /\ ends[i] <= ends[Len(frames)]
      BY <1>1, <2>1, Zenon DEF LaidOut
    <3>3. ends[i] = ends[i - 1] + Len(frames[i])
      BY <1>1, <2>1, Zenon DEF LaidOut
    <3> QED BY <3>1, <3>2, <3>3
  <2>3. Len(frames[i]) \in Nat
    <3>1. frames[i] \in Seq(Bytes)
      BY <2>1, ElementOfSeq DEF Frames
    <3> QED BY <3>1, LenProperties
  <2> DEFINE at == ends[i - 1] - ends[r + 1] + k
  <2>4. at \in 1 .. Len(bytes) - Len(f) /\ Len(f) + at = ends[i - 1] - ends[r] + k
    <3>1. k \in Nat /\ k >= 1 /\ k <= Len(frames[i])
      BY <2>3
    <3>2. ends[r + 1] \in Nat /\ Len(bytes) - Len(f) = ends[Len(frames)] - ends[r + 1]
      BY <1>4, <1>6, <1>7
    <3>3. at \in 1 .. ends[Len(frames)] - ends[r + 1]
      BY <1>6, <2>2, <2>3, <3>1, <3>2, Offset
    <3>4. Len(f) + at = ends[i - 1] - ends[r] + k
      BY <1>4, <1>6, <2>2, <3>1
    <3> HIDE DEF at
    <3> QED BY <3>2, <3>3, <3>4
  <2>5. bytes[ends[i - 1] - ends[r] + k] = frames[i][k]
    BY <1>1, <2>1, Zenon DEF LaidOut
  <2> HIDE DEF at
  <2>6. rest[at] = bytes[Len(f) + at]
    BY <1>5, <2>4
  <2> QED BY <2>4, <2>5, <2>6 DEF at
<1>10. LaidOut(rest, frames, r + 1, ends)
  BY <1>1, <1>8, <1>9, Zenon DEF LaidOut
<1> QED BY <1>10, Zenon DEF Carry, rest, f

LEMMA CarryMore ==
  ASSUME NEW bytes \in Seq(Bytes), NEW frames \in Frames, NEW r \in 0 .. Len(frames),
         NEW f \in Seq(Bytes), Carry(bytes, frames, r)
  PROVE  Carry(bytes \o f, Append(frames, f), r)
<1> DEFINE n == Len(frames)
           more == bytes \o f
           longer == Append(frames, f)
<1>1. PICK ends : LaidOut(bytes, frames, r, ends)
  BY DEF Carry
<1>2. /\ n \in Nat /\ r \in 0 .. n
      /\ Len(longer) = n + 1 /\ longer[n + 1] = f
      /\ \A i \in 1 .. n : longer[i] = frames[i]
  BY LenProperties, AppendProperties DEF Frames
<1>3. Joins(more, bytes, f)
  BY Join
<1> DEFINE final == ends[n] + Len(f)
           later == [i \in 0 .. n + 1 |-> IF i <= n THEN ends[i] ELSE final]
<1>4. ends \in [0 .. n -> Nat] /\ ends[n] \in Nat /\ ends[r] \in Nat
  <2>1. ends \in [0 .. n -> Nat]
    BY <1>1, Zenon DEF LaidOut
  <2>2. n \in 0 .. n
    BY <1>2
  <2> HIDE DEF n
  <2> QED BY <1>2, <2>1, <2>2
<1>5. final \in Nat /\ ends[n] <= final /\ Len(f) \in Nat
  BY <1>3, <1>4 DEF Joins
<1> HIDE DEF final
<1>6. /\ later \in [0 .. n + 1 -> Nat] /\ later[n + 1] = final
      /\ \A i \in 0 .. n : later[i] = ends[i]
  <2> HIDE DEF n
  <2>1. \A i \in 0 .. n + 1 : (IF i <= n THEN ends[i] ELSE final) \in Nat
    <3>1. \A i \in 0 .. n + 1 : i <= n => i \in 0 .. n
      BY <1>2
    <3> QED BY <1>4, <1>5, <3>1
  <2>2. n + 1 \in 0 .. n + 1 /\ ~(n + 1 <= n)
    BY <1>2
  <2>3. \A i \in 0 .. n : i \in 0 .. n + 1 /\ i <= n
    BY <1>2
  <2> QED BY <2>1, <2>2, <2>3
<1> HIDE DEF n, more, longer, later
<1>7. /\ \A i \in 1 .. n : ends[i] = ends[i - 1] + Len(frames[i])
      /\ \A i, j \in 0 .. n : i <= j => ends[i] <= ends[j]
      /\ Len(bytes) = ends[n] - ends[r]
      /\ \A i \in r + 1 .. n : \A k \in 1 .. Len(frames[i]) :
           bytes[ends[i - 1] - ends[r] + k] = frames[i][k]
  BY <1>1, Zenon DEF LaidOut, n
<1>8. \A i \in 1 .. n + 1 : later[i] = later[i - 1] + Len(longer[i])
  <2> SUFFICES ASSUME NEW i \in 1 .. n + 1 PROVE later[i] = later[i - 1] + Len(longer[i])
    OBVIOUS
  <2>1. CASE i = n + 1
    <3>1. n + 1 - 1 = n /\ n \in 0 .. n
      BY <1>2
    <3> QED BY <1>2, <1>6, <2>1, <3>1 DEF final
  <2>2. CASE i # n + 1
    <3>1. i \in 1 .. n /\ i \in 0 .. n /\ i - 1 \in 0 .. n
      BY <1>2, <2>2
    <3> QED BY <1>2, <1>6, <1>7, <3>1
  <2> QED BY <2>1, <2>2
<1>9. \A i, j \in 0 .. n + 1 : i <= j => later[i] <= later[j]
  <2> SUFFICES ASSUME NEW i \in 0 .. n + 1, NEW j \in 0 .. n + 1, i <= j
               PROVE  later[i] <= later[j]
    OBVIOUS
  <2>1. CASE j = n + 1 /\ i # n + 1
    <3>1. i \in 0 .. n /\ n \in 0 .. n /\ i <= n
      BY <1>2, <2>1
    <3>2. ends[i] <= ends[n] /\ ends[i] \in Nat
      BY <1>4, <1>7, <3>1
    <3> QED BY <1>4, <1>5, <1>6, <2>1, <3>1, <3>2
  <2>2. CASE j # n + 1
    <3>1. i \in 0 .. n /\ j \in 0 .. n
      BY <1>2, <2>2
    <3> QED BY <1>6, <1>7, <3>1
  <2>3. CASE i = n + 1
    <3>1. j = n + 1
      BY <1>2, <2>3
    <3> QED BY <1>5, <1>6, <2>3, <3>1
  <2> QED BY <2>1, <2>2, <2>3
<1>10. later[r] = ends[r]
  BY <1>2, <1>6
<1>11. Len(more) = later[n + 1] - later[r]
  BY <1>3, <1>4, <1>6, <1>7, <1>10 DEF Joins, final
<1>12. ASSUME NEW i \in r + 1 .. n + 1, NEW k \in 1 .. Len(longer[i])
       PROVE  more[later[i - 1] - later[r] + k] = longer[i][k]
  <2>1. CASE i = n + 1
    <3>1. n + 1 - 1 = n /\ n \in 0 .. n
      BY <1>2
    <3>2. later[i - 1] - later[r] = Len(bytes) /\ longer[i] = f
      BY <1>2, <1>6, <1>7, <1>10, <2>1, <3>1
    <3>3. k \in 1 .. Len(f)
      BY <3>2
    <3>4. more[Len(bytes) + k] = f[k]
      BY <1>3, <3>3 DEF Joins
    <3> QED BY <3>2, <3>4
  <2>2. CASE i # n + 1
    <3>1. /\ i \in 1 .. n /\ i \in 0 .. n /\ i - 1 \in 0 .. n /\ i \in r + 1 .. n /\ n \in 0 .. n
          /\ r <= i - 1 /\ r \in 0 .. n /\ i <= n
      BY <1>2, <2>2
    <3>2. later[i - 1] = ends[i - 1] /\ longer[i] = frames[i] /\ k \in 1 .. Len(frames[i])
      BY <1>2, <1>6, <3>1
    <3>3. bytes[ends[i - 1] - ends[r] + k] = frames[i][k]
      BY <1>7, <3>1, <3>2
    <3> DEFINE at == ends[i - 1] - ends[r] + k
    <3>4. /\ ends[i - 1] \in Nat /\ ends[i] \in Nat /\ ends[r] <= ends[i - 1] /\ ends[i] <= ends[n]
          /\ ends[i] = ends[i - 1] + Len(frames[i])
      BY <1>4, <1>7, <3>1
    <3>5. Len(frames[i]) \in Nat
      <4>1. frames[i] \in Seq(Bytes)
        BY <3>1, ElementOfSeq DEF Frames, n
      <4> QED BY <4>1, LenProperties
    <3>6. k \in Nat /\ k >= 1 /\ k <= Len(frames[i])
      BY <3>2, <3>5
    <3>7. at \in 1 .. ends[n] - ends[r]
      BY <1>4, <3>4, <3>5, <3>6, Offset
    <3> HIDE DEF at
    <3>8. at \in 1 .. Len(bytes)
      BY <1>7, <3>7
    <3>9. more[at] = bytes[at]
      BY <1>3, <3>8 DEF Joins
    <3>10. later[i - 1] - later[r] + k = at
      BY <1>10, <3>2 DEF at
    <3> QED BY <3>2, <3>3, <3>9, <3>10 DEF at
  <2> QED BY <2>1, <2>2
<1>13. LaidOut(more, longer, r, later)
  <2>1. Len(longer) = n + 1
    BY <1>2
  <2> QED BY <2>1, <1>6, <1>8, <1>9, <1>11, <1>12, Zenon DEF LaidOut
<1> QED BY <1>13, Zenon DEF Carry, more, longer

-----------------------------------------------------------------------------
(* One direction of a connection: what has been written and not decoded    *)
(* are the frames of the messages that have not been received.             *)
TypeOf(d, i) ==
  IF d = "down" THEN IF i = 1 THEN "ConfigMessage" ELSE "Command"
  ELSE IF i = 1 THEN "ConfigResponse" ELSE "GeneratorUpdate"

AnyMessage(s) == UNION {MessagesOf(s, type) : type \in Types}
FramesOf(d, messages) == [i \in 1 .. Len(messages) |-> Encode(TypeOf(d, i), messages[i])]

ChannelInv(s, d, bytes, written, read) ==
  /\ bytes \in Seq(Bytes)
  /\ written \in Seq(AnyMessage(s)) /\ read \in Seq(AnyMessage(s))
  /\ \A i \in 1 .. Len(written) : written[i] \in MessagesOf(s, TypeOf(d, i))
  /\ Len(read) <= Len(written) /\ \A i \in 1 .. Len(read) : read[i] = written[i]
  /\ Carry(bytes, FramesOf(d, written), Len(read))

LEMMA TypeOfType == \A d, i : TypeOf(d, i) \in Types
  BY Zenon DEF TypeOf, Types

LEMMA EncodeFrame ==
  ASSUME NEW type, NEW m, ReadsBack(type, m)
  PROVE  /\ Encode(type, m) \in Seq(Bytes) /\ Len(Encode(type, m)) \in Nat
         /\ Len(Encode(type, m)) >= 12
         /\ \A b \in Seq(Bytes) :
              (\A k \in 1 .. Len(Encode(type, m)) : k <= Len(b) => b[k] = Encode(type, m)[k])
                => /\ Len(b) < Len(Encode(type, m)) => Decode(type, b) = NeedMore
                   /\ Len(b) >= Len(Encode(type, m))
                        => Decode(type, b) = Message(m, Drop(b, Len(Encode(type, m))))
<1> DEFINE payload == Serialize(type, m)
           n == Len(payload)
           f == Encode(type, m)
<1>1. /\ payload \in Seq(Bytes) /\ n < Huge
      /\ Deserialize(type, payload).ok /\ Deserialize(type, payload).value = m
  BY Zenon DEF ReadsBack
<1>2. f = Header(n) \o payload
  BY Zenon DEF Encode
<1> HIDE DEF payload, f
<1>3. IsFrame(f, n, payload)
  BY <1>1, <1>2, FrameBytes, Zenon
<1> HIDE DEF n
<1>4. f \in Seq(Bytes) /\ n \in Nat /\ Len(f) = 12 + n
  BY <1>3 DEF IsFrame
<1>5. ASSUME NEW b \in Seq(Bytes), \A k \in 1 .. Len(f) : k <= Len(b) => b[k] = f[k]
      PROVE  /\ Len(b) < Len(f) => Decode(type, b) = NeedMore
             /\ Len(b) >= Len(f) => Decode(type, b) = Message(m, Drop(b, Len(f)))
  BY <1>1, <1>3, <1>5, DecodeFrame DEF n
<1>6. Len(f) \in Nat /\ Len(f) >= 12
  BY <1>4
<1> QED BY <1>4, <1>5, <1>6, Zenon DEF f

(* The next message is decoded as soon as its frame has been read.         *)
LEMMA DecodeFront ==
  ASSUME NEW buf \in Seq(Bytes), NEW wi \in Seq(Bytes), NEW frames \in Frames,
         NEW r \in 0 .. Len(frames), r < Len(frames), Carry(buf \o wi, frames, r),
         NEW type, NEW m, ReadsBack(type, m), frames[r + 1] = Encode(type, m)
  PROVE  LET f == Encode(type, m) IN
         /\ Len(f) <= Len(buf \o wi)
         /\ Len(buf) < Len(f) => Decode(type, buf) = NeedMore
         /\ Len(buf) >= Len(f) =>
              /\ Decode(type, buf) = Message(m, Drop(buf, Len(f)))
              /\ Drop(buf, Len(f)) \in Seq(Bytes)
              /\ Carry(Drop(buf, Len(f)) \o wi, frames, r + 1)
<1> DEFINE f == Encode(type, m)
           all == buf \o wi
<1>1. Joins(all, buf, wi)
  BY Join
<1>2. all \in Seq(Bytes)
  BY <1>1 DEF Joins
<1>3. /\ f \in Seq(Bytes) /\ Len(f) \in Nat
      /\ \A b \in Seq(Bytes) :
           (\A k \in 1 .. Len(f) : k <= Len(b) => b[k] = f[k])
             => /\ Len(b) < Len(f) => Decode(type, b) = NeedMore
                /\ Len(b) >= Len(f) => Decode(type, b) = Message(m, Drop(b, Len(f)))
  BY EncodeFrame, Zenon
<1>4. frames[r + 1] = f
  OBVIOUS
<1> HIDE DEF f, all
<1>5. Len(f) <= Len(all) /\ \A k \in 1 .. Len(f) : all[k] = f[k]
  <2>1. Carry(all, frames, r)
    BY DEF all
  <2> QED BY <2>1, <1>2, <1>4, CarryFirst
<1>6. \A k \in 1 .. Len(f) : k <= Len(buf) => buf[k] = f[k]
  BY <1>1, <1>3, <1>5 DEF Joins
<1>7. /\ Len(buf) < Len(f) => Decode(type, buf) = NeedMore
      /\ Len(buf) >= Len(f) => Decode(type, buf) = Message(m, Drop(buf, Len(f)))
  BY <1>3, <1>6, Zenon
<1>8. ASSUME Len(buf) >= Len(f)
      PROVE  /\ Drop(buf, Len(f)) \in Seq(Bytes)
             /\ Carry(Drop(buf, Len(f)) \o wi, frames, r + 1)
  <2> DEFINE n == Len(f)
             left == Drop(buf, n)
             rest == left \o wi
             target == Drop(all, n)
  <2>1. n \in Nat /\ n <= Len(buf) /\ n <= Len(all) /\ Len(buf) \in Nat /\ Len(wi) \in Nat
    BY <1>1, <1>3, <1>5, <1>8 DEF Joins
  <2>2. /\ left \in Seq(Bytes) /\ Len(left) = Len(buf) - n
        /\ \A k \in 1 .. Len(buf) - n : left[k] = buf[n + k]
    BY <2>1, DropBytes
  <2>3. /\ target \in Seq(Bytes) /\ Len(target) = Len(all) - n
        /\ \A k \in 1 .. Len(all) - n : target[k] = all[n + k]
    BY <1>2, <2>1, DropBytes
  <2> HIDE DEF left
  <2>4. Joins(rest, left, wi)
    BY <2>2, Join
  <2> HIDE DEF n, rest, target
  <2>5. Len(rest) = Len(target) /\ rest \in Seq(Bytes)
    BY <1>1, <2>1, <2>2, <2>3, <2>4 DEF Joins
  <2>6. ASSUME NEW k \in 1 .. Len(rest) PROVE rest[k] = target[k]
    <3>1. Len(rest) = Len(buf) - n + Len(wi) /\ Len(all) = Len(buf) + Len(wi)
      BY <1>1, <2>2, <2>4 DEF Joins
    <3>2. target[k] = all[n + k]
      BY <2>1, <2>3, <3>1
    <3>3. CASE k <= Len(left)
      <4>1. k \in 1 .. Len(left) /\ k \in 1 .. Len(buf) - n /\ n + k \in 1 .. Len(buf)
        BY <2>1, <2>2, <3>1, <3>3
      <4>2. rest[k] = left[k] /\ left[k] = buf[n + k]
        BY <2>2, <2>4, <4>1 DEF Joins
      <4>3. all[n + k] = buf[n + k]
        BY <1>1, <4>1 DEF Joins
      <4> QED BY <3>2, <4>2, <4>3
    <3>4. CASE k > Len(left)
      <4> DEFINE i == k - Len(left)
      <4>1. i \in 1 .. Len(wi) /\ Len(left) + i = k /\ Len(buf) + i = n + k
        BY <2>1, <2>2, <3>1, <3>4
      <4> HIDE DEF i
      <4>2. rest[Len(left) + i] = wi[i]
        BY <2>4, <4>1 DEF Joins
      <4>3. all[Len(buf) + i] = wi[i]
        BY <1>1, <4>1 DEF Joins
      <4> QED BY <3>2, <4>1, <4>2, <4>3
    <3> QED BY <2>1, <2>2, <3>1, <3>3, <3>4
  <2>7. rest = target
    BY <2>3, <2>5, <2>6, SeqEqual
  <2>8. Carry(target, frames, r + 1)
    <3>1. Carry(all, frames, r)
      BY DEF all
    <3> QED BY <3>1, <1>2, <1>4, CarryRest, Zenon DEF target, n
  <2> QED BY <2>2, <2>7, <2>8, Zenon DEF rest, left, n
<1> QED BY <1>5, <1>7, <1>8, Zenon DEF f, all

LEMMA SentIsReadBack ==
  ASSUME NEW s \in Sessions, ~Rejected(s), NEW d, NEW i, NEW m \in MessagesOf(s, TypeOf(d, i))
  PROVE  ReadsBack(TypeOf(d, i), m) /\ m \in AnyMessage(s)
<1>1. TypeOf(d, i) \in Types
  BY TypeOfType
<1>2. ReadsBack(TypeOf(d, i), m)
  BY <1>1, CodecAssumption, Zenon
<1>3. m \in AnyMessage(s)
  BY <1>1, Zenon DEF AnyMessage
<1> QED BY <1>2, <1>3

LEMMA ChannelFrames ==
  ASSUME NEW s \in Sessions, ~Rejected(s), NEW d, NEW written \in Seq(AnyMessage(s)),
         \A i \in 1 .. Len(written) : written[i] \in MessagesOf(s, TypeOf(d, i))
  PROVE  /\ FramesOf(d, written) \in Frames
         /\ Len(FramesOf(d, written)) = Len(written) /\ Len(written) \in Nat
         /\ \A i \in 1 .. Len(written) :
              /\ ReadsBack(TypeOf(d, i), written[i])
              /\ FramesOf(d, written)[i] = Encode(TypeOf(d, i), written[i])
<1> DEFINE n == Len(written)
<1>1. n \in Nat
  BY LenProperties
<1>2. \A i \in 1 .. n : ReadsBack(TypeOf(d, i), written[i])
  BY SentIsReadBack
<1>3. \A i \in 1 .. n : Encode(TypeOf(d, i), written[i]) \in Seq(Bytes)
  BY <1>2, EncodeFrame, Zenon
<1> HIDE DEF n
<1> DEFINE frames == [i \in 1 .. n |-> Encode(TypeOf(d, i), written[i])]
<1>4. frames \in [1 .. n -> Seq(Bytes)] /\ \A i \in 1 .. n : frames[i] = Encode(TypeOf(d, i), written[i])
  BY <1>3, Zenon
<1> HIDE DEF frames
<1>5. frames \in Seq(Seq(Bytes)) /\ Len(frames) = n
  BY <1>1, <1>4, FiniteSeq, Zenon
<1>6. FramesOf(d, written) = frames
  BY Zenon DEF FramesOf, frames, n
<1> QED BY <1>1, <1>2, <1>4, <1>5, <1>6, Zenon DEF Frames, n

LEMMA ChannelStart ==
  ASSUME NEW s, NEW d
  PROVE  ChannelInv(s, d, <<>> \o <<>>, <<>>, <<>>)
<1>1. <<>> \o <<>> = <<>> /\ Len(<<>>) = 0
  OBVIOUS
<1>2. <<>> \in Seq(Bytes) /\ <<>> \in Seq(AnyMessage(s))
  BY EmptySeq
<1>3. FramesOf(d, <<>>) = <<>>
  BY <1>1 DEF FramesOf
<1>4. Carry(<<>>, FramesOf(d, <<>>), Len(<<>>))
  BY <1>1, <1>3, CarryNothing
<1>5. \A i \in 1 .. 0 : FALSE
  OBVIOUS
<1> DEFINE none == <<>>
<1>6. /\ none \in Seq(Bytes) /\ none \in Seq(AnyMessage(s)) /\ Len(none) = 0
      /\ Carry(none, FramesOf(d, none), Len(none))
  BY <1>1, <1>2, <1>4
<1> HIDE DEF none
<1>7. ChannelInv(s, d, none, none, none)
  BY <1>5, <1>6 DEF ChannelInv
<1> QED BY <1>1, <1>7 DEF none

(* A message is sent.                                                      *)
LEMMA ChannelSends ==
  ASSUME NEW s \in Sessions, ~Rejected(s), NEW d, NEW buf \in Seq(Bytes), NEW wi \in Seq(Bytes),
         NEW written, NEW read, ChannelInv(s, d, buf \o wi, written, read),
         NEW type, type = TypeOf(d, Len(written) + 1), NEW m \in MessagesOf(s, type)
  PROVE  /\ wi \o Encode(type, m) \in Seq(Bytes)
         /\ ChannelInv(s, d, buf \o (wi \o Encode(type, m)), Append(written, m), read)
<1> DEFINE f == Encode(type, m)
           n == Len(written)
           r == Len(read)
           more == Append(written, m)
           frames == FramesOf(d, written)
           all == buf \o wi
<1>1. ReadsBack(type, m) /\ m \in AnyMessage(s)
  BY SentIsReadBack
<1>2. f \in Seq(Bytes)
  BY <1>1, EncodeFrame, Zenon
<1>3. /\ all \in Seq(Bytes) /\ written \in Seq(AnyMessage(s)) /\ read \in Seq(AnyMessage(s))
      /\ \A i \in 1 .. n : written[i] \in MessagesOf(s, TypeOf(d, i))
      /\ r <= n /\ \A i \in 1 .. r : read[i] = written[i]
      /\ Carry(all, frames, r)
  BY Zenon DEF ChannelInv
<1>4. n \in Nat /\ r \in Nat /\ frames \in Frames /\ Len(frames) = n
  BY <1>3, ChannelFrames, LenProperties
<1>5. /\ more \in Seq(AnyMessage(s)) /\ Len(more) = n + 1 /\ more[n + 1] = m
      /\ \A i \in 1 .. n : more[i] = written[i]
  BY <1>1, <1>3, AppendProperties
<1> HIDE DEF more, f, n, r, frames, all
<1>6. \A i \in 1 .. n + 1 : more[i] \in MessagesOf(s, TypeOf(d, i))
  <2> SUFFICES ASSUME NEW i \in 1 .. n + 1 PROVE more[i] \in MessagesOf(s, TypeOf(d, i))
    OBVIOUS
  <2>1. CASE i = n + 1
    BY <1>5, <2>1 DEF n
  <2>2. CASE i # n + 1
    <3>1. i \in 1 .. n
      BY <1>4, <2>2
    <3> QED BY <1>3, <1>5, <3>1
  <2> QED BY <2>1, <2>2
<1>7. Carry(all \o f, Append(frames, f), r)
  <2>1. r \in 0 .. Len(frames)
    BY <1>3, <1>4
  <2> QED BY <1>2, <1>3, <1>4, <2>1, CarryMore
<1>8. FramesOf(d, more) = Append(frames, f)
  <2>1. /\ FramesOf(d, more) \in Frames /\ Len(FramesOf(d, more)) = n + 1
        /\ \A i \in 1 .. n + 1 : FramesOf(d, more)[i] = Encode(TypeOf(d, i), more[i])
    BY <1>5, <1>6, ChannelFrames
  <2>2. \A i \in 1 .. n : frames[i] = Encode(TypeOf(d, i), written[i])
    BY <1>3, ChannelFrames DEF frames, n
  <2>3. /\ Append(frames, f) \in Frames /\ Len(Append(frames, f)) = n + 1
        /\ Append(frames, f)[n + 1] = f
        /\ \A i \in 1 .. n : Append(frames, f)[i] = frames[i]
    BY <1>2, <1>4, AppendProperties DEF Frames
  <2> DEFINE a == FramesOf(d, more)
             b == Append(frames, f)
  <2>4. ASSUME NEW i \in 1 .. n + 1 PROVE a[i] = b[i]
    <3>1. CASE i = n + 1
      BY <1>5, <2>1, <2>3, <3>1, Zenon DEF f, n
    <3>2. CASE i # n + 1
      <4>1. i \in 1 .. n
        BY <1>4, <3>2
      <4>2. a[i] = Encode(TypeOf(d, i), more[i])
        BY <2>1
      <4>3. b[i] = frames[i]
        BY <2>3, <4>1
      <4> HIDE DEF a, b
      <4> QED BY <1>5, <2>2, <4>1, <4>2, <4>3
    <3> QED BY <3>1, <3>2
  <2>5. a \in Seq(Seq(Bytes)) /\ b \in Seq(Seq(Bytes)) /\ Len(a) = n + 1 /\ Len(b) = n + 1
    BY <2>1, <2>3 DEF Frames
  <2> HIDE DEF a, b
  <2>6. a = b
    BY <2>4, <2>5, SeqEqual
  <2> QED BY <2>6 DEF a, b
<1>9. all \o f \in Seq(Bytes) /\ wi \o f \in Seq(Bytes) /\ buf \o (wi \o f) = all \o f
  <2>1. all \in Seq(Bytes)
    BY <1>3
  <2>2. all \o f \in Seq(Bytes) /\ wi \o f \in Seq(Bytes)
    BY <1>2, <2>1, ConcatProperties
  <2>3. \A a, b, c \in Seq(Bytes) : (a \o b) \o c = a \o (b \o c)
    BY ConcatAssociative
  <2> QED BY <1>2, <2>2, <2>3, Zenon DEF all
<1> DEFINE bytes == all \o f
<1>10. bytes \in Seq(Bytes) /\ Carry(bytes, FramesOf(d, more), r)
  BY <1>7, <1>8, <1>9
<1> HIDE DEF bytes
<1>11. Len(read) <= Len(more) /\ \A i \in 1 .. Len(read) : read[i] = more[i]
  <2>1. \A i \in 1 .. r : i \in 1 .. n
    BY <1>3, <1>4
  <2> QED BY <1>3, <1>4, <1>5, <2>1 DEF r
<1>12. ChannelInv(s, d, bytes, more, read)
  BY <1>3, <1>5, <1>6, <1>10, <1>11, Zenon DEF ChannelInv, r
<1> QED BY <1>9, <1>12, Zenon DEF bytes, more, f

(* What is decoded is the next message that was sent, if there is one and  *)
(* its frame has arrived.                                                  *)
LEMMA ChannelDecodes ==
  ASSUME NEW s \in Sessions, ~Rejected(s), NEW d, NEW buf \in Seq(Bytes), NEW wi \in Seq(Bytes),
         NEW written, NEW read, ChannelInv(s, d, buf \o wi, written, read),
         NEW type, type = TypeOf(d, Len(read) + 1)
  PROVE  /\ Decode(type, buf) # Broken
         /\ Decode(type, buf).kind = "message" =>
              /\ Len(read) < Len(written)
              /\ Decode(type, buf).message = written[Len(read) + 1]
              /\ Decode(type, buf).rest \in Seq(Bytes)
              /\ ChannelInv(s, d, Decode(type, buf).rest \o wi, written,
                            Append(read, Decode(type, buf).message))
         /\ Decode(type, buf) = NeedMore /\ wi = <<>> => Len(read) = Len(written) /\ buf = <<>>
<1> DEFINE n == Len(written)
           r == Len(read)
           frames == FramesOf(d, written)
           all == buf \o wi
           decoded == Decode(type, buf)
<1>1. /\ all \in Seq(Bytes) /\ written \in Seq(AnyMessage(s)) /\ read \in Seq(AnyMessage(s))
      /\ \A i \in 1 .. n : written[i] \in MessagesOf(s, TypeOf(d, i))
      /\ r <= n /\ \A i \in 1 .. r : read[i] = written[i]
      /\ Carry(all, frames, r)
  BY Zenon DEF ChannelInv
<1>2. /\ n \in Nat /\ r \in Nat /\ frames \in Frames /\ Len(frames) = n
      /\ \A i \in 1 .. n : /\ ReadsBack(TypeOf(d, i), written[i])
                          /\ frames[i] = Encode(TypeOf(d, i), written[i])
  BY <1>1, ChannelFrames, LenProperties
<1>3. Joins(all, buf, wi) /\ Len(buf) \in Nat
  BY Join, LenProperties
<1>4. "more" # "message" /\ "more" # "error" /\ "message" # "error"
  OBVIOUS
<1> HIDE DEF n, r, frames, all, decoded
<1>5. CASE r = n
  <2>1. all = <<>>
    BY <1>1, <1>2, <1>5, CarryEmpty
  <2>2. Len(buf) = 0
    BY <1>3, <2>1 DEF Joins
  <2>3. buf = <<>>
    BY <2>2, EmptySeq
  <2>4. decoded = NeedMore
    BY <2>2 DEF Decode, decoded, HeaderSize
  <2>5. decoded # Broken /\ decoded.kind # "message"
    BY <2>4, <1>4 DEF NeedMore, Broken
  <2> QED BY <1>5, <2>3, <2>5, Zenon DEF decoded, r, n
<1>6. CASE r # n
  <2>1. r < n /\ r + 1 \in 1 .. n /\ r \in 0 .. Len(frames) /\ r < Len(frames)
    BY <1>1, <1>2, <1>6
  <2> DEFINE m == written[r + 1]
             f == Encode(type, m)
  <2>2. /\ ReadsBack(type, m) /\ frames[r + 1] = f /\ type = TypeOf(d, r + 1)
        /\ m \in AnyMessage(s)
    <3>1. type = TypeOf(d, r + 1)
      BY Zenon DEF r
    <3>2. m \in AnyMessage(s)
      BY <1>1, <2>1, SentIsReadBack
    <3> QED BY <1>2, <2>1, <3>1, <3>2, Zenon
  <2> HIDE DEF m
  <2>3. /\ Len(f) <= Len(all)
        /\ Len(buf) < Len(f) => decoded = NeedMore
        /\ Len(buf) >= Len(f) =>
             /\ decoded = Message(m, Drop(buf, Len(f)))
             /\ Drop(buf, Len(f)) \in Seq(Bytes)
             /\ Carry(Drop(buf, Len(f)) \o wi, frames, r + 1)
    BY <1>1, <1>2, <2>1, <2>2, DecodeFront DEF all, decoded
  <2> HIDE DEF f
  <2>4. Len(f) \in Nat
    BY <2>2, EncodeFrame, Zenon DEF f
  <2>5. CASE Len(buf) < Len(f)
    <3>1. decoded = NeedMore
      BY <2>3, <2>5
    <3>2. decoded # Broken /\ decoded.kind # "message"
      BY <3>1, <1>4 DEF NeedMore, Broken
    <3>3. wi # <<>>
      <4>1. Len(buf) < Len(all) /\ Len(all) = Len(buf) + Len(wi)
        BY <1>3, <2>3, <2>4, <2>5 DEF Joins
      <4> QED BY <4>1, <1>3
    <3> QED BY <3>2, <3>3, Zenon DEF decoded, r, n
  <2>6. CASE Len(buf) >= Len(f)
    <3> DEFINE rest == Drop(buf, Len(f))
    <3>1. /\ decoded = Message(m, rest) /\ rest \in Seq(Bytes)
          /\ Carry(rest \o wi, frames, r + 1)
      BY <2>3, <2>6, Zenon
    <3> HIDE DEF rest
    <3>2. /\ decoded.kind = "message" /\ decoded.message = m /\ decoded.rest = rest
          /\ decoded # Broken /\ decoded # NeedMore
      BY <3>1, <1>4 DEF Message, Broken, NeedMore
    <3> DEFINE more == Append(read, m)
    <3>3. /\ more \in Seq(AnyMessage(s)) /\ Len(more) = r + 1 /\ more[r + 1] = m
          /\ \A i \in 1 .. r : more[i] = read[i]
      BY <1>1, <2>2, AppendProperties DEF r
    <3> HIDE DEF more
    <3>4. \A i \in 1 .. r + 1 : more[i] = written[i]
      <4> SUFFICES ASSUME NEW i \in 1 .. r + 1 PROVE more[i] = written[i]
        OBVIOUS
      <4>1. CASE i = r + 1
        BY <3>3, <4>1 DEF m
      <4>2. CASE i # r + 1
        <5>1. i \in 1 .. r
          BY <1>2, <4>2
        <5> QED BY <1>1, <3>3, <5>1
      <4> QED BY <4>1, <4>2
    <3> DEFINE bytes == rest \o wi
    <3>5. bytes \in Seq(Bytes) /\ Carry(bytes, frames, r + 1)
      BY <3>1, ConcatProperties
    <3> HIDE DEF bytes
    <3>6. r + 1 <= n
      BY <1>2, <2>1
    <3>7. ChannelInv(s, d, bytes, written, more)
      BY <1>1, <3>3, <3>4, <3>5, <3>6, Zenon DEF ChannelInv, n, frames
    <3>8. ChannelInv(s, d, decoded.rest \o wi, written, Append(read, decoded.message))
      BY <3>2, <3>7, Zenon DEF bytes, more
    <3> QED BY <2>1, <3>1, <3>2, <3>8, Zenon DEF decoded, r, n, m
  <2> QED BY <1>3, <2>4, <2>5, <2>6
<1> QED BY <1>5, <1>6

-----------------------------------------------------------------------------
(* The inductive invariant of a connection.                                *)
Written(d) == Len(sent[d])
Heard(d)   == Len(received[d])

Transport ==
  /\ session \in Sessions
  /\ DOMAIN wire = Directions /\ DOMAIN buffer = Directions
  /\ DOMAIN sent = Directions /\ DOMAIN received = Directions
  /\ \A d \in Directions :
       /\ wire[d] \in Seq(Bytes) /\ buffer[d] \in Seq(Bytes)
       /\ ChannelInv(session, d, buffer[d] \o wire[d], sent[d], received[d])

(* How far the orchestrator is, and what it has sent and heard.            *)
OrchestratorInv ==
  /\ orch \in {"starting", "connected"} => Written("down") = 0 /\ Heard("up") = 0
  /\ orch \in {"configuring", "aborting"} => Written("down") = 1 /\ Heard("up") = 0
  /\ orch = "ready" => Written("down") = 1 /\ Heard("up") = 1
  /\ orch = "collecting" => Written("down") = 2 /\ Heard("up") >= 1
  /\ Written("down") > 1 => Heard("up") >= 1
  /\ gone["down"] # "no" => orch \in OrchEnded

(* The reports before those of this phase.                                 *)
Before ==
  IF gen = "warmup" THEN 0
  ELSE IF gen = "pause" THEN config.warmup.duration
  ELSE config.warmup.duration + config.warmup.pause

GeneratorInv ==
  /\ gen \in {"listening", "configuring"} => Heard("down") = 0 /\ Written("up") = 0
  /\ gen = "setting_up" => Heard("down") = 1 /\ Written("up") = 0
  /\ gen = "ready" => Heard("down") = 1 /\ Written("up") = 1
  /\ gen \in {"warmup", "pause", "load"} =>
       Heard("down") = 2 /\ Written("up") = 1 + Before + reported
  /\ Written("up") > 1 => Heard("down") > 1
  /\ gone["up"] # "no" => gen \in GenEnded

(* There is a connection in a session that is not rejected.                *)
PlanInv ==
  /\ gen = "listening" => orch \in {"starting", "failed"} /\ plan = <<>> /\ Written("down") = 0
  /\ gen # "listening" => orch # "starting" /\ ~Rejected(session) /\ plan = Plan(session)

(* The clock does not leave its step, and stops at the end of the last.    *)
ClockInv ==
  /\ current \in DOMAIN steps => clock <= steps[current].deadline
  /\ current \notin DOMAIN steps /\ steps # <<>> => clock = steps[Len(steps)].deadline

LoadInv ==
  /\ reported \in Nat
  /\ gen \in {"setting_up", "ready", "warmup", "pause", "load"} =>
       config = ConfigFor(session, plan[session.id])
  /\ gen = "warmup" => steps = FromWarmup(config.warmup) /\ reported <= Len(steps)
  /\ gen = "pause" => reported <= config.warmup.pause
  /\ gen = "load" =>
       steps = FromProfile(config.profile.steps) /\ reported <= Len(steps) + MaxDrains
  /\ \A i \in 1 .. Written("up") :
       sent["up"][i].variant = "IntervalReport"
         => sent["up"][i].payload.load_level = PlannedLevel(i - 1)

ConnectionEnds ==
  /\ DOMAIN gone = Directions /\ DOMAIN reader = Directions
  /\ \A d \in Directions : /\ gone[d] \in {"no", "closed", "reset"}
                          /\ reader[d] \in {"open", "ended", "failed"}

PhasesOK ==
  /\ orch \in {"starting", "connected", "aborting", "configuring", "ready", "collecting"}
                \cup OrchEnded
  /\ gen \in {"listening", "configuring", "setting_up", "ready", "warmup", "pause", "load"}
               \cup GenEnded

Control == PhasesOK /\ OrchestratorInv /\ GeneratorInv /\ PlanInv

ConnectionIInv ==
  Transport /\ Control /\ ConnectionEnds /\ LoadInv /\ ClockInv /\ ScheduleInv

(* What the phases say about the numbers of messages.                      *)
LEMMA Counts ==
  ASSUME Transport
  PROVE  \A d \in Directions :
           /\ Written(d) \in Nat /\ Heard(d) \in Nat /\ Heard(d) <= Written(d)
           /\ \A i \in 1 .. Heard(d) : received[d][i] = sent[d][i]
           /\ \A i \in 1 .. Written(d) : sent[d][i] \in MessagesOf(session, TypeOf(d, i))
           /\ sent[d] \in Seq(AnyMessage(session)) /\ received[d] \in Seq(AnyMessage(session))
<1> SUFFICES ASSUME NEW d \in Directions
             PROVE  /\ Written(d) \in Nat /\ Heard(d) \in Nat /\ Heard(d) <= Written(d)
                    /\ \A i \in 1 .. Heard(d) : received[d][i] = sent[d][i]
                    /\ \A i \in 1 .. Written(d) : sent[d][i] \in MessagesOf(session, TypeOf(d, i))
                    /\ sent[d] \in Seq(AnyMessage(session))
                    /\ received[d] \in Seq(AnyMessage(session))
  OBVIOUS
<1>1. ChannelInv(session, d, buffer[d] \o wire[d], sent[d], received[d])
  BY Zenon DEF Transport
<1>2. /\ sent[d] \in Seq(AnyMessage(session)) /\ received[d] \in Seq(AnyMessage(session))
      /\ \A i \in 1 .. Len(sent[d]) : sent[d][i] \in MessagesOf(session, TypeOf(d, i))
      /\ Len(received[d]) <= Len(sent[d])
      /\ \A i \in 1 .. Len(received[d]) : received[d][i] = sent[d][i]
  BY <1>1, Zenon DEF ChannelInv
<1>3. Len(sent[d]) \in Nat /\ Len(received[d]) \in Nat
  BY <1>2, LenProperties
<1> QED BY <1>2, <1>3, Zenon DEF Written, Heard

LEMMA ExpectedType ==
  ASSUME Transport, Control, NEW d \in Directions, Polls(d)
  PROVE  Expected(d) = TypeOf(d, Heard(d) + 1) /\ gen # "listening" /\ ~Rejected(session)
<1>1. Heard(d) \in Nat
  BY Counts
<1>2. CASE d = "down"
  BY <1>1, <1>2 DEF Polls, Expected, TypeOf, Control, GeneratorInv, PlanInv
<1>3. CASE d = "up"
  BY <1>1, <1>3 DEF Polls, Expected, TypeOf, Control, OrchestratorInv, PlanInv
<1> QED BY <1>2, <1>3 DEF Directions

LEMMA TwoDirections ==
  ASSUME NEW d \in Directions
  PROVE  /\ Opposite(d) \in Directions /\ Opposite(d) # d
         /\ \A e \in Directions : e = d \/ e = Opposite(d)
  BY DEF Directions, Opposite

(* What a send, a receive and a read do to the connection.                 *)
LEMMA SendAt ==
  ASSUME Transport, NEW d \in Directions, ~Rejected(session),
         NEW type, type = TypeOf(d, Written(d) + 1), NEW m \in MessagesOf(session, type),
         wire'[d] = wire[d] \o Encode(type, m), sent'[d] = Append(sent[d], m),
         buffer'[d] = buffer[d], received'[d] = received[d], session' = session
  PROVE  /\ wire'[d] \in Seq(Bytes) /\ buffer'[d] \in Seq(Bytes)
         /\ ChannelInv(session', d, buffer'[d] \o wire'[d], sent'[d], received'[d])
         /\ Len(sent'[d]) = Written(d) + 1 /\ sent'[d][Written(d) + 1] = m
         /\ \A i \in 1 .. Written(d) : sent'[d][i] = sent[d][i]
<1>1. /\ wire[d] \in Seq(Bytes) /\ buffer[d] \in Seq(Bytes) /\ session \in Sessions
      /\ ChannelInv(session, d, buffer[d] \o wire[d], sent[d], received[d])
  BY Zenon DEF Transport
<1>2. /\ wire[d] \o Encode(type, m) \in Seq(Bytes)
      /\ ChannelInv(session, d, buffer[d] \o (wire[d] \o Encode(type, m)), Append(sent[d], m),
                    received[d])
  BY <1>1, ChannelSends, Zenon DEF Written
<1>3. sent[d] \in Seq(AnyMessage(session)) /\ m \in AnyMessage(session)
  BY <1>1, Counts, SentIsReadBack, Zenon
<1>4. /\ Len(Append(sent[d], m)) = Len(sent[d]) + 1 /\ Append(sent[d], m)[Len(sent[d]) + 1] = m
      /\ \A i \in 1 .. Len(sent[d]) : Append(sent[d], m)[i] = sent[d][i]
  BY <1>3, AppendProperties
<1> QED BY <1>1, <1>2, <1>4, Zenon DEF Written

LEMMA HearAt ==
  ASSUME Transport, Control, NEW d \in Directions, NEW variants, HearsOf(d, variants)
  PROVE  /\ Heard(d) < Written(d)
         /\ Decoded(d).message = sent[d][Heard(d) + 1]
         /\ Decoded(d).message \in MessagesOf(session, TypeOf(d, Heard(d) + 1))
         /\ Decoded(d).message.variant \in variants
         /\ Decoded(d).rest \in Seq(Bytes)
         /\ ChannelInv(session, d, Decoded(d).rest \o wire[d], sent[d], received'[d])
         /\ Len(received'[d]) = Heard(d) + 1
<1>1. /\ wire[d] \in Seq(Bytes) /\ buffer[d] \in Seq(Bytes) /\ session \in Sessions
      /\ ChannelInv(session, d, buffer[d] \o wire[d], sent[d], received[d])
  BY Zenon DEF Transport
<1>2. /\ Polls(d) /\ Decoded(d).kind = "message" /\ Decoded(d).message.variant \in variants
      /\ received' = [received EXCEPT ![d] = Append(@, Decoded(d).message)]
  BY Zenon DEF HearsOf
<1>3. Expected(d) = TypeOf(d, Heard(d) + 1) /\ ~Rejected(session)
  BY <1>2, ExpectedType
<1>4. Decoded(d) = Decode(TypeOf(d, Heard(d) + 1), buffer[d])
  BY <1>3, Zenon DEF Decoded
<1>5. /\ Len(received[d]) < Len(sent[d])
      /\ Decoded(d).message = sent[d][Len(received[d]) + 1]
      /\ Decoded(d).rest \in Seq(Bytes)
      /\ ChannelInv(session, d, Decoded(d).rest \o wire[d], sent[d],
                    Append(received[d], Decoded(d).message))
  <2> DEFINE type == TypeOf(d, Heard(d) + 1)
  <2>1. type = TypeOf(d, Len(received[d]) + 1) /\ Decoded(d) = Decode(type, buffer[d])
    BY <1>4, Zenon DEF Heard
  <2> HIDE DEF type
  <2>2. Decode(type, buffer[d]).kind = "message"
    BY <1>2, <2>1
  <2>3. /\ Decode(type, buffer[d]).kind = "message" =>
             /\ Len(received[d]) < Len(sent[d])
             /\ Decode(type, buffer[d]).message = sent[d][Len(received[d]) + 1]
             /\ Decode(type, buffer[d]).rest \in Seq(Bytes)
             /\ ChannelInv(session, d, Decode(type, buffer[d]).rest \o wire[d], sent[d],
                           Append(received[d], Decode(type, buffer[d]).message))
    BY <1>1, <1>3, <2>1, ChannelDecodes
  <2> QED BY <2>1, <2>2, <2>3, Zenon
<1>6. received'[d] = Append(received[d], Decoded(d).message)
  <2>1. d \in DOMAIN received
    BY Zenon DEF Transport
  <2> QED BY <1>2, <2>1, Zenon
<1>7. Heard(d) \in Nat /\ Written(d) \in Nat /\ Heard(d) < Written(d)
  BY <1>5, Counts DEF Heard, Written
<1>8. Heard(d) + 1 \in 1 .. Written(d)
  BY <1>7
<1>9. Decoded(d).message \in MessagesOf(session, TypeOf(d, Heard(d) + 1))
  <2>1. sent[d][Heard(d) + 1] \in MessagesOf(session, TypeOf(d, Heard(d) + 1))
    BY <1>8, Counts
  <2> QED BY <1>5, <2>1, Zenon DEF Heard
<1>10. Len(received'[d]) = Heard(d) + 1
  <2>1. Decoded(d).message \in AnyMessage(session)
    BY <1>1, <1>3, <1>9, SentIsReadBack, Zenon
  <2>2. received[d] \in Seq(AnyMessage(session))
    BY Counts
  <2>3. Len(Append(received[d], Decoded(d).message)) = Len(received[d]) + 1
    BY <2>1, <2>2, AppendProperties
  <2> QED BY <1>6, <2>3, Zenon DEF Heard
<1> QED BY <1>2, <1>5, <1>6, <1>7, <1>9, <1>10, Zenon DEF Heard
(* The state of a connection is that of its two directions.                *)
LEMMA BothDirections ==
  ASSUME NEW d \in Directions, session' \in Sessions,
         DOMAIN wire' = Directions, DOMAIN buffer' = Directions,
         DOMAIN sent' = Directions, DOMAIN received' = Directions,
         wire'[d] \in Seq(Bytes), buffer'[d] \in Seq(Bytes),
         ChannelInv(session', d, buffer'[d] \o wire'[d], sent'[d], received'[d]),
         wire'[Opposite(d)] \in Seq(Bytes), buffer'[Opposite(d)] \in Seq(Bytes),
         ChannelInv(session', Opposite(d), buffer'[Opposite(d)] \o wire'[Opposite(d)],
                    sent'[Opposite(d)], received'[Opposite(d)])
  PROVE  Transport'
<1>1. \A e \in Directions : e = d \/ e = Opposite(d)
  BY TwoDirections
<1>2. \A e \in Directions :
        /\ wire'[e] \in Seq(Bytes) /\ buffer'[e] \in Seq(Bytes)
        /\ ChannelInv(session', e, buffer'[e] \o wire'[e], sent'[e], received'[e])
  BY <1>1, Zenon
<1> QED BY <1>2, Zenon DEF Transport

LEMMA TransportAt ==
  ASSUME Transport, NEW d \in Directions
  PROVE  /\ session \in Sessions
         /\ DOMAIN wire = Directions /\ DOMAIN buffer = Directions
         /\ DOMAIN sent = Directions /\ DOMAIN received = Directions
         /\ wire[d] \in Seq(Bytes) /\ buffer[d] \in Seq(Bytes)
         /\ ChannelInv(session, d, buffer[d] \o wire[d], sent[d], received[d])
  BY Zenon DEF Transport

LEMMA QuietStep ==
  ASSUME Transport, UNCHANGED <<session, wire, buffer, sent, received>>
  PROVE  /\ Transport'
         /\ \A e \in Directions : Written(e)' = Written(e) /\ Heard(e)' = Heard(e)
<1>1. /\ session' = session /\ wire' = wire /\ buffer' = buffer /\ sent' = sent
      /\ received' = received
  OBVIOUS
<1>2. Transport'
  BY <1>1, Zenon DEF Transport
<1> QED BY <1>1, <1>2, Zenon DEF Written, Heard

(* One direction sends while something happens to the buffer of the other. *)
LEMMA SendAndStep ==
  ASSUME Transport, NEW d \in Directions, ~Rejected(session),
         NEW type, type = TypeOf(d, Written(d) + 1), NEW m \in MessagesOf(session, type),
         Sends(d, type, m), session' = session,
         buffer'[d] = buffer[d], received'[d] = received[d],
         DOMAIN buffer' = Directions, DOMAIN received' = Directions,
         buffer'[Opposite(d)] \in Seq(Bytes),
         ChannelInv(session, Opposite(d), buffer'[Opposite(d)] \o wire[Opposite(d)],
                    sent[Opposite(d)], received'[Opposite(d)])
  PROVE  /\ Transport'
         /\ Written(d)' = Written(d) + 1 /\ Written(Opposite(d))' = Written(Opposite(d))
         /\ Heard(d)' = Heard(d)
         /\ sent'[d][Written(d) + 1] = m
         /\ \A i \in 1 .. Written(d) : sent'[d][i] = sent[d][i]
         /\ sent'[Opposite(d)] = sent[Opposite(d)]
<1> DEFINE e == Opposite(d)
<1>1. e \in Directions /\ e # d
  BY TwoDirections
<1> HIDE DEF e
<1>2. /\ session \in Sessions /\ DOMAIN wire = Directions /\ DOMAIN sent = Directions
      /\ wire[e] \in Seq(Bytes)
  BY <1>1, TransportAt, Zenon
<1>3. /\ wire' = [wire EXCEPT ![d] = @ \o Encode(type, m)]
      /\ sent' = [sent EXCEPT ![d] = Append(@, m)]
  BY Zenon DEF Sends, Writes
<1>4. /\ wire'[d] = wire[d] \o Encode(type, m) /\ wire'[e] = wire[e] /\ DOMAIN wire' = Directions
      /\ sent'[d] = Append(sent[d], m) /\ sent'[e] = sent[e] /\ DOMAIN sent' = Directions
  <2>1. wire'[d] = wire[d] \o Encode(type, m) /\ sent'[d] = Append(sent[d], m)
    BY <1>2, <1>3, Zenon
  <2>2. wire'[e] = wire[e] /\ sent'[e] = sent[e]
    BY <1>1, <1>2, <1>3, Zenon
  <2>3. DOMAIN wire' = Directions /\ DOMAIN sent' = Directions
    BY <1>2, <1>3, Zenon
  <2> QED BY <2>1, <2>2, <2>3
<1>5. /\ wire'[d] \in Seq(Bytes) /\ buffer'[d] \in Seq(Bytes)
      /\ ChannelInv(session', d, buffer'[d] \o wire'[d], sent'[d], received'[d])
      /\ Len(sent'[d]) = Written(d) + 1 /\ sent'[d][Written(d) + 1] = m
      /\ \A i \in 1 .. Written(d) : sent'[d][i] = sent[d][i]
  BY <1>4, SendAt, Zenon
<1>6. /\ wire'[e] \in Seq(Bytes) /\ buffer'[e] \in Seq(Bytes)
      /\ ChannelInv(session', e, buffer'[e] \o wire'[e], sent'[e], received'[e])
  BY <1>2, <1>4, Zenon DEF e
<1>7. Transport'
  BY <1>2, <1>4, <1>5, <1>6, BothDirections, Zenon DEF e
<1> QED BY <1>4, <1>5, <1>7, Zenon DEF Written, Heard, e

LEMMA SendStep ==
  ASSUME Transport, NEW d \in Directions, ~Rejected(session),
         NEW type, type = TypeOf(d, Written(d) + 1), NEW m \in MessagesOf(session, type),
         Sends(d, type, m), UNCHANGED <<session, buffer, received>>
  PROVE  /\ Transport'
         /\ Written(d)' = Written(d) + 1 /\ Written(Opposite(d))' = Written(Opposite(d))
         /\ \A e \in Directions : Heard(e)' = Heard(e)
         /\ sent'[d][Written(d) + 1] = m
         /\ \A i \in 1 .. Written(d) : sent'[d][i] = sent[d][i]
         /\ sent'[Opposite(d)] = sent[Opposite(d)]
<1>1. session' = session /\ buffer' = buffer /\ received' = received
  OBVIOUS
<1>2. Opposite(d) \in Directions
  BY TwoDirections
<1>3. /\ DOMAIN buffer = Directions /\ DOMAIN received = Directions
      /\ buffer[Opposite(d)] \in Seq(Bytes)
      /\ ChannelInv(session, Opposite(d), buffer[Opposite(d)] \o wire[Opposite(d)],
                    sent[Opposite(d)], received[Opposite(d)])
  BY <1>2, TransportAt, Zenon
<1>4. /\ Transport'
      /\ Written(d)' = Written(d) + 1 /\ Written(Opposite(d))' = Written(Opposite(d))
      /\ sent'[d][Written(d) + 1] = m
      /\ \A i \in 1 .. Written(d) : sent'[d][i] = sent[d][i]
      /\ sent'[Opposite(d)] = sent[Opposite(d)]
  BY <1>1, <1>3, SendAndStep, Zenon
<1> QED BY <1>1, <1>4, Zenon DEF Heard

(* A direction is read from: what is heard was sent, and is next.          *)
LEMMA HearStep ==
  ASSUME Transport, Control, NEW d \in Directions, NEW variants, Hears(d, variants),
         UNCHANGED <<session, wire, sent>>
  PROVE  /\ Transport'
         /\ Heard(d) < Written(d)
         /\ Heard(d)' = Heard(d) + 1 /\ Heard(Opposite(d))' = Heard(Opposite(d))
         /\ \A e \in Directions : Written(e)' = Written(e)
         /\ Decoded(d).message \in MessagesOf(session, TypeOf(d, Heard(d) + 1))
         /\ Decoded(d).message.variant \in variants
<1> DEFINE e == Opposite(d)
<1>1. e \in Directions /\ e # d
  BY TwoDirections
<1> HIDE DEF e
<1>2. /\ session \in Sessions
      /\ DOMAIN wire = Directions /\ DOMAIN buffer = Directions
      /\ DOMAIN sent = Directions /\ DOMAIN received = Directions
      /\ wire[e] \in Seq(Bytes) /\ buffer[e] \in Seq(Bytes) /\ wire[d] \in Seq(Bytes)
      /\ ChannelInv(session, e, buffer[e] \o wire[e], sent[e], received[e])
  BY <1>1, TransportAt, Zenon
<1>3. /\ HearsOf(d, variants) /\ buffer' = [buffer EXCEPT ![d] = Decoded(d).rest]
      /\ received' = [received EXCEPT ![d] = Append(@, Decoded(d).message)]
  BY Zenon DEF Hears, HearsOf
<1>4. session' = session /\ wire' = wire /\ sent' = sent
  OBVIOUS
<1>5. /\ Heard(d) < Written(d)
      /\ Decoded(d).message \in MessagesOf(session, TypeOf(d, Heard(d) + 1))
      /\ Decoded(d).message.variant \in variants
      /\ Decoded(d).rest \in Seq(Bytes)
      /\ ChannelInv(session, d, Decoded(d).rest \o wire[d], sent[d], received'[d])
      /\ Len(received'[d]) = Heard(d) + 1
  BY <1>3, HearAt, Zenon
<1>6. /\ buffer'[d] = Decoded(d).rest /\ buffer'[e] = buffer[e] /\ DOMAIN buffer' = Directions
      /\ received'[e] = received[e] /\ DOMAIN received' = Directions
  <2>1. buffer'[d] = Decoded(d).rest
    BY <1>2, <1>3, Zenon
  <2>2. buffer'[e] = buffer[e] /\ received'[e] = received[e]
    BY <1>1, <1>2, <1>3, Zenon
  <2>3. DOMAIN buffer' = Directions /\ DOMAIN received' = Directions
    BY <1>2, <1>3, Zenon
  <2> QED BY <2>1, <2>2, <2>3
<1>7. /\ wire'[d] \in Seq(Bytes) /\ buffer'[d] \in Seq(Bytes)
      /\ ChannelInv(session', d, buffer'[d] \o wire'[d], sent'[d], received'[d])
  BY <1>2, <1>4, <1>5, <1>6, Zenon
<1>8. /\ wire'[e] \in Seq(Bytes) /\ buffer'[e] \in Seq(Bytes)
      /\ ChannelInv(session', e, buffer'[e] \o wire'[e], sent'[e], received'[e])
  BY <1>2, <1>4, <1>6, Zenon
<1>9. Transport'
  BY <1>2, <1>4, <1>6, <1>7, <1>8, BothDirections, Zenon DEF e
<1> QED BY <1>4, <1>5, <1>6, <1>9, Zenon DEF Written, Heard, e

LEMMA AllHeard ==
  ASSUME NEW s \in Sessions, ~Rejected(s), NEW d, NEW buf \in Seq(Bytes), NEW wi \in Seq(Bytes),
         NEW written, NEW read, ChannelInv(s, d, buf \o wi, written, read),
         Len(read) = Len(written)
  PROVE  buf = <<>> /\ wi = <<>>
<1> DEFINE all == buf \o wi
           frames == FramesOf(d, written)
<1>1. /\ all \in Seq(Bytes) /\ Carry(all, frames, Len(read)) /\ written \in Seq(AnyMessage(s))
      /\ \A i \in 1 .. Len(written) : written[i] \in MessagesOf(s, TypeOf(d, i))
  BY Zenon DEF ChannelInv
<1>2. Len(frames) = Len(written) /\ Len(written) \in Nat
  BY <1>1, ChannelFrames
<1>3. Joins(all, buf, wi)
  BY Join
<1> HIDE DEF all, frames
<1>4. all = <<>>
  BY <1>1, <1>2, CarryEmpty
<1>5. Len(buf) = 0 /\ Len(wi) = 0
  BY <1>3, <1>4, LenProperties DEF Joins
<1> QED BY <1>5, EmptySeq

(* Nothing of the last message that was sent is behind it.                 *)
LEMMA NothingBehind ==
  ASSUME Transport, Control, NEW d \in Directions, NEW variants, HearsOf(d, variants),
         Written(d) = Heard(d) + 1
  PROVE  Decoded(d).rest = <<>>
<1>1. session \in Sessions /\ wire[d] \in Seq(Bytes)
  BY TransportAt, Zenon
<1>2. /\ Decoded(d).rest \in Seq(Bytes)
      /\ ChannelInv(session, d, Decoded(d).rest \o wire[d], sent[d], received'[d])
      /\ Len(received'[d]) = Heard(d) + 1
  BY HearAt, Zenon
<1>3. ~Rejected(session)
  BY ExpectedType, Zenon DEF HearsOf
<1>4. Len(received'[d]) = Len(sent[d])
  BY <1>2, Zenon DEF Written
<1> QED BY <1>1, <1>2, <1>3, <1>4, AllHeard, Zenon

(* A framer that is taken apart has nothing left to lose: with the answer  *)
(* to the configuration, and with the configuration (configure.rs:75).     *)
LEMMA UnframedAtReady ==
  ASSUME Transport, Control, ConfigReady
  PROVE  Hears("up", {"Ready"})
<1>1. /\ orch = "configuring" /\ HearsOf("up", {"Ready"})
      /\ buffer' = [buffer EXCEPT !["up"] = <<>>]
  BY Zenon DEF ConfigReady, Unframe
<1>2. "up" \in Directions /\ "down" \in Directions
  BY DEF Directions
<1>3. Heard("up") < Written("up")
  BY <1>1, <1>2, HearAt, Zenon
<1>4. /\ Written("up") \in Nat /\ Heard("up") \in Nat /\ Written("down") \in Nat
      /\ Heard("down") \in Nat /\ Heard("down") <= Written("down")
  BY <1>2, Counts
<1>5. Written("up") = Heard("up") + 1
  BY <1>1, <1>3, <1>4 DEF Control, OrchestratorInv, GeneratorInv
<1>6. Decoded("up").rest = <<>>
  BY <1>1, <1>2, <1>5, NothingBehind, Zenon
<1> QED BY <1>1, <1>6, Zenon DEF Hears

LEMMA UnframedAtSetup ==
  ASSUME Transport, Control, SetupSucceeds
  PROVE  DOMAIN buffer' = Directions /\ \A d \in Directions : buffer'[d] = buffer[d]
<1>1. gen = "setting_up" /\ buffer' = [buffer EXCEPT !["down"] = <<>>]
  BY Zenon DEF SetupSucceeds, Unframe
<1>2. "up" \in Directions /\ "down" \in Directions
  BY DEF Directions
<1>3. /\ Written("up") \in Nat /\ Heard("up") \in Nat /\ Written("down") \in Nat
      /\ Heard("down") \in Nat /\ Heard("down") <= Written("down") /\ Heard("up") <= Written("up")
  BY <1>2, Counts
<1>4. Heard("down") = Written("down") /\ ~Rejected(session)
  BY <1>1, <1>3 DEF Control, OrchestratorInv, GeneratorInv, PlanInv
<1>5. /\ session \in Sessions /\ wire["down"] \in Seq(Bytes) /\ buffer["down"] \in Seq(Bytes)
      /\ ChannelInv(session, "down", buffer["down"] \o wire["down"], sent["down"],
                    received["down"])
  BY <1>2, TransportAt, Zenon
<1>6. buffer["down"] = <<>>
  BY <1>4, <1>5, AllHeard, Zenon DEF Heard, Written
<1>7. DOMAIN buffer = Directions
  BY <1>2, TransportAt, Zenon
<1>8. DOMAIN buffer' = Directions /\ buffer'["down"] = <<>> /\ buffer'["up"] = buffer["up"]
  BY <1>1, <1>2, <1>7
<1> QED BY <1>6, <1>8 DEF Directions

LEMMA CutInTwo ==
  ASSUME NEW w \in Seq(Bytes), NEW n \in 1 .. Len(w)
  PROVE  /\ SubSeq(w, 1, n) \in Seq(Bytes) /\ Drop(w, n) \in Seq(Bytes)
         /\ SubSeq(w, 1, n) \o Drop(w, n) = w
<1> DEFINE a == SubSeq(w, 1, n)
           b == Drop(w, n)
           c == a \o b
<1>1. Len(w) \in Nat /\ n \in Nat /\ n <= Len(w)
  BY LenProperties
<1>2. /\ a \in Seq(Bytes) /\ Len(a) = n /\ \A i \in 1 .. n : a[i] = w[i]
  BY <1>1, LenProperties, SubSeqProperties
<1>3. /\ b \in Seq(Bytes) /\ Len(b) = Len(w) - n /\ \A i \in 1 .. Len(w) - n : b[i] = w[n + i]
  BY <1>1, DropBytes
<1> HIDE DEF a, b
<1>4. c \in Seq(Bytes) /\ Joins(c, a, b)
  BY <1>2, <1>3, Join, ConcatProperties
<1> HIDE DEF c
<1>5. Len(c) = Len(w)
  BY <1>1, <1>2, <1>3, <1>4 DEF Joins
<1>6. \A i \in 1 .. Len(c) : c[i] = w[i]
  <2> SUFFICES ASSUME NEW i \in 1 .. Len(c) PROVE c[i] = w[i]
    OBVIOUS
  <2>1. CASE i <= n
    <3>1. i \in 1 .. n
      BY <1>1, <1>5, <2>1
    <3> QED BY <1>2, <1>4, <3>1 DEF Joins
  <2>2. CASE i > n
    <3> DEFINE k == i - n
    <3>1. k \in 1 .. Len(w) - n /\ n + k = i
      BY <1>1, <1>5, <2>2
    <3> HIDE DEF k
    <3>2. c[n + k] = b[k]
      BY <1>2, <1>3, <1>4, <3>1 DEF Joins
    <3> QED BY <1>3, <3>1, <3>2
  <2> QED BY <1>1, <2>1, <2>2
<1>7. c = w
  BY <1>4, <1>5, <1>6, SeqEqual
<1> QED BY <1>2, <1>3, <1>7 DEF a, b, c

(* Reading moves bytes from the wire to the buffer, however many.          *)
LEMMA ReadStep ==
  ASSUME Transport, NEW d \in Directions, ReadSome(d)
  PROVE  /\ Transport'
         /\ \A e \in Directions : Written(e)' = Written(e) /\ Heard(e)' = Heard(e)
<1> DEFINE e == Opposite(d)
<1>1. e \in Directions /\ e # d
  BY TwoDirections
<1> HIDE DEF e
<1>2. session' = session /\ sent' = sent /\ received' = received
  BY DEF ReadSome, orchVars
<1>3. PICK n \in 1 .. Len(wire[d]) :
        /\ buffer' = [buffer EXCEPT ![d] = @ \o SubSeq(wire[d], 1, n)]
        /\ wire' = [wire EXCEPT ![d] = Drop(@, n)]
  BY Zenon DEF ReadSome
<1>4. /\ session \in Sessions
      /\ DOMAIN wire = Directions /\ DOMAIN buffer = Directions
      /\ DOMAIN sent = Directions /\ DOMAIN received = Directions
      /\ wire[e] \in Seq(Bytes) /\ buffer[e] \in Seq(Bytes)
      /\ wire[d] \in Seq(Bytes) /\ buffer[d] \in Seq(Bytes)
      /\ ChannelInv(session, d, buffer[d] \o wire[d], sent[d], received[d])
      /\ ChannelInv(session, e, buffer[e] \o wire[e], sent[e], received[e])
  BY <1>1, TransportAt, Zenon
<1> DEFINE front == SubSeq(wire[d], 1, n)
           back  == Drop(wire[d], n)
<1>5. front \in Seq(Bytes) /\ back \in Seq(Bytes) /\ front \o back = wire[d]
  BY <1>4, CutInTwo
<1>6. /\ buffer'[d] = buffer[d] \o front /\ wire'[d] = back
      /\ buffer'[e] = buffer[e] /\ wire'[e] = wire[e]
      /\ DOMAIN buffer' = Directions /\ DOMAIN wire' = Directions
  <2>1. buffer'[d] = buffer[d] \o front /\ wire'[d] = back
    BY <1>3, <1>4, Zenon
  <2>2. buffer'[e] = buffer[e] /\ wire'[e] = wire[e]
    BY <1>1, <1>3, <1>4, Zenon
  <2>3. DOMAIN buffer' = Directions /\ DOMAIN wire' = Directions
    BY <1>3, <1>4, Zenon
  <2> QED BY <2>1, <2>2, <2>3
<1> HIDE DEF front, back
<1>7. buffer'[d] \in Seq(Bytes) /\ buffer'[d] \o wire'[d] = buffer[d] \o wire[d]
  <2>1. buffer[d] \o front \in Seq(Bytes)
    BY <1>4, <1>5, ConcatProperties
  <2>2. (buffer[d] \o front) \o back = buffer[d] \o (front \o back)
    <3>1. \A a, b, c \in Seq(Bytes) : (a \o b) \o c = a \o (b \o c)
      BY ConcatAssociative
    <3> QED BY <1>4, <1>5, <3>1, Zenon
  <2> QED BY <1>5, <1>6, <2>1, <2>2, Zenon
<1>8. /\ wire'[d] \in Seq(Bytes) /\ wire'[e] \in Seq(Bytes) /\ buffer'[e] \in Seq(Bytes)
      /\ ChannelInv(session', d, buffer'[d] \o wire'[d], sent'[d], received'[d])
      /\ ChannelInv(session', e, buffer'[e] \o wire'[e], sent'[e], received'[e])
  BY <1>2, <1>4, <1>5, <1>6, <1>7, Zenon
<1>9. Transport'
  BY <1>2, <1>4, <1>6, <1>7, <1>8, BothDirections, Zenon DEF e
<1> QED BY <1>2, <1>9, Zenon DEF Written, Heard

-----------------------------------------------------------------------------
(* What a load generator is told of the load, and makes of it.             *)
LEMMA ShareOf ==
  ASSUME NEW s \in Sessions, ~Rejected(s), NEW share, share = Plan(s)[s.id]
  PROVE  /\ s.generators \in Nat \ {0} /\ s.id \in 1 .. s.generators
         /\ s.rows \in Seq(Rows) /\ ProfileIsValid(s.rows) /\ s.warmup \in Warmups
         /\ share.profile = DistributeProfile(Profile(s.rows), s.generators)[s.id]
         /\ share.warmup = DistributeWarmup(s.warmup, s.generators)[s.id]
         /\ share.warmup.duration = s.warmup.duration /\ s.warmup.duration \in Nat
         /\ share.warmup.pause = s.warmup.pause /\ s.warmup.pause \in Nat
         /\ share.warmup.rate \in Nat
         /\ Len(s.rows) \in Nat \ {0} /\ DOMAIN s.rows = 1 .. Len(s.rows)
         /\ DOMAIN share.profile = 1 .. Len(s.rows)
         /\ \A i \in 1 .. Len(s.rows) : /\ share.profile[i].deadline = s.rows[i].deadline
                                        /\ share.profile[i].count \in Nat
                                        /\ s.rows[i].deadline \in Nat
<1>1. /\ s.generators \in Nat \ {0} /\ s.id \in 1 .. s.generators
      /\ s.rows \in Seq(Rows) /\ s.warmup \in Warmups
  BY SessionAssumption, Zenon
<1>2. ProfileIsValid(s.rows)
  BY Zenon DEF Rejected
<1>3. /\ share.profile = DistributeProfile(Profile(s.rows), s.generators)[s.id]
      /\ share.warmup = DistributeWarmup(s.warmup, s.generators)[s.id]
  BY <1>1 DEF Plan
<1>4. /\ share.warmup = [s.warmup EXCEPT !.rate = DistributeCount(s.warmup.rate, s.generators)[s.id]]
      /\ share.profile = [i \in DOMAIN Profile(s.rows) |->
                            [Profile(s.rows)[i] EXCEPT
                               !.count = DistributeCount(Profile(s.rows)[i].count, s.generators)[s.id]]]
  BY <1>1, <1>3 DEF DistributeProfile, DistributeWarmup
<1>5. /\ s.warmup.duration \in Nat /\ s.warmup.pause \in Nat /\ s.warmup.rate \in Nat
      /\ share.warmup.duration = s.warmup.duration /\ share.warmup.pause = s.warmup.pause
      /\ share.warmup.rate = DistributeCount(s.warmup.rate, s.generators)[s.id]
  BY <1>1, <1>4 DEF Warmups
<1>6. share.warmup.rate \in Nat
  BY <1>1, <1>5, ShareIsNat
<1>7. /\ Len(s.rows) \in Nat /\ DOMAIN s.rows = 1 .. Len(s.rows)
      /\ \A i \in 1 .. Len(s.rows) : s.rows[i].deadline \in Nat /\ s.rows[i].count \in Nat
  <2>1. /\ Len(s.rows) \in Nat /\ DOMAIN s.rows = 1 .. Len(s.rows)
        /\ \A i \in 1 .. Len(s.rows) : s.rows[i] \in Rows
    BY <1>1, LenProperties
  <2> QED BY <2>1 DEF Rows
<1>8. Len(s.rows) # 0
  <2>1. s.rows # <<>>
    BY <1>2 DEF ProfileIsValid
  <2> QED BY <1>1, <2>1, EmptySeq
<1>9. /\ DOMAIN share.profile = 1 .. Len(s.rows)
      /\ \A i \in 1 .. Len(s.rows) :
           /\ share.profile[i].deadline = s.rows[i].deadline
           /\ share.profile[i].count = DistributeCount(s.rows[i].count, s.generators)[s.id]
  <2> DEFINE profile == Profile(s.rows)
  <2>1. /\ DOMAIN profile = 1 .. Len(s.rows)
        /\ \A i \in 1 .. Len(s.rows) :
             profile[i] = [deadline |-> s.rows[i].deadline, count |-> s.rows[i].count]
    BY <1>7 DEF Profile
  <2>2. share.profile = [i \in DOMAIN profile |->
                           [profile[i] EXCEPT
                              !.count = DistributeCount(profile[i].count, s.generators)[s.id]]]
    BY <1>4, Zenon
  <2> DEFINE part(count) == DistributeCount(count, s.generators)[s.id]
  <2>3. share.profile = [i \in DOMAIN profile |->
                           [profile[i] EXCEPT !.count = part(profile[i].count)]]
    BY <2>2
  <2> HIDE DEF profile, part
  <2>4. DOMAIN share.profile = 1 .. Len(s.rows)
    BY <2>1, <2>3
  <2>5. ASSUME NEW i \in 1 .. Len(s.rows)
        PROVE  /\ share.profile[i].deadline = s.rows[i].deadline
               /\ share.profile[i].count = part(s.rows[i].count)
    <3>1. profile[i] = [deadline |-> s.rows[i].deadline, count |-> s.rows[i].count]
      BY <2>1
    <3>2. share.profile[i] = [profile[i] EXCEPT !.count = part(profile[i].count)]
      BY <2>1, <2>3, Zenon
    <3> QED BY <3>1, <3>2
  <2> QED BY <2>4, <2>5 DEF part
<1>10. \A i \in 1 .. Len(s.rows) : share.profile[i].count \in Nat
  BY <1>1, <1>7, <1>9, ShareIsNat
<1> QED BY <1>1, <1>2, <1>3, <1>5, <1>6, <1>7, <1>8, <1>9, <1>10

(* The configuration and the steps of the load generator.                  *)
LEMMA ConfigOf ==
  ASSUME Transport, Control, LoadInv, ScheduleInv,
         gen \in {"setting_up", "ready", "warmup", "pause", "load"}
  PROVE  /\ ~Rejected(session) /\ plan = Plan(session)
         /\ config = ConfigFor(session, plan[session.id])
         /\ config.warmup = plan[session.id].warmup
         /\ config.profile.steps = plan[session.id].profile
         /\ Len(steps) \in Nat /\ DOMAIN steps = 1 .. Len(steps)
         /\ gen = "warmup" => /\ Len(steps) = config.warmup.duration
                              /\ \A i \in 1 .. Len(steps) : steps[i].deadline = i * TicksPerSecond
         /\ gen = "load" => /\ Len(steps) = Len(session.rows)
                            /\ \A i \in 1 .. Len(steps) :
                                 steps[i].deadline = session.rows[i].deadline
<1>1. /\ ~Rejected(session) /\ plan = Plan(session) /\ session \in Sessions
      /\ config = ConfigFor(session, plan[session.id])
  BY DEF Control, PlanInv, LoadInv, Transport
<1> DEFINE share == plan[session.id]
<1>2. /\ config.warmup = share.warmup
      /\ config.profile.steps = share.profile
  BY <1>1 DEF ConfigFor
<1>3. Len(steps) \in Nat /\ DOMAIN steps = 1 .. Len(steps)
  BY LenProperties DEF ScheduleInv, ScheduleTypeOK
<1>4. /\ share.warmup.duration \in Nat /\ Len(session.rows) \in Nat
      /\ DOMAIN share.profile = 1 .. Len(session.rows)
      /\ \A i \in 1 .. Len(session.rows) : share.profile[i].deadline = session.rows[i].deadline
  BY <1>1, ShareOf
<1> HIDE DEF share
<1>5. ASSUME gen = "warmup"
      PROVE  /\ Len(steps) = config.warmup.duration
             /\ \A i \in 1 .. Len(steps) : steps[i].deadline = i * TicksPerSecond
  <2>1. steps = FromWarmup(share.warmup)
    BY <1>2, <1>5 DEF LoadInv
  <2>2. /\ DOMAIN steps = 1 .. share.warmup.duration
        /\ \A i \in 1 .. share.warmup.duration : steps[i].deadline = i * TicksPerSecond
    BY <2>1 DEF FromWarmup
  <2>3. Len(steps) = share.warmup.duration
    BY <1>3, <1>4, <2>2
  <2> QED BY <1>2, <2>2, <2>3
<1>6. ASSUME gen = "load"
      PROVE  /\ Len(steps) = Len(session.rows)
             /\ \A i \in 1 .. Len(steps) : steps[i].deadline = session.rows[i].deadline
  <2>1. steps = FromProfile(share.profile)
    BY <1>2, <1>6 DEF LoadInv
  <2>2. /\ DOMAIN steps = 1 .. Len(session.rows)
        /\ \A i \in 1 .. Len(session.rows) : steps[i].deadline = session.rows[i].deadline
    BY <1>4, <2>1 DEF FromProfile
  <2>3. Len(steps) = Len(session.rows)
    BY <1>3, <1>4, <2>2
  <2> QED BY <2>2, <2>3
<1> QED BY <1>1, <1>2, <1>3, <1>5, <1>6 DEF share

LEMMA AnyReport ==
  ASSUME NEW s, NEW time \in TargetTimes(s), NEW level \in LoadLevels(s)
  PROVE  /\ ReportOf(s, time, level) \in MessagesOf(s, "GeneratorUpdate")
         /\ ReportOf(s, time, level).variant = "IntervalReport"
         /\ ReportOf(s, time, level).payload.load_level = level
<1>1. ReportOf(s, time, level) \in MessagesOf(s, "GeneratorUpdate")
  <2>1. /\ "GeneratorUpdate" # "ConfigMessage" /\ "GeneratorUpdate" # "ConfigResponse"
        /\ "GeneratorUpdate" # "Command"
    OBVIOUS
  <2>2. MessagesOf(s, "GeneratorUpdate")
          = {ReportOf(s, t, l) : t \in TargetTimes(s), l \in LoadLevels(s)} \cup {Signal("Finished")}
    BY <2>1 DEF MessagesOf
  <2> QED BY <2>2
<1> QED BY <1>1 DEF ReportOf, Variant

LEMMA AnySecond ==
  ASSUME NEW s, NEW n \in 0 .. LastSecond(s)
  PROVE  n * TicksPerSecond \in TargetTimes(s)
  BY Zenon DEF TargetTimes

LEMMA LastSecondIsLate ==
  ASSUME NEW s \in Sessions, ~Rejected(s)
  PROVE  /\ LastSecond(s) \in Nat
         /\ \A n \in Nat : /\ n <= s.warmup.duration => n \in 0 .. LastSecond(s)
                           /\ n <= s.warmup.pause => n \in 0 .. LastSecond(s)
                           /\ n <= MaxDrains =>
                                s.rows[Len(s.rows)].deadline \div TicksPerSecond + n
                                  \in 0 .. LastSecond(s)
<1> DEFINE last == s.rows[Len(s.rows)].deadline \div TicksPerSecond
<1>1. /\ s.warmup.duration \in Nat /\ s.warmup.pause \in Nat /\ MaxDrains \in Nat
      /\ Len(s.rows) \in Nat \ {0}
      /\ \A i \in 1 .. Len(s.rows) : s.rows[i].deadline \in Nat
  BY ShareOf, SessionAssumption
<1>2. last \in Nat
  <2>1. s.rows[Len(s.rows)].deadline \in Nat
    BY <1>1
  <2> QED BY <2>1, LoadPlanAssumption, Division
<1> HIDE DEF last
<1>3. LastSecond(s) = s.warmup.duration + s.warmup.pause + MaxDrains + 1 + last
  BY Zenon DEF LastSecond, last
<1> DEFINE total == LastSecond(s)
<1> HIDE DEF total
<1>4. total = s.warmup.duration + s.warmup.pause + MaxDrains + 1 + last
  BY <1>3, Zenon DEF total
<1>5. total \in Nat
  BY <1>1, <1>2, <1>4
<1>6. \A n \in Nat : /\ n <= s.warmup.duration => n \in 0 .. total
                     /\ n <= s.warmup.pause => n \in 0 .. total
                     /\ n <= MaxDrains => last + n \in 0 .. total
  <2>1. \A a, b, c, l, t, n \in Nat : t = a + b + c + 1 + l =>
          /\ n <= a => n \in 0 .. t
          /\ n <= b => n \in 0 .. t
          /\ n <= c => l + n \in 0 .. t
    BY SMT
  <2> QED BY <1>1, <1>2, <1>4, <1>5, <2>1, Zenon
<1> QED BY <1>5, <1>6, Zenon DEF last, total

-----------------------------------------------------------------------------
(* Steps of the orchestrator                                               *)
LEMMA LevelsKept ==
  ASSUME UNCHANGED <<session, plan>>
  PROVE  \A n : PlannedLevel(n)' = PlannedLevel(n)
  BY DEF PlannedLevel

LEMMA ScheduleKept ==
  ASSUME ScheduleInv, ClockInv, UNCHANGED scheduleVars
  PROVE  ScheduleInv' /\ ClockInv'
<1>1. steps' = steps /\ current' = current /\ clock' = clock /\ arrival' = arrival
  BY DEF scheduleVars
<1>2. ScheduleInv'
  BY <1>1 DEF ScheduleInv, ScheduleTypeOK, StepsInOrder, ArrivalInItsStep, StepStart
<1>3. ClockInv'
  BY <1>1 DEF ClockInv
<1> QED BY <1>2, <1>3

(* The load generator goes on as before, or ends.                          *)
LEMMA LoadKept ==
  ASSUME LoadInv, UNCHANGED <<session, plan, config, reported, steps>>,
         gen' = gen \/ gen' \in GenEnded,
         Written("up")' = Written("up"),
         \A i \in 1 .. Written("up") : sent'["up"][i] = sent["up"][i]
  PROVE  LoadInv'
<1>1. \A n : PlannedLevel(n)' = PlannedLevel(n)
  BY LevelsKept
<1>2. ConfigFor(session, plan[session.id])' = ConfigFor(session, plan[session.id])
  BY DEF ConfigFor
<1>3. gen' \in {"setting_up", "ready", "warmup", "pause", "load"} => gen' = gen
  BY DEF GenEnded
<1>4. \A i \in 1 .. Written("up") :
        sent'["up"][i].variant = "IntervalReport"
          => sent'["up"][i].payload.load_level = PlannedLevel(i - 1)
  BY DEF LoadInv
<1> QED BY <1>1, <1>3, <1>4 DEF LoadInv, ConfigFor

LEMMA UpDown == "up" \in Directions /\ "down" \in Directions
                  /\ Opposite("up") = "down" /\ Opposite("down") = "up"
  BY DEF Directions, Opposite

LEMMA CountsOf ==
  ASSUME Transport
  PROVE  /\ Written("up") \in Nat /\ Heard("up") \in Nat /\ Heard("up") <= Written("up")
         /\ Written("down") \in Nat /\ Heard("down") \in Nat /\ Heard("down") <= Written("down")
  BY Counts, UpDown

LEMMA OrchestratorSendsStep ==
  ASSUME ConnectionIInv, NEW from, NEW to, NEW type, NEW m \in MessagesOf(session, type),
         OrchestratorSends(from, type, m, to),
         \/ from = "connected" /\ type = "ConfigMessage" /\ to \in {"configuring", "aborting"}
         \/ from = "ready" /\ type = "Command" /\ to \in {"collecting", "failed"}
  PROVE  ConnectionIInv'
<1>1. /\ orch = from /\ orch' = to /\ Sends("down", type, m)
      /\ UNCHANGED <<session, plan, gen, config, reported, buffer, received, gone, reader>>
      /\ UNCHANGED <<genVars, scheduleVars>> /\ steps' = steps
  BY DEF OrchestratorSends, genVars, scheduleVars
<1>2. /\ Transport /\ Control /\ ConnectionEnds /\ LoadInv /\ ClockInv /\ ScheduleInv
  BY DEF ConnectionIInv
<1>3. /\ Written("up") \in Nat /\ Heard("up") \in Nat /\ Heard("up") <= Written("up")
      /\ Written("down") \in Nat /\ Heard("down") \in Nat /\ Heard("down") <= Written("down")
  BY <1>2, CountsOf
<1>4. type = TypeOf("down", Written("down") + 1) /\ ~Rejected(session)
  BY <1>1, <1>2, <1>3 DEF Control, OrchestratorInv, PlanInv, TypeOf
<1>5. /\ Transport'
      /\ Written("down")' = Written("down") + 1 /\ Written("up")' = Written("up")
      /\ Heard("up")' = Heard("up") /\ Heard("down")' = Heard("down")
      /\ sent'["up"] = sent["up"]
  BY <1>1, <1>2, <1>4, UpDown, SendStep
<1>6. Control'
  BY <1>1, <1>2, <1>3, <1>5
     DEF Control, PhasesOK, OrchestratorInv, GeneratorInv, PlanInv, Before, OrchEnded
<1>7. ConnectionEnds'
  BY <1>1, <1>2 DEF ConnectionEnds
<1>8. LoadInv'
  BY <1>1, <1>2, <1>5, LoadKept
<1>9. ScheduleInv' /\ ClockInv'
  BY <1>1, <1>2, ScheduleKept
<1> QED BY <1>5, <1>6, <1>7, <1>8, <1>9 DEF ConnectionIInv

LEMMA OrchestratorHearsStep ==
  ASSUME ConnectionIInv, NEW variants, Hears("up", variants),
         UNCHANGED <<session, plan, genVars, scheduleVars, wire, sent, gone, reader>>,
         \/ orch = "configuring" /\ orch' \in {"ready", "failed"}
         \/ orch = "aborting" /\ orch' = "failed"
         \/ orch = "collecting" /\ orch' \in {"collecting", "done"}
  PROVE  ConnectionIInv'
<1>1. /\ UNCHANGED <<session, plan, gen, config, reported, gone, reader, wire, sent>>
      /\ UNCHANGED <<genVars, scheduleVars>> /\ steps' = steps
  BY DEF genVars, scheduleVars
<1>2. /\ Transport /\ Control /\ ConnectionEnds /\ LoadInv /\ ClockInv /\ ScheduleInv
  BY DEF ConnectionIInv
<1>3. /\ Written("up") \in Nat /\ Heard("up") \in Nat /\ Heard("up") <= Written("up")
      /\ Written("down") \in Nat /\ Heard("down") \in Nat /\ Heard("down") <= Written("down")
  BY <1>2, CountsOf
<1>4. /\ Transport'
      /\ Written("down")' = Written("down") /\ Written("up")' = Written("up")
      /\ Heard("up")' = Heard("up") + 1 /\ Heard("down")' = Heard("down")
  BY <1>1, <1>2, UpDown, HearStep
<1>5. Control'
  BY <1>1, <1>2, <1>3, <1>4
     DEF Control, PhasesOK, OrchestratorInv, GeneratorInv, PlanInv, Before, OrchEnded
<1>6. ConnectionEnds'
  BY <1>1, <1>2 DEF ConnectionEnds
<1>7. LoadInv'
  BY <1>1, <1>2, <1>4, LoadKept
<1>8. ScheduleInv' /\ ClockInv'
  BY <1>1, <1>2, ScheduleKept
<1> QED BY <1>4, <1>5, <1>6, <1>7, <1>8 DEF ConnectionIInv

(* It ends or loses the connection; nothing is sent or heard.              *)
LEMMA OrchestratorEndsStep ==
  ASSUME ConnectionIInv, UNCHANGED <<session, plan, genVars, scheduleVars>>,
         UNCHANGED <<wire, buffer, sent, received>>,
         orch' = orch \/ orch' \in OrchEnded, orch \in OrchEnded => orch' = orch,
         gen = "listening" => orch' = "failed",
         ConnectionEnds', gone'["up"] = gone["up"],
         gone'["down"] = gone["down"] \/ orch' \in OrchEnded
  PROVE  ConnectionIInv'
<1>1. /\ UNCHANGED <<session, plan, gen, config, reported, sent>>
      /\ UNCHANGED <<genVars, scheduleVars>> /\ steps' = steps
      /\ UNCHANGED <<session, wire, buffer, sent, received>>
  BY DEF genVars, scheduleVars
<1>2. /\ Transport /\ Control /\ LoadInv /\ ClockInv /\ ScheduleInv
  BY DEF ConnectionIInv
<1>3. /\ Transport'
      /\ Written("down")' = Written("down") /\ Written("up")' = Written("up")
      /\ Heard("up")' = Heard("up") /\ Heard("down")' = Heard("down")
  BY <1>1, <1>2, UpDown, QuietStep
<1>4. PhasesOK' /\ GeneratorInv'
  BY <1>1, <1>2, <1>3 DEF Control, PhasesOK, GeneratorInv, Before
<1>5. OrchestratorInv' /\ PlanInv'
  BY <1>1, <1>2, <1>3 DEF Control, PhasesOK, OrchestratorInv, PlanInv, OrchEnded
<1>6. LoadInv'
  BY <1>1, <1>2, <1>3, LoadKept
<1>7. ScheduleInv' /\ ClockInv'
  BY <1>1, <1>2, ScheduleKept
<1> QED BY <1>3, <1>4, <1>5, <1>6, <1>7 DEF ConnectionIInv, Control

LEMMA PlanLoadStep ==
  ASSUME ConnectionIInv, PlanLoad
  PROVE  ConnectionIInv'
<1>1. /\ orch = "starting" /\ ~Rejected(session) /\ plan' = Plan(session)
      /\ orch' = "connected" /\ gen' = "configuring"
      /\ UNCHANGED <<session, config, reported, gone, reader>>
      /\ UNCHANGED scheduleVars /\ steps' = steps
      /\ UNCHANGED <<session, wire, buffer, sent, received>>
  BY DEF PlanLoad, scheduleVars, channelVars
<1>2. /\ Transport /\ Control /\ ConnectionEnds /\ LoadInv /\ ClockInv /\ ScheduleInv
  BY DEF ConnectionIInv
<1>3. /\ Written("up") \in Nat /\ Heard("up") \in Nat /\ Heard("up") <= Written("up")
      /\ Written("down") \in Nat /\ Heard("down") \in Nat /\ Heard("down") <= Written("down")
  BY <1>2, CountsOf
<1>4. /\ Transport'
      /\ Written("down")' = Written("down") /\ Written("up")' = Written("up")
      /\ Heard("up")' = Heard("up") /\ Heard("down")' = Heard("down")
  BY <1>1, <1>2, UpDown, QuietStep
<1>5. gen = "listening"
  BY <1>1, <1>2 DEF Control, PlanInv
<1>6. Control'
  BY <1>1, <1>2, <1>3, <1>4, <1>5
     DEF Control, PhasesOK, OrchestratorInv, GeneratorInv, PlanInv, OrchEnded, GenEnded
<1>7. ConnectionEnds'
  BY <1>1, <1>2 DEF ConnectionEnds
<1>8. LoadInv'
  <2>1. Written("up")' = 0
    BY <1>2, <1>4, <1>5 DEF Control, GeneratorInv
  <2>2. \A i \in 1 .. Written("up")' : FALSE
    BY <2>1
  <2> QED BY <1>1, <1>2, <2>2 DEF LoadInv
<1>9. ScheduleInv' /\ ClockInv'
  BY <1>1, <1>2, ScheduleKept
<1> QED BY <1>4, <1>6, <1>7, <1>8, <1>9 DEF ConnectionIInv

LEMMA EndsKept ==
  ASSUME ConnectionEnds, NEW d \in Directions,
         \/ gone' = gone
         \/ \E e \in {"no", "closed", "reset"} : gone' = [gone EXCEPT ![d] = e],
         \/ reader' = reader
         \/ \E e \in {"open", "ended", "failed"} : reader' = [reader EXCEPT ![d] = e]
  PROVE  ConnectionEnds' /\ gone'[Opposite(d)] = gone[Opposite(d)]
<1>1. Opposite(d) \in Directions /\ Opposite(d) # d
  BY TwoDirections
<1>2. gone'[Opposite(d)] = gone[Opposite(d)] /\ DOMAIN gone' = Directions
  BY <1>1 DEF ConnectionEnds
<1>3. DOMAIN reader' = Directions
  BY DEF ConnectionEnds
<1>4. \A e \in Directions : gone'[e] \in {"no", "closed", "reset"}
  BY DEF ConnectionEnds
<1>5. \A e \in Directions : reader'[e] \in {"open", "ended", "failed"}
  BY DEF ConnectionEnds
<1> QED BY <1>2, <1>3, <1>4, <1>5 DEF ConnectionEnds

LEMMA HangupEnds ==
  ASSUME ConnectionEnds, NEW d \in Directions, Hangup(d)
  PROVE  /\ ConnectionEnds' /\ gone' = gone /\ Polls(d)
         /\ UNCHANGED <<wire, buffer, sent, received>>
<1>1. /\ gone' = gone /\ Polls(d) /\ UNCHANGED <<wire, buffer, sent, received>>
      /\ \E e \in {"open", "ended", "failed"} : reader' = [reader EXCEPT ![d] = e]
  BY DEF Hangup, StreamEnds, DecodeFails, Lacks
<1> QED BY <1>1, EndsKept

LEMMA OrchestratorStep ==
  ASSUME ConnectionIInv, Orchestrator
  PROVE  ConnectionIInv'
<1>1. /\ Transport /\ Control /\ ConnectionEnds
      /\ session \in Sessions
  BY DEF ConnectionIInv, Transport
<1>2. ASSUME orch \in {"connected", "ready", "configuring", "aborting", "collecting"}
      PROVE  ~Rejected(session) /\ plan = Plan(session) /\ gen # "listening"
  BY <1>1, <1>2 DEF Control, PlanInv
<1>3. /\ Signal("Abort") \in MessagesOf(session, "ConfigMessage")
      /\ Signal("Abort") \in MessagesOf(session, "Command")
      /\ Signal("Start") \in MessagesOf(session, "Command")
      /\ Variant("Config", ConfigFor(session, Plan(session)[session.id]))
           \in MessagesOf(session, "ConfigMessage")
  BY DEF MessagesOf
<1>4. ASSUME ConnectionEnds', gone' = gone
      PROVE  gone'["up"] = gone["up"] /\ gone'["down"] = gone["down"]
  BY <1>4
<1>5. CASE RejectSession
  <2>1. ConnectionEnds'
    BY <1>1, <1>5 DEF RejectSession, channelVars, ConnectionEnds
  <2> QED BY <1>5, <2>1, OrchestratorEndsStep DEF RejectSession, channelVars, OrchEnded
<1>6. CASE PlanLoad
  BY <1>6, PlanLoadStep
<1>7. CASE SendConfig
  BY <1>2, <1>3, <1>7, OrchestratorSendsStep DEF SendConfig, OrchestratorSends
<1>8. CASE SendAbortConnected
  BY <1>3, <1>8, OrchestratorSendsStep DEF SendAbortConnected
<1>9. CASE ConfigReady
  BY <1>1, <1>9, UnframedAtReady, OrchestratorHearsStep DEF ConfigReady
<1>10. CASE ConfigFails
  BY <1>10, OrchestratorHearsStep DEF ConfigFails
<1>11. CASE AbortAnswered
  BY <1>11, OrchestratorHearsStep DEF AbortAnswered
<1>12. CASE SendStart
  BY <1>3, <1>12, OrchestratorSendsStep DEF SendStart
<1>13. CASE SendAbortReady
  BY <1>3, <1>13, OrchestratorSendsStep DEF SendAbortReady
<1>14. CASE CollectReport
  BY <1>14, OrchestratorHearsStep DEF CollectReport, orchVars
<1>15. CASE CollectFinished
  BY <1>15, OrchestratorHearsStep DEF CollectFinished
<1>16. CASE GeneratorLost
  <2>1. /\ Hangup("up") /\ orch' = "failed"
        /\ UNCHANGED <<session, plan, genVars, scheduleVars>>
    BY <1>16 DEF GeneratorLost
  <2>2. /\ ConnectionEnds' /\ gone' = gone /\ Polls("up")
        /\ UNCHANGED <<wire, buffer, sent, received>>
    BY <1>1, <2>1, UpDown, HangupEnds
  <2>3. orch \notin OrchEnded
    BY <2>2 DEF Polls, OrchEnded
  <2> QED BY <2>1, <2>2, <2>3, OrchestratorEndsStep DEF OrchEnded
<1>17. CASE OrchestratorSendFails
  <2>1. ConnectionEnds' /\ gone' = gone
    BY <1>1, <1>17 DEF OrchestratorSendFails, channelVars, ConnectionEnds
  <2> QED BY <1>17, <2>1, OrchestratorEndsStep DEF OrchestratorSendFails, channelVars, OrchEnded
<1> QED BY <1>5, <1>6, <1>7, <1>8, <1>9, <1>10, <1>11, <1>12, <1>13, <1>14, <1>15, <1>16, <1>17
        DEF Orchestrator

-----------------------------------------------------------------------------
(* Steps of the load generator                                             *)
LEMMA BeforeIsNat ==
  ASSUME Transport, Control, LoadInv, ScheduleInv,
         gen \in {"setting_up", "ready", "warmup", "pause", "load"}
  PROVE  /\ config.warmup.duration \in Nat /\ config.warmup.pause \in Nat
         /\ Before \in Nat /\ reported \in Nat
<1>1. /\ session \in Sessions /\ ~Rejected(session) /\ plan = Plan(session)
      /\ config.warmup = plan[session.id].warmup
  BY ConfigOf DEF Transport
<1>2. config.warmup.duration \in Nat /\ config.warmup.pause \in Nat
  BY <1>1, ShareOf
<1> QED BY <1>2 DEF Before, LoadInv

LEMMA GeneratorSendsStep ==
  ASSUME ConnectionIInv, NEW type, NEW m \in MessagesOf(session, type), Sends("up", type, m),
         UNCHANGED <<orchVars, config, scheduleVars, received, gone, reader>>,
         DOMAIN buffer' = Directions, \A d \in Directions : buffer'[d] = buffer[d],
         \/ /\ gen = "setting_up" /\ gen' \in {"ready", "failed"} /\ type = "ConfigResponse"
            /\ reported' = reported
         \/ /\ gen \in {"warmup", "pause", "load"} /\ gen' = gen /\ type = "GeneratorUpdate"
            /\ reported' = reported + 1
         \/ /\ gen = "load" /\ gen' = "finished" /\ type = "GeneratorUpdate"
            /\ reported' = reported,
         m.variant = "IntervalReport" => m.payload.load_level = PlannedLevel(Written("up")),
         gen' = "warmup" => reported' <= Len(steps),
         gen' = "pause" => reported' <= config.warmup.pause,
         gen' = "load" => reported' <= Len(steps) + MaxDrains
  PROVE  ConnectionIInv'
<1>1. /\ UNCHANGED <<session, plan, orch, config, received, gone, reader>>
      /\ UNCHANGED scheduleVars /\ steps' = steps
  BY DEF orchVars, scheduleVars
<1>2. /\ Transport /\ Control /\ ConnectionEnds /\ LoadInv /\ ClockInv /\ ScheduleInv
  BY DEF ConnectionIInv
<1>3. /\ Written("up") \in Nat /\ Heard("up") \in Nat /\ Heard("up") <= Written("up")
      /\ Written("down") \in Nat /\ Heard("down") \in Nat /\ Heard("down") <= Written("down")
  BY <1>2, CountsOf
<1>4. Before \in Nat /\ reported \in Nat
  BY <1>2, BeforeIsNat
<1>5. type = TypeOf("up", Written("up") + 1) /\ ~Rejected(session) /\ gen # "listening"
  BY <1>2, <1>3, <1>4 DEF Control, GeneratorInv, PlanInv, TypeOf
<1>6. /\ Transport'
      /\ Written("up")' = Written("up") + 1 /\ Written("down")' = Written("down")
      /\ Heard("up")' = Heard("up") /\ Heard("down")' = Heard("down")
      /\ sent'["up"][Written("up") + 1] = m
      /\ \A i \in 1 .. Written("up") : sent'["up"][i] = sent["up"][i]
  <2>1. /\ buffer["down"] \in Seq(Bytes) /\ session \in Sessions /\ DOMAIN received = Directions
        /\ ChannelInv(session, "down", buffer["down"] \o wire["down"], sent["down"],
                      received["down"])
    BY <1>2, UpDown, TransportAt, Zenon
  <2>2. /\ buffer'["down"] = buffer["down"] /\ buffer'["up"] = buffer["up"]
        /\ received' = received /\ session' = session
    BY <1>1, UpDown
  <2>3. /\ buffer'["down"] \in Seq(Bytes)
        /\ ChannelInv(session, "down", buffer'["down"] \o wire["down"], sent["down"],
                      received'["down"])
    BY <2>1, <2>2, Zenon
  <2>4. /\ Transport'
        /\ Written("up")' = Written("up") + 1 /\ Written("down")' = Written("down")
        /\ Heard("up")' = Heard("up")
        /\ sent'["up"][Written("up") + 1] = m
        /\ \A i \in 1 .. Written("up") : sent'["up"][i] = sent["up"][i]
    BY <1>2, <1>5, <2>1, <2>2, <2>3, UpDown, SendAndStep
  <2>5. Heard("down")' = Heard("down")
    BY <2>2 DEF Heard
  <2> QED BY <2>4, <2>5
<1>7. Control'
  <2>1. PhasesOK' /\ PlanInv'
    BY <1>1, <1>2, <1>6 DEF Control, PhasesOK, PlanInv, GenEnded
  <2>2. OrchestratorInv'
    BY <1>1, <1>2, <1>6 DEF Control, OrchestratorInv
  <2>3. GeneratorInv'
    BY <1>1, <1>2, <1>3, <1>4, <1>6 DEF Control, GeneratorInv, Before, GenEnded
  <2> QED BY <2>1, <2>2, <2>3 DEF Control
<1>8. ConnectionEnds'
  BY <1>1, <1>2 DEF ConnectionEnds
<1>9. LoadInv'
  <2>1. \A n : PlannedLevel(n)' = PlannedLevel(n)
    BY <1>1, LevelsKept
  <2>2. \A i \in 1 .. Written("up") :
          sent'["up"][i].variant = "IntervalReport"
            => sent'["up"][i].payload.load_level = PlannedLevel(i - 1)
    BY <1>2, <1>6 DEF LoadInv
  <2>3. \A i \in 1 .. Written("up") + 1 :
          sent'["up"][i].variant = "IntervalReport"
            => sent'["up"][i].payload.load_level = PlannedLevel(i - 1)
    <3> SUFFICES ASSUME NEW i \in 1 .. Written("up") + 1,
                        sent'["up"][i].variant = "IntervalReport"
                 PROVE  sent'["up"][i].payload.load_level = PlannedLevel(i - 1)
      OBVIOUS
    <3>1. CASE i = Written("up") + 1
      <4>1. i - 1 = Written("up")
        BY <1>3, <3>1
      <4> QED BY <1>6, <3>1, <4>1
    <3>2. CASE i # Written("up") + 1
      <4>1. i \in 1 .. Written("up")
        BY <1>3, <3>2
      <4> QED BY <2>2, <4>1
    <3> QED BY <3>1, <3>2
  <2>4. /\ reported' \in Nat
        /\ gen' \in {"setting_up", "ready", "warmup", "pause", "load"} =>
             config' = ConfigFor(session', plan'[session'.id])
    BY <1>1, <1>2, <1>4 DEF LoadInv, ConfigFor
  <2>5. /\ gen' = "warmup" => steps' = FromWarmup(config'.warmup)
        /\ gen' = "load" => steps' = FromProfile(config'.profile.steps)
    BY <1>1, <1>2 DEF LoadInv
  <2> QED BY <1>1, <1>6, <2>1, <2>3, <2>4, <2>5 DEF LoadInv
<1>10. ScheduleInv' /\ ClockInv'
  BY <1>1, <1>2, ScheduleKept
<1> QED BY <1>6, <1>7, <1>8, <1>9, <1>10 DEF ConnectionIInv

LEMMA ReceiveConfigStep ==
  ASSUME ConnectionIInv, ReceiveConfig
  PROVE  ConnectionIInv'
<1>1. /\ gen = "configuring" /\ Hears("down", {"Config"})
      /\ config' = Decoded("down").message.payload /\ gen' = "setting_up"
      /\ UNCHANGED <<session, plan, orch, reported, gone, reader, wire, sent>>
      /\ UNCHANGED scheduleVars /\ steps' = steps
  BY DEF ReceiveConfig, orchVars, scheduleVars
<1>2. /\ Transport /\ Control /\ ConnectionEnds /\ LoadInv /\ ClockInv /\ ScheduleInv
  BY DEF ConnectionIInv
<1>3. /\ Written("up") \in Nat /\ Heard("up") \in Nat /\ Heard("up") <= Written("up")
      /\ Written("down") \in Nat /\ Heard("down") \in Nat /\ Heard("down") <= Written("down")
  BY <1>2, CountsOf
<1>4. /\ Transport'
      /\ Written("down")' = Written("down") /\ Written("up")' = Written("up")
      /\ Heard("up")' = Heard("up") /\ Heard("down")' = Heard("down") + 1
      /\ Decoded("down").message \in MessagesOf(session, TypeOf("down", Heard("down") + 1))
      /\ Decoded("down").message.variant = "Config"
  BY <1>1, <1>2, UpDown, HearStep
<1>5. Control'
  BY <1>1, <1>2, <1>3, <1>4
     DEF Control, PhasesOK, OrchestratorInv, GeneratorInv, PlanInv, GenEnded
<1>6. config' = ConfigFor(session, plan[session.id])
  <2>1. plan = Plan(session)
    BY <1>1, <1>2 DEF Control, PlanInv
  <2>2. Decoded("down").message \in MessagesOf(session, "ConfigMessage")
    BY <1>1, <1>2, <1>4 DEF Control, GeneratorInv, TypeOf
  <2>3. MessagesOf(session, "ConfigMessage")
          = {Variant("Config", ConfigFor(session, Plan(session)[session.id])), Signal("Abort")}
    BY DEF MessagesOf
  <2>4. Decoded("down").message = Variant("Config", ConfigFor(session, plan[session.id]))
    BY <1>4, <2>1, <2>2, <2>3 DEF Signal, Variant
  <2> QED BY <1>1, <2>4 DEF Variant
<1>7. ConnectionEnds'
  BY <1>1, <1>2 DEF ConnectionEnds
<1>8. LoadInv'
  <2>1. \A n : PlannedLevel(n)' = PlannedLevel(n)
    BY <1>1, LevelsKept
  <2>2. config' = ConfigFor(session', plan'[session'.id])
    BY <1>1, <1>6
  <2> QED BY <1>1, <1>2, <1>4, <2>1, <2>2 DEF LoadInv
<1>9. ScheduleInv' /\ ClockInv'
  BY <1>1, <1>2, ScheduleKept
<1> QED BY <1>4, <1>5, <1>7, <1>8, <1>9 DEF ConnectionIInv

LEMMA ReceiveConfigAbortStep ==
  ASSUME ConnectionIInv, ReceiveConfigAbort
  PROVE  ConnectionIInv'
<1> DEFINE m == Signal("Aborted")
<1>1. /\ gen = "configuring" /\ Hears("down", {"Abort"})
      /\ Sends("up", "ConfigResponse", m) /\ gen' = "failed"
      /\ UNCHANGED <<session, plan, orch, config, reported, gone, reader>>
      /\ UNCHANGED scheduleVars /\ steps' = steps
  BY DEF ReceiveConfigAbort, orchVars, scheduleVars
<1>2. /\ Transport /\ Control /\ ConnectionEnds /\ LoadInv /\ ClockInv /\ ScheduleInv
  BY DEF ConnectionIInv
<1>3. /\ Written("up") \in Nat /\ Heard("up") \in Nat /\ Heard("up") <= Written("up")
      /\ Written("down") \in Nat /\ Heard("down") \in Nat /\ Heard("down") <= Written("down")
  BY <1>2, CountsOf
<1>4. m \in MessagesOf(session, "ConfigResponse") /\ m.variant = "Aborted"
  BY DEF MessagesOf, Signal, Variant
<1> HIDE DEF m
<1>5. /\ Heard("down") = 0 /\ Written("up") = 0 /\ "ConfigResponse" = TypeOf("up", Written("up") + 1)
      /\ ~Rejected(session)
  BY <1>1, <1>2 DEF Control, GeneratorInv, PlanInv, TypeOf
<1>6. /\ HearsOf("down", {"Abort"}) /\ session' = session
      /\ buffer' = [buffer EXCEPT !["down"] = Decoded("down").rest]
      /\ received' = [received EXCEPT !["down"] = Append(@, Decoded("down").message)]
  BY <1>1 DEF Hears, HearsOf
<1>7. /\ DOMAIN buffer = Directions /\ DOMAIN received = Directions
  BY <1>2, UpDown, TransportAt
<1>8. /\ DOMAIN buffer' = Directions /\ DOMAIN received' = Directions
      /\ buffer'["up"] = buffer["up"] /\ buffer'["down"] = Decoded("down").rest
      /\ received'["up"] = received["up"]
  BY <1>6, <1>7, UpDown
<1>9. /\ Decoded("down").rest \in Seq(Bytes)
      /\ ChannelInv(session, "down", Decoded("down").rest \o wire["down"], sent["down"],
                    received'["down"])
      /\ Len(received'["down"]) = Heard("down") + 1
  BY <1>2, <1>6, UpDown, HearAt, Zenon
<1>10. /\ buffer'["down"] \in Seq(Bytes)
       /\ ChannelInv(session, "down", buffer'["down"] \o wire["down"], sent["down"],
                     received'["down"])
  BY <1>8, <1>9, Zenon
<1>11. /\ Transport'
       /\ Written("up")' = Written("up") + 1 /\ Written("down")' = Written("down")
       /\ Heard("up")' = Heard("up")
       /\ sent'["up"][Written("up") + 1] = m
  BY <1>1, <1>2, <1>4, <1>5, <1>6, <1>8, <1>10, UpDown, SendAndStep
<1>12. Heard("down")' = Heard("down") + 1
  BY <1>9 DEF Heard
<1>13. Control'
  <2>1. PhasesOK' /\ PlanInv'
    BY <1>1, <1>2, <1>11 DEF Control, PhasesOK, PlanInv, GenEnded
  <2>2. OrchestratorInv'
    BY <1>1, <1>2, <1>11 DEF Control, OrchestratorInv
  <2>3. GeneratorInv'
    BY <1>1, <1>2, <1>3, <1>5, <1>11 DEF Control, GeneratorInv, GenEnded
  <2> QED BY <2>1, <2>2, <2>3 DEF Control
<1>14. ConnectionEnds'
  BY <1>1, <1>2 DEF ConnectionEnds
<1>15. LoadInv'
  <2>1. Written("up")' = 1 /\ sent'["up"][1].variant # "IntervalReport"
    BY <1>4, <1>5, <1>11
  <2>2. \A i \in 1 .. Written("up")' : sent'["up"][i].variant # "IntervalReport"
    <3>1. \A i \in 1 .. 1 : i = 1
      OBVIOUS
    <3> QED BY <2>1, <3>1
  <2> QED BY <1>1, <1>2, <2>2 DEF LoadInv
<1>16. ScheduleInv' /\ ClockInv'
  BY <1>1, <1>2, ScheduleKept
<1> QED BY <1>11, <1>13, <1>14, <1>15, <1>16 DEF ConnectionIInv

LEMMA ReceiveAbortStep ==
  ASSUME ConnectionIInv, ReceiveAbort
  PROVE  ConnectionIInv'
<1>1. /\ gen = "ready" /\ Hears("down", {"Abort"}) /\ gen' = "failed"
      /\ UNCHANGED <<session, plan, orch, config, reported, gone, reader, wire, sent>>
      /\ UNCHANGED scheduleVars /\ steps' = steps
  BY DEF ReceiveAbort, orchVars, scheduleVars
<1>2. /\ Transport /\ Control /\ ConnectionEnds /\ LoadInv /\ ClockInv /\ ScheduleInv
  BY DEF ConnectionIInv
<1>3. /\ Written("up") \in Nat /\ Heard("up") \in Nat /\ Heard("up") <= Written("up")
      /\ Written("down") \in Nat /\ Heard("down") \in Nat /\ Heard("down") <= Written("down")
  BY <1>2, CountsOf
<1>4. /\ Transport'
      /\ Written("down")' = Written("down") /\ Written("up")' = Written("up")
      /\ Heard("up")' = Heard("up") /\ Heard("down")' = Heard("down") + 1
  BY <1>1, <1>2, UpDown, HearStep
<1>5. Control'
  BY <1>1, <1>2, <1>3, <1>4
     DEF Control, PhasesOK, OrchestratorInv, GeneratorInv, PlanInv, GenEnded
<1>6. ConnectionEnds'
  BY <1>1, <1>2 DEF ConnectionEnds
<1>7. LoadInv'
  BY <1>1, <1>2, <1>4, LoadKept DEF GenEnded
<1>8. ScheduleInv' /\ ClockInv'
  BY <1>1, <1>2, ScheduleKept
<1> QED BY <1>4, <1>5, <1>6, <1>7, <1>8 DEF ConnectionIInv

LEMMA NewClockOK ==
  ASSUME NEW newSteps, StepsOK(newSteps), NewSchedule(newSteps)
  PROVE  ClockInv'
<1>1. newSteps \in Seq(Steps) /\ Len(newSteps) \in Nat /\ DOMAIN newSteps = 1 .. Len(newSteps)
  BY LenProperties DEF StepsOK
<1>2. \A i \in DOMAIN newSteps : newSteps[i].deadline \in Nat
  BY <1>1, StepTypes
<1>3. steps' = newSteps /\ current' = 1 /\ clock' = 0
  BY DEF NewSchedule
<1>4. newSteps # <<>> => 1 \in DOMAIN newSteps
  <2>1. Len(newSteps) = 0 => newSteps = <<>>
    BY <1>1, EmptySeq
  <2> QED BY <1>1, <2>1
<1> QED BY <1>2, <1>3, <1>4 DEF ClockInv

LEMMA StartWarmupStep ==
  ASSUME ConnectionIInv, StartWarmup
  PROVE  ConnectionIInv'
<1>1. /\ gen = "ready" /\ Hears("down", {"Start"}) /\ gen' = "warmup" /\ reported' = 0
      /\ NewSchedule(FromWarmup(config.warmup))
      /\ UNCHANGED <<session, plan, orch, config, gone, reader, wire, sent>>
  BY DEF StartWarmup, orchVars
<1>2. /\ Transport /\ Control /\ ConnectionEnds /\ LoadInv /\ ClockInv /\ ScheduleInv
  BY DEF ConnectionIInv
<1>3. /\ Written("up") \in Nat /\ Heard("up") \in Nat /\ Heard("up") <= Written("up")
      /\ Written("down") \in Nat /\ Heard("down") \in Nat /\ Heard("down") <= Written("down")
  BY <1>2, CountsOf
<1>4. /\ Transport'
      /\ Written("down")' = Written("down") /\ Written("up")' = Written("up")
      /\ Heard("up")' = Heard("up") /\ Heard("down")' = Heard("down") + 1
  BY <1>1, <1>2, UpDown, HearStep
<1>5. Control'
  BY <1>1, <1>2, <1>3, <1>4
     DEF Control, PhasesOK, OrchestratorInv, GeneratorInv, PlanInv, Before, GenEnded
<1>6. StepsOK(FromWarmup(config.warmup))
  <2>1. /\ session \in Sessions /\ ~Rejected(session) /\ plan = Plan(session)
        /\ config.warmup = plan[session.id].warmup
    BY <1>1, <1>2, ConfigOf DEF Transport
  <2>2. /\ session.generators \in Nat \ {0} /\ session.id \in 1 .. session.generators
        /\ session.warmup \in Warmups
        /\ plan[session.id].warmup = DistributeWarmup(session.warmup, session.generators)[session.id]
    BY <2>1, ShareOf
  <2>3. StepsOK(FromWarmup(DistributeWarmup(session.warmup, session.generators)[session.id]))
    BY <2>2, WarmupSteps
  <2> QED BY <2>1, <2>2, <2>3
<1>7. ConnectionEnds'
  BY <1>1, <1>2 DEF ConnectionEnds
<1>8. LoadInv'
  <2>1. \A n : PlannedLevel(n)' = PlannedLevel(n)
    BY <1>1, LevelsKept
  <2>2. steps' = FromWarmup(config'.warmup) /\ 0 <= Len(steps')
    <3>1. steps' = FromWarmup(config.warmup) /\ config' = config
      BY <1>1 DEF NewSchedule
    <3>2. Len(steps') \in Nat
      BY <1>6, <3>1, LenProperties DEF StepsOK
    <3> QED BY <3>1, <3>2
  <2>3. config' = ConfigFor(session', plan'[session'.id])
    BY <1>1, <1>2 DEF LoadInv
  <2> QED BY <1>1, <1>2, <1>4, <2>1, <2>2, <2>3 DEF LoadInv
<1>9. ScheduleInv' /\ ClockInv'
  BY <1>1, <1>6, NewScheduleOK, NewClockOK
<1> QED BY <1>4, <1>5, <1>7, <1>8, <1>9 DEF ConnectionIInv

(* It ends or loses the connection; nothing is sent or heard.              *)
LEMMA GeneratorEndsStep ==
  ASSUME ConnectionIInv, UNCHANGED <<orchVars, config, reported, scheduleVars>>,
         UNCHANGED <<wire, buffer, sent, received>>, gen # "listening",
         gen' = gen \/ gen' \in GenEnded, gen \in GenEnded => gen' = gen,
         ConnectionEnds', gone'["down"] = gone["down"],
         gone'["up"] = gone["up"] \/ gen' \in GenEnded
  PROVE  ConnectionIInv'
<1>1. /\ UNCHANGED <<session, plan, orch, config, reported, sent>>
      /\ UNCHANGED scheduleVars /\ steps' = steps
      /\ UNCHANGED <<session, wire, buffer, sent, received>>
  BY DEF orchVars, scheduleVars
<1>2. /\ Transport /\ Control /\ LoadInv /\ ClockInv /\ ScheduleInv
  BY DEF ConnectionIInv
<1>3. /\ Transport'
      /\ Written("down")' = Written("down") /\ Written("up")' = Written("up")
      /\ Heard("up")' = Heard("up") /\ Heard("down")' = Heard("down")
  BY <1>1, <1>2, UpDown, QuietStep
<1>4. PhasesOK' /\ PlanInv'
  BY <1>1, <1>2, <1>3 DEF Control, PhasesOK, PlanInv, GenEnded
<1>5. OrchestratorInv'
  BY <1>1, <1>2, <1>3 DEF Control, OrchestratorInv
<1>6. GeneratorInv'
  BY <1>1, <1>2, <1>3 DEF Control, GeneratorInv, Before, GenEnded
<1>7. LoadInv'
  BY <1>1, <1>2, <1>3, LoadKept
<1>8. ScheduleInv' /\ ClockInv'
  BY <1>1, <1>2, ScheduleKept
<1> QED BY <1>3, <1>4, <1>5, <1>6, <1>7, <1>8 DEF ConnectionIInv, Control

LEMMA StartPauseStep ==
  ASSUME ConnectionIInv, StartPause
  PROVE  ConnectionIInv'
<1>1. /\ gen = "warmup" /\ AllReported /\ gen' = "pause" /\ reported' = 0
      /\ UNCHANGED <<session, plan, orch, config, gone, reader, wire, buffer, sent, received>>
      /\ UNCHANGED scheduleVars /\ steps' = steps
      /\ UNCHANGED <<session, wire, buffer, sent, received>>
  BY DEF StartPause, orchVars, scheduleVars, channelVars
<1>2. /\ Transport /\ Control /\ ConnectionEnds /\ LoadInv /\ ClockInv /\ ScheduleInv
  BY DEF ConnectionIInv
<1>3. /\ Transport'
      /\ Written("down")' = Written("down") /\ Written("up")' = Written("up")
      /\ Heard("up")' = Heard("up") /\ Heard("down")' = Heard("down")
  BY <1>1, <1>2, UpDown, QuietStep
<1>4. reported = config.warmup.duration
  <2>1. Len(steps) = config.warmup.duration /\ Len(steps) \in Nat
    BY <1>1, <1>2, ConfigOf
  <2> QED BY <1>1, <1>2, <2>1 DEF LoadInv, AllReported
<1>5. config.warmup.duration \in Nat /\ config.warmup.pause \in Nat
  BY <1>1, <1>2, BeforeIsNat
<1>6. Control'
  <2>1. PhasesOK' /\ PlanInv'
    BY <1>1, <1>2, <1>3 DEF Control, PhasesOK, PlanInv
  <2>2. OrchestratorInv'
    BY <1>1, <1>2, <1>3 DEF Control, OrchestratorInv
  <2>3. GeneratorInv'
    BY <1>1, <1>2, <1>3, <1>4, <1>5 DEF Control, GeneratorInv, Before, GenEnded
  <2> QED BY <2>1, <2>2, <2>3 DEF Control
<1>7. ConnectionEnds'
  BY <1>1, <1>2 DEF ConnectionEnds
<1>8. LoadInv'
  <2>1. \A n : PlannedLevel(n)' = PlannedLevel(n)
    BY <1>1, LevelsKept
  <2>2. config' = ConfigFor(session', plan'[session'.id])
    BY <1>1, <1>2 DEF LoadInv
  <2> QED BY <1>1, <1>2, <1>3, <1>5, <2>1, <2>2 DEF LoadInv
<1>9. ScheduleInv' /\ ClockInv'
  BY <1>1, <1>2, ScheduleKept
<1> QED BY <1>3, <1>6, <1>7, <1>8, <1>9 DEF ConnectionIInv

LEMMA StartLoadStep ==
  ASSUME ConnectionIInv, StartLoad
  PROVE  ConnectionIInv'
<1>1. /\ gen = "pause" /\ reported = config.warmup.pause /\ gen' = "load" /\ reported' = 0
      /\ NewSchedule(FromProfile(config.profile.steps))
      /\ UNCHANGED <<session, plan, orch, config, gone, reader, wire, buffer, sent, received>>
      /\ UNCHANGED <<session, wire, buffer, sent, received>>
  BY DEF StartLoad, orchVars, channelVars
<1>2. /\ Transport /\ Control /\ ConnectionEnds /\ LoadInv /\ ClockInv /\ ScheduleInv
  BY DEF ConnectionIInv
<1>3. /\ Transport'
      /\ Written("down")' = Written("down") /\ Written("up")' = Written("up")
      /\ Heard("up")' = Heard("up") /\ Heard("down")' = Heard("down")
  BY <1>1, <1>2, UpDown, QuietStep
<1>4. config.warmup.duration \in Nat /\ config.warmup.pause \in Nat
  BY <1>1, <1>2, BeforeIsNat
<1>5. Control'
  <2>1. PhasesOK' /\ PlanInv'
    BY <1>1, <1>2, <1>3 DEF Control, PhasesOK, PlanInv
  <2>2. OrchestratorInv'
    BY <1>1, <1>2, <1>3 DEF Control, OrchestratorInv
  <2>3. GeneratorInv'
    BY <1>1, <1>2, <1>3, <1>4 DEF Control, GeneratorInv, Before, GenEnded
  <2> QED BY <2>1, <2>2, <2>3 DEF Control
<1>6. StepsOK(FromProfile(config.profile.steps))
  <2>1. /\ session \in Sessions /\ ~Rejected(session) /\ plan = Plan(session)
        /\ config.profile.steps = plan[session.id].profile
    BY <1>1, <1>2, ConfigOf DEF Transport
  <2>2. /\ session.generators \in Nat \ {0} /\ session.id \in 1 .. session.generators
        /\ session.rows \in Seq(Rows) /\ ProfileIsValid(session.rows)
        /\ plan[session.id].profile
             = DistributeProfile(Profile(session.rows), session.generators)[session.id]
    BY <2>1, ShareOf
  <2>3. StepsOK(FromProfile(DistributeProfile(Profile(session.rows), session.generators)[session.id]))
    BY <2>2, ProfileSteps
  <2> QED BY <2>1, <2>2, <2>3
<1>7. ConnectionEnds'
  BY <1>1, <1>2 DEF ConnectionEnds
<1>8. LoadInv'
  <2>1. \A n : PlannedLevel(n)' = PlannedLevel(n)
    BY <1>1, LevelsKept
  <2>2. steps' = FromProfile(config'.profile.steps) /\ 0 <= Len(steps') + MaxDrains
    <3>1. steps' = FromProfile(config.profile.steps) /\ config' = config
      BY <1>1 DEF NewSchedule
    <3>2. Len(steps') \in Nat /\ MaxDrains \in Nat
      BY <1>6, <3>1, LenProperties, SessionAssumption DEF StepsOK
    <3> QED BY <3>1, <3>2
  <2>3. config' = ConfigFor(session', plan'[session'.id])
    BY <1>1, <1>2 DEF LoadInv
  <2> QED BY <1>1, <1>2, <1>3, <2>1, <2>2, <2>3 DEF LoadInv
<1>9. ScheduleInv' /\ ClockInv'
  BY <1>1, <1>6, NewScheduleOK, NewClockOK
<1> QED BY <1>3, <1>5, <1>7, <1>8, <1>9 DEF ConnectionIInv

(* The clock goes from deadline to deadline at most.                       *)
LEMMA ScheduledStep ==
  ASSUME ConnectionIInv, Schedule
  PROVE  ConnectionIInv'
<1>1. /\ DrawArrival \/ NextStep
      /\ UNCHANGED <<session, plan, orch, gen, config, reported, gone, reader>>
      /\ UNCHANGED <<session, wire, buffer, sent, received>> /\ steps' = steps
  BY DEF Schedule, orchVars, genVars, channelVars, DrawArrival, NextStep
<1>2. /\ Transport /\ Control /\ ConnectionEnds /\ LoadInv /\ ClockInv /\ ScheduleInv
  BY DEF ConnectionIInv
<1>3. /\ Transport'
      /\ Written("down")' = Written("down") /\ Written("up")' = Written("up")
      /\ Heard("up")' = Heard("up") /\ Heard("down")' = Heard("down") /\ sent' = sent
  BY <1>1, <1>2, UpDown, QuietStep
<1>4. Control'
  <2>1. PhasesOK' /\ PlanInv'
    BY <1>1, <1>2, <1>3 DEF Control, PhasesOK, PlanInv
  <2>2. OrchestratorInv'
    BY <1>1, <1>2, <1>3 DEF Control, OrchestratorInv
  <2>3. GeneratorInv'
    BY <1>1, <1>2, <1>3 DEF Control, GeneratorInv, Before
  <2> QED BY <2>1, <2>2, <2>3 DEF Control
<1>5. ConnectionEnds'
  BY <1>1, <1>2 DEF ConnectionEnds
<1>6. LoadInv'
  BY <1>1, <1>2, <1>3, LoadKept
<1>7. ScheduleInv'
  BY <1>1, <1>2, DrawArrivalOK, NextStepOK
<1>8. ClockInv'
  <2>1. /\ Len(steps) \in Nat /\ DOMAIN steps = 1 .. Len(steps)
        /\ \A i \in DOMAIN steps : steps[i].deadline \in Nat
        /\ clock \in Nat /\ current \in Nat
    BY <1>2, LenProperties, StepTypes DEF ScheduleInv, ScheduleTypeOK
  <2>2. CASE DrawArrival
    <3>1. PICK gap \in Gaps : /\ clock + gap < steps[current].deadline
                              /\ clock' = clock + gap
      BY <2>2 DEF DrawArrival
    <3>2. current' = current /\ steps' = steps /\ current \in DOMAIN steps
      BY <2>2 DEF DrawArrival
    <3>3. clock' <= steps[current].deadline
      BY <2>1, <3>1, <3>2, LoadPlanAssumption DEF Gaps
    <3> QED BY <3>2, <3>3 DEF ClockInv
  <2>3. CASE NextStep
    <3>1. /\ current \in DOMAIN steps /\ current' = current + 1 /\ steps' = steps
          /\ clock' = Later(clock, steps[current].deadline)
      BY <2>3 DEF NextStep
    <3>2. clock' = steps[current].deadline
      BY <1>2, <2>1, <3>1 DEF ClockInv, Later
    <3>3. ASSUME current + 1 \in DOMAIN steps
          PROVE  steps[current].deadline <= steps[current + 1].deadline
      <4>1. StepStart(current + 1) = steps[current].deadline
        BY <2>1, <3>1 DEF StepStart
      <4> QED BY <1>2, <3>3, <4>1 DEF ScheduleInv, StepsInOrder
    <3>4. current + 1 \notin DOMAIN steps => current = Len(steps)
      <4> DEFINE n == Len(steps)
      <4>1. n \in Nat /\ current \in 1 .. n /\ DOMAIN steps = 1 .. n
        BY <2>1, <3>1
      <4> HIDE DEF n
      <4>2. current + 1 \notin 1 .. n => current = n
        BY <4>1
      <4> QED BY <4>1, <4>2 DEF n
    <3> QED BY <3>1, <3>2, <3>3, <3>4 DEF ClockInv
  <2> QED BY <1>1, <2>2, <2>3
<1> QED BY <1>3, <1>4, <1>5, <1>6, <1>7, <1>8 DEF ConnectionIInv

(* A report is about the load that was planned for its time.               *)
LEMMA ReportSent ==
  ASSUME ConnectionIInv, gen \in {"warmup", "pause", "load"},
         NEW time \in TargetTimes(session), NEW level \in LoadLevels(session),
         Report(time, level), level = PlannedLevel(Written("up")),
         gen = "warmup" => reported + 1 <= Len(steps),
         gen = "pause" => reported + 1 <= config.warmup.pause,
         gen = "load" => reported + 1 <= Len(steps) + MaxDrains
  PROVE  ConnectionIInv'
<1> DEFINE m == ReportOf(session, time, level)
<1>1. /\ Sends("up", "GeneratorUpdate", m)
      /\ UNCHANGED <<orchVars, config, scheduleVars, received, gone, reader>>
      /\ gen' = gen /\ reported' = reported + 1 /\ buffer' = buffer
  BY DEF Report, GeneratorSends
<1>2. m \in MessagesOf(session, "GeneratorUpdate") /\ m.payload.load_level = level
  BY AnyReport
<1> HIDE DEF m
<1>3. DOMAIN buffer' = Directions /\ \A d \in Directions : buffer'[d] = buffer[d]
  BY <1>1 DEF ConnectionIInv, Transport
<1> QED BY <1>1, <1>2, <1>3, GeneratorSendsStep

(* The load planned for the reports of a phase.                            *)
LEMMA PlannedLevels ==
  ASSUME ConnectionIInv, gen \in {"warmup", "pause", "load"}
  PROVE  /\ gen = "warmup" /\ reported < Len(steps) =>
              PlannedLevel(Written("up")) = config.warmup.rate
         /\ gen = "pause" /\ reported < config.warmup.pause => PlannedLevel(Written("up")) = 0
         /\ gen = "load" /\ reported < Len(steps) =>
              PlannedLevel(Written("up")) = config.profile.steps[reported + 1].count
         /\ gen = "load" /\ reported >= Len(steps) => PlannedLevel(Written("up")) = 0
<1>1. /\ Transport /\ Control /\ LoadInv /\ ScheduleInv /\ session \in Sessions
  BY DEF ConnectionIInv, Transport
<1> DEFINE share == plan[session.id]
           rows  == Len(session.rows)
           n     == Written("up")
<1>2. /\ ~Rejected(session) /\ plan = Plan(session)
      /\ config.warmup = share.warmup /\ config.profile.steps = share.profile
      /\ gen = "warmup" => Len(steps) = config.warmup.duration
      /\ gen = "load" => Len(steps) = rows
  BY <1>1, ConfigOf
<1>3. /\ DOMAIN share.profile = 1 .. rows /\ rows \in Nat
  BY <1>1, <1>2, ShareOf
<1>4. /\ config.warmup.duration \in Nat /\ config.warmup.pause \in Nat /\ reported \in Nat
  BY <1>1, BeforeIsNat
<1>5. n = 1 + Before + reported
  BY <1>1 DEF Control, GeneratorInv
<1>6. PlannedLevel(n) =
        IF n \in 1 .. share.warmup.duration THEN share.warmup.rate
        ELSE IF n - (share.warmup.duration + share.warmup.pause) \in DOMAIN share.profile
             THEN share.profile[n - (share.warmup.duration + share.warmup.pause)].count
        ELSE 0
  BY DEF PlannedLevel
<1> HIDE DEF share, rows, n
<1> DEFINE duration == config.warmup.duration
           pause    == config.warmup.pause
<1>7. PlannedLevel(n) =
        IF n \in 1 .. duration THEN config.warmup.rate
        ELSE IF n - (duration + pause) \in 1 .. rows
             THEN config.profile.steps[n - (duration + pause)].count
        ELSE 0
  BY <1>2, <1>3, <1>6, Zenon
<1>8. CASE gen = "warmup"
  <2>1. n = 1 + reported /\ Len(steps) = duration
    BY <1>2, <1>4, <1>5, <1>8 DEF Before
  <2>2. ASSUME reported < Len(steps) PROVE n \in 1 .. duration
    BY <1>4, <2>1, <2>2
  <2>3. reported < Len(steps) => PlannedLevel(n) = config.warmup.rate
    BY <1>7, <2>2
  <2> QED BY <1>8, <2>3 DEF n
<1>9. CASE gen = "pause"
  <2>1. n = 1 + duration + reported
    BY <1>4, <1>5, <1>9 DEF Before
  <2>2. ASSUME reported < pause
        PROVE  n \notin 1 .. duration /\ n - (duration + pause) \notin 1 .. rows
    BY <1>3, <1>4, <2>1, <2>2
  <2>3. reported < pause => PlannedLevel(n) = 0
    BY <1>7, <2>2
  <2> QED BY <1>9, <2>3 DEF n
<1>10. CASE gen = "load"
  <2>1. n = 1 + duration + pause + reported /\ Len(steps) = rows
    <3>1. Before = duration + pause
      BY <1>10 DEF Before
    <3> HIDE DEF duration, pause
    <3>2. duration \in Nat /\ pause \in Nat
      BY <1>4 DEF duration, pause
    <3> QED BY <1>2, <1>4, <1>5, <1>10, <3>1, <3>2
  <2>2. n \notin 1 .. duration /\ n - (duration + pause) = reported + 1
    BY <1>4, <2>1
  <2>3. /\ reported < Len(steps) => reported + 1 \in 1 .. rows
        /\ reported >= Len(steps) => reported + 1 \notin 1 .. rows
    BY <1>3, <1>4, <2>1
  <2>4. /\ reported < Len(steps) =>
             PlannedLevel(n) = config.profile.steps[reported + 1].count
        /\ reported >= Len(steps) => PlannedLevel(n) = 0
    BY <1>7, <2>2, <2>3, Zenon
  <2> QED BY <1>10, <2>4 DEF n
<1> QED BY <1>8, <1>9, <1>10

LEMMA ReportStepOK ==
  ASSUME ConnectionIInv, ReportStep
  PROVE  ConnectionIInv'
<1>1. /\ gen \in {"warmup", "load"} /\ reported < Len(steps)
      /\ Report(steps[reported + 1].deadline, LoadLevel(reported + 1))
  BY DEF ReportStep
<1>2. /\ Transport /\ Control /\ LoadInv /\ ScheduleInv /\ session \in Sessions
  BY DEF ConnectionIInv, Transport
<1> DEFINE share == plan[session.id]
           k == reported + 1
<1>3. /\ ~Rejected(session) /\ plan = Plan(session)
      /\ config.warmup = share.warmup /\ config.profile.steps = share.profile
      /\ Len(steps) \in Nat
      /\ gen = "warmup" => /\ Len(steps) = config.warmup.duration
                           /\ \A i \in 1 .. Len(steps) : steps[i].deadline = i * TicksPerSecond
      /\ gen = "load" => /\ Len(steps) = Len(session.rows)
                         /\ \A i \in 1 .. Len(steps) :
                              steps[i].deadline = session.rows[i].deadline
  BY <1>1, <1>2, ConfigOf
<1>4. /\ DOMAIN share.profile = 1 .. Len(session.rows)
      /\ DOMAIN session.rows = 1 .. Len(session.rows)
      /\ share.warmup.duration = session.warmup.duration
  BY <1>2, <1>3, ShareOf
<1>5. reported \in Nat /\ k \in 1 .. Len(steps) /\ k \in Nat /\ MaxDrains \in Nat
  BY <1>1, <1>2, <1>3, SessionAssumption DEF LoadInv
<1>6. LoadLevel(k) = PlannedLevel(Written("up"))
  BY <1>1, <1>5, PlannedLevels DEF LoadLevel
<1>7. share = Plan(session)[session.id]
  BY <1>3
<1>8. gen = "warmup" => k <= session.warmup.duration
  BY <1>3, <1>4, <1>5
<1> HIDE DEF share, k
<1>9. steps[k].deadline \in TargetTimes(session)
  <2>1. CASE gen = "warmup"
    <3>1. k \in 0 .. LastSecond(session)
      BY <1>2, <1>3, <1>5, <1>8, <2>1, LastSecondIsLate
    <3>2. steps[k].deadline = k * TicksPerSecond
      BY <1>3, <1>5, <2>1
    <3> QED BY <3>1, <3>2, AnySecond
  <2>2. CASE gen = "load"
    <3>1. steps[k].deadline = session.rows[k].deadline /\ k \in DOMAIN session.rows
      BY <1>3, <1>4, <1>5, <2>2
    <3> QED BY <3>1, Zenon DEF TargetTimes
  <2> QED BY <1>1, <2>1, <2>2
<1>10. LoadLevel(k) \in LoadLevels(session)
  <2>1. LoadLevels(session)
          = {0, share.warmup.rate} \cup {share.profile[i].count : i \in DOMAIN share.profile}
    BY <1>7, Zenon DEF LoadLevels
  <2>2. CASE gen = "warmup"
    <3>1. LoadLevel(k) = share.warmup.rate
      BY <1>3, <2>2 DEF LoadLevel
    <3> QED BY <2>1, <3>1, Zenon
  <2>3. CASE gen = "load"
    <3>1. LoadLevel(k) = share.profile[k].count /\ k \in DOMAIN share.profile
      BY <1>3, <1>4, <1>5, <2>3 DEF LoadLevel
    <3> QED BY <2>1, <3>1, Zenon
  <2> QED BY <1>1, <2>2, <2>3
<1>11. Report(steps[k].deadline, LoadLevel(k))
  BY <1>1, Zenon DEF k
<1>12. k <= Len(steps) /\ k <= Len(steps) + MaxDrains
  BY <1>3, <1>5
<1> QED BY <1>1, <1>6, <1>9, <1>10, <1>11, <1>12, ReportSent DEF k

LEMMA NoLoad ==
  ASSUME NEW s
  PROVE  0 \in LoadLevels(s)
  BY DEF LoadLevels

LEMMA ReportPauseOK ==
  ASSUME ConnectionIInv, ReportPause
  PROVE  ConnectionIInv'
<1>1. /\ gen = "pause" /\ reported < config.warmup.pause
      /\ Report((reported + 1) * TicksPerSecond, 0)
  BY DEF ReportPause
<1>2. /\ Transport /\ Control /\ LoadInv /\ ScheduleInv /\ session \in Sessions
  BY DEF ConnectionIInv, Transport
<1>3. /\ ~Rejected(session) /\ plan = Plan(session) /\ config.warmup = plan[session.id].warmup
  BY <1>1, <1>2, ConfigOf
<1>4. config.warmup.pause = session.warmup.pause /\ config.warmup.pause \in Nat
  BY <1>2, <1>3, ShareOf
<1>5. reported \in Nat /\ reported + 1 \in Nat /\ reported + 1 <= session.warmup.pause
  BY <1>1, <1>2, <1>4 DEF LoadInv
<1>6. (reported + 1) * TicksPerSecond \in TargetTimes(session)
  <2>1. reported + 1 \in 0 .. LastSecond(session)
    BY <1>2, <1>3, <1>5, LastSecondIsLate
  <2> QED BY <2>1, AnySecond
<1>7. PlannedLevel(Written("up")) = 0
  BY <1>1, PlannedLevels
<1> QED BY <1>1, <1>4, <1>5, <1>6, <1>7, NoLoad, ReportSent

LEMMA ReportDrainOK ==
  ASSUME ConnectionIInv, ReportDrain
  PROVE  ConnectionIInv'
<1> DEFINE now == clock \div TicksPerSecond
           n   == reported - Len(steps) + 1
<1>1. /\ gen = "load" /\ AllReported /\ reported < Len(steps) + MaxDrains
      /\ Report((now + reported - Len(steps) + 1) * TicksPerSecond, 0)
  BY DEF ReportDrain
<1>2. /\ Transport /\ Control /\ LoadInv /\ ClockInv /\ ScheduleInv /\ session \in Sessions
  BY DEF ConnectionIInv, Transport
<1>3. /\ ~Rejected(session) /\ Len(steps) = Len(session.rows)
      /\ \A i \in 1 .. Len(steps) : steps[i].deadline = session.rows[i].deadline
  BY <1>1, <1>2, ConfigOf
<1>4. /\ Len(session.rows) \in Nat \ {0}
      /\ \A i \in 1 .. Len(session.rows) : session.rows[i].deadline \in Nat
  BY <1>2, <1>3, ShareOf
<1>5. clock = session.rows[Len(session.rows)].deadline
  <2>1. Len(session.rows) \in 1 .. Len(steps)
    BY <1>3, <1>4
  <2>2. steps # <<>>
    <3>1. Len(<<>>) = 0
      OBVIOUS
    <3> QED BY <1>3, <1>4, <3>1
  <2>3. current \notin DOMAIN steps
    BY <1>1 DEF AllReported, ScheduleDone
  <2> QED BY <1>2, <1>3, <2>1, <2>2, <2>3 DEF ClockInv
<1>6. now \in Nat
  <2>1. clock \in Nat
    BY <1>2 DEF ScheduleInv, ScheduleTypeOK
  <2> QED BY <2>1, LoadPlanAssumption, Division
<1>7. reported \in Nat /\ reported >= Len(steps) /\ MaxDrains \in Nat
  BY <1>1, <1>2, SessionAssumption DEF LoadInv, AllReported
<1> HIDE DEF now
<1>8. /\ n \in Nat /\ n <= MaxDrains /\ now + reported - Len(steps) + 1 = now + n
      /\ reported + 1 <= Len(steps) + MaxDrains
  BY <1>1, <1>3, <1>4, <1>6, <1>7
<1> HIDE DEF n
<1>9. now + n \in 0 .. LastSecond(session)
  BY <1>2, <1>3, <1>5, <1>8, LastSecondIsLate DEF now
<1>10. (now + n) * TicksPerSecond \in TargetTimes(session)
  BY <1>9, AnySecond
<1>11. PlannedLevel(Written("up")) = 0
  BY <1>1, <1>7, PlannedLevels
<1>12. Report((now + n) * TicksPerSecond, 0)
  BY <1>1, <1>8
<1> QED BY <1>1, <1>8, <1>10, <1>11, <1>12, NoLoad, ReportSent

LEMMA GeneratorStep ==
  ASSUME ConnectionIInv, Generator
  PROVE  ConnectionIInv'
<1>1. /\ Transport /\ Control /\ ConnectionEnds /\ LoadInv /\ ScheduleInv
      /\ session \in Sessions /\ DOMAIN buffer = Directions
  BY DEF ConnectionIInv, Transport
<1>2. ASSUME gen' = "ready" \/ gen' = "failed" \/ gen' = "finished"
      PROVE  /\ gen' = "warmup" => FALSE
             /\ gen' = "pause" => FALSE
             /\ gen' = "load" => FALSE
  BY <1>2
<1>3. CASE ReceiveConfig
  BY <1>3, ReceiveConfigStep
<1>4. CASE ReceiveConfigAbort
  BY <1>4, ReceiveConfigAbortStep
<1>5. CASE SetupSucceeds
  <2> DEFINE m == Variant("Ready", GeneratorDetails(session))
  <2>1. /\ gen = "setting_up" /\ gen' = "ready" /\ Sends("up", "ConfigResponse", m)
        /\ UNCHANGED <<orchVars, config, scheduleVars, received, gone, reader>>
        /\ reported' = reported
    BY <1>5 DEF SetupSucceeds, GeneratorSends
  <2>2. m \in MessagesOf(session, "ConfigResponse") /\ m.variant # "IntervalReport"
    BY DEF MessagesOf, Variant
  <2> HIDE DEF m
  <2>3. DOMAIN buffer' = Directions /\ \A d \in Directions : buffer'[d] = buffer[d]
    BY <1>1, <1>5, UnframedAtSetup
  <2> QED BY <1>2, <2>1, <2>2, <2>3, GeneratorSendsStep
<1>6. CASE SetupFails
  <2> DEFINE m == Variant("SetupFailed", [reason |-> session.reason])
  <2>1. /\ gen = "setting_up" /\ gen' = "failed" /\ Sends("up", "ConfigResponse", m)
        /\ UNCHANGED <<orchVars, config, scheduleVars, received, gone, reader>>
        /\ reported' = reported /\ buffer' = buffer
    BY <1>6 DEF SetupFails, GeneratorSends
  <2>2. m \in MessagesOf(session, "ConfigResponse") /\ m.variant # "IntervalReport"
    BY DEF MessagesOf, Variant
  <2> HIDE DEF m
  <2>3. DOMAIN buffer' = Directions /\ \A d \in Directions : buffer'[d] = buffer[d]
    BY <1>1, <2>1
  <2> QED BY <1>2, <2>1, <2>2, <2>3, GeneratorSendsStep
<1>7. CASE StartWarmup
  BY <1>7, StartWarmupStep
<1>8. CASE ReceiveAbort
  BY <1>8, ReceiveAbortStep
<1>9. CASE ReportStep
  BY <1>9, ReportStepOK
<1>10. CASE StartPause
  BY <1>10, StartPauseStep
<1>11. CASE ReportPause
  BY <1>11, ReportPauseOK
<1>12. CASE StartLoad
  BY <1>12, StartLoadStep
<1>13. CASE ReportDrain
  BY <1>13, ReportDrainOK
<1>14. CASE SendFinished
  <2> DEFINE m == Signal("Finished")
  <2>1. /\ gen = "load" /\ gen' = "finished" /\ Sends("up", "GeneratorUpdate", m)
        /\ UNCHANGED <<orchVars, config, scheduleVars, received, gone, reader>>
        /\ reported' = reported /\ buffer' = buffer
    BY <1>14 DEF SendFinished, GeneratorSends
  <2>2. m \in MessagesOf(session, "GeneratorUpdate") /\ m.variant # "IntervalReport"
    BY DEF MessagesOf, Signal, Variant
  <2> HIDE DEF m
  <2>3. DOMAIN buffer' = Directions /\ \A d \in Directions : buffer'[d] = buffer[d]
    BY <1>1, <2>1
  <2> QED BY <1>2, <2>1, <2>2, <2>3, GeneratorSendsStep
<1>15. CASE OrchestratorLost
  <2>1. /\ Hangup("down") /\ gen' = "failed"
        /\ UNCHANGED <<orchVars, config, reported, scheduleVars>>
    BY <1>15 DEF OrchestratorLost
  <2>2. /\ ConnectionEnds' /\ gone' = gone /\ Polls("down")
        /\ UNCHANGED <<wire, buffer, sent, received>>
    BY <1>1, <2>1, UpDown, HangupEnds
  <2>3. gen \notin GenEnded /\ gen # "listening"
    BY <2>2 DEF Polls, GenEnded
  <2> QED BY <2>1, <2>2, <2>3, GeneratorEndsStep DEF GenEnded
<1>16. CASE GeneratorSendFails
  <2>1. ConnectionEnds' /\ gone' = gone
    BY <1>1, <1>16 DEF GeneratorSendFails, channelVars, ConnectionEnds
  <2> QED BY <1>16, <2>1, GeneratorEndsStep DEF GeneratorSendFails, channelVars, GenEnded
<1> QED BY <1>3, <1>4, <1>5, <1>6, <1>7, <1>8, <1>9, <1>10, <1>11, <1>12, <1>13, <1>14, <1>15, <1>16
        DEF Generator

(* A connection is closed or reset.                                        *)
LEMMA CloseStep ==
  ASSUME ConnectionIInv,
         OrchestratorExits \/ GeneratorExits \/ OrchestratorCrashes \/ GeneratorCrashes
  PROVE  ConnectionIInv'
<1>1. ConnectionEnds /\ Control
  BY DEF ConnectionIInv
<1>2. CASE OrchestratorExits
  <2>1. /\ orch \in {"done", "failed"} /\ gen # "listening"
        /\ UNCHANGED <<orchVars, genVars, scheduleVars, wire, buffer, sent, received, reader>>
        /\ \E e \in {"no", "closed", "reset"} : gone' = [gone EXCEPT !["down"] = e]
    BY <1>2 DEF OrchestratorExits, Close
  <2>2. ConnectionEnds' /\ gone'["up"] = gone["up"]
    BY <1>1, <2>1, UpDown, EndsKept
  <2>3. UNCHANGED <<session, plan, genVars, scheduleVars>> /\ orch' = orch
    BY <2>1 DEF orchVars
  <2> QED BY <2>1, <2>2, <2>3, OrchestratorEndsStep DEF OrchEnded
<1>3. CASE GeneratorExits
  <2>1. /\ gen \in {"finished", "failed"} /\ gen # "listening"
        /\ UNCHANGED <<orchVars, genVars, scheduleVars, wire, buffer, sent, received, reader>>
        /\ \E e \in {"no", "closed", "reset"} : gone' = [gone EXCEPT !["up"] = e]
    BY <1>3 DEF GeneratorExits, Close
  <2>2. ConnectionEnds' /\ gone'["down"] = gone["down"]
    BY <1>1, <2>1, UpDown, EndsKept
  <2>3. UNCHANGED <<orchVars, config, reported, scheduleVars>> /\ gen' = gen
    BY <2>1 DEF genVars
  <2> QED BY <2>1, <2>2, <2>3, GeneratorEndsStep DEF GenEnded
<1>4. CASE OrchestratorCrashes
  <2>1. /\ orch \notin OrchEnded /\ orch' = "crashed" /\ gen # "listening"
        /\ UNCHANGED <<session, plan, genVars, scheduleVars>>
        /\ UNCHANGED <<wire, buffer, sent, received, reader>>
        /\ \E e \in {"no", "closed", "reset"} : gone' = [gone EXCEPT !["down"] = e]
    BY <1>4 DEF OrchestratorCrashes
  <2>2. ConnectionEnds' /\ gone'["up"] = gone["up"]
    BY <1>1, <2>1, UpDown, EndsKept
  <2> QED BY <2>1, <2>2, OrchestratorEndsStep DEF OrchEnded
<1>5. CASE GeneratorCrashes
  <2>1. /\ gen \notin GenEnded /\ gen' = "crashed" /\ gen # "listening"
        /\ UNCHANGED <<orchVars, config, reported, scheduleVars>>
        /\ UNCHANGED <<wire, buffer, sent, received, reader>>
        /\ \E e \in {"no", "closed", "reset"} : gone' = [gone EXCEPT !["up"] = e]
    BY <1>5 DEF GeneratorCrashes
  <2>2. ConnectionEnds' /\ gone'["down"] = gone["down"]
    BY <1>1, <2>1, UpDown, EndsKept
  <2> QED BY <2>1, <2>2, GeneratorEndsStep DEF GenEnded
<1> QED BY <1>2, <1>3, <1>4, <1>5

LEMMA ReadSomeStep ==
  ASSUME ConnectionIInv, NEW d \in Directions, ReadSome(d)
  PROVE  ConnectionIInv'
<1>1. /\ UNCHANGED <<session, plan, orch, gen, config, reported, gone, reader, sent>>
      /\ UNCHANGED scheduleVars /\ steps' = steps
  BY DEF ReadSome, orchVars, genVars, scheduleVars
<1>2. /\ Transport /\ Control /\ ConnectionEnds /\ LoadInv /\ ClockInv /\ ScheduleInv
  BY DEF ConnectionIInv
<1>3. /\ Transport'
      /\ Written("down")' = Written("down") /\ Written("up")' = Written("up")
      /\ Heard("up")' = Heard("up") /\ Heard("down")' = Heard("down")
  BY <1>2, UpDown, ReadStep
<1>4. Control'
  <2>1. PhasesOK' /\ PlanInv'
    BY <1>1, <1>2, <1>3 DEF Control, PhasesOK, PlanInv
  <2>2. OrchestratorInv'
    BY <1>1, <1>2, <1>3 DEF Control, OrchestratorInv
  <2>3. GeneratorInv'
    BY <1>1, <1>2, <1>3 DEF Control, GeneratorInv, Before
  <2> QED BY <2>1, <2>2, <2>3 DEF Control
<1>5. ConnectionEnds'
  BY <1>1, <1>2 DEF ConnectionEnds
<1>6. LoadInv'
  BY <1>1, <1>2, <1>3, LoadKept
<1>7. ScheduleInv' /\ ClockInv'
  BY <1>1, <1>2, ScheduleKept
<1> QED BY <1>3, <1>4, <1>5, <1>6, <1>7 DEF ConnectionIInv

LEMMA InitOK == ConnectionInit => ConnectionIInv
<1> SUFFICES ASSUME ConnectionInit PROVE ConnectionIInv
  OBVIOUS
<1>1. /\ session \in Sessions /\ plan = <<>> /\ orch = "starting" /\ gen = "listening"
      /\ reported = 0 /\ ScheduleInit
      /\ wire = [d \in Directions |-> <<>>] /\ buffer = [d \in Directions |-> <<>>]
      /\ sent = [d \in Directions |-> <<>>] /\ received = [d \in Directions |-> <<>>]
      /\ gone = [d \in Directions |-> "no"] /\ reader = [d \in Directions |-> "open"]
  BY DEF ConnectionInit, Both
<1>2. Transport
  <2>1. /\ DOMAIN wire = Directions /\ DOMAIN buffer = Directions
        /\ DOMAIN sent = Directions /\ DOMAIN received = Directions
        /\ \A d \in Directions : /\ wire[d] = <<>> /\ buffer[d] = <<>>
                                /\ sent[d] = <<>> /\ received[d] = <<>>
    BY <1>1
  <2>2. ASSUME NEW d \in Directions
        PROVE  ChannelInv(session, d, buffer[d] \o wire[d], sent[d], received[d])
    BY <2>1, ChannelStart, Zenon
  <2>3. <<>> \in Seq(Bytes)
    BY EmptySeq
  <2> QED BY <1>1, <2>1, <2>2, <2>3, Zenon DEF Transport
<1>3. Written("up") = 0 /\ Written("down") = 0 /\ Heard("up") = 0 /\ Heard("down") = 0
  <2>1. Len(<<>>) = 0
    OBVIOUS
  <2> QED BY <1>1, <2>1, UpDown DEF Written, Heard
<1>4. Control
  BY <1>1, <1>3, UpDown
     DEF Control, PhasesOK, OrchestratorInv, GeneratorInv, PlanInv, OrchEnded, GenEnded
<1>5. ConnectionEnds
  BY <1>1 DEF ConnectionEnds
<1>6. LoadInv
  <2>1. \A i \in 1 .. Written("up") : FALSE
    BY <1>3
  <2> QED BY <1>1, <2>1 DEF LoadInv
<1>7. ScheduleInv
  BY <1>1, EmptySeq DEF ScheduleInit, ScheduleInv, ScheduleTypeOK, StepsInOrder,
                        ArrivalInItsStep, NoArrival
<1>8. ClockInv
  BY <1>1 DEF ClockInv, ScheduleInit
<1> QED BY <1>2, <1>4, <1>5, <1>6, <1>7, <1>8 DEF ConnectionIInv

LEMMA NothingHappens ==
  ASSUME ConnectionIInv, UNCHANGED vars
  PROVE  ConnectionIInv'
<1>1. /\ UNCHANGED <<session, plan, orch, gen, config, reported, gone, reader>>
      /\ UNCHANGED <<genVars, scheduleVars>> /\ UNCHANGED <<session, plan, genVars, scheduleVars>>
      /\ UNCHANGED <<wire, buffer, sent, received>>
  BY DEF vars, orchVars, genVars, channelVars
<1>2. ConnectionEnds'
  BY <1>1 DEF ConnectionIInv, ConnectionEnds
<1>3. gen = "listening" => orch \in {"starting", "failed"}
  BY DEF ConnectionIInv, Control, PlanInv
<1>4. CASE gen # "listening"
  BY <1>1, <1>2, <1>4, GeneratorEndsStep DEF orchVars
<1>5. CASE gen = "listening"
  <2>1. Transport' /\ \A e \in Directions : Written(e)' = Written(e) /\ Heard(e)' = Heard(e)
    BY <1>1, QuietStep DEF ConnectionIInv
  <2>2. Control'
    BY <1>1, <1>5, <2>1, UpDown
       DEF ConnectionIInv, Control, PhasesOK, OrchestratorInv, GeneratorInv, PlanInv, Before
  <2>3. LoadInv'
    BY <1>1, <2>1, UpDown, LoadKept DEF ConnectionIInv, scheduleVars
  <2>4. ScheduleInv' /\ ClockInv'
    BY <1>1, ScheduleKept DEF ConnectionIInv
  <2> QED BY <1>2, <2>1, <2>2, <2>3, <2>4 DEF ConnectionIInv
<1> QED BY <1>4, <1>5

LEMMA ConnectionStep == ConnectionIInv /\ [ConnectionNext]_vars => ConnectionIInv'
<1> SUFFICES ASSUME ConnectionIInv, [ConnectionNext]_vars PROVE ConnectionIInv'
  OBVIOUS
<1>1. CASE Orchestrator
  BY <1>1, OrchestratorStep
<1>2. CASE Generator
  BY <1>2, GeneratorStep
<1>3. CASE Schedule
  BY <1>3, ScheduledStep
<1>4. CASE \E d \in Directions : ReadSome(d)
  BY <1>4, ReadSomeStep
<1>5. CASE OrchestratorExits \/ GeneratorExits \/ OrchestratorCrashes \/ GeneratorCrashes
  BY <1>5, CloseStep
<1>6. CASE UNCHANGED vars
  BY <1>6, NothingHappens
<1> QED BY <1>1, <1>2, <1>3, <1>4, <1>5, <1>6 DEF ConnectionNext

LEMMA ConnectionIndInvariance == ConnectionSpec => []ConnectionIInv
  BY InitOK, ConnectionStep, PTL DEF ConnectionSpec

-----------------------------------------------------------------------------
(* The properties                                                          *)

(* In every session, whatever is sent in it and however it is read, the    *)
(* arrivals stay in their steps (schedule.rs:102-124).                     *)
THEOREM ConnectionInvariance == ConnectionSpec => []ConnectionInv
<1>1. ConnectionIInv => ConnectionInv
  <2> SUFFICES ASSUME ConnectionIInv PROVE ConnectionInv
    OBVIOUS
  <2>1. ConnectionTypeOK
    BY DEF ConnectionIInv, Transport, Control, PhasesOK, ConnectionEnds, ConnectionTypeOK
  <2> QED BY <2>1 DEF ConnectionIInv, ConnectionInv
<1> QED BY <1>1, ConnectionIndInvariance, PTL

(* A share and its larger siblings.                                        *)
LEMMA SharesOfCount ==
  ASSUME NEW total \in Nat, NEW n \in Nat \ {0}
  PROVE  LET share == DistributeCount(total, n) IN
         /\ \A g \in 1 .. n : share[g] \in {share[n], share[n] + 1}
         /\ n * share[n] + Cardinality({g \in 1 .. n : share[g] = share[n] + 1}) = total
<1> DEFINE share == DistributeCount(total, n)
<1> DEFINE q == total \div n
           r == total % n
<1>1. q \in Nat /\ r \in 0 .. n - 1 /\ total = n * q + r
  BY Division
<1>2. \A g \in 1 .. n : share[g] = IF g - 1 < r THEN q + 1 ELSE q
  BY DEF DistributeCount
<1> HIDE DEF q, r, share
<1>3. share[n] = q
  BY <1>1, <1>2
<1>4. {g \in 1 .. n : share[g] = share[n] + 1} = 1 .. r
  <2>1. \A g \in 1 .. n : share[g] = q + 1 <=> g - 1 < r
    BY <1>1, <1>2
  <2> QED BY <1>1, <1>3, <2>1
<1>5. Cardinality(1 .. r) = r
  BY <1>1, FS_Interval
<1>6. n * share[n] + Cardinality({g \in 1 .. n : share[g] = share[n] + 1}) = total
  BY <1>1, <1>3, <1>4, <1>5
<1> QED BY <1>2, <1>3, <1>6 DEF share

LEMMA SharesAddUpInPlan ==
  ASSUME ConnectionIInv
  PROVE  SharesAddUp
<1> SUFFICES ASSUME plan # <<>> PROVE SharesAddUp
  BY DEF SharesAddUp
<1>1. /\ session \in Sessions /\ ~Rejected(session) /\ plan = Plan(session)
  BY DEF ConnectionIInv, Transport, Control, PlanInv
<1> DEFINE n == session.generators
           rows == session.rows
<1>2. /\ n \in Nat \ {0} /\ DOMAIN rows = 1 .. Len(rows)
      /\ rows \in Seq(Rows) /\ session.warmup \in Warmups
  BY <1>1, ShareOf
<1>3. ASSUME NEW total \in Nat PROVE AddsUp(DistributeCount(total, n), total)
  BY <1>2, SharesOfCount, Zenon DEF AddsUp
<1>4. ASSUME NEW i \in DOMAIN rows
      PROVE  AddsUp([g \in 1 .. n |-> plan[g].profile[i].count], rows[i].count)
  <2>1. rows[i].count \in Nat
    <3>1. rows[i] \in Rows
      <4> HIDE DEF rows
      <4> QED BY <1>2
    <3> QED BY <3>1 DEF Rows
  <2>2. \A g \in 1 .. n : plan[g].profile[i].count = DistributeCount(rows[i].count, n)[g]
    <3> SUFFICES ASSUME NEW g \in 1 .. n
                 PROVE  plan[g].profile[i].count = DistributeCount(rows[i].count, n)[g]
      OBVIOUS
    <3>1. plan[g].profile = DistributeProfile(Profile(rows), n)[g]
      BY <1>1 DEF Plan
    <3>2. i \in DOMAIN Profile(rows)
          /\ Profile(rows)[i] = [deadline |-> rows[i].deadline, count |-> rows[i].count]
      BY DEF Profile
    <3>3. DistributeProfile(Profile(rows), n)[g][i]
            = [Profile(rows)[i] EXCEPT !.count = DistributeCount(Profile(rows)[i].count, n)[g]]
      BY <3>2, Zenon DEF DistributeProfile
    <3> DEFINE row == Profile(rows)[i]
               part == DistributeCount(row.count, n)[g]
    <3>4. plan[g].profile[i] = [row EXCEPT !.count = part]
      BY <3>1, <3>3, Zenon
    <3>5. row = [deadline |-> rows[i].deadline, count |-> rows[i].count]
      BY <3>2
    <3>6. part = DistributeCount(rows[i].count, n)[g]
      BY <3>5
    <3> HIDE DEF row, part
    <3> QED BY <3>4, <3>5, <3>6
  <2>3. [g \in 1 .. n |-> plan[g].profile[i].count] = DistributeCount(rows[i].count, n)
    <3>1. [g \in 1 .. n |-> plan[g].profile[i].count]
            = [g \in 1 .. n |-> DistributeCount(rows[i].count, n)[g]]
      BY <2>2
    <3>2. [g \in 1 .. n |-> DistributeCount(rows[i].count, n)[g]] = DistributeCount(rows[i].count, n)
      BY DEF DistributeCount
    <3> QED BY <3>1, <3>2
  <2> QED BY <1>3, <2>1, <2>3, Zenon
<1>5. AddsUp([g \in 1 .. n |-> plan[g].warmup.rate], session.warmup.rate)
  <2>1. session.warmup.rate \in Nat
    BY <1>2 DEF Warmups
  <2>2. \A g \in 1 .. n : plan[g].warmup.rate = DistributeCount(session.warmup.rate, n)[g]
    <3> SUFFICES ASSUME NEW g \in 1 .. n
                 PROVE  plan[g].warmup.rate = DistributeCount(session.warmup.rate, n)[g]
      OBVIOUS
    <3>1. plan[g].warmup = DistributeWarmup(session.warmup, n)[g]
      BY <1>1 DEF Plan
    <3>2. plan[g].warmup
            = [session.warmup EXCEPT !.rate = DistributeCount(session.warmup.rate, n)[g]]
      BY <3>1 DEF DistributeWarmup
    <3> QED BY <1>2, <3>2 DEF Warmups
  <2>3. [g \in 1 .. n |-> plan[g].warmup.rate] = DistributeCount(session.warmup.rate, n)
    <3>1. [g \in 1 .. n |-> plan[g].warmup.rate]
            = [g \in 1 .. n |-> DistributeCount(session.warmup.rate, n)[g]]
      BY <2>2
    <3>2. [g \in 1 .. n |-> DistributeCount(session.warmup.rate, n)[g]]
            = DistributeCount(session.warmup.rate, n)
      BY DEF DistributeCount
    <3> QED BY <3>1, <3>2
  <2> QED BY <1>3, <2>1, <2>3, Zenon
<1> QED BY <1>4, <1>5, Zenon DEF SharesAddUp

LEMMA RatesOfShare ==
  ASSUME ConnectionIInv
  PROVE  RatesGiveTheShare
<1> SUFFICES ASSUME gen = "load", NEW i \in DOMAIN session.rows,
                    session.rows[i].deadline - StepStart(i) > 0
             PROVE  steps[i].rate.requests * (session.rows[i].deadline - StepStart(i))
                      = plan[session.id].profile[i].count * steps[i].rate.ticks
  BY DEF RatesGiveTheShare
<1> DEFINE share == plan[session.id].profile
           rows  == session.rows
<1>1. /\ Transport /\ Control /\ LoadInv /\ ScheduleInv /\ session \in Sessions
  BY DEF ConnectionIInv, Transport
<1>2. /\ ~Rejected(session) /\ plan = Plan(session) /\ config.profile.steps = share
      /\ DOMAIN steps = 1 .. Len(steps) /\ Len(steps) = Len(rows)
      /\ \A k \in 1 .. Len(steps) : steps[k].deadline = rows[k].deadline
  BY <1>1, ConfigOf
<1>3. /\ DOMAIN share = 1 .. Len(rows) /\ Len(rows) \in Nat /\ DOMAIN rows = 1 .. Len(rows)
      /\ \A k \in 1 .. Len(rows) :
           /\ share[k].deadline = rows[k].deadline
           /\ share[k].count \in Nat /\ rows[k].deadline \in Nat
  BY <1>1, <1>2, ShareOf
<1>4. steps = FromProfile(share)
  BY <1>1, <1>2 DEF LoadInv
<1>5. steps[i].rate = Rate(share[i].count, Since(share[i].deadline, Previous(share, i)))
  BY <1>3, <1>4 DEF FromProfile
<1> HIDE DEF share, rows
<1>6. Previous(share, i) = StepStart(i) /\ StepStart(i) \in Nat
  BY <1>2, <1>3 DEF Previous, StepStart, rows
<1> DEFINE duration == rows[i].deadline - StepStart(i)
           count    == share[i].count
<1>7. duration \in Nat /\ duration > 0 /\ count \in Nat
  BY <1>3, <1>6 DEF rows
<1>8. Since(share[i].deadline, Previous(share, i)) = duration
  BY <1>3, <1>6, <1>7 DEF Since, rows
<1> HIDE DEF duration, count
<1>9. steps[i].rate = Rate(count, duration)
  BY <1>5, <1>8, Zenon DEF count
<1>10. steps[i].rate.requests * duration = count * steps[i].rate.ticks
  BY <1>7, <1>9 DEF Rate, NoRate
<1> QED BY <1>10, Zenon DEF duration, count, share, rows

LEMMA ReportsOfPlan ==
  ASSUME ConnectionIInv
  PROVE  ReportsFollowThePlan
<1>1. /\ Transport /\ LoadInv
  BY DEF ConnectionIInv
<1>2. /\ Heard("up") \in Nat /\ Written("up") \in Nat /\ Heard("up") <= Written("up")
      /\ \A i \in 1 .. Heard("up") : received["up"][i] = sent["up"][i]
      /\ received["up"] \in Seq(AnyMessage(session))
  BY <1>1, Counts, UpDown
<1>3. DOMAIN received["up"] = 1 .. Heard("up")
  BY <1>2, LenProperties DEF Heard
<1>4. \A i \in 1 .. Heard("up") : i \in 1 .. Written("up")
  BY <1>2
<1> QED BY <1>1, <1>2, <1>3, <1>4 DEF LoadInv, ReportsFollowThePlan

(* From the profile in the file to what is scheduled and reported no       *)
(* request is lost or invented (distribute.rs:3, schedule.rs:23,           *)
(* ready.rs:104).                                                          *)
THEOREM LoadConserved == ConnectionSpec => []LoadIsConserved
<1>1. ConnectionIInv => LoadIsConserved
  BY SharesAddUpInPlan, RatesOfShare, ReportsOfPlan DEF LoadIsConserved
<1> QED BY <1>1, ConnectionIndInvariance, PTL

LEMMA PolledFrame ==
  ASSUME ConnectionIInv, NEW d \in Directions, Polls(d)
  PROVE  /\ Decoded(d) # Broken
         /\ Decoded(d) = NeedMore /\ wire[d] = <<>> => Heard(d) = Written(d) /\ buffer[d] = <<>>
<1>1. Transport /\ Control
  BY DEF ConnectionIInv
<1>2. /\ session \in Sessions /\ wire[d] \in Seq(Bytes) /\ buffer[d] \in Seq(Bytes)
      /\ ChannelInv(session, d, buffer[d] \o wire[d], sent[d], received[d])
  BY <1>1, TransportAt, Zenon
<1> DEFINE type == TypeOf(d, Len(received[d]) + 1)
<1>3. ~Rejected(session) /\ Decoded(d) = Decode(type, buffer[d])
  BY <1>1, ExpectedType, Zenon DEF Decoded, Heard
<1>4. type = TypeOf(d, Len(received[d]) + 1)
  OBVIOUS
<1> HIDE DEF type
<1>5. /\ Decode(type, buffer[d]) # Broken
      /\ Decode(type, buffer[d]) = NeedMore /\ wire[d] = <<>>
           => Len(received[d]) = Len(sent[d]) /\ buffer[d] = <<>>
  BY <1>2, <1>3, <1>4, ChannelDecodes
<1> QED BY <1>3, <1>5, Zenon DEF Heard, Written

LEMMA WaitsForNothing ==
  ASSUME ConnectionIInv, NEW d \in Directions, Lacks(d), wire[d] = <<>>
  PROVE  Heard(d) = Written(d) /\ buffer[d] = <<>> /\ received[d] = sent[d]
<1>1. Heard(d) = Written(d) /\ buffer[d] = <<>>
  BY PolledFrame, Zenon DEF Lacks
<1>2. /\ sent[d] \in Seq(AnyMessage(session)) /\ received[d] \in Seq(AnyMessage(session))
      /\ \A i \in 1 .. Heard(d) : received[d][i] = sent[d][i]
  BY Counts DEF ConnectionIInv
<1>3. received[d] = sent[d]
  BY <1>1, <1>2, SeqEqual DEF Heard, Written
<1> QED BY <1>1, <1>3

(* The orchestrator and the load generator never wait for each other, with *)
(* nothing under way (framer.rs:170, configure.rs:72).                     *)
THEOREM NobodyWaits == ConnectionSpec => []NeverBothWaiting
<1>1. ConnectionIInv => NeverBothWaiting
  <2> SUFFICES ASSUME ConnectionIInv, Waits("down"), Waits("up") PROVE FALSE
    BY DEF NeverBothWaiting
  <2>1. Heard("down") = Written("down") /\ Heard("up") = Written("up")
    BY UpDown, WaitsForNothing DEF Waits
  <2>2. /\ gen \in {"configuring", "ready"}
        /\ orch \in {"configuring", "aborting", "collecting"}
    BY DEF Waits, Lacks, Polls
  <2>3. Control
    BY DEF ConnectionIInv
  <2> QED BY <2>1, <2>2, <2>3 DEF Control, OrchestratorInv, GeneratorInv
<1> QED BY <1>1, ConnectionIndInvariance, PTL

-----------------------------------------------------------------------------
(* Refinement of MessageChannel: what one direction does in a step.        *)
Rests(d) == UNCHANGED <<sent[d], received[d], gone[d], reader[d]>>

Conveys(d) ==
  \/ /\ gone[d] = "no"
     /\ Len(sent'[d]) = Len(sent[d]) + 1 /\ SubSeq(sent'[d], 1, Len(sent[d])) = sent[d]
     /\ UNCHANGED <<received[d], gone[d], reader[d]>>
  \/ /\ reader[d] = "open" /\ Len(received[d]) < Len(sent[d])
     /\ received'[d] = Append(received[d], sent[d][Len(received[d]) + 1])
     /\ UNCHANGED <<sent[d], gone[d], reader[d]>>
  \/ /\ gone[d] = "no" /\ gone'[d] \in {"closed", "reset"}
     /\ UNCHANGED <<sent[d], received[d], reader[d]>>
  \/ /\ reader[d] = "open"
     /\ \/ gone[d] = "closed" /\ received[d] = sent[d] /\ reader'[d] = "ended"
        \/ gone[d] = "reset" /\ reader'[d] \in {"ended", "failed"}
     /\ UNCHANGED <<sent[d], received[d], gone[d]>>

LEMMA ConveysDown == Conveys("down") \/ Rests("down") => [Down!Next]_(Down!channelVars)
  BY DEF Conveys, Rests, Down!Next, Down!Send, Down!Receive, Down!Go, Down!End, Down!channelVars

LEMMA ConveysUp == Conveys("up") \/ Rests("up") => [Up!Next]_(Up!channelVars)
  BY DEF Conveys, Rests, Up!Next, Up!Send, Up!Receive, Up!Go, Up!End, Up!channelVars

LEMMA Prefix ==
  ASSUME NEW S, NEW s \in Seq(S), NEW m
  PROVE  Len(Append(s, m)) = Len(s) + 1 /\ SubSeq(Append(s, m), 1, Len(s)) = s
<1> DEFINE T == S \cup {m}
           more == Append(s, m)
           n == Len(s)
           front == SubSeq(more, 1, n)
<1>1. s \in Seq(T) /\ m \in T /\ n \in Nat
  BY LenProperties
<1>2. /\ more \in Seq(T) /\ Len(more) = n + 1
      /\ \A i \in 1 .. n : more[i] = s[i]
  BY <1>1, AppendProperties
<1> HIDE DEF more, T
<1>3. front \in Seq(T) /\ Len(front) = n /\ \A i \in 1 .. n : front[i] = more[i]
  <2>1. CASE n = 0
    <3>1. front = <<>>
      BY <1>2, <2>1, SubSeqProperties
    <3> QED BY <2>1, <3>1, EmptySeq
  <2>2. CASE n > 0
    BY <1>1, <1>2, <2>2, SubSeqProperties
  <2> QED BY <1>1, <2>1, <2>2
<1> HIDE DEF front
<1>4. front = s
  BY <1>1, <1>2, <1>3, SeqEqual
<1> QED BY <1>2, <1>4 DEF front, more

LEMMA SendConveys ==
  ASSUME ConnectionIInv, NEW d \in Directions, NEW type, NEW m, Sends(d, type, m),
         gone[d] = "no", UNCHANGED <<received, gone, reader>>
  PROVE  Conveys(d) /\ Rests(Opposite(d))
<1> DEFINE e == Opposite(d)
<1>1. e \in Directions /\ e # d /\ DOMAIN sent = Directions
  BY TwoDirections DEF ConnectionIInv, Transport
<1> HIDE DEF e
<1>2. sent' = [sent EXCEPT ![d] = Append(@, m)]
  BY DEF Sends
<1>3. sent'[d] = Append(sent[d], m) /\ sent'[e] = sent[e]
  BY <1>1, <1>2
<1>4. sent[d] \in Seq(AnyMessage(session))
  BY Counts DEF ConnectionIInv
<1>5. Len(sent'[d]) = Len(sent[d]) + 1 /\ SubSeq(sent'[d], 1, Len(sent[d])) = sent[d]
  BY <1>3, <1>4, Prefix
<1>6. Rests(e)
  BY <1>3 DEF Rests
<1> QED BY <1>5, <1>6 DEF Conveys, e

LEMMA HearConveys ==
  ASSUME ConnectionIInv, NEW d \in Directions, NEW variants, HearsOf(d, variants),
         UNCHANGED <<gone, reader>>
  PROVE  /\ UNCHANGED sent => Conveys(d) /\ Rests(Opposite(d))
         /\ received'[Opposite(d)] = received[Opposite(d)]
         /\ reader[d] = "open" /\ Len(received[d]) < Len(sent[d])
         /\ received'[d] = Append(received[d], sent[d][Len(received[d]) + 1])
<1> DEFINE e == Opposite(d)
<1>1. e \in Directions /\ e # d /\ DOMAIN received = Directions
  BY TwoDirections DEF ConnectionIInv, Transport
<1> HIDE DEF e
<1>2. /\ Len(received[d]) < Len(sent[d])
      /\ Decoded(d).message = sent[d][Len(received[d]) + 1]
  BY HearAt, Zenon DEF ConnectionIInv, Heard, Written
<1>3. received' = [received EXCEPT ![d] = Append(@, Decoded(d).message)] /\ reader[d] = "open"
  BY Zenon DEF HearsOf, Polls
<1>4. received'[d] = Append(received[d], Decoded(d).message) /\ received'[e] = received[e]
  BY <1>1, <1>3
<1>5. received'[d] = Append(received[d], sent[d][Len(received[d]) + 1])
  BY <1>2, <1>4, Zenon
<1>6. ASSUME UNCHANGED sent PROVE Conveys(d) /\ Rests(e)
  BY <1>2, <1>3, <1>4, <1>5, <1>6 DEF Conveys, Rests
<1> QED BY <1>2, <1>3, <1>4, <1>5, <1>6 DEF e

LEMMA HangupConveys ==
  ASSUME ConnectionIInv, NEW d \in Directions, Hangup(d)
  PROVE  Conveys(d) /\ Rests(Opposite(d))
<1>1. /\ Opposite(d) \in Directions /\ Opposite(d) # d /\ DOMAIN reader = Directions
  BY TwoDirections DEF ConnectionIInv, ConnectionEnds
<1>2. /\ UNCHANGED <<sent, received, gone>> /\ Polls(d) /\ reader[d] = "open"
  BY DEF Hangup, StreamEnds, DecodeFails, Lacks, Polls
<1>3. StreamEnds(d)
  BY <1>2, PolledFrame DEF Hangup, DecodeFails
<1>4. PICK end \in {"ended", "failed"} :
        /\ reader' = [reader EXCEPT ![d] = end]
        /\ end = "ended" => buffer[d] = <<>>
        /\ end = "failed" => buffer[d] # <<>> \/ gone[d] = "reset"
  BY <1>3 DEF StreamEnds
<1>5. reader'[d] = end /\ reader'[Opposite(d)] = reader[Opposite(d)]
  BY <1>1, <1>4
<1>6. CASE gone[d] = "closed" /\ wire[d] = <<>>
  <2>1. received[d] = sent[d] /\ buffer[d] = <<>>
    BY <1>3, <1>6, WaitsForNothing DEF StreamEnds
  <2>2. end = "ended"
    BY <1>4, <1>6, <2>1
  <2> QED BY <1>2, <1>5, <1>6, <2>1, <2>2 DEF Conveys, Rests
<1>7. CASE gone[d] = "reset"
  BY <1>2, <1>5, <1>7 DEF Conveys, Rests
<1> QED BY <1>3, <1>6, <1>7 DEF StreamEnds

LEMMA GoConveys ==
  ASSUME ConnectionIInv, NEW d \in Directions, gone[d] = "no",
         NEW end \in {"closed", "reset"}, gone' = [gone EXCEPT ![d] = end],
         UNCHANGED <<sent, received, reader>>
  PROVE  Conveys(d) /\ Rests(Opposite(d))
<1>1. /\ Opposite(d) \in Directions /\ Opposite(d) # d /\ DOMAIN gone = Directions
  BY TwoDirections DEF ConnectionIInv, ConnectionEnds
<1>2. gone'[d] = end /\ gone'[Opposite(d)] = gone[Opposite(d)]
  BY <1>1
<1> QED BY <1>2 DEF Conveys, Rests

(* Nothing happens to the messages.                                        *)
LEMMA BothRest ==
  ASSUME UNCHANGED <<sent, received, gone, reader>>
  PROVE  Rests("down") /\ Rests("up")
  BY DEF Rests

LEMMA OrchestratorConveys ==
  ASSUME ConnectionIInv, Orchestrator
  PROVE  /\ Conveys("down") \/ Rests("down")
         /\ Conveys("up") \/ Rests("up")
<1>1. gone["down"] # "no" => orch \in OrchEnded
  BY DEF ConnectionIInv, Control, OrchestratorInv
<1>2. ASSUME NEW from, NEW type, NEW m, NEW to, OrchestratorSends(from, type, m, to),
             from \in {"connected", "ready"}
      PROVE  /\ Conveys("down") \/ Rests("down")
             /\ Conveys("up") \/ Rests("up")
  <2>1. /\ Sends("down", type, m) /\ UNCHANGED <<received, gone, reader>> /\ gone["down"] = "no"
    BY <1>1, <1>2 DEF OrchestratorSends, OrchEnded
  <2> QED BY <2>1, UpDown, SendConveys
<1>3. ASSUME NEW variants, HearsOf("up", variants), UNCHANGED <<sent, gone, reader>>
      PROVE  /\ Conveys("down") \/ Rests("down")
             /\ Conveys("up") \/ Rests("up")
  BY <1>3, UpDown, HearConveys
<1>4. CASE RejectSession \/ PlanLoad \/ OrchestratorSendFails
  BY <1>4, BothRest DEF RejectSession, PlanLoad, OrchestratorSendFails, channelVars
<1>5. CASE SendConfig \/ SendAbortConnected \/ SendStart \/ SendAbortReady
  BY <1>2, <1>5 DEF SendConfig, SendAbortConnected, SendStart, SendAbortReady
<1>6. CASE ConfigReady \/ ConfigFails \/ AbortAnswered \/ CollectReport \/ CollectFinished
  BY <1>3, <1>6 DEF ConfigReady, ConfigFails, AbortAnswered, CollectReport, CollectFinished, Hears
<1>7. CASE GeneratorLost
  BY <1>7, UpDown, HangupConveys DEF GeneratorLost
<1> QED BY <1>4, <1>5, <1>6, <1>7 DEF Orchestrator

LEMMA GeneratorConveys ==
  ASSUME ConnectionIInv, Generator
  PROVE  /\ Conveys("down") \/ Rests("down")
         /\ Conveys("up") \/ Rests("up")
<1>1. gone["up"] # "no" => gen \in GenEnded
  BY DEF ConnectionIInv, Control, GeneratorInv
<1>2. ASSUME NEW type, NEW m, GeneratorSends(type, m), gen \notin GenEnded
      PROVE  /\ Conveys("down") \/ Rests("down")
             /\ Conveys("up") \/ Rests("up")
  <2>1. /\ Sends("up", type, m) /\ UNCHANGED <<received, gone, reader>> /\ gone["up"] = "no"
    BY <1>1, <1>2 DEF GeneratorSends
  <2> QED BY <2>1, UpDown, SendConveys
<1>3. ASSUME NEW variants, HearsOf("down", variants), UNCHANGED <<sent, gone, reader>>
      PROVE  /\ Conveys("down") \/ Rests("down")
             /\ Conveys("up") \/ Rests("up")
  BY <1>3, UpDown, HearConveys
<1>4. CASE StartPause \/ StartLoad \/ GeneratorSendFails
  BY <1>4, BothRest DEF StartPause, StartLoad, GeneratorSendFails, channelVars
<1>5. CASE SetupSucceeds \/ SetupFails \/ SendFinished
  BY <1>2, <1>5 DEF SetupSucceeds, SetupFails, SendFinished, GenEnded
<1>6. CASE ReportStep \/ ReportPause \/ ReportDrain
  <2>1. PICK time, level : Report(time, level)
    BY <1>6 DEF ReportStep, ReportPause, ReportDrain
  <2>2. gen \notin GenEnded
    BY <1>6 DEF ReportStep, ReportPause, ReportDrain, GenEnded
  <2> QED BY <1>2, <2>1, <2>2 DEF Report
<1>7. CASE ReceiveConfig \/ StartWarmup \/ ReceiveAbort
  BY <1>3, <1>7 DEF ReceiveConfig, StartWarmup, ReceiveAbort, Hears
<1>8. CASE ReceiveConfigAbort
  <2> DEFINE m == Signal("Aborted")
  <2>1. /\ HearsOf("down", {"Abort"}) /\ Sends("up", "ConfigResponse", m)
        /\ UNCHANGED <<gone, reader>> /\ gone["up"] = "no"
    BY <1>1, <1>8 DEF ReceiveConfigAbort, Hears, GenEnded
  <2> HIDE DEF m
  <2>2. /\ received'["up"] = received["up"]
        /\ reader["down"] = "open" /\ Len(received["down"]) < Len(sent["down"])
        /\ received'["down"] = Append(received["down"], sent["down"][Len(received["down"]) + 1])
    BY <2>1, UpDown, HearConveys
  <2>3. DOMAIN sent = Directions /\ sent["up"] \in Seq(AnyMessage(session))
    BY UpDown, Counts DEF ConnectionIInv, Transport
  <2>4. sent' = [sent EXCEPT !["up"] = Append(@, m)]
    BY <2>1 DEF Sends
  <2>5. sent'["up"] = Append(sent["up"], m) /\ sent'["down"] = sent["down"]
    BY <2>3, <2>4, UpDown
  <2>6. Len(sent'["up"]) = Len(sent["up"]) + 1 /\ SubSeq(sent'["up"], 1, Len(sent["up"])) = sent["up"]
    BY <2>3, <2>5, Prefix
  <2>7. Conveys("down")
    BY <2>1, <2>2, <2>5 DEF Conveys
  <2>8. Conveys("up")
    BY <2>1, <2>2, <2>6 DEF Conveys
  <2> QED BY <2>7, <2>8
<1>9. CASE OrchestratorLost
  BY <1>9, UpDown, HangupConveys DEF OrchestratorLost
<1> QED BY <1>4, <1>5, <1>6, <1>7, <1>8, <1>9 DEF Generator

LEMMA CloseConveys ==
  ASSUME ConnectionIInv,
         OrchestratorExits \/ GeneratorExits \/ OrchestratorCrashes \/ GeneratorCrashes
  PROVE  /\ Conveys("down") \/ Rests("down")
         /\ Conveys("up") \/ Rests("up")
<1>1. /\ gone["down"] # "no" => orch \in OrchEnded
      /\ gone["up"] # "no" => gen \in GenEnded
  BY DEF ConnectionIInv, Control, OrchestratorInv, GeneratorInv
<1>2. PICK d \in Directions, end \in {"closed", "reset"} :
        gone' = [gone EXCEPT ![d] = end] /\ gone[d] = "no"
  BY <1>1, UpDown DEF OrchestratorExits, GeneratorExits, OrchestratorCrashes, GeneratorCrashes, Close
<1>3. UNCHANGED <<sent, received, reader>>
  BY DEF OrchestratorExits, GeneratorExits, OrchestratorCrashes, GeneratorCrashes, Close
<1>4. Conveys(d) /\ Rests(Opposite(d))
  BY <1>2, <1>3, GoConveys
<1> QED BY <1>4, UpDown DEF Directions

LEMMA StepConveys ==
  ConnectionIInv /\ [ConnectionNext]_vars
    => [Down!Next]_(Down!channelVars) /\ [Up!Next]_(Up!channelVars)
<1> SUFFICES ASSUME ConnectionIInv, [ConnectionNext]_vars
             PROVE  /\ Conveys("down") \/ Rests("down")
                    /\ Conveys("up") \/ Rests("up")
  BY ConveysDown, ConveysUp
<1>1. CASE Orchestrator
  BY <1>1, OrchestratorConveys
<1>2. CASE Generator
  BY <1>2, GeneratorConveys
<1>3. CASE Schedule \/ UNCHANGED vars
  BY <1>3, BothRest DEF Schedule, vars, channelVars
<1>4. CASE \E d \in Directions : ReadSome(d)
  BY <1>4, BothRest DEF ReadSome
<1>5. CASE OrchestratorExits \/ GeneratorExits \/ OrchestratorCrashes \/ GeneratorCrashes
  BY <1>5, CloseConveys
<1> QED BY <1>1, <1>2, <1>3, <1>4, <1>5 DEF ConnectionNext

(* Each direction of a connection implements a channel of whole messages,  *)
(* whatever its bytes are cut into (framer.rs:153, configure.rs:75).       *)
THEOREM ChannelRefinement == ConnectionSpec => Channels
<1>1. ConnectionInit => Down!Init /\ Up!Init
  BY UpDown DEF ConnectionInit, Both, Down!Init, Up!Init
<1> QED BY <1>1, StepConveys, ConnectionIndInvariance, PTL
        DEF ConnectionSpec, Channels, Down!ChannelSpec, Up!ChannelSpec
=============================================================================
