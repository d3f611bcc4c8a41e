------------------------------ MODULE LoadPlan ------------------------------
(***************************************************************************)
(* From the load profile in a file to the arrivals of one load generator:  *)
(* reading and validating it (config/profile.rs), sharing it out among the *)
(* generators (orchestrator/distribute.rs), turning a share into steps of  *)
(* constant rate, and drawing arrivals from those (load/schedule.rs).      *)
(*                                                                         *)
(* Time is counted in ticks.  A rate is kept as the fraction it is         *)
(* computed from; the gaps it is sampled with are any.                     *)
(***************************************************************************)
EXTENDS Naturals, Sequences, FiniteSets

CONSTANTS TicksPerSecond, \* ticks in the one second of a warmup step
          MaxGap          \* bound of the gaps drawn between arrivals

ASSUME LoadPlanAssumption == TicksPerSecond \in Nat \ {0} /\ MaxGap \in Nat

VARIABLES
  steps,   \* the steps of the phase that is being scheduled
  current, \* ArrivalSchedule::current, by number; past the last one for None
  clock,   \* ArrivalSchedule::clock
  arrival  \* the last arrival

scheduleVars == <<steps, current, clock, arrival>>

NoArrival == [offset |-> 0, step |-> 0]

-----------------------------------------------------------------------------
(* LoadProfileConfig::from_bytes: a row of the file parses or not; what    *)
(* its deadline is apart from a number of ticks is its class.              *)
DeadlineParses(row) == row.class = "finite"   \* neither negative, nor infinite, nor NaN

RowError(rows, i) ==
  IF ~(rows[i].parses /\ DeadlineParses(rows[i])) THEN "Csv"
  ELSE IF i > 1 /\ rows[i].deadline <= rows[i - 1].deadline THEN "NonMonotonicDeadline"
  ELSE "ok"

ProfileIsValid(rows) == rows # <<>> /\ \A i \in DOMAIN rows : RowError(rows, i) = "ok"

Profile(rows) == [i \in DOMAIN rows |-> [deadline |-> rows[i].deadline, count |-> rows[i].count]]

-----------------------------------------------------------------------------
(* distribute_count: the first generators take one of the remainder each.  *)
DistributeCountDropped(total, divisor) ==   \* mutant: the remainder is lost
  [g \in 1 .. divisor |-> total \div divisor]

DistributeCount(total, divisor) ==
  [g \in 1 .. divisor |->
     IF g - 1 < total % divisor THEN total \div divisor + 1 ELSE total \div divisor]

DistributeProfile(profile, generators) ==
  [g \in 1 .. generators |->
     [i \in DOMAIN profile |->
        [profile[i] EXCEPT !.count = DistributeCount(profile[i].count, generators)[g]]]]

DistributeWarmup(warmup, generators) ==
  [g \in 1 .. generators |->
     [warmup EXCEPT !.rate = DistributeCount(warmup.rate, generators)[g]]]

-----------------------------------------------------------------------------
(* ScheduledStep                                                           *)
Later(a, b) == IF a >= b THEN a ELSE b
Since(a, b) == IF a >= b THEN a - b ELSE 0   \* saturating_sub

NoRate == [requests |-> 0, ticks |-> 1]
Rate(count, duration) ==
  IF count = 0 \/ duration = 0 THEN NoRate ELSE [requests |-> count, ticks |-> duration]

(* previous is the latest deadline so far; in a valid profile the last one. *)
Previous(profile, i) == IF i = 1 THEN 0 ELSE profile[i - 1].deadline

FromProfile(profile) ==
  [i \in DOMAIN profile |->
     [deadline |-> profile[i].deadline,
      rate |-> Rate(profile[i].count, Since(profile[i].deadline, Previous(profile, i)))]]

FromWarmup(warmup) ==
  [i \in 1 .. warmup.duration |->
     [deadline |-> i * TicksPerSecond,
      rate |-> [requests |-> warmup.rate, ticks |-> TicksPerSecond]]]

-----------------------------------------------------------------------------
(* ArrivalSchedule::new, and the two ways through the loop of next: an     *)
(* arrival before the deadline, or on to the next step.  A gap may always  *)
(* be too long for the step; a step without a rate has no arrivals.        *)
NewSchedule(newSteps) ==
  /\ steps' = newSteps
  /\ current' = 1 /\ clock' = 0 /\ arrival' = NoArrival

Gaps == 0 .. MaxGap   \* of sample_exponential, rounded to ticks

DrawArrival ==
  /\ current \in DOMAIN steps /\ steps[current].rate.requests > 0
  /\ \E gap \in Gaps :
       /\ clock + gap < steps[current].deadline
       /\ clock' = clock + gap
       /\ arrival' = [offset |-> clock + gap, step |-> current]
  /\ UNCHANGED <<steps, current>>

NextStepEarly ==   \* mutant: the clock stays where it is
  /\ current \in DOMAIN steps
  /\ current' = current + 1
  /\ UNCHANGED <<steps, clock, arrival>>

NextStep ==
  /\ current \in DOMAIN steps
  /\ clock' = Later(clock, steps[current].deadline)
  /\ current' = current + 1
  /\ UNCHANGED <<steps, arrival>>

ScheduleDone == current \notin DOMAIN steps

ScheduleInit == steps = <<>> /\ current = 1 /\ clock = 0 /\ arrival = NoArrival

(* arrival_rng: the seed for the arrivals of a load generator in a phase.  *)
(* A number is the set of the bits that are set in it.                     *)
SeedBits == 0 .. 63
IdBits   == 0 .. 7
Phases   == {{}, {0}}   \* Phase::Warmup and Phase::Load

Xor(a, b) == (a \ b) \cup (b \ a)
Shifted(bits, n) == {b + n : b \in bits}

ArrivalSeed(seed, id, phase) == Xor(Xor(seed, Shifted(id, 32)), Shifted(phase, 48))

(* A load generator schedules its share of a warmup, and when that is done *)
(* its share of a profile the orchestrator has accepted.                   *)
Rows    == [parses : BOOLEAN, class : STRING, deadline : Nat, count : Nat]
Warmups == [rate : Nat, duration : Nat, pause : Nat]

ScheduleWarmup ==
  /\ ScheduleDone
  /\ \E warmup \in Warmups, generators \in Nat \ {0} : \E g \in 1 .. generators :
       NewSchedule(FromWarmup(DistributeWarmup(warmup, generators)[g]))

ScheduleProfile ==
  /\ ScheduleDone
  /\ \E rows \in Seq(Rows), generators \in Nat \ {0} : \E g \in 1 .. generators :
       /\ ProfileIsValid(rows)
       /\ NewSchedule(FromProfile(DistributeProfile(Profile(rows), generators)[g]))

ScheduleNext == ScheduleWarmup \/ ScheduleProfile \/ DrawArrival \/ NextStep
ScheduleSpec == ScheduleInit /\ [][ScheduleNext]_scheduleVars

-----------------------------------------------------------------------------
(* Type invariant of the schedule.                                         *)
Steps == [deadline : Nat, rate : [requests : Nat, ticks : Nat \ {0}]]

ScheduleTypeOK ==
  /\ steps \in Seq(Steps)
  /\ current \in 1 .. Len(steps) + 1
  /\ clock \in Nat
  /\ arrival \in [offset : Nat, step : Nat]

StepStart(i) == IF i = 1 THEN 0 ELSE steps[i - 1].deadline

(* Steps follow each other in time.                                        *)
StepsInOrder == \A i \in DOMAIN steps : StepStart(i) <= steps[i].deadline

(* An arrival lies in its step, and the clock never in a step to come: a   *)
(* step gets the load of its own time only (schedule.rs:105-123).          *)
ArrivalInItsStep ==
  /\ arrival # NoArrival =>
       /\ arrival.step \in DOMAIN steps /\ arrival.step <= current
       /\ StepStart(arrival.step) <= arrival.offset
       /\ arrival.offset < steps[arrival.step].deadline
       /\ arrival.offset <= clock
  /\ current \in DOMAIN steps => StepStart(current) <= clock

(* The schedule stays within its steps, from the first to the last: see    *)
(* StepsInOrder and ArrivalInItsStep (schedule.rs:89-123).                 *)
ScheduleInv == ScheduleTypeOK /\ StepsInOrder /\ ArrivalInItsStep

(* Within a phase arrivals never go back in time.                          *)
NeverBack ==
  [][current' >= current /\ steps' = steps => arrival'.offset >= arrival.offset]_scheduleVars

(* Within one run, no two streams of arrivals are drawn from the same      *)
(* seed: not those of two load generators, nor the warmup and the load of  *)
(* one (ready.rs:46-52).                                                   *)
SeedsDiffer(seed) ==
  \A id, otherId \in SUBSET IdBits, phase, otherPhase \in Phases :
    ArrivalSeed(seed, id, phase) = ArrivalSeed(seed, otherId, otherPhase)
      => id = otherId /\ phase = otherPhase
=============================================================================
