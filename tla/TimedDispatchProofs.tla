------------------------ MODULE TimedDispatchProofs ------------------------
(***************************************************************************)
(* Proofs about TimedDispatch: it implements VirtualUserPool, so what is   *)
(* proved of the pool holds with the clock as well, and what the rows of   *)
(* transactions.csv say is proved for every schedule, tolerance and number *)
(* of virtual users.                                                       *)
(***************************************************************************)
EXTENDS TimedDispatch, VirtualUserPoolProofs

-----------------------------------------------------------------------------
(* Whole milliseconds. *)
LEMMA MilliBounds ==
  ASSUME NEW d \in Nat
  PROVE  /\ AsMillis(d) \in Nat /\ TicksPerMilli * AsMillis(d) <= d
         /\ d < TicksPerMilli * AsMillis(d) + TicksPerMilli
  BY TimeAssumption, SMT DEF AsMillis

LEMMA Quotients ==
  ASSUME NEW m \in Nat \ {0}, NEW p \in Nat, NEW r \in Nat, m * p < m * r + m
  PROVE  p <= r
<1>1. m * p < m * (r + 1)
  OBVIOUS
<1>2. QED
  BY <1>1

LEMMA MilliSum ==
  ASSUME NEW a \in Nat, NEW b \in Nat
  PROVE  AsMillis(a) + AsMillis(b) <= AsMillis(a + b)
<1> DEFINE m == TicksPerMilli
           p == AsMillis(a)
           q == AsMillis(b)
           r == AsMillis(a + b)
<1>1. m \in Nat \ {0} /\ p \in Nat /\ q \in Nat /\ m * p <= a /\ m * q <= b
  BY MilliBounds, TimeAssumption
<1>2. r \in Nat /\ a + b < m * r + m
  <2>1. a + b \in Nat
    OBVIOUS
  <2>2. QED
    BY <2>1, MilliBounds
<1> HIDE DEF m, p, q, r
<1>3. m * (p + q) = m * p + m * q /\ m * p \in Nat /\ m * q \in Nat /\ m * r \in Nat
  BY <1>1, <1>2
<1>4. m * (p + q) < m * r + m
  BY <1>1, <1>2, <1>3
<1>5. p + q <= r
  BY <1>1, <1>2, <1>4, Quotients
<1>6. QED
  BY <1>5 DEF p, q, r

LEMMA MilliMonotone ==
  ASSUME NEW a \in Nat, NEW b \in Nat, a <= b
  PROVE  AsMillis(a) <= AsMillis(b)
<1> DEFINE m == TicksPerMilli
           p == AsMillis(a)
           r == AsMillis(b)
<1>1. m \in Nat \ {0} /\ p \in Nat /\ r \in Nat /\ m * p <= a /\ b < m * r + m
  BY MilliBounds, TimeAssumption
<1> HIDE DEF m, p, r
<1>2. m * p < m * r + m
  BY <1>1
<1>3. p <= r
  BY <1>1, <1>2, Quotients
<1>4. QED
  BY <1>3 DEF p, r

LEMMA MilliLeast ==
  ASSUME NEW d \in Nat, d > Tolerance * TicksPerMilli
  PROVE  Tolerance <= AsMillis(d)
<1> DEFINE m == TicksPerMilli
           r == AsMillis(d)
<1>1. m \in Nat \ {0} /\ Tolerance \in Nat /\ r \in Nat /\ d < m * r + m
  BY MilliBounds, TimeAssumption
<1>2. d > Tolerance * m
  OBVIOUS
<1> HIDE DEF m, r
<1>3. m * Tolerance < m * r + m
  BY <1>1, <1>2
<1>4. Tolerance <= r
  BY <1>1, <1>3, Quotients
<1>5. QED
  BY <1>4 DEF r

-----------------------------------------------------------------------------
(* Every step of the clocked system is a step of the pool, or none. *)
QuietClock ==
  /\ UNCHANGED <<poolVars, offset, timeVars>>
  /\ now' \in {now, now + 1}

LEMMA TimedCases ==
  ASSUME [TimedNext]_timedVars
  PROVE  \/ QuietClock
         \/ \E t \in Tx : DispatchNext(t) \/ DeadlinePassed(t) \/ TimedRun(t)
  BY DEF TimedNext, timedVars, pacerVars, QuietClock, Paces, WaitUntil, SpinEnds, WakeUp, Tick, Pacing

LEMMA TimedStepPool == [TimedNext]_timedVars => [Next]_poolVars
<1> SUFFICES ASSUME [TimedNext]_timedVars
             PROVE  [Next]_poolVars
  OBVIOUS
<1>1. CASE QuietClock
  BY <1>1 DEF QuietClock
<1>2. ASSUME NEW t \in Tx, DispatchNext(t) \/ DeadlinePassed(t)
      PROVE  Next
  BY <1>2 DEF DispatchNext, DeadlinePassed, Next
<1>3. ASSUME NEW t \in Tx, TimedRun(t)
      PROVE  Run(t) \/ UNCHANGED poolVars
  BY <1>3 DEF TimedRun, TimedAcquire, TimedFailUnsent, TimedSend, Finish, TimedAnswer,
     TimedRelease, TimedLogResult, Run, SendNextRequest
<1>4. QED
  BY <1>1, <1>2, <1>3, TimedCases DEF Next

(* The clock takes nothing from the pool and adds nothing to it: each step *)
(* of TimedDispatch is one of VirtualUserPool or leaves it alone.          *)
THEOREM TimedDispatchIsPool == TimedSpec => PoolSpec
<1>1. TimedInit => Init
  BY DEF TimedInit
<1>2. QED
  BY <1>1, TimedStepPool, PTL DEF TimedSpec, PoolSpec

-----------------------------------------------------------------------------
(* What each step does to one task, and that it leaves the others alone. *)
Alone(t) ==
  \A x \in Tx \ {t} :
    /\ task'[x] = task[x] /\ result'[x] = result[x] /\ user'[x] = user[x] /\ late'[x] = late[x]
    /\ sent_at'[x] = sent_at[x] /\ service'[x] = service[x] /\ row'[x] = row[x]

Untimed(t) == sent_at'[t] = sent_at[t] /\ service'[t] = service[t] /\ row'[t] = row[t]

LEMMA AcquireEffect ==
  ASSUME TimedTypeOK, PoolTypeOK, ClockOK, NEW t \in Tx, TimedAcquire(t)
  PROVE  /\ UNCHANGED <<now, offset, timeVars, late>>
         /\ Alone(t)
         /\ task[t] \notin Done \cup {"new", "holding", "sent"} /\ task'[t] \notin {"new", "sent"}
         /\ task'[t] = "giving_up" => late'[t]
         /\ \/ result'[t] = result[t] /\ task'[t] \notin Done
            \/ /\ result'[t] \in {"Late", "NoVirtualUser"} /\ task'[t] \in {"logging", "pushing"}
               /\ late[t]
<1> USE DEF TimedAcquire, TimedTypeOK, PoolTypeOK, Alone, Done, Goto, EndsWith, Taking, Holding,
            Waiting, taskVars, semVars, timeVars, pacerVars
<1>1. CASE CheckStart(t)
  BY <1>1 DEF CheckStart
<1>2. CASE TryAcquire(t) \/ Acquire(t)
  BY <1>2 DEF TryAcquire, Acquire
<1>3. CASE PollGranted(t) \/ Elapse(t)
  BY <1>3 DEF PollGranted, Elapse
<1>4. CASE GiveUp(t)
  BY <1>4 DEF GiveUp, ClockOK
<1>5. CASE TakeUser(t)
  BY <1>5 DEF TakeUser
<1>6. CASE CheckInTime(t)
  BY <1>6 DEF CheckInTime
<1>7. QED
  BY <1>1, <1>2, <1>3, <1>4, <1>5, <1>6 DEF AcquireOnTime

LEMMA DispatchEffect ==
  ASSUME TimedTypeOK, PoolTypeOK, NEW t \in Tx, DispatchNext(t)
  PROVE  /\ UNCHANGED <<now, offset, timeVars, taskVars>>
         /\ Alone(t) /\ pacer = "dispatching" /\ IsNext(t)
         /\ task[t] = "new" /\ task'[t] = "spawned"
  BY DEF DispatchNext, Dispatch, TimedTypeOK, PoolTypeOK, Alone, Goto, taskVars, timeVars

LEMMA DeadlineEffect ==
  ASSUME TimedTypeOK, PoolTypeOK, NEW t \in Tx, DeadlinePassed(t)
  PROVE  /\ UNCHANGED <<now, offset, timeVars, task, result, user>>
         /\ Alone(t) /\ now > Deadline(t)
  BY DEF DeadlinePassed, DeadlinePasses, TimedTypeOK, PoolTypeOK, Alone, pacerVars, timeVars

LEMMA ReleaseEffect ==
  ASSUME TimedTypeOK, PoolTypeOK, NEW t \in Tx, TimedRelease(t)
  PROVE  /\ UNCHANGED <<now, offset, timeVars, late, result>>
         /\ Alone(t) /\ user'[t] \in {user[t], NoUser}
         /\ task[t] \in {"pushing", "adding"} /\ task'[t] \in {"adding", "logging"}
<1> USE DEF TimedRelease, TimedTypeOK, PoolTypeOK, Alone, Goto, taskVars, timeVars, pacerVars
<1>1. CASE PushUser(t)
  BY <1>1 DEF PushUser
<1>2. CASE ReleasePermit(t)
  BY <1>2 DEF ReleasePermit
<1>3. QED
  BY <1>1, <1>2

LEMMA FailUnsentEffect ==
  ASSUME TimedTypeOK, PoolTypeOK, NEW t \in Tx, TimedFailUnsent(t)
  PROVE  /\ UNCHANGED <<now, offset, sent_at, service, late, user>>
         /\ Alone(t) /\ Dropped(t, "Error", user[t])
         /\ task[t] = "holding" /\ task'[t] = "pushing" /\ result'[t] = "Error"
  BY DEF TimedFailUnsent, FailUnsent, Dropped, TimedTypeOK, PoolTypeOK, Alone, Goto, EndsWith,
         pacerVars

LEMMA SendEffect ==
  ASSUME TimedTypeOK, PoolTypeOK, NEW t \in Tx, TimedSend(t)
  PROVE  /\ UNCHANGED <<now, offset, service, row, taskVars>>
         /\ Alone(t) /\ sent_at'[t] = now
         /\ task[t] = "holding" /\ task'[t] = "sent"
  BY DEF TimedSend, Send, TimedTypeOK, PoolTypeOK, Alone, Goto, pacerVars, taskVars

LEMMA FinishEffect ==
  ASSUME TimedTypeOK, PoolTypeOK, NEW t \in Tx, Finish(t)
  PROVE  /\ UNCHANGED <<now, offset, sent_at, row, task, taskVars>>
         /\ Alone(t) /\ service'[t] = Since(sent_at[t])
         /\ task[t] = "sent" /\ service[t] = None
  BY DEF Finish, TimedTypeOK, PoolTypeOK, Alone, Goto, pacerVars, taskVars, poolVars

LEMMA AnswerEffect ==
  ASSUME TimedTypeOK, PoolTypeOK, NEW t \in Tx, TimedAnswer(t)
  PROVE  /\ UNCHANGED <<now, offset, sent_at, service, late, user>>
         /\ Alone(t) /\ Answered(t) /\ service[t] # None
         /\ task[t] = "sent" /\ task'[t] = "pushing" /\ result'[t] = "answered"
  BY DEF TimedAnswer, Answer, Answered, TimedTypeOK, PoolTypeOK, Alone, Goto, EndsWith, pacerVars

LEMMA LogEffect ==
  ASSUME TimedTypeOK, PoolTypeOK, NEW t \in Tx, TimedLogResult(t)
  PROVE  /\ UNCHANGED <<now, offset, sent_at, service, taskVars>>
         /\ Alone(t) /\ task[t] = "logging" /\ task'[t] = "logged"
         /\ IF result[t] \in {"Late", "NoVirtualUser"} THEN Dropped(t, result[t], NoUser)
                                                       ELSE row' = row
<1> USE DEF TimedLogResult, LogResult, TimedTypeOK, PoolTypeOK, Alone, Goto, pacerVars, taskVars
<1>1. CASE result[t] \in {"Late", "NoVirtualUser"}
  BY <1>1 DEF Dropped
<1>2. CASE result[t] \notin {"Late", "NoVirtualUser"}
  BY <1>2
<1>3. QED
  BY <1>1, <1>2

-----------------------------------------------------------------------------
(* The clocked state keeps its types. *)
LEMMA SinceType ==
  ASSUME now \in Nat, NEW i \in Nat
  PROVE  /\ Since(i) \in Nat /\ AsMillis(Since(i)) \in Nat
         /\ i <= now => Since(i) = now - i
<1>1. Since(i) \in Nat /\ (i <= now => Since(i) = now - i)
  BY DEF Since
<1>2. QED
  BY <1>1, MilliBounds

LEMMA DroppedType ==
  ASSUME TimedTypeOK, NEW t \in Tx, NEW code \in {"Late", "NoVirtualUser", "Error"},
         NEW id \in Users \cup {NoUser}, Dropped(t, code, id)
  PROVE  /\ row'[t] \in Rows /\ row' \in [Tx -> Rows \cup {None}] /\ row'[t] # None
         /\ row'[t].start_time = offset[t] /\ row'[t].send_time = None
         /\ row'[t].virtual_user_id = id /\ row'[t].reason = code
         /\ row'[t].response_time_ms = AsMillis(Since(offset[t]))
<1>1. offset[t] \in Nat /\ AsMillis(Since(offset[t])) \in Nat
  BY TimeAssumption, SinceType DEF TimedTypeOK
<1>2. /\ row'[t] = [start_time |-> offset[t], send_time |-> None, virtual_user_id |-> id,
                    response_time_ms |-> AsMillis(Since(offset[t])), service_time_ms |-> None,
                    reason |-> code]
      /\ \A x \in Tx \ {t} : row'[x] = row[x]
      /\ row' = [x \in Tx |-> row'[x]]
  BY DEF Dropped, IntoDropped, FormatRow, TimedTypeOK
<1>3. row'[t] \in Rows
  BY <1>1, <1>2 DEF Rows, Times
<1>4. QED
  BY <1>2, <1>3, RowAssumption DEF TimedTypeOK

LEMMA AnsweredType ==
  ASSUME TimedTypeOK, PoolTypeOK, ClockOK, NEW t \in Tx, Answered(t), task[t] = "sent",
         service[t] # None
  PROVE  /\ row'[t] \in Rows /\ row' \in [Tx -> Rows \cup {None}] /\ row'[t] # None
         /\ row'[t].start_time = offset[t] /\ row'[t].send_time = sent_at[t]
         /\ row'[t].virtual_user_id = user[t] /\ row'[t].reason = "answered"
         /\ row'[t].response_time_ms = AsMillis(Since(offset[t]))
         /\ row'[t].service_time_ms = AsMillis(service[t])
<1>1. offset[t] \in Nat /\ AsMillis(Since(offset[t])) \in Nat
  BY TimeAssumption, SinceType DEF TimedTypeOK
<1>2. sent_at[t] # None /\ offset[t] <= sent_at[t] /\ sent_at[t] \in Nat /\ service[t] \in Nat
  BY DEF ClockOK, TimedTypeOK, Times
<1>3. RelativeToStartOf(t, sent_at[t]) = sent_at[t] /\ AsMillis(service[t]) \in Nat
  BY <1>1, <1>2, MilliBounds DEF RelativeToStartOf
<1>4. /\ row'[t] = [start_time |-> offset[t], send_time |-> sent_at[t],
                    virtual_user_id |-> user[t],
                    response_time_ms |-> AsMillis(Since(offset[t])),
                    service_time_ms |-> AsMillis(service[t]), reason |-> "answered"]
      /\ \A x \in Tx \ {t} : row'[x] = row[x]
      /\ row' = [x \in Tx |-> row'[x]]
  BY <1>3 DEF Answered, IntoAnswered, FormatRow, TimedTypeOK
<1>5. row'[t] \in Rows
  BY <1>1, <1>2, <1>3, <1>4 DEF Rows, Times, PoolTypeOK
<1>6. QED
  BY <1>4, <1>5, RowAssumption DEF TimedTypeOK

PaceTypes ==
  /\ now \in Nat /\ offset \in [Tx -> Offsets] /\ wake_at \in Nat
  /\ pacer \in {"waiting", "sleeping", "spinning", "dispatching"}

MeasureTypes ==
  sent_at \in [Tx -> Times] /\ service \in [Tx -> Times] /\ row \in [Tx -> Rows \cup {None}]

LEMMA TimedTypeStep ==
  ASSUME TimedTypeOK, PoolTypeOK, ClockOK, [TimedNext]_timedVars
  PROVE  TimedTypeOK'
<1>1. PaceTypes'
  <2>1. CASE UNCHANGED <<now, pacerVars>>
    BY <2>1 DEF PaceTypes, TimedTypeOK, pacerVars
  <2>2. CASE Tick \/ WakeUp
    BY <2>2 DEF PaceTypes, Tick, WakeUp, Pacing, TimedTypeOK, pacerVars
  <2>3. ASSUME NEW t \in Tx, Paces(t)
        PROVE  PaceTypes'
    <3>1. offset[t] \in Nat
      BY TimeAssumption DEF PaceTypes, TimedTypeOK
    <3>2. offset[t] - now > SpinThreshold => now + (offset[t] - now) \div 2 \in Nat
      BY <3>1, TimeAssumption DEF PaceTypes, TimedTypeOK, SpinThreshold
    <3>3. CASE WaitUntil(t)
      BY <3>1, <3>2, <3>3 DEF PaceTypes, WaitUntil, Pacing, TimedTypeOK
    <3>4. CASE SpinEnds(t) \/ DispatchNext(t)
      BY <3>4 DEF PaceTypes, SpinEnds, DispatchNext, Pacing, TimedTypeOK
    <3>5. QED
      BY <2>3, <3>3, <3>4 DEF PaceTypes, Paces
  <2>4. ASSUME NEW t \in Tx, DeadlinePassed(t) \/ TimedRun(t)
        PROVE  UNCHANGED <<now, pacerVars>>
    BY <2>4 DEF PaceTypes, DeadlinePassed, TimedRun, TimedAcquire, TimedFailUnsent, TimedSend, Finish,
       TimedAnswer, TimedRelease, TimedLogResult
  <2>5. QED
    BY <2>1, <2>2, <2>3, <2>4 DEF PaceTypes, TimedNext, timedVars
<1>2. MeasureTypes'
  <2>1. CASE UNCHANGED timeVars
    BY <2>1 DEF MeasureTypes, TimedTypeOK, timeVars
  <2>2. ASSUME NEW t \in Tx, TimedSend(t)
        PROVE  MeasureTypes'
    BY <2>2 DEF MeasureTypes, TimedSend, TimedTypeOK, Times
  <2>3. ASSUME NEW t \in Tx, Finish(t)
        PROVE  MeasureTypes'
    <3>1. sent_at[t] \in Nat
      BY <2>3 DEF MeasureTypes, Finish, ClockOK, TimedTypeOK, Times
    <3>2. Since(sent_at[t]) \in Nat
      BY <3>1, SinceType DEF MeasureTypes, TimedTypeOK
    <3>3. QED
      BY <2>3, <3>2 DEF MeasureTypes, Finish, TimedTypeOK, Times
  <2>4. ASSUME NEW t \in Tx, TimedFailUnsent(t)
        PROVE  MeasureTypes'
    BY <2>4, FailUnsentEffect, DroppedType DEF MeasureTypes, TimedTypeOK, PoolTypeOK
  <2>5. ASSUME NEW t \in Tx, TimedAnswer(t)
        PROVE  MeasureTypes'
    BY <2>5, AnswerEffect, AnsweredType DEF MeasureTypes, TimedTypeOK
  <2>6. ASSUME NEW t \in Tx, TimedLogResult(t)
        PROVE  MeasureTypes'
    BY <2>6, LogEffect, DroppedType DEF MeasureTypes, TimedTypeOK
  <2>7. ASSUME NEW t \in Tx, DispatchNext(t) \/ DeadlinePassed(t) \/ TimedAcquire(t) \/ TimedRelease(t)
        PROVE  UNCHANGED timeVars
    BY <2>7 DEF MeasureTypes, DispatchNext, DeadlinePassed, TimedAcquire, TimedRelease
  <2>8. QED
    BY TimedCases, <2>1, <2>2, <2>3, <2>4, <2>5, <2>6, <2>7 DEF MeasureTypes, QuietClock, TimedRun
<1>3. QED
  BY <1>1, <1>2 DEF TimedTypeOK, PaceTypes, MeasureTypes

-----------------------------------------------------------------------------
(* The conjuncts of TimedInv that speak of one task at a time. *)
LEMMA PacerStep ==
  ASSUME TimedTypeOK, PoolTypeOK, PacerOnTime, [TimedNext]_timedVars
  PROVE  PacerOnTime'
<1>0. now \in Nat /\ \A t \in Tx : offset[t] \in Nat
  BY TimeAssumption DEF TimedTypeOK
<1>1. ASSUME NEW t \in Tx, WaitUntil(t)
      PROVE  PacerOnTime'
  <2>1. \A u \in Tx : IsNext(u)' => IsNext(u) /\ offset[u] = offset[t]
    BY <1>0, <1>1 DEF WaitUntil, Pacing, IsNext, poolVars
  <2>2. pacer' = "dispatching" => offset[t] <= now
    BY <1>0, <1>1 DEF WaitUntil
  <2>3. UNCHANGED <<now, offset>>
    BY <1>1 DEF WaitUntil, Pacing
  <2>4. QED
    BY <2>1, <2>2, <2>3 DEF PacerOnTime
<1>2. ASSUME NEW t \in Tx, SpinEnds(t)
      PROVE  PacerOnTime'
  <2>1. \A u \in Tx : IsNext(u)' => IsNext(u) /\ offset[u] = offset[t]
    BY <1>0, <1>2 DEF SpinEnds, Pacing, IsNext, poolVars
  <2>2. QED
    BY <1>0, <1>2, <2>1 DEF SpinEnds, Pacing, PacerOnTime
<1>3. CASE WakeUp \/ \E t \in Tx : DispatchNext(t)
  BY <1>3 DEF WakeUp, DispatchNext, PacerOnTime
<1>4. CASE Tick \/ UNCHANGED timedVars
  BY <1>0, <1>4 DEF Tick, timedVars, pacerVars, poolVars, PacerOnTime, IsNext
<1>5. ASSUME NEW t \in Tx, DeadlinePassed(t) \/ TimedRun(t)
      PROVE  PacerOnTime'
  <2>1. UNCHANGED <<now, pacerVars>>
    BY <1>5 DEF DeadlinePassed, TimedRun, TimedAcquire, TimedFailUnsent, TimedSend, Finish,
       TimedAnswer, TimedRelease, TimedLogResult
  <2>2. \A u \in Tx : task'[u] = "new" <=> task[u] = "new"
    <3>1. CASE DeadlinePassed(t) \/ Finish(t)
      BY <3>1 DEF DeadlinePassed, DeadlinePasses, Finish, poolVars
    <3>2. CASE TimedRun(t) /\ ~Finish(t)
      BY <3>2 DEF TimedRun, TimedAcquire, TimedFailUnsent, TimedSend, TimedAnswer, TimedRelease,
         TimedLogResult, AcquireOnTime, CheckStart, TryAcquire, Acquire, PollGranted, Elapse,
         GiveUp, TakeUser, CheckInTime, FailUnsent, Send, Answer, PushUser, ReleasePermit,
         LogResult, Goto, PoolTypeOK
    <3>3. QED
      BY <1>5, <3>1, <3>2
  <2>3. \A u \in Tx : IsNext(u)' => IsNext(u)
    BY <2>1, <2>2 DEF IsNext, pacerVars
  <2>4. QED
    BY <2>1, <2>3 DEF PacerOnTime, pacerVars
<1>6. QED
  BY <1>1, <1>2, <1>3, <1>4, <1>5 DEF TimedNext, Paces

LEMMA ResultStep ==
  ASSUME TimedTypeOK, PoolTypeOK, ClockOK, ResultOK, [TimedNext]_timedVars
  PROVE  ResultOK'
<1>1. CASE QuietClock
  BY <1>1 DEF QuietClock, poolVars, taskVars, ResultOK
<1>2. ASSUME NEW t \in Tx, DispatchNext(t)
      PROVE  ResultOK'
  BY <1>2, DispatchEffect DEF Alone, ResultOK, Done, taskVars
<1>3. ASSUME NEW t \in Tx, DeadlinePassed(t)
      PROVE  ResultOK'
  BY <1>3, DeadlineEffect DEF ResultOK
<1>4. ASSUME NEW t \in Tx, TimedAcquire(t)
      PROVE  ResultOK'
  BY <1>4, AcquireEffect DEF Alone, ResultOK, Done
<1>5. ASSUME NEW t \in Tx, TimedFailUnsent(t) \/ TimedAnswer(t)
      PROVE  ResultOK'
  BY <1>5, FailUnsentEffect, AnswerEffect DEF Alone, ResultOK, Done
<1>6. ASSUME NEW t \in Tx, TimedSend(t) \/ Finish(t)
      PROVE  ResultOK'
  BY <1>6, SendEffect, FinishEffect DEF Alone, ResultOK, Done, taskVars
<1>7. ASSUME NEW t \in Tx, TimedRelease(t) \/ TimedLogResult(t)
      PROVE  ResultOK'
  BY <1>7, ReleaseEffect, LogEffect DEF Alone, ResultOK, Done, taskVars
<1>8. QED
  BY TimedCases, <1>1, <1>2, <1>3, <1>4, <1>5, <1>6, <1>7 DEF TimedRun

(* What ClockOK says of one task. *)
Clocked(t) ==
  /\ task[t] # "new" => offset[t] <= now
  /\ task[t] = "giving_up" => late[t]
  /\ late[t] \/ result[t] \in {"Late", "NoVirtualUser"} => now > Deadline(t)
  /\ sent_at[t] # None <=> task[t] = "sent" \/ result[t] = "answered"
  /\ sent_at[t] # None => offset[t] <= sent_at[t] /\ sent_at[t] <= now
  /\ service[t] # None => sent_at[t] # None /\ sent_at[t] + service[t] <= now
  /\ result[t] = "answered" => service[t] # None

LEMMA ClockFrame ==
  ASSUME ClockOK, NEW t \in Tx, UNCHANGED <<now, offset>>, Alone(t), Clocked(t)'
  PROVE  ClockOK'
<1>1. \A x \in Tx \ {t} : Clocked(x)'
  BY DEF ClockOK, Clocked, Alone, Deadline
<1>2. QED
  BY <1>1 DEF ClockOK, Clocked

LEMMA ClockStep ==
  ASSUME TimedTypeOK, PoolTypeOK, PacerOnTime, ResultOK, ClockOK, [TimedNext]_timedVars
  PROVE  ClockOK'
<1>0. /\ now \in Nat /\ \A t \in Tx : offset[t] \in Nat /\ Deadline(t) \in Nat
      /\ \A t \in Tx : sent_at[t] \in Nat \cup {None} /\ service[t] \in Nat \cup {None}
  <2>1. now \in Nat /\ \A t \in Tx : offset[t] \in Nat
    BY TimeAssumption DEF TimedTypeOK
  <2>2. Tolerance * TicksPerMilli \in Nat
    BY TimeAssumption
  <2>3. \A t \in Tx : Deadline(t) \in Nat
    BY <2>1, <2>2 DEF Deadline
  <2>4. \A t \in Tx : sent_at[t] \in Nat \cup {None} /\ service[t] \in Nat \cup {None}
    BY DEF TimedTypeOK, Times
  <2>5. QED
    BY <2>1, <2>3, <2>4
<1>n. None \notin Nat
  BY TimeAssumption
<1>1. CASE QuietClock
  <2>1. \A t \in Tx : Clocked(t)'
    BY <1>0, <1>n, <1>1 DEF QuietClock, poolVars, taskVars, timeVars, ClockOK, Clocked, Deadline
  <2>2. QED
    BY <2>1 DEF ClockOK, Clocked
<1>2. ASSUME NEW t \in Tx, DispatchNext(t)
      PROVE  ClockOK'
  <2>1. Clocked(t)'
    BY <1>2, DispatchEffect DEF PacerOnTime, ClockOK, Clocked, Deadline, taskVars, timeVars
  <2>2. QED
    BY <1>2, <2>1, DispatchEffect, ClockFrame
<1>3. ASSUME NEW t \in Tx, DeadlinePassed(t)
      PROVE  ClockOK'
  <2>1. Clocked(t)'
    <3>1. late' = [late EXCEPT ![t] = TRUE] /\ task[t] # "new"
      BY <1>3 DEF DeadlinePassed, DeadlinePasses
    <3>2. QED
      BY <1>3, <3>1, DeadlineEffect DEF ClockOK, Clocked, Deadline, timeVars, PoolTypeOK
  <2>2. QED
    BY <1>3, <2>1, DeadlineEffect, ClockFrame
<1>4. ASSUME NEW t \in Tx, TimedAcquire(t)
      PROVE  ClockOK'
  <2>1. /\ result[t] = "none" /\ task[t] # "sent" /\ task'[t] # "sent" /\ result'[t] # "answered"
        /\ task[t] # "new"
    BY <1>4, AcquireEffect DEF ResultOK
  <2>2. Clocked(t)'
    BY <1>4, <2>1, AcquireEffect DEF ClockOK, Clocked, Deadline, timeVars
  <2>3. QED
    BY <1>4, <2>2, AcquireEffect, ClockFrame
<1>5. ASSUME NEW t \in Tx, TimedFailUnsent(t) \/ TimedRelease(t) \/ TimedLogResult(t)
      PROVE  ClockOK'
  <2>1. /\ UNCHANGED <<now, offset, sent_at, service, late>> /\ Alone(t)
        /\ task[t] \notin {"new", "sent"} /\ task'[t] \notin {"giving_up", "sent"}
        /\ result'[t] = result[t] \/ (result'[t] = "Error" /\ task[t] = "holding")
    BY <1>5, FailUnsentEffect, ReleaseEffect, LogEffect DEF timeVars, taskVars
  <2>2. result'[t] = result[t] \/ (result'[t] = "Error" /\ result[t] = "none")
    BY <2>1 DEF ResultOK, Done
  <2>3. Clocked(t)'
    BY <2>1, <2>2 DEF ClockOK, Clocked, Deadline
  <2>4. QED
    BY <2>1, <2>3, ClockFrame
<1>6. ASSUME NEW t \in Tx, TimedSend(t)
      PROVE  ClockOK'
  <2>1. result[t] = "none" /\ service[t] = None
    BY <1>6, SendEffect DEF ResultOK, ClockOK, Done
  <2>2. Clocked(t)'
    BY <1>0, <1>n, <1>6, <2>1, SendEffect DEF ClockOK, Clocked, Deadline, taskVars
  <2>3. QED
    BY <1>6, <2>2, SendEffect, ClockFrame
<1>7. ASSUME NEW t \in Tx, Finish(t)
      PROVE  ClockOK'
  <2>1. sent_at[t] \in Nat /\ sent_at[t] <= now
    BY <1>0, <1>7, FinishEffect DEF ClockOK
  <2>2. service'[t] \in Nat /\ sent_at[t] + service'[t] <= now
    BY <1>0, <1>7, <2>1, FinishEffect, SinceType
  <2>3. Clocked(t)'
    BY <1>n, <1>7, <2>1, <2>2, FinishEffect DEF ClockOK, Clocked, Deadline, taskVars
  <2>4. QED
    BY <1>7, <2>3, FinishEffect, ClockFrame
<1>8. ASSUME NEW t \in Tx, TimedAnswer(t)
      PROVE  ClockOK'
  <2>1. Clocked(t)'
    BY <1>8, AnswerEffect DEF ClockOK, Clocked, Deadline
  <2>2. QED
    BY <1>8, <2>1, AnswerEffect, ClockFrame
<1>9. QED
  BY TimedCases, <1>1, <1>2, <1>3, <1>4, <1>5, <1>6, <1>7, <1>8 DEF TimedRun

-----------------------------------------------------------------------------
(* What RowsOK says of one task. *)
Rowed(t) ==
  /\ row[t] # None <=> result[t] \in {"Error", "answered"} \/ task[t] = "logged"
  /\ row[t] # None => RowOf(t, row[t])

LEMMA RowFrame ==
  ASSUME RowsOK, NEW t \in Tx, UNCHANGED offset, Alone(t), Rowed(t)'
  PROVE  RowsOK'
<1>1. \A x \in Tx \ {t} : Rowed(x)'
  BY DEF RowsOK, Rowed, RowOf, Alone
<1>2. QED
  BY <1>1 DEF RowsOK, Rowed

LEMMA RowStep ==
  ASSUME TimedTypeOK, PoolTypeOK, ResultOK, ClockOK, RowsOK, [TimedNext]_timedVars
  PROVE  RowsOK'
<1>1. CASE QuietClock
  BY <1>1 DEF QuietClock, poolVars, taskVars, timeVars, RowsOK, RowOf
<1>2. ASSUME NEW t \in Tx, DispatchNext(t) \/ DeadlinePassed(t)
      PROVE  RowsOK'
  <2>1. /\ UNCHANGED <<offset, result, timeVars>> /\ Alone(t)
        /\ task'[t] = "logged" <=> task[t] = "logged"
    BY <1>2, DispatchEffect, DeadlineEffect DEF taskVars
  <2>2. Rowed(t)'
    BY <2>1 DEF RowsOK, Rowed, RowOf, timeVars
  <2>3. QED
    BY <2>1, <2>2, RowFrame
<1>3. ASSUME NEW t \in Tx, TimedAcquire(t)
      PROVE  RowsOK'
  <2>1. result[t] = "none" /\ task[t] # "logged" /\ row[t] = None
    BY <1>3, AcquireEffect DEF ResultOK, RowsOK, Done
  <2>2. Rowed(t)'
    BY <1>3, <2>1, AcquireEffect DEF Rowed, Done, timeVars
  <2>3. QED
    BY <1>3, <2>2, AcquireEffect, RowFrame
<1>4. ASSUME NEW t \in Tx, TimedFailUnsent(t)
      PROVE  RowsOK'
  <2>1. user[t] \in Users \cup {NoUser}
    BY DEF PoolTypeOK
  <2>2. row'[t] # None /\ row'[t].start_time = offset[t] /\ row'[t].send_time = None
        /\ row'[t].reason = "Error"
    BY <1>4, <2>1, FailUnsentEffect, DroppedType
  <2>3. Rowed(t)'
    BY <1>4, <2>2, FailUnsentEffect DEF Rowed, RowOf
  <2>4. QED
    BY <1>4, <2>3, FailUnsentEffect, RowFrame
<1>5. ASSUME NEW t \in Tx, TimedSend(t) \/ Finish(t)
      PROVE  RowsOK'
  <2>1. /\ UNCHANGED <<offset, result, row>> /\ Alone(t)
        /\ task[t] \in {"holding", "sent"} /\ task'[t] = "sent"
    BY <1>5, SendEffect, FinishEffect DEF taskVars
  <2>2. result[t] = "none" /\ row[t] = None
    BY <2>1 DEF ResultOK, RowsOK, Done
  <2>3. Rowed(t)'
    BY <2>1, <2>2 DEF Rowed
  <2>4. QED
    BY <2>1, <2>3, RowFrame
<1>6. ASSUME NEW t \in Tx, TimedAnswer(t)
      PROVE  RowsOK'
  <2>1. offset[t] \in Nat /\ now \in Nat /\ sent_at[t] \in Nat /\ service[t] \in Nat
    BY <1>6, TimeAssumption, AnswerEffect DEF ClockOK, TimedTypeOK, Times
  <2>2. offset[t] <= sent_at[t] /\ sent_at[t] + service[t] <= now
    BY <1>6, AnswerEffect DEF ClockOK
  <2>3. Since(offset[t]) = now - offset[t]
    BY <2>1, <2>2, SinceType
  <2>4. AsMillis(sent_at[t] + service[t] - offset[t]) <= AsMillis(now - offset[t])
    <3>1. /\ sent_at[t] + service[t] - offset[t] \in Nat /\ now - offset[t] \in Nat
          /\ sent_at[t] + service[t] - offset[t] <= now - offset[t]
      BY <2>1, <2>2
    <3>2. QED
      BY <3>1, MilliMonotone
  <2>5. /\ row'[t] # None /\ row'[t].start_time = offset[t] /\ row'[t].send_time = sent_at[t]
        /\ row'[t].service_time_ms = AsMillis(service[t]) /\ row'[t].reason = "answered"
        /\ row'[t].response_time_ms = AsMillis(Since(offset[t]))
    BY <1>6, AnswerEffect, AnsweredType
  <2>6. Rowed(t)'
    BY <1>6, <2>3, <2>4, <2>5, AnswerEffect DEF Rowed, RowOf, AsMillis
  <2>7. QED
    BY <1>6, <2>6, AnswerEffect, RowFrame
<1>7. ASSUME NEW t \in Tx, TimedRelease(t)
      PROVE  RowsOK'
  <2>1. Rowed(t)'
    BY <1>7, ReleaseEffect DEF RowsOK, Rowed, RowOf, timeVars
  <2>2. QED
    BY <1>7, <2>1, ReleaseEffect, RowFrame
<1>8. ASSUME NEW t \in Tx, TimedLogResult(t)
      PROVE  RowsOK'
  <2>1. result[t] # "none"
    BY <1>8, LogEffect DEF ResultOK, Done
  <2>2. CASE result[t] \in {"Late", "NoVirtualUser"}
    <3>1. /\ row'[t] # None /\ row'[t].start_time = offset[t] /\ row'[t].send_time = None
          /\ row'[t].reason = result[t]
      BY <1>8, <2>2, LogEffect, DroppedType
    <3>2. Rowed(t)'
      BY <1>8, <2>2, <3>1, LogEffect DEF Rowed, RowOf, taskVars
    <3>3. QED
      BY <1>8, <3>2, LogEffect, RowFrame
  <2>3. CASE result[t] \in {"Error", "answered"}
    <3>1. Rowed(t)'
      BY <1>8, <2>3, LogEffect DEF RowsOK, Rowed, RowOf, taskVars
    <3>2. QED
      BY <1>8, <3>1, LogEffect, RowFrame
  <2>4. QED
    BY <2>1, <2>2, <2>3 DEF PoolTypeOK
<1>9. QED
  BY TimedCases, <1>1, <1>2, <1>3, <1>4, <1>5, <1>6, <1>7, <1>8 DEF TimedRun

-----------------------------------------------------------------------------
(* A row shows a send time if and only if its request was answered. *)
LEMMA SentRows ==
  ASSUME TimedTypeOK, ClockOK, RowsOK, NEW t \in Tx
  PROVE  /\ t \in WasSent <=> result[t] = "answered"
         /\ t \in WasSent =>
              /\ row[t] # None /\ row[t].send_time = sent_at[t] /\ row[t].start_time = offset[t]
              /\ sent_at[t] \in Nat /\ service[t] \in Nat
              /\ offset[t] <= sent_at[t] /\ sent_at[t] + service[t] <= now
<1>1. CASE result[t] = "answered"
  <2>1. /\ row[t] # None /\ row[t].send_time = sent_at[t] /\ row[t].start_time = offset[t]
        /\ sent_at[t] # None /\ service[t] # None
    BY <1>1 DEF RowsOK, RowOf, ClockOK
  <2>2. QED
    BY <1>1, <2>1 DEF WasSent, TimedTypeOK, Times, ClockOK
<1>2. CASE result[t] # "answered"
  BY <1>2 DEF WasSent, RowsOK, RowOf
<1>3. QED
  BY <1>1, <1>2

(* Steps that neither send a request nor end one. *)
KeepsRequests ==
  /\ \A x \in WasSent' :
       x \in WasSent /\ row'[x] = row[x] /\ sent_at'[x] = sent_at[x] /\ service'[x] = service[x]
  /\ \A x \in Tx : task'[x] = "sent" =>
       task[x] = "sent" /\ user'[x] = user[x] /\ sent_at'[x] = sent_at[x]

LEMMA OrderFrame ==
  ASSUME UsersInOrder, UsersDoNotOverlap, KeepsRequests
  PROVE  UsersInOrder' /\ UsersDoNotOverlap'
  BY DEF UsersInOrder, UsersDoNotOverlap, KeepsRequests

LEMMA OrderStep ==
  ASSUME TimedTypeOK, PoolTypeOK, UsersPartitioned, ResultOK, ClockOK, RowsOK,
         UsersInOrder, UsersDoNotOverlap, [TimedNext]_timedVars
  PROVE  UsersInOrder' /\ UsersDoNotOverlap'
<1>1. CASE QuietClock
  <2>1. KeepsRequests
    BY <1>1 DEF QuietClock, poolVars, taskVars, timeVars, KeepsRequests, WasSent
  <2>2. QED
    BY <2>1, OrderFrame
<1>2. ASSUME NEW t \in Tx, DispatchNext(t) \/ DeadlinePassed(t) \/ TimedAcquire(t) \/ TimedRelease(t)
      PROVE  KeepsRequests
  <2>1. /\ UNCHANGED timeVars /\ Alone(t)
        /\ task'[t] = "sent" => task[t] = "sent" /\ user'[t] = user[t]
    BY <1>2, DispatchEffect, DeadlineEffect, AcquireEffect, ReleaseEffect DEF taskVars
  <2>2. QED
    BY <2>1 DEF KeepsRequests, WasSent, Alone, timeVars
<1>3. ASSUME NEW t \in Tx, TimedFailUnsent(t)
      PROVE  KeepsRequests
  <2>1. row'[t].send_time = None
    BY <1>3, FailUnsentEffect, DroppedType DEF PoolTypeOK
  <2>2. t \notin WasSent'
    BY <2>1 DEF WasSent
  <2>3. QED
    BY <1>3, <2>2, FailUnsentEffect DEF KeepsRequests, WasSent, Alone
<1>4. ASSUME NEW t \in Tx, Finish(t)
      PROVE  KeepsRequests
  <2>1. t \notin WasSent
    BY <1>4, SentRows, FinishEffect DEF ResultOK, Done
  <2>2. QED
    BY <1>4, <2>1, FinishEffect DEF KeepsRequests, WasSent, Alone, taskVars
<1>5. ASSUME NEW t \in Tx, TimedLogResult(t)
      PROVE  KeepsRequests
  <2>1. CASE result[t] \in {"Late", "NoVirtualUser"}
    <3>1. row'[t].send_time = None
      BY <1>5, <2>1, LogEffect, DroppedType
    <3>2. t \notin WasSent'
      BY <3>1 DEF WasSent
    <3>3. QED
      BY <1>5, <3>2, LogEffect DEF KeepsRequests, WasSent, Alone, taskVars
  <2>2. CASE result[t] \notin {"Late", "NoVirtualUser"}
    BY <1>5, <2>2, LogEffect DEF KeepsRequests, WasSent, Alone, taskVars
  <2>3. QED
    BY <2>1, <2>2
<1>6. ASSUME NEW t \in Tx, TimedSend(t)
      PROVE  UsersInOrder' /\ UsersDoNotOverlap'
  <2>1. t \notin WasSent /\ t \notin WasSent'
    BY <1>6, SentRows, SendEffect DEF ResultOK, Done, WasSent
  <2>2. \A x \in WasSent' :
          /\ x \in WasSent /\ row'[x] = row[x] /\ sent_at'[x] = sent_at[x]
          /\ service'[x] = service[x]
    BY <1>6, <2>1, SendEffect DEF WasSent, Alone
  <2>3. \A x \in WasSent : sent_at[x] + service[x] <= now
    BY SentRows DEF WasSent
  <2>4. UsersDoNotOverlap'
    BY <2>2 DEF UsersDoNotOverlap
  <2>5. ASSUME NEW s \in Tx, NEW x \in WasSent', s # x, task'[s] = "sent",
               user'[s] = row'[x].virtual_user_id
        PROVE  sent_at'[x] + service'[x] <= sent_at'[s]
    <3>1. CASE s = t
      BY <1>6, <2>2, <2>3, <2>5, <3>1, SendEffect
    <3>2. CASE s # t
      <4>1. task[s] = "sent" /\ user'[s] = user[s] /\ sent_at'[s] = sent_at[s]
        BY <1>6, <2>5, <3>2, SendEffect DEF Alone
      <4>2. QED
        BY <2>2, <2>5, <4>1 DEF UsersInOrder
    <3>3. QED
      BY <3>1, <3>2
  <2>6. UsersInOrder'
    BY <2>5 DEF UsersInOrder
  <2>7. QED
    BY <2>4, <2>6
<1>7. ASSUME NEW t \in Tx, TimedAnswer(t)
      PROVE  UsersInOrder' /\ UsersDoNotOverlap'
  <2>1. /\ task[t] = "sent" /\ task'[t] # "sent" /\ UNCHANGED <<sent_at, service, user>>
        /\ row'[t].virtual_user_id = user[t]
    BY <1>7, AnswerEffect, AnsweredType
  <2>2. \A x \in WasSent' : x # t => x \in WasSent /\ row'[x] = row[x]
    BY <1>7, AnswerEffect DEF WasSent, Alone
  <2>3. \A s \in Tx : task'[s] = "sent" => s # t /\ task[s] = "sent" /\ user[s] # user[t]
    <3>1. t \in Holders /\ \A s \in Tx : task[s] = "sent" => s \in Holders
      BY <2>1 DEF UsersPartitioned, Holders, Holding
    <3>2. \A s \in Tx : task'[s] = "sent" => s # t /\ task[s] = "sent"
      BY <1>7, <2>1, AnswerEffect DEF Alone
    <3>3. QED
      BY <3>1, <3>2 DEF UsersPartitioned
  <2>4. UsersInOrder'
    BY <2>1, <2>2, <2>3 DEF UsersInOrder
  <2>5. ASSUME NEW x \in WasSent, x # t, row[x].virtual_user_id = user[t]
        PROVE  sent_at[x] + service[x] <= sent_at[t]
    BY <2>1, <2>5 DEF UsersInOrder
  <2>6. ASSUME NEW s \in WasSent', NEW x \in WasSent', s # x,
               row'[s].virtual_user_id = row'[x].virtual_user_id
        PROVE  \/ sent_at'[s] + service'[s] <= sent_at'[x]
               \/ sent_at'[x] + service'[x] <= sent_at'[s]
    <3>1. CASE s = t
      BY <2>1, <2>2, <2>5, <2>6, <3>1
    <3>2. CASE x = t
      BY <2>1, <2>2, <2>5, <2>6, <3>2
    <3>3. CASE s # t /\ x # t
      BY <2>1, <2>2, <2>6, <3>3 DEF UsersDoNotOverlap
    <3>4. QED
      BY <3>1, <3>2, <3>3
  <2>7. UsersDoNotOverlap'
    BY <2>6 DEF UsersDoNotOverlap
  <2>8. QED
    BY <2>4, <2>7
<1>8. QED
  BY TimedCases, OrderFrame, <1>1, <1>2, <1>3, <1>4, <1>5, <1>6, <1>7 DEF TimedRun

-----------------------------------------------------------------------------
(* A drop is logged with its whole tolerance in its response time. *)
LEMMA DropStep ==
  ASSUME TimedTypeOK, PoolTypeOK, ResultOK, ClockOK, RowsOK, DropsWaited, [TimedNext]_timedVars
  PROVE  DropsWaited'
<1>1. CASE QuietClock
  BY <1>1 DEF QuietClock, poolVars, taskVars, timeVars, DropsWaited, Ended
<1>2. ASSUME NEW t \in Tx, DispatchNext(t) \/ DeadlinePassed(t) \/ TimedAcquire(t) \/ TimedFailUnsent(t)
             \/ TimedSend(t) \/ Finish(t) \/ TimedAnswer(t) \/ TimedRelease(t)
      PROVE  DropsWaited'
  <2>1. Alone(t) /\ (task'[t] # "logged" \/ (row'[t] = row[t] /\ task'[t] = task[t]))
    BY <1>2, DispatchEffect, DeadlineEffect, AcquireEffect, FailUnsentEffect, SendEffect,
       FinishEffect, AnswerEffect, ReleaseEffect DEF Done, timeVars
  <2>2. \A x \in Ended' : x \in Ended /\ row'[x] = row[x]
    BY <2>1 DEF Ended, Alone
  <2>3. QED
    BY <2>2 DEF DropsWaited
<1>3. ASSUME NEW t \in Tx, TimedLogResult(t)
      PROVE  DropsWaited'
  <2>1. \A x \in Ended' : x # t => x \in Ended /\ row'[x] = row[x]
    BY <1>3, LogEffect DEF Ended, Alone
  <2>2. CASE result[t] \in {"Late", "NoVirtualUser"}
    <3>1. row'[t].send_time = None /\ row'[t].response_time_ms = AsMillis(Since(offset[t]))
      BY <1>3, <2>2, LogEffect, DroppedType
    <3>2. now > Deadline(t) /\ now \in Nat /\ offset[t] \in Nat /\ offset[t] <= now
      BY <1>3, <2>2, TimeAssumption, LogEffect DEF ClockOK, TimedTypeOK
    <3>3. Tolerance * TicksPerMilli \in Nat
      BY TimeAssumption
    <3>4. Since(offset[t]) = now - offset[t]
      BY <3>2, SinceType
    <3>5. now - offset[t] \in Nat /\ now - offset[t] > Tolerance * TicksPerMilli
      BY <3>2, <3>3 DEF Deadline
    <3>6. AsMillis(Since(offset[t])) >= Tolerance
      <4>1. Tolerance <= AsMillis(now - offset[t]) /\ AsMillis(now - offset[t]) \in Nat
        BY <3>5, MilliLeast, MilliBounds
      <4>2. QED
        BY <3>4, <4>1, TimeAssumption
    <3>7. QED
      BY <2>1, <3>1, <3>6 DEF DropsWaited
  <2>3. CASE result[t] \notin {"Late", "NoVirtualUser"}
    <3>1. row'[t] = row[t] /\ result[t] \in {"Error", "answered"}
      BY <1>3, <2>3, LogEffect DEF ResultOK, Done, PoolTypeOK
    <3>2. row[t].reason = result[t]
      BY <3>1 DEF RowsOK, RowOf
    <3>3. QED
      BY <2>1, <2>3, <3>1, <3>2 DEF DropsWaited
  <2>4. QED
    BY <2>2, <2>3
<1>4. QED
  BY TimedCases, <1>1, <1>2, <1>3 DEF TimedRun

LEMMA InitTimedInv == TimedInit => TimedInv
<1> SUFFICES ASSUME TimedInit
             PROVE  TimedInv
  OBVIOUS
<1>1. PoolInv
  BY InitPoolInv DEF TimedInit
<1>2. TimedTypeOK
  BY DEF TimedInit, TimedTypeOK, Times
<1>3. PacerOnTime /\ ResultOK /\ ClockOK
  BY DEF TimedInit, Init, PacerOnTime, ResultOK, ClockOK, Done
<1>4. WasSent = {} /\ RowsOK /\ Ended = {}
  BY DEF TimedInit, Init, WasSent, RowsOK, Ended
<1>5. UsersInOrder /\ UsersDoNotOverlap /\ DropsWaited
  BY <1>4 DEF UsersInOrder, UsersDoNotOverlap, DropsWaited
<1>6. QED
  BY <1>1, <1>2, <1>3, <1>4, <1>5 DEF TimedInv

(* The clock, the tasks and the rows agree in every reachable state.       *)
THEOREM TimedInvariance == TimedSpec => []TimedInv
<1>1. TimedInv /\ [TimedNext]_timedVars => TimedInv'
  <2> SUFFICES ASSUME TimedInv, [TimedNext]_timedVars
               PROVE  TimedInv'
    OBVIOUS
  <2> USE DEF TimedInv
  <2>1. [Next]_poolVars
    BY TimedStepPool
  <2>2. PoolInv'
    BY <2>1, PoolTypeStep, UsersStep, PermitsStep, QueueStep DEF PoolInv
  <2> USE DEF PoolInv
  <2>3. TimedTypeOK' /\ PacerOnTime' /\ ResultOK'
    BY TimedTypeStep, PacerStep, ResultStep
  <2>4. ClockOK' /\ RowsOK' /\ DropsWaited'
    BY ClockStep, RowStep, DropStep
  <2>5. UsersInOrder' /\ UsersDoNotOverlap'
    BY OrderStep
  <2>6. QED
    BY <2>2, <2>3, <2>4, <2>5
<1>2. QED
  BY InitTimedInv, <1>1, PTL DEF TimedSpec

(* What transactions.csv says of a request that was sent adds up, for      *)
(* every schedule, resolution of the clock and length of the service.      *)
THEOREM TimesAdd == TimedSpec => []TimesAddUp
<1>1. ASSUME TimedInv, NEW t \in WasSent
      PROVE  /\ row[t].start_time <= row[t].send_time /\ row[t].send_time = sent_at[t]
             /\ AsMillis(row[t].send_time - row[t].start_time) + row[t].service_time_ms
                  <= row[t].response_time_ms
  <2> USE <1>1 DEF TimedInv
  <2>1. /\ t \in Tx /\ result[t] = "answered" /\ row[t] # None
        /\ row[t].send_time = sent_at[t] /\ row[t].start_time = offset[t]
        /\ sent_at[t] \in Nat /\ service[t] \in Nat /\ offset[t] <= sent_at[t]
    BY SentRows DEF WasSent
  <2>2. /\ row[t].service_time_ms = AsMillis(service[t])
        /\ AsMillis(sent_at[t] + service[t] - offset[t]) <= row[t].response_time_ms
    BY <2>1 DEF RowsOK, RowOf
  <2>3. offset[t] \in Nat /\ row[t].response_time_ms \in Nat
    BY <2>1, TimeAssumption DEF TimedTypeOK, Rows
  <2> DEFINE wait == sent_at[t] - offset[t]
  <2>4. wait \in Nat /\ wait + service[t] = sent_at[t] + service[t] - offset[t]
    BY <2>1, <2>3
  <2>5. AsMillis(wait) + AsMillis(service[t]) <= AsMillis(wait + service[t])
    BY <2>1, <2>4, MilliSum
  <2>6. /\ AsMillis(wait) \in Nat /\ AsMillis(service[t]) \in Nat
        /\ AsMillis(wait + service[t]) \in Nat
    BY <2>1, <2>4, MilliBounds
  <2>7. AsMillis(wait + service[t]) <= row[t].response_time_ms
    BY <2>2, <2>4
  <2>8. AsMillis(wait) + AsMillis(service[t]) <= row[t].response_time_ms
    BY <2>3, <2>5, <2>6, <2>7
  <2>9. QED
    BY <2>1, <2>2, <2>8
<1>2. TimedInv => TimesAddUp
  BY <1>1 DEF TimesAddUp
<1>3. QED
  BY <1>2, TimedInvariance, PTL

(* A drop for lack of time or of a user means that the load generator was  *)
(* behind by the whole tolerance.                                          *)
THEOREM DropsHaveWaited == TimedSpec => []DropsWaited
<1>1. TimedInv => DropsWaited
  BY DEF TimedInv
<1>2. QED
  BY <1>1, TimedInvariance, PTL

(* No virtual user has two requests in flight at once.                     *)
THEOREM UsersNeverOverlap == TimedSpec => []UsersDoNotOverlap
<1>1. TimedInv => UsersDoNotOverlap
  BY DEF TimedInv
<1>2. QED
  BY <1>1, TimedInvariance, PTL
=============================================================================
