--------------------------- MODULE TimedDispatch ---------------------------
(***************************************************************************)
(* VirtualUserPool with a clock: the pacing thread that dispatches each    *)
(* transaction at its scheduled arrival (run_schedule and wait_until), the *)
(* start, send, service and response times a transaction takes on its way  *)
(* (measurement.rs, transaction/mod.rs), and the row that transactions.csv *)
(* gets of it.                                                             *)
(*                                                                         *)
(* Instants and durations are counted in ticks from the time zero of the   *)
(* phase, so an instant and its offset are one number.  Between any two    *)
(* steps of pacer and tasks any number of ticks may pass.  What decides    *)
(* between success, failure and timeout is in VirtualUser; here all three  *)
(* are an answer, since they are timed alike.                              *)
(***************************************************************************)
EXTENDS VirtualUserPool, Integers

CONSTANTS TicksPerMilli,  \* a millisecond
          Tolerance,      \* DROP_TOLERANCE, in milliseconds
          Offsets,        \* when arrivals may be scheduled
          Horizon,        \* bound on the clock
          None            \* a time that is not there

ASSUME TimeAssumption ==
  /\ TicksPerMilli \in Nat \ {0} /\ Tolerance \in Nat /\ Horizon \in Nat
  /\ Offsets \subseteq Nat /\ None \notin Int

VARIABLES
  now,       \* the clock
  offset,    \* the arrivals the schedule has drawn
  pacer,     \* where the pacing thread is in wait_until
  wake_at,   \* when its sleep is over at the earliest
  sent_at,   \* ServiceTimeMeasurement of each request
  service,   \* its service time, once it is answered
  row        \* the transaction's row in transactions.csv

pacerVars == <<offset, pacer, wake_at>>
timeVars  == <<sent_at, service, row>>
timedVars == <<poolVars, now, pacerVars, timeVars>>

SpinThreshold == TicksPerMilli
AsMillis(d)   == d \div TicksPerMilli

(* Instant::elapsed and saturating_duration_since stop at zero. *)
Since(instant) == IF now > instant THEN now - instant ELSE 0

-----------------------------------------------------------------------------
(* The arrival the pacer is at. *)
IsNext(t) == task[t] = "new" /\ \A u \in Tx : task[u] = "new" => offset[t] <= offset[u]

Pacing == UNCHANGED <<poolVars, now, offset, timeVars>>

(* wait_until: an arrival that is due already is dispatched at once, ... *)
WaitUntilHasty(t) ==   \* mutant: the last stretch is not waited for
  /\ pacer = "waiting" /\ IsNext(t)
  /\ LET remaining == offset[t] - now
     IN  IF remaining <= SpinThreshold
         THEN pacer' = "dispatching" /\ UNCHANGED wake_at
         ELSE pacer' = "sleeping" /\ wake_at' = now + remaining \div 2
  /\ Pacing

WaitUntil(t) ==
  /\ pacer = "waiting" /\ IsNext(t)
  /\ LET remaining == offset[t] - now
     IN  \/ remaining < 0 /\ pacer' = "dispatching" /\ UNCHANGED wake_at
         \/ remaining \in 0 .. SpinThreshold /\ pacer' = "spinning" /\ UNCHANGED wake_at
         \/ remaining > SpinThreshold /\ pacer' = "sleeping" /\ wake_at' = now + remaining \div 2
  /\ Pacing

(* ... a far one is slept towards, and a near one waited for busily. *)
WakeUp ==
  /\ pacer = "sleeping" /\ now >= wake_at
  /\ pacer' = "waiting" /\ UNCHANGED wake_at
  /\ Pacing

SpinEnds(t) ==
  /\ pacer = "spinning" /\ IsNext(t) /\ now >= offset[t]
  /\ pacer' = "dispatching" /\ UNCHANGED wake_at
  /\ Pacing

DispatchNext(t) ==
  /\ pacer = "dispatching" /\ IsNext(t)
  /\ Dispatch(t)
  /\ pacer' = "waiting"
  /\ UNCHANGED <<now, offset, wake_at, timeVars>>

-----------------------------------------------------------------------------
(* acquire_on_time, reading the clock where VirtualUserPool reads late. *)
DeadlineFromZero(t) == Tolerance * TicksPerMilli   \* mutant: not counted from the arrival
Deadline(t) == offset[t] + Tolerance * TicksPerMilli

DeadlinePassed(t) ==
  /\ now > Deadline(t) /\ DeadlinePasses(t)
  /\ UNCHANGED <<now, pacerVars, timeVars>>

TimedAcquire(t) ==
  /\ now > Deadline(t) => late[t]
  /\ AcquireOnTime(t)
  /\ UNCHANGED <<now, pacerVars, timeVars>>

(* StartTime::relative_to_start_of: instants before the start count as it. *)
RelativeToStartOf(t, instant) == IF instant > offset[t] THEN instant ELSE offset[t]

(* into_dropped, and into_success, into_failed or into_timeout. *)
IntoDropped(t, id, code) ==
  [start_time |-> offset[t], send_time |-> None, virtual_user_id |-> id,
   response_time |-> Since(offset[t]), service_time |-> None, code |-> code]

IntoAnswered(t) ==
  [start_time |-> offset[t], send_time |-> RelativeToStartOf(t, sent_at[t]),
   virtual_user_id |-> user[t], response_time |-> Since(offset[t]),
   service_time |-> service[t], code |-> "answered"]

FormatRow(r) ==
  [start_time |-> r.start_time, send_time |-> r.send_time, virtual_user_id |-> r.virtual_user_id,
   response_time_ms |-> AsMillis(r.response_time),
   service_time_ms |-> IF r.service_time = None THEN None ELSE AsMillis(r.service_time),
   reason |-> r.code]

Dropped(t, code, id) == row' = [row EXCEPT ![t] = FormatRow(IntoDropped(t, id, code))]

Answered(t) == row' = [row EXCEPT ![t] = FormatRow(IntoAnswered(t))]

TimedFailUnsent(t) ==
  /\ FailUnsent(t) /\ Dropped(t, "Error", user[t])
  /\ UNCHANGED <<now, pacerVars, sent_at, service>>

(* execute: the measurement starts before the request is sent, and ends    *)
(* before the response is looked into.                                     *)
TimedSend(t) ==
  /\ Send(t) /\ sent_at' = [sent_at EXCEPT ![t] = now]
  /\ UNCHANGED <<now, pacerVars, service, row>>

FinishFromStart(t) ==   \* mutant: the wait before the send is counted twice
  /\ task[t] = "sent" /\ service[t] = None
  /\ service' = [service EXCEPT ![t] = Since(offset[t])]
  /\ UNCHANGED <<poolVars, now, pacerVars, sent_at, row>>

Finish(t) ==
  /\ task[t] = "sent" /\ service[t] = None
  /\ service' = [service EXCEPT ![t] = Since(sent_at[t])]
  /\ UNCHANGED <<poolVars, now, pacerVars, sent_at, row>>

TimedAnswer(t) ==
  /\ service[t] # None /\ Answer(t) /\ Answered(t)
  /\ UNCHANGED <<now, pacerVars, sent_at, service>>

TimedRelease(t) ==
  /\ PushUser(t) \/ ReleasePermit(t)
  /\ UNCHANGED <<now, pacerVars, timeVars>>

(* The drops of acquire_on_time become results when it has returned. *)
TimedLogResult(t) ==
  /\ LogResult(t)
  /\ IF result[t] \in {"Late", "NoVirtualUser"} THEN Dropped(t, result[t], NoUser)
                                                ELSE UNCHANGED row
  /\ UNCHANGED <<now, pacerVars, sent_at, service>>

(* Time passes. *)
Tick ==
  /\ now < Horizon /\ now' = now + 1
  /\ UNCHANGED <<poolVars, pacerVars, timeVars>>

-----------------------------------------------------------------------------
TimedInit ==
  /\ Init
  /\ now = 0 /\ offset \in [Tx -> Offsets]
  /\ pacer = "waiting" /\ wake_at = 0
  /\ sent_at = [t \in Tx |-> None] /\ service = [t \in Tx |-> None] /\ row = [t \in Tx |-> None]

Paces(t) == WaitUntil(t) \/ SpinEnds(t) \/ DispatchNext(t)

TimedRun(t) ==
  \/ TimedAcquire(t) \/ TimedFailUnsent(t) \/ TimedSend(t) \/ Finish(t) \/ TimedAnswer(t)
  \/ TimedRelease(t) \/ TimedLogResult(t)

TimedNext == Tick \/ WakeUp \/ \E t \in Tx : Paces(t) \/ DeadlinePassed(t) \/ TimedRun(t)

TimedSpec == TimedInit /\ [][TimedNext]_timedVars

-----------------------------------------------------------------------------
Ended   == {t \in Tx : task[t] = "logged"}
WasSent == {t \in Tx : row[t] # None /\ row[t].send_time # None}

(* What a row says of a request that was sent adds up: it left at the      *)
(* instant send_time says, not before its scheduled arrival, and how late  *)
(* it left and how long it took are both part of the response time.        *)
(* wait_until must not return early, or the clamp of relative_to_start_of  *)
(* would hide it (wait_until.rs:23-37, measurement.rs:50-53).              *)
TimesAddUp ==
  \A t \in WasSent :
    /\ row[t].start_time <= row[t].send_time /\ row[t].send_time = sent_at[t]
    /\ AsMillis(row[t].send_time - row[t].start_time) + row[t].service_time_ms
         <= row[t].response_time_ms

(* A transaction is given up for lack of a user or of time only when its   *)
(* whole drop tolerance has passed, and its row shows it: such a drop      *)
(* always means that the load generator could not keep up                  *)
(* (dispatch.rs:17-23, 156-173).                                           *)
DropsWaited ==
  \A t \in Ended : row[t].reason \in {"Late", "NoVirtualUser"} =>
    row[t].send_time = None /\ row[t].response_time_ms >= Tolerance

(* A virtual user has one request in flight at a time: the rows it is      *)
(* named in cover times that do not overlap (user.rs:129-137,              *)
(* pool.rs:162-177).                                                       *)
UsersDoNotOverlap ==
  \A s, t \in WasSent : s # t /\ row[s].virtual_user_id = row[t].virtual_user_id =>
    \/ sent_at[s] + service[s] <= sent_at[t]
    \/ sent_at[t] + service[t] <= sent_at[s]

(* Type invariant. *)
Times == Nat \cup {None}

Rows ==
  [start_time : Nat, send_time : Times, virtual_user_id : Users \cup {NoUser},
   response_time_ms : Nat, service_time_ms : Times,
   reason : {"Late", "NoVirtualUser", "Error", "answered"}]

ASSUME RowAssumption == None \notin Rows

TimedTypeOK ==
  /\ now \in Nat /\ offset \in [Tx -> Offsets] /\ wake_at \in Nat
  /\ pacer \in {"waiting", "sleeping", "spinning", "dispatching"}
  /\ sent_at \in [Tx -> Times] /\ service \in [Tx -> Times]
  /\ row \in [Tx -> Rows \cup {None}]

(* The pacer dispatches only what is due. *)
PacerOnTime ==
  pacer = "dispatching" => \A t \in Tx : IsNext(t) => offset[t] <= now

(* A task has a result once it is done with its user or goes without.      *)
Done == {"pushing", "adding", "logging", "logged"}

ResultOK == \A t \in Tx : result[t] # "none" <=> task[t] \in Done

(* No task starts before its arrival or learns early of its deadline, and  *)
(* each step of a request is timed when it happens.                        *)
ClockOK ==
  \A t \in Tx :
    /\ task[t] # "new" => offset[t] <= now
    /\ task[t] = "giving_up" => late[t]
    /\ late[t] \/ result[t] \in {"Late", "NoVirtualUser"} => now > Deadline(t)
    /\ sent_at[t] # None <=> task[t] = "sent" \/ result[t] = "answered"
    /\ sent_at[t] # None => offset[t] <= sent_at[t] /\ sent_at[t] <= now
    /\ service[t] # None => sent_at[t] # None /\ sent_at[t] + service[t] <= now
    /\ result[t] = "answered" => service[t] # None

(* What the rows say. *)
RowOf(t, r) ==
  /\ r.start_time = offset[t] /\ r.reason = result[t]
  /\ IF result[t] = "answered"
     THEN /\ r.send_time = sent_at[t] /\ r.service_time_ms = AsMillis(service[t])
          /\ AsMillis(sent_at[t] + service[t] - offset[t]) <= r.response_time_ms
     ELSE r.send_time = None

RowsOK ==
  \A t \in Tx :
    /\ row[t] # None <=>
         result[t] \in {"Error", "answered"} \/ task[t] = "logged"
    /\ row[t] # None => RowOf(t, row[t])

(* Whoever is sending has its user from a request that was over. *)
UsersInOrder ==
  \A s \in Tx, t \in WasSent :
    s # t /\ task[s] = "sent" /\ user[s] = row[t].virtual_user_id =>
      sent_at[t] + service[t] <= sent_at[s]

(* The inductive invariant. *)
TimedInv ==
  /\ PoolInv /\ TimedTypeOK /\ PacerOnTime /\ ResultOK /\ ClockOK /\ RowsOK
  /\ UsersInOrder /\ UsersDoNotOverlap /\ DropsWaited
=============================================================================
