-------------------------- MODULE VirtualUserPool --------------------------
(***************************************************************************)
(* The virtual user pool (src/src/virtual_user/pool.rs) and the tasks that *)
(* use it: the task Dispatcher::dispatch spawns for each transaction, with *)
(* acquire_on_time (dispatch.rs) and send_next_request (user.rs).          *)
(*                                                                         *)
(* The pool keeps its users twice: the users themselves in a vector behind *)
(* a mutex, and their number as the permits of a semaphore.  A task first  *)
(* gets a permit, forgets it, and then takes a user; a release pushes the  *)
(* user and then adds a permit.  Between the two, vector and semaphore     *)
(* disagree.                                                               *)
(*                                                                         *)
(* The semaphore is tokio's and modelled from its use: it is fair, and a   *)
(* permit that is added while tasks wait is assigned to the first of them, *)
(* which learns of it when it is polled.  Time is abstracted to whether    *)
(* the drop tolerance of a transaction has passed.                         *)
(***************************************************************************)
EXTENDS Naturals, Sequences, FiniteSets, Functions

CONSTANTS Tx,     \* the transactions that may be dispatched
          Users,  \* the virtual users the pool is created with
          NoUser  \* held by a task without a virtual user

ASSUME PoolAssumption ==
  IsFiniteSet(Tx) /\ IsFiniteSet(Users) /\ NoUser \notin Users

VARIABLES
  task,    \* how far the task of each transaction is
  late,    \* has its drop tolerance passed?
  result,  \* how the transaction ended
  user,    \* the virtual user the task holds
  users,   \* the vector of Inner::data, as a set
  permits, \* free permits of Inner::available
  queue,   \* tasks waiting for a permit, in order
  granted  \* waiting tasks that have been assigned one

taskVars == <<late, result, user>>
semVars  == <<permits, queue, granted>>
poolVars == <<task, taskVars, users, semVars>>

-----------------------------------------------------------------------------
(* Semaphore::add_permits(1), starting from the given queue and grants. *)
AddPermit(waiting, grants) ==
  IF waiting = <<>>
  THEN permits' = permits + 1 /\ queue' = waiting /\ granted' = grants
  ELSE permits' = permits /\ queue' = Tail(waiting) /\ granted' = grants \cup {Head(waiting)}

Without(s, i) == [j \in 1 .. Len(s) - 1 |-> IF j < i THEN s[j] ELSE s[j + 1]]

Goto(t, stage) == task' = [task EXCEPT ![t] = stage]
EndsWith(t, r) == result' = [result EXCEPT ![t] = r]

-----------------------------------------------------------------------------
Dispatch(t) ==
  /\ task[t] = "new"
  /\ Goto(t, "spawned")
  /\ UNCHANGED <<taskVars, users, semVars>>

(* Time passes: Instant::now() > deadline from here on. *)
DeadlinePasses(t) ==
  /\ task[t] \notin {"new", "logging", "logged"} /\ ~late[t]
  /\ late' = [late EXCEPT ![t] = TRUE]
  /\ UNCHANGED <<task, result, user, users, semVars>>

(* acquire_on_time: drop what is late already, ... *)
CheckStart(t) ==
  /\ task[t] = "spawned"
  /\ IF late[t] THEN Goto(t, "logging") /\ EndsWith(t, "Late")
                ELSE Goto(t, "trying") /\ UNCHANGED result
  /\ UNCHANGED <<late, user, users, semVars>>

(* ... take a free user without waiting, ... *)
TryAcquire(t) ==
  /\ task[t] = "trying"
  /\ IF permits > 0 THEN permits' = permits - 1 /\ Goto(t, "taking")
                    ELSE UNCHANGED permits /\ Goto(t, "acquiring")
  /\ UNCHANGED <<taskVars, users, queue, granted>>

(* ... or wait for one, at most until the deadline. *)
Acquire(t) ==
  /\ task[t] = "acquiring"
  /\ IF permits > 0 THEN permits' = permits - 1 /\ Goto(t, "taking_late") /\ UNCHANGED queue
                    ELSE queue' = Append(queue, t) /\ Goto(t, "waiting") /\ UNCHANGED permits
  /\ UNCHANGED <<taskVars, users, granted>>

PollGranted(t) ==
  /\ task[t] = "waiting" /\ t \in granted
  /\ granted' = granted \ {t}
  /\ Goto(t, "taking_late")
  /\ UNCHANGED <<taskVars, users, permits, queue>>

(* timeout_at polls the acquire first, so it elapses only on a task that   *)
(* has no permit yet; one may still be assigned before the acquire future  *)
(* is dropped.                                                             *)
Elapse(t) ==
  /\ task[t] = "waiting" /\ t \notin granted /\ late[t]
  /\ Goto(t, "giving_up")
  /\ UNCHANGED <<taskVars, users, semVars>>

Dequeue(t) ==
  /\ \E i \in DOMAIN queue : queue[i] = t /\ queue' = Without(queue, i)
  /\ UNCHANGED <<permits, granted>>

GiveUpKept(t) ==   \* mutant: a permit assigned meanwhile is lost
  /\ task[t] = "giving_up"
  /\ \/ t \in granted /\ granted' = granted \ {t} /\ UNCHANGED <<permits, queue>>
     \/ Dequeue(t)
  /\ Goto(t, "logging") /\ EndsWith(t, "NoVirtualUser")
  /\ UNCHANGED <<late, user, users>>

GiveUp(t) ==
  /\ task[t] = "giving_up"
  /\ \/ t \in granted /\ AddPermit(queue, granted \ {t})
     \/ Dequeue(t)
  /\ Goto(t, "logging") /\ EndsWith(t, "NoVirtualUser")
  /\ UNCHANGED <<late, user, users>>

(* take_random_user: its caller has a permit. *)
TakeUser(t) ==
  /\ task[t] \in {"taking", "taking_late"}
  /\ \E u \in users : user' = [user EXCEPT ![t] = u] /\ users' = users \ {u}
  /\ Goto(t, IF task[t] = "taking" THEN "holding" ELSE "checking")
  /\ UNCHANGED <<late, result, semVars>>

(* A user that comes late is released again. *)
CheckInTime(t) ==
  /\ task[t] = "checking"
  /\ IF late[t] THEN Goto(t, "pushing") /\ EndsWith(t, "NoVirtualUser")
                ELSE Goto(t, "holding") /\ UNCHANGED result
  /\ UNCHANGED <<late, user, users, semVars>>

-----------------------------------------------------------------------------
(* send_next_request: the script or the URL fails before anything is sent, *)
(* or the request is sent and answered, failed or timed out.               *)
FailUnsent(t) ==
  /\ task[t] = "holding"
  /\ Goto(t, "pushing") /\ EndsWith(t, "Error")
  /\ UNCHANGED <<late, user, users, semVars>>

Send(t) ==
  /\ task[t] = "holding"
  /\ Goto(t, "sent")
  /\ UNCHANGED <<taskVars, users, semVars>>

Answer(t) ==
  /\ task[t] = "sent"
  /\ Goto(t, "pushing") /\ EndsWith(t, "answered")
  /\ UNCHANGED <<late, user, users, semVars>>

(* release: push the user under the mutex, then add a permit. *)
PushUser(t) ==
  /\ task[t] = "pushing"
  /\ users' = users \cup {user[t]} /\ user' = [user EXCEPT ![t] = NoUser]
  /\ Goto(t, "adding")
  /\ UNCHANGED <<late, result, semVars>>

ReleasePermit(t) ==
  /\ task[t] = "adding"
  /\ AddPermit(queue, granted)
  /\ Goto(t, "logging")
  /\ UNCHANGED <<taskVars, users>>

(* The task logs its result and ends; Tracker models how. *)
LogResult(t) ==
  /\ task[t] = "logging"
  /\ Goto(t, "logged")
  /\ UNCHANGED <<taskVars, users, semVars>>

-----------------------------------------------------------------------------
(* The users have been set up; setup failures end the process before. *)
Init ==
  /\ task = [t \in Tx |-> "new"]
  /\ late = [t \in Tx |-> FALSE]
  /\ result = [t \in Tx |-> "none"]
  /\ user = [t \in Tx |-> NoUser]
  /\ users = Users
  /\ permits = Cardinality(Users)
  /\ queue = <<>> /\ granted = {}

AcquireOnTime(t) ==
  \/ CheckStart(t) \/ TryAcquire(t) \/ Acquire(t) \/ PollGranted(t)
  \/ Elapse(t) \/ GiveUp(t) \/ TakeUser(t) \/ CheckInTime(t)

SendNextRequest(t) ==
  \/ FailUnsent(t) \/ Send(t) \/ Answer(t) \/ PushUser(t) \/ ReleasePermit(t)

Run(t) == AcquireOnTime(t) \/ SendNextRequest(t) \/ LogResult(t)

Next == \E t \in Tx : Dispatch(t) \/ DeadlinePasses(t) \/ Run(t)

PoolSpec == Init /\ [][Next]_poolVars

(* The runtime polls every task that can go on, and the HTTP client gives  *)
(* up after its timeout.  Nothing is assumed of the clock.                 *)
FairPoolSpec == PoolSpec /\ \A t \in Tx : WF_poolVars(Run(t))

-----------------------------------------------------------------------------
Holders == {t \in Tx : user[t] # NoUser}

(* Type invariant of the pool. *)
Taking  == {"taking", "taking_late"}
Holding == {"checking", "holding", "sent", "pushing"}
Waiting == {"waiting", "giving_up"}

PoolTypeOK ==
  /\ task \in [Tx -> {"new", "spawned", "trying", "acquiring", "adding", "logging", "logged"}
                      \cup Waiting \cup Taking \cup Holding]
  /\ late \in [Tx -> BOOLEAN]
  /\ result \in [Tx -> {"none", "Late", "NoVirtualUser", "Error", "answered"}]
  /\ user \in [Tx -> Users \cup {NoUser}]
  /\ users \in SUBSET Users
  /\ permits \in Nat
  /\ queue \in Seq(Tx) /\ granted \in SUBSET Tx

(* No virtual user is in two places: in the vector, or in the hands of one *)
(* task (pool.rs:162-166, 169-174).                                        *)
UsersPartitioned ==
  /\ \A t \in Tx : user[t] # NoUser <=> task[t] \in Holding
  /\ \A t \in Tx : user[t] \notin users
  /\ \A s, t \in Holders : user[s] = user[t] => s = t
  /\ Cardinality(users) + Cardinality(Holders) = Cardinality(Users)

(* Each permit is free, assigned to one task, or owed by the task that     *)
(* holds the user: none is lost when a wait is given up or a user comes    *)
(* late, and none is made up (pool.rs:146-159, 169-177, dispatch.rs:165).  *)
Claims == granted \cup {t \in Tx : task[t] \in Taking \cup Holding \cup {"adding"}}

PermitsConserved == permits + Cardinality(Claims) = Cardinality(Users)

(* The waiting tasks are those in the queue and those assigned a permit,   *)
(* and none waits while a permit is free.                                  *)
Queued == Range(queue)

NobodyForgotten ==
  /\ Queued \cup granted = {t \in Tx : task[t] \in Waiting}
  /\ Queued \cap granted = {}
  /\ IsInjective(queue)
  /\ queue # <<>> => permits = 0

PoolInv == PoolTypeOK /\ UsersPartitioned /\ PermitsConserved /\ NobodyForgotten

(* Whoever holds a permit finds a user in the vector: take_random_user     *)
(* never draws from an empty range, which would panic (pool.rs:164).       *)
TakeFindsUser == \A t \in Tx : task[t] \in Taking => users # {}

(* Once every task has ended the pool is whole again.                      *)
PoolWholeAtRest ==
  (\A t \in Tx : task[t] \in {"new", "logged"}) => users = Users /\ permits = Cardinality(Users)

(* A dispatched transaction's task always ends, with a drop or an answer.  *)
(* This is what LoadGenerator assumes of Complete.                         *)
EveryTaskEnds == \A t \in Tx : task[t] = "spawned" ~> task[t] = "logged"

(* What the documentation says and the code does not do.  Requests are     *)
(* never sent late: the deadline is not looked at again after try_acquire  *)
(* or while the script runs.                                               *)
NeverSentLate ==
  [][\A t \in Tx : task[t] # "sent" /\ task'[t] = "sent" => ~late[t]]_poolVars

(* A transaction dropped as Late had a free virtual user: the deadline is  *)
(* checked before the pool is asked.                                       *)
LateMeansUserFree ==
  [][\A t \in Tx : result[t] # "Late" /\ result'[t] = "Late" => users # {}]_poolVars
=============================================================================
