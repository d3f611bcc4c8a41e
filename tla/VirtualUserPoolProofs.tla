----------------------- MODULE VirtualUserPoolProofs -----------------------
(***************************************************************************)
(* Theorems about VirtualUserPool, for every number of transactions and    *)
(* virtual users.                                                          *)
(***************************************************************************)
EXTENDS VirtualUserPool, FiniteSetTheorems, SequenceTheorems, TLAPS

(* Cardinalities of sets of tasks, by one element. *)
LEMMA OneMore ==
  ASSUME NEW S \in SUBSET Tx, NEW t \in Tx
  PROVE  /\ IsFiniteSet(S) /\ Cardinality(S) \in Nat
         /\ t \notin S => Cardinality(S \cup {t}) = Cardinality(S) + 1
         /\ t \in S => Cardinality(S \ {t}) = Cardinality(S) - 1
  BY PoolAssumption, FS_Subset, FS_AddElement, FS_RemoveElement, FS_CardinalityType

(* The three things that happen to the queue of waiting tasks. *)
LEMMA QueueAppend ==
  ASSUME NEW s \in Seq(Tx), NEW t \in Tx
  PROVE  /\ Append(s, t) \in Seq(Tx)
         /\ Range(Append(s, t)) = Range(s) \cup {t}
         /\ IsInjective(s) /\ t \notin Range(s) => IsInjective(Append(s, t))
<1>1. /\ Append(s, t) \in Seq(Tx) /\ Len(Append(s, t)) = Len(s) + 1
      /\ \A i \in 1 .. Len(s) : Append(s, t)[i] = s[i]
      /\ Append(s, t)[Len(s) + 1] = t
      /\ DOMAIN Append(s, t) = 1 .. Len(s) + 1 /\ DOMAIN s = 1 .. Len(s) /\ Len(s) \in Nat
  BY AppendProperties, LenProperties
<1>2. 1 .. Len(s) + 1 = 1 .. Len(s) \cup {Len(s) + 1}
  BY <1>1
<1>3. Range(Append(s, t)) = Range(s) \cup {t}
  BY <1>1, <1>2 DEF Range
<1>4. IsInjective(s) /\ t \notin Range(s) => IsInjective(Append(s, t))
  BY <1>1, <1>2 DEF IsInjective, Range
<1>5. QED
  BY <1>1, <1>3, <1>4

LEMMA QueueTail ==
  ASSUME NEW s \in Seq(Tx), s # <<>>, IsInjective(s)
  PROVE  /\ Tail(s) \in Seq(Tx) /\ Head(s) \in Tx /\ Head(s) \in Range(s)
         /\ Range(Tail(s)) = Range(s) \ {Head(s)}
         /\ IsInjective(Tail(s))
<1>1. /\ Tail(s) \in Seq(Tx) /\ Len(Tail(s)) = Len(s) - 1 /\ Head(s) = s[1] /\ Head(s) \in Tx
      /\ \A i \in 1 .. Len(Tail(s)) : Tail(s)[i] = s[i + 1]
      /\ DOMAIN s = 1 .. Len(s) /\ DOMAIN Tail(s) = 1 .. Len(s) - 1
      /\ Len(s) \in Nat /\ Len(s) >= 1
  BY HeadTailProperties, LenProperties, EmptySeq
<1>2. IsInjective(Tail(s))
  BY <1>1 DEF IsInjective
<1>3. Head(s) \in Range(s)
  BY <1>1 DEF Range
<1>4. ASSUME NEW x \in Range(Tail(s))
      PROVE  x \in Range(s) \ {Head(s)}
  <2>1. PICK i \in 1 .. Len(s) - 1 : x = s[i + 1]
    BY <1>1, <1>4 DEF Range
  <2>2. i + 1 \in DOMAIN s /\ 1 \in DOMAIN s /\ i + 1 # 1
    BY <1>1
  <2>3. QED
    BY <1>1, <2>1, <2>2 DEF Range, IsInjective
<1>5. ASSUME NEW x \in Range(s) \ {Head(s)}
      PROVE  x \in Range(Tail(s))
  <2>1. PICK i \in DOMAIN s : x = s[i]
    BY <1>5 DEF Range
  <2>2. i # 1 /\ i - 1 \in DOMAIN Tail(s) /\ Tail(s)[i - 1] = s[i]
    BY <1>1, <1>5, <2>1
  <2>3. QED
    BY <2>1, <2>2 DEF Range
<1>6. QED
  BY <1>1, <1>2, <1>3, <1>4, <1>5

LEMMA QueueWithout ==
  ASSUME NEW s \in Seq(Tx), IsInjective(s), NEW i \in DOMAIN s
  PROVE  /\ Without(s, i) \in Seq(Tx)
         /\ Range(Without(s, i)) = Range(s) \ {s[i]}
         /\ IsInjective(Without(s, i))
<1> DEFINE w == Without(s, i)
<1>1. DOMAIN s = 1 .. Len(s) /\ Len(s) \in Nat /\ i \in 1 .. Len(s)
  BY LenProperties
<1>2. /\ w = [j \in 1 .. Len(s) - 1 |-> IF j < i THEN s[j] ELSE s[j + 1]]
      /\ DOMAIN w = 1 .. Len(s) - 1
      /\ \A j \in 1 .. Len(s) - 1 : w[j] = IF j < i THEN s[j] ELSE s[j + 1]
  BY DEF Without
<1> HIDE DEF w
<1>3. \A j \in 1 .. Len(s) - 1 : w[j] \in Tx
  <2>1. \A j \in 1 .. Len(s) : s[j] \in Tx
    BY ElementOfSeq
  <2>2. \A j \in 1 .. Len(s) - 1 : j \in 1 .. Len(s) /\ j + 1 \in 1 .. Len(s)
    BY <1>1
  <2>3. QED
    BY <1>2, <2>1, <2>2
<1>4. w \in Seq(Tx)
  <2>1. Len(s) - 1 \in Nat
    BY <1>1
  <2>2. QED
    BY <1>2, <1>3, <2>1, SeqDef
<1>5. IsInjective(w)
  <2> SUFFICES ASSUME NEW j \in DOMAIN w, NEW k \in DOMAIN w, w[j] = w[k]
               PROVE  j = k
    BY DEF IsInjective
  <2> DEFINE at(m) == IF m < i THEN m ELSE m + 1
  <2>1. at(j) \in DOMAIN s /\ at(k) \in DOMAIN s /\ s[at(j)] = s[at(k)]
    BY <1>1, <1>2
  <2>2. at(j) = at(k)
    BY <2>1 DEF IsInjective
  <2>3. j \in Nat /\ k \in Nat /\ i \in Nat
    BY <1>1, <1>2
  <2>4. QED
    BY <2>2, <2>3
<1>6. ASSUME NEW x \in Range(w)
      PROVE  x \in Range(s) \ {s[i]}
  <2>1. PICK j \in DOMAIN w : x = w[j]
    BY <1>6 DEF Range
  <2> DEFINE at == IF j < i THEN j ELSE j + 1
  <2>2. at \in DOMAIN s /\ x = s[at] /\ at # i
    BY <1>1, <1>2, <2>1
  <2>3. QED
    BY <2>2 DEF Range, IsInjective
<1>7. ASSUME NEW x \in Range(s) \ {s[i]}
      PROVE  x \in Range(w)
  <2>1. PICK k \in DOMAIN s : x = s[k]
    BY <1>7 DEF Range
  <2> DEFINE j == IF k < i THEN k ELSE k - 1
  <2>2. k # i
    BY <1>7, <2>1
  <2>3. j \in DOMAIN w /\ w[j] = s[k]
    BY <1>1, <1>2, <2>2
  <2>4. QED
    BY <2>1, <2>3 DEF Range
<1>8. QED
  BY <1>4, <1>5, <1>6, <1>7 DEF w

-----------------------------------------------------------------------------
(* The steps that touch neither the vector nor the semaphore keep each     *)
(* task in its class.                                                      *)
QuietStep ==
  \/ \E t \in Tx : \/ Dispatch(t) \/ DeadlinePasses(t) \/ CheckStart(t) \/ Elapse(t)
                   \/ CheckInTime(t) \/ FailUnsent(t) \/ Send(t) \/ Answer(t) \/ LogResult(t)
  \/ UNCHANGED poolVars

LEMMA PoolStepCases ==
  ASSUME [Next]_poolVars
  PROVE  \/ \E t \in Tx : \/ TryAcquire(t) \/ Acquire(t) \/ PollGranted(t) \/ GiveUp(t)
                          \/ TakeUser(t) \/ PushUser(t) \/ ReleasePermit(t)
         \/ QuietStep
  BY DEF Next, Run, AcquireOnTime, SendNextRequest, QuietStep

LEMMA QuietFrame ==
  ASSUME PoolTypeOK, QuietStep
  PROVE  /\ UNCHANGED <<user, users, permits, queue, granted>>
         /\ \A x \in Tx :
              /\ task'[x] \in Holding <=> task[x] \in Holding
              /\ task'[x] \in Taking <=> task[x] \in Taking
              /\ task'[x] \in Waiting <=> task[x] \in Waiting
              /\ task'[x] = "adding" <=> task[x] = "adding"
<1> USE DEF PoolTypeOK, Holding, Taking, Waiting, Goto, taskVars, semVars
<1>1. CASE \E t \in Tx : Dispatch(t) \/ DeadlinePasses(t) \/ Elapse(t) \/ Send(t) \/ LogResult(t)
  BY <1>1 DEF Dispatch, DeadlinePasses, Elapse, Send, LogResult
<1>2. CASE \E t \in Tx : CheckStart(t) \/ CheckInTime(t)
  BY <1>2 DEF CheckStart, CheckInTime
<1>3. CASE \E t \in Tx : FailUnsent(t) \/ Answer(t)
  BY <1>3 DEF FailUnsent, Answer
<1>4. CASE UNCHANGED poolVars
  BY <1>4 DEF poolVars
<1>5. QED
  BY <1>1, <1>2, <1>3, <1>4 DEF QuietStep

(* Type correctness. *)
LEMMA AddPermitTypes ==
  ASSUME PoolTypeOK, NobodyForgotten, NEW G \in SUBSET Tx, AddPermit(queue, G)
  PROVE  permits' \in Nat /\ queue' \in Seq(Tx) /\ granted' \in SUBSET Tx
<1>1. CASE queue = <<>>
  BY <1>1 DEF AddPermit, PoolTypeOK
<1>2. CASE queue # <<>>
  <2>1. permits' = permits /\ queue' = Tail(queue) /\ granted' = G \cup {Head(queue)}
    BY <1>2, Zenon DEF AddPermit
  <2>2. queue \in Seq(Tx) /\ permits \in Nat
    BY DEF PoolTypeOK
  <2>3. Head(queue) \in Tx /\ Tail(queue) \in Seq(Tx)
    BY <1>2, <2>2
  <2>4. QED
    BY <2>1, <2>2, <2>3
<1>3. QED
  BY <1>1, <1>2

LEMMA DequeueFacts ==
  ASSUME PoolTypeOK, NobodyForgotten, NEW t \in Tx, Dequeue(t)
  PROVE  /\ queue' \in Seq(Tx) /\ IsInjective(queue')
         /\ t \in Queued /\ Range(queue') = Queued \ {t} /\ queue # <<>>
         /\ permits' = permits /\ granted' = granted
<1>1. PICK i \in DOMAIN queue : queue[i] = t /\ queue' = Without(queue, i)
  BY DEF Dequeue
<1>2. queue \in Seq(Tx) /\ IsInjective(queue)
  BY DEF PoolTypeOK, NobodyForgotten
<1>3. /\ queue' \in Seq(Tx) /\ IsInjective(queue')
      /\ Range(queue') = Queued \ {t}
  BY <1>1, <1>2, QueueWithout DEF Queued
<1>4. t \in Queued
  BY <1>1 DEF Queued, Range
<1>5. queue # <<>>
  BY <1>4, EmptySeq DEF Queued, Range
<1>6. QED
  BY <1>3, <1>4, <1>5 DEF Dequeue

LEMMA PoolTypeStep ==
  ASSUME PoolTypeOK, UsersPartitioned, NobodyForgotten, [Next]_poolVars
  PROVE  PoolTypeOK'
<1> USE DEF PoolTypeOK, Goto, EndsWith, taskVars, semVars, Holding, Taking, Waiting
<1>1. ASSUME NEW t \in Tx, Dispatch(t) \/ DeadlinePasses(t) \/ Elapse(t) \/ Send(t) \/ LogResult(t)
      PROVE  PoolTypeOK'
  BY <1>1 DEF Dispatch, DeadlinePasses, Elapse, Send, LogResult
<1>2. ASSUME NEW t \in Tx, CheckStart(t) \/ CheckInTime(t) \/ FailUnsent(t) \/ Answer(t)
      PROVE  PoolTypeOK'
  BY <1>2 DEF CheckStart, CheckInTime, FailUnsent, Answer
<1>3. ASSUME NEW t \in Tx, TryAcquire(t)
      PROVE  PoolTypeOK'
  <2>1. permits' \in Nat
    BY <1>3 DEF TryAcquire
  <2>2. QED
    BY <1>3, <2>1 DEF TryAcquire
<1>4. ASSUME NEW t \in Tx, Acquire(t)
      PROVE  PoolTypeOK'
  <2>1. Append(queue, t) \in Seq(Tx)
    BY QueueAppend
  <2>2. permits' \in Nat /\ queue' \in {queue, Append(queue, t)}
    BY <1>4 DEF Acquire
  <2>3. task' \in [Tx -> {"new", "spawned", "trying", "acquiring", "adding", "logging", "logged"}
                         \cup Waiting \cup Taking \cup Holding]
    BY <1>4 DEF Acquire
  <2>4. QED
    BY <1>4, <2>1, <2>2, <2>3 DEF Acquire
<1>5. ASSUME NEW t \in Tx, PollGranted(t)
      PROVE  PoolTypeOK'
  BY <1>5 DEF PollGranted
<1>6. ASSUME NEW t \in Tx, GiveUp(t)
      PROVE  PoolTypeOK'
  <2>1. permits' \in Nat /\ queue' \in Seq(Tx) /\ granted' \in SUBSET Tx
    BY <1>6, AddPermitTypes, DequeueFacts DEF GiveUp
  <2>2. QED
    BY <1>6, <2>1 DEF GiveUp
<1>7. ASSUME NEW t \in Tx, TakeUser(t)
      PROVE  PoolTypeOK'
  BY <1>7 DEF TakeUser
<1>8. ASSUME NEW t \in Tx, PushUser(t)
      PROVE  PoolTypeOK'
  BY <1>8 DEF PushUser, UsersPartitioned
<1>9. ASSUME NEW t \in Tx, ReleasePermit(t)
      PROVE  PoolTypeOK'
  <2>1. permits' \in Nat /\ queue' \in Seq(Tx) /\ granted' \in SUBSET Tx
    BY <1>9, AddPermitTypes DEF ReleasePermit
  <2>2. QED
    BY <1>9, <2>1 DEF ReleasePermit
<1>10. CASE UNCHANGED poolVars
  BY <1>10 DEF poolVars
<1>11. QED
  BY <1>1, <1>2, <1>3, <1>4, <1>5, <1>6, <1>7, <1>8, <1>9, <1>10
     DEF Next, Run, AcquireOnTime, SendNextRequest

-----------------------------------------------------------------------------
(* A virtual user is in the vector or with one task. *)
LEMMA SemaphoreStepFrame ==
  ASSUME PoolTypeOK, NEW t \in Tx,
         TryAcquire(t) \/ Acquire(t) \/ PollGranted(t) \/ GiveUp(t) \/ ReleasePermit(t)
  PROVE  /\ UNCHANGED <<user, users>>
         /\ task[t] \notin Holding /\ task'[t] \notin Holding
         /\ \A x \in Tx \ {t} : task'[x] = task[x]
<1> USE DEF PoolTypeOK, Goto, taskVars, Holding
<1>1. CASE TryAcquire(t) \/ Acquire(t)
  BY <1>1 DEF TryAcquire, Acquire
<1>2. CASE PollGranted(t) \/ GiveUp(t) \/ ReleasePermit(t)
  BY <1>2 DEF PollGranted, GiveUp, ReleasePermit
<1>3. QED
  BY <1>1, <1>2

LEMMA TakeUserEffect ==
  ASSUME PoolTypeOK, UsersPartitioned, NEW t \in Tx, TakeUser(t)
  PROVE  /\ task[t] \in Taking /\ task'[t] \in Holding /\ task'[t] \notin Taking
         /\ \A x \in Tx \ {t} : task'[x] = task[x]
         /\ t \notin Holders /\ Holders' = Holders \cup {t}
         /\ \E u \in users : user'[t] = u /\ users' = users \ {u}
         /\ \A x \in Tx \ {t} : user'[x] = user[x]
<1> USE DEF PoolTypeOK, Goto, Holding, Taking, TakeUser
<1>1. /\ task[t] \in Taking /\ task'[t] \in Holding /\ task'[t] \notin Taking
      /\ \A x \in Tx \ {t} : task'[x] = task[x]
  OBVIOUS
<1>2. /\ \E u \in users : user'[t] = u /\ users' = users \ {u}
      /\ \A x \in Tx \ {t} : user'[x] = user[x]
  OBVIOUS
<1>3. user[t] = NoUser /\ user'[t] # NoUser
  BY <1>1, <1>2, PoolAssumption DEF UsersPartitioned
<1>4. QED
  BY <1>1, <1>2, <1>3 DEF Holders

LEMMA PushUserEffect ==
  ASSUME PoolTypeOK, UsersPartitioned, NEW t \in Tx, PushUser(t)
  PROVE  /\ task[t] = "pushing" /\ task'[t] = "adding"
         /\ \A x \in Tx \ {t} : task'[x] = task[x]
         /\ user[t] \in Users /\ user[t] \notin users /\ users' = users \cup {user[t]}
         /\ t \in Holders /\ Holders' = Holders \ {t}
         /\ user'[t] = NoUser /\ \A x \in Tx \ {t} : user'[x] = user[x]
<1> USE DEF PoolTypeOK, Goto, Holding, PushUser
<1>1. /\ task[t] = "pushing" /\ task'[t] = "adding"
      /\ \A x \in Tx \ {t} : task'[x] = task[x]
      /\ users' = users \cup {user[t]}
      /\ user'[t] = NoUser /\ \A x \in Tx \ {t} : user'[x] = user[x]
  OBVIOUS
<1>2. user[t] # NoUser /\ user[t] \notin users
  BY <1>1 DEF UsersPartitioned
<1>3. QED
  BY <1>1, <1>2 DEF Holders

LEMMA UsersStep ==
  ASSUME PoolTypeOK, UsersPartitioned, [Next]_poolVars
  PROVE  UsersPartitioned'
<1>f. Holders \in SUBSET Tx
  BY DEF Holders
<1>1. ASSUME NEW t \in Tx,
             TryAcquire(t) \/ Acquire(t) \/ PollGranted(t) \/ GiveUp(t) \/ ReleasePermit(t)
      PROVE  UsersPartitioned'
  <2>1. \A x \in Tx : task'[x] \in Holding <=> task[x] \in Holding
    BY <1>1, SemaphoreStepFrame
  <2>2. UNCHANGED <<user, users>> /\ Holders' = Holders
    BY <1>1, SemaphoreStepFrame DEF Holders
  <2>3. QED
    BY <2>1, <2>2 DEF UsersPartitioned
<1>2. CASE QuietStep
  <2>1. UNCHANGED <<user, users>> /\ Holders' = Holders
    BY <1>2, QuietFrame DEF Holders
  <2>2. QED
    BY <1>2, <2>1, QuietFrame DEF UsersPartitioned
<1>3. ASSUME NEW t \in Tx, TakeUser(t)
      PROVE  UsersPartitioned'
  <2>0. PICK u \in users : user'[t] = u /\ users' = users \ {u}
    BY <1>3, TakeUserEffect
  <2>1. \A x \in Tx : user'[x] # NoUser <=> task'[x] \in Holding
    BY <1>3, <2>0, TakeUserEffect, PoolAssumption DEF UsersPartitioned, PoolTypeOK
  <2>2. \A x \in Tx : user'[x] \notin users'
    BY <1>3, <2>0, TakeUserEffect DEF UsersPartitioned
  <2>3. \A x, y \in Holders' : user'[x] = user'[y] => x = y
    BY <1>3, <1>f, <2>0, TakeUserEffect DEF UsersPartitioned
  <2>4. IsFiniteSet(users) /\ Cardinality(users) \in Nat
    BY PoolAssumption, FS_Subset, FS_CardinalityType DEF PoolTypeOK
  <2>5. Cardinality(users') = Cardinality(users) - 1
    BY <2>0, <2>4, FS_RemoveElement
  <2>6. Cardinality(Holders') = Cardinality(Holders) + 1 /\ Cardinality(Holders) \in Nat
    BY <1>3, <1>f, TakeUserEffect, OneMore
  <2>7. Cardinality(users') + Cardinality(Holders') = Cardinality(Users)
    BY <2>4, <2>5, <2>6 DEF UsersPartitioned
  <2>8. QED
    BY <2>1, <2>2, <2>3, <2>7 DEF UsersPartitioned
<1>4. ASSUME NEW t \in Tx, PushUser(t)
      PROVE  UsersPartitioned'
  <2>1. \A x \in Tx : user'[x] # NoUser <=> task'[x] \in Holding
    BY <1>4, PushUserEffect DEF UsersPartitioned, Holding
  <2>2. \A x \in Tx : user'[x] \notin users'
    <3>1. NoUser \notin users'
      BY <1>4, PushUserEffect, PoolAssumption DEF PoolTypeOK
    <3>2. ASSUME NEW x \in Tx \ {t}
          PROVE  user[x] # user[t]
      BY <1>4, PushUserEffect DEF UsersPartitioned, Holders
    <3>3. QED
      BY <1>4, <3>1, <3>2, PushUserEffect DEF UsersPartitioned
  <2>3. \A x, y \in Holders' : user'[x] = user'[y] => x = y
    BY <1>4, <1>f, PushUserEffect DEF UsersPartitioned
  <2>4. IsFiniteSet(users) /\ Cardinality(users) \in Nat
    BY PoolAssumption, FS_Subset, FS_CardinalityType DEF PoolTypeOK
  <2>5. Cardinality(users') = Cardinality(users) + 1
    <3>1. user[t] \notin users /\ users' = users \cup {user[t]}
      BY <1>4, PushUserEffect
    <3>2. QED
      BY <2>4, <3>1, FS_AddElement
  <2>6. Cardinality(Holders') = Cardinality(Holders) - 1 /\ Cardinality(Holders) \in Nat
    BY <1>4, <1>f, PushUserEffect, OneMore
  <2>7. Cardinality(users') + Cardinality(Holders') = Cardinality(Users)
    BY <2>4, <2>5, <2>6 DEF UsersPartitioned
  <2>8. QED
    BY <2>1, <2>2, <2>3, <2>7 DEF UsersPartitioned
<1>5. QED
  BY PoolStepCases, <1>1, <1>2, <1>3, <1>4

-----------------------------------------------------------------------------
(* The permits.  A permit that is returned is free afterwards, or the      *)
(* claim of the first waiting task.                                        *)
Permitted == {t \in Tx : task[t] \in Taking \cup Holding \cup {"adding"}}

LEMMA ReturnedPermit ==
  ASSUME PoolTypeOK, NobodyForgotten, PermitsConserved,
         NEW t \in Claims, t \notin Queued, AddPermit(queue, granted \ {t}),
         Permitted' = Permitted \ {t}
  PROVE  PermitsConserved'
<1>1. Claims = granted \cup Permitted /\ Claims \in SUBSET Tx /\ t \in Tx
  BY DEF Claims, Permitted, PoolTypeOK
<1>2. /\ Cardinality(Claims) \in Nat /\ permits \in Nat
      /\ Cardinality(Claims \ {t}) = Cardinality(Claims) - 1
  BY <1>1, OneMore DEF PoolTypeOK
<1>3. CASE queue = <<>>
  <2>1. Claims' = Claims \ {t} /\ permits' = permits + 1
    BY <1>1, <1>3 DEF AddPermit, Claims, Permitted
  <2>2. QED
    BY <1>2, <2>1 DEF PermitsConserved
<1>4. CASE queue # <<>>
  <2>1. Head(queue) \in Tx /\ Head(queue) \in Queued
    BY <1>4, QueueTail DEF PoolTypeOK, NobodyForgotten, Queued
  <2>2. Head(queue) \notin Claims
    BY <1>1, <2>1 DEF NobodyForgotten, Claims, Waiting, Taking, Holding
  <2>3. Claims' = (Claims \ {t}) \cup {Head(queue)} /\ permits' = permits
    BY <1>1, <1>4 DEF AddPermit, Claims, Permitted
  <2>4. Cardinality((Claims \ {t}) \cup {Head(queue)}) = Cardinality(Claims \ {t}) + 1
    BY <1>1, <2>1, <2>2, OneMore
  <2>5. QED
    BY <1>2, <2>3, <2>4 DEF PermitsConserved
<1>5. QED
  BY <1>3, <1>4

LEMMA PermitsStep ==
  ASSUME PoolTypeOK, UsersPartitioned, PermitsConserved, NobodyForgotten, [Next]_poolVars
  PROVE  PermitsConserved'
<1> USE DEF PoolTypeOK
<1>f. Claims = granted \cup Permitted /\ Claims \in SUBSET Tx
  BY DEF Claims, Permitted
<1>n. Cardinality(Claims) \in Nat
  BY <1>f, PoolAssumption, FS_Subset, FS_CardinalityType
<1>1. ASSUME UNCHANGED permits, Claims' = Claims
      PROVE  PermitsConserved'
  BY <1>1 DEF PermitsConserved
<1>2. ASSUME NEW t \in Tx, permits > 0, permits' = permits - 1, granted' = granted,
             task[t] \in {"trying", "acquiring"}, task'[t] \in Taking,
             \A x \in Tx \ {t} : task'[x] = task[x]
      PROVE  PermitsConserved'
  <2>1. t \notin Claims
    BY <1>2 DEF Claims, NobodyForgotten, Waiting, Taking, Holding
  <2>2. Claims' = Claims \cup {t}
    BY <1>2 DEF Claims
  <2>3. Cardinality(Claims \cup {t}) = Cardinality(Claims) + 1
    BY <1>f, <2>1, OneMore
  <2>4. QED
    BY <1>2, <1>n, <2>2, <2>3 DEF PermitsConserved
<1>3. ASSUME NEW t \in Tx, TryAcquire(t)
      PROVE  PermitsConserved'
  <2>1. CASE permits > 0
    BY <1>2, <1>3, <2>1 DEF TryAcquire, Goto, Taking
  <2>2. CASE ~(permits > 0)
    <3>1. Claims' = Claims /\ permits' = permits
      BY <1>3, <2>2 DEF TryAcquire, Goto, Claims, Taking, Holding
    <3>2. QED
      BY <1>1, <3>1
  <2>3. QED
    BY <2>1, <2>2
<1>4. ASSUME NEW t \in Tx, Acquire(t)
      PROVE  PermitsConserved'
  <2>1. CASE permits > 0
    BY <1>2, <1>4, <2>1 DEF Acquire, Goto, Taking
  <2>2. CASE ~(permits > 0)
    <3>1. Claims' = Claims /\ permits' = permits
      BY <1>4, <2>2 DEF Acquire, Goto, Claims, Taking, Holding
    <3>2. QED
      BY <1>1, <3>1
  <2>3. QED
    BY <2>1, <2>2
<1>5. ASSUME NEW t \in Tx, PollGranted(t)
      PROVE  PermitsConserved'
  <2>1. Claims' = Claims /\ permits' = permits
    BY <1>5 DEF PollGranted, Goto, Claims, Taking, Holding
  <2>2. QED
    BY <1>1, <2>1
<1>6. ASSUME NEW t \in Tx, GiveUp(t)
      PROVE  PermitsConserved'
  <2>1. Permitted' = Permitted /\ t \notin Permitted
    BY <1>6 DEF GiveUp, Goto, Permitted, Taking, Holding
  <2>2. CASE t \in granted /\ AddPermit(queue, granted \ {t})
    <3>1. t \in Claims /\ t \notin Queued /\ Permitted' = Permitted \ {t}
      BY <2>1, <2>2 DEF Claims, NobodyForgotten
    <3>2. QED
      BY <2>2, <3>1, ReturnedPermit
  <2>3. CASE Dequeue(t)
    <3>1. Claims' = Claims /\ permits' = permits
      BY <1>f, <2>1, <2>3 DEF Dequeue, Claims, Permitted
    <3>2. QED
      BY <1>1, <3>1
  <2>4. QED
    BY <1>6, <2>2, <2>3 DEF GiveUp
<1>7. ASSUME NEW t \in Tx, ReleasePermit(t)
      PROVE  PermitsConserved'
  <2>1. task[t] = "adding" /\ AddPermit(queue, granted)
    BY <1>7 DEF ReleasePermit
  <2>2. t \notin Queued /\ t \notin granted /\ t \in Claims
    BY <2>1 DEF NobodyForgotten, Waiting, Claims
  <2>3. granted \ {t} = granted
    BY <2>2
  <2>4. Permitted' = Permitted \ {t}
    BY <1>7 DEF ReleasePermit, Goto, Permitted, Taking, Holding
  <2>5. QED
    BY <2>1, <2>2, <2>3, <2>4, ReturnedPermit
<1>8. ASSUME NEW t \in Tx, TakeUser(t)
      PROVE  PermitsConserved'
  <2>1. UNCHANGED <<permits, granted>>
    BY <1>8 DEF TakeUser, semVars
  <2>2. Claims' = Claims
    BY <1>8, <2>1, TakeUserEffect DEF Claims
  <2>3. QED
    BY <1>1, <2>1, <2>2
<1>9. ASSUME NEW t \in Tx, PushUser(t)
      PROVE  PermitsConserved'
  <2>1. UNCHANGED <<permits, granted>>
    BY <1>9 DEF PushUser, semVars
  <2>2. Claims' = Claims
    BY <1>9, <2>1, PushUserEffect DEF Claims, Holding
  <2>3. QED
    BY <1>1, <2>1, <2>2
<1>10. CASE QuietStep
  <2>1. Claims' = Claims
    BY <1>10, QuietFrame DEF Claims
  <2>2. QED
    BY <1>1, <1>10, <2>1, QuietFrame
<1>11. QED
  BY PoolStepCases, <1>3, <1>4, <1>5, <1>6, <1>7, <1>8, <1>9, <1>10

-----------------------------------------------------------------------------
(* The queue. *)
LEMMA AddPermitQueue ==
  ASSUME PoolTypeOK, NobodyForgotten, NEW G \in SUBSET granted, AddPermit(queue, G)
  PROVE  /\ Range(queue') \cup granted' = Queued \cup G
         /\ Range(queue') \cap granted' = {}
         /\ IsInjective(queue')
         /\ queue' # <<>> => permits' = 0
<1> USE DEF PoolTypeOK, NobodyForgotten, Queued
<1>1. CASE queue = <<>>
  BY <1>1 DEF AddPermit
<1>2. CASE queue # <<>>
  <2>1. /\ Head(queue) \in Range(queue) /\ Range(Tail(queue)) = Range(queue) \ {Head(queue)}
        /\ IsInjective(Tail(queue))
    BY <1>2, QueueTail
  <2>2. queue' = Tail(queue) /\ granted' = G \cup {Head(queue)} /\ permits' = permits
    BY <1>2 DEF AddPermit
  <2>3. QED
    BY <1>2, <2>1, <2>2
<1>3. QED
  BY <1>1, <1>2

LEMMA QueueStep ==
  ASSUME PoolTypeOK, NobodyForgotten, [Next]_poolVars
  PROVE  NobodyForgotten'
<1> USE DEF PoolTypeOK, Queued
<1>1. ASSUME NEW t \in Tx, TryAcquire(t)
      PROVE  NobodyForgotten'
  <2>1. \A x \in Tx : task'[x] \in Waiting <=> task[x] \in Waiting
    BY <1>1 DEF TryAcquire, Goto, Waiting
  <2>2. UNCHANGED <<queue, granted>> /\ (permits = 0 => permits' = 0)
    BY <1>1 DEF TryAcquire
  <2>3. QED
    BY <2>1, <2>2 DEF NobodyForgotten
<1>2. ASSUME NEW t \in Tx, Acquire(t)
      PROVE  NobodyForgotten'
  <2>1. CASE permits > 0
    <3>1. \A x \in Tx : task'[x] \in Waiting <=> task[x] \in Waiting
      BY <1>2, <2>1 DEF Acquire, Goto, Waiting
    <3>2. UNCHANGED <<queue, granted>> /\ queue = <<>>
      BY <1>2, <2>1 DEF Acquire, NobodyForgotten
    <3>3. QED
      BY <3>1, <3>2 DEF NobodyForgotten
  <2>2. CASE ~(permits > 0)
    <3>1. /\ queue' = Append(queue, t) /\ permits' = 0 /\ granted' = granted
      BY <1>2, <2>2 DEF Acquire
    <3>2. t \notin Queued /\ t \notin granted
      BY <1>2 DEF Acquire, NobodyForgotten, Waiting
    <3>3. Queued' = Queued \cup {t} /\ IsInjective(queue')
      BY <3>1, <3>2, QueueAppend DEF NobodyForgotten
    <3>4. \A x \in Tx : task'[x] \in Waiting <=> task[x] \in Waiting \/ x = t
      BY <1>2, <2>2 DEF Acquire, Goto, Waiting
    <3>5. QED
      BY <3>1, <3>2, <3>3, <3>4 DEF NobodyForgotten
  <2>3. QED
    BY <2>1, <2>2
<1>3. ASSUME NEW t \in Tx, PollGranted(t)
      PROVE  NobodyForgotten'
  <2>1. /\ UNCHANGED <<permits, queue>> /\ granted' = granted \ {t} /\ t \in granted
        /\ \A x \in Tx : task'[x] \in Waiting <=> task[x] \in Waiting /\ x # t
    BY <1>3 DEF PollGranted, Goto, Waiting
  <2>2. QED
    BY <2>1 DEF NobodyForgotten
<1>4. ASSUME NEW t \in Tx, GiveUp(t)
      PROVE  NobodyForgotten'
  <2>1. \A x \in Tx : task'[x] \in Waiting <=> task[x] \in Waiting /\ x # t
    BY <1>4 DEF GiveUp, Goto, Waiting
  <2>2. CASE t \in granted /\ AddPermit(queue, granted \ {t})
    <3>1. /\ Queued' \cup granted' = Queued \cup (granted \ {t})
          /\ Queued' \cap granted' = {} /\ IsInjective(queue')
          /\ queue' # <<>> => permits' = 0
      BY <2>2, AddPermitQueue
    <3>2. t \notin Queued
      BY <2>2 DEF NobodyForgotten
    <3>3. QED
      BY <2>1, <3>1, <3>2 DEF NobodyForgotten
  <2>3. CASE Dequeue(t)
    <3>1. /\ Queued' = Queued \ {t} /\ t \in Queued /\ granted' = granted
          /\ IsInjective(queue') /\ permits' = permits /\ queue # <<>>
      BY <2>3, DequeueFacts
    <3>2. QED
      BY <2>1, <3>1 DEF NobodyForgotten
  <2>4. QED
    BY <1>4, <2>2, <2>3 DEF GiveUp
<1>5. ASSUME NEW t \in Tx, ReleasePermit(t)
      PROVE  NobodyForgotten'
  <2>1. \A x \in Tx : task'[x] \in Waiting <=> task[x] \in Waiting
    BY <1>5 DEF ReleasePermit, Goto, Waiting
  <2>2. /\ Queued' \cup granted' = Queued \cup granted
        /\ Queued' \cap granted' = {} /\ IsInjective(queue')
        /\ queue' # <<>> => permits' = 0
    BY <1>5, AddPermitQueue DEF ReleasePermit
  <2>3. QED
    BY <2>1, <2>2 DEF NobodyForgotten
<1>6. ASSUME NEW t \in Tx, TakeUser(t) \/ PushUser(t)
      PROVE  NobodyForgotten'
  <2>1. UNCHANGED <<permits, queue, granted>>
    BY <1>6 DEF TakeUser, PushUser, semVars
  <2>2. \A x \in Tx : task'[x] \in Waiting <=> task[x] \in Waiting
    BY <1>6 DEF TakeUser, PushUser, Goto, Waiting, Taking
  <2>3. QED
    BY <2>1, <2>2 DEF NobodyForgotten
<1>7. CASE QuietStep
  BY <1>7, QuietFrame DEF NobodyForgotten
<1>8. QED
  BY PoolStepCases, <1>1, <1>2, <1>3, <1>4, <1>5, <1>6, <1>7

LEMMA InitPoolInv == Init => PoolInv
<1> SUFFICES ASSUME Init
             PROVE  PoolInv
  OBVIOUS
<1>0. Cardinality(Users) \in Nat /\ <<>> \in Seq(Tx)
  BY PoolAssumption, FS_CardinalityType
<1>1. PoolTypeOK
  BY <1>0 DEF Init, PoolTypeOK
<1>2. Holders = {} /\ Claims = {} /\ Queued = {}
  BY DEF Init, Holders, Claims, Queued, Range, Taking, Holding
<1>3. UsersPartitioned /\ PermitsConserved
  BY <1>0, <1>2, PoolAssumption, FS_EmptySet
     DEF Init, UsersPartitioned, PermitsConserved, Holding
<1>4. NobodyForgotten
  BY <1>2 DEF Init, NobodyForgotten, IsInjective, Waiting
<1>5. QED
  BY <1>1, <1>3, <1>4 DEF PoolInv

(* Vector and semaphore agree up to what is in flight between them, and no *)
(* permit, user or waiting task is lost.                                   *)
THEOREM PoolInvariance == PoolSpec => []PoolInv
<1>1. PoolInv /\ [Next]_poolVars => PoolInv'
  BY PoolTypeStep, UsersStep, PermitsStep, QueueStep DEF PoolInv
<1>2. QED
  BY InitPoolInv, <1>1, PTL DEF PoolSpec

(* take_random_user never draws from an empty vector.                      *)
THEOREM TakeIsSafe == PoolSpec => []TakeFindsUser
<1>1. ASSUME PoolInv, NEW t \in Tx, task[t] \in Taking, users = {}
      PROVE  FALSE
  <2> USE <1>1 DEF PoolInv
  <2>1. Holders \in SUBSET Tx /\ Claims \in SUBSET Tx
    BY DEF Holders, Claims, PoolTypeOK
  <2>2. Holders \cup {t} \subseteq Claims /\ t \notin Holders
    BY DEF UsersPartitioned, Holders, Claims, Taking, Holding
  <2>3. Cardinality(Holders) = Cardinality(Users) /\ Cardinality(Holders) \in Nat
    <3>1. Cardinality(Holders) \in Nat
      BY <2>1, PoolAssumption, FS_Subset, FS_CardinalityType
    <3>2. Cardinality(users) = 0
      BY FS_EmptySet
    <3>3. QED
      BY <3>1, <3>2 DEF UsersPartitioned
  <2>4. Cardinality(Holders \cup {t}) = Cardinality(Users) + 1
    BY <2>1, <2>2, <2>3, OneMore
  <2>5. IsFiniteSet(Claims) /\ Cardinality(Claims) \in Nat
    BY <2>1, OneMore
  <2>6. Cardinality(Holders \cup {t}) <= Cardinality(Claims)
    BY <2>2, <2>5, FS_Subset
  <2>7. QED
    BY <2>3, <2>4, <2>5, <2>6 DEF PermitsConserved, PoolTypeOK
<1>2. PoolInv => TakeFindsUser
  BY <1>1 DEF TakeFindsUser
<1>3. QED
  BY <1>2, PoolInvariance, PTL

(* Once every task has ended the pool is whole again.                      *)
THEOREM PoolIsWhole == PoolSpec => []PoolWholeAtRest
<1>1. ASSUME PoolInv, \A t \in Tx : task[t] \in {"new", "logged"}
      PROVE  users = Users /\ permits = Cardinality(Users)
  <2> USE <1>1 DEF PoolInv
  <2>1. Holders = {}
    BY DEF Holders, UsersPartitioned, Holding
  <2>2. Claims = {}
    BY DEF Claims, NobodyForgotten, PoolTypeOK, Waiting, Taking, Holding
  <2>3. permits = Cardinality(Users)
    BY <2>2, FS_EmptySet DEF PermitsConserved, PoolTypeOK
  <2>4. Cardinality(users) = Cardinality(Users)
    <3>1. IsFiniteSet(users)
      BY PoolAssumption, FS_Subset DEF PoolTypeOK
    <3>2. Cardinality(users) \in Nat
      BY <3>1, FS_CardinalityType
    <3>3. QED
      BY <2>1, <3>2, FS_EmptySet DEF UsersPartitioned
  <2>5. users = Users
    BY <2>4, PoolAssumption, FS_Subset DEF PoolTypeOK
  <2>6. QED
    BY <2>3, <2>5
<1>2. PoolInv => PoolWholeAtRest
  BY <1>1 DEF PoolWholeAtRest
<1>3. QED
  BY <1>2, PoolInvariance, PTL
=============================================================================
