------------------------ MODULE LoadGeneratorProofs ------------------------
(***************************************************************************)
(* Theorems about Tracker, for every set of transactions, outcomes and     *)
(* service times and whatever its clients do, and about LoadGenerator, for *)
(* every number of transactions and every length of warmup, pause and load *)
(* profile.  What is proved of every use of the tracker is carried over to *)
(* the load generator by refinement.                                       *)
(***************************************************************************)
EXTENDS LoadGenerator, FiniteSetTheorems, SequenceTheorems, WellFoundedInduction, TLAPS

(* Adding a new element to a finite set adds one to its cardinality: what  *)
(* each fetch_add(1) of log_result has to match.                           *)
LEMMA CardinalityPlusOne ==
  ASSUME NEW S \in SUBSET Tx, NEW t \in Tx, t \notin S
  PROVE  /\ Cardinality(S) \in Nat
         /\ Cardinality(S \cup {t}) = Cardinality(S) + 1
<1>1. IsFiniteSet(S)
  BY TxAssumption, FS_Subset
<1>2. QED
  BY <1>1, FS_AddElement, FS_CardinalityType

-----------------------------------------------------------------------------
(* Sums of the values a function has on a finite set, as MapThenSumSet     *)
(* computes them: by a recursive function that takes one element after the *)
(* other.  What holds of them is proved by induction on the set, in the    *)
(* form in which the provers can take it: among the sets that violate it   *)
(* there would be a smallest one.                                          *)
Pick(s) == CHOOSE x \in s : TRUE
Solves(g, v, S) ==
  g = [s \in SUBSET S |-> IF s = {} THEN 0 ELSE v[Pick(s)] + g[s \ {Pick(s)}]]

LEMMA SumIsFold ==
  ASSUME NEW v, NEW S
  PROVE  SumOf(v, S) = (CHOOSE g : Solves(g, v, S))[S]
  BY DEF SumOf, MapThenSumSet, MapThenFoldSet, Pick, Solves

(* Every nonempty set of subsets has a smallest one.                       *)
LEMMA Smallest ==
  ASSUME NEW S, IsFiniteSet(S), NEW Bad, Bad \subseteq SUBSET S, Bad # {}
  PROVE  \E T \in Bad : \A U \in Bad : ~(U \subseteq T /\ U # T)
<1>1. IsWellFoundedOn(StrictSubsetOrdering(S), FiniteSubsetsOf(S))
  BY FS_StrictSubsetOrderingWellFounded
<1>2. Bad \subseteq FiniteSubsetsOf(S)
  BY FS_Subset DEF FiniteSubsetsOf
<1>3. \E T \in Bad : \A U \in Bad : ~(<<U, T>> \in StrictSubsetOrdering(S))
  BY <1>1, <1>2, WFMin, Zenon
<1>4. PICK T \in Bad : \A U \in Bad : ~(<<U, T>> \in StrictSubsetOrdering(S))
  BY <1>3
<1> QED
  BY <1>4 DEF StrictSubsetOrdering

LEMMA PickIsMember == ASSUME NEW s, s # {} PROVE Pick(s) \in s
  BY DEF Pick

LEMMA SolvesAt ==
  ASSUME NEW v, NEW S, NEW g, Solves(g, v, S), NEW T \in SUBSET S
  PROVE  g[T] = IF T = {} THEN 0 ELSE v[Pick(T)] + g[T \ {Pick(T)}]
  BY DEF Solves

(* The recursive function exists, and is the same on whatever set.         *)
LEMMA SolutionsAgree ==
  ASSUME NEW v, NEW S, IsFiniteSet(S), NEW g, Solves(g, v, S),
         NEW R, S \subseteq R, NEW h, Solves(h, v, R)
  PROVE  \A T \in SUBSET S : g[T] = h[T]
<1> DEFINE Bad == {T \in SUBSET S : g[T] # h[T]}
<1>1. SUFFICES ASSUME Bad # {} PROVE FALSE
  OBVIOUS
<1>2. PICK T \in Bad : \A U \in Bad : ~(U \subseteq T /\ U # T)
  <2>1. Bad \subseteq SUBSET S
    OBVIOUS
  <2> HIDE DEF Bad
  <2> QED BY <1>1, <2>1, Smallest
<1>3. /\ g[T] = IF T = {} THEN 0 ELSE v[Pick(T)] + g[T \ {Pick(T)}]
      /\ h[T] = IF T = {} THEN 0 ELSE v[Pick(T)] + h[T \ {Pick(T)}]
  BY SolvesAt
<1>4. CASE T = {}
  BY <1>3, <1>4
<1>5. CASE T # {}
  <2>1. Pick(T) \in T
    BY <1>5, PickIsMember
  <2>2. T \ {Pick(T)} \notin Bad
    BY <1>2, <2>1
  <2>3. g[T \ {Pick(T)}] = h[T \ {Pick(T)}]
    BY <2>2
  <2> QED BY <1>3, <1>5, <2>3
<1> QED BY <1>4, <1>5

LEMMA SolutionExists ==
  ASSUME NEW v, NEW S, IsFiniteSet(S)
  PROVE  \E g : Solves(g, v, S)
<1> DEFINE Bad == {T \in SUBSET S : ~\E g : Solves(g, v, T)}
<1>1. SUFFICES ASSUME Bad # {} PROVE FALSE
  OBVIOUS
<1>2. PICK T \in Bad : \A U \in Bad : ~(U \subseteq T /\ U # T)
  <2>1. Bad \subseteq SUBSET S
    OBVIOUS
  <2> HIDE DEF Bad
  <2> QED BY <1>1, <2>1, Smallest
<1> DEFINE G(U) == CHOOSE g : Solves(g, v, U)
           Less(s) == s \ {Pick(s)}
           f == [s \in SUBSET T |-> IF s = {} THEN 0 ELSE v[Pick(s)] + G(Less(s))[Less(s)]]
<1>3. \A U \in SUBSET T : U # T => Solves(G(U), v, U) /\ IsFiniteSet(U)
  BY <1>2, FS_Subset
<1>4. ASSUME NEW s \in SUBSET T, s # {}
      PROVE  f[Less(s)] = G(Less(s))[Less(s)]
  <2> DEFINE W == Less(s)
             X == Less(W)
  <2>1. Pick(s) \in s /\ W \in SUBSET T /\ W # T
    BY <1>4, PickIsMember
  <2>2. Solves(G(W), v, W)
    BY <1>3, <2>1
  <2>3. G(W)[W] = IF W = {} THEN 0 ELSE v[Pick(W)] + G(W)[X]
    <3>1. \A g : Solves(g, v, W) => g[W] = IF W = {} THEN 0 ELSE v[Pick(W)] + g[X]
      <4>1. W \in SUBSET W /\ X = W \ {Pick(W)}
        OBVIOUS
      <4> HIDE DEF W, X
      <4> QED BY <4>1, SolvesAt
    <3> HIDE DEF W, X, G
    <3> QED BY <2>2, <3>1
  <2>4. f[W] = IF W = {} THEN 0 ELSE v[Pick(W)] + G(X)[X]
    BY <2>1
  <2>5. ASSUME W # {} PROVE G(X)[X] = G(W)[X]
    <3>1. X \in SUBSET T /\ X # T /\ X \subseteq W
      BY <2>1
    <3>2. Solves(G(X), v, X) /\ IsFiniteSet(X)
      BY <1>3, <3>1
    <3> HIDE DEF G, W, X
    <3> QED BY <2>2, <3>1, <3>2, SolutionsAgree
  <2> QED BY <2>3, <2>4, <2>5
<1>5. f = [s \in SUBSET T |-> IF s = {} THEN 0 ELSE v[Pick(s)] + f[s \ {Pick(s)}]]
  <2>1. ASSUME NEW s \in SUBSET T
        PROVE  f[s] = IF s = {} THEN 0 ELSE v[Pick(s)] + f[s \ {Pick(s)}]
    <3>1. f[s] = IF s = {} THEN 0 ELSE v[Pick(s)] + G(Less(s))[Less(s)]
      OBVIOUS
    <3>2. s # {} => f[Less(s)] = G(Less(s))[Less(s)]
      BY <1>4
    <3> HIDE DEF f, G
    <3> QED BY <3>1, <3>2
  <2>2. f = [s \in SUBSET T |-> f[s]]
    OBVIOUS
  <2> HIDE DEF f
  <2> QED BY <2>1, <2>2
<1>6. Solves(f, v, T)
  BY <1>5 DEF Solves
<1> QED BY <1>6

LEMMA SumIsSolution ==
  ASSUME NEW v, NEW S, IsFiniteSet(S)
  PROVE  \E g : Solves(g, v, S) /\ SumOf(v, S) = g[S]
  BY SumIsFold, SolutionExists

(* The sum of no values, of a set by one element, and of equal values; and *)
(* the element may be any, not just the one that is picked.                *)
LEMMA SumOfNone == ASSUME NEW v PROVE SumOf(v, {}) = 0
<1>1. PICK g : Solves(g, v, {}) /\ SumOf(v, {}) = g[{}]
  BY SumIsSolution, FS_EmptySet
<1> QED BY <1>1, SolvesAt

LEMMA SumPicks ==
  ASSUME NEW v, NEW S, IsFiniteSet(S), S # {}
  PROVE  SumOf(v, S) = v[Pick(S)] + SumOf(v, S \ {Pick(S)})
<1> DEFINE T == S \ {Pick(S)}
<1>1. PICK g : Solves(g, v, S) /\ SumOf(v, S) = g[S]
  BY SumIsSolution
<1>2. IsFiniteSet(T) /\ T \subseteq S
  BY FS_Subset
<1>3. PICK h : Solves(h, v, T) /\ SumOf(v, T) = h[T]
  BY <1>2, SumIsSolution
<1>4. h[T] = g[T]
  <2>1. \A R : T \subseteq R /\ Solves(g, v, R) => \A U \in SUBSET T : h[U] = g[U]
    <3> HIDE DEF T
    <3> QED BY <1>2, <1>3, SolutionsAgree
  <2> QED BY <1>1, <1>2, <2>1
<1> QED BY <1>1, <1>3, <1>4, SolvesAt

LEMMA SumIsNat ==
  ASSUME NEW v, NEW S, IsFiniteSet(S), \A x \in S : v[x] \in Nat
  PROVE  SumOf(v, S) \in Nat
<1> DEFINE Bad == {T \in SUBSET S : SumOf(v, T) \notin Nat}
<1>1. SUFFICES ASSUME Bad # {} PROVE FALSE
  OBVIOUS
<1>2. PICK T \in Bad : \A U \in Bad : ~(U \subseteq T /\ U # T)
  <2>1. Bad \subseteq SUBSET S
    OBVIOUS
  <2> HIDE DEF Bad
  <2> QED BY <1>1, <2>1, Smallest
<1>3. T # {}
  BY SumOfNone
<1>4. Pick(T) \in T /\ IsFiniteSet(T)
  BY <1>3, PickIsMember, FS_Subset
<1>5. SumOf(v, T \ {Pick(T)}) \in Nat
  BY <1>2, <1>4
<1>6. SumOf(v, T) = v[Pick(T)] + SumOf(v, T \ {Pick(T)})
  BY <1>3, <1>4, SumPicks
<1> QED BY <1>4, <1>5, <1>6

LEMMA SumOfSame ==
  ASSUME NEW v, NEW w, NEW S, IsFiniteSet(S), \A x \in S : v[x] = w[x]
  PROVE  SumOf(v, S) = SumOf(w, S)
<1> DEFINE Bad == {T \in SUBSET S : SumOf(v, T) # SumOf(w, T)}
<1>1. SUFFICES ASSUME Bad # {} PROVE FALSE
  OBVIOUS
<1>2. PICK T \in Bad : \A U \in Bad : ~(U \subseteq T /\ U # T)
  <2>1. Bad \subseteq SUBSET S
    OBVIOUS
  <2> HIDE DEF Bad
  <2> QED BY <1>1, <2>1, Smallest
<1>3. T # {}
  BY SumOfNone
<1>4. Pick(T) \in T /\ IsFiniteSet(T)
  BY <1>3, PickIsMember, FS_Subset
<1>5. SumOf(v, T \ {Pick(T)}) = SumOf(w, T \ {Pick(T)})
  BY <1>2, <1>4
<1>6. /\ SumOf(v, T) = v[Pick(T)] + SumOf(v, T \ {Pick(T)})
      /\ SumOf(w, T) = w[Pick(T)] + SumOf(w, T \ {Pick(T)})
  BY <1>3, <1>4, SumPicks
<1> QED BY <1>4, <1>5, <1>6

LEMMA SumWithout ==
  ASSUME NEW v, NEW S, IsFiniteSet(S), \A x \in S : v[x] \in Nat, NEW t \in S
  PROVE  SumOf(v, S) = v[t] + SumOf(v, S \ {t})
<1> DEFINE Bad == {T \in SUBSET S : \E x \in T : SumOf(v, T) # v[x] + SumOf(v, T \ {x})}
<1>1. SUFFICES ASSUME Bad # {} PROVE FALSE
  OBVIOUS
<1>2. PICK T \in Bad : \A U \in Bad : ~(U \subseteq T /\ U # T)
  <2>1. Bad \subseteq SUBSET S
    OBVIOUS
  <2> HIDE DEF Bad
  <2> QED BY <1>1, <2>1, Smallest
<1>3. PICK x \in T : SumOf(v, T) # v[x] + SumOf(v, T \ {x})
  OBVIOUS
<1> DEFINE p == Pick(T)
<1>4. p \in T /\ IsFiniteSet(T)
  BY <1>3, PickIsMember, FS_Subset
<1>5. SumOf(v, T) = v[p] + SumOf(v, T \ {p})
  BY <1>3, <1>4, SumPicks
<1> HIDE DEF p
<1>6. p # x
  BY <1>3, <1>5
<1>7. SumOf(v, T \ {p}) = v[x] + SumOf(v, (T \ {p}) \ {x})
  <2>1. T \ {p} \notin Bad /\ T \ {p} \in SUBSET S
    BY <1>2, <1>4
  <2>2. x \in T \ {p}
    BY <1>6
  <2> QED BY <2>1, <2>2
<1>8. SumOf(v, T \ {x}) = v[p] + SumOf(v, (T \ {x}) \ {p})
  <2>1. T \ {x} \notin Bad /\ T \ {x} \in SUBSET S
    BY <1>2, <1>3
  <2>2. p \in T \ {x}
    BY <1>4, <1>6
  <2> QED BY <2>1, <2>2
<1>9. (T \ {x}) \ {p} = (T \ {p}) \ {x}
  OBVIOUS
<1> DEFINE rest == SumOf(v, (T \ {p}) \ {x})
<1>10. rest \in Nat /\ v[p] \in Nat /\ v[x] \in Nat
  <2>1. IsFiniteSet((T \ {p}) \ {x}) /\ \A y \in (T \ {p}) \ {x} : v[y] \in Nat
    BY <1>4, FS_Subset
  <2> QED BY <1>4, <2>1, SumIsNat
<1>11. SumOf(v, T) = v[p] + (v[x] + rest) /\ SumOf(v, T \ {x}) = v[p] + rest
  BY <1>5, <1>7, <1>8, <1>9
<1> HIDE DEF rest
<1> QED BY <1>3, <1>10, <1>11

-----------------------------------------------------------------------------
(* Type correctness of the tracker, whatever its clients do. *)
LEMMA InitTypeOK == Init => TypeOK
  BY DEF Init, TypeOK, Stages, Counters, Statistics, NoCounts, NoStats, Fields, NextField, Kinds

LEMMA NextTypeOK == TypeOK /\ [Next]_trackerVars => TypeOK'
<1> SUFFICES ASSUME TypeOK, [Next]_trackerVars
             PROVE  TypeOK'
  OBVIOUS
<1> USE DEF TypeOK, Stages, Counters, Statistics
<1>f. /\ \A f \in Fields : NextField[f] \in Fields
      /\ {"success", "sum", "count", "rows"} \subseteq Fields
      /\ Kinds \subseteq Fields
      /\ "dropped" \in Kinds /\ "success" \in Kinds
  BY DEF Fields, NextField, Kinds
<1>1. ASSUME NEW t \in Tx, LogDispatched(t)
      PROVE  TypeOK'
  BY <1>1 DEF LogDispatched, shareVars, callVars
<1>2. ASSUME NEW t \in Tx, NEW k \in Kinds, NEW ms \in Nat, LogTotal(t, k, ms)
      PROVE  TypeOK'
  BY <1>2 DEF LogTotal, shareVars, callVars
<1>3. ASSUME NEW t \in Tx, LogCount(t)
      PROVE  TypeOK'
  <2>1. counts' = [k \in Kinds |-> IF k = outcome[t] THEN counts[k] + 1 ELSE counts[k]]
    BY <1>3 DEF LogCount
  <2>2. counts' \in Counters
    BY <2>1
  <2>3. stage' \in [Tx -> Stages]
    BY <1>3 DEF LogCount
  <2>4. QED
    BY <1>3, <2>2, <2>3 DEF LogCount, totalVars, callVars
<1>4. ASSUME NEW t \in Tx, LogTimeSum(t)
      PROVE  TypeOK'
  BY <1>4 DEF LogTimeSum, totalVars, callVars
<1>5. ASSUME NEW t \in Tx, LogTimeCount(t)
      PROVE  TypeOK'
  BY <1>5 DEF LogTimeCount, totalVars, callVars
<1>6. ASSUME NEW t \in Tx, LogPush(t)
      PROVE  TypeOK'
  BY <1>6 DEF LogPush, totalVars, callVars
<1>7. CASE BeginInterval
  BY <1>7, <1>f DEF BeginInterval, txVars, totalVars, shareVars
<1>8. ASSUME NEW k \in Kinds, SwapCount(k)
      PROVE  TypeOK'
  BY <1>8, <1>f DEF SwapCount, txVars, totalVars
<1>9. CASE SwapTimeSum
  BY <1>9, <1>f DEF SwapTimeSum, txVars, totalVars
<1>10. CASE SwapTimeCount
  BY <1>10, <1>f DEF SwapTimeCount, txVars, totalVars
<1>11. CASE TakeRows
  <2>1. reported' \in Statistics
    BY <1>11 DEF TakeRows, AddStats, AddCounts
  <2>2. stats' \in Statistics
    BY <1>11 DEF TakeRows, NoStats, NoCounts
  <2>3. QED
    BY <1>11, <1>f, <2>1, <2>2 DEF TakeRows, txVars, totalVars
<1>12. CASE BeginInflight
  BY <1>12, <1>f DEF BeginInflight, txVars, totalVars, shareVars
<1>13. ASSUME NEW k \in Kinds, LoadTotal(k)
       PROVE  TypeOK'
  <2>1. seen.sum + total[k] \in Nat
    OBVIOUS
  <2>2. Monus(seen.dispatched, seen.sum + total[k]) \in Nat
    BY <2>1 DEF Monus
  <2>3. CASE k = "dropped"
    BY <1>13, <1>f, <2>2, <2>3 DEF LoadTotal, txVars, totalVars, shareVars
  <2>4. CASE k # "dropped"
    BY <1>13, <1>f, <2>1, <2>4 DEF LoadTotal, txVars, totalVars, shareVars
  <2>5. QED
    BY <2>3, <2>4
<1>14. CASE UNCHANGED trackerVars
  BY <1>14 DEF trackerVars, txVars, totalVars, shareVars, callVars
<1>15. QED
  BY <1>1, <1>2, <1>3, <1>4, <1>5, <1>6, <1>7, <1>8, <1>9, <1>10, <1>11, <1>12, <1>13, <1>14,
     OutcomesAssumption, MillisAssumption, <1>f
     DEF Next, LogResult, IntervalStatistics, InflightCount

THEOREM TypeCorrect == Spec => []TypeOK
<1>1. QED
  BY InitTypeOK, NextTypeOK, PTL DEF Spec

-----------------------------------------------------------------------------
(* What each step does to the sets the conservation laws count: a step of  *)
(* log_result moves one transaction into one set, and the calls of the     *)
(* reporting task leave all of them alone.                                 *)
LEMMA SetsAreFinite ==
  /\ Cardinality(Dispatched) \in Nat /\ Cardinality(TimeCounted) \in Nat
  /\ \A k \in Kinds : Cardinality(Totalled(k)) \in Nat /\ Cardinality(Counted(k)) \in Nat
<1>1. /\ Dispatched \in SUBSET Tx /\ TimeCounted \in SUBSET Tx
      /\ \A k \in Kinds : Totalled(k) \in SUBSET Tx /\ Counted(k) \in SUBSET Tx
  BY DEF Dispatched, TimeCounted, Totalled, Counted
<1>2. \A S \in SUBSET Tx : Cardinality(S) \in Nat
  BY TxAssumption, FS_Subset, FS_CardinalityType
<1>3. QED
  BY <1>1, <1>2

LEMMA FrameSets ==
  ASSUME UNCHANGED txVars
  PROVE  /\ Dispatched' = Dispatched /\ TimeCounted' = TimeCounted /\ Logged' = Logged
         /\ \A k \in Kinds : Totalled(k)' = Totalled(k) /\ Counted(k)' = Counted(k)
  BY DEF txVars, Dispatched, TimeCounted, Logged, Totalled, Counted

LEMMA LogDispatchedSets ==
  ASSUME TypeOK, StageOutcome, NEW t \in Tx, LogDispatched(t)
  PROVE  /\ t \notin Dispatched /\ Dispatched' = Dispatched \cup {t}
         /\ TimeCounted' = TimeCounted /\ Logged' = Logged
         /\ \A k \in Kinds : Totalled(k)' = Totalled(k) /\ Counted(k)' = Counted(k)
<1> USE DEF TypeOK, Stages, LogDispatched
<1>1. t \notin Dispatched /\ Dispatched' = Dispatched \cup {t}
  BY DEF Dispatched
<1>2. TimeCounted' = TimeCounted /\ Logged' = Logged
  BY DEF TimeCounted, Logged
<1>3. \A k \in Kinds : Totalled(k)' = Totalled(k)
  BY DEF Totalled
<1>4. \A k \in Kinds : Counted(k)' = Counted(k)
  BY DEF Counted, Totalled
<1>5. QED
  BY <1>1, <1>2, <1>3, <1>4

LEMMA LogTotalSets ==
  ASSUME TypeOK, StageOutcome, NEW t \in Tx, NEW k \in Kinds, NEW ms \in Nat, LogTotal(t, k, ms)
  PROVE  /\ t \notin Totalled(k) /\ Totalled(k)' = Totalled(k) \cup {t}
         /\ \A j \in Kinds \ {k} : Totalled(j)' = Totalled(j)
         /\ \A j \in Kinds : Counted(j)' = Counted(j)
         /\ Dispatched' = Dispatched /\ TimeCounted' = TimeCounted /\ Logged' = Logged
<1> USE DEF TypeOK, Stages, LogTotal
<1>0. outcome[t] = "none"
  BY DEF StageOutcome
<1>1. t \notin Totalled(k) /\ Totalled(k)' = Totalled(k) \cup {t}
  BY <1>0 DEF Totalled, Kinds
<1>2. \A j \in Kinds \ {k} : Totalled(j)' = Totalled(j)
  BY <1>0 DEF Totalled, Kinds
<1>3. ASSUME NEW j \in Kinds
      PROVE  Counted(j)' = Counted(j)
  BY <1>0 DEF Counted, Totalled, Kinds
<1>4. Dispatched' = Dispatched /\ Logged' = Logged
  BY DEF Dispatched, Logged
<1>5. TimeCounted' = TimeCounted
  BY DEF TimeCounted
<1>6. QED
  BY <1>1, <1>2, <1>3, <1>4, <1>5

LEMMA LogCountSets ==
  ASSUME TypeOK, StageOutcome, NEW t \in Tx, LogCount(t)
  PROVE  /\ outcome[t] \in Kinds
         /\ t \notin Counted(outcome[t])
         /\ Counted(outcome[t])' = Counted(outcome[t]) \cup {t}
         /\ \A j \in Kinds \ {outcome[t]} : Counted(j)' = Counted(j)
         /\ \A j \in Kinds : Totalled(j)' = Totalled(j)
         /\ Dispatched' = Dispatched /\ Logged' = Logged /\ TimeCounted' = TimeCounted
<1> USE DEF TypeOK, Stages, LogCount
<1>1. outcome[t] \in Kinds
  BY DEF StageOutcome
<1>2. t \notin Counted(outcome[t])
  BY DEF Counted
<1>3. Counted(outcome[t])' = Counted(outcome[t]) \cup {t}
  BY <1>1 DEF Counted, Totalled
<1>4. ASSUME NEW j \in Kinds \ {outcome[t]}
      PROVE  Counted(j)' = Counted(j)
  BY <1>4 DEF Counted, Totalled
<1>5. \A j \in Kinds : Totalled(j)' = Totalled(j)
  BY DEF Totalled
<1>6. Dispatched' = Dispatched /\ Logged' = Logged /\ TimeCounted' = TimeCounted
  BY DEF Dispatched, Logged, TimeCounted
<1>7. QED
  BY <1>1, <1>2, <1>3, <1>4, <1>5, <1>6

LEMMA LogTimeSumSets ==
  ASSUME TypeOK, NEW t \in Tx, LogTimeSum(t)
  PROVE  /\ \A j \in Kinds : Totalled(j)' = Totalled(j) /\ Counted(j)' = Counted(j)
         /\ Dispatched' = Dispatched /\ Logged' = Logged /\ TimeCounted' = TimeCounted
  BY DEF TypeOK, Stages, LogTimeSum, Totalled, Counted, Dispatched, Logged, TimeCounted

LEMMA LogTimeCountSets ==
  ASSUME TypeOK, StageOutcome, NEW t \in Tx, LogTimeCount(t)
  PROVE  /\ t \notin TimeCounted /\ TimeCounted' = TimeCounted \cup {t}
         /\ \A j \in Kinds : Totalled(j)' = Totalled(j) /\ Counted(j)' = Counted(j)
         /\ Dispatched' = Dispatched /\ Logged' = Logged
<1> USE DEF TypeOK, Stages, LogTimeCount
<1>1. t \notin TimeCounted /\ TimeCounted' = TimeCounted \cup {t}
  BY DEF TimeCounted, StageOutcome
<1>2. \A j \in Kinds : Totalled(j)' = Totalled(j) /\ Counted(j)' = Counted(j)
  BY DEF Totalled, Counted
<1>3. Dispatched' = Dispatched /\ Logged' = Logged
  BY DEF Dispatched, Logged
<1>4. QED
  BY <1>1, <1>2, <1>3

LEMMA LogPushSets ==
  ASSUME TypeOK, NEW t \in Tx, LogPush(t)
  PROVE  /\ t \notin Logged /\ Logged' = Logged \cup {t}
         /\ \A j \in Kinds : Totalled(j)' = Totalled(j) /\ Counted(j)' = Counted(j)
         /\ Dispatched' = Dispatched /\ TimeCounted' = TimeCounted
  BY DEF TypeOK, Stages, LogPush, Totalled, Counted, Dispatched, Logged, TimeCounted

-----------------------------------------------------------------------------
(* The inductive invariant, one lemma per conjunct.  The steps that leave  *)
(* the transactions alone are gathered once.                               *)
ReporterStep ==
  \/ BeginInterval \/ IntervalStatistics \/ BeginInflight \/ InflightCount
  \/ UNCHANGED trackerVars

LEMMA ReporterStepFrames == ReporterStep => UNCHANGED txVars /\ UNCHANGED totalVars
  BY DEF ReporterStep, BeginInterval, IntervalStatistics, SwapCount, SwapTimeSum, SwapTimeCount,
         TakeRows, BeginInflight, InflightCount, LoadTotal, trackerVars

LEMMA StepCases ==
  ASSUME TypeOK, [Next]_trackerVars
  PROVE  \/ \E t \in Tx : \/ LogDispatched(t) \/ LogCount(t) \/ LogTimeSum(t)
                          \/ LogTimeCount(t) \/ LogPush(t)
         \/ \E t \in Tx, k \in Kinds, ms \in Nat :
               LogTotal(t, k, ms)
         \/ ReporterStep
<1>1. "dropped" \in Kinds /\ 0 \in Nat
  BY DEF Kinds
<1>2. QED
  BY <1>1, OutcomesAssumption, MillisAssumption DEF Next, LogResult, ReporterStep

LEMMA StageOutcomeStep ==
  ASSUME TypeOK, StageOutcome, [Next]_trackerVars
  PROVE  StageOutcome'
<1> USE DEF TypeOK, Stages, StageOutcome
<1>1. ASSUME NEW t \in Tx, LogDispatched(t)
      PROVE  StageOutcome'
  BY <1>1 DEF LogDispatched
<1>2. ASSUME NEW t \in Tx, NEW k \in Kinds, NEW ms \in Nat, LogTotal(t, k, ms)
      PROVE  StageOutcome'
  BY <1>2 DEF LogTotal, Kinds
<1>3. ASSUME NEW t \in Tx, LogCount(t)
      PROVE  StageOutcome'
  BY <1>3 DEF LogCount
<1>4. ASSUME NEW t \in Tx, LogTimeSum(t)
      PROVE  StageOutcome'
  BY <1>4 DEF LogTimeSum
<1>5. ASSUME NEW t \in Tx, LogTimeCount(t)
      PROVE  StageOutcome'
  BY <1>5 DEF LogTimeCount
<1>6. ASSUME NEW t \in Tx, LogPush(t)
      PROVE  StageOutcome'
  BY <1>6 DEF LogPush
<1>7. CASE ReporterStep
  BY <1>7, ReporterStepFrames DEF txVars
<1>8. QED
  BY StepCases, <1>1, <1>2, <1>3, <1>4, <1>5, <1>6, <1>7

LEMMA TotalsExactStep ==
  ASSUME TypeOK, StageOutcome, TotalsExact, [Next]_trackerVars
  PROVE  TotalsExact'
<1> USE DEF TypeOK, Counters, TotalsExact
<1>s. /\ Dispatched \in SUBSET Tx
      /\ \A k \in Kinds : Totalled(k) \in SUBSET Tx
  BY DEF Dispatched, Totalled
<1>1. ASSUME NEW t \in Tx, LogDispatched(t)
      PROVE  TotalsExact'
  BY <1>1, <1>s, LogDispatchedSets, CardinalityPlusOne DEF LogDispatched
<1>2. ASSUME NEW t \in Tx, NEW k \in Kinds, NEW ms \in Nat, LogTotal(t, k, ms)
      PROVE  TotalsExact'
  <2>1. Cardinality(Totalled(k)') = Cardinality(Totalled(k)) + 1
    BY <1>2, <1>s, LogTotalSets, CardinalityPlusOne
  <2>2. \A j \in Kinds : total'[j] = IF j = k THEN total[j] + 1 ELSE total[j]
    BY <1>2 DEF LogTotal
  <2>3. dispatched' = dispatched
    BY <1>2 DEF LogTotal
  <2>4. QED
    BY <1>2, <2>1, <2>2, <2>3, LogTotalSets
<1>3. ASSUME NEW t \in Tx, LogCount(t)
      PROVE  TotalsExact'
  BY <1>3, LogCountSets DEF LogCount, totalVars
<1>4. ASSUME NEW t \in Tx, LogTimeSum(t)
      PROVE  TotalsExact'
  BY <1>4, LogTimeSumSets DEF LogTimeSum, totalVars
<1>5. ASSUME NEW t \in Tx, LogTimeCount(t)
      PROVE  TotalsExact'
  BY <1>5, LogTimeCountSets DEF LogTimeCount, totalVars
<1>6. ASSUME NEW t \in Tx, LogPush(t)
      PROVE  TotalsExact'
  BY <1>6, LogPushSets DEF LogPush, totalVars
<1>7. CASE ReporterStep
  BY <1>7, ReporterStepFrames, FrameSets DEF totalVars
<1>8. QED
  BY StepCases, <1>1, <1>2, <1>3, <1>4, <1>5, <1>6, <1>7

LEMMA NotYetTakenStep ==
  ASSUME TypeOK, NotYetTaken, [Next]_trackerVars
  PROVE  NotYetTaken'
<1> USE DEF TypeOK, Statistics, Counters, NotYetTaken, Visited
<1>0. /\ Fields = Kinds \cup {"sum", "count", "rows"}
      /\ \A f \in Fields : Position[f] \in 1 .. 7
      /\ \A f, g \in Fields : Position[f] = Position[g] => f = g
      /\ \A f \in Fields \ {"rows"} :
           NextField[f] \in Fields /\ Position[NextField[f]] = Position[f] + 1
      /\ NextField["rows"] = "success" /\ Position["success"] = 1
      /\ "success" \in Kinds /\ "dropped" \in Kinds /\ "rows" \notin Kinds
      /\ "count" \notin Kinds /\ "sum" \notin Kinds
  BY DEF Fields, Kinds, Position, NextField
<1>1. CASE UNCHANGED callVars
  BY <1>1 DEF callVars
<1>2. CASE BeginInterval
  BY <1>0, <1>2 DEF BeginInterval
<1>3. ASSUME NEW k \in Kinds, SwapCount(k)
      PROVE  NotYetTaken'
  <2>1. \A j \in Kinds \ {k} : stats'.counts[j] = stats.counts[j]
    BY <1>3 DEF SwapCount
  <2>2. stats'.count = stats.count /\ call' = call /\ field' = NextField[k] /\ field = k
    BY <1>3 DEF SwapCount
  <2>3. \A f \in Fields : Visited(f)' <=> Visited(f) \/ f = k
    BY <1>0, <1>3, <2>2 DEF SwapCount
  <2>4. QED
    BY <1>0, <1>3, <2>1, <2>2, <2>3 DEF SwapCount
<1>4. CASE SwapTimeSum
  <2>1. \A f \in Fields : Visited(f)' <=> Visited(f) \/ f = "sum"
    BY <1>0, <1>4 DEF SwapTimeSum
  <2>2. QED
    BY <1>0, <1>4, <2>1 DEF SwapTimeSum
<1>5. CASE SwapTimeCount
  <2>1. \A f \in Fields : Visited(f)' <=> Visited(f) \/ f = "count"
    BY <1>0, <1>5 DEF SwapTimeCount
  <2>2. QED
    BY <1>0, <1>5, <2>1 DEF SwapTimeCount
<1>6. CASE TakeRows
  BY <1>0, <1>6 DEF TakeRows, NoStats, NoCounts
<1>7. CASE BeginInflight
  BY <1>0, <1>7 DEF BeginInflight
<1>8. ASSUME NEW k \in Kinds, LoadTotal(k)
      PROVE  NotYetTaken'
  BY <1>0, <1>8 DEF LoadTotal
<1>9. QED
  BY StepCases, <1>1, <1>2, <1>3, <1>4, <1>5, <1>6, <1>7, <1>8
     DEF ReporterStep, IntervalStatistics, InflightCount, trackerVars, LogDispatched, LogTotal,
         LogCount, LogTimeSum, LogTimeCount, LogPush

LEMMA CountsConservedStep ==
  ASSUME TypeOK, StageOutcome, NotYetTaken, CountsConserved, [Next]_trackerVars
  PROVE  CountsConserved'
<1> USE DEF TypeOK, Counters, Statistics, CountsConserved
<1>0. \A k \in Kinds :
        reported.counts[k] \in Nat /\ stats.counts[k] \in Nat /\ counts[k] \in Nat
  OBVIOUS
<1>s. \A k \in Kinds : Counted(k) \in SUBSET Tx
  BY DEF Counted, Totalled
<1>1. ASSUME NEW t \in Tx, LogDispatched(t)
      PROVE  CountsConserved'
  BY <1>1, LogDispatchedSets DEF LogDispatched, shareVars, callVars
<1>2. ASSUME NEW t \in Tx, NEW k \in Kinds, NEW ms \in Nat, LogTotal(t, k, ms)
      PROVE  CountsConserved'
  BY <1>2, LogTotalSets DEF LogTotal, shareVars, callVars
<1>3. ASSUME NEW t \in Tx, LogCount(t)
      PROVE  CountsConserved'
  <2>o. outcome' = outcome /\ reported' = reported /\ stats' = stats
    BY <1>3 DEF LogCount, callVars
  <2>1. /\ outcome[t] \in Kinds
        /\ \A j \in Kinds \ {outcome[t]} : Counted(j)' = Counted(j)
        /\ t \notin Counted(outcome[t])
        /\ Counted(outcome[t])' = Counted(outcome[t]) \cup {t}
    BY <1>3, LogCountSets
  <2>2. \A j \in Kinds : counts'[j] = IF j = outcome[t] THEN counts[j] + 1 ELSE counts[j]
    BY <1>3 DEF LogCount
  <2>3. ASSUME NEW j \in Kinds
        PROVE  reported'.counts[j] + stats'.counts[j] + counts'[j] = Cardinality(Counted(j)')
    <3>1. CASE j = outcome[t]
      <4>1. Counted(j)' = Counted(j) \cup {t} /\ t \notin Counted(j)
        BY <2>o, <2>1, <3>1
      <4>2. Cardinality(Counted(j)') = Cardinality(Counted(j)) + 1
        BY <1>s, <4>1, CardinalityPlusOne
      <4>3. QED
        BY <1>0, <2>o, <2>2, <3>1, <4>2
    <3>2. CASE j # outcome[t]
      BY <1>0, <2>o, <2>1, <2>2, <3>2
    <3>3. QED
      BY <3>1, <3>2
  <2>4. QED
    BY <2>3
<1>4. ASSUME NEW t \in Tx, LogTimeSum(t)
      PROVE  CountsConserved'
  BY <1>4, LogTimeSumSets DEF LogTimeSum, callVars
<1>5. ASSUME NEW t \in Tx, LogTimeCount(t)
      PROVE  CountsConserved'
  BY <1>5, LogTimeCountSets DEF LogTimeCount, callVars
<1>6. ASSUME NEW t \in Tx, LogPush(t)
      PROVE  CountsConserved'
  BY <1>6, LogPushSets DEF LogPush, callVars
<1>7. ASSUME ReporterStep
      PROVE  CountsConserved'
  <2>0. \A k \in Kinds : Counted(k)' = Counted(k)
    BY <1>7, ReporterStepFrames, FrameSets
  <2>1. ASSUME NEW k \in Kinds, SwapCount(k)
        PROVE  CountsConserved'
    <3>1. stats.counts[k] = 0
      BY <2>1 DEF SwapCount, NotYetTaken, Visited, Position, Kinds
    <3>2. \A j \in Kinds : /\ stats'.counts[j] = IF j = k THEN counts[k] ELSE stats.counts[j]
                          /\ counts'[j] = IF j = k THEN 0 ELSE counts[j]
      BY <2>1 DEF SwapCount
    <3>3. QED
      BY <1>0, <2>0, <2>1, <3>1, <3>2 DEF SwapCount
  <2>2. CASE TakeRows
    <3>1. \A k \in Kinds : /\ reported'.counts[k] = reported.counts[k] + stats.counts[k]
                          /\ stats'.counts[k] = 0
      BY <2>2 DEF TakeRows, AddStats, AddCounts, NoStats, NoCounts
    <3>2. QED
      BY <1>0, <2>0, <2>2, <3>1 DEF TakeRows
  <2>3. CASE UNCHANGED counts /\ reported' = reported /\ stats'.counts = stats.counts
    BY <2>0, <2>3
  <2>4. QED
    BY <1>7, <2>1, <2>2, <2>3
       DEF ReporterStep, BeginInterval, IntervalStatistics, SwapTimeSum, SwapTimeCount,
           BeginInflight, InflightCount, LoadTotal, shareVars, callVars, trackerVars
<1>8. QED
  BY StepCases, <1>1, <1>2, <1>3, <1>4, <1>5, <1>6, <1>7

LEMMA TimeCountConservedStep ==
  ASSUME TypeOK, StageOutcome, NotYetTaken, TimeCountConserved, [Next]_trackerVars
  PROVE  TimeCountConserved'
<1> USE DEF TypeOK, Statistics, TimeCountConserved
<1>s. TimeCounted \in SUBSET Tx
  BY DEF TimeCounted
<1>1. ASSUME NEW t \in Tx, LogDispatched(t)
      PROVE  TimeCountConserved'
  BY <1>1, LogDispatchedSets DEF LogDispatched, shareVars, callVars
<1>2. ASSUME NEW t \in Tx, NEW k \in Kinds, NEW ms \in Nat, LogTotal(t, k, ms)
      PROVE  TimeCountConserved'
  BY <1>2, LogTotalSets DEF LogTotal, shareVars, callVars
<1>3. ASSUME NEW t \in Tx, LogCount(t)
      PROVE  TimeCountConserved'
  BY <1>3, LogCountSets DEF LogCount, callVars
<1>4. ASSUME NEW t \in Tx, LogTimeSum(t)
      PROVE  TimeCountConserved'
  BY <1>4, LogTimeSumSets DEF LogTimeSum, callVars
<1>5. ASSUME NEW t \in Tx, LogTimeCount(t)
      PROVE  TimeCountConserved'
  <2>1. Cardinality(TimeCounted') = Cardinality(TimeCounted) + 1
    BY <1>5, <1>s, LogTimeCountSets, CardinalityPlusOne
  <2>2. timeCount' = timeCount + 1 /\ reported' = reported /\ stats' = stats
    BY <1>5 DEF LogTimeCount, callVars
  <2>3. Cardinality(TimeCounted) \in Nat
    BY SetsAreFinite
  <2>4. QED
    BY <2>1, <2>2, <2>3
<1>6. ASSUME NEW t \in Tx, LogPush(t)
      PROVE  TimeCountConserved'
  BY <1>6, LogPushSets DEF LogPush, callVars
<1>7. ASSUME ReporterStep
      PROVE  TimeCountConserved'
  <2>0. TimeCounted' = TimeCounted
    BY <1>7, ReporterStepFrames, FrameSets
  <2>1. CASE SwapTimeCount
    <3>1. stats.count = 0
      BY <2>1 DEF SwapTimeCount, NotYetTaken, Visited, Position
    <3>2. QED
      BY <2>0, <2>1, <3>1 DEF SwapTimeCount
  <2>2. CASE TakeRows
    BY <2>0, <2>2 DEF TakeRows, AddStats, NoStats
  <2>3. CASE UNCHANGED timeCount /\ reported' = reported /\ stats'.count = stats.count
    BY <2>0, <2>3
  <2>4. QED
    BY <1>7, <2>1, <2>2, <2>3
       DEF ReporterStep, BeginInterval, IntervalStatistics, SwapCount, SwapTimeSum,
           BeginInflight, InflightCount, LoadTotal, shareVars, callVars, trackerVars
<1>8. QED
  BY StepCases, <1>1, <1>2, <1>3, <1>4, <1>5, <1>6, <1>7

(* A service time enters the sum with the step that adds it, and leaves it *)
(* for a report; nothing else touches the times already summed.            *)
LEMMA SummedIsFinite ==
  ASSUME TypeOK
  PROVE  /\ Summed \in SUBSET Tx /\ IsFiniteSet(Summed)
         /\ \A t \in Summed : millis[t] \in Nat
<1>1. Summed \in SUBSET Tx
  BY DEF Summed
<1> QED BY <1>1, TxAssumption, FS_Subset DEF TypeOK

LEMMA SumKept ==
  ASSUME TypeOK, Summed' = Summed, \A t \in Summed : millis'[t] = millis[t],
         ServiceTimeConserved,
         reported'.sum + stats'.sum + timeSum' = reported.sum + stats.sum + timeSum
  PROVE  ServiceTimeConserved'
<1>1. SumOf(millis', Summed) = SumOf(millis, Summed)
  BY SummedIsFinite, SumOfSame
<1>2. reported'.sum + stats'.sum + timeSum' = SumOf(millis', Summed')
  BY <1>1 DEF ServiceTimeConserved
<1> QED BY <1>2 DEF ServiceTimeConserved

LEMMA ServiceTimeStep ==
  ASSUME TypeOK, StageOutcome, NotYetTaken, ServiceTimeConserved, [Next]_trackerVars
  PROVE  ServiceTimeConserved'
<1> USE DEF TypeOK, Statistics
<1>1. ASSUME NEW t \in Tx, \/ LogDispatched(t) \/ LogCount(t) \/ LogTimeCount(t) \/ LogPush(t)
      PROVE  ServiceTimeConserved'
  <2>1. Summed' = Summed
    BY <1>1 DEF Summed, Stages, StageOutcome, LogDispatched, LogCount, LogTimeCount, LogPush
  <2>2. UNCHANGED <<millis, timeSum, reported, stats>>
    BY <1>1 DEF LogDispatched, LogCount, LogTimeCount, LogPush, shareVars, callVars
  <2> QED BY <2>1, <2>2, SumKept
<1>2. ASSUME NEW t \in Tx, NEW k \in Kinds, NEW ms \in Nat, LogTotal(t, k, ms)
      PROVE  ServiceTimeConserved'
  <2>1. Summed' = Summed /\ t \notin Summed
    BY <1>2 DEF Summed, Stages, LogTotal
  <2>2. \A s \in Summed : millis'[s] = millis[s]
    BY <1>2, <2>1 DEF LogTotal, Summed
  <2>3. UNCHANGED <<timeSum, reported, stats>>
    BY <1>2 DEF LogTotal, shareVars, callVars
  <2> QED BY <2>1, <2>2, <2>3, SumKept
<1>3. ASSUME NEW t \in Tx, LogTimeSum(t)
      PROVE  ServiceTimeConserved'
  <2>1. t \notin Summed /\ Summed' = Summed \cup {t}
    BY <1>3 DEF Summed, Stages, StageOutcome, LogTimeSum
  <2>2. UNCHANGED <<millis, reported, stats>> /\ timeSum' = timeSum + millis[t]
    BY <1>3 DEF LogTimeSum, callVars
  <2>3. /\ IsFiniteSet(Summed \cup {t}) /\ (Summed \cup {t}) \ {t} = Summed
        /\ \A s \in Summed \cup {t} : millis[s] \in Nat
    BY <2>1, SummedIsFinite, FS_AddElement
  <2>4. SumOf(millis, Summed \cup {t}) = millis[t] + SumOf(millis, Summed)
    BY <2>3, SumWithout
  <2>5. reported.sum + stats.sum + timeSum = SumOf(millis, Summed)
    BY DEF ServiceTimeConserved
  <2>6. reported.sum + stats.sum + (timeSum + millis[t]) = SumOf(millis, Summed \cup {t})
    BY <2>3, <2>4, <2>5
  <2>7. reported'.sum + stats'.sum + timeSum' = SumOf(millis', Summed')
    BY <2>1, <2>2, <2>6
  <2> QED BY <2>7 DEF ServiceTimeConserved
<1>4. ASSUME ReporterStep
      PROVE  ServiceTimeConserved'
  <2>1. Summed' = Summed /\ millis' = millis
    BY <1>4, ReporterStepFrames DEF Summed, txVars
  <2>2. reported'.sum + stats'.sum + timeSum' = reported.sum + stats.sum + timeSum
    <3>1. CASE SwapTimeSum
      <4>1. stats.sum = 0
        BY <3>1 DEF SwapTimeSum, NotYetTaken, Visited, Position
      <4> QED BY <3>1, <4>1 DEF SwapTimeSum
    <3>2. CASE TakeRows
      BY <3>2 DEF TakeRows, AddStats, NoStats
    <3>3. CASE UNCHANGED timeSum /\ reported' = reported /\ stats'.sum = stats.sum
      BY <3>3
    <3> QED
      BY <1>4, <3>1, <3>2, <3>3
         DEF ReporterStep, BeginInterval, IntervalStatistics, SwapCount, SwapTimeCount,
             BeginInflight, InflightCount, LoadTotal, shareVars, callVars, trackerVars
  <2> QED BY <2>1, <2>2, SumKept
<1> QED BY StepCases, <1>1, <1>2, <1>3, <1>4

LEMMA RowsPartitionedStep ==
  ASSUME TypeOK, StageOutcome, RowsPartitioned, [Next]_trackerVars
  PROVE  RowsPartitioned'
<1> USE DEF TypeOK, Statistics, RowsPartitioned
<1>1. ASSUME NEW t \in Tx, LogDispatched(t)
      PROVE  RowsPartitioned'
  BY <1>1, LogDispatchedSets DEF LogDispatched, shareVars, callVars
<1>2. ASSUME NEW t \in Tx, NEW k \in Kinds, NEW ms \in Nat, LogTotal(t, k, ms)
      PROVE  RowsPartitioned'
  BY <1>2, LogTotalSets DEF LogTotal, shareVars, callVars
<1>3. ASSUME NEW t \in Tx, LogCount(t)
      PROVE  RowsPartitioned'
  BY <1>3, LogCountSets DEF LogCount, callVars
<1>4. ASSUME NEW t \in Tx, LogTimeSum(t)
      PROVE  RowsPartitioned'
  BY <1>4, LogTimeSumSets DEF LogTimeSum, callVars
<1>5. ASSUME NEW t \in Tx, LogTimeCount(t)
      PROVE  RowsPartitioned'
  BY <1>5, LogTimeCountSets DEF LogTimeCount, callVars
<1>6. ASSUME NEW t \in Tx, LogPush(t)
      PROVE  RowsPartitioned'
  BY <1>6, LogPushSets DEF LogPush, callVars
<1>7. ASSUME ReporterStep
      PROVE  RowsPartitioned'
  <2>0. Logged' = Logged
    BY <1>7, ReporterStepFrames, FrameSets
  <2>1. CASE TakeRows
    BY <2>0, <2>1 DEF TakeRows, AddStats, NoStats
  <2>2. CASE UNCHANGED rows /\ reported' = reported /\ stats'.rows = stats.rows
    BY <2>0, <2>2
  <2>3. QED
    BY <1>7, <2>1, <2>2
       DEF ReporterStep, BeginInterval, IntervalStatistics, SwapCount, SwapTimeSum,
           SwapTimeCount, BeginInflight, InflightCount, LoadTotal, shareVars, callVars,
           trackerVars
<1>8. QED
  BY StepCases, <1>1, <1>2, <1>3, <1>4, <1>5, <1>6, <1>7

LEMMA InitIndInv == Init => IndInv
<1> SUFFICES ASSUME Init
             PROVE  IndInv
  OBVIOUS
<1>1. TypeOK
  BY InitTypeOK
<1>2. StageOutcome /\ NotYetTaken
  BY DEF Init, StageOutcome, NotYetTaken, Visited, NoStats, NoCounts
<1>3. /\ Dispatched = {} /\ TimeCounted = {} /\ Logged = {}
      /\ \A k \in Kinds : Totalled(k) = {} /\ Counted(k) = {}
  BY DEF Init, Dispatched, TimeCounted, Logged, Totalled, Counted, Kinds
<1>4. TotalsExact
  BY <1>3, FS_EmptySet DEF Init, TotalsExact, NoCounts
<1>5. CountsConserved /\ TimeCountConserved /\ RowsPartitioned
  BY <1>3, FS_EmptySet
     DEF Init, CountsConserved, TimeCountConserved, RowsPartitioned, NoStats, NoCounts
<1>6. QED
  BY <1>1, <1>2, <1>4, <1>5 DEF IndInv

LEMMA NextIndInv == IndInv /\ [Next]_trackerVars => IndInv'
  BY NextTypeOK, StageOutcomeStep, NotYetTakenStep, TotalsExactStep, CountsConservedStep,
     TimeCountConservedStep, RowsPartitionedStep
     DEF IndInv

(* The invariant holds however the calls interleave.                       *)
THEOREM Invariance == Spec => []IndInv
<1>1. QED
  BY InitIndInv, NextIndInv, PTL DEF Spec

(* No increment of an outcome counter is lost or reported twice            *)
(* (tracker.rs:45-48, 136-155).                                            *)
THEOREM CountsAreConserved == Spec => []CountsConserved
<1>1. IndInv => CountsConserved
  BY DEF IndInv
<1>2. QED
  BY <1>1, Invariance, PTL

(* No millisecond of service time is lost or reported twice, for any       *)
(* number of transactions and any times (tracker.rs:50, 139, 144, 149).    *)
THEOREM ServiceTimesAreConserved == Spec => []ServiceTimeConserved
<1>1. Init => ServiceTimeConserved
  <2>1. ASSUME Init PROVE ServiceTimeConserved
    <3>1. Summed = {} /\ reported.sum = 0 /\ stats.sum = 0 /\ timeSum = 0
      BY <2>1 DEF Init, Summed, NoStats
    <3>2. SumOf(millis, Summed) = 0
      BY <3>1, SumOfNone
    <3> QED BY <3>1, <3>2 DEF ServiceTimeConserved
  <2> QED BY <2>1
<1>2. IndInv /\ ServiceTimeConserved /\ [Next]_trackerVars => ServiceTimeConserved'
  BY ServiceTimeStep DEF IndInv
<1> QED BY <1>1, <1>2, Invariance, PTL DEF Spec

(* At rest, the sum of all reports agrees with the rows they carry.        *)
THEOREM ReportsAgree == Spec => []ReportsAgreeAtRest
<1>1. ASSUME IndInv, AtRest
      PROVE  /\ \A k \in Kinds :
                   reported.counts[k] = Cardinality({t \in reported.rows : outcome[t] = k})
             /\ reported.count = Cardinality({t \in reported.rows : outcome[t] # "dropped"})
  <2> USE <1>1 DEF IndInv, AtRest
  <2>1. reported.rows = Logged
    BY DEF RowsPartitioned
  <2>2. stats.count = 0 /\ timeCount = 0
        /\ \A k \in Kinds : stats.counts[k] = 0 /\ counts[k] = 0
    BY DEF NotYetTaken, Visited, NoCounts
  <2>3. \A k \in Kinds : Counted(k) = {t \in Logged : outcome[t] = k}
    BY DEF Counted, Totalled, Logged, StageOutcome, Kinds
  <2>4. TimeCounted = {t \in Logged : outcome[t] # "dropped"}
    BY DEF TimeCounted, Logged
  <2>5. reported.count \in Nat /\ \A k \in Kinds : reported.counts[k] \in Nat
    BY DEF TypeOK, Statistics, Counters
  <2>6. \A k \in Kinds : reported.counts[k] = Cardinality(Counted(k))
    BY <2>2, <2>5 DEF CountsConserved
  <2>7. reported.count = Cardinality(TimeCounted)
    BY <2>2, <2>5 DEF TimeCountConserved
  <2>8. QED
    BY <2>1, <2>3, <2>4, <2>6, <2>7
<1>2. IndInv => ReportsAgreeAtRest
  BY <1>1 DEF ReportsAgreeAtRest
<1>3. QED
  BY <1>2, Invariance, PTL

(* The tracker's rows implement the abstract result log: each result is    *)
(* logged once and handed over at most once.                               *)
THEOREM LogRefinement == Spec => LogSpec
<1>1. Init => Log!Init
  BY DEF Init, Log!Init, NoStats
<1>2. IndInv /\ [Next]_trackerVars => [Log!Next]_Log!vars
  <2> SUFFICES ASSUME IndInv, [Next]_trackerVars
               PROVE  [Log!Next]_Log!vars
    OBVIOUS
  <2> USE DEF Log!vars
  <2>1. ASSUME NEW t \in Tx, LogPush(t)
        PROVE  Log!Log(t)
    BY <2>1 DEF LogPush, callVars, IndInv, RowsPartitioned, Logged, Log!Log
  <2>2. CASE TakeRows
    BY <2>2 DEF TakeRows, AddStats, IndInv, TypeOK, Statistics, Log!HandOver, Log!Next
  <2>3. ASSUME NEW t \in Tx,
               LogDispatched(t) \/ LogCount(t) \/ LogTimeSum(t) \/ LogTimeCount(t)
        PROVE  UNCHANGED Log!vars
    BY <2>3 DEF LogDispatched, LogCount, LogTimeSum, LogTimeCount, shareVars, callVars
  <2>4. ASSUME NEW t \in Tx, NEW k \in Kinds, NEW ms \in Nat, LogTotal(t, k, ms)
        PROVE  UNCHANGED Log!vars
    BY <2>4 DEF LogTotal, shareVars, callVars
  <2>5. ASSUME ReporterStep, ~TakeRows
        PROVE  UNCHANGED Log!vars
    BY <2>5 DEF ReporterStep, BeginInterval, IntervalStatistics, SwapCount, SwapTimeSum,
                SwapTimeCount, BeginInflight, InflightCount, LoadTotal, shareVars, callVars,
                trackerVars
  <2>6. TypeOK
    BY DEF IndInv
  <2>7. QED
    BY StepCases, <2>1, <2>2, <2>3, <2>4, <2>5, <2>6 DEF Log!Next
<1>3. QED
  BY <1>1, <1>2, Invariance, PTL DEF Spec, LogSpec, Log!Spec

-----------------------------------------------------------------------------
(* Every step of the load generator is a step of the tracker or leaves it  *)
(* alone.                                                                  *)
LEMMA GeneratorStepIsTrackerStep ==
  ASSUME [GeneratorNext]_vars
  PROVE  [Next]_trackerVars
<1>1. ASSUME Reporter
      PROVE  [Next]_trackerVars
  <2>1. CASE ReceiveStepDone
    BY <2>1 DEF ReceiveStepDone, Next
  <2>2. CASE ReceiveClosed
    BY <2>2 DEF ReceiveClosed, Next
  <2>3. CASE PauseTick
    BY <2>3 DEF PauseTick, Next
  <2>4. CASE PauseEnds
    BY <2>4 DEF PauseEnds
  <2>5. CASE SwapInterval
    BY <2>5 DEF SwapInterval, Next, IntervalStatistics
  <2>6. CASE TakeReport
    BY <2>6 DEF TakeReport, Next, IntervalStatistics
  <2>7. CASE SendReport
    BY <2>7 DEF SendReport, Next
  <2>8. CASE CheckInflight
    BY <2>8 DEF CheckInflight, Next
  <2>9. CASE DrainTick
    BY <2>9 DEF DrainTick, Next
  <2>10. CASE SendFinished
    BY <2>10 DEF SendFinished
  <2>11. CASE Exit
    BY <2>11 DEF Exit
  <2>12. QED
    BY <1>1, <2>1, <2>2, <2>3, <2>4, <2>5, <2>6, <2>7, <2>8, <2>9, <2>10, <2>11 DEF Reporter
<1>2. ASSUME Pacer
      PROVE  [Next]_trackerVars
  BY <1>2 DEF Pacer, DrawArrival, AnnounceStep, Dispatch, PacerReturns, Next
<1>3. ASSUME NEW t \in Tx, Complete(t)
      PROVE  [Next]_trackerVars
  BY <1>3 DEF Complete, Next
<1>4. CASE ReceiveStart \/ ReceiveAbort \/ Disconnect \/ ConnectionFails
  BY <1>4 DEF ReceiveStart, ReceiveAbort, Disconnect, ConnectionFails
<1>5. CASE UNCHANGED vars
  BY <1>5 DEF vars
<1>6. QED
  BY <1>1, <1>2, <1>3, <1>4, <1>5 DEF GeneratorNext

(* The load generator implements the tracker's specification, so that      *)
(* every theorem about Tracker holds of it.                                *)
THEOREM TrackerRefinement == GeneratorSpec => TrackerSpec
<1>1. GeneratorInit => Init
  BY DEF GeneratorInit
<1>2. QED
  BY <1>1, GeneratorStepIsTrackerStep, PTL DEF GeneratorSpec, TrackerSpec, Spec

THEOREM GeneratorCounts ==
  GeneratorSpec => [](IndInv /\ ReportsAgreeAtRest /\ ServiceTimeConserved)
<1>1. QED
  BY TrackerRefinement, Invariance, ReportsAgree, ServiceTimesAreConserved, PTL DEF TrackerSpec

-----------------------------------------------------------------------------
(* Type correctness. *)
LEMMA GeneratorInitTypeOK == GeneratorInit => GeneratorTypeOK
<1> SUFFICES ASSUME GeneratorInit
             PROVE  GeneratorTypeOK
  OBVIOUS
<1>1. TypeOK
  BY InitTypeOK DEF GeneratorInit
<1>2. NoStats \in Statistics
  BY DEF NoStats, NoCounts, Statistics, Counters
<1>3. NoStep \in StepDones
  BY DEF NoStep, StepDones
<1>4. <<>> \in Seq(StepDones) /\ <<>> \in Seq(Phases \X Nat \X (Tx \cup {NoTx}))
  OBVIOUS
<1>5. QED
  BY <1>1, <1>2, <1>3, <1>4 DEF GeneratorInit, GeneratorTypeOK, Phases

LEMMA StartPhaseTypes ==
  ASSUME NEW p \in Phases, StartPhase(p)
  PROVE  /\ phase' \in Phases /\ reporter' = "receiving" /\ pacer' = "drawing"
         /\ arrival' \in Nat /\ nextStep' \in Nat /\ lastDispatch' \in Tx \cup {NoTx}
         /\ stepsDone' \in Seq(StepDones)
  BY DEF StartPhase

LEMMA PauseReportsType ==
  ASSUME reports \in Seq(Phases \X Nat \X (Tx \cup {NoTx}))
  PROVE  PauseReports \in Nat
<1>1. DOMAIN reports = 1 .. Len(reports) /\ Len(reports) \in Nat
  OBVIOUS
<1>2. IsFiniteSet(DOMAIN reports)
  BY <1>1, FS_Interval
<1>3. QED
  BY <1>2, FS_Subset, FS_CardinalityType DEF PauseReports

LEMMA PacerTypes ==
  ASSUME GeneratorTypeOK, Pacer, TypeOK'
  PROVE  GeneratorTypeOK'
<1> USE DEF GeneratorTypeOK
<1>0. Steps \in Nat
  BY StepsAssumption DEF Steps
<1>1. CASE DrawArrival
  <2>1. arrival' \in Nat
    BY <1>0, <1>1 DEF DrawArrival
  <2>2. QED
    BY <1>1, <2>1 DEF DrawArrival, reportVars
<1>2. CASE AnnounceStep
  <2>1. [index |-> nextStep, last |-> lastDispatch] \in StepDones
    BY DEF StepDones
  <2>2. \/ stepsDone' = stepsDone
        \/ stepsDone' = Append(stepsDone, [index |-> nextStep, last |-> lastDispatch])
    BY <1>2 DEF AnnounceStep
  <2>3. Append(stepsDone, [index |-> nextStep, last |-> lastDispatch]) \in Seq(StepDones)
    BY <2>1, AppendProperties
  <2>4. stepsDone' \in Seq(StepDones) /\ pacer' \in {pacer, "off"}
    BY <1>2, <2>2, <2>3 DEF AnnounceStep
  <2>5. nextStep' \in Nat /\ lastDispatch' \in Tx \cup {NoTx}
    BY <1>2 DEF AnnounceStep
  <2>6. QED
    BY <1>2, <2>4, <2>5 DEF AnnounceStep, reportVars
<1>3. ASSUME NEW t \in Tx, Dispatch(t)
      PROVE  GeneratorTypeOK'
  BY <1>3 DEF Dispatch, reportVars
<1>4. CASE PacerReturns
  BY <1>4 DEF PacerReturns, reportVars
<1>5. QED
  BY <1>1, <1>2, <1>3, <1>4 DEF Pacer

LEMMA ReporterTypes ==
  ASSUME GeneratorTypeOK, Reporter, TypeOK'
  PROVE  GeneratorTypeOK'
<1> USE DEF GeneratorTypeOK
<1>1. CASE ReceiveStepDone
  <2>1. Head(stepsDone) \in StepDones /\ Tail(stepsDone) \in Seq(StepDones)
    BY <1>1, HeadTailProperties DEF ReceiveStepDone
  <2>2. QED
    BY <1>1, <2>1 DEF ReceiveStepDone, scheduleVars
<1>2. CASE ReceiveClosed
  BY <1>2 DEF ReceiveClosed, scheduleVars, reportVars, Phases
<1>3. CASE PauseTick
  BY <1>3, PauseReportsType DEF PauseTick, scheduleVars, StepDones
<1>4. CASE PauseEnds
  BY <1>4, StartPhaseTypes DEF PauseEnds, reportVars, Phases
<1>5. CASE SwapInterval
  BY <1>5 DEF SwapInterval, generatorVars, scheduleVars, reportVars
<1>6. CASE TakeReport
  <2>1. [stats EXCEPT !.rows = rows] \in Statistics
    BY DEF TypeOK, Statistics
  <2>2. QED
    BY <1>6, <2>1 DEF TakeReport, scheduleVars
<1>7. CASE SendReport
  <2>1. <<phase, current.index, current.last>> \in Phases \X Nat \X (Tx \cup {NoTx})
    BY DEF StepDones
  <2>2. reports' \in Seq(Phases \X Nat \X (Tx \cup {NoTx}))
    BY <1>7, <2>1 DEF SendReport
  <2>3. report' \in Statistics /\ current' \in StepDones
    BY <1>7 DEF SendReport, NoStats, NoCounts, NoStep, Statistics, Counters, StepDones
  <2>4. reporter' \in {"pausing", "checking", "receiving"}
    BY <1>7 DEF SendReport
  <2>5. QED
    BY <1>7, <2>2, <2>3, <2>4 DEF SendReport, scheduleVars
<1>8. CASE CheckInflight
  BY <1>8 DEF CheckInflight, generatorVars, scheduleVars, reportVars
<1>9. CASE DrainTick
  BY <1>9 DEF DrainTick, scheduleVars, reportVars
<1>10. CASE SendFinished
  BY <1>10 DEF SendFinished, scheduleVars, reportVars
<1>11. CASE Exit
  BY <1>11 DEF Exit, scheduleVars, reportVars
<1>12. QED
  BY <1>1, <1>2, <1>3, <1>4, <1>5, <1>6, <1>7, <1>8, <1>9, <1>10, <1>11 DEF Reporter

LEMMA GeneratorNextTypeOK == GeneratorTypeOK /\ [GeneratorNext]_vars => GeneratorTypeOK'
<1> SUFFICES ASSUME GeneratorTypeOK, [GeneratorNext]_vars
             PROVE  GeneratorTypeOK'
  OBVIOUS
<1>1. TypeOK'
  BY NextTypeOK, GeneratorStepIsTrackerStep DEF GeneratorTypeOK
<1>2. CASE ReceiveStart
  BY <1>1, <1>2, StartPhaseTypes DEF ReceiveStart, reportVars, GeneratorTypeOK, Phases
<1>3. CASE ReceiveAbort \/ Disconnect \/ ConnectionFails
  BY <1>1, <1>3
     DEF ReceiveAbort, Disconnect, ConnectionFails, scheduleVars, reportVars, GeneratorTypeOK
<1>4. ASSUME NEW t \in Tx, Complete(t)
      PROVE  GeneratorTypeOK'
  BY <1>1, <1>4 DEF Complete, generatorVars, scheduleVars, reportVars, GeneratorTypeOK
<1>5. CASE UNCHANGED vars
  BY <1>1, <1>5 DEF vars, generatorVars, scheduleVars, reportVars, GeneratorTypeOK
<1>6. QED
  BY <1>1, <1>2, <1>3, <1>4, <1>5, PacerTypes, ReporterTypes DEF GeneratorNext

THEOREM GeneratorTypeCorrect == GeneratorSpec => []GeneratorTypeOK
<1>1. QED
  BY GeneratorInitTypeOK, GeneratorNextTypeOK, PTL DEF GeneratorSpec

-----------------------------------------------------------------------------
(* Who is where when inflight_count runs. *)
LEMMA ControlStep ==
  ASSUME GeneratorTypeOK, ControlOK, [GeneratorNext]_vars
  PROVE  ControlOK'
<1> USE DEF ControlOK
<1>1. ASSUME Pacer
      PROVE  ControlOK'
  BY <1>1 DEF Pacer, DrawArrival, AnnounceStep, Dispatch, PacerReturns, LogDispatched,
              trackerVars, callVars
<1>2. ASSUME NEW t \in Tx, Complete(t)
      PROVE  ControlOK'
  BY <1>2 DEF Complete, LogResult, LogTotal, LogCount, LogTimeSum, LogTimeCount, LogPush,
              callVars, generatorVars, scheduleVars
<1>3. ASSUME Reporter
      PROVE  ControlOK'
  <2>1. CASE ReceiveStepDone
    BY <2>1 DEF ReceiveStepDone, BeginInterval, scheduleVars
  <2>2. CASE ReceiveClosed
    BY <2>2 DEF ReceiveClosed, BeginInflight, trackerVars, callVars, scheduleVars
  <2>3. CASE PauseTick
    BY <2>3 DEF PauseTick, BeginInterval, scheduleVars
  <2>4. CASE PauseEnds
    BY <2>4 DEF PauseEnds, StartPhase, trackerVars, callVars
  <2>5. CASE SwapInterval
    BY <2>5 DEF SwapInterval, SwapCount, SwapTimeSum, SwapTimeCount, generatorVars, scheduleVars
  <2>6. CASE TakeReport
    BY <2>6 DEF TakeReport, TakeRows, scheduleVars
  <2>7. CASE SendReport
    <3>1. call = "none"
      BY <2>7 DEF SendReport, GeneratorTypeOK, TypeOK
    <3>2. QED
      BY <2>7, <3>1 DEF SendReport, BeginInflight, trackerVars, callVars, scheduleVars
  <2>8. CASE CheckInflight
    BY <2>8 DEF CheckInflight, InflightCount, LoadTotal, generatorVars, scheduleVars
  <2>9. CASE DrainTick
    BY <2>9 DEF DrainTick, BeginInterval, scheduleVars
  <2>10. CASE SendFinished
    BY <2>10 DEF SendFinished, trackerVars, callVars, scheduleVars
  <2>11. CASE Exit
    BY <2>11 DEF Exit, trackerVars, callVars, scheduleVars
  <2>12. QED
    BY <1>3, <2>1, <2>2, <2>3, <2>4, <2>5, <2>6, <2>7, <2>8, <2>9, <2>10, <2>11 DEF Reporter
<1>4. CASE ReceiveStart \/ ReceiveAbort \/ Disconnect \/ ConnectionFails
  BY <1>4 DEF ReceiveStart, StartPhase, ReceiveAbort, Disconnect, ConnectionFails, trackerVars,
              callVars, scheduleVars
<1>5. CASE UNCHANGED vars
  BY <1>5 DEF vars, generatorVars, scheduleVars, trackerVars, callVars
<1>6. QED
  BY <1>1, <1>2, <1>3, <1>4, <1>5 DEF GeneratorNext

(* The totals never shrink, so what inflight_count has loaded stays below  *)
(* them while transactions end behind its back.                            *)
LEMMA TotalsGrow ==
  ASSUME TypeOK, [Next]_trackerVars
  PROVE  \A k \in Kinds : total'[k] \in Nat /\ total[k] \in Nat /\ total[k] <= total'[k]
<1> USE DEF TypeOK, Counters
<1>1. ASSUME NEW t \in Tx, NEW k \in Kinds, NEW ms \in Nat, LogTotal(t, k, ms)
      PROVE  \A j \in Kinds : total'[j] = IF j = k THEN total[j] + 1 ELSE total[j]
  BY <1>1 DEF LogTotal
<1>2. ASSUME NEW t \in Tx,
             LogDispatched(t) \/ LogCount(t) \/ LogTimeSum(t) \/ LogTimeCount(t) \/ LogPush(t)
      PROVE  total' = total
  BY <1>2 DEF LogDispatched, LogCount, LogTimeSum, LogTimeCount, LogPush, totalVars
<1>3. ReporterStep => total' = total
  BY ReporterStepFrames DEF totalVars
<1>4. QED
  BY StepCases, <1>1, <1>2, <1>3

LEMMA InflightStep ==
  ASSUME GeneratorTypeOK, ControlOK, InflightSound, [GeneratorNext]_vars
  PROVE  InflightSound'
<1> USE DEF InflightSound
<1>k. /\ Kinds = {"success", "failed", "timeout", "dropped"}
      /\ Position["success"] = 1 /\ Position["failed"] = 2 /\ Position["timeout"] = 3
      /\ Position["dropped"] = 4
      /\ NextField["success"] = "failed" /\ NextField["failed"] = "timeout"
      /\ NextField["timeout"] = "dropped"
  BY DEF Kinds, Position, NextField
<1>n. /\ dispatched \in Nat /\ seen.sum \in Nat /\ seen.dispatched \in Nat
      /\ \A k \in Kinds : total[k] \in Nat /\ total'[k] \in Nat /\ total[k] <= total'[k]
  BY TotalsGrow, GeneratorStepIsTrackerStep DEF GeneratorTypeOK, TypeOK
(* Steps that keep dispatched, and the call and place of the reporting task. *)
<1>f. ASSUME UNCHANGED <<dispatched, callVars, reporter>>
      PROVE  InflightSound'
  <2>1. UNCHANGED <<call, field, seen, answer>>
    BY <1>f DEF callVars
  <2>2. AllCounted => AllCounted'
    BY <1>f, <1>n, <1>k DEF AllCounted
  <2>3. call = "inflight_count" =>
          seen.sum <= Passed("success")' + Passed("failed")' + Passed("timeout")'
    BY <1>n, <1>k, <2>1 DEF Passed
  <2>4. QED
    BY <1>f, <2>1, <2>2, <2>3
(* Steps into a place where nothing is claimed. *)
<1>g. ASSUME call' # "inflight_count", reporter' \notin {"checking", "finished"}
      PROVE  InflightSound'
  BY <1>g
(* inflight_count begins. *)
<1>b. ASSUME BeginInflight, reporter' = "checking"
      PROVE  InflightSound'
  BY <1>b, <1>k DEF BeginInflight, totalVars, Passed
<1>1. ASSUME Pacer
      PROVE  InflightSound'
  <2>1. ASSUME NEW t \in Tx, Dispatch(t)
        PROVE  call' # "inflight_count" /\ reporter' \notin {"checking", "finished"}
    BY <2>1 DEF Dispatch, LogDispatched, callVars, ControlOK
  <2>2. QED
    BY <1>1, <1>f, <1>g, <2>1 DEF Pacer, DrawArrival, AnnounceStep, PacerReturns, trackerVars,
                                  totalVars
<1>2. ASSUME NEW t \in Tx, Complete(t)
      PROVE  InflightSound'
  BY <1>2, <1>f DEF Complete, LogResult, LogTotal, LogCount, LogTimeSum, LogTimeCount, LogPush,
                    totalVars, generatorVars
<1>3. ASSUME Reporter
      PROVE  InflightSound'
  <2>1. CASE ReceiveStepDone
    BY <2>1, <1>g DEF ReceiveStepDone, BeginInterval
  <2>2. CASE ReceiveClosed
    BY <2>2, <1>g, <1>b DEF ReceiveClosed, trackerVars, callVars, ControlOK
  <2>3. CASE PauseTick
    BY <2>3, <1>g DEF PauseTick, BeginInterval
  <2>4. CASE PauseEnds
    BY <2>4, <1>g DEF PauseEnds, StartPhase, trackerVars, callVars, ControlOK
  <2>5. CASE SwapInterval
    BY <2>5, <1>g DEF SwapInterval, SwapCount, SwapTimeSum, SwapTimeCount, generatorVars
  <2>6. CASE TakeReport
    BY <2>6, <1>g DEF TakeReport, TakeRows
  <2>7. CASE SendReport
    BY <2>7, <1>g, <1>b DEF SendReport, trackerVars, callVars, ControlOK
  <2>8. CASE CheckInflight
    <3>1. PICK k \in Kinds : LoadTotal(k)
      BY <2>8 DEF CheckInflight, InflightCount
    <3>2. field = k /\ call = "inflight_count" /\ UNCHANGED <<dispatched, total, reporter>>
      BY <2>8, <3>1 DEF LoadTotal, totalVars, CheckInflight, generatorVars
    <3>3. CASE k = "dropped"
      <4>1. seen.sum <= total["success"] + total["failed"] + total["timeout"]
        BY <1>k, <3>2, <3>3 DEF Passed
      <4>2. answer' = 0 => dispatched <= seen.sum + total["dropped"]
        BY <1>n, <1>k, <3>1, <3>2, <3>3 DEF LoadTotal, Monus
      <4>3. answer' = 0 => AllCounted'
        BY <1>n, <1>k, <3>2, <4>1, <4>2 DEF AllCounted
      <4>4. QED
        BY <2>8, <3>1, <3>2, <3>3, <4>3 DEF LoadTotal, CheckInflight
    <3>4. CASE k # "dropped"
      <4>1. /\ field' = NextField[k] /\ seen'.sum = seen.sum + total[k]
            /\ seen'.dispatched = seen.dispatched /\ call' = call
        BY <3>1, <3>4 DEF LoadTotal, GeneratorTypeOK, TypeOK
      <4>2. seen'.sum <= Passed("success")' + Passed("failed")' + Passed("timeout")'
        BY <1>n, <1>k, <3>2, <3>4, <4>1 DEF Passed
      <4>3. field' \in Kinds
        BY <1>k, <3>2, <3>4, <4>1
      <4>4. QED
        BY <2>8, <3>2, <4>1, <4>2, <4>3 DEF CheckInflight
    <3>5. QED
      BY <3>3, <3>4
  <2>9. CASE DrainTick
    BY <2>9, <1>g DEF DrainTick, BeginInterval
  <2>10. CASE SendFinished
    BY <2>10, <1>n, <1>k
       DEF SendFinished, trackerVars, totalVars, callVars, AllCounted
  <2>11. CASE Exit
    BY <2>11, <1>g DEF Exit, trackerVars, callVars, ControlOK
  <2>12. QED
    BY <1>3, <2>1, <2>2, <2>3, <2>4, <2>5, <2>6, <2>7, <2>8, <2>9, <2>10, <2>11 DEF Reporter
<1>4. CASE ReceiveStart \/ ReceiveAbort
  BY <1>4, <1>g DEF ReceiveStart, StartPhase, ReceiveAbort, trackerVars, callVars, ControlOK
<1>5. CASE Disconnect
  BY <1>5, <1>f DEF Disconnect, trackerVars, totalVars
<1>6. CASE ConnectionFails
  BY <1>6, <1>g DEF ConnectionFails, trackerVars, callVars, ControlOK
<1>7. CASE UNCHANGED vars
  BY <1>7, <1>f DEF vars, trackerVars, totalVars, generatorVars
<1>8. QED
  BY <1>1, <1>2, <1>3, <1>4, <1>5, <1>6, <1>7 DEF GeneratorNext

THEOREM GeneratorInvariance == GeneratorSpec => []GeneratorInv
<1>1. GeneratorInit => GeneratorInv
  BY GeneratorInitTypeOK DEF GeneratorInit, Init, GeneratorInv, ControlOK, InflightSound
<1>2. GeneratorInv /\ [GeneratorNext]_vars => GeneratorInv'
  BY GeneratorNextTypeOK, ControlStep, InflightStep DEF GeneratorInv
<1>3. QED
  BY <1>1, <1>2, PTL DEF GeneratorSpec

-----------------------------------------------------------------------------
(* The four outcomes partition the transactions that have one, so the sum  *)
(* of the totals is their number.                                          *)
LEMMA TotalledUnion ==
  ASSUME StageOutcome, TypeOK
  PROVE  LET all == Totalled("success") \cup Totalled("failed") \cup Totalled("timeout")
                    \cup Totalled("dropped")
         IN  /\ IsFiniteSet(all)
             /\ Cardinality(all) = Cardinality(Totalled("success")) + Cardinality(Totalled("failed"))
                  + Cardinality(Totalled("timeout")) + Cardinality(Totalled("dropped"))
             /\ all = {t \in Tx : stage[t] \notin {"new", "running"}}
<1> DEFINE S == Totalled("success")
           F == Totalled("failed")
           T == Totalled("timeout")
           D == Totalled("dropped")
<1>1. S \subseteq Tx /\ F \subseteq Tx /\ T \subseteq Tx /\ D \subseteq Tx
  BY DEF Totalled
<1>2. S \cap F = {} /\ (S \cup F) \cap T = {} /\ (S \cup F \cup T) \cap D = {}
  BY DEF Totalled
<1>3. (S \cup F \cup T \cup D) = {t \in Tx : stage[t] \notin {"new", "running"}}
  BY DEF Totalled, StageOutcome, TypeOK, Kinds
<1> HIDE DEF S, F, T, D
<1>4. \A A, B \in SUBSET Tx :
        A \cap B = {} => Cardinality(A \cup B) = Cardinality(A) + Cardinality(B)
  <2> SUFFICES ASSUME NEW A \in SUBSET Tx, NEW B \in SUBSET Tx, A \cap B = {}
               PROVE  Cardinality(A \cup B) = Cardinality(A) + Cardinality(B)
    OBVIOUS
  <2>1. IsFiniteSet(A) /\ IsFiniteSet(B)
    BY TxAssumption, FS_Subset
  <2>2. Cardinality(A \cup B) = Cardinality(A) + Cardinality(B) - Cardinality(A \cap B)
    BY <2>1, FS_Union
  <2>3. Cardinality(A) \in Nat /\ Cardinality(B) \in Nat /\ Cardinality(A \cap B) = 0
    BY <2>1, FS_CardinalityType, FS_EmptySet
  <2>4. QED
    BY <2>2, <2>3
<1>5. IsFiniteSet(S \cup F \cup T \cup D)
  BY <1>1, TxAssumption, FS_Subset
<1>6. /\ Cardinality(S \cup F) = Cardinality(S) + Cardinality(F)
      /\ Cardinality(S \cup F \cup T) = Cardinality(S \cup F) + Cardinality(T)
      /\ Cardinality(S \cup F \cup T \cup D) = Cardinality(S \cup F \cup T) + Cardinality(D)
  BY <1>1, <1>2, <1>4
<1>7. QED
  BY <1>3, <1>5, <1>6 DEF S, F, T, D

(* Finished is never sent while a dispatched transaction's outcome is      *)
(* unknown (ready.rs:187): 0 in flight is never the artefact of an         *)
(* unlucky interleaving of the loads with the tasks' fetch_add.            *)
THEOREM FinishedIsCounted == GeneratorSpec => []FinishedMeansCounted
<1>1. ASSUME IndInv, GeneratorInv, reporter = "finished", NEW t \in Tx, stage[t] = "running"
      PROVE  FALSE
  <2> DEFINE Ended == {u \in Tx : stage[u] \notin {"new", "running"}}
  <2> USE <1>1 DEF IndInv, GeneratorInv
  <2>1. IsFiniteSet(Ended) /\ Cardinality(Ended) =
          total["success"] + total["failed"] + total["timeout"] + total["dropped"]
    BY TotalledUnion DEF TotalsExact, Kinds
  <2>2. Cardinality(Dispatched) <= Cardinality(Ended)
    BY <2>1 DEF InflightSound, AllCounted, TotalsExact
  <2>3. Ended \subseteq Dispatched /\ t \in Dispatched /\ t \notin Ended
    BY DEF Dispatched
  <2>4. IsFiniteSet(Dispatched)
    BY TxAssumption, FS_Subset DEF Dispatched
  <2>5. Ended \subseteq Dispatched \ {t} /\ IsFiniteSet(Dispatched \ {t})
    BY <2>3, <2>4, FS_Subset
  <2>6. /\ Cardinality(Ended) <= Cardinality(Dispatched \ {t})
        /\ Cardinality(Dispatched \ {t}) = Cardinality(Dispatched) - 1
        /\ Cardinality(Dispatched) \in Nat
    BY <2>3, <2>4, <2>5, FS_Subset, FS_RemoveElement, FS_CardinalityType
  <2>7. Cardinality(Ended) \in Nat
    BY <2>1, FS_CardinalityType
  <2>8. QED
    BY <2>2, <2>6, <2>7
<1>2. IndInv /\ GeneratorInv => FinishedMeansCounted
  BY <1>1 DEF FinishedMeansCounted
<1>3. QED
  BY <1>2, GeneratorCounts, GeneratorInvariance, PTL

-----------------------------------------------------------------------------
(* The pause counts the reports it has made. *)
LEMMA PauseReportsCount ==
  ASSUME GeneratorTypeOK, OrderInv, phase = "pause"
  PROVE  PauseReports = Len(reports) - WarmupSteps
<1> DEFINE n == Len(reports)
           P == {i \in DOMAIN reports : reports[i][1] = "pause"}
<1>1. n \in Nat /\ DOMAIN reports = 1 .. n
  BY DEF GeneratorTypeOK
<1>2. WarmupSteps <= n /\ n <= WarmupSteps + PauseSteps
  <2>1. InHand \in {0, 1}
    BY DEF InHand
  <2>2. WarmupSteps <= n /\ n + InHand <= WarmupSteps + PauseSteps
    BY DEF OrderInv, PausedInOrder
  <2>3. QED
    BY <1>1, <2>1, <2>2, StepsAssumption
<1>3. \A i \in 1 .. n : reports[i][1] = "pause" <=> WarmupSteps < i
  <2>1. SUFFICES ASSUME NEW i \in 1 .. n
                 PROVE  reports[i][1] = "pause" <=> WarmupSteps < i
    OBVIOUS
  <2>2. <<reports[i][1], reports[i][2]>> = PhaseOf(i)
    BY <1>1 DEF OrderInv, OneReportPerStep
  <2>3. PhaseOf(i)[1] = "pause" <=> WarmupSteps < i
    BY <1>1, <1>2, StepsAssumption DEF PhaseOf
  <2>4. QED
    BY <2>2, <2>3
<1>4. P = (WarmupSteps + 1) .. n
  BY <1>1, <1>3, StepsAssumption
<1>5. Cardinality((WarmupSteps + 1) .. n) =
        IF WarmupSteps + 1 > n THEN 0 ELSE n - (WarmupSteps + 1) + 1
  <2>1. WarmupSteps + 1 \in Int /\ n \in Int
    BY <1>1, StepsAssumption
  <2>2. QED
    BY <2>1, FS_Interval, Zenon
<1>6. PauseReports = Cardinality(P)
  BY Zenon DEF PauseReports
<1>7. Cardinality(P) = Cardinality((WarmupSteps + 1) .. n)
  BY <1>4, Zenon
<1> HIDE DEF P
<1>8. QED
  BY <1>1, <1>2, <1>5, <1>6, <1>7, StepsAssumption

(* What OrderInv reads of phase and reporting task. *)
LEMMA PlaceFrame ==
  ASSUME phase' = phase
  PROVE  /\ Paced' = Paced /\ Before' = Before /\ Steps' = Steps
         /\ reporter' = reporter => InHand' = InHand /\ Stopped' = Stopped
  BY DEF Paced, Before, Steps, InHand, Stopped

LEMMA PlaceTypes ==
  Steps \in Nat /\ Before \in Nat /\ InHand \in {0, 1} /\ Paced \in BOOLEAN /\ Stopped \in BOOLEAN
  BY StepsAssumption DEF Steps, Before, InHand, Paced, Stopped

(* The pacer announces a step only behind the arrival it has drawn.        *)
LEMMA PacerOrder ==
  ASSUME GeneratorTypeOK, ControlOK, OrderInv, Pacer
  PROVE  OrderInv'
<1> USE DEF OrderInv
<1>0. /\ nextStep \in Nat /\ arrival \in Nat /\ Len(stepsDone) \in Nat /\ Len(reports) \in Nat
      /\ stepsDone \in Seq(StepDones) /\ \A d \in StepDones : d.index \in Nat
  BY DEF GeneratorTypeOK, StepDones
<1>1. /\ UNCHANGED <<phase, reporter, current, reports>>
      /\ phase \in {"warmup", "load"}
  BY DEF Pacer, DrawArrival, AnnounceStep, Dispatch, PacerReturns, reportVars, ControlOK
<1>2. PlaceOK' /\ PausedInOrder' /\ OneReportPerStep'
  BY <1>1, PlaceFrame DEF PlaceOK, PausedInOrder, OneReportPerStep
<1> USE PlaceTypes, PlaceFrame, <1>0, <1>1 DEF AnnouncedInOrder
<1>3. Paced
  BY DEF Paced
<1>4. CASE DrawArrival
  <2>1. arrival' \in arrival .. Steps /\ UNCHANGED <<nextStep, stepsDone>> /\ pacer' # "off"
    BY <1>4 DEF DrawArrival
  <2>2. QED
    BY <1>2, <1>3, <2>1
<1>5. CASE AnnounceStep
  <2>1. CASE reporter = "failed"
    <3>1. Stopped' /\ UNCHANGED <<nextStep, stepsDone, arrival>>
      BY <1>5, <2>1 DEF AnnounceStep, Stopped
    <3>2. QED
      BY <1>2, <1>3, <3>1
  <2>2. CASE reporter # "failed"
    <3>1. /\ stepsDone' = Append(stepsDone, [index |-> nextStep, last |-> lastDispatch])
          /\ nextStep' = nextStep + 1 /\ pacer' # "off" /\ nextStep < arrival
          /\ arrival' = arrival
      BY <1>5, <2>2 DEF AnnounceStep
    <3>2. /\ Len(stepsDone') = Len(stepsDone) + 1
          /\ DOMAIN stepsDone' = 1 .. Len(stepsDone) + 1
          /\ \A j \in 1 .. Len(stepsDone) : stepsDone'[j] = stepsDone[j]
          /\ stepsDone'[Len(stepsDone) + 1].index = nextStep
      BY <3>1
    <3>3. \A j \in DOMAIN stepsDone' :
            stepsDone'[j].index = nextStep' - Len(stepsDone') + j - 1
      <4>1. \A j \in 1 .. Len(stepsDone) :
              stepsDone[j].index = nextStep - Len(stepsDone) + j - 1
        BY <1>3
      <4>2. nextStep' - Len(stepsDone') = nextStep - Len(stepsDone)
        BY <3>1, <3>2
      <4>3. stepsDone'[Len(stepsDone) + 1].index
              = nextStep' - Len(stepsDone') + (Len(stepsDone) + 1) - 1
        BY <3>2, <4>2
      <4>4. ASSUME NEW j \in DOMAIN stepsDone'
            PROVE  stepsDone'[j].index = nextStep' - Len(stepsDone') + j - 1
        <5>1. j \in 1 .. Len(stepsDone) \/ j = Len(stepsDone) + 1
          BY <3>2
        <5>2. CASE j = Len(stepsDone) + 1
          BY <4>3, <5>2
        <5>3. CASE j \in 1 .. Len(stepsDone)
          BY <3>2, <4>1, <4>2, <5>3
        <5>4. QED
          BY <5>1, <5>2, <5>3
      <4>5. QED
        BY <4>4
    <3>4. Len(reports') - Before' + Len(stepsDone') <= nextStep' /\ Before' <= Len(reports')
      BY <1>3, <3>1, <3>2
    <3>5. ~Stopped' => nextStep' = Len(reports') - Before' + InHand' + Len(stepsDone')
      BY <1>3, <3>1, <3>2
    <3>6. InHand' = 1 => current'.index = Len(reports') - Before'
      BY <1>3
    <3>7. nextStep' <= arrival' /\ arrival' <= Steps'
      BY <1>3, <3>1
    <3>8. AnnouncedInOrder'
      BY <3>1, <3>3, <3>4, <3>5, <3>6, <3>7
    <3>9. QED
      BY <1>2, <3>8
  <2>3. QED
    BY <2>1, <2>2
<1>6. ASSUME NEW t \in Tx, Dispatch(t)
      PROVE  OrderInv'
  BY <1>2, <1>6 DEF Dispatch
<1>7. CASE PacerReturns
  <2>1. arrival = Steps /\ nextStep >= arrival /\ UNCHANGED <<arrival, nextStep, stepsDone>>
    BY <1>7 DEF PacerReturns
  <2>2. QED
    BY <1>2, <1>3, <2>1
<1>8. QED
  BY <1>4, <1>5, <1>6, <1>7 DEF Pacer

(* Steps that leave reports, channel and pacer alone while the reporting   *)
(* task moves from one place to another.                                   *)
LEMMA MoveOrder ==
  ASSUME GeneratorTypeOK, OrderInv, PlaceOK',
         UNCHANGED <<phase, pacer, arrival, nextStep, stepsDone, current, reports>>,
         \/ InHand' = InHand /\ Stopped' = Stopped
         \/ InHand' = 0 /\ Stopped'
  PROVE  OrderInv'
<1>1. OneReportPerStep'
  BY DEF OrderInv, OneReportPerStep
<1>2. PausedInOrder'
  BY PlaceTypes, StepsAssumption DEF OrderInv, PausedInOrder, GeneratorTypeOK
<1>3. AnnouncedInOrder'
  BY PlaceTypes, PlaceFrame DEF OrderInv, AnnouncedInOrder
<1>4. QED
  BY <1>1, <1>2, <1>3 DEF OrderInv

(* A phase starts with nothing announced.                                  *)
LEMMA StartPhaseOrder ==
  ASSUME GeneratorTypeOK, OrderInv, NEW p \in {"warmup", "load"}, StartPhase(p),
         UNCHANGED <<current, reports>>,
         Len(reports) = IF p = "load" THEN WarmupSteps + PauseSteps ELSE 0
  PROVE  OrderInv'
<1>1. phase' = p /\ reporter' = "receiving" /\ pacer' = "drawing" /\ arrival' = 0
      /\ nextStep' = 0 /\ stepsDone' = <<>>
  BY DEF StartPhase
<1>2. PlaceOK' /\ PausedInOrder' /\ OneReportPerStep'
  BY <1>1 DEF OrderInv, PlaceOK, PausedInOrder, OneReportPerStep, Paced
<1>3. Before' = Len(reports') /\ InHand' = 0 /\ Steps' \in Nat
  BY <1>1, StepsAssumption DEF Before, InHand, Steps
<1>4. Len(reports') \in Nat /\ Len(stepsDone') = 0 /\ DOMAIN stepsDone' = {}
  BY <1>1 DEF GeneratorTypeOK
<1>5. AnnouncedInOrder'
  BY <1>1, <1>3, <1>4 DEF AnnouncedInOrder
<1>6. QED
  BY <1>2, <1>5 DEF OrderInv

(* The reporting task takes the steps in the order of the channel and      *)
(* leaves a phase only when its last step has been reported.               *)
LEMMA ReporterOrder ==
  ASSUME GeneratorTypeOK, ControlOK, OrderInv, Reporter
  PROVE  OrderInv'
<1>0. /\ nextStep \in Nat /\ arrival \in Nat /\ Len(stepsDone) \in Nat /\ Len(reports) \in Nat
      /\ stepsDone \in Seq(StepDones) /\ \A d \in StepDones : d.index \in Nat
      /\ current \in StepDones
      /\ reports \in Seq(Phases \X Nat \X (Tx \cup {NoTx}))
  BY DEF GeneratorTypeOK, StepDones
<1>1. CASE ReceiveStepDone
  <2>1. /\ reporter = "receiving" /\ reporter' = "reporting" /\ stepsDone # <<>>
        /\ current' = Head(stepsDone) /\ stepsDone' = Tail(stepsDone)
        /\ UNCHANGED <<phase, pacer, arrival, nextStep, reports>>
    BY <1>1 DEF ReceiveStepDone, scheduleVars
  <2>2. Paced /\ InHand = 0 /\ ~Stopped /\ InHand' = 1 /\ ~Stopped'
    BY <2>1 DEF OrderInv, PlaceOK, InHand, Stopped
  <2>3. PlaceOK' /\ PausedInOrder' /\ OneReportPerStep'
    BY <2>1, <2>2 DEF OrderInv, PlaceOK, PausedInOrder, OneReportPerStep, Paced
  <2>4. /\ Len(stepsDone) > 0 /\ Len(stepsDone') = Len(stepsDone) - 1
        /\ DOMAIN stepsDone' = 1 .. Len(stepsDone) - 1
        /\ \A j \in 1 .. Len(stepsDone) - 1 : stepsDone'[j] = stepsDone[j + 1]
        /\ current' = stepsDone[1] /\ DOMAIN stepsDone = 1 .. Len(stepsDone)
    BY <1>0, <2>1
  <2>5. /\ \A j \in 1 .. Len(stepsDone) : stepsDone[j].index = nextStep - Len(stepsDone) + j - 1
        /\ nextStep = Len(reports) - Before + Len(stepsDone)
        /\ nextStep <= arrival /\ arrival <= Steps /\ Before <= Len(reports)
        /\ pacer = "off" => nextStep = Steps
    <3>1. /\ \A j \in DOMAIN stepsDone : stepsDone[j].index = nextStep - Len(stepsDone) + j - 1
          /\ nextStep = Len(reports) - Before + InHand + Len(stepsDone)
          /\ nextStep <= arrival /\ arrival <= Steps /\ Before <= Len(reports)
          /\ pacer = "off" => nextStep = Steps
      BY <2>2 DEF OrderInv, AnnouncedInOrder
    <3>2. Before \in Nat
      BY PlaceTypes
    <3>3. nextStep = Len(reports) - Before + Len(stepsDone)
      BY <1>0, <2>2, <3>1, <3>2
    <3>4. QED
      BY <2>4, <3>1, <3>3
  <2>6. Paced' /\ Before' = Before /\ Steps' = Steps
    BY <2>1, <2>2, PlaceFrame
  <2>7. \A j \in DOMAIN stepsDone' : stepsDone'[j].index = nextStep - Len(stepsDone') + j - 1
    <3>1. SUFFICES ASSUME NEW j \in 1 .. Len(stepsDone) - 1
                   PROVE  stepsDone'[j].index = nextStep - Len(stepsDone') + j - 1
      BY <2>4
    <3>2. j + 1 \in 1 .. Len(stepsDone) /\ j \in Nat /\ stepsDone'[j] = stepsDone[j + 1]
      BY <1>0, <2>4
    <3>3. stepsDone[j + 1].index = nextStep - Len(stepsDone) + (j + 1) - 1
      BY <2>5, <3>2
    <3>4. QED
      BY <1>0, <2>4, <3>2, <3>3
  <2>8. current'.index = Len(reports) - Before
    <3>1. 1 \in 1 .. Len(stepsDone) /\ Before \in Nat
      BY <1>0, <2>4, PlaceTypes
    <3>2. stepsDone[1].index = nextStep - Len(stepsDone) + 1 - 1
      BY <2>5, <3>1
    <3>3. QED
      BY <1>0, <2>4, <2>5, <3>1, <3>2
  <2>b. Before \in Nat
    BY PlaceTypes
  <2>9. nextStep = Len(reports) - Before + 1 + Len(stepsDone')
    BY <1>0, <2>4, <2>5, <2>b
  <2>10. Len(reports) - Before + Len(stepsDone') <= nextStep
    BY <1>0, <2>4, <2>9, <2>b
  <2>11. AnnouncedInOrder'
    BY <2>1, <2>2, <2>5, <2>6, <2>7, <2>8, <2>9, <2>10 DEF AnnouncedInOrder
  <2>12. QED
    BY <2>3, <2>11 DEF OrderInv
<1>2. CASE ReceiveClosed
  <2>1. /\ reporter = "receiving" /\ stepsDone = <<>> /\ pacer = "off"
        /\ UNCHANGED <<current, reports>>
        /\ \/ phase = "warmup" /\ phase' = "pause" /\ reporter' = "pausing"
           \/ phase # "warmup" /\ phase' = "drain" /\ reporter' = "checking"
    BY <1>2 DEF ReceiveClosed, reportVars
  <2>2. Paced /\ InHand = 0 /\ ~Stopped /\ Len(stepsDone) = 0
    BY <2>1 DEF OrderInv, PlaceOK, InHand, Stopped
  <2>3. Len(reports) = Before + Steps
    BY <1>0, <2>1, <2>2, PlaceTypes DEF OrderInv, AnnouncedInOrder
  <2>4. CASE phase = "warmup"
    <3>1. Len(reports) = WarmupSteps /\ InHand' = 0 /\ phase' = "pause" /\ reporter' = "pausing"
      BY <2>1, <2>3, <2>4, StepsAssumption DEF Before, Steps, InHand
    <3>2. QED
      BY <2>1, <3>1, StepsAssumption DEF OrderInv, PlaceOK, AnnouncedInOrder, PausedInOrder,
         OneReportPerStep, Paced
  <2>5. CASE phase # "warmup"
    <3>1. phase = "load" /\ phase' = "drain" /\ reporter' = "checking"
      BY <2>1, <2>2, <2>5 DEF Paced
    <3>2. Len(reports) = WarmupSteps + PauseSteps + LoadSteps
      BY <2>3, <3>1, StepsAssumption DEF Before, Steps
    <3>3. QED
      BY <2>1, <3>1, <3>2 DEF OrderInv, PlaceOK, AnnouncedInOrder, PausedInOrder,
         OneReportPerStep, Paced
  <2>6. QED
    BY <2>4, <2>5
<1>3. CASE PauseTick
  <2>1. /\ reporter = "pausing" /\ reporter' = "reporting" /\ PauseReports < PauseSteps
        /\ current'.index = PauseReports /\ UNCHANGED <<phase, reports>>
    BY <1>3 DEF PauseTick
  <2>2. phase = "pause"
    BY <2>1 DEF OrderInv, PlaceOK
  <2>3. PauseReports = Len(reports) - WarmupSteps /\ WarmupSteps <= Len(reports)
    BY <2>2, PauseReportsCount DEF OrderInv, PausedInOrder
  <2>4. InHand' = 1
    BY <2>1 DEF InHand
  <2>5. PausedInOrder'
    BY <1>0, <2>1, <2>3, <2>4, StepsAssumption DEF PausedInOrder
  <2>6. QED
    BY <2>1, <2>2, <2>5 DEF OrderInv, PlaceOK, AnnouncedInOrder, OneReportPerStep, Paced
<1>4. CASE PauseEnds
  <2>1. /\ reporter = "pausing" /\ PauseReports = PauseSteps /\ StartPhase("load")
        /\ UNCHANGED <<current, reports>>
    BY <1>4 DEF PauseEnds, reportVars
  <2>2. phase = "pause"
    BY <2>1 DEF OrderInv, PlaceOK
  <2>3. Len(reports) = WarmupSteps + PauseSteps
    BY <1>0, <2>1, <2>2, PauseReportsCount, StepsAssumption
  <2>4. QED
    BY <2>1, <2>3, StartPhaseOrder
<1>5. CASE SwapInterval \/ CheckInflight
  <2>1. UNCHANGED <<phase, reporter, pacer, arrival, nextStep, stepsDone, current, reports>>
    BY <1>5 DEF SwapInterval, CheckInflight, generatorVars, scheduleVars, reportVars
  <2>2. PlaceOK' /\ InHand' = InHand /\ Stopped' = Stopped
    BY <2>1 DEF OrderInv, PlaceOK, InHand, Stopped, Paced
  <2>3. QED
    BY <2>1, <2>2, MoveOrder
<1>6. CASE TakeReport
  <2>1. /\ reporter = "reporting" /\ reporter' = "sending"
        /\ UNCHANGED <<phase, pacer, arrival, nextStep, stepsDone, current, reports>>
    BY <1>6 DEF TakeReport, scheduleVars
  <2>2. PlaceOK' /\ InHand' = InHand /\ Stopped' = Stopped
    BY <2>1 DEF OrderInv, PlaceOK, InHand, Stopped, Paced
  <2>3. QED
    BY <2>1, <2>2, MoveOrder
<1>7. CASE SendReport
  <2>1. /\ reporter = "sending" /\ UNCHANGED <<phase, pacer, arrival, nextStep, stepsDone>>
        /\ reporter' = CASE phase = "pause" -> "pausing"
                         [] phase = "drain" -> "checking"
                         [] OTHER -> "receiving"
        /\ phase = "drain" => reports' = reports
        /\ phase # "drain" => reports' = Append(reports, <<phase, current.index, current.last>>)
    BY <1>7 DEF SendReport, scheduleVars
  <2>2. InHand = 1 /\ ~Stopped /\ InHand' = 0 /\ ~Stopped' /\ phase # "ready"
    BY <2>1 DEF OrderInv, PlaceOK, InHand, Stopped
  <2>3. PlaceOK'
    BY <2>1, <2>2 DEF OrderInv, PlaceOK, Paced, GeneratorTypeOK, Phases
  <2>4. CASE phase = "drain"
    BY <2>1, <2>3, <2>4 DEF OrderInv, AnnouncedInOrder, PausedInOrder, OneReportPerStep, Paced
  <2>5. CASE phase # "drain"
    <3>1. /\ Len(reports') = Len(reports) + 1 /\ DOMAIN reports' = 1 .. Len(reports) + 1
          /\ \A j \in 1 .. Len(reports) : reports'[j] = reports[j]
          /\ reports'[Len(reports) + 1] = <<phase, current.index, current.last>>
          /\ DOMAIN reports = 1 .. Len(reports)
      BY <1>0, <2>1, <2>5
    <3>2. phase \in {"warmup", "pause", "load"}
      BY <2>2, <2>5 DEF GeneratorTypeOK, Phases
    <3>3. Paced => /\ current.index = Len(reports) - Before /\ Before <= Len(reports)
                   /\ nextStep = Len(reports) - Before + 1 + Len(stepsDone)
                   /\ nextStep <= arrival /\ arrival <= Steps
      BY <2>2 DEF OrderInv, AnnouncedInOrder
    <3>4. <<phase, current.index>> = PhaseOf(Len(reports) + 1)
      <4>1. CASE phase = "warmup"
        <5>1. Before = 0 /\ Steps = WarmupSteps /\ Paced
          BY <4>1 DEF Before, Steps, Paced
        <5>2. Len(reports) + 1 <= WarmupSteps /\ current.index = Len(reports)
          BY <1>0, <3>3, <5>1, StepsAssumption
        <5>3. PhaseOf(Len(reports) + 1) = <<"warmup", Len(reports) + 1 - 1>>
          BY <1>0, <5>2, StepsAssumption DEF PhaseOf
        <5>4. QED
          BY <1>0, <4>1, <5>2, <5>3
      <4>2. CASE phase = "load"
        <5>1. Before = WarmupSteps + PauseSteps /\ Paced
          BY <4>2 DEF Before, Paced
        <5>2. Len(reports) + 1 > WarmupSteps + PauseSteps
              /\ current.index = Len(reports) - (WarmupSteps + PauseSteps)
          BY <1>0, <3>3, <5>1, StepsAssumption
        <5>3. PhaseOf(Len(reports) + 1) =
                <<"load", Len(reports) + 1 - 1 - WarmupSteps - PauseSteps>>
          BY <1>0, <5>2, StepsAssumption DEF PhaseOf
        <5>4. QED
          BY <1>0, <4>2, <5>2, <5>3, StepsAssumption
      <4>3. CASE phase = "pause"
        <5>1. /\ WarmupSteps <= Len(reports) /\ Len(reports) + 1 <= WarmupSteps + PauseSteps
              /\ current.index = Len(reports) - WarmupSteps
          BY <2>2, <4>3 DEF OrderInv, PausedInOrder
        <5>2. PhaseOf(Len(reports) + 1) = <<"pause", Len(reports) + 1 - 1 - WarmupSteps>>
          BY <1>0, <5>1, StepsAssumption DEF PhaseOf
        <5>3. QED
          BY <1>0, <4>3, <5>1, <5>2, StepsAssumption
      <4>4. QED
        BY <3>2, <4>1, <4>2, <4>3
    <3>5. OneReportPerStep'
      <4>1. SUFFICES ASSUME NEW j \in DOMAIN reports'
                     PROVE  <<reports'[j][1], reports'[j][2]>> = PhaseOf(j)
        BY <2>1, <2>5 DEF OneReportPerStep, PhaseOf
      <4>2. CASE j = Len(reports) + 1
        BY <3>1, <3>4, <4>2
      <4>3. CASE j # Len(reports) + 1
        <5>1. j \in DOMAIN reports /\ reports'[j] = reports[j]
          BY <1>0, <3>1, <4>1, <4>3
        <5>2. QED
          BY <5>1 DEF OrderInv, OneReportPerStep
      <4>4. QED
        BY <4>2, <4>3
    <3>6. PausedInOrder'
      <4>1. phase = "pause" => WarmupSteps <= Len(reports) /\ Len(reports) + 1 <= WarmupSteps + PauseSteps
        BY <2>2 DEF OrderInv, PausedInOrder
      <4>2. QED
        BY <1>0, <2>1, <2>2, <3>1, <4>1, StepsAssumption DEF PausedInOrder
    <3>7. AnnouncedInOrder'
      <4>1. Paced' = Paced /\ Before' = Before /\ Steps' = Steps
        BY <2>1, PlaceFrame
      <4>2. Paced => /\ Before <= Len(reports') /\ nextStep = Len(reports') - Before + Len(stepsDone)
                     /\ Len(reports') - Before + Len(stepsDone) <= nextStep
        BY <1>0, <3>1, <3>3, PlaceTypes
      <4>3. Paced =>
              /\ \A j \in DOMAIN stepsDone : stepsDone[j].index = nextStep - Len(stepsDone) + j - 1
              /\ pacer = "off" => nextStep = Steps
        BY <2>2 DEF OrderInv, AnnouncedInOrder
      <4>4. Paced => nextStep = Len(reports') - Before + InHand' + Len(stepsDone)
        BY <1>0, <2>2, <3>1, <4>2, PlaceTypes
      <4>5. QED
        BY <2>1, <2>2, <3>3, <4>1, <4>2, <4>3, <4>4 DEF AnnouncedInOrder
    <3>8. QED
      BY <2>3, <3>5, <3>6, <3>7 DEF OrderInv
  <2>6. QED
    BY <2>4, <2>5
<1>8. CASE DrainTick \/ SendFinished
  <2>1. /\ phase = "drain" /\ UNCHANGED <<phase, reports>>
        /\ reporter' \in {"reporting", "finished"}
    BY <1>8 DEF DrainTick, SendFinished, reportVars, ControlOK
  <2>2. QED
    BY <2>1 DEF OrderInv, PlaceOK, AnnouncedInOrder, PausedInOrder, OneReportPerStep, Paced
<1>9. CASE Exit
  <2>1. /\ reporter \in {"finished", "failed"} /\ reporter' = "exited"
        /\ UNCHANGED <<phase, pacer, arrival, nextStep, stepsDone, current, reports>>
    BY <1>9 DEF Exit, scheduleVars, reportVars
  <2>2. PlaceOK' /\ InHand' = 0 /\ Stopped'
    BY <2>1 DEF OrderInv, PlaceOK, InHand, Stopped, ControlOK
  <2>3. QED
    BY <2>1, <2>2, MoveOrder
<1>10. QED
  BY <1>1, <1>2, <1>3, <1>4, <1>5, <1>6, <1>7, <1>8, <1>9 DEF Reporter

LEMMA OrderStep ==
  ASSUME GeneratorTypeOK, ControlOK, OrderInv, [GeneratorNext]_vars
  PROVE  OrderInv'
<1>1. CASE ReceiveStart
  <2>1. reports = <<>>
    BY <1>1 DEF ReceiveStart, OrderInv, PlaceOK
  <2>2. QED
    BY <1>1, <2>1, StartPhaseOrder DEF ReceiveStart, reportVars
<1>2. CASE ReceiveAbort \/ ConnectionFails
  <2>1. /\ reporter' = "failed"
        /\ UNCHANGED <<phase, pacer, arrival, nextStep, stepsDone, current, reports>>
        /\ phase = "ready" => reports = <<>>
    BY <1>2 DEF ReceiveAbort, ConnectionFails, scheduleVars, reportVars, OrderInv, PlaceOK
  <2>2. PlaceOK' /\ InHand' = 0 /\ Stopped'
    BY <2>1 DEF PlaceOK, InHand, Stopped
  <2>3. QED
    BY <2>1, <2>2, MoveOrder
<1>3. ASSUME (\E t \in Tx : Complete(t)) \/ Disconnect \/ UNCHANGED vars
      PROVE  OrderInv'
  <2>1. UNCHANGED <<phase, reporter, pacer, arrival, nextStep, stepsDone, current, reports>>
    BY <1>3 DEF Complete, Disconnect, vars, generatorVars, scheduleVars, reportVars
  <2>2. PlaceOK' /\ InHand' = InHand /\ Stopped' = Stopped
    BY <2>1 DEF OrderInv, PlaceOK, InHand, Stopped, Paced
  <2>3. QED
    BY <2>1, <2>2, MoveOrder
<1>4. QED
  BY <1>1, <1>2, <1>3, PacerOrder, ReporterOrder DEF GeneratorNext

-----------------------------------------------------------------------------
(* The steps the reporting task knows of are numbered.                     *)
LEMMA IndexTypes ==
  ASSUME GeneratorTypeOK
  PROVE  /\ \A j \in DOMAIN stepsDone : stepsDone[j].index \in Nat
         /\ current.index \in Nat
         /\ \A j \in DOMAIN reports : reports[j][2] \in Nat
<1>1. ASSUME NEW s \in StepDones
      PROVE  s.index \in Nat
  BY DEF StepDones
<1>2. ASSUME NEW x \in Phases \X Nat \X (Tx \cup {NoTx})
      PROVE  x[2] \in Nat
  OBVIOUS
<1>3. \A j \in DOMAIN stepsDone : stepsDone[j] \in StepDones
  BY DEF GeneratorTypeOK
<1>4. \A j \in DOMAIN reports : reports[j] \in Phases \X Nat \X (Tx \cup {NoTx})
  BY DEF GeneratorTypeOK
<1>5. QED
  BY <1>1, <1>2, <1>3, <1>4 DEF GeneratorTypeOK

(* Only steps before the one the pacer will announce next have been        *)
(* announced, taken or reported in this phase.                             *)
LEMMA AnnouncedBefore ==
  ASSUME GeneratorTypeOK, OrderInv, Paced
  PROVE  /\ \A j \in DOMAIN stepsDone : stepsDone[j].index < nextStep
         /\ InHand = 1 => current.index < nextStep
         /\ \A j \in DOMAIN reports : reports[j][1] = phase => reports[j][2] < nextStep
<1>0. /\ nextStep \in Nat /\ Len(stepsDone) \in Nat /\ Len(reports) \in Nat /\ Before \in Nat
      /\ DOMAIN reports = 1 .. Len(reports) /\ DOMAIN stepsDone = 1 .. Len(stepsDone)
  BY PlaceTypes DEF GeneratorTypeOK
<1>1. Before <= Len(reports) /\ Len(reports) - Before + Len(stepsDone) <= nextStep
  BY DEF OrderInv, AnnouncedInOrder
<1>2. ASSUME NEW j \in DOMAIN stepsDone
      PROVE  stepsDone[j].index < nextStep
  <2>1. stepsDone[j].index = nextStep - Len(stepsDone) + j - 1
    BY DEF OrderInv, AnnouncedInOrder
  <2>2. QED
    BY <1>0, <2>1
<1>3. ASSUME InHand = 1
      PROVE  current.index < nextStep
  <2>1. ~Stopped
    BY <1>3 DEF InHand, Stopped
  <2>2. current.index = Len(reports) - Before /\ nextStep = Len(reports) - Before + 1 + Len(stepsDone)
    BY <1>3, <2>1 DEF OrderInv, AnnouncedInOrder
  <2>3. QED
    BY <1>0, <1>1, <2>2
<1>4. ASSUME NEW j \in DOMAIN reports, reports[j][1] = phase
      PROVE  reports[j][2] < nextStep
  <2>1. reports[j][1] = PhaseOf(j)[1] /\ reports[j][2] = PhaseOf(j)[2]
    BY DEF OrderInv, OneReportPerStep
  <2>2. CASE phase = "warmup"
    <3>1. j \in Nat /\ j <= Len(reports) /\ Before = 0
      BY <1>0, <2>2 DEF Before
    <3>2. PhaseOf(j)[1] = "warmup"
      BY <1>4, <2>1, <2>2
    <3>3. j <= WarmupSteps
      BY <3>1, <3>2, StepsAssumption DEF PhaseOf
    <3>4. PhaseOf(j)[2] = j - 1
      BY <3>1, <3>3, StepsAssumption DEF PhaseOf
    <3>5. QED
      BY <1>0, <1>1, <2>1, <3>1, <3>4
  <2>3. CASE phase = "load"
    <3>1. j \in Nat /\ j <= Len(reports) /\ Before = WarmupSteps + PauseSteps
      BY <1>0, <2>3 DEF Before
    <3>2. PhaseOf(j)[1] = "load"
      BY <1>4, <2>1, <2>3
    <3>3. ~(j <= WarmupSteps) /\ j > WarmupSteps + PauseSteps
      BY <3>1, <3>2, StepsAssumption DEF PhaseOf
    <3>4. PhaseOf(j)[2] = j - 1 - WarmupSteps - PauseSteps
      BY <3>1, <3>3, StepsAssumption DEF PhaseOf
    <3>5. QED
      BY <1>0, <1>1, <2>1, <3>1, <3>4, StepsAssumption
  <2>4. QED
    BY <2>2, <2>3 DEF Paced
<1>5. QED
  BY <1>2, <1>3, <1>4

(* Where transactions were dispatched matters step by step only.           *)
LEMMA HereFrame == home' = home => \A p, i : Here(p, i)' = Here(p, i)
  BY DEF Here

LEMMA ReportedFrame ==
  ASSUME LastDispatchOfItsStep, home' = home, reports' = reports
  PROVE  LastDispatchOfItsStep'
  BY HereFrame DEF LastDispatchOfItsStep, IsLastOf

LastInv == HomesOK /\ LastsOK /\ LastDispatchOfItsStep

(* Steps that change the reporting task's place at most.                   *)
LEMMA MoveLasts ==
  ASSUME LastInv, UNCHANGED <<phase, nextStep, lastDispatch, stepsDone, reports, home>>,
         InHand' = 1 => InHand = 1 /\ current' = current,
         \A t \in Tx : stage'[t] = "new" => stage[t] = "new"
  PROVE  LastInv'
<1>1. HomesOK'
  BY DEF LastInv, HomesOK, Paced
<1>2. Paced' = Paced
  BY DEF Paced
<1>3. LastsOK'
  BY <1>2, HereFrame DEF LastInv, LastsOK, IsLastOf
<1>4. QED
  BY <1>1, <1>3, ReportedFrame DEF LastInv

(* Transactions that are dispatched or end are no longer new.              *)
LEMMA NewBefore ==
  ASSUME GeneratorTypeOK, [GeneratorNext]_vars
  PROVE  \A t \in Tx : stage'[t] = "new" => stage[t] = "new"
<1>0. [Next]_trackerVars /\ TypeOK
  BY GeneratorStepIsTrackerStep DEF GeneratorTypeOK
<1>1. ASSUME NEW t \in Tx,
             \/ LogDispatched(t) \/ (\E k \in Kinds, ms \in Nat : LogTotal(t, k, ms)) \/ LogCount(t)
             \/ LogTimeSum(t) \/ LogTimeCount(t) \/ LogPush(t)
      PROVE  \A u \in Tx : stage'[u] = "new" => stage[u] = "new"
  BY <1>0, <1>1 DEF LogDispatched, LogTotal, LogCount, LogTimeSum, LogTimeCount, LogPush, TypeOK
<1>2. ReporterStep => stage' = stage
  BY ReporterStepFrames DEF txVars
<1>3. QED
  BY <1>0, <1>1, <1>2, StepCases

(* The pacer. *)
LEMMA AnnounceLasts ==
  ASSUME GeneratorTypeOK, ControlOK, OrderInv, LastInv, AnnounceStep
  PROVE  LastInv'
<1>0. /\ nextStep \in Nat /\ stepsDone \in Seq(StepDones)
      /\ UNCHANGED <<phase, reporter, current, reports, home, stage>> /\ Paced
  BY DEF GeneratorTypeOK, AnnounceStep, trackerVars, txVars, reportVars, ControlOK, Paced
<1>1. Paced' = Paced /\ InHand' = InHand
  BY <1>0, PlaceFrame
<1>2. CASE reporter = "failed"
  BY <1>0, <1>1, <1>2, MoveLasts DEF AnnounceStep
<1>3. CASE reporter # "failed"
  <2>1. /\ stepsDone' = Append(stepsDone, [index |-> nextStep, last |-> lastDispatch])
        /\ lastDispatch' = NoTx /\ nextStep' = nextStep + 1
    BY <1>3 DEF AnnounceStep
  <2>2. \A t \in Tx : home[t].phase = phase => home[t].step <= nextStep /\ home[t].step \in Nat
    BY <1>0 DEF LastInv, HomesOK, GeneratorTypeOK
  <2>3. Here(phase, nextStep + 1) = {}
    BY <1>0, <2>2 DEF Here
  <2>4. HomesOK'
    BY <1>0, <1>1, <2>1, <2>2 DEF LastInv, HomesOK
  <2>5. /\ DOMAIN stepsDone' = 1 .. Len(stepsDone) + 1 /\ DOMAIN stepsDone = 1 .. Len(stepsDone)
        /\ \A j \in 1 .. Len(stepsDone) : stepsDone'[j] = stepsDone[j]
        /\ stepsDone'[Len(stepsDone) + 1] = [index |-> nextStep, last |-> lastDispatch]
        /\ Len(stepsDone) \in Nat
    BY <1>0, <2>1
  <2>6. \A j \in DOMAIN stepsDone' : IsLastOf(stepsDone'[j].last, phase, stepsDone'[j].index)
    <3>1. IsLastOf(lastDispatch, phase, nextStep)
          /\ \A j \in DOMAIN stepsDone : IsLastOf(stepsDone[j].last, phase, stepsDone[j].index)
      BY <1>0 DEF LastInv, LastsOK
    <3>2. SUFFICES ASSUME NEW j \in 1 .. Len(stepsDone) + 1
                   PROVE  IsLastOf(stepsDone'[j].last, phase, stepsDone'[j].index)
      BY <2>5
    <3>3. CASE j = Len(stepsDone) + 1
      BY <2>5, <3>1, <3>3
    <3>4. CASE j # Len(stepsDone) + 1
      <4>1. j \in DOMAIN stepsDone /\ stepsDone'[j] = stepsDone[j]
        BY <2>5, <3>4
      <4>2. QED
        BY <3>1, <4>1
    <3>5. QED
      BY <3>3, <3>4
  <2>7. InHand = 1 => IsLastOf(current.last, phase, current.index)
    BY <1>0 DEF LastInv, LastsOK
  <2>8. LastsOK'
    BY <1>0, <1>1, <2>1, <2>3, <2>6, <2>7, HereFrame DEF LastsOK, IsLastOf
  <2>9. QED
    BY <1>0, <2>4, <2>8, ReportedFrame DEF LastInv
<1>4. QED
  BY <1>2, <1>3

LEMMA DispatchLasts ==
  ASSUME GeneratorTypeOK, ControlOK, OrderInv, LastInv, NEW t \in Tx, Dispatch(t)
  PROVE  LastInv'
<1>0. /\ UNCHANGED <<phase, reporter, nextStep, stepsDone, current, reports>> /\ Paced
      /\ stage[t] = "new" /\ stage' = [stage EXCEPT ![t] = "running"]
      /\ home' = [home EXCEPT ![t] = [phase |-> phase, step |-> arrival]]
      /\ lastDispatch' = t /\ nextStep >= arrival
      /\ stage \in [Tx -> Stages] /\ nextStep \in Nat /\ arrival \in Nat
      /\ home \in [Tx -> [phase : Phases \cup {"none"}, step : Nat]]
  BY DEF GeneratorTypeOK, TypeOK, Dispatch, LogDispatched, reportVars, ControlOK, Paced
<1>1. Paced' = Paced /\ InHand' = InHand
  BY <1>0, PlaceFrame
<1>2. arrival = nextStep
  BY <1>0 DEF OrderInv, AnnouncedInOrder
<1>3. home[t].phase = "none" /\ home'[t] = [phase |-> phase, step |-> nextStep]
      /\ \A u \in Tx \ {t} : home'[u] = home[u]
  BY <1>0, <1>2 DEF LastInv, HomesOK
<1>4. HomesOK'
  <2>1. \A u \in Tx : stage'[u] = "new" => u # t /\ stage[u] = "new"
    BY <1>0
  <2>2. QED
    BY <1>0, <1>1, <1>3, <2>1 DEF LastInv, HomesOK, Paced
<1>5. t \in Here(phase, nextStep)'
  BY <1>0, <1>3 DEF Here
<1>6. ASSUME NEW p \in {"warmup", "load"}, NEW i, p # phase \/ i # nextStep
      PROVE  Here(p, i)' = Here(p, i)
  BY <1>3, <1>6 DEF Here
<1>7. phase \in {"warmup", "load"}
  BY <1>0 DEF Paced
<1>b. /\ \A j \in DOMAIN stepsDone : stepsDone[j].index # nextStep
      /\ InHand = 1 => current.index # nextStep
      /\ \A j \in DOMAIN reports : reports[j][1] = phase => reports[j][2] # nextStep
  <2>1. /\ \A j \in DOMAIN stepsDone : stepsDone[j].index \in Nat
        /\ current.index \in Nat
        /\ \A j \in DOMAIN reports : reports[j][2] \in Nat
    BY IndexTypes
  <2>2. QED
    BY <1>0, <2>1, AnnouncedBefore
<1>8. LastsOK'
  <2>1. \A j \in DOMAIN stepsDone : IsLastOf(stepsDone[j].last, phase, stepsDone[j].index)'
    BY <1>0, <1>6, <1>7, <1>b DEF LastInv, LastsOK, IsLastOf
  <2>2. InHand = 1 => IsLastOf(current.last, phase, current.index)'
    BY <1>0, <1>6, <1>7, <1>b DEF LastInv, LastsOK, IsLastOf
  <2>3. IsLastOf(lastDispatch, phase, nextStep)'
    BY <1>0, <1>5 DEF IsLastOf
  <2>4. QED
    BY <1>0, <1>1, <2>1, <2>2, <2>3 DEF LastsOK
<1>9. LastDispatchOfItsStep'
  BY <1>0, <1>6, <1>b DEF LastInv, LastDispatchOfItsStep, IsLastOf
<1>10. QED
  BY <1>4, <1>8, <1>9 DEF LastInv

(* The reporting task. *)
LEMMA StartPhaseLasts ==
  ASSUME LastInv, NEW p \in {"warmup", "load"}, StartPhase(p),
         UNCHANGED <<current, reports, home, stage>>,
         \A t \in Tx : home[t].phase # p,
         p = "warmup" => \A t \in Tx : home[t].phase # "load"
  PROVE  LastInv'
<1>1. phase' = p /\ reporter' = "receiving" /\ nextStep' = 0 /\ lastDispatch' = NoTx
      /\ stepsDone' = <<>>
  BY DEF StartPhase
<1>2. HomesOK'
  BY <1>1 DEF LastInv, HomesOK
<1>3. Here(p, 0)' = {}
  BY DEF Here
<1>4. InHand' = 0 /\ DOMAIN stepsDone' = {}
  BY <1>1 DEF InHand
<1>5. LastsOK'
  BY <1>1, <1>3, <1>4 DEF LastsOK, IsLastOf
<1>6. QED
  BY <1>2, <1>5, ReportedFrame DEF LastInv

LEMMA ReporterLasts ==
  ASSUME GeneratorTypeOK, ControlOK, OrderInv, LastInv, Reporter,
         \A t \in Tx : stage'[t] = "new" => stage[t] = "new"
  PROVE  LastInv'
<1>0. /\ stepsDone \in Seq(StepDones) /\ Len(reports) \in Nat
      /\ reports \in Seq(Phases \X Nat \X (Tx \cup {NoTx}))
  BY DEF GeneratorTypeOK
<1>1. CASE ReceiveStepDone
  <2>1. /\ reporter = "receiving" /\ stepsDone # <<>>
        /\ current' = Head(stepsDone) /\ stepsDone' = Tail(stepsDone)
        /\ UNCHANGED <<phase, nextStep, lastDispatch, reports, home>>
    BY <1>1 DEF ReceiveStepDone, scheduleVars
  <2>2. Paced /\ Paced' = Paced
    BY <2>1 DEF OrderInv, PlaceOK, Paced
  <2>3. /\ DOMAIN stepsDone = 1 .. Len(stepsDone) /\ current' = stepsDone[1]
        /\ 1 \in DOMAIN stepsDone /\ Len(stepsDone) \in Nat
        /\ DOMAIN stepsDone' = 1 .. Len(stepsDone) - 1
        /\ \A j \in 1 .. Len(stepsDone) - 1 :
             stepsDone'[j] = stepsDone[j + 1] /\ j + 1 \in DOMAIN stepsDone
    BY <1>0, <2>1
  <2>4. /\ IsLastOf(lastDispatch, phase, nextStep)
        /\ \A j \in DOMAIN stepsDone : IsLastOf(stepsDone[j].last, phase, stepsDone[j].index)
    BY <2>2 DEF LastInv, LastsOK
  <2>5. LastsOK'
    <3>1. \A j \in DOMAIN stepsDone' : IsLastOf(stepsDone'[j].last, phase, stepsDone'[j].index)
      BY <2>3, <2>4
    <3>2. IsLastOf(current'.last, phase, current'.index)
      BY <2>3, <2>4
    <3>3. QED
      BY <2>1, <2>2, <2>4, <3>1, <3>2, HereFrame DEF LastsOK, IsLastOf
  <2>6. HomesOK'
    BY <2>1, <2>2 DEF LastInv, HomesOK
  <2>7. QED
    BY <2>1, <2>5, <2>6, ReportedFrame DEF LastInv
<1>2. CASE ReceiveClosed
  <2>1. /\ reporter = "receiving" /\ UNCHANGED <<reports, home>>
        /\ \/ phase = "warmup" /\ phase' = "pause"
           \/ phase # "warmup" /\ phase' = "drain"
    BY <1>2 DEF ReceiveClosed, reportVars
  <2>2. ~Paced'
    BY <2>1 DEF Paced
  <2>3. HomesOK' /\ LastsOK'
    BY <2>1, <2>2 DEF LastInv, HomesOK, LastsOK
  <2>4. QED
    BY <2>1, <2>3, ReportedFrame DEF LastInv
<1>3. CASE PauseTick
  <2>1. /\ reporter = "pausing" /\ UNCHANGED <<phase, reports, home>>
    BY <1>3 DEF PauseTick
  <2>2. phase = "pause"
    BY <2>1 DEF OrderInv, PlaceOK
  <2>3. HomesOK' /\ LastsOK'
    BY <2>1, <2>2 DEF LastInv, HomesOK, LastsOK, Paced
  <2>4. QED
    BY <2>1, <2>3, ReportedFrame DEF LastInv
<1>4. CASE PauseEnds
  <2>1. /\ reporter = "pausing" /\ StartPhase("load") /\ UNCHANGED <<current, reports, home, stage>>
    BY <1>4 DEF PauseEnds, reportVars, trackerVars, txVars
  <2>2. phase = "pause"
    BY <2>1 DEF OrderInv, PlaceOK
  <2>3. \A t \in Tx : home[t].phase # "load"
    BY <2>2 DEF LastInv, HomesOK
  <2>4. QED
    BY <2>1, <2>3, StartPhaseLasts
<1>5. CASE SwapInterval \/ CheckInflight
  <2>1. UNCHANGED <<phase, reporter, nextStep, lastDispatch, stepsDone, current, reports, home>>
    BY <1>5 DEF SwapInterval, CheckInflight, generatorVars, scheduleVars, reportVars
  <2>2. InHand' = InHand
    BY <2>1 DEF InHand
  <2>3. QED
    BY <2>1, <2>2, MoveLasts
<1>6. CASE TakeReport
  <2>1. /\ reporter = "reporting" /\ reporter' = "sending"
        /\ UNCHANGED <<phase, nextStep, lastDispatch, stepsDone, current, reports, home>>
    BY <1>6 DEF TakeReport, scheduleVars
  <2>2. InHand = 1
    BY <2>1 DEF InHand
  <2>3. QED
    BY <2>1, <2>2, MoveLasts
<1>7. CASE SendReport
  <2>1. /\ reporter = "sending" /\ reporter' \in {"pausing", "checking", "receiving"}
        /\ UNCHANGED <<phase, nextStep, lastDispatch, stepsDone, home>>
        /\ \/ reports' = reports
           \/ reports' = Append(reports, <<phase, current.index, current.last>>)
    BY <1>7 DEF SendReport, scheduleVars
  <2>2. InHand = 1 /\ InHand' = 0 /\ Paced' = Paced
    BY <2>1 DEF InHand, Paced
  <2>3. HomesOK'
    BY <2>1, <2>2 DEF LastInv, HomesOK
  <2>4. LastsOK'
    <3>1. \A last, p, i : IsLastOf(last, p, i)' <=> IsLastOf(last, p, i)
      BY <2>1 DEF IsLastOf, Here
    <3>2. QED
      BY <2>1, <2>2, <3>1 DEF LastInv, LastsOK
  <2>5. CASE reports' = reports
    BY <2>1, <2>3, <2>4, <2>5, ReportedFrame DEF LastInv
  <2>6. CASE reports' = Append(reports, <<phase, current.index, current.last>>)
    <3>1. /\ DOMAIN reports' = 1 .. Len(reports) + 1 /\ DOMAIN reports = 1 .. Len(reports)
          /\ \A j \in 1 .. Len(reports) : reports'[j] = reports[j]
          /\ reports'[Len(reports) + 1] = <<phase, current.index, current.last>>
      BY <1>0, <2>6
    <3>2. phase \in {"warmup", "load"} => IsLastOf(current.last, phase, current.index)
      BY <2>2 DEF LastInv, LastsOK, Paced
    <3>3. SUFFICES ASSUME NEW j \in 1 .. Len(reports) + 1, reports'[j][1] \in {"warmup", "load"}
                   PROVE  IsLastOf(reports'[j][3], reports'[j][1], reports'[j][2])
      <4>1. LastDispatchOfItsStep'
        <5>1. \A j \in DOMAIN reports' : reports'[j][1] \in {"warmup", "load"} =>
                IsLastOf(reports'[j][3], reports'[j][1], reports'[j][2])
          BY <3>1, <3>3, Zenon
        <5>2. home' = home
          BY <2>1
        <5>3. \A j \in DOMAIN reports' : reports'[j][1] \in {"warmup", "load"} =>
                IsLastOf(reports[j][3], reports[j][1], reports[j][2])'
          BY <5>1, <5>2 DEF IsLastOf, Here
        <5>4. QED
          BY <5>3 DEF LastDispatchOfItsStep
      <4>2. QED
        BY <2>3, <2>4, <4>1 DEF LastInv
    <3>4. CASE j = Len(reports) + 1
      BY <3>1, <3>2, <3>3, <3>4
    <3>5. CASE j # Len(reports) + 1
      <4>1. j \in DOMAIN reports /\ reports'[j] = reports[j]
        BY <1>0, <3>1, <3>5
      <4>2. QED
        BY <3>3, <4>1 DEF LastInv, LastDispatchOfItsStep
    <3>6. QED
      BY <3>4, <3>5
  <2>7. QED
    BY <2>1, <2>5, <2>6
<1>8. CASE DrainTick
  <2>1. phase = "drain" /\ UNCHANGED <<phase, reports, home>>
    BY <1>8 DEF DrainTick, reportVars, ControlOK
  <2>2. HomesOK' /\ LastsOK'
    BY <2>1 DEF LastInv, HomesOK, LastsOK, Paced
  <2>3. QED
    BY <2>1, <2>2, ReportedFrame DEF LastInv
<1>9. CASE SendFinished \/ Exit
  <2>1. /\ reporter' \in {"finished", "exited"}
        /\ UNCHANGED <<phase, nextStep, lastDispatch, stepsDone, reports, home>>
    BY <1>9 DEF SendFinished, Exit, scheduleVars, reportVars
  <2>2. InHand' = 0
    BY <2>1 DEF InHand
  <2>3. QED
    BY <2>1, <2>2, MoveLasts
<1>10. QED
  BY <1>1, <1>2, <1>3, <1>4, <1>5, <1>6, <1>7, <1>8, <1>9 DEF Reporter

LEMMA LastsStep ==
  ASSUME GeneratorTypeOK, ControlOK, OrderInv, LastInv, [GeneratorNext]_vars
  PROVE  LastInv'
<1>0. \A t \in Tx : stage'[t] = "new" => stage[t] = "new"
  BY NewBefore
<1>1. CASE ReceiveStart
  <2>1. phase = "ready" /\ StartPhase("warmup") /\ UNCHANGED <<current, reports, home, stage>>
    BY <1>1 DEF ReceiveStart, reportVars, trackerVars, txVars, OrderInv, PlaceOK
  <2>2. \A t \in Tx : home[t].phase = "none"
    BY <2>1 DEF LastInv, HomesOK
  <2>3. QED
    BY <2>1, <2>2, StartPhaseLasts
<1>2. ASSUME ReceiveAbort \/ ConnectionFails
      PROVE  LastInv'
  <2>1. /\ reporter' = "failed"
        /\ UNCHANGED <<phase, nextStep, lastDispatch, stepsDone, reports, home>>
    BY <1>2 DEF ReceiveAbort, ConnectionFails, scheduleVars, reportVars
  <2>2. InHand' = 0
    BY <2>1 DEF InHand
  <2>3. QED
    BY <1>0, <2>1, <2>2, MoveLasts
<1>3. ASSUME DrawArrival \/ PacerReturns \/ (\E t \in Tx : Complete(t)) \/ Disconnect
             \/ UNCHANGED vars
      PROVE  LastInv'
  <2>1. UNCHANGED <<phase, reporter, nextStep, lastDispatch, stepsDone, current, reports, home>>
    BY <1>3 DEF DrawArrival, PacerReturns, Complete, Disconnect, vars, generatorVars,
                scheduleVars, reportVars
  <2>2. InHand' = InHand
    BY <2>1 DEF InHand
  <2>3. QED
    BY <1>0, <2>1, <2>2, MoveLasts
<1>4. QED
  BY <1>0, <1>1, <1>2, <1>3, AnnounceLasts, DispatchLasts, ReporterLasts DEF GeneratorNext, Pacer

(* Every step of every phase is reported exactly once and in order, and    *)
(* with the last dispatch of that step (ready.rs:135-180): for any number  *)
(* of transactions and steps, however late the reporting task is.          *)
THEOREM StepsInvariance == GeneratorSpec => []StepsInv
<1>1. GeneratorInit => OrderInv /\ LastInv
  <2> SUFFICES ASSUME GeneratorInit
               PROVE  OrderInv /\ LastInv
    OBVIOUS
  <2>1. /\ phase = "ready" /\ reporter = "ready" /\ reports = <<>> /\ DOMAIN reports = {}
        /\ \A t \in Tx : home[t].phase = "none"
    BY DEF GeneratorInit
  <2>2. ~Paced
    BY <2>1 DEF Paced
  <2>3. QED
    BY <2>1, <2>2 DEF OrderInv, PlaceOK, AnnouncedInOrder, PausedInOrder, OneReportPerStep,
       LastInv, HomesOK, LastsOK, LastDispatchOfItsStep
<1>2. GeneratorInv /\ OrderInv /\ LastInv /\ [GeneratorNext]_vars => OrderInv' /\ LastInv'
  BY OrderStep, LastsStep DEF GeneratorInv
<1>3. OrderInv /\ LastInv => StepsInv
  BY DEF StepsInv, LastInv
<1>4. QED
  BY <1>1, <1>2, <1>3, GeneratorInvariance, PTL DEF GeneratorSpec

(* Steps are reported once each and in order, and nothing else is reported *)
(* while a phase runs (ready.rs:135-180).                                  *)
THEOREM StepsAreReportedOnce == GeneratorSpec => []OneReportPerStep
<1>1. StepsInv => OneReportPerStep
  BY DEF StepsInv, OrderInv
<1>2. QED
  BY <1>1, StepsInvariance, PTL

(* The last dispatch a report names is one of its own step                 *)
(* (dispatch.rs:111-139).                                                  *)
THEOREM ReportsNameTheirDispatch == GeneratorSpec => []LastDispatchOfItsStep
<1>1. StepsInv => LastDispatchOfItsStep
  BY DEF StepsInv, OrderInv
<1>2. QED
  BY <1>1, StepsInvariance, PTL

(* A transaction is never dispatched in a step that has been announced:    *)
(* the pacer announces a step only once it has drawn a later arrival       *)
(* (dispatch.rs:111-129).                                                  *)
THEOREM AnnouncedStepsClosed == GeneratorSpec => AnnouncedStepsAreClosed
<1>1. ASSUME GeneratorInv, StepsInv, [GeneratorNext]_vars, NEW t \in Tx, home[t] # home'[t]
      PROVE  home'[t].step \notin AnnouncedIn(home'[t].phase)
  <2>1. PICK u \in Tx : Dispatch(u)
    BY <1>1 DEF GeneratorNext, Reporter, Pacer, ReceiveStart, ReceiveAbort, ReceiveStepDone,
       ReceiveClosed, PauseTick, PauseEnds, SwapInterval, TakeReport, SendReport, CheckInflight,
       DrainTick, SendFinished, Exit, DrawArrival, AnnounceStep, PacerReturns, Complete,
       Disconnect, ConnectionFails, vars, generatorVars
  <2>2. /\ home' = [home EXCEPT ![u] = [phase |-> phase, step |-> arrival]]
        /\ home \in [Tx -> [phase : Phases \cup {"none"}, step : Nat]]
        /\ nextStep >= arrival /\ Paced /\ GeneratorTypeOK
        /\ nextStep \in Nat /\ arrival \in Nat
    BY <1>1, <2>1 DEF Dispatch, GeneratorInv, GeneratorTypeOK, ControlOK, Paced
  <2>3. nextStep = arrival
    BY <1>1, <2>2 DEF StepsInv, OrderInv, AnnouncedInOrder
  <2>4. home'[t].phase = phase /\ home'[t].step = nextStep
    BY <1>1, <2>2, <2>3
  <2>5. /\ \A j \in DOMAIN stepsDone : stepsDone[j].index < nextStep
        /\ reporter \in {"reporting", "sending"} => current.index < nextStep
        /\ \A j \in DOMAIN reports : reports[j][1] = phase => reports[j][2] < nextStep
    BY <1>1, <2>2, AnnouncedBefore DEF StepsInv, InHand
  <2>6. nextStep \notin AnnouncedIn(phase)
    <3>1. \A i \in Nat : i < nextStep => i # nextStep
      BY <2>2
    <3>2. /\ \A j \in DOMAIN stepsDone : stepsDone[j].index \in Nat
          /\ current.index \in Nat /\ \A j \in DOMAIN reports : reports[j][2] \in Nat
      BY <2>2, IndexTypes
    <3>3. QED
      BY <2>5, <3>1, <3>2 DEF AnnouncedIn
  <2>7. QED
    BY <2>4, <2>6
<1>2. ASSUME GeneratorInv, StepsInv, [GeneratorNext]_vars
      PROVE  [\A t \in Tx : home[t] # home'[t] => home'[t].step \notin AnnouncedIn(home'[t].phase)]_vars
  BY <1>1, <1>2
<1>3. QED
  BY <1>2, GeneratorInvariance, StepsInvariance, PTL DEF GeneratorSpec, AnnouncedStepsAreClosed

-----------------------------------------------------------------------------
(* Refinement of ReportStream.  The reports sent agree with its targets,   *)
(* and their number is that of the steps at the end of the load phase.     *)
StreamStatus == CASE reporter = "finished" -> "finished"
                  [] Stopped              -> "closed"
                  [] OTHER                -> "open"
LastTarget   == IF reports = <<>> THEN 0 ELSE reports[Len(reports)][2] + 1

LEMMA ReportsAreOnTarget ==
  GeneratorTypeOK /\ OneReportPerStep /\ reports # <<>>
    => LastTarget = Promised!Target(Len(reports))
<1> SUFFICES ASSUME GeneratorTypeOK, OneReportPerStep, reports # <<>>
             PROVE  LastTarget = Promised!Target(Len(reports))
  OBVIOUS
<1> DEFINE n == Len(reports)
<1>1. n \in Nat \ {0} /\ n \in DOMAIN reports
  BY DEF GeneratorTypeOK
<1>2. WarmupSteps \in Nat /\ PauseSteps \in Nat /\ LoadSteps \in Nat
  BY StepsAssumption
<1>3. <<reports[n][1], reports[n][2]>> = PhaseOf(n)
  BY <1>1 DEF OneReportPerStep
<1>4. reports[n][2] = CASE n <= WarmupSteps             -> n - 1
                        [] n > WarmupSteps + PauseSteps -> n - 1 - WarmupSteps - PauseSteps
                        [] OTHER                        -> n - 1 - WarmupSteps
  BY <1>1, <1>2, <1>3 DEF PhaseOf
<1> HIDE DEF n
<1>5. reports[n][2] + 1 = Promised!Target(n)
  BY <1>1, <1>2, <1>4 DEF Promised!Target
<1> QED
  BY <1>5 DEF LastTarget, n

(* What has been sent and what is in hand is within the steps there are.   *)
LEMMA StepsAreLeft ==
  ASSUME GeneratorTypeOK, ControlOK, OrderInv, reporter = "sending", phase # "drain"
  PROVE  Len(reports) + 1 <= Promised!Measured
<1>1. WarmupSteps \in Nat /\ PauseSteps \in Nat /\ LoadSteps \in Nat
  BY StepsAssumption
<1>2. /\ Len(reports) \in Nat /\ Len(stepsDone) \in Nat
      /\ nextStep \in Nat /\ arrival \in Nat
  BY DEF GeneratorTypeOK
<1>3. phase \in {"warmup", "pause", "load"} /\ InHand = 1 /\ ~Stopped
  BY DEF GeneratorTypeOK, Phases, OrderInv, PlaceOK, InHand, Stopped
<1>4. CASE phase = "pause"
  BY <1>1, <1>2, <1>3, <1>4 DEF OrderInv, PausedInOrder, Promised!Measured
<1>5. CASE Paced
  <2>1. /\ nextStep <= arrival /\ arrival <= Steps
        /\ nextStep = Len(reports) - Before + 1 + Len(stepsDone)
    BY <1>3, <1>5 DEF OrderInv, AnnouncedInOrder
  <2>2. /\ Before + Steps <= Promised!Measured /\ Promised!Measured \in Nat
        /\ Before \in Nat /\ Steps \in Nat
    BY <1>1, <1>5 DEF Paced, Before, Steps, Promised!Measured
  <2> QED
    BY <1>2, <2>1, <2>2
<1> QED
  BY <1>3, <1>4, <1>5 DEF Paced

LEMMA StatusIs ==
  /\ StreamStatus = "open" <=> reporter \notin {"finished", "failed", "exited"}
  /\ StreamStatus = "finished" <=> reporter = "finished"
  /\ StreamStatus = "closed" <=> reporter \in {"failed", "exited"}
BY DEF StreamStatus, Stopped

LEMMA StatusWillBe ==
  /\ StreamStatus' = "open" <=> reporter' \notin {"finished", "failed", "exited"}
  /\ StreamStatus' = "finished" <=> reporter' = "finished"
  /\ StreamStatus' = "closed" <=> reporter' \in {"failed", "exited"}
BY DEF StreamStatus, Stopped

LEMMA SendReportStreams ==
  ASSUME GeneratorInv, OrderInv, OneReportPerStep', GeneratorTypeOK', SendReport
  PROVE  \/ Promised!ReportStep
         \/ UNCHANGED <<reports, LastTarget, StreamStatus>>
<1>1. /\ StreamStatus = "open" /\ StreamStatus' = "open"
      /\ GeneratorTypeOK /\ ControlOK /\ reporter = "sending"
  BY StatusIs, StatusWillBe DEF SendReport, GeneratorInv
<1>2. CASE phase = "drain"
  <2>1. reports' = reports
    BY <1>2 DEF SendReport
  <2> QED
    BY <1>1, <2>1 DEF LastTarget
<1>3. CASE phase # "drain"
  <2>1. /\ Len(reports) \in Nat /\ Len(reports') = Len(reports) + 1 /\ reports' # <<>>
    BY <1>1, <1>3 DEF SendReport, GeneratorTypeOK
  <2>2. LastTarget' = Promised!Target(Len(reports) + 1)
    <3>1. (/\ GeneratorTypeOK /\ OneReportPerStep /\ reports # <<>>
           => LastTarget = Promised!Target(Len(reports)))'
      BY ReportsAreOnTarget, PTL
    <3> QED
      BY <2>1, <3>1 DEF Promised!Target
  <2>3. Len(reports) + 1 <= Promised!Measured /\ Promised!Measured \in Nat
    BY <1>1, <1>3, StepsAreLeft, StepsAssumption DEF Promised!Measured
  <2>4. Len(reports) < Promised!Measured
    BY <2>1, <2>3
  <2> QED
    BY <1>1, <2>1, <2>2, <2>4 DEF Promised!ReportStep, StreamStatus, LastTarget
<1> QED
  BY <1>2, <1>3

(* The load generator keeps what ReportStream promises (ready.rs:104-203): *)
(* for any number of steps and transactions, and whatever becomes of the   *)
(* connection.                                                             *)
THEOREM StreamRefinement == GeneratorSpec => StreamSpec
<1>1. GeneratorInit => Promised!Init
  BY StatusIs DEF GeneratorInit, Promised!Init, StreamStatus
<1>2. /\ GeneratorInv /\ StepsInv /\ GeneratorInv' /\ StepsInv' /\ [GeneratorNext]_vars
      => [Promised!Next]_(Promised!streamVars)
  <2> SUFFICES ASSUME GeneratorInv, StepsInv, GeneratorInv', StepsInv', [GeneratorNext]_vars
               PROVE  Promised!Next \/ UNCHANGED Promised!streamVars
    OBVIOUS
  <2>1. ASSUME UNCHANGED <<reports, LastTarget, StreamStatus>>
        PROVE  UNCHANGED Promised!streamVars
    BY <2>1 DEF Promised!streamVars, StreamStatus, LastTarget
  <2>2. CASE SendReport
    BY <2>1, <2>2, SendReportStreams DEF StepsInv, OrderInv, GeneratorInv, Promised!Next
  <2>3. CASE SendFinished
    <3>1. /\ phase = "drain" /\ reports' = reports
          /\ StreamStatus = "open" /\ StreamStatus' = "finished"
      BY <2>3, StatusIs, StatusWillBe DEF SendFinished, GeneratorInv, ControlOK, reportVars
    <3>2. Len(reports) = Promised!Measured
      BY <3>1 DEF StepsInv, OrderInv, OneReportPerStep, Promised!Measured
    <3> QED
      BY <3>1, <3>2 DEF Promised!Next, Promised!Finish, StreamStatus
  <2>4. CASE ReceiveAbort \/ ConnectionFails \/ Exit
    <3>1. /\ reports' = reports /\ LastTarget' = LastTarget /\ StreamStatus' = "closed"
      BY <2>4, StatusWillBe DEF ReceiveAbort, ConnectionFails, Exit, reportVars, LastTarget
    <3>2. CASE StreamStatus = "closed"
      BY <2>1, <3>1, <3>2
    <3>3. CASE StreamStatus # "closed"
      BY <3>1, <3>3 DEF Promised!Next, Promised!Close, StreamStatus, LastTarget
    <3> QED
      BY <3>2, <3>3
  <2>5. CASE \/ ReceiveStart \/ ReceiveStepDone \/ ReceiveClosed \/ PauseTick \/ PauseEnds
             \/ TakeReport \/ DrainTick
    <3>1. reports' = reports /\ StreamStatus' = "open" /\ StreamStatus = "open"
      BY <2>5, StatusIs, StatusWillBe
         DEF ReceiveStart, ReceiveStepDone, ReceiveClosed, PauseTick, PauseEnds, TakeReport,
             DrainTick, StartPhase, reportVars
    <3> QED
      BY <2>1, <3>1 DEF LastTarget
  <2>6. CASE \/ SwapInterval \/ CheckInflight \/ Pacer \/ Disconnect \/ UNCHANGED vars
             \/ \E t \in Tx : Complete(t)
    <3>1. reports' = reports /\ reporter' = reporter
      BY <2>6 DEF SwapInterval, CheckInflight, Pacer, DrawArrival, AnnounceStep, Dispatch,
         PacerReturns, Disconnect, Complete, vars, generatorVars, reportVars
    <3> QED
      BY <2>1, <3>1 DEF LastTarget, StreamStatus, Stopped
  <2> QED
    BY <2>2, <2>3, <2>4, <2>5, <2>6 DEF GeneratorNext, Reporter
<1> QED
  BY <1>1, <1>2, GeneratorInvariance, StepsInvariance, PTL
     DEF GeneratorSpec, StreamSpec, Promised!Spec
=============================================================================
