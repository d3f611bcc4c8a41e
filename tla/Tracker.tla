------------------------------ MODULE Tracker ------------------------------
(***************************************************************************)
(* The load generator's Tracker (src/src/tracker.rs): the only state that  *)
(* the pacer thread, the transaction tasks and the reporting task share.   *)
(*                                                                         *)
(* Every atomic read-modify-write, every atomic load and every critical    *)
(* section of the row mutex is one action, so the calls of the clients     *)
(* interleave as they do on the multi-threaded runtime.  A transaction     *)
(* task makes one log_result call; the reporting task makes any number of  *)
(* interval_statistics and inflight_count calls, one at a time; the pacer  *)
(* may call log_dispatched at any moment.  LoadGenerator restricts these   *)
(* calls to the order in which the load generator makes them.              *)
(***************************************************************************)
EXTENDS Naturals, FiniteSets, FiniteSetsExt

CONSTANTS Tx,       \* the transactions that may be dispatched
          Outcomes, \* the outcomes a transaction may end with
          Millis    \* the service times of requests, in milliseconds

Kinds == {"success", "failed", "timeout", "dropped"}

ASSUME TxAssumption == IsFiniteSet(Tx)
ASSUME OutcomesAssumption == Outcomes \subseteq Kinds
ASSUME MillisAssumption == Millis \subseteq Nat

VARIABLES
  stage,      \* how far each transaction is: its next step, by name
  outcome,    \* the outcome of each transaction that has one
  millis,     \* the service time of each transaction that has one
  dispatched, \* Inner::dispatched
  total,      \* Inner::total
  counts,     \* IntervalTracker::counts
  timeSum,    \* IntervalTracker::service_time_sum
  timeCount,  \* IntervalTracker::service_time_count
  rows,       \* IntervalTracker::transaction_results, as a set
  call,       \* the call the reporting task is in
  field,      \* the next field that call reads
  stats,      \* what interval_statistics has taken so far
  seen,       \* what inflight_count has loaded so far
  answer,     \* what the last inflight_count returned
  reported    \* the sum of all statistics ever returned

txVars     == <<stage, outcome, millis>>
totalVars  == <<dispatched, total>>
shareVars  == <<counts, timeSum, timeCount, rows>>
callVars   == <<call, field, stats, seen, answer, reported>>
trackerVars == <<txVars, totalVars, shareVars, callVars>>

-----------------------------------------------------------------------------
(* IntervalStatistics: a value, and the + by which intervals are summed. *)

NoCounts == [k \in Kinds |-> 0]
NoStats  == [counts |-> NoCounts, sum |-> 0, count |-> 0, rows |-> {}]

AddCounts(a, b) == [k \in Kinds |-> a[k] + b[k]]

AddStats(a, b) ==
  [counts |-> AddCounts(a.counts, b.counts),
   sum    |-> a.sum + b.sum,
   count  |-> a.count + b.count,
   rows   |-> a.rows \cup b.rows]

Monus(a, b) == IF a > b THEN a - b ELSE 0    \* u64::saturating_sub

(* The order in which both calls of the reporting task visit the fields. *)
NextField == [success |-> "failed", failed |-> "timeout", timeout |-> "dropped",
              dropped |-> "sum", sum |-> "count", count |-> "rows",
              rows |-> "success"]
Fields == DOMAIN NextField

-----------------------------------------------------------------------------
(* log_dispatched(1), called by the pacer just before it spawns the task. *)
LogDispatched(t) ==
  /\ stage[t] = "new"
  /\ stage' = [stage EXCEPT ![t] = "running"]
  /\ dispatched' = dispatched + 1
  /\ UNCHANGED <<outcome, millis, total, shareVars, callVars>>

(* log_result, called by the task of t once the outcome is known: the      *)
(* total first, then the interval's counter, service time and row.  A      *)
(* dropped transaction has no service time.                                *)
LogTotalUndropped(t, k, ms) ==   \* mutant: drops are left out of the totals
  /\ stage[t] = "running"
  /\ stage' = [stage EXCEPT ![t] = "counting"]
  /\ outcome' = [outcome EXCEPT ![t] = k]
  /\ millis' = [millis EXCEPT ![t] = ms]
  /\ total' = IF k = "dropped" THEN total ELSE [total EXCEPT ![k] = @ + 1]
  /\ UNCHANGED <<dispatched, shareVars, callVars>>

LogTotal(t, k, ms) ==
  /\ stage[t] = "running"
  /\ stage' = [stage EXCEPT ![t] = "counting"]
  /\ outcome' = [outcome EXCEPT ![t] = k]
  /\ millis' = [millis EXCEPT ![t] = ms]
  /\ total' = [total EXCEPT ![k] = @ + 1]
  /\ UNCHANGED <<dispatched, shareVars, callVars>>

LogCount(t) ==
  /\ stage[t] = "counting"
  /\ stage' = [stage EXCEPT ![t] = IF outcome[t] = "dropped" THEN "pushing" ELSE "summing"]
  /\ counts' = [counts EXCEPT ![outcome[t]] = @ + 1]
  /\ UNCHANGED <<outcome, millis, totalVars, timeSum, timeCount, rows, callVars>>

LogTimeSum(t) ==
  /\ stage[t] = "summing"
  /\ stage' = [stage EXCEPT ![t] = "timing"]
  /\ timeSum' = timeSum + millis[t]
  /\ UNCHANGED <<outcome, millis, totalVars, counts, timeCount, rows, callVars>>

LogTimeCount(t) ==
  /\ stage[t] = "timing"
  /\ stage' = [stage EXCEPT ![t] = "pushing"]
  /\ timeCount' = timeCount + 1
  /\ UNCHANGED <<outcome, millis, totalVars, counts, timeSum, rows, callVars>>

LogPush(t) ==
  /\ stage[t] = "pushing"
  /\ stage' = [stage EXCEPT ![t] = "logged"]
  /\ rows' = rows \cup {t}
  /\ UNCHANGED <<outcome, millis, totalVars, counts, timeSum, timeCount, callVars>>

-----------------------------------------------------------------------------
(* interval_statistics: swap the counters to 0 one by one, then take the   *)
(* rows under the mutex and return.                                        *)
BeginInterval ==
  /\ call = "none"
  /\ call' = "interval_statistics"
  /\ field' = "success"
  /\ UNCHANGED <<txVars, totalVars, shareVars, stats, seen, answer, reported>>

SwapCountOnlySuccess(k) ==   \* mutant: every swap resets the success counter
  /\ call = "interval_statistics" /\ field = k
  /\ stats' = [stats EXCEPT !.counts[k] = counts[k]]
  /\ counts' = [counts EXCEPT !["success"] = 0]
  /\ field' = NextField[k]
  /\ UNCHANGED <<txVars, totalVars, timeSum, timeCount, rows, call, seen, answer, reported>>

SwapCount(k) ==
  /\ call = "interval_statistics" /\ field = k
  /\ stats' = [stats EXCEPT !.counts[k] = counts[k]]
  /\ counts' = [counts EXCEPT ![k] = 0]
  /\ field' = NextField[k]
  /\ UNCHANGED <<txVars, totalVars, timeSum, timeCount, rows, call, seen, answer, reported>>

SwapTimeSumKept ==   \* mutant: the sum is loaded and not reset
  /\ call = "interval_statistics" /\ field = "sum"
  /\ stats' = [stats EXCEPT !.sum = timeSum]
  /\ field' = NextField["sum"]
  /\ UNCHANGED <<txVars, totalVars, shareVars, call, seen, answer, reported>>

SwapTimeSum ==
  /\ call = "interval_statistics" /\ field = "sum"
  /\ stats' = [stats EXCEPT !.sum = timeSum]
  /\ timeSum' = 0
  /\ field' = NextField["sum"]
  /\ UNCHANGED <<txVars, totalVars, counts, timeCount, rows, call, seen, answer, reported>>

SwapTimeCount ==
  /\ call = "interval_statistics" /\ field = "count"
  /\ stats' = [stats EXCEPT !.count = timeCount]
  /\ timeCount' = 0
  /\ field' = NextField["count"]
  /\ UNCHANGED <<txVars, totalVars, counts, timeSum, rows, call, seen, answer, reported>>

TakeRowsCloned ==   \* mutant: the rows are cloned out and stay in the tracker
  /\ call = "interval_statistics" /\ field = "rows"
  /\ reported' = AddStats(reported, [stats EXCEPT !.rows = rows])
  /\ stats' = NoStats
  /\ call' = "none"
  /\ field' = NextField["rows"]
  /\ UNCHANGED <<txVars, totalVars, shareVars, seen, answer>>

TakeRows ==
  /\ call = "interval_statistics" /\ field = "rows"
  /\ reported' = AddStats(reported, [stats EXCEPT !.rows = rows])
  /\ rows' = {}
  /\ stats' = NoStats
  /\ call' = "none"
  /\ field' = NextField["rows"]
  /\ UNCHANGED <<txVars, totalVars, counts, timeSum, timeCount, seen, answer>>

(* inflight_count: load dispatched, then the four totals, then subtract. *)
BeginInflight ==
  /\ call = "none"
  /\ call' = "inflight_count"
  /\ field' = "success"
  /\ seen' = [dispatched |-> dispatched, sum |-> 0]
  /\ UNCHANGED <<txVars, totalVars, shareVars, stats, answer, reported>>

LoadTotal(k) ==
  /\ call = "inflight_count" /\ field = k
  /\ LET sum == seen.sum + total[k] IN
       IF k = "dropped"
       THEN /\ answer' = Monus(seen.dispatched, sum)
            /\ seen' = [dispatched |-> 0, sum |-> 0]
            /\ call' = "none"
            /\ field' = "success"
       ELSE /\ seen' = [seen EXCEPT !.sum = sum]
            /\ field' = NextField[k]
            /\ UNCHANGED <<call, answer>>
  /\ UNCHANGED <<txVars, totalVars, shareVars, stats, reported>>

-----------------------------------------------------------------------------
Init ==
  /\ stage = [t \in Tx |-> "new"]
  /\ outcome = [t \in Tx |-> "none"]
  /\ millis = [t \in Tx |-> 0]
  /\ dispatched = 0
  /\ total = NoCounts
  /\ counts = NoCounts /\ timeSum = 0 /\ timeCount = 0 /\ rows = {}
  /\ call = "none" /\ field = "success"
  /\ stats = NoStats
  /\ seen = [dispatched |-> 0, sum |-> 0]
  /\ answer = 0
  /\ reported = NoStats

LogResult(t) ==
  \/ \E k \in Outcomes \ {"dropped"}, ms \in Millis : LogTotal(t, k, ms)
  \/ "dropped" \in Outcomes /\ LogTotal(t, "dropped", 0)
  \/ LogCount(t) \/ LogTimeSum(t) \/ LogTimeCount(t) \/ LogPush(t)

IntervalStatistics ==
  \/ \E k \in Kinds : SwapCount(k)
  \/ SwapTimeSum \/ SwapTimeCount \/ TakeRows

InflightCount == \E k \in Kinds : LoadTotal(k)

Next ==
  \/ \E t \in Tx : LogDispatched(t) \/ LogResult(t)
  \/ BeginInterval \/ IntervalStatistics
  \/ BeginInflight \/ InflightCount

Spec == Init /\ [][Next]_trackerVars

-----------------------------------------------------------------------------
(* Type invariant of the tracker. *)
Stages   == {"new", "running", "counting", "summing", "timing", "pushing", "logged"}
Counters == [Kinds -> Nat]
Statistics == [counts : Counters, sum : Nat, count : Nat, rows : SUBSET Tx]

TypeOK ==
  /\ stage \in [Tx -> Stages]
  /\ outcome \in [Tx -> Kinds \cup {"none"}]
  /\ millis \in [Tx -> Nat]
  /\ dispatched \in Nat /\ total \in Counters
  /\ counts \in Counters /\ timeSum \in Nat /\ timeCount \in Nat /\ rows \in SUBSET Tx
  /\ call \in {"none", "interval_statistics", "inflight_count"} /\ field \in Fields
  /\ stats \in Statistics /\ reported \in Statistics
  /\ seen \in [dispatched : Nat, sum : Nat] /\ answer \in Nat

(* The transactions whose log_result call has passed a given step. *)
Dispatched    == {t \in Tx : stage[t] # "new"}
Totalled(k)   == {t \in Tx : outcome[t] = k}
Counted(k)    == {t \in Totalled(k) : stage[t] # "counting"}
TimeCounted   == {t \in Tx : /\ stage[t] \in {"pushing", "logged"}
                             /\ outcome[t] # "dropped"}
Logged        == {t \in Tx : stage[t] = "logged"}

(* The atomics that inflight_count subtracts are exact at every moment:    *)
(* dispatched counts the spawned transactions and the totals those whose   *)
(* outcome is known (tracker.rs:23-37, 80-85).                             *)
TotalsExact ==
  /\ dispatched = Cardinality(Dispatched)
  /\ \A k \in Kinds : total[k] = Cardinality(Totalled(k))

(* However log_result calls interleave with the swaps of                   *)
(* interval_statistics, no increment of an outcome counter is lost or      *)
(* reported twice (tracker.rs:45-48 against 136-155).                      *)
CountsConserved ==
  \A k \in Kinds :
    reported.counts[k] + stats.counts[k] + counts[k] = Cardinality(Counted(k))

(* The same for the number of service times that the average divides by    *)
(* (tracker.rs:51 against 140, 145, 150).                                  *)
TimeCountConserved ==
  reported.count + stats.count + timeCount = Cardinality(TimeCounted)

(* And for the service times themselves: no millisecond is lost or         *)
(* reported twice (tracker.rs:50 against 139, 144, 149).                   *)
Summed == {t \in Tx : /\ stage[t] \in {"timing", "pushing", "logged"}
                      /\ outcome[t] # "dropped"}

SumOf(values, S) == MapThenSumSet(LAMBDA t : values[t], S)

ServiceTimeConserved == reported.sum + stats.sum + timeSum = SumOf(millis, Summed)

(* Each logged row is in the tracker or in exactly one report              *)
(* (tracker.rs:52-54, 156).                                                *)
RowsPartitioned ==
  /\ rows \cup reported.rows = Logged
  /\ rows \cap reported.rows = {}
  /\ stats.rows = {}

(* Nothing is in progress and the interval has been emptied. *)
AtRest ==
  /\ call = "none"
  /\ counts = NoCounts /\ timeCount = 0 /\ rows = {}
  /\ \A t \in Tx : stage[t] \in {"new", "running", "logged"}

(* Although the counters and the rows of ONE interval may disagree, the    *)
(* sum of the reports agrees with their rows whenever the tracker is at    *)
(* rest: per outcome, and in the number of service times (what             *)
(* interval.csv and transactions.csv are written from).                    *)
ReportsAgreeAtRest ==
  AtRest =>
    /\ \A k \in Kinds :
         reported.counts[k] = Cardinality({t \in reported.rows : outcome[t] = k})
    /\ reported.count = Cardinality({t \in reported.rows : outcome[t] # "dropped"})

(* Only a finished request has an outcome, and a drop no service time. *)
StageOutcome ==
  \A t \in Tx :
    /\ outcome[t] = "none" <=> stage[t] \in {"new", "running"}
    /\ stage[t] \in {"summing", "timing"} => outcome[t] # "dropped"

(* interval_statistics has taken nothing from the fields it has yet to     *)
(* visit, and keeps nothing between two calls.                             *)
Position == [success |-> 1, failed |-> 2, timeout |-> 3, dropped |-> 4,
             sum |-> 5, count |-> 6, rows |-> 7]
Visited(f) == call = "interval_statistics" /\ Position[f] < Position[field]

NotYetTaken ==
  /\ \A k \in Kinds : ~Visited(k) => stats.counts[k] = 0
  /\ ~Visited("sum") => stats.sum = 0
  /\ ~Visited("count") => stats.count = 0
  /\ call = "none" => field = "success"

(* The inductive invariant: what each interleaving of the calls preserves. *)
IndInv ==
  /\ TypeOK
  /\ NotYetTaken
  /\ StageOutcome
  /\ TotalsExact
  /\ CountsConserved
  /\ TimeCountConserved
  /\ RowsPartitioned

(* The rows alone implement the abstract result log: push and the swap of  *)
(* the vector are atomic under its mutex (tracker.rs:52-54, 156).          *)
Log == INSTANCE ResultLog WITH held <- rows, delivered <- reported.rows
LogSpec == Log!Spec
=============================================================================
