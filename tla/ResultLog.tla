----------------------------- MODULE ResultLog -----------------------------
(***************************************************************************)
(* What the tracker promises about result rows, without saying how: a      *)
(* result that is logged is held until the next hand-over, and a hand-over *)
(* delivers everything held, each result exactly once.                     *)
(***************************************************************************)
CONSTANT Tx         \* the transactions

VARIABLES held,      \* logged, not handed over yet
          delivered  \* handed over in some interval report

vars == <<held, delivered>>

Init == held = {} /\ delivered = {}

Log(t) ==
  /\ t \notin held \cup delivered
  /\ held' = held \cup {t}
  /\ UNCHANGED delivered

HandOver ==
  /\ delivered' = delivered \cup held
  /\ held' = {}

Next == HandOver \/ \E t \in Tx : Log(t)

Spec == Init /\ [][Next]_vars
=============================================================================
