---------------------------- MODULE TestSession ----------------------------
(***************************************************************************)
(* What a test session promises, whatever is lost and whoever crashes: it  *)
(* is decided once, for all load generators, whether there will be a test; *)
(* it is decided for one only when every generator is prepared; no         *)
(* generator starts its test without that decision, and none after the     *)
(* contrary one; and the session counts as finished only if every          *)
(* generator has finished.                                                 *)
(***************************************************************************)
CONSTANT Generators

VARIABLES
  prepared, \* the generators that have prepared for the test
  decision, \* is there to be a test? "open", "go", "abort"
  progress, \* of each generator: "preparing", "testing", "finished", "failed"
  verdict   \* what is made known of the session: "none", "finished", "failed"

sessionVars == <<prepared, decision, progress, verdict>>

Init ==
  /\ prepared = {} /\ decision = "open"
  /\ progress = [g \in Generators |-> "preparing"]
  /\ verdict = "none"

Goes(g, from, to) == progress[g] = from /\ progress' = [progress EXCEPT ![g] = to]

Prepare(g) ==
  /\ progress[g] = "preparing"
  /\ prepared' = prepared \cup {g}
  /\ UNCHANGED <<decision, progress, verdict>>

Go ==
  /\ decision = "open" /\ prepared = Generators
  /\ decision' = "go"
  /\ UNCHANGED <<prepared, progress, verdict>>

Abort ==
  /\ decision = "open"
  /\ decision' = "abort" /\ verdict' \in {verdict, "failed"}
  /\ UNCHANGED <<prepared, progress>>

Start(g) ==
  /\ decision = "go" /\ Goes(g, "preparing", "testing")
  /\ UNCHANGED <<prepared, decision, verdict>>

Finish(g) ==
  /\ Goes(g, "testing", "finished")
  /\ UNCHANGED <<prepared, decision, verdict>>

Fail(g) ==
  /\ Goes(g, "preparing", "failed") \/ Goes(g, "testing", "failed")
  /\ UNCHANGED <<prepared, decision, verdict>>

Succeed ==
  /\ verdict = "none" /\ decision = "go"
  /\ \A g \in Generators : progress[g] = "finished"
  /\ verdict' = "finished"
  /\ UNCHANGED <<prepared, decision, progress>>

GiveUp ==
  /\ verdict = "none" /\ decision # "open"
  /\ verdict' = "failed"
  /\ UNCHANGED <<prepared, decision, progress>>

Next ==
  \/ Go \/ Abort \/ Succeed \/ GiveUp
  \/ \E g \in Generators : Prepare(g) \/ Start(g) \/ Finish(g) \/ Fail(g)

Spec == Init /\ [][Next]_sessionVars
=============================================================================
