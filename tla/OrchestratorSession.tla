------------------------ MODULE OrchestratorSession ------------------------
(***************************************************************************)
(* A test session from connecting to exit: the orchestrator's run          *)
(* (orchestrator/runner.rs with phases/connect.rs, configure.rs, start.rs  *)
(* and handle.rs) and the other end of each connection, a load generator   *)
(* process (load_generator/mod.rs, phases/connect.rs, configure.rs).       *)
(*                                                                         *)
(* Each phase of the orchestrator runs one task per load generator and     *)
(* then awaits them all.  What happens between Start and the end of a test *)
(* is LoadGenerator's and ReportPipeline's; here a test ends, or fails.    *)
(* Messages are delivered in order; a process that ends closes its         *)
(* connections, which the other end notices once it has read what was      *)
(* sent, or earlier, when it sends.                                        *)
(***************************************************************************)
EXTENDS Naturals, Sequences

CONSTANTS N,          \* load generators, numbered as in the command line
          MaxRetries  \* connection attempts after the first

ASSUME SessionAssumption == N \in Nat \ {0} /\ MaxRetries \in Nat

Generators == 1 .. N

VARIABLES
  runner,   \* the phase LoadTestRunner::run is in
  result,   \* what it returned
  peer,     \* how far the orchestrator is with each generator
  attempts, \* failed connection attempts
  open,     \* is the orchestrator's end of each connection open?
  toGen,    \* messages to each generator
  toOrch,   \* messages from it
  gen,      \* where each generator process is
  readied,  \* history: the generators that reported Ready
  started   \* history: the generators that received Start

runnerVars == <<runner, result>>
genVars    == <<gen, readied, started>>
vars == <<runnerVars, peer, attempts, open, toGen, toOrch, genVars>>

-----------------------------------------------------------------------------
Connected == {"configuring", "setting_up", "ready", "testing"}
Ended     == {"finished", "failed"}

Say(queue, g, message) == queue' = [queue EXCEPT ![g] = Append(@, message)]
Hear(queue, g, message) == /\ queue[g] # <<>> /\ Head(queue[g]) = message
                           /\ queue' = [queue EXCEPT ![g] = Tail(@)]

Becomes(g, state) == peer' = [peer EXCEPT ![g] = state]
Some(state) == \E g \in Generators : peer[g] = state
IsFirst(g, state) == peer[g] = state /\ \A h \in 1 .. g - 1 : peer[h] # state

(* run returns, and main ends the process. *)
Return(verdict) ==
  /\ runner' = "exited" /\ result' = verdict
  /\ open' = [g \in Generators |-> FALSE]

-----------------------------------------------------------------------------
(* ConnectHandle::connect, one task per generator. *)
ConnectSucceeds(g) ==
  /\ runner = "connecting" /\ peer[g] = "connecting" /\ gen[g] = "listening"
  /\ Becomes(g, "connected")
  /\ open' = [open EXCEPT ![g] = TRUE]
  /\ gen' = [gen EXCEPT ![g] = "configuring"]
  /\ UNCHANGED <<runnerVars, attempts, toGen, toOrch, readied, started>>

ConnectOnceMore(g) ==   \* mutant: one retry too many
  /\ runner = "connecting" /\ peer[g] = "connecting"
  /\ attempts' = [attempts EXCEPT ![g] = @ + 1]
  /\ IF attempts[g] > MaxRetries THEN Becomes(g, "unreachable") ELSE UNCHANGED peer
  /\ UNCHANGED <<runnerVars, open, toGen, toOrch, genVars>>

ConnectAttemptFails(g) ==
  /\ runner = "connecting" /\ peer[g] = "connecting"
  /\ attempts' = [attempts EXCEPT ![g] = @ + 1]
  /\ IF attempts[g] = MaxRetries THEN Becomes(g, "unreachable") ELSE UNCHANGED peer
  /\ UNCHANGED <<runnerVars, open, toGen, toOrch, genVars>>

AllConnectsDone ==
  /\ runner = "connecting" /\ ~Some("connecting")
  /\ runner' = IF Some("unreachable") THEN "aborting_connected" ELSE "configuring"
  /\ UNCHANGED <<result, peer, attempts, open, toGen, toOrch, genVars>>

(* ConfigureHandle::send_abort, one after the other; errors are logged.    *)
SendAbortConnected(g) ==
  /\ runner = "aborting_connected" /\ ~Some("aborting") /\ IsFirst(g, "connected")
  /\ \/ Say(toGen, g, "abort") /\ Becomes(g, "aborting") /\ UNCHANGED open
     \/ /\ gen[g] \in Ended
        /\ Becomes(g, "dropped") /\ open' = [open EXCEPT ![g] = FALSE]
        /\ UNCHANGED toGen
  /\ UNCHANGED <<runnerVars, attempts, toOrch, genVars>>

AbortAnsweredOnly(g) ==   \* mutant: a disconnect is not an answer
  /\ runner = "aborting_connected" /\ peer[g] = "aborting"
  /\ Hear(toOrch, g, "aborted")
  /\ Becomes(g, "dropped") /\ open' = [open EXCEPT ![g] = FALSE]
  /\ UNCHANGED <<runnerVars, attempts, toGen, genVars>>

AbortAnswered(g) ==
  /\ runner = "aborting_connected" /\ peer[g] = "aborting"
  /\ \/ Hear(toOrch, g, "aborted")
     \/ toOrch[g] = <<>> /\ gen[g] \in Ended /\ UNCHANGED toOrch
  /\ Becomes(g, "dropped") /\ open' = [open EXCEPT ![g] = FALSE]
  /\ UNCHANGED <<runnerVars, attempts, toGen, genVars>>

ConnectFailed ==
  /\ runner = "aborting_connected" /\ ~Some("connected") /\ ~Some("aborting")
  /\ Return("failed")
  /\ UNCHANGED <<peer, attempts, toGen, toOrch, genVars>>

-----------------------------------------------------------------------------
(* ConfigureHandle::configure, one task per generator. *)
SendConfig(g) ==
  /\ runner = "configuring" /\ peer[g] = "connected"
  /\ \/ Say(toGen, g, "config") /\ Becomes(g, "configuring") /\ UNCHANGED open
     \/ /\ gen[g] \in Ended
        /\ Becomes(g, "refused") /\ open' = [open EXCEPT ![g] = FALSE]
        /\ UNCHANGED toGen
  /\ UNCHANGED <<runnerVars, attempts, toOrch, genVars>>

(* into_inner drops what the framer has read after the answer. *)
ConfigReady(g) ==
  /\ runner = "configuring" /\ peer[g] = "configuring"
  /\ Hear(toOrch, g, "ready")
  /\ Becomes(g, "configured")
  /\ UNCHANGED <<runnerVars, attempts, open, toGen, genVars>>

ConfigFails(g) ==
  /\ runner = "configuring" /\ peer[g] = "configuring"
  /\ \/ Hear(toOrch, g, "setup_failed")
     \/ toOrch[g] = <<>> /\ gen[g] \in Ended /\ UNCHANGED toOrch
  /\ Becomes(g, "refused") /\ open' = [open EXCEPT ![g] = FALSE]
  /\ UNCHANGED <<runnerVars, attempts, toGen, genVars>>

AllConfiguredAnyReady ==   \* mutant: goes on with those that are ready
  /\ runner = "configuring" /\ ~Some("connected") /\ ~Some("configuring")
  /\ runner' = IF Some("configured") THEN "starting" ELSE "aborting_ready"
  /\ UNCHANGED <<result, peer, attempts, open, toGen, toOrch, genVars>>

AllConfigured ==
  /\ runner = "configuring" /\ ~Some("connected") /\ ~Some("configuring")
  /\ runner' = IF Some("refused") THEN "aborting_ready" ELSE "starting"
  /\ UNCHANGED <<result, peer, attempts, open, toGen, toOrch, genVars>>

(* start(Abort), one after the other; the first error ends run.            *)
SendAbortReady(g) ==
  /\ runner = "aborting_ready" /\ IsFirst(g, "configured")
  /\ \/ Say(toGen, g, "abort") /\ Becomes(g, "aborted") /\ UNCHANGED <<runnerVars, open>>
     \/ gen[g] \in Ended /\ Return("failed") /\ UNCHANGED <<toGen, peer>>
  /\ UNCHANGED <<attempts, toOrch, genVars>>

ConfigureFailed ==
  /\ runner = "aborting_ready" /\ ~Some("configured")
  /\ Return("failed")
  /\ UNCHANGED <<peer, attempts, toGen, toOrch, genVars>>

-----------------------------------------------------------------------------
(* StartHandle::start, one task per generator, awaited in order: the first *)
(* error ends run, and with the process the tasks that have not run.       *)
SendStart(g) ==
  /\ runner = "starting" /\ peer[g] = "configured"
  /\ \/ Say(toGen, g, "start") /\ Becomes(g, "started")
     \/ gen[g] \in Ended /\ Becomes(g, "not_started") /\ UNCHANGED toGen
  /\ UNCHANGED <<runnerVars, attempts, open, toOrch, genVars>>

StartFailsAborting(g) ==   \* mutant: aborts those it has not started
  /\ runner = "starting" /\ peer[g] = "not_started"
  /\ \A h \in 1 .. g - 1 : peer[h] = "started"
  /\ toGen' = [h \in Generators |-> IF peer[h] = "configured" THEN Append(toGen[h], "abort")
                                                              ELSE toGen[h]]
  /\ Return("failed")
  /\ UNCHANGED <<peer, attempts, toOrch, genVars>>

StartFails(g) ==
  /\ runner = "starting" /\ peer[g] = "not_started"
  /\ \A h \in 1 .. g - 1 : peer[h] = "started"
  /\ Return("failed")
  /\ UNCHANGED <<peer, attempts, toGen, toOrch, genVars>>

AllStarted ==
  /\ runner = "starting" /\ \A g \in Generators : peer[g] = "started"
  /\ runner' = "collecting"
  /\ UNCHANGED <<result, peer, attempts, open, toGen, toOrch, genVars>>

(* The persisters cannot be opened, or one fails: each handle is sent an   *)
(* Abort, which its command task may or may not put on the wire before the *)
(* process ends.                                                           *)
PersistFails ==
  /\ runner = "collecting"
  /\ \E told \in SUBSET Generators :
       toGen' = [g \in Generators |-> IF g \in told THEN Append(toGen[g], "abort") ELSE toGen[g]]
  /\ Return("failed")
  /\ UNCHANGED <<peer, attempts, toOrch, genVars>>

(* A generator is gone, or out of sync: run returns without an Abort.      *)
CollectFails ==
  /\ runner = "collecting"
  /\ Return("failed")
  /\ UNCHANGED <<peer, attempts, toGen, toOrch, genVars>>

CollectLenient ==   \* mutant: a lost connection counts as Finished
  /\ runner = "collecting" /\ \A g \in Generators : gen[g] \in Ended
  /\ Return("finished")
  /\ UNCHANGED <<peer, attempts, toGen, toOrch, genVars>>

CollectEnds ==
  /\ runner = "collecting"
  /\ \A g \in Generators : toOrch[g] # <<>> /\ Head(toOrch[g]) = "finished"
  /\ Return("finished")
  /\ UNCHANGED <<peer, attempts, toGen, toOrch, genVars>>

(* The orchestrator is killed. *)
OrchestratorCrash ==
  /\ runner # "exited"
  /\ Return("failed")
  /\ UNCHANGED <<peer, attempts, toGen, toOrch, genVars>>

-----------------------------------------------------------------------------
(* The load generator process. *)
Goes(g, state) == gen' = [gen EXCEPT ![g] = state]

Listen(g) ==
  /\ gen[g] = "off"
  /\ Goes(g, "listening")
  /\ UNCHANGED <<runnerVars, peer, attempts, open, toGen, toOrch, readied, started>>

(* process_config: a Config is worked on, an Abort answered.               *)
ReceiveConfig(g) ==
  /\ gen[g] = "configuring" /\ Hear(toGen, g, "config")
  /\ Goes(g, "setting_up")
  /\ UNCHANGED <<runnerVars, peer, attempts, open, toOrch, readied, started>>

ReceiveConfigAbort(g) ==
  /\ gen[g] = "configuring" /\ Hear(toGen, g, "abort")
  /\ Say(toOrch, g, "aborted")
  /\ Goes(g, "failed")
  /\ UNCHANGED <<runnerVars, peer, attempts, open, readied, started>>

SetupFails(g) ==
  /\ gen[g] = "setting_up"
  /\ Say(toOrch, g, "setup_failed")
  /\ Goes(g, "failed")
  /\ UNCHANGED <<runnerVars, peer, attempts, open, toGen, readied, started>>

SetupDone(g) ==
  /\ gen[g] = "setting_up"
  /\ Say(toOrch, g, "ready")
  /\ Goes(g, "ready")
  /\ readied' = readied \cup {g}
  /\ UNCHANGED <<runnerVars, peer, attempts, open, toGen, started>>

(* wait_for_command and serve. *)
ReceiveStart(g) ==
  /\ gen[g] = "ready" /\ Hear(toGen, g, "start")
  /\ Goes(g, "testing")
  /\ started' = started \cup {g}
  /\ UNCHANGED <<runnerVars, peer, attempts, open, toOrch, readied>>

ReceiveAbort(g) ==
  /\ gen[g] = "ready" /\ Hear(toGen, g, "abort")
  /\ Goes(g, "failed")
  /\ UNCHANGED <<runnerVars, peer, attempts, open, toOrch, readied, started>>

TestEnds(g) ==
  /\ gen[g] = "testing"
  /\ Say(toOrch, g, "finished")
  /\ Goes(g, "finished")
  /\ UNCHANGED <<runnerVars, peer, attempts, open, toGen, readied, started>>

(* A receive finds the connection closed, or a send fails.                 *)
DisconnectedInReady(g) ==   \* mutant: only a generator that waits for a command notices
  /\ ~open[g] /\ gen[g] = "ready" /\ toGen[g] = <<>>
  /\ Goes(g, "failed")
  /\ UNCHANGED <<runnerVars, peer, attempts, open, toGen, toOrch, readied, started>>

Disconnected(g) ==
  /\ ~open[g]
  /\ \/ gen[g] \in {"configuring", "ready"} /\ toGen[g] = <<>>
     \/ gen[g] \in {"setting_up", "testing"}
  /\ Goes(g, "failed")
  /\ UNCHANGED <<runnerVars, peer, attempts, open, toGen, toOrch, readied, started>>

GeneratorCrash(g) ==   \* what it has sent may be lost
  /\ gen[g] \in Connected \cup {"listening"}
  /\ Goes(g, "failed")
  /\ \E n \in 0 .. Len(toOrch[g]) : toOrch' = [toOrch EXCEPT ![g] = SubSeq(@, 1, n)]
  /\ UNCHANGED <<runnerVars, peer, attempts, open, toGen, readied, started>>

-----------------------------------------------------------------------------
Init ==
  /\ runner = "connecting" /\ result = "none"
  /\ peer = [g \in Generators |-> "connecting"]
  /\ attempts = [g \in Generators |-> 0]
  /\ open = [g \in Generators |-> FALSE]
  /\ toGen = [g \in Generators |-> <<>>]
  /\ toOrch = [g \in Generators |-> <<>>]
  /\ gen = [g \in Generators |-> "off"]
  /\ readied = {} /\ started = {}

Orchestrate ==
  \/ AllConnectsDone \/ ConnectFailed \/ AllConfigured \/ ConfigureFailed
  \/ AllStarted \/ CollectEnds
  \/ \E g \in Generators :
       \/ ConnectSucceeds(g) \/ ConnectAttemptFails(g)
       \/ SendAbortConnected(g) \/ AbortAnswered(g)
       \/ SendConfig(g) \/ ConfigReady(g) \/ ConfigFails(g)
       \/ SendAbortReady(g)
       \/ SendStart(g) \/ StartFails(g)
       \/ runner = "collecting" /\ gen[g] = "failed" /\ CollectFails

Generate(g) ==
  \/ ReceiveConfig(g) \/ ReceiveConfigAbort(g) \/ SetupFails(g) \/ SetupDone(g)
  \/ ReceiveStart(g) \/ ReceiveAbort(g) \/ TestEnds(g) \/ Disconnected(g)

Next ==
  \/ Orchestrate
  \/ CollectFails \/ PersistFails \/ OrchestratorCrash
  \/ \E g \in Generators : Listen(g) \/ Generate(g) \/ GeneratorCrash(g)

Spec == Init /\ [][Next]_vars

(* Each process goes on while it can.  Nothing is assumed of the network   *)
(* before the connection stands, nor of failures.                          *)
FairSpec ==
  /\ Spec
  /\ WF_vars(Orchestrate)
  /\ \A g \in Generators : WF_vars(Generate(g))

-----------------------------------------------------------------------------
Messages == {"config", "start", "abort"}
Answers  == {"ready", "setup_failed", "aborted", "finished"}

(* Type invariant of the session. *)
SessionTypeOK ==
  /\ runner \in {"connecting", "aborting_connected", "configuring", "aborting_ready",
                 "starting", "collecting", "exited"}
  /\ result \in {"none", "finished", "failed"}
  /\ peer \in [Generators -> {"connecting", "unreachable", "connected", "aborting", "dropped",
                              "configuring", "configured", "refused", "aborted", "started",
                              "not_started"}]
  /\ attempts \in [Generators -> 0 .. MaxRetries + 1]
  /\ open \in [Generators -> BOOLEAN]
  /\ toGen \in [Generators -> Seq(Messages)] /\ toOrch \in [Generators -> Seq(Answers)]
  /\ gen \in [Generators -> {"off", "listening"} \cup Connected \cup Ended]
  /\ readied \in SUBSET Generators /\ started \in SUBSET Generators

(* No load generator starts its test before every one has reported Ready,  *)
(* whatever crashes in between (runner.rs:122-157).                        *)
StartBarrier == started # {} => readied = Generators

(* No load generator is told to abort while another is told to start: the  *)
(* command a generator reads first is the same for all, and an abort after *)
(* a failed start is left to the closing connections (runner.rs:137-157).  *)
NextCommand(g) == CASE g \in started                          -> "start"
                    [] g \notin started /\ toGen[g] # <<>>     -> Head(toGen[g])
                    [] OTHER                                 -> "none"

CommandsAgree ==
  ~ \E g, h \in Generators : NextCommand(g) = "start" /\ NextCommand(h) = "abort"

(* A framer that is taken apart has read nothing of what follows: no       *)
(* message is on its way to a generator that sets up, nor to the           *)
(* orchestrator behind an answer (load_generator/phases/configure.rs:102,  *)
(* orchestrator/phases/configure.rs:75).                                   *)
HandoverLosesNothing ==
  \A g \in Generators :
    /\ gen[g] = "setting_up" => toGen[g] = <<>>
    /\ peer[g] = "configuring" => Len(toOrch[g]) <= 1

(* A session that ends well has taken every generator to its end.          *)
FinishedMeansAllFinished ==
  result = "finished" => \A g \in Generators : gen[g] = "finished"

-----------------------------------------------------------------------------
(* The inductive invariant behind the four.  First, which peers the phases *)
(* of the runner know, and that none is started beside one that failed.    *)
PeersIn ==
  [connecting         |-> {"connecting", "connected", "unreachable"},
   aborting_connected |-> {"connected", "unreachable", "aborting", "dropped"},
   configuring        |-> {"connected", "configuring", "configured", "refused"},
   aborting_ready     |-> {"configured", "refused", "aborted"},
   starting           |-> {"configured", "started", "not_started"},
   collecting         |-> {"started"}]

PeersOK ==
  /\ \A g \in Generators : runner # "exited" => peer[g] \in PeersIn[runner]
  /\ Some("started") => \A g \in Generators : peer[g] \in PeersIn["starting"]
  /\ \A g \in Generators : peer[g] = "connecting" => attempts[g] <= MaxRetries

Contains(queue, message) == \E i \in DOMAIN queue : queue[i] = message

(* What the process at the other end may be doing, and what may be on its  *)
(* way, for each state of a peer.                                          *)
Untouched(g)  == toGen[g] = <<>> /\ toOrch[g] = <<>>

EndsMatch(g) ==
  /\ peer[g] \in {"connecting", "unreachable"} =>
       Untouched(g) /\ gen[g] \in {"off", "listening", "failed"}
  /\ peer[g] = "connected" => Untouched(g) /\ gen[g] \in {"configuring", "failed"}
  /\ peer[g] \in {"connecting", "connected"} => g \notin readied
  /\ peer[g] = "configuring" =>
       /\ gen[g] \in {"configuring", "setting_up", "ready", "failed"}
       /\ gen[g] = "configuring" => toOrch[g] = <<>> /\ Len(toGen[g]) <= 1
       /\ gen[g] = "setting_up" => Untouched(g)
       /\ g \in readied => toGen[g] = <<>>
       /\ Len(toOrch[g]) <= 1
       /\ Contains(toOrch[g], "ready") => g \in readied
       /\ Contains(toOrch[g], "setup_failed") => gen[g] = "failed"
  /\ peer[g] \in {"aborting", "dropped"} =>
       gen[g] \in {"configuring", "failed"} /\ ~Contains(toGen[g], "config")
  /\ peer[g] = "refused" => gen[g] = "failed"
  /\ peer[g] \in {"configured", "aborted", "started", "not_started"} => g \in readied
  /\ peer[g] \in {"configured", "not_started"} => toGen[g] = <<>>

(* Which commands may be on their way, and where they have been.           *)
CommandsOK(g) ==
  /\ g \in readied => gen[g] \in {"ready", "testing", "finished", "failed"}
  /\ g \in started \/ Contains(toGen[g], "start") => peer[g] = "started"
  /\ Contains(toGen[g], "abort") => peer[g] \in {"aborting", "dropped", "aborted", "started"}
  /\ peer[g] = "started" /\ g \notin started => toGen[g] # <<>> /\ Head(toGen[g]) = "start"
  /\ Contains(toOrch[g], "finished") => gen[g] = "finished"

SessionInv ==
  /\ SessionTypeOK
  /\ PeersOK
  /\ \A g \in Generators : EndsMatch(g) /\ CommandsOK(g)
  /\ FinishedMeansAllFinished

-----------------------------------------------------------------------------
(* What the session promises: TestSession.  The decision for a test is the *)
(* first Start that is sent, the decision against it the first phase that  *)
(* sends aborts, or the end of run, whichever comes first; the commands    *)
(* that tell the generators are lost, late or still on their way, and a    *)
(* generator may find out from its closed connection only.                 *)
Decision ==
  CASE Some("started") -> "go"
    [] ~Some("started") /\ runner \in {"aborting_connected", "aborting_ready", "exited"} -> "abort"
    [] OTHER -> "open"

Progress(state) == IF state \in {"testing"} \cup Ended THEN state ELSE "preparing"

TestOf == INSTANCE TestSession WITH
  prepared <- readied,
  decision <- Decision,
  progress <- [g \in Generators |-> Progress(gen[g])],
  verdict  <- result

(* There is one decision for all generators, made when all are prepared    *)
(* and never changed: no generator starts after the orchestrator has given *)
(* up, and none is counted as finished that is not (runner.rs:98-190).     *)
OneDecision == TestOf!Spec

-----------------------------------------------------------------------------
(* However the session ends, and wherever the orchestrator dies, no load   *)
(* generator it reached is left waiting or testing for good.               *)
NobodyLeftBehind == <>[](\A g \in Generators : gen[g] \notin Connected)

(* The orchestrator ends, whichever generators cannot be reached, fail to  *)
(* set up or crash.                                                        *)
SessionEnds == <>(runner = "exited")
=============================================================================
