--------------------------- MODULE Configuration ---------------------------
(***************************************************************************)
(* One connection of a session, byte by byte, from the orchestrator's      *)
(* command line to the last report: configuration files are read and the   *)
(* load is shared out (orchestrator/config.rs, distribute.rs), a share is  *)
(* sent, decoded, scheduled and reported about (orchestrator/phases,       *)
(* load_generator/phases).                                                 *)
(*                                                                         *)
(* The connection has two directions, "down" to the load generator and     *)
(* "up" to the orchestrator.  A read returns any part of what has been     *)
(* written.  The other load generators of the session appear only as       *)
(* shares, and as the reason to abort this one.                            *)
(***************************************************************************)
EXTENDS LoadPlan, Framer

CONSTANTS Sessions,      \* command lines with what is in their files
          MaxGenerators, \* u8::MAX
          MaxDrains,     \* bound of the reports after the last step
          ReadSizes      \* bound of what a read returns: so many bytes, or all

VARIABLES
  session,  \* the command line and files of this session
  plan,     \* the shares: profile and warmup of every load generator
  orch,     \* how far the orchestrator is
  gen,      \* how far the load generator is
  config,   \* the configuration the load generator has decoded
  reported, \* reports sent in this phase
  wire,     \* bytes written and not read
  buffer,   \* bytes read by the framer and not decoded
  sent, received, gone, reader   \* as in MessageChannel, by direction

orchVars == <<session, plan, orch>>
genVars  == <<gen, config, reported>>
channelVars == <<wire, buffer, sent, received, gone, reader>>
vars == <<orchVars, genVars, scheduleVars, channelVars>>

Directions == {"down", "up"}
Opposite(d) == IF d = "down" THEN "up" ELSE "down"
OrchEnded == {"done", "failed", "crashed"}
GenEnded  == {"finished", "failed", "crashed"}

-----------------------------------------------------------------------------
(* What the two tell each other: enum values, with or without a payload.   *)
Variant(variant, payload) == [variant |-> variant, payload |-> payload]
Signal(variant) == Variant(variant, <<>>)

(* LoadTestConfig::from_cli.  A script has to be UTF-8, and a registry to  *)
(* have a service.                                                         *)
ScriptIsValid(s)   == IsUTF8(s.script)
RegistryIsValid(s) == s.registry # <<>>

Rejected(s) ==
  \/ s.generators > MaxGenerators
  \/ ~(ProfileIsValid(s.rows) /\ ScriptIsValid(s) /\ RegistryIsValid(s))

Plan(s) ==
  LET profiles == DistributeProfile(Profile(s.rows), s.generators)
      warmups  == DistributeWarmup(s.warmup, s.generators)
  IN [g \in 1 .. s.generators |-> [profile |-> profiles[g], warmup |-> warmups[g]]]

ConfigFor(s, share) ==
  [profile |-> [steps |-> share.profile], script |-> s.script, registry |-> s.registry,
   warmup |-> share.warmup, virtual_user_count |-> s.virtual_user_count, seed |-> s.seed,
   timeout_ms |-> s.timeout_ms, load_generator_id |-> s.id - 1]

(* runtime.rs: one core is left to the pacer, if there is another.         *)
WorkerThreads(cores) == IF cores > 1 THEN cores - 1 ELSE 1

GeneratorDetails(s) ==
  [version |-> s.version, os |-> s.os, arch |-> s.arch,
   cores |-> s.cores, worker_threads |-> WorkerThreads(s.cores)]

ReportOf(s, targetTime, loadLevel) ==
  Variant("IntervalReport",
          [target_time |-> targetTime, load_level |-> loadLevel,
           stats |-> s.stats, final_batch_time |-> s.final_batch_time])

(* All that may be sent in a session: times and loads are those of its     *)
(* share, in phases and a drain of at most so many seconds.                *)
LastSecond(s) ==
  s.warmup.duration + s.warmup.pause + MaxDrains + 1
    + s.rows[Len(s.rows)].deadline \div TicksPerSecond

TargetTimes(s) ==
  {s.rows[i].deadline : i \in DOMAIN s.rows}
    \cup {second * TicksPerSecond : second \in 0 .. LastSecond(s)}

LoadLevels(s) ==
  LET share == Plan(s)[s.id] IN
  {0, share.warmup.rate} \cup {share.profile[i].count : i \in DOMAIN share.profile}

Types == {"ConfigMessage", "ConfigResponse", "Command", "GeneratorUpdate"}

MessagesOf(s, type) ==
  CASE type = "ConfigMessage" ->
         {Variant("Config", ConfigFor(s, Plan(s)[s.id])), Signal("Abort")}
    [] type = "ConfigResponse" ->
         {Variant("Ready", GeneratorDetails(s)), Variant("SetupFailed", [reason |-> s.reason]),
          Signal("Aborted")}
    [] type = "Command" -> {Signal("Start"), Signal("Abort")}
    [] type = "GeneratorUpdate" ->
         {ReportOf(s, time, level) : time \in TargetTimes(s), level \in LoadLevels(s)}
           \cup {Signal("Finished")}

ASSUME SessionAssumption ==
  /\ MaxDrains \in Nat
  /\ \A s \in Sessions :
       /\ s.rows \in Seq(Rows) /\ s.warmup \in Warmups
       /\ s.generators \in Nat \ {0} /\ s.id \in 1 .. s.generators

(* The serializer's part (ser.rs, de.rs): it reads back what is sent.      *)
ASSUME CodecAssumption ==
  \A s \in {s \in Sessions : ~Rejected(s)} : \A type \in Types : \A m \in MessagesOf(s, type) :
    ReadsBack(type, m)

-----------------------------------------------------------------------------
(* Framed: send, next and into_inner.                                      *)
Writes(d, bytes) == wire' = [wire EXCEPT ![d] = @ \o bytes]

Sends(d, type, message) ==
  /\ Writes(d, Encode(type, message))
  /\ sent' = [sent EXCEPT ![d] = Append(@, message)]

Expected(d) ==
  IF d = "down" THEN IF gen = "configuring" THEN "ConfigMessage" ELSE "Command"
  ELSE IF orch = "collecting" THEN "GeneratorUpdate" ELSE "ConfigResponse"

Polls(d) ==
  /\ reader[d] = "open"
  /\ IF d = "down" THEN gen \in {"configuring", "ready"}
                   ELSE orch \in {"configuring", "aborting", "collecting"}

Decoded(d) == Decode(Expected(d), buffer[d])
Lacks(d) == Polls(d) /\ Decoded(d) = NeedMore

ReadSome(d) ==
  /\ Lacks(d)
  /\ \E n \in 1 .. Len(wire[d]) :
       /\ n \in ReadSizes \cup {Len(wire[d])}
       /\ buffer' = [buffer EXCEPT ![d] = @ \o SubSeq(wire[d], 1, n)]
       /\ wire' = [wire EXCEPT ![d] = Drop(@, n)]
  /\ UNCHANGED <<orchVars, genVars, scheduleVars, sent, received, gone, reader>>

(* next returns a message of one of the variants.                          *)
HearsOf(d, variants) ==
  /\ Polls(d) /\ Decoded(d).kind = "message" /\ Decoded(d).message.variant \in variants
  /\ received' = [received EXCEPT ![d] = Append(@, Decoded(d).message)]

Hears(d, variants) ==
  /\ HearsOf(d, variants)
  /\ buffer' = [buffer EXCEPT ![d] = Decoded(d).rest]

(* The framer is taken apart; what it has read is lost.                    *)
Unframe(d) == buffer' = [buffer EXCEPT ![d] = <<>>]

(* next returns None or an error; of a peer that died less than it wrote   *)
(* may arrive.                                                             *)
StreamEnds(d) ==
  /\ Lacks(d)
  /\ \/ gone[d] = "closed" /\ wire[d] = <<>>
     \/ gone[d] = "reset"
  /\ \/ buffer[d] = <<>> /\ reader' = [reader EXCEPT ![d] = "ended"]
     \/ /\ buffer[d] # <<>> \/ gone[d] = "reset"
        /\ reader' = [reader EXCEPT ![d] = "failed"]

DecodeFails(d) ==
  /\ Polls(d) /\ Decoded(d) = Broken
  /\ reader' = [reader EXCEPT ![d] = "failed"]

Hangup(d) == (StreamEnds(d) \/ DecodeFails(d)) /\ UNCHANGED <<wire, buffer, sent, received, gone>>

-----------------------------------------------------------------------------
(* The orchestrator: LoadTestConfig::from_cli and LoadTestRunner::run      *)
RejectSession ==
  /\ orch = "starting" /\ Rejected(session)
  /\ orch' = "failed"
  /\ UNCHANGED <<session, plan, genVars, scheduleVars, channelVars>>

PlanLoad ==
  /\ orch = "starting" /\ ~Rejected(session)
  /\ plan' = Plan(session)
  /\ orch' = "connected" /\ gen' = "configuring"
  /\ UNCHANGED <<session, config, reported, scheduleVars, channelVars>>

OrchestratorSends(from, type, message, to) ==
  /\ orch = from /\ orch' = to
  /\ Sends("down", type, message)
  /\ UNCHANGED <<session, plan, genVars, scheduleVars, buffer, received, gone, reader>>

SendConfig ==
  OrchestratorSends("connected", "ConfigMessage",
                    Variant("Config", ConfigFor(session, plan[session.id])), "configuring")

SendAbortConnected ==
  /\ session.generators > 1
  /\ OrchestratorSends("connected", "ConfigMessage", Signal("Abort"), "aborting")

ConfigReady ==
  /\ orch = "configuring" /\ HearsOf("up", {"Ready"}) /\ Unframe("up")
  /\ orch' = "ready"
  /\ UNCHANGED <<session, plan, genVars, scheduleVars, wire, sent, gone, reader>>

ConfigFails ==
  /\ orch = "configuring" /\ Hears("up", {"SetupFailed", "Aborted"})
  /\ orch' = "failed"
  /\ UNCHANGED <<session, plan, genVars, scheduleVars, wire, sent, gone, reader>>

AbortAnswered ==
  /\ orch = "aborting" /\ Hears("up", {"Ready", "SetupFailed", "Aborted"})
  /\ orch' = "failed"
  /\ UNCHANGED <<session, plan, genVars, scheduleVars, wire, sent, gone, reader>>

SendStart ==
  OrchestratorSends("ready", "Command", Signal("Start"), "collecting")

SendAbortReady ==
  /\ session.generators > 1
  /\ OrchestratorSends("ready", "Command", Signal("Abort"), "failed")

CollectReport ==
  /\ orch = "collecting" /\ Hears("up", {"IntervalReport"})
  /\ UNCHANGED <<orchVars, genVars, scheduleVars, wire, sent, gone, reader>>

CollectFinished ==
  /\ orch = "collecting" /\ Hears("up", {"Finished"})
  /\ orch' = "done"
  /\ UNCHANGED <<session, plan, genVars, scheduleVars, wire, sent, gone, reader>>

GeneratorLost ==
  /\ Hangup("up")
  /\ orch' = "failed"
  /\ UNCHANGED <<session, plan, genVars, scheduleVars>>

OrchestratorSendFails ==
  /\ orch \in {"connected", "ready"} /\ gone["up"] # "no"
  /\ orch' = "failed"
  /\ UNCHANGED <<session, plan, genVars, scheduleVars, channelVars>>

Orchestrator ==
  \/ RejectSession \/ PlanLoad \/ SendConfig \/ SendAbortConnected \/ ConfigReady
  \/ ConfigFails \/ AbortAnswered \/ SendStart \/ SendAbortReady \/ CollectReport
  \/ CollectFinished \/ GeneratorLost \/ OrchestratorSendFails

-----------------------------------------------------------------------------
(* The load generator: ConfigWaitHandle and ReadyHandle                    *)
GeneratorSends(type, message) ==
  /\ Sends("up", type, message)
  /\ UNCHANGED <<orchVars, received, gone, reader>>

ReceiveConfig ==
  /\ gen = "configuring" /\ Hears("down", {"Config"})
  /\ config' = Decoded("down").message.payload
  /\ gen' = "setting_up"
  /\ UNCHANGED <<orchVars, reported, scheduleVars, wire, sent, gone, reader>>

ReceiveConfigAbort ==
  /\ gen = "configuring" /\ Hears("down", {"Abort"})
  /\ Sends("up", "ConfigResponse", Signal("Aborted"))
  /\ gen' = "failed"
  /\ UNCHANGED <<orchVars, config, reported, scheduleVars, gone, reader>>

SetupSucceeds ==
  /\ gen = "setting_up" /\ gen' = "ready"
  /\ GeneratorSends("ConfigResponse", Variant("Ready", GeneratorDetails(session)))
  /\ Unframe("down")
  /\ UNCHANGED <<config, reported, scheduleVars>>

SetupFails ==
  /\ gen = "setting_up" /\ gen' = "failed"
  /\ GeneratorSends("ConfigResponse", Variant("SetupFailed", [reason |-> session.reason]))
  /\ UNCHANGED <<config, reported, scheduleVars, buffer>>

StartWarmup ==
  /\ gen = "ready" /\ Hears("down", {"Start"})
  /\ gen' = "warmup" /\ reported' = 0
  /\ NewSchedule(FromWarmup(config.warmup))
  /\ UNCHANGED <<orchVars, config, wire, sent, gone, reader>>

ReceiveAbort ==
  /\ gen = "ready" /\ Hears("down", {"Abort"})
  /\ gen' = "failed"
  /\ UNCHANGED <<orchVars, config, reported, scheduleVars, wire, sent, gone, reader>>

Schedule ==
  /\ gen \in {"warmup", "load"}
  /\ DrawArrival \/ NextStep
  /\ UNCHANGED <<orchVars, genVars, channelVars>>

Report(targetTime, loadLevel) ==
  /\ GeneratorSends("GeneratorUpdate", ReportOf(session, targetTime, loadLevel))
  /\ reported' = reported + 1
  /\ UNCHANGED <<gen, config, scheduleVars, buffer>>

LoadLevel(i) == IF gen = "warmup" THEN config.warmup.rate ELSE config.profile.steps[i].count

ReportStep ==
  /\ gen \in {"warmup", "load"} /\ reported + 1 < current
  /\ reported < Len(steps)
  /\ Report(steps[reported + 1].deadline, LoadLevel(reported + 1))

AllReported == ScheduleDone /\ reported >= Len(steps)

StartPause ==
  /\ gen = "warmup" /\ AllReported
  /\ gen' = "pause" /\ reported' = 0
  /\ UNCHANGED <<orchVars, config, scheduleVars, channelVars>>

ReportPause ==
  /\ gen = "pause" /\ reported < config.warmup.pause
  /\ Report((reported + 1) * TicksPerSecond, 0)

StartLoad ==
  /\ gen = "pause" /\ reported = config.warmup.pause
  /\ gen' = "load" /\ reported' = 0
  /\ NewSchedule(FromProfile(config.profile.steps))
  /\ UNCHANGED <<orchVars, config, channelVars>>

(* The first full second after the present, which is past the last step.   *)
ReportDrain ==
  /\ gen = "load" /\ AllReported /\ reported < Len(steps) + MaxDrains
  /\ LET seconds == clock \div TicksPerSecond + reported - Len(steps) + 1
     IN Report(seconds * TicksPerSecond, 0)

SendFinished ==
  /\ gen = "load" /\ AllReported
  /\ gen' = "finished"
  /\ GeneratorSends("GeneratorUpdate", Signal("Finished"))
  /\ UNCHANGED <<config, reported, scheduleVars, buffer>>

OrchestratorLost ==
  /\ Hangup("down")
  /\ gen' = "failed"
  /\ UNCHANGED <<orchVars, config, reported, scheduleVars>>

GeneratorSendFails ==
  /\ gen \in {"setting_up", "warmup", "pause", "load"} /\ gone["down"] # "no"
  /\ gen' = "failed"
  /\ UNCHANGED <<orchVars, config, reported, scheduleVars, channelVars>>

Generator ==
  \/ ReceiveConfig \/ ReceiveConfigAbort \/ SetupSucceeds \/ SetupFails \/ StartWarmup
  \/ ReceiveAbort \/ ReportStep \/ StartPause \/ ReportPause \/ StartLoad \/ ReportDrain
  \/ SendFinished \/ OrchestratorLost \/ GeneratorSendFails

-----------------------------------------------------------------------------
(* A process that has ended closes its end.  What it left unread resets    *)
(* the connection, as its death does.                                      *)
Close(d, ended) ==
  /\ ended /\ gen # "listening" /\ gone[d] = "no"
  /\ gone' = [gone EXCEPT ![d] = IF wire[Opposite(d)] = <<>> THEN "closed" ELSE "reset"]
  /\ UNCHANGED <<orchVars, genVars, scheduleVars, wire, buffer, sent, received, reader>>

OrchestratorExits == Close("down", orch \in {"done", "failed"})
GeneratorExits    == Close("up", gen \in {"finished", "failed"})

OrchestratorCrashes ==
  /\ gen # "listening" /\ orch \notin OrchEnded
  /\ orch' = "crashed" /\ gone' = [gone EXCEPT !["down"] = "reset"]
  /\ UNCHANGED <<session, plan, genVars, scheduleVars, wire, buffer, sent, received, reader>>

GeneratorCrashes ==
  /\ gen \notin GenEnded \cup {"listening"}
  /\ gen' = "crashed" /\ gone' = [gone EXCEPT !["up"] = "reset"]
  /\ UNCHANGED <<orchVars, config, reported, scheduleVars, wire, buffer, sent, received, reader>>

-----------------------------------------------------------------------------
Both(x) == [d \in Directions |-> x]
NoConfig == [load_generator_id |-> "none"]

ConnectionInit ==
  /\ session \in Sessions /\ plan = <<>>
  /\ orch = "starting" /\ gen = "listening" /\ config = NoConfig /\ reported = 0
  /\ ScheduleInit
  /\ wire = Both(<<>>) /\ buffer = Both(<<>>) /\ sent = Both(<<>>) /\ received = Both(<<>>)
  /\ gone = Both("no") /\ reader = Both("open")

ConnectionNext ==
  \/ Orchestrator \/ Generator \/ Schedule
  \/ \E d \in Directions : ReadSome(d)
  \/ OrchestratorExits \/ GeneratorExits \/ OrchestratorCrashes \/ GeneratorCrashes

ConnectionSpec == ConnectionInit /\ [][ConnectionNext]_vars

-----------------------------------------------------------------------------
(* Type invariant of the connection.                                       *)
ConnectionTypeOK ==
  /\ session \in Sessions
  /\ orch \in {"starting", "connected", "aborting", "configuring", "ready", "collecting"}
               \cup OrchEnded
  /\ gen \in {"listening", "configuring", "setting_up", "ready", "warmup", "pause", "load"}
              \cup GenEnded
  /\ \A d \in Directions :
       /\ wire[d] \in Seq(Bytes) /\ buffer[d] \in Seq(Bytes)
       /\ gone[d] \in {"no", "closed", "reset"}
       /\ reader[d] \in {"open", "ended", "failed"}

(* The arrivals of the schedule stay in their steps, on the load a session *)
(* really plans (LoadPlan, schedule.rs:102-124).                           *)
ConnectionInv == ConnectionTypeOK /\ ScheduleInv

(* The shares of a step differ by one request at most, and with those of   *)
(* them that are larger they add up to what the profile asks for; so do    *)
(* the warmup rates (distribute.rs:3).                                     *)
AddsUp(share, total) ==
  LET n      == session.generators
      least  == share[n]
      larger == {g \in 1 .. n : share[g] = least + 1}
  IN /\ \A g \in 1 .. n : share[g] \in {least, least + 1}
     /\ n * least + Cardinality(larger) = total

SharesAddUp ==
  plan # <<>> =>
    /\ \A i \in DOMAIN session.rows :
         AddsUp([g \in 1 .. session.generators |-> plan[g].profile[i].count],
                session.rows[i].count)
    /\ AddsUp([g \in 1 .. session.generators |-> plan[g].warmup.rate], session.warmup.rate)

(* The load generator offers its share: rate times duration is the count   *)
(* of each step that has a duration (schedule.rs:23).                      *)
RatesGiveTheShare ==
  gen = "load" =>
    \A i \in DOMAIN session.rows :
      LET duration == session.rows[i].deadline - StepStart(i) IN
      duration > 0 => steps[i].rate.requests * duration
                        = plan[session.id].profile[i].count * steps[i].rate.ticks

(* What the orchestrator hears is about the load it planned, step by step: *)
(* warmup, pause, profile, and no load during the drain (ready.rs:104).    *)
PlannedLevel(n) ==
  LET share == plan[session.id]
      pause == share.warmup.duration
      load  == pause + share.warmup.pause
  IN IF n \in 1 .. pause THEN share.warmup.rate
     ELSE IF n - load \in DOMAIN share.profile THEN share.profile[n - load].count
     ELSE 0

(* Before the first report is the answer to the configuration.             *)
ReportsFollowThePlan ==
  \A i \in DOMAIN received["up"] :
    received["up"][i].variant = "IntervalReport" =>
      received["up"][i].payload.load_level = PlannedLevel(i - 1)

(* From the profile in the file to what is scheduled and reported no       *)
(* request is lost or invented.                                            *)
LoadIsConserved == SharesAddUp /\ RatesGiveTheShare /\ ReportsFollowThePlan

-----------------------------------------------------------------------------
(* However the bytes are cut into reads, both directions are channels of   *)
(* whole messages; taking framers apart between the phases, and changing   *)
(* the type of the messages, loses none (framer.rs:153, configure.rs:75).  *)
Down == INSTANCE MessageChannel WITH
  sent <- sent["down"], received <- received["down"],
  gone <- gone["down"], reader <- reader["down"]
Up == INSTANCE MessageChannel WITH
  sent <- sent["up"], received <- received["up"],
  gone <- gone["up"], reader <- reader["up"]

Channels == Down!ChannelSpec /\ Up!ChannelSpec

(* The two never wait for each other: for the rest of a message that is    *)
(* complete, say, or for one that was dropped with a framer.  Nobody has a *)
(* timeout here that would end this (framer.rs:170, configure.rs:72).      *)
Waits(d) == Lacks(d) /\ wire[d] = <<>> /\ gone[d] = "no"

NeverBothWaiting == ~(Waits("down") /\ Waits("up"))
=============================================================================
