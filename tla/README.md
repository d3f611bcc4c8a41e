# CreoBench in TLA+

CreoBench is a distributed HTTP load tester. An *orchestrator* connects to one
or more *load generators*, sends each its share of a load profile and a Lua
script, starts them together, and collects their interval reports into
`interval.csv` and `transactions.csv`. This directory holds TLA+ models of the
program, TLC configurations that check them on small instances, and TLAPS
proofs of what matters most for every instance. Source paths below are those of
the repository; `src/src/` is the crate.

## The system

| Component | State | Operations | Hard behaviour | What makes it correct |
| --- | --- | --- | --- | --- |
| Tracker (`tracker.rs`) | relaxed atomics (dispatched, 4 totals; per interval 4 counts, service time sum and count) and a mutex-protected vector of rows | `log_dispatched`, `log_result`, `interval_statistics`, `inflight_count` | no two atomics are accessed together, so a report is a torn snapshot | no increment or row is lost or reported twice; reports agree in sum |
| Reporting task (`load_generator/phases/ready.rs`, `load_generator/mod.rs`) | phase, channel of finished steps, connection | `wait_for_command`, `warmup`, `run_phase`, pause, `load_test` with its drain | runs beside the pacer and all transaction tasks; the end of the drain is decided from racing counters | one report per step and in order; `Finished` only when nothing is in flight; the test ends |
| Dispatcher (`dispatch.rs`) | next step, last dispatch | `run_schedule` on a thread of its own, `dispatch`, `acquire_on_time` | may be behind the clock; a lost receiver | a step is announced once, after its last arrival; nothing is sent late |
| Virtual user pool (`virtual_user/pool.rs`) | vector of users in a mutex, semaphore with their number | `acquire`, `try_acquire`, `release` | vector and semaphore change in separate steps; waits are cancelled by a timeout | a permit finds a user; none is lost |
| Virtual user (`virtual_user/user.rs`) | a script runner, an HTTP executor, its place in the pool | `new`, `setup`, `send_next_request` | the script fails before or after the send | released exactly once; a failed request is repeated |
| Script runner (`script/runner/`, `script/store.rs`, `script/response.rs`) | two lists of specs with a cursor each, Lua state, store | `setup`, `next_setup_spec`, `next_user_spec`, `revert`, `run_http_extract` | jumps to functions that jump again, reverting after a jump | the cursor follows the script and stays in it |
| Script parser (`script/parser/`, `script/runner/loader.rs`) | - | `parse_spec`, `parse_static_spec`, loading a module | a fault in a late entry | what is accepted is what the documentation allows, and the rest fails before the test |
| HTTP executor and client (`virtual_user/http/`, `http/`) | cookie jar | `resolve_url`, `execute`, `send` | timeouts, bodies that break off, cookies of failed requests | a request without answer leaves nothing behind; each is counted under the right outcome |
| Orchestrator session (`orchestrator/runner.rs`, `orchestrator/phases/`) | one handle per generator | connect with retries, configure, start or abort | one generator fails while others are ready or running | all start or none does; every generator learns of an abort |
| Report pipeline (`orchestrator/phases/collect.rs`, `orchestrator/persist/`, `orchestrator/summary.rs`) | handles still running, phase classifier, writer channel, drop counts | `collect_reports`, `collect_and_persist`, `writer_loop` | generators finish in different rounds; the writer fails while reports arrive | each round adds one report of every running generator; phases are told apart by counting |
| Distribution (`orchestrator/distribute.rs`) | - | `distribute_count`, `distribute_profile`, `distribute_warmup` | division with remainder | shares add up |
| Framing and serialization (`net/`, `wire/`) | receive buffer | `encode`, `decode`, `into_inner`, `Serializer`, `Deserializer` | frames cut anywhere, framers taken apart between phases | what is sent is received, whole and in order |
| Schedule (`load/schedule.rs`, `math/`) | step, clock, RNG | `from_profile`, `from_warmup`, `ArrivalSchedule::next`, `arrival_rng` | empty steps, deadlines at 0, related seeds | arrivals do not decrease and stay in their steps |
| Load time (`load/time/`, `transaction/`) | instants of start, send and answer | `wait_until`, `ServiceTimeMeasurement`, `into_dropped`, `into_success` | saturating differences, rounding to milliseconds | the times of a row add up |
| Configuration (`config/`, `cli/`, `orchestrator/config.rs`) | - | read and validated once at startup | division of labour between parser and check | an accepted configuration can be run |
| Output directory and metadata (`orchestrator/io.rs`, `orchestrator/metadata.rs`) | files of one directory | `OutputDir::new`, `write_file`, `create_file`, writing `run.json` | runs that overlap, fail or are killed; inputs edited meanwhile | `run.json` vouches for the files beside it |

How they meet: the orchestrator and each generator exchange messages over one
TCP connection. Inside a generator the reporting task starts a pacer thread per
phase; the pacer spawns one task per transaction and tells the reporting task
of finished steps through a channel; the tasks take virtual users from the
pool; pacer, tasks and reporting task share the tracker.

`PROJECT.json` lists every component with its status, and under `hazards` what
in this code is hard to test, with the property that watches over it.

## Modules

| Module | Models |
| --- | --- |
| `ResultLog` | abstract: results are held until a hand-over delivers each once |
| `Tracker` | the tracker, one action per atomic access; used in any order its clients could use it |
| `LoadGenerator` | extends `Tracker` with pacer, transaction tasks and reporting task, from ready to exit |
| `VirtualUserPool` | the pool and the tasks that use it, with their drop deadlines |
| `TimedDispatch` | extends `VirtualUserPool` with a clock, `wait_until`, and the times of a transaction |
| `ScriptParser` | every check a script passes before and during a test |
| `VirtualUser` | extends `VirtualUserPool` with each user's script runner, from setup to its requests |
| `HttpExchange` | one exchange with a service: URL, cookies, answer, store |
| `LoadPlan` | from the rows of a profile to shares, steps and arrivals |
| `ByteStrings` | numbers as bytes, and what is read from the front of a sequence of bytes |
| `Framer` | the frame around a payload, for any serializer |
| `WireFormat` | a serializer: the bytes of every message |
| `MessageChannel` | abstract: one direction of a connection, message by message |
| `Configuration` | extends `LoadPlan` and `Framer`: one connection of a session, byte by byte, from the command line to the last report |
| `GeneratorAddress` | the text of `--generator` and back |
| `TestSession` | abstract: one decision for all generators whether there is a test, and a verdict that keeps to it |
| `ReportStream` | abstract: the reports of one load generator, as the orchestrator counts on them |
| `OrchestratorSession` | the orchestrator's run and the load generator processes, from connecting to exit |
| `ReportPipeline` | the orchestrator while a test runs: collector, writer task and what arrives from the generators |
| `RunSummary` | the drop summary, and what the persisters take from a report |
| `OutputFiles` | extends `RunSummary`: one output directory and the runs on it |
| `MCTracker`, `MCLoadGenerator`, `MCVirtualUserPool`, `MCTimedDispatch`, `MCVirtualUser`, `MCConfiguration`, `MCOrchestratorSession`, `MCReportPipeline`, `MCOutputFiles` | instances for TLC |
| `LoadGeneratorProofs` (with `Tracker`), `VirtualUserPoolProofs`, `TimedDispatchProofs`, `VirtualUserProofs` (with `ScriptParser` and `HttpExchange`), `ConfigurationProofs` (with `LoadPlan` and `Framer`), `OrchestratorSessionProofs`, `ReportPipelineProofs`, `OutputFilesProofs` (with `RunSummary`) | theorems |

Several modules model one part of the code at different depth, each with what its
properties tell apart. `TimedDispatch` and `VirtualUser` both implement
`VirtualUserPool`: one adds the clock, the other what a user does while it is
held. `Configuration` and `OrchestratorSession` both have the messages of a session:
one has their bytes on a single connection, the other their order over several.

`OrchestratorSession` leaves out what happens between Start and the end of a
test; `LoadGenerator` is that part of one generator, `ReportPipeline` that part of
the orchestrator. The two meet in `ReportStream`: one report for each step with
that step's target time, `Finished` last, or an end at any moment. `LoadGenerator`
implements it (`StreamSpec`), and the generators of `ReportPipeline` do no more than it
allows (`StreamsAsPromised`). That they go on until they end is `StartedTestEnds`.

### Tracker

`stage[t]` is where transaction `t`'s one `log_result` call stands; `outcome`
and `millis` are its argument. `dispatched`, `total`, `counts`, `timeSum`,
`timeCount` and `rows` are the fields of `Inner` and `IntervalTracker`. The
reporting task makes one call at a time: `call` names it, `field` is the atomic
it accesses next, and `stats` and `seen` are its local values. `reported` is a
history variable, the sum (`IntervalStatistics: Add`) of everything
`interval_statistics` has returned. `SumOf` adds the service times of a set of
transactions.

All atomics are `Relaxed`, the model is sequentially consistent. That is enough
for the conservation properties, as a read-modify-write acts on the latest value
of its atomic in either memory model. The loads of `inflight_count` could
return stale totals, which only prolongs the drain by a round; `dispatched` is
exact there because the pacer has been joined. The reporting task's return
value order, `rows`' order within an interval, is not modelled: `rows` is a set.

### LoadGenerator

`reporter` is the program counter of the reporting task, `pacer` that of the
thread in `run_schedule`, `stage` (from `Tracker`) that of the tasks. The Poisson
schedule becomes any non-decreasing sequence of step indices with at most
`Cardinality(Tx)` arrivals in total (`DrawArrival`). Time is abstracted to order:
a deadline passes at some moment after its step was announced, so the reporting
task may be arbitrarily early or late relative to the tasks. `Disconnect`,
`ConnectionFails` and `ReceiveAbort` are the ways out of a run; `Exit` stops
pacer and tasks, as the end of the process does. `reports` records phase, step
and last dispatch of each report sent (drain reports, whose number is unbounded,
are left out) and `home` the step each transaction was dispatched in; both are
history variables. The warning about warmup transactions in flight
(`ready.rs:127`) only logs and has no action.

### VirtualUserPool

`users` is the vector (a set: which user is taken is random), `permits`,
`queue` and `granted` the semaphore. The semaphore is tokio's and external: from
its use here we need that it is fair, that a permit added while tasks wait is
assigned to the first, and that dropping an acquire which has been assigned a
permit passes it on. `late[t]` becomes true at any moment: nothing is assumed
of the clock. `timeout_at` polls the acquire before the timer, so `Elapse` needs
that none is granted, but one may be granted before the future is dropped
(`giving_up`). `LoadGenerator` leaves this inside of `Complete` out: the task
touches the tracker only after `acquire_on_time` and the request have ended.

### TimedDispatch

`now` is the clock; `Tick` may happen between any two steps, so every task can be
slow anywhere. Instants and their offset from the start of the phase are one number.
`pacer` is where the pacing thread is in `wait_until`: it sleeps half of what
remains while that is more than a millisecond, and spins the rest. A deadline
passes when the clock is past it (`DeadlinePassed`), which is where
`VirtualUserPool` lets it pass at will. `sent_at`, `service` and `row` are the
`ServiceTimeMeasurement`, its result and the line of `transactions.csv`, with
`RelativeToStartOf` and `Since` saturating as `saturating_duration_since` does and
`AsMillis` rounding down.

### ScriptParser and VirtualUser

A Lua value is a record with its type; a function is the set of values it may
return, or `Raised`, and a table has `fields` (keys that are UTF-8 strings), `items` (its
array part) and `pairs` (any other key). `StringMapError` looks at all three, as
`pairs::<String, Value>` does, and `BodyError` at every value `Within` a body, at any depth:
`Parts` are the values one level below, of a table with items the items up to the first nil.
That is what `mlua`'s `from_value` does (external): it makes an array of a table with items and
leaves its other keys out, makes an object of any other table, whose keys must be strings, and refuses
functions and strings that are not UTF-8. What Lua says is the length of a table that begins and ends with
nils is open; here it counts as an array if any item is there. A table that is inside itself,
on which `from_value` fails too, is no value of the model. `ScriptParser` has the checks in the order the code makes them,
`FirstError` stands for the `?` behind each. `VirtualUser` has for each user the lists
`specs`, both `cursor`s and the `turn` it is at: `NextSpec` takes the entry at
the cursor, `CallFunction` makes one call of a function of the script, `FollowJump`
goes on at the entry it names, calling that one's function too if it has one.
`home` is a history variable: the entry after the last one that succeeded, which is where
the documentation says the user is. Setup goes over the users one after
the other (`OthersSetUp`), and no transaction is dispatched before `PoolReady`.

### HttpExchange

Pure operators: `Execute` maps a session (cookie jar and store), a request, the
registry and what the service does to the request that was sent, its outcome and the
session afterwards. `VirtualUser` takes the outcome of an exchange to be any; three
properties at the end of the module say what it may be, and what it leaves for the next:
`NoAnswerNoTrace`, `CookiesOfEveryAnswer` and `SuccessMeansExtracted`. A header name stands
for all spellings.

### LoadPlan

`ProfileIsValid`, `DistributeProfile`, `DistributeWarmup`, `FromProfile` and `FromWarmup`
are the steps from the file to one generator's schedule. A rate is the fraction it is
computed from, as rounding it to a floating-point number decides nothing here.
`DrawArrival` and `NextStep` are the two ways through the loop of `ArrivalSchedule::next`;
the gap is any, within `MaxGap`. `ArrivalSeed` has numbers as sets of bits. `ScheduleSpec`
is the iterator on its own for every profile and warmup; `ConfigurationProofs` is first
about it, and `Configuration` runs the same actions on the load a session plans.

### Framer, WireFormat, MessageChannel and Configuration

`Encode` and `Decode` are the frame with its length, whatever `Serialize` and `Deserialize`
are: two CONSTANT operators, of which `CodecAssumption` asks that they read back the messages
of a session. In `WireFormat` a type is a record that says what `derive` makes of it, and `Ser`
and `De` are the serializer and the deserializer; `MCConfiguration` gives them to `Framer`, so
TLC evaluates `CodecAssumption` for the code's own serializer. The two are apart because
`WireFormat` is recursive and nothing can be proved in a module that reaches it. Numbers
are big-endian of their width; TLC's are small, so of more than three significant
bytes only `Huge` is kept, and a payload is shorter than that. `Configuration` is one connection: `wire` are the bytes written
and not read, `buffer` those in the framer. `ReadSome` takes any of a few sizes or
all; `Unframe` is `into_inner`, which drops the buffer, when either side goes on to its next
phase. What can go wrong is that a message arrives with the one before and is
dropped, or that a frame is taken too early; `Channels` says that both directions
implement `MessageChannel`: messages whole, in order and once, and an end that is
either orderly with everything read or due to a death.

The socket is unbounded: a sender that blocks on a full one is left out. A connection
closed with data unread, or by a death, is `reset`, and the other side may lose what it
has not read. `SizeOverflow` of the protocol cannot be reached with 8-byte lengths
and is left out.

### GeneratorAddress

`FromStr` and `Shown` on sequences of ASCII codes. `ReadsBack` is checked for every
text of up to five of the signs that matter. Without brackets the last colon ends the
address, so `fe80::1` is the address `fe80:` with port 1.

### OrchestratorSession

`runner` is the phase of `LoadTestRunner::run`, `peer[g]` how far its task for
generator `g` is, which in the code is the type of the handle
(`ConnectHandle`, `ConfigureHandle`, `StartHandle`, `GeneratorHandle`). `gen[g]`
is where the generator's process stands. `toGen[g]` and `toOrch[g]` are the two
directions of the TCP connection, read in order; `open[g]` becomes false when
the orchestrator drops its end, and with it the process (`Return`). A process that
ends closes its connection: the other end may find out when it sends (the
second disjunct of each `Send...`) or only when everything sent has been read.

The tasks of one phase run in any order, the loops that await or abort
in the code's order (`IsFirst`, `StartFails`). `SendAbortReady` returns at the first
error as the `?` in `runner.rs:142` does, `SendAbortConnected` does not. In
`PersistFails` each generator may or may not get its Abort, as the process may
end before the command task has written it. `ConnectSucceeds` also accepts the
connection; a connection that is established but never accepted
behaves like one whose generator crashes at once. A generator the orchestrator never reached keeps listening, as in the
code. There is no timeout on the answers to a configuration or an Abort
(`orchestrator/phases/configure.rs:72`, `:97`): a generator that hangs, or a
partition that loses packets without closing the connection, would keep the
orchestrator waiting. The model has neither: ends of processes are always noticed.

`OneDecision` says that all this implements `TestSession`. The decision there is what
many steps here come to: for a test, the first Start that is sent; against it, the first
phase that sends aborts or the end of `run`, whichever comes first (`Decision`). A generator
has prepared when it has sent Ready (`readied`), so that the first Start can come only when
every generator has, and none may begin after a decision against the test although
its Start may still be on the way when `run` has failed.

### ReportPipeline

`collector` is where `collect_and_persist` and then `run` stand, `handles`,
`position` (one more than the `i` of the code) and `round` are the variables of
`collect_reports`, `channel` is the `mpsc` channel with its two places, `error` the
`oneshot` channel. `writer`, `file`, `row` and `classified` are the writer task with
its `PhaseClassifier`, `summary` the `DropSummary` with its own. A persister appends a
row to `written[p]`; `flushed[p]` is how much of it a flush has pushed out, which is
a lower bound of what is on disk. The console persister is left out: it
swallows its errors.

The reports of one generator carry a number (`index`), which the code does not
have: it knows the target time, which starts again in each phase. A report is otherwise
reduced to whether it holds a drop. A drain report may skip
seconds (`MaxLate`), as `ready.rs:189` takes the first full second after the
present. `link[g]` is the connection, the reader task and its channel as one
queue; a crash loses a suffix of it. `rounds` is a history of the sums.

`ErrorSignaled` is the second branch of `select!`. It can be chosen whenever
`collect_reports` waits for a generator or starts; it drops the round
received so far. What follows the loop, `run.json`, is in `OutputFiles`.

### RunSummary and OutputFiles

`RunSummary` has `DropSummary` with its counts, reasons and warnings, and the rows and
lines of the persisters, as functions of reports. `OutputFiles` is about several
runs of the orchestrator on one directory. Each system call is an action: reading an
input, looking whether the directory exists, listing it, truncating a file, writing
it. A file remembers whose bytes are in it (`by`); one with bytes of two runs has no
meaningful content. A run may read its inputs from the output directory itself, and the
user may edit the originals at any time. `Fails` ends a run at any of its awaits, by an
error or by a kill. `older`, `alone` and `latest` are history variables for the
properties. The reports of a test are consistent in themselves here; `Tracker` says
how far the counts and rows of one report may differ.

## Runs

| Run | Shows | Bounds |
| --- | --- | --- |
| `tracker` | `IndInv` (with the exact totals), `CountsConserved`, `ServiceTimeConserved`; `LogSpec`: the rows implement `ResultLog` | 3 transactions, one outcome with and one without service time, which is 1 or 2 |
| `load_generator` | `GeneratorInv`, `FinishedMeansCounted`, `LastDispatchOfItsStep`, `AnnouncedStepsAreClosed`, `TrackerSpec`; `StreamSpec`: the reports implement `ReportStream`; `StartedTestEnds` under `FairSpec` | 2 transactions, one outcome, 2 warmup steps, 1 pause step, 2 load steps |
| `timed_dispatch` | `TimedInv` (with `PoolInv`), `TimesAddUp`, `DropsWaited`, `UsersDoNotOverlap` | 3 transactions, 1 user, arrivals at 0 or 3, 2 ticks to the millisecond, tolerance 1 ms, clock up to 5 |
| `virtual_user_pool_live` | `VirtualUserInv`, `FaultsFoundAtSetup`, `PoolSpec`; `SetupEnds`, `EveryTaskEnds` under `FairVirtualUserSpec` | 474 scripts, 3 transactions, 1 user, a timeout |
| `orchestrator_session` | `SessionInv` (with `FinishedMeansAllFinished`), `StartBarrier`, `CommandsAgree`; `OneDecision`: the session implements `TestSession`; `NobodyLeftBehind` and `SessionEnds` under `FairSpec` | 3 generators, 1 retry |
| `report_pipeline` | `PipelineInv`, `RoundsComplete`, `MismatchOnlyInDrain`, `FilesArePrefixes`, `FinishedMeansWritten`, `ValidMeansNoLoadDrop`, `ErrorPrecedesReturn`; `CollectingEnds` under `FairSpec` | 2 generators, 2 files, 2 warmup, 1 pause and 1 load step, 1 drain report with a delay of at most 1 s, 1 update per connection, drops in one generator |
| `configuration` | `ConnectionInv`, `LoadIsConserved`, `NeverBothWaiting`; `Channels`: both directions implement `MessageChannel` | 17 sessions, profiles of up to 2 rows, at most 3 generators, gaps up to 1, 1 drain report, reads of 1, of 5 or of all bytes |
| `output_files` | `RecordInv`, `OldResultsKept` | 2 runs, 2 of the 4 input files, 1 edit of each, tests of 2 reports |

Two transactions are enough for one to be dispatched in warmup and to end in the
load phase while another is dispatched there, and for a step to be empty between
two that are not; three in the tracker put two `log_result` calls inside one
`interval_statistics` and a third across two. The outcomes `failed` and
`timeout` differ from `success` in the name of a counter only, and the generator never
looks at an outcome at all, so its run has one. Three tasks and one user let
one task hold the user, one be granted the permit while it gives up, and one wait
behind it; half a millisecond is the coarsest tick that tells rounding from the exact
time, and a clock of 5 lets an arrival at 0 be dispatched, dropped or answered before,
at and after its deadline at 2, next to one at 3 that was slept towards. The
scripts are every request table with at most two fields that are not plainly
right, those with one table whose fault is among its items, under a key that is no name or up to four
levels down (`Nested`), lists with holes, and two that jump: forward over functions, back to an
earlier entry, to a name that is taken twice, and nowhere. `EveryErrorIsMet` states
that they meet every error of parser and runner. The sessions have an
empty profile and one with an infinite deadline, a deadline at 0, an empty step, shares with and without
remainder and messages of every variant; one byte at a time cuts every frame
everywhere, five bytes cut them across their headers. Two runs on a directory are enough for any
pair of them to follow each other or overlap; a third would overwrite as the second
does, and a third or fourth input is copied as the second is. The second file tells the order of
copying. Three generators let one fail, one be ready and one be in between; the
second attempt to connect is both a retry and the last. Two generators, each with
an optional drain report, finish in the same round or one round apart, in either
order of their handles, and four rounds fill the channel of two while the writer is
at its first row. The proofs below need none of these bounds.

Pure definitions are checked as assumptions of the MC modules, over bounded inputs:
`EveryErrorIsMet` and, over `Sessions`, the properties of `HttpExchange` in
`MCVirtualUser`; serialization of the types no message has, generator addresses and seeds in
`MCConfiguration`; the drop summary and the console's seconds in `MCOutputFiles`.

`CHECK_DEADLOCK FALSE` is set where the processes exit or all tasks end. The
tracker alone never stops: the reporting task may always ask again.

Fairness: each task, the pacer thread and the reporting task are run by the
runtime as long as they can go on (weak fairness). A transaction's `Complete` is
fair because its task ends (`EveryTaskEnds`), which `virtual_user_pool_live` shows
although no server has to answer (`RequestAnswer` and `SetupAnswer` are not fair) and
nothing is assumed of the drop deadline: a timeout that is configured fires (`TimesOut`). With `TimeoutMs = 0`
there is none (`http/mod.rs:42`), and a server that does
not answer keeps the setup or the drain going. Scripts whose functions jump in a
circle never return (`runner/mod.rs:268`), which is the script's doing; the scripts
of the run have none. Nothing is assumed of the orchestrator, the
clock or the connection. In the session and the pipeline the orchestrator's tasks
are fair, and each generator is, except that it may crash; no attempt to connect
has to succeed, and no failure has to happen. A generator's `TestEnds`
and `SendFinished` are fair because of `StartedTestEnds`. `Configuration` assumes no
fairness: `NeverBothWaiting` says as an invariant what a lost message would do, both
ends waiting for the other. `TimedDispatch` and `OutputFiles` are about safety only.

### Where the documentation says something else

Four runs expect a violation; each states what the documentation says.

- `finished_means_reported`: `load_test` sends `Finished` once `inflight_count`
  is 0, without a last `interval_statistics`. A result logged after the
  last report never reaches the orchestrator, although `transactions.csv` is said
  to have a row for every transaction (`README.md:289`).
- `average_of_whole_transactions`: sum and count of the service times are
  swapped one after the other, so the average of one interval can mix two sets of
  transactions (`README.md:273`).
- `never_sent_late`: the deadline is checked before `try_acquire`, and not
  again before the send, after the script has run (`docs/concepts.md:167`).
- `late_means_user_free`: a transaction is dropped as `Late` without asking the
  pool, so a user need not have been free (`docs/troubleshooting.md:27`).

Not worth a run of their own, or beyond what a model can show:

- `NoVirtualUser` need not mean that no user became free (`docs/outputs.md:86`): a task
  that was granted one in time and polled after the deadline reports it as well
  (`dispatch.rs:169`).
- A drop that is logged after the last report is also
  missing from `valid` (`docs/outputs.md:109`), for the reason of
  `finished_means_reported`: `ValidMeansNoLoadDrop` says that `valid` agrees with the
  files, which is as much as the orchestrator can know.
- `run.json` describes the files next to it (`metadata.rs:11`, `docs/outputs.md:94`), but a run with
  `--overwrite-outputs` that fails leaves the `run.json` of the earlier one beside its own
  files: `RecordInv` says so for a directory whose latest run has finished, with no other beside
  it, and for no more. Two runs may both find the directory empty (`io.rs:115`). A
  run that fails after copying its inputs makes the next one fail with
  `NotEmpty`. A run that reads its inputs from its own output directory and is killed
  between truncating and writing a copy loses that input.
- `path` is said to be appended to the base URL (`docs/scripting.md:142`, `docs/service-registry.md:34`),
  but `set_path` replaces the base URL's path. Its query stays, in front of the request's.
- Cookies, and what an extract function kept before it raised an error, are not undone when the request is repeated
  (`CookiesOfEveryAnswer`).
- `RevertHandle::revert` says that the next spec is the same as before
  (`script/runner/mod.rs:195`); the function of a dynamic entry is called again and may
  return another. `DeclarationOrder` is what remains true: it is the same entry.
- `call_dynamic_func` says that a number or boolean is coercible to a jump's name
  (`func.rs:73`); only a string is. The index in its `InvalidSpec` counts from 0, the message
  says 1-based (`func.rs:123`).
- Header values are joined by `,`, not `, ` (`script/response.rs:11`).
- Every combination of seed, generator and phase is said to give an independent stream
  (`ready.rs:46`). Within one run it does (`StreamsAreApart`). But seed `s` with generator 1
  is seed `s ^ 2^32` with generator 0, and the pool's choice of users has the plain seed on
  every generator (`pool.rs:85`), which is the stream of generator 0's warmup.
- A deadline of 0 is accepted though the message asks for a positive one
  (`config/profile.rs:94`); as a first step it has no arrivals. A huge finite deadline
  makes `Duration::from_secs_f64` panic (`load/schedule.rs:30`).
- `Pool::with_client_and_rng` says it sets users
  up concurrently (`pool.rs:64`), but its lazy iterator spawns each task only after the
  previous one has been awaited.
- `SpecId` says it is a `u16` and holds a `usize` (`transaction/id.rs:5`); `sample_exponential`
  says it samples from (0, 1] and excludes 1 (`exponential/core.rs:43`).

## Proofs

For every value of the constants, from the named assumptions only (`Tx` finite,
outcomes among the four kinds, service times natural, `NoTx`, `NoUser` and `None` not
elements; at least one generator and one file, durations and bounds natural; a
tick of the clock a fraction of a millisecond and of a second; what a script's
functions return as lists, lists; a session has at least one generator, as clap requires,
with the rows and warmup its parsers may return; its messages are read back by the
serializer; the inputs of a run are different files, and none a result):

- `LoadGeneratorProofs`, first about `Tracker`: `Invariance` (`Spec => []IndInv`). The conservation laws are not
  inductive alone: a swap moves `counts[k]` into `stats.counts[k]`, which
  preserves the sum only if nothing has been taken from that field before.
  `NotYetTaken` says so, and `StageOutcome` says which transactions the
  cardinalities on the right-hand sides range over. From `IndInv` follow
  `CountsAreConserved`, `ReportsAgree` and, with `ResultLog`'s actions,
  `LogRefinement`. `ServiceTimesAreConserved` has the same shape, with sums for
  cardinalities. That a sum does not depend on the order in which a set is taken apart
  (`SumWithout`) is proved of the recursive function which the library's fold is: among
  the sets that violate it there would be a smallest one (`Smallest`, `SolutionExists`).
- `LoadGeneratorProofs`, then about `LoadGenerator`: `TrackerRefinement` maps each generator step to a tracker
  step or a stutter, so everything above holds in the generator
  (`GeneratorCounts`). `FinishedIsCounted` rests on `GeneratorInv`: during the
  drain the pacer is off, so `dispatched` does not move; the totals only grow, so
  what `inflight_count` has added up so far is at most their present value
  (`InflightSound`); 0 then means that `dispatched` has been reached, and
  `TotalsExact` turns the numbers into sets.
  `StepsInv` is behind the three properties of the reports: the steps of a phase are, in
  order, those reported, the one in hand, those in the channel and those not announced
  (`AnnouncedInOrder`), and the pacer never announces the step of the arrival it has
  drawn, so a transaction's step is one it will announce next (`HomesOK`) with the last
  dispatch it keeps for it (`LastsOK`). `StepsAreReportedOnce`, `ReportsNameTheirDispatch` and
  `AnnouncedStepsClosed` follow, and with them `StreamRefinement`: while a report is on
  its way there is still a step that has none, and in the drain there is none left.
- `VirtualUserPoolProofs`: `PoolInvariance` (`PoolInv` is inductive as it
  stands). The users in the vector and those in tasks' hands make up `Users`, and
  permits free, assigned and owed make up the same number; with them
  `TakeIsSafe` and `PoolIsWhole` are counting.
- `TimedDispatchProofs`: `TimedDispatchIsPool` maps each timed step to a step of the pool
  or a stutter, so `PoolInv` holds here too. `TimedInv` adds that
  every instant was read from the clock when its step happened (`ClockOK`), what the
  rows took from them (`RowsOK`), and that whoever sends has its user from a request
  that was over (`UsersInOrder`), without which `UsersDoNotOverlap` is not
  inductive. `TimesAddUp` then is arithmetic: `MilliSum` (two roundings down give at
  most the rounding of the sum), `MilliMonotone` and `MilliLeast`.
- `VirtualUserProofs`: `PoolRefinement`, by which `PoolOfUsers` and all of the pool's theorems
  hold with scripts running inside. `VirtualUserInvariance` is about every script and
  every value its functions return: that lists are sequences (`ListsParsed`) is what
  the parser's checks are for, that a turn is at an entry of them (`TurnAt`) is what keeps
  the cursor inside, and `DeclarationOrder` needs that a turn remembers where
  the cursor was before the first jump.
  `FaultsAreFoundAtSetup` goes through the parser check by check (`RequiredStringMeaning` to
  `LoadMeaning`): each passes exactly what the definitions of a valid script at the end of
  `VirtualUser`, which are the documentation's, allow. For bodies, the parser's walk and the
  documentation's reach the same values: `MembersMeaning` shows it of one level, for every value, and
  `SameWithin` of all levels, since the two level functions are then chosen from the same
  equation, which needs no induction.
  Of `HttpExchange`, `NoAnswerLeavesNoTrace` and `SuccessIsAnExtractedAnswer` need only that the
  ways a request can end are the three there are. `CookiesOutliveTheFailure` is an induction
  over the headers of the answer (`CookiesStored`), of which it assumes that they are a
  sequence: `Received` makes them with `SelectSeq`, which the provers do not unfold.
- `ConfigurationProofs`, about `LoadPlan`: `SharesAddUpToTheCount` (the first generators take one more, and
  as many of them as the remainder), `ScheduleInvariance` for every profile that
  passes validation, from which `ArrivalsNeverGoBack` follows, and `StreamsAreApart`, since
  generator and phase change different bits of the seed.
  About `Configuration`, the invariant is `ConnectionIInv`. `Transport` says that what is in the
  framer's buffer and on the wire are the frames of the messages sent and not yet
  heard, one behind the other (`Carry`), and that messages are heard as they were sent; a
  decoder at the front of such bytes waits for more, or takes just the next message
  (`DecodeFront`), never fails and never takes a part of another. `Control` counts the messages of each
  direction by the phase of either end, which is why there is nothing in a framer that is
  taken apart, and why neither end waits for a message the other will not send
  (`NobodyWaits`). `LoadInv` and `ClockInv` follow the share from the plan into the
  configuration, the schedule and the reports (`LoadConserved`). `ChannelRefinement` maps
  reads, decoding and ends of streams to `MessageChannel`.
  `CodecAssumption` is the serializer's part; a session that is rejected sends nothing.
- `OrchestratorSessionProofs`: `SessionInvariance`. `StartBarrier` is about the
  generators, but what keeps it is the runner's phase; `SessionInv` ties the two:
  `PeersOK` says which peers each phase knows (all of them configured from
  `starting` on), `EndsMatch` what the process behind such a peer may be doing and
  what may be on its way, `CommandsOK` that a Start, sent or read, belongs to
  a started peer. `StartBarrier`, `CommandsAgree` and the clean handover follow from it,
  and `SessionRefinement` with `VerdictOK`: the runner has exited exactly if there is a
  `result`.
- `ReportPipelineProofs`: `PipelineInvariance`. `RoundsComplete` speaks of the sums; the
  invariant behind it (`HandlesOK`) says of every handle how many of its reports
  have been taken, one more before `position` than from it on, and that its link
  goes on with the next (`LinkContinues`); `swap_remove` keeps this because the
  handle it moves has not been read in this round. A generator without handle
  is `Gone`. `ChannelOK` and `WrittenOK` follow a round through the channel to
  the files, `WriterEndOK` the last flush and the error that takes its place.
  `FinishedIsWritten`, `ValidityIsWritten` and `NoPanic` follow from these.
  `GeneratorsKeepToStream` is the other side of `StreamRefinement`: what is taken for granted
  of a load generator here is what `ReportStream` allows. TLC, which does not evaluate a
  parameterised instance as a property, has no run for it.
- `OutputFilesProofs`: `RecordIsTrue` needs to know of every point of a run which files it
  has made its own by then, and that their contents are what its summary and inputs
  say (`InputsCopied`, `RowsWritten`, `ResultsWritten`, `MetadataWritten`). This holds of a run
  that is the latest and has been alone (`Solo`), so a step is either
  that run's or leaves its files untouched. `OldFilesAreSafe` rests on `KeptInv`: what a run
  without `--overwrite-outputs` found ended is in no file, from when it has seen the
  directory empty.

Only model-checked: the liveness properties (`StartedTestEnds`, `SetupEnds`,
`EveryTaskEnds`, `NobodyLeftBehind`, `SessionEnds`, `CollectingEnds`), as the prover does not
handle fairness; that `WireFormat` reads back what it writes, as it is recursive in a way that
nothing can be proved in its module; `GeneratorAddress`, whose round trip is checked for every
text of up to five signs; and the seconds on the console. Every other property of
a run is a theorem.

## Plan

Done, in this order: tracker, load generator, pool, orchestrator session and report
pipeline with their theorems; the proofs about the order of reports; the clock over the pool;
scripts and virtual users; the plan of the load; the connection byte by byte; HTTP
exchanges; summary, metadata and output directory; the theorems about the last four; the
abstract session and the stream of reports with their refinements. Left:

1. That a task of `VirtualUserPool` implements what
   `LoadGenerator` assumes of `Complete`.
2. Sending into a bounded socket, with both sides blocked on a full one.
3. The round trip of `GeneratorAddress` for texts of any length.

## Not modelled

- What the functions of a script compute: they return any of a set of values.
- Floating-point sampling of gaps and random choices (`math/`): any value in their range.
- The syntax of CSV, YAML and of most of the command line; the columns, quoting and
  wording of outputs and logs.
- Attributes of cookies other than host, name and expiry, which are between the server and
  the cookie library; redirects and connections inside the HTTP client.
- Building the thread pool of the load generator, and panics of tasks.
- Partitions that lose packets without closing the connection, see `OrchestratorSession`.
- The test utilities and test modules, which are more than half of the lines of `src/src/`.
