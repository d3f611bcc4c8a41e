-------------------------- MODULE MCConfiguration --------------------------
(* Model checking of Configuration: short profiles and one of each kind of *)
(* result.                                                                 *)
EXTENDS Configuration, WireFormat, TLC

Generators == INSTANCE GeneratorAddress

Finite(deadline, count) ==
  [parses |-> TRUE, class |-> "finite", deadline |-> deadline, count |-> count]
NotFinite == [Finite(1, 1) EXCEPT !.class = "infinite"]
Unparsable == [Finite(1, 1) EXCEPT !.parses = FALSE]

NoStats ==
  [successful_transactions |-> 0, failed_transactions |-> 0, timeout_transactions |-> 0,
   dropped_transactions |-> 0, response_time_sum |-> 0, response_time_count |-> 0,
   transaction_results |-> <<>>]

Plain ==
  [rows |-> <<Finite(2, 1)>>, generators |-> 1, id |-> 1,
   warmup |-> [rate |-> 0, duration |-> 0, pause |-> 0],
   script |-> <<>>, registry |-> <<[key |-> <<97>>, value |-> <<98>>]>>,
   virtual_user_count |-> 100, seed |-> 5, timeout_ms |-> 0,
   version |-> <<48>>, os |-> <<108>>, arch |-> <<120, 56>>, cores |-> 8,
   reason |-> <<110, 111>>, stats |-> NoStats, final_batch_time |-> None]

-----------------------------------------------------------------------------
(* The serializer on types and values no message has.                      *)
Samples ==
  {<<Bool, TRUE>>, <<Bool, FALSE>>, <<Char, 55295>>, <<Char, 1114111>>, <<ByteBuf, <<255, 0>>>>,
   <<Tuple(<<U16, Option(Text), Vec(Bool)>>), <<258, Some(<<97>>), <<TRUE, FALSE>>>>>>,
   <<Enum(<<<<"A", Unit>>, <<"B", Tuple(<<SInt(2), U8>>)>>>>),
     [variant |-> "B", payload |-> <<-2, 3>>]>>}
  \cup {<<SInt(2 ^ k), n>> : k \in 0 .. 3, n \in {-128, -1, 0, 127}}
  \cup {<<SInt(2 ^ k), n>> : k \in 1 .. 3, n \in {-32768, -129, 128, 32767}}

ASSUME \A s \in Samples : RoundTrip(s[1], s[2])

(* Addresses of up to five signs; the longest number is beyond any port.  *)
ASSUME \A n \in 0 .. 5 : \A text \in [1 .. n -> {91, 93, 58, 120, 55}] : Generators!ReadsBack(text)
ASSUME \A n \in 1 .. 6 : Generators!IsPort([i \in 1 .. n |-> 55]) <=> n <= 4

(* Seeds with bits where those of the load generator and phase go.         *)
ASSUME \A seed \in {{0, 2}, {32, 39, 47}, {48, 33, 63}} : SeedsDiffer(seed)

ASSUME \A c \in {55296, 57343, 1114112} : De(Char, Ser(U32, c)) = Failed

Meta == [spec_id |-> 300, virtual_user_id |-> 99, loadgenerator_id |-> 1,
         start_time |-> 1, send_time |-> 2, target_time |-> 3]
Measured(variant) ==
  [variant |-> variant, payload |-> [metadata |-> Meta, response_time |-> 70000, service_time |-> 1]]
Coded(variant, code) ==
  [variant |-> variant, payload |-> [code |-> code] @@ Measured(variant).payload]
Dropped(user, code) ==
  [variant |-> "Dropped",
   payload |-> [metadata |-> [virtual_user_id |-> user, loadgenerator_id |-> 1,
                              start_time |-> 1, target_time |-> 3],
                response_time |-> 255, code |-> code]]

Results ==
  <<Measured("Success"),
    Coded("Failed", [variant |-> "Send", payload |-> <<101>>]),
    Coded("Failed", [variant |-> "Extract", payload |-> <<>>]),
    Coded("Failed", [variant |-> "Status", payload |-> 500]),
    Coded("Timeout", [variant |-> "Error", payload |-> <<116>>]),
    Dropped(None, [variant |-> "NoVirtualUser", payload |-> <<>>]),
    Dropped(Some(3), [variant |-> "Late", payload |-> <<>>]),
    Dropped(Some(0), [variant |-> "Error", payload |-> <<101>>])>>

Reporting(results) ==
  [Plain EXCEPT !.stats.transaction_results = results, !.stats.dropped_transactions = 3,
                !.stats.response_time_sum = 256, !.final_batch_time = Some(2)]

-----------------------------------------------------------------------------
Shared(generators, id) ==
  [Plain EXCEPT !.rows = <<Finite(1, 5), Finite(3, 3)>>, !.generators = generators, !.id = id,
                !.warmup = [rate |-> 2, duration |-> 1, pause |-> 1]]

Configured ==
  [Plain EXCEPT !.script = <<108, 117, 97>>, !.seed = 65536,
                !.registry = <<[key |-> <<97>>, value |-> <<98, 99>>],
                               [key |-> <<98>>, value |-> <<>>]>>]

MCSessions ==
  {Plain, Configured, Reporting(Results),
   [Plain EXCEPT !.rows = <<Finite(0, 1), Finite(2, 2)>>],
   [Plain EXCEPT !.rows = <<Finite(1, 0), Finite(2, 300)>>, !.generators = 2],
   [Plain EXCEPT !.rows = <<>>], [Plain EXCEPT !.rows = <<NotFinite>>],
   [Plain EXCEPT !.rows = <<Unparsable>>], [Plain EXCEPT !.cores = 1],
   [Plain EXCEPT !.registry = <<>>], [Plain EXCEPT !.script = <<200>>],
   [Plain EXCEPT !.rows = <<Finite(1, 1), Finite(1, 1)>>]}
  \cup {Shared(generators, id) : generators \in 2 .. 3, id \in 1 .. 2}
  \cup {Shared(4, 1)}
=============================================================================
