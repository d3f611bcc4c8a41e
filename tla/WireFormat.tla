----------------------------- MODULE WireFormat -----------------------------
(***************************************************************************)
(* The bytes of a message: the serializer and deserializer (src/src/net:   *)
(* ser.rs, de.rs) and the messages orchestrator and load generator         *)
(* exchange (src/src/wire).  The frame around them is in Framer.           *)
(*                                                                         *)
(* A type is described by a record; what derive(Serialize, Deserialize)    *)
(* does for it is the operators Ser and De.  A string is its bytes, a      *)
(* float its 8 bytes of bits, an enum value its variant and payload.  The  *)
(* types no message has so far are checked by RoundTrip alone.             *)
(***************************************************************************)
EXTENDS ByteStrings, SequencesExt

UInt(size)       == [kind |-> "uint", size |-> size]
Float            == UInt(8)
Bool             == [kind |-> "bool"]
SInt(size)       == [kind |-> "int", size |-> size]
Char             == [kind |-> "char"]
ByteBuf          == [kind |-> "bytes"]
Text             == [kind |-> "string"]
Unit             == [kind |-> "unit"]
Option(type)     == [kind |-> "option", of |-> type]
Vec(type)        == [kind |-> "seq", of |-> type]
Tuple(types)     == [kind |-> "tuple", types |-> types]
Struct(fields)   == [kind |-> "struct", fields |-> fields]
Enum(variants)   == [kind |-> "enum", variants |-> variants]
Map(key, value)  == Vec(Struct(<<<<"key", key>>, <<"value", value>>>>))

None    == <<>>
Some(x) == <<x>>

-----------------------------------------------------------------------------
(* Signed numbers are their two's complement.                              *)
Complement(bytes) == [i \in DOMAIN bytes |-> 255 - bytes[i]]

TwosComplement(n, size) ==
  IF n >= 0 THEN BigEndian(n, size) ELSE Complement(BigEndian(-n - 1, size))

FromTwosComplement(bytes) ==
  IF bytes[1] < 128 THEN FromBigEndian(bytes) ELSE -FromBigEndian(Complement(bytes)) - 1

-----------------------------------------------------------------------------
(* ser.rs                                                                  *)
RECURSIVE Ser(_, _)

SerBool(value) == IF value THEN <<1>> ELSE <<0>>

SerText(value) == BigEndian(Len(value), 8) \o value

SerBytes(value) == BigEndian(Len(value), 8) \o value

SerOption(type, value) == IF value = None THEN <<0>> ELSE <<1>> \o Ser(type.of, value[1])

(* Values of the given types, one after the other.                         *)
SerAll(types, values) ==
  FoldLeft(LAMBDA bytes, i : bytes \o Ser(types[i], values[i]), <<>>,
           [i \in DOMAIN types |-> i])

SerSeq(type, value) ==
  BigEndian(Len(value), 8) \o SerAll([i \in DOMAIN value |-> type.of], value)

SerTuple(type, value) == SerAll(type.types, value)

SerStruct(type, value) ==
  SerAll([i \in DOMAIN type.fields |-> type.fields[i][2]],
         [i \in DOMAIN type.fields |-> value[type.fields[i][1]]])

(* What a variant holds follows its index, as if it stood alone.           *)
SerVariant(variant, value) == Ser(variant[2], value.payload)

SerEnum(type, value) ==
  LET index == CHOOSE i \in DOMAIN type.variants : type.variants[i][1] = value.variant
  IN BigEndian(index - 1, 4) \o SerVariant(type.variants[index], value)

Ser(type, value) ==
  CASE type.kind = "uint"   -> BigEndian(value, type.size)
    [] type.kind = "int"    -> TwosComplement(value, type.size)
    [] type.kind = "bool"   -> SerBool(value)
    [] type.kind = "char"   -> BigEndian(value, 4)
    [] type.kind = "bytes"  -> SerBytes(value)
    [] type.kind = "tuple"  -> SerTuple(type, value)
    [] type.kind = "string" -> SerText(value)
    [] type.kind = "unit"   -> <<>>
    [] type.kind = "option" -> SerOption(type, value)
    [] type.kind = "seq"    -> SerSeq(type, value)
    [] type.kind = "struct" -> SerStruct(type, value)
    [] type.kind = "enum"   -> SerEnum(type, value)

-----------------------------------------------------------------------------
(* de.rs: what is read from the front of the bytes and what is left.  Then *)
(* goes on with both, or fails.                                            *)
Then(first, Next(_, _)) ==
  CHOOSE result \in {IF r.ok THEN Next(r.value, r.rest) ELSE Failed : r \in {first}} : TRUE

RECURSIVE De(_, _)

DeUInt(size, bytes) ==
  IF Len(bytes) < size THEN Failed
  ELSE Read(FromBigEndian(SubSeq(bytes, 1, size)), Drop(bytes, size))

DeSInt(size, bytes) ==
  IF Len(bytes) < size THEN Failed
  ELSE Read(FromTwosComplement(SubSeq(bytes, 1, size)), Drop(bytes, size))

(* One byte, and only two values of it are known.                          *)
DeBool(bytes) ==
  Then(DeUInt(1, bytes),
       LAMBDA byte, rest : IF byte \in {0, 1} THEN Read(byte = 1, rest) ELSE Failed)

IsScalar(codepoint) == codepoint <= 1114111 /\ codepoint \notin 55296 .. 57343

DeChar(bytes) ==
  Then(DeUInt(4, bytes),
       LAMBDA codepoint, rest : IF IsScalar(codepoint) THEN Read(codepoint, rest) ELSE Failed)

(* deserialize_and_ensure_length                                           *)
DeLength(bytes) ==
  Then(DeUInt(8, bytes),
       LAMBDA length, rest : IF length <= Len(rest) THEN Read(length, rest) ELSE Failed)

DeText(bytes) ==
  Then(DeLength(bytes),
       LAMBDA length, rest : LET text == SubSeq(rest, 1, length) IN
         IF IsUTF8(text) THEN Read(text, Drop(rest, length)) ELSE Failed)

DeBytes(bytes) ==
  Then(DeLength(bytes),
       LAMBDA length, rest : Read(SubSeq(rest, 1, length), Drop(rest, length)))

DeOption(type, bytes) ==
  Then(DeBool(bytes),
       LAMBDA present, rest :
         IF present THEN Then(De(type.of, rest), LAMBDA v, left : Read(Some(v), left))
                    ELSE Read(None, rest))

(* Values of the given types, one after the other.                         *)
DeAll(types, bytes) ==
  FoldLeft(LAMBDA done, type :
             Then(done, LAMBDA values, rest :
               Then(De(type, rest), LAMBDA v, left : Read(Append(values, v), left))),
           Read(<<>>, bytes), types)

DeSeq(type, bytes) ==
  Then(DeLength(bytes), LAMBDA length, rest : DeAll([i \in 1 .. length |-> type.of], rest))

DeStruct(type, bytes) ==
  LET names == {type.fields[i][1] : i \in DOMAIN type.fields}
      field(name) == CHOOSE i \in DOMAIN type.fields : type.fields[i][1] = name
  IN Then(DeAll([i \in DOMAIN type.fields |-> type.fields[i][2]], bytes),
          LAMBDA values, rest : Read([name \in names |-> values[field(name)]], rest))

DeTuple(type, bytes) == DeAll(type.types, bytes)

DeVariant(variant, bytes) ==
  Then(De(variant[2], bytes),
       LAMBDA v, rest : Read([variant |-> variant[1], payload |-> v], rest))

DeEnum(type, bytes) ==
  Then(DeUInt(4, bytes),
       LAMBDA index, rest :
         IF index < Len(type.variants) THEN DeVariant(type.variants[index + 1], rest)
                                       ELSE Failed)

De(type, bytes) ==
  CASE type.kind = "uint"   -> DeUInt(type.size, bytes)
    [] type.kind = "int"    -> DeSInt(type.size, bytes)
    [] type.kind = "bool"   -> DeBool(bytes)
    [] type.kind = "char"   -> DeChar(bytes)
    [] type.kind = "bytes"  -> DeBytes(bytes)
    [] type.kind = "tuple"  -> DeTuple(type, bytes)
    [] type.kind = "string" -> DeText(bytes)
    [] type.kind = "unit"   -> Read(<<>>, bytes)
    [] type.kind = "option" -> DeOption(type, bytes)
    [] type.kind = "seq"    -> DeSeq(type, bytes)
    [] type.kind = "struct" -> DeStruct(type, bytes)
    [] type.kind = "enum"   -> DeEnum(type, bytes)

(* What was written is read back, up to its last byte and no further, and  *)
(* of no shorter piece is it thought to be whole.                          *)
RoundTrip(type, value) ==
  LET bytes == Ser(type, value) IN
  /\ De(type, bytes \o <<7>>) = Read(value, <<7>>)
  /\ \A n \in 0 .. Len(bytes) - 1 : ~De(type, SubSeq(bytes, 1, n)).ok

-----------------------------------------------------------------------------
(* What is sent (wire, tracker.rs, transaction).  A newtype is its content;*)
(* times since the start are seconds, measured durations milliseconds.     *)
U8  == UInt(1)
U16 == UInt(2)
U32 == UInt(4)
U64 == UInt(8)
Seconds == Float
Millis  == U64

SpecId          == U64   \* a usize
LoadGeneratorId == U8
VirtualUserId   == U32

LoadProfile == Struct(<<<<"steps", Vec(Struct(<<<<"deadline", Seconds>>, <<"count", U32>>>>))>>>>)
Warmup == Struct(<<<<"rate", U32>>, <<"duration", U32>>, <<"pause", U32>>>>)
ServiceRegistry == Map(Text, Text)
LoadGeneratorConfig == Struct(
  <<<<"profile", LoadProfile>>, <<"script", Text>>, <<"registry", ServiceRegistry>>,
    <<"warmup", Warmup>>, <<"virtual_user_count", U32>>, <<"seed", U64>>,
    <<"timeout_ms", U64>>, <<"load_generator_id", LoadGeneratorId>>>>)
ConfigMessage == Enum(<<<<"Config", LoadGeneratorConfig>>, <<"Abort", Unit>>>>)

GeneratorInfo == Struct(<<<<"version", Text>>, <<"os", Text>>, <<"arch", Text>>,
                          <<"cores", U32>>, <<"worker_threads", U32>>>>)
ConfigResponse == Enum(<<<<"Ready", GeneratorInfo>>,
                         <<"SetupFailed", Struct(<<<<"reason", Text>>>>)>>,
                         <<"Aborted", Unit>>>>)

Command == Enum(<<<<"Start", Unit>>, <<"Abort", Unit>>>>)

ResultMetadata == Struct(
  <<<<"spec_id", SpecId>>, <<"virtual_user_id", VirtualUserId>>,
    <<"loadgenerator_id", LoadGeneratorId>>,
    <<"start_time", Seconds>>, <<"send_time", Seconds>>, <<"target_time", Seconds>>>>)
DroppedMetadata == Struct(
  <<<<"virtual_user_id", Option(VirtualUserId)>>, <<"loadgenerator_id", LoadGeneratorId>>,
    <<"start_time", Seconds>>, <<"target_time", Seconds>>>>)
FailedCode  == Enum(<<<<"Send", Text>>, <<"Extract", Text>>, <<"Status", U16>>>>)
TimeoutCode == Enum(<<<<"Error", Text>>>>)
DroppedCode == Enum(<<<<"NoVirtualUser", Unit>>, <<"Late", Unit>>, <<"Error", Text>>>>)

Times == <<<<"metadata", ResultMetadata>>, <<"response_time", Millis>>, <<"service_time", Millis>>>>
TransactionResult == Enum(
  <<<<"Success", Struct(Times)>>,
    <<"Failed",  Struct(Append(Times, <<"code", FailedCode>>))>>,
    <<"Timeout", Struct(Append(Times, <<"code", TimeoutCode>>))>>,
    <<"Dropped", Struct(<<<<"metadata", DroppedMetadata>>, <<"response_time", Millis>>,
                          <<"code", DroppedCode>>>>)>>>>)
IntervalStatistics == Struct(
  <<<<"successful_transactions", U64>>, <<"failed_transactions", U64>>,
    <<"timeout_transactions", U64>>, <<"dropped_transactions", U64>>,
    <<"response_time_sum", U64>>, <<"response_time_count", U64>>,
    <<"transaction_results", Vec(TransactionResult)>>>>)
IntervalReport == Struct(
  <<<<"target_time", Seconds>>, <<"load_level", U32>>, <<"stats", IntervalStatistics>>,
    <<"final_batch_time", Option(Seconds)>>>>)
GeneratorUpdate == Enum(<<<<"IntervalReport", IntervalReport>>, <<"Finished", Unit>>>>)

(* The messages of a session by the names of their types.                  *)
MessageTypes ==
  [ConfigMessage |-> ConfigMessage, ConfigResponse |-> ConfigResponse,
   Command |-> Command, GeneratorUpdate |-> GeneratorUpdate]

SerializeMessage(type, message) == Ser(MessageTypes[type], message)
DeserializeMessage(type, bytes) == De(MessageTypes[type], bytes)
=============================================================================
