------------------------------- MODULE Framer -------------------------------
(***************************************************************************)
(* The frame around a payload (src/src/net: protocol.rs, framer.rs), for   *)
(* any serializer of the payload.  A type of messages is its name.         *)
(***************************************************************************)
EXTENDS ByteStrings

CONSTANTS Serialize(_, _),   \* the bytes of a message of a type
          Deserialize(_, _)  \* Failed, or what is read from the front of bytes

MagicNumber == 43981   \* 0xABCD
Version     == 1
HeaderSize  == 12

Header(payloadSize) ==
  BigEndian(MagicNumber, 2) \o <<Version, 0>> \o BigEndian(payloadSize, 8)

EncodeWholeSize(type, message) ==   \* mutant: the size is that of the frame
  LET payload == Serialize(type, message) IN Header(HeaderSize + Len(payload)) \o payload

Encode(type, message) ==
  LET payload == Serialize(type, message) IN Header(Len(payload)) \o payload

(* MessageFramer::decode: more bytes are needed, a message and the bytes   *)
(* behind it, or an error.  Bytes of the payload behind the message in it  *)
(* are ignored.                                                            *)
NeedMore == [kind |-> "more"]
Broken   == [kind |-> "error"]
Message(m, rest) == [kind |-> "message", message |-> m, rest |-> rest]

HeaderIsValid(buffer) ==
  FromBigEndian(SubSeq(buffer, 1, 2)) = MagicNumber /\ buffer[3] = Version
FrameSize(buffer) == HeaderSize + FromBigEndian(SubSeq(buffer, 5, HeaderSize))

DecodePayloadKept(type, buffer) ==   \* mutant: the payload stays in the buffer
  LET payload == Deserialize(type, SubSeq(buffer, HeaderSize + 1, FrameSize(buffer))) IN
  IF payload.ok THEN Message(payload.value, Drop(buffer, HeaderSize)) ELSE Broken

DecodePayload(type, buffer) ==
  LET payload == Deserialize(type, SubSeq(buffer, HeaderSize + 1, FrameSize(buffer))) IN
  IF payload.ok THEN Message(payload.value, Drop(buffer, FrameSize(buffer))) ELSE Broken

Decode(type, buffer) ==
  IF Len(buffer) < HeaderSize THEN NeedMore
  ELSE IF ~HeaderIsValid(buffer) THEN Broken
  ELSE IF Len(buffer) < FrameSize(buffer) THEN NeedMore
  ELSE DecodePayload(type, buffer)

(* A message the serializer turns into bytes, not more than there are, and *)
(* the deserializer turns these into.                                      *)
ReadsBack(type, message) ==
  LET payload == Serialize(type, message) IN
  /\ payload \in Seq(Bytes) /\ Len(payload) < Huge
  /\ Deserialize(type, payload).ok
  /\ Deserialize(type, payload).value = message
=============================================================================
