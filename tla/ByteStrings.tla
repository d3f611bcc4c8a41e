----------------------------- MODULE ByteStrings -----------------------------
(***************************************************************************)
(* Sequences of bytes, numbers in them, and what is read from their front  *)
(* (src/src/net: ser.rs, de.rs, and bytes::Buf).                           *)
(***************************************************************************)
EXTENDS Integers, Sequences

Bytes == 0 .. 255

(* Numbers are big-endian.  TLC's are small: all bytes but the last three  *)
(* of what is written are zero, and a number with others is just Huge.     *)
Huge  == 256 * 256 * 256
Place == <<1, 256, 256 * 256>>   \* what the last byte counts, and the two before it

BigEndian(n, size) ==
  [i \in 1 .. size |-> IF size - i > 2 THEN 0 ELSE (n \div Place[size - i + 1]) % 256]

FromBigEndian(bytes) ==
  LET size == Len(bytes)
      low(i) == IF i < size THEN bytes[size - i] * Place[i + 1] ELSE 0
  IN IF \E i \in 1 .. size : i + 3 <= size /\ bytes[i] # 0
     THEN Huge ELSE low(0) + low(1) + low(2)

(* A value read from the front and what is left, or not enough for it.     *)
Failed == [ok |-> FALSE]
Read(value, rest) == [ok |-> TRUE, value |-> value, rest |-> rest]
Drop(bytes, n) == SubSeq(bytes, n + 1, Len(bytes))

IsUTF8(text) == \A i \in DOMAIN text : text[i] < 128   \* ASCII is enough here
=============================================================================
