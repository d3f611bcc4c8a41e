-------------------------- MODULE GeneratorAddress --------------------------
(***************************************************************************)
(* Where a load generator is said to listen (cli/generator_addr.rs): what  *)
(* --generator accepts, and how the address is written when the connection *)
(* is opened.  A text is a sequence of ASCII codes, as in WireFormat.      *)
(***************************************************************************)
EXTENDS Naturals, Sequences, SequencesExt

Digits       == 48 .. 57
Colon        == 58
OpenBracket  == 91
CloseBracket == 93

DefaultPort == 24266
MaxPort     == 65535   \* u16::MAX

Invalid == [ok |-> FALSE]
Address(addr, port) == [ok |-> TRUE, addr |-> addr, port |-> port]

Places(sign, text) == {i \in DOMAIN text : text[i] = sign}
Until(text, i) == SubSeq(text, 1, i)
Behind(text, i) == SubSeq(text, i + 1, Len(text))

-----------------------------------------------------------------------------
Value(text) == FoldLeft(LAMBDA n, digit : 10 * n + (digit - 48), 0, text)

(* str::parse::<u16>; a sign in front is left out.                         *)
IsPort(text) == text # <<>> /\ (\A i \in DOMAIN text : text[i] \in Digits) /\ Value(text) <= MaxPort

WithPort(addr, text) == IF IsPort(text) THEN Address(addr, Value(text)) ELSE Invalid

(* [IPv6]:port or [IPv6]: the first closing bracket ends the address.      *)
Bracketed(text) ==
  LET close == CHOOSE i \in Places(CloseBracket, text) : \A j \in Places(CloseBracket, text) : i <= j
      rest  == Behind(text, close)
  IN IF Places(CloseBracket, text) = {} THEN Invalid
     ELSE IF rest = <<>> THEN Address(text, DefaultPort)
     ELSE IF rest[1] = Colon THEN WithPort(Until(text, close), Tail(rest))
     ELSE Invalid

(* addr:port or addr: the last colon ends the address.                     *)
Plain(text) ==
  LET colon == CHOOSE i \in Places(Colon, text) : \A j \in Places(Colon, text) : j <= i
  IN IF Places(Colon, text) = {} THEN Address(text, DefaultPort)
     ELSE WithPort(Until(text, colon - 1), Behind(text, colon))

FromStr(text) ==
  IF text # <<>> /\ text[1] = OpenBracket THEN Bracketed(text) ELSE Plain(text)

-----------------------------------------------------------------------------
Decimal[n \in Nat] == IF n < 10 THEN <<48 + n>> ELSE Append(Decimal[n \div 10], 48 + (n % 10))

Shown(address) == address.addr \o <<Colon>> \o Decimal[address.port]

(* The address a generator is connected to is the one that was accepted:   *)
(* what is written reads as the same address, also when it holds colons,   *)
(* and only a port that was left out makes it longer.                      *)
ReadsBack(text) ==
  LET address == FromStr(text) IN
  address.ok => /\ FromStr(Shown(address)) = address
                /\ (Len(Shown(address)) <= Len(text) \/ address.port = DefaultPort)
=============================================================================
