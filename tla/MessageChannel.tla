--------------------------- MODULE MessageChannel ---------------------------
(***************************************************************************)
(* What one direction of a connection promises to those who use a          *)
(* MessageFramer on both ends: messages arrive whole, in order and once;   *)
(* whoever reads to an orderly end has them all; only if the other process *)
(* died may the end come too soon, or as an error.                         *)
(***************************************************************************)
EXTENDS Naturals, Sequences

VARIABLES
  sent,     \* the messages sent so far
  received, \* the messages received so far
  gone,     \* how the sender's end is: "no", "closed", "reset" (not orderly)
  reader    \* what the last read returned: "open", "ended", "failed"

channelVars == <<sent, received, gone, reader>>

Init == sent = <<>> /\ received = <<>> /\ gone = "no" /\ reader = "open"

Send ==
  /\ gone = "no"
  /\ Len(sent') = Len(sent) + 1 /\ SubSeq(sent', 1, Len(sent)) = sent
  /\ UNCHANGED <<received, gone, reader>>

Receive ==
  /\ reader = "open" /\ Len(received) < Len(sent)
  /\ received' = Append(received, sent[Len(received) + 1])
  /\ UNCHANGED <<sent, gone, reader>>

Go ==
  /\ gone = "no" /\ gone' \in {"closed", "reset"}
  /\ UNCHANGED <<sent, received, reader>>

End ==
  /\ reader = "open"
  /\ \/ gone = "closed" /\ received = sent /\ reader' = "ended"
     \/ gone = "reset" /\ reader' \in {"ended", "failed"}
  /\ UNCHANGED <<sent, received, gone>>

Next == Send \/ Receive \/ Go \/ End
ChannelSpec == Init /\ [][Next]_channelVars
=============================================================================
