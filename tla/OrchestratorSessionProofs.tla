---------------------- MODULE OrchestratorSessionProofs ----------------------
(***************************************************************************)
(* Theorems about OrchestratorSession, for every number of load generators *)
(* and of connection attempts.                                             *)
(***************************************************************************)
EXTENDS OrchestratorSession, SequenceTheorems, TLAPS

-----------------------------------------------------------------------------
(* What a queue contains after a message is added, read or lost.           *)
LEMMA ContainsAppend ==
  ASSUME NEW S, NEW queue \in Seq(S), NEW message \in S
  PROVE  /\ Append(queue, message) \in Seq(S) /\ Append(queue, message) # <<>>
         /\ Len(Append(queue, message)) = Len(queue) + 1
         /\ queue # <<>> => Head(Append(queue, message)) = Head(queue)
         /\ queue = <<>> => Head(Append(queue, message)) = message
         /\ \A m : Contains(Append(queue, message), m) <=> Contains(queue, m) \/ m = message
<1>1. /\ Append(queue, message) \in Seq(S) /\ Append(queue, message) # <<>>
      /\ Len(Append(queue, message)) = Len(queue) + 1
      /\ queue # <<>> => Head(Append(queue, message)) = Head(queue)
      /\ queue = <<>> => Head(Append(queue, message)) = message
  OBVIOUS
<1>2. ASSUME NEW m, Contains(queue, m)
      PROVE  Contains(Append(queue, message), m)
  BY <1>2 DEF Contains
<1>3. Contains(Append(queue, message), message)
  <2>1. Append(queue, message)[Len(queue) + 1] = message
    OBVIOUS
  <2>2. Len(queue) + 1 \in DOMAIN Append(queue, message)
    OBVIOUS
  <2>3. QED
    BY <2>1, <2>2 DEF Contains
<1>4. ASSUME NEW m, Contains(Append(queue, message), m), m # message
      PROVE  Contains(queue, m)
  BY <1>4 DEF Contains
<1>5. QED
  BY <1>1, <1>2, <1>3, <1>4

LEMMA ContainsTail ==
  ASSUME NEW S, NEW queue \in Seq(S), queue # <<>>
  PROVE  /\ Tail(queue) \in Seq(S) /\ Len(Tail(queue)) = Len(queue) - 1
         /\ Contains(queue, Head(queue))
         /\ \A m : Contains(Tail(queue), m) => Contains(queue, m)
<1>1. /\ Tail(queue) \in Seq(S) /\ Len(Tail(queue)) = Len(queue) - 1
      /\ Len(queue) \in Nat \ {0}
  OBVIOUS
<1>2. Contains(queue, Head(queue))
  <2>1. 1 \in DOMAIN queue /\ queue[1] = Head(queue)
    OBVIOUS
  <2>2. QED
    BY <2>1 DEF Contains
<1>3. ASSUME NEW m, Contains(Tail(queue), m)
      PROVE  Contains(queue, m)
  <2>1. PICK i \in DOMAIN Tail(queue) : Tail(queue)[i] = m
    BY <1>3 DEF Contains
  <2>2. i + 1 \in DOMAIN queue /\ queue[i + 1] = m
    BY <2>1
  <2>3. QED
    BY <2>2 DEF Contains
<1>4. QED
  BY <1>1, <1>2, <1>3

LEMMA ContainsPrefix ==
  ASSUME NEW S, NEW queue \in Seq(S), NEW n \in 0 .. Len(queue)
  PROVE  /\ SubSeq(queue, 1, n) \in Seq(S) /\ Len(SubSeq(queue, 1, n)) = n
         /\ \A m : Contains(SubSeq(queue, 1, n), m) => Contains(queue, m)
<1>1. SubSeq(queue, 1, n) \in Seq(S) /\ Len(SubSeq(queue, 1, n)) = n
  OBVIOUS
<1>2. ASSUME NEW m, Contains(SubSeq(queue, 1, n), m)
      PROVE  Contains(queue, m)
  BY <1>2 DEF Contains
<1>3. QED
  BY <1>1, <1>2

LEMMA ContainsNothing == \A m : ~Contains(<<>>, m)
BY DEF Contains

(* One message more, or one less, in the queue of g.                       *)
Longer(before, after, g, message) ==
  /\ after[g] # <<>> /\ Len(after[g]) = Len(before[g]) + 1
  /\ before[g] # <<>> => Head(after[g]) = Head(before[g])
  /\ before[g] = <<>> => Head(after[g]) = message
  /\ \A m : Contains(after[g], m) <=> Contains(before[g], m) \/ m = message
  /\ \A h \in Generators \ {g} : after[h] = before[h]

Shorter(before, after, g) ==
  /\ before[g] # <<>>
  /\ Len(after[g]) = Len(before[g]) - 1 /\ Len(before[g]) \in Nat \ {0}
  /\ Len(after[g]) = 0 <=> after[g] = <<>>
  /\ Contains(before[g], Head(before[g]))
  /\ \A m : Contains(after[g], m) => Contains(before[g], m)
  /\ \A h \in Generators \ {g} : after[h] = before[h]

LEMMA Said ==
  ASSUME NEW S, NEW before \in [Generators -> Seq(S)], NEW after,
         NEW g \in Generators, NEW message \in S,
         after = [before EXCEPT ![g] = Append(@, message)]
  PROVE  after \in [Generators -> Seq(S)] /\ Longer(before, after, g, message)
<1> DEFINE queue == before[g]
<1>1. queue \in Seq(S) /\ after[g] = Append(queue, message)
  OBVIOUS
<1>2. after \in [Generators -> Seq(S)] /\ \A h \in Generators \ {g} : after[h] = before[h]
  BY <1>1
<1> HIDE DEF queue
<1>3. /\ Append(queue, message) # <<>>
      /\ Len(Append(queue, message)) = Len(queue) + 1
      /\ queue # <<>> => Head(Append(queue, message)) = Head(queue)
      /\ queue = <<>> => Head(Append(queue, message)) = message
      /\ \A m : Contains(Append(queue, message), m) <=> Contains(queue, m) \/ m = message
  BY <1>1, ContainsAppend
<1>4. QED
  BY <1>1, <1>2, <1>3, Zenon DEF queue, Longer

LEMMA Heard ==
  ASSUME NEW S, NEW before \in [Generators -> Seq(S)], NEW after,
         NEW g \in Generators, before[g] # <<>>,
         after = [before EXCEPT ![g] = Tail(@)]
  PROVE  after \in [Generators -> Seq(S)] /\ Shorter(before, after, g)
<1> DEFINE queue == before[g]
<1>1. queue \in Seq(S) /\ queue # <<>> /\ after[g] = Tail(queue)
  OBVIOUS
<1>2. after \in [Generators -> Seq(S)] /\ \A h \in Generators \ {g} : after[h] = before[h]
  BY <1>1
<1> HIDE DEF queue
<1>3. /\ Len(queue) \in Nat \ {0} /\ Len(Tail(queue)) = Len(queue) - 1
      /\ Contains(queue, Head(queue))
      /\ \A m : Contains(Tail(queue), m) => Contains(queue, m)
  <2>1. Len(queue) \in Nat \ {0}
    BY <1>1
  <2>2. QED
    BY <1>1, <2>1, ContainsTail
<1>4. Len(Tail(queue)) = 0 <=> Tail(queue) = <<>>
  <2>1. Tail(queue) \in Seq(S)
    BY <1>1
  <2>2. QED
    BY <2>1, EmptySeq
<1>5. QED
  BY <1>1, <1>2, <1>3, <1>4, Zenon DEF queue, Shorter

LEMMA SaidToGenerator ==
  ASSUME SessionTypeOK, NEW g \in Generators, NEW message \in Messages,
         Say(toGen, g, message)
  PROVE  toGen' \in [Generators -> Seq(Messages)] /\ Longer(toGen, toGen', g, message)
<1>1. /\ toGen \in [Generators -> Seq(Messages)]
      /\ toGen' = [toGen EXCEPT ![g] = Append(@, message)]
  BY DEF SessionTypeOK, Say
<1>2. QED
  BY <1>1, Said

LEMMA SaidToOrchestrator ==
  ASSUME SessionTypeOK, NEW g \in Generators, NEW message \in Answers,
         Say(toOrch, g, message)
  PROVE  toOrch' \in [Generators -> Seq(Answers)] /\ Longer(toOrch, toOrch', g, message)
<1>1. /\ toOrch \in [Generators -> Seq(Answers)]
      /\ toOrch' = [toOrch EXCEPT ![g] = Append(@, message)]
  BY DEF SessionTypeOK, Say
<1>2. QED
  BY <1>1, Said

LEMMA HeardByGenerator ==
  ASSUME SessionTypeOK, NEW g \in Generators, NEW message, Hear(toGen, g, message)
  PROVE  /\ toGen' \in [Generators -> Seq(Messages)] /\ Shorter(toGen, toGen', g)
         /\ Contains(toGen[g], message)
<1>1. /\ toGen \in [Generators -> Seq(Messages)] /\ toGen' = [toGen EXCEPT ![g] = Tail(@)]
      /\ toGen[g] # <<>> /\ Head(toGen[g]) = message
  BY DEF SessionTypeOK, Hear
<1>2. toGen' \in [Generators -> Seq(Messages)] /\ Shorter(toGen, toGen', g)
  BY <1>1, Heard
<1>3. QED
  BY <1>1, <1>2, Zenon DEF Shorter

LEMMA HeardByOrchestrator ==
  ASSUME SessionTypeOK, NEW g \in Generators, NEW message, Hear(toOrch, g, message)
  PROVE  /\ toOrch' \in [Generators -> Seq(Answers)] /\ Shorter(toOrch, toOrch', g)
         /\ Contains(toOrch[g], message)
<1>1. /\ toOrch \in [Generators -> Seq(Answers)] /\ toOrch' = [toOrch EXCEPT ![g] = Tail(@)]
      /\ toOrch[g] # <<>> /\ Head(toOrch[g]) = message
  BY DEF SessionTypeOK, Hear
<1>2. toOrch' \in [Generators -> Seq(Answers)] /\ Shorter(toOrch, toOrch', g)
  BY <1>1, Heard
<1>3. QED
  BY <1>1, <1>2, Zenon DEF Shorter

-----------------------------------------------------------------------------
(* A generator of which nothing changes but the connection keeps its part  *)
(* of the invariant.                                                       *)
LEMMA Elsewhere ==
  ASSUME NEW h \in Generators, EndsMatch(h), CommandsOK(h),
         peer'[h] = peer[h], toGen'[h] = toGen[h], toOrch'[h] = toOrch[h],
         gen'[h] = gen[h],
         h \in readied' <=> h \in readied, h \in started' <=> h \in started
  PROVE  EndsMatch(h)' /\ CommandsOK(h)'
BY DEF EndsMatch, CommandsOK, Untouched

(* Each action that concerns one generator: the runner first, then the     *)
(* load generator itself.                                                  *)
LEMMA ConnectSucceedsKeeps ==
  ASSUME SessionInv, NEW g \in Generators, ConnectSucceeds(g)
  PROVE  SessionInv'
<1>1. SessionTypeOK'
  BY DEF SessionInv, SessionTypeOK, Messages, Answers, Connected, Ended,
     ConnectSucceeds, Becomes, genVars, runnerVars
<1>2. PeersOK'
  BY DEF SessionInv, SessionTypeOK, PeersOK, PeersIn, Some, ConnectSucceeds, Becomes,
     genVars, runnerVars
<1>3. EndsMatch(g)' /\ CommandsOK(g)'
  BY ContainsNothing DEF SessionInv, SessionTypeOK, PeersOK, PeersIn, EndsMatch,
     CommandsOK, Untouched, Messages, Answers, Connected, Ended, ConnectSucceeds,
     Becomes, genVars, runnerVars
<1>4. ASSUME NEW h \in Generators, h # g
      PROVE  EndsMatch(h)' /\ CommandsOK(h)'
  BY <1>4, Elsewhere DEF SessionInv, SessionTypeOK, ConnectSucceeds, Becomes, genVars,
     runnerVars
<1>5. FinishedMeansAllFinished'
  BY DEF SessionInv, SessionTypeOK, FinishedMeansAllFinished, Connected, Ended,
     ConnectSucceeds, Becomes, genVars, runnerVars
<1>6. QED
  BY <1>1, <1>2, <1>3, <1>4, <1>5 DEF SessionInv

LEMMA ConnectAttemptFailsKeeps ==
  ASSUME SessionInv, NEW g \in Generators, ConnectAttemptFails(g)
  PROVE  SessionInv'
<1>1. MaxRetries \in Nat /\ attempts[g] \in Nat /\ attempts[g] <= MaxRetries
  BY SessionAssumption DEF SessionInv, SessionTypeOK, PeersOK, ConnectAttemptFails
<1>2. /\ attempts[g] + 1 \in 0 .. MaxRetries + 1
      /\ attempts[g] # MaxRetries => attempts[g] + 1 <= MaxRetries
  BY <1>1
<1>3. SessionTypeOK'
  BY <1>1, <1>2 DEF SessionInv, SessionTypeOK, Messages, Answers, Connected, Ended,
     ConnectAttemptFails, Becomes, genVars, runnerVars
<1>4. PeersOK'
  BY <1>1, <1>2 DEF SessionInv, SessionTypeOK, PeersOK, PeersIn, Some,
     ConnectAttemptFails, Becomes, genVars, runnerVars
<1>5. EndsMatch(g)' /\ CommandsOK(g)'
  BY ContainsNothing DEF SessionInv, SessionTypeOK, PeersOK, PeersIn, EndsMatch,
     CommandsOK, Untouched, Messages, Answers, Connected, Ended, ConnectAttemptFails,
     Becomes, genVars, runnerVars
<1>6. ASSUME NEW h \in Generators, h # g
      PROVE  EndsMatch(h)' /\ CommandsOK(h)'
  BY <1>6, Elsewhere DEF SessionInv, SessionTypeOK, ConnectAttemptFails, Becomes,
     genVars, runnerVars
<1>7. FinishedMeansAllFinished'
  BY DEF SessionInv, SessionTypeOK, FinishedMeansAllFinished, Connected, Ended,
     ConnectAttemptFails, Becomes, genVars, runnerVars
<1>8. QED
  BY <1>3, <1>4, <1>5, <1>6, <1>7 DEF SessionInv

LEMMA SendAbortConnectedKeeps ==
  ASSUME SessionInv, NEW g \in Generators, SendAbortConnected(g)
  PROVE  SessionInv'
<1>1. CASE Say(toGen, g, "abort")
  <2>1. toGen' \in [Generators -> Seq(Messages)] /\ Longer(toGen, toGen', g, "abort")
    <3>1. SessionTypeOK /\ "abort" \in Messages /\ Say(toGen, g, "abort")
      BY <1>1 DEF SessionInv, Messages, SendAbortConnected
    <3>2. QED
      BY <3>1, SaidToGenerator
  <2>2. SessionTypeOK'
    BY <1>1, <2>1 DEF SessionInv, SessionTypeOK, Messages, Answers, Connected, Ended,
       SendAbortConnected, Becomes, IsFirst, genVars, runnerVars, Say, Longer
  <2>3. PeersOK'
    BY <1>1, <2>1 DEF SessionInv, SessionTypeOK, PeersOK, PeersIn, Some,
       SendAbortConnected, Becomes, IsFirst, genVars, runnerVars, Say, Longer
  <2>4. EndsMatch(g)' /\ CommandsOK(g)'
    <3>1. /\ peer[g] = "connected" /\ Untouched(g) /\ gen[g] \in {"configuring", "failed"}
          /\ g \notin readied /\ g \notin started
      BY ContainsNothing, <1>1, <2>1 DEF SessionInv, SessionTypeOK, PeersOK, PeersIn,
         EndsMatch, CommandsOK, Untouched, SendAbortConnected, Becomes, IsFirst,
         genVars, runnerVars, Say, Longer
    <3>2. /\ peer'[g] = "aborting" /\ gen'[g] \in {"configuring", "failed"}
          /\ g \notin readied' /\ g \notin started'
      BY <3>1, <1>1, <2>1 DEF SessionInv, SessionTypeOK, SendAbortConnected, Becomes,
         IsFirst, genVars, runnerVars, Say, Longer
    <3>3. /\ toOrch'[g] = <<>>
          /\ \A m : Contains(toGen'[g], m) => m = "abort"
      BY ContainsNothing, <3>1, <1>1, <2>1 DEF SessionInv, SessionTypeOK, Untouched,
         SendAbortConnected, Becomes, IsFirst, genVars, runnerVars, Say, Longer
    <3>4. EndsMatch(g)'
      BY ContainsNothing, <3>2, <3>3 DEF EndsMatch, Untouched
    <3>5. /\ ~Contains(toGen'[g], "start") /\ ~Contains(toGen'[g], "config")
          /\ ~Contains(toOrch'[g], "finished")
      BY ContainsNothing, <3>3
    <3>6. CommandsOK(g)'
      BY <3>2, <3>5 DEF CommandsOK
    <3>7. QED
      BY <3>4, <3>6
  <2>5. ASSUME NEW h \in Generators, h # g
        PROVE  EndsMatch(h)' /\ CommandsOK(h)'
    BY <2>5, Elsewhere, <1>1, <2>1 DEF SessionInv, SessionTypeOK, SendAbortConnected,
       Becomes, IsFirst, genVars, runnerVars, Say, Longer
  <2>6. FinishedMeansAllFinished'
    BY <1>1, <2>1 DEF SessionInv, SessionTypeOK, FinishedMeansAllFinished, Connected,
       Ended, SendAbortConnected, Becomes, IsFirst, genVars, runnerVars, Say, Longer
  <2>7. QED
    BY <2>2, <2>3, <2>4, <2>5, <2>6 DEF SessionInv
<1>2. CASE ~Say(toGen, g, "abort")
  <2>1. SessionTypeOK'
    BY <1>2 DEF SessionInv, SessionTypeOK, Messages, Answers, Connected, Ended,
       SendAbortConnected, Becomes, IsFirst, genVars, runnerVars
  <2>2. PeersOK'
    BY <1>2 DEF SessionInv, SessionTypeOK, PeersOK, PeersIn, Some, SendAbortConnected,
       Becomes, IsFirst, genVars, runnerVars
  <2>3. EndsMatch(g)' /\ CommandsOK(g)'
    BY ContainsNothing, <1>2 DEF SessionInv, SessionTypeOK, PeersOK, PeersIn,
       EndsMatch, CommandsOK, Untouched, Messages, Answers, Connected, Ended,
       SendAbortConnected, Becomes, IsFirst, genVars, runnerVars
  <2>4. ASSUME NEW h \in Generators, h # g
        PROVE  EndsMatch(h)' /\ CommandsOK(h)'
    BY <2>4, Elsewhere, <1>2 DEF SessionInv, SessionTypeOK, SendAbortConnected,
       Becomes, IsFirst, genVars, runnerVars
  <2>5. FinishedMeansAllFinished'
    BY <1>2 DEF SessionInv, SessionTypeOK, FinishedMeansAllFinished, Connected, Ended,
       SendAbortConnected, Becomes, IsFirst, genVars, runnerVars
  <2>6. QED
    BY <2>1, <2>2, <2>3, <2>4, <2>5 DEF SessionInv
<1>3. QED
  BY <1>1, <1>2

LEMMA AbortAnsweredKeeps ==
  ASSUME SessionInv, NEW g \in Generators, AbortAnswered(g)
  PROVE  SessionInv'
<1>1. CASE Hear(toOrch, g, "aborted")
  <2>1. /\ toOrch' \in [Generators -> Seq(Answers)] /\ Shorter(toOrch, toOrch', g)
        /\ Contains(toOrch[g], "aborted")
    BY <1>1, HeardByOrchestrator DEF SessionInv, AbortAnswered
  <2>2. SessionTypeOK'
    BY <1>1, <2>1 DEF SessionInv, SessionTypeOK, Messages, Answers, Connected, Ended,
       AbortAnswered, Becomes, genVars, runnerVars, Hear, Shorter
  <2>3. PeersOK'
    BY <1>1, <2>1 DEF SessionInv, SessionTypeOK, PeersOK, PeersIn, Some,
       AbortAnswered, Becomes, genVars, runnerVars, Hear, Shorter
  <2>4. EndsMatch(g)' /\ CommandsOK(g)'
    BY ContainsNothing, <1>1, <2>1 DEF SessionInv, SessionTypeOK, PeersOK, PeersIn,
       EndsMatch, CommandsOK, Untouched, Messages, Answers, Connected, Ended,
       AbortAnswered, Becomes, genVars, runnerVars, Hear, Shorter
  <2>5. ASSUME NEW h \in Generators, h # g
        PROVE  EndsMatch(h)' /\ CommandsOK(h)'
    BY <2>5, Elsewhere, <1>1, <2>1 DEF SessionInv, SessionTypeOK, AbortAnswered,
       Becomes, genVars, runnerVars, Hear, Shorter
  <2>6. FinishedMeansAllFinished'
    BY <1>1, <2>1 DEF SessionInv, SessionTypeOK, FinishedMeansAllFinished, Connected,
       Ended, AbortAnswered, Becomes, genVars, runnerVars, Hear, Shorter
  <2>7. QED
    BY <2>2, <2>3, <2>4, <2>5, <2>6 DEF SessionInv
<1>2. CASE ~Hear(toOrch, g, "aborted")
  <2>1. SessionTypeOK'
    BY <1>2 DEF SessionInv, SessionTypeOK, Messages, Answers, Connected, Ended,
       AbortAnswered, Becomes, genVars, runnerVars
  <2>2. PeersOK'
    BY <1>2 DEF SessionInv, SessionTypeOK, PeersOK, PeersIn, Some, AbortAnswered,
       Becomes, genVars, runnerVars
  <2>3. EndsMatch(g)' /\ CommandsOK(g)'
    BY ContainsNothing, <1>2 DEF SessionInv, SessionTypeOK, PeersOK, PeersIn,
       EndsMatch, CommandsOK, Untouched, Messages, Answers, Connected, Ended,
       AbortAnswered, Becomes, genVars, runnerVars
  <2>4. ASSUME NEW h \in Generators, h # g
        PROVE  EndsMatch(h)' /\ CommandsOK(h)'
    BY <2>4, Elsewhere, <1>2 DEF SessionInv, SessionTypeOK, AbortAnswered, Becomes,
       genVars, runnerVars
  <2>5. FinishedMeansAllFinished'
    BY <1>2 DEF SessionInv, SessionTypeOK, FinishedMeansAllFinished, Connected, Ended,
       AbortAnswered, Becomes, genVars, runnerVars
  <2>6. QED
    BY <2>1, <2>2, <2>3, <2>4, <2>5 DEF SessionInv
<1>3. QED
  BY <1>1, <1>2

LEMMA SendConfigKeeps ==
  ASSUME SessionInv, NEW g \in Generators, SendConfig(g)
  PROVE  SessionInv'
<1>1. CASE Say(toGen, g, "config")
  <2>1. toGen' \in [Generators -> Seq(Messages)] /\ Longer(toGen, toGen', g, "config")
    <3>1. SessionTypeOK /\ "config" \in Messages /\ Say(toGen, g, "config")
      BY <1>1 DEF SessionInv, Messages, SendConfig
    <3>2. QED
      BY <3>1, SaidToGenerator
  <2>2. SessionTypeOK'
    BY <1>1, <2>1 DEF SessionInv, SessionTypeOK, Messages, Answers, Connected, Ended,
       SendConfig, Becomes, genVars, runnerVars, Say, Longer
  <2>3. PeersOK'
    BY <1>1, <2>1 DEF SessionInv, SessionTypeOK, PeersOK, PeersIn, Some, SendConfig,
       Becomes, genVars, runnerVars, Say, Longer
  <2>4. EndsMatch(g)' /\ CommandsOK(g)'
    <3>1. /\ peer[g] = "connected" /\ Untouched(g) /\ gen[g] \in {"configuring", "failed"}
          /\ g \notin readied /\ g \notin started
      BY ContainsNothing, <1>1, <2>1 DEF SessionInv, SessionTypeOK, PeersOK, PeersIn,
         EndsMatch, CommandsOK, Untouched, SendConfig, Becomes, genVars, runnerVars,
         Say, Longer
    <3>2. /\ peer'[g] = "configuring" /\ gen'[g] \in {"configuring", "failed"}
          /\ g \notin readied' /\ g \notin started'
      BY <3>1, <1>1, <2>1 DEF SessionInv, SessionTypeOK, SendConfig, Becomes, genVars,
         runnerVars, Say, Longer
    <3>3. /\ toOrch'[g] = <<>> /\ Len(toOrch'[g]) = 0 /\ Len(toGen'[g]) = 1
          /\ \A m : Contains(toGen'[g], m) => m = "config"
      BY ContainsNothing, <3>1, <1>1, <2>1 DEF SessionInv, SessionTypeOK, Untouched,
         SendConfig, Becomes, genVars, runnerVars, Say, Longer
    <3>4. EndsMatch(g)'
      BY ContainsNothing, <3>2, <3>3 DEF EndsMatch, Untouched
    <3>5. /\ ~Contains(toGen'[g], "start") /\ ~Contains(toGen'[g], "abort")
          /\ ~Contains(toOrch'[g], "finished")
      BY ContainsNothing, <3>3
    <3>6. CommandsOK(g)'
      BY <3>2, <3>5 DEF CommandsOK
    <3>7. QED
      BY <3>4, <3>6
  <2>5. ASSUME NEW h \in Generators, h # g
        PROVE  EndsMatch(h)' /\ CommandsOK(h)'
    BY <2>5, Elsewhere, <1>1, <2>1 DEF SessionInv, SessionTypeOK, SendConfig, Becomes,
       genVars, runnerVars, Say, Longer
  <2>6. FinishedMeansAllFinished'
    BY <1>1, <2>1 DEF SessionInv, SessionTypeOK, FinishedMeansAllFinished, Connected,
       Ended, SendConfig, Becomes, genVars, runnerVars, Say, Longer
  <2>7. QED
    BY <2>2, <2>3, <2>4, <2>5, <2>6 DEF SessionInv
<1>2. CASE ~Say(toGen, g, "config")
  <2>1. SessionTypeOK'
    BY <1>2 DEF SessionInv, SessionTypeOK, Messages, Answers, Connected, Ended,
       SendConfig, Becomes, genVars, runnerVars
  <2>2. PeersOK'
    BY <1>2 DEF SessionInv, SessionTypeOK, PeersOK, PeersIn, Some, SendConfig,
       Becomes, genVars, runnerVars
  <2>3. EndsMatch(g)' /\ CommandsOK(g)'
    BY ContainsNothing, <1>2 DEF SessionInv, SessionTypeOK, PeersOK, PeersIn,
       EndsMatch, CommandsOK, Untouched, Messages, Answers, Connected, Ended,
       SendConfig, Becomes, genVars, runnerVars
  <2>4. ASSUME NEW h \in Generators, h # g
        PROVE  EndsMatch(h)' /\ CommandsOK(h)'
    BY <2>4, Elsewhere, <1>2 DEF SessionInv, SessionTypeOK, SendConfig, Becomes,
       genVars, runnerVars
  <2>5. FinishedMeansAllFinished'
    BY <1>2 DEF SessionInv, SessionTypeOK, FinishedMeansAllFinished, Connected, Ended,
       SendConfig, Becomes, genVars, runnerVars
  <2>6. QED
    BY <2>1, <2>2, <2>3, <2>4, <2>5 DEF SessionInv
<1>3. QED
  BY <1>1, <1>2

LEMMA ConfigReadyKeeps ==
  ASSUME SessionInv, NEW g \in Generators, ConfigReady(g)
  PROVE  SessionInv'
<1>1. /\ toOrch' \in [Generators -> Seq(Answers)] /\ Shorter(toOrch, toOrch', g)
      /\ Contains(toOrch[g], "ready")
  BY HeardByOrchestrator DEF SessionInv, ConfigReady
<1>2. SessionTypeOK'
  BY <1>1 DEF SessionInv, SessionTypeOK, Messages, Answers, Connected, Ended,
     ConfigReady, Becomes, genVars, runnerVars, Hear, Shorter
<1>3. PeersOK'
  BY <1>1 DEF SessionInv, SessionTypeOK, PeersOK, PeersIn, Some, ConfigReady, Becomes,
     genVars, runnerVars, Hear, Shorter
<1>4. EndsMatch(g)' /\ CommandsOK(g)'
  BY ContainsNothing, <1>1 DEF SessionInv, SessionTypeOK, PeersOK, PeersIn, EndsMatch,
     CommandsOK, Untouched, Messages, Answers, Connected, Ended, ConfigReady, Becomes,
     genVars, runnerVars, Hear, Shorter
<1>5. ASSUME NEW h \in Generators, h # g
      PROVE  EndsMatch(h)' /\ CommandsOK(h)'
  BY <1>5, Elsewhere, <1>1 DEF SessionInv, SessionTypeOK, ConfigReady, Becomes,
     genVars, runnerVars, Hear, Shorter
<1>6. FinishedMeansAllFinished'
  BY <1>1 DEF SessionInv, SessionTypeOK, FinishedMeansAllFinished, Connected, Ended,
     ConfigReady, Becomes, genVars, runnerVars, Hear, Shorter
<1>7. QED
  BY <1>2, <1>3, <1>4, <1>5, <1>6 DEF SessionInv

LEMMA ConfigFailsKeeps ==
  ASSUME SessionInv, NEW g \in Generators, ConfigFails(g)
  PROVE  SessionInv'
<1>1. CASE Hear(toOrch, g, "setup_failed")
  <2>1. /\ toOrch' \in [Generators -> Seq(Answers)] /\ Shorter(toOrch, toOrch', g)
        /\ Contains(toOrch[g], "setup_failed")
    BY <1>1, HeardByOrchestrator DEF SessionInv, ConfigFails
  <2>2. SessionTypeOK'
    BY <1>1, <2>1 DEF SessionInv, SessionTypeOK, Messages, Answers, Connected, Ended,
       ConfigFails, Becomes, genVars, runnerVars, Hear, Shorter
  <2>3. PeersOK'
    BY <1>1, <2>1 DEF SessionInv, SessionTypeOK, PeersOK, PeersIn, Some, ConfigFails,
       Becomes, genVars, runnerVars, Hear, Shorter
  <2>4. EndsMatch(g)' /\ CommandsOK(g)'
    BY ContainsNothing, <1>1, <2>1 DEF SessionInv, SessionTypeOK, PeersOK, PeersIn,
       EndsMatch, CommandsOK, Untouched, Messages, Answers, Connected, Ended,
       ConfigFails, Becomes, genVars, runnerVars, Hear, Shorter
  <2>5. ASSUME NEW h \in Generators, h # g
        PROVE  EndsMatch(h)' /\ CommandsOK(h)'
    BY <2>5, Elsewhere, <1>1, <2>1 DEF SessionInv, SessionTypeOK, ConfigFails,
       Becomes, genVars, runnerVars, Hear, Shorter
  <2>6. FinishedMeansAllFinished'
    BY <1>1, <2>1 DEF SessionInv, SessionTypeOK, FinishedMeansAllFinished, Connected,
       Ended, ConfigFails, Becomes, genVars, runnerVars, Hear, Shorter
  <2>7. QED
    BY <2>2, <2>3, <2>4, <2>5, <2>6 DEF SessionInv
<1>2. CASE ~Hear(toOrch, g, "setup_failed")
  <2>1. SessionTypeOK'
    BY <1>2 DEF SessionInv, SessionTypeOK, Messages, Answers, Connected, Ended,
       ConfigFails, Becomes, genVars, runnerVars
  <2>2. PeersOK'
    BY <1>2 DEF SessionInv, SessionTypeOK, PeersOK, PeersIn, Some, ConfigFails,
       Becomes, genVars, runnerVars
  <2>3. EndsMatch(g)' /\ CommandsOK(g)'
    BY ContainsNothing, <1>2 DEF SessionInv, SessionTypeOK, PeersOK, PeersIn,
       EndsMatch, CommandsOK, Untouched, Messages, Answers, Connected, Ended,
       ConfigFails, Becomes, genVars, runnerVars
  <2>4. ASSUME NEW h \in Generators, h # g
        PROVE  EndsMatch(h)' /\ CommandsOK(h)'
    BY <2>4, Elsewhere, <1>2 DEF SessionInv, SessionTypeOK, ConfigFails, Becomes,
       genVars, runnerVars
  <2>5. FinishedMeansAllFinished'
    BY <1>2 DEF SessionInv, SessionTypeOK, FinishedMeansAllFinished, Connected, Ended,
       ConfigFails, Becomes, genVars, runnerVars
  <2>6. QED
    BY <2>1, <2>2, <2>3, <2>4, <2>5 DEF SessionInv
<1>3. QED
  BY <1>1, <1>2

LEMMA SendAbortReadyKeeps ==
  ASSUME SessionInv, NEW g \in Generators, SendAbortReady(g)
  PROVE  SessionInv'
<1>1. CASE Say(toGen, g, "abort")
  <2>1. toGen' \in [Generators -> Seq(Messages)] /\ Longer(toGen, toGen', g, "abort")
    <3>1. SessionTypeOK /\ "abort" \in Messages /\ Say(toGen, g, "abort")
      BY <1>1 DEF SessionInv, Messages, SendAbortReady
    <3>2. QED
      BY <3>1, SaidToGenerator
  <2>2. SessionTypeOK'
    BY <1>1, <2>1 DEF SessionInv, SessionTypeOK, Messages, Answers, Connected, Ended,
       SendAbortReady, Becomes, IsFirst, Return, genVars, runnerVars, Say, Longer
  <2>3. PeersOK'
    <3>1. /\ runner = "aborting_ready" /\ peer[g] = "configured"
          /\ \A h \in Generators : peer[h] \in {"configured", "refused", "aborted"}
      BY DEF SessionInv, PeersOK, PeersIn, SendAbortReady, IsFirst
    <3>2. /\ runner' \in {"aborting_ready", "exited"} /\ attempts' = attempts
          /\ \A h \in Generators : peer'[h] \in {"configured", "refused", "aborted"}
      BY <3>1 DEF SessionInv, SessionTypeOK, SendAbortReady, Becomes, Return,
         runnerVars
    <3>3. QED
      BY <3>2 DEF PeersOK, PeersIn, Some
  <2>4. EndsMatch(g)' /\ CommandsOK(g)'
    BY ContainsNothing, <1>1, <2>1 DEF SessionInv, SessionTypeOK, PeersOK, PeersIn,
       EndsMatch, CommandsOK, Untouched, Messages, Answers, Connected, Ended,
       SendAbortReady, Becomes, IsFirst, Return, genVars, runnerVars, Say, Longer
  <2>5. ASSUME NEW h \in Generators, h # g
        PROVE  EndsMatch(h)' /\ CommandsOK(h)'
    BY <2>5, Elsewhere, <1>1, <2>1 DEF SessionInv, SessionTypeOK, SendAbortReady,
       Becomes, IsFirst, Return, genVars, runnerVars, Say, Longer
  <2>6. FinishedMeansAllFinished'
    BY <1>1, <2>1 DEF SessionInv, SessionTypeOK, FinishedMeansAllFinished, Connected,
       Ended, SendAbortReady, Becomes, IsFirst, Return, genVars, runnerVars, Say,
       Longer
  <2>7. QED
    BY <2>2, <2>3, <2>4, <2>5, <2>6 DEF SessionInv
<1>2. CASE ~Say(toGen, g, "abort")
  <2>1. SessionTypeOK'
    BY <1>2 DEF SessionInv, SessionTypeOK, Messages, Answers, Connected, Ended,
       SendAbortReady, Becomes, IsFirst, Return, genVars, runnerVars
  <2>2. PeersOK'
    BY <1>2 DEF SessionInv, SessionTypeOK, PeersOK, PeersIn, Some, SendAbortReady,
       Becomes, IsFirst, Return, genVars, runnerVars
  <2>3. EndsMatch(g)' /\ CommandsOK(g)'
    BY ContainsNothing, <1>2 DEF SessionInv, SessionTypeOK, PeersOK, PeersIn,
       EndsMatch, CommandsOK, Untouched, Messages, Answers, Connected, Ended,
       SendAbortReady, Becomes, IsFirst, Return, genVars, runnerVars
  <2>4. ASSUME NEW h \in Generators, h # g
        PROVE  EndsMatch(h)' /\ CommandsOK(h)'
    BY <2>4, Elsewhere, <1>2 DEF SessionInv, SessionTypeOK, SendAbortReady, Becomes,
       IsFirst, Return, genVars, runnerVars
  <2>5. FinishedMeansAllFinished'
    BY <1>2 DEF SessionInv, SessionTypeOK, FinishedMeansAllFinished, Connected, Ended,
       SendAbortReady, Becomes, IsFirst, Return, genVars, runnerVars
  <2>6. QED
    BY <2>1, <2>2, <2>3, <2>4, <2>5 DEF SessionInv
<1>3. QED
  BY <1>1, <1>2

LEMMA SendStartKeeps ==
  ASSUME SessionInv, NEW g \in Generators, SendStart(g)
  PROVE  SessionInv'
<1>1. CASE Say(toGen, g, "start")
  <2>1. toGen' \in [Generators -> Seq(Messages)] /\ Longer(toGen, toGen', g, "start")
    <3>1. SessionTypeOK /\ "start" \in Messages /\ Say(toGen, g, "start")
      BY <1>1 DEF SessionInv, Messages, SendStart
    <3>2. QED
      BY <3>1, SaidToGenerator
  <2>2. SessionTypeOK'
    BY <1>1, <2>1 DEF SessionInv, SessionTypeOK, Messages, Answers, Connected, Ended,
       SendStart, Becomes, genVars, runnerVars, Say, Longer
  <2>3. PeersOK'
    BY <1>1, <2>1 DEF SessionInv, SessionTypeOK, PeersOK, PeersIn, Some, SendStart,
       Becomes, genVars, runnerVars, Say, Longer
  <2>4. EndsMatch(g)' /\ CommandsOK(g)'
    BY ContainsNothing, <1>1, <2>1 DEF SessionInv, SessionTypeOK, PeersOK, PeersIn,
       EndsMatch, CommandsOK, Untouched, Messages, Answers, Connected, Ended,
       SendStart, Becomes, genVars, runnerVars, Say, Longer
  <2>5. ASSUME NEW h \in Generators, h # g
        PROVE  EndsMatch(h)' /\ CommandsOK(h)'
    BY <2>5, Elsewhere, <1>1, <2>1 DEF SessionInv, SessionTypeOK, SendStart, Becomes,
       genVars, runnerVars, Say, Longer
  <2>6. FinishedMeansAllFinished'
    BY <1>1, <2>1 DEF SessionInv, SessionTypeOK, FinishedMeansAllFinished, Connected,
       Ended, SendStart, Becomes, genVars, runnerVars, Say, Longer
  <2>7. QED
    BY <2>2, <2>3, <2>4, <2>5, <2>6 DEF SessionInv
<1>2. CASE ~Say(toGen, g, "start")
  <2>1. SessionTypeOK'
    BY <1>2 DEF SessionInv, SessionTypeOK, Messages, Answers, Connected, Ended,
       SendStart, Becomes, genVars, runnerVars
  <2>2. PeersOK'
    BY <1>2 DEF SessionInv, SessionTypeOK, PeersOK, PeersIn, Some, SendStart, Becomes,
       genVars, runnerVars
  <2>3. EndsMatch(g)' /\ CommandsOK(g)'
    BY ContainsNothing, <1>2 DEF SessionInv, SessionTypeOK, PeersOK, PeersIn,
       EndsMatch, CommandsOK, Untouched, Messages, Answers, Connected, Ended,
       SendStart, Becomes, genVars, runnerVars
  <2>4. ASSUME NEW h \in Generators, h # g
        PROVE  EndsMatch(h)' /\ CommandsOK(h)'
    BY <2>4, Elsewhere, <1>2 DEF SessionInv, SessionTypeOK, SendStart, Becomes,
       genVars, runnerVars
  <2>5. FinishedMeansAllFinished'
    BY <1>2 DEF SessionInv, SessionTypeOK, FinishedMeansAllFinished, Connected, Ended,
       SendStart, Becomes, genVars, runnerVars
  <2>6. QED
    BY <2>1, <2>2, <2>3, <2>4, <2>5 DEF SessionInv
<1>3. QED
  BY <1>1, <1>2

(* The load generator's own steps.                                         *)
LEMMA ListenKeeps ==
  ASSUME SessionInv, NEW g \in Generators, Listen(g)
  PROVE  SessionInv'
<1>1. SessionTypeOK'
  BY DEF SessionInv, SessionTypeOK, Messages, Answers, Connected, Ended, Listen, Goes,
     runnerVars
<1>2. PeersOK'
  BY DEF SessionInv, SessionTypeOK, PeersOK, PeersIn, Some, Listen, Goes, runnerVars
<1>3. EndsMatch(g)' /\ CommandsOK(g)'
  BY ContainsNothing DEF SessionInv, SessionTypeOK, PeersOK, PeersIn, EndsMatch,
     CommandsOK, Untouched, Messages, Answers, Connected, Ended, Listen, Goes,
     runnerVars
<1>4. ASSUME NEW h \in Generators, h # g
      PROVE  EndsMatch(h)' /\ CommandsOK(h)'
  BY <1>4, Elsewhere DEF SessionInv, SessionTypeOK, Listen, Goes, runnerVars
<1>5. FinishedMeansAllFinished'
  BY DEF SessionInv, SessionTypeOK, FinishedMeansAllFinished, Connected, Ended,
     Listen, Goes, runnerVars
<1>6. QED
  BY <1>1, <1>2, <1>3, <1>4, <1>5 DEF SessionInv

LEMMA ReceiveConfigKeeps ==
  ASSUME SessionInv, NEW g \in Generators, ReceiveConfig(g)
  PROVE  SessionInv'
<1>1. /\ toGen' \in [Generators -> Seq(Messages)] /\ Shorter(toGen, toGen', g)
      /\ Contains(toGen[g], "config")
  BY HeardByGenerator DEF SessionInv, ReceiveConfig
<1>2. SessionTypeOK'
  BY <1>1 DEF SessionInv, SessionTypeOK, Messages, Answers, Connected, Ended,
     ReceiveConfig, Goes, runnerVars, Hear, Shorter
<1>3. PeersOK'
  BY <1>1 DEF SessionInv, SessionTypeOK, PeersOK, PeersIn, Some, ReceiveConfig, Goes,
     runnerVars, Hear, Shorter
<1>4. EndsMatch(g)' /\ CommandsOK(g)'
  <2>1. /\ gen[g] = "configuring" /\ peer[g] = "configuring"
        /\ toOrch[g] = <<>> /\ Len(toGen[g]) <= 1
        /\ g \notin readied /\ g \notin started
    BY ContainsNothing, <1>1 DEF SessionInv, SessionTypeOK, PeersOK, PeersIn,
       EndsMatch, CommandsOK, Untouched, ReceiveConfig, Goes, runnerVars, Hear,
       Shorter
  <2>2. /\ peer'[g] = "configuring" /\ gen'[g] = "setting_up"
        /\ g \notin readied' /\ g \notin started'
    BY <2>1, <1>1 DEF SessionInv, SessionTypeOK, ReceiveConfig, Goes, runnerVars,
       Hear, Shorter
  <2>3. toOrch'[g] = <<>> /\ Len(toOrch'[g]) = 0 /\ toGen'[g] = <<>>
    BY ContainsNothing, <2>1, <1>1 DEF SessionInv, SessionTypeOK, Untouched,
       ReceiveConfig, Goes, runnerVars, Hear, Shorter
  <2>4. EndsMatch(g)'
    BY ContainsNothing, <2>2, <2>3 DEF EndsMatch, Untouched
  <2>5. /\ ~Contains(toGen'[g], "start") /\ ~Contains(toGen'[g], "abort")
        /\ ~Contains(toOrch'[g], "finished")
    BY ContainsNothing, <2>3
  <2>6. CommandsOK(g)'
    BY <2>2, <2>5 DEF CommandsOK
  <2>7. QED
    BY <2>4, <2>6
<1>5. ASSUME NEW h \in Generators, h # g
      PROVE  EndsMatch(h)' /\ CommandsOK(h)'
  BY <1>5, Elsewhere, <1>1 DEF SessionInv, SessionTypeOK, ReceiveConfig, Goes,
     runnerVars, Hear, Shorter
<1>6. FinishedMeansAllFinished'
  BY <1>1 DEF SessionInv, SessionTypeOK, FinishedMeansAllFinished, Connected, Ended,
     ReceiveConfig, Goes, runnerVars, Hear, Shorter
<1>7. QED
  BY <1>2, <1>3, <1>4, <1>5, <1>6 DEF SessionInv

LEMMA ReceiveConfigAbortKeeps ==
  ASSUME SessionInv, NEW g \in Generators, ReceiveConfigAbort(g)
  PROVE  SessionInv'
<1>1. /\ toGen' \in [Generators -> Seq(Messages)] /\ Shorter(toGen, toGen', g)
      /\ Contains(toGen[g], "abort")
  BY HeardByGenerator DEF SessionInv, ReceiveConfigAbort
<1>2. toOrch' \in [Generators -> Seq(Answers)] /\ Longer(toOrch, toOrch', g, "aborted")
  <2>1. SessionTypeOK /\ "aborted" \in Answers /\ Say(toOrch, g, "aborted")
    BY DEF SessionInv, Answers, ReceiveConfigAbort
  <2>2. QED
    BY <2>1, SaidToOrchestrator
<1>3. SessionTypeOK'
  BY <1>1, <1>2 DEF SessionInv, SessionTypeOK, Messages, Answers, Connected, Ended,
     ReceiveConfigAbort, Goes, runnerVars, Hear, Shorter, Say, Longer
<1>4. PeersOK'
  BY <1>1, <1>2 DEF SessionInv, SessionTypeOK, PeersOK, PeersIn, Some,
     ReceiveConfigAbort, Goes, runnerVars, Hear, Shorter, Say, Longer
<1>5. EndsMatch(g)' /\ CommandsOK(g)'
  BY ContainsNothing, <1>1, <1>2 DEF SessionInv, SessionTypeOK, PeersOK, PeersIn,
     EndsMatch, CommandsOK, Untouched, Messages, Answers, Connected, Ended,
     ReceiveConfigAbort, Goes, runnerVars, Hear, Shorter, Say, Longer
<1>6. ASSUME NEW h \in Generators, h # g
      PROVE  EndsMatch(h)' /\ CommandsOK(h)'
  BY <1>6, Elsewhere, <1>1, <1>2 DEF SessionInv, SessionTypeOK, ReceiveConfigAbort,
     Goes, runnerVars, Hear, Shorter, Say, Longer
<1>7. FinishedMeansAllFinished'
  BY <1>1, <1>2 DEF SessionInv, SessionTypeOK, FinishedMeansAllFinished, Connected,
     Ended, ReceiveConfigAbort, Goes, runnerVars, Hear, Shorter, Say, Longer
<1>8. QED
  BY <1>3, <1>4, <1>5, <1>6, <1>7 DEF SessionInv

LEMMA SetupFailsKeeps ==
  ASSUME SessionInv, NEW g \in Generators, SetupFails(g)
  PROVE  SessionInv'
<1>1. toOrch' \in [Generators -> Seq(Answers)] /\ Longer(toOrch, toOrch', g, "setup_failed")
  <2>1. SessionTypeOK /\ "setup_failed" \in Answers /\ Say(toOrch, g, "setup_failed")
    BY DEF SessionInv, Answers, SetupFails
  <2>2. QED
    BY <2>1, SaidToOrchestrator
<1>2. SessionTypeOK'
  BY <1>1 DEF SessionInv, SessionTypeOK, Messages, Answers, Connected, Ended,
     SetupFails, Goes, runnerVars, Say, Longer
<1>3. PeersOK'
  BY <1>1 DEF SessionInv, SessionTypeOK, PeersOK, PeersIn, Some, SetupFails, Goes,
     runnerVars, Say, Longer
<1>4. EndsMatch(g)' /\ CommandsOK(g)'
  <2>1. /\ peer[g] = "configuring" /\ Untouched(g)
        /\ g \notin readied /\ g \notin started
    BY ContainsNothing, <1>1 DEF SessionInv, SessionTypeOK, PeersOK, PeersIn,
       EndsMatch, CommandsOK, Untouched, SetupFails, Goes, runnerVars, Say, Longer
  <2>2. /\ peer'[g] = "configuring" /\ gen'[g] = "failed"
        /\ g \notin readied' /\ g \notin started'
    BY <2>1, <1>1 DEF SessionInv, SessionTypeOK, SetupFails, Goes, runnerVars, Say,
       Longer
  <2>3. /\ toGen'[g] = <<>> /\ Len(toOrch'[g]) = 1
        /\ \A m : Contains(toOrch'[g], m) => m = "setup_failed"
    BY ContainsNothing, <2>1, <1>1 DEF SessionInv, SessionTypeOK, Untouched,
       SetupFails, Goes, runnerVars, Say, Longer
  <2>4. EndsMatch(g)'
    BY ContainsNothing, <2>2, <2>3 DEF EndsMatch, Untouched
  <2>5. /\ ~Contains(toGen'[g], "start") /\ ~Contains(toGen'[g], "abort")
        /\ ~Contains(toOrch'[g], "finished")
    BY ContainsNothing, <2>3
  <2>6. CommandsOK(g)'
    BY <2>2, <2>5 DEF CommandsOK
  <2>7. QED
    BY <2>4, <2>6
<1>5. ASSUME NEW h \in Generators, h # g
      PROVE  EndsMatch(h)' /\ CommandsOK(h)'
  BY <1>5, Elsewhere, <1>1 DEF SessionInv, SessionTypeOK, SetupFails, Goes,
     runnerVars, Say, Longer
<1>6. FinishedMeansAllFinished'
  BY <1>1 DEF SessionInv, SessionTypeOK, FinishedMeansAllFinished, Connected, Ended,
     SetupFails, Goes, runnerVars, Say, Longer
<1>7. QED
  BY <1>2, <1>3, <1>4, <1>5, <1>6 DEF SessionInv

LEMMA SetupDoneKeeps ==
  ASSUME SessionInv, NEW g \in Generators, SetupDone(g)
  PROVE  SessionInv'
<1>1. toOrch' \in [Generators -> Seq(Answers)] /\ Longer(toOrch, toOrch', g, "ready")
  <2>1. SessionTypeOK /\ "ready" \in Answers /\ Say(toOrch, g, "ready")
    BY DEF SessionInv, Answers, SetupDone
  <2>2. QED
    BY <2>1, SaidToOrchestrator
<1>2. SessionTypeOK'
  BY <1>1 DEF SessionInv, SessionTypeOK, Messages, Answers, Connected, Ended,
     SetupDone, Goes, runnerVars, Say, Longer
<1>3. PeersOK'
  BY <1>1 DEF SessionInv, SessionTypeOK, PeersOK, PeersIn, Some, SetupDone, Goes,
     runnerVars, Say, Longer
<1>4. EndsMatch(g)' /\ CommandsOK(g)'
  <2>1. /\ peer[g] = "configuring" /\ Untouched(g)
        /\ g \notin started
    BY ContainsNothing, <1>1 DEF SessionInv, SessionTypeOK, PeersOK, PeersIn,
       EndsMatch, CommandsOK, Untouched, SetupDone, Goes, runnerVars, Say, Longer
  <2>2. /\ peer'[g] = "configuring" /\ gen'[g] = "ready"
        /\ g \in readied' /\ g \notin started'
    BY <2>1, <1>1 DEF SessionInv, SessionTypeOK, SetupDone, Goes, runnerVars, Say,
       Longer
  <2>3. /\ toGen'[g] = <<>> /\ Len(toOrch'[g]) = 1
        /\ \A m : Contains(toOrch'[g], m) => m = "ready"
    BY ContainsNothing, <2>1, <1>1 DEF SessionInv, SessionTypeOK, Untouched,
       SetupDone, Goes, runnerVars, Say, Longer
  <2>4. EndsMatch(g)'
    BY ContainsNothing, <2>2, <2>3 DEF EndsMatch, Untouched
  <2>5. /\ ~Contains(toGen'[g], "start") /\ ~Contains(toGen'[g], "abort")
        /\ ~Contains(toOrch'[g], "finished")
    BY ContainsNothing, <2>3
  <2>6. CommandsOK(g)'
    BY <2>2, <2>5 DEF CommandsOK
  <2>7. QED
    BY <2>4, <2>6
<1>5. ASSUME NEW h \in Generators, h # g
      PROVE  EndsMatch(h)' /\ CommandsOK(h)'
  BY <1>5, Elsewhere, <1>1 DEF SessionInv, SessionTypeOK, SetupDone, Goes, runnerVars,
     Say, Longer
<1>6. FinishedMeansAllFinished'
  BY <1>1 DEF SessionInv, SessionTypeOK, FinishedMeansAllFinished, Connected, Ended,
     SetupDone, Goes, runnerVars, Say, Longer
<1>7. QED
  BY <1>2, <1>3, <1>4, <1>5, <1>6 DEF SessionInv

LEMMA ReceiveStartKeeps ==
  ASSUME SessionInv, NEW g \in Generators, ReceiveStart(g)
  PROVE  SessionInv'
<1>1. /\ toGen' \in [Generators -> Seq(Messages)] /\ Shorter(toGen, toGen', g)
      /\ Contains(toGen[g], "start")
  BY HeardByGenerator DEF SessionInv, ReceiveStart
<1>2. SessionTypeOK'
  BY <1>1 DEF SessionInv, SessionTypeOK, Messages, Answers, Connected, Ended,
     ReceiveStart, Goes, runnerVars, Hear, Shorter
<1>3. PeersOK'
  BY <1>1 DEF SessionInv, SessionTypeOK, PeersOK, PeersIn, Some, ReceiveStart, Goes,
     runnerVars, Hear, Shorter
<1>4. EndsMatch(g)' /\ CommandsOK(g)'
  BY ContainsNothing, <1>1 DEF SessionInv, SessionTypeOK, PeersOK, PeersIn, EndsMatch,
     CommandsOK, Untouched, Messages, Answers, Connected, Ended, ReceiveStart, Goes,
     runnerVars, Hear, Shorter
<1>5. ASSUME NEW h \in Generators, h # g
      PROVE  EndsMatch(h)' /\ CommandsOK(h)'
  BY <1>5, Elsewhere, <1>1 DEF SessionInv, SessionTypeOK, ReceiveStart, Goes,
     runnerVars, Hear, Shorter
<1>6. FinishedMeansAllFinished'
  BY <1>1 DEF SessionInv, SessionTypeOK, FinishedMeansAllFinished, Connected, Ended,
     ReceiveStart, Goes, runnerVars, Hear, Shorter
<1>7. QED
  BY <1>2, <1>3, <1>4, <1>5, <1>6 DEF SessionInv

LEMMA ReceiveAbortKeeps ==
  ASSUME SessionInv, NEW g \in Generators, ReceiveAbort(g)
  PROVE  SessionInv'
<1>1. /\ toGen' \in [Generators -> Seq(Messages)] /\ Shorter(toGen, toGen', g)
      /\ Contains(toGen[g], "abort")
  BY HeardByGenerator DEF SessionInv, ReceiveAbort
<1>2. SessionTypeOK'
  BY <1>1 DEF SessionInv, SessionTypeOK, Messages, Answers, Connected, Ended,
     ReceiveAbort, Goes, runnerVars, Hear, Shorter
<1>3. PeersOK'
  BY <1>1 DEF SessionInv, SessionTypeOK, PeersOK, PeersIn, Some, ReceiveAbort, Goes,
     runnerVars, Hear, Shorter
<1>4. EndsMatch(g)' /\ CommandsOK(g)'
  BY ContainsNothing, <1>1 DEF SessionInv, SessionTypeOK, PeersOK, PeersIn, EndsMatch,
     CommandsOK, Untouched, Messages, Answers, Connected, Ended, ReceiveAbort, Goes,
     runnerVars, Hear, Shorter
<1>5. ASSUME NEW h \in Generators, h # g
      PROVE  EndsMatch(h)' /\ CommandsOK(h)'
  BY <1>5, Elsewhere, <1>1 DEF SessionInv, SessionTypeOK, ReceiveAbort, Goes,
     runnerVars, Hear, Shorter
<1>6. FinishedMeansAllFinished'
  BY <1>1 DEF SessionInv, SessionTypeOK, FinishedMeansAllFinished, Connected, Ended,
     ReceiveAbort, Goes, runnerVars, Hear, Shorter
<1>7. QED
  BY <1>2, <1>3, <1>4, <1>5, <1>6 DEF SessionInv

LEMMA TestEndsKeeps ==
  ASSUME SessionInv, NEW g \in Generators, TestEnds(g)
  PROVE  SessionInv'
<1>1. toOrch' \in [Generators -> Seq(Answers)] /\ Longer(toOrch, toOrch', g, "finished")
  <2>1. SessionTypeOK /\ "finished" \in Answers /\ Say(toOrch, g, "finished")
    BY DEF SessionInv, Answers, TestEnds
  <2>2. QED
    BY <2>1, SaidToOrchestrator
<1>2. SessionTypeOK'
  BY <1>1 DEF SessionInv, SessionTypeOK, Messages, Answers, Connected, Ended,
     TestEnds, Goes, runnerVars, Say, Longer
<1>3. PeersOK'
  BY <1>1 DEF SessionInv, SessionTypeOK, PeersOK, PeersIn, Some, TestEnds, Goes,
     runnerVars, Say, Longer
<1>4. EndsMatch(g)' /\ CommandsOK(g)'
  BY ContainsNothing, <1>1 DEF SessionInv, SessionTypeOK, PeersOK, PeersIn, EndsMatch,
     CommandsOK, Untouched, Messages, Answers, Connected, Ended, TestEnds, Goes,
     runnerVars, Say, Longer
<1>5. ASSUME NEW h \in Generators, h # g
      PROVE  EndsMatch(h)' /\ CommandsOK(h)'
  BY <1>5, Elsewhere, <1>1 DEF SessionInv, SessionTypeOK, TestEnds, Goes, runnerVars,
     Say, Longer
<1>6. FinishedMeansAllFinished'
  BY <1>1 DEF SessionInv, SessionTypeOK, FinishedMeansAllFinished, Connected, Ended,
     TestEnds, Goes, runnerVars, Say, Longer
<1>7. QED
  BY <1>2, <1>3, <1>4, <1>5, <1>6 DEF SessionInv

LEMMA DisconnectedKeeps ==
  ASSUME SessionInv, NEW g \in Generators, Disconnected(g)
  PROVE  SessionInv'
<1>1. SessionTypeOK'
  BY DEF SessionInv, SessionTypeOK, Messages, Answers, Connected, Ended, Disconnected,
     Goes, runnerVars
<1>2. PeersOK'
  BY DEF SessionInv, SessionTypeOK, PeersOK, PeersIn, Some, Disconnected, Goes,
     runnerVars
<1>3. EndsMatch(g)' /\ CommandsOK(g)'
  BY ContainsNothing DEF SessionInv, SessionTypeOK, PeersOK, PeersIn, EndsMatch,
     CommandsOK, Untouched, Messages, Answers, Connected, Ended, Disconnected, Goes,
     runnerVars
<1>4. ASSUME NEW h \in Generators, h # g
      PROVE  EndsMatch(h)' /\ CommandsOK(h)'
  BY <1>4, Elsewhere DEF SessionInv, SessionTypeOK, Disconnected, Goes, runnerVars
<1>5. FinishedMeansAllFinished'
  BY DEF SessionInv, SessionTypeOK, FinishedMeansAllFinished, Connected, Ended,
     Disconnected, Goes, runnerVars
<1>6. QED
  BY <1>1, <1>2, <1>3, <1>4, <1>5 DEF SessionInv

LEMMA GeneratorCrashKeeps ==
  ASSUME SessionInv, NEW g \in Generators, GeneratorCrash(g)
  PROVE  SessionInv'
<1>1. PICK n \in 0 .. Len(toOrch[g]) : toOrch' = [toOrch EXCEPT ![g] = SubSeq(@, 1, n)]
  BY DEF GeneratorCrash
<1>2. /\ toOrch' \in [Generators -> Seq(Answers)] /\ Len(toOrch'[g]) <= Len(toOrch[g])
      /\ \A m : Contains(toOrch'[g], m) => Contains(toOrch[g], m)
      /\ toOrch[g] = <<>> => toOrch'[g] = <<>>
      /\ \A h \in Generators \ {g} : toOrch'[h] = toOrch[h]
  <2>1. toOrch[g] \in Seq(Answers)
    BY DEF SessionInv, SessionTypeOK
  <2>2. /\ SubSeq(toOrch[g], 1, n) \in Seq(Answers) /\ Len(SubSeq(toOrch[g], 1, n)) = n
        /\ \A m : Contains(SubSeq(toOrch[g], 1, n), m) => Contains(toOrch[g], m)
    BY <2>1, ContainsPrefix
  <2>3. /\ toOrch'[g] = SubSeq(toOrch[g], 1, n) /\ toOrch' \in [Generators -> Seq(Answers)]
        /\ \A h \in Generators \ {g} : toOrch'[h] = toOrch[h]
    BY <1>1, <2>2 DEF SessionInv, SessionTypeOK
  <2>4. toOrch[g] = <<>> => SubSeq(toOrch[g], 1, n) = <<>>
    BY <2>1, <2>2
  <2>5. n <= Len(toOrch[g])
    BY <2>1
  <2>6. QED
    BY <2>2, <2>3, <2>4, <2>5
<1>3. SessionTypeOK'
  BY <1>2 DEF SessionInv, SessionTypeOK, Messages, Answers, Connected, Ended,
     GeneratorCrash, Goes, runnerVars
<1>4. PeersOK'
  BY <1>2 DEF SessionInv, SessionTypeOK, PeersOK, PeersIn, Some, GeneratorCrash, Goes,
     runnerVars
<1>5. EndsMatch(g)' /\ CommandsOK(g)'
  BY ContainsNothing, <1>2 DEF SessionInv, SessionTypeOK, PeersOK, PeersIn, EndsMatch,
     CommandsOK, Untouched, Messages, Answers, Connected, Ended, GeneratorCrash, Goes,
     runnerVars
<1>6. ASSUME NEW h \in Generators, h # g
      PROVE  EndsMatch(h)' /\ CommandsOK(h)'
  BY <1>6, Elsewhere, <1>2 DEF SessionInv, SessionTypeOK, GeneratorCrash, Goes,
     runnerVars
<1>7. FinishedMeansAllFinished'
  BY <1>2 DEF SessionInv, SessionTypeOK, FinishedMeansAllFinished, Connected, Ended,
     GeneratorCrash, Goes, runnerVars
<1>8. QED
  BY <1>3, <1>4, <1>5, <1>6, <1>7 DEF SessionInv

-----------------------------------------------------------------------------
(* The runner's own steps, which move no generator.                        *)
LEMMA RunnerMovesKeep ==
  ASSUME SessionInv,
         AllConnectsDone \/ ConnectFailed \/ AllConfigured \/ ConfigureFailed \/ AllStarted
           \/ CollectFails \/ CollectEnds \/ OrchestratorCrash
           \/ \E g \in Generators : StartFails(g)
  PROVE  SessionInv'
<1>1. UNCHANGED <<peer, attempts, toGen, toOrch, genVars>>
  BY DEF AllConnectsDone, ConnectFailed, AllConfigured, ConfigureFailed, AllStarted,
     CollectFails, CollectEnds, OrchestratorCrash, StartFails
<1>2. SessionTypeOK'
  BY <1>1 DEF SessionInv, SessionTypeOK, Messages, Answers, Connected, Ended, genVars,
     Return, AllConnectsDone, ConnectFailed, AllConfigured, ConfigureFailed,
     AllStarted, CollectFails, CollectEnds, OrchestratorCrash, StartFails
<1>3. PeersOK'
  <2>1. /\ Some("started") => \A g \in Generators : peer[g] \in PeersIn["starting"]
        /\ \A g \in Generators : peer[g] = "connecting" => attempts[g] <= MaxRetries
    BY DEF SessionInv, PeersOK
  <2>2. ASSUME NEW g \in Generators
        PROVE  (runner # "exited" => peer[g] \in PeersIn[runner])'
    <3>1. CASE runner' = "exited"
      BY <3>1
    <3>2. CASE AllConnectsDone
      BY <3>2 DEF AllConnectsDone, SessionInv, PeersOK, PeersIn, Some
    <3>3. CASE AllConfigured
      BY <3>3 DEF AllConfigured, SessionInv, PeersOK, PeersIn, Some
    <3>4. CASE AllStarted
      BY <3>4 DEF AllStarted, PeersIn
    <3>5. QED
      BY <3>1, <3>2, <3>3, <3>4 DEF ConnectFailed, ConfigureFailed, CollectFails,
         CollectEnds, OrchestratorCrash, StartFails, Return
  <2>3. QED
    BY <1>1, <2>1, <2>2 DEF PeersOK, PeersIn, Some
<1>4. ASSUME NEW h \in Generators
      PROVE  EndsMatch(h)' /\ CommandsOK(h)'
  BY <1>1, Elsewhere DEF SessionInv, genVars
<1>5. FinishedMeansAllFinished'
  <2>1. CASE CollectEnds
    <3>1. ASSUME NEW g \in Generators
          PROVE  Contains(toOrch[g], "finished")
      <4>1. toOrch[g] \in Seq(Answers) /\ toOrch[g] # <<>> /\ Head(toOrch[g]) = "finished"
        BY <2>1 DEF CollectEnds, SessionInv, SessionTypeOK
      <4>2. QED
        BY <4>1, ContainsTail, Zenon
    <3>2. QED
      BY <1>1, <3>1 DEF SessionInv, CommandsOK, FinishedMeansAllFinished, genVars
  <2>2. CASE ~CollectEnds
    <3>1. result' \in {result, "failed"}
      BY <2>2 DEF Return, AllConnectsDone, ConnectFailed, AllConfigured,
         ConfigureFailed, AllStarted, CollectFails, OrchestratorCrash, StartFails
    <3>2. QED
      BY <1>1, <3>1 DEF SessionInv, FinishedMeansAllFinished, genVars
  <2>3. QED
    BY <2>1, <2>2
<1>6. QED
  BY <1>2, <1>3, <1>4, <1>5 DEF SessionInv

LEMMA PersistFailsKeeps ==
  ASSUME SessionInv, PersistFails
  PROVE  SessionInv'
<1>1. /\ UNCHANGED <<peer, attempts, toOrch, gen, readied, started>>
      /\ runner = "collecting"
      /\ runner' = "exited" /\ result' = "failed" /\ open' = [g \in Generators |-> FALSE]
  BY DEF PersistFails, Return, genVars
<1>2. PICK told \in SUBSET Generators :
        toGen' = [g \in Generators |->
                    IF g \in told THEN Append(toGen[g], "abort") ELSE toGen[g]]
  BY DEF PersistFails
<1>3. ASSUME NEW g \in Generators
      PROVE  /\ toGen'[g] \in Seq(Messages) /\ EndsMatch(g)' /\ CommandsOK(g)'
  <2>1. peer[g] = "started" /\ toGen[g] \in Seq(Messages) /\ "abort" \in Messages
    BY <1>1 DEF SessionInv, SessionTypeOK, PeersOK, PeersIn, Messages
  <2>2. /\ Append(toGen[g], "abort") \in Seq(Messages)
        /\ Append(toGen[g], "abort") # <<>>
        /\ toGen[g] # <<>> => Head(Append(toGen[g], "abort")) = Head(toGen[g])
    BY <2>1, ContainsAppend
  <2>3. /\ toGen'[g] \in Seq(Messages)
        /\ toGen[g] # <<>> => toGen'[g] # <<>> /\ Head(toGen'[g]) = Head(toGen[g])
    BY <1>2, <2>1, <2>2
  <2>4. EndsMatch(g)'
    BY <1>1, <2>1 DEF SessionInv, EndsMatch
  <2>5. /\ g \in readied => gen[g] \in {"ready", "testing", "finished", "failed"}
        /\ g \notin started => toGen[g] # <<>> /\ Head(toGen[g]) = "start"
        /\ Contains(toOrch[g], "finished") => gen[g] = "finished"
    BY <2>1 DEF SessionInv, CommandsOK
  <2>6. CommandsOK(g)'
    BY <1>1, <2>1, <2>3, <2>5 DEF CommandsOK
  <2>7. QED
    BY <2>3, <2>4, <2>6
<1>4. SessionTypeOK'
  <2>1. toGen' \in [Generators -> Seq(Messages)]
    BY <1>2, <1>3
  <2>2. QED
    BY <1>1, <2>1 DEF SessionInv, SessionTypeOK
<1>5. PeersOK'
  BY <1>1 DEF SessionInv, PeersOK, PeersIn, Some
<1>6. FinishedMeansAllFinished'
  BY <1>1 DEF FinishedMeansAllFinished
<1>7. QED
  BY <1>3, <1>4, <1>5, <1>6 DEF SessionInv

-----------------------------------------------------------------------------
(* The invariant is inductive: whatever is lost, refused or killed, what   *)
(* each process believes of the other's place in the session is right.     *)
THEOREM SessionInvariance == Spec => []SessionInv
<1>1. Init => SessionInv
  <2>1. ASSUME Init
        PROVE  SessionTypeOK
    BY <2>1, SessionAssumption DEF Init, SessionTypeOK, Connected, Ended, Generators
  <2>2. ASSUME Init
        PROVE  PeersOK /\ FinishedMeansAllFinished
    BY <2>2, SessionAssumption DEF Init, PeersOK, PeersIn, Some,
       FinishedMeansAllFinished
  <2>3. ASSUME Init, NEW g \in Generators
        PROVE  EndsMatch(g) /\ CommandsOK(g)
    BY <2>3, ContainsNothing DEF Init, EndsMatch, CommandsOK, Untouched
  <2>4. QED
    BY <2>1, <2>2, <2>3 DEF SessionInv
<1>2. SessionInv /\ [Next]_vars => SessionInv'
  <2> SUFFICES ASSUME SessionInv, [Next]_vars
               PROVE  SessionInv'
    OBVIOUS
  <2>1. CASE UNCHANGED vars
    BY <2>1 DEF vars, runnerVars, genVars, SessionInv, SessionTypeOK, PeersOK,
       PeersIn, Some, EndsMatch, CommandsOK, Untouched, FinishedMeansAllFinished
  <2>2. CASE Orchestrate
    BY <2>2, RunnerMovesKeep, ConnectSucceedsKeeps, ConnectAttemptFailsKeeps,
       SendAbortConnectedKeeps, AbortAnsweredKeeps, SendConfigKeeps, ConfigReadyKeeps,
       ConfigFailsKeeps, SendAbortReadyKeeps, SendStartKeeps DEF Orchestrate
  <2>3. ASSUME NEW g \in Generators, Generate(g)
        PROVE  SessionInv'
    BY <2>3, ReceiveConfigKeeps, ReceiveConfigAbortKeeps, SetupFailsKeeps,
       SetupDoneKeeps, ReceiveStartKeeps, ReceiveAbortKeeps, TestEndsKeeps,
       DisconnectedKeeps DEF Generate
  <2>4. QED
    BY <2>1, <2>2, <2>3, RunnerMovesKeep, PersistFailsKeeps, ListenKeeps,
       GeneratorCrashKeeps DEF Next
<1>3. QED
  BY <1>1, <1>2, PTL DEF Spec

(* For any number of load generators, none starts before all are ready.    *)
THEOREM BarrierHolds == Spec => []StartBarrier
<1>1. SessionInv => StartBarrier
  <2> SUFFICES ASSUME SessionInv, started # {}
               PROVE  readied = Generators
    BY DEF StartBarrier
  <2>1. PICK g \in Generators : peer[g] = "started"
    BY DEF SessionInv, SessionTypeOK, CommandsOK
  <2>2. \A h \in Generators : peer[h] \in {"configured", "started", "not_started"}
    BY <2>1 DEF SessionInv, PeersOK, PeersIn, Some
  <2>3. \A h \in Generators : h \in readied
    BY <2>2 DEF SessionInv, EndsMatch
  <2>4. QED
    BY <2>3 DEF SessionInv, SessionTypeOK
<1>2. QED
  BY <1>1, SessionInvariance, PTL

(* For any number of load generators, Start and Abort are never the next   *)
(* commands of two of them.                                                *)
THEOREM CommandsAlwaysAgree == Spec => []CommandsAgree
<1>1. ASSUME NEW S, NEW queue \in Seq(S), queue # <<>>
      PROVE  Contains(queue, Head(queue))
  BY <1>1, ContainsTail, Zenon
<1>2. SessionInv => CommandsAgree
  <2> SUFFICES ASSUME SessionInv, NEW g \in Generators, NEW h \in Generators,
                      NextCommand(g) = "start", NextCommand(h) = "abort"
               PROVE  FALSE
    BY DEF CommandsAgree
  <2>1. toGen[g] \in Seq(Messages) /\ toGen[h] \in Seq(Messages)
    BY DEF SessionInv, SessionTypeOK
  <2>2. g \in started \/ (toGen[g] # <<>> /\ Head(toGen[g]) = "start")
    BY DEF NextCommand
  <2>3. h \notin started /\ toGen[h] # <<>> /\ Head(toGen[h]) = "abort"
    BY DEF NextCommand
  <2>4. g \in started \/ Contains(toGen[g], "start")
    BY <1>1, <2>1, <2>2, Zenon
  <2>5. Contains(toGen[h], "abort")
    BY <1>1, <2>1, <2>3, Zenon
  <2>6. peer[g] = "started" /\ peer[h] \in {"aborting", "dropped", "aborted", "started"}
    BY <2>4, <2>5 DEF SessionInv, CommandsOK
  <2>7. peer[h] = "started"
    BY <2>6 DEF SessionInv, PeersOK, PeersIn, Some
  <2>8. Head(toGen[h]) = "start"
    BY <2>3, <2>7 DEF SessionInv, CommandsOK
  <2>9. QED
    BY <2>3, <2>8
<1>3. QED
  BY <1>2, SessionInvariance, PTL

(* For any number of load generators, no framer is taken apart while a     *)
(* message follows the one it was read for.                                *)
THEOREM HandoverIsClean == Spec => []HandoverLosesNothing
<1>1. SessionInv => HandoverLosesNothing
  <2> SUFFICES ASSUME SessionInv, NEW g \in Generators
               PROVE  /\ gen[g] = "setting_up" => toGen[g] = <<>>
                      /\ peer[g] = "configuring" => Len(toOrch[g]) <= 1
    BY DEF HandoverLosesNothing
  <2>1. peer[g] = "configuring" => Len(toOrch[g]) <= 1
    BY DEF SessionInv, EndsMatch
  <2>2. gen[g] = "setting_up" => peer[g] = "configuring"
    BY DEF SessionInv, SessionTypeOK, EndsMatch, CommandsOK
  <2>3. peer[g] = "configuring" /\ gen[g] = "setting_up" => toGen[g] = <<>>
    BY DEF SessionInv, EndsMatch, Untouched
  <2>4. QED
    BY <2>1, <2>2, <2>3
<1>2. QED
  BY <1>1, SessionInvariance, PTL

(* For any number of load generators, a session is called finished only    *)
(* when every one of them has ended its test.                              *)
THEOREM FinishedSessions == Spec => []FinishedMeansAllFinished
<1>1. SessionInv => FinishedMeansAllFinished
  BY DEF SessionInv
<1>2. QED
  BY <1>1, SessionInvariance, PTL

-----------------------------------------------------------------------------
(* The session keeps the promises of TestSession.  Its verdict is there    *)
(* exactly when run has returned, and a generator that has been sent Start *)
(* stays one.                                                              *)
VerdictOK == runner = "exited" <=> result # "none"

LEMMA VerdictInvariance == Spec => []VerdictOK
<1>1. Init => VerdictOK
  BY DEF Init, VerdictOK
<1>2. VerdictOK /\ [Next]_vars => VerdictOK'
  <2> SUFFICES ASSUME VerdictOK, [Next]_vars
               PROVE  VerdictOK'
    OBVIOUS
  <2>1. CASE UNCHANGED <<runner, result>>
    BY <2>1 DEF VerdictOK
  <2>2. CASE runner' = "exited" /\ result' \in {"finished", "failed"}
    BY <2>2 DEF VerdictOK
  <2>3. CASE UNCHANGED result /\ runner # "exited" /\ runner' # "exited"
    BY <2>3 DEF VerdictOK
  <2>4. ASSUME Orchestrate \/ CollectFails \/ PersistFails \/ OrchestratorCrash
        PROVE  \/ UNCHANGED <<runner, result>>
               \/ runner' = "exited" /\ result' \in {"finished", "failed"}
               \/ UNCHANGED result /\ runner # "exited" /\ runner' # "exited"
    BY <2>4 DEF Orchestrate, CollectFails, PersistFails, OrchestratorCrash, Return, runnerVars,
       AllConnectsDone, ConnectFailed, AllConfigured, ConfigureFailed, AllStarted, CollectEnds,
       ConnectSucceeds, ConnectAttemptFails, SendAbortConnected, AbortAnswered, SendConfig,
       ConfigReady, ConfigFails, SendAbortReady, SendStart, StartFails
  <2>5. ASSUME NEW g \in Generators, Listen(g) \/ Generate(g) \/ GeneratorCrash(g)
        PROVE  UNCHANGED <<runner, result>>
    BY <2>5 DEF Listen, Generate, GeneratorCrash, ReceiveConfig, ReceiveConfigAbort, SetupFails,
       SetupDone, ReceiveStart, ReceiveAbort, TestEnds, Disconnected, runnerVars
  <2>6. CASE UNCHANGED vars
    BY <2>1, <2>6 DEF vars, runnerVars
  <2> QED
    BY <2>1, <2>2, <2>3, <2>4, <2>5, <2>6 DEF Next
<1> QED
  BY <1>1, <1>2, PTL DEF Spec

TestBarred == runner \in {"aborting_connected", "aborting_ready", "exited"}

LEMMA DecisionIs ==
  /\ Some("started") => Decision = "go"
  /\ ~Some("started") /\ TestBarred => Decision = "abort"
  /\ ~Some("started") /\ ~TestBarred => Decision = "open"
  BY DEF Decision, TestBarred

(* A generator's part of the session.                                      *)
Stages == [g \in Generators |-> Progress(gen[g])]

LEMMA StagesMove ==
  ASSUME SessionTypeOK, NEW g \in Generators, NEW state, Goes(g, state)
  PROVE  Stages' = [Stages EXCEPT ![g] = Progress(state)]
<1>1. \A h \in Generators : gen'[h] = IF h = g THEN state ELSE gen[h]
  BY DEF SessionTypeOK, Goes
<1> QED
  BY <1>1 DEF Stages

LEMMA SameStage ==
  ASSUME SessionTypeOK, NEW g \in Generators, NEW state, Goes(g, state),
         Progress(gen[g]) = Progress(state)
  PROVE  Stages' = Stages
<1>1. \A h \in Generators : Progress(gen'[h]) = Progress(gen[h])
  BY DEF SessionTypeOK, Goes
<1> QED
  BY <1>1 DEF Stages

LEMMA GeneratorsKeepDecision ==
  ASSUME UNCHANGED <<runner, peer>>
  PROVE  Decision' = Decision
  BY DEF Decision, Some

LEMMA GeneratorRefines ==
  ASSUME SessionInv, NEW g \in Generators, Listen(g) \/ Generate(g) \/ GeneratorCrash(g)
  PROVE  TestOf!Next \/ UNCHANGED TestOf!sessionVars
<1> USE DEF Goes
<1>1. SessionTypeOK /\ gen[g] \in {"off", "listening"} \cup Connected \cup Ended
  BY DEF SessionInv, SessionTypeOK
<1>2. UNCHANGED <<runner, result, peer>>
  BY DEF Listen, Generate, GeneratorCrash, ReceiveConfig, ReceiveConfigAbort, SetupFails,
     SetupDone, ReceiveStart, ReceiveAbort, TestEnds, Disconnected, runnerVars
<1>3. Decision' = Decision
  BY <1>2, GeneratorsKeepDecision
<1>4. CASE Listen(g) \/ ReceiveConfig(g)
  <2>1. PICK state \in {"listening", "setting_up"} : Goes(g, state)
    BY <1>4 DEF Listen, ReceiveConfig
  <2>2. Progress(gen[g]) = "preparing" /\ Progress(state) = "preparing"
    BY <1>4 DEF Listen, ReceiveConfig, Progress, Ended
  <2>3. Stages' = Stages
    BY <1>1, <2>1, <2>2, SameStage
  <2>4. UNCHANGED readied
    BY <1>4 DEF Listen, ReceiveConfig
  <2> QED
    BY <1>2, <1>3, <2>3, <2>4 DEF TestOf!sessionVars, Stages
<1>5. CASE SetupDone(g)
  <2>1. Progress(gen[g]) = "preparing" /\ Progress("ready") = "preparing"
    BY <1>5 DEF SetupDone, Progress, Ended
  <2>2. Goes(g, "ready") /\ readied' = readied \cup {g}
    BY <1>5 DEF SetupDone
  <2>3. Stages' = Stages
    BY <1>1, <2>1, <2>2, SameStage
  <2>4. Stages[g] = "preparing"
    BY <2>1 DEF Stages
  <2>5. TestOf!Prepare(g)
    BY <1>2, <1>3, <2>2, <2>3, <2>4 DEF TestOf!Prepare, Stages
  <2> QED
    BY <2>5 DEF TestOf!Next
<1>6. CASE ReceiveStart(g)
  <2>1. Progress(gen[g]) = "preparing" /\ Progress("testing") = "testing"
    BY <1>6 DEF ReceiveStart, Progress, Ended
  <2>2. Goes(g, "testing") /\ UNCHANGED readied
    BY <1>6 DEF ReceiveStart
  <2>3. Contains(toGen[g], "start")
    <3>1. toGen[g] \in Seq(Messages) /\ toGen[g] # <<>> /\ Head(toGen[g]) = "start"
      BY <1>1, <1>6 DEF ReceiveStart, Hear, SessionTypeOK
    <3> QED
      BY <3>1, ContainsTail, Zenon
  <2>4. Decision = "go"
    BY <2>3, DecisionIs DEF SessionInv, CommandsOK, Some
  <2>5. Stages' = [Stages EXCEPT ![g] = "testing"] /\ Stages[g] = "preparing"
    BY <1>1, <2>1, <2>2, StagesMove DEF Stages
  <2>6. TestOf!Start(g)
    BY <1>2, <1>3, <2>2, <2>4, <2>5 DEF TestOf!Start, TestOf!Goes, Stages
  <2> QED
    BY <2>6 DEF TestOf!Next
<1>7. CASE TestEnds(g)
  <2>1. Progress(gen[g]) = "testing" /\ Progress("finished") = "finished"
    BY <1>7 DEF TestEnds, Progress, Ended
  <2>2. Goes(g, "finished") /\ UNCHANGED readied
    BY <1>7 DEF TestEnds
  <2>3. Stages' = [Stages EXCEPT ![g] = "finished"] /\ Stages[g] = "testing"
    BY <1>1, <2>1, <2>2, StagesMove DEF Stages
  <2>4. TestOf!Finish(g)
    BY <1>2, <1>3, <2>2, <2>3 DEF TestOf!Finish, TestOf!Goes, Stages
  <2> QED
    BY <2>4 DEF TestOf!Next
<1>8. CASE \/ ReceiveConfigAbort(g) \/ SetupFails(g) \/ ReceiveAbort(g)
           \/ Disconnected(g) \/ GeneratorCrash(g)
  <2>1. gen[g] \in Connected \cup {"listening"}
    BY <1>8 DEF ReceiveConfigAbort, SetupFails, ReceiveAbort, Disconnected, GeneratorCrash,
       Connected
  <2>2. Progress(gen[g]) \in {"preparing", "testing"} /\ Progress("failed") = "failed"
    BY <2>1 DEF Progress, Ended, Connected
  <2>3. Goes(g, "failed") /\ UNCHANGED readied
    BY <1>8 DEF ReceiveConfigAbort, SetupFails, ReceiveAbort, Disconnected, GeneratorCrash
  <2>4. Stages' = [Stages EXCEPT ![g] = "failed"] /\ Stages[g] \in {"preparing", "testing"}
    BY <1>1, <2>2, <2>3, StagesMove DEF Stages
  <2>5. TestOf!Fail(g)
    BY <1>2, <1>3, <2>3, <2>4 DEF TestOf!Fail, TestOf!Goes, Stages
  <2> QED
    BY <2>5 DEF TestOf!Next
<1> QED
  BY <1>4, <1>5, <1>6, <1>7, <1>8 DEF Generate

(* The orchestrator decides.                                               *)
LEMMA PeerMoves ==
  ASSUME SessionTypeOK, NEW g \in Generators, NEW state, Becomes(g, state), peer[g] # "started"
  PROVE  /\ Some("started") => Some("started")'
         /\ state # "started" => Some("started")' = Some("started")
         /\ state = "started" => Some("started")'
<1>1. \A h \in Generators : peer'[h] = IF h = g THEN state ELSE peer[h]
  BY DEF SessionTypeOK, Becomes
<1>2. state # "started" => \A h \in Generators : peer'[h] = "started" <=> peer[h] = "started"
  BY <1>1
<1>3. Some("started") => Some("started")'
  BY <1>1 DEF Some
<1>4. state # "started" => Some("started")' = Some("started")
  BY <1>2 DEF Some
<1>5. state = "started" => Some("started")'
  BY <1>1 DEF Some
<1> QED
  BY <1>3, <1>4, <1>5

LEMMA ReturnRefines ==
  ASSUME SessionInv, VerdictOK, Return("failed"), runner # "exited",
         Some("started")' = Some("started"), UNCHANGED <<gen, readied>>
  PROVE  TestOf!Next
<1>1. /\ runner' = "exited" /\ result' = "failed" /\ result = "none"
      /\ TestBarred'
  BY DEF Return, VerdictOK, TestBarred
<1>2. Stages' = Stages
  BY DEF Stages
<1>3. CASE Decision = "open"
  <2>1. ~Some("started")'
    BY <1>3, DecisionIs
  <2>2. Decision' = "abort"
    BY <1>1, <2>1 DEF Decision
  <2>3. TestOf!Abort
    BY <1>1, <1>2, <1>3, <2>2 DEF TestOf!Abort, Stages
  <2> QED
    BY <2>3 DEF TestOf!Next
<1>4. CASE Decision # "open"
  <2>1. Some("started") \/ TestBarred
    BY <1>4, DecisionIs
  <2>2. Decision' = Decision
    BY <1>1, <2>1, DecisionIs DEF Decision
  <2>3. TestOf!GiveUp
    BY <1>1, <1>2, <1>4, <2>2 DEF TestOf!GiveUp, Stages
  <2> QED
    BY <2>3 DEF TestOf!Next
<1> QED
  BY <1>3, <1>4

LEMMA OrchestratorRefines ==
  ASSUME SessionInv, VerdictOK, Orchestrate \/ CollectFails \/ PersistFails \/ OrchestratorCrash
  PROVE  TestOf!Next \/ UNCHANGED TestOf!sessionVars
<1> USE DEF Goes
<1>1. SessionTypeOK /\ PeersOK
  BY DEF SessionInv
<1>2. ASSUME UNCHANGED <<gen, readied, result>>, Decision' = Decision
      PROVE  UNCHANGED TestOf!sessionVars
  BY <1>2 DEF TestOf!sessionVars
<1>3. ASSUME runner \in {"connecting", "aborting_connected", "configuring", "aborting_ready"}
      PROVE  ~Some("started")
  BY <1>3 DEF SessionInv, PeersOK, PeersIn, Some
<1>4. ASSUME NEW g \in Generators, ConnectSucceeds(g)
      PROVE  UNCHANGED TestOf!sessionVars
  <2>1. Some("started")' = Some("started") /\ UNCHANGED <<runner, result, readied>>
    BY <1>1, <1>4, PeerMoves DEF ConnectSucceeds, runnerVars
  <2>2. Goes(g, "configuring")
    BY <1>4 DEF ConnectSucceeds
  <2>3. Progress(gen[g]) = "preparing" /\ Progress("configuring") = "preparing"
    BY <1>4 DEF ConnectSucceeds, Progress, Ended
  <2>4. Stages' = Stages
    BY <1>1, <2>2, <2>3, SameStage
  <2>5. Decision' = Decision
    BY <2>1 DEF Decision
  <2> QED
    BY <2>1, <2>4, <2>5 DEF TestOf!sessionVars, Stages
<1>5. ASSUME NEW g \in Generators,
             \/ ConnectAttemptFails(g) \/ SendAbortConnected(g) \/ AbortAnswered(g)
             \/ SendConfig(g) \/ ConfigReady(g) \/ ConfigFails(g)
      PROVE  UNCHANGED TestOf!sessionVars
  <2>1. UNCHANGED <<runner, result, gen, readied>>
    BY <1>5 DEF ConnectAttemptFails, SendAbortConnected, AbortAnswered, SendConfig, ConfigReady,
       ConfigFails, runnerVars, genVars
  <2>2. /\ peer[g] # "started"
        /\ UNCHANGED peer \/ \E state : Becomes(g, state) /\ state # "started"
    BY <1>5 DEF ConnectAttemptFails, SendAbortConnected, AbortAnswered, SendConfig, ConfigReady,
       ConfigFails, IsFirst
  <2>3. Some("started")' = Some("started")
    BY <1>1, <2>2, PeerMoves DEF Some
  <2>4. Decision' = Decision
    BY <2>1, <2>3 DEF Decision
  <2> QED
    BY <1>2, <2>1, <2>4
<1>6. CASE AllConnectsDone \/ AllConfigured \/ AllStarted
  <2>1. UNCHANGED <<peer, gen, readied, result>> /\ Some("started")' = Some("started")
    BY <1>6 DEF AllConnectsDone, AllConfigured, AllStarted, genVars, Some
  <2>2. Stages' = Stages
    BY <2>1 DEF Stages
  <2>3. CASE runner' \in {"aborting_connected", "aborting_ready"}
    <3>1. runner \in {"connecting", "configuring"}
      BY <1>6, <2>3 DEF AllConnectsDone, AllConfigured, AllStarted
    <3>2. ~Some("started") /\ ~Some("started")' /\ ~TestBarred /\ TestBarred'
      BY <1>3, <2>1, <2>3, <3>1 DEF TestBarred
    <3>3. Decision = "open"
      BY <3>2, DecisionIs
    <3>4. Decision' = "abort"
      BY <2>3, <3>2 DEF Decision
    <3>5. TestOf!Abort
      BY <2>1, <2>2, <3>3, <3>4 DEF TestOf!Abort, Stages
    <3> QED
      BY <3>5 DEF TestOf!Next
  <2>4. CASE runner' \notin {"aborting_connected", "aborting_ready"}
    <3>1. runner \in {"connecting", "configuring", "starting"}
          /\ runner' \in {"configuring", "starting", "collecting"}
      BY <1>6, <2>4 DEF AllConnectsDone, AllConfigured, AllStarted
    <3>2. Decision' = Decision
      BY <2>1, <3>1 DEF Decision
    <3> QED
      BY <1>2, <2>1, <3>2
  <2> QED
    BY <2>3, <2>4
<1>7. ASSUME NEW g \in Generators, SendAbortReady(g)
      PROVE  TestOf!Next \/ UNCHANGED TestOf!sessionVars
  <2>1. /\ UNCHANGED <<gen, readied>> /\ runner = "aborting_ready" /\ peer[g] # "started"
        /\ \/ Becomes(g, "aborted") /\ UNCHANGED <<runner, result>>
           \/ Return("failed") /\ UNCHANGED peer
    BY <1>7 DEF SendAbortReady, genVars, runnerVars, IsFirst
  <2>2. Some("started")' = Some("started")
    BY <1>1, <2>1, PeerMoves DEF Some
  <2>3. CASE UNCHANGED <<runner, result>>
    <3>1. Decision' = Decision
      BY <2>2, <2>3 DEF Decision
    <3> QED
      BY <1>2, <2>1, <2>3, <3>1
  <2>4. CASE Return("failed")
    BY <2>1, <2>2, <2>4, ReturnRefines
  <2> QED
    BY <2>1, <2>3, <2>4
<1>8. ASSUME NEW g \in Generators, SendStart(g)
      PROVE  TestOf!Next \/ UNCHANGED TestOf!sessionVars
  <2>1. /\ UNCHANGED <<runner, result, gen, readied>> /\ runner = "starting"
        /\ peer[g] = "configured"
        /\ Becomes(g, "started") \/ Becomes(g, "not_started")
    BY <1>8 DEF SendStart, genVars, runnerVars
  <2>2. Stages' = Stages
    BY <2>1 DEF Stages
  <2>3. CASE Some("started")' = Some("started")
    <3>1. Decision' = Decision
      BY <2>1, <2>3 DEF Decision
    <3> QED
      BY <1>2, <2>1, <3>1
  <2>4. CASE Some("started")' # Some("started")
    <3>1. ~Some("started") /\ Some("started")'
      <4>1. Some("started") => Some("started")'
        BY <1>1, <2>1, PeerMoves
      <4> QED
        BY <2>4, <4>1 DEF Some
    <3>2. Decision = "open"
      BY <2>1, <3>1, DecisionIs DEF TestBarred
    <3>3. Decision' = "go"
      BY <3>1 DEF Decision
    <3>4. readied = Generators
      <4>1. \A h \in Generators : peer[h] \in {"configured", "started", "not_started"}
        BY <1>1, <2>1 DEF PeersOK, PeersIn
      <4>2. \A h \in Generators : h \in readied
        BY <4>1 DEF SessionInv, EndsMatch
      <4> QED
        BY <1>1, <4>2 DEF SessionTypeOK
    <3>5. TestOf!Go
      BY <2>1, <2>2, <3>2, <3>3, <3>4 DEF TestOf!Go, Stages
    <3> QED
      BY <3>5 DEF TestOf!Next
  <2> QED
    BY <2>3, <2>4
<1>9. CASE \/ ConnectFailed \/ ConfigureFailed \/ CollectFails \/ PersistFails
           \/ OrchestratorCrash \/ \E g \in Generators : StartFails(g)
  <2>1. UNCHANGED <<peer, gen, readied>> /\ Return("failed") /\ runner # "exited"
    BY <1>9 DEF ConnectFailed, ConfigureFailed, CollectFails, PersistFails, OrchestratorCrash,
       StartFails, genVars
  <2>2. Some("started")' = Some("started")
    BY <2>1 DEF Some
  <2> QED
    BY <2>1, <2>2, ReturnRefines
<1>10. CASE CollectEnds
  <2>1. /\ UNCHANGED <<peer, gen, readied>> /\ result' = "finished"
        /\ runner = "collecting" /\ result = "none"
    BY <1>10 DEF CollectEnds, Return, genVars, VerdictOK
  <2>2. \A g \in Generators : gen[g] = "finished"
    <3> TAKE g \in Generators
    <3>1. toOrch[g] \in Seq(Answers) /\ toOrch[g] # <<>> /\ Head(toOrch[g]) = "finished"
      BY <1>1, <1>10 DEF CollectEnds, SessionTypeOK
    <3>2. Contains(toOrch[g], "finished")
      BY <3>1, ContainsTail, Zenon
    <3> QED
      BY <3>2 DEF SessionInv, CommandsOK
  <2>3. Some("started")
    <3>1. 1 \in Generators
      BY SessionAssumption DEF Generators
    <3>2. peer[1] = "started"
      BY <1>1, <2>1, <3>1 DEF PeersOK, PeersIn
    <3> QED
      BY <3>1, <3>2 DEF Some
  <2>4. Decision = "go" /\ Decision' = "go"
    <3>1. Some("started")'
      BY <2>1, <2>3 DEF Some
    <3> QED
      BY <2>3, <3>1 DEF Decision
  <2>5. \A g \in Generators : Stages[g] = "finished"
    BY <2>2 DEF Stages, Progress, Ended
  <2>6. Stages' = Stages
    BY <2>1 DEF Stages
  <2>7. TestOf!Succeed
    BY <2>1, <2>4, <2>5, <2>6 DEF TestOf!Succeed, Stages
  <2> QED
    BY <2>7 DEF TestOf!Next
<1> QED
  BY <1>4, <1>5, <1>6, <1>7, <1>8, <1>9, <1>10 DEF Orchestrate

(* For any number of load generators the session is one decision for all:  *)
(* made when all are prepared, known to be against the test before the     *)
(* first abort is sent, never taken back, and called finished only at the  *)
(* end of every test (runner.rs:55-190).                                   *)
THEOREM SessionRefinement == Spec => OneDecision
<1>1. Init => TestOf!Init
  <2> SUFFICES ASSUME Init
               PROVE  TestOf!Init
    OBVIOUS
  <2>1. Decision = "open"
    BY DecisionIs DEF Init, Some, TestBarred
  <2>2. \A g \in Generators : Progress(gen[g]) = "preparing"
    BY DEF Init, Progress, Ended
  <2> QED
    BY <2>1, <2>2 DEF Init, TestOf!Init
<1>2. SessionInv /\ VerdictOK /\ [Next]_vars => [TestOf!Next]_(TestOf!sessionVars)
  <2> SUFFICES ASSUME SessionInv, VerdictOK, [Next]_vars
               PROVE  TestOf!Next \/ UNCHANGED TestOf!sessionVars
    OBVIOUS
  <2>1. CASE UNCHANGED vars
    <3>1. UNCHANGED <<readied, gen, result, peer, runner>>
      BY <2>1 DEF vars, runnerVars, genVars
    <3>2. Decision' = Decision
      BY <3>1 DEF Decision, Some
    <3> QED
      BY <3>1, <3>2 DEF TestOf!sessionVars
  <2> QED
    BY <2>1, OrchestratorRefines, GeneratorRefines DEF Next
<1> QED
  BY <1>1, <1>2, SessionInvariance, VerdictInvariance, PTL DEF Spec, OneDecision, TestOf!Spec
=============================================================================
