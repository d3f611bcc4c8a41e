-------------------------- MODULE VirtualUserProofs --------------------------
(***************************************************************************)
(* Theorems about VirtualUser, for every set of scripts, users and         *)
(* transactions: with its virtual users the pool still is VirtualUserPool, *)
(* every user sends its requests in the order of its script, and every     *)
(* fault in a script is found at setup.  Theorems about HttpExchange: what *)
(* becomes of a session that gets an answer, a useless one or none.        *)
(***************************************************************************)
EXTENDS VirtualUser, HttpExchange, VirtualUserPoolProofs, WellFoundedInduction

(* A bounded set of numbers has a greatest and a least element.            *)
LEMMA LeastOfNats ==
  ASSUME NEW S \in SUBSET Nat, S # {}
  PROVE  \E m \in S : \A i \in S : m <= i
<1> DEFINE Less == {pair \in Nat \X Nat : pair[1] < pair[2]}
<1>1. IsWellFoundedOn(Less, Nat)
  <2>1. IsWellFoundedOn(OpToRel(<, Nat), Nat)
    BY NatLessThanWellFounded
  <2>2. Less = OpToRel(<, Nat)
    BY Zenon DEF OpToRel
  <2> QED BY <2>1, <2>2, Zenon
<1> HIDE DEF Less
<1>2. PICK m \in S : \A i \in S : ~ (<<i, m>> \in Less)
  BY <1>1, WFMin
<1>3. \A i \in S : m <= i
  <2> TAKE i \in S
  <2>1. i \in Nat /\ m \in Nat
    OBVIOUS
  <2>2. <<i, m>> \notin Less
    BY <1>2
  <2>3. ~ (i < m)
    BY <2>1, <2>2 DEF Less
  <2> QED BY <2>1, <2>3
<1> QED BY <1>3

LEMMA GreatestOfBounded ==
  ASSUME NEW n \in Nat, NEW S \in SUBSET (1 .. n), S # {}
  PROVE  \E m \in S : \A i \in S : i <= m
<1> DEFINE T == {j \in Nat : n - j \in S}
<1>1. T \in SUBSET Nat
  OBVIOUS
<1>2. T # {}
  <2>1. PICK i \in S : TRUE
    OBVIOUS
  <2>2. n - i \in Nat /\ n - (n - i) = i
    OBVIOUS
  <2> QED BY <2>1, <2>2
<1>3. PICK x \in T : \A y \in T : x <= y
  <2> HIDE DEF T
  <2> QED BY <1>1, <1>2, LeastOfNats
<1>4. \A i \in S : i <= n - x
  <2> TAKE i \in S
  <2>1. n - i \in T
    OBVIOUS
  <2> QED BY <2>1, <1>3
<1> QED BY <1>3, <1>4

LEMMA MinIsIn ==
  ASSUME NEW S \in SUBSET Nat, S # {}
  PROVE  Min(S) \in S
  BY LeastOfNats DEF Min

LEMMA MaxIsIn ==
  ASSUME NEW n \in Nat, NEW S \in SUBSET (1 .. n), S # {}
  PROVE  Max(S) \in S
<1>1. \E m \in S : \A i \in S : m >= i
  <2>1. PICK m \in S : \A i \in S : i <= m
    BY GreatestOfBounded
  <2> QED BY <2>1
<1> QED BY <1>1 DEF Max

-----------------------------------------------------------------------------
(* Every step of the users is a step of the pool or leaves it alone.       *)
LEMMA PoolRefinementStep == [VirtualUserNext]_vars => [Next]_poolVars
<1> SUFFICES ASSUME [VirtualUserNext]_vars PROVE [Next]_poolVars
  OBVIOUS
<1> HIDE DEF Dispatch, DeadlinePasses, AcquireOnTime, SendNextRequest, LogResult, PushUser,
             ReleasePermit, FailUnsent, Send, Answer, poolVars, vuVars
<1>1. ASSUME NEW u \in Users, SetupStep(u) \/ SetupAnswer(u) PROVE UNCHANGED poolVars
  BY <1>1 DEF SetupStep, SetupAnswer
<1>2. ASSUME NEW t \in Tx, DispatchNext(t) \/ (DeadlinePasses(t) /\ UNCHANGED vuVars) PROVE Next
  BY <1>2 DEF DispatchNext, Next
<1>3. ASSUME NEW t \in Tx, PoolStep(t) PROVE Next
  BY <1>3 DEF PoolStep, Next, Run, SendNextRequest
<1>4. ASSUME NEW t \in Tx, RequestStep(t) PROVE [Next]_poolVars
  BY <1>4 DEF RequestStep, Dropped, Next, Run, SendNextRequest
<1>5. ASSUME NEW t \in Tx, RequestAnswer(t) PROVE Next
  BY <1>5 DEF RequestAnswer, Next, Run, SendNextRequest
<1>6. CASE UNCHANGED vars
  BY <1>6 DEF vars
<1> QED BY <1>1, <1>2, <1>3, <1>4, <1>5, <1>6 DEF VirtualUserNext, TaskStep

(* With script runners and requests in it the pool is still the one of     *)
(* VirtualUserPool, whatever the scripts do: all that is proved of it      *)
(* holds (user.rs:117-162, pool.rs:97).                                    *)
THEOREM PoolRefinement == VirtualUserSpec => PoolSpec
<1>1. VirtualUserInit => Init
  BY DEF VirtualUserInit
<1> QED BY <1>1, PoolRefinementStep, PTL DEF VirtualUserSpec, PoolSpec

THEOREM PoolOfUsers == VirtualUserSpec => []PoolInv
  BY PoolRefinement, PoolInvariance, PTL

-----------------------------------------------------------------------------
(* What the parser makes of a script that passes.                          *)
LEMMA ArrayOf ==
  ASSUME NEW n \in Nat, NEW f, f = [i \in 1 .. n |-> f[i]]
  PROVE  Len(f) = n /\ IsArray(f) /\ (n > 0 => f # <<>>)
<1>1. f \in Seq({f[i] : i \in 1 .. n})
  OBVIOUS
<1>2. Len(f) \in Nat /\ DOMAIN f = 1 .. Len(f) /\ DOMAIN f = 1 .. n
  BY <1>1, LenProperties
<1>3. Len(f) = n
  BY <1>2
<1>4. n > 0 => f # <<>>
  BY <1>3, EmptySeq
<1> QED BY <1>2, <1>3, <1>4 DEF IsArray

LEMMA ArrayFacts ==
  ASSUME NEW s, IsArray(s)
  PROVE  /\ Len(s) \in Nat /\ DOMAIN s = 1 .. Len(s)
         /\ s # <<>> => Len(s) > 0
<1>1. s \in Seq({s[i] : i \in 1 .. Len(s)})
  BY DEF IsArray
<1> QED BY <1>1, EmptySeq DEF IsArray

LEMMA NoFirstError ==
  ASSUME NEW n \in Nat, NEW checks, DOMAIN checks = 1 .. n, FirstError(checks) = "ok"
  PROVE  \A i \in 1 .. n : checks[i] = "ok"
<1> DEFINE bad == {i \in DOMAIN checks : checks[i] # "ok"}
<1> SUFFICES ASSUME bad # {} PROVE FALSE
  OBVIOUS
<1>1. Min(bad) \in bad
  BY MinIsIn
<1>2. FirstError(checks) = checks[Min(bad)]
  BY DEF FirstError
<1> QED BY <1>1, <1>2

LEMMA PrefixIsArray ==
  ASSUME NEW s, IsArray(s), NEW n \in Nat, n <= Len(s)
  PROVE  IsArray(SubSeq(s, 1, n))
<1> DEFINE V == {s[j] : j \in 1 .. Len(s)}
           r == SubSeq(s, 1, n)
<1>1. Len(s) \in Nat
  BY ArrayFacts
<1>2. \A i \in 1 .. n : s[i] \in V
  BY <1>1
<1>3. r \in Seq(V)
  <2> HIDE DEF V
  <2> QED BY <1>2, SubSeqProperties
<1> HIDE DEF r
<1>4. Len(r) \in Nat /\ r = [i \in 1 .. Len(r) |-> r[i]]
  BY <1>3, LenProperties
<1>5. IsArray(r)
  BY <1>4 DEF IsArray
<1> QED BY <1>5 DEF r

LEMMA ItemsAreArray ==
  ASSUME NEW list, IsArray(list.items)
  PROVE  IsArray(Items(list))
<1> DEFINE holes == {i \in DOMAIN list.items : list.items[i] = Nil}
<1>1. Len(list.items) \in Nat /\ DOMAIN list.items = 1 .. Len(list.items)
  BY ArrayFacts
<1>2. CASE holes = {}
  BY <1>2 DEF Items
<1>3. CASE holes # {}
  <2>1. Min(holes) \in holes
    <3>1. holes \in SUBSET Nat
      BY <1>1
    <3> HIDE DEF holes
    <3> QED BY <1>3, <3>1, MinIsIn
  <2>2. Min(holes) - 1 \in Nat /\ Min(holes) - 1 <= Len(list.items)
    <3>1. Min(holes) \in 1 .. Len(list.items)
      BY <1>1, <2>1
    <3> HIDE DEF holes
    <3> QED BY <1>1, <3>1
  <2>3. Items(list) = SubSeq(list.items, 1, Min(holes) - 1)
    BY <1>3 DEF Items
  <2> HIDE DEF holes
  <2> QED BY <2>2, <2>3, PrefixIsArray
<1> QED BY <1>2, <1>3

LEMMA ParsedSpecsAreArray ==
  ASSUME NEW list, IsArray(list.items)
  PROVE  IsArray(ParsedSpecs(list)) /\ (Items(list) # <<>> => ParsedSpecs(list) # <<>>)
<1> DEFINE items == Items(list)
<1>1. /\ Len(items) \in Nat /\ DOMAIN items = 1 .. Len(items)
      /\ items # <<>> => Len(items) > 0
  BY ItemsAreArray, ArrayFacts
<1>2. ParsedSpecs(list) = [i \in 1 .. Len(items) |-> ParsedSpecs(list)[i]]
  BY <1>1 DEF ParsedSpecs
<1> HIDE DEF items
<1>3. IsArray(ParsedSpecs(list)) /\ (Len(items) > 0 => ParsedSpecs(list) # <<>>)
  BY <1>1, <1>2, ArrayOf
<1> QED BY <1>1, <1>3 DEF items

LEMMA AcceptedModule ==
  ASSUME NEW module, LoadError(module) = "ok"
  PROVE  /\ module.type = "table"
         /\ \A function \in {"setup", "requests"} : Get(module, function).type = "function"
<1>1. module.type = "table"
  BY DEF LoadError
<1> DEFINE checks == <<FunctionError(module, "setup"), FunctionError(module, "requests")>>
<1>2. FirstError(checks) = "ok"
  BY <1>1 DEF LoadError
<1>3. FunctionError(module, "setup") = "ok" /\ FunctionError(module, "requests") = "ok"
  <2>1. DOMAIN checks = 1 .. 2
    OBVIOUS
  <2>2. \A i \in 1 .. 2 : checks[i] = "ok"
    BY <1>2, <2>1, NoFirstError
  <2> QED BY <2>2
<1> QED BY <1>1, <1>3 DEF FunctionError

LEMMA AcceptedLists ==
  ASSUME NEW setup, NEW requests, SetupError(setup, requests) = "ok"
  PROVE  setup.type = "table" /\ requests.type = "table" /\ Items(requests) # <<>>
<1> DEFINE checks == <<TopLevelError(setup), TopLevelError(requests), EmptyError(requests)>>
<1>1. \A i \in 1 .. 3 : checks[i] = "ok"
  <2>1. DOMAIN checks = 1 .. 3
    OBVIOUS
  <2> QED BY <2>1, NoFirstError DEF SetupError
<1>2. TopLevelError(setup) = "ok" /\ TopLevelError(requests) = "ok" /\ EmptyError(requests) = "ok"
  BY <1>1
<1>3. setup.type = "table" /\ requests.type = "table"
  BY <1>2 DEF TopLevelError
<1> QED BY <1>2, <1>3 DEF EmptyError

-----------------------------------------------------------------------------
(* The invariant of one user, and that it does not depend on the others.   *)
Shape(u) ==
  Running(u) =>
    /\ ListsParsed(u)
    /\ turn[u] = Idle \/ \E i \in 0 .. Len(List(u)) - 1 : TurnAt(u, i)

Fresh(u) ==
  /\ stage[u] = "new" => /\ source[u] \in Scripts
                         /\ turn[u] = Idle /\ home[u] = 0 /\ cursor[u]["setup"] = 0
  /\ stage[u] \in {"new", "setup"} => cursor[u]["user"] = 0

Ordered(u) ==
  Running(u) =>
    /\ turn[u].doing \in {"idle", "resolving"} => Position(u) = home[u]
    /\ turn[u].doing = "resolving" => Home(u).dynamic
    /\ turn[u].doing \in {"specified", "sent"} => turn[u].at = home[u] \/ Home(u).dynamic
    /\ home[u] < Len(List(u)) \/ (turn[u] = Idle /\ stage[u] = "setup" /\ home[u] = Len(List(u)))

UserOK(u) == Shape(u) /\ Fresh(u) /\ Ordered(u)

DispatchAfterSetup == (\E t \in Tx : task[t] # "new") => PoolReady

LEMMA InvByUser ==
  VirtualUserInv <=>
    VirtualUserTypeOK /\ (\A u \in Users : UserOK(u)) /\ DispatchAfterSetup
  BY DEF VirtualUserInv, UserOK, Shape, Fresh, Ordered, DispatchAfterSetup, RunnersOK,
         SetupFirst, DeclarationOrder

(* Nothing of the other users changes.                                     *)
OnlyOf(u) ==
  \A v \in Users \ {u} :
    /\ source'[v] = source[v] /\ stage'[v] = stage[v] /\ specs'[v] = specs[v]
    /\ cursor'[v] = cursor[v] /\ turn'[v] = turn[v] /\ home'[v] = home[v]

LEMMA OthersStayOK ==
  ASSUME NEW u, OnlyOf(u), NEW v \in Users \ {u}, UserOK(v)
  PROVE  UserOK(v)'
<1>1. /\ source'[v] = source[v] /\ stage'[v] = stage[v] /\ specs'[v] = specs[v]
      /\ cursor'[v] = cursor[v] /\ turn'[v] = turn[v] /\ home'[v] = home[v]
  BY DEF OnlyOf
<1>2. List(v)' = List(v) /\ Position(v)' = Position(v) /\ Home(v)' = Home(v)
  BY <1>1 DEF List, Position, Home
<1>3. \A i : After(v, i)' = After(v, i)
  BY <1>1, <1>2 DEF After
<1>4. \A i : TurnAt(v, i)' <=> TurnAt(v, i)
  BY <1>1, <1>2, <1>3 DEF TurnAt
<1>5. Shape(v)'
  BY <1>1, <1>2, <1>4 DEF UserOK, Shape, Running, ListsParsed
<1>6. Fresh(v)'
  BY <1>1 DEF UserOK, Fresh
<1>7. Ordered(v)'
  BY <1>1, <1>2 DEF UserOK, Ordered, Running
<1> QED BY <1>5, <1>6, <1>7 DEF UserOK

(* What is known of a user whose runner is set up.                         *)
LEMMA RunningFacts ==
  ASSUME VirtualUserTypeOK, NEW u \in Users, UserOK(u), Running(u)
  PROVE  /\ stage[u] \in Lists
         /\ IsArray(List(u)) /\ Len(List(u)) \in Nat
         /\ stage[u] = "user" => Len(List(u)) > 0
         /\ Position(u) \in Nat /\ home[u] \in Nat
<1>1. stage[u] \in Lists
  BY DEF Running, Lists
<1>2. IsArray(List(u)) /\ (stage[u] = "user" => List(u) # <<>>)
  BY <1>1 DEF UserOK, Shape, ListsParsed, List
<1>3. Position(u) \in Nat /\ home[u] \in Nat
  BY <1>1 DEF Position, VirtualUserTypeOK
<1> QED BY <1>1, <1>2, <1>3, ArrayFacts

LEMMA AfterIsNext ==
  ASSUME VirtualUserTypeOK, NEW u \in Users, UserOK(u), Running(u),
         NEW i \in 0 .. Len(List(u)) - 1
  PROVE  /\ After(u, i) \in Nat
         /\ stage[u] = "user" => After(u, i) < Len(List(u))
         /\ stage[u] = "setup" => After(u, i) <= Len(List(u))
<1>1. /\ Len(List(u)) \in Nat /\ stage[u] \in {"user", "setup"}
      /\ stage[u] = "user" => Len(List(u)) > 0
  BY RunningFacts DEF Lists
<1> DEFINE n == Len(List(u))
<1> HIDE DEF n
<1>2. \A m \in Nat \ {0}, k \in Nat : k % m \in 0 .. m - 1
  BY Z3
<1>3. n \in Nat /\ i \in 0 .. n - 1 /\ After(u, i) = IF stage[u] = "user" THEN (i + 1) % n ELSE i + 1
  BY <1>1 DEF After, n
<1>4. CASE stage[u] = "user"
  <2>1. n > 0
    BY <1>1, <1>4 DEF n
  <2>2. n \in Nat \ {0} /\ i + 1 \in Nat
    BY <1>3, <2>1
  <2>3. (i + 1) % n \in 0 .. n - 1
    BY <1>2, <2>2
  <2> QED BY <1>3, <1>4, <2>3 DEF n
<1>5. CASE stage[u] = "setup"
  BY <1>3, <1>5 DEF n
<1> QED BY <1>1, <1>4, <1>5

(* What SetTurn and MoveTo do.                                             *)
LEMMA TurnSet ==
  ASSUME VirtualUserTypeOK, NEW u \in Users, NEW to, SetTurn(u, to)
  PROVE  turn'[u] = to /\ DOMAIN turn' = Users /\ \A v \in Users \ {u} : turn'[v] = turn[v]
  BY DEF SetTurn, VirtualUserTypeOK

LEMMA CursorMoved ==
  ASSUME VirtualUserTypeOK, NEW u \in Users, stage[u] \in Lists, NEW i \in Nat, MoveTo(u, i)
  PROVE  /\ cursor' \in [Users -> [Lists -> Nat]]
         /\ cursor'[u][stage[u]] = i
         /\ \A list \in Lists \ {stage[u]} : cursor'[u][list] = cursor[u][list]
         /\ \A v \in Users \ {u} : cursor'[v] = cursor[v]
  BY DEF MoveTo, VirtualUserTypeOK

-----------------------------------------------------------------------------
(* The steps of a request, each by what it does to its user.               *)
ProgressOK(u) == VirtualUserTypeOK' /\ OnlyOf(u) /\ UserOK(u)'

(* Typing is kept by whatever moves a cursor or sets a turn.               *)
LEMMA RequestTypes ==
  ASSUME VirtualUserTypeOK, NEW u \in Users, UNCHANGED <<source, stage, specs>>,
         cursor' \in [Users -> [Lists -> Nat]], DOMAIN turn' = Users, home' \in [Users -> Nat]
  PROVE  VirtualUserTypeOK'
  BY DEF VirtualUserTypeOK

(* The user is back at the entry after the last one that succeeded.        *)
LEMMA BackToIdle ==
  ASSUME VirtualUserTypeOK, NEW u \in Users, UserOK(u), Running(u),
         UNCHANGED <<source, stage, specs, home>>, SetTurn(u, Idle),
         MoveTo(u, home[u]) \/ (UNCHANGED cursor /\ Position(u) = home[u]),
         home[u] < Len(List(u))
  PROVE  ProgressOK(u)
<1>1. stage[u] \in Lists /\ home[u] \in Nat
  BY RunningFacts
<1>2. turn'[u] = Idle /\ DOMAIN turn' = Users /\ \A v \in Users \ {u} : turn'[v] = turn[v]
  BY TurnSet
<1>3. /\ cursor' \in [Users -> [Lists -> Nat]]
      /\ cursor'[u][stage[u]] = home[u]
      /\ \A list \in Lists \ {stage[u]} : cursor'[u][list] = cursor[u][list]
      /\ \A v \in Users \ {u} : cursor'[v] = cursor[v]
  <2>1. CASE MoveTo(u, home[u])
    BY <1>1, <2>1, CursorMoved
  <2>2. CASE UNCHANGED cursor /\ Position(u) = home[u]
    BY <2>2 DEF VirtualUserTypeOK, Position
  <2> QED BY <2>1, <2>2
<1>4. VirtualUserTypeOK'
  <2>1. home' \in [Users -> Nat]
    BY DEF VirtualUserTypeOK
  <2> QED BY <1>2, <1>3, <2>1, RequestTypes
<1>5. OnlyOf(u)
  BY <1>2, <1>3 DEF OnlyOf
<1>6. Shape(u)'
  BY <1>2 DEF UserOK, Shape, Running, ListsParsed
<1>7. Fresh(u)'
  BY <1>3 DEF UserOK, Fresh, Running, Lists
<1>8. Ordered(u)'
  BY <1>2, <1>3 DEF Ordered, Running, Position, List, Idle
<1> QED BY <1>4, <1>5, <1>6, <1>7, <1>8 DEF ProgressOK, UserOK

(* A turn is at an entry, and the cursor after it or where it was.         *)
LEMMA SpecifiedOK ==
  ASSUME VirtualUserTypeOK, NEW u \in Users, UserOK(u), Running(u),
         UNCHANGED <<source, stage, specs, home>>,
         NEW i \in 0 .. Len(List(u)) - 1, NEW request, Specified(u, i, request),
         Position(u) = home[u], home[u] < Len(List(u)), i = home[u] \/ Home(u).dynamic
  PROVE  ProgressOK(u)
<1>1. stage[u] \in Lists /\ home[u] \in Nat
  BY RunningFacts
<1> DEFINE to == [doing |-> "specified", at |-> i, previous |-> home[u], request |-> request]
<1>2. turn'[u] = to /\ DOMAIN turn' = Users /\ \A v \in Users \ {u} : turn'[v] = turn[v]
  <2>1. SetTurn(u, to)
    BY DEF Specified
  <2> HIDE DEF to
  <2> QED BY <2>1, TurnSet
<1>3. /\ cursor' \in [Users -> [Lists -> Nat]]
      /\ cursor'[u][stage[u]] = After(u, i)
      /\ \A list \in Lists \ {stage[u]} : cursor'[u][list] = cursor[u][list]
      /\ \A v \in Users \ {u} : cursor'[v] = cursor[v]
  BY <1>1, AfterIsNext, CursorMoved DEF Specified
<1>4. VirtualUserTypeOK'
  <2>1. home' \in [Users -> Nat]
    BY DEF VirtualUserTypeOK
  <2> QED BY <1>2, <1>3, <2>1, RequestTypes
<1>5. OnlyOf(u)
  BY <1>2, <1>3 DEF OnlyOf
<1>6. TurnAt(u, i)'
  <2>1. /\ turn'[u].doing = "specified" /\ turn'[u].request = request
        /\ turn'[u] = [doing |-> "specified", at |-> i, previous |-> home[u], request |-> request]
    BY <1>2
  <2>2. Position(u)' = After(u, i)'
    BY <1>3 DEF Position, After, List
  <2> QED BY <2>1, <2>2 DEF TurnAt
<1>7. Shape(u)'
  <2>1. i \in (0 .. Len(List(u)) - 1)'
    BY DEF List
  <2>2. ListsParsed(u)'
    BY DEF UserOK, Shape, ListsParsed
  <2> QED BY <1>6, <2>1, <2>2 DEF Shape
<1>8. Fresh(u)'
  BY <1>3 DEF UserOK, Fresh, Running, Lists
<1>9. Ordered(u)'
  <2>1. turn'[u].doing = "specified" /\ turn'[u].at = i
    BY <1>2
  <2>2. List(u)' = List(u) /\ Home(u)' = Home(u)
    BY DEF List, Home
  <2> QED BY <2>1, <2>2 DEF Ordered
<1> QED BY <1>4, <1>5, <1>7, <1>8, <1>9 DEF ProgressOK, UserOK

LEMMA ResolvingOK ==
  ASSUME VirtualUserTypeOK, NEW u \in Users, UserOK(u), Running(u),
         UNCHANGED <<source, stage, specs, home>>,
         NEW i \in 0 .. Len(List(u)) - 1, Resolving(u, i), List(u)[i + 1].dynamic,
         Position(u) = home[u], home[u] < Len(List(u)), Home(u).dynamic
  PROVE  ProgressOK(u)
<1> DEFINE to == [doing |-> "resolving", at |-> i]
<1>2. turn'[u] = to /\ DOMAIN turn' = Users /\ \A v \in Users \ {u} : turn'[v] = turn[v]
  <2>1. SetTurn(u, to)
    BY DEF Resolving
  <2> HIDE DEF to
  <2> QED BY <2>1, TurnSet
<1>3. UNCHANGED cursor
  BY DEF Resolving
<1>4. VirtualUserTypeOK'
  BY <1>2, <1>3, RequestTypes DEF VirtualUserTypeOK
<1>5. OnlyOf(u)
  BY <1>2, <1>3 DEF OnlyOf
<1>6. List(u)' = List(u) /\ Home(u)' = Home(u) /\ Position(u)' = Position(u)
  BY <1>3 DEF List, Home, Position
<1>7. Shape(u)'
  <2>1. TurnAt(u, i)'
    BY <1>2, <1>6 DEF TurnAt
  <2>2. i \in (0 .. Len(List(u)) - 1)'
    BY <1>6
  <2>3. ListsParsed(u)'
    BY DEF UserOK, Shape, ListsParsed
  <2> QED BY <2>1, <2>2, <2>3 DEF Shape
<1>8. Fresh(u)'
  BY <1>3 DEF UserOK, Fresh, Running
<1>9. Ordered(u)'
  <2>1. turn'[u].doing = "resolving"
    BY <1>2
  <2> QED BY <2>1, <1>6 DEF Ordered
<1> QED BY <1>4, <1>5, <1>7, <1>8, <1>9 DEF ProgressOK, UserOK

(* What a turn in progress says.                                           *)
LEMMA TurnFacts ==
  ASSUME VirtualUserTypeOK, NEW u \in Users, UserOK(u), Running(u)
  PROVE  /\ turn[u].doing = "resolving" =>
              /\ turn[u].at \in 0 .. Len(List(u)) - 1
              /\ List(u)[turn[u].at + 1].dynamic
         /\ turn[u].doing \in {"specified", "sent"} =>
              /\ turn[u].at \in 0 .. Len(List(u)) - 1
              /\ turn[u] = [doing |-> turn[u].doing, at |-> turn[u].at, previous |-> home[u],
                            request |-> turn[u].request]
              /\ Position(u) = After(u, turn[u].at)
         /\ turn[u].doing \in {"resolving", "specified", "sent"} => home[u] < Len(List(u))
<1>1. CASE turn[u] = Idle
  BY <1>1 DEF Idle
<1>2. CASE turn[u] # Idle
  <2>1. PICK i \in 0 .. Len(List(u)) - 1 : TurnAt(u, i)
    BY <1>2 DEF UserOK, Shape
  <2>2. home[u] < Len(List(u))
    BY <1>2 DEF UserOK, Ordered
  <2>3. CASE turn[u] = [doing |-> "resolving", at |-> i] /\ List(u)[i + 1].dynamic
    <3>1. turn[u].doing = "resolving" /\ turn[u].at = i
      BY <2>3
    <3> QED BY <2>2, <2>3, <3>1
  <2>4. CASE /\ turn[u].doing \in {"specified", "sent"}
             /\ turn[u] = [doing |-> turn[u].doing, at |-> i, previous |-> home[u],
                           request |-> turn[u].request]
             /\ Position(u) = After(u, i)
    <3>1. turn[u].at = i
      BY <2>4
    <3> QED BY <2>2, <2>4, <3>1
  <2> QED BY <2>1, <2>3, <2>4 DEF TurnAt
<1> QED BY <1>1, <1>2

LEMMA NextSpecOK ==
  ASSUME VirtualUserTypeOK, NEW u \in Users, UserOK(u), Running(u),
         NextSpec(u), UNCHANGED stage
  PROVE  ProgressOK(u)
<1> DEFINE i == Position(u)
<1>1. i = home[u] /\ i < Len(List(u)) /\ i \in Nat /\ Len(List(u)) \in Nat
  BY RunningFacts DEF NextSpec, UserOK, Ordered, Idle
<1>2. i \in 0 .. Len(List(u)) - 1
  BY <1>1
<1>3. UNCHANGED <<source, stage, specs, home>>
  BY DEF NextSpec, userVars
<1>4. CASE List(u)[i + 1].dynamic
  <2>1. Resolving(u, i)
    BY <1>4 DEF NextSpec
  <2>2. Home(u).dynamic
    BY <1>1, <1>4 DEF Home
  <2> QED BY <1>1, <1>2, <1>3, <1>4, <2>1, <2>2, ResolvingOK
<1>5. CASE ~List(u)[i + 1].dynamic
  <2>1. Specified(u, i, List(u)[i + 1].request)
    BY <1>5 DEF NextSpec
  <2> HIDE DEF i
  <2> QED BY <1>1, <1>2, <1>3, <2>1, SpecifiedOK DEF i
<1> QED BY <1>4, <1>5

(* A jump leads to an entry of the list.                                   *)
LEMMA JumpTarget ==
  ASSUME VirtualUserTypeOK, NEW u \in Users, UserOK(u), Running(u),
         NEW name, Named(List(u), name) # {}
  PROVE  IndexByName(List(u), name) \in 0 .. Len(List(u)) - 1
<1> DEFINE S == Named(List(u), name)
<1>1. Len(List(u)) \in Nat /\ DOMAIN List(u) = 1 .. Len(List(u))
  BY RunningFacts, ArrayFacts
<1>2. S \in SUBSET (1 .. Len(List(u)))
  BY <1>1 DEF Named
<1> HIDE DEF S
<1>3. Max(S) \in S
  BY <1>1, <1>2, MaxIsIn DEF S
<1>4. Max(S) \in 1 .. Len(List(u))
  BY <1>2, <1>3
<1> QED BY <1>1, <1>4 DEF IndexByName, S

LEMMA CallFunctionOK ==
  ASSUME VirtualUserTypeOK, NEW u \in Users, UserOK(u), Running(u),
         CallFunction(u), UNCHANGED stage
  PROVE  ProgressOK(u)
<1>1. /\ turn[u].doing = "resolving"
      /\ turn[u].at \in 0 .. Len(List(u)) - 1
      /\ home[u] < Len(List(u))
      /\ Position(u) = home[u] /\ Home(u).dynamic
  BY TurnFacts DEF CallFunction, UserOK, Ordered
<1>2. UNCHANGED <<source, stage, specs, home>>
  BY DEF CallFunction, userVars
<1>3. PICK value :
        IF IsJump(value)
        THEN Named(List(u), value.text) # {} /\ FollowJump(u, value.text)
        ELSE Specified(u, turn[u].at, Request(value))
  BY DEF CallFunction
<1>4. CASE IsJump(value)
  <2> DEFINE i == IndexByName(List(u), value.text)
  <2>1. i \in 0 .. Len(List(u)) - 1
    BY <1>3, <1>4, JumpTarget
  <2>2. CASE List(u)[i + 1].dynamic
    <3>1. Resolving(u, i)
      BY <1>3, <1>4, <2>2 DEF FollowJump
    <3> HIDE DEF i
    <3> QED BY <1>1, <1>2, <2>1, <2>2, <3>1, ResolvingOK
  <2>3. CASE ~List(u)[i + 1].dynamic
    <3>1. Specified(u, i, List(u)[i + 1].request)
      BY <1>3, <1>4, <2>3 DEF FollowJump
    <3> HIDE DEF i
    <3> QED BY <1>1, <1>2, <2>1, <3>1, SpecifiedOK
  <2> QED BY <2>2, <2>3
<1>5. CASE ~IsJump(value)
  BY <1>1, <1>2, <1>3, <1>5, SpecifiedOK
<1> QED BY <1>4, <1>5

LEMMA SendRequestOK ==
  ASSUME VirtualUserTypeOK, NEW u \in Users, UserOK(u), Running(u),
         SendRequest(u), UNCHANGED stage
  PROVE  ProgressOK(u)
<1>0. PICK i : i = turn[u].at
  OBVIOUS
<1> DEFINE to == [doing |-> "sent", at |-> i, previous |-> home[u], request |-> turn[u].request]
<1>1. /\ turn[u].doing = "specified" /\ i \in 0 .. Len(List(u)) - 1
      /\ turn[u] = [doing |-> turn[u].doing, at |-> i, previous |-> home[u],
                    request |-> turn[u].request]
      /\ Position(u) = After(u, i)
  BY <1>0, TurnFacts DEF SendRequest
<1>2. UNCHANGED <<source, stage, specs, cursor, home>>
  BY DEF SendRequest, userVars
<1>3. turn'[u] = to /\ DOMAIN turn' = Users /\ \A v \in Users \ {u} : turn'[v] = turn[v]
  <2>1. [turn[u] EXCEPT !.doing = "sent"] = to
    BY <1>1
  <2>2. SetTurn(u, to)
    BY <2>1 DEF SendRequest
  <2> HIDE DEF to
  <2> QED BY <2>2, TurnSet
<1>4. VirtualUserTypeOK'
  BY <1>2, <1>3, RequestTypes DEF VirtualUserTypeOK
<1>5. OnlyOf(u)
  BY <1>2, <1>3 DEF OnlyOf
<1>6. List(u)' = List(u) /\ Home(u)' = Home(u) /\ Position(u)' = Position(u)
  BY <1>2 DEF List, Home, Position
<1>7. Shape(u)'
  <2>1. TurnAt(u, i)'
    <3>1. turn'[u].doing = "sent" /\ turn'[u].request = turn[u].request
      BY <1>3
    <3>2. Position(u)' = After(u, i)'
      BY <1>1, <1>2 DEF Position, After, List
    <3> QED BY <1>2, <1>3, <3>1, <3>2 DEF TurnAt
  <2>2. i \in (0 .. Len(List(u)) - 1)'
    BY <1>1, <1>6
  <2>3. ListsParsed(u)'
    BY <1>2 DEF UserOK, Shape, ListsParsed
  <2> QED BY <2>1, <2>2, <2>3 DEF Shape
<1>8. Fresh(u)'
  BY <1>2 DEF UserOK, Fresh, Running
<1>9. Ordered(u)'
  <2>1. turn'[u].doing = "sent" /\ turn'[u].at = turn[u].at
    BY <1>0, <1>3
  <2>2. home[u] < Len(List(u))
    BY <1>1, TurnFacts
  <2> QED BY <1>1, <1>2, <1>6, <2>1, <2>2 DEF Ordered, UserOK
<1> QED BY <1>4, <1>5, <1>7, <1>8, <1>9 DEF ProgressOK, UserOK

(* The end of a turn: the request succeeds, and the user moves on, ...     *)
LEMMA SucceedsOK ==
  ASSUME VirtualUserTypeOK, NEW u \in Users, UserOK(u), Running(u),
         Succeeds(u), UNCHANGED stage
  PROVE  ProgressOK(u)
<1>1. /\ turn[u].doing = "sent" /\ turn[u].at \in 0 .. Len(List(u)) - 1
      /\ Position(u) = After(u, turn[u].at)
  BY TurnFacts DEF Succeeds
<1>2. UNCHANGED <<source, stage, specs, cursor>>
  BY DEF Succeeds, userVars
<1>3. turn'[u] = Idle /\ DOMAIN turn' = Users /\ \A v \in Users \ {u} : turn'[v] = turn[v]
  BY TurnSet DEF Succeeds
<1>4. /\ home'[u] = After(u, turn[u].at) /\ \A v \in Users \ {u} : home'[v] = home[v]
      /\ home' \in [Users -> Nat]
  BY <1>1, AfterIsNext DEF Succeeds, VirtualUserTypeOK
<1>5. VirtualUserTypeOK'
  BY <1>2, <1>3, <1>4, RequestTypes DEF VirtualUserTypeOK
<1>6. OnlyOf(u)
  BY <1>2, <1>3, <1>4 DEF OnlyOf
<1>7. Shape(u)'
  BY <1>2, <1>3 DEF UserOK, Shape, Running, ListsParsed
<1>8. Fresh(u)'
  BY <1>2 DEF UserOK, Fresh, Running
<1>9. Ordered(u)'
  <2>1. List(u)' = List(u) /\ Position(u)' = home'[u]
    BY <1>1, <1>2, <1>4 DEF List, Position
  <2>2. home'[u] < Len(List(u)) \/ (stage[u] = "setup" /\ home'[u] = Len(List(u)))
    <3>1. /\ After(u, turn[u].at) \in Nat
          /\ stage[u] = "user" => After(u, turn[u].at) < Len(List(u))
          /\ stage[u] = "setup" => After(u, turn[u].at) <= Len(List(u))
      BY <1>1, AfterIsNext
    <3>2. Len(List(u)) \in Nat /\ stage[u] \in {"setup", "user"}
      BY RunningFacts DEF Lists
    <3> QED BY <1>4, <3>1, <3>2
  <2>3. turn'[u] = Idle /\ turn'[u].doing = "idle"
    BY <1>3 DEF Idle
  <2> QED BY <1>2, <2>1, <2>2, <2>3 DEF Ordered
<1> QED BY <1>5, <1>6, <1>7, <1>8, <1>9 DEF ProgressOK, UserOK

(* ... or it fails, and the user is back where it was before the turn.     *)
LEMMA RevertedOK ==
  ASSUME VirtualUserTypeOK, NEW u \in Users, UserOK(u), Running(u),
         UrlFails(u) \/ Fails(u), Revert(u), UNCHANGED stage
  PROVE  ProgressOK(u)
<1>1. /\ turn[u] = [doing |-> turn[u].doing, at |-> turn[u].at, previous |-> home[u],
                    request |-> turn[u].request]
      /\ home[u] < Len(List(u))
  BY TurnFacts DEF UrlFails, Fails
<1>2. turn[u].previous = home[u]
  BY <1>1
<1>3. MoveTo(u, home[u])
  BY <1>2 DEF Revert
<1>4. UNCHANGED <<source, stage, specs, home>> /\ SetTurn(u, Idle)
  BY DEF UrlFails, Fails, userVars
<1> QED BY <1>1, <1>3, <1>4, BackToIdle

LEMMA UnresolvableOK ==
  ASSUME VirtualUserTypeOK, NEW u \in Users, UserOK(u), Running(u),
         Unresolvable(u), UNCHANGED <<stage, cursor>>
  PROVE  ProgressOK(u)
<1>1. turn[u].doing = "resolving" /\ home[u] < Len(List(u)) /\ Position(u) = home[u]
  BY TurnFacts DEF Unresolvable, UserOK, Ordered
<1>2. UNCHANGED <<source, stage, specs, home>> /\ SetTurn(u, Idle)
  BY DEF Unresolvable, userVars
<1> QED BY <1>1, <1>2, BackToIdle

-----------------------------------------------------------------------------
(* The steps of the setup.                                                 *)
LEMMA FailSetupOK ==
  ASSUME VirtualUserTypeOK, NEW u \in Users, FailSetup(u),
         Unresolvable(u) \/ UrlFails(u) \/ TimesOut(u) \/ Fails(u)
  PROVE  ProgressOK(u) /\ (\A v \in Users \ {u} : stage'[v] = stage[v])
<1>1. stage'[u] = "failed" /\ \A v \in Users \ {u} : stage'[v] = stage[v]
  BY DEF FailSetup, VirtualUserTypeOK
<1>2. UNCHANGED <<source, specs, cursor, home>> /\ SetTurn(u, Idle)
  BY DEF FailSetup, Unresolvable, UrlFails, TimesOut, Fails, userVars
<1>3. DOMAIN turn' = Users /\ \A v \in Users \ {u} : turn'[v] = turn[v]
  BY <1>2, TurnSet
<1>4. VirtualUserTypeOK'
  BY <1>2, <1>3 DEF FailSetup, VirtualUserTypeOK
<1>5. OnlyOf(u)
  BY <1>1, <1>2, <1>3 DEF OnlyOf
<1>6. UserOK(u)'
  BY <1>1 DEF UserOK, Shape, Fresh, Ordered, Running
<1> QED BY <1>1, <1>4, <1>5, <1>6 DEF ProgressOK

LEMMA SetupDoneOK ==
  ASSUME VirtualUserTypeOK, NEW u \in Users, UserOK(u), SetupDone(u)
  PROVE  ProgressOK(u)
<1>1. stage[u] = "setup" /\ turn[u] = Idle
  BY DEF SetupDone
<1>2. /\ stage'[u] = "user" /\ \A v \in Users \ {u} : stage'[v] = stage[v]
      /\ home'[u] = 0 /\ \A v \in Users \ {u} : home'[v] = home[v]
      /\ UNCHANGED <<source, specs, cursor, turn>>
  BY DEF SetupDone, VirtualUserTypeOK, userVars
<1>3. VirtualUserTypeOK'
  BY <1>2 DEF SetupDone, VirtualUserTypeOK
<1>4. OnlyOf(u)
  BY <1>2 DEF OnlyOf
<1>5. ListsParsed(u) /\ cursor[u]["user"] = 0
  BY <1>1 DEF UserOK, Shape, Fresh, Running
<1>6. Shape(u)'
  BY <1>1, <1>2, <1>5 DEF Shape, ListsParsed
<1>7. Fresh(u)'
  BY <1>2, <1>5 DEF Fresh
<1>8. Ordered(u)'
  <2>1. Len(specs[u]["user"]) > 0
    BY <1>5, ArrayFacts DEF ListsParsed, Lists
  <2>2. List(u)' = specs[u]["user"] /\ Position(u)' = 0
    BY <1>2, <1>5 DEF List, Position
  <2>3. turn'[u].doing = "idle"
    BY <1>1, <1>2 DEF Idle
  <2> QED BY <1>2, <2>1, <2>2, <2>3 DEF Ordered
<1> QED BY <1>3, <1>4, <1>6, <1>7, <1>8 DEF ProgressOK, UserOK

LEMMA SetupRunnerOK ==
  ASSUME VirtualUserTypeOK, NEW u \in Users, UserOK(u), SetupRunner(u)
  PROVE  ProgressOK(u)
<1>1. /\ stage[u] = "new" /\ source[u] \in Scripts /\ turn[u] = Idle
      /\ home[u] = 0 /\ cursor[u]["setup"] = 0 /\ cursor[u]["user"] = 0
  BY DEF SetupRunner, UserOK, Fresh
<1>2. UNCHANGED <<cursor, turn, home>>
  BY DEF SetupRunner
<1>3. DOMAIN source' = Users /\ \A v \in Users \ {u} : source'[v] = source[v]
  BY DEF SetupRunner, VirtualUserTypeOK
<1>4. CASE stage' = [stage EXCEPT ![u] = "rejected"] /\ UNCHANGED specs
  <2>1. /\ stage'[u] = "rejected" /\ \A v \in Users \ {u} : stage'[v] = stage[v]
        /\ VirtualUserTypeOK'
    BY <1>2, <1>3, <1>4 DEF VirtualUserTypeOK
  <2>2. OnlyOf(u)
    BY <1>2, <1>3, <1>4, <2>1 DEF OnlyOf
  <2> QED BY <2>1, <2>2 DEF ProgressOK, UserOK, Shape, Fresh, Ordered, Running
<1>5. CASE LoadError(source[u]) = "ok" /\ stage' = [stage EXCEPT ![u] = "setup"]
  <2>1. PICK setup \in Get(source[u], "setup").returns,
             requests \in Get(source[u], "requests").returns :
          /\ SetupError(setup, requests) = "ok"
          /\ specs' = [specs EXCEPT ![u] = [list \in Lists |->
               ParsedSpecs(IF list = "setup" THEN setup ELSE requests)]]
    BY <1>1, <1>5 DEF SetupRunner, VirtualUserTypeOK
  <2>2. /\ stage'[u] = "setup" /\ \A v \in Users \ {u} : stage'[v] = stage[v]
        /\ stage' \in [Users -> {"new", "rejected", "setup", "user", "failed"}]
    BY <1>5 DEF VirtualUserTypeOK
  <2>3. /\ DOMAIN specs' = Users /\ \A v \in Users \ {u} : specs'[v] = specs[v]
        /\ specs'[u]["setup"] = ParsedSpecs(setup) /\ specs'[u]["user"] = ParsedSpecs(requests)
    BY <2>1 DEF VirtualUserTypeOK, Lists
  <2>4. setup.type = "table" /\ requests.type = "table" /\ Items(requests) # <<>>
    BY <2>1, AcceptedLists
  <2>5. IsArray(setup.items) /\ IsArray(requests.items)
    BY <1>1, <1>5, <2>1, <2>4, AcceptedModule, VirtualUserAssumption
  <2>6. ListsParsed(u)'
    BY <2>3, <2>4, <2>5, ParsedSpecsAreArray DEF ListsParsed, Lists
  <2>7. VirtualUserTypeOK'
    BY <1>2, <1>3, <2>2, <2>3 DEF VirtualUserTypeOK
  <2>8. OnlyOf(u)
    BY <1>2, <1>3, <2>2, <2>3 DEF OnlyOf
  <2>9. Shape(u)'
    BY <1>1, <1>2, <2>6 DEF Shape
  <2>10. Fresh(u)'
    BY <1>1, <1>2, <2>2 DEF Fresh
  <2>11. Ordered(u)'
    <3>1. Len(specs'[u]["setup"]) \in Nat
      BY <2>6, ArrayFacts DEF ListsParsed, Lists
    <3>2. List(u)' = specs'[u]["setup"] /\ Position(u)' = 0
      BY <1>1, <1>2, <2>2 DEF List, Position
    <3>3. turn'[u] = Idle /\ turn'[u].doing = "idle" /\ home'[u] = 0
      BY <1>1, <1>2 DEF Idle
    <3> QED BY <2>2, <3>1, <3>2, <3>3 DEF Ordered
  <2> QED BY <2>7, <2>8, <2>9, <2>10, <2>11 DEF ProgressOK, UserOK
<1> QED
  <2>1. \/ stage' = [stage EXCEPT ![u] = "rejected"] /\ UNCHANGED specs
        \/ LoadError(source[u]) = "ok" /\ stage' = [stage EXCEPT ![u] = "setup"]
    BY DEF SetupRunner
  <2> QED BY <1>4, <1>5, <2>1

-----------------------------------------------------------------------------
(* Setup steps come before any transaction, request steps after the setup. *)
LEMMA SetupStage ==
  ASSUME NEW u \in Users, SetupStep(u) \/ SetupAnswer(u)
  PROVE  stage[u] \in {"new", "setup"}
  BY DEF SetupStep, SetupAnswer, SetupRunner, SetupDone

LEMMA SetupProgress ==
  ASSUME VirtualUserTypeOK, NEW u \in Users, UserOK(u), SetupStep(u) \/ SetupAnswer(u)
  PROVE  ProgressOK(u)
<1>1. CASE SetupRunner(u)
  BY <1>1, SetupRunnerOK
<1>2. CASE SetupDone(u)
  BY <1>2, SetupDoneOK
<1>3. CASE stage[u] = "setup"
  <2>1. Running(u)
    BY <1>3 DEF Running
  <2>2. CASE (NextSpec(u) \/ CallFunction(u) \/ SendRequest(u) \/ Succeeds(u)) /\ UNCHANGED stage
    BY <2>1, <2>2, NextSpecOK, CallFunctionOK, SendRequestOK, SucceedsOK
  <2>3. CASE (Unresolvable(u) \/ UrlFails(u) \/ TimesOut(u) \/ Fails(u)) /\ FailSetup(u)
    BY <2>3, FailSetupOK
  <2>4. \/ SetupRunner(u) \/ SetupDone(u)
        \/ (NextSpec(u) \/ CallFunction(u) \/ SendRequest(u) \/ Succeeds(u)) /\ UNCHANGED stage
        \/ (Unresolvable(u) \/ UrlFails(u) \/ TimesOut(u) \/ Fails(u)) /\ FailSetup(u)
    BY DEF SetupStep, SetupAnswer
  <2> QED BY <1>1, <1>2, <2>2, <2>3, <2>4
<1>4. SetupRunner(u) \/ SetupDone(u) \/ stage[u] = "setup"
  BY DEF SetupStep, SetupAnswer
<1> QED BY <1>1, <1>2, <1>3, <1>4

LEMMA RequestProgress ==
  ASSUME VirtualUserTypeOK, DispatchAfterSetup, PoolInv, \A v \in Users : UserOK(v),
         NEW t \in Tx, RequestStep(t) \/ RequestAnswer(t)
  PROVE  user[t] \in Users /\ ProgressOK(user[t]) /\ UNCHANGED stage /\ PoolReady
<1> DEFINE u == user[t]
<1>1. task[t] \in {"holding", "sent"}
  BY DEF RequestStep, RequestAnswer
<1>2. u \in Users
  BY <1>1 DEF PoolInv, UsersPartitioned, Holding, PoolTypeOK
<1>3. PoolReady
  BY <1>1 DEF DispatchAfterSetup
<1>4. UserOK(u) /\ Running(u)
  BY <1>2, <1>3 DEF PoolReady, Running
<1>5. UNCHANGED stage
  BY DEF RequestStep, RequestAnswer
<1>6. \/ NextSpec(u) \/ CallFunction(u) \/ SendRequest(u) \/ Succeeds(u)
      \/ Unresolvable(u) /\ UNCHANGED cursor
      \/ (UrlFails(u) \/ Fails(u)) /\ Revert(u)
  BY DEF RequestStep, RequestAnswer, TimesOut
<1> HIDE DEF u
<1>7. ProgressOK(u)
  BY <1>2, <1>4, <1>5, <1>6, NextSpecOK, CallFunctionOK, SendRequestOK, SucceedsOK,
     UnresolvableOK, RevertedOK
<1> QED BY <1>2, <1>3, <1>5, <1>7 DEF u

LEMMA VirtualUserStep ==
  VirtualUserInv /\ PoolInv /\ [VirtualUserNext]_vars => VirtualUserInv'
<1> SUFFICES ASSUME VirtualUserInv, PoolInv, [VirtualUserNext]_vars PROVE VirtualUserInv'
  OBVIOUS
<1>1. VirtualUserTypeOK /\ (\A v \in Users : UserOK(v)) /\ DispatchAfterSetup
  BY InvByUser
<1>2. SUFFICES VirtualUserTypeOK' /\ (\A v \in Users : UserOK(v)') /\ DispatchAfterSetup'
  BY DEF VirtualUserInv, UserOK, Shape, Fresh, Ordered, DispatchAfterSetup, RunnersOK,
         SetupFirst, DeclarationOrder
<1>3. ASSUME NEW u \in Users, ProgressOK(u)
      PROVE  VirtualUserTypeOK' /\ \A v \in Users : UserOK(v)'
  BY <1>1, <1>3, OthersStayOK DEF ProgressOK
<1>4. ASSUME UNCHANGED vuVars
      PROVE  VirtualUserTypeOK' /\ \A v \in Users : UserOK(v)'
  <2>1. VirtualUserTypeOK'
    BY <1>1, <1>4 DEF vuVars, VirtualUserTypeOK
  <2>2. \A v \in Users : UserOK(v)'
    BY <1>1, <1>4 DEF vuVars, UserOK, Shape, Fresh, Ordered, Running, ListsParsed, TurnAt, List,
       Position, Home, After
  <2> QED BY <2>1, <2>2
<1>5. ASSUME NEW u \in Users, SetupStep(u) \/ SetupAnswer(u)
      PROVE  DispatchAfterSetup'
  <2>1. stage[u] # "user"
    BY <1>5, SetupStage
  <2>2. \A t \in Tx : task[t] = "new"
    BY <1>1, <2>1 DEF DispatchAfterSetup, PoolReady
  <2>3. task' = task
    BY <1>5 DEF SetupStep, SetupAnswer, poolVars
  <2> QED BY <2>2, <2>3 DEF DispatchAfterSetup
<1>6. ASSUME PoolReady, UNCHANGED stage
      PROVE  DispatchAfterSetup'
  BY <1>6 DEF PoolReady, DispatchAfterSetup
<1>7. ASSUME NEW u \in Users, SetupStep(u) \/ SetupAnswer(u)
      PROVE  VirtualUserTypeOK' /\ (\A v \in Users : UserOK(v)') /\ DispatchAfterSetup'
  BY <1>1, <1>3, <1>5, <1>7, SetupProgress
<1>8. ASSUME NEW t \in Tx, RequestStep(t) \/ RequestAnswer(t)
      PROVE  VirtualUserTypeOK' /\ (\A v \in Users : UserOK(v)') /\ DispatchAfterSetup'
  BY <1>1, <1>3, <1>6, <1>8, RequestProgress
<1>9. ASSUME NEW t \in Tx,
             DispatchNext(t) \/ ((DeadlinePasses(t) \/ PoolStep(t)) /\ UNCHANGED vuVars)
      PROVE  VirtualUserTypeOK' /\ (\A v \in Users : UserOK(v)') /\ DispatchAfterSetup'
  <2>1. UNCHANGED vuVars
    BY <1>9 DEF DispatchNext
  <2>2. PoolReady
    <3>1. CASE DispatchNext(t)
      BY <3>1 DEF DispatchNext
    <3>2. CASE DeadlinePasses(t) \/ PoolStep(t)
      <4>1. task[t] # "new"
        BY <3>2 DEF DeadlinePasses, PoolStep, AcquireOnTime, CheckStart, TryAcquire, Acquire,
           PollGranted, Elapse, GiveUp, TakeUser, CheckInTime, PushUser, ReleasePermit, LogResult
      <4> QED BY <1>1, <4>1 DEF DispatchAfterSetup
    <3> QED BY <1>9, <3>1, <3>2
  <2>3. UNCHANGED stage
    BY <2>1 DEF vuVars
  <2> QED BY <1>4, <1>6, <2>1, <2>2, <2>3
<1>10. CASE UNCHANGED vars
  <2>1. UNCHANGED vuVars /\ task' = task
    BY <1>10 DEF vars, poolVars
  <2>2. DispatchAfterSetup'
    BY <1>1, <2>1 DEF DispatchAfterSetup, PoolReady, vuVars
  <2> QED BY <1>4, <2>1, <2>2
<1> QED BY <1>7, <1>8, <1>9, <1>10 DEF VirtualUserNext, TaskStep

(* Requests go out in the order of the script, with failed ones repeated,  *)
(* also after jumps, and no cursor leaves its list, whatever the scripts   *)
(* do, however many users and transactions there are (user.rs:117-162,     *)
(* script/runner/mod.rs:117-246).                                          *)
THEOREM VirtualUserInvariance == VirtualUserSpec => []VirtualUserInv
<1>1. VirtualUserInit => VirtualUserInv
  <2> SUFFICES ASSUME VirtualUserInit PROVE VirtualUserInv
    OBVIOUS
  <2>1. VirtualUserTypeOK
    BY DEF VirtualUserInit, VirtualUserTypeOK
  <2>2. \A u \in Users : UserOK(u)
    BY DEF VirtualUserInit, UserOK, Shape, Fresh, Ordered, Running, Lists
  <2>3. DispatchAfterSetup
    BY DEF VirtualUserInit, Init, DispatchAfterSetup
  <2> QED BY <2>1, <2>2, <2>3, InvByUser
<1> QED BY <1>1, VirtualUserStep, PoolOfUsers, PTL DEF VirtualUserSpec

-----------------------------------------------------------------------------
(* What passes the parser is a script, and a script passes it: check by    *)
(* check, the parser agrees with the documentation.                        *)
LEMMA FirstErrorMeaning ==
  ASSUME NEW n \in Nat, NEW checks, DOMAIN checks = 1 .. n
  PROVE  FirstError(checks) = "ok" <=> \A i \in 1 .. n : checks[i] = "ok"
<1>1. ASSUME \A i \in 1 .. n : checks[i] = "ok" PROVE FirstError(checks) = "ok"
  BY <1>1 DEF FirstError
<1> QED BY <1>1, NoFirstError

LEMMA RequiredStringMeaning ==
  ASSUME NEW table, NEW field
  PROVE  RequiredStringError(table, field) = "ok" <=> Text(table, field)
<1> DEFINE value == Get(table, field)
<1> HIDE DEF value
<1> QED BY DEF RequiredStringError, Text, value

LEMMA MethodMeaning ==
  ASSUME NEW table
  PROVE  MethodError(table) = "ok" <=>
           Text(table, "method") /\ Get(table, "method").text \in Methods
  BY RequiredStringMeaning DEF MethodError

LEMMA StringMapMeaning ==
  ASSUME NEW table, NEW field
  PROVE  StringMapError(table, field) = "ok" <=> StringMap(table, field)
<1> DEFINE map == Get(table, field)
           Accepted(t) ==
             /\ \A key \in DOMAIN t.fields : t.fields[key] = Nil \/ IsScalar(t.fields[key])
             /\ \A i \in DOMAIN t.items : t.items[i] = Nil \/ IsScalar(t.items[i])
             /\ \A pair \in t.pairs : pair[1].type \in {"integer", "number"}
                                    /\ (pair[2] = Nil \/ IsScalar(pair[2]))
<1>1. StringMap(table, field) <=> map.type = "nil" \/ (map.type = "table" /\ Accepted(map))
  BY DEF StringMap, Absent
<1> HIDE DEF map
<1>2. ASSUME NEW t
      PROVE  KeysAreText(t) /\ (\A v \in PairValues(t) : Coercible(v)) <=> Accepted(t)
  <2>1. \A v : Coercible(v) <=> IsScalar(v)
    BY DEF Coercible, IsScalar
  <2>2. (\A v \in PairValues(t) : Coercible(v)) <=>
          /\ \A key \in DOMAIN t.fields : t.fields[key] = Nil \/ IsScalar(t.fields[key])
          /\ \A i \in DOMAIN t.items : t.items[i] = Nil \/ IsScalar(t.items[i])
          /\ \A pair \in t.pairs : pair[2] = Nil \/ IsScalar(pair[2])
    <3>1. \A v : v \in PairValues(t) <=>
            /\ v # Nil
            /\ \/ \E key \in DOMAIN t.fields : v = t.fields[key]
               \/ \E i \in DOMAIN t.items : v = t.items[i]
               \/ \E pair \in t.pairs : v = pair[2]
      BY DEF PairValues
    <3> QED BY <2>1, <3>1, Zenon
  <2> QED BY <2>2 DEF KeysAreText
<1> HIDE DEF Accepted
<1>3. StringMapError(table, field) = "ok" <=>
        map.type = "nil" \/ (map.type = "table" /\ Accepted(map))
  BY <1>2 DEF StringMapError, map
<1> QED BY <1>1, <1>3

(* Items of a list end at its first hole.                                  *)
LEMMA MinIsLeast ==
  ASSUME NEW S \in SUBSET Nat, S # {}
  PROVE  Min(S) \in S /\ \A i \in S : Min(S) <= i
  BY LeastOfNats DEF Min

LEMMA ItemsMeaning ==
  ASSUME NEW list, IsArray(list.items)
  PROVE  \E k \in 0 .. Len(list.items) :
           /\ DOMAIN Items(list) = 1 .. k
           /\ \A i \in 1 .. k : Items(list)[i] = list.items[i]
           /\ \A i \in 1 .. Len(list.items) :
                i <= k <=> \A j \in 1 .. i : list.items[j] # Nil
<1> DEFINE s == list.items
           holes == {i \in DOMAIN list.items : list.items[i] = Nil}
<1>1. Len(s) \in Nat /\ DOMAIN s = 1 .. Len(s)
  BY ArrayFacts
<1>2. CASE holes = {}
  <2>1. Items(list) = s
    BY <1>2 DEF Items
  <2>2. \A i \in 1 .. Len(s) : s[i] # Nil
    BY <1>1, <1>2
  <2> HIDE DEF holes
  <2>3. \A i \in 1 .. Len(s) : i <= Len(s) /\ \A j \in 1 .. i : s[j] # Nil
    BY <1>1, <2>2
  <2>4. Len(s) \in 0 .. Len(s)
    BY <1>1
  <2> WITNESS Len(list.items) \in 0 .. Len(list.items)
  <2> QED BY <1>1, <2>1, <2>3
<1>3. CASE holes # {}
  <2> DEFINE k == Min(holes) - 1
  <2>1. Min(holes) \in holes /\ \A i \in holes : Min(holes) <= i
    <3>1. holes \in SUBSET Nat
      BY <1>1
    <3> HIDE DEF holes
    <3> QED BY <1>3, <3>1, MinIsLeast
  <2>2. Min(holes) \in 1 .. Len(s) /\ s[Min(holes)] = Nil
    BY <1>1, <2>1
  <2>3. \A i \in 1 .. Len(s) : s[i] = Nil => Min(holes) <= i
    BY <1>1, <2>1
  <2>4. Items(list) = SubSeq(s, 1, k)
    BY <1>3 DEF Items
  <2> HIDE DEF holes
  <2>5. k \in 0 .. Len(s)
    BY <1>1, <2>2
  <2>6. DOMAIN Items(list) = 1 .. k /\ \A i \in 1 .. k : Items(list)[i] = s[i]
    <3>1. s \in Seq({s[j] : j \in 1 .. Len(s)})
      BY DEF IsArray
    <3>2. SubSeq(s, 1, k) = [i \in 1 .. k |-> s[i]]
      <4> HIDE DEF s, k
      <4>1. k - 1 + 1 = k
        BY <1>1, <2>5
      <4>2. \A i \in 1 .. k : i + 1 - 1 = i
        BY <1>1, <2>5
      <4>3. SubSeq(s, 1, k) = [i \in 1 .. (1 + k - 1) |-> s[i + 1 - 1]]
        BY <1>1, <2>5
      <4> QED BY <4>3, <1>1, <2>5
    <3> HIDE DEF s, k
    <3> QED BY <2>4, <3>2
  <2>7. \A i \in 1 .. Len(s) : i <= k <=> \A j \in 1 .. i : s[j] # Nil
    <3> TAKE i \in 1 .. Len(s)
    <3>1. ASSUME i <= k, NEW j \in 1 .. i PROVE s[j] # Nil
      BY <1>1, <2>2, <2>3, <3>1
    <3>2. ASSUME ~(i <= k) PROVE Min(holes) \in 1 .. i
      BY <1>1, <2>2, <3>2
    <3> QED BY <2>2, <3>1, <3>2
  <2> HIDE DEF k
  <2> QED BY <2>5, <2>6, <2>7
<1> QED BY <1>2, <1>3

(* The values in a body are the ones the documentation speaks of.          *)
LEMMA MembersMeaning ==
  ASSUME NEW value
  PROVE  Parts(value) = Members(value)
<1>1. CASE value.type = "table" /\ IsSequence(value)
  <2>1. PICK k \in 0 .. Len(value.items) :
          /\ DOMAIN Items(value) = 1 .. k
          /\ \A i \in 1 .. k : Items(value)[i] = value.items[i]
          /\ \A i \in 1 .. Len(value.items) :
               i <= k <=> \A j \in 1 .. i : value.items[j] # Nil
    BY <1>1, ItemsMeaning DEF IsSequence
  <2>2. Len(value.items) \in Nat /\ DOMAIN value.items = 1 .. Len(value.items)
    BY <1>1, ArrayFacts DEF IsSequence
  <2>3. {i \in DOMAIN value.items : \A j \in 1 .. i : value.items[j] # Nil} = 1 .. k
    BY <2>1, <2>2
  <2>4. Parts(value) = {Items(value)[i] : i \in 1 .. k}
    BY <1>1, <2>1 DEF Parts
  <2>5. Members(value) = {value.items[i] : i \in 1 .. k}
    BY <1>1, <2>3 DEF Members
  <2> QED BY <2>1, <2>4, <2>5
<1>2. CASE value.type = "table" /\ ~IsSequence(value)
  <2>1. Parts(value) = FieldValues(value)
    BY <1>2 DEF Parts
  <2>2. Members(value) =
          {value.fields[key] : key \in {k \in DOMAIN value.fields : value.fields[k] # Nil}}
    BY <1>2 DEF Members
  <2> QED BY <2>1, <2>2 DEF FieldValues
<1>3. CASE value.type # "table"
  BY <1>3 DEF Parts, Members
<1> QED BY <1>1, <1>2, <1>3

LEMMA SameWithin ==
  ASSUME NEW value
  PROVE  Within(value, Parts) = Within(value, Members)
<1> DEFINE F(f) == [n \in Nat |-> IF n = 0 THEN {value} ELSE UNION {Parts(v) : v \in f[n - 1]}]
           G(f) == [n \in Nat |-> IF n = 0 THEN {value} ELSE UNION {Members(v) : v \in f[n - 1]}]
<1>1. Levels(value, Parts) = CHOOSE f : f = F(f)
  BY DEF Levels
<1>2. Levels(value, Members) = CHOOSE f : f = G(f)
  BY DEF Levels
<1>3. \A f : F(f) = G(f)
  <2> TAKE f
  <2>1. \A n \in Nat : {Parts(v) : v \in f[n - 1]} = {Members(v) : v \in f[n - 1]}
    BY MembersMeaning
  <2> QED BY <2>1
<1> HIDE DEF F, G
<1>4. Levels(value, Parts) = Levels(value, Members)
  BY <1>1, <1>2, <1>3
<1> QED BY <1>4 DEF Within

LEMMA BodyMeaning ==
  ASSUME NEW table
  PROVE  BodyError(table) = "ok" <=> IsJson(Get(table, "body"))
<1> DEFINE values == Within(Get(table, "body"), Parts)
<1>1. values = Within(Get(table, "body"), Members)
  BY SameWithin
<1>2. \A v : Convertible(v) <=>
        \/ v.type = "nil" \/ IsScalar(v)
        \/ v.type = "table" /\ (IsSequence(v) \/ v.pairs = {})
  BY DEF Convertible, IsScalar
<1>3. BodyError(table) = "ok" <=> \A v \in values : Convertible(v)
  BY DEF BodyError
<1>4. IsJson(Get(table, "body")) <=> \A v \in values : Convertible(v)
  <2> HIDE DEF values
  <2> QED BY <1>1, <1>2 DEF IsJson
<1> QED BY <1>3, <1>4

LEMMA ExtractMeaning ==
  ASSUME NEW table
  PROVE  ExtractError(table) = "ok" <=>
           Absent(table, "extract") \/ Get(table, "extract").type = "function"
  BY DEF ExtractError, Absent

LEMMA StaticSpecMeaning ==
  ASSUME NEW table, table.type = "table"
  PROVE  StaticSpecError(table) = "ok" <=> IsRequest(table)
<1> DEFINE checks == <<MethodError(table),
               RequiredStringError(table, "service"), RequiredStringError(table, "path"),
               StringMapError(table, "headers"), StringMapError(table, "query"),
               BodyError(table), ExtractError(table)>>
<1>1. HttpSpecError(table) = "ok" <=> \A i \in 1 .. 7 : checks[i] = "ok"
  <2>1. DOMAIN checks = 1 .. 7
    OBVIOUS
  <2>2. HttpSpecError(table) = FirstError(checks)
    BY DEF HttpSpecError
  <2> HIDE DEF checks
  <2> QED BY <2>1, <2>2, FirstErrorMeaning
<1>2. (\A i \in 1 .. 7 : checks[i] = "ok") <=>
        /\ MethodError(table) = "ok"
        /\ RequiredStringError(table, "service") = "ok" /\ RequiredStringError(table, "path") = "ok"
        /\ StringMapError(table, "headers") = "ok" /\ StringMapError(table, "query") = "ok"
        /\ BodyError(table) = "ok" /\ ExtractError(table) = "ok"
  <2>1. /\ checks[1] = MethodError(table)
        /\ checks[2] = RequiredStringError(table, "service")
        /\ checks[3] = RequiredStringError(table, "path")
        /\ checks[4] = StringMapError(table, "headers")
        /\ checks[5] = StringMapError(table, "query")
        /\ checks[6] = BodyError(table)
        /\ checks[7] = ExtractError(table)
    OBVIOUS
  <2>2. 1 .. 7 = {1, 2, 3, 4, 5, 6, 7}
    OBVIOUS
  <2> HIDE DEF checks
  <2> QED BY <2>1, <2>2
<1> HIDE DEF checks
<1>3. HttpSpecError(table) = "ok" <=>
        /\ Text(table, "method") /\ Get(table, "method").text \in Methods
        /\ Text(table, "service") /\ Text(table, "path")
        /\ StringMap(table, "headers") /\ StringMap(table, "query")
        /\ IsJson(Get(table, "body"))
        /\ Absent(table, "extract") \/ Get(table, "extract").type = "function"
  BY <1>1, <1>2, MethodMeaning, RequiredStringMeaning, StringMapMeaning, BodyMeaning, ExtractMeaning
<1>4. StaticSpecError(table) = "ok" <=>
        /\ Text(table, "protocol") /\ Get(table, "protocol").text = "http"
        /\ HttpSpecError(table) = "ok"
  BY RequiredStringMeaning DEF StaticSpecError
<1>5. IsRequest(table) <=>
        /\ Text(table, "protocol") /\ Get(table, "protocol").text = "http"
        /\ Text(table, "method") /\ Get(table, "method").text \in Methods
        /\ Text(table, "service") /\ Text(table, "path")
        /\ StringMap(table, "headers") /\ StringMap(table, "query")
        /\ IsJson(Get(table, "body"))
        /\ Absent(table, "extract") \/ Get(table, "extract").type = "function"
  BY DEF IsRequest
<1> QED BY <1>3, <1>4, <1>5

LEMMA NamedSpecMeaning ==
  ASSUME NEW spec
  PROVE  NamedSpecError(spec) = "ok" <=> IsRequest(spec) \/ spec.type = "function"
<1>1. CASE spec.type = "table"
  BY <1>1, StaticSpecMeaning DEF NamedSpecError
<1>2. CASE spec.type # "table"
  BY <1>2 DEF NamedSpecError, IsRequest
<1> QED BY <1>1, <1>2

LEMMA SpecMeaning ==
  ASSUME NEW value
  PROVE  SpecError(value) = "ok" <=> IsEntry(value)
<1>1. CASE value.type = "table"
  <2> DEFINE name == Get(value, "name")
             spec == Get(value, "spec")
  <2>1. NameError(value) = "ok" <=> Absent(value, "name") \/ Text(value, "name")
    <3> HIDE DEF name
    <3> QED BY DEF NameError, Absent, Text, name
  <2>2. IsNamed(value) <=> ~Absent(value, "name")
    BY DEF IsNamed, Absent
  <2>3. Absent(value, "name") => ~Text(value, "name")
    BY DEF Absent, Text
  <2>4. SpecError(value) =
          IF NameError(value) # "ok" THEN NameError(value)
          ELSE IF IsNamed(value) THEN NamedSpecError(Get(value, "spec"))
          ELSE StaticSpecError(value)
    BY <1>1 DEF SpecError
  <2>5. IsEntry(value) <=>
          \/ IsRequest(value) /\ Absent(value, "name")
          \/ Text(value, "name") /\ (IsRequest(spec) \/ spec.type = "function")
    BY <1>1 DEF IsEntry
  <2> HIDE DEF spec
  <2> QED BY <1>1, <2>1, <2>2, <2>3, <2>4, <2>5, StaticSpecMeaning, NamedSpecMeaning DEF spec
<1>2. CASE value.type # "table"
  BY <1>2 DEF SpecError, IsEntry, IsRequest
<1> QED BY <1>1, <1>2

LEMMA ListMeaning ==
  ASSUME NEW value, value.type = "table" => IsArray(value.items)
  PROVE  TopLevelError(value) = "ok" <=> IsList(value)
<1>1. CASE value.type = "table"
  <2> DEFINE items == Items(value)
             checks == [i \in DOMAIN Items(value) |-> SpecError(Items(value)[i])]
  <2>1. PICK k \in 0 .. Len(value.items) :
          /\ DOMAIN items = 1 .. k
          /\ \A i \in 1 .. k : items[i] = value.items[i]
          /\ \A i \in 1 .. Len(value.items) :
               i <= k <=> \A j \in 1 .. i : value.items[j] # Nil
    BY <1>1, ItemsMeaning
  <2>2. Len(value.items) \in Nat /\ DOMAIN value.items = 1 .. Len(value.items)
    BY <1>1, ArrayFacts
  <2>3. TopLevelError(value) = FirstError(checks)
    BY <1>1 DEF TopLevelError
  <2>4. k \in Nat /\ DOMAIN checks = 1 .. k /\ \A i \in 1 .. k : checks[i] = SpecError(value.items[i])
    BY <2>1, <2>2
  <2> HIDE DEF checks, items
  <2>5. TopLevelError(value) = "ok" <=> \A i \in 1 .. k : IsEntry(value.items[i])
    BY <2>3, <2>4, FirstErrorMeaning, SpecMeaning
  <2>6. (\A i \in 1 .. k : IsEntry(value.items[i])) <=>
          \A i \in DOMAIN value.items :
            (\A j \in 1 .. i : value.items[j] # Nil) => IsEntry(value.items[i])
    BY <2>1, <2>2
  <2> QED BY <1>1, <2>5, <2>6 DEF IsList
<1>2. CASE value.type # "table"
  BY <1>2 DEF TopLevelError, IsList
<1> QED BY <1>1, <1>2

LEMMA NotEmptyMeaning ==
  ASSUME NEW value, value.type = "table", IsArray(value.items)
  PROVE  EmptyError(value) = "ok" <=> value.items # <<>> /\ value.items[1] # Nil
<1>1. PICK k \in 0 .. Len(value.items) :
        /\ DOMAIN Items(value) = 1 .. k
        /\ \A i \in 1 .. k : Items(value)[i] = value.items[i]
        /\ \A i \in 1 .. Len(value.items) :
             i <= k <=> \A j \in 1 .. i : value.items[j] # Nil
  BY ItemsMeaning
<1>2. /\ Len(value.items) \in Nat
      /\ value.items # <<>> => Len(value.items) > 0
  BY ArrayFacts
<1>3. Len(value.items) > 0 => value.items # <<>>
  <2>1. Len(<<>>) = 0
    OBVIOUS
  <2> QED BY <1>2, <2>1
<1>4. Items(value) # <<>> <=> k > 0
  <2>1. IsArray(Items(value))
    BY ItemsAreArray
  <2>2. /\ Len(Items(value)) \in Nat /\ DOMAIN Items(value) = 1 .. Len(Items(value))
        /\ Items(value) # <<>> => Len(Items(value)) > 0
    BY <2>1, ArrayFacts
  <2>3. Len(Items(value)) = k
    BY <1>1, <1>2, <2>2
  <2>4. Len(<<>>) = 0
    OBVIOUS
  <2> QED BY <2>2, <2>3, <2>4
<1>5. k > 0 <=> Len(value.items) > 0 /\ value.items[1] # Nil
  <2>1. ASSUME Len(value.items) > 0 PROVE 1 <= k <=> value.items[1] # Nil
    <3>1. 1 \in 1 .. Len(value.items)
      BY <1>2, <2>1
    <3> QED BY <1>1, <3>1
  <2> QED BY <1>1, <1>2, <2>1
<1> QED BY <1>2, <1>3, <1>4, <1>5 DEF EmptyError

LEMMA SetupMeaning ==
  ASSUME NEW setup, setup.type = "table" => IsArray(setup.items),
         NEW requests, requests.type = "table" => IsArray(requests.items)
  PROVE  SetupError(setup, requests) = "ok" <=> AreLists(setup, requests)
<1> DEFINE checks == <<TopLevelError(setup), TopLevelError(requests), EmptyError(requests)>>
<1>1. SetupError(setup, requests) = "ok" <=>
        TopLevelError(setup) = "ok" /\ TopLevelError(requests) = "ok" /\ EmptyError(requests) = "ok"
  <2>1. DOMAIN checks = 1 .. 3
    OBVIOUS
  <2>2. SetupError(setup, requests) = "ok" <=> \A i \in 1 .. 3 : checks[i] = "ok"
    BY <2>1, FirstErrorMeaning DEF SetupError
  <2>3. 1 .. 3 = {1, 2, 3}
    OBVIOUS
  <2> QED BY <2>2, <2>3
<1>2. ASSUME IsList(requests)
      PROVE  EmptyError(requests) = "ok" <=> requests.items # <<>> /\ requests.items[1] # Nil
  BY <1>2, NotEmptyMeaning DEF IsList
<1> QED BY <1>1, <1>2, ListMeaning DEF AreLists

LEMMA LoadMeaning ==
  ASSUME NEW module
  PROVE  LoadError(module) = "ok" <=> IsModule(module)
<1> DEFINE checks == <<FunctionError(module, "setup"), FunctionError(module, "requests")>>
<1>1. FirstError(checks) = "ok" <=>
        FunctionError(module, "setup") = "ok" /\ FunctionError(module, "requests") = "ok"
  <2>1. DOMAIN checks = 1 .. 2
    OBVIOUS
  <2>2. FirstError(checks) = "ok" <=> \A i \in 1 .. 2 : checks[i] = "ok"
    BY <2>1, FirstErrorMeaning
  <2>3. 1 .. 2 = {1, 2}
    OBVIOUS
  <2> QED BY <2>2, <2>3
<1>2. \A field \in {"setup", "requests"} :
        FunctionError(module, field) = "ok" <=> Get(module, field).type = "function"
  <2> TAKE field \in {"setup", "requests"}
  <2> DEFINE value == Get(module, field)
  <2> HIDE DEF value
  <2> QED BY DEF FunctionError, value
<1>3. CASE module.type = "table"
  BY <1>1, <1>2, <1>3 DEF LoadError, IsModule
<1>4. CASE module.type # "table"
  BY <1>4 DEF LoadError, IsModule
<1> QED BY <1>3, <1>4

-----------------------------------------------------------------------------
(* Only the runner's setup accepts or rejects a script.                    *)
LEMMA OnlySetupDecides ==
  ASSUME VirtualUserTypeOK, PoolInv, DispatchAfterSetup, \A v \in Users : UserOK(v),
         [VirtualUserNext]_vars, NEW u \in Users, stage[u] = "new", stage'[u] # "new"
  PROVE  SetupRunner(u)
<1>1. ASSUME UNCHANGED stage PROVE FALSE
  BY <1>1
<1>2. PICK v \in Users : SetupStep(v) \/ SetupAnswer(v)
  <2>1. ASSUME NEW t \in Tx,
               DispatchNext(t) \/ (DeadlinePasses(t) /\ UNCHANGED vuVars) \/ TaskStep(t)
                 \/ RequestAnswer(t)
        PROVE  UNCHANGED stage
    BY <2>1 DEF DispatchNext, TaskStep, RequestAnswer, RequestStep, vuVars
  <2>2. CASE UNCHANGED vars
    BY <2>2 DEF vars, vuVars
  <2> QED BY <1>1, <2>1, <2>2 DEF VirtualUserNext
<1>3. ASSUME v # u PROVE FALSE
  <2>1. ProgressOK(v)
    BY <1>2, SetupProgress
  <2>2. stage'[u] = stage[u]
    BY <1>2, <1>3 DEF SetupStep, SetupAnswer, SetupRunner, SetupDone, FailSetup, VirtualUserTypeOK
  <2> QED BY <2>2
<1>4. SetupStep(u) \/ SetupAnswer(u)
  BY <1>2, <1>3
<1> QED BY <1>4 DEF SetupStep, SetupAnswer, SetupDone

(* A fault in a script is found before the load test, whatever else is in  *)
(* it, and a script without fault is accepted: for every script, and all   *)
(* its functions may return (loader.rs:21-80, runner/mod.rs:54-115,        *)
(* parser/mod.rs, parser/http/mod.rs).                                     *)
THEOREM FaultsAreFoundAtSetup == VirtualUserSpec => FaultsFoundAtSetup
<1>1. VirtualUserInv /\ PoolInv /\ [VirtualUserNext]_vars =>
        [\A u \in Users : stage[u] = "new" =>
           /\ stage'[u] = "setup" =>
                /\ IsModule(source[u])
                /\ \E setup \in SetupReturns(source[u]), requests \in RequestsReturns(source[u]) :
                     AreLists(setup, requests)
           /\ stage'[u] = "rejected" /\ IsModule(source[u]) =>
                \E setup \in SetupReturns(source[u]), requests \in RequestsReturns(source[u]) :
                  ~AreLists(setup, requests)]_vars
  <2> SUFFICES ASSUME VirtualUserInv, PoolInv, [VirtualUserNext]_vars,
                      NEW u \in Users, stage[u] = "new"
               PROVE  /\ stage'[u] = "setup" =>
                           /\ IsModule(source[u])
                           /\ \E setup \in SetupReturns(source[u]),
                                 requests \in RequestsReturns(source[u]) : AreLists(setup, requests)
                      /\ stage'[u] = "rejected" /\ IsModule(source[u]) =>
                           \E setup \in SetupReturns(source[u]),
                              requests \in RequestsReturns(source[u]) : ~AreLists(setup, requests)
    OBVIOUS
  <2>1. VirtualUserTypeOK /\ (\A v \in Users : UserOK(v)) /\ DispatchAfterSetup
    BY InvByUser
  <2>2. source[u] \in Scripts
    BY <2>1 DEF UserOK, Fresh
  <2>3. SUFFICES ASSUME stage'[u] # "new"
        PROVE  /\ stage'[u] = "setup" =>
                    /\ IsModule(source[u])
                    /\ \E setup \in SetupReturns(source[u]),
                          requests \in RequestsReturns(source[u]) : AreLists(setup, requests)
               /\ stage'[u] = "rejected" /\ IsModule(source[u]) =>
                    \E setup \in SetupReturns(source[u]),
                       requests \in RequestsReturns(source[u]) : ~AreLists(setup, requests)
    OBVIOUS
  <2>4. SetupRunner(u)
    BY <2>1, <2>3, OnlySetupDecides
  <2>5. ASSUME IsModule(source[u])
        PROVE  \A setup \in SetupReturns(source[u]), requests \in RequestsReturns(source[u]) :
                 SetupError(setup, requests) = "ok" <=> AreLists(setup, requests)
    <3>1. \A function \in {"setup", "requests"} :
            \A list \in Get(source[u], function).returns : list.type = "table" => IsArray(list.items)
      BY <2>2, <2>5, VirtualUserAssumption DEF IsModule
    <3> QED BY <3>1, SetupMeaning DEF SetupReturns, RequestsReturns
  <2>6. CASE LoadError(source[u]) # "ok"
    <3>1. stage'[u] = "rejected" /\ ~IsModule(source[u])
      BY <2>1, <2>4, <2>6, LoadMeaning DEF SetupRunner, VirtualUserTypeOK
    <3> QED BY <3>1
  <2>7. CASE LoadError(source[u]) = "ok"
    <3>1. IsModule(source[u])
      BY <2>7, LoadMeaning
    <3>2. PICK setup \in SetupReturns(source[u]), requests \in RequestsReturns(source[u]) :
            IF SetupError(setup, requests) = "ok"
            THEN stage' = [stage EXCEPT ![u] = "setup"]
            ELSE stage' = [stage EXCEPT ![u] = "rejected"]
      BY <2>4, <2>7 DEF SetupRunner, SetupReturns, RequestsReturns
    <3>3. IF AreLists(setup, requests) THEN stage'[u] = "setup" ELSE stage'[u] = "rejected"
      BY <2>1, <2>5, <3>1, <3>2 DEF VirtualUserTypeOK
    <3> QED BY <3>1, <3>3
  <2> QED BY <2>6, <2>7
<1> QED BY <1>1, VirtualUserInvariance, PoolOfUsers, PTL DEF VirtualUserSpec, FaultsFoundAtSetup
-----------------------------------------------------------------------------
(* HTTP exchanges, for whatever session, request, services and answer.     *)
LEMMA ReceivedMeaning ==
  ASSUME NEW server
  PROVE  /\ ~Whole(server) => Received(server).result \in {server.sending, server.reading} \ {"ok"}
         /\ Whole(server) => /\ Received(server).result = "ok"
                            /\ Received(server).status = server.status
<1>1. CASE server.sending # "ok"
  <2>1. Received(server) = [result |-> server.sending]
    BY <1>1, Zenon DEF Received
  <2> QED BY <1>1, <2>1 DEF Whole
<1>2. CASE server.sending = "ok" /\ server.reading # "ok"
  <2>1. Received(server) = [result |-> server.reading]
    BY <1>2, Zenon DEF Received
  <2> QED BY <1>2, <2>1 DEF Whole
<1>3. CASE Whole(server)
  <2>1. Received(server) = [result |-> "ok", status |-> server.status, body |-> server.body,
                            headers |-> SelectSeq(server.headers, IsText)]
    BY <1>3, Zenon DEF Received, Whole
  <2> QED BY <1>3, <2>1
<1> QED BY <1>1, <1>2, <1>3 DEF Whole

LEMMA UrlErrors ==
  ASSUME NEW spec, NEW registry
  PROVE  UrlError(spec, registry) \in {"ServiceNotFound", "InvalidUrl", "ok"}
<1>1. CASE spec.service \notin DOMAIN registry
  BY <1>1, Zenon DEF UrlError
<1>2. CASE spec.service \in DOMAIN registry /\ ~registry[spec.service].valid
  BY <1>2, Zenon DEF UrlError
<1>3. CASE spec.service \in DOMAIN registry /\ registry[spec.service].valid
  BY <1>3, Zenon DEF UrlError
<1> QED BY <1>1, <1>2, <1>3

LEMMA ExecuteMeaning ==
  ASSUME NEW session, NEW spec, NEW registry, NEW server
  PROVE  LET first    == Execute(session, spec, registry, server)
             response == Received(server)
             url      == ResolveUrl(spec, registry)
         IN \/ /\ first.result \in {"ServiceNotFound", "InvalidUrl"}
               /\ first.sent = <<>> /\ ~first.timed /\ first.session = session
            \/ /\ first.result = Outcome(spec, response)
               /\ first.sent # <<>> /\ first.timed
               /\ first.session = SessionAfter(session, spec, url, response)
<1> DEFINE error == UrlError(spec, registry)
<1>1. error \in {"ServiceNotFound", "InvalidUrl", "ok"}
  BY UrlErrors
<1>2. Execute(session, spec, registry, server) =
        IF error # "ok" THEN NotSent(session, error)
        ELSE Exchanged(session, spec, ResolveUrl(spec, registry), server)
  BY DEF Execute
<1> HIDE DEF error
<1>3. CASE error # "ok"
  BY <1>1, <1>2, <1>3 DEF NotSent
<1>4. CASE error = "ok"
  BY <1>2, <1>4 DEF Exchanged
<1> QED BY <1>3, <1>4

(* A request that got no whole answer leaves no trace, whatever had        *)
(* arrived of it: HttpExecutor::execute.                                   *)
THEOREM NoAnswerLeavesNoTrace ==
  ASSUME NEW session, NEW spec, NEW registry, NEW server
  PROVE  NoAnswerNoTrace(session, spec, registry, server)
<1> DEFINE first == Execute(session, spec, registry, server)
<1>1. SUFFICES ASSUME ~Whole(server)
               PROVE  first.session = session
  <2>1. first.session = session => Execute(first.session, spec, registry, server) = first
    OBVIOUS
  <2> QED BY <2>1 DEF NoAnswerNoTrace
<1>2. Received(server).result # "ok"
  BY <1>1, ReceivedMeaning
<1>3. SessionAfter(session, spec, ResolveUrl(spec, registry), Received(server)) = session
  BY <1>2 DEF SessionAfter
<1> QED BY <1>3, ExecuteMeaning

(* What the answers of a server and the requests for them may be.          *)
IsAnswer(server) ==
  /\ server.sending \in {"ok", "timeout", "failed"}
  /\ server.reading \in {"ok", "timeout", "failed"}
  /\ server.status \in Nat

LEMMA OutcomeMeaning ==
  ASSUME NEW spec, NEW server, IsAnswer(server)
  PROVE  LET response == Received(server)
             outcome  == Outcome(spec, response)
         IN /\ outcome \in {"Timeout", "Failed", "Status", "Extract", "ok"}
            /\ outcome = "Timeout" => ~Whole(server)
            /\ outcome = "ok" <=> /\ Whole(server) /\ server.status < 400
                                  /\ ~ExtractRaises(spec, response)
<1> DEFINE response == Received(server)
<1>1. CASE ~Whole(server)
  <2>1. response.result \in {"timeout", "failed"}
    BY <1>1, ReceivedMeaning DEF IsAnswer
  <2> HIDE DEF response
  <2>2. CASE response.result = "timeout"
    <3>1. Outcome(spec, response) = "Timeout"
      BY <2>2, Zenon DEF Outcome
    <3> QED BY <3>1, <1>1 DEF response
  <2>3. CASE response.result = "failed"
    <3>1. response.result # "timeout"
      BY <2>3
    <3>2. Outcome(spec, response) = "Failed"
      BY <2>3, <3>1, Zenon DEF Outcome
    <3> QED BY <3>2, <1>1 DEF response
  <2> QED BY <2>1, <2>2, <2>3
<1>2. CASE Whole(server)
  <2>1. response.result = "ok" /\ response.status = server.status
    BY <1>2, ReceivedMeaning
  <2>2. response.result # "timeout" /\ response.result # "failed"
    BY <2>1
  <2>3. server.status >= 400 <=> ~(server.status < 400)
    BY DEF IsAnswer
  <2> HIDE DEF response
  <2>4. CASE server.status >= 400
    <3>1. Outcome(spec, response) = "Status"
      BY <2>1, <2>2, <2>4, Zenon DEF Outcome
    <3> QED BY <3>1, <2>3, <2>4 DEF response
  <2>5. CASE ~(server.status >= 400)
    <3>1. Outcome(spec, response) = IF ExtractRaises(spec, response) THEN "Extract" ELSE "ok"
      BY <2>1, <2>2, <2>5, Zenon DEF Outcome
    <3>2. Outcome(spec, response) = "ok" <=> ~ExtractRaises(spec, response)
      BY <3>1
    <3>3. Outcome(spec, response) \in {"Extract", "ok"}
      BY <3>1
    <3> QED BY <3>2, <3>3, <1>2, <2>3, <2>5 DEF response
  <2> QED BY <2>4, <2>5
<1> QED BY <1>1, <1>2

LEMMA TransactionResults ==
  ASSUME NEW exchange,
         exchange.result \in {"ServiceNotFound", "InvalidUrl", "Timeout", "Failed", "Status",
                              "Extract", "ok"}
  PROVE  /\ TransactionResult(exchange) = "Success" <=> exchange.result = "ok"
         /\ TransactionResult(exchange) = "Dropped" <=>
              exchange.result \in {"ServiceNotFound", "InvalidUrl"}
<1>1. CASE exchange.result = "ok"
  <2>1. TransactionResult(exchange) = "Success"
    BY <1>1, Zenon DEF TransactionResult
  <2> QED BY <1>1, <2>1
<1>2. CASE exchange.result = "Timeout"
  <2>1. exchange.result # "ok"
    BY <1>2
  <2>2. TransactionResult(exchange) = "Timeout"
    BY <1>2, <2>1, Zenon DEF TransactionResult
  <2> QED BY <1>2, <2>2
<1>3. CASE exchange.result \in {"Failed", "Status", "Extract"}
  <2>1. exchange.result # "ok" /\ exchange.result # "Timeout"
    BY <1>3
  <2>2. TransactionResult(exchange) = "Failed"
    BY <1>3, <2>1, Zenon DEF TransactionResult
  <2> QED BY <1>3, <2>2
<1>4. CASE exchange.result \in {"ServiceNotFound", "InvalidUrl"}
  <2>1. /\ exchange.result # "ok" /\ exchange.result # "Timeout"
        /\ exchange.result \notin {"Failed", "Status", "Extract"}
    BY <1>4
  <2>2. TransactionResult(exchange) = "Dropped"
    BY <2>1, Zenon DEF TransactionResult
  <2> QED BY <1>4, <2>2
<1> QED BY <1>1, <1>2, <1>3, <1>4

LEMMA StoreKeeps ==
  ASSUME NEW store, NEW name, NEW value
  PROVE  StoreGet(StoreSet(store, name, value), name) = value
  BY DEF StoreGet, StoreSet

(* A transaction counts as a success exactly if its answer was whole, its  *)
(* status below 400 and its extract function found what it insists on: the *)
(* executor and TransactionResult.                                         *)
THEOREM SuccessIsAnExtractedAnswer ==
  ASSUME NEW session, NEW spec, NEW registry, NEW server, IsAnswer(server),
         spec.extract # <<>> => spec.extract[1].insists \in BOOLEAN
  PROVE  SuccessMeansExtracted(session, spec, registry, server)
<1> DEFINE first    == Execute(session, spec, registry, server)
           response == Received(server)
           url      == ResolveUrl(spec, registry)
           found    == spec.extract # <<>> /\ spec.extract[1].insists =>
                         StoreGet(first.session.store, spec.extract[1].key) # <<>>
<1>1. CASE /\ first.result \in {"ServiceNotFound", "InvalidUrl"}
           /\ first.sent = <<>> /\ ~first.timed
  <2>1. TransactionResult(first) = "Dropped"
    <3> HIDE DEF first
    <3> QED BY <1>1, TransactionResults
  <2> HIDE DEF first
  <2> QED BY <1>1, <2>1 DEF SuccessMeansExtracted, first
<1>2. CASE /\ first.result = Outcome(spec, response)
           /\ first.sent # <<>> /\ first.timed
           /\ first.session = SessionAfter(session, spec, url, response)
  <2>1. /\ first.result \in {"Timeout", "Failed", "Status", "Extract", "ok"}
        /\ first.result = "ok" <=> /\ Whole(server) /\ server.status < 400
                                   /\ ~ExtractRaises(spec, response)
    BY <1>2, OutcomeMeaning
  <2>2. /\ TransactionResult(first) = "Success" <=> first.result = "ok"
        /\ TransactionResult(first) # "Dropped"
    <3> HIDE DEF first
    <3> QED BY <2>1, TransactionResults
  <2>3. ASSUME Whole(server), server.status < 400
        PROVE  ~ExtractRaises(spec, response) <=> found
    <3>1. response.result = "ok" /\ response.status = server.status
      BY <2>3, ReceivedMeaning
    <3>2. ~(server.status >= 400)
      BY <2>3 DEF IsAnswer
    <3>3. first.session.store = ExtractStores(spec, session.store, response)
      <4> HIDE DEF response, first, url
      <4> QED BY <1>2, <3>1, <3>2 DEF SessionAfter
    <3>4. spec.extract # <<>> =>
            StoreGet(first.session.store, spec.extract[1].key) = Extracted(spec.extract[1], response)
      <4> HIDE DEF response, first
      <4> QED BY <3>3, StoreKeeps DEF ExtractStores
    <3> HIDE DEF response, first
    <3> QED BY <3>4 DEF ExtractRaises
  <2> HIDE DEF first
  <2> QED BY <1>2, <2>1, <2>2, <2>3 DEF SuccessMeansExtracted, first
<1> QED BY <1>1, <1>2, ExecuteMeaning

-----------------------------------------------------------------------------
(* The cookies of an answer, one header after the other, as FoldLeft takes *)
(* them: by a recursive function on the sets of their positions.  It       *)
(* exists, as there would be a smallest set of positions for which it does *)
(* not.                                                                    *)
JarAfter(jar, header, url) ==
  IF header.name = "set-cookie" THEN StoreCookie(jar, header.value, url) ELSE jar

Stores(g, jar, headers, url, S) ==
  g = [s \in SUBSET S |-> IF s = {} THEN jar
                          ELSE JarAfter(g[s \ {Max(s)}], headers[Max(s)], url)]

LEMMA StoreIsFold ==
  ASSUME NEW jar, NEW headers, NEW url
  PROVE  StoreCookies(jar, headers, url) =
           (CHOOSE g : Stores(g, jar, headers, url, DOMAIN headers))[DOMAIN headers]
  BY DEF StoreCookies, FoldLeft, MapThenFoldSet, JarAfter, Stores

LEMMA SmallestSet ==
  ASSUME NEW n \in Nat
  PROVE  \A Bad \in SUBSET SUBSET (1 .. n) :
           Bad # {} => \E T \in Bad : \A U \in Bad : ~(U \subseteq T /\ U # T)
<1> SUFFICES ASSUME NEW Bad \in SUBSET SUBSET (1 .. n), Bad # {}
             PROVE  \E T \in Bad : \A U \in Bad : ~(U \subseteq T /\ U # T)
  OBVIOUS
<1> DEFINE S == 1 .. n
<1>1. IsWellFoundedOn(StrictSubsetOrdering(S), FiniteSubsetsOf(S))
  BY FS_StrictSubsetOrderingWellFounded
<1>2. Bad \subseteq FiniteSubsetsOf(S)
  <2> SUFFICES ASSUME NEW U \in Bad PROVE U \in SUBSET S /\ IsFiniteSet(U)
    BY DEF FiniteSubsetsOf
  <2>1. U \subseteq S
    OBVIOUS
  <2>2. IsFiniteSet(S)
    BY FS_Interval
  <2> HIDE DEF S
  <2> QED BY <2>1, <2>2, FS_Subset
<1>3. \A U \in Bad : U \in SUBSET S
  OBVIOUS
<1> HIDE DEF S
<1>4. \E T \in Bad : \A U \in Bad : ~(<<U, T>> \in StrictSubsetOrdering(S))
  BY <1>1, <1>2, WFMin, Zenon
<1>5. PICK T \in Bad : \A U \in Bad : ~(<<U, T>> \in StrictSubsetOrdering(S))
  BY <1>4
<1>6. \A U \in Bad : ~(U \subseteq T /\ U # T)
  BY <1>3, <1>5 DEF StrictSubsetOrdering
<1> QED
  BY <1>6

LEMMA MaxIsGreatest ==
  ASSUME NEW n \in Nat, NEW S \in SUBSET (1 .. n), S # {}
  PROVE  /\ Max(S) \in S
         /\ \A i \in S : i <= Max(S)
<1>1. \E m \in S : \A i \in S : m >= i
  BY GreatestOfBounded
<1>2. Max(S) \in S /\ \A i \in S : Max(S) >= i
  BY <1>1 DEF Max
<1> QED BY <1>2

LEMMA StoresAt ==
  ASSUME NEW jar, NEW headers, NEW url, NEW S, NEW g, Stores(g, jar, headers, url, S),
         NEW T \in SUBSET S
  PROVE  g[T] = IF T = {} THEN jar ELSE JarAfter(g[T \ {Max(T)}], headers[Max(T)], url)
  BY DEF Stores

Agree(jar, headers, url, Positions) ==
  \A R \in Positions : \A S \in SUBSET R : \A g, h :
    Stores(g, jar, headers, url, S) /\ Stores(h, jar, headers, url, R) =>
      \A T \in SUBSET S : g[T] = h[T]

LEMMA StoresAgree ==
  ASSUME NEW jar, NEW headers, NEW url, NEW n \in Nat
  PROVE  Agree(jar, headers, url, SUBSET (1 .. n))
<1> USE DEF Agree
<1> TAKE R \in SUBSET (1 .. n)
<1> TAKE S \in SUBSET R
<1> TAKE g, h
<1> HAVE Stores(g, jar, headers, url, S) /\ Stores(h, jar, headers, url, R)
<1> DEFINE Bad == {T \in SUBSET S : g[T] # h[T]}
<1>1. SUFFICES ASSUME Bad # {} PROVE FALSE
  OBVIOUS
<1>2. PICK T \in Bad : \A U \in Bad : ~(U \subseteq T /\ U # T)
  <2> DEFINE Sets == SUBSET SUBSET (1 .. n)
  <2>1. Bad \in Sets
    OBVIOUS
  <2>2. \A B \in Sets : B # {} => \E T \in B : \A U \in B : ~(U \subseteq T /\ U # T)
    BY SmallestSet, Zenon
  <2> HIDE DEF Bad, Sets
  <2> QED BY <1>1, <2>1, <2>2, Zenon
<1> DEFINE before == T \ {Max(T)}
<1>3. /\ g[T] = IF T = {} THEN jar ELSE JarAfter(g[before], headers[Max(T)], url)
      /\ h[T] = IF T = {} THEN jar ELSE JarAfter(h[before], headers[Max(T)], url)
  <2>1. T \in SUBSET S /\ T \in SUBSET R
    OBVIOUS
  <2>2. Stores(g, jar, headers, url, S) /\ Stores(h, jar, headers, url, R)
    OBVIOUS
  <2> QED BY ONLY <2>1, <2>2 DEF Stores
<1>4. CASE T = {}
  BY <1>3, <1>4
<1>5. CASE T # {}
  <2>1. Max(T) \in T
    BY <1>5, MaxIsGreatest
  <2>2. before \notin Bad
    BY <1>2, <2>1
  <2>3. g[before] = h[before]
    BY <2>2
  <2> HIDE DEF before
  <2> QED BY <1>3, <1>5, <2>3
<1> QED BY <1>4, <1>5

LEMMA StoresExists ==
  ASSUME NEW jar, NEW headers, NEW url, NEW n \in Nat
  PROVE  \E g : Stores(g, jar, headers, url, 1 .. n)
<1> DEFINE Bad == {T \in SUBSET (1 .. n) : ~\E g : Stores(g, jar, headers, url, T)}
<1>1. SUFFICES ASSUME Bad # {} PROVE FALSE
  <2>1. 1 .. n \in SUBSET (1 .. n)
    OBVIOUS
  <2> QED BY <2>1
<1>2. PICK T \in Bad : \A U \in Bad : ~(U \subseteq T /\ U # T)
  <2> DEFINE Sets == SUBSET SUBSET (1 .. n)
  <2>1. Bad \in Sets
    OBVIOUS
  <2>2. \A B \in Sets : B # {} => \E T \in B : \A U \in B : ~(U \subseteq T /\ U # T)
    BY SmallestSet, Zenon
  <2> HIDE DEF Bad, Sets
  <2> QED BY <1>1, <2>1, <2>2, Zenon
<1> DEFINE G(U) == CHOOSE g : Stores(g, jar, headers, url, U)
           Less(s) == s \ {Max(s)}
           f == [s \in SUBSET T |-> IF s = {} THEN jar
                                    ELSE JarAfter(G(Less(s))[Less(s)], headers[Max(s)], url)]
<1>3. \A U \in SUBSET T : U # T => Stores(G(U), jar, headers, url, U)
  <2> TAKE U \in SUBSET T
  <2> HAVE U # T
  <2>1. \E g : Stores(g, jar, headers, url, U)
    BY <1>2
  <2> QED BY <2>1
<1>4. ASSUME NEW s \in SUBSET T, s # {}
      PROVE  f[Less(s)] = G(Less(s))[Less(s)]
  <2> DEFINE W == Less(s)
             X == Less(W)
  <2>1. Max(s) \in s /\ W \in SUBSET T /\ W # T /\ T \in SUBSET (1 .. n)
    BY <1>4, MaxIsGreatest
  <2>2. Stores(G(W), jar, headers, url, W)
    BY <1>3, <2>1
  <2>3. G(W)[W] = IF W = {} THEN jar ELSE JarAfter(G(W)[X], headers[Max(W)], url)
    <3>1. \A g : Stores(g, jar, headers, url, W) =>
                   g[W] = IF W = {} THEN jar ELSE JarAfter(g[X], headers[Max(W)], url)
      <4>1. W \in SUBSET W /\ X = W \ {Max(W)}
        OBVIOUS
      <4> HIDE DEF W, X
      <4> QED BY <4>1, StoresAt
    <3> HIDE DEF W, X, G
    <3> QED BY <2>2, <3>1
  <2>4. f[W] = IF W = {} THEN jar ELSE JarAfter(G(X)[X], headers[Max(W)], url)
    BY <2>1
  <2>5. ASSUME W # {} PROVE G(X)[X] = G(W)[X]
    <3>1. /\ X \in SUBSET T /\ X # T
          /\ W \in SUBSET (1 .. n) /\ X \in SUBSET W
      BY <2>1
    <3>2. Stores(G(X), jar, headers, url, X)
      BY <1>3, <3>1
    <3>3. X \in SUBSET X
      OBVIOUS
    <3> HIDE DEF G, W, X
    <3>4. \A V \in SUBSET W : \A g, h :
            Stores(g, jar, headers, url, V) /\ Stores(h, jar, headers, url, W) =>
              \A U \in SUBSET V : g[U] = h[U]
      <4> DEFINE Positions == SUBSET (1 .. n)
      <4>1. W \in Positions
        BY <3>1
      <4>2. Agree(jar, headers, url, Positions)
        BY StoresAgree
      <4> HIDE DEF Positions
      <4> QED BY <4>1, <4>2, Zenon DEF Agree
    <3>5. \A U \in SUBSET X : G(X)[U] = G(W)[U]
      BY <2>2, <3>1, <3>2, <3>4, Zenon
    <3> QED BY <3>3, <3>5
  <2> QED BY <2>3, <2>4, <2>5
<1>5. f = [s \in SUBSET T |-> IF s = {} THEN jar
                              ELSE JarAfter(f[s \ {Max(s)}], headers[Max(s)], url)]
  <2>1. ASSUME NEW s \in SUBSET T
        PROVE  f[s] = IF s = {} THEN jar ELSE JarAfter(f[s \ {Max(s)}], headers[Max(s)], url)
    <3>1. f[s] = IF s = {} THEN jar ELSE JarAfter(G(Less(s))[Less(s)], headers[Max(s)], url)
      OBVIOUS
    <3>2. s # {} => f[Less(s)] = G(Less(s))[Less(s)]
      BY <1>4
    <3> HIDE DEF f, G
    <3> QED BY <3>1, <3>2
  <2>2. f = [s \in SUBSET T |-> f[s]]
    OBVIOUS
  <2> HIDE DEF f
  <2> QED BY <2>1, <2>2
<1>6. Stores(f, jar, headers, url, T)
  BY <1>5 DEF Stores
<1> QED BY <1>6

(* What a jar holds under a name for a URL.                                *)
IsJar(jar) == \A key \in DOMAIN jar : key = <<key[1], key[2]>>

LEMMA HeldMeaning ==
  ASSUME NEW jar, IsJar(jar), NEW url, NEW name
  PROVE  Held(jar, url, name) =
           IF <<url.host, name>> \in DOMAIN jar THEN {jar[<<url.host, name>>]} ELSE {}
<1> DEFINE key == <<url.host, name>>
<1>1. \A k \in DOMAIN jar : k[1] = url.host /\ k[2] = name <=> k = key
  BY DEF IsJar
<1>2. \A value : value \in Held(jar, url, name) <=>
        \E k \in DOMAIN jar : k[1] = url.host /\ k[2] = name /\ value = jar[k]
  <2>1. \A c : c \in Cookies(jar, url) <=>
                 \E k \in DOMAIN jar : k[1] = url.host /\ c = <<k[2], jar[k]>>
    BY DEF Cookies
  <2>2. \A value : value \in Held(jar, url, name) <=>
                     \E c \in Cookies(jar, url) : c[1] = name /\ value = c[2]
    BY DEF Held
  <2>3. ASSUME NEW k \in DOMAIN jar, k[1] = url.host, k[2] = name
        PROVE  jar[k] \in Held(jar, url, name)
    <3>1. <<k[2], jar[k]>> \in Cookies(jar, url)
      BY <2>1, <2>3
    <3> QED BY <2>2, <2>3, <3>1
  <2>4. ASSUME NEW value \in Held(jar, url, name)
        PROVE  \E k \in DOMAIN jar : k[1] = url.host /\ k[2] = name /\ value = jar[k]
    <3>1. PICK c \in Cookies(jar, url) : c[1] = name /\ value = c[2]
      BY <2>2
    <3>2. PICK k \in DOMAIN jar : k[1] = url.host /\ c = <<k[2], jar[k]>>
      BY <2>1
    <3> QED BY <3>1, <3>2
  <2> QED BY <2>3, <2>4
<1> HIDE DEF key
<1>3. \A value : value \in Held(jar, url, name) <=> key \in DOMAIN jar /\ value = jar[key]
  BY <1>1, <1>2
<1> QED BY <1>3 DEF key

IsHeader(header) ==
  header.name = "set-cookie" => header.value.set \in {"malformed", "expired", "kept"}

Sets(header, name) ==
  /\ header.name = "set-cookie" /\ header.value.set # "malformed" /\ header.value.name = name

Kept(header) == IF header.value.set = "kept" THEN {header.value.value} ELSE {}

LEMMA JarAfterMeaning ==
  ASSUME NEW jar, IsJar(jar), NEW header, IsHeader(header), NEW url, NEW to, NEW name
  PROVE  /\ IsJar(JarAfter(jar, header, to))
         /\ Held(JarAfter(jar, header, to), url, name) =
              IF Sets(header, name) /\ url.host = to.host THEN Kept(header)
              ELSE Held(jar, url, name)
<1> DEFINE after  == JarAfter(jar, header, to)
           cookie == header.value
           key    == <<to.host, cookie.name>>
           mine   == <<url.host, name>>
<1>1. CASE header.name # "set-cookie"
  BY <1>1 DEF JarAfter, Sets
<1>2. CASE header.name = "set-cookie" /\ cookie.set = "malformed"
  <2>1. after = jar
    <3>1. StoreCookie(jar, cookie, to) = jar
      BY <1>2, Zenon DEF StoreCookie
    <3> QED BY <1>2, <3>1 DEF JarAfter
  <2> HIDE DEF after
  <2> QED BY <1>2, <2>1 DEF Sets, after
<1>3. CASE header.name = "set-cookie" /\ cookie.set = "expired"
  <2>1. after = [k \in DOMAIN jar \ {key} |-> jar[k]]
    <3>1. cookie.set # "malformed"
      BY <1>3
    <3>2. StoreCookie(jar, cookie, to) = [k \in DOMAIN jar \ {key} |-> jar[k]]
      BY <1>3, <3>1, Zenon DEF StoreCookie
    <3> QED BY <1>3, <3>2 DEF JarAfter
  <2>2. IsJar(after)
    BY <2>1 DEF IsJar
  <2>3. Sets(header, name) /\ url.host = to.host <=> mine = key
    BY <1>3 DEF Sets
  <2>4. Kept(header) = {}
    BY <1>3 DEF Kept
  <2>5. /\ mine \in DOMAIN after <=> mine \in DOMAIN jar /\ mine # key
        /\ mine \in DOMAIN after => after[mine] = jar[mine]
    BY <2>1
  <2> HIDE DEF after, mine, key
  <2>6. /\ Held(after, url, name) = IF mine \in DOMAIN after THEN {after[mine]} ELSE {}
        /\ Held(jar, url, name) = IF mine \in DOMAIN jar THEN {jar[mine]} ELSE {}
    BY <2>2, HeldMeaning DEF mine
  <2> QED BY <2>2, <2>3, <2>4, <2>5, <2>6 DEF after
<1>4. CASE header.name = "set-cookie" /\ cookie.set = "kept"
  <2>1. after = [k \in DOMAIN jar \cup {key} |-> IF k = key THEN cookie.value ELSE jar[k]]
    <3>1. cookie.set # "malformed" /\ cookie.set # "expired"
      BY <1>4
    <3>2. StoreCookie(jar, cookie, to) =
            [k \in DOMAIN jar \cup {key} |-> IF k = key THEN cookie.value ELSE jar[k]]
      BY <1>4, <3>1, Zenon DEF StoreCookie
    <3> QED BY <1>4, <3>2 DEF JarAfter
  <2>2. IsJar(after)
    BY <2>1 DEF IsJar
  <2>3. Sets(header, name) /\ url.host = to.host <=> mine = key
    BY <1>4 DEF Sets
  <2>4. Kept(header) = {cookie.value}
    BY <1>4 DEF Kept
  <2>5. /\ mine \in DOMAIN after <=> mine \in DOMAIN jar \/ mine = key
        /\ mine \in DOMAIN after => after[mine] = IF mine = key THEN cookie.value ELSE jar[mine]
    BY <2>1
  <2> HIDE DEF after, mine, key, cookie
  <2>6. /\ Held(after, url, name) = IF mine \in DOMAIN after THEN {after[mine]} ELSE {}
        /\ Held(jar, url, name) = IF mine \in DOMAIN jar THEN {jar[mine]} ELSE {}
    BY <2>2, HeldMeaning DEF mine
  <2> QED BY <2>2, <2>3, <2>4, <2>5, <2>6 DEF after
<1> QED BY <1>1, <1>2, <1>3, <1>4 DEF IsHeader

LastOf(S) == CHOOSE i \in S : \A j \in S : j <= i

LEMMA LastOfMore ==
  ASSUME NEW n \in Nat, NEW S \in SUBSET (1 .. n), NEW m \in S, \A i \in S : i <= m
  PROVE  LastOf(S) = m
<1>1. \A i, j \in Nat : i <= j /\ j <= i => i = j
  OBVIOUS
<1>2. \A i \in S : i \in Nat
  OBVIOUS
<1> QED BY <1>1, <1>2 DEF LastOf

(* After all headers of an answer a jar holds, under a name, what the last *)
(* of those that set this cookie made of it.                               *)
LEMMA CookiesStored ==
  ASSUME NEW jar, IsJar(jar), NEW n \in Nat, NEW headers, DOMAIN headers = 1 .. n,
         \A i \in 1 .. n : IsHeader(headers[i]), NEW to, NEW url, NEW name
  PROVE  LET set == Setting(headers, name)
         IN /\ IsJar(StoreCookies(jar, headers, to))
            /\ Held(StoreCookies(jar, headers, to), url, name) =
                 IF set # {} /\ url.host = to.host THEN Kept(headers[LastOf(set)])
                 ELSE Held(jar, url, name)
<1> DEFINE g       == CHOOSE f : Stores(f, jar, headers, to, DOMAIN headers)
           set     == Setting(headers, name)
           Upto(k) == {i \in set : i <= k}
           Due(s)  == IF s # {} /\ url.host = to.host THEN Kept(headers[LastOf(s)])
                      ELSE Held(jar, url, name)
           P(k)    == IsJar(g[1 .. k]) /\ Held(g[1 .. k], url, name) = Due(Upto(k))
<1>1. Stores(g, jar, headers, to, 1 .. n)
  BY StoresExists
<1>2. StoreCookies(jar, headers, to) = g[1 .. n]
  BY StoreIsFold
<1>3. /\ set \in SUBSET (1 .. n)
      /\ \A i \in 1 .. n : i \in set <=> Sets(headers[i], name)
  BY DEF Setting, Sets
<1> HIDE DEF g, set
<1>4. P(0)
  <2>1. 1 .. 0 = {}
    OBVIOUS
  <2>2. g[1 .. 0] = jar
    BY <1>1, <2>1, StoresAt
  <2>3. Upto(0) = {}
    <3>1. \A i \in set : i \in 1 .. n
      BY <1>3
    <3>2. \A i \in 1 .. n : ~(i <= 0)
      OBVIOUS
    <3> QED BY <3>1, <3>2
  <2> QED BY <2>2, <2>3
<1>5. ASSUME NEW m \in 1 .. n, P(m - 1)
      PROVE  P(m)
  <2> DEFINE header == headers[m]
             before == g[1 .. (m - 1)]
  <2>1. g[1 .. m] = JarAfter(before, header, to)
    <3>1. /\ 1 .. m \in SUBSET (1 .. n) /\ 1 .. m # {}
          /\ m \in 1 .. m /\ \A i \in 1 .. m : i <= m
      <4>1. m \in Nat /\ 1 <= m /\ m <= n
        OBVIOUS
      <4>2. m \in 1 .. m
        BY <4>1
      <4>3. \A i \in 1 .. m : i <= m /\ i \in 1 .. n
        BY <4>1
      <4> QED BY <4>2, <4>3
    <3>2. Max(1 .. m) \in 1 .. m /\ \A i \in 1 .. m : i <= Max(1 .. m)
      BY <3>1, MaxIsGreatest
    <3>3. Max(1 .. m) = m
      <4> DEFINE top == Max(1 .. m)
      <4>1. top \in 1 .. m /\ m <= top
        BY <3>1, <3>2
      <4> HIDE DEF top
      <4>2. top = m
        BY <4>1
      <4> QED BY <4>2 DEF top
    <3>4. (1 .. m) \ {m} = 1 .. (m - 1)
      OBVIOUS
    <3>5. g[1 .. m] = JarAfter(g[(1 .. m) \ {Max(1 .. m)}], headers[Max(1 .. m)], to)
      BY <1>1, <3>1 DEF Stores
    <3> QED BY <3>3, <3>4, <3>5
  <2>2. IsJar(before) /\ Held(before, url, name) = Due(Upto(m - 1))
    BY <1>5
  <2>3. IsHeader(header)
    OBVIOUS
  <2> HIDE DEF before, header
  <2>4. /\ IsJar(JarAfter(before, header, to))
        /\ Held(JarAfter(before, header, to), url, name) =
             IF Sets(header, name) /\ url.host = to.host THEN Kept(header)
             ELSE Held(before, url, name)
    BY <2>2, <2>3, JarAfterMeaning
  <2>5. CASE Sets(header, name)
    <3>1. m \in Upto(m) /\ Upto(m) \in SUBSET (1 .. n) /\ \A i \in Upto(m) : i <= m
      <4>1. m \in set
        BY <1>3, <2>5 DEF header
      <4>2. m <= m
        OBVIOUS
      <4>3. Upto(m) \in SUBSET (1 .. n)
        BY <1>3
      <4> QED BY <4>1, <4>2, <4>3
    <3>2. LastOf(Upto(m)) = m
      <4> HIDE DEF Upto
      <4> QED BY <3>1, LastOfMore
    <3>3. Due(Upto(m)) = IF url.host = to.host THEN Kept(header) ELSE Held(jar, url, name)
      <4> HIDE DEF Upto
      <4> QED BY <3>1, <3>2 DEF header
    <3>4. url.host # to.host => Held(before, url, name) = Held(jar, url, name)
      BY <2>2
    <3> HIDE DEF Due, Upto
    <3> QED BY <2>1, <2>4, <2>5, <3>3, <3>4
  <2>6. CASE ~Sets(header, name)
    <3>1. m \notin set
      BY <1>3, <2>6 DEF header
    <3>2. Upto(m) = Upto(m - 1)
      <4>1. \A i \in set : i \in 1 .. n /\ i # m
        BY <1>3, <3>1
      <4>2. \A i \in 1 .. n : i # m => (i <= m <=> i <= m - 1)
        OBVIOUS
      <4>3. \A i \in set : i <= m <=> i <= m - 1
        BY <4>1, <4>2
      <4> QED BY <4>3
    <3> HIDE DEF Due, Upto
    <3> QED BY <2>1, <2>2, <2>4, <2>6, <3>2
  <2> QED BY <2>5, <2>6
<1>6. P(n)
  <2> HIDE DEF P
  <2> DEFINE Bad == {k \in 0 .. n : ~P(k)}
  <2>1. SUFFICES ASSUME Bad # {} PROVE FALSE
    OBVIOUS
  <2>2. PICK m \in Bad : \A i \in Bad : m <= i
    <3>1. Bad \in SUBSET Nat
      OBVIOUS
    <3> HIDE DEF Bad
    <3> QED BY <2>1, <3>1, LeastOfNats
  <2>3. m \in 0 .. n /\ ~P(m)
    OBVIOUS
  <2>4. m # 0
    BY <1>4, <2>3
  <2>5. m \in 1 .. n /\ m - 1 \in 0 .. n /\ m - 1 < m
    BY <2>3, <2>4
  <2>6. P(m - 1)
    BY <2>2, <2>5
  <2> QED BY <1>5, <2>3, <2>5, <2>6
<1>7. Upto(n) = set
  <2>1. \A i \in set : i \in 1 .. n
    BY <1>3
  <2>2. \A i \in 1 .. n : i <= n
    OBVIOUS
  <2> QED BY <2>1, <2>2
<1> QED BY <1>2, <1>6, <1>7 DEF set

(* The headers of an answer that are text, in their order.  That SelectSeq *)
(* makes a sequence of them is a hypothesis, as the provers do not unfold  *)
(* that operator.                                                          *)
AreHeaders(headers) ==
  /\ \E n \in Nat : DOMAIN headers = 1 .. n
  /\ \A i \in DOMAIN headers : IsHeader(headers[i])

(* Whatever the status of an answer, the next request to its host, and to  *)
(* no other, carries the last cookie it set under a name, and the store is *)
(* as before if the status is 400 or more: HttpExecutor::execute with      *)
(* send_with_cookies.                                                      *)
THEOREM CookiesOutliveTheFailure ==
  ASSUME NEW session, IsJar(session.jar), NEW spec, NEW registry,
         NEW server, IsAnswer(server), Whole(server) => AreHeaders(Received(server).headers),
         NEW url, NEW name
  PROVE  /\ CookiesOfEveryAnswer(session, spec, registry, server, url, name)
         /\ IsJar(Execute(session, spec, registry, server).session.jar)
<1> DEFINE first    == Execute(session, spec, registry, server)
           response == Received(server)
           headers  == response.headers
           to       == ResolveUrl(spec, registry)
           set      == Setting(headers, name)
<1>0. \/ first.session = session
      \/ Whole(server) /\ first.sent # <<>>
  <2>1. ~Whole(server) => first.session = session
    BY NoAnswerLeavesNoTrace DEF NoAnswerNoTrace
  <2>2. first.session = session \/ first.sent # <<>>
    BY ExecuteMeaning
  <2> QED BY <2>1, <2>2
<1>1. SUFFICES ASSUME Whole(server), first.sent # <<>>
               PROVE  /\ IsJar(first.session.jar)
                      /\ Held(first.session.jar, url, name) =
                           IF set # {} /\ url.host = registry[spec.service].host
                           THEN Kept(headers[LastOf(set)])
                           ELSE Held(session.jar, url, name)
                      /\ server.status >= 400 => first.session.store = session.store
  <2> HIDE DEF first, set, headers
  <2> QED BY <1>0 DEF CookiesOfEveryAnswer, Kept, LastOf, first, set, headers
<1>2. first.session = SessionAfter(session, spec, to, response)
  BY <1>1, ExecuteMeaning
<1>3. response.result = "ok" /\ response.status = server.status
  BY <1>1, ReceivedMeaning
<1>4. to.host = registry[spec.service].host
  BY DEF ResolveUrl
<1>5. AreHeaders(headers)
  BY <1>1
<1> HIDE DEF first, response, to
<1>6. /\ first.session.jar = StoreCookies(session.jar, headers, to)
      /\ first.session.store = IF response.status >= 400 THEN session.store
                               ELSE ExtractStores(spec, session.store, response)
  BY <1>2, <1>3 DEF SessionAfter
<1>7. /\ IsJar(StoreCookies(session.jar, headers, to))
      /\ Held(StoreCookies(session.jar, headers, to), url, name) =
           IF set # {} /\ url.host = to.host THEN Kept(headers[LastOf(set)])
           ELSE Held(session.jar, url, name)
  <2>1. PICK n \in Nat : DOMAIN headers = 1 .. n
    BY <1>5 DEF AreHeaders
  <2>2. \A i \in 1 .. n : IsHeader(headers[i])
    BY <1>5, <2>1 DEF AreHeaders
  <2> HIDE DEF headers
  <2> QED BY <2>1, <2>2, CookiesStored
<1> QED BY <1>3, <1>4, <1>6, <1>7
=============================================================================
