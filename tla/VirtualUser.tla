---------------------------- MODULE VirtualUser ----------------------------
(***************************************************************************)
(* A virtual user (src/src/virtual_user/user.rs) with its script runner    *)
(* (script/runner/mod.rs) and HTTP executor (virtual_user/http), from its  *)
(* setup to the requests it sends for the transactions of VirtualUserPool. *)
(*                                                                         *)
(* The runner keeps a cursor into each of the two lists of the script.  To *)
(* take the next request moves the cursor at once; a dynamic entry may put *)
(* it anywhere in the list first.  If the request then fails, the cursor   *)
(* is put back by a handle that remembers where it was.                    *)
(*                                                                         *)
(* The script store, cookies and the contents of requests and responses    *)
(* are abstracted: what a function of the script returns is any of the     *)
(* values it may return, and a server answers what it likes, or never.     *)
(***************************************************************************)
EXTENDS VirtualUserPool, ScriptParser

CONSTANTS Scripts,   \* the modules a script may evaluate to
          Registry,  \* for each registered service, is its URL valid?
          TimeoutMs  \* timeout of the HTTP client, 0 for none

ASSUME VirtualUserAssumption ==
  /\ \A service \in DOMAIN Registry : Registry[service] \in BOOLEAN
  /\ TimeoutMs \in Nat
  /\ \A script \in Scripts, function \in {"setup", "requests"} :
       script.type = "table" /\ Get(script, function).type = "function" =>
         \A list \in Get(script, function).returns :
           list.type = "table" => IsArray(list.items)

VARIABLES
  source, \* what the user's script evaluates to; gone once its runner is set up
  stage,  \* how far the user is: which list its runner takes requests from
  specs,  \* setup_specs and user_specs
  cursor, \* setup_cursor and user_cursor
  turn,   \* the request the user is at
  home    \* history: the entry after the last one that succeeded

vuVars   == <<source, stage, specs, cursor, turn, home>>
userVars == <<source, specs>>
vars     == <<poolVars, vuVars>>

Idle == [doing |-> "idle"]
List(u) == specs[u][stage[u]]
Position(u) == cursor[u][stage[u]]

Lists == {"setup", "user"}

(* The user list is a cycle, the setup list is not.                        *)
After(u, i) == IF stage[u] = "user" THEN (i + 1) % Len(List(u)) ELSE i + 1

SetTurn(u, to) == turn' = [turn EXCEPT ![u] = to]
MoveTo(u, i) == cursor' = [cursor EXCEPT ![u][stage[u]] = i]

-----------------------------------------------------------------------------
(* ScriptRunner::setup                                                     *)
SetupRunner(u) ==
  /\ stage[u] = "new"
  /\ \/ /\ LoadError(source[u]) # "ok"
        /\ stage' = [stage EXCEPT ![u] = "rejected"] /\ UNCHANGED specs
     \/ /\ LoadError(source[u]) = "ok"
        /\ \E setup \in Get(source[u], "setup").returns,
              requests \in Get(source[u], "requests").returns :
             IF SetupError(setup, requests) = "ok"
             THEN /\ stage' = [stage EXCEPT ![u] = "setup"]
                  /\ specs' = [specs EXCEPT ![u] = [list \in Lists |->
                       ParsedSpecs(IF list = "setup" THEN setup ELSE requests)]]
             ELSE stage' = [stage EXCEPT ![u] = "rejected"] /\ UNCHANGED specs
  /\ source' = [source EXCEPT ![u] = Nil]
  /\ UNCHANGED <<cursor, turn, home>>

-----------------------------------------------------------------------------
(* next_spec with resolve, one call of a function at a time.  It has no    *)
(* await, so nothing else happens to the user meanwhile.                   *)
Specified(u, i, request) ==
  /\ SetTurn(u, [doing |-> "specified", at |-> i, previous |-> Position(u), request |-> request])
  /\ MoveTo(u, After(u, i))

Resolving(u, i) == SetTurn(u, [doing |-> "resolving", at |-> i]) /\ UNCHANGED cursor

NextSpec(u) ==
  /\ turn[u] = Idle /\ Position(u) < Len(List(u))
  /\ LET entry == List(u)[Position(u) + 1] IN
     IF entry.dynamic THEN Resolving(u, Position(u)) ELSE Specified(u, Position(u), entry.request)
  /\ UNCHANGED <<userVars, home>>

FollowJumpInPlace(u, name) ==   \* mutant: resolves again where it is
  LET i == IndexByName(List(u), name)
      target == List(u)[i + 1]
  IN IF target.dynamic THEN Resolving(u, turn[u].at) ELSE Specified(u, i, target.request)

FollowJump(u, name) ==
  LET i == IndexByName(List(u), name)
      target == List(u)[i + 1]
  IN IF target.dynamic THEN Resolving(u, i) ELSE Specified(u, i, target.request)

CallFunction(u) ==
  /\ turn[u].doing = "resolving"
  /\ \E value \in List(u)[turn[u].at + 1].returns :
       /\ DynamicError(value) = "ok"
       /\ IF IsJump(value)
          THEN Named(List(u), value.text) # {} /\ FollowJump(u, value.text)
          ELSE Specified(u, turn[u].at, Request(value))
  /\ UNCHANGED <<userVars, home>>

(* ResolveError: the cursor is where it was.                               *)
Unresolvable(u) ==
  /\ turn[u].doing = "resolving"
  /\ \E value \in List(u)[turn[u].at + 1].returns :
       \/ DynamicError(value) # "ok"
       \/ IsJump(value) /\ Named(List(u), value.text) = {}
  /\ SetTurn(u, Idle)
  /\ UNCHANGED <<userVars, home>>

-----------------------------------------------------------------------------
(* HttpExecutor::execute: resolve_url, ...                                 *)
UrlResolves(request) == request.service \in DOMAIN Registry /\ Registry[request.service]

UrlFails(u) ==
  /\ turn[u].doing = "specified" /\ ~UrlResolves(turn[u].request)
  /\ SetTurn(u, Idle)
  /\ UNCHANGED <<userVars, home>>

(* ... send_with_cookies, ...                                              *)
SendRequest(u) ==
  /\ turn[u].doing = "specified" /\ UrlResolves(turn[u].request)
  /\ SetTurn(u, [turn[u] EXCEPT !.doing = "sent"])
  /\ UNCHANGED <<userVars, cursor, home>>

(* ... and what comes of it: an answer below 400 that the script's extract *)
(* function takes, a worse answer, a failure or a timeout.                 *)
ExtractSucceeds(request) ==
  request.extract.type = "function" => \E value \in request.extract.returns : value # Raised

Succeeds(u) ==
  /\ turn[u].doing = "sent" /\ ExtractSucceeds(turn[u].request)
  /\ home' = [home EXCEPT ![u] = After(u, turn[u].at)]
  /\ SetTurn(u, Idle)
  /\ UNCHANGED <<userVars, cursor>>

Fails(u) ==
  /\ turn[u].doing = "sent"
  /\ SetTurn(u, Idle)
  /\ UNCHANGED <<userVars, home>>

(* ReqwestHttpClient::with_timeout configures no timeout if it is zero.    *)
HasTimeoutInverted == TimeoutMs = 0   \* mutant
HasTimeout == TimeoutMs # 0

TimesOut(u) == HasTimeout /\ Fails(u)

-----------------------------------------------------------------------------
(* Pool::with_client_and_rng starts a setup when the one before has ended; *)
(* users are told apart by their number only, so any may be the next one.  *)
OthersSetUp(u) == \A v \in Users \ {u} : stage[v] \in {"new", "user"}

(* VirtualUser::setup: one error ends the user, and with it the process.   *)
FailSetup(u) == stage' = [stage EXCEPT ![u] = "failed"] /\ UNCHANGED cursor

SetupDone(u) ==
  /\ stage[u] = "setup" /\ turn[u] = Idle /\ Position(u) >= Len(List(u))
  /\ stage' = [stage EXCEPT ![u] = "user"] /\ home' = [home EXCEPT ![u] = 0]
  /\ UNCHANGED <<userVars, cursor, turn>>

SetupAnswer(u) ==
  /\ stage[u] = "setup"
  /\ \/ Succeeds(u) /\ UNCHANGED stage
     \/ Fails(u) /\ FailSetup(u)
  /\ UNCHANGED poolVars

SetupStep(u) ==
  /\ \/ OthersSetUp(u) /\ SetupRunner(u)
     \/ SetupDone(u)
     \/ /\ stage[u] = "setup"
        /\ \/ (NextSpec(u) \/ CallFunction(u) \/ SendRequest(u)) /\ UNCHANGED stage
           \/ (Unresolvable(u) \/ UrlFails(u) \/ TimesOut(u)) /\ FailSetup(u)
  /\ UNCHANGED poolVars

-----------------------------------------------------------------------------
(* _send_next_request: RevertHandle::revert puts the cursor back whatever  *)
(* went wrong in execute.                                                  *)
RevertNothing(u) == UNCHANGED cursor   \* mutant: the handle is dropped
Revert(u) == MoveTo(u, turn[u].previous)

(* A request that is not sent still ends with the release of its user.     *)
DroppedUnreleased(t) ==   \* mutant: returns early, without the release
  /\ task[t] = "holding"
  /\ Goto(t, "logging") /\ EndsWith(t, "Error")
  /\ user' = [user EXCEPT ![t] = NoUser]
  /\ UNCHANGED <<late, users, semVars>>
Dropped(t) == FailUnsent(t)

RequestAnswer(t) ==
  LET u == user[t] IN
  /\ task[t] = "sent" /\ Answer(t)
  /\ \/ Succeeds(u)
     \/ Fails(u) /\ Revert(u)
  /\ UNCHANGED stage

RequestStep(t) ==
  LET u == user[t] IN
  /\ \/ /\ task[t] = "holding"
        /\ \/ (NextSpec(u) \/ CallFunction(u)) /\ UNCHANGED poolVars
           \/ Unresolvable(u) /\ UNCHANGED cursor /\ Dropped(t)
           \/ UrlFails(u) /\ Revert(u) /\ Dropped(t)
           \/ SendRequest(u) /\ Send(t)
     \/ task[t] = "sent" /\ TimesOut(u) /\ Revert(u) /\ Answer(t)
  /\ UNCHANGED stage

-----------------------------------------------------------------------------
(* Pool::with_client_and_rng waits for the setup of every user; no         *)
(* transaction is dispatched before, and none after a failed setup.        *)
PoolReady == \A u \in Users : stage[u] = "user"

PoolStep(t) == AcquireOnTime(t) \/ PushUser(t) \/ ReleasePermit(t) \/ LogResult(t)

TaskStep(t) == (PoolStep(t) /\ UNCHANGED vuVars) \/ RequestStep(t)

DispatchNext(t) == PoolReady /\ Dispatch(t) /\ UNCHANGED vuVars

VirtualUserInit ==
  /\ Init
  /\ \E script \in Scripts : source = [u \in Users |-> script]
  /\ stage = [u \in Users |-> "new"]
  /\ specs = [u \in Users |-> [list \in Lists |-> <<>>]]
  /\ cursor = [u \in Users |-> [list \in Lists |-> 0]]
  /\ turn = [u \in Users |-> Idle]
  /\ home = [u \in Users |-> 0]

VirtualUserNext ==
  \/ \E u \in Users : SetupStep(u) \/ SetupAnswer(u)
  \/ \E t \in Tx : \/ DispatchNext(t)
                   \/ DeadlinePasses(t) /\ UNCHANGED vuVars
                   \/ TaskStep(t) \/ RequestAnswer(t)

VirtualUserSpec == VirtualUserInit /\ [][VirtualUserNext]_vars

(* The runtime polls every task that can go on, and a configured timeout   *)
(* fires.  Nothing is assumed of the clock, and no server has to answer.   *)
FairVirtualUserSpec ==
  /\ VirtualUserSpec
  /\ \A u \in Users : WF_vars(SetupStep(u))
  /\ \A t \in Tx : WF_vars(TaskStep(t))

-----------------------------------------------------------------------------
(* Type invariant of the users.                                            *)
VirtualUserTypeOK ==
  /\ stage \in [Users -> {"new", "rejected", "setup", "user", "failed"}]
  /\ cursor \in [Users -> [Lists -> Nat]]
  /\ home \in [Users -> Nat]
  /\ DOMAIN source = Users /\ DOMAIN specs = Users /\ DOMAIN turn = Users

(* A user with its runner set up: its lists are sequences, its requests at *)
(* least one; a turn is at an entry, and remembers where the cursor was.   *)
Running(u) == stage[u] \in {"setup", "user"}

ListsParsed(u) ==
  /\ \A list \in Lists : IsArray(specs[u][list])
  /\ specs[u]["user"] # <<>>

TurnAt(u, i) ==
  \/ turn[u] = [doing |-> "resolving", at |-> i] /\ List(u)[i + 1].dynamic
  \/ /\ turn[u].doing \in {"specified", "sent"}
     /\ turn[u] = [doing |-> turn[u].doing, at |-> i, previous |-> home[u],
                   request |-> turn[u].request]
     /\ Position(u) = After(u, i)

RunnersOK ==
  \A u \in Users : Running(u) =>
    /\ ListsParsed(u)
    /\ turn[u] = Idle \/ \E i \in 0 .. Len(List(u)) - 1 : TurnAt(u, i)

(* Setup comes first: before it no list has been touched, and no           *)
(* transaction is dispatched before the setup of the last user.            *)
SetupFirst ==
  /\ \A u \in Users :
       /\ stage[u] = "new" => /\ source[u] \in Scripts
                              /\ turn[u] = Idle /\ home[u] = 0 /\ cursor[u]["setup"] = 0
       /\ stage[u] \in {"new", "setup"} => cursor[u]["user"] = 0
  /\ (\E t \in Tx : task[t] # "new") => PoolReady

(* Requests go out in the order of the script: a user is always at the     *)
(* entry after the last one that succeeded, so a request that failed is    *)
(* made again, also after a jump, and only a function at that entry may    *)
(* lead elsewhere (mod.rs:117-151, 198-200, 222-246, user.rs:152-160).     *)
(* The cursor never points past the list, where `&specs[*cursor]` would    *)
(* panic.                                                                  *)
Home(u) == List(u)[home[u] + 1]

DeclarationOrder ==
  \A u \in Users : Running(u) =>
    /\ turn[u].doing \in {"idle", "resolving"} => Position(u) = home[u]
    /\ turn[u].doing = "resolving" => Home(u).dynamic
    /\ turn[u].doing \in {"specified", "sent"} => turn[u].at = home[u] \/ Home(u).dynamic
    /\ home[u] < Len(List(u)) \/ (turn[u] = Idle /\ stage[u] = "setup" /\ home[u] = Len(List(u)))

VirtualUserInv == VirtualUserTypeOK /\ RunnersOK /\ SetupFirst /\ DeclarationOrder

(* What the documentation asks of a script (parser/mod.rs:47-66,           *)
(* parser/http/mod.rs:16-31, loader.rs:21-33, runner/mod.rs:54-62): headers *)
(* and query are tables with strings, numbers or booleans under keys that  *)
(* are text or numbers, the body is JSON, an array or an object to any     *)
(* depth (docs/scripting.md:143-145).                                      *)
Text(table, field) == Get(table, field).type = "string" /\ Get(table, field).utf8
Absent(table, field) == Get(table, field).type = "nil"

IsScalar(value) ==
  \/ value.type \in {"integer", "number", "boolean"}
  \/ value.type = "string" /\ value.utf8

StringMap(table, field) ==
  LET map == Get(table, field) IN
  \/ Absent(table, field)
  \/ /\ map.type = "table"
     /\ \A key \in DOMAIN map.fields : map.fields[key] = Nil \/ IsScalar(map.fields[key])
     /\ \A i \in DOMAIN map.items : map.items[i] = Nil \/ IsScalar(map.items[i])
     /\ \A pair \in map.pairs : pair[1].type \in {"integer", "number"}
                              /\ (pair[2] = Nil \/ IsScalar(pair[2]))

(* The members of a JSON value: an array's are its items up to a hole.     *)
Members(value) ==
  CASE value.type # "table" -> {}
    [] value.type = "table" /\ IsSequence(value) ->
         {value.items[i] : i \in {k \in DOMAIN value.items : \A j \in 1 .. k : value.items[j] # Nil}}
    [] OTHER -> {value.fields[key] : key \in {k \in DOMAIN value.fields : value.fields[k] # Nil}}

IsJson(value) ==
  \A v \in Within(value, Members) :
    \/ v.type = "nil" \/ IsScalar(v)
    \/ v.type = "table" /\ (IsSequence(v) \/ v.pairs = {})

IsRequest(table) ==
  /\ table.type = "table"
  /\ \A field \in {"protocol", "method", "service", "path"} : Text(table, field)
  /\ Get(table, "protocol").text = "http" /\ Get(table, "method").text \in Methods
  /\ \A field \in {"headers", "query"} : StringMap(table, field)
  /\ IsJson(Get(table, "body"))
  /\ Absent(table, "extract") \/ Get(table, "extract").type = "function"

IsEntry(value) ==
  \/ value.type = "function"
  \/ IsRequest(value) /\ Absent(value, "name")
  \/ /\ value.type = "table" /\ Text(value, "name")
     /\ IsRequest(Get(value, "spec")) \/ Get(value, "spec").type = "function"

IsList(value) ==
  /\ value.type = "table"
  /\ \A i \in DOMAIN value.items :
       (\A j \in 1 .. i : value.items[j] # Nil) => IsEntry(value.items[i])

IsModule(value) ==
  /\ value.type = "table"
  /\ \A field \in {"setup", "requests"} : Get(value, field).type = "function"

AreLists(setup, requests) ==
  /\ IsList(setup) /\ IsList(requests)
  /\ requests.items # <<>> /\ requests.items[1] # Nil

SetupReturns(script) == Get(script, "setup").returns
RequestsReturns(script) == Get(script, "requests").returns

(* A script gets past ScriptRunner::setup exactly if it is one and its     *)
(* functions return the lists they should: a fault in it is found before   *)
(* the load test, whatever else is in it, and not during it, and a script  *)
(* that can only return such lists is not turned away.                     *)
FaultsFoundAtSetup ==
  [][\A u \in Users : stage[u] = "new" =>
       /\ stage'[u] = "setup" =>
            /\ IsModule(source[u])
            /\ \E setup \in SetupReturns(source[u]), requests \in RequestsReturns(source[u]) :
                 AreLists(setup, requests)
       /\ stage'[u] = "rejected" /\ IsModule(source[u]) =>
            \E setup \in SetupReturns(source[u]), requests \in RequestsReturns(source[u]) :
              ~AreLists(setup, requests)]_vars

(* The pool is set up, or its setup fails, whatever the servers do, if the *)
(* HTTP client has a timeout (pool.rs:104-132, http/mod.rs:35-50).         *)
SetupEnds == <>(PoolReady \/ \E u \in Users : stage[u] \in {"failed", "rejected"})
=============================================================================
