--------------------------- MODULE MCVirtualUser ---------------------------
(* Model checking of VirtualUser: small scripts, good ones and bad ones.   *)
EXTENDS VirtualUser, HttpExchange, TLC

MCRegistry == [shop |-> TRUE, broken |-> FALSE]

Str(text)     == [type |-> "string", text |-> text, utf8 |-> TRUE]
NotUTF8       == [type |-> "string", text |-> "?", utf8 |-> FALSE]
Number        == [type |-> "number"]
Bool          == [type |-> "boolean"]
Table(fields) == [type |-> "table", fields |-> fields, items |-> <<>>, pairs |-> {}]
Array(items)  == [type |-> "table", fields |-> <<>>, items |-> items, pairs |-> {}]
Keyed(key, value) == [type |-> "table", fields |-> <<>>, items |-> <<>>, pairs |-> {<<key, value>>}]
Func(returns) == [type |-> "function", returns |-> returns]

HttpFields(service) == [protocol |-> Str("http"), method |-> Str("get"),
                        service |-> Str(service), path |-> Str("/")]
Http(service)   == Table(HttpFields(service))
With(field, value) == Table((field :> value) @@ HttpFields("shop"))
NamedEntry(name, spec) == Table([name |-> Str(name), spec |-> spec])

Script(setup, requests) ==
  Table([setup |-> Func({setup}), requests |-> Func({requests})])

-----------------------------------------------------------------------------
(* Jumps that lead out of the order, to functions and to nowhere; a later  *)
(* entry takes over a name; the list is gone round more than once.         *)
Extracting == With("extract", Func({Nil, Raised}))

Jumping == Script(
  Array(<<Func({Str("login"), Http("shop")}), Http("broken"), NamedEntry("login", Http("shop"))>>),
  Array(<<Func({Str("detour")}),
          NamedEntry("detour", Func({Str("cart"), Http("shop"), Http("broken"), Str("nowhere")})),
          NamedEntry("cart", Extracting)>>))

Cycling == Script(
  Array(<<Http("shop"), Extracting>>),
  Array(<<NamedEntry("again", Http("broken")), Func({Str("again"), Number}),
          NamedEntry("again", Http("shop")), Nil, Number>>))

-----------------------------------------------------------------------------
(* Every request table with at most two fields that are not plainly right, *)
(* for a service whose URL is broken, so that the setup ends with it.      *)
Unusual ==
  [protocol |-> {Nil, Number, NotUTF8, Str("ftp")},
   method   |-> {Nil, Number, NotUTF8, Str("fetch"), Str("options")},
   service  |-> {Nil, Bool, NotUTF8},
   path     |-> {Nil, Bool, NotUTF8},
   headers  |-> {Bool, Table([k |-> Number]), Table([k |-> NotUTF8])},
   query    |-> {Number, Table([k |-> Str("v")]), Table([k |-> Table([k |-> Bool])])},
   body     |-> {Str("text"), Func({Nil}), Table([k |-> Func({Nil})])},
   extract  |-> {Str("f"), Func({Nil})},
   name     |-> {Number, NotUTF8, Str("n")}]

(* Tables in a request, whose fault, if any, is among the items, under a   *)
(* key that is no name, or further down.                                   *)
Deep == Array(<<Table([k |-> Array(<<Number, Table([k |-> NotUTF8])>>)])>>)
Nested ==
  [headers |-> {Array(<<Number, Str("v")>>), Array(<<Array(<<>>)>>), Array(<<Nil, NotUTF8>>),
                Keyed(Number, Str("v")), Keyed(Bool, Str("v"))},
   query   |-> {Array(<<Func({Nil})>>), Keyed(NotUTF8, Number), Keyed(Number, Table(<<>>))},
   body    |-> {NotUTF8, Array(<<Number, Func({Nil})>>), Array(<<Str("v"), Nil, Func({Nil})>>),
                Array(<<Nil, Func({Nil})>>), Table([k |-> NotUTF8]), Deep,
                Table([k |-> Array(<<Str("v"), Table([k |-> Bool])>>)]),
                Keyed(Number, Str("v")), Table([k |-> Keyed(Bool, Str("v"))]),
                [Array(<<Number>>) EXCEPT !.pairs = {<<Bool, Func({Nil})>>},
                                          !.fields = [k |-> Func({Nil})]]}]

Changed(table, field, value) == Table((field :> value) @@ table.fields)
ChangedIn(tables) ==
  UNION {{Changed(table, field, value) : value \in Unusual[field]} :
           table \in tables, field \in DOMAIN Unusual}
Plain == {Http("broken")}
WithNested ==
  UNION {{Changed(Http("broken"), field, value) : value \in Nested[field]} : field \in DOMAIN Nested}
Requests == Plain \cup WithNested \cup ChangedIn(Plain) \cup ChangedIn(ChangedIn(Plain))
Entries ==
  Requests \cup {NamedEntry("n", table) : table \in Plain \cup ChangedIn(Plain)}
           \cup {NamedEntry("n", value) : value \in {Nil, Bool, Func({Raised})}}
           \cup {Func({Raised}), Bool, Str("n")}

AnyLists == {Array(<<>>), Array(<<Http("broken")>>), Array(<<Nil, Bool>>), Array(<<Http("broken"), Bool>>),
             Array(<<Bool, Http("broken")>>), Raised, Number}

MCScripts ==
  {Jumping, Cycling}
  \cup {Script(Array(<<Http("broken"), entry>>), Array(<<Http("shop")>>)) : entry \in Entries}
  \cup {Script(Array(<<Http("broken")>>), list) : list \in AnyLists}
  \cup {Script(list, Array(<<Http("shop")>>)) : list \in AnyLists \ {Array(<<>>), Array(<<Nil, Bool>>)}}
  \cup {Raised, Number, Table([setup |-> Func({Array(<<Http("broken")>>)})]), Table([requests |-> Func({Array(<<Http("broken")>>)})]),
        Table([setup |-> Number, requests |-> Func({Array(<<Http("broken")>>)})]),
        Table([setup |-> Func({Array(<<Http("broken")>>)}), requests |-> Str("f")])}

-----------------------------------------------------------------------------
(* These scripts and the values of their functions meet every error of the *)
(* parser and the runner (parser/error.rs, func.rs:94, loader.rs:67,       *)
(* runner/error.rs).                                                       *)
ErrorOf(script) ==
  IF LoadError(script) # "ok" THEN LoadError(script)
  ELSE LET Result(field) == CHOOSE list \in Get(script, field).returns : TRUE
       IN SetupError(Result("setup"), Result("requests"))

ASSUME EveryErrorIsMet ==
  /\ {ErrorOf(script) : script \in MCScripts} = SetupErrors \cup {"ok"}
  /\ {SpecError(entry) : entry \in Entries} = ParserErrors \cup {"ok"}
  /\ {DynamicError(value) : value \in {Raised, Number, NotUTF8, Str("n")}} \cup {"NonTableReturn"}
       = CallErrors \cup {"ok"}

-----------------------------------------------------------------------------
(* HTTP exchanges, as HttpExchange has them: two requests of one virtual   *)
(* user to two services, one of them at a host of its own and one with a   *)
(* query in its URL, and every way the services may take them.             *)
Services ==
  [shop   |-> [valid |-> TRUE, host |-> "a", query |-> <<>>],
   cart   |-> [valid |-> TRUE, host |-> "a", query |-> <<"v=1">>],
   bank   |-> [valid |-> TRUE, host |-> "b", query |-> <<>>],
   broken |-> [valid |-> FALSE]]

ExchangeSpecs ==
  [service : DOMAIN Services \cup {"gone"}, method : {"get"}, path : {"/p"}, query : {<<"q=2">>},
   headers : {<<>>}, body : {<<>>},
   extract : {<<>>, <<[reads |-> "token", key |-> "k", insists |-> TRUE]>>,
              <<[reads |-> "body", key |-> "k", insists |-> FALSE]>>}]

SetCookie(set, value, text) ==
  [name |-> "set-cookie", text |-> text, value |-> [name |-> "c", set |-> set, value |-> value]]
Token(value) == [name |-> "token", text |-> TRUE, value |-> value]

AnswerHeaders ==
  {<<>>, <<SetCookie("kept", "x", TRUE)>>, <<SetCookie("kept", "x", FALSE), Token("1"), Token("2")>>,
   <<SetCookie("kept", "x", TRUE), SetCookie("malformed", "y", TRUE), SetCookie("kept", "z", TRUE)>>,
   <<SetCookie("expired", "x", TRUE), Token("1")>>}

Answers ==
  [sending : {"ok", "timeout", "failed"}, reading : {"ok", "timeout", "failed"},
   status : {200, 399, 400}, headers : AnswerHeaders,
   body : {<<>>, <<[json |-> FALSE]>>, <<[json |-> TRUE, value |-> "v"]>>}]

Sessions ==
  {NewSession} \cup {[jar |-> StoreCookie(NewJar, [name |-> name, set |-> "kept", value |-> "w"], [host |-> host]),
                     store |-> StoreSet(NewStore, "k", <<"old">>)] :
                      name \in {"c", "d"}, host \in {"a", "b"}}

ASSUME
  \A session \in Sessions, spec \in ExchangeSpecs, answer \in Answers :
    /\ NoAnswerNoTrace(session, spec, Services, answer)
    /\ SuccessMeansExtracted(session, spec, Services, answer)
    /\ \A host \in {"a", "b"}, name \in {"c", "d"} :
         CookiesOfEveryAnswer(session, spec, Services, answer, [host |-> host], name)
=============================================================================
