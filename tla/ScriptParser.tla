---------------------------- MODULE ScriptParser ----------------------------
(***************************************************************************)
(* What loading a user script accepts (src/src/script: runner/loader.rs,   *)
(* runner/func.rs, parser/mod.rs, parser/http/mod.rs): the script is a Lua *)
(* module with the functions setup and requests; each returns an array of  *)
(* entries, and an entry is a request table, a named request or function,  *)
(* or a bare function.                                                     *)
(*                                                                         *)
(* A Lua value is a record with its type.  A string is its text (that of a *)
(* protocol or method in lower case) and whether it is UTF-8, and a        *)
(* function the values it may return: what it computes is the script's.    *)
(* A table has fields, by the names that are their keys, items, by their   *)
(* positions, and pairs of any other key and its value: a nil among the    *)
(* fields or items stands for a key that is not there.  A table is not     *)
(* inside itself.                                                          *)
(* An operator ...Error gives the error of a parse, or "ok".               *)
(***************************************************************************)
EXTENDS Naturals, Sequences, FiniteSetsExt

Nil == [type |-> "nil"]
Raised == [type |-> "error"]  \* what a call gives that raises an error
NoName == "anonymous"

Get(table, field) == IF field \in DOMAIN table.fields THEN table.fields[field] ELSE Nil

(* The first error of a sequence of checks, each done with `?`.            *)
FirstError(checks) ==
  IF \E i \in DOMAIN checks : checks[i] # "ok"
  THEN checks[Min({i \in DOMAIN checks : checks[i] # "ok"})]
  ELSE "ok"

-----------------------------------------------------------------------------
(* Fields of a request table.                                              *)
RequiredStringError(table, field) ==
  LET value == Get(table, field) IN
  CASE value.type = "nil" -> "RequiredFieldMissing"
    [] value.type = "string" -> IF value.utf8 THEN "ok" ELSE "FieldStringValueNotUTF8"
    [] OTHER -> "FieldNotString"

Methods == {"get", "post", "put", "delete", "patch", "head", "options"}

MethodError(table) ==
  IF RequiredStringError(table, "method") # "ok" THEN RequiredStringError(table, "method")
  ELSE IF Get(table, "method").text \in Methods THEN "ok" ELSE "UnknownMethod"

Coercible(value) ==
  \/ value.type \in {"integer", "number", "boolean"}
  \/ value.type = "string" /\ value.utf8

(* pairs::<String, Value>() walks the whole table: a number is a key too,  *)
(* as text, and any other key that is no name raises an error.  The order  *)
(* is open: of several faults, either is the error.                        *)
PairValues(t) ==
  ({t.fields[key] : key \in DOMAIN t.fields} \cup {t.items[i] : i \in DOMAIN t.items}
     \cup {pair[2] : pair \in t.pairs}) \ {Nil}

KeysAreText(t) == \A pair \in t.pairs : pair[1].type \in {"integer", "number"}

StringMapError(table, field) ==
  LET value == Get(table, field) IN
  CASE value.type = "nil" -> "ok"
    [] value.type = "table" ->
         IF ~KeysAreText(value) THEN "Lua"
         ELSE IF \A v \in PairValues(value) : Coercible(v)
         THEN "ok" ELSE "StringMapValueNotCoercible"
    [] OTHER -> "FieldNotTable"

IsArray(items) == Len(items) \in Nat /\ items = [i \in 1 .. Len(items) |-> items[i]]

(* sequence_values ends at the first nil: what comes after it is not seen. *)
Items(table) ==
  LET holes == {i \in DOMAIN table.items : table.items[i] = Nil} IN
  IF holes = {} THEN table.items ELSE SubSeq(table.items, 1, Min(holes) - 1)

(* from_value converts a table that has items to an array of them, and     *)
(* leaves out its other keys; any other table it converts to an object.    *)
IsSequence(t) == IsArray(t.items) /\ \E i \in DOMAIN t.items : t.items[i] # Nil

FieldValues(t) == {t.fields[key] : key \in DOMAIN t.fields} \ {Nil}

PartsOfObject(value) ==   \* mutant: every table taken for an object
  IF value.type = "table" THEN FieldValues(value) ELSE {}

Parts(value) ==
  IF value.type # "table" THEN {}
  ELSE IF IsSequence(value) THEN {Items(value)[i] : i \in DOMAIN Items(value)}
  ELSE FieldValues(value)

(* A value and all that is in it, level by level: Op gives the values one  *)
(* level below a value.                                                    *)
Levels(value, Op(_)) ==
  LET level[n \in Nat] == IF n = 0 THEN {value} ELSE UNION {Op(v) : v \in level[n - 1]}
  IN  level

Within(value, Op(_)) ==
  LET levels == Levels(value, Op)
      from[n \in Nat] == IF levels[n] = {} THEN {} ELSE levels[n] \cup from[n + 1]
  IN  from[0]

(* There is no JSON for a function or a string that is not UTF-8, and the  *)
(* keys of an object are names.                                            *)
Convertible(value) ==
  \/ value.type \in {"nil", "boolean", "integer", "number"}
  \/ value.type = "string" /\ value.utf8
  \/ value.type = "table" /\ (IsSequence(value) \/ value.pairs = {})

BodyError(table) ==
  IF \A value \in Within(Get(table, "body"), Parts) : Convertible(value)
  THEN "ok" ELSE "BodyNotJson"

ExtractError(table) ==
  IF Get(table, "extract").type \in {"nil", "function"} THEN "ok" ELSE "FieldNotFunction"

HttpSpecError(table) ==
  FirstError(<<MethodError(table),
               RequiredStringError(table, "service"), RequiredStringError(table, "path"),
               StringMapError(table, "headers"), StringMapError(table, "query"),
               BodyError(table), ExtractError(table)>>)

StaticSpecError(table) ==
  IF RequiredStringError(table, "protocol") # "ok" THEN RequiredStringError(table, "protocol")
  ELSE IF Get(table, "protocol").text = "http" THEN HttpSpecError(table) ELSE "InvalidProtocol"

(* What is left of a request table: where it goes and what is extracted.   *)
Request(table) == [service |-> Get(table, "service").text, extract |-> Get(table, "extract")]

-----------------------------------------------------------------------------
(* Entries.                                                                *)
NameError(table) ==
  LET name == Get(table, "name") IN
  CASE name.type = "nil" -> "ok"
    [] name.type = "string" -> IF name.utf8 THEN "ok" ELSE "FieldStringValueNotUTF8"
    [] OTHER -> "FieldNotString"

IsNamed(table) == Get(table, "name").type # "nil"

NamedSpecError(spec) ==
  CASE spec.type = "table" -> StaticSpecError(spec)
    [] spec.type = "function" -> "ok"
    [] OTHER -> "InvalidSpecType"

SpecError(value) ==
  CASE value.type = "function" -> "ok"
    [] value.type = "table" ->
         IF NameError(value) # "ok" THEN NameError(value)
         ELSE IF IsNamed(value) THEN NamedSpecError(Get(value, "spec"))
         ELSE StaticSpecError(value)
    [] OTHER -> "InvalidRequestSpec"

Static(name, table) == [name |-> name, dynamic |-> FALSE, request |-> Request(table)]
Dynamic(name, f)    == [name |-> name, dynamic |-> TRUE, returns |-> f.returns]

ParsedSpec(value) ==
  IF value.type = "function" THEN Dynamic(NoName, value)
  ELSE IF ~IsNamed(value) THEN Static(NoName, value)
  ELSE LET name == Get(value, "name").text
           spec == Get(value, "spec")
       IN IF spec.type = "function" THEN Dynamic(name, spec) ELSE Static(name, spec)

(* call_top_level_func                                                     *)
TopLevelError(result) ==
  CASE result.type = "error" -> "Call"
    [] result.type = "table" ->
         LET items == Items(result) IN FirstError([i \in DOMAIN items |-> SpecError(items[i])])
    [] OTHER -> "NonTableReturn"

ParsedSpecs(result) ==
  LET items == Items(result) IN [i \in DOMAIN items |-> ParsedSpec(items[i])]

-----------------------------------------------------------------------------
(* loader.rs: the value the script evaluates to; call_top_level_func and   *)
(* ScriptRunner::setup: the errors of the two calls, setup first.          *)
FunctionError(module, field) ==
  CASE Get(module, field).type = "nil" -> "MissingFn"
    [] Get(module, field).type = "function" -> "ok"
    [] OTHER -> "TableValueNotFunction"

LoadError(module) ==
  CASE module.type = "error" -> "ModuleLoad"
    [] module.type = "table" ->
         FirstError(<<FunctionError(module, "setup"), FunctionError(module, "requests")>>)
    [] OTHER -> "ModuleReturn"

EmptyError(result) ==
  IF result.type = "table" /\ Items(result) = <<>> THEN "EmptyUserSpecs" ELSE "ok"

SetupError(setup, requests) ==
  FirstError(<<TopLevelError(setup), TopLevelError(requests), EmptyError(requests)>>)

(* call_dynamic_func: the value of a function is a request, or a jump.     *)
DynamicError(value) ==
  CASE value.type = "error" -> "Call"
    [] value.type = "table" -> StaticSpecError(value)
    [] value.type = "string" -> IF value.utf8 THEN "ok" ELSE "NonUTF8String"
    [] OTHER -> "NotStringCoercible"

IsJump(value) == value.type = "string"

(* specs_by_name: of two entries with one name the later one is kept.      *)
Named(specs, name) == {i \in DOMAIN specs : specs[i].name # NoName /\ specs[i].name = name}
IndexByName(specs, name) == Max(Named(specs, name)) - 1

(* The errors there are: "Lua" is an error of Lua itself.                  *)
ParserErrors ==
  {"Lua", "InvalidProtocol", "UnknownMethod", "RequiredFieldMissing", "FieldNotString",
   "FieldStringValueNotUTF8", "FieldNotTable", "StringMapValueNotCoercible", "BodyNotJson",
   "FieldNotFunction", "InvalidSpecType", "InvalidRequestSpec"}
CallErrors  == {"Call", "NonTableReturn", "NotStringCoercible", "NonUTF8String"}
LoadErrors  == {"ModuleLoad", "ModuleReturn", "MissingFn", "TableValueNotFunction"}
SetupErrors == LoadErrors \cup ParserErrors \cup {"Call", "NonTableReturn", "EmptyUserSpecs"}
=============================================================================
