---------------------------- MODULE HttpExchange ----------------------------
(***************************************************************************)
(* What one exchange with a service does to a virtual user: HttpExecutor   *)
(* (virtual_user/http) with its cookie jar, the HTTP client (http/mod.rs)  *)
(* and what a script sees and keeps of the answer (script/response.rs,     *)
(* script/store.rs).  VirtualUser takes the outcome of an exchange to be   *)
(* any; this module says which, and what is left behind for the next one.  *)
(*                                                                         *)
(* Texts are opaque, and something that may be missing is a sequence of at *)
(* most one.  A header name stands for all its spellings.  Cookies are for *)
(* every path of the host that set them, as their other attributes are     *)
(* between the server and the cookie_store crate.                          *)
(***************************************************************************)
EXTENDS Integers, SequencesExt

-----------------------------------------------------------------------------
(* resolve_url.  set_path replaces the path of the base URL, and the query *)
(* of the request goes behind the one the base URL has.                    *)
UrlError(spec, registry) ==
  CASE spec.service \notin DOMAIN registry -> "ServiceNotFound"
    [] ~registry[spec.service].valid       -> "InvalidUrl"
    [] OTHER                               -> "ok"

ResolveUrl(spec, registry) ==
  LET base == registry[spec.service]
  IN [host |-> base.host, path |-> spec.path, query |-> base.query \o spec.query]

-----------------------------------------------------------------------------
(* The cookie jar: the value of each cookie, by the host it is for.        *)
NewJar == <<>>

Cookies(jar, url) == {<<key[2], jar[key]>> : key \in {k \in DOMAIN jar : k[1] = url.host}}

CookieHeader(jar, url) ==
  IF Cookies(jar, url) = {} THEN <<>> ELSE <<[name |-> "cookie", value |-> Cookies(jar, url)]>>

(* A Set-Cookie that does not parse is skipped; one that has expired takes *)
(* the cookie away.                                                        *)
StoreCookie(jar, cookie, url) ==
  LET key == <<url.host, cookie.name>> IN
  CASE cookie.set = "malformed" -> jar
    [] cookie.set = "expired"   -> [k \in DOMAIN jar \ {key} |-> jar[k]]
    [] cookie.set = "kept"      -> [k \in DOMAIN jar \cup {key} |->
                                      IF k = key THEN cookie.value ELSE jar[k]]

StoreCookies(jar, headers, url) ==
  FoldLeft(LAMBDA j, header : IF header.name = "set-cookie" THEN StoreCookie(j, header.value, url) ELSE j,
           jar, headers)

-----------------------------------------------------------------------------
(* ReqwestHttpClient::send: the request, and what is made of the answer.   *)
(* Headers that are not text are left out; the body may fail after them.   *)
Sent(spec, url, cookie) ==
  [url |-> url, method |-> spec.method, headers |-> spec.headers \o cookie, body |-> spec.body]

IsText(header) == header.text

Received(server) ==
  CASE server.sending # "ok" -> [result |-> server.sending]
    [] server.sending = "ok" /\ server.reading # "ok" -> [result |-> server.reading]
    [] OTHER -> [result |-> "ok", status |-> server.status, body |-> server.body,
                 headers |-> SelectSeq(server.headers, IsText)]

-----------------------------------------------------------------------------
(* The store of a script, and the response its extract function is given:  *)
(* the values of a header, joined by commas, and the body as JSON.         *)
NewStore == <<>>
StoreGet(store, name) == IF name \in DOMAIN store THEN store[name] ELSE <<>>
StoreSet(store, name, value) ==
  [n \in DOMAIN store \cup {name} |-> IF n = name THEN value ELSE store[n]]

Header(response, name) ==
  LET Matches(header) == header.name = name
      matches == SelectSeq(response.headers, Matches)
  IN [i \in DOMAIN matches |-> matches[i].value]

Json(response) ==
  CASE response.body = <<>>   -> [data |-> <<>>, failed |-> FALSE]
    [] response.body # <<>> /\ ~response.body[1].json -> [data |-> <<>>, failed |-> TRUE]
    [] OTHER -> [data |-> <<response.body[1].value>>, failed |-> FALSE]

(* run_http_extract.  An extract function keeps a header or the body of    *)
(* the response in the store and may insist on it; what it has kept stays  *)
(* there if it raises an error then.                                       *)
Extracted(extract, response) ==
  IF extract.reads = "body" THEN Json(response).data ELSE Header(response, extract.reads)

ExtractStores(spec, store, response) ==
  IF spec.extract = <<>> THEN store
  ELSE StoreSet(store, spec.extract[1].key, Extracted(spec.extract[1], response))

ExtractRaises(spec, response) ==
  /\ spec.extract # <<>> /\ spec.extract[1].insists
  /\ Extracted(spec.extract[1], response) = <<>>

-----------------------------------------------------------------------------
(* HttpExecutor::execute with send_with_cookies.                           *)
NewSession == [jar |-> NewJar, store |-> NewStore]

NotSent(session, error) == [result |-> error, sent |-> <<>>, timed |-> FALSE, session |-> session]

Outcome(spec, response) ==
  CASE response.result = "timeout" -> "Timeout"
    [] response.result = "failed"  -> "Failed"
    [] response.result = "ok" /\ response.status >= 400 -> "Status"
    [] OTHER -> IF ExtractRaises(spec, response) THEN "Extract" ELSE "ok"

SessionAfter(session, spec, url, response) ==
  IF response.result # "ok" THEN session
  ELSE [jar   |-> StoreCookies(session.jar, response.headers, url),
        store |-> IF response.status >= 400 THEN session.store
                  ELSE ExtractStores(spec, session.store, response)]

Exchanged(session, spec, url, server) ==
  [result  |-> Outcome(spec, Received(server)),
   sent    |-> <<Sent(spec, url, CookieHeader(session.jar, url))>>,
   timed   |-> TRUE,
   session |-> SessionAfter(session, spec, url, Received(server))]

Execute(session, spec, registry, server) ==
  IF UrlError(spec, registry) # "ok" THEN NotSent(session, UrlError(spec, registry))
  ELSE Exchanged(session, spec, ResolveUrl(spec, registry), server)

-----------------------------------------------------------------------------
(* What comes of the transaction: map_execution_error, and how it is       *)
(* counted by the tracker (TransactionResult).  Only a transaction that    *)
(* has been on its way has a timing.                                       *)
TransactionResult(exchange) ==
  CASE exchange.result = "ok"      -> "Success"
    [] exchange.result = "Timeout" -> "Timeout"
    [] exchange.result \in {"Failed", "Status", "Extract"} -> "Failed"
    [] OTHER                       -> "Dropped"

-----------------------------------------------------------------------------
Whole(server) == server.sending = "ok" /\ server.reading = "ok"

(* A request that got no whole answer leaves no trace: neither cookies,    *)
(* not even those whose headers had arrived, nor the store change, and the *)
(* request is the same when it is repeated (executor.rs:51-62, 91-104).    *)
NoAnswerNoTrace(session, spec, registry, server) ==
  ~Whole(server) =>
    LET first == Execute(session, spec, registry, server) IN
    /\ first.session = session
    /\ Execute(first.session, spec, registry, server) = first

(* The headers that set a cookie, and the values of it a jar has for a URL.*)
Setting(headers, name) ==
  {i \in DOMAIN headers :
     /\ headers[i].name = "set-cookie" /\ headers[i].value.set # "malformed"
     /\ headers[i].value.name = name}

Held(jar, url, name) == {cookie[2] : cookie \in {c \in Cookies(jar, url) : c[1] = name}}

(* Cookies outlive the failure of their request and the store does not:    *)
(* whatever the status, a request to that host, and to no other, carries   *)
(* the last cookie set under a name; the store keeps what an answer below  *)
(* 400 gave it (executor.rs:64-78, 99-101).                                *)
CookiesOfEveryAnswer(session, spec, registry, server, url, name) ==
  LET first   == Execute(session, spec, registry, server)
      headers == Received(server).headers
      set     == Setting(headers, name)
      cookie  == headers[CHOOSE i \in set : \A j \in set : j <= i].value
      kept    == IF cookie.set = "kept" THEN {cookie.value} ELSE {}
  IN Whole(server) /\ first.sent # <<>> =>
       /\ Held(first.session.jar, url, name) =
            IF set # {} /\ url.host = registry[spec.service].host THEN kept
            ELSE Held(session.jar, url, name)
       /\ server.status >= 400 => first.session.store = session.store

(* A transaction counts as a success exactly if its answer was whole, its  *)
(* status below 400 and its extract function found what it needs, and has  *)
(* a timing exactly if a request went out (executor.rs:46-81,              *)
(* user.rs:153-190).                                                       *)
SuccessMeansExtracted(session, spec, registry, server) ==
  LET first == Execute(session, spec, registry, server) IN
  /\ TransactionResult(first) = "Success" <=>
       /\ first.sent # <<>> /\ Whole(server) /\ server.status < 400
       /\ spec.extract # <<>> /\ spec.extract[1].insists =>
            StoreGet(first.session.store, spec.extract[1].key) # <<>>
  /\ first.timed <=> TransactionResult(first) # "Dropped"
  /\ first.timed <=> first.sent # <<>>
=============================================================================
