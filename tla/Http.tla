-------------------------------- MODULE Http --------------------------------
(***************************************************************************)
(* The way of a read request: from a call of the client library            *)
(* (lib/client), or from anybody who uses version 1 or 2, over the         *)
(* endpoints (lib/api) to the operations of Query (lib/query) and back.    *)
(* The client library and Query offer the same operations (api.V3,         *)
(* client.Client), so a call should be answered the same through both.     *)
(*                                                                         *)
(* What a search finds is the business of Access; here it succeeds or      *)
(* fails.  Values that only travel (an id, a text, a modifier) are         *)
(* opaque.  The endpoint for RIGHTS commands is RightsApi.                 *)
(***************************************************************************)
EXTENDS Integers, FiniteSets

CONSTANTS
  Absent,         \* a parameter that is not there, "" or nil
  Empty,          \* ListAfter without an id
  Garbage,        \* text where a number is expected
  DefaultLimit,   \* 100
  MaxWindow,      \* 10000: offset + limit
  Calls,          \* calls of the client library
  Requests,       \* requests of other clients
  Values,         \* what only travels: ids, texts, modifiers, names of fields
  MaxLost         \* bound on lost connections

VARIABLES
  stage,      \* where the request is
  call,       \* the call of the client library, Absent for other clients
  wire,       \* the request as it is sent
  asked,      \* what Query searches for, Absent before
  part,       \* the part of a query message in work
  err, code,  \* variables of Query.Query; err is also the error of other operations
  failed,     \* history: what failed, the search or parts of the message
  status,     \* HTTP status
  text,       \* the body is a message, not JSON
  granted,    \* the answer of the bool endpoints
  returned,   \* the error the client library returns, "none" before
  lost        \* lost connections so far

serverVars == <<asked, part, err, code, failed>>
answerVars == <<status, text, granted>>
httpVars ==
  <<stage, call, wire, asked, part, err, code, failed, status, text, granted, returned, lost>>

-----------------------------------------------------------------------------
(* lib/model: errors, options.                                             *)

Kind == {"ok", "bad", "denied", "not_found", "auth", "other"}

GetErrCode ==
  [ok |-> 200, bad |-> 400, denied |-> 403, not_found |-> 404, auth |-> 401, other |-> 500]

GetErrFromCode(c) ==
  IF \E k \in Kind : GetErrCode[k] = c THEN CHOOSE k \in Kind : GetErrCode[k] = c ELSE "other"

OneOf(value, default) == IF value = Absent THEN default ELSE value

Validate(o) ==
  /\ o.offset >= 0 /\ o.limit >= 0
  /\ o.limit + o.offset <= MaxWindow
  /\ o.after # Absent => o.sortBy \in {"id", "resource"} /\ o.offset = 0 /\ o.after # Empty

\* ListOptions.Mode: what the list is made of; at most one is allowed.
Modes(o) == {m \in {"search", "filter", "ids"} : o[m] # Absent}

\* QueryListCommons with the fields that ListOptions adds to it.
ListOptions ==
  [limit : Int, offset : Int, sortBy : Values, desc : BOOLEAN, rights : Values,
   after : Values, mod : Values, search : Values, filter : Values, ids : Values]

\* Mutant of QueryValues: the order is written like the default.
QueryValuesAscending(o) ==
  [limit |-> IF o.limit > 0 THEN o.limit ELSE Absent,
   offset |-> IF o.offset > 0 THEN o.offset ELSE Absent,
   sortBy |-> o.sortBy, desc |-> FALSE, rights |-> o.rights,
   after |-> IF o.after = Empty THEN Absent ELSE o.after,
   mod |-> o.mod, search |-> o.search, filter |-> o.filter, ids |-> o.ids]

\* ListOptions.QueryValues: zero values, and numbers below, are left out;
\* the direction is written behind the field to sort by.
QueryValues(o) ==
  [limit |-> IF o.limit > 0 THEN o.limit ELSE Absent,
   offset |-> IF o.offset > 0 THEN o.offset ELSE Absent,
   sortBy |-> o.sortBy, desc |-> o.desc /\ o.sortBy # Absent, rights |-> o.rights,
   after |-> IF o.after = Empty THEN Absent ELSE o.after,
   mod |-> o.mod, search |-> o.search, filter |-> o.filter, ids |-> o.ids]

\* GetQueryListCommonsFromUrlQuery; the endpoints add search, filter and ids.
FromUrlQuery(q, rights) ==
  [q EXCEPT !.limit = OneOf(@, DefaultLimit), !.offset = OneOf(@, 0), !.rights = rights]

\* GetQueryListCommonsFromStrings: everything but "asc" is descending.
FromStrings(q, rights, direction) ==
  [q EXCEPT !.limit = OneOf(@, DefaultLimit), !.offset = OneOf(@, 0), !.rights = rights,
            !.desc = IF direction = "path" THEN @ ELSE direction = "desc",
            !.after = Absent, !.mod = Absent]

\* strconv.Atoi and Validate.
Parsed(o) == Garbage \notin {o.limit, o.offset} /\ Validate(o)

-----------------------------------------------------------------------------
(* Routes: the operation of Query; who looks at the token, the endpoint    *)
(* or the operation; where rights and options come from ("late": Query     *)
(* parses limit and offset); whether there is a body to decode; the status *)
(* of every kind of error.                                                 *)

Route(name, method, op, token, rights, options, body, codes) ==
  [name |-> name, method |-> method, op |-> op, token |-> token, rights |-> rights,
   options |-> options, body |-> body, codes |-> codes]

InternalErrorBut(kinds) ==
  [k \in Kind |-> IF k = "ok" THEN 200 ELSE IF k \in kinds THEN GetErrCode[k] ELSE 500]
InternalError == InternalErrorBut({})
Unauthorized == [k \in Kind |-> IF k = "ok" THEN 200 ELSE 401]
Bool == [k \in Kind |-> 200]

AdministrateRoutes ==
  {Route("exists", "GET", "ResourceExists", "none", "none", "none", FALSE, InternalError),
   Route("rights", "GET", "GetRightsToAdministrate", "parsed", "none", "none", FALSE, InternalError),
   Route("rights/get", "GET", "GetRights", "passed", "none", "none", FALSE,
         InternalErrorBut({"not_found"})),
   Route("rights/query", "GET", "SearchRightsToAdministrate", "parsed", "none", "late", FALSE, InternalError)}

AllRoutes ==
  {Route("search", "GET", "SearchListAll", "parsed", "path", "none", FALSE, InternalError),
   Route("select", "GET", "SelectByFieldAll", "parsed", "path", "none", FALSE, InternalError),
   Route("list", "GET", "GetFullListForUserOrGroup", "parsed", "path", "none", FALSE, InternalError)}

SelectRoutes ==
  {Route("select/direction", "GET", "SelectByFeature", "parsed", "path", "path", FALSE, InternalError)}

SearchRoutes ==
  {Route("search/page", "GET", "SearchList", "parsed", "path", "desc", FALSE, InternalError),
   Route("search/order", "GET", "SearchList", "parsed", "path", "asc", FALSE, InternalError),
   Route("search/asc", "GET", "SearchList", "parsed", "path", "asc", FALSE, InternalError),
   Route("search/desc", "GET", "SearchList", "parsed", "path", "desc", FALSE, InternalError)}

ListRoutes ==
  {Route("list/page", "GET", "GetListForUserOrGroup", "parsed", "path", "late", FALSE, InternalError),
   Route("list/asc", "GET", "GetList", "parsed", "path", "asc", FALSE, InternalError),
   Route("list/desc", "GET", "GetList", "parsed", "path", "desc", FALSE, InternalError)}

CheckRoutes ==
  {Route("check", "GET", "CheckUserOrGroup", "passed", "path", "none", FALSE, Unauthorized),
   Route("check/bool", "GET", "CheckUserOrGroup", "passed", "path", "none", FALSE, Bool)}

\* ids/select never looks at the right in its path, only at the URL query.
IdsRoutes ==
  {Route("ids/check", "POST", "CheckListUserOrGroup", "parsed", "path", "none", TRUE, InternalError),
   Route("ids/select", "POST", "GetListFromIds", "parsed", "url", "url", TRUE, InternalError),
   Route("ids/select/direction", "POST", "GetListFromIds", "parsed", "path", "path", TRUE, InternalError)}

SubjectRoutes ==
  {Route("user/list", "GET", "GetListForUser", "none", "path", "none", FALSE, InternalError),
   Route("user/check", "GET", "CheckUser", "none", "path", "none", FALSE, Unauthorized),
   Route("group/list", "GET", "GetListForGroup", "none", "path", "none", FALSE, InternalError),
   Route("group/check", "GET", "CheckGroups", "none", "path", "none", FALSE, Unauthorized)}

MigrationRoutes ==
  {Route("export", "GET", "Export", "none", "none", "none", FALSE, InternalError),
   Route("import", "PUT", "Import", "none", "none", "none", TRUE, InternalError)}

SelectionRoutes ==
  {Route("search/asc+", "POST", "SearchList", "parsed", "path", "asc", TRUE, InternalError),
   Route("search/desc+", "POST", "SearchList", "parsed", "path", "desc", TRUE, InternalError),
   Route("list/asc+", "POST", "GetListWithSelection", "parsed", "path", "asc", TRUE, InternalError),
   Route("list/desc+", "POST", "GetListWithSelection", "parsed", "path", "desc", TRUE, InternalError)}

V2Routes ==
  {Route("v2/list", "GET", "List", "parsed", "url", "url", FALSE, InternalError),
   Route("v2/check", "HEAD", "CheckUserOrGroup", "passed", "url", "none", FALSE, Unauthorized),
   Route("v2/access", "GET", "CheckUserOrGroup", "passed", "url", "none", FALSE, Bool),
   Route("v2/query", "POST", "Query", "parsed", "none", "none", TRUE, InternalError)}

\* The aggregation looks for its rights in the path, which has none.
V3Routes ==
  {Route("v3/rights", "GET", "GetRights", "passed", "none", "none", FALSE,
         InternalErrorBut({"not_found", "denied"})),
   Route("v3/list", "GET", "List", "passed", "url", "url", FALSE, GetErrCode),
   Route("v3/total", "GET", "Total", "passed", "url", "url", FALSE, GetErrCode),
   Route("v3/check", "HEAD", "CheckUserOrGroup", "passed", "url", "none", FALSE, GetErrCode),
   Route("v3/access", "GET", "CheckUserOrGroup", "passed", "url", "none", FALSE, Bool),
   Route("v3/aggregates", "GET", "GetTermAggregation", "passed", "r", "none", FALSE, InternalError),
   Route("v3/query", "POST", "Query", "passed", "none", "none", TRUE, GetErrCode),
   Route("v3/query/resource", "POST", "Query", "passed", "none", "none", TRUE, GetErrCode)}

Routes ==
  AdministrateRoutes \cup AllRoutes \cup SelectRoutes \cup SearchRoutes \cup ListRoutes
    \cup CheckRoutes \cup IdsRoutes \cup SubjectRoutes \cup MigrationRoutes
    \cup SelectionRoutes \cup V2Routes \cup V3Routes

-----------------------------------------------------------------------------
(* lib/query.                                                              *)

\* What the operations of the interface refuse before they search.
Refusals(op, token, o) ==
  {k \in {"bad", "other"} :
     \/ k = "other" /\ ~token
     \/ k = "other" /\ op \in {"GetListForUserOrGroup", "SearchRightsToAdministrate"}
                    /\ Garbage \in {o.limit, o.offset}
     \/ k = "bad" /\ op \in {"List", "Total"} /\ Cardinality(Modes(o)) > 1
     \/ k = "bad" /\ op = "List" /\ ~Validate(o)}

\* List and Total choose what to call by what is asked for.
Dispatch(op, o) ==
  CASE op = "List" -> IF o.search # Absent THEN "SearchList"
                      ELSE IF o.filter # Absent THEN "SelectByFeature"
                      ELSE IF o.ids # Absent THEN "GetListFromIds" ELSE "GetList"
    [] op = "Total" -> IF o.search # Absent THEN "SearchListTotal"
                       ELSE IF o.filter # Absent THEN "SelectByFeatureTotal"
                       ELSE "GetListTotalForUserOrGroup"
    [] OTHER -> op

Paged ==
  {"List", "GetList", "SearchList", "SelectByFeature", "GetListFromIds", "GetListWithSelection"}

\* withPaginationAndBody: search_after replaces the offset.
Pagination(o) ==
  [size |-> o.limit,
   from |-> IF o.after = Absent THEN o.offset ELSE Absent,
   after |-> o.after,
   sort |-> IF o.sortBy \in {Absent, "id"} THEN "resource" ELSE o.sortBy,
   desc |-> o.desc,
   mod |-> o.mod]

\* The search of an operation; "" asks for the right to read (getRightsQuery),
\* the operations on rights for the right to administrate.
Search(op, o) ==
  [op |-> Dispatch(op, o),
   rights |-> IF op \in {"GetRights", "GetRightsToAdministrate", "SearchRightsToAdministrate"}
              THEN "a" ELSE OneOf(o.rights, "r"),
   search |-> o.search, filter |-> o.filter, ids |-> o.ids,
   page |-> IF op \in Paged THEN Pagination(o) ELSE Absent]

\* The errors a search may end with.
Outcomes(op) ==
  CASE op = "GetRights" -> {"ok", "denied", "not_found", "other"}
    [] op \in {"CheckUserOrGroup", "CheckUser", "CheckGroups"} -> {"ok", "denied", "other"}
    [] OTHER -> {"ok", "other"}

-----------------------------------------------------------------------------
(* Requests.                                                               *)

NoOptions ==
  [limit |-> Absent, offset |-> Absent, sortBy |-> Absent, desc |-> FALSE, rights |-> Absent,
   after |-> Absent, mod |-> Absent, search |-> Absent, filter |-> Absent, ids |-> Absent]

\* name: the route; right: its path parameter; q: the URL query, or what the
\* path says of the options; token, body: whether they can be decoded; message:
\* the parts of a query message and its resource, Absent, "path" or "other".
Wire(name, method, token, q, message) ==
  [name |-> name, method |-> method, token |-> token, body |-> TRUE, right |-> Absent,
   q |-> q, message |-> message]

\* The client library.  It asks for an aggregation with the method HEAD.
Encode(c) ==
  CASE c.op = "List"  -> Wire("v3/list", "GET", c.token, QueryValues(c.options), Absent)
    [] c.op = "Total" -> Wire("v3/total", "GET", c.token, QueryValues(c.options), Absent)
    [] c.op = "Query" -> Wire("v3/query", "POST", c.token, NoOptions, c.message)
    [] c.op = "GetRights" -> Wire("v3/rights", "GET", c.token, NoOptions, Absent)
    [] c.op = "CheckUserOrGroup" ->
         Wire("v3/check", "HEAD", c.token, [NoOptions EXCEPT !.rights = c.options.rights], Absent)
    [] c.op = "GetTermAggregation" ->
         Wire("v3/aggregates", "HEAD", c.token,
              [NoOptions EXCEPT !.rights = c.options.rights, !.limit = c.options.limit], Absent)

\* The operations of client.Client.  List and Total take options, the
\* others only some: CheckUserOrGroup rights, GetTermAggregation rights and a
\* limit, GetRights and Query none.  Other clients use the routes of the API.
ClientOps == {"List", "Total", "Query", "GetRights", "CheckUserOrGroup", "GetTermAggregation"}

ASSUME HttpAssumption ==
  /\ DefaultLimit \in Nat /\ MaxWindow \in Nat /\ DefaultLimit <= MaxWindow
  /\ MaxLost \in Nat
  /\ Absent \notin Int /\ Garbage \notin Int /\ Empty # Absent /\ Garbage # Absent
  /\ Absent \notin Calls
  /\ \A c \in Calls :
       /\ c.op \in ClientOps /\ c.token \in BOOLEAN /\ c.options \in ListOptions
       /\ c.op \notin {"List", "Total"} =>
            c.options.search = Absent /\ c.options.filter = Absent /\ c.options.ids = Absent
  /\ \A w \in Requests : \E r \in Routes : r.name = w.name

Send(c, w) ==
  /\ stage = "idle"
  /\ call' = c /\ wire' = w
  /\ stage' = "sent"
  /\ asked' = Absent /\ part' = "none" /\ err' = "ok" /\ code' = 0 /\ failed' = {}
  /\ status' = 0 /\ text' = FALSE /\ granted' = FALSE
  /\ returned' = "none"
  /\ UNCHANGED lost

Call(c) == Send(c, Encode(c))

Request(w) == Send(Absent, w)

-----------------------------------------------------------------------------
(* Endpoints.                                                              *)

Routed == CHOOSE r \in Routes : r.name = wire.name

Answer(s, isText, isGranted) ==
  /\ stage' = "answered"
  /\ status' = s /\ text' = isText /\ granted' = isGranted
  /\ UNCHANGED <<call, wire, returned, lost>>

\* What a handler makes of the outcome of its operation.
Respond(k) == Answer(Routed.codes[k], k # "ok" /\ Routed.codes # Bool, k = "ok")

Rights ==
  CASE Routed.rights = "path" -> wire.right
    [] Routed.rights = "url"  -> OneOf(wire.q.rights, "r")
    [] Routed.rights = "none" -> Absent
    [] OTHER -> Routed.rights

\* Total does not look for ids.
Options ==
  CASE Routed.options = "url" ->
         LET o == FromUrlQuery(wire.q, Rights)
         IN  IF Routed.op = "Total" THEN [o EXCEPT !.ids = Absent] ELSE o
    [] Routed.options \in {"asc", "desc", "path"} -> FromStrings(wire.q, Rights, Routed.options)
    [] OTHER -> [wire.q EXCEPT !.rights = Rights]

Malformed ==
  \/ Routed.token = "parsed" /\ ~wire.token
  \/ Routed.body /\ ~wire.body
  \/ Routed.options \in {"url", "asc", "desc", "path"} /\ ~Parsed(Options)
  \/ wire.name = "v2/list" /\ Cardinality(Modes(Options)) > 1
  \/ wire.name = "v3/query/resource" /\ OneOf(wire.message.resource, "path") # "path"

\* The router has no route with this method.
MethodNotAllowed ==
  /\ stage = "sent"
  /\ wire.method # Routed.method
  /\ Answer(405, TRUE, FALSE)
  /\ err' = "other"
  /\ UNCHANGED <<asked, part, code, failed>>

Reject ==
  /\ stage = "sent"
  /\ wire.method = Routed.method
  /\ Malformed
  /\ Answer(400, TRUE, FALSE)
  /\ err' = "bad"
  /\ UNCHANGED <<asked, part, code, failed>>

Accepted == stage = "sent" /\ wire.method = Routed.method /\ ~Malformed

Parses == Routed.token = "passed" => wire.token

\* Query looks at the token first.
Refuse ==
  /\ Accepted
  /\ LET refusals == Refusals(Routed.op, Parses, Options)
         k == IF "other" \in refusals THEN "other" ELSE "bad"
     IN  refusals # {} /\ Respond(k) /\ err' = k
  /\ UNCHANGED <<asked, part, code, failed>>

Start ==
  /\ Accepted
  /\ Refusals(Routed.op, Parses, Options) = {}
  /\ IF Routed.op = "Query"
     THEN stage' = "message" /\ part' = "find" /\ UNCHANGED asked
     ELSE stage' = "search" /\ asked' = Search(Routed.op, Options) /\ UNCHANGED part
  /\ UNCHANGED <<call, wire, err, code, failed, answerVars, returned, lost>>

\* GetListFromIds drops the error of addParsedModifier (query.go:385): the
\* results are gone and the search ends without error.
SearchEnds ==
  /\ stage = "search"
  /\ \/ \E k \in Outcomes(Routed.op) :
          Respond(k) /\ err' = k /\ failed' = IF k = "ok" THEN {} ELSE {"search"}
     \/ /\ asked.op = "GetListFromIds" /\ asked.page.mod # Absent
        /\ Respond("ok") /\ err' = "ok" /\ failed' = {"search"}
  /\ UNCHANGED <<asked, part, code>>

-----------------------------------------------------------------------------
(* POST query: the parts of a message one after the other.                 *)

V3 == wire.name \in {"v3/query", "v3/query/resource"}

WithDefaults(o) == [o EXCEPT !.limit = IF @ = 0 THEN DefaultLimit ELSE @,
                             !.rights = OneOf(@, "r")]

\* The message goes on with the part next; failing: the present one failed.
Continue(next, k, c, failing) ==
  /\ part' = next /\ err' = k /\ code' = c
  /\ failed' = IF failing THEN failed \cup {part} ELSE failed
  /\ UNCHANGED <<stage, call, wire, asked, answerVars, returned, lost>>

\* Find and ListIds; version 2 neither validates nor adds the modifier again.
\* ListIds is GetListFromIds and drops an error like it.
ListPart(name, modify, next) ==
  LET o == wire.message[name]
      after == IF V3 /\ o.mod # Absent THEN modify ELSE next
  IN  /\ stage = "message" /\ part = name
      /\ \/ o = Absent /\ Continue(next, err, code, FALSE)
         \/ /\ o # Absent /\ V3 /\ ~Validate(WithDefaults(o))
            /\ Continue("end", "bad", GetErrCode["bad"], TRUE)
         \/ /\ o # Absent /\ (V3 => Validate(WithDefaults(o)))
            /\ \/ \E k \in {"ok", "other"} : Continue(after, k, code, k # "ok")
               \/ name = "ids" /\ o.mod # Absent /\ Continue(after, "ok", code, TRUE)

\* Mutant of ModifyPart: there is no return after the error.
ModifyPartGoesOn(name, next) ==
  /\ stage = "message" /\ part = name
  /\ \/ Continue(next, "ok", 200, FALSE)
     \/ (err = "ok" \/ name = "modify ids") /\ Continue(next, "other", 500, TRUE)

\* addParsedModifier: its code and its error replace what was there.  Without
\* elements it has nothing to do.  After an error Find has none, but ListIds
\* may have some (query.go:378).
ModifyPart(name, next) ==
  /\ stage = "message" /\ part = name
  /\ \/ Continue(next, "ok", 200, FALSE)
     \/ (err = "ok" \/ name = "modify ids") /\ Continue("end", "other", 500, TRUE)

\* CheckIds and TermAggregate.
PlainPart(name, wanted, next) ==
  /\ stage = "message" /\ part = name
  /\ IF ~wanted THEN Continue(next, err, code, FALSE)
     ELSE \E k \in {"ok", "other"} : Continue(next, k, code, k # "ok")

\* Query sets a code only if there is none; version 2 knows one code.
MessageEnds ==
  /\ stage = "message" /\ part = "end"
  /\ LET c == IF V3 /\ code # 0 THEN code ELSE Routed.codes[err]
     IN  Answer(IF err = "ok" THEN 200 ELSE c, err # "ok", err = "ok")
  /\ UNCHANGED serverVars

Message ==
  \/ ListPart("find", "modify find", "check")
  \/ ModifyPart("modify find", "check")
  \/ PlainPart("check", wire.message.check # Absent, "ids")
  \/ ListPart("ids", "modify ids", "aggregate")
  \/ ModifyPart("modify ids", "aggregate")
  \/ PlainPart("aggregate", wire.message.aggregate, "end")
  \/ MessageEnds

-----------------------------------------------------------------------------
(* Answers.                                                                *)

\* do and head of the client library: do has to decode a body.
Decode ==
  /\ stage = "answered" /\ call # Absent
  /\ returned' = IF status = 200 /\ text /\ wire.method # "HEAD" THEN "other"
               ELSE GetErrFromCode(status)
  /\ stage' = "idle"
  /\ UNCHANGED <<call, wire, serverVars, answerVars, lost>>

Receive ==
  /\ stage = "answered" /\ call = Absent
  /\ stage' = "idle"
  /\ UNCHANGED <<call, wire, serverVars, answerVars, returned, lost>>

ConnectionLost ==
  /\ stage # "idle" /\ call # Absent
  /\ lost < MaxLost
  /\ lost' = lost + 1
  /\ returned' = "lost"
  /\ stage' = "idle"
  /\ UNCHANGED <<call, wire, serverVars, answerVars>>

HttpInit ==
  /\ stage = "idle" /\ call = Absent
  /\ wire = Wire("v3/list", "GET", TRUE, NoOptions, Absent)
  /\ asked = Absent /\ part = "none" /\ err = "ok" /\ code = 0 /\ failed = {}
  /\ status = 0 /\ text = FALSE /\ granted = FALSE
  /\ returned = "none"
  /\ lost = 0

HttpNext ==
  \/ \E c \in Calls : Call(c)
  \/ \E w \in Requests : Request(w)
  \/ MethodNotAllowed
  \/ Reject
  \/ Refuse
  \/ Start
  \/ SearchEnds
  \/ Message
  \/ Decode
  \/ Receive
  \/ ConnectionLost

HttpSpec == HttpInit /\ [][HttpNext]_httpVars

-----------------------------------------------------------------------------
\* What the client library makes of options that are not set, or make no
\* sense: numbers below, a direction without a field, "after" without an id.
Normal(o) ==
  [o EXCEPT !.limit = IF @ > 0 THEN @ ELSE DefaultLimit,
            !.offset = IF @ > 0 THEN @ ELSE 0,
            !.desc = @ /\ o.sortBy # Absent,
            !.after = IF @ = Empty THEN Absent ELSE @]

\* client.Client and api.V3 have the same operations: a call over HTTP
\* searches for the same, refuses the same and returns the same kind of error
\* as the operation of Query with the normal form of its options.  A
\* total takes no ids, but options as valid as for a list.  An aggregation
\* always fails: it is sent to a route that does not exist (v3.go:84).
RemoteAsLocal ==
  stage = "idle" /\ call # Absent /\ returned # "lost" =>
    IF call.op = "GetTermAggregation" THEN returned = "other" /\ asked = Absent
    ELSE IF call.op = "Query" THEN returned = err
    ELSE LET total == call.op = "Total"
             n == Normal(call.options)
             o == IF total THEN [n EXCEPT !.ids = Absent] ELSE n
             refusals == Refusals(call.op, call.token, o)
                           \cup (IF total /\ ~Validate(o) THEN {"bad"} ELSE {})
         IN  IF refusals # {} THEN asked = Absent /\ returned \in refusals
             ELSE returned = err /\ asked = Search(call.op, o)

\* A part of the message, find or ids, has a modifier.
Modified(name) == wire.message[name] # Absent /\ wire.message[name].mod # Absent

\* Where an answer may not tell that p failed: a list of ids with a modifier
\* drops the error, and in a message the error of one part is overwritten
\* by what comes next (query.go:1189, 1203, 1221, 1243).
Overwritten(p) ==
  LET m == wire.message
  IN  \/ p = "search" /\ asked.op = "GetListFromIds" /\ asked.page.mod # Absent
      \/ p = "find" /\ ((V3 /\ Modified("find")) \/ m.check # Absent \/ m.ids # Absent \/ m.aggregate)
      \/ p = "check" /\ (m.ids # Absent \/ m.aggregate)
      \/ p = "ids" /\ (Modified("ids") \/ m.aggregate)

\* What an answer says of failures, in all three versions.  Every other
\* status than 200 stands for an error.  The status 200 without a message, at
\* the bool endpoints with true, says that nothing failed but what may be
\* overwritten; the aggregation and the modifiers of a query are not.
\* With a message, 200 stands for an error of a part behind one with
\* a modifier, whose code Query keeps (query.go:1245).
AnswersTellOutcome ==
  stage = "answered" =>
    /\ status # 200 => err # "ok"
    /\ status = 200 /\ ~text => granted = (err = "ok")
    /\ status = 200 /\ granted => \A p \in failed : Overwritten(p)
    /\ status = 200 /\ text =>
         /\ V3 /\ err = "other"
         /\ \/ Modified("find") /\ failed \cap {"check", "ids", "aggregate"} # {}
            \/ Modified("ids") /\ "aggregate" \in failed
=============================================================================
