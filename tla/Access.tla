------------------------------- MODULE Access -------------------------------
(***************************************************************************)
(* The reading half of the HTTP API for one resource kind (lib/query):     *)
(* checks, lists, totals and reports of rights.  A request is answered     *)
(* by one to three requests to OpenSearch, and the index changes between   *)
(* them.  A get sees a document as it is; a search sees it as it was at    *)
(* the last refresh.  The rights of the caller are decided in three        *)
(* places: by the filter of a search, by the check of one document, and    *)
(* by the permissions reported with a result.                              *)
(*                                                                         *)
(* Of a raw id SplitModifier makes a pure id and at most one modifier: the *)
(* configuration knows one key.  Text search, selection and filter are one *)
(* condition on the features.  The order of results, search_after (see     *)
(* Replay) and what a modifier does to the features are left out.          *)
(***************************************************************************)
EXTENDS Rights, Sequences

CONSTANTS
  Ids,           \* pure ids of the kind, ordered as numbers
  Mods,          \* values of the modifier
  NoMod,         \* an id without modifier, a request that adds none
  AnyFeature,    \* a request without a condition on the features
  NoDoc,         \* there is no document under an id
  AdminRole,     \* the group that makes a token an admin token
  Contents,      \* entries documents may have
  Requests,      \* requests that may come in
  MaxChanges,    \* bound on changes of documents
  MaxFaults      \* bound on failing requests to OpenSearch

RawId == [pure : Ids, mod : Mods \cup {NoMod}]

\* Who asks.  A token has a user; the endpoints user/check and group/check
\* of version 1 ask for one user or one group instead.
Token ==
  {t \in [user : Users \cup {NoUser}, roles : SUBSET Groups] :
     t.user # NoUser \/ t.roles # {}}

\* find:   lists by search, selection or filter (GetList, searchList,
\*         selectByFeature, getListWithSelection)
\* ids:    lists of given ids (getListFromIds)
\* select: the endpoint ids/select/:resource_kind/:right of version 1
\* check:  CheckUserOrGroup          bulk:   CheckListUserOrGroup
\* rights: GetRights                 total:  Total
\* subject: CheckUser, CheckGroups
\* A request through POST query adds its modifier once more (see AddAgain).
\* rights are the letters the request asks for, in the path or a parameter,
\* {} the empty string, and "other" stands for letters that mean nothing;
\* param are those of the URL query of select, next to the path.
Request ==
  [op      : {"find", "ids", "select", "check", "bulk", "rights", "total", "subject"},
   token   : Token,
   rights  : SUBSET (Right \cup {"other"}),
   param   : SUBSET (Right \cup {"other"}),
   ids     : Seq(RawId),
   feature : Features \cup {AnyFeature},
   mod     : Mods \cup {NoMod},
   query   : BOOLEAN,
   limit   : Nat,
   offset  : Nat]

ASSUME AccessAssumption ==
  /\ Ids \subseteq Nat /\ IsFiniteSet(Ids)
  /\ NoMod \notin Mods
  /\ AnyFeature \notin Features
  /\ NoDoc \notin Entry
  /\ AdminRole \in Groups
  /\ Contents \subseteq Entry
  /\ Requests \subseteq Request
  /\ \A q \in Requests : q.op \in {"check", "rights", "subject"} => Len(q.ids) = 1
  /\ \A q \in Requests : q.op # "subject" => q.token.user # NoUser
  /\ \A q \in Requests : q.op \notin {"find", "total"} => q.feature = AnyFeature
  /\ \A q \in Requests : q.op = "bulk" => q.mod = NoMod
  /\ MaxChanges \in Nat
  /\ MaxFaults \in Nat

VARIABLES
  doc,       \* the documents
  seen,      \* the documents as searches see them
  pc,        \* the next request to OpenSearch, or idle
  req,       \* the request in work, the last one when idle
  list,      \* results so far
  total,     \* total hits of the first search
  status,    \* ok, denied, not_found or error once answered
  checked,   \* what CheckUserOrGroup read, NoDoc before
  failed,    \* a request to OpenSearch failed for req
  still,     \* searches saw the same documents since req came in
  changes,   \* changes so far
  faults     \* faults so far

indexVars   == <<doc, seen, changes>>
historyVars == <<checked, failed, still>>
vars == <<doc, seen, pc, req, list, total, status, checked, failed, still, changes, faults>>

-----------------------------------------------------------------------------
(* The three decisions.                                                    *)

\* An empty rights string asks for reading; unknown letters are skipped.
Letters(rights) == (IF rights = {} THEN {"r"} ELSE rights) \cap Right

Term(l, r, values) == [list |-> l, right |-> r, values |-> values]

\* Mutant of Alternatives: groups are asked for the right to read.
AlternativesReadGroups(r, t) ==
  {x \in {Term("users", r, {t.user}), Term("groups", "r", t.roles)} :
     IF x.list = "users" THEN t.user # NoUser ELSE t.roles # {}}

\* The terms one of which has to match for a letter.
Alternatives(r, t) ==
  {x \in {Term("users", r, {t.user}), Term("groups", r, t.roles)} :
     IF x.list = "users" THEN t.user # NoUser ELSE t.roles # {}}

\* getRightsQuery: one filter for each letter.
RightsQuery(rights, t) == {Alternatives(r, t) : r \in Letters(rights)}

\* How OpenSearch evaluates it: all filters, of each one alternative,
\* unless it has none.
Matches(e, filters) ==
  \A should \in filters :
    should # {} => \E x \in should : e[x.list][x.right] \cap x.values # {}

\* The loop of CheckUserOrGroupFromAuthToken.
PassesCheck(e, rights, t) ==
  \A r \in Letters(rights) :
    ~(t.user \notin e.users[r] /\ e.groups[r] \cap t.roles = {})

\* getPermissions, reported with every result.
GetPermissions(e, t) ==
  [r \in Right |-> t.user \in e.users[r] \/ e.groups[r] \cap t.roles # {}]

-----------------------------------------------------------------------------
(* Searches.                                                               *)

\* The letters a request is answered with: ids/select of version 1 reads
\* those of the URL query and never the right in its path.
Asked == IF req.op = "select" THEN req.param ELSE req.rights

HasFeature(e) == req.feature = AnyFeature \/ e.features = req.feature

\* What a search by rights and features finds.
Hits == {d \in Ids : /\ seen[d] # NoDoc
                     /\ Matches(seen[d], RightsQuery(Asked, req.token))
                     /\ HasFeature(seen[d])}

\* from and size, in the order of the ids.
Page(S, from, size) ==
  {d \in S : Cardinality({e \in S : e < d}) \in from .. from + size - 1}

\* One result; pos tells the results of several raw ids apart.
Result(pos, id, e) == [pos |-> pos, id |-> id, entry |-> e]

Plain(d) == [pure |-> d, mod |-> NoMod]

\* PrepareListModify: the pure ids, each once.
PureIds == {req.ids[i].pure : i \in DOMAIN req.ids}

\* Mutant of Prepared: of several raw ids with one pure id the last is kept.
PreparedOnce(found) ==
  {Result(i, req.ids[i], seen[req.ids[i].pure]) :
     i \in {j \in DOMAIN req.ids :
              /\ req.ids[j].pure \in found
              /\ \A k \in DOMAIN req.ids : k > j => req.ids[k].pure # req.ids[j].pure}}

\* UsePreparedModify: one result for every raw id of the documents found.
\* Without modifier the result has the pure id, which is the raw one.
Prepared(found) ==
  {Result(i, req.ids[i], seen[req.ids[i].pure]) :
     i \in {j \in DOMAIN req.ids : req.ids[j].pure \in found}}

\* Mutant of Modified: the rights of the request are not handed on.
ModifiedReadable ==
  {Result(it.pos, [it.id EXCEPT !.mod = req.mod], seen[it.id.pure]) :
     it \in {x \in list : /\ seen[x.id.pure] # NoDoc
                          /\ Matches(seen[x.id.pure], RightsQuery({"r"}, req.token))}}

\* The search of addParsedModifier for the results so far.
Modified ==
  LET found == Page({it.id.pure : it \in list} \cap
                      {d \in Ids : /\ seen[d] # NoDoc
                                   /\ Matches(seen[d], RightsQuery(Asked, req.token))},
                    0, Cardinality(list))
  IN  {Result(it.pos, [it.id EXCEPT !.mod = req.mod], seen[it.id.pure]) :
         it \in {x \in list : x.id.pure \in found}}

-----------------------------------------------------------------------------
(* Requests.                                                               *)

FirstStep(q) ==
  CASE q.op = "select" -> "ids"
    [] q.op = "rights" /\ AdminRole \in q.token.roles -> "get"
    [] q.op = "rights" /\ AdminRole \notin q.token.roles -> "check"
    [] OTHER -> q.op

Ask(q) ==
  /\ pc = "idle"
  /\ req' = q
  /\ pc' = FirstStep(q)
  /\ list' = {} /\ total' = 0 /\ status' = "none"
  /\ checked' = NoDoc /\ failed' = FALSE /\ still' = TRUE
  /\ UNCHANGED <<indexVars, faults>>

\* Mutant of Answer: the request goes on after it was answered.
AnswerAgain(s) == pc' = pc /\ status' = s

Answer(s) == pc' = "idle" /\ status' = s

Continue(step) == pc' = step /\ status' = "none"

\* Lists.
Find ==
  /\ pc = "find"
  /\ list' = {Result(0, Plain(d), seen[d]) : d \in Page(Hits, req.offset, req.limit)}
  /\ total' = Cardinality(Hits)
  /\ IF req.mod = NoMod THEN Answer("ok") ELSE Continue("add")
  /\ UNCHANGED <<indexVars, req, historyVars, faults>>

FindIds ==
  /\ pc = "ids"
  /\ list' = Prepared(Page(Hits \cap PureIds, req.offset, req.limit))
  /\ total' = Cardinality(Hits \cap PureIds)
  /\ IF req.mod = NoMod THEN Answer("ok") ELSE Continue("add")
  /\ UNCHANGED <<indexVars, req, historyVars, faults>>

\* addParsedModifier as called by the lists; it sends nothing when there
\* are no results.
AddModifier ==
  /\ pc = "add"
  /\ list' = Modified
  /\ IF req.query THEN Continue("again") ELSE Answer("ok")
  /\ UNCHANGED <<indexVars, req, total, historyVars, faults>>

\* Query calls it once more on what the lists returned.
AddAgain ==
  /\ pc = "again"
  /\ list' = Modified
  /\ Answer("ok")
  /\ UNCHANGED <<indexVars, req, total, historyVars, faults>>

\* CheckListUserOrGroup: the results are the ids that map to true.
CheckList ==
  /\ pc = "bulk"
  /\ list' = Prepared(Page(Hits \cap PureIds, 0, Cardinality(PureIds)))
  /\ Answer("ok")
  /\ UNCHANGED <<indexVars, req, total, historyVars, faults>>

CountAll ==
  /\ pc = "total"
  /\ total' = Cardinality(Hits)
  /\ Answer("ok")
  /\ UNCHANGED <<indexVars, req, list, historyVars, faults>>

\* CheckUser, CheckGroups.
CheckSubject ==
  /\ pc = "subject"
  /\ Answer(IF Hits \cap PureIds # {} THEN "ok" ELSE "denied")
  /\ UNCHANGED <<indexVars, req, list, total, historyVars, faults>>

\* Mutant of CheckOne: GetRights asks for the letters of the request.
CheckOneRequested ==
  LET e == doc[req.ids[1].pure]
  IN  /\ pc = "check"
      /\ checked' = e
      /\ IF e = NoDoc \/ ~PassesCheck(e, req.rights, req.token) THEN Answer("denied")
         ELSE IF req.op = "rights" THEN Continue("get")
         ELSE Answer("ok")
      /\ UNCHANGED <<indexVars, req, list, total, failed, still, faults>>

\* CheckUserOrGroup; GetRights asks it for the right to administrate.
CheckOne ==
  LET e == doc[req.ids[1].pure]
      rights == IF req.op = "rights" THEN {"a"} ELSE req.rights
  IN  /\ pc = "check"
      /\ checked' = e
      /\ IF e = NoDoc \/ ~PassesCheck(e, rights, req.token) THEN Answer("denied")
         ELSE IF req.op = "rights" THEN Continue("get")
         ELSE Answer("ok")
      /\ UNCHANGED <<indexVars, req, list, total, failed, still, faults>>

\* The second request of GetRights.
GetEntry ==
  LET e == doc[req.ids[1].pure]
  IN  /\ pc = "get"
      /\ IF e = NoDoc THEN Answer("not_found") /\ list' = {}
                      ELSE Answer("ok") /\ list' = {Result(1, req.ids[1], e)}
      /\ UNCHANGED <<indexVars, req, total, historyVars, faults>>

-----------------------------------------------------------------------------
(* Failing requests to OpenSearch.                                         *)

Fail ==
  /\ faults < MaxFaults
  /\ faults' = faults + 1
  /\ failed' = TRUE
  /\ UNCHANGED <<indexVars, req, checked, still>>

\* Query hands the empty list of the failed search to addParsedModifier,
\* whose nil replaces the error.
ListFails ==
  /\ pc \in {"find", "ids"}
  /\ Fail
  /\ list' = {} /\ total' = 0
  /\ Answer(IF req.query /\ req.mod # NoMod THEN "ok" ELSE "error")

\* Mutant of AddFails: the results without modifier are kept.
AddFailsKeeping ==
  /\ pc = "add" /\ list # {}
  /\ Fail
  /\ UNCHANGED <<list, total>>
  /\ IF req.query THEN Continue("again")
     ELSE Answer(IF req.op = "find" THEN "error" ELSE "ok")

\* The lists of given ids drop the error, the others return it; either way
\* Query goes on with no results.
AddFails ==
  /\ pc = "add" /\ list # {}
  /\ Fail
  /\ list' = {} /\ total' = total
  /\ IF req.query THEN Continue("again")
     ELSE Answer(IF req.op = "find" THEN "error" ELSE "ok")

AddAgainFails ==
  /\ pc = "again" /\ list # {}
  /\ Fail
  /\ list' = {} /\ total' = total
  /\ Answer("error")

CheckFails ==
  /\ pc \in {"check", "get", "bulk", "total", "subject"}
  /\ Fail
  /\ UNCHANGED <<list, total>>
  /\ Answer("error")

-----------------------------------------------------------------------------
(* The index.                                                              *)

\* Others write or delete a document.
Change(d) ==
  /\ changes < MaxChanges
  /\ changes' = changes + 1
  /\ \E e \in (Contents \cup {NoDoc}) \ {doc[d]} : doc' = [doc EXCEPT ![d] = e]
  /\ UNCHANGED <<seen, pc, req, list, total, status, historyVars, faults>>

Refresh ==
  /\ seen # doc
  /\ seen' = doc
  /\ still' = FALSE
  /\ UNCHANGED <<doc, changes, pc, req, list, total, status, checked, failed, faults>>

Init ==
  /\ doc \in [Ids -> Contents \cup {NoDoc}]
  /\ seen = doc
  /\ pc = "idle"
  /\ req \in Requests
  /\ list = {} /\ total = 0 /\ status = "none"
  /\ checked = NoDoc /\ failed = FALSE /\ still = TRUE
  /\ changes = 0 /\ faults = 0

Next ==
  \/ \E q \in Requests : Ask(q)
  \/ Find \/ FindIds \/ AddModifier \/ AddAgain
  \/ CheckList \/ CountAll \/ CheckSubject \/ CheckOne \/ GetEntry
  \/ ListFails \/ AddFails \/ AddAgainFails \/ CheckFails
  \/ \E d \in Ids : Change(d)
  \/ Refresh

Spec == Init /\ [][Next]_vars

-----------------------------------------------------------------------------
(* Properties.                                                             *)

Results == [pos : Nat, id : RawId, entry : Entry]

\* Types of the variables; only a request that is not idle waits for
\* OpenSearch.
TypeOK ==
  /\ doc \in [Ids -> Entry \cup {NoDoc}]
  /\ seen \in [Ids -> Entry \cup {NoDoc}]
  /\ req \in Requests
  /\ list \subseteq Results
  /\ total \in Nat
  /\ status \in {"none", "ok", "denied", "not_found", "error"}
  /\ pc \in {"idle", "find", "ids", "add", "again", "bulk", "total", "subject", "check", "get"}
  /\ pc # "idle" => status = "none"
  /\ checked \in Entry \cup {NoDoc}
  /\ failed \in BOOLEAN /\ still \in BOOLEAN
  /\ changes \in 0 .. MaxChanges /\ faults \in 0 .. MaxFaults

Permitted(e, rights, t) == \A r \in Letters(rights) : GetPermissions(e, t)[r]

\* For every document and token the check of one document (query.go:234),
\* the filter of a search (query.go:99) and the permissions reported with a
\* result (query.go:1081), written three times in the code, decide alike.
DecisionsAgree ==
  \A d \in Ids, q \in Requests :
    doc[d] # NoDoc /\ q.token.user # NoUser =>
      /\ PassesCheck(doc[d], q.rights, q.token)
           <=> Permitted(doc[d], q.rights, q.token)
      /\ Matches(doc[d], RightsQuery(q.rights, q.token))
           <=> Permitted(doc[d], q.rights, q.token)

\* The request asks for a right in its path and is answered for another.
PathIgnored == req.op = "select" /\ Letters(req.param) # Letters(req.rights)

\* No result of a list is reported with permissions that lack a letter the
\* request asked for, although rights may be taken away between the up to
\* three searches of a request with add_id_modifier (query.go:1189).  Where
\* the path is ignored see SelectedAsPermitted.
ListedAsPermitted ==
  req.op \in {"find", "ids", "select", "bulk"} /\ ~PathIgnored =>
    \A it \in list : Permitted(it.entry, req.rights, req.token)

\* POST ids/select/:resource_kind/:right of version 1 returns resources the
\* caller has matching rights for (README.md:83).
SelectedAsPermitted ==
  req.op = "select" => \A it \in list : Permitted(it.entry, req.rights, req.token)

\* Rights are reported only to admins and to those who were found to
\* administrate the document, whatever happens to it between the check and
\* the get of GetRights (query.go:656).
RightsNeedAdministrator ==
  req.op = "rights" /\ list # {} =>
    \/ AdminRole \in req.token.roles
    \/ checked # NoDoc /\ Permitted(checked, {"a"}, req.token)

\* A request that failed in part is answered by an error, or by an empty
\* list if it adds a modifier; never by results of some of its searches.
AnswersAfterFailure ==
  status = "ok" /\ failed => list = {} /\ req.mod # NoMod

Wanted == {d \in Ids : /\ seen[d] # NoDoc
                       /\ PassesCheck(seen[d], req.rights, req.token)
                       /\ HasFeature(seen[d])}

WithMod(id) == IF req.mod = NoMod THEN id ELSE [id EXCEPT !.mod = req.mod]

\* The results of a list of ids: one for each raw id asked for, also if
\* several share a pure id.
ResultsFor(found) ==
  {Result(i, WithMod(req.ids[i]), seen[req.ids[i].pure]) :
     i \in {j \in DOMAIN req.ids : req.ids[j].pure \in found}}

\* If searches see the same documents all the time, a request without
\* failure is answered as if it was one step: a page of all documents the
\* single check allows for the letters it asked for, each with its modifier,
\* and their number, unless its path is ignored.  (The bulk check is
\* README.md:82, "like /jwt/check in bulk".)
AnsweredAtOnce ==
  status = "ok" /\ still /\ ~failed /\ ~PathIgnored =>
    /\ req.op = "find" =>
         list = {Result(0, WithMod(Plain(d)), seen[d]) :
                   d \in Page(Wanted, req.offset, req.limit)}
    /\ req.op \in {"ids", "select"} =>
         list = ResultsFor(Page(Wanted \cap PureIds, req.offset, req.limit))
    /\ req.op = "bulk" => list = ResultsFor(Wanted)
    /\ req.op \in {"find", "total"} => total = Cardinality(Wanted)
=============================================================================
