---------------------------- MODULE AccessProofs ----------------------------
(***************************************************************************)
(* Proofs about Access: for any users, groups, documents, requests,        *)
(* changes and faults, the three places that decide about rights agree,    *)
(* and no answer shows more than they allow.                               *)
(***************************************************************************)
EXTENDS Access, FiniteSetTheorems, TLAPS

\* Which request is in work at each step, and what it found so far.
StepOK ==
  /\ pc = "find" => req.op = "find"
  /\ pc = "ids" => req.op \in {"ids", "select"}
  /\ pc \in {"add", "again"} => req.op \in {"find", "ids", "select"} /\ req.mod # NoMod
  /\ pc = "bulk" => req.op = "bulk"
  /\ pc = "check" => req.op \in {"check", "rights"} /\ list = {}
  /\ pc = "get" => req.op = "rights"

\* A caller whose rights request reads the document may administrate it.
MayReport ==
  \/ AdminRole \in req.token.roles
  \/ checked # NoDoc /\ Permitted(checked, {"a"}, req.token)

ReportOK == req.op = "rights" /\ (pc = "get" \/ list # {}) => MayReport

\* After a failure only the second adding of a modifier goes on, with
\* nothing to add it to.
FailureOK ==
  failed => /\ status = "error" \/ (list = {} /\ req.mod # NoMod)
            /\ pc \in {"idle", "again"}

\* Results are reported with the letters they were searched for.
ReportsAsked ==
  req.op \in {"find", "ids", "select", "bulk"} =>
    \A it \in list : Permitted(it.entry, Asked, req.token)

IInv == TypeOK /\ StepOK /\ ReportsAsked /\ ReportOK /\ FailureOK

-----------------------------------------------------------------------------
(* The decisions.                                                          *)

LEMMA LettersAreRights ==
  ASSUME NEW rights
  PROVE  Letters(rights) \subseteq Right
BY DEF Letters

\* The check of one document is the report of its rights.
LEMMA CheckIsReport ==
  ASSUME NEW e \in Entry, NEW rights, NEW t \in Token
  PROVE  PassesCheck(e, rights, t) <=> Permitted(e, rights, t)
<1>1. \A r \in Letters(rights) :
        GetPermissions(e, t)[r] = (t.user \in e.users[r] \/ e.groups[r] \cap t.roles # {})
  BY LettersAreRights DEF GetPermissions
<1> QED
  BY <1>1 DEF PassesCheck, Permitted

\* The alternatives for a letter match if the user or one of the roles
\* holds it.
LEMMA OneLetter ==
  ASSUME NEW e \in Entry, NEW r \in Right, NEW t \in Token, t.user # NoUser
  PROVE  (Alternatives(r, t) # {} =>
            \E x \in Alternatives(r, t) : e[x.list][x.right] \cap x.values # {})
         <=> t.user \in e.users[r] \/ e.groups[r] \cap t.roles # {}
<1> DEFINE u == Term("users", r, {t.user})
           g == Term("groups", r, t.roles)
           Hit(x) == e[x.list][x.right] \cap x.values # {}
<1>1. u.list = "users" /\ u.right = r /\ u.values = {t.user}
  BY DEF Term
<1>2. g.list = "groups" /\ g.right = r /\ g.values = t.roles
  BY DEF Term
<1>3. u \in Alternatives(r, t)
  BY <1>1 DEF Alternatives
<1>4. Alternatives(r, t) \subseteq {u, g}
  BY DEF Alternatives
<1>5. t.roles # {} => g \in Alternatives(r, t)
  BY <1>2 DEF Alternatives
<1>6. e["users"] = e.users /\ e["groups"] = e.groups
  OBVIOUS
<1>7. Hit(u) <=> t.user \in e.users[r]
  BY <1>1, <1>6
<1>8. Hit(g) <=> e.groups[r] \cap t.roles # {}
  BY <1>2, <1>6
<1>9. Hit(g) => g \in Alternatives(r, t)
  BY <1>5, <1>8
<1> HIDE DEF u, g, Hit
<1>10. (\E x \in Alternatives(r, t) : Hit(x)) <=> Hit(u) \/ Hit(g)
  BY <1>3, <1>4, <1>9
<1> QED
  BY <1>3, <1>7, <1>8, <1>10 DEF Hit

\* The filter of a search finds what the report allows.
THEOREM FilterIsReport ==
  ASSUME NEW e \in Entry, NEW rights, NEW t \in Token, t.user # NoUser
  PROVE  Matches(e, RightsQuery(rights, t)) <=> Permitted(e, rights, t)
<1>1. \A r \in Letters(rights) :
        (Alternatives(r, t) # {} =>
            \E x \in Alternatives(r, t) : e[x.list][x.right] \cap x.values # {})
         <=> GetPermissions(e, t)[r]
  BY LettersAreRights, OneLetter DEF GetPermissions
<1> QED
  BY <1>1 DEF Matches, RightsQuery, Permitted

-----------------------------------------------------------------------------
(* Searches.                                                               *)

LEMMA PageOf ==
  ASSUME NEW S, NEW from, NEW size
  PROVE  Page(S, from, size) \subseteq S
BY DEF Page

LEMMA RequestType ==
  ASSUME TypeOK
  PROVE  /\ req \in Request
         /\ req.token \in Token
         /\ req.op # "subject" => req.token.user # NoUser
         /\ req.ids \in Seq(RawId)
         /\ \A i \in DOMAIN req.ids : i \in Nat /\ req.ids[i] \in RawId
         /\ req.op \in {"check", "rights"} => req.ids[1] \in RawId
<1>1. req \in Request /\ req \in Requests
  BY AccessAssumption DEF TypeOK
<1>2. req.token \in Token /\ req.ids \in Seq(RawId)
  BY <1>1 DEF Request
<1>3. \A i \in DOMAIN req.ids : i \in Nat /\ req.ids[i] \in RawId
  BY <1>2
<1>4. req.op \in {"check", "rights"} => Len(req.ids) = 1
  BY <1>1, AccessAssumption
<1>5. DOMAIN req.ids = 1 .. Len(req.ids)
  BY <1>2
<1> QED
  BY <1>1, <1>2, <1>3, <1>4, <1>5, AccessAssumption

\* What a list may show.
Fine(it) == it \in Results /\ (req.op # "subject" => Permitted(it.entry, Asked, req.token))

LEMMA HitsAreFine ==
  ASSUME TypeOK, NEW d \in Ids, seen[d] # NoDoc, req.op # "subject",
         Matches(seen[d], RightsQuery(Asked, req.token))
  PROVE  seen[d] \in Entry /\ Permitted(seen[d], Asked, req.token)
<1>1. seen[d] \in Entry
  BY DEF TypeOK
<1> QED
  BY <1>1, RequestType, FilterIsReport

LEMMA HitsFinite ==
  ASSUME NEW S \in SUBSET Ids
  PROVE  Cardinality(S) \in Nat
BY FS_Subset, FS_CardinalityType, AccessAssumption

LEMMA PreparedFine ==
  ASSUME TypeOK, req.op # "subject", NEW found \in SUBSET Hits
  PROVE  \A it \in Prepared(found) : Fine(it)
<1> SUFFICES ASSUME NEW i \in DOMAIN req.ids, req.ids[i].pure \in found
             PROVE  Fine(Result(i, req.ids[i], seen[req.ids[i].pure]))
  BY DEF Prepared
<1>1. req.ids[i] \in RawId /\ i \in Nat
  BY RequestType
<1>2. req.ids[i].pure \in Ids
  BY <1>1 DEF RawId
<1>3. /\ seen[req.ids[i].pure] \in Entry
      /\ Permitted(seen[req.ids[i].pure], Asked, req.token)
  BY <1>2, HitsAreFine DEF Hits
<1> QED
  BY <1>1, <1>3 DEF Fine, Results, Result

LEMMA ModifiedFine ==
  ASSUME TypeOK, req.op # "subject"
  PROVE  \A it \in Modified : Fine(it)
<1> SUFFICES ASSUME NEW x \in list, x.id.pure \in Ids, seen[x.id.pure] # NoDoc,
                    Matches(seen[x.id.pure], RightsQuery(Asked, req.token))
             PROVE  Fine(Result(x.pos, [x.id EXCEPT !.mod = req.mod], seen[x.id.pure]))
  BY PageOf DEF Modified
<1>1. x \in Results
  BY DEF TypeOK
<1>2. req.mod \in Mods \cup {NoMod}
  BY RequestType DEF Request
<1>3. [x.id EXCEPT !.mod = req.mod] \in RawId
  BY <1>1, <1>2 DEF Results, RawId
<1>4. /\ seen[x.id.pure] \in Entry
      /\ Permitted(seen[x.id.pure], Asked, req.token)
  BY HitsAreFine
<1> QED
  BY <1>1, <1>3, <1>4 DEF Fine, Results, Result

-----------------------------------------------------------------------------
(* The invariant is inductive.                                             *)

LEMMA InitIInv == Init => IInv
<1> SUFFICES ASSUME Init PROVE IInv
  OBVIOUS
<1>1. Contents \subseteq Entry /\ MaxChanges \in Nat /\ MaxFaults \in Nat
  BY AccessAssumption
<1>2. doc \in [Ids -> Entry \cup {NoDoc}] /\ seen = doc
  BY <1>1 DEF Init
<1>3. changes \in 0 .. MaxChanges /\ faults \in 0 .. MaxFaults
  BY <1>1 DEF Init
<1>4. TypeOK
  BY <1>2, <1>3 DEF Init, TypeOK
<1> QED
  BY <1>4 DEF Init, IInv, StepOK, ReportsAsked, ReportOK, FailureOK

\* A list of fine results keeps the parts of the invariant about results.
LEMMA FineList ==
  ASSUME TypeOK, req.op # "subject", req' = req, \A it \in list' : Fine(it)
  PROVE  list' \subseteq Results /\ ReportsAsked'
BY DEF Fine, ReportsAsked, Asked, Permitted

LEMMA NextIInv == IInv /\ [Next]_vars => IInv'
<1> SUFFICES ASSUME IInv, [Next]_vars PROVE IInv'
  OBVIOUS
<1> USE DEF IInv
<1>1. ASSUME NEW q \in Requests, Ask(q) PROVE IInv'
  <2>1. q \in Request
    BY AccessAssumption
  <2>2. /\ FirstStep(q) \in {"find", "ids", "bulk", "total", "subject", "check", "get"}
        /\ FirstStep(q) = "find" => q.op = "find"
        /\ FirstStep(q) = "ids" => q.op \in {"ids", "select"}
        /\ FirstStep(q) = "bulk" => q.op = "bulk"
        /\ FirstStep(q) = "check" => q.op \in {"check", "rights"}
        /\ FirstStep(q) = "get" => q.op = "rights" /\ AdminRole \in q.token.roles
    BY <2>1 DEF FirstStep, Request
  <2>3. TypeOK'
    BY <1>1, <2>2 DEF Ask, TypeOK, indexVars
  <2>4. StepOK' /\ ReportsAsked' /\ ReportOK' /\ FailureOK'
    BY <1>1, <2>2 DEF Ask, StepOK, ReportsAsked, ReportOK, MayReport, FailureOK
  <2> QED BY <2>3, <2>4
<1>2. CASE Find
  <2>1. req.op = "find"
    BY <1>2 DEF Find, StepOK
  <2>2. ASSUME NEW d \in Hits PROVE Fine(Result(0, Plain(d), seen[d]))
    <3>1. seen[d] \in Entry /\ Permitted(seen[d], Asked, req.token) /\ d \in Ids
      BY <2>1, HitsAreFine DEF Hits
    <3> QED
      BY <3>1 DEF Fine, Results, Result, Plain, RawId
  <2>3. \A it \in list' : Fine(it)
    BY <1>2, <2>2, PageOf DEF Find
  <2>4. Cardinality(Hits) \in Nat
    BY HitsFinite DEF Hits
  <2>5. list' \subseteq Results /\ ReportsAsked'
    BY <1>2, <2>1, <2>3, FineList DEF Find
  <2>6. TypeOK'
    BY <1>2, <2>4, <2>5 DEF Find, TypeOK, Answer, Continue, indexVars, historyVars
  <2>7. StepOK' /\ ReportOK' /\ FailureOK'
    BY <1>2, <2>1 DEF Find, Answer, Continue, indexVars, historyVars, StepOK, ReportOK, FailureOK
  <2> QED BY <2>5, <2>6, <2>7
<1>3. CASE FindIds
  <2>1. req.op \in {"ids", "select"}
    BY <1>3 DEF FindIds, StepOK
  <2>2. \A it \in list' : Fine(it)
    <3>1. Page(Hits \cap PureIds, req.offset, req.limit) \subseteq Hits
      BY PageOf
    <3> QED BY <1>3, <2>1, <3>1, PreparedFine DEF FindIds
  <2>3. Cardinality(Hits \cap PureIds) \in Nat
    BY HitsFinite DEF Hits
  <2>4. list' \subseteq Results /\ ReportsAsked'
    BY <1>3, <2>1, <2>2, FineList DEF FindIds
  <2>5. TypeOK'
    BY <1>3, <2>3, <2>4 DEF FindIds, TypeOK, Answer, Continue, indexVars, historyVars
  <2>6. StepOK' /\ ReportOK' /\ FailureOK'
    BY <1>3, <2>1 DEF FindIds, Answer, Continue, indexVars, historyVars, StepOK, ReportOK, FailureOK
  <2> QED BY <2>4, <2>5, <2>6
<1>4. CASE AddModifier \/ AddAgain
  <2>1. req.op \in {"find", "ids", "select"} /\ req.mod # NoMod
    BY <1>4 DEF AddModifier, AddAgain, StepOK
  <2>2. list' = Modified /\ req' = req
    BY <1>4 DEF AddModifier, AddAgain
  <2>3. list' \subseteq Results /\ ReportsAsked'
    BY <2>1, <2>2, ModifiedFine, FineList
  <2>4. TypeOK'
    BY <1>4, <2>3 DEF AddModifier, AddAgain, TypeOK, Answer, Continue, indexVars, historyVars
  <2>5. list = {} => list' = {}
    BY <2>2 DEF Modified
  <2>6. StepOK' /\ ReportOK'
    BY <1>4, <2>1 DEF AddModifier, AddAgain, Answer, Continue, StepOK, ReportOK
  <2>7. FailureOK'
    BY <1>4, <2>1, <2>5 DEF AddModifier, AddAgain, Answer, Continue, historyVars, FailureOK, TypeOK
  <2> QED BY <2>3, <2>4, <2>6, <2>7
<1>5. CASE CheckList
  <2>1. req.op = "bulk"
    BY <1>5 DEF CheckList, StepOK
  <2>2. \A it \in list' : Fine(it)
    <3>1. Page(Hits \cap PureIds, 0, Cardinality(PureIds)) \subseteq Hits
      BY PageOf
    <3> QED BY <1>5, <2>1, <3>1, PreparedFine DEF CheckList
  <2>3. list' \subseteq Results /\ ReportsAsked'
    BY <1>5, <2>1, <2>2, FineList DEF CheckList
  <2>4. TypeOK'
    BY <1>5, <2>3 DEF CheckList, TypeOK, Answer, indexVars, historyVars
  <2>5. StepOK' /\ ReportOK' /\ FailureOK'
    BY <1>5, <2>1 DEF CheckList, Answer, historyVars, StepOK, ReportOK, FailureOK
  <2> QED BY <2>3, <2>4, <2>5
<1>6. CASE CountAll
  <2>1. Cardinality(Hits) \in Nat
    BY HitsFinite DEF Hits
  <2>2. TypeOK'
    BY <1>6, <2>1 DEF CountAll, TypeOK, Answer, indexVars, historyVars
  <2>3. StepOK' /\ ReportOK' /\ FailureOK' /\ ReportsAsked'
    BY <1>6 DEF CountAll, Answer, historyVars, StepOK, ReportOK, MayReport, FailureOK,
                ReportsAsked, Asked, Permitted
  <2> QED BY <2>2, <2>3
<1>7. CASE CheckSubject
  <2>1. TypeOK'
    BY <1>7 DEF CheckSubject, TypeOK, Answer, indexVars, historyVars
  <2>2. StepOK' /\ ReportOK' /\ FailureOK' /\ ReportsAsked'
    BY <1>7 DEF CheckSubject, Answer, historyVars, StepOK, ReportOK, MayReport, FailureOK,
                ReportsAsked, Asked, Permitted
  <2> QED BY <2>1, <2>2
<1>8. CASE CheckOne
  <2>1. req.op \in {"check", "rights"} /\ list = {} /\ pc = "check"
    BY <1>8 DEF CheckOne, StepOK
  <2> DEFINE e == doc[req.ids[1].pure]
             rights == IF req.op = "rights" THEN {"a"} ELSE req.rights
  <2>2. e \in Entry \cup {NoDoc}
    BY <2>1, RequestType DEF RawId, TypeOK
  <2>3. /\ checked' = e
        /\ \/ Answer("denied")
           \/ Answer("ok")
           \/ /\ e # NoDoc /\ PassesCheck(e, rights, req.token)
              /\ req.op = "rights" /\ Continue("get")
        /\ UNCHANGED <<indexVars, req, list, total, failed, still, faults>>
    BY <1>8 DEF CheckOne
  <2>4. TypeOK'
    BY <2>2, <2>3 DEF TypeOK, Answer, Continue, indexVars
  <2>5. ASSUME pc' = "get" PROVE MayReport'
    <3>1. e # NoDoc /\ PassesCheck(e, {"a"}, req.token)
      BY <2>3, <2>5 DEF Answer
    <3>2. Permitted(e, {"a"}, req.token)
      BY <2>2, <3>1, RequestType, CheckIsReport
    <3> QED
      BY <2>3, <3>1, <3>2 DEF MayReport, Permitted
  <2>6. StepOK' /\ ReportsAsked' /\ ReportOK'
    BY <2>1, <2>3, <2>5 DEF Answer, Continue, StepOK, ReportsAsked, ReportOK
  <2>7. FailureOK'
    BY <2>1, <2>3 DEF FailureOK
  <2> QED BY <2>4, <2>6, <2>7
<1>9. CASE GetEntry
  <2>1. req.op = "rights" /\ pc = "get" /\ MayReport
    BY <1>9 DEF GetEntry, StepOK, ReportOK
  <2> DEFINE e == doc[req.ids[1].pure]
  <2>2. e \in Entry \cup {NoDoc} /\ req.ids[1] \in RawId
    BY <2>1, RequestType DEF RawId, TypeOK
  <2>3. list' \subseteq Results
    BY <1>9, <2>2 DEF GetEntry, Results, Result
  <2>4. TypeOK'
    BY <1>9, <2>3 DEF GetEntry, TypeOK, Answer, indexVars, historyVars
  <2>5. MayReport'
    BY <1>9, <2>1 DEF GetEntry, MayReport, Permitted, historyVars
  <2>6. StepOK' /\ ReportsAsked' /\ ReportOK' /\ FailureOK'
    BY <1>9, <2>1, <2>5 DEF GetEntry, Answer, historyVars, StepOK, ReportsAsked, ReportOK, FailureOK
  <2> QED BY <2>4, <2>6
<1>10. CASE ListFails \/ AddFails \/ AddAgainFails
  <2>1. list' = {} /\ req' = req /\ failed' = TRUE /\ checked' = checked
    BY <1>10 DEF ListFails, AddFails, AddAgainFails, Fail
  <2>2. TypeOK'
    <3>1. MaxFaults \in Nat
      BY AccessAssumption
    <3>2. total' \in Nat /\ faults' \in 0 .. MaxFaults
      BY <1>10, <3>1 DEF ListFails, AddFails, AddAgainFails, Fail, TypeOK
    <3>3. /\ pc' \in {"idle", "again"}
          /\ status' \in {"none", "ok", "error"}
          /\ pc' # "idle" => status' = "none"
      BY <1>10 DEF ListFails, AddFails, AddAgainFails, Answer, Continue
    <3>4. UNCHANGED <<indexVars, still>>
      BY <1>10 DEF ListFails, AddFails, AddAgainFails, Fail
    <3> QED
      BY <2>1, <3>2, <3>3, <3>4 DEF TypeOK, indexVars
  <2>3. \/ pc' = "idle"
        \/ pc = "add" /\ pc' = "again"
    BY <1>10 DEF ListFails, AddFails, AddAgainFails, Answer, Continue
  <2>4. status' = "error" \/ req.mod # NoMod
    BY <1>10 DEF ListFails, AddFails, AddAgainFails, Answer, StepOK
  <2>5. StepOK' /\ ReportsAsked' /\ ReportOK' /\ FailureOK'
    BY <2>1, <2>3, <2>4 DEF StepOK, ReportsAsked, ReportOK, FailureOK
  <2> QED BY <2>2, <2>5
<1>11. CASE CheckFails
  <2>1. TypeOK'
    BY <1>11, AccessAssumption DEF CheckFails, Fail, TypeOK, Answer, indexVars
  <2>2. StepOK' /\ ReportOK' /\ FailureOK' /\ ReportsAsked'
    BY <1>11 DEF CheckFails, Fail, Answer, StepOK, ReportOK, MayReport, FailureOK,
                 ReportsAsked, Asked, Permitted
  <2> QED BY <2>1, <2>2
<1>12. ASSUME NEW d \in Ids, Change(d) PROVE IInv'
  <2>1. TypeOK'
    BY <1>12, AccessAssumption DEF Change, TypeOK, historyVars
  <2>2. StepOK' /\ ReportOK' /\ FailureOK' /\ ReportsAsked'
    BY <1>12 DEF Change, historyVars, StepOK, ReportOK, MayReport, FailureOK,
                 ReportsAsked, Asked, Permitted
  <2> QED BY <2>1, <2>2
<1>13. CASE Refresh
  <2>1. TypeOK'
    BY <1>13 DEF Refresh, TypeOK
  <2>2. StepOK' /\ ReportOK' /\ FailureOK' /\ ReportsAsked'
    BY <1>13 DEF Refresh, StepOK, ReportOK, MayReport, FailureOK,
                 ReportsAsked, Asked, Permitted
  <2> QED BY <2>1, <2>2
<1>14. CASE UNCHANGED vars
  BY <1>14 DEF vars, TypeOK, StepOK, ReportOK, MayReport, FailureOK,
               ReportsAsked, Asked, Permitted
<1> QED
  BY <1>1, <1>2, <1>3, <1>4, <1>5, <1>6, <1>7, <1>8, <1>9, <1>10, <1>11, <1>12, <1>13, <1>14
  DEF Next

THEOREM SpecIInv == Spec => []IInv
<1> QED BY InitIInv, NextIInv, PTL DEF Spec

-----------------------------------------------------------------------------
(* Results.                                                                *)

\* TypeOK is an invariant of the reading half of the API.
THEOREM TypeCorrect == Spec => []TypeOK
<1>1. IInv => TypeOK
  BY DEF IInv
<1> QED BY <1>1, SpecIInv, PTL

\* The check of one document, the filter of a search and the report of
\* rights decide alike (query.go:234, :99, :1081), whatever the documents.
THEOREM DecisionsAlwaysAgree == Spec => []DecisionsAgree
<1>1. TypeOK => DecisionsAgree
  <2> SUFFICES ASSUME TypeOK, NEW d \in Ids, NEW q \in Requests,
                      doc[d] # NoDoc, q.token.user # NoUser
               PROVE  /\ PassesCheck(doc[d], q.rights, q.token)
                           <=> Permitted(doc[d], q.rights, q.token)
                      /\ Matches(doc[d], RightsQuery(q.rights, q.token))
                           <=> Permitted(doc[d], q.rights, q.token)
    BY DEF DecisionsAgree
  <2>1. doc[d] \in Entry
    BY DEF TypeOK
  <2>2. q.token \in Token
    BY AccessAssumption DEF Request
  <2> QED BY <2>1, <2>2, CheckIsReport, FilterIsReport
<1> QED BY <1>1, TypeCorrect, PTL

\* No result of a list lacks a right that was asked for, whatever changes
\* between the searches of a request.
THEOREM AlwaysListedAsPermitted == Spec => []ListedAsPermitted
<1>1. ~PathIgnored => Letters(Asked) = Letters(req.rights)
  BY DEF PathIgnored, Asked
<1>2. IInv => ListedAsPermitted
  BY <1>1 DEF IInv, ReportsAsked, ListedAsPermitted, Permitted
<1> QED BY <1>2, SpecIInv, PTL

\* Rights are reported only to administrators.
THEOREM OnlyAdministratorsGetRights == Spec => []RightsNeedAdministrator
<1>1. IInv => RightsNeedAdministrator
  BY DEF IInv, ReportOK, MayReport, RightsNeedAdministrator
<1> QED BY <1>1, SpecIInv, PTL

\* A request that failed in part never shows part of its results.
THEOREM NoPartialAnswers == Spec => []AnswersAfterFailure
<1>1. IInv => AnswersAfterFailure
  BY DEF IInv, FailureOK, AnswersAfterFailure
<1> QED BY <1>1, SpecIInv, PTL

-----------------------------------------------------------------------------
(* Requests whose searches see the same documents.                         *)

\* A function on a finite set has no more values than arguments.
LEMMA ImageFinite ==
  ASSUME NEW S, IsFiniteSet(S), NEW f, NEW T, T = {f[x] : x \in S}
  PROVE  IsFiniteSet(T) /\ Cardinality(T) \in Nat /\ Cardinality(T) <= Cardinality(S)
<1> DEFINE g == [x \in S |-> f[x]]
<1>1. g \in Surjection(S, T)
  BY DEF Surjection
<1> QED
  BY <1>1, FS_Surjection, FS_CardinalityType

\* A page as large as the set is the set.
LEMMA WholePage ==
  ASSUME NEW S, S \subseteq Ids, NEW n \in Nat, Cardinality(S) <= n
  PROVE  Page(S, 0, n) = S
<1>1. IsFiniteSet(S) /\ Cardinality(S) \in Nat
  BY AccessAssumption, FS_Subset, FS_CardinalityType
<1>2. ASSUME NEW d \in S PROVE Cardinality({e \in S : e < d}) \in 0 .. 0 + n - 1
  <2> DEFINE B == {e \in S : e < d}
  <2>1. d \in Nat
    BY <1>2, AccessAssumption
  <2>2. B \subseteq S /\ B # S
    BY <2>1
  <2> HIDE DEF B
  <2>3. IsFiniteSet(B) /\ Cardinality(B) <= Cardinality(S) /\ Cardinality(B) # Cardinality(S)
    BY <1>1, <2>2, FS_Subset
  <2>4. Cardinality(B) \in Nat
    BY <2>3, FS_CardinalityType
  <2>5. Cardinality(B) \in 0 .. 0 + n - 1
    BY <1>1, <2>3, <2>4
  <2> QED
    BY <2>5 DEF B
<1> QED
  BY <1>2 DEF Page

\* The documents the single check allows for the letters that are searched
\* for, and the answer in one step with them.
Found == {d \in Ids : /\ seen[d] # NoDoc
                      /\ PassesCheck(seen[d], Asked, req.token)
                      /\ HasFeature(seen[d])}

FoundAtOnce ==
  status = "ok" /\ still /\ ~failed =>
    /\ req.op = "find" =>
         list = {Result(0, WithMod(Plain(d)), seen[d]) :
                   d \in Page(Found, req.offset, req.limit)}
    /\ req.op \in {"ids", "select"} =>
         list = ResultsFor(Page(Found \cap PureIds, req.offset, req.limit))
    /\ req.op = "bulk" => list = ResultsFor(Found)
    /\ req.op \in {"find", "total"} => total = Cardinality(Found)

\* A search finds what the single check allows.
LEMMA HitsAreFound ==
  ASSUME TypeOK, req.op # "subject"
  PROVE  /\ Hits = Found
         /\ Found \subseteq {d \in Ids : /\ seen[d] # NoDoc
                                          /\ Matches(seen[d], RightsQuery(Asked, req.token))}
<1>1. ASSUME NEW d \in Ids, seen[d] # NoDoc
      PROVE  Matches(seen[d], RightsQuery(Asked, req.token))
               <=> PassesCheck(seen[d], Asked, req.token)
  <2>1. seen[d] \in Entry
    BY <1>1 DEF TypeOK
  <2> QED
    BY <2>1, RequestType, FilterIsReport, CheckIsReport
<1> QED
  BY <1>1 DEF Hits, Found

\* The lists before a modifier is added and after it.
Raw ==
  IF req.op = "find"
    THEN {Result(0, Plain(d), seen[d]) : d \in Page(Found, req.offset, req.limit)}
    ELSE Prepared(Page(Found \cap PureIds, req.offset, req.limit))

Final ==
  IF req.op = "find"
    THEN {Result(0, WithMod(Plain(d)), seen[d]) : d \in Page(Found, req.offset, req.limit)}
    ELSE ResultsFor(Page(Found \cap PureIds, req.offset, req.limit))

\* Both have a result for each member of one finite set.
Places ==
  IF req.op = "find"
    THEN Page(Found, req.offset, req.limit)
    ELSE {j \in DOMAIN req.ids :
            req.ids[j].pure \in Page(Found \cap PureIds, req.offset, req.limit)}

PureAt(p) == IF req.op = "find" THEN p ELSE req.ids[p].pure

ResultAt(p, id) ==
  Result(IF req.op = "find" THEN 0 ELSE p, id, seen[PureAt(p)])

IdAt(p) == IF req.op = "find" THEN Plain(p) ELSE req.ids[p]

LEMMA ListsByPlaces ==
  /\ Raw = {ResultAt(p, IdAt(p)) : p \in Places}
  /\ Final = {ResultAt(p, WithMod(IdAt(p))) : p \in Places}
<1>1. CASE req.op = "find"
  BY <1>1 DEF Raw, Final, Places, PureAt, ResultAt, IdAt
<1>2. CASE req.op # "find"
  BY <1>2 DEF Raw, Final, Places, PureAt, ResultAt, IdAt, Prepared, ResultsFor
<1> QED
  BY <1>1, <1>2

LEMMA PlacesOK ==
  ASSUME TypeOK
  PROVE  /\ IsFiniteSet(Places)
         /\ \A p \in Places : /\ PureAt(p) \in Found /\ PureAt(p) \in Ids
                              /\ IdAt(p).pure = PureAt(p)
                              /\ IdAt(p) \in RawId
<1>1. Found \subseteq Ids /\ IsFiniteSet(Ids)
  BY AccessAssumption DEF Found
<1>2. \A S, n, m : Page(S, n, m) \subseteq S
  BY PageOf
<1>3. CASE req.op = "find"
  <2>1. Places \subseteq Found
    BY <1>2, <1>3 DEF Places
  <2>2. IsFiniteSet(Places)
    BY <1>1, <2>1, FS_Subset
  <2> QED
    BY <1>1, <1>3, <2>1, <2>2 DEF PureAt, IdAt, Plain, RawId
<1>4. CASE req.op # "find"
  <2>1. /\ Places \subseteq DOMAIN req.ids
        /\ \A p \in Places : req.ids[p].pure \in Found
    BY <1>2, <1>4 DEF Places
  <2>2. DOMAIN req.ids = 1 .. Len(req.ids) /\ Len(req.ids) \in Nat
    BY RequestType
  <2>3. IsFiniteSet(DOMAIN req.ids)
    BY <2>2, FS_Interval
  <2>4. IsFiniteSet(Places)
    BY <2>1, <2>3, FS_Subset
  <2> QED
    BY <1>1, <1>4, <2>1, <2>4, RequestType DEF PureAt, IdAt
<1> QED
  BY <1>3, <1>4

\* Adding the modifier to all results of a list loses none of them, be it
\* for the first time or once more.
LEMMA ModifiedIsFinal ==
  ASSUME TypeOK, req.op # "subject", req.mod # NoMod, list = Raw \/ list = Final
  PROVE  Modified = Final
<1>1. PICK id : /\ list = {ResultAt(p, id[p]) : p \in Places}
                /\ \A p \in Places : /\ id[p].pure = PureAt(p)
                                     /\ [id[p] EXCEPT !.mod = req.mod] = WithMod(IdAt(p))
  <2>1. CASE list = Raw
    <3> DEFINE id == [p \in Places |-> IdAt(p)]
    <3>1. list = {ResultAt(p, id[p]) : p \in Places}
      BY <2>1, ListsByPlaces
    <3>2. \A p \in Places : /\ id[p].pure = PureAt(p)
                            /\ [id[p] EXCEPT !.mod = req.mod] = WithMod(IdAt(p))
      BY PlacesOK DEF WithMod
    <3> QED
      BY <3>1, <3>2
  <2>2. CASE list = Final
    <3> DEFINE id == [p \in Places |-> WithMod(IdAt(p))]
    <3>1. list = {ResultAt(p, id[p]) : p \in Places}
      BY <2>2, ListsByPlaces
    <3>2. \A p \in Places : /\ id[p].pure = PureAt(p)
                            /\ [id[p] EXCEPT !.mod = req.mod] = WithMod(IdAt(p))
      BY PlacesOK DEF WithMod, RawId
    <3> QED
      BY <3>1, <3>2
  <2> QED
    BY <2>1, <2>2
<1> DEFINE P == {it.id.pure : it \in list}
           A == {d \in Ids : /\ seen[d] # NoDoc
                             /\ Matches(seen[d], RightsQuery(Asked, req.token))}
           n == Cardinality(list)
<1>2. \A p \in Places : ResultAt(p, id[p]).id.pure = PureAt(p)
  BY <1>1 DEF ResultAt, Result
<1>3. P \subseteq Found /\ P \subseteq A /\ P \subseteq Ids
  BY <1>1, <1>2, PlacesOK, HitsAreFound
<1>4. IsFiniteSet(list) /\ n \in Nat
  <2> DEFINE f == [p \in Places |-> ResultAt(p, id[p])]
  <2>1. list = {f[p] : p \in Places}
    BY <1>1
  <2> HIDE DEF f
  <2> QED
    BY <2>1, PlacesOK, ImageFinite
<1>5. Cardinality(P) <= n
  <2> DEFINE f == [it \in list |-> it.id.pure]
  <2>1. P = {f[it] : it \in list}
    OBVIOUS
  <2> HIDE DEF f, P
  <2> QED
    BY <1>4, <2>1, ImageFinite
<1>6. Page(P \cap A, 0, n) = P
  <2>1. P \cap A = P
    BY <1>3
  <2> HIDE DEF P, A, n
  <2> QED
    BY <1>3, <1>4, <1>5, <2>1, WholePage
<1>7. Modified = {Result(it.pos, [it.id EXCEPT !.mod = req.mod], seen[it.id.pure]) :
                    it \in {x \in list : x.id.pure \in Page(P \cap A, 0, n)}}
  BY DEF Modified
<1>8. Modified = {Result(it.pos, [it.id EXCEPT !.mod = req.mod], seen[it.id.pure]) : it \in list}
  BY <1>6, <1>7
<1>9. ASSUME NEW p \in Places
      PROVE  LET it == ResultAt(p, id[p])
             IN  Result(it.pos, [it.id EXCEPT !.mod = req.mod], seen[it.id.pure])
                   = ResultAt(p, WithMod(IdAt(p)))
  BY <1>1, <1>2 DEF ResultAt, Result
<1>10. Modified = {ResultAt(p, WithMod(IdAt(p))) : p \in Places}
  <2> DEFINE G(it) == Result(it.pos, [it.id EXCEPT !.mod = req.mod], seen[it.id.pure])
             H(p) == ResultAt(p, WithMod(IdAt(p)))
             K(p) == ResultAt(p, id[p])
  <2>1. Modified = {G(it) : it \in list}
    BY <1>8
  <2>2. list = {K(p) : p \in Places}
    BY <1>1
  <2>3. \A p \in Places : G(K(p)) = H(p)
    BY <1>9
  <2> HIDE DEF G, H, K
  <2>4. Modified = {H(p) : p \in Places}
    BY <2>1, <2>2, <2>3
  <2> QED
    BY <2>4 DEF H
<1> QED
  BY <1>10, ListsByPlaces

\* Without modifier both lists are the same.
LEMMA RawIsFinal ==
  ASSUME req.mod = NoMod
  PROVE  Raw = Final
BY DEF Raw, Final, WithMod, Prepared, ResultsFor

\* What a request without failure has so far, if searches see the same
\* documents since it came in.
AtOnceOK ==
  /\ pc = "total" => req.op = "total"
  /\ pc = "subject" => req.op = "subject"
  /\ still /\ ~failed =>
       /\ pc = "add" => list = Raw
       /\ pc = "again" => list = Final
       /\ pc \in {"add", "again"} => (req.op = "find" => total = Cardinality(Found))
  /\ FoundAtOnce

LEMMA AtOnceInit == Init => AtOnceOK
BY DEF Init, AtOnceOK, FoundAtOnce

\* Steps that change nothing a request depends on.
LEMMA AtOnceKept ==
  ASSUME IInv, AtOnceOK, UNCHANGED <<seen, req, list, total, failed, still>>,
         status' = "ok" => status = "ok" \/ req.op \in {"check", "rights", "subject"},
         pc' \in {"add", "again", "total", "subject"} => pc' = pc
  PROVE  AtOnceOK'
<1>1. /\ Raw' = Raw /\ Final' = Final /\ Found' = Found
      /\ ResultsFor(Found)' = ResultsFor(Found)
  BY DEF Raw, Final, Found, Asked, HasFeature, PureIds, Prepared, ResultsFor, WithMod
<1>2. FoundAtOnce <=>
        (status = "ok" /\ still /\ ~failed =>
           /\ req.op \in {"find", "ids", "select"} => list = Final
           /\ req.op = "bulk" => list = ResultsFor(Found)
           /\ req.op \in {"find", "total"} => total = Cardinality(Found))
  BY DEF FoundAtOnce, Final
<1>3. FoundAtOnce' <=>
        (status' = "ok" /\ still' /\ ~failed' =>
           /\ req'.op \in {"find", "ids", "select"} => list' = Final'
           /\ req'.op = "bulk" => list' = ResultsFor(Found)'
           /\ req'.op \in {"find", "total"} => total' = Cardinality(Found'))
  BY DEF FoundAtOnce, Final
<1>4. FoundAtOnce'
  BY <1>1, <1>2, <1>3 DEF AtOnceOK
<1> QED
  BY <1>1, <1>4 DEF AtOnceOK

LEMMA AtOnceNext == IInv /\ AtOnceOK /\ [Next]_vars => AtOnceOK'
<1> SUFFICES ASSUME IInv, AtOnceOK, [Next]_vars PROVE AtOnceOK'
  OBVIOUS
<1>1. TypeOK /\ StepOK
  BY DEF IInv
<1>2. (pc # "idle" => status = "none") /\ (pc \in {"find", "ids", "add", "again"} => req.op # "subject")
  BY <1>1 DEF TypeOK, StepOK
<1>3. ASSUME NEW q \in Requests, Ask(q) PROVE AtOnceOK'
  <2>1. /\ pc' = "total" => q.op = "total"
        /\ pc' = "subject" => q.op = "subject"
        /\ pc' \notin {"add", "again"}
        /\ status' = "none" /\ req' = q
    <3>1. q.op \in {"find", "ids", "select", "check", "bulk", "rights", "total", "subject"}
      BY AccessAssumption DEF Request
    <3> QED
      BY <1>3, <3>1 DEF Ask, FirstStep
  <2> QED
    BY <2>1 DEF AtOnceOK, FoundAtOnce
<1>4. ASSUME UNCHANGED <<seen, req>>, pc' \notin {"total", "subject"},
             /\ req.op # "bulk"
             /\ still' /\ ~failed' =>
                  /\ req.op = "find" => total' = Cardinality(Found)
                  /\ req.op # "total"
                  /\ \/ pc' = "add" /\ status' = "none" /\ list' = Raw
                     \/ pc' = "again" /\ status' = "none" /\ list' = Final
                     \/ pc' = "idle" /\ list' = Final
      PROVE  AtOnceOK'
  <2>1. /\ Raw' = Raw /\ Final' = Final /\ Found' = Found
    BY <1>4 DEF Raw, Final, Found, Asked, HasFeature, PureIds, Prepared, ResultsFor, WithMod
  <2>2. /\ FoundAtOnce' <=>
             (status' = "ok" /\ still' /\ ~failed' =>
                /\ req.op \in {"find", "ids", "select"} => list' = Final'
                /\ req.op = "bulk" => list' = ResultsFor(Found)'
                /\ req.op \in {"find", "total"} => total' = Cardinality(Found'))
    BY <1>4 DEF FoundAtOnce, Final
  <2> QED
    BY <1>4, <2>1, <2>2 DEF AtOnceOK
<1>5. CASE Find \/ FindIds
  <2>1. req.op \in {"find", "ids", "select"} /\ (Find => req.op = "find")
        /\ (FindIds => req.op # "find")
    BY <1>1, <1>5 DEF Find, FindIds, StepOK
  <2>2. Hits = Found
    BY <1>1, <2>1, HitsAreFound
  <2>3. list' = Raw /\ (req.op = "find" => total' = Cardinality(Found))
    BY <1>5, <2>1, <2>2 DEF Find, FindIds, Raw
  <2>4. /\ UNCHANGED <<seen, req>>
        /\ IF req.mod = NoMod THEN pc' = "idle" ELSE pc' = "add" /\ status' = "none"
    BY <1>5 DEF Find, FindIds, Answer, Continue, indexVars
  <2> QED
    BY <1>4, <2>1, <2>3, <2>4, RawIsFinal
<1>6. CASE AddModifier \/ AddAgain
  <2>1. req.op \in {"find", "ids", "select"} /\ req.mod # NoMod /\ pc \in {"add", "again"}
    BY <1>1, <1>6 DEF AddModifier, AddAgain, StepOK
  <2>2. /\ UNCHANGED <<seen, req, total, failed, still>>
        /\ list' = Modified
        /\ \/ pc' = "again" /\ status' = "none"
           \/ pc' = "idle"
    BY <1>6 DEF AddModifier, AddAgain, Answer, Continue, indexVars, historyVars
  <2>3. still /\ ~failed => list' = Final /\ (req.op = "find" => total' = Cardinality(Found))
    BY <1>1, <2>1, <2>2, ModifiedIsFinal DEF AtOnceOK
  <2> QED
    BY <1>4, <2>1, <2>2, <2>3
<1>7. CASE CheckList
  <2>1. req.op = "bulk" /\ req.mod = NoMod
    BY <1>1, <1>7, AccessAssumption DEF CheckList, StepOK, TypeOK
  <2>2. Hits = Found /\ Found \subseteq Ids
    BY <1>1, <2>1, HitsAreFound DEF Found
  <2>3. list' = ResultsFor(Found)
    <3> DEFINE S == Found \cap PureIds
               n == Cardinality(PureIds)
    <3>1. IsFiniteSet(PureIds) /\ n \in Nat /\ S \subseteq PureIds
      <4>1. PureIds \subseteq Ids
        BY <1>1, RequestType DEF PureIds, RawId
      <4> QED
        BY <4>1, AccessAssumption, FS_Subset, FS_CardinalityType
    <3>2. Cardinality(S) <= n /\ S \subseteq Ids
      BY <2>2, <3>1, FS_Subset
    <3>3. Page(S, 0, n) = S
      <4> HIDE DEF S, n
      <4> QED
        BY <3>1, <3>2, WholePage
    <3>4. list' = Prepared(S)
      BY <1>7, <2>2, <3>3 DEF CheckList
    <3>5. \A i \in DOMAIN req.ids : req.ids[i].pure \in S <=> req.ids[i].pure \in Found
      BY DEF PureIds
    <3> QED
      BY <2>1, <3>4, <3>5 DEF Prepared, ResultsFor, WithMod
  <2>4. UNCHANGED <<seen, req>> /\ pc' = "idle"
    BY <1>7 DEF CheckList, Answer, indexVars
  <2>5. ResultsFor(Found)' = ResultsFor(Found)
    BY <2>4 DEF ResultsFor, WithMod, Found, Asked, HasFeature
  <2> QED
    BY <2>1, <2>3, <2>4, <2>5 DEF AtOnceOK, FoundAtOnce
<1>8. CASE CountAll
  <2>1. req.op = "total" /\ UNCHANGED <<seen, req>> /\ pc' = "idle" /\ total' = Cardinality(Hits)
    BY <1>8 DEF CountAll, Answer, indexVars, AtOnceOK
  <2>2. Hits = Found
    BY <1>1, <2>1, HitsAreFound
  <2>3. Found' = Found
    BY <2>1 DEF Found, Asked, HasFeature
  <2> QED
    BY <2>1, <2>2, <2>3 DEF AtOnceOK, FoundAtOnce
<1>9. CASE CheckSubject
  <2>1. req.op = "subject" /\ UNCHANGED req /\ pc' = "idle"
    BY <1>9 DEF CheckSubject, Answer, AtOnceOK
  <2> QED
    BY <2>1 DEF AtOnceOK, FoundAtOnce
<1>10. CASE CheckOne \/ GetEntry
  <2>1. req.op \in {"check", "rights"} /\ UNCHANGED req /\ pc' \in {"idle", "get"}
    BY <1>1, <1>10 DEF CheckOne, GetEntry, Answer, Continue, StepOK
  <2> QED
    BY <2>1 DEF AtOnceOK, FoundAtOnce
<1>11. CASE ListFails \/ AddFails \/ AddAgainFails \/ CheckFails
  <2>1. failed' /\ pc' \in {"idle", "again"}
    BY <1>11 DEF ListFails, AddFails, AddAgainFails, CheckFails, Fail, Answer, Continue
  <2> QED
    BY <2>1 DEF AtOnceOK, FoundAtOnce
<1>12. CASE \E d \in Ids : Change(d)
  BY <1>12, AtOnceKept DEF Change, historyVars
<1>13. CASE Refresh
  <2>1. ~still' /\ pc' = pc /\ req' = req
    BY <1>13 DEF Refresh
  <2> QED
    BY <2>1 DEF AtOnceOK, FoundAtOnce
<1>14. CASE UNCHANGED vars
  BY <1>14, AtOnceKept DEF vars
<1> QED
  BY <1>3, <1>5, <1>6, <1>7, <1>8, <1>9, <1>10, <1>11, <1>12, <1>13, <1>14 DEF Next

\* If searches see the same documents all the time, a request without
\* failure is answered as if it was one step, be it one search or three
\* (GetList, getListFromIds, addParsedModifier, CheckListUserOrGroup, Total).
THEOREM OneStepAnswers == Spec => []AnsweredAtOnce
<1>1. ~PathIgnored => Found = Wanted
  <2>1. ~PathIgnored => Letters(Asked) = Letters(req.rights)
    BY DEF PathIgnored, Asked
  <2> QED
    BY <2>1 DEF Found, Wanted, PassesCheck
<1>2. FoundAtOnce => AnsweredAtOnce
  BY <1>1 DEF FoundAtOnce, AnsweredAtOnce
<1>3. AtOnceOK => AnsweredAtOnce
  BY <1>2 DEF AtOnceOK
<1> QED
  BY <1>3, InitIInv, NextIInv, AtOnceInit, AtOnceNext, PTL DEF Spec
=============================================================================
