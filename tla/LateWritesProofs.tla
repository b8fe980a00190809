-------------------------- MODULE LateWritesProofs --------------------------
(***************************************************************************)
(* Proofs about LateWrites for every content of the resource topic, every  *)
(* number of faults, imports and writes of others, and writes that are     *)
(* executed arbitrarily late.                                              *)
(***************************************************************************)
EXTENDS LateWrites, RightsProofs, SequenceTheorems

\* A message whose handler was successful is behind the bound, although the
\* reader has not passed it yet.
Bound == IF pc \in {"done", "commit"} THEN pos + 1 ELSE pos

\* What the handler's place says about its message.
ControlOK ==
  /\ pc \in {"get", "index"} => Msg.cmd \in {"PUT", "RIGHTS"}
  /\ pc = "create" => Msg.cmd = "PUT" /\ (doc[Id] = NoDoc \/ Id \in blind)
  /\ pc = "delete" => Msg.cmd = "DELETE"
  /\ pc = "sent" <=> awaited # 0

\* The entry read is the present one as long as its version is.
ReadCurrent ==
  pc = "index" =>
    /\ read \in [entry : Entry, ver : Nat]
    /\ read.ver <= ver[Id]
    /\ doc[Id] # NoDoc /\ ver[Id] = read.ver => doc[Id] = read.entry

\* A write without condition stems from a message of the topic.
FromLog(r) ==
  /\ r.kind = "create" =>
       \E i \in DOMAIN log : /\ log[i].cmd = "PUT" /\ log[i].id = r.id
                             /\ r.entry \in NewEntries(log[i].owner, log[i].features)
  /\ r.kind = "delete" =>
       /\ r.entry = NoDoc
       /\ \E i \in DOMAIN log : log[i].cmd = "DELETE" /\ log[i].id = r.id

\* The entry of a write is what one message makes of the present entry; a
\* PUT that is applied late is one the reader has not passed.
Applied(r) ==
  \/ \E i \in DOMAIN Others : Others[i].id = r.id /\ r.entry = PermEffect(doc[r.id], Others[i])
  \/ \E i \in DOMAIN log : /\ log[i].cmd = "RIGHTS" /\ log[i].id = r.id
                           /\ r.entry \in RightsEffects(doc[r.id], log[i])
  \/ \E i \in DOMAIN log : /\ i > Bound
                           /\ log[i].cmd = "PUT" /\ log[i].id = r.id
                           /\ r.entry \in FeaturesEffects(doc[r.id], log[i])

Current(r) ==
  r.kind = "index" =>
    /\ r.entry # NoDoc
    /\ r.ver <= ver[r.id]
    /\ doc[r.id] # NoDoc /\ ver[r.id] = r.ver => Applied(r)

\* The write the handler waits for is the one of its message.
Expected(r) ==
  r.n = awaited =>
    /\ r.id = Id
    /\ r.kind = "index" => Msg.cmd \in {"PUT", "RIGHTS"}
    /\ r.kind = "create" => Msg.cmd = "PUT" /\ (doc[r.id] = NoDoc \/ r.id \in blind)
    /\ r.kind = "delete" => Msg.cmd = "DELETE"
    /\ Msg.cmd = "PUT" => r.entry # NoDoc /\ r.entry.features = Msg.features

WireOK == \A r \in wire : r.n \in 1..sent /\ FromLog(r) /\ Current(r) /\ Expected(r)

\* FollowsUnlessBlind with the bound of the handler.
Follows == \A id \in Ids \ blind : \E q \in Bound..Len(log) : ReflectsPrefix(id, q)

IInv == TypeOK /\ ControlOK /\ ReadCurrent /\ WireOK /\ Follows

-----------------------------------------------------------------------------
\* The messages of the topic and of the other consumer.
LEMMA LogType ==
  ASSUME TypeOK
  PROVE  /\ Len(log) \in Nat /\ DOMAIN log = 1..Len(log)
         /\ \A i \in DOMAIN log : /\ log[i] \in ResourceCommand
                                  /\ log[i].cmd \in {"PUT", "RIGHTS", "DELETE"}
                                  /\ log[i].id \in Ids
                                  /\ log[i].rights # NoRights
<1>1. log \in Logs
  BY DEF TypeOK
<1>2. log \in Seq(ResourceCommand)
  BY <1>1, LateWritesAssumption
<1>3. \A i \in DOMAIN log : /\ log[i].cmd \in {"PUT", "RIGHTS", "DELETE"}
                            /\ log[i].id \in Ids
                            /\ log[i].rights # NoRights
  BY <1>1, LateWritesAssumption
<1> QED
  BY <1>2, <1>3

LEMMA MsgType ==
  ASSUME TypeOK, pc \notin {"down", "off", "fetch"}
  PROVE  /\ pos + 1 \in DOMAIN log
         /\ Msg \in ResourceCommand
         /\ Msg.cmd \in {"PUT", "RIGHTS", "DELETE"}
         /\ Id \in Ids
         /\ Msg.rights # NoRights
<1>1. pos \in Nat /\ pos < Len(log)
  BY LogType DEF TypeOK
<1> QED
  BY <1>1, LogType DEF Msg, Id

LEMMA OthersType ==
  ASSUME NEW i \in DOMAIN Others
  PROVE  Others[i] \in PermCommand /\ IsPermUpdate(Others[i]) /\ Others[i].id \in Ids
BY LateWritesAssumption

\* The condition of a write, by its kind.
LEMMA AcceptedByKind ==
  ASSUME NEW r \in Request, Accepted(r)
  PROVE  /\ r.kind \in {"index", "create", "delete"}
         /\ r.kind = "index" => doc[r.id] # NoDoc /\ ver[r.id] = r.ver
         /\ r.kind = "delete" => doc[r.id] # NoDoc
BY DEF Accepted, Request

\* What the handler makes of the entry read is an entry, with the features of
\* its PUT.
LEMMA EffectsType ==
  ASSUME TypeOK, ControlOK, ReadCurrent, pc = "index", NEW e \in Effects(read.entry)
  PROVE  e \in Entry /\ (Msg.cmd = "PUT" => e.features = Msg.features)
<1>1. read.entry \in Entry
  BY DEF ReadCurrent
<1>2. Msg \in ResourceCommand /\ Msg.rights # NoRights
  BY MsgType
<1> QED
  BY <1>1, <1>2, FeaturesEffectsType, RightsEffectsType DEF Effects

-----------------------------------------------------------------------------
(* Types.                                                                  *)

\* A write that is sent.
LEMMA SendType ==
  ASSUME TypeOK, NEW kind \in {"index", "create", "delete"}, NEW id \in Ids,
         NEW e \in Entry \cup {NoDoc}, NEW v \in Nat, Send(kind, id, e, v)
  PROVE  wire' \subseteq Request /\ sent' = sent + 1 /\ sent' \in Nat
BY DEF Send, Request, TypeOK

LEMMA WriteType ==
  ASSUME TypeOK, NEW id \in Ids, NEW e \in Entry \cup {NoDoc}, Write(id, e)
  PROVE  doc' \in [Ids -> Entry \cup {NoDoc}] /\ ver' \in [Ids -> Nat]
BY DEF TypeOK, Write

\* An imported resource becomes an entry.
LEMMA ImportedType ==
  ASSUME NEW resource \in Imports
  PROVE  /\ resource.id \in Ids
         /\ [features |-> resource.features, creator |-> resource.creator,
             annotations |-> NoAnnotations,
             users |-> SetResourceRights(NoHolders, resource.rights.users),
             groups |-> SetResourceRights(NoHolders, resource.rights.groups)] \in Entry
<1>1. resource \in ResourceRights
  BY LateWritesAssumption
<1>2. NoAnnotations \in Annotations
  BY DEF NoAnnotations, Annotations
<1>3. resource.rights \in ResourceRightsBase
  BY <1>1 DEF ResourceRights
<1>4. SetResourceRights(NoHolders, resource.rights.users) \in Holders(Users)
  BY <1>3, SetResourceRightsType DEF ResourceRightsBase
<1>5. SetResourceRights(NoHolders, resource.rights.groups) \in Holders(Groups)
  BY <1>3, SetResourceRightsType DEF ResourceRightsBase
<1> QED
  BY <1>1, <1>2, <1>4, <1>5 DEF ResourceRights, Entry

LEMMA TypeStep ==
  ASSUME TypeOK, ControlOK, ReadCurrent, WireOK, [Next]_vars
  PROVE  TypeOK'
<1> USE DEF Label, Consumer
<1>a. MaxFaults \in Nat /\ MaxOthers \in Nat /\ MaxImports \in Nat
  BY LateWritesAssumption
<1>b. Fault => faults' \in 0..MaxFaults /\ others' = others /\ imports' = imports
  BY <1>a DEF Fault, TypeOK
<1>c. Len(log) \in Nat
  BY LogType
<1>e. ASSUME UNCHANGED <<log, doc, ver, pos, committed, wire, sent, blind>>,
             running' \subseteq Consumer, read' \in {read, NoRead}, awaited' \in {awaited, 0},
             pc' \in Label, pc' \notin {"down", "off", "fetch"} => pos < Len(log),
             UNCHANGED <<others, imports, faults>> \/ Fault
      PROVE  TypeOK'
  BY <1>b, <1>e DEF TypeOK
<1>f. TypeOK => running \subseteq Consumer /\ (pc \notin {"down", "off", "fetch"} => pos < Len(log))
  BY DEF TypeOK
<1>1. ASSUME Start \/ StartFails
      PROVE  TypeOK'
  <2>1. CASE Start
    BY <1>e, <2>1 DEF Start, storeVars, wireVars, boundVars
  <2>2. CASE StartFails
    BY <1>e, <1>f, <2>2 DEF StartFails, storeVars, wireVars
  <2> QED
    BY <1>1, <2>1, <2>2
<1>2. ASSUME Fetch \/ HandlerError \/ SendDone \/ RequestFails \/ GiveUp
      PROVE  TypeOK'
  <2>1. CASE Fetch
    BY <1>e, <1>f, <2>1 DEF Fetch, storeVars, wireVars, boundVars
  <2>2. CASE HandlerError
    BY <1>e, <1>f, <2>2 DEF HandlerError, storeVars, wireVars, boundVars
  <2>3. CASE SendDone
    BY <1>e, <1>f, <2>3 DEF SendDone, storeVars, wireVars, boundVars
  <2>4. CASE RequestFails
    BY <1>e, <1>f, <2>4 DEF RequestFails, storeVars, wireVars
  <2>5. CASE GiveUp
    BY <1>e, <1>f, <2>5 DEF GiveUp, storeVars
  <2> QED
    BY <1>2, <2>1, <2>2, <2>3, <2>4, <2>5
<1>14. ASSUME Crash
       PROVE  TypeOK'
  BY <1>14, <1>b, <1>c DEF TypeOK, Crash, storeVars
<1>3. ASSUME ResourceExists
      PROVE  TypeOK'
  <2>1. AfterExists(doc[Id] # NoDoc) \in {"delete", "get", "create", "done"}
    BY DEF AfterExists
  <2> QED
    BY <1>3, <2>1 DEF TypeOK, ResourceExists, storeVars, wireVars, boundVars
<1>4. ASSUME GetResourceEntry
      PROVE  TypeOK'
  <2>1. Id \in Ids
    BY <1>4, MsgType DEF GetResourceEntry
  <2>2. doc[Id] # NoDoc => [entry |-> doc[Id], ver |-> ver[Id]] \in [entry : Entry, ver : Nat]
    BY <2>1 DEF TypeOK
  <2> QED
    BY <1>4, <2>2 DEF TypeOK, GetResourceEntry, storeVars, wireVars, boundVars
<1>d. ASSUME wire' \subseteq Request, sent' = sent + 1, sent' \in Nat, Await,
             read' \in {read, NoRead}, pos < Len(log),
             UNCHANGED <<others, imports>>, faults' \in 0..MaxFaults
      PROVE  TypeOK'
  BY <1>d DEF TypeOK, Await, storeVars
<1>5. ASSUME SendIndex
      PROVE  TypeOK'
  <2>1. pc = "index" /\ Id \in Ids
    BY <1>5, MsgType DEF SendIndex
  <2>2. PICK e \in Effects(read.entry) : Send("index", Id, e, read.ver)
    BY <1>5 DEF SendIndex
  <2>3. e \in Entry /\ read.ver \in Nat
    BY <2>1, <2>2, EffectsType DEF ReadCurrent
  <2>4. wire' \subseteq Request /\ sent' = sent + 1 /\ sent' \in Nat
    BY <2>1, <2>2, <2>3, SendType
  <2> QED
    BY <1>5, <1>d, <2>1, <2>4 DEF SendIndex, boundVars, TypeOK
<1>6. ASSUME SendCreate
      PROVE  TypeOK'
  <2>1. pc = "create" /\ Id \in Ids /\ Msg \in ResourceCommand
    BY <1>6, MsgType DEF SendCreate
  <2>2. PICK e \in NewEntries(Msg.owner, Msg.features) : Send("create", Id, e, 0)
    BY <1>6 DEF SendCreate
  <2>3. e \in Entry
    BY <2>1, <2>2, NewEntriesType DEF ResourceCommand
  <2>4. wire' \subseteq Request /\ sent' = sent + 1 /\ sent' \in Nat
    BY <2>1, <2>2, <2>3, SendType
  <2> QED
    BY <1>6, <1>d, <2>1, <2>4 DEF SendCreate, boundVars, TypeOK
<1>7. ASSUME SendDelete
      PROVE  TypeOK'
  <2>1. pc = "delete" /\ Id \in Ids
    BY <1>7, MsgType DEF SendDelete
  <2>2. wire' \subseteq Request /\ sent' = sent + 1 /\ sent' \in Nat
    BY <1>7, <2>1, SendType DEF SendDelete
  <2> QED
    BY <1>7, <1>d, <2>1, <2>2 DEF SendDelete, boundVars, TypeOK
<1>8. ASSUME Resend
      PROVE  TypeOK'
  <2>1. PICK r \in wire : Send(r.kind, r.id, r.entry, r.ver)
    BY <1>8 DEF Resend
  <2>2. r \in Request
    BY DEF TypeOK
  <2>3. wire' \subseteq Request /\ sent' = sent + 1 /\ sent' \in Nat
    BY <2>1, <2>2, SendType DEF Request
  <2> QED
    BY <1>8, <1>b, <1>d, <2>3 DEF Resend, TypeOK
<1>9. ASSUME Commit
      PROVE  TypeOK'
  BY <1>9, <1>b, <1>c DEF TypeOK, Commit, storeVars, wireVars, boundVars
<1>10. ASSUME NEW i \in DOMAIN Others, OtherHandler(Others[i])
       PROVE  TypeOK'
  <2> DEFINE m == Others[i]
  <2>1. m \in PermCommand /\ IsPermUpdate(m) /\ m.id \in Ids
    BY OthersType
  <2>2. doc[m.id] \in Entry /\ ver[m.id] \in Nat
    BY <1>10, <2>1 DEF OtherHandler, TypeOK
  <2>3. PermEffect(doc[m.id], m) \in Entry
    BY <2>1, <2>2, PermEffectType
  <2>4. wire' \subseteq Request /\ sent' = sent + 1 /\ sent' \in Nat
    BY <1>10, <2>1, <2>2, <2>3, SendType DEF OtherHandler
  <2> QED
    BY <1>10, <1>a, <2>4 DEF OtherHandler, TypeOK, storeVars, consumerVars
<1>11. ASSUME NEW resource \in Imports, Import(resource)
       PROVE  TypeOK'
  <2>1. resource.id \in Ids /\ doc' \in [Ids -> Entry \cup {NoDoc}] /\ ver' \in [Ids -> Nat]
    BY <1>11, ImportedType, WriteType DEF Import
  <2> QED
    BY <1>11, <1>a, <2>1 DEF Import, TypeOK, consumerVars, wireVars
<1>12. ASSUME NEW r \in wire, Execute(r)
       PROVE  TypeOK'
  <2>1. r \in Request
    BY DEF TypeOK
  <2>2. r.id \in Ids /\ r.entry \in Entry \cup {NoDoc}
    BY <2>1 DEF Request
  <2>3. doc' \in [Ids -> Entry \cup {NoDoc}] /\ ver' \in [Ids -> Nat]
    BY <1>12, <2>2, WriteType DEF Execute, storeVars, TypeOK
  <2>4. blind' \subseteq Ids
    BY <1>12, <2>2 DEF Execute, Blinded, TypeOK
  <2>5. CASE r.n = awaited
    <3>1. pc = "sent" /\ pc' \in {"done", "failed"} /\ awaited' = 0
      <4>1. awaited # 0
        BY <2>5 DEF WireOK
      <4> QED
        BY <1>12, <2>5, <4>1 DEF Execute, ControlOK
    <3> QED
      BY <1>12, <2>3, <2>4, <3>1 DEF Execute, TypeOK, boundVars
  <2>6. CASE r.n # awaited
    BY <1>12, <2>3, <2>4, <2>6 DEF Execute, TypeOK, boundVars
  <2> QED
    BY <2>5, <2>6
<1>13. ASSUME FetchTimeout \/ UNCHANGED vars
       PROVE  TypeOK'
  BY <1>13 DEF FetchTimeout, vars, TypeOK
<1> QED
  BY <1>1, <1>2, <1>3, <1>4, <1>5, <1>6, <1>7, <1>8, <1>9, <1>10, <1>11, <1>12, <1>13, <1>14
  DEF Next, Proceed

-----------------------------------------------------------------------------
(* Control and the entry read.                                             *)

\* Executing a write: what becomes of the document, the handler and blind.
LEMMA ExecuteCases ==
  ASSUME TypeOK, ControlOK, WireOK, NEW r \in wire, Execute(r)
  PROVE  /\ r \in Request /\ log' = log /\ pos' = pos /\ read' = read
         /\ wire' = wire \ {r} /\ sent' = sent
         /\ r.n # awaited => pc' = pc /\ awaited' = awaited
         /\ r.n = awaited => /\ pc = "sent" /\ awaited' = 0 /\ r.id = Id /\ Id \in Ids
                             /\ pc' = IF Accepted(r) THEN "done" ELSE "failed"
         /\ ~Accepted(r) => UNCHANGED <<doc, ver, blind>>
         /\ Accepted(r) => /\ doc' = [doc EXCEPT ![r.id] = r.entry]
                           /\ ver' = [ver EXCEPT ![r.id] = @ + 1]
         /\ Accepted(r) /\ r.n # awaited =>
              blind' = IF r.kind = "index" THEN blind ELSE blind \cup {r.id}
         /\ Accepted(r) /\ r.n = awaited =>
              blind' = IF Msg.cmd = "RIGHTS" THEN blind ELSE blind \ {r.id}
<1>1. r \in Request /\ r.n \in 1..sent /\ Expected(r)
  BY DEF TypeOK, WireOK
<1>2. r.n = awaited => pc = "sent" /\ r.id = Id
  BY <1>1 DEF ControlOK, Expected
<1>3. r.n = awaited => Id \in Ids
  BY <1>2, MsgType
<1> QED
  BY <1>1, <1>2, <1>3 DEF Execute, Blinded, Write, storeVars

LEMMA ControlStep ==
  ASSUME TypeOK, ControlOK, WireOK, [Next]_vars
  PROVE  ControlOK'
<1>1. ASSUME pc' \in {"down", "off", "fetch", "exists", "failed", "done", "commit"}, awaited' = 0
      PROVE  ControlOK'
  BY <1>1 DEF ControlOK
<1>2. ASSUME Start \/ StartFails \/ Fetch \/ RequestFails \/ HandlerError \/ SendDone \/ Commit
      PROVE  ControlOK'
  <2>1. awaited = 0
    BY <1>2 DEF ControlOK, Start, StartFails, Fetch, RequestFails, HandlerError, SendDone, Commit
  <2>2. awaited' = 0
    BY <1>2, <2>1 DEF Start, StartFails, Fetch, RequestFails, HandlerError, SendDone, Commit, wireVars
  <2>3. pc' \in {"down", "off", "fetch", "exists", "failed", "done", "commit"}
    BY <1>2 DEF Start, StartFails, Fetch, RequestFails, HandlerError, SendDone, Commit
  <2> QED
    BY <1>1, <2>2, <2>3
<1>3. ASSUME Crash \/ GiveUp
      PROVE  ControlOK'
  BY <1>1, <1>3 DEF Crash, GiveUp
<1>4. ASSUME ResourceExists
      PROVE  ControlOK'
  <2>1. awaited = 0
    BY <1>4 DEF ControlOK, ResourceExists
  <2>2. Msg.cmd \in {"PUT", "RIGHTS", "DELETE"}
    BY <1>4, MsgType DEF ResourceExists
  <2>3. /\ Msg' = Msg /\ Id' = Id /\ doc' = doc /\ awaited' = 0
        /\ pc' = AfterExists(doc[Id] # NoDoc)
    BY <1>4, <2>1 DEF ResourceExists, Msg, Id, storeVars, wireVars
  <2> QED
    BY <2>2, <2>3 DEF ControlOK, AfterExists
<1>5. ASSUME GetResourceEntry
      PROVE  ControlOK'
  BY <1>5 DEF ControlOK, GetResourceEntry, Msg, Id, wireVars
<1>6. ASSUME SendIndex \/ SendCreate \/ SendDelete \/ Resend
      PROVE  ControlOK'
  <2>1. pc' = "sent" /\ awaited' = sent + 1
    BY <1>6 DEF SendIndex, SendCreate, SendDelete, Resend, Await
  <2>2. sent + 1 # 0
    BY DEF TypeOK
  <2> QED
    BY <2>1, <2>2 DEF ControlOK
<1>7. ASSUME UNCHANGED <<log, pos, pc, awaited>>,
             doc' = doc \/ Id \in blind',
             blind \subseteq blind'
      PROVE  ControlOK'
  BY <1>7 DEF ControlOK, Msg, Id
<1>8. ASSUME NEW resource \in Imports, Import(resource)
      PROVE  ControlOK'
  <2>1. UNCHANGED <<log, pos, pc, awaited>>
    BY <1>8 DEF Import, consumerVars, wireVars
  <2>2. \A id \in Ids : doc'[id] = doc[id] \/ id \in blind'
    BY <1>8 DEF Import, Write, TypeOK
  <2>3. pc = "create" => Id \in Ids
    BY MsgType
  <2> QED
    BY <1>8, <2>1, <2>2, <2>3 DEF ControlOK, Msg, Id, Import
<1>9. ASSUME NEW i \in DOMAIN Others, OtherHandler(Others[i])
      PROVE  ControlOK'
  BY <1>7, <1>9 DEF OtherHandler, storeVars, consumerVars
<1>10. ASSUME NEW r \in wire, Execute(r)
       PROVE  ControlOK'
  <2>1. CASE r.n = awaited
    BY <1>1, <1>10, <2>1, ExecuteCases
  <2>2. CASE r.n # awaited
    <3>1. r \in Request /\ UNCHANGED <<log, pos, pc, awaited>> /\ blind \subseteq blind'
      BY <1>10, <2>2, ExecuteCases
    <3>2. ASSUME pc = "create"
          PROVE  doc'[Id] = NoDoc \/ Id \in blind'
      <4>1. Id \in Ids /\ (doc[Id] = NoDoc \/ Id \in blind)
        BY <3>2, MsgType DEF ControlOK
      <4>2. CASE ~Accepted(r)
        BY <1>10, <2>2, <4>1, <4>2, ExecuteCases
      <4>3. CASE Accepted(r) /\ r.id = Id
        BY <1>10, <2>2, <3>1, <4>1, <4>3, ExecuteCases, AcceptedByKind
      <4>4. CASE Accepted(r) /\ r.id # Id
        BY <1>10, <2>2, <3>1, <4>1, <4>4, ExecuteCases DEF TypeOK
      <4> QED
        BY <4>2, <4>3, <4>4
    <3> QED
      BY <3>1, <3>2 DEF ControlOK, Msg, Id
  <2> QED
    BY <2>1, <2>2
<1>11. ASSUME FetchTimeout \/ UNCHANGED vars
       PROVE  ControlOK'
  BY <1>7, <1>11 DEF FetchTimeout, vars
<1> QED
  BY <1>2, <1>3, <1>4, <1>5, <1>6, <1>8, <1>9, <1>10, <1>11 DEF Next, Proceed

\* Sequence numbers grow with every change of a document.
LEMMA VersionsGrow ==
  ASSUME TypeOK, ControlOK, WireOK, [Next]_vars, NEW id \in Ids
  PROVE  /\ ver[id] \in Nat /\ ver'[id] \in Nat /\ ver[id] <= ver'[id]
         /\ ver'[id] = ver[id] => doc'[id] = doc[id]
<1>0. ver \in [Ids -> Nat] /\ doc \in [Ids -> Entry \cup {NoDoc}]
  BY DEF TypeOK
<1>1. CASE doc' = doc /\ ver' = ver
  BY <1>0, <1>1
<1>2. ASSUME NEW x \in Ids, NEW e, Write(x, e)
      PROVE  /\ ver'[id] \in Nat /\ ver[id] <= ver'[id]
             /\ ver'[id] = ver[id] => doc'[id] = doc[id]
  BY <1>0, <1>2 DEF Write
<1>3. ASSUME NEW resource \in Imports, Import(resource)
      PROVE  \E x \in Ids, e \in Entry : Write(x, e)
  BY <1>3, ImportedType DEF Import
<1>4. ASSUME NEW r \in wire, Execute(r)
      PROVE  \/ doc' = doc /\ ver' = ver
             \/ \E x \in Ids : Write(x, r.entry)
  BY <1>4, ExecuteCases DEF Write, Request
<1>5. \/ doc' = doc /\ ver' = ver
      \/ \E resource \in Imports : Import(resource)
      \/ \E r \in wire : Execute(r)
  BY DEF Next, Proceed, Start, StartFails, Crash, Fetch, FetchTimeout, ResourceExists,
         GetResourceEntry, SendIndex, SendCreate, SendDelete, Await, Resend, GiveUp,
         RequestFails, HandlerError, SendDone, Commit, OtherHandler, vars, storeVars
<1> QED
  BY <1>0, <1>1, <1>2, <1>3, <1>4, <1>5

LEMMA ReadStep ==
  ASSUME TypeOK, ControlOK, WireOK, ReadCurrent, [Next]_vars
  PROVE  ReadCurrent'
<1>1. CASE GetResourceEntry
  <2>1. Id \in Ids
    BY <1>1, MsgType DEF GetResourceEntry
  <2>2. /\ doc[Id] # NoDoc => doc[Id] \in Entry
        /\ ver[Id] \in Nat
    BY <2>1 DEF TypeOK
  <2> QED
    BY <1>1, <2>2 DEF GetResourceEntry, ReadCurrent, Msg, Id, storeVars
<1>2. CASE pc' # "index"
  BY <1>2 DEF ReadCurrent
<1>3. CASE pc = "index" /\ UNCHANGED <<log, pos, read, pc>>
  <2>1. Id \in Ids /\ Id' = Id
    BY <1>3, MsgType DEF Msg, Id
  <2>2. /\ ver[Id] \in Nat /\ ver'[Id] \in Nat /\ ver[Id] <= ver'[Id]
        /\ ver'[Id] = ver[Id] => doc'[Id] = doc[Id]
    BY <2>1, VersionsGrow
  <2>3. read.ver \in Nat /\ read.ver <= ver[Id]
    BY <1>3 DEF ReadCurrent
  <2> QED
    BY <1>3, <2>1, <2>2, <2>3 DEF ReadCurrent
<1>4. GetResourceEntry \/ pc' # "index" \/ (pc = "index" /\ UNCHANGED <<log, pos, read, pc>>)
  <2>1. ASSUME NEW r \in wire, Execute(r)
        PROVE  pc' # "index" \/ (pc = "index" /\ UNCHANGED <<log, pos, read, pc>>)
    BY <2>1, ExecuteCases
  <2>2. ASSUME ResourceExists
        PROVE  pc' # "index"
    BY <2>2 DEF ResourceExists, AfterExists
  <2> QED
    BY <2>1, <2>2
    DEF Next, Proceed, Start, StartFails, Crash, Fetch, FetchTimeout, SendIndex, SendCreate,
        SendDelete, Await, Resend, GiveUp, RequestFails, HandlerError, SendDone, Commit,
        OtherHandler, Import, consumerVars, vars
<1> QED
  BY <1>1, <1>2, <1>3, <1>4

-----------------------------------------------------------------------------
(* Writes on their way.                                                    *)

LEMMA BoundType ==
  ASSUME TypeOK
  PROVE  Bound \in Nat /\ Bound <= Len(log) /\ pos \in Nat /\ pos <= Bound
BY LogType DEF TypeOK, Bound

\* A write keeps its meaning while its document is the same.
LEMMA CurrentSame ==
  ASSUME NEW r \in Request, Current(r), log' = log,
         doc'[r.id] = doc[r.id], ver'[r.id] = ver[r.id],
         doc[r.id] # NoDoc =>
           \A i \in DOMAIN log : i > Bound /\ log[i].id = r.id => i > Bound'
  PROVE  Current(r)'
<1>1. Applied(r) /\ doc[r.id] # NoDoc => Applied(r)'
  BY DEF Applied
<1> QED
  BY <1>1 DEF Current

\* A write that was overtaken by another one means nothing any more.
LEMMA CurrentWritten ==
  ASSUME NEW r \in Request, Current(r), ver[r.id] \in Nat, ver'[r.id] = ver[r.id] + 1
  PROVE  Current(r)'
<1>1. r.kind = "index" => r.ver \in Nat /\ r.ver <= ver[r.id]
  BY DEF Request, Current
<1> QED
  BY <1>1 DEF Current

\* When the message in work is done the bound passes it, and nothing else.
LEMMA BoundPasses ==
  ASSUME TypeOK, pc \notin {"down", "off", "fetch", "done", "commit"}, log' = log, pos' = pos,
         NEW id \in Ids, id # Id, NEW i \in DOMAIN log, i > Bound, log[i].id = id
  PROVE  i > Bound'
<1>1. Bound = pos /\ pos \in Nat /\ i \in Nat
  BY LogType DEF Bound, TypeOK
<1>2. log[pos + 1].id = Id
  BY DEF Id, Msg
<1>3. i # pos + 1
  BY <1>2
<1> QED
  BY <1>1, <1>3 DEF Bound

\* Steps after which the handler waits for nothing.
LEMMA WireCalm ==
  ASSUME TypeOK, WireOK, UNCHANGED <<log, doc, ver, wire, sent>>, awaited' = 0, Bound' <= Bound,
         Bound' \in Nat
  PROVE  WireOK'
<1> SUFFICES ASSUME NEW r \in wire
             PROVE  r.n \in 1..sent' /\ FromLog(r)' /\ Current(r)' /\ Expected(r)'
  BY DEF WireOK
<1>1. r \in Request /\ r.n \in 1..sent /\ FromLog(r) /\ Current(r)
  BY DEF WireOK, TypeOK
<1>2. FromLog(r)'
  BY <1>1 DEF FromLog
<1>3. \A i \in DOMAIN log : i > Bound => i > Bound'
  BY LogType, BoundType
<1>4. Current(r)'
  BY <1>1, <1>3, CurrentSame
<1> QED
  BY <1>1, <1>2, <1>4 DEF Expected

\* A write is sent.
LEMMA WireSend ==
  ASSUME TypeOK, WireOK, UNCHANGED <<log, doc, ver, pos, blind>>, Bound' = Bound,
         NEW new \in Request, new.n = sent + 1, sent' = sent + 1, wire' = wire \cup {new},
         awaited' \in {awaited, sent + 1},
         FromLog(new), Current(new), awaited' = sent + 1 => Expected(new)'
  PROVE  WireOK'
<1> SUFFICES ASSUME NEW r \in wire'
             PROVE  r.n \in 1..sent' /\ FromLog(r)' /\ Current(r)' /\ Expected(r)'
  BY DEF WireOK
<1>0. sent \in Nat /\ awaited \in 0..sent
  BY DEF TypeOK
<1>1. r \in Request /\ FromLog(r) /\ Current(r)
  BY DEF WireOK, TypeOK
<1>2. FromLog(r)' /\ Current(r)'
  BY <1>1, CurrentSame DEF FromLog
<1>3. CASE r = new
  <2>1. Expected(new)'
    BY <1>0 DEF Expected
  <2> QED
    BY <1>0, <1>2, <1>3, <2>1
<1>4. CASE r \in wire
  <2>1. r.n \in 1..sent /\ Expected(r)
    BY <1>4 DEF WireOK
  <2>2. r.n \in 1..sent' /\ r.n # sent + 1
    BY <1>0, <2>1
  <2>3. Expected(r)'
    BY <2>1, <2>2 DEF Expected, Msg, Id
  <2> QED
    BY <1>2, <2>2, <2>3
<1> QED
  BY <1>3, <1>4

\* What Send puts on the wire.
LEMMA SendNew ==
  ASSUME NEW kind, NEW id, NEW e, NEW v, Send(kind, id, e, v)
  PROVE  LET new == [n |-> sent + 1, kind |-> kind, id |-> id, entry |-> e, ver |-> v]
         IN  wire' = wire \cup {new} /\ sent' = sent + 1
BY DEF Send

LEMMA WireSends ==
  ASSUME TypeOK, TypeOK', ControlOK, ReadCurrent, WireOK,
         \/ SendIndex \/ SendCreate \/ SendDelete \/ Resend
         \/ \E i \in DOMAIN Others : OtherHandler(Others[i])
  PROVE  WireOK'
<1> DEFINE New(kind, id, e, v) ==
             [n |-> sent + 1, kind |-> kind, id |-> id, entry |-> e, ver |-> v]
<1>0. sent \in Nat /\ awaited \in 0..sent /\ wire' \subseteq Request
  BY DEF TypeOK
<1>1. CASE SendIndex
  <2>1. pc = "index" /\ pos + 1 \in DOMAIN log /\ Id \in Ids
    BY <1>1, MsgType DEF SendIndex
  <2>2. PICK e \in Effects(read.entry) : Send("index", Id, e, read.ver)
    BY <1>1 DEF SendIndex
  <2>0. PICK new : new = New("index", Id, e, read.ver)
    OBVIOUS
  <2>3. wire' = wire \cup {new} /\ sent' = sent + 1 /\ new \in Request
    BY <2>0, <1>0, <2>2, SendNew
  <2>4. e \in Entry /\ (Msg.cmd = "PUT" => e.features = Msg.features) /\ Msg.cmd \in {"PUT", "RIGHTS"}
    BY <2>1, <2>2, EffectsType DEF ControlOK
  <2>5. e # NoDoc
    BY <2>4, LateWritesAssumption
  <2>6. /\ read.ver <= ver[Id]
        /\ doc[Id] # NoDoc /\ ver[Id] = read.ver => doc[Id] = read.entry
    BY <2>1 DEF ReadCurrent
  <2>7. Bound = pos /\ pos + 1 > Bound
    BY <2>1, BoundType DEF Bound
  <2>8. doc[Id] # NoDoc /\ ver[Id] = read.ver => Applied(new)
    <3> SUFFICES ASSUME doc[Id] = read.entry
                 PROVE  Applied(new)
      BY <2>6
    <3>1. log[pos + 1].id = Id /\ Msg = log[pos + 1]
      BY DEF Msg, Id
    <3>2. new.id = Id /\ new.entry = e
      BY <2>0
    <3> QED
      BY <2>1, <2>2, <2>4, <2>7, <3>1, <3>2 DEF Applied, Effects
  <2>10. new.n = sent + 1 /\ new.id = Id /\ new.kind = "index" /\ new.entry = e /\ new.ver = read.ver
    BY <2>0
  <2>9. FromLog(new)
    BY <2>10 DEF FromLog
  <2>11. Current(new)
    BY <2>5, <2>6, <2>8, <2>10 DEF Current
  <2>12. /\ UNCHANGED <<log, doc, ver, pos, blind>> /\ awaited' = sent + 1 /\ pc' = "sent"
    BY <1>1 DEF SendIndex, Await, storeVars
  <2>13. Bound' = Bound
    BY <2>7, <2>12 DEF Bound
  <2>14. Expected(new)'
    BY <2>4, <2>5, <2>10, <2>12 DEF Expected, Msg, Id
  <2> QED
    BY <2>3, <2>9, <2>10, <2>11, <2>12, <2>13, <2>14, WireSend
<1>2. CASE SendCreate
  <2>1. pc = "create" /\ pos + 1 \in DOMAIN log /\ Id \in Ids /\ Msg \in ResourceCommand
    BY <1>2, MsgType DEF SendCreate
  <2>2. PICK e \in NewEntries(Msg.owner, Msg.features) : Send("create", Id, e, 0)
    BY <1>2 DEF SendCreate
  <2>0. PICK new : new = New("create", Id, e, 0)
    OBVIOUS
  <2>3. wire' = wire \cup {new} /\ sent' = sent + 1 /\ new \in Request
    BY <2>0, <1>0, <2>2, SendNew
  <2>4. e \in Entry /\ e.features = Msg.features
    BY <2>1, <2>2, NewEntriesType DEF ResourceCommand
  <2>5. e # NoDoc
    BY <2>4, LateWritesAssumption
  <2>6. Msg.cmd = "PUT" /\ (doc[Id] = NoDoc \/ Id \in blind)
    BY <2>1 DEF ControlOK
  <2>10. new.n = sent + 1 /\ new.id = Id /\ new.kind = "create" /\ new.entry = e
    BY <2>0
  <2>9. FromLog(new) /\ Current(new)
    BY <2>1, <2>2, <2>6, <2>10 DEF FromLog, Current, Msg, Id
  <2>12. /\ UNCHANGED <<log, doc, ver, pos, blind>> /\ awaited' = sent + 1 /\ pc' = "sent"
    BY <1>2 DEF SendCreate, Await, storeVars
  <2>13. Bound' = Bound
    BY <2>1, <2>12 DEF Bound
  <2>14. Expected(new)'
    BY <2>4, <2>5, <2>6, <2>10, <2>12 DEF Expected, Msg, Id
  <2> QED
    BY <2>3, <2>9, <2>10, <2>12, <2>13, <2>14, WireSend
<1>3. CASE SendDelete
  <2>1. pc = "delete" /\ pos + 1 \in DOMAIN log /\ Id \in Ids
    BY <1>3, MsgType DEF SendDelete
  <2>0. PICK new : new = New("delete", Id, NoDoc, 0)
    OBVIOUS
  <2>3. wire' = wire \cup {new} /\ sent' = sent + 1 /\ new \in Request
    BY <2>0, <1>0, <1>3, SendNew DEF SendDelete
  <2>6. Msg.cmd = "DELETE"
    BY <2>1 DEF ControlOK
  <2>10. new.n = sent + 1 /\ new.id = Id /\ new.kind = "delete" /\ new.entry = NoDoc
    BY <2>0
  <2>9. FromLog(new) /\ Current(new)
    BY <2>1, <2>6, <2>10 DEF FromLog, Current, Msg, Id
  <2>12. /\ UNCHANGED <<log, doc, ver, pos, blind>> /\ awaited' = sent + 1 /\ pc' = "sent"
    BY <1>3 DEF SendDelete, Await, storeVars
  <2>13. Bound' = Bound
    BY <2>1, <2>12 DEF Bound
  <2>14. Expected(new)'
    BY <2>6, <2>10, <2>12 DEF Expected, Msg, Id
  <2> QED
    BY <2>3, <2>9, <2>10, <2>12, <2>13, <2>14, WireSend
<1>4. CASE Resend
  <2>1. PICK r \in wire : r.n = awaited /\ Send(r.kind, r.id, r.entry, r.ver)
    BY <1>4 DEF Resend
  <2>0. PICK new : new = New(r.kind, r.id, r.entry, r.ver)
    OBVIOUS
  <2>3. wire' = wire \cup {new} /\ sent' = sent + 1 /\ new \in Request
    BY <2>0, <1>0, <2>1, SendNew
  <2>10. /\ new.n = sent + 1 /\ new.id = r.id /\ new.kind = r.kind /\ new.entry = r.entry
         /\ new.ver = r.ver
    BY <2>0
  <2>4. FromLog(r) /\ Current(r) /\ Expected(r)
    BY DEF WireOK
  <2>5. Applied(r) => Applied(new)
    BY <2>10 DEF Applied
  <2>9. FromLog(new) /\ Current(new)
    BY <2>4, <2>5, <2>10 DEF FromLog, Current
  <2>12. /\ UNCHANGED <<log, doc, ver, pos, blind>> /\ awaited' = sent + 1
         /\ pc = "sent" /\ pc' = "sent"
    BY <1>4 DEF Resend, Await, storeVars
  <2>13. Bound' = Bound
    BY <2>12 DEF Bound
  <2>14. Expected(new)'
    BY <2>1, <2>4, <2>10, <2>12 DEF Expected, Msg, Id
  <2> QED
    BY <2>3, <2>9, <2>10, <2>12, <2>13, <2>14, WireSend
<1>5. ASSUME NEW i \in DOMAIN Others, OtherHandler(Others[i])
      PROVE  WireOK'
  <2> DEFINE m == Others[i]
  <2>0. PICK new : new = New("index", m.id, PermEffect(doc[m.id], m), ver[m.id])
    OBVIOUS
  <2>1. m \in PermCommand /\ IsPermUpdate(m) /\ m.id \in Ids
    BY OthersType
  <2>2. doc[m.id] \in Entry /\ ver[m.id] \in Nat
    BY <1>5, <2>1 DEF OtherHandler, TypeOK
  <2>3. wire' = wire \cup {new} /\ sent' = sent + 1 /\ new \in Request
    BY <2>0, <1>0, <1>5, SendNew DEF OtherHandler
  <2>4. PermEffect(doc[m.id], m) # NoDoc
    BY <2>1, <2>2, PermEffectType, LateWritesAssumption
  <2>10. /\ new.n = sent + 1 /\ new.id = m.id /\ new.kind = "index" /\ new.ver = ver[m.id]
         /\ new.entry = PermEffect(doc[m.id], m)
    BY <2>0
  <2>5. Applied(new)
    BY <2>10 DEF Applied
  <2>9. FromLog(new) /\ Current(new)
    BY <2>2, <2>4, <2>5, <2>10 DEF FromLog, Current
  <2>12. UNCHANGED <<log, doc, ver, pos, blind, awaited, pc>>
    BY <1>5 DEF OtherHandler, storeVars, consumerVars
  <2>13. Bound' = Bound
    BY <2>12 DEF Bound
  <2>14. awaited' # sent + 1
    BY <1>0, <2>12
  <2> QED
    BY <2>3, <2>9, <2>10, <2>12, <2>13, <2>14, WireSend
<1> QED
  BY <1>1, <1>2, <1>3, <1>4, <1>5

\* An import makes the writes to its document void.
LEMMA WireImport ==
  ASSUME TypeOK, ControlOK, WireOK, NEW resource \in Imports, Import(resource)
  PROVE  WireOK'
<1>1. UNCHANGED <<log, pos, pc, wire, sent, awaited>> /\ blind' = blind \cup {resource.id}
  BY DEF Import, consumerVars, wireVars
<1>2. resource.id \in Ids
  BY ImportedType
<1>3. ver'[resource.id] = ver[resource.id] + 1
  BY <1>2 DEF Import, Write, TypeOK
<1>4. \A id \in Ids : id # resource.id => doc'[id] = doc[id] /\ ver'[id] = ver[id]
  BY DEF Import, Write, TypeOK
<1> SUFFICES ASSUME NEW r \in wire
             PROVE  r.n \in 1..sent' /\ FromLog(r)' /\ Current(r)' /\ Expected(r)'
  BY <1>1 DEF WireOK
<1>5. r \in Request /\ r.id \in Ids /\ r.n \in 1..sent' /\ FromLog(r) /\ Current(r) /\ Expected(r)
  BY <1>1 DEF WireOK, TypeOK, Request
<1>6. FromLog(r)'
  BY <1>1, <1>5 DEF FromLog
<1>7. Current(r)'
  <2>1. CASE r.id = resource.id
    <3>1. ver[r.id] \in Nat
      BY <1>5 DEF TypeOK
    <3> QED
      BY <1>3, <1>5, <2>1, <3>1, CurrentWritten
  <2>2. CASE r.id # resource.id
    <3>1. Bound' = Bound
      BY <1>1 DEF Bound
    <3>2. doc'[r.id] = doc[r.id] /\ ver'[r.id] = ver[r.id]
      BY <1>4, <1>5, <2>2
    <3> QED
      BY <1>1, <1>5, <3>1, <3>2, CurrentSame
  <2> QED
    BY <2>1, <2>2
<1>8. Expected(r)'
  <2>1. doc[r.id] = NoDoc \/ r.id \in blind => doc'[r.id] = NoDoc \/ r.id \in blind'
    BY <1>1, <1>4, <1>5
  <2> QED
    BY <1>1, <1>5, <2>1 DEF Expected, Msg, Id
<1> QED
  BY <1>5, <1>6, <1>7, <1>8

\* When the message in work is done nothing else is on its way for it.
LEMMA WireExecute ==
  ASSUME TypeOK, ControlOK, WireOK, NEW x \in wire, Execute(x)
  PROVE  WireOK'
<1>1. /\ x \in Request /\ x.id \in Ids /\ x.n \in 1..sent
      /\ log' = log /\ pos' = pos /\ sent' = sent /\ wire' = wire \ {x}
  BY ExecuteCases DEF Request, WireOK
<1> SUFFICES ASSUME NEW r \in wire
             PROVE  r.n \in 1..sent' /\ FromLog(r)' /\ Current(r)' /\ Expected(r)'
  BY <1>1 DEF WireOK
<1>2. r \in Request /\ r.id \in Ids /\ r.n \in 1..sent /\ FromLog(r) /\ Current(r) /\ Expected(r)
  BY DEF WireOK, TypeOK, Request
<1>3. FromLog(r)'
  BY <1>1, <1>2 DEF FromLog
<1>4. doc \in [Ids -> Entry \cup {NoDoc}] /\ ver \in [Ids -> Nat]
  BY DEF TypeOK
<1>5. Current(r)'
  <2>1. CASE Accepted(x) /\ x.id = r.id
    <3>1. ver[r.id] \in Nat /\ ver'[r.id] = ver[r.id] + 1
      BY <1>2, <1>4, <2>1, ExecuteCases
    <3> QED
      BY <1>2, <3>1, CurrentWritten
  <2>2. CASE ~(Accepted(x) /\ x.id = r.id)
    <3>1. doc'[r.id] = doc[r.id] /\ ver'[r.id] = ver[r.id]
      BY <1>1, <1>2, <1>4, <2>2, ExecuteCases
    <3>2. ASSUME NEW i \in DOMAIN log, i > Bound, log[i].id = r.id
          PROVE  i > Bound'
      <4>1. CASE x.n = awaited /\ Accepted(x)
        <5>1. pc = "sent" /\ x.id = Id
          BY <4>1, ExecuteCases
        <5> QED
          BY <1>1, <1>2, <2>2, <3>2, <4>1, <5>1, BoundPasses
      <4>2. CASE ~(x.n = awaited /\ Accepted(x))
        <5>1. pc' = pc \/ (pc = "sent" /\ pc' = "failed")
          BY <4>2, ExecuteCases
        <5>2. Bound' = Bound
          BY <1>1, <5>1 DEF Bound
        <5> QED
          BY <3>2, <5>2
      <4> QED
        BY <4>1, <4>2
    <3> QED
      BY <1>1, <1>2, <3>1, <3>2, CurrentSame
  <2> QED
    BY <2>1, <2>2
<1>6. Expected(r)'
  <2>1. CASE x.n = awaited
    <3>1. awaited' = 0 /\ r.n # 0
      BY <1>2, <2>1, ExecuteCases
    <3> QED
      BY <3>1 DEF Expected
  <2>2. CASE x.n # awaited
    <3>1. awaited' = awaited
      BY <2>2, ExecuteCases
    <3>2. doc[r.id] = NoDoc \/ r.id \in blind => doc'[r.id] = NoDoc \/ r.id \in blind'
      <4>1. CASE ~Accepted(x) \/ x.id # r.id
        <5>1. doc'[r.id] = doc[r.id]
          BY <1>1, <1>2, <1>4, <4>1, ExecuteCases
        <5>2. blind \subseteq blind'
          BY <2>2, ExecuteCases
        <5> QED
          BY <5>1, <5>2
      <4>2. CASE Accepted(x) /\ x.id = r.id
        <5>1. x.kind = "index" => doc[r.id] # NoDoc
          BY <1>1, <4>2, AcceptedByKind
        <5> QED
          BY <2>2, <4>2, <5>1, ExecuteCases
      <4> QED
        BY <4>1, <4>2
    <3> QED
      BY <1>1, <1>2, <3>1, <3>2 DEF Expected, Msg, Id
  <2> QED
    BY <2>1, <2>2
<1> QED
  BY <1>1, <1>2, <1>3, <1>5, <1>6

\* Looking whether the document exists may finish the message at once.
LEMMA WireExists ==
  ASSUME TypeOK, ControlOK, WireOK, ResourceExists
  PROVE  WireOK'
<1>1. /\ UNCHANGED <<log, doc, ver, pos, wire, sent>> /\ awaited' = 0
      /\ pc = "exists" /\ pc' = AfterExists(doc[Id] # NoDoc)
  BY DEF ResourceExists, ControlOK, storeVars, wireVars
<1> SUFFICES ASSUME NEW r \in wire
             PROVE  r.n \in 1..sent' /\ FromLog(r)' /\ Current(r)' /\ Expected(r)'
  BY <1>1 DEF WireOK
<1>2. r \in Request /\ r.id \in Ids /\ r.n \in 1..sent /\ FromLog(r) /\ Current(r)
  BY DEF WireOK, TypeOK, Request
<1>3. FromLog(r)'
  BY <1>1, <1>2 DEF FromLog
<1>4. ASSUME doc[r.id] # NoDoc, NEW i \in DOMAIN log, i > Bound, log[i].id = r.id
      PROVE  i > Bound'
  <2>1. CASE pc' = "done"
    <3>1. r.id # Id
      BY <1>1, <1>4, <2>1 DEF AfterExists
    <3> QED
      BY <1>1, <1>2, <1>4, <3>1, BoundPasses
  <2>2. CASE pc' # "done"
    <3>1. Bound' = Bound
      BY <1>1, <2>2 DEF AfterExists, Bound
    <3> QED
      BY <1>4, <3>1
  <2> QED
    BY <2>1, <2>2
<1>5. Current(r)'
  BY <1>1, <1>2, <1>4, CurrentSame
<1>6. Expected(r)'
  BY <1>1, <1>2 DEF Expected
<1> QED
  BY <1>1, <1>2, <1>3, <1>5, <1>6

\* Steps that change neither documents nor what is on the wire, after which
\* the handler waits for nothing.
CalmStep ==
  \/ Start \/ StartFails \/ Crash \/ Fetch \/ GetResourceEntry \/ GiveUp
  \/ RequestFails \/ HandlerError \/ SendDone \/ Commit

LEMMA CalmFacts ==
  ASSUME TypeOK, ControlOK, CalmStep
  PROVE  /\ UNCHANGED <<log, doc, ver, wire, sent, blind>> /\ awaited' = 0
         /\ Bound' \in Nat /\ Bound' <= Bound
<1>1. pos \in Nat /\ committed \in Nat /\ committed <= pos
  BY LogType DEF TypeOK
<1>2. CASE Crash
  BY <1>1, <1>2 DEF Crash, Bound, storeVars
<1>3. CASE Commit
  BY <1>1, <1>3 DEF Commit, Bound, ControlOK, storeVars, wireVars
<1>4. CASE SendDone
  BY <1>1, <1>4 DEF SendDone, Bound, ControlOK, storeVars, wireVars
<1>5. CASE RequestFails
  BY <1>1, <1>5 DEF RequestFails, Bound, ControlOK, storeVars, wireVars
<1>6. CASE GiveUp
  BY <1>1, <1>6 DEF GiveUp, Bound, ControlOK, storeVars
<1>7. CASE Start \/ StartFails \/ Fetch \/ GetResourceEntry \/ HandlerError
  BY <1>1, <1>7
  DEF Start, StartFails, Fetch, GetResourceEntry, HandlerError, Bound, ControlOK, storeVars, wireVars
<1> QED
  BY <1>2, <1>3, <1>4, <1>5, <1>6, <1>7 DEF CalmStep

LEMMA WireStep ==
  ASSUME TypeOK, TypeOK', ControlOK, ReadCurrent, WireOK, [Next]_vars
  PROVE  WireOK'
<1>1. CASE CalmStep
  BY <1>1, CalmFacts, WireCalm
<1>2. CASE FetchTimeout \/ UNCHANGED vars
  BY <1>2 DEF FetchTimeout, vars, WireOK, FromLog, Current, Applied, Expected, Bound, Msg, Id
<1> QED
  BY <1>1, <1>2, WireSends, WireImport, WireExecute, WireExists DEF Next, Proceed, CalmStep

-----------------------------------------------------------------------------
(* The documents follow the topic.                                         *)

\* A document that stays, and a write that keeps the features.
LEMMA ReflectsFrame ==
  ASSUME NEW id, NEW q, ReflectsPrefix(id, q), log' = log,
         \/ doc'[id] = doc[id]
         \/ doc[id] # NoDoc /\ doc'[id] # NoDoc /\ doc'[id].features = doc[id].features
  PROVE  ReflectsPrefix(id, q)'
BY DEF ReflectsPrefix, FeatureCommands

\* The write of the last PUT or DELETE.
LEMMA ReflectsNew ==
  ASSUME TypeOK, NEW id, NEW i \in DOMAIN log, log' = log, log[i].id = id,
         \/ log[i].cmd = "PUT" /\ doc'[id] # NoDoc /\ doc'[id].features = log[i].features
         \/ log[i].cmd = "DELETE" /\ doc'[id] = NoDoc
  PROVE  ReflectsPrefix(id, i)'
<1> DEFINE S == {k \in FeatureCommands(id) : k <= i}
<1>1. i \in Nat /\ DOMAIN log \subseteq Nat
  BY LogType
<1>2. i \in S /\ S \subseteq DOMAIN log
  BY <1>1 DEF FeatureCommands
<1>3. \A k \in S : (\A j \in S : j <= k) => k = i
  BY <1>1, <1>2
<1> HIDE DEF S
<1>4. \A k \in S : (\A j \in S : j <= k) =>
        IF log[k].cmd = "PUT"
        THEN doc'[id] # NoDoc /\ doc'[id].features = log[k].features
        ELSE doc'[id] = NoDoc
  BY <1>3
<1>5. FeatureCommands(id)' = FeatureCommands(id)
  BY DEF FeatureCommands
<1> QED
  BY <1>2, <1>4, <1>5 DEF ReflectsPrefix, S

\* A message that creates or deletes nothing is no new prefix.
LEMMA ReflectsSkip ==
  ASSUME TypeOK, NEW id, pos + 1 \in DOMAIN log, pos + 1 \notin FeatureCommands(id),
         NEW q \in pos..Len(log), ReflectsPrefix(id, q)
  PROVE  \E p \in (pos + 1)..Len(log) : ReflectsPrefix(id, p)
<1>1. pos \in Nat /\ DOMAIN log = 1..Len(log) /\ Len(log) \in Nat
  BY LogType DEF TypeOK
<1>2. CASE q > pos
  BY <1>1, <1>2
<1>3. CASE q = pos
  <2>1. FeatureCommands(id) \subseteq Nat
    BY <1>1 DEF FeatureCommands
  <2>2. \A k \in FeatureCommands(id) : k <= pos + 1 <=> k <= pos
    BY <1>1, <2>1
  <2>3. {k \in FeatureCommands(id) : k <= pos + 1} = {k \in FeatureCommands(id) : k <= pos}
    BY <2>2
  <2>4. ReflectsPrefix(id, pos + 1)
    BY <1>3, <2>3 DEF ReflectsPrefix
  <2> QED
    BY <1>1, <2>4
<1> QED
  BY <1>1, <1>2, <1>3

\* What an accepted index makes of a document that follows the topic.
LEMMA IndexFollows ==
  ASSUME TypeOK, NEW r \in Request, Current(r), r.kind = "index", r.id \in Ids, log' = log,
         doc[r.id] # NoDoc, ver[r.id] = r.ver, doc'[r.id] = r.entry
  PROVE  /\ r.entry \in Entry /\ r.entry # NoDoc
         /\ \/ doc'[r.id].features = doc[r.id].features
            \/ \E i \in DOMAIN log : i > Bound /\ log[i].id = r.id /\ ReflectsPrefix(r.id, i)'
<1>0. doc[r.id] \in Entry
  BY DEF TypeOK
<1>1. Applied(r)
  BY DEF Current
<1>2. CASE \E i \in DOMAIN Others : Others[i].id = r.id /\ r.entry = PermEffect(doc[r.id], Others[i])
  BY <1>0, <1>2, OthersType, PermEffectType, PermEffectFeatures, LateWritesAssumption
<1>3. CASE \E i \in DOMAIN log : /\ log[i].cmd = "RIGHTS" /\ log[i].id = r.id
                                 /\ r.entry \in RightsEffects(doc[r.id], log[i])
  BY <1>0, <1>3, LogType, RightsEffectsType, LateWritesAssumption
<1>4. ASSUME NEW i \in DOMAIN log, i > Bound, log[i].cmd = "PUT", log[i].id = r.id,
             r.entry \in FeaturesEffects(doc[r.id], log[i])
      PROVE  r.entry \in Entry /\ r.entry # NoDoc /\ ReflectsPrefix(r.id, i)'
  <2>1. r.entry \in Entry /\ r.entry.features = log[i].features
    BY <1>0, <1>4, LogType, FeaturesEffectsType
  <2>2. r.entry # NoDoc
    BY <2>1, LateWritesAssumption
  <2> QED
    BY <1>4, <2>1, <2>2, ReflectsNew
<1> QED
  BY <1>1, <1>2, <1>3, <1>4 DEF Applied

\* A document another message is about, when the message in work is done.
LEMMA FollowOther ==
  ASSUME TypeOK, Follows, pc \notin {"down", "off", "fetch", "done", "commit"},
         log' = log, pos' = pos, pc' = "done",
         NEW id \in Ids \ blind, doc'[id] = doc[id], pos + 1 \notin FeatureCommands(id)
  PROVE  \E q \in Bound'..Len(log') : ReflectsPrefix(id, q)'
<1>1. Bound = pos /\ Bound' = pos + 1
  BY DEF Bound
<1>2. PICK q \in pos..Len(log) : ReflectsPrefix(id, q)
  BY <1>1 DEF Follows
<1>3. PICK p \in (pos + 1)..Len(log) : ReflectsPrefix(id, p)
  BY <1>2, MsgType, ReflectsSkip
<1>4. ReflectsPrefix(id, p)'
  BY <1>3, ReflectsFrame
<1> QED
  BY <1>1, <1>3, <1>4

\* The write of the message in work.
LEMMA FollowAwaited ==
  ASSUME TypeOK, ControlOK, WireOK, Follows, NEW x \in wire, Execute(x), Accepted(x), x.n = awaited,
         NEW id \in Ids \ blind'
  PROVE  \E q \in Bound'..Len(log') : ReflectsPrefix(id, q)'
<1>1. /\ x \in Request /\ x.id = Id /\ Id \in Ids /\ log' = log /\ pos' = pos
      /\ pc = "sent" /\ pc' = "done"
      /\ doc' = [doc EXCEPT ![Id] = x.entry]
      /\ blind' = IF Msg.cmd = "RIGHTS" THEN blind ELSE blind \ {Id}
  BY ExecuteCases
<1>2. /\ pos + 1 \in DOMAIN log /\ Msg = log[pos + 1] /\ log[pos + 1].id = Id
      /\ Msg.cmd \in {"PUT", "RIGHTS", "DELETE"}
  BY <1>1, MsgType DEF Msg, Id
<1>3. Bound = pos /\ Bound' = pos + 1 /\ DOMAIN log = 1..Len(log) /\ Len(log) \in Nat /\ pos \in Nat
  BY <1>1, LogType, BoundType DEF Bound
<1>4. FromLog(x) /\ Current(x) /\ Expected(x) /\ x.kind \in {"index", "create", "delete"}
  BY AcceptedByKind, <1>1 DEF WireOK
<1>5. doc \in [Ids -> Entry \cup {NoDoc}]
  BY DEF TypeOK
<1>6. CASE id # Id
  <2>1. id \notin blind /\ doc'[id] = doc[id]
    BY <1>1, <1>5, <1>6
  <2>2. pos + 1 \notin FeatureCommands(id)
    BY <1>2, <1>6 DEF FeatureCommands
  <2> QED
    BY <1>1, <2>1, <2>2, FollowOther
<1>7. CASE id = Id /\ Msg.cmd # "RIGHTS"
  <2>1. doc'[id] = x.entry
    BY <1>1, <1>5, <1>7
  <2>2. /\ Msg.cmd = "PUT" => x.entry # NoDoc /\ x.entry.features = Msg.features
        /\ Msg.cmd = "DELETE" => x.entry = NoDoc
    BY <1>2, <1>4 DEF Expected, FromLog
  <2>3. PICK n \in DOMAIN log : n = pos + 1
    BY <1>2
  <2>4. ReflectsPrefix(id, n)'
    BY <1>1, <1>2, <1>7, <2>1, <2>2, <2>3, ReflectsNew
  <2> QED
    BY <1>1, <1>3, <2>3, <2>4
<1>8. CASE id = Id /\ Msg.cmd = "RIGHTS"
  <2>1. x.kind = "index" /\ id \notin blind /\ x.id = id /\ id \in Ids
    BY <1>1, <1>2, <1>4, <1>8 DEF Expected
  <2>2. doc[id] # NoDoc /\ ver[id] = x.ver /\ doc'[id] = x.entry
    BY <1>1, <1>5, <2>1, AcceptedByKind
  <2>3. /\ x.entry # NoDoc
        /\ \/ doc'[id].features = doc[id].features
           \/ \E i \in DOMAIN log : i > Bound /\ log[i].id = id /\ ReflectsPrefix(id, i)'
    BY <1>1, <1>4, <2>1, <2>2, IndexFollows
  <2>4. CASE doc'[id].features = doc[id].features
    <3>1. PICK q \in pos..Len(log) : ReflectsPrefix(id, q)
      BY <1>3, <2>1 DEF Follows
    <3>2. pos + 1 \notin FeatureCommands(id)
      BY <1>2, <1>8 DEF FeatureCommands
    <3>3. PICK p \in (pos + 1)..Len(log) : ReflectsPrefix(id, p)
      BY <1>2, <3>1, <3>2, ReflectsSkip
    <3>4. ReflectsPrefix(id, p)'
      BY <1>1, <2>2, <2>3, <2>4, <3>3, ReflectsFrame
    <3> QED
      BY <1>1, <1>3, <3>3, <3>4
  <2>5. ASSUME NEW i \in DOMAIN log, i > Bound, ReflectsPrefix(id, i)'
        PROVE  \E q \in Bound'..Len(log') : ReflectsPrefix(id, q)'
    <3>1. i \in Bound'..Len(log')
      BY <1>1, <1>3, <2>5
    <3> QED
      BY <2>5, <3>1
  <2> QED
    BY <2>3, <2>4, <2>5
<1> QED
  BY <1>6, <1>7, <1>8

\* A late write.
LEMMA FollowLate ==
  ASSUME TypeOK, ControlOK, WireOK, Follows, NEW x \in wire, Execute(x), Accepted(x), x.n # awaited,
         NEW id \in Ids \ blind'
  PROVE  \E q \in Bound'..Len(log') : ReflectsPrefix(id, q)'
<1>1. /\ x \in Request /\ x.id \in Ids /\ log' = log /\ pos' = pos /\ pc' = pc
      /\ doc' = [doc EXCEPT ![x.id] = x.entry]
      /\ blind' = IF x.kind = "index" THEN blind ELSE blind \cup {x.id}
  BY ExecuteCases DEF Request
<1>2. Bound' = Bound /\ Bound \in Nat /\ DOMAIN log = 1..Len(log) /\ Len(log) \in Nat
  BY <1>1, LogType, BoundType DEF Bound
<1>3. Current(x) /\ doc \in [Ids -> Entry \cup {NoDoc}] /\ id \notin blind
  BY <1>1 DEF WireOK, TypeOK
<1>4. PICK q \in Bound..Len(log) : ReflectsPrefix(id, q)
  BY <1>3 DEF Follows
<1>5. CASE id # x.id
  <2>1. doc'[id] = doc[id]
    BY <1>1, <1>3, <1>5
  <2>2. ReflectsPrefix(id, q)'
    BY <1>1, <1>4, <2>1, ReflectsFrame
  <2> QED
    BY <1>1, <1>2, <1>4, <2>2
<1>6. CASE id = x.id
  <2>1. x.kind = "index"
    BY <1>1, <1>6
  <2>2. doc[id] # NoDoc /\ ver[id] = x.ver /\ doc'[id] = x.entry
    BY <1>1, <1>3, <1>6, <2>1, AcceptedByKind
  <2>3. /\ x.entry # NoDoc
        /\ \/ doc'[id].features = doc[id].features
           \/ \E i \in DOMAIN log : i > Bound /\ log[i].id = id /\ ReflectsPrefix(id, i)'
    BY <1>1, <1>3, <1>6, <2>1, <2>2, IndexFollows
  <2>4. CASE doc'[id].features = doc[id].features
    <3>1. ReflectsPrefix(id, q)'
      BY <1>1, <1>4, <2>2, <2>3, <2>4, ReflectsFrame
    <3> QED
      BY <1>1, <1>2, <1>4, <3>1
  <2>5. CASE \E i \in DOMAIN log : i > Bound /\ log[i].id = id /\ ReflectsPrefix(id, i)'
    BY <1>1, <1>2, <2>5
  <2> QED
    BY <2>3, <2>4, <2>5
<1> QED
  BY <1>5, <1>6

LEMMA FollowStep ==
  ASSUME TypeOK, ControlOK, ReadCurrent, WireOK, Follows, [Next]_vars
  PROVE  Follows'
<1>0. Bound \in Nat /\ Len(log) \in Nat
  BY BoundType, LogType
<1>1. ASSUME log' = log, Bound' \in Nat, Bound' <= Bound, blind \subseteq blind',
             \A id \in Ids \ blind' : doc'[id] = doc[id]
      PROVE  Follows'
  <2> SUFFICES ASSUME NEW id \in Ids \ blind'
               PROVE  \E q \in Bound'..Len(log') : ReflectsPrefix(id, q)'
    BY DEF Follows
  <2>1. PICK q \in Bound..Len(log) : ReflectsPrefix(id, q)
    BY <1>1 DEF Follows
  <2>2. ReflectsPrefix(id, q)'
    BY <1>1, <2>1, ReflectsFrame
  <2> QED
    BY <1>0, <1>1, <2>1, <2>2
<1>2. CASE CalmStep
  BY <1>1, <1>2, CalmFacts
<1>3. CASE SendIndex \/ SendCreate \/ SendDelete \/ Resend
  <2>1. UNCHANGED <<log, doc, blind, pos>> /\ pc' = "sent"
    BY <1>3 DEF SendIndex, SendCreate, SendDelete, Resend, Await, storeVars
  <2>2. pc \notin {"done", "commit"}
    BY <1>3 DEF SendIndex, SendCreate, SendDelete, Resend
  <2>3. Bound' = Bound
    BY <2>1, <2>2 DEF Bound
  <2> QED
    BY <1>0, <1>1, <2>1, <2>3
<1>4. ASSUME NEW i \in DOMAIN Others, OtherHandler(Others[i])
      PROVE  Follows'
  <2>1. UNCHANGED <<log, doc, blind, pos, pc>>
    BY <1>4 DEF OtherHandler, storeVars, consumerVars
  <2>2. Bound' = Bound
    BY <2>1 DEF Bound
  <2> QED
    BY <1>0, <1>1, <2>1, <2>2
<1>5. ASSUME NEW resource \in Imports, Import(resource)
      PROVE  Follows'
  <2>1. UNCHANGED <<log, pos, pc>> /\ blind' = blind \cup {resource.id}
    BY <1>5 DEF Import, consumerVars
  <2>2. \A id \in Ids \ blind' : doc'[id] = doc[id]
    BY <1>5, <2>1 DEF Import, Write, TypeOK
  <2>3. Bound' = Bound
    BY <2>1 DEF Bound
  <2> QED
    BY <1>0, <1>1, <2>1, <2>2, <2>3
<1>6. CASE ResourceExists
  <2>1. /\ UNCHANGED <<log, doc, pos>> /\ pc = "exists" /\ pc' = AfterExists(doc[Id] # NoDoc)
        /\ blind' = IF Msg.cmd = "DELETE" /\ doc[Id] = NoDoc THEN blind \ {Id} ELSE blind
    BY <1>6 DEF ResourceExists, storeVars
  <2>2. /\ pos + 1 \in DOMAIN log /\ Msg = log[pos + 1] /\ log[pos + 1].id = Id /\ Id \in Ids
        /\ Msg.cmd \in {"PUT", "RIGHTS", "DELETE"}
    BY <2>1, MsgType DEF Msg, Id
  <2>3. CASE pc' # "done"
    <3>1. Bound' = Bound
      BY <2>1, <2>3 DEF Bound, AfterExists
    <3>2. blind' = blind
      BY <2>1, <2>3 DEF AfterExists
    <3> QED
      BY <1>0, <1>1, <2>1, <3>1, <3>2
  <2>4. CASE pc' = "done"
    <3>1. doc[Id] = NoDoc /\ Msg.cmd # "PUT"
      BY <2>1, <2>4 DEF AfterExists
    <3>2. Bound' = pos + 1 /\ DOMAIN log = 1..Len(log) /\ pos \in Nat
      BY <2>1, <2>4, LogType, BoundType DEF Bound
    <3> SUFFICES ASSUME NEW id \in Ids \ blind'
                 PROVE  \E q \in Bound'..Len(log') : ReflectsPrefix(id, q)'
      BY DEF Follows
    <3>3. CASE id = Id /\ Msg.cmd = "DELETE"
      <4>1. PICK n \in DOMAIN log : n = pos + 1
        BY <2>2
      <4>2. ReflectsPrefix(id, n)'
        BY <2>1, <2>2, <3>1, <3>3, <4>1, ReflectsNew
      <4> QED
        BY <1>0, <2>1, <3>2, <4>1, <4>2
    <3>4. CASE ~(id = Id /\ Msg.cmd = "DELETE")
      <4>1. id \notin blind
        BY <2>1, <3>4
      <4>2. pos + 1 \notin FeatureCommands(id)
        BY <2>2, <3>1, <3>4 DEF FeatureCommands
      <4> QED
        BY <2>1, <2>4, <4>1, <4>2, FollowOther
    <3> QED
      BY <3>3, <3>4
  <2> QED
    BY <2>3, <2>4
<1>7. ASSUME NEW x \in wire, Execute(x)
      PROVE  Follows'
  <2>1. CASE Accepted(x)
    BY <1>7, <2>1, FollowAwaited, FollowLate DEF Follows
  <2>2. CASE ~Accepted(x)
    <3>1. /\ UNCHANGED <<log, pos, doc, blind>>
          /\ pc' = pc \/ (pc = "sent" /\ pc' = "failed")
      BY <1>7, <2>2, ExecuteCases
    <3>2. Bound' = Bound
      BY <3>1 DEF Bound
    <3> QED
      BY <1>0, <1>1, <3>1, <3>2
  <2> QED
    BY <2>1, <2>2
<1>8. CASE FetchTimeout \/ UNCHANGED vars
  <2>1. UNCHANGED <<log, doc, blind, pos, pc>>
    BY <1>8 DEF FetchTimeout, vars
  <2>2. Bound' = Bound
    BY <2>1 DEF Bound
  <2> QED
    BY <1>0, <1>1, <2>1, <2>2
<1> QED
  BY <1>2, <1>3, <1>4, <1>5, <1>6, <1>7, <1>8 DEF Next, Proceed, CalmStep

-----------------------------------------------------------------------------
(* Theorems.                                                               *)

LEMMA InitIInv == Init => IInv
<1> SUFFICES ASSUME Init
             PROVE  IInv
  OBVIOUS
<1>1. TypeOK
  <2>1. log \in Seq(ResourceCommand)
    BY LateWritesAssumption DEF Init
  <2>2. Len(log) \in Nat
    BY <2>1
  <2> QED
    BY <2>2, LateWritesAssumption DEF Init, TypeOK, Label
<1>2. ControlOK /\ ReadCurrent /\ WireOK
  BY DEF Init, ControlOK, ReadCurrent, WireOK
<1>3. Follows
  <2>1. Bound = 0 /\ 0 \in Bound..Len(log)
    BY <1>1, LogType DEF Init, Bound
  <2>2. \A id \in Ids : FeatureCommands(id) \subseteq Nat \ {0}
    BY <1>1, LogType DEF FeatureCommands
  <2>3. \A id \in Ids : {i \in FeatureCommands(id) : i <= 0} = {}
    BY <2>2
  <2>4. \A id \in Ids : ReflectsPrefix(id, 0)
    BY <2>3 DEF Init, ReflectsPrefix
  <2> QED
    BY <2>1, <2>4 DEF Follows
<1> QED
  BY <1>1, <1>2, <1>3 DEF IInv

LEMMA NextIInv == IInv /\ [Next]_vars => IInv'
BY TypeStep, ControlStep, ReadStep, WireStep, FollowStep DEF IInv

LEMMA Invariance == Spec => []IInv
BY InitIInv, NextIInv, PTL DEF Spec

\* Types are correct in every reachable state.
THEOREM TypeCorrect == Spec => []TypeOK
BY Invariance, PTL DEF IInv

\* Existence and features follow the topic, not behind the reader, for every
\* document that no import and no unconditional late write interfered with
\* since its last PUT or DELETE, however late conditional writes come.
THEOREM FollowsTopic == Spec => []FollowsUnlessBlind
<1>1. IInv => FollowsUnlessBlind
  <2> SUFFICES ASSUME IInv, NEW id \in Ids \ blind
               PROVE  \E q \in pos..Len(log) : ReflectsPrefix(id, q)
    BY DEF FollowsUnlessBlind
  <2>1. PICK q \in Bound..Len(log) : ReflectsPrefix(id, q)
    BY DEF IInv, Follows
  <2>2. Bound \in Nat /\ pos \in Nat /\ pos <= Bound /\ Len(log) \in Nat
    BY BoundType, LogType DEF IInv
  <2> QED
    BY <2>1, <2>2
<1> QED
  BY <1>1, Invariance, PTL
-----------------------------------------------------------------------------
(* Steps of the abstract store.                                            *)

\* The operators of the abstract store are those of Commands.
LEMMA StoreOperators ==
  /\ \A e, m : Store!PermEffect(e, m) = PermEffect(e, m)
  /\ \A e, m : Store!FeaturesEffects(e, m) = FeaturesEffects(e, m)
  /\ \A e, m : Store!RightsEffects(e, m) = RightsEffects(e, m)
  /\ \A o, f : Store!NewEntries(o, f) = NewEntries(o, f)
  /\ \A m : Store!IsPermUpdate(m) = IsPermUpdate(m)
<1>1. \A e, m : Store!PermEffect(e, m) = PermEffect(e, m)
  BY DEF Store!PermEffect, PermEffect, Store!AddUserRights, AddUserRights, Store!AddGroupRights,
         AddGroupRights, Store!RemoveUserRights, RemoveUserRights, Store!RemoveGroupRights,
         RemoveGroupRights, Store!Right, Right
<1>2. \A e, o : Store!CreatorFallback(e, o) = CreatorFallback(e, o)
  BY DEF Store!CreatorFallback, CreatorFallback
<1>3. \A e, m : Store!FeaturesEffects(e, m) = FeaturesEffects(e, m)
  BY <1>2 DEF Store!FeaturesEffects, FeaturesEffects
<1>4. \A e, m : Store!RightsEffects(e, m) = RightsEffects(e, m)
  BY <1>2 DEF Store!RightsEffects, RightsEffects, Store!SetResourceRights, SetResourceRights,
              Store!NoHolders, NoHolders, Store!Right, Right
<1>5. \A o, f : Store!NewEntries(o, f) = NewEntries(o, f)
  <2>1. Store!VisitOrders = VisitOrders
    BY DEF Store!VisitOrders, VisitOrders, Store!Bijection, Bijection, Store!Injection, Injection,
           Store!Surjection, Surjection, Store!IsInjective, IsInjective, Store!Cardinality,
           Cardinality
  <2>2. \A order : Store!GroupsAfterLoop(order) = GroupsAfterLoop(order)
    BY DEF Store!GroupsAfterLoop, GroupsAfterLoop, Store!Right, Right
  <2>3. \A o : Store!OwnerRights(o) = OwnerRights(o)
    BY DEF Store!OwnerRights, OwnerRights, Store!Right, Right
  <2>4. Store!NoAnnotations = NoAnnotations
    BY DEF Store!NoAnnotations, NoAnnotations
  <2> QED
    BY <2>1, <2>2, <2>3, <2>4 DEF Store!NewEntries, NewEntries
<1>6. \A m : Store!IsPermUpdate(m) = IsPermUpdate(m)
  BY DEF Store!IsPermUpdate, IsPermUpdate
<1> QED
  BY <1>1, <1>3, <1>4, <1>5, <1>6

LEMMA StoreMessages ==
  /\ \A i \in DOMAIN log : log[i] \in Store!Messages("resource")
  /\ \A i \in DOMAIN Others : Others[i] \in Store!Messages("perm")
BY DEF Store!Messages

\* An index that is accepted applies one message to the present document.
LEMMA IndexImplements ==
  ASSUME TypeOK, WireOK, NEW r \in wire, r.kind = "index", log' = log,
         doc[r.id] # NoDoc, ver[r.id] = r.ver, doc' = [doc EXCEPT ![r.id] = r.entry]
  PROVE  Store!StoreNext
<1>1. r \in Request /\ r.id \in Ids /\ Applied(r)
  BY DEF TypeOK, WireOK, Current, Request
<1>2. ASSUME NEW i \in DOMAIN Others, Others[i].id = r.id,
             r.entry = PermEffect(doc[r.id], Others[i])
      PROVE  Store!StoreNext
  <2>1. IsPermUpdate(Others[i])
    BY OthersType
  <2>2. Store!SetPermission(Others[i])
    BY <1>1, <1>2, <2>1, StoreOperators DEF Store!SetPermission, Store!Rewrite
  <2> QED
    BY <2>2, StoreMessages DEF Store!StoreNext
<1>3. ASSUME NEW i \in DOMAIN log, log[i].cmd = "RIGHTS", log[i].id = r.id,
             r.entry \in RightsEffects(doc[r.id], log[i])
      PROVE  Store!StoreNext
  <2>1. log[i].rights # NoRights
    BY LogType
  <2>2. r.entry \in Store!RightsEffects(doc[r.id], log[i])
    BY <1>3, StoreOperators
  <2>3. Store!SetRights(log[i])
    BY <1>1, <1>3, <2>1, <2>2 DEF Store!SetRights, Store!Rewrite
  <2> QED
    BY <2>3, StoreMessages DEF Store!StoreNext
<1>4. ASSUME NEW i \in DOMAIN log, log[i].cmd = "PUT", log[i].id = r.id,
             r.entry \in FeaturesEffects(doc[r.id], log[i])
      PROVE  Store!StoreNext
  <2>1. r.entry \in Store!FeaturesEffects(doc[r.id], log[i])
    BY <1>4, StoreOperators
  <2>2. Store!PutFeatures(log[i])
    BY <1>1, <1>4, <2>1 DEF Store!PutFeatures, Store!Rewrite
  <2> QED
    BY <2>2, StoreMessages DEF Store!StoreNext
<1> QED
  BY <1>1, <1>2, <1>3, <1>4 DEF Applied

\* So do a creation where there is no document, and a deletion.
LEMMA UnconditionalImplements ==
  ASSUME TypeOK, WireOK, NEW r \in wire, log' = log, doc' = [doc EXCEPT ![r.id] = r.entry],
         \/ r.kind = "create" /\ doc[r.id] = NoDoc
         \/ r.kind = "delete" /\ doc[r.id] # NoDoc
  PROVE  Store!StoreNext
<1>1. r.id \in Ids /\ FromLog(r)
  BY DEF TypeOK, WireOK, Request
<1>2. CASE r.kind = "create" /\ doc[r.id] = NoDoc
  <2>1. PICK i \in DOMAIN log : /\ log[i].cmd = "PUT" /\ log[i].id = r.id
                                /\ r.entry \in NewEntries(log[i].owner, log[i].features)
    BY <1>1, <1>2 DEF FromLog
  <2>2. r.entry \in Store!NewEntries(log[i].owner, log[i].features)
    BY <2>1, StoreOperators
  <2>3. Store!PutFeatures(log[i])
    BY <1>1, <1>2, <2>1, <2>2 DEF Store!PutFeatures, Store!Rewrite
  <2> QED
    BY <2>3, StoreMessages DEF Store!StoreNext
<1>3. CASE r.kind = "delete" /\ doc[r.id] # NoDoc
  <2>1. PICK i \in DOMAIN log : log[i].cmd = "DELETE" /\ log[i].id = r.id
    BY <1>1, <1>3 DEF FromLog
  <2>2. r.entry = NoDoc
    BY <1>1, <1>3 DEF FromLog
  <2>3. Store!Delete(log[i])
    BY <1>1, <1>3, <2>1, <2>2 DEF Store!Delete, Store!Rewrite
  <2> QED
    BY <2>3, StoreMessages DEF Store!StoreNext
<1> QED
  BY <1>2, <1>3

\* Only the execution of a write and an import change a document.
LEMMA OthersChangeNothing ==
  ASSUME [Next]_vars
  PROVE  \/ UNCHANGED <<log, doc>>
         \/ \E resource \in Imports : Import(resource)
         \/ \E r \in wire : Execute(r)
BY DEF Next, Proceed, Start, Fetch, ResourceExists, GetResourceEntry, SendIndex, SendCreate,
       SendDelete, HandlerError, SendDone, Commit, StartFails, Crash, FetchTimeout, Resend,
       GiveUp, RequestFails, OtherHandler, Await, storeVars, vars

\* The action of OnlyCreationsReplace, for every step.
LEMMA ReplaceStep ==
  ASSUME IInv, [Next]_vars
  PROVE  \/ UNCHANGED <<log, doc>>
         \/ imports' # imports
         \/ \E r \in wire \ wire' : /\ r.kind = "create" /\ doc[r.id] # NoDoc
                                    /\ r.n # awaited \/ r.id \in blind
         \/ Store!StoreNext
<1>0. TypeOK /\ ControlOK /\ WireOK
  BY DEF IInv
<1>1. ASSUME NEW resource \in Imports, Import(resource)
      PROVE  imports' # imports
  BY <1>0, <1>1, LateWritesAssumption DEF Import, TypeOK
<1>2. ASSUME NEW r \in wire, Execute(r), ~Accepted(r)
      PROVE  UNCHANGED <<log, doc>>
  BY <1>0, <1>2, ExecuteCases
<1>3. ASSUME NEW r \in wire, Execute(r), Accepted(r)
      PROVE  \/ \E x \in wire \ wire' : /\ x.kind = "create" /\ doc[x.id] # NoDoc
                                        /\ x.n # awaited \/ x.id \in blind
             \/ Store!StoreNext
  <2>1. r \in Request /\ log' = log /\ r \in wire \ wire' /\ doc' = [doc EXCEPT ![r.id] = r.entry]
    BY <1>0, <1>3, ExecuteCases
  <2>2. Expected(r)
    BY <1>0 DEF WireOK
  <2>3. CASE r.kind = "index"
    BY <1>0, <1>3, <2>1, <2>3, AcceptedByKind, IndexImplements
  <2>4. CASE r.kind = "create" /\ doc[r.id] # NoDoc
    <3>1. r.n # awaited \/ r.id \in blind
      BY <2>2, <2>4 DEF Expected
    <3> QED
      BY <2>1, <2>4, <3>1
  <2>5. CASE r.kind = "create" /\ doc[r.id] = NoDoc
    BY <1>0, <2>1, <2>5, UnconditionalImplements
  <2>6. CASE r.kind = "delete"
    BY <1>0, <1>3, <2>1, <2>6, AcceptedByKind, UnconditionalImplements
  <2> QED
    BY <1>3, <2>1, <2>3, <2>4, <2>5, <2>6, AcceptedByKind
<1> QED
  BY <1>1, <1>2, <1>3, OthersChangeNothing

\* A conditional write, however late, applies its command to the document as
\* it is; what is there is replaced only by imports, by late creations and by
\* creations that meet a document made by one of these.
THEOREM OnlyCreations == Spec => OnlyCreationsReplace
<1> DEFINE Kept ==
      \/ imports' # imports
      \/ \E r \in wire \ wire' : /\ r.kind = "create" /\ doc[r.id] # NoDoc
                                 /\ r.n # awaited \/ r.id \in blind
      \/ Store!StoreNext
<1>1. IInv /\ [Next]_vars => [Kept]_<<log, doc>>
  BY ReplaceStep
<1> HIDE DEF Kept
<1>2. Spec => [][Kept]_<<log, doc>>
  BY <1>1, Invariance, PTL DEF Spec
<1> QED
  BY <1>2 DEF OnlyCreationsReplace, Kept
=============================================================================
