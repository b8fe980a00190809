--------------------------- MODULE RightsApiProofs ---------------------------
(***************************************************************************)
(* Proofs about RightsApi: for any callers, requests, keys, hash and       *)
(* partitions, and any number of compactions and starts of the worker.     *)
(***************************************************************************)
EXTENDS RightsApi, RightsProofs, SequenceTheorems

\* A command of the topic for the document of an id.
IsCommand(t) ==
  /\ t \in TopicMessage
  /\ t.msg.id \in Ids
  /\ \/ t.by = Others /\ t.asked = Others /\ t.msg.cmd \in {"PUT", "DELETE"}
        /\ t.key = PlainKey(t.msg.id)
     \/ /\ t.by \in Requests /\ t.asked \in RightsRequests
        /\ t.msg.cmd = "RIGHTS" /\ t.msg.rights \in ResourceRightsBase
        /\ t.msg.id = t.asked.id /\ t.msg.rights = t.asked.rights
        /\ t.key = KeyOf(t.asked)
        /\ IsAdmin(t.asked.caller) \/ ValidAdminRemoval(t.msg.rights, t.asked.caller)

TopicOK == \A k \in DOMAIN topic : IsCommand(topic[k])

\* One of the commands made the caller administrator of d.
Empowered(d, caller) ==
  \E j \in DOMAIN topic : topic[j].msg.id = d /\ Empowers(topic[j].msg, caller)

\* Step, question and answer of a request belong together.
RequestOK ==
  \A q \in Requests :
    /\ pc[q] \in {"check", "produce"} => req[q] \in RightsRequests /\ answer[q] = 0
    /\ pc[q] = "new" => answer[q] = 0
    /\ pc[q] = "produce" /\ ~IsAdmin(req[q].caller) =>
         /\ ValidAdminRemoval(req[q].rights, req[q].caller)
         /\ Empowered(req[q].id, req[q].caller)

\* Commands of a request are in the topic from its last step on.
SentOK ==
  \A k \in DOMAIN topic : topic[k].by \in Requests =>
    \/ pc[topic[k].by] = "produce" /\ req[topic[k].by].id \in Ids
    \/ pc[topic[k].by] = "answered" /\ answer[topic[k].by] \in {200, 500}

\* Who may administrate a document was empowered by the topic.
DocumentsOK ==
  \A d \in Ids : \A caller \in Caller :
    doc[d] # NoDoc /\ CheckUserOrGroup(caller, doc[d]) => Empowered(d, caller)

IInv == /\ TypeOK /\ TopicOK /\ RequestOK /\ SentOK /\ DocumentsOK
        /\ AuthorityFromTopic /\ AdminUserKept /\ AnswerIsTrue

-----------------------------------------------------------------------------
\* The operators of the abstract store are those of Commands.
LEMMA StoreOperators ==
  /\ \A e, m : Store!FeaturesEffects(e, m) = FeaturesEffects(e, m)
  /\ \A e, m : Store!RightsEffects(e, m) = RightsEffects(e, m)
  /\ \A o, f : Store!NewEntries(o, f) = NewEntries(o, f)
<1>1. \A e, o : Store!CreatorFallback(e, o) = CreatorFallback(e, o)
  BY DEF Store!CreatorFallback, CreatorFallback
<1>2. \A e, m : Store!FeaturesEffects(e, m) = FeaturesEffects(e, m)
  BY <1>1 DEF Store!FeaturesEffects, FeaturesEffects
<1>3. \A e, m : Store!RightsEffects(e, m) = RightsEffects(e, m)
  BY <1>1 DEF Store!RightsEffects, RightsEffects, Store!SetResourceRights, SetResourceRights,
              Store!NoHolders, NoHolders, Store!Right, Right
<1>4. \A o, f : Store!NewEntries(o, f) = NewEntries(o, f)
  <2>1. Store!VisitOrders = VisitOrders
    BY DEF Store!VisitOrders, VisitOrders, Store!Bijection, Bijection, Store!Injection, Injection,
           Store!Surjection, Surjection, Store!IsInjective, IsInjective, Store!Cardinality,
           Cardinality
  <2>2. \A order : Store!GroupsAfterLoop(order) = GroupsAfterLoop(order)
    BY DEF Store!GroupsAfterLoop, GroupsAfterLoop, Store!Right, Right
  <2>3. \A o : Store!OwnerRights(o) = OwnerRights(o)
    BY DEF Store!OwnerRights, OwnerRights, Store!Right, Right
  <2>4. Store!NoAnnotations = NoAnnotations
    BY DEF Store!NoAnnotations, NoAnnotations
  <2> QED
    BY <2>1, <2>2, <2>3, <2>4 DEF Store!NewEntries, NewEntries
<1> QED
  BY <1>2, <1>3, <1>4

\* The effect of a command on its document, and on no other.
Effect(m, old, new) ==
  /\ m.cmd = "PUT" /\ old = NoDoc => new \in NewEntries(m.owner, m.features)
  /\ m.cmd = "PUT" /\ old # NoDoc =>
       new.features = m.features /\ new.users = old.users /\ new.groups = old.groups
  /\ m.cmd = "RIGHTS" /\ old # NoDoc =>
       /\ new.features = old.features
       /\ new.users = SetResourceRights(NoHolders, m.rights.users)
       /\ new.groups = SetResourceRights(NoHolders, m.rights.groups)
  /\ m.cmd = "DELETE" \/ (m.cmd = "RIGHTS" /\ old = NoDoc) => new = NoDoc

LEMMA ApplyEffect ==
  ASSUME TypeOK, NEW t, IsCommand(t), Apply(t.msg)
  PROVE  /\ doc' \in [Ids -> Entry \cup {NoDoc}]
         /\ \A d \in Ids \ {t.msg.id} : doc'[d] = doc[d]
         /\ t.msg.cmd = "PUT" \/ (t.msg.cmd = "RIGHTS" /\ doc[t.msg.id] # NoDoc) =>
              doc'[t.msg.id] \in Entry /\ doc'[t.msg.id] # NoDoc
         /\ Effect(t.msg, doc[t.msg.id], doc'[t.msg.id])
<1> DEFINE m == t.msg
           id == m.id
<1>1. doc \in [Ids -> Entry \cup {NoDoc}] /\ NoDoc \notin Entry
  BY RightsApiAssumption DEF TypeOK
<1>2. /\ m \in ResourceCommand /\ id \in Ids
      /\ m.owner \in Users \cup {NoUser} /\ m.features \in Features
      /\ m.cmd \in {"PUT", "DELETE", "RIGHTS"}
  BY DEF IsCommand, TopicMessage, ResourceCommand
<1>3. ASSUME NEW e \in Entry \cup {NoDoc}, Store!Rewrite(id, e)
      PROVE  /\ doc' \in [Ids -> Entry \cup {NoDoc}]
             /\ \A d \in Ids \ {id} : doc'[d] = doc[d]
             /\ doc'[id] = e
  BY <1>1, <1>2, <1>3 DEF Store!Rewrite
<1>4. CASE Store!PutFeatures(m) /\ doc[id] = NoDoc
  <2>1. PICK e \in NewEntries(m.owner, m.features) : Store!Rewrite(id, e)
    BY <1>4, StoreOperators DEF Store!PutFeatures
  <2>2. e \in Entry
    BY <1>2, NewEntriesType
  <2>3. m.cmd = "PUT"
    BY <1>4 DEF Store!PutFeatures
  <2> QED
    BY <1>1, <1>3, <1>4, <2>1, <2>2, <2>3 DEF Effect
<1>5. CASE Store!PutFeatures(m) /\ doc[id] # NoDoc
  <2>1. PICK e \in FeaturesEffects(doc[id], m) : Store!Rewrite(id, e)
    BY <1>5, StoreOperators DEF Store!PutFeatures
  <2>2. doc[id] \in Entry
    BY <1>1, <1>2, <1>5
  <2>3. e \in Entry /\ e.features = m.features /\ e.users = doc[id].users
        /\ e.groups = doc[id].groups
    BY <1>2, <2>2, FeaturesEffectsLists
  <2>4. m.cmd = "PUT"
    BY <1>5 DEF Store!PutFeatures
  <2> QED
    BY <1>1, <1>3, <1>5, <2>1, <2>3, <2>4 DEF Effect
<1>6. CASE Store!SetRights(m)
  <2>1. m.cmd = "RIGHTS" /\ m.rights # NoRights /\ doc[id] # NoDoc
    BY <1>6 DEF Store!SetRights
  <2>2. doc[id] \in Entry /\ m.rights \in ResourceRightsBase
    BY <1>1, <1>2, <2>1 DEF IsCommand
  <2>3. PICK e \in RightsEffects(doc[id], m) : Store!Rewrite(id, e)
    BY <1>6, StoreOperators DEF Store!SetRights
  <2>4. /\ e \in Entry /\ e.features = doc[id].features
        /\ e.users = SetResourceRights(NoHolders, m.rights.users)
        /\ e.groups = SetResourceRights(NoHolders, m.rights.groups)
    BY <1>2, <2>1, <2>2, RightsEffectsLists
  <2> QED
    BY <1>1, <1>3, <2>1, <2>3, <2>4 DEF Effect
<1>7. CASE Store!Delete(m)
  <2>1. m.cmd = "DELETE" /\ Store!Rewrite(id, NoDoc)
    BY <1>7 DEF Store!Delete
  <2> QED
    BY <1>1, <1>3, <2>1 DEF Effect
<1>8. CASE m.cmd # "PUT" /\ doc[id] = NoDoc /\ UNCHANGED doc
  BY <1>1, <1>2, <1>8 DEF Effect
<1> QED
  BY <1>4, <1>5, <1>6, <1>7, <1>8 DEF Apply

\* The administrators of a new entry are its owner and the configured groups.
LEMMA NewEntryAdministrators ==
  ASSUME NEW m \in ResourceCommand, NEW e \in NewEntries(m.owner, m.features), m.cmd = "PUT"
  PROVE  /\ \A caller \in Caller : CheckUserOrGroup(caller, e) => Empowers(m, caller)
         /\ m.owner # NoUser => e.users["a"] # {}
<1>1. PICK order \in VisitOrders :
        /\ e.users = OwnerRights(m.owner)
        /\ e.groups = GroupsAfterLoop(order)
  BY DEF NewEntries
<1>2. "a" \in Right
  BY DEF Right
<1>3. e.users["a"] = IF m.owner = NoUser THEN {} ELSE {m.owner}
  BY <1>1, <1>2 DEF OwnerRights
<1>4. \A i \in DOMAIN order : order[i] \in DOMAIN InitialGroupRights
  BY DEF VisitOrders, Bijection, Injection
<1>5. e.groups["a"] = {order[i] : i \in {j \in DOMAIN order : "a" \in InitialGroupRights[order[j]]}}
  BY <1>1, <1>2 DEF GroupsAfterLoop
<1>6. \A g \in e.groups["a"] : g \in DOMAIN InitialGroupRights /\ "a" \in InitialGroupRights[g]
  BY <1>4, <1>5
<1>7. ASSUME NEW caller \in Caller, CheckUserOrGroup(caller, e) PROVE Empowers(m, caller)
  BY <1>3, <1>6, <1>7 DEF CheckUserOrGroup, Empowers
<1> QED
  BY <1>3, <1>7

\* The administrators after a RIGHTS command are those of the command.
LEMMA CommandAdministrators ==
  ASSUME NEW rightsOf
  PROVE  SetResourceRights(NoHolders, rightsOf)["a"] = Administrators(rightsOf)
<1>1. "a" \in Right
  BY DEF Right
<1> QED
  BY <1>1 DEF SetResourceRights, NoHolders, Administrators

\* A command of the topic keeps the documents in the hands of those whom the
\* topic empowers, and with an admin user.
LEMMA ApplyOK ==
  ASSUME TypeOK, TopicOK, DocumentsOK, AdminUserKept,
         NEW k \in DOMAIN topic, Apply(topic[k].msg),
         topic' = topic
  PROVE  /\ doc' \in [Ids -> Entry \cup {NoDoc}]
         /\ DocumentsOK'
         /\ AdminUserKept'
<1> DEFINE t == topic[k]
           m == t.msg
           id == m.id
           new == doc'[id]
<1>1. IsCommand(t)
  BY DEF TopicOK
<1>2. /\ doc' \in [Ids -> Entry \cup {NoDoc}]
      /\ \A d \in Ids \ {id} : doc'[d] = doc[d]
      /\ Effect(m, doc[id], new)
  BY <1>1, ApplyEffect
<1>3. /\ m \in ResourceCommand /\ id \in Ids /\ m.cmd \in {"PUT", "DELETE", "RIGHTS"}
      /\ m.cmd = "RIGHTS" => /\ t.asked \in RightsRequests
                             /\ IsAdmin(t.asked.caller) \/ ValidAdminRemoval(m.rights, t.asked.caller)
  BY <1>1 DEF IsCommand, TopicMessage
<1>4. \A d \in Ids : /\ \A caller \in Caller : Empowered(d, caller)' <=> Empowered(d, caller)
                     /\ Overruled(d)' <=> Overruled(d)
  BY DEF Empowered, Overruled, At
<1>5. \A caller \in Caller : new # NoDoc /\ CheckUserOrGroup(caller, new) =>
        Empowered(id, caller)
  <2> SUFFICES ASSUME NEW caller \in Caller, new # NoDoc, CheckUserOrGroup(caller, new)
               PROVE  Empowered(id, caller)
    OBVIOUS
  <2>1. CASE m.cmd = "PUT" /\ doc[id] = NoDoc
    <3>1. Empowers(m, caller)
      BY <1>2, <1>3, <2>1, NewEntryAdministrators DEF Effect
    <3> QED
      BY <3>1 DEF Empowered
  <2>2. CASE m.cmd = "PUT" /\ doc[id] # NoDoc
    <3>1. CheckUserOrGroup(caller, doc[id])
      BY <1>2, <2>2 DEF Effect, CheckUserOrGroup
    <3> QED
      BY <1>3, <2>2, <3>1 DEF DocumentsOK
  <2>3. CASE m.cmd = "RIGHTS" /\ doc[id] # NoDoc
    <3>1. /\ new.users["a"] = Administrators(m.rights.users)
          /\ new.groups["a"] = Administrators(m.rights.groups)
      BY <1>2, <2>3, CommandAdministrators DEF Effect
    <3>2. Empowers(m, caller)
      BY <2>3, <3>1 DEF Empowers, CheckUserOrGroup
    <3> QED
      BY <3>2 DEF Empowered
  <2>4. CASE m.cmd = "DELETE" \/ (m.cmd = "RIGHTS" /\ doc[id] = NoDoc)
    BY <1>2, <2>4 DEF Effect
  <2> QED
    BY <1>3, <2>1, <2>2, <2>3, <2>4
<1>6. new # NoDoc /\ ~Overruled(id) => new.users["a"] # {}
  <2> SUFFICES ASSUME new # NoDoc, ~Overruled(id) PROVE new.users["a"] # {}
    OBVIOUS
  <2>1. CASE m.cmd = "PUT" /\ doc[id] = NoDoc
    <3>1. m.owner # NoUser
      BY <2>1 DEF Overruled, At
    <3> QED
      BY <1>2, <1>3, <2>1, <3>1, NewEntryAdministrators DEF Effect
  <2>2. CASE m.cmd = "PUT" /\ doc[id] # NoDoc
    BY <1>2, <1>3, <2>2 DEF Effect, AdminUserKept
  <2>3. CASE m.cmd = "RIGHTS" /\ doc[id] # NoDoc
    <3>1. new.users["a"] = Administrators(m.rights.users)
      BY <1>2, <2>3, CommandAdministrators DEF Effect
    <3>2. ~IsAdmin(t.asked.caller)
      BY <2>3 DEF Overruled, At
    <3>3. ValidAdminRemoval(m.rights, t.asked.caller)
      BY <1>3, <2>3, <3>2
    <3> QED
      BY <3>1, <3>3 DEF ValidAdminRemoval
  <2>4. CASE m.cmd = "DELETE" \/ (m.cmd = "RIGHTS" /\ doc[id] = NoDoc)
    BY <1>2, <2>4 DEF Effect
  <2> QED
    BY <1>3, <2>1, <2>2, <2>3, <2>4
<1>7. DocumentsOK'
  <2> SUFFICES ASSUME NEW d \in Ids, NEW caller \in Caller, doc'[d] # NoDoc,
                      CheckUserOrGroup(caller, doc'[d])
               PROVE  Empowered(d, caller)
    BY <1>4 DEF DocumentsOK
  <2>1. CASE d = id
    BY <1>5, <2>1
  <2>2. CASE d # id
    BY <1>2, <2>2 DEF DocumentsOK
  <2> QED
    BY <2>1, <2>2
<1>8. AdminUserKept'
  <2> SUFFICES ASSUME NEW d \in Ids, doc'[d] # NoDoc, ~Overruled(d)
               PROVE  doc'[d].users["a"] # {}
    BY <1>4 DEF AdminUserKept
  <2>1. CASE d = id
    BY <1>6, <2>1
  <2>2. CASE d # id
    BY <1>2, <2>2 DEF AdminUserKept
  <2> QED
    BY <2>1, <2>2
<1> QED
  BY <1>2, <1>7, <1>8

-----------------------------------------------------------------------------
LEMMA InitOK == Init => IInv
<1> SUFFICES ASSUME Init PROVE IInv
  OBVIOUS
<1> USE RightsApiAssumption DEF Init
<1>1. TypeOK
  BY DEF TypeOK
<1>2. TopicOK
  BY DEF TopicOK, IsForeign, IsCommand
<1>3. \A k \in DOMAIN topic : topic[k].by = Others
  BY DEF IsForeign
<1>4. RequestOK /\ SentOK /\ DocumentsOK
  BY <1>3 DEF RequestOK, SentOK, DocumentsOK
<1>5. AuthorityFromTopic /\ AdminUserKept /\ AnswerIsTrue
  BY <1>3 DEF AuthorityFromTopic, AdminUserKept, AnswerIsTrue
<1> QED
  BY <1>1, <1>2, <1>4, <1>5 DEF IInv

\* The message a request produces is a command.
LEMMA MessageOK ==
  ASSUME TypeOK, RequestOK, NEW q \in Requests, pc[q] = "produce", req[q].id \in Ids
  PROVE  /\ IsCommand(Message(q)) /\ Message(q).by = q /\ Message(q).asked = req[q]
         /\ Message(q).msg.cmd = "RIGHTS" /\ Message(q).msg.id = req[q].id
<1>1. req[q] \in RightsRequests /\ req[q] \in RightsRequest
  BY RightsApiAssumption DEF RequestOK
<1>2. (CHOOSE f \in Features : TRUE) \in Features
  BY RightsApiAssumption
<1>3. KeyOf(req[q]) \in Keys
  BY <1>1, RightsApiAssumption DEF KeyOf, Keys, RightsRequest
<1>4. Message(q).msg \in ResourceCommand
  BY <1>1, <1>2 DEF Message, ResourceCommand, RightsRequest
<1>5. Message(q) \in TopicMessage
  BY <1>1, <1>3, <1>4 DEF Message, TopicMessage
<1>6. req[q].rights \in ResourceRightsBase
  BY <1>1 DEF RightsRequest
<1>7. IsAdmin(req[q].caller) \/ ValidAdminRemoval(req[q].rights, req[q].caller)
  BY DEF RequestOK
<1>8. IsCommand(Message(q))
  BY <1>1, <1>5, <1>6, <1>7 DEF IsCommand, Message
<1> QED
  BY <1>8 DEF Message

\* The topic grows by a command: all that it says of documents stays.
LEMMA AppendOK ==
  ASSUME IInv, NEW t, IsCommand(t), topic' = Append(topic, t), doc' = doc,
         t.by \in Requests /\ ~IsAdmin(t.asked.caller) => Empowered(t.msg.id, t.asked.caller)
  PROVE  /\ topic' \in Seq(TopicMessage) /\ DOMAIN topic \subseteq DOMAIN topic'
         /\ \A k \in DOMAIN topic' : topic'[k] = IF k \in DOMAIN topic THEN topic[k] ELSE t
         /\ \A k \in DOMAIN topic' : k \in DOMAIN topic \/ k = Len(topic) + 1
         /\ Len(topic) + 1 \in DOMAIN topic' \ DOMAIN topic
         /\ TopicOK' /\ DocumentsOK' /\ AdminUserKept' /\ AuthorityFromTopic'
         /\ \A d \in Ids, caller \in Caller : Empowered(d, caller) => Empowered(d, caller)'
<1>1. topic \in Seq(TopicMessage) /\ t \in TopicMessage
  BY DEF IInv, TypeOK, IsCommand
<1>2. /\ topic' \in Seq(TopicMessage) /\ Len(topic') = Len(topic) + 1 /\ Len(topic) \in Nat
      /\ DOMAIN topic = 1..Len(topic) /\ DOMAIN topic' = 1..(Len(topic) + 1)
      /\ \A k \in 1..Len(topic) : topic'[k] = topic[k]
      /\ topic'[Len(topic) + 1] = t
  BY <1>1
<1>3. \A k \in DOMAIN topic' : /\ topic'[k] = IF k \in DOMAIN topic THEN topic[k] ELSE t
                               /\ k \in DOMAIN topic \/ k = Len(topic) + 1
  BY <1>2
<1>4. DOMAIN topic \subseteq DOMAIN topic' /\ Len(topic) + 1 \in DOMAIN topic' \ DOMAIN topic
  BY <1>2
<1>5. TopicOK'
  BY <1>3 DEF TopicOK, IInv
<1>6. \A d \in Ids, caller \in Caller : Empowered(d, caller) => Empowered(d, caller)'
  BY <1>3, <1>4 DEF Empowered
<1>7. DocumentsOK'
  BY <1>6 DEF DocumentsOK, IInv
<1>8. \A d \in Ids : Overruled(d) => Overruled(d)'
  BY <1>3, <1>4 DEF Overruled, At
<1>9. AdminUserKept'
  BY <1>8 DEF AdminUserKept, IInv
<1>10. AuthorityFromTopic'
  <2> SUFFICES ASSUME NEW k \in DOMAIN topic', topic'[k].by # Others,
                      ~IsAdmin(topic'[k].asked.caller)
               PROVE  \E j \in 1..(k - 1) :
                        /\ topic'[j].msg.id = topic'[k].msg.id
                        /\ Empowers(topic'[j].msg, topic'[k].asked.caller)
    BY DEF AuthorityFromTopic
  <2>1. CASE k \in DOMAIN topic
    <3>1. topic'[k] = topic[k]
      BY <1>3, <2>1
    <3>2. PICK j \in 1..(k - 1) : /\ topic[j].msg.id = topic[k].msg.id
                                  /\ Empowers(topic[j].msg, topic[k].asked.caller)
      BY <2>1, <3>1 DEF AuthorityFromTopic, IInv
    <3>3. topic'[j] = topic[j]
      BY <1>2, <2>1
    <3> QED
      BY <3>1, <3>2, <3>3
  <2>2. CASE k = Len(topic) + 1
    <3>1. topic'[k] = t
      BY <1>2, <2>2
    <3>2. t.by \in Requests
      BY <3>1, <1>1 DEF TopicMessage
    <3>3. PICK j \in DOMAIN topic : /\ topic[j].msg.id = t.msg.id
                                    /\ Empowers(topic[j].msg, t.asked.caller)
      BY <3>1, <3>2 DEF Empowered
    <3>4. j \in 1..(k - 1) /\ topic'[j] = topic[j]
      BY <1>2, <2>2
    <3> QED
      BY <3>1, <3>3, <3>4
  <2> QED
    BY <1>3, <2>1, <2>2
<1> QED
  BY <1>2, <1>3, <1>4, <1>5, <1>6, <1>7, <1>9, <1>10

\* A step of a request that produces nothing.
LEMMA QuietRequestOK ==
  ASSUME IInv, NEW q \in Requests, UNCHANGED <<doc, topic, gone, done, boundVars>> \/
           (UNCHANGED <<doc, topic, gone, done, foreign, compactions, restarts>> /\
            faults' \in 0..MaxFaults),
         pc' \in [Requests -> {"new", "check", "produce", "answered"}],
         req' \in [Requests -> RightsRequests \cup {NoRequest}],
         answer' \in [Requests -> {0, 200, 400, 403, 404, 500}],
         \A p \in Requests \ {q} : pc'[p] = pc[p] /\ req'[p] = req[p] /\ answer'[p] = answer[p],
         pc'[q] \in {"check", "produce"} => req'[q] \in RightsRequests /\ answer'[q] = 0,
         pc'[q] \in {"check", "produce", "answered"},
         pc'[q] = "produce" /\ ~IsAdmin(req'[q].caller) =>
           /\ ValidAdminRemoval(req'[q].rights, req'[q].caller)
           /\ Empowered(req'[q].id, req'[q].caller),
         answer'[q] # 200,
         (\E k \in DOMAIN topic : topic[k].by = q) =>
           pc'[q] = "answered" /\ answer'[q] = 500
  PROVE  IInv'
<1>1. UNCHANGED <<doc, topic, gone, done, foreign, compactions, restarts>>
      /\ faults' \in 0..MaxFaults
  BY DEF boundVars, IInv, TypeOK
<1>2. TypeOK'
  BY <1>1 DEF IInv, TypeOK
<1>3. TopicOK' /\ DocumentsOK' /\ AuthorityFromTopic' /\ AdminUserKept'
  BY <1>1 DEF IInv, TopicOK, DocumentsOK, AuthorityFromTopic, AdminUserKept, Empowered,
              Overruled, At
<1>4. RequestOK'
  BY <1>1 DEF IInv, RequestOK, Empowered
<1>5. SentOK'
  BY <1>1 DEF IInv, SentOK
<1>6. AnswerIsTrue'
  BY <1>1 DEF IInv, AnswerIsTrue
<1> QED
  BY <1>2, <1>3, <1>4, <1>5, <1>6 DEF IInv

LEMMA AskOK ==
  ASSUME IInv, NEW q \in Requests, NEW r \in RightsRequests, Ask(q, r)
  PROVE  IInv'
<1>1. /\ pc[q] = "new" /\ answer[q] = 0 /\ UNCHANGED <<doc, topic, gone, done, boundVars>>
      /\ pc \in [Requests -> {"new", "check", "produce", "answered"}]
      /\ req \in [Requests -> RightsRequests \cup {NoRequest}]
      /\ answer \in [Requests -> {0, 200, 400, 403, 404, 500}]
  BY DEF Ask, RequestOK, IInv, TypeOK
<1>2. \A k \in DOMAIN topic : topic[k].by # q
  BY <1>1 DEF SentOK, IInv
<1>3. CASE ~r.valid
  <2>1. /\ pc' = [pc EXCEPT ![q] = "answered"] /\ answer' = [answer EXCEPT ![q] = 400]
        /\ req' = [req EXCEPT ![q] = NoRequest]
    BY <1>3 DEF Ask, Answer
  <2> QED
    BY <1>1, <1>2, <2>1, QuietRequestOK
<1>4. CASE r.valid
  <2>1. /\ pc' = [pc EXCEPT ![q] = IF IsAdmin(r.caller) THEN "produce" ELSE "check"]
        /\ req' = [req EXCEPT ![q] = r] /\ answer' = answer
    BY <1>4 DEF Ask, Goto
  <2>2. /\ pc' \in [Requests -> {"new", "check", "produce", "answered"}]
        /\ req' \in [Requests -> RightsRequests \cup {NoRequest}]
        /\ answer' \in [Requests -> {0, 200, 400, 403, 404, 500}]
        /\ \A p \in Requests \ {q} : pc'[p] = pc[p] /\ req'[p] = req[p] /\ answer'[p] = answer[p]
    BY <1>1, <2>1
  <2>3. /\ pc'[q] \in {"check", "produce"} /\ req'[q] = r /\ answer'[q] = 0
        /\ pc'[q] = "produce" => IsAdmin(r.caller)
    BY <1>1, <2>1
  <2> QED
    BY <1>1, <1>2, <2>2, <2>3, QuietRequestOK
<1> QED
  BY <1>3, <1>4

LEMMA CheckOK ==
  ASSUME IInv, NEW q \in Requests, Check(q)
  PROVE  IInv'
<1> USE DEF IInv
<1>1. pc[q] = "check" /\ answer[q] = 0 /\ UNCHANGED <<doc, topic, gone, done, boundVars>>
  BY DEF Check, RequestOK
<1>2. \A k \in DOMAIN topic : topic[k].by # q
  BY <1>1 DEF SentOK
<1>3. ASSUME NEW code \in {403, 400}, Answer(q, code) PROVE IInv'
  BY <1>1, <1>2, <1>3, QuietRequestOK DEF TypeOK, Answer
<1>4. CASE Administrated(q) /\ ValidAdminRemoval(req[q].rights, req[q].caller)
  <2>1. pc' = [pc EXCEPT ![q] = "produce"] /\ req' = req /\ answer' = answer
    BY <1>4 DEF Check, Goto
  <2>2. req[q] \in RightsRequests /\ req[q].caller \in Caller
    BY <1>1, RightsApiAssumption DEF RequestOK, RightsRequest
  <2>3. Empowered(req[q].id, req[q].caller)
    BY <1>4, <2>2 DEF Administrated, DocumentsOK
  <2> QED
    BY <1>1, <1>2, <1>4, <2>1, <2>2, <2>3, QuietRequestOK DEF TypeOK
<1> QED
  BY <1>3, <1>4 DEF Check

LEMMA CheckFailsOK ==
  ASSUME IInv, NEW q \in Requests, CheckFails(q)
  PROVE  IInv'
<1> USE DEF IInv
<1>1. /\ pc[q] = "check" /\ UNCHANGED <<doc, topic, gone, done, foreign, compactions, restarts>>
      /\ faults < MaxFaults /\ faults' = faults + 1
  BY DEF CheckFails, Fault
<1>2. faults' \in 0..MaxFaults
  BY <1>1, RightsApiAssumption DEF TypeOK
<1>3. \A k \in DOMAIN topic : topic[k].by # q
  BY <1>1 DEF SentOK
<1>4. Answer(q, 403)
  BY DEF CheckFails
<1> QED
  BY <1>1, <1>2, <1>3, <1>4, QuietRequestOK DEF TypeOK, Answer

LEMMA UnknownResourceOK ==
  ASSUME IInv, NEW q \in Requests, UnknownResource(q)
  PROVE  IInv'
<1> USE DEF IInv
<1>1. pc[q] = "produce" /\ req[q].id \notin Ids /\ UNCHANGED <<doc, topic, gone, done, boundVars>>
  BY DEF UnknownResource
<1>2. \A k \in DOMAIN topic : topic[k].by # q
  BY <1>1 DEF SentOK
<1>3. Answer(q, 404)
  BY DEF UnknownResource
<1> QED
  BY <1>1, <1>2, <1>3, QuietRequestOK DEF TypeOK, Answer

\* The command is in the topic; the request goes on, or is answered by 200
\* or 500.
LEMMA WriteOK ==
  ASSUME IInv, NEW q \in Requests, Write(q), faults' \in 0..MaxFaults,
         UNCHANGED <<foreign, compactions, restarts>>,
         UNCHANGED requestVars \/ Answer(q, 200) \/ Answer(q, 500)
  PROVE  IInv'
<1> DEFINE t == Message(q)
<1>1. /\ pc[q] = "produce" /\ req[q].id \in Ids /\ topic' = Append(topic, t)
      /\ UNCHANGED <<doc, gone, done>>
  BY DEF Write
<1>2. IsCommand(t) /\ t.by = q /\ t.asked = req[q] /\ t.msg.id = req[q].id
  BY <1>1, MessageOK DEF IInv
<1>3. ~IsAdmin(t.asked.caller) => Empowered(t.msg.id, t.asked.caller)
  BY <1>1, <1>2 DEF IInv, RequestOK
<1>4. /\ topic' \in Seq(TopicMessage) /\ DOMAIN topic \subseteq DOMAIN topic'
      /\ \A k \in DOMAIN topic' : topic'[k] = IF k \in DOMAIN topic THEN topic[k] ELSE t
      /\ \A k \in DOMAIN topic' : k \in DOMAIN topic \/ k = Len(topic) + 1
      /\ Len(topic) + 1 \in DOMAIN topic' \ DOMAIN topic
      /\ TopicOK' /\ DocumentsOK' /\ AdminUserKept' /\ AuthorityFromTopic'
      /\ \A d \in Ids, caller \in Caller : Empowered(d, caller) => Empowered(d, caller)'
  BY <1>1, <1>2, <1>3, AppendOK
<1>5. CASE UNCHANGED requestVars
  <2>1. TypeOK'
    BY <1>1, <1>4, <1>5 DEF IInv, TypeOK, requestVars
  <2>2. UNCHANGED <<pc, req, answer>>
    BY <1>5 DEF requestVars
  <2>3. RequestOK'
    <3> SUFFICES ASSUME NEW p \in Requests, pc[p] = "produce", ~IsAdmin(req[p].caller)
                 PROVE  Empowered(req[p].id, req[p].caller)'
      BY <2>2 DEF IInv, RequestOK
    <3>1. PICK j \in DOMAIN topic : topic[j].msg.id = req[p].id
                                    /\ Empowers(topic[j].msg, req[p].caller)
      BY DEF IInv, RequestOK, Empowered
    <3> QED
      BY <1>4, <2>2, <3>1 DEF Empowered
  <2>4. SentOK'
    BY <1>1, <1>2, <1>4, <2>2 DEF IInv, SentOK
  <2>5. AnswerIsTrue'
    BY <1>1, <1>2, <1>4, <2>2 DEF IInv, AnswerIsTrue, RequestOK
  <2> QED
    BY <1>4, <2>1, <2>3, <2>4, <2>5 DEF IInv
<1>6. ASSUME NEW code \in {200, 500}, Answer(q, code) PROVE IInv'
  <2>1. /\ pc' = [pc EXCEPT ![q] = "answered"] /\ answer' = [answer EXCEPT ![q] = code]
        /\ req' = [req EXCEPT ![q] = NoRequest]
    BY <1>6 DEF Answer
  <2>2. TypeOK'
    BY <1>1, <1>4, <2>1 DEF IInv, TypeOK
  <2>3. \A p \in Requests \ {q} : pc'[p] = pc[p] /\ req'[p] = req[p] /\ answer'[p] = answer[p]
    BY <2>1 DEF IInv, TypeOK
  <2>4. pc'[q] = "answered" /\ answer'[q] = code
    BY <2>1 DEF IInv, TypeOK
  <2>5. RequestOK'
    <3>1. ASSUME NEW p \in Requests \ {q}, pc[p] = "produce", ~IsAdmin(req[p].caller)
          PROVE  Empowered(req[p].id, req[p].caller)'
      <4>1. PICK j \in DOMAIN topic : topic[j].msg.id = req[p].id
                                      /\ Empowers(topic[j].msg, req[p].caller)
        BY <3>1 DEF IInv, RequestOK, Empowered
      <4> QED
        BY <1>4, <2>3, <4>1 DEF Empowered
    <3> QED
      BY <2>3, <2>4, <3>1 DEF IInv, RequestOK
  <2>6. SentOK'
    <3>1. \A k \in DOMAIN topic' : topic'[k].by = q \/ (k \in DOMAIN topic /\ topic'[k] = topic[k])
      BY <1>2, <1>4
    <3>2. \A k \in DOMAIN topic : topic[k].by \in Requests \ {q} =>
            \/ pc'[topic[k].by] = "produce" /\ req'[topic[k].by].id \in Ids
            \/ pc'[topic[k].by] = "answered" /\ answer'[topic[k].by] \in {200, 500}
      BY <2>3 DEF IInv, SentOK
    <3> QED
      BY <2>4, <3>1, <3>2 DEF SentOK
  <2>7. AnswerIsTrue'
    <3>1. topic'[Len(topic) + 1].by = q
      BY <1>2, <1>4
    <3>2. ASSUME NEW p \in Requests \ {q}
          PROVE  (\E k \in DOMAIN topic' : topic'[k].by = p) <=> (\E k \in DOMAIN topic : topic[k].by = p)
      BY <1>2, <1>4
    <3> QED
      BY <1>4, <2>3, <2>4, <3>1, <3>2 DEF IInv, AnswerIsTrue
  <2> QED
    BY <1>4, <2>2, <2>5, <2>6, <2>7 DEF IInv
<1> QED
  BY <1>5, <1>6

LEMMA ProduceOK ==
  ASSUME IInv, NEW q \in Requests, Produce(q) \/ ProduceFails(q)
  PROVE  IInv'
<1>1. CASE Produce(q)
  BY <1>1, WriteOK DEF Produce, boundVars, IInv, TypeOK
<1>2. CASE ProduceFails(q)
  <2>1. faults' \in 0..MaxFaults /\ UNCHANGED <<foreign, compactions, restarts>>
    BY <1>2, RightsApiAssumption DEF ProduceFails, Fault, IInv, TypeOK
  <2>2. CASE Write(q)
    BY <1>2, <2>1, <2>2, WriteOK DEF ProduceFails, Write
  <2>3. CASE /\ pc[q] = "produce" /\ Answer(q, 500)
             /\ UNCHANGED <<doc, topic, gone, done>>
    <3>1. /\ pc' = [pc EXCEPT ![q] = "answered"] /\ answer' = [answer EXCEPT ![q] = 500]
          /\ req' = [req EXCEPT ![q] = NoRequest]
      BY <2>3 DEF Answer
    <3> QED
      BY <2>1, <2>3, <3>1, QuietRequestOK DEF IInv, TypeOK
  <2> QED
    BY <1>2, <2>2, <2>3 DEF ProduceFails
<1> QED
  BY <1>1, <1>2

LEMMA ProduceForeignOK ==
  ASSUME IInv, NEW t \in ForeignCommands, ProduceForeign(t)
  PROVE  IInv'
<1>1. /\ topic' = Append(topic, t) /\ foreign < MaxForeign /\ foreign' = foreign + 1
      /\ UNCHANGED <<doc, gone, done, pc, req, answer, faults, compactions, restarts>>
  BY DEF ProduceForeign, requestVars
<1>2. IsCommand(t) /\ t.by = Others /\ Others \notin Requests
  BY RightsApiAssumption DEF IsForeign, IsCommand
<1>3. /\ topic' \in Seq(TopicMessage) /\ DOMAIN topic \subseteq DOMAIN topic'
      /\ \A k \in DOMAIN topic' : topic'[k] = IF k \in DOMAIN topic THEN topic[k] ELSE t
      /\ TopicOK' /\ DocumentsOK' /\ AdminUserKept' /\ AuthorityFromTopic'
  BY <1>1, <1>2, AppendOK
<1>4. TypeOK'
  <2>1. foreign' \in 0..MaxForeign
    BY <1>1, RightsApiAssumption DEF IInv, TypeOK
  <2> QED
    BY <1>1, <1>3, <2>1 DEF IInv, TypeOK
<1>5. RequestOK'
  <2> SUFFICES ASSUME NEW p \in Requests, pc[p] = "produce", ~IsAdmin(req[p].caller)
               PROVE  Empowered(req[p].id, req[p].caller)'
    BY <1>1 DEF IInv, RequestOK
  <2>1. PICK j \in DOMAIN topic : topic[j].msg.id = req[p].id
                                  /\ Empowers(topic[j].msg, req[p].caller)
    BY DEF IInv, RequestOK, Empowered
  <2> QED
    BY <1>1, <1>3, <2>1 DEF Empowered
<1>6. SentOK'
  BY <1>1, <1>2, <1>3 DEF IInv, SentOK
<1>7. AnswerIsTrue'
  BY <1>1, <1>2, <1>3 DEF IInv, AnswerIsTrue
<1> QED
  BY <1>3, <1>4, <1>5, <1>6, <1>7 DEF IInv

\* Nothing but documents, positions and counters changes.
LEMMA DocumentStepOK ==
  ASSUME IInv, UNCHANGED <<topic, pc, req, answer, foreign, faults>>,
         doc' \in [Ids -> Entry \cup {NoDoc}], gone' \subseteq DOMAIN topic,
         done' \subseteq DOMAIN topic, compactions' \in 0..MaxCompactions,
         restarts' \in 0..MaxRestarts, DocumentsOK', AdminUserKept'
  PROVE  IInv'
<1>1. TypeOK'
  BY DEF IInv, TypeOK
<1>2. TopicOK' /\ RequestOK' /\ SentOK' /\ AuthorityFromTopic' /\ AnswerIsTrue'
  BY DEF IInv, TopicOK, RequestOK, SentOK, AuthorityFromTopic, AnswerIsTrue, Empowered
<1> QED
  BY <1>1, <1>2 DEF IInv

LEMMA SameDocuments ==
  ASSUME IInv, UNCHANGED <<doc, topic>>
  PROVE  DocumentsOK' /\ AdminUserKept'
BY DEF IInv, DocumentsOK, AdminUserKept, Empowered, Overruled, At

LEMMA WorkerStepOK ==
  ASSUME IInv, NEW k \in DOMAIN topic, Handle(k) \/ Compact(k) \/ RestartWorker(k)
  PROVE  IInv'
<1>1. CASE Handle(k)
  <2>1. /\ Apply(topic[k].msg) /\ done' = done \cup {k}
        /\ UNCHANGED <<topic, gone, pc, req, answer, foreign, faults, compactions, restarts>>
    BY <1>1 DEF Handle, requestVars, boundVars
  <2>2. doc' \in [Ids -> Entry \cup {NoDoc}] /\ DocumentsOK' /\ AdminUserKept'
    BY <2>1, ApplyOK DEF IInv
  <2> QED
    BY <2>1, <2>2, DocumentStepOK DEF IInv, TypeOK
<1>2. CASE Compact(k)
  <2>1. /\ done' = done \ {k} /\ gone' = gone \cup {k} /\ compactions < MaxCompactions
        /\ compactions' = compactions + 1
        /\ UNCHANGED <<doc, topic, pc, req, answer, foreign, faults, restarts>>
    BY <1>2 DEF Compact, requestVars
  <2>2. compactions' \in 0..MaxCompactions
    BY <2>1, RightsApiAssumption DEF IInv, TypeOK
  <2> QED
    BY <2>1, <2>2, SameDocuments, DocumentStepOK DEF IInv, TypeOK
<1>3. CASE RestartWorker(k)
  <2>1. /\ done' \subseteq done /\ restarts < MaxRestarts /\ restarts' = restarts + 1
        /\ UNCHANGED <<doc, topic, gone, pc, req, answer, foreign, faults, compactions>>
    BY <1>3 DEF RestartWorker, Restart, requestVars
  <2>2. restarts' \in 0..MaxRestarts
    BY <2>1, RightsApiAssumption DEF IInv, TypeOK
  <2> QED
    BY <2>1, <2>2, SameDocuments, DocumentStepOK DEF IInv, TypeOK
<1> QED
  BY <1>1, <1>2, <1>3

LEMMA RebuildOK == IInv /\ Rebuild => IInv'
<1> SUFFICES ASSUME IInv, Rebuild PROVE IInv'
  OBVIOUS
<1>1. /\ done' = {} /\ doc' = [d \in Ids |-> NoDoc] /\ restarts < MaxRestarts
      /\ restarts' = restarts + 1
      /\ UNCHANGED <<topic, gone, pc, req, answer, foreign, faults, compactions>>
  BY DEF Rebuild, Restart, requestVars
<1>2. restarts' \in 0..MaxRestarts
  BY <1>1, RightsApiAssumption DEF IInv, TypeOK
<1>3. DocumentsOK' /\ AdminUserKept'
  BY <1>1 DEF DocumentsOK, AdminUserKept
<1> QED
  BY <1>1, <1>2, <1>3, DocumentStepOK DEF IInv, TypeOK

LEMMA NextOK == IInv /\ [Next]_vars => IInv'
<1> SUFFICES ASSUME IInv, [Next]_vars PROVE IInv'
  OBVIOUS
<1>1. CASE UNCHANGED vars
  BY <1>1, SameDocuments, DocumentStepOK DEF vars, IInv, TypeOK
<1>2. CASE Idle
  BY <1>1, <1>2 DEF Idle
<1>3. ASSUME NEW q \in Requests, Serve(q) PROVE IInv'
  BY <1>3, AskOK, CheckOK, CheckFailsOK, UnknownResourceOK, ProduceOK DEF Serve
<1> QED
  BY <1>1, <1>2, <1>3, ProduceForeignOK, WorkerStepOK, RebuildOK DEF Next

-----------------------------------------------------------------------------
LEMMA Invariance == Spec => []IInv
BY InitOK, NextOK, PTL DEF Spec

\* The variables stay in their types.
THEOREM TypeCorrect == Spec => []TypeOK
<1>1. IInv => TypeOK
  BY DEF IInv
<1> QED
  BY <1>1, Invariance, PTL

\* A document keeps an admin user, unless a platform admin or a creation
\* without owner takes it away.
THEOREM AdminUserStays == Spec => []AdminUserKept
<1>1. IInv => AdminUserKept
  BY DEF IInv
<1> QED
  BY <1>1, Invariance, PTL

\* Whoever sends a RIGHTS command was empowered by an earlier command.
THEOREM AuthorityIsHandedOn == Spec => []AuthorityFromTopic
<1>1. IInv => AuthorityFromTopic
  BY DEF IInv
<1> QED
  BY <1>1, Invariance, PTL

\* The status of an answer tells whether the command was sent.
THEOREM AnswersAreTrue == Spec => []AnswerIsTrue
<1>1. IInv => AnswerIsTrue
  BY DEF IInv
<1> QED
  BY <1>1, Invariance, PTL

\* A command never takes the right to administrate from its own author.
THEOREM CallersStay == Spec => OwnCommandKeepsCaller
<1> DEFINE Kept ==
      \A k \in done' \ done :
        LET t == topic[k]
        IN  /\ t.msg.cmd = "RIGHTS"
            /\ ~IsAdmin(t.asked.caller)
            /\ doc'[t.msg.id] # NoDoc
            => CheckUserOrGroup(t.asked.caller, doc'[t.msg.id])
<1>1. IInv /\ [Next]_vars => Kept
  <2> SUFFICES ASSUME IInv, [Next]_vars, NEW k \in done' \ done,
                      topic[k].msg.cmd = "RIGHTS", ~IsAdmin(topic[k].asked.caller),
                      doc'[topic[k].msg.id] # NoDoc
               PROVE  CheckUserOrGroup(topic[k].asked.caller, doc'[topic[k].msg.id])
    OBVIOUS
  <2>1. Handle(k) /\ k \in DOMAIN topic
    <3>1. ASSUME NEW j \in DOMAIN topic, Handle(j) PROVE j = k
      BY <3>1 DEF Handle
    <3>2. PICK j \in DOMAIN topic : Handle(j)
      BY DEF Next, Serve, Ask, Check, CheckFails, UnknownResource, Produce, ProduceFails, Write,
             ProduceForeign, Compact, RestartWorker, Rebuild, Idle, vars
    <3> QED
      BY <3>1, <3>2
  <2>2. IsCommand(topic[k]) /\ Apply(topic[k].msg)
    BY <2>1 DEF IInv, TopicOK, Handle
  <2>3. Effect(topic[k].msg, doc[topic[k].msg.id], doc'[topic[k].msg.id])
    BY <2>2, ApplyEffect DEF IInv
  <2>4. /\ doc'[topic[k].msg.id].users["a"] = Administrators(topic[k].msg.rights.users)
        /\ doc'[topic[k].msg.id].groups["a"] = Administrators(topic[k].msg.rights.groups)
    BY <2>3, CommandAdministrators DEF Effect
  <2>5. ValidAdminRemoval(topic[k].msg.rights, topic[k].asked.caller)
    BY <2>2 DEF IsCommand
  <2> QED
    BY <2>4, <2>5 DEF ValidAdminRemoval, CheckUserOrGroup
<1>2. Kept => [Kept]_vars
  OBVIOUS
<1> HIDE DEF Kept
<1>3. Spec => [][Kept]_vars
  BY <1>1, <1>2, InitOK, NextOK, PTL DEF Spec
<1> QED
  BY <1>3 DEF OwnCommandKeepsCaller, Kept

-----------------------------------------------------------------------------
(* Compaction and restarts.                                                *)

Bare(d) == At(d, "PUT") \cup At(d, "DELETE")

\* In each partition the worker is done with a prefix of what is left.
PrefixDone ==
  \A i \in done, w \in Waiting :
    PartitionOf(topic[i].key) = PartitionOf(topic[w].key) => i < w

\* Of each key something newer is left.
NewerLeft ==
  /\ done \cap gone = {}
  /\ \A k \in gone : \E j \in DOMAIN topic \ gone : j > k /\ topic[j].key = topic[k].key

\* Features and existence are as the PUT or DELETE at position p left them.
AsOf(d, p) ==
  /\ topic[p].msg.cmd = "DELETE" => doc[d] = NoDoc
  /\ topic[p].msg.cmd = "PUT" => doc[d] # NoDoc /\ doc[d].features = topic[p].msg.features

ExistenceOK ==
  \A d \in Ids : KeysAsExpected(d) =>
    \/ doc[d] = NoDoc /\ Bare(d) \cap done = {}
    \/ \E p \in Bare(d) : AsOf(d, p) /\ \A j \in Bare(d) : j > p => j \notin done

FromRights(d) ==
  \E p \in At(d, "RIGHTS") :
    /\ Lists(doc[d]) = ListsOf(topic[p].msg.rights)
    /\ \A j \in At(d, "RIGHTS") : j > p => j \notin done

FromCreation(d) ==
  /\ \E c \in At(d, "PUT") :
       \E e \in NewEntries(topic[c].msg.owner, topic[c].msg.features) : Lists(doc[d]) = Lists(e)
  /\ \A r \in At(d, "RIGHTS") : r \in done => \E j \in At(d, "PUT") : j > r

ListsOK ==
  \A d \in Ids : KeysAsExpected(d) /\ doc[d] # NoDoc => FromRights(d) \/ FromCreation(d)

LogInv == PrefixDone /\ NewerLeft /\ ExistenceOK /\ ListsOK

\* The keys the producers form.
LEMMA PlainKeys ==
  ASSUME NEW i, NEW d
  PROVE  Prefix(PlainKey(i)) = i /\ (PlainKey(i) = PlainKey(d) <=> i = d)
BY DEF Prefix, PlainKey

LEMMA RightsKeys ==
  ASSUME NEW i, NEW d
  PROVE  Prefix(<<i, "rights">>) = i /\ <<i, "rights">> # PlainKey(d)
BY DEF Prefix, PlainKey

\* What the keys of a document with expected keys look like.
LEMMA ExpectedKeys ==
  ASSUME TopicOK, NEW d \in Ids, KeysAsExpected(d), NEW k \in DOMAIN topic
  PROVE  /\ topic[k].msg.id = d => Prefix(topic[k].key) = d
         /\ k \in Bare(d) <=> topic[k].key = PlainKey(d)
         /\ k \in At(d, "RIGHTS") <=> Prefix(topic[k].key) = d /\ topic[k].key # PlainKey(d)
<1> DEFINE t == topic[k]
<1>1. CASE t.asked = Others
  <2>1. t.msg.cmd \in {"PUT", "DELETE"} /\ t.key = PlainKey(t.msg.id)
    <3>1. t.by = Others
      BY <1>1, RightsApiAssumption DEF TopicOK, IsCommand
    <3> QED
      BY <3>1, RightsApiAssumption DEF TopicOK, IsCommand
  <2>2. Prefix(t.key) = t.msg.id /\ (t.key = PlainKey(d) <=> t.msg.id = d)
    BY <2>1, PlainKeys
  <2>3. /\ k \in Bare(d) <=> t.msg.id = d
        /\ k \notin At(d, "RIGHTS")
    BY <2>1 DEF Bare, At
  <2> QED
    BY <2>2, <2>3
<1>2. CASE t.asked # Others
  <2>1. /\ t.msg.cmd = "RIGHTS" /\ t.msg.id = t.asked.id /\ t.key = KeyOf(t.asked)
    BY <1>2 DEF TopicOK, IsCommand
  <2>2. t.asked.key # NoKey => /\ t.asked.id = d <=> Prefix(t.asked.key) = d
                               /\ t.asked.key # PlainKey(d)
    BY <1>2 DEF KeysAsExpected
  <2>3. CASE t.asked.key = NoKey
    <3>1. t.key = <<t.msg.id, "rights">>
      BY <2>1, <2>3 DEF KeyOf
    <3>2. Prefix(t.key) = t.msg.id /\ t.key # PlainKey(d)
      BY <3>1, RightsKeys
    <3> QED
      BY <2>1, <3>2 DEF Bare, At
  <2>4. CASE t.asked.key # NoKey
    <3>1. t.key = t.asked.key
      BY <2>1, <2>4 DEF KeyOf
    <3> QED
      BY <2>1, <2>2, <2>4, <3>1 DEF Bare, At
  <2> QED
    BY <2>3, <2>4
<1> QED
  BY <1>1, <1>2

\* Keys of one document share a partition.
LEMMA OnePartition ==
  ASSUME TopicOK, NEW d \in Ids, KeysAsExpected(d), NEW j \in DOMAIN topic, NEW k \in DOMAIN topic,
         topic[j].msg.id = d, topic[k].msg.id = d
  PROVE  PartitionOf(topic[j].key) = PartitionOf(topic[k].key)
BY ExpectedKeys DEF PartitionOf

LEMMA InitLog == Init => LogInv
BY DEF Init, LogInv, PrefixDone, NewerLeft, ExistenceOK, ListsOK

\* The topic stays or grows, and nothing else that the invariant is about
\* changes, or less is done than before.
LEMMA LessDoneOK ==
  ASSUME IInv, LogInv, doc' = doc, done' \subseteq done, IInv',
         DOMAIN topic \subseteq DOMAIN topic',
         \A k \in DOMAIN topic : topic'[k] = topic[k],
         \A k \in DOMAIN topic' \ DOMAIN topic : \A j \in DOMAIN topic : j < k,
         NewerLeft', PrefixDone'
  PROVE  LogInv'
<1>1. done \subseteq DOMAIN topic
  BY DEF IInv, TypeOK
<1>2. \A d \in Ids : KeysAsExpected(d)' => KeysAsExpected(d)
  BY DEF KeysAsExpected
<1>3. \A d, cmd : At(d, cmd) \subseteq At(d, cmd)'
  BY DEF At
<1>4. \A d, cmd : At(d, cmd)' \cap done' \subseteq At(d, cmd) \cap done
  BY <1>1 DEF At
<1>5. \A d, cmd : \A k \in At(d, cmd) : k \in DOMAIN topic /\ topic'[k] = topic[k]
  BY DEF At
<1>6. ExistenceOK'
  <2> SUFFICES ASSUME NEW d \in Ids, KeysAsExpected(d)'
               PROVE  \/ doc[d] = NoDoc /\ Bare(d)' \cap done' = {}
                      \/ \E p \in Bare(d)' : AsOf(d, p)' /\ \A j \in Bare(d)' : j > p => j \notin done'
    BY DEF ExistenceOK
  <2>1. CASE doc[d] = NoDoc /\ Bare(d) \cap done = {}
    BY <1>4, <2>1 DEF Bare
  <2>2. ASSUME NEW p \in Bare(d), AsOf(d, p), \A j \in Bare(d) : j > p => j \notin done
        PROVE  p \in Bare(d)' /\ AsOf(d, p)' /\ \A j \in Bare(d)' : j > p => j \notin done'
    BY <1>3, <1>4, <1>5, <2>2 DEF Bare, AsOf
  <2> QED
    BY <1>2, <2>1, <2>2 DEF LogInv, ExistenceOK
<1>7. ListsOK'
  <2> SUFFICES ASSUME NEW d \in Ids, KeysAsExpected(d)', doc[d] # NoDoc
               PROVE  FromRights(d)' \/ FromCreation(d)'
    BY DEF ListsOK
  <2>1. CASE FromRights(d)
    BY <1>3, <1>4, <1>5, <2>1 DEF FromRights
  <2>2. CASE FromCreation(d)
    <3>1. PICK c \in At(d, "PUT") :
            \E e \in NewEntries(topic[c].msg.owner, topic[c].msg.features) : Lists(doc[d]) = Lists(e)
      BY <2>2 DEF FromCreation
    <3>2. c \in At(d, "PUT")' /\ topic'[c] = topic[c]
      BY <1>3, <1>5
    <3>3. \A r \in At(d, "RIGHTS")' : r \in done' => \E j \in At(d, "PUT")' : j > r
      BY <1>3, <1>4, <2>2 DEF FromCreation
    <3> QED
      BY <3>1, <3>2, <3>3 DEF FromCreation
  <2> QED
    BY <1>2, <2>1, <2>2 DEF LogInv, ListsOK
<1> QED
  BY <1>6, <1>7 DEF LogInv

\* A command is handled.
LEMMA HandleLog ==
  ASSUME IInv, LogInv, NEW k \in DOMAIN topic, Handle(k)
  PROVE  LogInv'
<1> DEFINE m == topic[k].msg
           id == m.id
<1>1. /\ k \in Waiting /\ Apply(m) /\ done' = done \cup {k}
      /\ \A j \in Waiting : PartitionOf(topic[j].key) = PartitionOf(topic[k].key) => k <= j
      /\ UNCHANGED <<topic, gone>>
  BY DEF Handle, IsNext
<1>2. IsCommand(topic[k]) /\ id \in Ids /\ m.cmd \in {"PUT", "DELETE", "RIGHTS"} /\ TopicOK
  BY DEF IInv, TopicOK, IsCommand
<1>3. /\ \A d \in Ids \ {id} : doc'[d] = doc[d]
      /\ m.cmd = "PUT" \/ (m.cmd = "RIGHTS" /\ doc[id] # NoDoc) => doc'[id] # NoDoc
      /\ Effect(m, doc[id], doc'[id])
  BY <1>1, <1>2, ApplyEffect DEF IInv
<1>4. DOMAIN topic = 1..Len(topic) /\ Len(topic) \in Nat /\ done \subseteq DOMAIN topic
  BY DEF IInv, TypeOK
<1>5. Waiting' = Waiting \ {k} /\ Waiting \subseteq DOMAIN topic /\ k \notin done /\ k \notin gone
  BY <1>1 DEF Waiting
<1>6. PrefixDone'
  <2> SUFFICES ASSUME NEW i \in done \cup {k}, NEW w \in Waiting \ {k},
                      PartitionOf(topic[i].key) = PartitionOf(topic[w].key)
               PROVE  i < w
    BY <1>1, <1>5 DEF PrefixDone, PartitionOf
  <2>1. CASE i \in done
    BY <2>1 DEF LogInv, PrefixDone
  <2>2. CASE i = k
    BY <1>1, <1>4, <1>5, <2>2
  <2> QED
    BY <2>1, <2>2
<1>7. NewerLeft'
  BY <1>1, <1>5 DEF LogInv, NewerLeft
<1>8. \A d \in Ids, cmd \in {"PUT", "DELETE", "RIGHTS"} :
        /\ KeysAsExpected(d)' <=> KeysAsExpected(d)
        /\ At(d, cmd)' = At(d, cmd)
  BY <1>1 DEF KeysAsExpected, At
<1>9. \A d \in Ids \ {id}, cmd \in {"PUT", "DELETE", "RIGHTS"} : k \notin At(d, cmd)
  BY DEF At
\* What was done before for the same document came before.
<1>10. ASSUME KeysAsExpected(id), NEW j \in done, topic[j].msg.id = id PROVE j < k
  <2>1. PartitionOf(topic[j].key) = PartitionOf(topic[k].key)
    BY <1>2, <1>4, <1>10, OnePartition
  <2> QED
    BY <1>1, <2>1 DEF LogInv, PrefixDone
<1>11. ExistenceOK'
  <2> SUFFICES ASSUME NEW d \in Ids, KeysAsExpected(d)
               PROVE  \/ doc'[d] = NoDoc /\ Bare(d)' \cap done' = {}
                      \/ \E p \in Bare(d)' : AsOf(d, p)' /\ \A j \in Bare(d)' : j > p => j \notin done'
    BY <1>8 DEF ExistenceOK
  <2>1. Bare(d)' = Bare(d)
    BY <1>8 DEF Bare
  <2>2. CASE d # id
    <3>1. doc'[d] = doc[d] /\ k \notin Bare(d)
      BY <1>3, <1>9, <2>2 DEF Bare
    <3>2. \A p \in Bare(d) : AsOf(d, p)' <=> AsOf(d, p)
      BY <1>1, <3>1 DEF AsOf
    <3> QED
      BY <1>1, <2>1, <3>1, <3>2 DEF LogInv, ExistenceOK
  <2>3. CASE d = id /\ m.cmd = "RIGHTS"
    <3>1. k \notin Bare(d)
      BY <2>3 DEF Bare, At
    <3>2. /\ doc'[d] = NoDoc <=> doc[d] = NoDoc
          /\ doc[d] # NoDoc => doc'[d].features = doc[d].features
      BY <1>3, <2>3 DEF Effect
    <3>3. \A p \in Bare(d) : AsOf(d, p) => AsOf(d, p)'
      BY <1>1, <3>2 DEF AsOf
    <3> QED
      BY <1>1, <2>1, <3>1, <3>2, <3>3 DEF LogInv, ExistenceOK
  <2>4. CASE d = id /\ m.cmd \in {"PUT", "DELETE"}
    <3>1. k \in Bare(d)
      BY <2>4 DEF Bare, At
    <3>2. m.cmd = "PUT" => doc'[d].features = m.features
      <4>1. m \in ResourceCommand
        BY <1>2 DEF IsCommand, TopicMessage
      <4>2. m.owner \in Users \cup {NoUser} /\ m.features \in Features
        BY <4>1 DEF ResourceCommand
      <4> QED
        BY <1>3, <2>4, <4>2, NewEntriesType DEF Effect
    <3>3. AsOf(d, k)'
      BY <1>1, <1>3, <2>4, <3>2 DEF AsOf, Effect
    <3>4. \A j \in Bare(d) : j > k => j \notin done'
      <4> SUFFICES ASSUME NEW j \in Bare(d), j > k, j \in done' PROVE FALSE
        OBVIOUS
      <4>1. j \in done /\ topic[j].msg.id = id /\ j \in Nat /\ k \in Nat
        BY <1>1, <1>4, <2>4 DEF Bare, At
      <4>2. j < k
        BY <1>10, <2>4, <4>1
      <4> QED
        BY <4>1, <4>2
    <3> QED
      BY <2>1, <3>1, <3>3, <3>4
  <2> QED
    BY <1>2, <2>2, <2>3, <2>4
<1>12. ListsOK'
  <2> SUFFICES ASSUME NEW d \in Ids, KeysAsExpected(d), doc'[d] # NoDoc
               PROVE  FromRights(d)' \/ FromCreation(d)'
    BY <1>8 DEF ListsOK
  <2>1. At(d, "RIGHTS")' = At(d, "RIGHTS") /\ At(d, "PUT")' = At(d, "PUT")
    BY <1>8
  \* The lists stay, and no RIGHTS command for d is done.
  <2>2. ASSUME doc[d] # NoDoc, Lists(doc'[d]) = Lists(doc[d]), k \notin At(d, "RIGHTS")
        PROVE  FromRights(d)' \/ FromCreation(d)'
    <3>1. CASE FromRights(d)
      BY <1>1, <2>1, <2>2, <3>1 DEF FromRights
    <3>2. CASE FromCreation(d)
      <4>1. \E c \in At(d, "PUT") :
              \E e \in NewEntries(topic[c].msg.owner, topic[c].msg.features) : Lists(doc'[d]) = Lists(e)
        BY <2>2, <3>2 DEF FromCreation
      <4>2. \A r \in At(d, "RIGHTS") : r \in done' => \E j \in At(d, "PUT") : j > r
        BY <1>1, <2>2, <3>2 DEF FromCreation
      <4> QED
        BY <1>1, <2>1, <4>1, <4>2 DEF FromCreation
    <3> QED
      BY <2>2, <3>1, <3>2 DEF LogInv, ListsOK
  <2>3. CASE d # id
    <3>1. doc'[d] = doc[d] /\ k \notin At(d, "RIGHTS")
      BY <1>3, <1>9, <2>3
    <3> QED
      BY <2>2, <3>1
  <2>4. CASE d = id /\ m.cmd = "PUT" /\ doc[id] # NoDoc
    <3>1. Lists(doc'[d]) = Lists(doc[d]) /\ k \notin At(d, "RIGHTS")
      BY <1>3, <2>4 DEF Effect, Lists, At
    <3> QED
      BY <2>2, <2>4, <3>1
  <2>5. CASE d = id /\ m.cmd = "PUT" /\ doc[id] = NoDoc
    <3>1. k \in At(d, "PUT") /\ k \notin At(d, "RIGHTS")
      BY <2>5 DEF At
    <3>2. doc'[d] \in NewEntries(m.owner, m.features)
      BY <1>3, <2>5 DEF Effect
    <3>3. \A r \in At(d, "RIGHTS") : r \in done' => k > r
      <4> SUFFICES ASSUME NEW r \in At(d, "RIGHTS"), r \in done' PROVE k > r
        OBVIOUS
      <4>1. r \in done /\ topic[r].msg.id = id /\ r \in Nat /\ k \in Nat
        BY <1>1, <1>4, <2>5, <3>1 DEF At
      <4> QED
        BY <1>10, <2>5, <4>1
    <3>4. FromCreation(d)'
      BY <1>1, <2>1, <3>1, <3>2, <3>3 DEF FromCreation
    <3> QED
      BY <3>4
  <2>6. CASE d = id /\ m.cmd = "RIGHTS"
    <3>1. doc[d] # NoDoc
      BY <1>3, <2>6 DEF Effect
    <3>2. k \in At(d, "RIGHTS") /\ Lists(doc'[d]) = ListsOf(m.rights)
      BY <1>3, <2>6, <3>1 DEF Effect, At, Lists, ListsOf
    <3>3. \A j \in At(d, "RIGHTS") : j > k => j \notin done'
      <4> SUFFICES ASSUME NEW j \in At(d, "RIGHTS"), j > k, j \in done' PROVE FALSE
        OBVIOUS
      <4>1. j \in done /\ topic[j].msg.id = id /\ j \in Nat /\ k \in Nat
        BY <1>1, <1>4, <2>6 DEF At
      <4>2. j < k
        BY <1>10, <2>6, <4>1
      <4> QED
        BY <4>1, <4>2
    <3>4. FromRights(d)'
      BY <1>1, <2>1, <3>2, <3>3 DEF FromRights
    <3> QED
      BY <3>4
  <2>7. CASE d = id /\ m.cmd = "DELETE"
    BY <1>3, <2>7 DEF Effect
  <2> QED
    BY <1>2, <2>3, <2>4, <2>5, <2>6, <2>7
<1> QED
  BY <1>6, <1>7, <1>11, <1>12 DEF LogInv

\* The topic grows.
LEMMA GrowthLog ==
  ASSUME IInv, LogInv, IInv', UNCHANGED <<doc, gone, done>>, NEW t, topic' = Append(topic, t)
  PROVE  LogInv'
<1>1. topic \in Seq(TopicMessage) /\ topic' \in Seq(TopicMessage)
  BY DEF IInv, TypeOK
<1>2. /\ Len(topic) \in Nat /\ DOMAIN topic = 1..Len(topic)
      /\ DOMAIN topic' = 1..(Len(topic) + 1)
      /\ \A k \in 1..Len(topic) : topic'[k] = topic[k]
  <2>1. Len(topic) \in Nat /\ DOMAIN topic = 1..Len(topic)
    BY <1>1
  <2>2. DOMAIN topic' = 1..Len(topic') /\ Len(topic') \in Nat
    BY <1>1
  <2>3. t \in TopicMessage
    BY <1>1, <2>1, <2>2, AppendProperties DEF IInv, TypeOK
  <2> QED
    BY <1>1, <2>3, AppendProperties
<1>3. done \subseteq 1..Len(topic) /\ gone \subseteq 1..Len(topic)
  BY <1>2 DEF IInv, TypeOK
<1>4. NewerLeft'
  BY <1>2, <1>3 DEF LogInv, NewerLeft
<1>5. \A w \in Waiting' : w \in Waiting \/ w = Len(topic) + 1
  BY <1>2 DEF Waiting
<1>6. PrefixDone'
  <2> SUFFICES ASSUME NEW i \in done, NEW w \in Waiting',
                      PartitionOf(topic'[i].key) = PartitionOf(topic'[w].key)
               PROVE  i < w
    BY DEF PrefixDone, PartitionOf
  <2>1. CASE w \in Waiting
    <3>1. topic'[i] = topic[i] /\ topic'[w] = topic[w]
      BY <1>2, <1>3, <2>1 DEF Waiting
    <3> QED
      BY <2>1, <3>1 DEF LogInv, PrefixDone
  <2>2. CASE w = Len(topic) + 1
    BY <1>2, <1>3, <2>2
  <2> QED
    BY <1>5, <2>1, <2>2
<1> QED
  BY <1>2, <1>4, <1>6, LessDoneOK

\* Kafka removes a message: what makes it superfluous, or what made that
\* superfluous, is left.
LEMMA CompactLog ==
  ASSUME IInv, LogInv, IInv', NEW k \in DOMAIN topic, Compact(k)
  PROVE  LogInv'
<1>1. /\ UNCHANGED <<doc, topic>> /\ gone' = gone \cup {k} /\ done' = done \ {k}
      /\ DOMAIN topic \subseteq Nat
  BY DEF Compact, IInv, TypeOK
<1>2. PICK j \in DOMAIN topic : j > k /\ topic[j].key = topic[k].key
  BY DEF Compact
<1>3. PICK i \in DOMAIN topic \ (gone \cup {k}) : i > k /\ topic[i].key = topic[k].key
  <2>1. CASE j \notin gone
    BY <1>1, <1>2, <2>1
  <2>2. CASE j \in gone
    BY <1>1, <1>2, <2>2 DEF LogInv, NewerLeft
  <2> QED
    BY <2>1, <2>2
<1>4. NewerLeft'
  <2> SUFFICES ASSUME NEW g \in gone \cup {k}
               PROVE  \E n \in DOMAIN topic \ (gone \cup {k}) : n > g /\ topic[n].key = topic[g].key
    BY <1>1 DEF LogInv, NewerLeft
  <2>1. CASE g = k
    BY <1>3, <2>1
  <2>2. CASE g \in gone
    <3>1. g \in DOMAIN topic
      BY <2>2 DEF IInv, TypeOK
    <3>2. PICK n \in DOMAIN topic \ gone : n > g /\ topic[n].key = topic[g].key
      BY <2>2 DEF LogInv, NewerLeft
    <3> QED
      BY <1>1, <1>3, <3>1, <3>2
  <2> QED
    BY <2>1, <2>2
<1>5. PrefixDone'
  BY <1>1 DEF LogInv, PrefixDone, Waiting, PartitionOf
<1> QED
  BY <1>1, <1>4, <1>5, LessDoneOK

\* The worker goes back in one partition.
LEMMA RestartLog ==
  ASSUME IInv, LogInv, IInv', NEW k \in DOMAIN topic, RestartWorker(k)
  PROVE  LogInv'
<1>1. /\ UNCHANGED <<doc, topic, gone>> /\ k \in done
      /\ done' = {j \in done : j < k \/ PartitionOf(topic[j].key) # PartitionOf(topic[k].key)}
      /\ DOMAIN topic \subseteq Nat /\ done \subseteq DOMAIN topic
  BY DEF RestartWorker, Restart, IInv, TypeOK
<1>2. NewerLeft'
  BY <1>1 DEF LogInv, NewerLeft
<1>3. PrefixDone'
  <2> SUFFICES ASSUME NEW i \in done', NEW w \in Waiting',
                      PartitionOf(topic[i].key) = PartitionOf(topic[w].key)
               PROVE  i < w
    BY <1>1 DEF PrefixDone, PartitionOf
  <2>1. w \in Waiting \/ (w \in done /\ w >= k /\ PartitionOf(topic[w].key) = PartitionOf(topic[k].key))
    BY <1>1 DEF Waiting
  <2>2. i \in done
    BY <1>1
  <2>3. CASE w \in Waiting
    BY <2>2, <2>3 DEF LogInv, PrefixDone
  <2>4. CASE w \in done /\ w >= k /\ PartitionOf(topic[w].key) = PartitionOf(topic[k].key)
    BY <1>1, <2>2, <2>4
  <2> QED
    BY <2>1, <2>3, <2>4
<1> QED
  BY <1>1, <1>2, <1>3, LessDoneOK

LEMMA NextLog == IInv /\ IInv' /\ LogInv /\ [Next]_vars => LogInv'
<1> SUFFICES ASSUME IInv, IInv', LogInv, [Next]_vars PROVE LogInv'
  OBVIOUS
<1>1. ASSUME UNCHANGED <<doc, topic, gone, done>> PROVE LogInv'
  BY <1>1, LessDoneOK DEF LogInv, PrefixDone, NewerLeft, Waiting, PartitionOf
<1>2. CASE UNCHANGED vars
  BY <1>1, <1>2 DEF vars
<1>3. CASE Idle
  BY <1>1, <1>3 DEF Idle, vars
<1>4. ASSUME NEW q \in Requests, Serve(q) PROVE LogInv'
  <2>1. CASE Write(q)
    BY <2>1, GrowthLog DEF Write
  <2>2. CASE ~Write(q)
    BY <1>1, <1>4, <2>2
    DEF Serve, Ask, Check, CheckFails, UnknownResource, Produce, ProduceFails
  <2> QED
    BY <2>1, <2>2
<1>5. ASSUME NEW t \in ForeignCommands, ProduceForeign(t) PROVE LogInv'
  BY <1>5, GrowthLog DEF ProduceForeign
<1>6. ASSUME NEW k \in DOMAIN topic, Handle(k) \/ Compact(k) \/ RestartWorker(k) PROVE LogInv'
  BY <1>6, HandleLog, CompactLog, RestartLog
<1>7. CASE Rebuild
  <2>1. /\ done' = {} /\ doc' = [d \in Ids |-> NoDoc] /\ UNCHANGED <<topic, gone>>
    BY <1>7 DEF Rebuild, Restart
  <2> QED
    BY <2>1 DEF LogInv, PrefixDone, NewerLeft, ExistenceOK, ListsOK
<1> QED
  BY <1>2, <1>3, <1>4, <1>5, <1>6, <1>7 DEF Next

LEMMA LogInvariance == Spec => [](IInv /\ LogInv)
BY InitOK, InitLog, NextOK, NextLog, PTL DEF Spec

\* Once the worker caught up, a command that is not done has a newer one with
\* its key that is.
LEMMA NewerDone ==
  ASSUME IInv, LogInv, NEW d \in Ids, CaughtUp(d), KeysAsExpected(d),
         NEW k \in DOMAIN topic, topic[k].msg.id = d, k \notin done
  PROVE  \E j \in done : /\ j > k /\ topic[j].msg.id = d
                         /\ k \in Bare(d) => j \in Bare(d)
                         /\ k \in At(d, "RIGHTS") => j \in At(d, "RIGHTS")
<1>1. k \in gone
  BY DEF CaughtUp, Waiting
<1>2. PICK j \in DOMAIN topic \ gone : j > k /\ topic[j].key = topic[k].key
  BY <1>1 DEF LogInv, NewerLeft
<1>3. TopicOK
  BY DEF IInv
<1>4. k \in Bare(d) \/ k \in At(d, "RIGHTS")
  BY <1>3 DEF TopicOK, IsCommand, Bare, At
<1>5. /\ k \in Bare(d) => j \in Bare(d)
      /\ k \in At(d, "RIGHTS") => j \in At(d, "RIGHTS")
  BY <1>2, <1>3, ExpectedKeys
<1>6. topic[j].msg.id = d
  BY <1>4, <1>5 DEF Bare, At
<1>7. j \in done
  BY <1>2, <1>6 DEF CaughtUp, Waiting
<1> QED
  BY <1>2, <1>5, <1>6, <1>7

LEMMA SurvivalOfDocuments == IInv /\ LogInv => DocumentSurvivesCompaction
<1> SUFFICES ASSUME IInv, LogInv, NEW d \in Ids, KeysAsExpected(d), CaughtUp(d)
             PROVE  IF \E k \in At(d, "PUT") : IsLast(k, Bare(d))
                    THEN /\ doc[d] # NoDoc
                         /\ \A k \in Bare(d) :
                              IsLast(k, Bare(d)) => doc[d].features = topic[k].msg.features
                    ELSE doc[d] = NoDoc
  BY DEF DocumentSurvivesCompaction, Bare
<1>1. \A k \in Bare(d) : k \in DOMAIN topic /\ k \in Nat /\ topic[k].msg.id = d
  BY DEF Bare, At, IInv, TypeOK
<1>2. CASE doc[d] = NoDoc /\ Bare(d) \cap done = {}
  <2>1. Bare(d) = {}
    <3> SUFFICES ASSUME NEW k \in Bare(d) PROVE FALSE
      OBVIOUS
    <3> QED
      BY <1>1, <1>2, NewerDone
  <2> QED
    BY <1>2, <2>1 DEF IsLast
<1>3. ASSUME NEW p \in Bare(d), AsOf(d, p), \A j \in Bare(d) : j > p => j \notin done
      PROVE  IF \E k \in At(d, "PUT") : IsLast(k, Bare(d))
             THEN /\ doc[d] # NoDoc
                  /\ \A k \in Bare(d) :
                       IsLast(k, Bare(d)) => doc[d].features = topic[k].msg.features
             ELSE doc[d] = NoDoc
  <2>1. \A j \in Bare(d) : j <= p
    <3> SUFFICES ASSUME NEW j \in Bare(d), j > p PROVE FALSE
      BY <1>1
    <3>1. j \notin done
      BY <1>3
    <3>2. PICK n \in done : n > j /\ n \in Bare(d)
      BY <1>1, <3>1, NewerDone
    <3>3. n > p
      BY <1>1, <3>2
    <3> QED
      BY <1>3, <3>2, <3>3
  <2>2. \A k \in Bare(d) : IsLast(k, Bare(d)) <=> k = p
    BY <1>1, <2>1 DEF IsLast
  <2>3. At(d, "PUT") \subseteq Bare(d)
    BY DEF Bare
  <2>4. CASE p \in At(d, "PUT")
    <3>1. topic[p].msg.cmd = "PUT"
      BY <2>4 DEF At
    <3> QED
      BY <1>3, <2>2, <2>3, <2>4, <3>1 DEF AsOf
  <2>5. CASE p \notin At(d, "PUT")
    <3>1. topic[p].msg.cmd = "DELETE"
      BY <2>5 DEF Bare, At
    <3>2. doc[d] = NoDoc
      BY <1>3, <3>1 DEF AsOf
    <3> QED
      BY <2>2, <2>3, <2>5, <3>2
  <2> QED
    BY <2>4, <2>5
<1> QED
  BY <1>2, <1>3 DEF LogInv, ExistenceOK

LEMMA SurvivalOfRights == IInv /\ LogInv => RightsSurviveCompaction
<1> SUFFICES ASSUME IInv, LogInv, NEW d \in Ids, KeysAsExpected(d), CaughtUp(d), doc[d] # NoDoc
             PROVE  \/ \E k \in At(d, "RIGHTS") :
                         IsLast(k, At(d, "RIGHTS")) /\ Lists(doc[d]) = ListsOf(topic[k].msg.rights)
                    \/ /\ \A k \in At(d, "RIGHTS") : ~IsLast(k, At(d, "RIGHTS") \cup At(d, "PUT"))
                       /\ \E k \in At(d, "PUT") :
                            \E e \in NewEntries(topic[k].msg.owner, topic[k].msg.features) :
                              Lists(doc[d]) = Lists(e)
  BY DEF RightsSurviveCompaction
<1>1. \A cmd : \A k \in At(d, cmd) : k \in DOMAIN topic /\ k \in Nat /\ topic[k].msg.id = d
  BY DEF At, IInv, TypeOK
<1>2. CASE FromRights(d)
  <2>1. PICK p \in At(d, "RIGHTS") : /\ Lists(doc[d]) = ListsOf(topic[p].msg.rights)
                                     /\ \A j \in At(d, "RIGHTS") : j > p => j \notin done
    BY <1>2 DEF FromRights
  <2>2. \A j \in At(d, "RIGHTS") : j <= p
    <3> SUFFICES ASSUME NEW j \in At(d, "RIGHTS"), j > p PROVE FALSE
      BY <1>1
    <3>1. j \notin done
      BY <2>1
    <3>2. PICK n \in done : n > j /\ n \in At(d, "RIGHTS")
      BY <1>1, <3>1, NewerDone
    <3>3. n > p
      BY <1>1, <3>2
    <3> QED
      BY <2>1, <3>2, <3>3
  <2> QED
    BY <2>1, <2>2 DEF IsLast
<1>3. CASE FromCreation(d)
  <2>1. ASSUME NEW k \in At(d, "RIGHTS") PROVE ~IsLast(k, At(d, "RIGHTS") \cup At(d, "PUT"))
    <3>1. PICK n \in At(d, "RIGHTS") : n >= k /\ n \in done
      <4>1. CASE k \in done
        BY <1>1, <4>1
      <4>2. CASE k \notin done
        BY <1>1, <4>2, NewerDone
      <4> QED
        BY <4>1, <4>2
    <3>2. PICK j \in At(d, "PUT") : j > n
      BY <1>3, <3>1 DEF FromCreation
    <3>3. j > k /\ j \in Nat /\ k \in Nat
      BY <1>1, <3>1, <3>2
    <3> QED
      BY <3>2, <3>3 DEF IsLast
  <2> QED
    BY <1>3, <2>1 DEF FromCreation
<1> QED
  BY <1>2, <1>3 DEF LogInv, ListsOK

\* Existence and features of a document survive compaction and restarts.
THEOREM DocumentsSurvive == Spec => []DocumentSurvivesCompaction
BY LogInvariance, SurvivalOfDocuments, PTL

\* The last RIGHTS command survives compaction and restarts.
THEOREM RightsSurvive == Spec => []RightsSurviveCompaction
BY LogInvariance, SurvivalOfRights, PTL
=============================================================================
