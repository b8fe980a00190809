------------------------------ MODULE RightsApi ------------------------------
(***************************************************************************)
(* PUT /v3/administrate/rights/:resource/:id (lib/api/rightsproducer.go):  *)
(* a caller replaces the rights of a document.  The endpoint checks him    *)
(* against the document as it is, the command it then produces waits in    *)
(* the topic behind others, and is applied whenever the worker gets there. *)
(* PUT and DELETE of the same document come from other services.           *)
(*                                                                         *)
(* The topic is written in one order; its partitions are the subsequences  *)
(* a hash of the keys makes of it, and are consumed independently.  Kafka  *)
(* compacts it (lib/worker/kafka/common.go): of the messages with one key  *)
(* only the last is sure to stay.  A worker starts again from committed    *)
(* offsets, or from the beginning with an empty database.                  *)
(*                                                                         *)
(* The worker has the granularity of PermissionStore, which Worker         *)
(* implements.  The permission topic is left out: its commands may take    *)
(* any right from any document.                                            *)
(***************************************************************************)
EXTENDS Commands

CONSTANTS
  NoDoc,            \* there is no document under an id
  PlatformAdmin,    \* the role with which token.IsAdmin holds
  Requests,         \* requests to the endpoint
  RightsRequests,   \* what they may ask
  Others,           \* not a request: the producer of PUT and DELETE
  ForeignCommands,  \* what it may produce
  Prefixes,         \* parts of keys before the separator "/"
  NoKey,            \* no key in the URL
  Hash,             \* the partition of a key
  InitialTopic,     \* the topic in the beginning
  MaxForeign,       \* bound on commands of others
  MaxFaults,        \* bound on failing requests to OpenSearch and Kafka
  MaxCompactions,   \* bound on messages removed by Kafka
  MaxRestarts       \* bound on starts of the worker

\* A key such as "id/rights" is a pair, a key without separator ends in "".
Keys == Prefixes \X {"", "rights", "other"}

Prefix(key) == key[1]

\* The key of PUT and DELETE commands: the id alone.
PlainKey(d) == <<d, "">>

Caller == [user : Users, roles : SUBSET Groups]

\* valid: token and body could be parsed, the id has no modifier.  An id
\* that is NoId stands for every resource of a kind without producer.
RightsRequest ==
  [valid : BOOLEAN, caller : Caller, id : Ids \cup {NoId},
   rights : ResourceRightsBase, key : Keys \cup {NoKey}]

\* by is the request that produced the message and asked what it asked; the
\* code keeps neither.
TopicMessage ==
  [key : Keys, msg : ResourceCommand, by : Requests \cup {Others},
   asked : RightsRequests \cup {Others}]

IsForeign(t) ==
  /\ t \in TopicMessage
  /\ t.by = Others /\ t.asked = Others
  /\ t.msg.cmd \in {"PUT", "DELETE"}
  /\ t.msg.id \in Ids
  /\ t.key = PlainKey(t.msg.id)

ASSUME RightsApiAssumption ==
  /\ NoDoc \notin Entry
  /\ Others \notin Requests \cup RightsRequests
  /\ NoKey \notin Keys
  /\ Features # {}
  /\ Ids \subseteq Prefixes
  /\ Hash \in [Keys -> Nat]
  /\ RightsRequests \subseteq RightsRequest
  /\ \A t \in ForeignCommands : IsForeign(t)
  /\ InitialTopic \in Seq(TopicMessage)
  /\ \A k \in DOMAIN InitialTopic : IsForeign(InitialTopic[k])
  /\ MaxForeign \in Nat /\ MaxFaults \in Nat
  /\ MaxCompactions \in Nat /\ MaxRestarts \in Nat

VARIABLES
  doc,        \* the documents
  topic,      \* everything produced so far
  gone,       \* positions that Kafka removed
  done,       \* positions that the worker handled since its last start
  pc,         \* step of each request
  req,        \* what it asks
  answer,     \* its status code
  foreign, faults, compactions, restarts   \* counters for the bounds

requestVars == <<pc, req, answer>>
boundVars   == <<foreign, faults, compactions, restarts>>
vars == <<doc, topic, gone, done, pc, req, answer, foreign, faults,
          compactions, restarts>>

Store == INSTANCE PermissionStore
           WITH log <- [perm       |-> <<>>,
                        resource   |-> [k \in DOMAIN topic |-> topic[k].msg],
                        annotation |-> <<>>]

NoRequest == [valid |-> FALSE]

-----------------------------------------------------------------------------
(* The endpoint.                                                           *)

IsAdmin(caller) == PlatformAdmin \in caller.roles

\* Mutant of CheckUserOrGroup: every right will do.
CheckAnyRight(caller, e) ==
  \E r \in Right : caller.user \in e.users[r] \/ caller.roles \cap e.groups[r] # {}

\* CheckUserOrGroup with the rights "a".
CheckUserOrGroup(caller, e) ==
  caller.user \in e.users["a"] \/ caller.roles \cap e.groups["a"] # {}

\* Who may administrate according to one half of the body.
Administrators(rightsOf) == {s \in DOMAIN rightsOf : "a" \in rightsOf[s]}

\* Mutant of ValidAdminRemoval: an administrator among the groups suffices.
ValidWithGroupOnly(rights, caller) ==
  \/ caller.user \in Administrators(rights.users)
  \/ caller.roles \cap Administrators(rights.groups) # {}

\* Mutant of ValidAdminRemoval: the caller's roles are not asked for.
ValidWithAnyGroup(rights, caller) ==
  \/ caller.user \in Administrators(rights.users)
  \/ /\ Administrators(rights.groups) # {}
     /\ Administrators(rights.users) # {}

\* invalidAdminRemoval returns no error.
ValidAdminRemoval(rights, caller) ==
  \/ caller.user \in Administrators(rights.users)
  \/ /\ caller.roles \cap Administrators(rights.groups) # {}
     /\ Administrators(rights.users) # {}

Answer(q, code) ==
  /\ pc' = [pc EXCEPT ![q] = "answered"]
  /\ answer' = [answer EXCEPT ![q] = code]
  /\ req' = [req EXCEPT ![q] = NoRequest]

Goto(q, step) ==
  /\ pc' = [pc EXCEPT ![q] = step]
  /\ UNCHANGED answer

\* Token, body and id are parsed; a platform admin is not checked.
Ask(q, r) ==
  /\ pc[q] = "new"
  /\ IF ~r.valid THEN Answer(q, 400)
     ELSE /\ req' = [req EXCEPT ![q] = r]
          /\ Goto(q, IF IsAdmin(r.caller) THEN "produce" ELSE "check")
  /\ UNCHANGED <<doc, topic, gone, done, boundVars>>

Administrated(q) ==
  /\ req[q].id \in Ids
  /\ doc[req[q].id] # NoDoc
  /\ CheckUserOrGroup(req[q].caller, doc[req[q].id])

\* Mutant of Check: no return behind the answer "access denied".
CheckWithoutReturn(q) ==
  /\ pc[q] = "check"
  /\ IF ~Administrated(q)
     THEN /\ pc' = [pc EXCEPT ![q] = "produce"]
          /\ answer' = [answer EXCEPT ![q] = 403]
          /\ UNCHANGED req
     ELSE IF ValidAdminRemoval(req[q].rights, req[q].caller)
          THEN Goto(q, "produce") /\ UNCHANGED req
     ELSE Answer(q, 400)
  /\ UNCHANGED <<doc, topic, gone, done, boundVars>>

\* The caller is compared with the present document, the body with the caller.
Check(q) ==
  /\ pc[q] = "check"
  /\ IF ~Administrated(q) THEN Answer(q, 403)
     ELSE IF ValidAdminRemoval(req[q].rights, req[q].caller)
          THEN Goto(q, "produce") /\ UNCHANGED req
     ELSE Answer(q, 400)
  /\ UNCHANGED <<doc, topic, gone, done, boundVars>>

Fault ==
  /\ faults < MaxFaults
  /\ faults' = faults + 1
  /\ UNCHANGED <<foreign, compactions, restarts>>

CheckFails(q) ==
  /\ pc[q] = "check"
  /\ Fault
  /\ Answer(q, 403)
  /\ UNCHANGED <<doc, topic, gone, done>>

-----------------------------------------------------------------------------
(* SetResourceRights of the producer.                                      *)

\* Mutant of KeyOf: the key of PUT and DELETE is used.
KeyIsId(r) == IF r.key = NoKey THEN PlainKey(r.id) ELSE r.key

KeyOf(r) == IF r.key = NoKey THEN <<r.id, "rights">> ELSE r.key

Message(q) ==
  [key |-> KeyOf(req[q]), by |-> q, asked |-> req[q],
   msg |-> [cmd |-> "RIGHTS", id |-> req[q].id, owner |-> NoUser,
            features |-> CHOOSE f \in Features : TRUE, rights |-> req[q].rights]]

UnknownResource(q) ==
  /\ pc[q] = "produce"
  /\ req[q].id \notin Ids
  /\ Answer(q, 404)
  /\ UNCHANGED <<doc, topic, gone, done, boundVars>>

\* Mutant of Write: a topic is made up for every kind.
WriteAnyKind(q) ==
  /\ pc[q] = "produce"
  /\ topic' = Append(topic, Message(q))
  /\ UNCHANGED <<doc, gone, done>>

Write(q) ==
  /\ pc[q] = "produce"
  /\ req[q].id \in Ids
  /\ topic' = Append(topic, Message(q))
  /\ UNCHANGED <<doc, gone, done>>

Produce(q) == Write(q) /\ Answer(q, 200) /\ UNCHANGED boundVars

\* The acknowledgement is lost and kafka-go writes once more, or has tried
\* ten times and gives up.
ProduceFails(q) ==
  /\ Fault
  /\ \/ Write(q) /\ UNCHANGED requestVars
     \/ Write(q) /\ Answer(q, 500)
     \/ /\ pc[q] = "produce" /\ req[q].id \in Ids
        /\ Answer(q, 500)
        /\ UNCHANGED <<doc, topic, gone, done>>

ProduceForeign(t) ==
  /\ foreign < MaxForeign
  /\ foreign' = foreign + 1
  /\ topic' = Append(topic, t)
  /\ UNCHANGED <<doc, gone, done, requestVars, faults, compactions, restarts>>

-----------------------------------------------------------------------------
(* Kafka and the worker.                                                   *)

\* Mutant of PartitionOf: kafka.Hash on the whole key.
PartitionOfWholeKey(key) == Hash[key]

\* KeySeparationBalancer hashes what precedes the separator.
PartitionOf(key) == Hash[PlainKey(Prefix(key))]

Waiting == DOMAIN topic \ (done \cup gone)

\* The first waiting message of its partition.
IsNext(k) ==
  /\ k \in Waiting
  /\ \A j \in Waiting :
       PartitionOf(topic[j].key) = PartitionOf(topic[k].key) => k <= j

\* A RIGHTS or DELETE command without document has no effect.
Apply(m) ==
  \/ Store!PutFeatures(m)
  \/ Store!SetRights(m)
  \/ Store!Delete(m)
  \/ m.cmd # "PUT" /\ doc[m.id] = NoDoc /\ UNCHANGED doc

Handle(k) ==
  /\ IsNext(k)
  /\ done' = done \cup {k}
  /\ Apply(topic[k].msg)
  /\ UNCHANGED <<topic, gone, requestVars, boundVars>>

\* cleanup.policy "compact".  A reader no longer meets the message.
Compact(k) ==
  /\ compactions < MaxCompactions
  /\ compactions' = compactions + 1
  /\ k \notin gone
  /\ \E j \in DOMAIN topic : j > k /\ topic[j].key = topic[k].key
  /\ gone' = gone \cup {k}
  /\ done' = done \ {k}
  /\ UNCHANGED <<doc, topic, requestVars, foreign, faults, restarts>>

Restart ==
  /\ restarts < MaxRestarts
  /\ restarts' = restarts + 1
  /\ UNCHANGED <<topic, gone, requestVars, foreign, faults, compactions>>

\* The worker goes on at an older offset of one partition.
RestartWorker(k) ==
  /\ Restart
  /\ k \in done
  /\ done' = {j \in done : \/ j < k
                           \/ PartitionOf(topic[j].key) # PartitionOf(topic[k].key)}
  /\ UNCHANGED doc

\* A new consumer group and an empty database.
Rebuild ==
  /\ Restart
  /\ done # {}
  /\ done' = {}
  /\ doc' = [d \in Ids |-> NoDoc]

-----------------------------------------------------------------------------
Init ==
  /\ doc = [d \in Ids |-> NoDoc]
  /\ topic = InitialTopic
  /\ gone = {}
  /\ done = {}
  /\ pc = [q \in Requests |-> "new"]
  /\ req = [q \in Requests |-> NoRequest]
  /\ answer = [q \in Requests |-> 0]
  /\ foreign = 0 /\ faults = 0 /\ compactions = 0 /\ restarts = 0

\* The worker waits for messages, the server for requests.
Idle ==
  /\ Waiting = {}
  /\ \A q \in Requests : pc[q] = "answered"
  /\ UNCHANGED vars

Serve(q) ==
  \/ \E r \in RightsRequests : Ask(q, r)
  \/ Check(q)
  \/ CheckFails(q)
  \/ UnknownResource(q)
  \/ Produce(q)
  \/ ProduceFails(q)

Next ==
  \/ \E q \in Requests : Serve(q)
  \/ \E t \in ForeignCommands : ProduceForeign(t)
  \/ \E k \in DOMAIN topic : Handle(k) \/ Compact(k) \/ RestartWorker(k)
  \/ Rebuild
  \/ Idle

Spec == Init /\ [][Next]_vars

-----------------------------------------------------------------------------
TypeOK ==
  /\ doc \in [Ids -> Entry \cup {NoDoc}]
  /\ topic \in Seq(TopicMessage)
  /\ gone \subseteq DOMAIN topic
  /\ done \subseteq DOMAIN topic
  /\ pc \in [Requests -> {"new", "check", "produce", "answered"}]
  /\ req \in [Requests -> RightsRequests \cup {NoRequest}]
  /\ answer \in [Requests -> {0, 200, 400, 403, 404, 500}]
  /\ foreign \in 0..MaxForeign
  /\ faults \in 0..MaxFaults
  /\ compactions \in 0..MaxCompactions
  /\ restarts \in 0..MaxRestarts

\* The positions of the topic with a command cmd for d.
At(d, cmd) == {k \in DOMAIN topic : topic[k].msg.id = d /\ topic[k].msg.cmd = cmd}

IsLast(k, S) == k \in S /\ \A j \in S : j <= k

\* Commands that leave d without administrator on the word of somebody who
\* may do that: a platform admin, or the creation without owner.
Overruled(d) ==
  \/ \E k \in At(d, "RIGHTS") : IsAdmin(topic[k].asked.caller)
  \/ \E k \in At(d, "PUT") : topic[k].msg.owner = NoUser

\* rightsproducer.go:98-104: "at least one admin user is kept".  However
\* the check of a request, other requests, their commands and redeliveries
\* interleave, a document always has a user who may administrate it.
AdminUserKept ==
  \A d \in Ids : doc[d] # NoDoc /\ ~Overruled(d) => doc[d].users["a"] # {}

\* rightsproducer.go:95: "user may not remove his own admin ability".  When
\* the command of a caller is applied, late or again, he may administrate
\* the document, by himself or by one of his groups.
OwnCommandKeepsCaller ==
  [][\A k \in done' \ done :
       LET t == topic[k]
       IN  /\ t.msg.cmd = "RIGHTS"
           /\ ~IsAdmin(t.asked.caller)
           /\ doc'[t.msg.id] # NoDoc
           => CheckUserOrGroup(t.asked.caller, doc'[t.msg.id])]_vars

\* The commands that may make a caller administrator of the document of m.
Empowers(m, caller) ==
  \/ /\ m.cmd = "PUT"
     /\ \/ m.owner = caller.user
        \/ \E g \in caller.roles \cap DOMAIN InitialGroupRights :
             "a" \in InitialGroupRights[g]
  \/ /\ m.cmd = "RIGHTS"
     /\ \/ caller.user \in Administrators(m.rights.users)
        \/ caller.roles \cap Administrators(m.rights.groups) # {}

\* Authority is handed on: who sends a RIGHTS command for a document was
\* made its administrator by an earlier command for it, or is a platform
\* admin.  The check reads documents only, however far they lag behind.
AuthorityFromTopic ==
  \A k \in DOMAIN topic :
    topic[k].by # Others /\ ~IsAdmin(topic[k].asked.caller) =>
      \E j \in 1..(k - 1) :
        /\ topic[j].msg.id = topic[k].msg.id
        /\ Empowers(topic[j].msg, topic[k].asked.caller)

\* The status tells whether the command was sent (rightsproducer.go:61-77);
\* only after an error of Kafka one cannot know.
AnswerIsTrue ==
  \A q \in Requests :
    LET sent == \E k \in DOMAIN topic : topic[k].by = q
    IN  /\ answer[q] = 200 => sent
        /\ answer[q] \in {400, 403, 404} => ~sent

\* The keys that callers gave are as event.go:205-208 demands: RIGHTS commands
\* for d, and no others, have the part before the separator in common with
\* PUT and DELETE for d, but not the whole key.
KeysAsExpected(d) ==
  \A k \in DOMAIN topic :
    LET r == topic[k].asked
    IN  r # Others /\ r.key # NoKey =>
          /\ r.id = d <=> Prefix(r.key) = d
          /\ r.key # PlainKey(d)

CaughtUp(d) == \A k \in Waiting : topic[k].msg.id # d

\* event.go:205-208: separate compaction.  Whatever Kafka removed and from
\* where the worker started, the document in the end exists, with the
\* features of the last PUT, exactly if no DELETE follows that PUT.
DocumentSurvivesCompaction ==
  \A d \in Ids : KeysAsExpected(d) /\ CaughtUp(d) =>
    LET bare == At(d, "PUT") \cup At(d, "DELETE")
    IN  IF \E k \in At(d, "PUT") : IsLast(k, bare)
        THEN /\ doc[d] # NoDoc
             /\ \A k \in bare : IsLast(k, bare) => doc[d].features = topic[k].msg.features
        ELSE doc[d] = NoDoc

Lists(e) == <<e.users, e.groups>>

ListsOf(rights) ==
  <<SetResourceRights(NoHolders, rights.users), SetResourceRights(NoHolders, rights.groups)>>

\* The lists of a document are in the end those of the last RIGHTS command,
\* if it came behind the last PUT; else they may be those of a new entry.
\* Older RIGHTS commands, redelivered ones included, leave no trace.
RightsSurviveCompaction ==
  \A d \in Ids : KeysAsExpected(d) /\ CaughtUp(d) /\ doc[d] # NoDoc =>
    \/ \E k \in At(d, "RIGHTS") :
         IsLast(k, At(d, "RIGHTS")) /\ Lists(doc[d]) = ListsOf(topic[k].msg.rights)
    \/ /\ \A k \in At(d, "RIGHTS") : ~IsLast(k, At(d, "RIGHTS") \cup At(d, "PUT"))
       /\ \E k \in At(d, "PUT") :
            \E e \in NewEntries(topic[k].msg.owner, topic[k].msg.features) :
              Lists(doc[d]) = Lists(e)
=============================================================================
