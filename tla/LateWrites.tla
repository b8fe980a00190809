----------------------------- MODULE LateWrites -----------------------------
(***************************************************************************)
(* The resource consumer of the worker when requests are slow.  The client *)
(* of OpenSearch gives up after a timeout or sends a request again         *)
(* (lib/opensearchclient/client.go), a handler that is not back within a   *)
(* minute ends the process (lib/worker/kafka/consumer.go), the process     *)
(* dies: the write that was sent may be executed all the same, later than  *)
(* whatever its handler, or the next process, did meanwhile.  Other        *)
(* consumers write with if_seq_no, Import (lib/query/migration.go) writes  *)
(* without, and a process may come up without its resource consumer        *)
(* (lib/worker/event.go).                                                  *)
(*                                                                         *)
(* Worker has all three consumers, but executes a request before or after  *)
(* its response is lost, never later.                                      *)
(***************************************************************************)
EXTENDS Commands

CONSTANTS
  NoDoc,          \* there is no document under an id
  NoRead,         \* the handler holds no document it has read
  Logs,           \* the possible contents of the resource topic
  Others,         \* permission commands another consumer may work on
  Imports,        \* resources that may be imported
  MaxOthers,      \* bound on writes of the other consumer
  MaxImports,     \* bound on imports
  MaxFaults       \* bound on timeouts, repeated and failing requests, crashes

\* model.ResourceRights.
ResourceRights ==
  [id : Ids, features : Features, creator : Users \cup {NoUser},
   rights : ResourceRightsBase]

ASSUME LateWritesAssumption ==
  /\ NoDoc \notin Entry
  /\ \A l \in Logs :
       /\ l \in Seq(ResourceCommand)
       /\ \A i \in DOMAIN l : /\ l[i].cmd \in {"PUT", "RIGHTS", "DELETE"}
                              /\ l[i].id \in Ids
                              /\ l[i].rights # NoRights
  /\ Others \in Seq(PermCommand)
  /\ \A i \in DOMAIN Others : IsPermUpdate(Others[i]) /\ Others[i].id \in Ids
  /\ Imports \subseteq ResourceRights
  /\ MaxOthers \in Nat /\ MaxImports \in Nat /\ MaxFaults \in Nat

VARIABLES
  log,         \* the messages of the resource topic; never changes
  doc,         \* the documents of the index
  ver,         \* sequence number of the last write to each document
  running,     \* the consumers of the process
  pc,          \* where the resource consumer is
  pos,         \* messages its reader has left behind since the start
  committed,   \* its committed offset
  read,        \* the document its handler got, with its sequence number
  wire,        \* writes that were sent and not executed yet
  sent,        \* the number of writes sent
  awaited,     \* the write whose response the handler waits for, or 0
  blind,       \* documents written without regard to the topic's order
  others, imports, faults   \* counters for the bounds

storeVars    == <<doc, ver>>
consumerVars == <<pc, pos, committed, read>>
wireVars     == <<wire, sent, awaited>>
boundVars    == <<others, imports, faults>>
vars == <<log, doc, ver, running, pc, pos, committed, read, wire, sent, awaited,
          blind, others, imports, faults>>

Consumer == {"perm", "resource", "annotation"}

\* index has the sequence number of the entry read as condition, create and
\* delete have none.
Request ==
  [n : Nat, kind : {"index", "create", "delete"}, id : Ids,
   entry : Entry \cup {NoDoc}, ver : Nat]

Store == INSTANCE PermissionStore
           WITH log <- [perm |-> Others, resource |-> log, annotation |-> <<>>]

-----------------------------------------------------------------------------
Fault ==
  /\ faults < MaxFaults
  /\ faults' = faults + 1
  /\ UNCHANGED <<others, imports>>

(* Start of the process: InitEventHandling.                                *)

\* The topic of a consumer cannot be initialised.  The error of the resource
\* consumer is overwritten by the result of the annotation consumer.
StartFails ==
  /\ pc = "down"
  /\ Fault
  /\ \/ UNCHANGED <<running, pc>>
     \/ running' = Consumer \ {"resource"} /\ pc' = "off"
  /\ UNCHANGED <<log, storeVars, pos, committed, read, wireVars, blind>>

Start ==
  /\ pc = "down"
  /\ running' = Consumer
  /\ pc' = "fetch"
  /\ UNCHANGED <<log, storeVars, pos, committed, read, wireVars, blind, boundVars>>

\* The process dies, or is ended by HandleFatalError: a handler took more
\* than a minute, or failed for ten.
Crash ==
  /\ pc # "down"
  /\ Fault
  /\ running' = {}
  /\ pc' = "down"
  /\ pos' = committed
  /\ read' = NoRead
  /\ awaited' = 0
  /\ UNCHANGED <<log, storeVars, committed, wire, sent, blind>>

-----------------------------------------------------------------------------
(* Consumer loop and handler.                                              *)

Msg == log[pos + 1]

Id == Msg.id

Fetch ==
  /\ pc = "fetch"
  /\ pos < Len(log)
  /\ pc' = "exists"
  /\ UNCHANGED <<log, storeVars, running, pos, committed, read, wireVars, blind, boundVars>>

\* Nothing to fetch, or nobody who does.
FetchTimeout ==
  /\ pc = "off" \/ (pc = "fetch" /\ pos = Len(log))
  /\ UNCHANGED vars

AfterExists(exists) ==
  IF exists THEN IF Msg.cmd = "DELETE" THEN "delete" ELSE "get"
  ELSE IF Msg.cmd = "PUT" THEN "create" ELSE "done"

ResourceExists ==
  /\ pc = "exists"
  /\ pc' = AfterExists(doc[Id] # NoDoc)
  /\ blind' = IF Msg.cmd = "DELETE" /\ doc[Id] = NoDoc THEN blind \ {Id} ELSE blind
  /\ UNCHANGED <<log, storeVars, running, pos, committed, read, wireVars, boundVars>>

GetResourceEntry ==
  /\ pc = "get"
  /\ IF doc[Id] # NoDoc
     THEN read' = [entry |-> doc[Id], ver |-> ver[Id]] /\ pc' = "index"
     ELSE pc' = "failed" /\ UNCHANGED read
  /\ UNCHANGED <<log, storeVars, running, pos, committed, wireVars, blind, boundVars>>

\* A write goes on its way.
Send(kind, id, entry, version) ==
  /\ sent' = sent + 1
  /\ wire' = wire \cup {[n |-> sent + 1, kind |-> kind, id |-> id, entry |-> entry, ver |-> version]}

Await ==
  /\ awaited' = sent + 1
  /\ pc' = "sent"
  /\ UNCHANGED <<log, storeVars, running, pos, committed, blind>>

\* What UpdateFeatures and UpdateRights make of the entry read.
Effects(e) == IF Msg.cmd = "PUT" THEN FeaturesEffects(e, Msg) ELSE RightsEffects(e, Msg)

SendIndex ==
  /\ pc = "index"
  /\ \E e \in Effects(read.entry) : Send("index", Id, e, read.ver)
  /\ Await
  /\ read' = NoRead
  /\ UNCHANGED boundVars

SendCreate ==
  /\ pc = "create"
  /\ \E e \in NewEntries(Msg.owner, Msg.features) : Send("create", Id, e, 0)
  /\ Await
  /\ UNCHANGED <<read, boundVars>>

SendDelete ==
  /\ pc = "delete"
  /\ Send("delete", Id, NoDoc, 0)
  /\ Await
  /\ UNCHANGED <<read, boundVars>>

\* EnableRetryOnTimeout: the transport sends an awaited write again.
Resend ==
  /\ pc = "sent"
  /\ Fault
  /\ \E r \in wire : r.n = awaited /\ Send(r.kind, r.id, r.entry, r.ver)
  /\ Await
  /\ UNCHANGED read

\* Mutant of GiveUp: a timeout is taken for a success.
GiveUpDone ==
  /\ pc = "sent"
  /\ Msg.cmd # "DELETE"
  /\ Fault
  /\ pc' = "done"
  /\ awaited' = 0
  /\ UNCHANGED <<log, storeVars, running, pos, committed, read, wire, sent, blind>>

\* The context of the handler ends; that of DeleteFeatures never does.
GiveUp ==
  /\ pc = "sent"
  /\ Msg.cmd # "DELETE"
  /\ Fault
  /\ pc' = "failed"
  /\ awaited' = 0
  /\ UNCHANGED <<log, storeVars, running, pos, committed, read, wire, sent, blind>>

\* Another request of the handler, or SendDone, fails.
RequestFails ==
  /\ pc \in {"exists", "get", "done"}
  /\ Fault
  /\ pc' = "failed"
  /\ UNCHANGED <<log, storeVars, running, pos, committed, read, wireVars, blind>>

\* Mutant of HandlerError: the error is logged and the message committed.
HandlerErrorSwallowed ==
  /\ pc = "failed"
  /\ pc' = "commit"
  /\ read' = NoRead
  /\ UNCHANGED <<log, storeVars, running, pos, committed, wireVars, blind, boundVars>>

HandlerError ==
  /\ pc = "failed"
  /\ pc' = "exists"
  /\ read' = NoRead
  /\ UNCHANGED <<log, storeVars, running, pos, committed, wireVars, blind, boundVars>>

SendDone ==
  /\ pc = "done"
  /\ pc' = "commit"
  /\ UNCHANGED <<log, storeVars, running, pos, committed, read, wireVars, blind, boundVars>>

\* The reader goes on whether the commit succeeded or not.
Commit ==
  /\ pc = "commit"
  /\ pos' = pos + 1
  /\ \/ committed' = pos + 1 /\ UNCHANGED boundVars
     \/ Fault /\ UNCHANGED committed
  /\ pc' = "fetch"
  /\ UNCHANGED <<log, storeVars, running, read, wireVars, blind>>

-----------------------------------------------------------------------------
(* Other writers.                                                          *)

\* A permission command: GetResourceEntry and the write with if_seq_no.
OtherHandler(m) ==
  /\ others < MaxOthers
  /\ others' = others + 1
  /\ doc[m.id] # NoDoc
  /\ Send("index", m.id, PermEffect(doc[m.id], m), ver[m.id])
  /\ UNCHANGED <<log, storeVars, running, consumerVars, awaited, blind, imports, faults>>

Write(id, e) ==
  /\ doc' = [doc EXCEPT ![id] = e]
  /\ ver' = [ver EXCEPT ![id] = @ + 1]

\* ImportResource: annotations are not part of an export.
Import(resource) ==
  /\ imports < MaxImports
  /\ imports' = imports + 1
  /\ Write(resource.id,
           [features |-> resource.features, creator |-> resource.creator,
            annotations |-> NoAnnotations,
            users |-> SetResourceRights(NoHolders, resource.rights.users),
            groups |-> SetResourceRights(NoHolders, resource.rights.groups)])
  /\ blind' = blind \cup {resource.id}
  /\ UNCHANGED <<log, running, consumerVars, wireVars, others, faults>>

-----------------------------------------------------------------------------
(* OpenSearch.                                                             *)

\* Mutant of Accepted: if_seq_no is left out.
AcceptedIfThere(r) == r.kind # "create" => doc[r.id] # NoDoc

\* A conflict and a missing document are error responses.
Accepted(r) ==
  CASE r.kind = "index" -> doc[r.id] # NoDoc /\ ver[r.id] = r.ver
    [] r.kind = "delete" -> doc[r.id] # NoDoc
    [] r.kind = "create" -> TRUE

\* A late write without condition ignores what was done since; one that the
\* handler waits for brings the document back to the order of the topic.
Blinded(r) ==
  IF ~Accepted(r) THEN blind
  ELSE IF r.n # awaited
  THEN IF r.kind = "index" THEN blind ELSE blind \cup {r.id}
  ELSE IF Msg.cmd = "RIGHTS" THEN blind ELSE blind \ {r.id}

Execute(r) ==
  /\ wire' = wire \ {r}
  /\ IF Accepted(r) THEN Write(r.id, r.entry) ELSE UNCHANGED storeVars
  /\ blind' = Blinded(r)
  /\ IF r.n = awaited
     THEN awaited' = 0 /\ pc' = IF Accepted(r) THEN "done" ELSE "failed"
     ELSE UNCHANGED <<awaited, pc>>
  /\ UNCHANGED <<log, running, pos, committed, read, sent, boundVars>>

-----------------------------------------------------------------------------
Init ==
  /\ log \in Logs
  /\ doc = [id \in Ids |-> NoDoc]
  /\ ver = [id \in Ids |-> 0]
  /\ running = {}
  /\ pc = "down"
  /\ pos = 0
  /\ committed = 0
  /\ read = NoRead
  /\ wire = {}
  /\ sent = 0
  /\ awaited = 0
  /\ blind = {}
  /\ others = 0 /\ imports = 0 /\ faults = 0

\* Steps the process takes by itself.
Proceed ==
  \/ Start
  \/ Fetch
  \/ ResourceExists
  \/ GetResourceEntry
  \/ SendIndex
  \/ SendCreate
  \/ SendDelete
  \/ HandlerError
  \/ SendDone
  \/ Commit

Next ==
  \/ Proceed
  \/ StartFails
  \/ Crash
  \/ FetchTimeout
  \/ Resend
  \/ GiveUp
  \/ RequestFails
  \/ \E i \in DOMAIN Others : OtherHandler(Others[i])
  \/ \E resource \in Imports : Import(resource)
  \/ \E r \in wire : Execute(r)

Spec == Init /\ [][Next]_vars

\* The platform starts the process again, its goroutine runs, and OpenSearch
\* executes a write that somebody waits for.  Late writes may be late for ever.
Fairness ==
  /\ WF_vars(Proceed)
  /\ WF_vars(\E r \in wire : r.n = awaited /\ Execute(r))

FairSpec == Spec /\ Fairness

-----------------------------------------------------------------------------
Label == {"down", "off", "fetch", "exists", "get", "index", "create", "delete",
          "sent", "failed", "done", "commit"}

TypeOK ==
  /\ log \in Logs
  /\ doc \in [Ids -> Entry \cup {NoDoc}]
  /\ ver \in [Ids -> Nat]
  /\ running \subseteq Consumer
  /\ pc \in Label
  /\ pos \in 0..Len(log) /\ committed \in 0..pos
  /\ pc \notin {"down", "off", "fetch"} => pos < Len(log)
  /\ read \in [entry : Entry, ver : Nat] \cup {NoRead}
  /\ wire \subseteq Request
  /\ sent \in Nat /\ awaited \in 0..sent
  /\ blind \subseteq Ids
  /\ others \in 0..MaxOthers /\ imports \in 0..MaxImports
  /\ faults \in 0..MaxFaults

\* if_seq_no and if_primary_term of command.go:220-330: a write that has
\* them applies its command to the document as it is when it is executed,
\* however late that is.  Only imports, and creations that are late or meet a
\* document made by an import or by a late creation, replace what is there.
OnlyCreationsReplace ==
  [][\/ imports' # imports
     \/ \E r \in wire \ wire' : /\ r.kind = "create" /\ doc[r.id] # NoDoc
                                /\ r.n # awaited \/ r.id \in blind
     \/ Store!StoreNext]_<<log, doc>>

FeatureCommands(id) ==
  {i \in DOMAIN log : log[i].id = id /\ log[i].cmd \in {"PUT", "DELETE"}}

\* The document is as the first q messages leave it.
ReflectsPrefix(id, q) ==
  LET S == {i \in FeatureCommands(id) : i <= q}
  IN  /\ S = {} => doc[id] = NoDoc
      /\ \A i \in S : (\A j \in S : j <= i) =>
           IF log[i].cmd = "PUT"
           THEN doc[id] # NoDoc /\ doc[id].features = log[i].features
           ELSE doc[id] = NoDoc

\* Existence and features follow the topic, not behind the reader, unless
\* something unconditional interfered; and then only until the next PUT or
\* DELETE of the document is handled.
FollowsUnlessBlind ==
  \A id \in Ids \ blind : \E q \in pos..Len(log) : ReflectsPrefix(id, q)

\* event.go:35 and consumer.go:153: a process that stays has the permission
\* and the annotation consumer.  Nothing ensures the resource consumer; but if
\* it was started it gets through its topic, as a listener error, a timeout
\* included, commits nothing, and the documents end as the topic says.
ConsumedIfStarted ==
  <>[](/\ {"perm", "annotation"} \subseteq running
       /\ "resource" \in running =>
            /\ pc = "fetch" /\ pos = Len(log)
            /\ \A id \in Ids \ blind : ReflectsPrefix(id, Len(log)))
=============================================================================
