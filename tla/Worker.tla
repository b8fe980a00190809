------------------------------- MODULE Worker -------------------------------
(***************************************************************************)
(* The worker process (lib/worker, lib/worker/kafka): three consumers that *)
(* run in goroutines of their own and write the same OpenSearch documents. *)
(* Each takes the next message of its topic, calls the handler and then    *)
(* commits.  A handler is a sequence of requests to OpenSearch (exists,    *)
(* get, index or delete) and, for commands, a Done message at the end;     *)
(* steps of the other consumers fall between any two of them.              *)
(*                                                                         *)
(* Requests fail, responses get lost after the request was executed,       *)
(* commits fail, and the process dies and starts again from the committed  *)
(* offsets.  These are bounded by MaxFaults and MaxCrashes.                *)
(***************************************************************************)
EXTENDS Commands, SequencesExt

CONSTANTS
  NoDoc,            \* there is no document under an id
  NoRead,           \* the consumer holds no document it has read
  Logs,             \* the possible contents of the topics
  UseBulk,          \* configuration: use_bulk_worker_for_annotations
  BulkWorkers,      \* configuration: bulk_worker_count
  MaxFaults,        \* bound on failing requests and commits
  MaxCrashes        \* bound on deaths of the process

Consumer == {"perm", "resource", "annotation"}

ASSUME WorkerAssumption ==
  /\ NoDoc \notin Entry
  /\ \A l \in Logs :
       /\ DOMAIN l = Consumer
       /\ l["perm"] \in Seq(PermCommand)
       /\ l["resource"] \in Seq(ResourceCommand)
       /\ l["annotation"] \in Seq(AnnotationMsg)
  /\ UseBulk \in BOOLEAN
  /\ BulkWorkers \in Nat
  /\ MaxFaults \in Nat
  /\ MaxCrashes \in Nat

VARIABLES
  log,         \* messages of each topic; never changes
  doc,         \* the documents of the index
  ver,         \* sequence number of the last write to each document
  pc,          \* where each consumer is
  pos,         \* messages each reader has left behind since the start
  committed,   \* committed offset of each consumer group
  read,        \* the document each consumer got, with its sequence number
  target,      \* which of its documents the annotation handler works on
  bulk,        \* items of the bulk indexer that are not written yet
  done,        \* the messages for which a Done message was produced
  faults,      \* faults so far
  crashes      \* crashes so far

storeVars    == <<doc, ver>>
consumerVars == <<pc, pos, committed, read, target>>
vars == <<log, doc, ver, pc, pos, committed, read, target, bulk, done, faults, crashes>>

Label == {"fetch", "exists", "get", "index", "create", "delete", "add",
          "done", "commit", "failed"}

-----------------------------------------------------------------------------
\* The message a consumer works on.
Msg(c) == log[c][pos[c] + 1]

\* The document a message is about.
DocId(c) == IF c = "annotation" THEN Msg(c).ids[target] ELSE Msg(c).id

Goto(c, label) == pc' = [pc EXCEPT ![c] = label]

\* Begin of HandlePermissionCommand.
PermBegin(m) ==
  CASE m.cmd = "MALFORMED" -> "failed"
    [] m.cmd # "MALFORMED" /\ m.id = NoId -> "commit"
    [] m.cmd # "MALFORMED" /\ m.id # NoId ->
         IF IsPermUpdate(m) THEN "exists" ELSE "failed"

\* Begin of the handler made by GetResourceCommandHandler, up to the first
\* request of UpdateFeatures, UpdateRights or DeleteFeatures.
ResourceBegin(m) ==
  CASE m.cmd = "MALFORMED" -> "failed"
    [] m.cmd # "MALFORMED" /\ m.id = NoId -> "commit"
    [] m.cmd # "MALFORMED" /\ m.id # NoId ->
         IF m.cmd = "UNKNOWN" THEN "failed"
         ELSE IF m.cmd = "RIGHTS" /\ m.rights = NoRights THEN "done"
         ELSE "exists"

\* Begin of the handler made by GetAnnotationHandler.
AnnotationBegin(m) ==
  IF m.cmd = "MALFORMED" THEN "failed"
  ELSE IF m.ids = <<>> THEN "commit"
  ELSE "exists"

Begin(c) ==
  CASE c = "perm" -> PermBegin(Msg(c))
    [] c = "resource" -> ResourceBegin(Msg(c))
    [] c = "annotation" -> AnnotationBegin(Msg(c))

\* The handler is called with the message at pos.
CallHandler(c) ==
  /\ Goto(c, Begin(c))
  /\ target' = IF c = "annotation" THEN 1 ELSE target

\* The work on a document succeeded.  Commands go on to SendDone, an
\* annotation to the document of the next resource kind.
Succeed(c) ==
  IF c = "annotation" /\ target < Len(Msg(c).ids)
  THEN /\ Goto(c, "exists")
       /\ target' = target + 1
  ELSE /\ Goto(c, IF c = "annotation" THEN "commit" ELSE "done")
       /\ UNCHANGED target

\* The end of a request that was executed: the response arrives, or is lost
\* (a timeout, a broken connection) and the handler returns an error.
Respond(c) ==
  \/ /\ Succeed(c)
     /\ UNCHANGED faults
  \/ /\ faults < MaxFaults
     /\ faults' = faults + 1
     /\ Goto(c, "failed")
     /\ UNCHANGED target

\* A write of OpenSearch: the document gets a new sequence number.
Write(id, e) ==
  /\ doc' = [doc EXCEPT ![id] = e]
  /\ ver' = [ver EXCEPT ![id] = @ + 1]

-----------------------------------------------------------------------------
(* Consumer loop.                                                          *)

Fetch(c) ==
  /\ pc[c] = "fetch"
  /\ pos[c] < Len(log[c])
  /\ CallHandler(c)
  /\ UNCHANGED <<log, doc, ver, pos, committed, read, bulk, done, faults, crashes>>

\* Nothing to fetch: the loop waits and fetches again.
FetchTimeout(c) ==
  /\ pc[c] = "fetch"
  /\ pos[c] = Len(log[c])
  /\ UNCHANGED vars

\* Mutant of HandlerError: every listener swallows the error.
HandlerErrorSwallowed(c) ==
  /\ pc[c] = "failed"
  /\ Goto(c, "commit")
  /\ read' = [read EXCEPT ![c] = NoRead]
  /\ UNCHANGED <<log, doc, ver, pos, committed, target, bulk, done, faults, crashes>>

\* Mutant of HandlerError: the permission listener returns the error too.
HandlerErrorRetried(c) ==
  /\ pc[c] = "failed"
  /\ CallHandler(c)
  /\ read' = [read EXCEPT ![c] = NoRead]
  /\ UNCHANGED <<log, doc, ver, pos, committed, bulk, done, faults, crashes>>

\* The handler returned an error.  The listener of the permission topic logs
\* it and lets the message be committed; the others are retried.
HandlerError(c) ==
  /\ pc[c] = "failed"
  /\ IF c = "perm" THEN Goto(c, "commit") /\ UNCHANGED target
                   ELSE CallHandler(c)
  /\ read' = [read EXCEPT ![c] = NoRead]
  /\ UNCHANGED <<log, doc, ver, pos, committed, bulk, done, faults, crashes>>

\* Mutant of Commit: the offset after the next message is committed.
CommitAhead(c) ==
  /\ pc[c] = "commit"
  /\ pos' = [pos EXCEPT ![c] = @ + 1]
  /\ committed' = [committed EXCEPT ![c] = pos[c] + 2]
  /\ Goto(c, "fetch")
  /\ UNCHANGED <<log, doc, ver, read, target, bulk, done, faults, crashes>>

\* The reader goes on whether the commit succeeded or not.
Commit(c) ==
  /\ pc[c] = "commit"
  /\ pos' = [pos EXCEPT ![c] = @ + 1]
  /\ \/ /\ committed' = [committed EXCEPT ![c] = pos[c] + 1]
        /\ UNCHANGED faults
     \/ /\ faults < MaxFaults
        /\ faults' = faults + 1
        /\ UNCHANGED committed
  /\ Goto(c, "fetch")
  /\ UNCHANGED <<log, doc, ver, read, target, bulk, done, crashes>>

-----------------------------------------------------------------------------
(* Requests of the handlers.                                               *)

\* Mutant of RequestFails: the error of SendDone is not returned.
DoneErrorIgnored(c) ==
  /\ pc[c] \in {"exists", "get", "index", "create", "delete", "done"}
  /\ faults < MaxFaults
  /\ faults' = faults + 1
  /\ Goto(c, IF pc[c] = "done" THEN "commit" ELSE "failed")
  /\ UNCHANGED <<log, doc, ver, pos, committed, read, target, bulk, done, crashes>>

\* The request fails before it is executed.
RequestFails(c) ==
  /\ pc[c] \in {"exists", "get", "index", "create", "delete", "done"}
  /\ faults < MaxFaults
  /\ faults' = faults + 1
  /\ Goto(c, "failed")
  /\ UNCHANGED <<log, doc, ver, pos, committed, read, target, bulk, done, crashes>>

\* Mutant of AfterExists: a missing document is an error for everyone.
MissingIsError(c, exists) ==
  CASE ~exists -> "failed"
    [] exists /\ c = "annotation" -> IF UseBulk THEN "add" ELSE "get"
    [] exists /\ c = "resource" /\ Msg(c).cmd = "DELETE" -> "delete"
    [] OTHER -> "get"

\* Where a handler goes when ResourceExists says whether the document exists.
AfterExists(c, exists) ==
  CASE c = "annotation" -> IF UseBulk THEN "add" ELSE "get"
    [] c = "perm" -> IF exists THEN "get" ELSE "done"
    [] c = "resource" /\ Msg(c).cmd = "PUT" -> IF exists THEN "get" ELSE "create"
    [] c = "resource" /\ Msg(c).cmd = "RIGHTS" -> IF exists THEN "get" ELSE "done"
    [] c = "resource" /\ Msg(c).cmd \notin {"PUT", "RIGHTS"} ->
         IF exists THEN "delete" ELSE "done"

ResourceExists(c) ==
  /\ pc[c] = "exists"
  /\ Goto(c, AfterExists(c, doc[DocId(c)] # NoDoc))
  /\ UNCHANGED <<log, doc, ver, pos, committed, read, target, bulk, done, faults, crashes>>

\* GetResourceEntry.  A document that is gone is ignored by the permission
\* commands and an error for the others.
GetResourceEntry(c) ==
  /\ pc[c] = "get"
  /\ IF doc[DocId(c)] # NoDoc
     THEN /\ read' = [read EXCEPT ![c] = [entry |-> doc[DocId(c)], ver |-> ver[DocId(c)]]]
          /\ Goto(c, "index")
     ELSE /\ Goto(c, IF c = "perm" THEN "done" ELSE "failed")
          /\ UNCHANGED read
  /\ UNCHANGED <<log, doc, ver, pos, committed, target, bulk, done, faults, crashes>>

\* What the handler makes of the entry it has read.
Effects(c) ==
  LET e == read[c].entry
      m == Msg(c)
  IN  CASE c = "perm" -> {PermEffect(e, m)}
        [] c = "annotation" -> {AnnotationEffect(e, m)}
        [] c = "resource" /\ m.cmd = "PUT" -> FeaturesEffects(e, m)
        [] c = "resource" /\ m.cmd # "PUT" -> RightsEffects(e, m)

\* Mutants of Unchanged: without if_seq_no, and without any condition.
StillThere(c) == doc[DocId(c)] # NoDoc
Unconditional(c) == TRUE

\* client.Index with if_seq_no and if_primary_term of the entry read.
Unchanged(c) == doc[DocId(c)] # NoDoc /\ ver[DocId(c)] = read[c].ver

\* Mutant of Index: the status of the response is not looked at.
IndexUnchecked(c) ==
  /\ pc[c] = "index"
  /\ IF Unchanged(c)
     THEN /\ \E e \in Effects(c) : Write(DocId(c), e)
          /\ Respond(c)
     ELSE Succeed(c) /\ UNCHANGED <<doc, ver, faults>>
  /\ read' = [read EXCEPT ![c] = NoRead]
  /\ UNCHANGED <<log, pos, committed, bulk, done, crashes>>

Index(c) ==
  /\ pc[c] = "index"
  /\ IF Unchanged(c)
     THEN /\ \E e \in Effects(c) : Write(DocId(c), e)
          /\ Respond(c)
     ELSE /\ Goto(c, "failed")
          /\ UNCHANGED <<doc, ver, target, faults>>
  /\ read' = [read EXCEPT ![c] = NoRead]
  /\ UNCHANGED <<log, pos, committed, bulk, done, crashes>>

\* client.Index of UpdateFeatures for a new entry, without conditions.
Create ==
  LET m == Msg("resource")
  IN  /\ pc["resource"] = "create"
      /\ \E e \in NewEntries(m.owner, m.features) : Write(m.id, e)
      /\ Respond("resource")
      /\ UNCHANGED <<log, pos, committed, read, bulk, done, crashes>>

\* client.Delete of DeleteFeatures: not found is an error response.
DeleteFeatures ==
  LET id == DocId("resource")
  IN  /\ pc["resource"] = "delete"
      /\ IF doc[id] # NoDoc
         THEN Write(id, NoDoc) /\ Respond("resource")
         ELSE Goto("resource", "failed") /\ UNCHANGED <<doc, ver, target, faults>>
      /\ UNCHANGED <<log, pos, committed, read, bulk, done, crashes>>

SendDone(c) ==
  /\ pc[c] = "done"
  /\ done' = done \cup {<<c, pos[c] + 1>>}
  /\ \/ Goto(c, "commit") /\ UNCHANGED faults
     \/ /\ faults < MaxFaults
        /\ faults' = faults + 1
        /\ Goto(c, "failed")
  /\ UNCHANGED <<log, doc, ver, pos, committed, read, target, bulk, crashes>>

-----------------------------------------------------------------------------
(* The bulk indexer of the annotations.                                    *)

\* bulk.Add only queues the item; the handler is finished with it.
BulkAdd ==
  /\ pc["annotation"] = "add"
  /\ bulk' = Append(bulk, [id |-> DocId("annotation"), msg |-> Msg("annotation")])
  /\ Succeed("annotation")
  /\ UNCHANGED <<log, doc, ver, pos, committed, read, done, faults, crashes>>

\* Item i leaves the queue.  One worker keeps the order, several do not.
Dequeue(i) ==
  /\ i \in DOMAIN bulk
  /\ BulkWorkers = 1 => i = 1
  /\ bulk' = RemoveAt(bulk, i)

\* The partial update is executed by OpenSearch on the present document; a
\* missing document and an update that changes nothing write nothing.
BulkFlush(i) ==
  /\ Dequeue(i)
  /\ LET id == bulk[i].id
     IN  IF doc[id] # NoDoc /\ AnnotationEffect(doc[id], bulk[i].msg) # doc[id]
         THEN Write(id, AnnotationEffect(doc[id], bulk[i].msg))
         ELSE UNCHANGED storeVars
  /\ UNCHANGED <<log, consumerVars, done, faults, crashes>>

\* The bulk request fails: the item is dropped, nobody is told.
BulkLost(i) ==
  /\ Dequeue(i)
  /\ faults < MaxFaults
  /\ faults' = faults + 1
  /\ UNCHANGED <<log, storeVars, consumerVars, done, crashes>>

-----------------------------------------------------------------------------
\* The process dies (also by HandleFatalError, after ten minutes of retries)
\* and starts again: what it held in memory is gone, the readers begin at
\* the committed offsets.
Crash ==
  /\ crashes < MaxCrashes
  /\ crashes' = crashes + 1
  /\ pc' = [c \in Consumer |-> "fetch"]
  /\ pos' = committed
  /\ read' = [c \in Consumer |-> NoRead]
  /\ target' = 1
  /\ bulk' = <<>>
  /\ UNCHANGED <<log, doc, ver, committed, done, faults>>

Init ==
  /\ log \in Logs
  /\ doc = [id \in Ids |-> NoDoc]
  /\ ver = [id \in Ids |-> 0]
  /\ pc = [c \in Consumer |-> "fetch"]
  /\ pos = [c \in Consumer |-> 0]
  /\ committed = [c \in Consumer |-> 0]
  /\ read = [c \in Consumer |-> NoRead]
  /\ target = 1
  /\ bulk = <<>>
  /\ done = {}
  /\ faults = 0
  /\ crashes = 0

\* A consumer's own steps.
ConsumerStep(c) ==
  \/ Fetch(c)
  \/ HandlerError(c)
  \/ Commit(c)
  \/ ResourceExists(c)
  \/ GetResourceEntry(c)
  \/ Index(c)
  \/ SendDone(c)
  \/ c = "resource" /\ (Create \/ DeleteFeatures)
  \/ c = "annotation" /\ BulkAdd

Next ==
  \/ \E c \in Consumer : ConsumerStep(c) \/ RequestFails(c) \/ FetchTimeout(c)
  \/ \E i \in DOMAIN bulk : BulkFlush(i) \/ BulkLost(i)
  \/ Crash

Spec == Init /\ [][Next]_vars

\* Every goroutine gets to run, and the bulk indexer flushes at intervals.
\* Faults and crashes are never forced.
Fairness ==
  /\ \A c \in Consumer : WF_vars(ConsumerStep(c))
  /\ WF_vars(\E i \in DOMAIN bulk : BulkFlush(i))

FairSpec == Spec /\ Fairness

-----------------------------------------------------------------------------
(* Properties.                                                             *)

StoreTypeOK ==
  /\ doc \in [Ids -> Entry \cup {NoDoc}]
  /\ ver \in [Ids -> Nat]

HandlerTypeOK ==
  /\ pc \in [Consumer -> Label]
  /\ read \in [Consumer -> [entry : Entry, ver : Nat] \cup {NoRead}]
  /\ target \in Nat \ {0}

OffsetsOK ==
  /\ pos \in [Consumer -> Nat]
  /\ committed \in [Consumer -> Nat]
  /\ \A c \in Consumer :
       /\ committed[c] <= pos[c]
       /\ pos[c] <= Len(log[c])
       /\ pc[c] # "fetch" => pos[c] < Len(log[c])

TopicsTypeOK ==
  /\ log \in Logs
  /\ bulk \in Seq([id : Ids, msg : AnnotationMsg])
  /\ done \subseteq Consumer \X Nat
  /\ faults \in 0..MaxFaults
  /\ crashes \in 0..MaxCrashes

\* Every variable has its type; no offset is committed for a message that
\* was not handled since the start, and none is beyond the topic.
TypeOK == StoreTypeOK /\ HandlerTypeOK /\ OffsetsOK /\ TopicsTypeOK

Store == INSTANCE PermissionStore

\* The worker implements the abstract store: whatever the interleaving of
\* the three consumers and the bulk indexer, every write applies one message
\* to the document as it is at that moment (read-modify-write with if_seq_no
\* in lib/worker/command.go loses no concurrent update), and only a PUT
\* creates a document.
ImplementsStore == Store!StoreSpec

\* Between its requests the resource consumer may rely on what the first one
\* said: nobody else creates or deletes documents.  This is why the
\* unconditional index of a new entry overwrites nothing, and the get and
\* the delete after a successful exists always find their document
\* (UpdateFeatures, UpdateRights, DeleteFeatures).
OwnsExistence ==
  /\ pc["resource"] \in {"get", "index", "delete"} => doc[DocId("resource")] # NoDoc
  /\ pc["resource"] = "create" => doc[DocId("resource")] = NoDoc

\* The commands of the resource topic l that write the features of a
\* document or delete it.
FeatureCommands(l, id) ==
  {i \in DOMAIN l : l[i].id = id /\ l[i].cmd \in {"PUT", "DELETE"}}

\* The document d is as command i of the resource topic l leaves it.
Applied(l, d, i) ==
  IF l[i].cmd = "PUT" THEN d # NoDoc /\ d.features = l[i].features ELSE d = NoDoc

\* The document d is as the first q messages of the resource topic l leave
\* the document of that id.
ReflectsPrefix(l, id, d, q) ==
  LET S == {i \in FeatureCommands(l, id) : i <= q}
  IN  /\ S = {} => d = NoDoc
      /\ \A i \in S : (\A j \in S : j <= i) => Applied(l, d, i)

\* Existence and features of every document are those after some prefix of
\* the resource topic that is not behind the reader: in particular, when the
\* resource consumer has caught up, those of the whole topic, whatever was
\* retried or delivered again after a crash (UpdateFeatures, DeleteFeatures
\* and the commit of lib/worker/kafka/consumer.go).
FeaturesFollowLog ==
  \A id \in Ids : \E q \in pos["resource"]..Len(log["resource"]) :
    ReflectsPrefix(log["resource"], id, doc[id], q)

\* When the handler of a PUT or DELETE is about to send Done, and still when
\* the message is committed, the document shows the command
\* (GetResourceCommandHandler).
DoneImpliesApplied ==
  LET m == Msg("resource")
  IN  /\ pc["resource"] \in {"done", "commit"}
      /\ m.cmd \in {"PUT", "DELETE"}
      /\ m.id \in Ids
      => Applied(log["resource"], doc[m.id], pos["resource"] + 1)

\* Every resource command with an id that is committed was announced on the
\* done topic: an error of SendDone keeps the message from being committed
\* (the deferred call in GetResourceCommandHandler).
CommittedImpliesDone ==
  \A i \in 1..committed["resource"] :
    log["resource"][i].id \in Ids => <<"resource", i>> \in done

\* As long as no permission command is about a document, its permission
\* lists are, as a whole, those its creation or one RIGHTS command made: no
\* interleaving mixes two commands (UpdateRights clears before it sets).
RightsComeWhole ==
  \A id \in Ids :
    \/ doc[id] = NoDoc
    \/ \E i \in DOMAIN log["perm"] : log["perm"][i].id = id
    \/ \E i \in DOMAIN log["resource"] :
         LET m == log["resource"][i]
         IN  /\ m.id = id
             /\ \/ /\ m.cmd = "PUT"
                   /\ \E e \in NewEntries(m.owner, m.features) :
                        e.users = doc[id].users /\ e.groups = doc[id].groups
                \/ /\ m.cmd = "RIGHTS" /\ m.rights # NoRights
                   /\ doc[id].users = SetResourceRights(NoHolders, m.rights.users)
                   /\ doc[id].groups = SetResourceRights(NoHolders, m.rights.groups)

\* The creator of an existing document is never replaced by another one
\* (UpdateFeatures and UpdateRights only fill an empty creator).
CreatorKept ==
  [][\A id \in Ids :
       doc[id] # NoDoc /\ doc'[id] # NoDoc /\ doc[id].creator # NoUser
         => doc'[id].creator = doc[id].creator]_vars

CaughtUp(c) == pc[c] = "fetch" /\ pos[c] = Len(log[c])

\* The permission consumer gets through its topic whatever it contains and
\* however the other consumers fail: its listener returns no error.
PermCatchesUp == <>[]CaughtUp("perm")

\* The handlers of c return no error but that of a request.
CanBeHandled(c) ==
  \A i \in DOMAIN log[c] : log[c][i].cmd \notin {"MALFORMED", "UNKNOWN"}

\* Without messages that cannot be handled, the resource consumer gets
\* through its topic although the other writers invalidate what it read, and
\* the documents end as its topic says.
ResourceCatchesUp ==
  <>[](CanBeHandled("resource") =>
         /\ CaughtUp("resource")
         /\ \A id \in Ids :
              ReflectsPrefix(log["resource"], id, doc[id], Len(log["resource"])))

\* With the bulk indexer, an annotation of an unknown document holds nobody
\* up: everything is consumed and flushed.
AnnotationCatchesUp ==
  <>[](UseBulk /\ CanBeHandled("annotation") => CaughtUp("annotation") /\ bulk = <<>>)

-----------------------------------------------------------------------------
\* README.md:190, InitialGroupRights: "describes which groups with which
\* rights a resource initially should get".  This is what a document has
\* until it is written again, whoever races its creation, for the
\* configurations that InitialRightsExactly (RightsProofs) names, and for no
\* others: model.go:70 makes the execute list depend on the iteration order
\* of a map.
InitialRightsAsConfigured ==
  \A id \in Ids :
    doc[id] # NoDoc /\ ver[id] = 1 =>
      \A r \in Right :
        doc[id].groups[r] = {g \in DOMAIN InitialGroupRights : r \in InitialGroupRights[g]}
=============================================================================
