------------------------------- MODULE Replay -------------------------------
(***************************************************************************)
(* replay-permissions for one resource kind (lib/replay,                   *)
(* lib/rigthsproducer), next to running workers.  A goroutine reads the    *)
(* entries of the kind page by page in the order of their ids and puts     *)
(* them on a channel (GetEntries); the main loop sends a RIGHTS command    *)
(* for each one into the topic of the kind.  Other producers write to the  *)
(* same topic, and permission commands change the same documents.          *)
(*                                                                         *)
(* The workers are taken at the granularity of PermissionStore, which      *)
(* Worker implements: a command is applied in one step.  A restarted       *)
(* worker is given commands again.  Annotations change no permissions and  *)
(* are left out, as is the dry run, which sends nothing.                   *)
(***************************************************************************)
EXTENDS Commands, SequencesExt

CONSTANTS
  NoDoc,             \* there is no document under an id
  BatchSize,         \* DefaultBatchSize: size of a page and of the channel
  InitialDocs,       \* possible contents of the index when the replay begins
  ForeignCommands,   \* commands other producers may send into the topic
  PermCommands,      \* commands that may arrive in the permission topic
  MaxForeign,        \* bound on commands of others
  MaxFaults,         \* bound on failing requests and sends
  MaxRestarts        \* bound on restarts of the worker

\* The kind has ids with an order, the order of the keyword field resource.
ASSUME ReplayAssumption ==
  /\ Ids \subseteq Nat
  /\ NoDoc \notin Entry
  /\ Features # {}
  /\ BatchSize \in Nat \ {0}
  /\ InitialDocs \subseteq [Ids -> Entry \cup {NoDoc}]
  /\ ForeignCommands \subseteq {m \in ResourceCommand :
                                m.id \in Ids /\ m.cmd \in {"PUT", "RIGHTS", "DELETE"}}
  /\ \A m \in ForeignCommands : m.cmd = "RIGHTS" => m.rights # NoRights
  /\ PermCommands \subseteq {m \in PermCommand : m.id \in Ids}
  /\ MaxForeign \in Nat
  /\ MaxFaults \in Nat
  /\ MaxRestarts \in Nat

VARIABLES
  doc,        \* the documents
  seen,       \* the documents as searches see them, since the last refresh
  topic,      \* the resource topic of the kind
  next,       \* how many commands of it the worker has handled
  pc,         \* state of GetEntries
  lastId,     \* the last id put on the channel
  page,       \* entries of the present page that are not on the channel yet
  channel,    \* entries read and not sent
  sender,     \* state of the main loop
  sent,       \* the ids sent, in order
  replayed,   \* positions of the topic with commands of the replay
  steady,     \* ids that searches have found since the replay began
  changed,    \* ids others changed since the replay's search found them
  foreign,    \* commands of others so far
  faults,     \* faults so far
  restarts    \* restarts so far

scanVars    == <<pc, lastId, page>>
senderVars  == <<sender, sent, replayed>>
indexVars   == <<doc, seen, next>>
historyVars == <<steady, changed>>
boundVars   == <<foreign, faults, restarts>>
vars == <<doc, seen, topic, next, pc, lastId, page, channel, sender, sent,
          replayed, steady, changed, foreign, faults, restarts>>

Store == INSTANCE PermissionStore
           WITH log <- [perm |-> <<>>, resource |-> topic, annotation |-> <<>>]

-----------------------------------------------------------------------------
(* GetEntries.                                                             *)

Found == {d \in Ids : seen[d] # NoDoc}

\* The first n elements of a set of numbers.
First(S, n) == {d \in S : Cardinality({e \in S : e < d}) < n}

\* Mutant of Page: the page begins with the last id instead of behind it.
PageFromLast ==
  First({d \in Found : lastId = NoId \/ d >= lastId}, BatchSize)

\* Sort by resource, search_after the last id unless it is empty.
Page == First({d \in Found : lastId = NoId \/ d > lastId}, BatchSize)

\* What is sent of an entry: its rights.
Rights(e) == [users  |-> ToResourceRights(e.users),
              groups |-> ToResourceRights(e.groups)]

SameRights(e, f) ==
  /\ e # NoDoc /\ f # NoDoc
  /\ e.users = f.users /\ e.groups = f.groups

\* Mutant of AfterPage: a full page is taken for the last one.
AfterPageFull(size) == IF size <= BatchSize THEN "last" ELSE "push"

\* A page that is not full is the last one.
AfterPage(size) == IF size < BatchSize THEN "last" ELSE "push"

Search ==
  /\ pc = "search"
  /\ page' = {[id |-> d, rights |-> Rights(seen[d])] : d \in Page}
  /\ pc' = IF Page = {} THEN "closed" ELSE AfterPage(Cardinality(Page))
  /\ changed' = {d \in Ids : IF d \in Page THEN ~SameRights(seen[d], doc[d])
                                           ELSE d \in changed}
  /\ UNCHANGED <<indexVars, topic, lastId, channel, senderVars, steady, boundVars>>

\* Mutant of SearchFails: the channel is not closed after an error.
SearchFailsOpen ==
  /\ pc = "search"
  /\ faults < MaxFaults
  /\ faults' = faults + 1
  /\ pc' = "gone"
  /\ UNCHANGED <<indexVars, topic, lastId, page, channel, senderVars, historyVars,
                 foreign, restarts>>

\* After an error the channel is closed as if the last page was read.
SearchFails ==
  /\ pc = "search"
  /\ faults < MaxFaults
  /\ faults' = faults + 1
  /\ pc' = "closed"
  /\ UNCHANGED <<indexVars, topic, lastId, page, channel, senderVars, historyVars,
                 foreign, restarts>>

\* The next entry of the page goes on the channel, when there is room.
Push ==
  /\ pc \in {"push", "last"}
  /\ Len(channel) < BatchSize
  /\ \E s \in page :
       /\ \A t \in page : s.id <= t.id
       /\ channel' = Append(channel, s)
       /\ lastId' = s.id
       /\ page' = page \ {s}
  /\ pc' = IF page' # {} THEN pc ELSE IF pc = "last" THEN "closed" ELSE "search"
  /\ UNCHANGED <<indexVars, topic, senderVars, historyVars, boundVars>>

-----------------------------------------------------------------------------
(* ReplayPermissionsOfResourceKind and SetResourceRights of the producer.  *)

RightsCommand(s) ==
  [cmd |-> "RIGHTS", id |-> s.id, owner |-> NoUser,
   features |-> CHOOSE f \in Features : TRUE, rights |-> s.rights]

\* The command of the next entry is in the topic n times; kafka-go repeats
\* a write whose acknowledgement it misses.
Produce(n) ==
  /\ sender = "run"
  /\ channel # <<>>
  /\ channel' = Tail(channel)
  /\ topic' = topic \o [i \in 1..n |-> RightsCommand(Head(channel))]
  /\ replayed' = replayed \cup (Len(topic) + 1)..(Len(topic) + n)
  /\ sent' = Append(sent, Head(channel).id)

Send ==
  /\ \/ Produce(1) /\ UNCHANGED faults
     \/ faults < MaxFaults /\ faults' = faults + 1 /\ Produce(2)
  /\ UNCHANGED <<indexVars, scanVars, sender, historyVars, foreign, restarts>>

\* The producer returns an error, whether the command is in the topic or
\* not, and the loop ends.
SendFails ==
  /\ faults < MaxFaults
  /\ faults' = faults + 1
  /\ \E n \in 0..1 : Produce(n)
  /\ sender' = "stopped"
  /\ UNCHANGED <<indexVars, scanVars, historyVars, foreign, restarts>>

\* The channel is closed and empty.
Finish ==
  /\ sender = "run"
  /\ channel = <<>>
  /\ pc = "closed"
  /\ sender' = "finished"
  /\ UNCHANGED <<indexVars, topic, scanVars, channel, sent, replayed, historyVars,
                 boundVars>>

-----------------------------------------------------------------------------
(* The worker and the other producers.                                     *)

\* Others changed a document: remember it.
Changed == changed' = changed \cup {d \in Ids : ~SameRights(doc[d], doc'[d])}

\* UpdateFeatures, UpdateRights or DeleteFeatures; a RIGHTS or DELETE
\* command without document has no effect.
Apply(m) ==
  \/ Store!PutFeatures(m)
  \/ Store!SetRights(m)
  \/ Store!Delete(m)
  \/ m.cmd # "PUT" /\ doc[m.id] = NoDoc /\ UNCHANGED doc

HandleCommand ==
  /\ next < Len(topic)
  /\ next' = next + 1
  /\ Apply(topic[next + 1])
  /\ IF next + 1 \in replayed THEN UNCHANGED changed ELSE Changed
  /\ UNCHANGED <<seen, topic, scanVars, channel, senderVars, steady, boundVars>>

HandlePermission(m) ==
  /\ foreign < MaxForeign
  /\ foreign' = foreign + 1
  /\ Store!SetPermission(m)
  /\ Changed
  /\ UNCHANGED <<seen, topic, next, scanVars, channel, senderVars, steady, faults, restarts>>

ProduceForeign(m) ==
  /\ foreign < MaxForeign
  /\ foreign' = foreign + 1
  /\ topic' = Append(topic, m)
  /\ UNCHANGED <<indexVars, scanVars, channel, senderVars, historyVars, faults, restarts>>

\* The worker starts again from an older offset.
RestartWorker(n) ==
  /\ restarts < MaxRestarts
  /\ restarts' = restarts + 1
  /\ n < next
  /\ next' = n
  /\ UNCHANGED <<doc, seen, topic, scanVars, channel, senderVars, historyVars,
                 foreign, faults>>

\* OpenSearch shows searches what was written.
Refresh ==
  /\ seen # doc
  /\ seen' = doc
  /\ steady' = {d \in steady : doc[d] # NoDoc}
  /\ UNCHANGED <<doc, next, topic, scanVars, channel, senderVars, changed, boundVars>>

-----------------------------------------------------------------------------
Init ==
  /\ doc \in InitialDocs
  /\ seen = doc
  /\ topic = <<>>
  /\ next = 0
  /\ pc = "search"
  /\ lastId = NoId
  /\ page = {}
  /\ channel = <<>>
  /\ sender = "run"
  /\ sent = <<>>
  /\ replayed = {}
  /\ steady = Found
  /\ changed = {}
  /\ foreign = 0
  /\ faults = 0
  /\ restarts = 0

Scan == Search \/ Push

Loop == Send \/ Finish

\* The worker has nothing to fetch.
FetchTimeout ==
  /\ next = Len(topic)
  /\ UNCHANGED vars

Next ==
  \/ Scan
  \/ SearchFails
  \/ Loop
  \/ SendFails
  \/ HandleCommand
  \/ \E m \in PermCommands : HandlePermission(m)
  \/ \E m \in ForeignCommands : ProduceForeign(m)
  \/ \E n \in 0..next : RestartWorker(n)
  \/ Refresh
  \/ FetchTimeout

Spec == Init /\ [][Next]_vars

\* The two goroutines run; requests and sends are answered in the end, and
\* none has to fail.
FairSpec == Spec /\ WF_vars(Scan) /\ WF_vars(Loop)

-----------------------------------------------------------------------------
Snapshot == [id : Ids, rights : ResourceRightsBase]

TypeOK ==
  /\ doc \in [Ids -> Entry \cup {NoDoc}]
  /\ seen \in [Ids -> Entry \cup {NoDoc}]
  /\ topic \in Seq(ResourceCommand)
  /\ next \in 0..Len(topic)
  /\ pc \in {"search", "push", "last", "closed"}
  /\ lastId \in Ids \cup {NoId}
  /\ page \subseteq Snapshot
  /\ channel \in Seq(Snapshot) /\ Len(channel) <= BatchSize
  /\ sender \in {"run", "stopped", "finished"}
  /\ sent \in Seq(Ids)
  /\ replayed \subseteq 1..Len(topic)
  /\ steady \subseteq Ids
  /\ changed \subseteq Ids
  /\ foreign \in 0..MaxForeign
  /\ faults \in 0..MaxFaults
  /\ restarts \in 0..MaxRestarts

\* A replayed command changes the rights of a document only if somebody
\* else changed them since the search that found it: read, send, queue,
\* apply and apply again give back the lists as they were.  (If somebody
\* did, the older rights win.)
RightsReplayedAsTheyWere ==
  [][\A p \in replayed :
       /\ next' = next + 1 /\ p = next'
       /\ topic[p].id \notin changed
       => SameRights(doc[topic[p].id], doc'[topic[p].id])]_vars

\* Every id is sent at most once, in ascending order, although entries come
\* and go between the pages.
SentInOrder ==
  \A i, j \in DOMAIN sent : i < j => sent[i] < sent[j]

\* A replay that ends without fault has sent every entry that was there all
\* the time.
SteadySent ==
  sender = "finished" /\ faults = 0 => steady \subseteq ToSet(sent)

\* The replay ends, whatever fails and whatever others write.
ReplayEnds == <>(sender # "run")
=============================================================================
