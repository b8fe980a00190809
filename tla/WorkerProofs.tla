---------------------------- MODULE WorkerProofs ----------------------------
(***************************************************************************)
(* Proofs about Worker for every set of documents, users and groups, every *)
(* content of the topics and every number of faults and crashes.           *)
(* The second part shows that Worker implements PermissionStore and what   *)
(* follows from it.                                                        *)
(***************************************************************************)
EXTENDS Worker, RightsProofs, SequenceTheorems

\* Removing an item keeps the other items.
LEMMA RemoveAtType ==
  ASSUME NEW S, NEW s \in Seq(S), NEW i \in DOMAIN s
  PROVE  /\ s[i] \in S
         /\ RemoveAt(s, i) \in Seq(S)
         /\ \A j \in DOMAIN RemoveAt(s, i) : \E k \in DOMAIN s : RemoveAt(s, i)[j] = s[k]
<1> DEFINE a == SubSeq(s, 1, i - 1)
           b == SubSeq(s, i + 1, Len(s))
<1>1. Len(s) \in Nat /\ i \in 1..Len(s) /\ s[i] \in S
  OBVIOUS
<1>2. a \in Seq(S) /\ Len(a) = i - 1 /\ \A j \in 1..Len(a) : a[j] = s[j]
  BY <1>1
<1>3. b \in Seq(S) /\ Len(b) = Len(s) - i /\ \A j \in 1..Len(b) : b[j] = s[i + j]
  BY <1>1
<1> HIDE DEF a, b
<1>4. a \o b \in Seq(S) /\ Len(a \o b) = Len(s) - 1
  BY <1>1, <1>2, <1>3
<1>5. ASSUME NEW j \in 1..(Len(s) - 1)
      PROVE  \E k \in DOMAIN s : (a \o b)[j] = s[k]
  <2>1. CASE j <= i - 1
    <3>1. (a \o b)[j] = s[j]
      BY <2>1, <1>1, <1>2, <1>3
    <3> QED
      BY <3>1
  <2>2. CASE j > i - 1
    <3>a. \A x \in 1..(Len(a) + Len(b)) :
            (a \o b)[x] = IF x <= Len(a) THEN a[x] ELSE b[x - Len(a)]
      BY <1>2, <1>3, ConcatProperties
    <3>b. j \in 1..(Len(a) + Len(b)) /\ ~(j <= Len(a))
      BY <2>2, <1>1, <1>2, <1>3
    <3>1. (a \o b)[j] = b[j - (i - 1)]
      BY <3>a, <3>b, <1>2
    <3>2. b[j - (i - 1)] = s[i + (j - (i - 1))]
      BY <2>2, <1>1, <1>3
    <3>3. i + (j - (i - 1)) \in DOMAIN s
      BY <2>2, <1>1
    <3> QED
      BY <3>1, <3>2, <3>3
  <2>3. j <= i - 1 \/ j > i - 1
    BY <1>1
  <2> QED
    BY <2>1, <2>2, <2>3
<1>6. RemoveAt(s, i) = a \o b
  BY DEF RemoveAt, a, b
<1>7. DOMAIN (a \o b) = 1..(Len(s) - 1)
  BY <1>4
<1> QED
  BY <1>1, <1>4, <1>5, <1>6, <1>7

\* What a consumer's place in its handler says about the message it handles.
PermControl ==
  /\ pc["perm"] \in {"fetch", "exists", "get", "index", "done", "commit", "failed"}
  /\ pc["perm"] \in {"exists", "get", "index"} =>
       Msg("perm").id \in Ids /\ IsPermUpdate(Msg("perm"))
  /\ pc["perm"] = "index" => read["perm"] \in [entry : Entry, ver : Nat]

ResourceControl ==
  /\ pc["resource"] \in {"fetch", "exists", "get", "index", "create", "delete",
                         "done", "commit", "failed"}
  /\ pc["resource"] \in {"exists", "get", "index", "create", "delete"} =>
       /\ Msg("resource").id \in Ids
       /\ Msg("resource").cmd \in {"PUT", "RIGHTS", "DELETE"}
       /\ Msg("resource").cmd = "RIGHTS" => Msg("resource").rights # NoRights
  /\ pc["resource"] \in {"get", "index"} => Msg("resource").cmd \in {"PUT", "RIGHTS"}
  /\ pc["resource"] = "create" => Msg("resource").cmd = "PUT"
  /\ pc["resource"] = "delete" => Msg("resource").cmd = "DELETE"
  /\ pc["resource"] = "index" => read["resource"] \in [entry : Entry, ver : Nat]

AnnotationControl ==
  /\ pc["annotation"] \in {"fetch", "exists", "get", "index", "add", "commit", "failed"}
  /\ pc["annotation"] \in {"exists", "get", "index", "add"} =>
       target \in 1..Len(Msg("annotation").ids)
  /\ pc["annotation"] = "index" => read["annotation"] \in [entry : Entry, ver : Nat]

ControlOK == PermControl /\ ResourceControl /\ AnnotationControl

\* The message a consumer handles is one of its topic.
LEMMA MsgType ==
  ASSUME TypeOK
  PROVE  /\ pc["perm"] # "fetch" => Msg("perm") \in PermCommand
         /\ pc["resource"] # "fetch" => Msg("resource") \in ResourceCommand
         /\ pc["annotation"] # "fetch" => Msg("annotation") \in AnnotationMsg
         /\ \A c \in Consumer : pos[c] < Len(log[c]) =>
              /\ c = "perm" => Msg(c) \in PermCommand
              /\ c = "resource" => Msg(c) \in ResourceCommand
              /\ c = "annotation" => Msg(c) \in AnnotationMsg
<1>1. /\ DOMAIN log = Consumer
      /\ log["perm"] \in Seq(PermCommand)
      /\ log["resource"] \in Seq(ResourceCommand)
      /\ log["annotation"] \in Seq(AnnotationMsg)
  BY WorkerAssumption DEF TypeOK, TopicsTypeOK
<1>2. \A c \in Consumer : pos[c] \in Nat /\ (pc[c] # "fetch" => pos[c] < Len(log[c]))
  BY DEF TypeOK, OffsetsOK
<1>3. \A c \in Consumer : pos[c] < Len(log[c]) =>
              /\ c = "perm" => Msg(c) \in PermCommand
              /\ c = "resource" => Msg(c) \in ResourceCommand
              /\ c = "annotation" => Msg(c) \in AnnotationMsg
  BY <1>1, <1>2 DEF Msg, Consumer
<1> QED
  BY <1>2, <1>3 DEF Consumer

\* The document of a consumer in the middle of its handler.
LEMMA DocIdType ==
  ASSUME TypeOK, ControlOK, NEW c \in Consumer,
         pc[c] \in {"exists", "get", "index", "create", "delete", "add"}
  PROVE  DocId(c) \in Ids
<1>1. CASE c = "annotation"
  <2>1. Msg("annotation") \in AnnotationMsg
    BY <1>1, MsgType
  <2>2. target \in 1..Len(Msg("annotation").ids)
    BY <1>1 DEF ControlOK, AnnotationControl
  <2> QED
    BY <1>1, <2>1, <2>2 DEF DocId, AnnotationMsg
<1>2. CASE c # "annotation"
  BY <1>2 DEF DocId, ControlOK, PermControl, ResourceControl, Consumer
<1> QED
  BY <1>1, <1>2

\* What a handler makes of an entry is an entry.
LEMMA EffectsType ==
  ASSUME TypeOK, ControlOK, NEW c \in Consumer, pc[c] = "index", NEW e \in Effects(c)
  PROVE  e \in Entry
<1>1. read[c].entry \in Entry
  BY DEF ControlOK, PermControl, ResourceControl, AnnotationControl, Consumer
<1>2. CASE c = "perm"
  <2>1. Msg(c) \in PermCommand /\ IsPermUpdate(Msg(c))
    BY <1>2, MsgType DEF ControlOK, PermControl
  <2> QED
    BY <1>1, <1>2, <2>1, PermEffectType DEF Effects
<1>3. CASE c = "resource"
  <2>1. Msg(c) \in ResourceCommand /\ (Msg(c).cmd # "PUT" => Msg(c).rights # NoRights)
    BY <1>3, MsgType DEF ControlOK, ResourceControl
  <2> QED
    BY <1>1, <1>3, <2>1, FeaturesEffectsType, RightsEffectsType DEF Effects
<1>4. CASE c = "annotation"
  <2>1. Msg(c) \in AnnotationMsg
    BY <1>4, MsgType
  <2> QED
    BY <1>1, <1>4, <2>1, AnnotationEffectType DEF Effects
<1> QED
  BY <1>2, <1>3, <1>4 DEF Consumer

\* A write keeps the types of documents and sequence numbers.
LEMMA WriteType ==
  ASSUME TypeOK, NEW id \in Ids, NEW e \in Entry \cup {NoDoc}, Write(id, e)
  PROVE  StoreTypeOK'
BY DEF Write, TypeOK, StoreTypeOK

\* Every step keeps the types.
LEMMA TypeStep ==
  ASSUME TypeOK, ControlOK, [Next]_vars
  PROVE  TypeOK'
<1> USE DEF Consumer, Label
<1>0. StoreTypeOK /\ HandlerTypeOK /\ OffsetsOK /\ TopicsTypeOK
  BY DEF TypeOK
<1>a. MaxFaults \in Nat /\ MaxCrashes \in Nat
  BY WorkerAssumption
<1>b. ASSUME UNCHANGED <<doc, ver>>
      PROVE  StoreTypeOK'
  BY <1>0, <1>b DEF StoreTypeOK
<1>c. ASSUME UNCHANGED <<log, bulk, done, crashes>>, faults' \in 0..MaxFaults
      PROVE  TopicsTypeOK'
  BY <1>0, <1>c DEF TopicsTypeOK
<1>d. ASSUME faults' = faults \/ (faults < MaxFaults /\ faults' = faults + 1)
      PROVE  faults' \in 0..MaxFaults
  BY <1>0, <1>a, <1>d DEF TopicsTypeOK
<1>e. ASSUME NEW c \in Consumer, pc[c] # "fetch", NEW label, pc' = [pc EXCEPT ![c] = label],
             UNCHANGED <<log, pos, committed>>
      PROVE  OffsetsOK'
  BY <1>0, <1>e DEF OffsetsOK, HandlerTypeOK
<1>1. ASSUME NEW c \in Consumer, Fetch(c)
      PROVE  TypeOK'
  <2>1. Begin(c) \in Label
    BY MsgType, <1>1 DEF Fetch, Begin, PermBegin, ResourceBegin, AnnotationBegin
  <2>2. HandlerTypeOK'
    BY <1>0, <1>1, <2>1 DEF HandlerTypeOK, Fetch, CallHandler, Goto
  <2>3. OffsetsOK'
    BY <1>0, <1>1, <2>1 DEF OffsetsOK, HandlerTypeOK, Fetch, CallHandler, Goto
  <2> QED
    BY <1>1, <2>2, <2>3, <1>b, <1>c, <1>d DEF TypeOK, Fetch
<1>2. ASSUME NEW c \in Consumer, HandlerError(c)
      PROVE  TypeOK'
  <2>1. Begin(c) \in Label
    BY MsgType, <1>2 DEF HandlerError, Begin, PermBegin, ResourceBegin, AnnotationBegin
  <2>2. HandlerTypeOK'
    BY <1>0, <1>2, <2>1 DEF HandlerTypeOK, HandlerError, CallHandler, Goto
  <2>3. OffsetsOK'
    BY <1>e, <1>2 DEF HandlerError, CallHandler, Goto
  <2> QED
    BY <1>2, <2>2, <2>3, <1>b, <1>c, <1>d DEF TypeOK, HandlerError
<1>3. ASSUME NEW c \in Consumer, Commit(c)
      PROVE  TypeOK'
  <2>1. HandlerTypeOK'
    BY <1>0, <1>3 DEF HandlerTypeOK, Commit, Goto
  <2>2. OffsetsOK'
    <3>1. /\ pos \in [Consumer -> Nat] /\ committed \in [Consumer -> Nat]
          /\ pc \in [Consumer -> Label] /\ pc[c] = "commit"
          /\ \A d \in Consumer : Len(log[d]) >= pos[d]
      BY <1>0, <1>3 DEF OffsetsOK, HandlerTypeOK, Commit
    <3>2. /\ pos' = [pos EXCEPT ![c] = @ + 1] /\ pc' = [pc EXCEPT ![c] = "fetch"] /\ log' = log
          /\ committed' = committed \/ committed' = [committed EXCEPT ![c] = pos[c] + 1]
      BY <1>3 DEF Commit, Goto
    <3>3. pos[c] < Len(log[c])
      BY <1>0, <3>1 DEF OffsetsOK
    <3>4. pos' \in [Consumer -> Nat] /\ committed' \in [Consumer -> Nat]
      BY <3>1, <3>2
    <3>5. ASSUME NEW d \in Consumer
          PROVE  /\ committed'[d] <= pos'[d]
                 /\ pos'[d] <= Len(log'[d])
                 /\ pc'[d] # "fetch" => pos'[d] < Len(log'[d])
      <4>1. committed[d] <= pos[d] /\ (pc[d] # "fetch" => pos[d] < Len(log[d]))
        BY <1>0 DEF OffsetsOK
      <4>2. CASE d = c
        BY <3>1, <3>2, <3>3, <4>1, <4>2
      <4>3. CASE d # c
        BY <3>1, <3>2, <4>1, <4>3
      <4> QED
        BY <4>2, <4>3
    <3> QED
      BY <3>4, <3>5 DEF OffsetsOK
  <2> QED
    BY <1>3, <2>1, <2>2, <1>b, <1>c, <1>d DEF TypeOK, Commit
<1>4. ASSUME NEW c \in Consumer, ResourceExists(c)
      PROVE  TypeOK'
  <2>1. AfterExists(c, doc[DocId(c)] # NoDoc) \in Label
    BY DEF AfterExists
  <2>2. HandlerTypeOK'
    BY <1>0, <1>4, <2>1 DEF HandlerTypeOK, ResourceExists, Goto
  <2>3. OffsetsOK'
    BY <1>e, <1>4 DEF ResourceExists, Goto
  <2> QED
    BY <1>4, <2>2, <2>3, <1>b, <1>c, <1>d DEF TypeOK, ResourceExists
<1>5. ASSUME NEW c \in Consumer, GetResourceEntry(c)
      PROVE  TypeOK'
  <2>1. DocId(c) \in Ids
    BY <1>5, DocIdType DEF GetResourceEntry
  <2>2. HandlerTypeOK'
    BY <1>0, <1>5, <2>1 DEF HandlerTypeOK, StoreTypeOK, GetResourceEntry, Goto
  <2>3. OffsetsOK'
    BY <1>e, <1>5 DEF GetResourceEntry, Goto
  <2> QED
    BY <1>5, <2>2, <2>3, <1>b, <1>c, <1>d DEF TypeOK, GetResourceEntry
<1>6. ASSUME NEW c \in Consumer, Index(c)
      PROVE  TypeOK'
  <2>1. DocId(c) \in Ids
    BY <1>6, DocIdType DEF Index
  <2>2. StoreTypeOK'
    BY <1>6, <2>1, <1>b, EffectsType, WriteType DEF Index
  <2>3. HandlerTypeOK'
    BY <1>0, <1>6 DEF HandlerTypeOK, Index, Respond, Succeed, Goto
  <2>4. OffsetsOK'
    BY <1>e, <1>6 DEF Index, Respond, Succeed, Goto
  <2>5. TopicsTypeOK'
    BY <1>6, <1>c, <1>d DEF Index, Respond
  <2> QED
    BY <2>2, <2>3, <2>4, <2>5 DEF TypeOK
<1>7. ASSUME NEW c \in Consumer, SendDone(c)
      PROVE  TypeOK'
  <2>1. HandlerTypeOK'
    BY <1>0, <1>7 DEF HandlerTypeOK, SendDone, Goto
  <2>2. OffsetsOK'
    BY <1>e, <1>7 DEF SendDone, Goto
  <2>3. TopicsTypeOK'
    <3>1. pos[c] + 1 \in Nat
      BY <1>0 DEF OffsetsOK
    <3> QED
      BY <1>7, <1>0, <1>d, <3>1 DEF SendDone, TopicsTypeOK
  <2> QED
    BY <1>7, <2>1, <2>2, <2>3, <1>b DEF TypeOK, SendDone
<1>8. ASSUME Create
      PROVE  TypeOK'
  <2>1. /\ Msg("resource") \in ResourceCommand
        /\ Msg("resource").id \in Ids
    BY <1>8, MsgType DEF Create, ControlOK, ResourceControl
  <2>2. \A e \in NewEntries(Msg("resource").owner, Msg("resource").features) : e \in Entry
    BY <2>1, NewEntriesType DEF ResourceCommand
  <2>3. StoreTypeOK'
    BY <1>8, <2>1, <2>2, WriteType DEF Create
  <2>4. HandlerTypeOK'
    BY <1>0, <1>8 DEF HandlerTypeOK, Create, Respond, Succeed, Goto
  <2>5. OffsetsOK'
    BY <1>e, <1>8 DEF Create, Respond, Succeed, Goto
  <2>6. TopicsTypeOK'
    BY <1>8, <1>c, <1>d DEF Create, Respond
  <2> QED
    BY <2>3, <2>4, <2>5, <2>6 DEF TypeOK
<1>9. ASSUME DeleteFeatures
      PROVE  TypeOK'
  <2>1. DocId("resource") \in Ids
    BY <1>9, DocIdType DEF DeleteFeatures
  <2>2. StoreTypeOK'
    BY <1>9, <2>1, <1>b, WriteType DEF DeleteFeatures
  <2>3. HandlerTypeOK'
    BY <1>0, <1>9 DEF HandlerTypeOK, DeleteFeatures, Respond, Succeed, Goto
  <2>4. OffsetsOK'
    BY <1>e, <1>9 DEF DeleteFeatures, Respond, Succeed, Goto
  <2>5. TopicsTypeOK'
    BY <1>9, <1>c, <1>d DEF DeleteFeatures, Respond
  <2> QED
    BY <2>2, <2>3, <2>4, <2>5 DEF TypeOK
<1>10. ASSUME BulkAdd
      PROVE  TypeOK'
  <2>1. /\ DocId("annotation") \in Ids
        /\ Msg("annotation") \in AnnotationMsg
    BY <1>10, DocIdType, MsgType DEF BulkAdd
  <2>2. TopicsTypeOK'
    BY <1>0, <1>10, <2>1 DEF BulkAdd, TopicsTypeOK
  <2>3. HandlerTypeOK'
    BY <1>0, <1>10 DEF HandlerTypeOK, BulkAdd, Succeed, Goto
  <2>4. OffsetsOK'
    BY <1>e, <1>10 DEF BulkAdd, Succeed, Goto
  <2> QED
    BY <1>10, <2>2, <2>3, <2>4, <1>b DEF TypeOK, BulkAdd
<1>11. ASSUME NEW c \in Consumer, RequestFails(c)
      PROVE  TypeOK'
  <2>1. HandlerTypeOK'
    BY <1>0, <1>11 DEF HandlerTypeOK, RequestFails, Goto
  <2>2. OffsetsOK'
    BY <1>e, <1>11 DEF RequestFails, Goto
  <2> QED
    BY <1>11, <2>1, <2>2, <1>b, <1>c, <1>d DEF TypeOK, RequestFails
<1>12. ASSUME NEW i \in DOMAIN bulk, Dequeue(i)
       PROVE  bulk' \in Seq([id : Ids, msg : AnnotationMsg])
  BY <1>0, <1>12, RemoveAtType DEF Dequeue, TopicsTypeOK
<1>f. ASSUME UNCHANGED <<log, consumerVars>>
      PROVE  HandlerTypeOK' /\ OffsetsOK'
  BY <1>0, <1>f DEF HandlerTypeOK, OffsetsOK, consumerVars
<1>13. ASSUME NEW i \in DOMAIN bulk, BulkFlush(i)
       PROVE  TypeOK'
  <2>0. bulk[i] \in [id : Ids, msg : AnnotationMsg]
    BY <1>0, RemoveAtType DEF TopicsTypeOK
  <2>1. bulk[i].id \in Ids /\ bulk[i].msg \in AnnotationMsg
    BY <2>0
  <2>2. doc[bulk[i].id] # NoDoc => AnnotationEffect(doc[bulk[i].id], bulk[i].msg) \in Entry
    BY <1>0, <2>1, AnnotationEffectType DEF StoreTypeOK
  <2>3. StoreTypeOK'
    BY <1>13, <2>1, <2>2, <1>b, WriteType DEF BulkFlush, storeVars
  <2>4. TopicsTypeOK'
    BY <1>0, <1>12, <1>13 DEF TopicsTypeOK, BulkFlush
  <2> QED
    BY <1>13, <1>f, <2>3, <2>4 DEF TypeOK, BulkFlush
<1>14. ASSUME NEW i \in DOMAIN bulk, BulkLost(i)
       PROVE  TypeOK'
  <2>1. TopicsTypeOK'
    BY <1>0, <1>12, <1>14, <1>d DEF TopicsTypeOK, BulkLost
  <2> QED
    BY <1>14, <1>b, <1>f, <2>1 DEF TypeOK, BulkLost, storeVars
<1>15. ASSUME Crash
       PROVE  TypeOK'
  <2>1. HandlerTypeOK'
    BY <1>15 DEF HandlerTypeOK, Crash
  <2>2. OffsetsOK'
    BY <1>0, <1>15 DEF OffsetsOK, Crash
  <2>3. <<>> \in Seq([id : Ids, msg : AnnotationMsg])
    OBVIOUS
  <2>4. TopicsTypeOK'
    BY <1>0, <1>a, <1>15, <2>3 DEF TopicsTypeOK, Crash
  <2> QED
    BY <1>15, <1>b, <2>1, <2>2, <2>4 DEF TypeOK, Crash
<1>16. ASSUME UNCHANGED vars
       PROVE  TypeOK'
  <2>1. UNCHANGED <<log, consumerVars>> /\ UNCHANGED <<doc, ver>> /\ UNCHANGED <<bulk, done, faults, crashes>>
    BY <1>16 DEF vars, consumerVars
  <2> QED
    BY <2>1, <1>b, <1>c, <1>d, <1>f DEF TypeOK
<1> QED
  BY <1>1, <1>2, <1>3, <1>4, <1>5, <1>6, <1>7, <1>8, <1>9, <1>10, <1>11, <1>13, <1>14,
     <1>15, <1>16 DEF Next, ConsumerStep, FetchTimeout
\* A consumer whose own state does not change stays where it is.
LEMMA ControlFrame ==
  ASSUME ControlOK, log' = log, NEW c \in Consumer,
         pc'[c] = pc[c], pos'[c] = pos[c], read'[c] = read[c],
         c = "annotation" => target' = target
  PROVE  /\ c = "perm" => PermControl'
         /\ c = "resource" => ResourceControl'
         /\ c = "annotation" => AnnotationControl'
BY DEF ControlOK, PermControl, ResourceControl, AnnotationControl, Msg

\* Every step keeps the consumers' places in order.
LEMMA ControlStep ==
  ASSUME TypeOK, ControlOK, [Next]_vars
  PROVE  ControlOK'
<1> USE DEF Consumer
<1>0. /\ pc \in [Consumer -> Label] /\ pos \in [Consumer -> Nat]
      /\ DOMAIN read = Consumer /\ target \in Nat \ {0}
      /\ doc \in [Ids -> Entry \cup {NoDoc}] /\ ver \in [Ids -> Nat]
  BY DEF TypeOK, HandlerTypeOK, OffsetsOK, StoreTypeOK
<1>a. PermControl /\ ResourceControl /\ AnnotationControl
  BY DEF ControlOK
\* A step of one consumer leaves the two others alone.
<1>b. ASSUME NEW c \in Consumer, log' = log,
             \A d \in Consumer \ {c} : pc'[d] = pc[d] /\ pos'[d] = pos[d] /\ read'[d] = read[d],
             c # "annotation" => target' = target,
             c = "perm" => PermControl',
             c = "resource" => ResourceControl',
             c = "annotation" => AnnotationControl'
      PROVE  ControlOK'
  BY <1>b, ControlFrame DEF ControlOK
<1>c. ASSUME NEW c \in Consumer, CallHandler(c), pos[c] < Len(log[c]), UNCHANGED <<log, pos>>
      PROVE  /\ c = "perm" => PermControl'
             /\ c = "resource" => ResourceControl'
             /\ c = "annotation" => AnnotationControl'
  <2>1. CASE c = "perm"
    <3>1. Msg(c) \in PermCommand
      BY <1>c, <2>1, MsgType
    <3> QED
      BY <1>0, <1>c, <2>1, <3>1
         DEF CallHandler, Goto, Begin, PermBegin, PermControl, Msg, PermCommand
  <2>2. CASE c = "resource"
    <3>1. Msg(c) \in ResourceCommand
      BY <1>c, <2>2, MsgType
    <3> QED
      BY <1>0, <1>c, <2>2, <3>1
         DEF CallHandler, Goto, Begin, ResourceBegin, ResourceControl, Msg, ResourceCommand
  <2>3. CASE c = "annotation"
    <3>1. Msg(c) \in AnnotationMsg
      BY <1>c, <2>3, MsgType
    <3>2. Msg(c).ids # <<>> => 1 \in 1..Len(Msg(c).ids)
      BY <3>1, EmptySeq DEF AnnotationMsg
    <3> QED
      BY <1>0, <1>c, <2>3, <3>1, <3>2
         DEF CallHandler, Goto, Begin, AnnotationBegin, AnnotationControl, Msg
  <2> QED
    BY <2>1, <2>2, <2>3
<1>1. ASSUME NEW c \in Consumer, Fetch(c)
      PROVE  ControlOK'
  BY <1>0, <1>1, <1>b, <1>c DEF Fetch, CallHandler, Goto
<1>2. ASSUME NEW c \in Consumer, HandlerError(c)
      PROVE  ControlOK'
  <2>1. pos[c] < Len(log[c])
    BY <1>2 DEF HandlerError, TypeOK, OffsetsOK
  <2>2. CASE c = "perm"
    <3>1. PermControl'
      BY <1>0, <1>2, <2>2 DEF HandlerError, Goto, PermControl
    <3> QED
      BY <1>0, <1>2, <2>2, <3>1, <1>b DEF HandlerError, Goto
  <2>3. CASE c # "perm"
    BY <1>0, <1>2, <2>1, <2>3, <1>b, <1>c DEF HandlerError, CallHandler, Goto
  <2> QED
    BY <2>2, <2>3
\* Labels about which nothing is known.
<1>d. ASSUME NEW c \in Consumer, UNCHANGED <<log, target>>,
             \A d \in Consumer \ {c} : pc'[d] = pc[d] /\ pos'[d] = pos[d] /\ read'[d] = read[d],
             pc'[c] \in {"fetch", "commit", "failed"} \/ (pc'[c] = "done" /\ c # "annotation")
      PROVE  ControlOK'
  <2>1. /\ c = "perm" => PermControl'
        /\ c = "resource" => ResourceControl'
        /\ c = "annotation" => AnnotationControl'
    BY <1>d DEF PermControl, ResourceControl, AnnotationControl
  <2> QED
    BY <1>b, <1>d, <2>1
<1>3. ASSUME NEW c \in Consumer, Commit(c)
      PROVE  ControlOK'
  BY <1>0, <1>3, <1>d DEF Commit, Goto
<1>4. ASSUME NEW c \in Consumer, ResourceExists(c)
      PROVE  ControlOK'
  <2>1. /\ c = "perm" => PermControl'
        /\ c = "resource" => ResourceControl'
        /\ c = "annotation" => AnnotationControl'
    BY <1>0, <1>a, <1>4
       DEF ResourceExists, Goto, AfterExists, PermControl, ResourceControl, AnnotationControl, Msg
  <2> QED
    BY <1>0, <1>4, <1>b, <2>1 DEF ResourceExists, Goto
<1>5. ASSUME NEW c \in Consumer, GetResourceEntry(c)
      PROVE  ControlOK'
  <2>1. DocId(c) \in Ids
    BY <1>5, DocIdType DEF GetResourceEntry
  <2>2. CASE doc[DocId(c)] # NoDoc
    <3>1. read'[c] \in [entry : Entry, ver : Nat] /\ pc'[c] = "index"
      BY <1>0, <1>5, <2>1, <2>2 DEF GetResourceEntry, Goto
    <3>2. /\ c = "perm" => PermControl'
          /\ c = "resource" => ResourceControl'
          /\ c = "annotation" => AnnotationControl'
      BY <1>a, <1>5, <3>1
         DEF GetResourceEntry, PermControl, ResourceControl, AnnotationControl, Msg
    <3> QED
      BY <1>0, <1>5, <1>b, <2>2, <3>2 DEF GetResourceEntry, Goto
  <2>3. CASE doc[DocId(c)] = NoDoc
    BY <1>0, <1>5, <1>d, <2>3 DEF GetResourceEntry, Goto
  <2> QED
    BY <2>2, <2>3
\* Success of the work on a document.
<1>e. ASSUME NEW c \in Consumer, Succeed(c), UNCHANGED <<log, pos>>,
             \A d \in Consumer \ {c} : read'[d] = read[d],
             pc[c] \in {"index", "create", "delete", "add"}
      PROVE  ControlOK'
  <2>1. CASE c = "annotation" /\ target < Len(Msg(c).ids)
    <3>1. Msg(c) \in AnnotationMsg
      BY <2>1, <1>e, MsgType
    <3>2. Len(Msg(c).ids) \in Nat
      BY <3>1 DEF AnnotationMsg
    <3>3. AnnotationControl'
      BY <1>0, <1>e, <2>1, <3>2 DEF Succeed, Goto, AnnotationControl, Msg
    <3> QED
      BY <1>0, <1>e, <1>b, <2>1, <3>3 DEF Succeed, Goto
  <2>2. CASE ~(c = "annotation" /\ target < Len(Msg(c).ids))
    BY <1>0, <1>e, <1>d, <2>2 DEF Succeed, Goto
  <2> QED
    BY <2>1, <2>2
<1>f. ASSUME NEW c \in Consumer, Respond(c), UNCHANGED <<log, pos>>,
             \A d \in Consumer \ {c} : read'[d] = read[d],
             pc[c] \in {"index", "create", "delete", "add"}
      PROVE  ControlOK'
  BY <1>0, <1>f, <1>d, <1>e DEF Respond, Goto
<1>6. ASSUME NEW c \in Consumer, Index(c)
      PROVE  ControlOK'
  <2>1. CASE Unchanged(c)
    BY <1>0, <1>6, <1>f, <2>1 DEF Index
  <2>2. CASE ~Unchanged(c)
    BY <1>0, <1>6, <1>d, <2>2 DEF Index, Goto
  <2> QED
    BY <2>1, <2>2
<1>7. ASSUME NEW c \in Consumer, SendDone(c)
      PROVE  ControlOK'
  BY <1>0, <1>7, <1>d DEF SendDone, Goto
<1>8. ASSUME Create
      PROVE  ControlOK'
  BY <1>0, <1>8, <1>f DEF Create
<1>9. ASSUME DeleteFeatures
      PROVE  ControlOK'
  <2>1. CASE doc[DocId("resource")] # NoDoc
    BY <1>9, <1>f, <2>1 DEF DeleteFeatures
  <2>2. CASE doc[DocId("resource")] = NoDoc
    BY <1>0, <1>9, <1>d, <2>2 DEF DeleteFeatures, Goto
  <2> QED
    BY <2>1, <2>2
<1>10. ASSUME BulkAdd
       PROVE  ControlOK'
  BY <1>10, <1>e DEF BulkAdd
<1>11. ASSUME NEW c \in Consumer, RequestFails(c)
       PROVE  ControlOK'
  BY <1>0, <1>11, <1>d DEF RequestFails, Goto
<1>12. ASSUME UNCHANGED <<log, consumerVars>>
       PROVE  ControlOK'
  BY <1>12, ControlFrame DEF consumerVars, ControlOK
<1>13. ASSUME Crash
       PROVE  ControlOK'
  BY <1>13 DEF Crash, ControlOK, PermControl, ResourceControl, AnnotationControl
<1>14. ASSUME NEW i \in DOMAIN bulk, BulkFlush(i) \/ BulkLost(i)
       PROVE  ControlOK'
  BY <1>12, <1>14 DEF BulkFlush, BulkLost
<1>15. ASSUME UNCHANGED vars
       PROVE  ControlOK'
  BY <1>12, <1>15 DEF vars, consumerVars
<1> QED
  BY <1>1, <1>2, <1>3, <1>4, <1>5, <1>6, <1>7, <1>8, <1>9, <1>10, <1>11, <1>13, <1>14,
     <1>15 DEF Next, ConsumerStep, FetchTimeout
-----------------------------------------------------------------------------
(* Sequence numbers: what a consumer read is still current if the sequence *)
(* number is.                                                              *)

ReadCurrent ==
  \A c \in Consumer : pc[c] = "index" =>
    /\ read[c].ver <= ver[DocId(c)]
    /\ read[c].ver = ver[DocId(c)] => read[c].entry = doc[DocId(c)]

\* Sequence numbers only grow, and a document does not change without a new
\* one.
LEMMA VersionsGrow ==
  ASSUME TypeOK, ControlOK, [Next]_vars, NEW id \in Ids
  PROVE  /\ ver[id] \in Nat /\ ver'[id] \in Nat
         /\ ver[id] <= ver'[id]
         /\ ver'[id] = ver[id] => doc'[id] = doc[id]
<1>0. doc \in [Ids -> Entry \cup {NoDoc}] /\ ver \in [Ids -> Nat]
  BY DEF TypeOK, StoreTypeOK
<1>1. (\E i, e : Write(i, e)) \/ UNCHANGED <<doc, ver>>
  BY DEF Next, ConsumerStep, Fetch, HandlerError, Commit, ResourceExists, GetResourceEntry,
         Index, SendDone, Create, DeleteFeatures, BulkAdd, RequestFails, FetchTimeout,
         BulkFlush, BulkLost, Crash, vars, storeVars
<1>2. ASSUME NEW i, NEW e, Write(i, e)
      PROVE  /\ ver[id] \in Nat /\ ver'[id] \in Nat
             /\ ver[id] <= ver'[id]
             /\ ver'[id] = ver[id] => doc'[id] = doc[id]
  BY <1>0, <1>2 DEF Write
<1> QED
  BY <1>0, <1>1, <1>2

\* How a consumer can be about to index after a step.
LEMMA IndexPending ==
  ASSUME TypeOK, ControlOK, [Next]_vars, NEW c \in Consumer, pc'[c] = "index"
  PROVE  /\ DocId(c)' = DocId(c) /\ DocId(c) \in Ids
         /\ \/ pc[c] = "index" /\ read'[c] = read[c]
            \/ /\ UNCHANGED <<doc, ver>>
               /\ read'[c] = [entry |-> doc[DocId(c)], ver |-> ver[DocId(c)]]
<1> USE DEF Consumer
<1>0. /\ pc \in [Consumer -> Label] /\ pos \in [Consumer -> Nat]
      /\ DOMAIN read = Consumer
  BY DEF TypeOK, HandlerTypeOK, OffsetsOK
<1>a. ASSUME NEW d \in Consumer, Begin(d) = "index", pos[d] < Len(log[d])
      PROVE  FALSE
  BY <1>a, MsgType DEF Begin, PermBegin, ResourceBegin, AnnotationBegin
<1>b. ASSUME pc[c] = "index", read'[c] = read[c], UNCHANGED <<log, pos>>,
             c = "annotation" => target' = target
      PROVE  /\ DocId(c)' = DocId(c) /\ DocId(c) \in Ids
             /\ pc[c] = "index" /\ read'[c] = read[c]
  BY <1>b, DocIdType DEF DocId, Msg
<1>1. ASSUME NEW d \in Consumer, Fetch(d)
      PROVE  pc[c] = "index" /\ read'[c] = read[c] /\ UNCHANGED <<log, pos>> /\ (c = "annotation" => target' = target)
  BY <1>0, <1>1, <1>a DEF Fetch, CallHandler, Goto
<1>2. ASSUME NEW d \in Consumer, HandlerError(d)
      PROVE  pc[c] = "index" /\ read'[c] = read[c] /\ UNCHANGED <<log, pos>> /\ (c = "annotation" => target' = target)
  <2>1. pos[d] < Len(log[d])
    BY <1>2 DEF HandlerError, TypeOK, OffsetsOK
  <2> QED
    BY <1>0, <1>2, <1>a, <2>1 DEF HandlerError, CallHandler, Goto
<1>3. ASSUME NEW d \in Consumer, Commit(d)
      PROVE  /\ DocId(c)' = DocId(c) /\ DocId(c) \in Ids
             /\ pc[c] = "index" /\ read'[c] = read[c]
  <2>1. pc[c] = "index" /\ read'[c] = read[c] /\ pos'[c] = pos[c] /\ UNCHANGED <<log, target>>
    BY <1>0, <1>3 DEF Commit, Goto
  <2> QED
    BY <2>1, DocIdType DEF DocId, Msg
<1>4. ASSUME NEW d \in Consumer, ResourceExists(d)
      PROVE  pc[c] = "index" /\ read'[c] = read[c] /\ UNCHANGED <<log, pos>> /\ (c = "annotation" => target' = target)
  BY <1>0, <1>4 DEF ResourceExists, Goto, AfterExists
<1>5. ASSUME NEW d \in Consumer, GetResourceEntry(d), d # c
      PROVE  pc[c] = "index" /\ read'[c] = read[c] /\ UNCHANGED <<log, pos>> /\ (c = "annotation" => target' = target)
  BY <1>0, <1>5 DEF GetResourceEntry, Goto
<1>6. ASSUME GetResourceEntry(c)
      PROVE  /\ DocId(c)' = DocId(c) /\ DocId(c) \in Ids
             /\ UNCHANGED <<doc, ver>>
             /\ read'[c] = [entry |-> doc[DocId(c)], ver |-> ver[DocId(c)]]
  <2>1. DocId(c) \in Ids /\ UNCHANGED <<doc, ver, log, pos, target>>
    BY <1>6, DocIdType DEF GetResourceEntry
  <2>2. DocId(c)' = DocId(c)
    BY <2>1 DEF DocId, Msg
  <2>3. doc[DocId(c)] # NoDoc
    BY <1>0, <1>6 DEF GetResourceEntry, Goto
  <2> QED
    BY <1>0, <1>6, <2>1, <2>2, <2>3 DEF GetResourceEntry
<1>7. ASSUME NEW d \in Consumer, Index(d)
      PROVE  pc[c] = "index" /\ read'[c] = read[c] /\ UNCHANGED <<log, pos>> /\ (c = "annotation" => target' = target)
  BY <1>0, <1>7 DEF Index, Respond, Succeed, Goto
<1>8. ASSUME NEW d \in Consumer, SendDone(d) \/ RequestFails(d)
      PROVE  pc[c] = "index" /\ read'[c] = read[c] /\ UNCHANGED <<log, pos>> /\ (c = "annotation" => target' = target)
  BY <1>0, <1>8 DEF SendDone, RequestFails, Goto
<1>9. ASSUME Create \/ DeleteFeatures \/ BulkAdd
      PROVE  pc[c] = "index" /\ read'[c] = read[c] /\ UNCHANGED <<log, pos>> /\ (c = "annotation" => target' = target)
  BY <1>0, <1>9 DEF Create, DeleteFeatures, BulkAdd, Respond, Succeed, Goto
<1>10. ASSUME UNCHANGED <<log, consumerVars>>
       PROVE  pc[c] = "index" /\ read'[c] = read[c] /\ UNCHANGED <<log, pos>> /\ (c = "annotation" => target' = target)
  BY <1>10 DEF consumerVars
<1>11. ASSUME NEW i \in DOMAIN bulk, BulkFlush(i) \/ BulkLost(i)
       PROVE  UNCHANGED <<log, consumerVars>>
  BY <1>11 DEF BulkFlush, BulkLost
<1>12. ASSUME Crash
       PROVE  FALSE
  BY <1>12 DEF Crash
<1>13. ASSUME UNCHANGED vars
       PROVE  UNCHANGED <<log, consumerVars>>
  BY <1>13 DEF vars, consumerVars
<1> QED
  BY <1>b, <1>1, <1>2, <1>3, <1>4, <1>5, <1>6, <1>7, <1>8, <1>9, <1>10, <1>11, <1>12, <1>13
     DEF Next, ConsumerStep, FetchTimeout

\* Every step keeps what was read current.
LEMMA ReadStep ==
  ASSUME TypeOK, ControlOK, ReadCurrent, [Next]_vars
  PROVE  ReadCurrent'
<1> SUFFICES ASSUME NEW c \in Consumer, pc'[c] = "index"
             PROVE  /\ read'[c].ver <= ver'[DocId(c)']
                    /\ read'[c].ver = ver'[DocId(c)'] => read'[c].entry = doc'[DocId(c)']
  BY DEF ReadCurrent
<1>1. DocId(c)' = DocId(c) /\ DocId(c) \in Ids
  BY IndexPending
<1>a. PICK id \in Ids : id = DocId(c) /\ id = DocId(c)'
  BY <1>1
<1>b. /\ ver[id] \in Nat /\ ver'[id] \in Nat
      /\ ver[id] <= ver'[id]
      /\ ver'[id] = ver[id] => doc'[id] = doc[id]
  BY VersionsGrow
<1>2. CASE pc[c] = "index" /\ read'[c] = read[c]
  <2>1. read[c].ver \in Nat
    BY <1>2 DEF ControlOK, PermControl, ResourceControl, AnnotationControl, Consumer
  <2>2. /\ read[c].ver <= ver[id]
        /\ read[c].ver = ver[id] => read[c].entry = doc[id]
    BY <1>2, <1>a DEF ReadCurrent
  <2>3. /\ read[c].ver <= ver'[id]
        /\ read[c].ver = ver'[id] => read[c].entry = doc'[id]
    BY <1>b, <2>1, <2>2
  <2> QED
    BY <1>a, <1>2, <2>3
<1>3. CASE /\ UNCHANGED <<doc, ver>>
           /\ read'[c] = [entry |-> doc[DocId(c)], ver |-> ver[DocId(c)]]
  <2>1. read'[c] = [entry |-> doc'[id], ver |-> ver'[id]]
    BY <1>a, <1>3
  <2> QED
    BY <1>a, <1>b, <2>1
<1> QED
  BY <1>2, <1>3, IndexPending
-----------------------------------------------------------------------------
(* Existence and features: only the resource consumer changes them.        *)

SameFeatures ==
  \A id \in Ids :
    /\ doc'[id] = NoDoc <=> doc[id] = NoDoc
    /\ doc[id] # NoDoc => doc'[id].features = doc[id].features

\* The write of a handler applies its message to the document as it is.
LEMMA IndexCurrent ==
  ASSUME TypeOK, ControlOK, ReadCurrent, NEW c \in Consumer, pc[c] = "index", Unchanged(c)
  PROVE  DocId(c) \in Ids /\ read[c].entry = doc[DocId(c)] /\ doc[DocId(c)] \in Entry
<1>1. DocId(c) \in Ids
  BY DocIdType
<1>2. read[c].entry = doc[DocId(c)] /\ doc[DocId(c)] # NoDoc
  BY DEF ReadCurrent, Unchanged
<1> QED
  BY <1>1, <1>2 DEF TypeOK, StoreTypeOK

\* Replacing a document by one with the same features changes no features.
LEMMA RewriteSameFeatures ==
  ASSUME TypeOK, NEW id \in Ids, NEW e \in Entry, doc[id] \in Entry,
         e.features = doc[id].features, Write(id, e)
  PROVE  SameFeatures
BY WorkerAssumption DEF SameFeatures, Write, TypeOK, StoreTypeOK

\* No features change when no document does.
LEMMA UnchangedSameFeatures ==
  ASSUME doc' = doc
  PROVE  SameFeatures
BY DEF SameFeatures

\* A permission command or an annotation keeps features and existence, and
\* so does a RIGHTS command.
LEMMA IndexSameFeatures ==
  ASSUME TypeOK, ControlOK, ReadCurrent, NEW c \in Consumer, Index(c),
         c # "resource" \/ Msg(c).cmd # "PUT"
  PROVE  SameFeatures
<1>1. CASE ~Unchanged(c)
  BY <1>1, UnchangedSameFeatures DEF Index
<1>2. CASE Unchanged(c)
  <2>1. pc[c] = "index"
    BY DEF Index
  <2>2. DocId(c) \in Ids /\ read[c].entry = doc[DocId(c)] /\ doc[DocId(c)] \in Entry
    BY <1>2, <2>1, IndexCurrent
  <2>3. PICK e \in Effects(c) : Write(DocId(c), e)
    BY <1>2 DEF Index
  <2>4. e \in Entry
    BY <2>1, EffectsType
  <2>5. e.features = doc[DocId(c)].features
    <3>1. CASE c = "perm"
      BY <2>1, <2>2, <3>1, MsgType, PermEffectFeatures DEF Effects
    <3>2. CASE c = "annotation"
      BY <2>1, <2>2, <3>2, MsgType, AnnotationEffectType DEF Effects
    <3>3. CASE c = "resource"
      <4>1. Msg(c) \in ResourceCommand /\ Msg(c).cmd # "PUT" /\ Msg(c).rights # NoRights
        BY <2>1, <3>3, MsgType DEF ControlOK, ResourceControl
      <4> QED
        BY <2>2, <3>3, <4>1, RightsEffectsType DEF Effects
    <3> QED
      BY <3>1, <3>2, <3>3 DEF Consumer
  <2> QED
    BY <2>2, <2>3, <2>4, <2>5, RewriteSameFeatures
<1> QED
  BY <1>1, <1>2

\* The steps that write features or delete a document.
FeatureWrite ==
  \/ Index("resource") /\ Msg("resource").cmd = "PUT"
  \/ Create
  \/ DeleteFeatures

\* No other step changes features, creates a document or deletes one.
LEMMA OthersKeepFeatures ==
  ASSUME TypeOK, ControlOK, ReadCurrent, [Next]_vars, ~FeatureWrite
  PROVE  SameFeatures
<1>1. ASSUME NEW c \in Consumer, Index(c)
      PROVE  SameFeatures
  BY <1>1, IndexSameFeatures DEF FeatureWrite
<1>2. ASSUME NEW i \in DOMAIN bulk, BulkFlush(i)
      PROVE  SameFeatures
  <2>1. bulk[i] \in [id : Ids, msg : AnnotationMsg]
    BY RemoveAtType DEF TypeOK, TopicsTypeOK
  <2>2. CASE UNCHANGED storeVars
    BY <2>2, UnchangedSameFeatures DEF storeVars
  <2>3. CASE ~(UNCHANGED storeVars)
    <3>1. /\ doc[bulk[i].id] # NoDoc
          /\ Write(bulk[i].id, AnnotationEffect(doc[bulk[i].id], bulk[i].msg))
      BY <1>2, <2>3 DEF BulkFlush
    <3>2. bulk[i].id \in Ids /\ bulk[i].msg \in AnnotationMsg /\ doc[bulk[i].id] \in Entry
      BY <2>1, <3>1 DEF TypeOK, StoreTypeOK
    <3> QED
      BY <3>1, <3>2, AnnotationEffectType, RewriteSameFeatures
  <2> QED
    BY <2>2, <2>3
<1>3. \/ \E c \in Consumer : Index(c)
      \/ \E i \in DOMAIN bulk : BulkFlush(i)
      \/ doc' = doc
  BY DEF FeatureWrite, Next, ConsumerStep, Fetch, HandlerError, Commit, ResourceExists,
         GetResourceEntry, SendDone, BulkAdd, RequestFails, FetchTimeout, BulkLost,
         Crash, vars, storeVars
<1> QED
  BY <1>1, <1>2, <1>3, UnchangedSameFeatures

\* What the steps that write features leave behind.
LEMMA FeatureWriteApplies ==
  ASSUME TypeOK, ControlOK, ReadCurrent, OwnsExistence, FeatureWrite
  PROVE  LET id == Msg("resource").id
             n  == pos["resource"] + 1
         IN  /\ id \in Ids
             /\ UNCHANGED <<log, pos, committed, done>>
             /\ pc["resource"] \in {"index", "create", "delete"}
             /\ n \in FeatureCommands(log["resource"], id)
             /\ \/ Applied(log["resource"], doc'[id], n)
                \/ doc' = doc /\ pc'["resource"] = "failed"
             /\ \A i \in Ids \ {id} : doc'[i] = doc[i]
             /\ pc'["resource"] \in {"done", "failed"}
<1> DEFINE id == Msg("resource").id
           n  == pos["resource"] + 1
<1>0. doc \in [Ids -> Entry \cup {NoDoc}] /\ pc \in [Consumer -> Label] /\ pos["resource"] \in Nat
  BY DEF TypeOK, StoreTypeOK, HandlerTypeOK, OffsetsOK, Consumer
<1>1. /\ pc["resource"] \in {"index", "create", "delete"}
      /\ UNCHANGED <<log, pos, committed, done>>
      /\ DocId("resource") = id
  BY DEF FeatureWrite, Index, Create, DeleteFeatures, DocId
<1>2. /\ id \in Ids /\ Msg("resource") \in ResourceCommand
      /\ Msg("resource").cmd \in {"PUT", "DELETE"}
      /\ Create => Msg("resource").cmd = "PUT"
      /\ DeleteFeatures => Msg("resource").cmd = "DELETE"
  BY <1>1, MsgType DEF FeatureWrite, ControlOK, ResourceControl, Create, DeleteFeatures
<1>3. n \in FeatureCommands(log["resource"], id)
  <2>1. log["resource"] \in Seq(ResourceCommand) /\ pos["resource"] < Len(log["resource"])
    BY <1>1, WorkerAssumption DEF TypeOK, OffsetsOK, TopicsTypeOK, Consumer
  <2>2. n \in DOMAIN log["resource"]
    BY <1>0, <2>1
  <2> QED
    BY <1>2, <2>2 DEF FeatureCommands, Msg
<1>4. pc'["resource"] \in {"done", "failed"}
  BY <1>0 DEF FeatureWrite, Index, Create, DeleteFeatures, Respond, Succeed, Goto, Consumer
<1>5. ASSUME NEW e \in Entry, e.features = Msg("resource").features, Write(id, e),
             Msg("resource").cmd = "PUT"
      PROVE  /\ Applied(log["resource"], doc'[id], n)
             /\ \A i \in Ids \ {id} : doc'[i] = doc[i]
  <2>1. doc'[id] = e /\ \A i \in Ids \ {id} : doc'[i] = doc[i]
    BY <1>0, <1>2, <1>5 DEF Write
  <2> QED
    BY <1>5, <2>1, WorkerAssumption DEF Applied, Msg
<1>6. CASE Index("resource") /\ Msg("resource").cmd = "PUT"
  <2>1. CASE Unchanged("resource")
    <3>1. PICK e \in Effects("resource") : Write(id, e)
      BY <1>1, <1>6, <2>1 DEF Index
    <3>2. pc["resource"] = "index" /\ read["resource"].entry \in Entry
      BY <1>6 DEF Index, ControlOK, ResourceControl
    <3>3. e \in Entry /\ e.features = Msg("resource").features
      BY <1>2, <1>6, <3>2, FeaturesEffectsType DEF Effects
    <3> QED
      BY <1>1, <1>2, <1>3, <1>4, <1>5, <1>6, <3>1, <3>3
  <2>2. CASE ~Unchanged("resource")
    <3>1. doc' = doc /\ pc'["resource"] = "failed"
      BY <1>0, <1>6, <2>2 DEF Index, Goto, Consumer
    <3> QED
      BY <1>1, <1>2, <1>3, <1>4, <3>1
  <2> QED
    BY <2>1, <2>2
<1>7. CASE Create
  <2>1. PICK e \in NewEntries(Msg("resource").owner, Msg("resource").features) : Write(id, e)
    BY <1>7 DEF Create
  <2>2. e \in Entry /\ e.features = Msg("resource").features
    BY <1>2, <2>1, NewEntriesType DEF ResourceCommand
  <2> QED
    BY <1>1, <1>2, <1>3, <1>4, <1>5, <1>7, <2>1, <2>2
<1>8. CASE DeleteFeatures
  <2>1. doc[id] # NoDoc
    BY <1>1, <1>8 DEF OwnsExistence, DeleteFeatures
  <2>2. Write(id, NoDoc)
    BY <1>1, <1>8, <2>1 DEF DeleteFeatures
  <2>3. doc'[id] = NoDoc /\ \A i \in Ids \ {id} : doc'[i] = doc[i]
    BY <1>0, <1>2, <2>2 DEF Write
  <2>4. Applied(log["resource"], doc'[id], n)
    BY <1>2, <1>8, <2>3 DEF Applied, Msg
  <2> QED
    BY <1>1, <1>2, <1>3, <1>4, <2>3, <2>4
<1> QED
  BY <1>6, <1>7, <1>8 DEF FeatureWrite

-----------------------------------------------------------------------------
(* The steps of the resource consumer, seen from its place and offsets.    *)

ResourceStays ==
  /\ pc'["resource"] = pc["resource"] /\ pos'["resource"] = pos["resource"]
  /\ committed'["resource"] = committed["resource"]

ResourceRestarts ==
  /\ pc'["resource"] = "fetch" /\ pos'["resource"] = committed["resource"]
  /\ committed'["resource"] = committed["resource"]

ResourceCommits ==
  /\ pc["resource"] = "commit" /\ pc'["resource"] = "fetch"
  /\ pos'["resource"] = pos["resource"] + 1
  /\ committed'["resource"] \in {committed["resource"], pos["resource"] + 1}

\* The consumer goes on with its message.
ResourceGoesOn ==
  /\ pos'["resource"] = pos["resource"] /\ pos["resource"] < Len(log["resource"])
  /\ committed'["resource"] = committed["resource"]
  /\ \/ pc'["resource"] = "failed"
     \/ pc'["resource"] = ResourceBegin(Msg("resource"))
     \/ /\ pc["resource"] = "exists" /\ doc' = doc
        /\ pc'["resource"] = AfterExists("resource", doc[DocId("resource")] # NoDoc)
     \/ /\ pc["resource"] = "get" /\ doc' = doc
        /\ doc[DocId("resource")] # NoDoc /\ pc'["resource"] = "index"
     \/ /\ pc["resource"] = "index" /\ Msg("resource").cmd = "RIGHTS"
        /\ pc'["resource"] = "done"
     \/ /\ pc["resource"] = "done" /\ pc'["resource"] = "commit"
        /\ <<"resource", pos["resource"] + 1>> \in done'

\* Every step that does not write features is one of these for the resource
\* consumer.
LEMMA ResourceMoves ==
  ASSUME TypeOK, ControlOK, [Next]_vars, ~FeatureWrite
  PROVE  /\ log' = log /\ done \subseteq done'
         /\ ResourceStays \/ ResourceRestarts \/ ResourceCommits \/ ResourceGoesOn
<1> USE DEF Consumer
<1>0. /\ pc \in [Consumer -> Label] /\ pos \in [Consumer -> Nat]
      /\ committed \in [Consumer -> Nat]
      /\ pc["resource"] # "fetch" => pos["resource"] < Len(log["resource"])
  BY DEF TypeOK, HandlerTypeOK, OffsetsOK
<1>1. ASSUME NEW c \in Consumer, c # "resource", ConsumerStep(c) \/ RequestFails(c)
      PROVE  log' = log /\ done \subseteq done' /\ ResourceStays
  BY <1>0, <1>1 DEF ConsumerStep, Fetch, HandlerError, Commit, ResourceExists, GetResourceEntry,
     Index, SendDone, BulkAdd, RequestFails, CallHandler, Respond, Succeed, Goto, ResourceStays
<1>2. ASSUME Fetch("resource") \/ HandlerError("resource")
      PROVE  log' = log /\ done \subseteq done' /\ ResourceGoesOn
  BY <1>0, <1>2 DEF Fetch, HandlerError, CallHandler, Goto, Begin, ResourceGoesOn
<1>3. ASSUME Commit("resource")
      PROVE  log' = log /\ done \subseteq done' /\ ResourceCommits
  BY <1>0, <1>3 DEF Commit, Goto, ResourceCommits
<1>4. ASSUME ResourceExists("resource") \/ GetResourceEntry("resource") \/ RequestFails("resource")
      PROVE  log' = log /\ done \subseteq done' /\ ResourceGoesOn
  BY <1>0, <1>4 DEF ResourceExists, GetResourceEntry, RequestFails, Goto, ResourceGoesOn
<1>5. ASSUME Index("resource")
      PROVE  log' = log /\ done \subseteq done' /\ ResourceGoesOn
  <2>1. pc["resource"] = "index" /\ Msg("resource").cmd = "RIGHTS"
    BY <1>5 DEF FeatureWrite, Index, ControlOK, ResourceControl
  <2> QED
    BY <1>0, <1>5, <2>1 DEF Index, Respond, Succeed, Goto, ResourceGoesOn
<1>6. ASSUME SendDone("resource")
      PROVE  log' = log /\ done \subseteq done' /\ ResourceGoesOn
  BY <1>0, <1>6 DEF SendDone, Goto, ResourceGoesOn
<1>7. ASSUME Crash
      PROVE  log' = log /\ done \subseteq done' /\ ResourceRestarts
  BY <1>0, <1>7 DEF Crash, ResourceRestarts
<1>8. ASSUME \/ UNCHANGED vars
             \/ \E c \in Consumer : FetchTimeout(c)
             \/ \E i \in DOMAIN bulk : BulkFlush(i) \/ BulkLost(i)
      PROVE  log' = log /\ done \subseteq done' /\ ResourceStays
  BY <1>8 DEF vars, consumerVars, FetchTimeout, BulkFlush, BulkLost, ResourceStays
<1> QED
  BY <1>1, <1>2, <1>3, <1>4, <1>5, <1>6, <1>7, <1>8 DEF Next, ConsumerStep, FeatureWrite

\* How the place and the document of the resource consumer relate to those
\* before the step, when it keeps its message.
LEMMA ResourceSameMessage ==
  ASSUME log' = log, pos'["resource"] = pos["resource"]
  PROVE  Msg("resource")' = Msg("resource") /\ DocId("resource")' = DocId("resource")
BY DEF Msg, DocId

\* Every step keeps the resource consumer's knowledge about existence.
LEMMA OwnsStep ==
  ASSUME TypeOK, ControlOK, ReadCurrent, OwnsExistence, [Next]_vars
  PROVE  OwnsExistence'
<1>1. CASE FeatureWrite
  BY <1>1, FeatureWriteApplies DEF OwnsExistence
<1>2. CASE ~FeatureWrite
  <2>0. SameFeatures /\ log' = log
    BY <1>2, OthersKeepFeatures, ResourceMoves
  <2>1. CASE ResourceStays
    <3>1. DocId("resource")' = DocId("resource")
      BY <2>0, <2>1, ResourceSameMessage DEF ResourceStays
    <3>2. pc["resource"] \in {"get", "index", "delete", "create"} => DocId("resource") \in Ids
      BY DocIdType DEF Consumer
    <3> QED
      BY <2>0, <2>1, <3>1, <3>2 DEF ResourceStays, SameFeatures, OwnsExistence
  <2>2. CASE ResourceRestarts \/ ResourceCommits
    BY <2>2 DEF ResourceRestarts, ResourceCommits, OwnsExistence
  <2>3. CASE ResourceGoesOn
    <3>1. DocId("resource")' = DocId("resource")
      BY <2>0, <2>3, ResourceSameMessage DEF ResourceGoesOn
    <3>2. Msg("resource") \in ResourceCommand
      BY <2>3, MsgType DEF ResourceGoesOn, Consumer
    <3>3. ResourceBegin(Msg("resource")) \in {"failed", "commit", "done", "exists"}
      BY <3>2 DEF ResourceBegin
    <3>4. /\ AfterExists("resource", TRUE) \in {"get", "done", "delete"}
          /\ AfterExists("resource", FALSE) \in {"create", "done"}
      BY DEF AfterExists
    <3>5. CASE doc[DocId("resource")] # NoDoc
      BY <2>3, <3>1, <3>3, <3>4, <3>5 DEF ResourceGoesOn, OwnsExistence
    <3>6. CASE doc[DocId("resource")] = NoDoc
      BY <2>3, <3>1, <3>3, <3>4, <3>6 DEF ResourceGoesOn, OwnsExistence
    <3> QED
      BY <3>5, <3>6
  <2> QED
    BY <1>2, <2>1, <2>2, <2>3, ResourceMoves
<1> QED
  BY <1>1, <1>2

-----------------------------------------------------------------------------
(* Documents against the resource topic.                                   *)

\* Whether a command is applied only depends on existence and features.
LEMMA AppliedFrame ==
  ASSUME SameFeatures, NEW id \in Ids, NEW l, NEW i
  PROVE  Applied(l, doc[id], i) => Applied(l, doc'[id], i)
BY DEF SameFeatures, Applied

\* The same holds for a whole prefix of the topic.
LEMMA ReflectsFrame ==
  ASSUME SameFeatures, NEW id \in Ids, NEW l, NEW q
  PROVE  ReflectsPrefix(l, id, doc[id], q) => ReflectsPrefix(l, id, doc'[id], q)
BY AppliedFrame DEF ReflectsPrefix, SameFeatures

\* A document that shows a command reflects the prefix that ends with it.
LEMMA ReflectsNew ==
  ASSUME NEW l, NEW id, NEW d, NEW n \in FeatureCommands(l, id), FeatureCommands(l, id) \subseteq Nat,
         Applied(l, d, n)
  PROVE  ReflectsPrefix(l, id, d, n)
<1> DEFINE S == {i \in FeatureCommands(l, id) : i <= n}
<1>1. n \in S
  OBVIOUS
<1>2. ASSUME NEW i \in S, \A j \in S : j <= i
      PROVE  i = n
  BY <1>1, <1>2
<1> QED
  BY <1>1, <1>2 DEF ReflectsPrefix

\* A message that is not about the features of a document extends the prefix.
LEMMA ReflectsSkip ==
  ASSUME NEW l, NEW id, NEW d, NEW q \in Nat, FeatureCommands(l, id) \subseteq Nat,
         q + 1 \notin FeatureCommands(l, id), ReflectsPrefix(l, id, d, q)
  PROVE  ReflectsPrefix(l, id, d, q + 1)
<1>1. {i \in FeatureCommands(l, id) : i <= q} = {i \in FeatureCommands(l, id) : i <= q + 1}
  OBVIOUS
<1> QED
  BY <1>1 DEF ReflectsPrefix

\* The commands of a topic are numbered from one.
LEMMA FeatureCommandsType ==
  ASSUME TypeOK, NEW id
  PROVE  /\ FeatureCommands(log["resource"], id) \subseteq Nat
         /\ \A n \in FeatureCommands(log["resource"], id) : n \in 1..Len(log["resource"])
<1>1. log["resource"] \in Seq(ResourceCommand)
  BY WorkerAssumption DEF TypeOK, TopicsTypeOK
<1> QED
  BY <1>1 DEF FeatureCommands

\* Every step keeps: a handler that is about to send Done has applied its
\* command.
LEMMA DoneStep ==
  ASSUME TypeOK, ControlOK, ReadCurrent, OwnsExistence, DoneImpliesApplied, [Next]_vars
  PROVE  DoneImpliesApplied'
<1>1. CASE FeatureWrite
  <2>1. /\ log' = log /\ pos'["resource"] = pos["resource"]
        /\ pc'["resource"] \in {"done", "commit"} =>
             Applied(log["resource"], doc'[Msg("resource").id], pos["resource"] + 1)
    BY <1>1, FeatureWriteApplies
  <2>2. Msg("resource")' = Msg("resource")
    BY <2>1, ResourceSameMessage
  <2> QED
    BY <2>1, <2>2 DEF DoneImpliesApplied
<1>2. CASE ~FeatureWrite
  <2>0. SameFeatures /\ log' = log
    BY <1>2, OthersKeepFeatures, ResourceMoves
  <2>a. ASSUME pos'["resource"] = pos["resource"], pc["resource"] \in {"done", "commit"}
        PROVE  DoneImpliesApplied'
    <3>1. Msg("resource")' = Msg("resource")
      BY <2>0, <2>a, ResourceSameMessage
    <3> QED
      BY <2>0, <2>a, <3>1, AppliedFrame DEF DoneImpliesApplied
  <2>1. CASE ResourceStays
    BY <2>a, <2>1 DEF ResourceStays, DoneImpliesApplied
  <2>2. CASE ResourceRestarts \/ ResourceCommits
    BY <2>2 DEF ResourceRestarts, ResourceCommits, DoneImpliesApplied
  <2>3. CASE ResourceGoesOn
    <3>1. Msg("resource")' = Msg("resource") /\ pos'["resource"] = pos["resource"]
      BY <2>0, <2>3, ResourceSameMessage DEF ResourceGoesOn
    <3>2. Msg("resource") \in ResourceCommand
      BY <2>3, MsgType DEF ResourceGoesOn, Consumer
    <3>3. CASE pc'["resource"] = ResourceBegin(Msg("resource"))
      <4>1. Msg("resource").cmd \in {"PUT", "DELETE"} /\ Msg("resource").id \in Ids
              => ResourceBegin(Msg("resource")) = "exists"
        BY CommandsAssumption DEF ResourceBegin
      <4> QED
        BY <3>1, <3>3, <4>1 DEF DoneImpliesApplied
    <3>4. CASE /\ pc["resource"] = "exists" /\ doc' = doc
               /\ pc'["resource"] = AfterExists("resource", doc[DocId("resource")] # NoDoc)
      <4> SUFFICES ASSUME pc'["resource"] \in {"done", "commit"},
                          Msg("resource").cmd \in {"PUT", "DELETE"}
                   PROVE  Applied(log["resource"], doc'[Msg("resource").id], pos["resource"] + 1)
        BY <2>0, <3>1 DEF DoneImpliesApplied
      <4>1. Msg("resource").cmd = "DELETE" /\ doc[DocId("resource")] = NoDoc
        BY <3>4 DEF AfterExists
      <4> QED
        BY <3>4, <4>1 DEF Applied, Msg, DocId
    <3>5. CASE pc'["resource"] \in {"failed", "index"}
      BY <3>5 DEF DoneImpliesApplied
    <3>6. CASE Msg("resource").cmd = "RIGHTS"
      BY <3>1, <3>6 DEF DoneImpliesApplied
    <3> QED
      BY <2>3, <2>a, <3>3, <3>4, <3>5, <3>6 DEF ResourceGoesOn
  <2> QED
    BY <1>2, <2>1, <2>2, <2>3, ResourceMoves
<1> QED
  BY <1>1, <1>2

\* Every step keeps the documents on a prefix of the topic.
LEMMA FollowStep ==
  ASSUME TypeOK, ControlOK, ReadCurrent, OwnsExistence, DoneImpliesApplied,
         FeaturesFollowLog, [Next]_vars
  PROVE  FeaturesFollowLog'
<1> DEFINE l == log["resource"]
           p == pos["resource"]
<1>0. /\ p \in Nat /\ p <= Len(l) /\ Len(l) \in Nat
      /\ committed["resource"] \in Nat /\ committed["resource"] <= p
      /\ pc["resource"] # "fetch" => p < Len(l)
  BY WorkerAssumption DEF TypeOK, OffsetsOK, TopicsTypeOK, Consumer
<1> SUFFICES ASSUME NEW id \in Ids
             PROVE  \E q \in pos'["resource"]..Len(log'["resource"]) :
                      ReflectsPrefix(log'["resource"], id, doc'[id], q)
  BY DEF FeaturesFollowLog
<1>1. PICK q \in p..Len(l) : ReflectsPrefix(l, id, doc[id], q)
  BY DEF FeaturesFollowLog
<1>2. CASE FeatureWrite
  <2> DEFINE mid == Msg("resource").id
  <2>1. /\ log' = log /\ pos' = pos
        /\ p + 1 \in FeatureCommands(l, mid)
        /\ Applied(l, doc'[mid], p + 1) \/ doc' = doc
        /\ \A i \in Ids \ {mid} : doc'[i] = doc[i]
    BY <1>2, FeatureWriteApplies
  <2>2. CASE id = mid /\ Applied(l, doc'[mid], p + 1)
    <3>1. ReflectsPrefix(l, id, doc'[id], p + 1) /\ p + 1 \in p..Len(l)
      BY <1>0, <2>1, <2>2, ReflectsNew, FeatureCommandsType
    <3> QED
      BY <2>1, <3>1
  <2>3. CASE doc'[id] = doc[id]
    BY <1>1, <2>1, <2>3
  <2> QED
    BY <2>1, <2>2, <2>3
<1>3. CASE ~FeatureWrite
  <2>0. SameFeatures /\ log' = log
    BY <1>3, OthersKeepFeatures, ResourceMoves
  <2>1. ReflectsPrefix(l, id, doc'[id], q)
    BY <1>1, <2>0, ReflectsFrame
  <2>2. CASE ResourceCommits
    <3>1. CASE q > p
      BY <1>0, <1>1, <2>0, <2>1, <2>2, <3>1 DEF ResourceCommits
    <3>2. CASE q = p /\ p + 1 \notin FeatureCommands(l, id)
      <4>1. ReflectsPrefix(l, id, doc'[id], p + 1)
        BY <1>0, <2>1, <3>2, ReflectsSkip, FeatureCommandsType
      <4> QED
        BY <1>0, <2>0, <2>2, <4>1 DEF ResourceCommits
    <3>3. CASE q = p /\ p + 1 \in FeatureCommands(l, id)
      <4>1. Applied(l, doc[id], p + 1)
        BY <2>2, <3>3 DEF DoneImpliesApplied, ResourceCommits, FeatureCommands, Msg
      <4>2. Applied(l, doc'[id], p + 1)
        BY <2>0, <4>1, AppliedFrame
      <4>3. ReflectsPrefix(l, id, doc'[id], p + 1)
        BY <3>3, <4>2, ReflectsNew, FeatureCommandsType
      <4> QED
        BY <1>0, <2>0, <2>2, <4>3 DEF ResourceCommits
    <3> QED
      BY <1>0, <3>1, <3>2, <3>3
  <2>3. CASE ResourceStays \/ ResourceRestarts \/ ResourceGoesOn
    <3>1. pos'["resource"] \in Nat /\ pos'["resource"] <= p
      BY <1>0, <2>3 DEF ResourceStays, ResourceRestarts, ResourceGoesOn
    <3> QED
      BY <1>0, <2>0, <2>1, <3>1
  <2> QED
    BY <1>3, <2>2, <2>3, ResourceMoves
<1> QED
  BY <1>2, <1>3
-----------------------------------------------------------------------------
(* Done messages against the offsets.                                      *)

\* What was left behind with an id is announced, and so is a message that is
\* about to be committed.
HandledImpliesDone ==
  /\ \A i \in 1..pos["resource"] :
       log["resource"][i].id \in Ids => <<"resource", i>> \in done
  /\ pc["resource"] = "commit" /\ Msg("resource").id \in Ids =>
       <<"resource", pos["resource"] + 1>> \in done

\* Every step keeps the done topic ahead of the reader.
LEMMA HandledStep ==
  ASSUME TypeOK, ControlOK, ReadCurrent, OwnsExistence, HandledImpliesDone, [Next]_vars
  PROVE  HandledImpliesDone'
<1>0. /\ pos["resource"] \in Nat
      /\ committed["resource"] \in Nat /\ committed["resource"] <= pos["resource"]
  BY DEF TypeOK, OffsetsOK, Consumer
<1>1. CASE FeatureWrite
  BY <1>1, FeatureWriteApplies DEF HandledImpliesDone
<1>2. CASE ~FeatureWrite
  <2>0. log' = log /\ done \subseteq done'
    BY <1>2, ResourceMoves
  <2>1. CASE ResourceStays
    <3>1. Msg("resource")' = Msg("resource")
      BY <2>0, <2>1, ResourceSameMessage DEF ResourceStays
    <3> QED
      BY <2>0, <2>1, <3>1 DEF ResourceStays, HandledImpliesDone
  <2>2. CASE ResourceRestarts
    BY <1>0, <2>0, <2>2 DEF ResourceRestarts, HandledImpliesDone
  <2>3. CASE ResourceCommits
    <3>1. \A i \in 1..(pos["resource"] + 1) : i \in 1..pos["resource"] \/ i = pos["resource"] + 1
      BY <1>0
    <3> QED
      BY <1>0, <2>0, <2>3, <3>1 DEF ResourceCommits, HandledImpliesDone, Msg
  <2>4. CASE ResourceGoesOn
    <3>1. Msg("resource")' = Msg("resource") /\ pos'["resource"] = pos["resource"]
      BY <2>0, <2>4, ResourceSameMessage DEF ResourceGoesOn
    <3>2. Msg("resource") \in ResourceCommand
      BY <2>4, MsgType DEF ResourceGoesOn, Consumer
    <3>3. Msg("resource").id \in Ids => ResourceBegin(Msg("resource")) # "commit"
      BY <3>2, CommandsAssumption DEF ResourceBegin
    <3>4. AfterExists("resource", doc[DocId("resource")] # NoDoc) # "commit"
      BY DEF AfterExists
    <3>5. pc'["resource"] = "commit" /\ Msg("resource").id \in Ids =>
            <<"resource", pos["resource"] + 1>> \in done'
      BY <2>4, <3>3, <3>4 DEF ResourceGoesOn
    <3> QED
      BY <2>0, <3>1, <3>5 DEF HandledImpliesDone
  <2> QED
    BY <1>2, <2>1, <2>2, <2>3, <2>4, ResourceMoves
<1> QED
  BY <1>1, <1>2

-----------------------------------------------------------------------------
(* The inductive invariant and the theorems.                               *)

\* TypeOK and ControlOK need each other; ReadCurrent needs both; existence,
\* features and Done messages build on them in this order.
IInv ==
  /\ TypeOK /\ ControlOK /\ ReadCurrent
  /\ OwnsExistence /\ DoneImpliesApplied /\ FeaturesFollowLog /\ HandledImpliesDone

\* The invariant holds before anything is consumed.
LEMMA InitIInv == Init => IInv
<1> SUFFICES ASSUME Init
             PROVE  IInv
  OBVIOUS
<1> USE DEF Consumer
<1>a. MaxFaults \in Nat /\ MaxCrashes \in Nat
  BY WorkerAssumption
<1>b. /\ Len(log["perm"]) \in Nat /\ Len(log["resource"]) \in Nat
      /\ Len(log["annotation"]) \in Nat
  BY WorkerAssumption DEF Init
<1>1. TypeOK
  <2>1. StoreTypeOK
    BY DEF Init, StoreTypeOK
  <2>2. HandlerTypeOK
    BY DEF Init, HandlerTypeOK, Label
  <2>3. OffsetsOK
    BY <1>b DEF Init, OffsetsOK
  <2>4. <<>> \in Seq([id : Ids, msg : AnnotationMsg])
    OBVIOUS
  <2>5. TopicsTypeOK
    BY <1>a, <2>4 DEF Init, TopicsTypeOK
  <2> QED
    BY <2>1, <2>2, <2>3, <2>5 DEF TypeOK
<1>2. ControlOK /\ ReadCurrent /\ OwnsExistence /\ DoneImpliesApplied
  BY DEF Init, ControlOK, PermControl, ResourceControl, AnnotationControl, ReadCurrent,
         OwnsExistence, DoneImpliesApplied
<1>3. FeaturesFollowLog
  <2> SUFFICES ASSUME NEW id \in Ids
               PROVE  ReflectsPrefix(log["resource"], id, doc[id], 0) /\ pos["resource"] = 0
    BY <1>b DEF FeaturesFollowLog
  <2>1. \A i \in FeatureCommands(log["resource"], id) : ~(i <= 0)
    BY <1>1, FeatureCommandsType
  <2> QED
    BY <2>1 DEF Init, ReflectsPrefix
<1>4. HandledImpliesDone
  BY DEF Init, HandledImpliesDone
<1> QED
  BY <1>1, <1>2, <1>3, <1>4 DEF IInv

\* The invariant is inductive.
LEMMA NextIInv == IInv /\ [Next]_vars => IInv'
BY TypeStep, ControlStep, ReadStep, OwnsStep, DoneStep, FollowStep, HandledStep DEF IInv

\* The invariant holds in every reachable state of the worker.
LEMMA Invariance == Spec => []IInv
BY InitIInv, NextIInv, PTL DEF Spec

\* Every variable has its type, and no offset is committed for a message the
\* consumer loop has not handled (NewConsumerWithMultipleTopics).
THEOREM TypeCorrect == Spec => []TypeOK
<1>1. IInv => TypeOK
  BY DEF IInv
<1> QED
  BY <1>1, Invariance, PTL

\* The resource consumer may rely on what ResourceExists said, whatever the
\* other consumers and the bulk indexer write in between (UpdateFeatures,
\* UpdateRights, DeleteFeatures).
THEOREM ExistenceOwned == Spec => []OwnsExistence
<1>1. IInv => OwnsExistence
  BY DEF IInv
<1> QED
  BY <1>1, Invariance, PTL

\* When a PUT or DELETE is announced, and still when it is committed, the
\* document shows it (GetResourceCommandHandler).
THEOREM AppliedBeforeDone == Spec => []DoneImpliesApplied
<1>1. IInv => DoneImpliesApplied
  BY DEF IInv
<1> QED
  BY <1>1, Invariance, PTL

\* Existence and features of every document are those after a prefix of the
\* resource topic that is not behind the reader, for every content of the
\* topics and every number of faults and crashes (UpdateFeatures,
\* DeleteFeatures and the commit of the consumer loop).
THEOREM FeaturesCorrect == Spec => []FeaturesFollowLog
<1>1. IInv => FeaturesFollowLog
  BY DEF IInv
<1> QED
  BY <1>1, Invariance, PTL

\* Every committed resource command with an id was announced on the done
\* topic (the deferred call in GetResourceCommandHandler).
THEOREM CommittedAnnounced == Spec => []CommittedImpliesDone
<1>1. IInv => CommittedImpliesDone
  <2> SUFFICES ASSUME IInv
               PROVE  CommittedImpliesDone
    OBVIOUS
  <2>1. /\ pos["resource"] \in Nat /\ committed["resource"] \in Nat
        /\ committed["resource"] <= pos["resource"]
    BY DEF IInv, TypeOK, OffsetsOK, Consumer
  <2> QED
    BY <2>1 DEF IInv, HandledImpliesDone, CommittedImpliesDone
<1> QED
  BY <1>1, Invariance, PTL

-----------------------------------------------------------------------------
(***************************************************************************)
(* The worker implements PermissionStore: every step of it that changes a  *)
(* document applies one message of a topic to the document as it is.  The  *)
(* invariant above carries most of the weight: ReadCurrent says that a     *)
(* write accepted by OpenSearch was computed from the present document,    *)
(* OwnsExistence that the unconditional creation replaces nothing.  Here   *)
(* only the items of the bulk indexer are added.                           *)
(***************************************************************************)

\* The operators of the abstract store are those of Commands.
LEMMA StoreOperators ==
  /\ \A e, m : Store!PermEffect(e, m) = PermEffect(e, m)
  /\ \A e, m : Store!AnnotationEffect(e, m) = AnnotationEffect(e, m)
  /\ \A e, m : Store!FeaturesEffects(e, m) = FeaturesEffects(e, m)
  /\ \A e, m : Store!RightsEffects(e, m) = RightsEffects(e, m)
  /\ \A o, f : Store!NewEntries(o, f) = NewEntries(o, f)
  /\ \A m : Store!IsPermUpdate(m) = IsPermUpdate(m)
<1>1. \A e, m : Store!PermEffect(e, m) = PermEffect(e, m)
  BY DEF Store!PermEffect, PermEffect, Store!AddUserRights, AddUserRights, Store!AddGroupRights,
         AddGroupRights, Store!RemoveUserRights, RemoveUserRights, Store!RemoveGroupRights,
         RemoveGroupRights, Store!Right, Right
<1>2. \A e, m : Store!AnnotationEffect(e, m) = AnnotationEffect(e, m)
  BY DEF Store!AnnotationEffect, AnnotationEffect, Store!MergeAnnotations, MergeAnnotations
<1>3. \A e, o : Store!CreatorFallback(e, o) = CreatorFallback(e, o)
  BY DEF Store!CreatorFallback, CreatorFallback
<1>4. \A e, m : Store!FeaturesEffects(e, m) = FeaturesEffects(e, m)
  BY <1>3 DEF Store!FeaturesEffects, FeaturesEffects
<1>5. \A e, m : Store!RightsEffects(e, m) = RightsEffects(e, m)
  BY <1>3 DEF Store!RightsEffects, RightsEffects, Store!SetResourceRights, SetResourceRights,
              Store!NoHolders, NoHolders, Store!Right, Right
<1>6. \A o, f : Store!NewEntries(o, f) = NewEntries(o, f)
  <2>1. Store!VisitOrders = VisitOrders
    BY DEF Store!VisitOrders, VisitOrders, Store!Bijection, Bijection, Store!Injection, Injection,
           Store!Surjection, Surjection, Store!IsInjective, IsInjective, Store!Cardinality,
           Cardinality
  <2>2. \A order : Store!GroupsAfterLoop(order) = GroupsAfterLoop(order)
    BY DEF Store!GroupsAfterLoop, GroupsAfterLoop, Store!Right, Right
  <2>3. \A o : Store!OwnerRights(o) = OwnerRights(o)
    BY DEF Store!OwnerRights, OwnerRights, Store!Right, Right
  <2>4. Store!NoAnnotations = NoAnnotations
    BY DEF Store!NoAnnotations, NoAnnotations
  <2> QED
    BY <2>1, <2>2, <2>3, <2>4 DEF Store!NewEntries, NewEntries
<1>7. \A m : Store!IsPermUpdate(m) = IsPermUpdate(m)
  BY DEF Store!IsPermUpdate, IsPermUpdate
<1> QED
  BY <1>1, <1>2, <1>4, <1>5, <1>6, <1>7

\* What the bulk indexer holds comes from an annotation of the topic.
BulkOK ==
  \A i \in DOMAIN bulk :
    \E k \in DOMAIN log["annotation"] :
      /\ bulk[i].msg = log["annotation"][k]
      /\ \E j \in DOMAIN bulk[i].msg.ids : bulk[i].msg.ids[j] = bulk[i].id

\* The message a consumer handles is one of the store's messages.
LEMMA MessageInLog ==
  ASSUME TypeOK, NEW c \in Consumer, pc[c] # "fetch"
  PROVE  pos[c] + 1 \in DOMAIN log[c] /\ Msg(c) \in Store!Messages(c)
<1>1. log[c] \in Seq(PermCommand) \/ log[c] \in Seq(ResourceCommand) \/ log[c] \in Seq(AnnotationMsg)
  BY WorkerAssumption DEF TypeOK, TopicsTypeOK, Consumer
<1>2. pos[c] \in Nat /\ pos[c] < Len(log[c])
  BY DEF TypeOK, OffsetsOK
<1>3. pos[c] + 1 \in DOMAIN log[c]
  BY <1>1, <1>2
<1> QED
  BY <1>3 DEF Msg, Store!Messages

\* Every step keeps the bulk items in line with the topic.
LEMMA BulkStep ==
  ASSUME TypeOK, ControlOK, BulkOK, [Next]_vars
  PROVE  BulkOK'
<1>1. ASSUME bulk' = bulk, log' = log
      PROVE  BulkOK'
  BY <1>1 DEF BulkOK
<1>2. ASSUME BulkAdd
      PROVE  BulkOK'
  <2> DEFINE item == [id |-> DocId("annotation"), msg |-> Msg("annotation")]
  <2>1. log' = log /\ bulk' = Append(bulk, item) /\ pc["annotation"] = "add"
    BY <1>2 DEF BulkAdd
  <2>2. target \in 1..Len(Msg("annotation").ids) /\ Msg("annotation") \in AnnotationMsg
    BY <2>1, MsgType DEF ControlOK, AnnotationControl
  <2>3. target \in DOMAIN Msg("annotation").ids
    BY <2>2 DEF AnnotationMsg
  <2>4. /\ \E k \in DOMAIN log["annotation"] : item.msg = log["annotation"][k]
        /\ \E j \in DOMAIN item.msg.ids : item.msg.ids[j] = item.id
    BY <2>1, <2>3, MessageInLog DEF Msg, DocId, Consumer
  <2>5. bulk \in Seq([id : Ids, msg : AnnotationMsg])
    BY DEF TypeOK, TopicsTypeOK
  <2> HIDE DEF item
  <2>6. \A i \in DOMAIN bulk' : (i \in DOMAIN bulk /\ bulk'[i] = bulk[i]) \/ bulk'[i] = item
    BY <2>1, <2>5
  <2> QED
    BY <2>1, <2>4, <2>6 DEF BulkOK
<1>3. ASSUME NEW i \in DOMAIN bulk, BulkFlush(i) \/ BulkLost(i)
      PROVE  BulkOK'
  <2>1. log' = log /\ bulk' = RemoveAt(bulk, i)
    BY <1>3 DEF BulkFlush, BulkLost, Dequeue
  <2>2. \A j \in DOMAIN bulk' : \E k \in DOMAIN bulk : bulk'[j] = bulk[k]
    BY <2>1, RemoveAtType DEF TypeOK, TopicsTypeOK
  <2> QED
    BY <2>1, <2>2 DEF BulkOK
<1>4. ASSUME Crash
      PROVE  BulkOK'
  BY <1>4 DEF Crash, BulkOK
<1>5. \/ bulk' = bulk /\ log' = log
      \/ BulkAdd \/ Crash
      \/ \E i \in DOMAIN bulk : BulkFlush(i) \/ BulkLost(i)
  BY DEF Next, ConsumerStep, Fetch, HandlerError, Commit, ResourceExists, GetResourceEntry,
         Index, SendDone, Create, DeleteFeatures, RequestFails, FetchTimeout, vars
<1> QED
  BY <1>1, <1>2, <1>3, <1>4, <1>5

\* A successful conditional index is a step of the store.
LEMMA IndexRefines ==
  ASSUME IInv, NEW c \in Consumer, Index(c), Unchanged(c)
  PROVE  Store!StoreNext
<1>0. TypeOK /\ ControlOK /\ ReadCurrent
  BY DEF IInv
<1>1. pc[c] = "index" /\ log' = log
  BY DEF Index
<1>2. /\ DocId(c) \in Ids /\ read[c].entry = doc[DocId(c)]
      /\ doc[DocId(c)] \in Entry /\ doc[DocId(c)] # NoDoc
  BY <1>0, <1>1, IndexCurrent DEF Unchanged
<1>3. PICK e \in Effects(c) : Write(DocId(c), e)
  BY DEF Index
<1>4. doc' = [doc EXCEPT ![DocId(c)] = e]
  BY <1>3 DEF Write
<1>5. Msg(c) \in Store!Messages(c)
  BY <1>0, <1>1, MessageInLog
<1>6. CASE c = "perm"
  <2>1. DocId(c) = Msg(c).id /\ IsPermUpdate(Msg(c)) /\ e = PermEffect(doc[Msg(c).id], Msg(c))
    BY <1>0, <1>1, <1>2, <1>3, <1>6 DEF DocId, Effects, ControlOK, PermControl
  <2>2. Store!SetPermission(Msg(c))
    BY <1>2, <1>4, <2>1, StoreOperators DEF Store!SetPermission, Store!Rewrite
  <2> QED
    BY <1>1, <1>5, <1>6, <2>2 DEF Store!StoreNext
<1>7. CASE c = "annotation"
  <2>1. target \in DOMAIN Msg(c).ids
    BY <1>0, <1>1, <1>7, MsgType DEF ControlOK, AnnotationControl, AnnotationMsg
  <2>2. DocId(c) = Msg(c).ids[target] /\ e = AnnotationEffect(doc[DocId(c)], Msg(c))
    BY <1>2, <1>3, <1>7 DEF DocId, Effects
  <2>3. Store!Annotate(Msg(c))
    BY <1>2, <1>4, <2>1, <2>2, StoreOperators DEF Store!Annotate, Store!Rewrite
  <2> QED
    BY <1>1, <1>5, <1>7, <2>3 DEF Store!StoreNext
<1>8. CASE c = "resource"
  <2>1. /\ DocId(c) = Msg(c).id
        /\ Msg(c).cmd \in {"PUT", "RIGHTS"} /\ (Msg(c).cmd = "RIGHTS" => Msg(c).rights # NoRights)
    BY <1>0, <1>1, <1>8 DEF DocId, ControlOK, ResourceControl
  <2>2. CASE Msg(c).cmd = "PUT"
    <3>1. e \in Store!FeaturesEffects(doc[Msg(c).id], Msg(c))
      BY <1>2, <1>3, <1>8, <2>1, <2>2, StoreOperators DEF Effects
    <3>2. Store!PutFeatures(Msg(c))
      BY <1>2, <1>4, <2>1, <2>2, <3>1 DEF Store!PutFeatures, Store!Rewrite
    <3> QED
      BY <1>1, <1>5, <1>8, <3>2 DEF Store!StoreNext
  <2>3. CASE Msg(c).cmd = "RIGHTS"
    <3>1. e \in Store!RightsEffects(doc[Msg(c).id], Msg(c))
      BY <1>2, <1>3, <1>8, <2>1, <2>3, StoreOperators DEF Effects
    <3>2. Store!SetRights(Msg(c))
      BY <1>2, <1>4, <2>1, <2>3, <3>1 DEF Store!SetRights, Store!Rewrite
    <3> QED
      BY <1>1, <1>5, <1>8, <3>2 DEF Store!StoreNext
  <2> QED
    BY <2>1, <2>2, <2>3
<1> QED
  BY <1>6, <1>7, <1>8 DEF Consumer

\* Creation and deletion are steps of the store.
LEMMA CreateDeleteRefine ==
  ASSUME IInv, Create \/ DeleteFeatures
  PROVE  Store!StoreNext
<1>0. TypeOK /\ ControlOK /\ OwnsExistence
  BY DEF IInv
<1> DEFINE m == Msg("resource")
<1>1. /\ pc["resource"] \in {"create", "delete"} /\ log' = log
      /\ DocId("resource") = m.id
  BY DEF Create, DeleteFeatures, DocId
<1>2. m.id \in Ids /\ m \in Store!Messages("resource")
  BY <1>0, <1>1, DocIdType, MessageInLog DEF Consumer
<1>3. CASE Create
  <2>1. m.cmd = "PUT" /\ doc[m.id] = NoDoc
    BY <1>0, <1>1, <1>3 DEF Create, ControlOK, ResourceControl, OwnsExistence
  <2>2. PICK e \in NewEntries(m.owner, m.features) : Write(m.id, e)
    BY <1>3 DEF Create
  <2>3. Store!PutFeatures(m)
    BY <1>2, <2>1, <2>2, StoreOperators DEF Store!PutFeatures, Store!Rewrite, Write
  <2> QED
    BY <1>1, <1>2, <2>3 DEF Store!StoreNext
<1>4. CASE DeleteFeatures
  <2>1. m.cmd = "DELETE" /\ doc[m.id] # NoDoc
    BY <1>0, <1>1, <1>4 DEF DeleteFeatures, ControlOK, ResourceControl, OwnsExistence
  <2>2. Store!Delete(m)
    BY <1>1, <1>2, <1>4, <2>1 DEF DeleteFeatures, Store!Delete, Store!Rewrite, Write
  <2> QED
    BY <1>1, <1>2, <2>2 DEF Store!StoreNext
<1> QED
  BY <1>3, <1>4

\* A flush of the bulk indexer is a step of the store or changes nothing.
LEMMA FlushRefines ==
  ASSUME TypeOK, BulkOK, NEW i \in DOMAIN bulk, BulkFlush(i)
  PROVE  [Store!StoreNext]_Store!storeVars
<1>1. log' = log
  BY DEF BulkFlush
<1>2. CASE doc' = doc
  BY <1>1, <1>2 DEF Store!storeVars
<1>3. CASE doc' # doc
  <2> DEFINE id == bulk[i].id
             m  == bulk[i].msg
  <2>1. doc[id] # NoDoc /\ doc' = [doc EXCEPT ![id] = AnnotationEffect(doc[id], m)]
    BY <1>3 DEF BulkFlush, Write, storeVars
  <2>2. m \in Store!Messages("annotation") /\ \E j \in DOMAIN m.ids : m.ids[j] = id
    BY DEF BulkOK, Store!Messages
  <2>3. Store!Annotate(m)
    BY <2>1, <2>2, StoreOperators DEF Store!Annotate, Store!Rewrite
  <2> QED
    BY <1>1, <2>2, <2>3 DEF Store!StoreNext
<1> QED
  BY <1>2, <1>3

\* Every step of the worker is one of the store or changes nothing there.
LEMMA StepRefines ==
  ASSUME IInv, BulkOK, [Next]_vars
  PROVE  [Store!StoreNext]_Store!storeVars
<1>0. TypeOK
  BY DEF IInv
<1>1. ASSUME NEW c \in Consumer, Index(c)
      PROVE  [Store!StoreNext]_Store!storeVars
  <2>1. CASE ~Unchanged(c)
    BY <1>1, <2>1 DEF Index, Store!storeVars
  <2> QED
    BY <1>1, <2>1, IndexRefines
<1>2. ASSUME doc' = doc, log' = log
      PROVE  [Store!StoreNext]_Store!storeVars
  BY <1>2 DEF Store!storeVars
<1>3. \/ \E c \in Consumer : Index(c)
      \/ Create \/ DeleteFeatures
      \/ \E i \in DOMAIN bulk : BulkFlush(i)
      \/ doc' = doc /\ log' = log
  BY DEF Next, ConsumerStep, Fetch, HandlerError, Commit, ResourceExists, GetResourceEntry,
         SendDone, BulkAdd, RequestFails, FetchTimeout, BulkLost, Crash, vars, storeVars
<1> QED
  BY <1>0, <1>1, <1>2, <1>3, CreateDeleteRefine, FlushRefines

\* The worker implements the abstract store: for every content of the
\* topics, every interleaving of the consumers and the bulk indexer and every
\* fault or crash, each write applies one message to the present document.
THEOREM WorkerImplementsStore == Spec => ImplementsStore
<1>1. Init => BulkOK /\ Store!StoreInit
  BY DEF Init, BulkOK, Store!StoreInit
<1>2. IInv /\ BulkOK /\ [Next]_vars => BulkOK' /\ [Store!StoreNext]_Store!storeVars
  BY BulkStep, StepRefines DEF IInv
<1> QED
  BY <1>1, <1>2, Invariance, PTL DEF Spec, ImplementsStore, Store!StoreSpec
-----------------------------------------------------------------------------
(* A consequence for the creator of a document.                            *)

\* No message replaces a creator.
LEMMA EffectsKeepCreator ==
  ASSUME NEW e \in Entry, e.creator # NoUser, NEW m
  PROVE  /\ PermEffect(e, m).creator = e.creator
         /\ AnnotationEffect(e, m).creator = e.creator
         /\ \A x \in FeaturesEffects(e, m) : x.creator = e.creator
         /\ \A x \in RightsEffects(e, m) : x.creator = e.creator
<1>1. PermEffect(e, m).creator = e.creator /\ AnnotationEffect(e, m).creator = e.creator
  BY DEF PermEffect, AnnotationEffect, Entry
<1>2. ASSUME NEW y, DOMAIN y = DOMAIN e, y.creator = e.creator, NEW o, NEW x \in CreatorFallback(y, o)
      PROVE  x.creator = e.creator
  BY <1>2 DEF CreatorFallback, Entry
<1>3. \A x \in FeaturesEffects(e, m) : x.creator = e.creator
  BY <1>2 DEF FeaturesEffects, Entry
<1>4. \A x \in RightsEffects(e, m) : x.creator = e.creator
  BY <1>2 DEF RightsEffects, Entry
<1> QED
  BY <1>1, <1>3, <1>4

\* The creator of an existing document is never replaced, whatever the
\* commands, retries and redeliveries (UpdateFeatures, UpdateRights).
THEOREM CreatorStays == Spec => CreatorKept
<1> DEFINE Kept == \A id \in Ids :
                     doc[id] # NoDoc /\ doc'[id] # NoDoc /\ doc[id].creator # NoUser
                       => doc'[id].creator = doc[id].creator
<1>1. ASSUME IInv, BulkOK, [Next]_vars
      PROVE  Kept
  <2>0. doc \in [Ids -> Entry \cup {NoDoc}]
    BY <1>1 DEF IInv, TypeOK, StoreTypeOK
  <2>1. ASSUME NEW x \in Ids, NEW e, doc' = [doc EXCEPT ![x] = e],
               \/ doc[x] = NoDoc
               \/ e = NoDoc
               \/ doc[x].creator = NoUser
               \/ e.creator = doc[x].creator
        PROVE  Kept
    BY <2>0, <2>1
  <2>2. \A x \in Ids : doc[x] # NoDoc => doc[x] \in Entry
    BY <2>0
  <2>3. CASE Store!StoreNext
    <3>1. ASSUME NEW m, Store!SetPermission(m)
          PROVE  Kept
      BY <2>1, <2>2, <3>1, EffectsKeepCreator, StoreOperators DEF Store!SetPermission, Store!Rewrite
    <3>2. ASSUME NEW m, Store!PutFeatures(m)
          PROVE  Kept
      BY <2>1, <2>2, <3>2, EffectsKeepCreator, StoreOperators DEF Store!PutFeatures, Store!Rewrite
    <3>3. ASSUME NEW m, Store!SetRights(m)
          PROVE  Kept
      BY <2>1, <2>2, <3>3, EffectsKeepCreator, StoreOperators DEF Store!SetRights, Store!Rewrite
    <3>4. ASSUME NEW m, Store!Delete(m)
          PROVE  Kept
      BY <2>1, <3>4 DEF Store!Delete, Store!Rewrite
    <3>5. ASSUME NEW m \in Store!Messages("annotation"), Store!Annotate(m)
          PROVE  Kept
      <4>1. m.ids \in Seq(Ids)
        <5>1. log["annotation"] \in Seq(AnnotationMsg)
          BY <1>1, WorkerAssumption DEF IInv, TypeOK, TopicsTypeOK
        <5>2. m \in AnnotationMsg
          BY <5>1 DEF Store!Messages
        <5> QED
          BY <5>2 DEF AnnotationMsg
      <4>2. PICK j \in DOMAIN m.ids : /\ doc[m.ids[j]] # NoDoc
                                      /\ doc' = [doc EXCEPT ![m.ids[j]] =
                                                   AnnotationEffect(doc[m.ids[j]], m)]
        BY <3>5, StoreOperators DEF Store!Annotate, Store!Rewrite
      <4>3. m.ids[j] \in Ids
        BY <4>1, <4>2
      <4> QED
        BY <2>1, <2>2, <4>2, <4>3, EffectsKeepCreator
    <3> QED
      BY <2>3, <3>1, <3>2, <3>3, <3>4, <3>5 DEF Store!StoreNext
  <2>4. CASE UNCHANGED Store!storeVars
    BY <2>4 DEF Store!storeVars
  <2> QED
    BY <1>1, <2>3, <2>4, StepRefines
<1>2. Init => BulkOK
  BY DEF Init, BulkOK
<1>3. IInv /\ BulkOK /\ [Next]_vars => BulkOK' /\ [Kept]_vars
  BY <1>1, BulkStep DEF IInv
<1> HIDE DEF Kept
<1>4. Spec => [][Kept]_vars
  BY <1>2, <1>3, Invariance, PTL DEF Spec
<1> QED
  BY <1>4 DEF Kept, CreatorKept
-----------------------------------------------------------------------------
(* A consequence for permission lists.                                     *)

\* The lists of e are those a PUT for id makes, or of a RIGHTS command for it.
FromOneCommand(id, e) ==
  \E i \in DOMAIN log["resource"] :
    LET m == log["resource"][i]
    IN  /\ m.id = id
        /\ \/ /\ m.cmd = "PUT"
              /\ \E x \in NewEntries(m.owner, m.features) : x.users = e.users /\ x.groups = e.groups
           \/ /\ m.cmd = "RIGHTS" /\ m.rights # NoRights
              /\ e.users = SetResourceRights(NoHolders, m.rights.users)
              /\ e.groups = SetResourceRights(NoHolders, m.rights.groups)

Permitted(id) == \E i \in DOMAIN log["perm"] : log["perm"][i].id = id

LEMMA Whole ==
  RightsComeWhole <=>
    \A id \in Ids : doc[id] = NoDoc \/ Permitted(id) \/ FromOneCommand(id, doc[id])
BY DEF RightsComeWhole, Permitted, FromOneCommand

\* One document is rewritten.
LEMMA RewriteWhole ==
  ASSUME TypeOK, RightsComeWhole, log' = log, NEW x \in Ids, NEW e, doc' = [doc EXCEPT ![x] = e],
         \/ e = NoDoc
         \/ Permitted(x)
         \/ FromOneCommand(x, e)
         \/ doc[x] # NoDoc /\ e.users = doc[x].users /\ e.groups = doc[x].groups
  PROVE  RightsComeWhole'
<1>1. doc \in [Ids -> Entry \cup {NoDoc}]
  BY DEF TypeOK, StoreTypeOK
<1>2. \A id \in Ids : id # x => doc'[id] = doc[id]
  BY <1>1
<1>3. doc'[x] = e
  BY <1>1
<1>4. ASSUME NEW id \in Ids, NEW d, doc[id] # NoDoc, FromOneCommand(id, doc[id]),
             d.users = doc[id].users, d.groups = doc[id].groups
      PROVE  FromOneCommand(id, d)
  BY <1>4 DEF FromOneCommand
<1>5. ASSUME NEW id \in Ids, NEW d, d # NoDoc, d = doc'[id]
      PROVE  Permitted(id) \/ FromOneCommand(id, d)
  <2>1. CASE id # x
    BY <1>2, <1>5, <2>1, Whole
  <2>2. CASE id = x
    BY <1>3, <1>4, <1>5, <2>2, Whole
  <2> QED
    BY <2>1, <2>2
<1>6. ASSUME NEW id \in Ids, NEW d, d # NoDoc, d = doc'[id]
      PROVE  \/ \E i \in DOMAIN log'["perm"] : log'["perm"][i].id = id
             \/ \E i \in DOMAIN log'["resource"] :
                  LET m == log'["resource"][i]
                  IN  /\ m.id = id
                      /\ \/ /\ m.cmd = "PUT"
                            /\ \E y \in NewEntries(m.owner, m.features) :
                                 y.users = d.users /\ y.groups = d.groups
                         \/ /\ m.cmd = "RIGHTS" /\ m.rights # NoRights
                            /\ d.users = SetResourceRights(NoHolders, m.rights.users)
                            /\ d.groups = SetResourceRights(NoHolders, m.rights.groups)
  BY <1>5, <1>6 DEF Permitted, FromOneCommand
<1> QED
  BY <1>6 DEF RightsComeWhole

LEMMA WholeStep ==
  ASSUME TypeOK, RightsComeWhole, Store!StoreNext
  PROVE  RightsComeWhole'
<1>1. log' = log
  BY DEF Store!StoreNext
<1>2. doc \in [Ids -> Entry \cup {NoDoc}]
  BY DEF TypeOK, StoreTypeOK
<1>3. /\ \A i \in DOMAIN log["perm"] : log["perm"][i] \in PermCommand
      /\ \A i \in DOMAIN log["resource"] : log["resource"][i] \in ResourceCommand
      /\ \A i \in DOMAIN log["annotation"] : log["annotation"][i] \in AnnotationMsg
  <2>1. /\ log["perm"] \in Seq(PermCommand) /\ log["resource"] \in Seq(ResourceCommand)
        /\ log["annotation"] \in Seq(AnnotationMsg)
    BY WorkerAssumption DEF TypeOK, TopicsTypeOK
  <2> QED
    BY <2>1
<1>4. ASSUME NEW i \in DOMAIN log["perm"], Store!SetPermission(log["perm"][i])
      PROVE  RightsComeWhole'
  <2>1. Permitted(log["perm"][i].id)
    BY DEF Permitted
  <2> QED
    BY <1>1, <1>4, <2>1, RewriteWhole DEF Store!SetPermission, Store!Rewrite
<1>5. ASSUME NEW i \in DOMAIN log["resource"],
             \/ Store!PutFeatures(log["resource"][i])
             \/ Store!SetRights(log["resource"][i])
             \/ Store!Delete(log["resource"][i])
      PROVE  RightsComeWhole'
  <2> DEFINE m == log["resource"][i]
  <2>1. m \in ResourceCommand
    BY <1>3
  <2>2. CASE Store!PutFeatures(m) /\ doc[m.id] = NoDoc
    <3>1. PICK e \in NewEntries(m.owner, m.features) : doc' = [doc EXCEPT ![m.id] = e]
      BY <2>2, StoreOperators DEF Store!PutFeatures, Store!Rewrite
    <3>2. m.id \in Ids /\ m.cmd = "PUT"
      BY <2>2 DEF Store!PutFeatures
    <3>3. FromOneCommand(m.id, e)
      BY <3>1, <3>2 DEF FromOneCommand
    <3> QED
      BY <1>1, <3>1, <3>2, <3>3, RewriteWhole
  <2>3. CASE Store!PutFeatures(m) /\ doc[m.id] # NoDoc
    <3>1. PICK e \in FeaturesEffects(doc[m.id], m) : doc' = [doc EXCEPT ![m.id] = e]
      BY <2>3, StoreOperators DEF Store!PutFeatures, Store!Rewrite
    <3>2. m.id \in Ids
      BY <2>3 DEF Store!PutFeatures
    <3>3. e.users = doc[m.id].users /\ e.groups = doc[m.id].groups
      BY <1>2, <2>1, <2>3, <3>1, <3>2, FeaturesEffectsLists
    <3> HIDE DEF m
    <3> QED
      BY <1>1, <2>3, <3>1, <3>2, <3>3, RewriteWhole
  <2>4. CASE Store!SetRights(m)
    <3>1. PICK e \in RightsEffects(doc[m.id], m) : doc' = [doc EXCEPT ![m.id] = e]
      BY <2>4, StoreOperators DEF Store!SetRights, Store!Rewrite
    <3>2. m.id \in Ids /\ m.cmd = "RIGHTS" /\ m.rights # NoRights /\ doc[m.id] \in Entry
      BY <1>2, <2>4 DEF Store!SetRights
    <3>3. m.rights \in ResourceRightsBase
      BY <2>1, <3>2 DEF ResourceCommand
    <3>4. FromOneCommand(m.id, e)
      BY <2>1, <3>1, <3>2, <3>3, RightsEffectsLists DEF FromOneCommand
    <3> QED
      BY <1>1, <3>1, <3>2, <3>4, RewriteWhole
  <2>5. CASE Store!Delete(m)
    BY <1>1, <2>5, RewriteWhole DEF Store!Delete, Store!Rewrite
  <2> QED
    BY <1>5, <2>2, <2>3, <2>4, <2>5
<1>6. ASSUME NEW i \in DOMAIN log["annotation"], Store!Annotate(log["annotation"][i])
      PROVE  RightsComeWhole'
  <2> DEFINE m == log["annotation"][i]
  <2>1. m \in AnnotationMsg /\ m.ids \in Seq(Ids)
    BY <1>3 DEF AnnotationMsg
  <2>2. PICK j \in DOMAIN m.ids : /\ doc[m.ids[j]] # NoDoc
                                  /\ doc' = [doc EXCEPT ![m.ids[j]] =
                                               AnnotationEffect(doc[m.ids[j]], m)]
    BY <1>6, StoreOperators DEF Store!Annotate, Store!Rewrite
  <2>3. m.ids[j] \in Ids
    BY <2>1, <2>2
  <2>4. doc[m.ids[j]] \in Entry
    BY <1>2, <2>2, <2>3
  <2>5. /\ AnnotationEffect(doc[m.ids[j]], m).users = doc[m.ids[j]].users
        /\ AnnotationEffect(doc[m.ids[j]], m).groups = doc[m.ids[j]].groups
    BY <2>1, <2>4, AnnotationEffectType
  <2> HIDE DEF m
  <2> QED
    BY <1>1, <2>2, <2>3, <2>5, RewriteWhole
<1> QED
  BY <1>4, <1>5, <1>6 DEF Store!StoreNext, Store!Messages

\* As long as no permission command is about a document, its lists are, as a
\* whole, those its creation or one RIGHTS command made (UpdateRights clears
\* and sets eight lists), for all interleavings, retries and redeliveries.
THEOREM RightsStayWhole == Spec => []RightsComeWhole
<1>1. Init => RightsComeWhole
  BY DEF Init, RightsComeWhole
<1>2. Init => BulkOK
  BY DEF Init, BulkOK
<1>3. ASSUME IInv, BulkOK, RightsComeWhole, [Next]_vars
      PROVE  BulkOK' /\ RightsComeWhole'
  <2>1. TypeOK /\ BulkOK'
    BY <1>3, BulkStep DEF IInv
  <2>2. CASE Store!StoreNext
    BY <1>3, <2>1, <2>2, WholeStep
  <2>3. CASE UNCHANGED Store!storeVars
    <3>1. log' = log /\ doc' = doc
      BY <2>3 DEF Store!storeVars
    <3>2. RightsComeWhole' <=> RightsComeWhole
      BY <3>1 DEF RightsComeWhole
    <3> QED
      BY <1>3, <2>1, <3>2
  <2> QED
    BY <1>3, <2>1, <2>2, <2>3, StepRefines
<1> QED
  BY <1>1, <1>2, <1>3, Invariance, PTL DEF Spec
-----------------------------------------------------------------------------
(* A consequence for the configuration of initial rights.                  *)

\* A document has at least the sequence number of its creation, and with
\* that number the group lists of its creation.
FirstVersion ==
  \A id \in Ids :
    doc[id] # NoDoc =>
      /\ ver[id] >= 1
      /\ ver[id] = 1 => \A r \in Right : doc[id].groups[r] = Configured(r)

\* Only a creation writes where nothing is.
LEMMA WritesOver ==
  ASSUME OrderDoesNotMatter, [Next]_vars
  PROVE  \/ UNCHANGED <<doc, ver>>
         \/ \E id, e :
              /\ Write(id, e)
              /\ \/ e = NoDoc
                 \/ doc[id] # NoDoc
                 \/ \A r \in Right : e.groups[r] = Configured(r)
<1>1. ASSUME NEW c \in Consumer, Index(c)
      PROVE  UNCHANGED <<doc, ver>> \/ \E id, e : Write(id, e) /\ doc[id] # NoDoc
  BY <1>1 DEF Index, Unchanged
<1>2. ASSUME Create
      PROVE  \E id, e : Write(id, e) /\ \A r \in Right : e.groups[r] = Configured(r)
  <2>1. PICK e \in NewEntries(Msg("resource").owner, Msg("resource").features) :
          Write(Msg("resource").id, e)
    BY <1>2 DEF Create
  <2>2. PICK order \in VisitOrders : e.groups = GroupsAfterLoop(order)
    BY <2>1 DEF NewEntries
  <2>3. \A r \in Right : e.groups[r] = Configured(r)
    BY <2>2, InitialRightsExactly
  <2> QED
    BY <2>1, <2>3
<1>3. ASSUME DeleteFeatures
      PROVE  UNCHANGED <<doc, ver>> \/ \E id : Write(id, NoDoc)
  BY <1>3 DEF DeleteFeatures
<1>4. ASSUME NEW i, BulkFlush(i)
      PROVE  UNCHANGED <<doc, ver>> \/ \E id, e : Write(id, e) /\ doc[id] # NoDoc
  BY <1>4 DEF BulkFlush, storeVars
<1>5. \/ \E c \in Consumer : Index(c)
      \/ Create \/ DeleteFeatures
      \/ \E i : BulkFlush(i)
      \/ UNCHANGED <<doc, ver>>
  BY DEF Next, ConsumerStep, Fetch, HandlerError, Commit, ResourceExists, GetResourceEntry,
         SendDone, BulkAdd, RequestFails, FetchTimeout, BulkLost, Crash, vars, storeVars
<1> QED
  BY <1>1, <1>2, <1>3, <1>4, <1>5

\* The groups of a new document are those of the configuration, whatever the
\* other consumers, faults and crashes do to its creation, if the iteration
\* order of the map does not matter (UpdateFeatures, SetDefaultPermissions).
\* InitialRightsExactly says that no weaker condition is enough.
THEOREM InitialRightsIfUnordered ==
  ASSUME OrderDoesNotMatter
  PROVE  Spec => []InitialRightsAsConfigured
<1>1. Init => FirstVersion
  BY DEF Init, FirstVersion
<1>2. ASSUME IInv, FirstVersion, [Next]_vars
      PROVE  FirstVersion'
  <2>1. ver \in [Ids -> Nat] /\ doc \in [Ids -> Entry \cup {NoDoc}]
    BY <1>2 DEF IInv, TypeOK, StoreTypeOK
  <2>2. CASE UNCHANGED <<doc, ver>>
    BY <1>2, <2>2 DEF FirstVersion
  <2>3. ASSUME NEW id, NEW e, Write(id, e),
               \/ e = NoDoc
               \/ doc[id] # NoDoc
               \/ \A r \in Right : e.groups[r] = Configured(r)
        PROVE  FirstVersion'
    <3> SUFFICES ASSUME NEW x \in Ids, doc'[x] # NoDoc
                 PROVE  /\ ver'[x] >= 1
                        /\ ver'[x] = 1 => \A r \in Right : doc'[x].groups[r] = Configured(r)
      BY DEF FirstVersion
    <3>1. CASE x # id
      BY <1>2, <2>1, <2>3, <3>1 DEF Write, FirstVersion
    <3>2. CASE x = id
      <4>1. doc'[x] = e /\ ver'[x] = ver[x] + 1 /\ ver[x] \in Nat
        BY <2>1, <2>3, <3>2 DEF Write
      <4>2. doc[x] # NoDoc => ver[x] >= 1
        BY <1>2 DEF FirstVersion
      <4> QED
        BY <2>3, <3>2, <4>1, <4>2
    <3> QED
      BY <3>1, <3>2
  <2> QED
    BY <1>2, <2>2, <2>3, WritesOver
<1>3. FirstVersion => InitialRightsAsConfigured
  BY DEF FirstVersion, InitialRightsAsConfigured, Configured
<1> QED
  BY <1>1, <1>2, <1>3, Invariance, PTL DEF Spec
=============================================================================
