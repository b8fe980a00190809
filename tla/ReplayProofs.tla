---------------------------- MODULE ReplayProofs ----------------------------
(***************************************************************************)
(* Proofs about Replay: for any ids, entries, page size, commands of       *)
(* others and faults, a replay sends every id at most once and changes     *)
(* only the rights of entries that others changed meanwhile.               *)
(***************************************************************************)
EXTENDS Replay, RightsProofs, SequenceTheorems, FiniteSetTheorems

\* The lists of an entry survive being reported and set again
\* (ToResourceRights, SetResourceRights on an emptied entry).
THEOREM RightsRoundTrip ==
  ASSUME NEW S, NEW h \in Holders(S)
  PROVE  /\ ToResourceRights(h) \in RightsOf(S)
         /\ SetResourceRights(NoHolders, ToResourceRights(h)) = h
<1> DEFINE T == UNION Range(h)
<1>1. Range(h) = {h[r] : r \in Right}
  BY DEF Range, Holders
<1>2. T \in SUBSET S
  BY <1>1 DEF Holders
<1>3. ToResourceRights(h) \in [T -> SUBSET Right]
  BY DEF ToResourceRights
<1>4. ToResourceRights(h) \in RightsOf(S)
  BY <1>2, <1>3 DEF RightsOf
<1>5. ASSUME NEW r \in Right
      PROVE  {s \in DOMAIN ToResourceRights(h) : r \in ToResourceRights(h)[s]} = h[r]
  BY <1>1 DEF ToResourceRights
<1>6. h = [r \in Right |-> h[r]]
  BY DEF Holders
<1> QED
  BY <1>4, <1>5, <1>6 DEF SetResourceRights, NoHolders

\* The report of an entry is one of the maps of a RIGHTS command.
LEMMA RightsType ==
  ASSUME NEW e \in Entry
  PROVE  Rights(e) \in ResourceRightsBase
BY RightsRoundTrip DEF Rights, ResourceRightsBase, Entry

-----------------------------------------------------------------------------
\* The entry of a snapshot has the rights of the snapshot, unless others
\* changed it.
Fits(id, rights) ==
  id \notin changed => doc[id] # NoDoc /\ rights = Rights(doc[id])

CurrentOK ==
  /\ \A s \in page : Fits(s.id, s.rights)
  /\ \A j \in DOMAIN channel : Fits(channel[j].id, channel[j].rights)
  /\ \A p \in replayed : topic[p].cmd = "RIGHTS" /\ Fits(topic[p].id, topic[p].rights)

\* The ids ascend from what was sent over the channel to the page, and the
\* next search begins behind all that left the page.
Left(id) == lastId # NoId /\ id <= lastId

OrderOK ==
  /\ SentInOrder
  /\ \A i, j \in DOMAIN channel : i < j => channel[i].id < channel[j].id
  /\ \A i \in DOMAIN sent, j \in DOMAIN channel : sent[i] < channel[j].id
  /\ \A i \in DOMAIN sent : Left(sent[i])
  /\ \A j \in DOMAIN channel : Left(channel[j].id)
  /\ \A p \in replayed : topic[p].id \in Ids /\ Left(topic[p].id)
  /\ \A s \in page : ~Left(s.id)
  /\ \A s, t \in page : s.id = t.id => s = t

IInv == TypeOK /\ OrderOK /\ CurrentOK

-----------------------------------------------------------------------------
LEMMA IdsAreNumbers == NoId \notin Ids /\ Ids \subseteq Nat
BY CommandsAssumption, ReplayAssumption

LEMMA InitOK == Init => IInv
<1> SUFFICES ASSUME Init PROVE IInv
  OBVIOUS
<1>1. TypeOK
  BY ReplayAssumption, CommandsAssumption DEF Init, TypeOK, Found
<1>2. OrderOK
  BY DEF Init, OrderOK, SentInOrder
<1>3. CurrentOK
  BY DEF Init, CurrentOK
<1> QED
  BY <1>1, <1>2, <1>3 DEF IInv

\* Entries on the channel are snapshots of ids of the kind.
LEMMA ChannelIds ==
  ASSUME TypeOK
  PROVE  \A j \in DOMAIN channel : channel[j] \in Snapshot /\ channel[j].id \in Ids
<1>1. \A j \in DOMAIN channel : channel[j] \in Snapshot
  BY DEF TypeOK
<1>2. \A s \in Snapshot : s.id \in Ids
  BY DEF Snapshot
<1> QED
  BY <1>1, <1>2

\* What a page of a search consists of.
LEMMA PageIds ==
  ASSUME TypeOK
  PROVE  /\ Page \subseteq Ids
         /\ \A d \in Page : seen[d] \in Entry /\ seen[d] # NoDoc /\ ~Left(d)
<1>1. Page \subseteq {d \in Found : lastId = NoId \/ d > lastId}
  BY DEF Page, First
<1> QED
  BY <1>1, IdsAreNumbers DEF Found, TypeOK, Left

LEMMA SearchOK == IInv /\ Search => IInv'
<1> SUFFICES ASSUME IInv, Search PROVE IInv'
  OBVIOUS
<1> USE DEF IInv
<1>1. /\ page' = {[id |-> d, rights |-> Rights(seen[d])] : d \in Page}
      /\ changed' = {d \in Ids : IF d \in Page THEN ~SameRights(seen[d], doc[d])
                                              ELSE d \in changed}
      /\ UNCHANGED <<doc, seen, next, topic, lastId, channel, sender, sent, replayed,
                     steady, foreign, faults, restarts>>
  BY DEF Search, indexVars, senderVars, boundVars
<1>2. TypeOK'
  <2>1. page' \subseteq Snapshot
    BY <1>1, PageIds, RightsType DEF Snapshot
  <2>2. pc' \in {"search", "push", "last", "closed"}
    BY DEF Search, AfterPage
  <2> QED
    BY <1>1, <2>1, <2>2 DEF TypeOK
<1>3. OrderOK'
  <2>1. \A s \in page' : ~Left(s.id)'
    BY <1>1, PageIds DEF Left
  <2>2. \A s, t \in page' : s.id = t.id => s = t
    BY <1>1
  <2> QED
    BY <1>1, <2>1, <2>2 DEF OrderOK, SentInOrder, Left
<1>4. CurrentOK'
  <2>1. ASSUME NEW s \in page' PROVE Fits(s.id, s.rights)'
    <3>1. PICK d \in Page : s = [id |-> d, rights |-> Rights(seen[d])]
      BY <1>1
    <3>2. d \in Ids
      BY <3>1, PageIds
    <3>3. d \notin changed' => SameRights(seen[d], doc[d])
      BY <1>1, <3>2
    <3> QED
      BY <1>1, <3>1, <3>3 DEF Fits, SameRights, Rights
  <2>2. ASSUME NEW id \in Ids, NEW rights, Left(id), Fits(id, rights)
        PROVE  Fits(id, rights)'
    <3>1. id \notin Page
      BY <2>2, PageIds
    <3> QED
      BY <1>1, <2>2, <3>1 DEF Fits
  <2>3. ASSUME NEW j \in DOMAIN channel' PROVE Fits(channel[j].id, channel[j].rights)'
    <3>1. /\ j \in DOMAIN channel
          /\ channel[j].id \in Ids
          /\ Left(channel[j].id) /\ Fits(channel[j].id, channel[j].rights)
      BY <1>1, ChannelIds DEF OrderOK, CurrentOK
    <3> QED
      BY <1>1, <2>2, <3>1 DEF Fits
  <2>4. ASSUME NEW p \in replayed'
        PROVE  topic'[p].cmd = "RIGHTS" /\ Fits(topic[p].id, topic[p].rights)'
    <3>1. /\ p \in replayed
          /\ topic[p].id \in Ids /\ topic[p].cmd = "RIGHTS"
          /\ Left(topic[p].id) /\ Fits(topic[p].id, topic[p].rights)
      BY <1>1 DEF OrderOK, CurrentOK
    <3> QED
      BY <1>1, <2>2, <3>1 DEF Fits
  <2> QED
    BY <2>1, <2>3, <2>4 DEF CurrentOK
<1> QED
  BY <1>2, <1>3, <1>4

\* An entry that goes on the channel is behind all others there.
LEMMA PushOK == IInv /\ Push => IInv'
<1> SUFFICES ASSUME IInv, Push PROVE IInv'
  OBVIOUS
<1> USE DEF IInv
<1>1. PICK s \in page :
        /\ \A t \in page : s.id <= t.id
        /\ channel' = Append(channel, s)
        /\ lastId' = s.id
        /\ page' = page \ {s}
  BY DEF Push
<1>2. /\ Len(channel) < BatchSize
      /\ pc' \in {"push", "last", "closed", "search"}
      /\ UNCHANGED <<doc, seen, next, topic, sender, sent, replayed, steady, changed,
                     foreign, faults, restarts>>
  BY DEF Push, indexVars, senderVars, historyVars, boundVars
<1>3. s \in Snapshot /\ s.id \in Ids /\ s.id \in Nat /\ s.id # NoId /\ ~Left(s.id)
  BY IdsAreNumbers DEF TypeOK, Snapshot, OrderOK
<1>4. /\ channel' \in Seq(Snapshot)
      /\ Len(channel') = Len(channel) + 1
      /\ DOMAIN channel' = 1..(Len(channel) + 1)
      /\ \A j \in DOMAIN channel : channel'[j] = channel[j]
      /\ channel'[Len(channel) + 1] = s
  BY <1>1, <1>3, AppendProperties DEF TypeOK
<1>5. \A id \in Ids : Left(id) => id < s.id /\ Left(id)'
  BY <1>1, <1>3, IdsAreNumbers DEF Left, TypeOK
<1>6. \A j \in DOMAIN channel : channel[j].id < s.id
  BY <1>5, ChannelIds DEF OrderOK
<1>7. DOMAIN channel = 1..Len(channel) /\ Len(channel) \in Nat
  BY DEF TypeOK
<1>8. TypeOK'
  <2>1. Len(channel') <= BatchSize
    BY <1>2, <1>4, <1>7, ReplayAssumption
  <2>2. page' \subseteq Snapshot /\ lastId' \in Ids
    BY <1>1, <1>3 DEF TypeOK
  <2> QED
    BY <1>2, <1>4, <2>1, <2>2 DEF TypeOK
<1>9. OrderOK'
  <2>1. SentInOrder'
    BY <1>2 DEF OrderOK, SentInOrder
  <2>2. \A i, j \in DOMAIN channel' : i < j => channel'[i].id < channel'[j].id
    BY <1>4, <1>6, <1>7 DEF OrderOK
  <2>3. \A i \in DOMAIN sent : sent[i] \in Ids
    BY DEF TypeOK
  <2>4. \A i \in DOMAIN sent', j \in DOMAIN channel' : sent'[i] < channel'[j].id
    BY <1>2, <1>4, <1>5, <1>7, <2>3 DEF OrderOK
  <2>5. \A i \in DOMAIN sent' : Left(sent[i])'
    BY <1>2, <1>5, <2>3 DEF OrderOK, Left
  <2>6. \A j \in DOMAIN channel' : Left(channel[j].id)'
    <3>1. Left(s.id)'
      BY <1>1, <1>3 DEF Left
    <3>2. \A j \in DOMAIN channel : Left(channel[j].id)'
      BY <1>4, <1>5, ChannelIds DEF OrderOK, Left
    <3> QED
      BY <1>4, <1>7, <3>1, <3>2 DEF Left
  <2>7. \A p \in replayed' : topic'[p].id \in Ids /\ Left(topic[p].id)'
    BY <1>2, <1>5 DEF OrderOK, Left
  <2>8. \A t \in page' : ~Left(t.id)'
    <3>1. ASSUME NEW t \in page, t # s PROVE s.id < t.id
      <4>1. t.id \in Nat /\ s.id # t.id /\ s.id <= t.id
        BY <1>1, <3>1, IdsAreNumbers DEF TypeOK, Snapshot, OrderOK
      <4> QED
        BY <1>3, <4>1
    <3>2. \A t \in page : t.id \in Nat
      BY IdsAreNumbers DEF TypeOK, Snapshot
    <3> QED
      BY <1>1, <1>3, <3>1, <3>2 DEF Left
  <2>9. \A t, u \in page' : t.id = u.id => t = u
    BY <1>1 DEF OrderOK
  <2> QED
    BY <2>1, <2>2, <2>4, <2>5, <2>6, <2>7, <2>8, <2>9 DEF OrderOK
<1>10. CurrentOK'
  <2>1. \A t \in page' : Fits(t.id, t.rights)'
    BY <1>1, <1>2 DEF CurrentOK, Fits
  <2>2. \A j \in DOMAIN channel' : Fits(channel[j].id, channel[j].rights)'
    BY <1>1, <1>2, <1>4, <1>7 DEF CurrentOK, Fits
  <2>3. \A p \in replayed' : topic'[p].cmd = "RIGHTS" /\ Fits(topic[p].id, topic[p].rights)'
    BY <1>2 DEF CurrentOK, Fits
  <2> QED
    BY <2>1, <2>2, <2>3 DEF CurrentOK
<1> QED
  BY <1>8, <1>9, <1>10

-----------------------------------------------------------------------------
\* A replayed command is a command of the resource topic.
LEMMA RightsCommandType ==
  ASSUME NEW s \in Snapshot
  PROVE  /\ RightsCommand(s) \in ResourceCommand
         /\ RightsCommand(s).cmd = "RIGHTS"
         /\ RightsCommand(s).id = s.id
         /\ RightsCommand(s).rights = s.rights
<1>1. (CHOOSE f \in Features : TRUE) \in Features
  BY ReplayAssumption
<1>2. s.id \in Ids /\ s.rights \in ResourceRightsBase
  BY DEF Snapshot
<1> QED
  BY <1>1, <1>2 DEF RightsCommand, ResourceCommand

\* What a producer call does to the topic.
LEMMA ProduceTopic ==
  ASSUME TypeOK, NEW n \in Nat, Produce(n)
  PROVE  /\ Head(channel) \in Snapshot
         /\ topic' \in Seq(ResourceCommand)
         /\ Len(topic') = Len(topic) + n
         /\ \A p \in 1..Len(topic) : topic'[p] = topic[p]
         /\ \A p \in (Len(topic) + 1)..(Len(topic) + n) :
              topic'[p] = RightsCommand(Head(channel))
<1> DEFINE c == RightsCommand(Head(channel))
           copies == [i \in 1..n |-> c]
<1>1. Head(channel) \in Snapshot
  BY HeadTailProperties DEF TypeOK, Produce
<1>2. c \in ResourceCommand
  BY <1>1, RightsCommandType
<1> HIDE DEF c
<1>3. copies \in Seq(ResourceCommand) /\ Len(copies) = n
  BY <1>2
<1>4. topic' = topic \o copies
  BY DEF Produce, c
<1>5. topic \in Seq(ResourceCommand) /\ Len(topic) \in Nat
  BY DEF TypeOK
<1>6. \A i \in 1..n : copies[i] = c
  OBVIOUS
<1> HIDE DEF copies
<1>7. /\ topic' \in Seq(ResourceCommand)
      /\ Len(topic') = Len(topic) + n
      /\ \A p \in 1..(Len(topic) + n) :
           topic'[p] = IF p <= Len(topic) THEN topic[p] ELSE copies[p - Len(topic)]
  BY <1>3, <1>4, <1>5, ConcatProperties
<1>8. \A p \in 1..Len(topic) : topic'[p] = topic[p]
  BY <1>5, <1>7
<1>9. \A p \in (Len(topic) + 1)..(Len(topic) + n) : topic'[p] = c
  BY <1>5, <1>6, <1>7
<1> QED
  BY <1>1, <1>7, <1>8, <1>9 DEF c

LEMMA ProduceOK ==
  ASSUME IInv, NEW n \in Nat, Produce(n),
         UNCHANGED <<doc, seen, next, pc, lastId, page, steady, changed, foreign, restarts>>,
         sender' \in {"run", "stopped"}, faults' \in 0..MaxFaults
  PROVE  IInv'
<1> USE DEF IInv
<1> DEFINE h == Head(channel)
<1>1. /\ channel # <<>>
      /\ channel' = Tail(channel)
      /\ replayed' = replayed \cup (Len(topic) + 1)..(Len(topic) + n)
      /\ sent' = Append(sent, h.id)
  BY DEF Produce
<1>2. /\ h \in Snapshot /\ h = channel[1]
      /\ channel' \in Seq(Snapshot)
      /\ DOMAIN channel = 1..Len(channel) /\ Len(channel) \in Nat \ {0}
      /\ DOMAIN channel' = 1..(Len(channel) - 1)
      /\ \A j \in DOMAIN channel' : channel'[j] = channel[j + 1]
  BY <1>1, HeadTailProperties DEF TypeOK
<1>3. /\ topic' \in Seq(ResourceCommand)
      /\ Len(topic') = Len(topic) + n
      /\ \A p \in 1..Len(topic) : topic'[p] = topic[p]
      /\ \A p \in (Len(topic) + 1)..(Len(topic) + n) : topic'[p] = RightsCommand(h)
  BY ProduceTopic
<1>4. /\ h.id \in Ids /\ h.id \in Nat /\ Left(h.id) /\ Fits(h.id, h.rights)
  <2>1. 1 \in DOMAIN channel
    BY <1>2
  <2>2. h.id \in Ids
    BY <1>2 DEF Snapshot
  <2> QED
    BY <1>2, <2>1, <2>2, IdsAreNumbers DEF OrderOK, CurrentOK
<1>5. /\ sent' \in Seq(Ids)
      /\ DOMAIN sent = 1..Len(sent) /\ Len(sent) \in Nat
      /\ DOMAIN sent' = 1..(Len(sent) + 1)
      /\ \A i \in DOMAIN sent : sent'[i] = sent[i]
      /\ sent'[Len(sent) + 1] = h.id
  <2>1. sent \in Seq(Ids)
    BY DEF TypeOK
  <2> HIDE DEF IInv, h
  <2> QED
    BY <1>1, <1>4, <2>1, AppendProperties
<1>6. \A p \in replayed : p \in 1..Len(topic)
  BY DEF TypeOK
<1>7. Len(topic) \in Nat
  BY DEF TypeOK
<1> HIDE DEF h
<1>8. TypeOK'
  <2>1. replayed' \subseteq 1..Len(topic')
    BY <1>1, <1>3, <1>6, <1>7
  <2>2. next' \in 0..Len(topic')
    BY <1>3, <1>7 DEF TypeOK
  <2>3. Len(channel') <= BatchSize
    BY <1>2, ReplayAssumption DEF TypeOK
  <2> QED
    BY <1>2, <1>3, <1>5, <2>1, <2>2, <2>3 DEF TypeOK
<1>9. OrderOK'
  <2>1. SentInOrder'
    BY <1>2, <1>5 DEF OrderOK, SentInOrder
  <2>2. \A i, j \in DOMAIN channel' : i < j => channel'[i].id < channel'[j].id
    BY <1>2 DEF OrderOK
  <2>3. \A i \in DOMAIN sent', j \in DOMAIN channel' : sent'[i] < channel'[j].id
    BY <1>2, <1>5 DEF OrderOK
  <2>4. \A i \in DOMAIN sent' : Left(sent[i])'
    BY <1>4, <1>5 DEF OrderOK, Left
  <2>5. \A j \in DOMAIN channel' : Left(channel[j].id)'
    BY <1>2 DEF OrderOK, Left
  <2>6. \A p \in replayed' : topic'[p].id \in Ids /\ Left(topic[p].id)'
    <3>1. \A p \in replayed : topic'[p].id \in Ids /\ Left(topic[p].id)'
      BY <1>3, <1>6 DEF OrderOK, Left
    <3>2. ASSUME NEW p \in (Len(topic) + 1)..(Len(topic) + n)
          PROVE  topic'[p].id \in Ids /\ Left(topic[p].id)'
      <4>1. topic'[p].id = h.id
        BY <1>2, <1>3, RightsCommandType
      <4> QED
        BY <1>4, <4>1 DEF Left
    <3> QED
      BY <1>1, <3>1, <3>2
  <2> QED
    BY <2>1, <2>2, <2>3, <2>4, <2>5, <2>6 DEF OrderOK, Left
<1>10. CurrentOK'
  <2>1. \A t \in page' : Fits(t.id, t.rights)'
    BY DEF CurrentOK, Fits
  <2>2. \A j \in DOMAIN channel' : Fits(channel[j].id, channel[j].rights)'
    BY <1>2 DEF CurrentOK, Fits
  <2>3. \A p \in replayed' : topic'[p].cmd = "RIGHTS" /\ Fits(topic[p].id, topic[p].rights)'
    <3>1. ASSUME NEW p \in replayed
          PROVE  topic'[p].cmd = "RIGHTS" /\ Fits(topic[p].id, topic[p].rights)'
      BY <1>3, <1>6 DEF CurrentOK, Fits
    <3>2. ASSUME NEW p \in (Len(topic) + 1)..(Len(topic) + n)
          PROVE  topic'[p].cmd = "RIGHTS" /\ Fits(topic[p].id, topic[p].rights)'
      <4>1. /\ topic'[p].cmd = "RIGHTS"
            /\ topic'[p].id = h.id /\ topic'[p].rights = h.rights
        BY <1>2, <1>3, RightsCommandType
      <4> QED
        BY <1>4, <4>1 DEF Fits
    <3> QED
      BY <1>1, <3>1, <3>2
  <2> QED
    BY <2>1, <2>2, <2>3 DEF CurrentOK
<1> QED
  BY <1>8, <1>9, <1>10

LEMMA SendOK == IInv /\ (Send \/ SendFails) => IInv'
<1>1. ASSUME IInv, Send PROVE IInv'
  <2>1. PICK n \in {1, 2} : Produce(n) /\ faults' \in 0..MaxFaults
    BY <1>1, ReplayAssumption DEF Send, IInv, TypeOK
  <2>2. sender' = sender /\ sender = "run"
    BY <1>1, <2>1 DEF Send, Produce
  <2> QED
    BY <1>1, <2>1, <2>2, ProduceOK
       DEF Send, indexVars, scanVars, historyVars
<1>2. ASSUME IInv, SendFails PROVE IInv'
  <2>1. PICK n \in 0..1 : Produce(n)
    BY <1>2 DEF SendFails
  <2>2. faults' \in 0..MaxFaults /\ sender' = "stopped"
    BY <1>2, ReplayAssumption DEF SendFails, IInv, TypeOK
  <2> QED
    BY <1>2, <2>1, <2>2, ProduceOK
       DEF SendFails, indexVars, scanVars, historyVars
<1> QED
  BY <1>1, <1>2

-----------------------------------------------------------------------------
\* The operators of the abstract store are those of Commands.
LEMMA StoreOperators ==
  /\ \A e, m : Store!PermEffect(e, m) = PermEffect(e, m)
  /\ \A e, m : Store!FeaturesEffects(e, m) = FeaturesEffects(e, m)
  /\ \A e, m : Store!RightsEffects(e, m) = RightsEffects(e, m)
  /\ \A o, f : Store!NewEntries(o, f) = NewEntries(o, f)
  /\ \A m : Store!IsPermUpdate(m) = IsPermUpdate(m)
<1>1. \A e, m : Store!PermEffect(e, m) = PermEffect(e, m)
  BY DEF Store!PermEffect, PermEffect, Store!AddUserRights, AddUserRights, Store!AddGroupRights,
         AddGroupRights, Store!RemoveUserRights, RemoveUserRights, Store!RemoveGroupRights,
         RemoveGroupRights, Store!Right, Right
<1>2. \A e, o : Store!CreatorFallback(e, o) = CreatorFallback(e, o)
  BY DEF Store!CreatorFallback, CreatorFallback
<1>3. \A e, m : Store!FeaturesEffects(e, m) = FeaturesEffects(e, m)
  BY <1>2 DEF Store!FeaturesEffects, FeaturesEffects
<1>4. \A e, m : Store!RightsEffects(e, m) = RightsEffects(e, m)
  BY <1>2 DEF Store!RightsEffects, RightsEffects, Store!SetResourceRights, SetResourceRights,
              Store!NoHolders, NoHolders, Store!Right, Right
<1>5. \A o, f : Store!NewEntries(o, f) = NewEntries(o, f)
  <2>1. Store!VisitOrders = VisitOrders
    BY DEF Store!VisitOrders, VisitOrders, Store!Bijection, Bijection, Store!Injection, Injection,
           Store!Surjection, Surjection, Store!IsInjective, IsInjective, Store!Cardinality,
           Cardinality
  <2>2. \A order : Store!GroupsAfterLoop(order) = GroupsAfterLoop(order)
    BY DEF Store!GroupsAfterLoop, GroupsAfterLoop, Store!Right, Right
  <2>3. \A o : Store!OwnerRights(o) = OwnerRights(o)
    BY DEF Store!OwnerRights, OwnerRights, Store!Right, Right
  <2>4. Store!NoAnnotations = NoAnnotations
    BY DEF Store!NoAnnotations, NoAnnotations
  <2> QED
    BY <2>1, <2>2, <2>3, <2>4 DEF Store!NewEntries, NewEntries
<1>6. \A m : Store!IsPermUpdate(m) = IsPermUpdate(m)
  BY DEF Store!IsPermUpdate, IsPermUpdate
<1> QED
  BY <1>1, <1>3, <1>4, <1>5, <1>6

\* Commands leave entries where entries were, or none.
LEMMA ApplyType ==
  ASSUME TypeOK, NEW m \in ResourceCommand, Apply(m)
  PROVE  doc' \in [Ids -> Entry \cup {NoDoc}]
<1>1. doc \in [Ids -> Entry \cup {NoDoc}]
  BY DEF TypeOK
<1>2. m.owner \in Users \cup {NoUser} /\ m.features \in Features
  BY DEF ResourceCommand
<1>3. ASSUME NEW e \in Entry \cup {NoDoc}, Store!Rewrite(m.id, e)
      PROVE  doc' \in [Ids -> Entry \cup {NoDoc}]
  BY <1>1, <1>3 DEF Store!Rewrite
<1>4. CASE Store!PutFeatures(m)
  <2>1. m.id \in Ids
    BY <1>4 DEF Store!PutFeatures
  <2>2. CASE doc[m.id] = NoDoc
    BY <1>2, <1>3, <1>4, <2>2, StoreOperators, NewEntriesType DEF Store!PutFeatures
  <2>3. CASE doc[m.id] # NoDoc
    <3>1. doc[m.id] \in Entry
      BY <1>1, <2>1, <2>3
    <3> QED
      BY <1>3, <1>4, <2>3, <3>1, StoreOperators, FeaturesEffectsType DEF Store!PutFeatures
  <2> QED
    BY <2>2, <2>3
<1>5. CASE Store!SetRights(m)
  <2>1. m.rights # NoRights /\ doc[m.id] \in Entry
    BY <1>1, <1>5 DEF Store!SetRights
  <2> QED
    BY <1>3, <1>5, <2>1, StoreOperators, RightsEffectsType DEF Store!SetRights
<1>6. CASE Store!Delete(m)
  BY <1>3, <1>6 DEF Store!Delete
<1>7. CASE UNCHANGED doc
  BY <1>1, <1>7
<1> QED
  BY <1>4, <1>5, <1>6, <1>7 DEF Apply

\* Rights that are set as they were reported are the same rights.
LEMMA SetAsReported ==
  ASSUME NEW e \in Entry, NEW m \in ResourceCommand, m.rights # NoRights,
         m.rights = Rights(e), NEW f \in RightsEffects(e, m)
  PROVE  f.users = e.users /\ f.groups = e.groups
<1> DEFINE g == [e EXCEPT !.users  = SetResourceRights(NoHolders, m.rights.users),
                          !.groups = SetResourceRights(NoHolders, m.rights.groups)]
<1>1. e.users \in Holders(Users) /\ e.groups \in Holders(Groups)
  BY DEF Entry
<1>2. /\ SetResourceRights(NoHolders, m.rights.users) = e.users
      /\ SetResourceRights(NoHolders, m.rights.groups) = e.groups
  BY <1>1, RightsRoundTrip DEF Rights
<1>3. g = e
  BY <1>2 DEF Entry
<1>4. m.owner \in Users \cup {NoUser} /\ f \in CreatorFallback(g, m.owner)
  BY DEF ResourceCommand, RightsEffects
<1> HIDE DEF g
<1> QED
  BY <1>3, <1>4, CreatorFallbackType

\* A replayed command gives an entry nobody else changed its own rights.
LEMMA ReplayedOK ==
  ASSUME IInv, NEW p \in replayed, Apply(topic[p])
  PROVE  /\ topic[p].id \in Ids
         /\ \A d \in Ids : d # topic[p].id => doc'[d] = doc[d]
         /\ topic[p].id \notin changed => SameRights(doc[topic[p].id], doc'[topic[p].id])
<1> DEFINE m == topic[p]
<1>1. m \in ResourceCommand
  BY DEF IInv, TypeOK
<1>2. m.cmd = "RIGHTS" /\ m.id \in Ids /\ Fits(m.id, m.rights)
  BY DEF IInv, OrderOK, CurrentOK
<1>3. doc \in [Ids -> Entry \cup {NoDoc}]
  BY DEF IInv, TypeOK
<1> HIDE DEF m
<1>4. CASE Store!SetRights(m)
  <2>1. PICK f \in RightsEffects(doc[m.id], m) : doc' = [doc EXCEPT ![m.id] = f]
    BY <1>4, StoreOperators DEF Store!SetRights, Store!Rewrite
  <2>2. m.rights # NoRights /\ doc[m.id] \in Entry
    BY <1>2, <1>3, <1>4 DEF Store!SetRights
  <2>3. f \in Entry
    BY <1>1, <2>1, <2>2, RightsEffectsType
  <2>4. m.id \notin changed => f.users = doc[m.id].users /\ f.groups = doc[m.id].groups
    BY <1>1, <1>2, <2>1, <2>2, SetAsReported DEF Fits
  <2>5. f # NoDoc /\ doc[m.id] # NoDoc
    BY <2>2, <2>3, ReplayAssumption
  <2> QED
    BY <1>2, <1>3, <2>1, <2>4, <2>5 DEF SameRights, m
<1>5. CASE doc[m.id] = NoDoc /\ UNCHANGED doc
  BY <1>2, <1>5 DEF Fits, m
<1> QED
  BY <1>2, <1>4, <1>5 DEF Apply, Store!PutFeatures, Store!Delete, m

\* Documents may change as long as the changes are remembered.
LEMMA IndexOK ==
  ASSUME IInv,
         doc' \in [Ids -> Entry \cup {NoDoc}], seen' \in [Ids -> Entry \cup {NoDoc}],
         next' \in 0..Len(topic), steady' \subseteq Ids,
         changed' \subseteq Ids,
         \A d \in Ids : d \notin changed' =>
           d \notin changed /\ (doc'[d] = doc[d] \/ SameRights(doc[d], doc'[d])),
         foreign' \in 0..MaxForeign, restarts' \in 0..MaxRestarts,
         UNCHANGED <<topic, pc, lastId, page, channel, sender, sent, replayed, faults>>
  PROVE  IInv'
<1> USE DEF IInv
<1>1. TypeOK'
  BY DEF TypeOK
<1>2. OrderOK'
  BY DEF OrderOK, SentInOrder, Left
<1>3. CurrentOK'
  <2>1. ASSUME NEW id \in Ids, NEW rights, Fits(id, rights) PROVE Fits(id, rights)'
    BY <2>1 DEF Fits, SameRights, Rights
  <2>2. \A s \in page : s.id \in Ids
    BY DEF TypeOK, Snapshot
  <2>3. \A s \in page' : Fits(s.id, s.rights)'
    BY <2>1, <2>2 DEF CurrentOK
  <2>4. \A j \in DOMAIN channel' : Fits(channel[j].id, channel[j].rights)'
    BY <2>1, ChannelIds DEF CurrentOK
  <2>5. \A p \in replayed' : topic'[p].cmd = "RIGHTS" /\ Fits(topic[p].id, topic[p].rights)'
    BY <2>1 DEF CurrentOK, OrderOK
  <2> QED
    BY <2>3, <2>4, <2>5 DEF CurrentOK
<1> QED
  BY <1>1, <1>2, <1>3

LEMMA HandleCommandOK == IInv /\ HandleCommand => IInv'
<1> SUFFICES ASSUME IInv, HandleCommand PROVE IInv'
  OBVIOUS
<1>1. /\ next < Len(topic) /\ next' = next + 1
      /\ Apply(topic[next + 1])
      /\ UNCHANGED <<seen, topic, pc, lastId, page, channel, sender, sent, replayed, steady,
                     foreign, faults, restarts>>
  BY DEF HandleCommand, scanVars, senderVars, boundVars
<1>2. next \in Nat /\ Len(topic) \in Nat /\ topic[next + 1] \in ResourceCommand
  BY <1>1 DEF IInv, TypeOK
<1>3. next' \in 0..Len(topic)
  BY <1>1, <1>2
<1>4. doc' \in [Ids -> Entry \cup {NoDoc}]
  BY <1>1, <1>2, ApplyType DEF IInv
<1>5. /\ seen' \in [Ids -> Entry \cup {NoDoc}] /\ steady' \subseteq Ids
      /\ foreign' \in 0..MaxForeign /\ restarts' \in 0..MaxRestarts
  BY <1>1 DEF IInv, TypeOK
<1>6. CASE next + 1 \in replayed
  <2>1. changed' = changed /\ changed \subseteq Ids
    BY <1>6 DEF HandleCommand, IInv, TypeOK
  <2>2. \A d \in Ids : d \notin changed => doc'[d] = doc[d] \/ SameRights(doc[d], doc'[d])
    BY <1>1, <1>6, ReplayedOK
  <2> QED
    BY <1>1, <1>3, <1>4, <1>5, <2>1, <2>2, IndexOK
<1>7. CASE next + 1 \notin replayed
  <2>1. changed' = changed \cup {d \in Ids : ~SameRights(doc[d], doc'[d])}
    BY <1>7 DEF HandleCommand, Changed
  <2>2. changed \subseteq Ids
    BY DEF IInv, TypeOK
  <2> QED
    BY <1>1, <1>3, <1>4, <1>5, <2>1, <2>2, IndexOK
<1> QED
  BY <1>6, <1>7

LEMMA HandlePermissionOK ==
  ASSUME IInv, NEW m \in PermCommands, HandlePermission(m)
  PROVE  IInv'
<1>1. /\ foreign < MaxForeign /\ foreign' = foreign + 1
      /\ Store!SetPermission(m)
      /\ changed' = changed \cup {d \in Ids : ~SameRights(doc[d], doc'[d])}
      /\ UNCHANGED <<seen, topic, next, pc, lastId, page, channel, sender, sent, replayed, steady,
                     faults, restarts>>
  BY DEF HandlePermission, Changed, scanVars, senderVars
<1>2. m \in PermCommand
  BY ReplayAssumption
<1>3. /\ IsPermUpdate(m) /\ m.id \in Ids /\ doc[m.id] # NoDoc
      /\ doc' = [doc EXCEPT ![m.id] = PermEffect(doc[m.id], m)]
  BY <1>1, StoreOperators DEF Store!SetPermission, Store!Rewrite
<1>4. doc' \in [Ids -> Entry \cup {NoDoc}]
  <2>1. doc \in [Ids -> Entry \cup {NoDoc}]
    BY DEF IInv, TypeOK
  <2>2. PermEffect(doc[m.id], m) \in Entry
    BY <1>2, <1>3, <2>1, PermEffectType
  <2> QED
    BY <1>3, <2>1, <2>2
<1>5. /\ seen' \in [Ids -> Entry \cup {NoDoc}] /\ steady' \subseteq Ids
      /\ next' \in 0..Len(topic) /\ changed \subseteq Ids
      /\ restarts' \in 0..MaxRestarts
  BY <1>1 DEF IInv, TypeOK
<1>6. foreign' \in 0..MaxForeign
  BY <1>1, ReplayAssumption DEF IInv, TypeOK
<1> QED
  BY <1>1, <1>4, <1>5, <1>6, IndexOK

LEMMA ProduceForeignOK ==
  ASSUME IInv, NEW m \in ForeignCommands, ProduceForeign(m)
  PROVE  IInv'
<1>1. /\ foreign < MaxForeign /\ foreign' = foreign + 1
      /\ topic' = Append(topic, m)
      /\ UNCHANGED <<doc, seen, next, pc, lastId, page, channel, sender, sent, replayed, steady,
                     changed, faults, restarts>>
  BY DEF ProduceForeign, indexVars, scanVars, senderVars, historyVars
<1>2. m \in ResourceCommand
  BY ReplayAssumption
<1>3. /\ topic' \in Seq(ResourceCommand)
      /\ Len(topic) \in Nat /\ Len(topic') = Len(topic) + 1
      /\ \A p \in 1..Len(topic) : topic'[p] = topic[p]
  BY <1>1, <1>2, AppendProperties DEF IInv, TypeOK
<1>4. \A p \in replayed : p \in 1..Len(topic)
  BY DEF IInv, TypeOK
<1>5. TypeOK'
  <2>1. foreign' \in 0..MaxForeign
    BY <1>1, ReplayAssumption DEF IInv, TypeOK
  <2>2. next' \in 0..Len(topic')
    BY <1>1, <1>3 DEF IInv, TypeOK
  <2>3. replayed' \subseteq 1..Len(topic')
    BY <1>1, <1>3, <1>4
  <2> QED
    BY <1>1, <1>3, <2>1, <2>2, <2>3 DEF IInv, TypeOK
<1>6. OrderOK'
  BY <1>1, <1>3, <1>4 DEF IInv, OrderOK, SentInOrder, Left
<1>7. CurrentOK'
  BY <1>1, <1>3, <1>4 DEF IInv, CurrentOK, Fits
<1> QED
  BY <1>5, <1>6, <1>7 DEF IInv

\* Ends of the scan and the loop, restarts and refreshes.
LEMMA OtherOK ==
  ASSUME IInv
  PROVE  /\ SearchFails => IInv'
         /\ Finish => IInv'
         /\ Refresh => IInv'
         /\ \A n \in 0..next : RestartWorker(n) => IInv'
         /\ UNCHANGED vars => IInv'
<1> USE DEF IInv
<1>1. ASSUME UNCHANGED <<doc, seen, topic, next, lastId, page, channel, sent, replayed, steady,
                         changed, foreign, restarts>>,
             pc' \in {"search", "push", "last", "closed"},
             sender' \in {"run", "stopped", "finished"},
             faults' \in 0..MaxFaults
      PROVE  IInv'
  <2>1. TypeOK'
    BY <1>1 DEF TypeOK
  <2>2. OrderOK'
    BY <1>1 DEF OrderOK, SentInOrder, Left
  <2>3. CurrentOK'
    BY <1>1 DEF CurrentOK, Fits
  <2> QED
    BY <2>1, <2>2, <2>3
<1>2. SearchFails => IInv'
  <2> SUFFICES ASSUME SearchFails PROVE IInv'
    OBVIOUS
  <2>1. faults' \in 0..MaxFaults
    BY ReplayAssumption DEF SearchFails, TypeOK
  <2> QED
    BY <1>1, <2>1 DEF SearchFails, TypeOK, indexVars, senderVars, historyVars
<1>3. Finish => IInv'
  BY <1>1 DEF Finish, TypeOK, indexVars, scanVars, historyVars, boundVars
<1>4. Refresh => IInv'
  <2> SUFFICES ASSUME Refresh PROVE IInv'
    OBVIOUS
  <2> QED
    BY IndexOK DEF Refresh, TypeOK, scanVars, senderVars, boundVars
<1>5. ASSUME NEW n \in 0..next, RestartWorker(n) PROVE IInv'
  <2>1. restarts' \in 0..MaxRestarts
    BY <1>5, ReplayAssumption DEF RestartWorker, TypeOK
  <2>2. next' \in 0..Len(topic)
    BY <1>5 DEF RestartWorker, TypeOK
  <2> QED
    BY <1>5, <2>1, <2>2, IndexOK DEF RestartWorker, TypeOK, scanVars, senderVars, historyVars
<1>6. UNCHANGED vars => IInv'
  BY <1>1 DEF vars, TypeOK
<1> QED
  BY <1>2, <1>3, <1>4, <1>5, <1>6

LEMMA NextOK == IInv /\ [Next]_vars => IInv'
BY SearchOK, PushOK, SendOK, HandleCommandOK, HandlePermissionOK, ProduceForeignOK, OtherOK
   DEF Next, Scan, Loop, FetchTimeout

-----------------------------------------------------------------------------
\* A nonempty set of numbers has a least one.
LEMMA LeastNumber ==
  ASSUME NEW S, S \subseteq Nat, S # {}
  PROVE  \E m \in S : \A n \in S : m <= n
<1> DEFINE R == StrictSubsetOrdering(Nat)
           T == {0..m : m \in S}
<1>1. IsWellFoundedOn(R, FiniteSubsetsOf(Nat))
  BY FS_StrictSubsetOrderingWellFounded
<1>2. T \subseteq FiniteSubsetsOf(Nat) /\ T # {}
  <2>1. ASSUME NEW m \in S PROVE IsFiniteSet(0..m) /\ 0..m \in SUBSET Nat
    BY FS_Interval
  <2> QED
    BY <2>1 DEF FiniteSubsetsOf
<1>3. \E x \in T : \A y \in T : <<y, x>> \notin R
  <2> HIDE DEF R, T
  <2> QED
    BY <1>1, <1>2, WFMin
<1>4. PICK m \in S : \A n \in S : <<0..n, 0..m>> \notin R
  BY <1>3
<1>5. ASSUME NEW n \in S, n < m PROVE FALSE
  <2>1. 0..n \subseteq 0..m /\ m \notin 0..n /\ m \in 0..m
    BY <1>5
  <2>2. 0..n \in SUBSET Nat /\ 0..m \in SUBSET Nat
    OBVIOUS
  <2> QED
    BY <1>4, <2>1, <2>2 DEF StrictSubsetOrdering
<1> QED
  BY <1>5

\* Who is not among the first n has all of them, n at least, in front.
LEMMA FirstProperties ==
  ASSUME NEW S, S \subseteq Nat, NEW n \in Nat, NEW d \in S, d \notin First(S, n)
  PROVE  /\ \A e \in First(S, n) : e < d
         /\ Cardinality(First(S, n)) \in Nat
         /\ Cardinality(First(S, n)) >= n
<1> DEFINE Below(m) == {e \in S : e < m}
<1>1. ASSUME NEW m \in S
      PROVE  IsFiniteSet(Below(m)) /\ Cardinality(Below(m)) \in Nat
  <2>1. IsFiniteSet(0..m)
    BY FS_Interval
  <2>2. \A e \in Below(m) : e \in 0..m
    OBVIOUS
  <2> HIDE DEF Below
  <2> QED
    BY <2>1, <2>2, FS_Subset, FS_CardinalityType
<1>2. \A e \in S : e \in First(S, n) <=> Cardinality(Below(e)) < n
  BY DEF First
<1>3. First(S, n) \subseteq S
  BY DEF First
<1>4. ASSUME NEW e \in First(S, n) PROVE e < d
  <2>1. SUFFICES ASSUME ~ (e < d) PROVE FALSE
    OBVIOUS
  <2>2. e \in S /\ e \in Nat /\ d \in Nat
    BY <1>3
  <2>3. \A f \in Below(d) : f \in Below(e)
    BY <2>1, <2>2
  <2>4. Cardinality(Below(d)) <= Cardinality(Below(e))
    <3> HIDE DEF Below
    <3> QED
      BY <1>1, <2>2, <2>3, FS_Subset
  <2>5. Cardinality(Below(e)) < n /\ ~ (Cardinality(Below(d)) < n)
    BY <1>2, <2>2
  <2> HIDE DEF Below
  <2> QED
    BY <1>1, <2>2, <2>4, <2>5
<1>5. IsFiniteSet(First(S, n)) /\ Cardinality(First(S, n)) \in Nat
  <2>1. IsFiniteSet(0..d)
    BY FS_Interval
  <2>2. ASSUME NEW e \in First(S, n) PROVE e \in 0..d
    <3>1. e \in Nat /\ d \in Nat /\ e < d
      BY <1>3, <1>4
    <3> QED
      BY <3>1
  <2> QED
    BY <2>1, <2>2, FS_Subset, FS_CardinalityType
<1>6. PICK m \in S \ First(S, n) : \A e \in S \ First(S, n) : m <= e
  <2>1. S \ First(S, n) \subseteq Nat /\ S \ First(S, n) # {}
    OBVIOUS
  <2> QED
    BY <2>1, LeastNumber
<1>7. \A e \in Below(m) : e \in First(S, n)
  BY <1>6
<1>8. Cardinality(Below(m)) <= Cardinality(First(S, n))
  <2> HIDE DEF Below
  <2> QED
    BY <1>5, <1>7, FS_Subset
<1>9. ~ (Cardinality(Below(m)) < n) /\ Cardinality(Below(m)) \in Nat
  BY <1>1, <1>2, <1>6
<1> HIDE DEF Below
<1> QED
  BY <1>4, <1>5, <1>8, <1>9

\* An entry that is there all the time is sent or on the channel once the
\* scan is behind it; else it is in the page, or behind a page that is not
\* the last one.
OnTheWay(d) ==
  \/ Left(d) /\ (\/ \E i \in DOMAIN sent : sent[i] = d
                 \/ \E j \in DOMAIN channel : channel[j].id = d)
  \/ ~Left(d) /\ \E s \in page : s.id = d
  \/ ~Left(d) /\ pc = "push" /\ \A s \in page : s.id < d
  \/ ~Left(d) /\ pc = "search"

SteadyInv ==
  /\ \A d \in steady : seen[d] # NoDoc
  /\ pc \in {"search", "closed"} => page = {}
  /\ sender = "finished" => channel = <<>> /\ pc = "closed"
  /\ faults = 0 => \A d \in steady : OnTheWay(d)

LEMMA SteadyInit == Init => SteadyInv
<1> SUFFICES ASSUME Init PROVE SteadyInv
  OBVIOUS
<1>1. \A d \in Ids : ~Left(d)
  BY DEF Init, Left
<1>2. \A d \in steady : d \in Ids /\ seen[d] # NoDoc
  BY DEF Init, Found
<1> QED
  BY <1>1, <1>2 DEF Init, SteadyInv, OnTheWay

LEMMA SteadySearch == IInv /\ SteadyInv /\ Search => SteadyInv'
<1> SUFFICES ASSUME IInv, SteadyInv, Search PROVE SteadyInv'
  OBVIOUS
<1>1. /\ pc = "search"
      /\ page' = {[id |-> d, rights |-> Rights(seen[d])] : d \in Page}
      /\ pc' = IF Page = {} THEN "closed" ELSE AfterPage(Cardinality(Page))
      /\ UNCHANGED <<seen, lastId, channel, sender, sent, steady, faults>>
  BY DEF Search, indexVars, senderVars, boundVars
<1>2. \A d \in steady' : seen'[d] # NoDoc
  BY <1>1 DEF SteadyInv
<1>3. pc' \in {"search", "closed"} => page' = {}
  BY <1>1 DEF AfterPage
<1>4. sender' # "finished"
  BY <1>1 DEF SteadyInv
<1>5. ASSUME faults = 0, NEW d \in steady PROVE OnTheWay(d)'
  <2> DEFINE S == {e \in Found : lastId = NoId \/ e > lastId}
  <2>1. OnTheWay(d) /\ d \in Ids /\ d \in Found
    BY <1>5 DEF SteadyInv, Found, IInv, TypeOK
  <2>2. CASE Left(d)
    BY <1>1, <2>1, <2>2 DEF OnTheWay, Left
  <2>3. CASE ~Left(d) /\ d \in Page
    <3>1. [id |-> d, rights |-> Rights(seen[d])] \in page'
      BY <1>1, <2>3
    <3> QED
      BY <1>1, <2>3, <3>1 DEF OnTheWay, Left
  <2>4. CASE ~Left(d) /\ d \notin Page
    <3>1. S \subseteq Nat /\ d \in S /\ Page = First(S, BatchSize) /\ BatchSize \in Nat \ {0}
      <4>1. lastId = NoId \/ d > lastId
        BY <2>1, <2>4, IdsAreNumbers DEF Left, IInv, TypeOK
      <4>2. S \subseteq Nat /\ Page = First(S, BatchSize)
        BY IdsAreNumbers DEF Found, Page
      <4> QED
        BY <2>1, <4>1, <4>2, ReplayAssumption
    <3> HIDE DEF S
    <3>2. /\ \A e \in Page : e < d
          /\ Cardinality(Page) \in Nat /\ Cardinality(Page) >= BatchSize
      BY <2>4, <3>1, FirstProperties
    <3>3. Page # {}
      BY <3>1, <3>2, FS_EmptySet
    <3>4. pc' = "push"
      BY <1>1, <3>1, <3>2, <3>3 DEF AfterPage
    <3>5. \A s \in page' : s.id < d
      BY <1>1, <3>2
    <3> QED
      BY <1>1, <2>4, <3>4, <3>5 DEF OnTheWay, Left
  <2> QED
    BY <2>2, <2>3, <2>4
<1> QED
  BY <1>1, <1>2, <1>3, <1>4, <1>5 DEF SteadyInv

LEMMA SteadyPush == IInv /\ SteadyInv /\ Push => SteadyInv'
<1> SUFFICES ASSUME IInv, SteadyInv, Push PROVE SteadyInv'
  OBVIOUS
<1>1. PICK s \in page :
        /\ \A t \in page : s.id <= t.id
        /\ channel' = Append(channel, s)
        /\ lastId' = s.id
        /\ page' = page \ {s}
  BY DEF Push
<1>2. /\ pc \in {"push", "last"}
      /\ pc' = IF page' # {} THEN pc ELSE IF pc = "last" THEN "closed" ELSE "search"
      /\ UNCHANGED <<seen, sender, sent, steady, faults>>
  BY DEF Push, indexVars, senderVars, historyVars, boundVars
<1>3. s.id \in Ids /\ s.id \in Nat /\ s.id # NoId /\ ~Left(s.id)
  BY IdsAreNumbers DEF IInv, TypeOK, Snapshot, OrderOK
<1>4. /\ DOMAIN channel' = 1..(Len(channel) + 1)
      /\ \A j \in DOMAIN channel : j \in DOMAIN channel' /\ channel'[j] = channel[j]
      /\ Len(channel) + 1 \in DOMAIN channel' /\ channel'[Len(channel) + 1] = s
  <2>1. channel \in Seq(Snapshot) /\ s \in Snapshot
    BY DEF IInv, TypeOK
  <2> QED
    BY <1>1, <2>1, AppendProperties
<1>5. \A d \in Ids : Left(d)' <=> d <= s.id
  BY <1>1, <1>3 DEF Left
<1>6. \A t \in page : t.id \in Ids /\ t.id \in Nat /\ (t # s => s.id < t.id)
  <2>1. ASSUME NEW t \in page, t # s PROVE s.id # t.id /\ s.id <= t.id
    BY <1>1, <2>1 DEF IInv, OrderOK
  <2>2. \A t \in page : t.id \in Ids /\ t.id \in Nat
    BY IdsAreNumbers DEF IInv, TypeOK, Snapshot
  <2> QED
    BY <1>3, <2>1, <2>2
<1>7. ASSUME faults = 0, NEW d \in steady PROVE OnTheWay(d)'
  <2>1. OnTheWay(d) /\ d \in Ids /\ d \in Nat
    BY <1>7, IdsAreNumbers DEF SteadyInv, IInv, TypeOK
  <2>2. CASE Left(d)
    <3>1. Left(d)'
      BY <1>1, <1>3, <2>1, <2>2, IdsAreNumbers DEF Left, IInv, TypeOK
    <3> QED
      BY <1>2, <1>4, <2>1, <2>2, <3>1 DEF OnTheWay
  <2>3. CASE d = s.id
    BY <1>4, <1>5, <2>1, <2>3, <1>3 DEF OnTheWay
  <2>4. ASSUME NEW t \in page, t.id = d, t # s PROVE OnTheWay(d)'
    <3>1. ~Left(d)' /\ t \in page'
      BY <1>1, <1>3, <1>5, <1>6, <2>1, <2>4
    <3> QED
      BY <2>4, <3>1 DEF OnTheWay
  <2>5. CASE ~Left(d) /\ pc = "push" /\ \A t \in page : t.id < d
    <3>1. ~Left(d)'
      BY <1>3, <1>5, <2>1, <2>5
    <3>2. (\A t \in page' : t.id < d) /\ pc' \in {"push", "search"}
      BY <1>1, <1>2, <2>5
    <3> QED
      BY <3>1, <3>2 DEF OnTheWay
  <2> QED
    BY <1>2, <2>1, <2>2, <2>3, <2>4, <2>5 DEF OnTheWay
<1>8. pc' \in {"search", "closed"} => page' = {}
  BY <1>2
<1>9. sender' # "finished"
  BY <1>2 DEF SteadyInv
<1> QED
  BY <1>2, <1>7, <1>8, <1>9 DEF SteadyInv

\* What leaves the channel is sent; a step that is not a fault leaves the
\* rest as it is.
LEMMA SteadySend == IInv /\ SteadyInv /\ (Send \/ SendFails) => SteadyInv'
<1> SUFFICES ASSUME IInv, SteadyInv, Send \/ SendFails PROVE SteadyInv'
  OBVIOUS
<1>1. PICK n \in Nat : Produce(n)
  BY DEF Send, SendFails
<1>2. /\ UNCHANGED <<seen, pc, lastId, page, steady>>
      /\ sender' \in {"run", "stopped"}
      /\ faults' \in {faults, faults + 1} /\ faults \in Nat
  BY <1>1, ReplayAssumption
     DEF Send, SendFails, Produce, IInv, TypeOK, indexVars, scanVars, historyVars
<1>3. /\ channel # <<>>
      /\ channel' = Tail(channel)
      /\ sent' = Append(sent, Head(channel).id)
  BY <1>1 DEF Produce
<1>4. /\ channel \in Seq(Snapshot) /\ sent \in Seq(Ids)
      /\ Head(channel).id \in Ids
  <2>1. channel \in Seq(Snapshot) /\ sent \in Seq(Ids)
    BY DEF IInv, TypeOK
  <2>2. Head(channel) \in Snapshot
    BY <1>3, <2>1, HeadTailProperties
  <2> QED
    BY <2>1, <2>2 DEF Snapshot
<1>5. /\ Len(channel) \in Nat \ {0} /\ DOMAIN channel = 1..Len(channel)
      /\ DOMAIN channel' = 1..(Len(channel) - 1)
      /\ \A j \in DOMAIN channel' : channel'[j] = channel[j + 1]
      /\ Head(channel) = channel[1]
  BY <1>3, <1>4, HeadTailProperties
<1>6. /\ \A i \in DOMAIN sent : i \in DOMAIN sent' /\ sent'[i] = sent[i]
      /\ Len(sent) + 1 \in DOMAIN sent' /\ sent'[Len(sent) + 1] = channel[1].id
  BY <1>3, <1>4, <1>5, AppendProperties
<1>7. ASSUME NEW d \in steady, OnTheWay(d) PROVE OnTheWay(d)'
  <2>1. CASE \E j \in DOMAIN channel : channel[j].id = d
    <3>1. PICK j \in 1..Len(channel) : channel[j].id = d
      BY <1>5, <2>1
    <3>2. CASE j = 1
      BY <1>2, <1>6, <1>7, <3>1, <3>2 DEF OnTheWay, Left
    <3>3. CASE j # 1
      <4>1. j - 1 \in DOMAIN channel' /\ channel'[j - 1] = channel[j]
        BY <1>5, <3>3
      <4> QED
        BY <1>2, <1>6, <1>7, <3>1, <4>1 DEF OnTheWay, Left
    <3> QED
      BY <3>2, <3>3
  <2>2. CASE ~\E j \in DOMAIN channel : channel[j].id = d
    BY <1>2, <1>6, <1>7, <2>2 DEF OnTheWay, Left
  <2> QED
    BY <2>1, <2>2
<1> QED
  BY <1>2, <1>7 DEF SteadyInv

LEMMA SteadyNext == IInv /\ SteadyInv /\ [Next]_vars => SteadyInv'
<1> SUFFICES ASSUME IInv, SteadyInv, [Next]_vars PROVE SteadyInv'
  OBVIOUS
<1>1. CASE Search
  BY <1>1, SteadySearch
<1>2. CASE Push
  BY <1>2, SteadyPush
<1>3. CASE Send \/ SendFails
  BY <1>3, SteadySend
<1>4. ASSUME UNCHANGED <<pc, lastId, page, channel, sender, sent, faults>>,
             steady' \subseteq steady, \A d \in steady' : seen'[d] # NoDoc
      PROVE  SteadyInv'
  BY <1>4 DEF SteadyInv, OnTheWay, Left
<1>5. CASE Refresh
  BY <1>4, <1>5 DEF Refresh, scanVars, senderVars, boundVars
<1>6. CASE UNCHANGED <<seen, pc, lastId, page, channel, sender, sent, steady, faults>>
  BY <1>4, <1>6 DEF SteadyInv
<1>7. CASE SearchFails
  <2>1. faults' # 0 /\ pc' = "closed" /\ pc = "search"
        /\ UNCHANGED <<seen, page, channel, sender, steady>>
    BY <1>7 DEF SearchFails, IInv, TypeOK, indexVars, senderVars, historyVars
  <2> QED
    BY <2>1 DEF SteadyInv
<1>8. CASE Finish
  <2>1. channel = <<>> /\ pc = "closed"
        /\ UNCHANGED <<seen, pc, lastId, page, channel, sent, steady, faults>>
    BY <1>8 DEF Finish, indexVars, scanVars, historyVars, boundVars
  <2> QED
    BY <2>1 DEF SteadyInv, OnTheWay, Left
<1>9. CASE \/ HandleCommand
           \/ \E m \in PermCommands : HandlePermission(m)
           \/ \E m \in ForeignCommands : ProduceForeign(m)
           \/ \E n \in 0..next : RestartWorker(n)
           \/ UNCHANGED vars
  BY <1>6, <1>9
     DEF HandleCommand, HandlePermission, ProduceForeign, RestartWorker, vars, scanVars,
         senderVars, indexVars, historyVars, boundVars
<1> QED
  BY <1>1, <1>2, <1>3, <1>5, <1>7, <1>8, <1>9 DEF Next, Scan, Loop, FetchTimeout

-----------------------------------------------------------------------------
\* Every variable of the replay keeps its type.
THEOREM ReplayTyped == Spec => []TypeOK
<1>1. IInv => TypeOK
  BY DEF IInv
<1> QED
  BY <1>1, InitOK, NextOK, PTL DEF Spec

\* Every id is sent at most once and in ascending order (GetEntries,
\* ReplayPermissionsOfResourceKind).
THEOREM NothingSentTwice == Spec => []SentInOrder
<1>1. IInv => SentInOrder
  BY DEF IInv, OrderOK
<1> QED
  BY <1>1, InitOK, NextOK, PTL DEF Spec

\* A replayed command changes the rights of a document only if somebody
\* else changed them since the search that found it.
THEOREM ReplayKeepsRights == Spec => RightsReplayedAsTheyWere
<1> DEFINE Kept ==
      \A p \in replayed :
        /\ next' = next + 1 /\ p = next'
        /\ topic[p].id \notin changed
        => SameRights(doc[topic[p].id], doc'[topic[p].id])
<1>1. IInv /\ [Next]_vars => Kept
  <2> SUFFICES ASSUME IInv, [Next]_vars, NEW p \in replayed,
                      next' = next + 1, p = next', topic[p].id \notin changed
               PROVE  SameRights(doc[topic[p].id], doc'[topic[p].id])
    OBVIOUS
  <2>1. next \in Nat
    BY DEF IInv, TypeOK
  <2>2. HandleCommand
    BY <2>1 DEF Next, Scan, Search, Push, SearchFails, Loop, Send, SendFails, Finish,
                HandlePermission, ProduceForeign, RestartWorker, Refresh, FetchTimeout,
                indexVars, vars
  <2>3. Apply(topic[p])
    BY <2>2 DEF HandleCommand
  <2> QED
    BY <2>3, ReplayedOK
<1>2. Kept => [Kept]_vars
  OBVIOUS
<1> HIDE DEF Kept
<1>3. Spec => [][Kept]_vars
  BY <1>1, <1>2, InitOK, NextOK, PTL DEF Spec
<1> QED
  BY <1>3 DEF RightsReplayedAsTheyWere, Kept

\* A replay that ends without fault has sent every entry that was there all
\* the time, for any page size and whatever comes and goes between the
\* pages (GetEntries, ReplayPermissionsOfResourceKind).
THEOREM NothingSteadyMissed == Spec => []SteadySent
<1>1. IInv /\ SteadyInv => SteadySent
  <2> SUFFICES ASSUME IInv, SteadyInv, sender = "finished", faults = 0, NEW d \in steady
               PROVE  d \in ToSet(sent)
    BY DEF SteadySent
  <2>1. OnTheWay(d) /\ page = {} /\ channel = <<>> /\ pc = "closed"
    BY DEF SteadyInv
  <2> QED
    BY <2>1 DEF OnTheWay, ToSet
<1> QED
  BY <1>1, InitOK, NextOK, SteadyInit, SteadyNext, PTL DEF Spec
=============================================================================
