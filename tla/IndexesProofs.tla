--------------------------- MODULE IndexesProofs ---------------------------
(***************************************************************************)
(* Proofs about Indexes: for any number of processes, versions, documents  *)
(* and faults, the alias stays on one index and migrations lose no write   *)
(* but those the code does lose, when migrations do not overlap with the   *)
(* first start of another process.                                         *)
(***************************************************************************)
EXTENDS Indexes, TLAPS

\* The alias is on an index while its mapping is updated.
MappedAlias ==
  \A p \in Process : pc[p] \in {"getmapped", "putmapping"} => alias # {}

\* Nobody migrates, or has migrated, while a process makes the first index.
CreatorsAlone ==
  \A p \in Process : pc[p] \in Creating =>
    /\ alias \subseteq {1}
    /\ \A q \in Process : pc[q] \notin Migrating \cup {"migrated"}

\* The alias only goes up: a migration works on the version behind the alias
\* or on one that is outdated.
OnlyUp ==
  \A p \in Process : pc[p] \in Migrating =>
    /\ cur[p] < MaxVersion
    /\ \A v \in alias : cur[p] <= v
    /\ pc[p] = "deleteold" => \A v \in alias : cur[p] < v

\* A process that holds the next index of the version behind the alias is the
\* only one, and its index is there.
Copying(p) == pc[p] \in {"reindex", "swap"}

OneCopy ==
  \A p \in Process : Copying(p) =>
    /\ cur[p] + 1 \notin alias
    /\ cur[p] \in alias =>
         /\ Exists(cur[p] + 1)
         /\ \A q \in Process : Copying(q) /\ cur[q] = cur[p] => q = p

VersionsOK == AliasServes /\ MappedAlias /\ CreatorsAlone /\ OnlyUp /\ OneCopy

\* The documents of the index that is to follow the one behind the alias:
\* none before the reindex, then all but those written since.
FreshCopy ==
  \A p \in Process : pc[p] = "reindex" /\ cur[p] \in alias =>
    \A i \in Ids : index[cur[p] + 1].docs[i] = NoDoc

FullCopy ==
  \A p \in Process : pc[p] = "swap" /\ cur[p] \in alias =>
    \A i \in Ids \ (lost \cup since[p]) : index[cur[p] + 1].docs[i] = accepted[i]

\* Nothing is written before the alias is there.
Untouched ==
  alias = {} => \A i \in Ids :
    /\ accepted[i] = NoDoc
    /\ Exists(1) => index[1].docs[i] = NoDoc

DocumentsOK == NothingLost /\ FreshCopy /\ FullCopy /\ Untouched

\* What holds of mappings: only the first version may have an old one.
OnlyFirstOld == \A v \in Version : v # 1 /\ Exists(v) => index[v].mapping = "configured"

MappingsOK == OnlyFirstOld /\ MappingApplied

IInv == TypeOK /\ VersionsOK /\ DocumentsOK /\ MappingsOK

-----------------------------------------------------------------------------

LEMMA InitOK == Init => IInv
<1> USE IndexesAssumption
<1> SUFFICES ASSUME Init PROVE IInv
  OBVIOUS
<1>1. 1 \in Version
  BY DEF Version
<1>2. TypeOK
  BY <1>1 DEF Init, TypeOK, Index, Value, Version, Label
<1>3. VersionsOK
  BY <1>1 DEF Init, VersionsOK, AliasServes, AliasOnOneIndex, MappedAlias, CreatorsAlone, OnlyUp,
     OneCopy, Copying, Creating, Migrating, Index, Exists
<1>4. DocumentsOK
  BY <1>1 DEF Init, DocumentsOK, NothingLost, FreshCopy, FullCopy, Untouched, Exists
<1>5. MappingsOK
  BY <1>1 DEF Init, MappingsOK, OnlyFirstOld, MappingApplied, Exists
<1> QED
  BY <1>2, <1>3, <1>4, <1>5 DEF IInv

\* Type correctness of every step.
LEMMA TypeStep == TypeOK /\ VersionsOK /\ [Next]_vars => TypeOK'
<1> USE IndexesAssumption
<1> SUFFICES ASSUME TypeOK, VersionsOK, [Next]_vars PROVE TypeOK'
  OBVIOUS
<1> USE DEF TypeOK
<1>0. /\ EmptyIndex \in Index
      /\ 1 \in Version
      /\ \A p \in Process : Ready(p) \in Label
  BY DEF EmptyIndex, Index, Value, Version, Ready, Label
<1>1. ASSUME NEW p \in Process, CheckAlias(p) PROVE TypeOK'
  BY <1>0, <1>1 DEF CheckAlias, Goto, history, Label, Creating
<1>2. ASSUME NEW p \in Process, CheckV1(p) PROVE TypeOK'
  BY <1>2 DEF CheckV1, Goto, history, Label, Creating
<1>3. ASSUME NEW p \in Process, CreateV1(p) PROVE TypeOK'
  BY <1>0, <1>3 DEF CreateV1, Refuse, Answer, Goto, history, Label, Creating
<1>4. ASSUME NEW p \in Process, PutAlias(p) PROVE TypeOK'
  BY <1>0, <1>4 DEF PutAlias, Refuse, Answer, Goto, history, Label, Creating
<1>5. ASSUME NEW p \in Process, GetMapped(p) PROVE TypeOK'
  BY <1>0, <1>5 DEF GetMapped, Goto, history, Label
<1>6. ASSUME NEW p \in Process, PutMapping(p) PROVE TypeOK'
  <2>1. index' \in [Version -> Index \cup {NoIndex}]
    <3>1. CASE UNCHANGED index
      BY <3>1
    <3>2. CASE Exists(cur[p]) /\ index' = [index EXCEPT ![cur[p]].mapping = "configured"]
      <4>1. index[cur[p]] \in Index
        BY <3>2 DEF Exists
      <4>2. [index[cur[p]] EXCEPT !.mapping = "configured"] \in Index
        BY <4>1 DEF Index
      <4> QED
        BY <3>2, <4>2
    <3> QED
      BY <1>6, <3>1, <3>2 DEF PutMapping
  <2> QED
    BY <1>0, <1>6, <2>1 DEF PutMapping, Goto, history, Label
<1>7. ASSUME NEW p \in Process, GetVersions(p) PROVE TypeOK'
  BY <1>7 DEF GetVersions, Refuse, Goto, history, Label, Migrating
<1>8. ASSUME NEW p \in Process, CreateNext(p) PROVE TypeOK'
  BY <1>0, <1>8 DEF CreateNext, Refuse, Answer, Goto, history, Label, Migrating
<1>9. ASSUME NEW p \in Process, Reindex(p) PROVE TypeOK'
  <2>1. CASE Refuse(p)
    BY <2>1 DEF Refuse, Goto, history, Label
  <2>2. CASE ~Refuse(p)
    <3>0. PICK ids \in SUBSET Ids :
            index' = [index EXCEPT ![cur[p] + 1].docs = Copied(p, ids)]
      BY <1>9, <2>2 DEF Reindex
    <3>1. Exists(cur[p]) /\ Exists(cur[p] + 1)
      BY <1>9, <2>2 DEF Reindex
    <3>2. CASE cur[p] + 1 \in Version
      <4>1. index[cur[p]] \in Index /\ index[cur[p] + 1] \in Index
        BY <3>1, <3>2 DEF Exists
      <4>2. Copied(p, ids) \in [Ids -> Value]
        BY <4>1 DEF Copied, Index
      <4>3. [index[cur[p] + 1] EXCEPT !.docs = Copied(p, ids)] \in Index
        BY <4>1, <4>2 DEF Index
      <4>4. index' \in [Version -> Index \cup {NoIndex}]
        BY <3>0, <3>2, <4>3
      <4> QED
        BY <1>9, <2>2, <4>4 DEF Reindex, Answer, Goto, history, Label, Migrating
    <3>3. CASE cur[p] + 1 \notin Version
      <4>1. index' = index
        BY <3>0, <3>3
      <4> QED
        BY <1>9, <2>2, <4>1 DEF Reindex, Answer, Goto, history, Label, Migrating
    <3> QED
      BY <3>2, <3>3
  <2> QED
    BY <2>1, <2>2
<1>10. ASSUME NEW p \in Process, Swap(p) PROVE TypeOK'
  <2>1. pc[p] = "swap" => cur[p] + 1 \in Version
    BY DEF VersionsOK, OnlyUp, Migrating, Version
  <2> QED
    BY <1>10, <2>1 DEF Swap, Refuse, Answer, Goto, history, Label, Migrating
<1>11. ASSUME NEW p \in Process, DeleteOld(p) PROVE TypeOK'
  BY <1>11 DEF DeleteOld, Refuse, Answer, Goto, history, Label
<1>12. ASSUME NEW p \in Process, RequestFails(p) PROVE TypeOK'
  BY <1>0, <1>12 DEF RequestFails, Goto, history, Label
<1>13. ASSUME NEW p \in Process, Restart(p) PROVE TypeOK'
  BY <1>0, <1>13 DEF Restart, Goto, Label
<1>14. ASSUME NEW i \in Ids, NEW x \in Value, WriteDocument(i, x) PROVE TypeOK'
  <2>1. PICK v \in alias : alias = {v} /\ index' = [index EXCEPT ![v].docs[i] = x]
    BY <1>14 DEF WriteDocument
  <2>2. index[v] \in Index
    BY <2>1 DEF VersionsOK, AliasServes, Exists
  <2>3. [index[v] EXCEPT !.docs[i] = x] \in Index
    BY <2>2 DEF Index
  <2>4. index' \in [Version -> Index \cup {NoIndex}]
    BY <2>1, <2>3
  <2> QED
    BY <1>14, <2>4 DEF WriteDocument
<1>15. CASE UNCHANGED vars
  BY <1>15 DEF vars
<1> QED
  BY <1>1, <1>2, <1>3, <1>4, <1>5, <1>6, <1>7, <1>8, <1>9, <1>10, <1>11, <1>12,
     <1>13, <1>14, <1>15 DEF Next, Create, Migrate
\* Writing documents or a mapping neither makes nor removes an index.
LEMMA SameIndexes ==
  ASSUME TypeOK, TypeOK',
         NEW v \in Version, NEW x \in Index,
         Exists(v), index' = [index EXCEPT ![v] = x]
  PROVE  \A w \in Version : Exists(w)' = Exists(w)
BY IndexesAssumption DEF TypeOK, Exists

LEMMA ReindexKeeps ==
  ASSUME NEW p \in Process, TypeOK, TypeOK', VersionsOK, Reindex(p)
  PROVE  \A v \in Version : Exists(v)' = Exists(v)
<1>1. CASE Refuse(p)
  BY <1>1 DEF Refuse, Exists
<1>2. CASE ~Refuse(p)
  <2>1. PICK ids \in SUBSET Ids :
          index' = [index EXCEPT ![cur[p] + 1].docs = Copied(p, ids)]
    BY <1>2 DEF Reindex
  <2>2. Exists(cur[p]) /\ Exists(cur[p] + 1)
    BY <1>2 DEF Reindex
  <2>3. cur[p] \in Version /\ cur[p] + 1 \in Version
    BY IndexesAssumption, <1>2 DEF Reindex, VersionsOK, OnlyUp, Migrating, TypeOK, Version
  <2>4. index[cur[p]] \in Index /\ index[cur[p] + 1] \in Index
    BY <2>2, <2>3 DEF Exists, TypeOK
  <2>5. [index[cur[p] + 1] EXCEPT !.docs = Copied(p, ids)] \in Index
    BY <2>4 DEF Index, Copied
  <2> QED
    BY <2>1, <2>2, <2>3, <2>5, SameIndexes
<1> QED
  BY <1>1, <1>2

LEMMA PutMappingKeeps ==
  ASSUME NEW p \in Process, TypeOK, TypeOK', PutMapping(p)
  PROVE  \A v \in Version : Exists(v)' = Exists(v)
<1>1. CASE UNCHANGED index
  BY <1>1 DEF Exists
<1>2. CASE Exists(cur[p]) /\ index' = [index EXCEPT ![cur[p]].mapping = "configured"]
  <2>1. cur[p] \in Version /\ index[cur[p]] \in Index
    BY <1>2 DEF Exists, TypeOK
  <2>2. [index[cur[p]] EXCEPT !.mapping = "configured"] \in Index
    BY <2>1 DEF Index
  <2> QED
    BY <1>2, <2>1, <2>2, SameIndexes
<1> QED
  BY <1>1, <1>2 DEF PutMapping

LEMMA WriteKeeps ==
  ASSUME NEW i \in Ids, NEW x \in Value, TypeOK, TypeOK', VersionsOK, WriteDocument(i, x)
  PROVE  \A v \in Version : Exists(v)' = Exists(v)
<1>1. PICK v \in alias : index' = [index EXCEPT ![v].docs[i] = x]
  BY DEF WriteDocument
<1>2. v \in Version /\ Exists(v) /\ index[v] \in Index
  BY DEF VersionsOK, AliasServes, TypeOK, Exists
<1>3. [index[v] EXCEPT !.docs[i] = x] \in Index
  BY <1>2 DEF Index
<1> QED
  BY <1>1, <1>2, <1>3, SameIndexes

\* Versions: which index a process may touch at each step.
LEMMA VersionsStep ==
  ASSUME ~Overlap, TypeOK, TypeOK', VersionsOK, [Next]_vars
  PROVE  VersionsOK'
<1> USE IndexesAssumption DEF TypeOK, VersionsOK, Creating, Migrating, Ready, Version
<1>1. ASSUME NEW p \in Process, CheckAlias(p) PROVE VersionsOK'
  <2>1. AliasServes'
    BY <1>1 DEF CheckAlias, Goto, history, AliasServes, AliasOnOneIndex, Exists
  <2>2. MappedAlias'
    BY <1>1 DEF CheckAlias, Goto, history, MappedAlias
  <2>3. CreatorsAlone'
    BY <1>1 DEF CheckAlias, Goto, history, CreatorsAlone, AliasServes, AliasOnOneIndex
  <2>4. OnlyUp'
    BY <1>1 DEF CheckAlias, Goto, history, OnlyUp
  <2>5. OneCopy'
    BY <1>1 DEF CheckAlias, Goto, history, OneCopy, Copying, Exists
  <2> QED
    BY <2>1, <2>2, <2>3, <2>4, <2>5
<1>2. ASSUME NEW p \in Process, CheckV1(p) PROVE VersionsOK'
  <2>1. AliasServes'
    BY <1>2 DEF CheckV1, Goto, history, AliasServes, AliasOnOneIndex, Exists
  <2>2. MappedAlias'
    BY <1>2 DEF CheckV1, Goto, history, MappedAlias
  <2>3. CreatorsAlone'
    BY <1>2 DEF CheckV1, Goto, history, CreatorsAlone
  <2>4. OnlyUp'
    BY <1>2 DEF CheckV1, Goto, history, OnlyUp
  <2>5. OneCopy'
    BY <1>2 DEF CheckV1, Goto, history, OneCopy, Copying, CreatorsAlone
  <2> QED
    BY <2>1, <2>2, <2>3, <2>4, <2>5
<1>3. ASSUME NEW p \in Process, CreateV1(p) PROVE VersionsOK'
  <2>1. AliasServes'
    BY <1>3 DEF CreateV1, Refuse, Answer, Goto, history, AliasServes, AliasOnOneIndex, Exists
  <2>2. MappedAlias'
    BY <1>3 DEF CreateV1, Refuse, Answer, Goto, history, MappedAlias, AliasServes, AliasOnOneIndex
  <2>3. CreatorsAlone'
    BY <1>3 DEF CreateV1, Refuse, Answer, Goto, history, CreatorsAlone
  <2>4. OnlyUp'
    BY <1>3 DEF CreateV1, Refuse, Answer, Goto, history, OnlyUp
  <2>5. OneCopy'
    BY <1>3 DEF CreateV1, Refuse, Answer, Goto, history, OneCopy, Copying, CreatorsAlone
  <2> QED
    BY <2>1, <2>2, <2>3, <2>4, <2>5
<1>4. ASSUME NEW p \in Process, PutAlias(p) PROVE VersionsOK'
  <2>1. AliasServes'
    BY <1>4 DEF PutAlias, Refuse, Answer, Goto, history, AliasServes, AliasOnOneIndex, CreatorsAlone, Exists
  <2>2. MappedAlias'
    BY <1>4 DEF PutAlias, Refuse, Answer, Goto, history, MappedAlias
  <2>3. CreatorsAlone'
    BY <1>4 DEF PutAlias, Refuse, Answer, Goto, history, CreatorsAlone
  <2>4. OnlyUp'
    BY <1>4 DEF PutAlias, Refuse, Answer, Goto, history, OnlyUp, CreatorsAlone
  <2>5. OneCopy'
    BY <1>4 DEF PutAlias, Refuse, Answer, Goto, history, OneCopy, Copying, CreatorsAlone
  <2> QED
    BY <2>1, <2>2, <2>3, <2>4, <2>5
<1>5. ASSUME NEW p \in Process, GetMapped(p) PROVE VersionsOK'
  <2>1. AliasServes'
    BY <1>5 DEF GetMapped, Goto, history, AliasServes, AliasOnOneIndex, MappedAlias, Exists
  <2>2. MappedAlias'
    BY <1>5 DEF GetMapped, Goto, history, MappedAlias
  <2>3. CreatorsAlone'
    BY <1>5 DEF GetMapped, Goto, history, CreatorsAlone
  <2>4. OnlyUp'
    BY <1>5 DEF GetMapped, Goto, history, OnlyUp
  <2>5. OneCopy'
    BY <1>5 DEF GetMapped, Goto, history, OneCopy, Copying, AliasServes, AliasOnOneIndex, Exists
  <2> QED
    BY <2>1, <2>2, <2>3, <2>4, <2>5
<1>6. ASSUME NEW p \in Process, PutMapping(p) PROVE VersionsOK'
  <2>0. \A v \in Version : Exists(v)' = Exists(v)
    BY <1>6, PutMappingKeeps
  <2>1. AliasServes'
    BY <1>6, <2>0 DEF PutMapping, Goto, history, AliasServes, AliasOnOneIndex, MappedAlias
  <2>2. MappedAlias'
    BY <1>6 DEF PutMapping, Goto, history, MappedAlias
  <2>3. CreatorsAlone'
    BY <1>6 DEF PutMapping, Goto, history, CreatorsAlone
  <2>4. OnlyUp'
    BY <1>6 DEF PutMapping, Goto, history, OnlyUp
  <2>5. OneCopy'
    BY <1>6, <2>0 DEF PutMapping, Goto, history, OneCopy, Copying, OnlyUp, Exists
  <2> QED
    BY <2>1, <2>2, <2>3, <2>4, <2>5
<1>7. ASSUME NEW p \in Process, GetVersions(p) PROVE VersionsOK'
  <2>1. AliasServes'
    BY <1>7 DEF GetVersions, Refuse, Goto, history, AliasServes, AliasOnOneIndex, Exists
  <2>2. MappedAlias'
    BY <1>7 DEF GetVersions, Refuse, Goto, history, MappedAlias
  <2>3. CreatorsAlone'
    BY <1>7 DEF GetVersions, Refuse, Goto, history, CreatorsAlone
  <2>4. OnlyUp'
    BY <1>7 DEF GetVersions, Refuse, Goto, history, OnlyUp
  <2>5. OneCopy'
    BY <1>7 DEF GetVersions, Refuse, Goto, history, OneCopy, Copying, AliasServes, AliasOnOneIndex, Exists
  <2> QED
    BY <2>1, <2>2, <2>3, <2>4, <2>5
<1>8. ASSUME NEW p \in Process, CreateNext(p) PROVE VersionsOK'
  <2>1. AliasServes'
    BY <1>8 DEF CreateNext, Refuse, Answer, Goto, history, AliasServes, AliasOnOneIndex, Exists
  <2>2. MappedAlias'
    BY <1>8 DEF CreateNext, Refuse, Answer, Goto, history, MappedAlias
  <2>3. CreatorsAlone'
    BY <1>8 DEF CreateNext, Refuse, Answer, Goto, history, CreatorsAlone, AliasServes, AliasOnOneIndex
  <2>4. OnlyUp'
    BY <1>8 DEF CreateNext, Refuse, Answer, Goto, history, OnlyUp
  <2>5. OneCopy'
    <3>1. CASE Refuse(p)
      BY <1>8, <3>1 DEF Refuse, Goto, history, OneCopy, Copying, Exists
    <3>2. CASE ~Refuse(p)
      <4>1. /\ ~Exists(cur[p] + 1)
            /\ cur[p] + 1 \in Version
            /\ index' = [index EXCEPT ![cur[p] + 1] = EmptyIndex]
            /\ alias' = alias /\ cur' = cur
        BY <1>8, <3>2 DEF CreateNext, OnlyUp, history
      <4>2. EmptyIndex \in Index
        BY DEF EmptyIndex, Index, Value
      <4>3. \A v \in Version : Exists(v)' <=> (Exists(v) \/ v = cur[p] + 1)
        BY <4>1, <4>2 DEF Exists
      <4>4. cur[p] + 1 \notin alias
        BY <4>1 DEF AliasServes
      <4>5. \A q \in Process : Copying(q)' => Copying(q) \/ q = p
        BY <1>8 DEF CreateNext, Answer, Refuse, Goto, Copying
      <4>6. \A q \in Process : Copying(q) /\ cur[q] \in alias => cur[q] # cur[p]
        BY <4>1 DEF OneCopy
      <4>7. \A q \in Process : Copying(q) => cur[q] + 1 \in Version
        BY DEF Copying, OnlyUp
      <4> QED
        BY <4>1, <4>3, <4>4, <4>5, <4>6, <4>7 DEF OneCopy
    <3> QED
      BY <3>1, <3>2
  <2> QED
    BY <2>1, <2>2, <2>3, <2>4, <2>5
<1>9. ASSUME NEW p \in Process, Reindex(p) PROVE VersionsOK'
  <2>0. \A v \in Version : Exists(v)' = Exists(v)
    BY <1>9, ReindexKeeps
  <2>1. AliasServes'
    BY <1>9, <2>0 DEF Reindex, Refuse, Answer, Goto, history, AliasServes, AliasOnOneIndex
  <2>2. MappedAlias'
    BY <1>9 DEF Reindex, Refuse, Answer, Goto, history, MappedAlias, AliasServes, AliasOnOneIndex
  <2>3. CreatorsAlone'
    BY <1>9 DEF Reindex, Refuse, Answer, Goto, history, CreatorsAlone, AliasServes, AliasOnOneIndex, Exists
  <2>4. OnlyUp'
    BY <1>9 DEF Reindex, Refuse, Answer, Goto, history, OnlyUp
  <2>5. OneCopy'
    BY <1>9, <2>0 DEF Reindex, Refuse, Answer, Goto, history, OneCopy, Copying, OnlyUp, Exists
  <2> QED
    BY <2>1, <2>2, <2>3, <2>4, <2>5
<1>10. ASSUME NEW p \in Process, Swap(p) PROVE VersionsOK'
  <2>1. AliasServes'
    BY <1>10 DEF Swap, Refuse, Answer, Goto, history, AliasServes, AliasOnOneIndex, CreatorsAlone, Exists
  <2>2. MappedAlias'
    BY <1>10 DEF Swap, Refuse, Answer, Goto, history, MappedAlias, AliasServes, AliasOnOneIndex
  <2>3. CreatorsAlone'
    BY <1>10 DEF Swap, Refuse, Answer, Goto, history, CreatorsAlone
  <2>4. OnlyUp'
    <3>1. CASE Refuse(p)
      BY <1>10, <3>1 DEF Refuse, Goto, history, OnlyUp
    <3>2. CASE ~Refuse(p)
      <4>1. /\ pc[p] = "swap" /\ cur[p] \in alias /\ cur' = cur
            /\ alias' = (alias \ {cur[p]}) \cup {cur[p] + 1}
        BY <1>10, <3>2 DEF Swap
      <4>2. alias' = {cur[p] + 1}
        BY <4>1 DEF AliasServes, AliasOnOneIndex
      <4>3. \A q \in Process : q # p => pc'[q] = pc[q]
        BY <1>10, <3>2 DEF Swap, Answer, Goto
      <4>4. pc'[p] \in {"deleteold", "failed"}
        BY <1>10, <3>2 DEF Swap, Answer, Goto
      <4>5. \A q \in Process : pc[q] \in Migrating => cur[q] < MaxVersion /\ cur[q] <= cur[p]
        BY <4>1 DEF OnlyUp
      <4> QED
        BY <4>1, <4>2, <4>3, <4>4, <4>5 DEF OnlyUp
    <3> QED
      BY <3>1, <3>2
  <2>5. OneCopy'
    BY <1>10 DEF Swap, Refuse, Answer, Goto, history, OneCopy, Copying, OnlyUp, Exists
  <2> QED
    BY <2>1, <2>2, <2>3, <2>4, <2>5
<1>11. ASSUME NEW p \in Process, DeleteOld(p) PROVE VersionsOK'
  <2>1. AliasServes'
    BY <1>11 DEF DeleteOld, Refuse, Answer, Goto, history, AliasServes, AliasOnOneIndex, OnlyUp, Exists
  <2>2. MappedAlias'
    BY <1>11 DEF DeleteOld, Refuse, Answer, Goto, history, MappedAlias, OnlyUp
  <2>3. CreatorsAlone'
    BY <1>11 DEF DeleteOld, Refuse, Answer, Goto, history, CreatorsAlone
  <2>4. OnlyUp'
    BY <1>11 DEF DeleteOld, Refuse, Answer, Goto, history, OnlyUp
  <2>5. OneCopy'
    BY <1>11 DEF DeleteOld, Refuse, Answer, Goto, history, OneCopy, Copying, OnlyUp, Exists
  <2> QED
    BY <2>1, <2>2, <2>3, <2>4, <2>5
<1>12. ASSUME NEW p \in Process, RequestFails(p) PROVE VersionsOK'
  <2>1. AliasServes'
    BY <1>12 DEF RequestFails, Goto, history, AliasServes, AliasOnOneIndex, MappedAlias, Exists
  <2>2. MappedAlias'
    BY <1>12 DEF RequestFails, Goto, history, MappedAlias
  <2>3. CreatorsAlone'
    BY <1>12 DEF RequestFails, Goto, history, CreatorsAlone
  <2>4. OnlyUp'
    BY <1>12 DEF RequestFails, Goto, history, OnlyUp
  <2>5. OneCopy'
    BY <1>12 DEF RequestFails, Goto, history, OneCopy, Copying, Exists
  <2> QED
    BY <2>1, <2>2, <2>3, <2>4, <2>5
<1>13. ASSUME NEW p \in Process, Restart(p) PROVE VersionsOK'
  <2>1. AliasServes'
    BY <1>13 DEF Restart, Goto, AliasServes, AliasOnOneIndex, Exists
  <2>2. MappedAlias'
    BY <1>13 DEF Restart, Goto, MappedAlias
  <2>3. CreatorsAlone'
    BY <1>13 DEF Restart, Goto, CreatorsAlone
  <2>4. OnlyUp'
    BY <1>13 DEF Restart, Goto, OnlyUp
  <2>5. OneCopy'
    BY <1>13 DEF Restart, Goto, OneCopy, Copying, Exists
  <2> QED
    BY <2>1, <2>2, <2>3, <2>4, <2>5
<1>14. ASSUME NEW i \in Ids, NEW x \in Value, WriteDocument(i, x) PROVE VersionsOK'
  <2>0. \A v \in Version : Exists(v)' = Exists(v)
    BY <1>14, WriteKeeps
  <2>1. AliasServes'
    BY <1>14, <2>0 DEF WriteDocument, AliasServes, AliasOnOneIndex
  <2>2. MappedAlias'
    BY <1>14 DEF WriteDocument, MappedAlias
  <2>3. CreatorsAlone'
    BY <1>14 DEF WriteDocument, CreatorsAlone
  <2>4. OnlyUp'
    BY <1>14 DEF WriteDocument, OnlyUp
  <2>5. OneCopy'
    <3>1. pc' = pc /\ cur' = cur /\ alias' = alias
      BY <1>14 DEF WriteDocument
    <3>2. \A q \in Process : Copying(q) => cur[q] + 1 \in Version
      BY DEF Copying, OnlyUp
    <3> QED
      BY <2>0, <3>1, <3>2 DEF OneCopy, Copying
  <2> QED
    BY <2>1, <2>2, <2>3, <2>4, <2>5
<1>15. CASE UNCHANGED vars
  BY <1>15 DEF vars, AliasServes, AliasOnOneIndex, MappedAlias, CreatorsAlone, OnlyUp, OneCopy,
     Copying, Exists
<1> QED
  BY <1>1, <1>2, <1>3, <1>4, <1>5, <1>6, <1>7, <1>8, <1>9, <1>10, <1>11, <1>12,
     <1>13, <1>14, <1>15 DEF Next, Create, Migrate

\* Steps that touch neither the alias nor the documents behind it, and make
\* no process start or end a copy.
LEMMA DocumentsKept ==
  ASSUME DocumentsOK, Untouched',
         alias' = alias, accepted' = accepted, lost' = lost,
         \A p \in Process : pc'[p] \in {"reindex", "swap"} =>
           pc'[p] = pc[p] /\ cur'[p] = cur[p] /\ since'[p] = since[p],
         \A v \in alias : index'[v].docs = index[v].docs,
         \A p \in Process : Copying(p) /\ cur[p] \in alias =>
           index'[cur[p] + 1].docs = index[cur[p] + 1].docs
  PROVE  DocumentsOK'
<1>1. NothingLost'
  BY DEF DocumentsOK, NothingLost
<1>2. FreshCopy'
  BY DEF DocumentsOK, FreshCopy, Copying
<1>3. FullCopy'
  BY DEF DocumentsOK, FullCopy, Copying
<1> QED
  BY <1>1, <1>2, <1>3 DEF DocumentsOK

LEMMA RefuseKeepsDocuments ==
  ASSUME NEW p \in Process, TypeOK, DocumentsOK, Refuse(p)
  PROVE  DocumentsOK'
<1>1. Untouched'
  BY DEF Refuse, history, DocumentsOK, Untouched, Exists
<1> QED
  BY <1>1, DocumentsKept DEF Refuse, Goto, history, TypeOK

\* Documents: no migration serves an index before it has them.
LEMMA DocumentsStep ==
  ASSUME TypeOK, TypeOK', VersionsOK, VersionsOK', DocumentsOK, [Next]_vars
  PROVE  DocumentsOK'
<1> USE IndexesAssumption DEF TypeOK
<1>1. ASSUME NEW p \in Process, CheckAlias(p) PROVE DocumentsOK'
  <2>1. Untouched'
    BY <1>1 DEF CheckAlias, history, DocumentsOK, Untouched, Exists
  <2> QED
    BY <1>1, <2>1, DocumentsKept DEF CheckAlias, Goto, history, Ready
<1>2. ASSUME NEW p \in Process, CheckV1(p) PROVE DocumentsOK'
  <2>1. Untouched'
    BY <1>2 DEF CheckV1, history, DocumentsOK, Untouched, Exists
  <2> QED
    BY <1>2, <2>1, DocumentsKept DEF CheckV1, Goto, history
<1>3. ASSUME NEW p \in Process, CreateV1(p) PROVE DocumentsOK'
  <2>1. CASE Refuse(p)
    BY <2>1, RefuseKeepsDocuments
  <2>2. CASE ~Refuse(p)
    <3>1. ~Exists(1) /\ index' = [index EXCEPT ![1] = EmptyIndex]
      BY <1>3, <2>2 DEF CreateV1
    <3>2. alias = {} /\ \A q \in Process : pc[q] \notin Migrating
      BY <1>3, <3>1 DEF CreateV1, VersionsOK, CreatorsAlone, Creating, AliasServes
    <3>3. Untouched'
      BY <1>3, <3>1, <3>2 DEF CreateV1, Refuse, history, DocumentsOK, Untouched, EmptyIndex, Version
    <3> QED
      BY <1>3, <2>2, <3>2, <3>3, DocumentsKept
      DEF CreateV1, Answer, Goto, history, Copying, Migrating
  <2> QED
    BY <2>1, <2>2
<1>4. ASSUME NEW p \in Process, PutAlias(p) PROVE DocumentsOK'
  <2>1. CASE Refuse(p)
    BY <2>1, RefuseKeepsDocuments
  <2>2. CASE ~Refuse(p)
    <3>1. /\ Exists(1) /\ alias' = {1} /\ index' = index /\ accepted' = accepted /\ lost' = lost
          /\ \A q \in Process : pc[q] \notin Migrating
      BY <1>4, <2>2 DEF PutAlias, history, VersionsOK, CreatorsAlone, Creating
    <3>2. \A q \in Process : pc'[q] \notin {"reindex", "swap"}
      BY <1>4, <2>2, <3>1 DEF PutAlias, Answer, Goto, Ready, Migrating
    <3>3. NothingLost'
      BY <1>4, <3>1 DEF PutAlias, VersionsOK, CreatorsAlone, Creating, DocumentsOK, NothingLost,
         Untouched
    <3> QED
      BY <3>1, <3>2, <3>3 DEF DocumentsOK, FreshCopy, FullCopy, Untouched
  <2> QED
    BY <2>1, <2>2
<1>5. ASSUME NEW p \in Process, GetMapped(p) PROVE DocumentsOK'
  <2>1. Untouched'
    BY <1>5 DEF GetMapped, history, DocumentsOK, Untouched, Exists
  <2> QED
    BY <1>5, <2>1, DocumentsKept DEF GetMapped, Goto, history, Ready
<1>6. ASSUME NEW p \in Process, PutMapping(p) PROVE DocumentsOK'
  <2>1. \A v \in Version : index'[v].docs = index[v].docs
    <3>1. CASE UNCHANGED index
      BY <3>1
    <3>2. CASE Exists(cur[p]) /\ index' = [index EXCEPT ![cur[p]].mapping = "configured"]
      <4>1. cur[p] \in Version /\ index[cur[p]] \in Index
        BY <3>2 DEF Exists
      <4>2. [index[cur[p]] EXCEPT !.mapping = "configured"].docs = index[cur[p]].docs
        BY <4>1 DEF Index
      <4> QED
        BY <3>2, <4>1, <4>2
    <3> QED
      BY <1>6, <3>1, <3>2 DEF PutMapping
  <2>2. alias # {} /\ alias' = alias
    BY <1>6 DEF PutMapping, VersionsOK, MappedAlias
  <2>3. \A q \in Process : Copying(q) => cur[q] + 1 \in Version
    BY DEF VersionsOK, OnlyUp, Copying, Migrating, Version
  <2> QED
    BY <1>6, <2>1, <2>2, <2>3, DocumentsKept DEF PutMapping, Goto, history, Ready, Untouched
<1>7. ASSUME NEW p \in Process, GetVersions(p) PROVE DocumentsOK'
  <2>1. CASE Refuse(p)
    BY <2>1, RefuseKeepsDocuments
  <2>2. CASE ~Refuse(p)
    <3>1. Untouched'
      BY <1>7, <2>2 DEF GetVersions, history, DocumentsOK, Untouched, Exists
    <3> QED
      BY <1>7, <2>2, <3>1, DocumentsKept DEF GetVersions, Goto, history
  <2> QED
    BY <2>1, <2>2
<1>8. ASSUME NEW p \in Process, CreateNext(p) PROVE DocumentsOK'
  <2>1. CASE Refuse(p)
    BY <2>1, RefuseKeepsDocuments
  <2>2. CASE ~Refuse(p)
    <3>1. /\ ~Exists(cur[p] + 1) /\ index' = [index EXCEPT ![cur[p] + 1] = EmptyIndex]
          /\ alias' = alias /\ cur' = cur /\ accepted' = accepted /\ lost' = lost /\ since' = since
      BY <1>8, <2>2 DEF CreateNext, history
    <3>2. cur[p] + 1 \in Version /\ cur[p] + 1 \notin alias /\ alias # {}
      BY <1>8, <3>1 DEF CreateNext, VersionsOK, AliasServes, OnlyUp, Migrating, Version
    <3>3. \A q \in Process : Copying(q) /\ cur[q] \in alias => cur[q] + 1 # cur[p] + 1
      BY <3>1 DEF VersionsOK, OneCopy
    <3>4. \A q \in Process : q # p => pc'[q] = pc[q]
      BY <1>8, <2>2 DEF CreateNext, Answer, Goto
    <3>5. pc'[p] # "swap"
      BY <1>8, <2>2 DEF CreateNext, Answer, Goto
    <3>6. \A v \in alias : index'[v] = index[v]
      BY <3>1, <3>2
    <3>7. \A q \in Process : Copying(q) /\ cur[q] \in alias => index'[cur[q] + 1] = index[cur[q] + 1]
      BY <3>1, <3>3
    <3>8. NothingLost'
      BY <3>1, <3>6 DEF DocumentsOK, NothingLost
    <3>9. FreshCopy'
      BY <3>1, <3>2, <3>4, <3>7 DEF DocumentsOK, FreshCopy, Copying, EmptyIndex
    <3>10. FullCopy'
      BY <3>1, <3>4, <3>5, <3>7 DEF DocumentsOK, FullCopy, Copying
    <3> QED
      BY <3>1, <3>2, <3>8, <3>9, <3>10 DEF DocumentsOK, Untouched
  <2> QED
    BY <2>1, <2>2
<1>9. ASSUME NEW p \in Process, Reindex(p) PROVE DocumentsOK'
  <2>1. CASE Refuse(p)
    BY <2>1, RefuseKeepsDocuments
  <2>2. CASE ~Refuse(p)
    <3>0. PICK ids \in SUBSET Ids :
            /\ index' = [index EXCEPT ![cur[p] + 1].docs = Copied(p, ids)]
            /\ pc'[p] = "swap" => ids = Ids
      BY <1>9, <2>2 DEF Reindex, Answer, Goto
    <3>1. /\ pc[p] = "reindex" /\ Exists(cur[p]) /\ Exists(cur[p] + 1)
          /\ alias' = alias /\ cur' = cur /\ accepted' = accepted /\ lost' = lost
          /\ since' = [since EXCEPT ![p] = {}]
      BY <1>9, <2>2 DEF Reindex
    <3>2. cur[p] + 1 \in Version /\ cur[p] + 1 \notin alias /\ alias # {}
      BY <3>1 DEF VersionsOK, AliasServes, OnlyUp, OneCopy, Copying, Migrating, Version
    <3>3. \A q \in Process : q # p /\ Copying(q) /\ cur[q] \in alias => cur[q] + 1 # cur[p] + 1
      BY <3>1 DEF VersionsOK, OneCopy, Copying, Version
    <3>4. (\A q \in Process : q # p => pc'[q] = pc[q]) /\ pc'[p] \in {"swap", "failed"}
      BY <1>9, <2>2 DEF Reindex, Answer, Goto
    <3>5. \A v \in Version : v # cur[p] + 1 => index'[v] = index[v]
      BY <3>0
    <3>6. \A q \in Process : Copying(q) => cur[q] + 1 \in Version
      BY DEF VersionsOK, OnlyUp, Copying, Migrating, Version
    <3>7. NothingLost'
      BY <3>1, <3>2, <3>5 DEF DocumentsOK, NothingLost
    <3>8. FreshCopy'
      BY <3>1, <3>3, <3>4, <3>5, <3>6 DEF DocumentsOK, FreshCopy, Copying
    <3>9. ASSUME pc'[p] = "swap", cur[p] \in alias, NEW i \in Ids \ lost
          PROVE  index'[cur[p] + 1].docs[i] = accepted[i]
      <4>1. index[cur[p]].docs[i] = accepted[i] /\ index[cur[p] + 1].docs[i] = NoDoc
        BY <3>1, <3>9 DEF DocumentsOK, NothingLost, FreshCopy
      <4>2. Copied(p, Ids)[i] = accepted[i]
        BY <4>1 DEF Copied
      <4>3. index[cur[p] + 1] \in Index
        BY <3>1, <3>2 DEF Exists
      <4>4. [index[cur[p] + 1] EXCEPT !.docs = Copied(p, Ids)].docs = Copied(p, Ids)
        BY <4>3 DEF Index
      <4> QED
        BY <3>0, <3>2, <3>9, <4>2, <4>4
    <3>10. FullCopy'
      BY <3>1, <3>3, <3>4, <3>5, <3>6, <3>9 DEF DocumentsOK, FullCopy, Copying
    <3> QED
      BY <3>1, <3>2, <3>7, <3>8, <3>10 DEF DocumentsOK, Untouched
  <2> QED
    BY <2>1, <2>2
<1>10. ASSUME NEW p \in Process, Swap(p) PROVE DocumentsOK'
  <2>1. CASE Refuse(p)
    BY <2>1, RefuseKeepsDocuments
  <2>2. CASE ~Refuse(p)
    <3>1. /\ pc[p] = "swap" /\ cur[p] \in alias
          /\ alias' = (alias \ {cur[p]}) \cup {cur[p] + 1}
          /\ index' = index /\ cur' = cur /\ accepted' = accepted /\ since' = since
          /\ lost' = lost \cup since[p]
      BY <1>10, <2>2 DEF Swap
    <3>2. alias' = {cur[p] + 1}
      BY <3>1 DEF VersionsOK, AliasServes, AliasOnOneIndex
    <3>3. NothingLost'
      BY <3>1, <3>2 DEF DocumentsOK, FullCopy, NothingLost
    <3>4. \A q \in Process : Copying(q) => cur[q] # cur[p] + 1
      BY <3>1 DEF VersionsOK, OnlyUp, Copying, Migrating, Version
    <3>5. \A q \in Process : pc'[q] \in {"reindex", "swap"} => Copying(q)
      BY <1>10, <2>2 DEF Swap, Answer, Goto, Copying
    <3> QED
      BY <3>1, <3>2, <3>3, <3>4, <3>5 DEF DocumentsOK, FreshCopy, FullCopy, Untouched
  <2> QED
    BY <2>1, <2>2
<1>11. ASSUME NEW p \in Process, DeleteOld(p) PROVE DocumentsOK'
  <2>1. CASE Refuse(p)
    BY <2>1, RefuseKeepsDocuments
  <2>2. CASE ~Refuse(p)
    <3>1. /\ pc[p] = "deleteold"
          /\ index' = [index EXCEPT ![cur[p]] = NoIndex]
          /\ alias' = alias \ {cur[p]}
      BY <1>11, <2>2 DEF DeleteOld
    <3>2. \A v \in alias : cur[p] < v
      BY <3>1 DEF VersionsOK, OnlyUp, Migrating
    <3>3. alias' = alias /\ alias # {}
      BY <3>1, <3>2 DEF VersionsOK, AliasServes, Migrating, Version
    <3>4. \A q \in Process : cur[q] \in alias => cur[q] + 1 # cur[p]
      BY <3>2 DEF Version
    <3>5. \A v \in alias : index'[v] = index[v]
      BY <3>1, <3>2 DEF Version
    <3>6. \A q \in Process : cur[q] \in alias => index'[cur[q] + 1] = index[cur[q] + 1]
      BY <3>1, <3>4
    <3> QED
      BY <1>11, <2>2, <3>3, <3>5, <3>6, DocumentsKept DEF DeleteOld, Answer, Goto, history, Untouched
  <2> QED
    BY <2>1, <2>2
<1>12. ASSUME NEW p \in Process, RequestFails(p) PROVE DocumentsOK'
  <2>1. Untouched'
    BY <1>12 DEF RequestFails, history, DocumentsOK, Untouched, Exists
  <2> QED
    BY <1>12, <2>1, DocumentsKept DEF RequestFails, Goto, history, Ready
<1>13. ASSUME NEW p \in Process, Restart(p) PROVE DocumentsOK'
  <2>1. Untouched'
    BY <1>13 DEF Restart, history, DocumentsOK, Untouched, Exists
  <2> QED
    BY <1>13, <2>1, DocumentsKept DEF Restart, Goto
<1>14. ASSUME NEW i \in Ids, NEW x \in Value, WriteDocument(i, x) PROVE DocumentsOK'
  <2>1. PICK v \in alias : alias = {v} /\ index' = [index EXCEPT ![v].docs[i] = x]
    BY <1>14 DEF WriteDocument
  <2>2. /\ accepted' = [accepted EXCEPT ![i] = x]
        /\ lost' = lost \ {i}
        /\ alias' = alias /\ pc' = pc /\ cur' = cur
        /\ \A p \in Process : pc[p] = "swap" => since'[p] = since[p] \cup {i}
    BY <1>14 DEF WriteDocument
  <2>3. v \in Version /\ index[v] \in Index
    BY <2>1 DEF VersionsOK, AliasServes, Exists
  <2>4. index'[v].docs = [index[v].docs EXCEPT ![i] = x]
    BY <2>1, <2>3 DEF Index
  <2>5. NothingLost'
    <3>1. \A j \in Ids : j # i => index'[v].docs[j] = index[v].docs[j]
      BY <2>3, <2>4 DEF Index
    <3>2. index'[v].docs[i] = x
      BY <2>3, <2>4 DEF Index
    <3> QED
      BY <2>1, <2>2, <3>1, <3>2 DEF DocumentsOK, NothingLost
  <2>6. \A p \in Process : Copying(p) /\ cur[p] \in alias => index'[cur[p] + 1] = index[cur[p] + 1]
    BY <2>1 DEF Version
  <2>7. FreshCopy'
    BY <2>2, <2>6 DEF DocumentsOK, FreshCopy, Copying
  <2>8. FullCopy'
    BY <2>2, <2>6 DEF DocumentsOK, FullCopy, Copying
  <2> QED
    BY <2>1, <2>2, <2>5, <2>7, <2>8 DEF DocumentsOK, Untouched
<1>15. CASE UNCHANGED vars
  BY <1>15 DEF vars, DocumentsOK, NothingLost, FreshCopy, FullCopy, Untouched, Exists
<1> QED
  BY <1>1, <1>2, <1>3, <1>4, <1>5, <1>6, <1>7, <1>8, <1>9, <1>10, <1>11, <1>12,
     <1>13, <1>14, <1>15 DEF Next, Create, Migrate

\* Mappings: the alias only moves to an index made with the configured one.
LEMMA MappingsStep ==
  ASSUME TypeOK, TypeOK', VersionsOK, VersionsOK', MappingsOK, [Next]_vars
  PROVE  MappingsOK'
<1> USE IndexesAssumption DEF TypeOK
<1>1. \A v \in Version : Exists(v)' =>
        \/ index'[v].mapping = "configured"
        \/ Exists(v) /\ index'[v].mapping = index[v].mapping
  <2> SUFFICES ASSUME NEW v \in Version, Exists(v)'
               PROVE  \/ index'[v].mapping = "configured"
                      \/ Exists(v) /\ index'[v].mapping = index[v].mapping
    OBVIOUS
  <2>1. ASSUME NEW p \in Process, CreateV1(p) \/ CreateNext(p) \/ DeleteOld(p)
        PROVE  \/ index'[v].mapping = "configured"
               \/ Exists(v) /\ index'[v].mapping = index[v].mapping
    BY <2>1 DEF CreateV1, CreateNext, DeleteOld, Refuse, EmptyIndex, Exists
  <2>2. ASSUME NEW p \in Process, PutMapping(p)
        PROVE  \/ index'[v].mapping = "configured"
               \/ Exists(v) /\ index'[v].mapping = index[v].mapping
    <3>1. Exists(v) /\ index[v] \in Index
      BY <2>2, PutMappingKeeps DEF Exists
    <3> QED
      BY <2>2, <3>1 DEF PutMapping, Index
  <2>3. ASSUME NEW p \in Process, Reindex(p)
        PROVE  Exists(v) /\ index'[v].mapping = index[v].mapping
    <3>1. Exists(v) /\ index[v] \in Index
      BY <2>3, ReindexKeeps DEF Exists
    <3>2. CASE Refuse(p)
      BY <3>1, <3>2 DEF Refuse
    <3>3. CASE ~Refuse(p)
      <4>1. PICK ids \in SUBSET Ids :
              index' = [index EXCEPT ![cur[p] + 1].docs = Copied(p, ids)]
        BY <2>3, <3>3 DEF Reindex
      <4> QED
        BY <3>1, <4>1 DEF Index
    <3> QED
      BY <3>2, <3>3
  <2>4. ASSUME NEW i \in Ids, NEW x \in Value, WriteDocument(i, x)
        PROVE  Exists(v) /\ index'[v].mapping = index[v].mapping
    <3>1. Exists(v) /\ index[v] \in Index
      BY <2>4, WriteKeeps DEF Exists
    <3>2. PICK w \in alias : index' = [index EXCEPT ![w].docs[i] = x]
      BY <2>4 DEF WriteDocument
    <3> QED
      BY <3>1, <3>2 DEF Index
  <2>5. CASE UNCHANGED index
    BY <2>5 DEF Exists
  <2> QED
    BY <2>1, <2>2, <2>3, <2>4, <2>5
    DEF Next, vars, history, Create, Migrate, CheckAlias, CheckV1, PutAlias, GetMapped,
        GetVersions, Refuse, Swap, RequestFails, Restart
<1>2. OnlyFirstOld'
  BY <1>1 DEF MappingsOK, OnlyFirstOld
<1>3. ASSUME NEW p \in Process, pc'[p] = "migrated", pc[p] # "migrated"
      PROVE  1 \notin alias'
  <2>1. pc[p] = "deleteold" /\ alias' \subseteq alias
    <3>1. ASSUME NEW q \in Process, DeleteOld(q) PROVE pc[p] = "deleteold" /\ alias' \subseteq alias
      BY <1>3, <3>1 DEF DeleteOld, Refuse, Answer, Goto, history
    <3>2. ASSUME NEW q \in Process, Create(q) PROVE FALSE
      BY <1>3, <3>2 DEF Create, CheckAlias, CheckV1, CreateV1, PutAlias, GetMapped, PutMapping,
         Refuse, Answer, Goto, Ready
    <3>3. ASSUME NEW q \in Process, GetVersions(q) \/ CreateNext(q) \/ Reindex(q) \/ Swap(q)
          PROVE FALSE
      BY <1>3, <3>3 DEF GetVersions, CreateNext, Reindex, Swap, Refuse, Answer, Goto
    <3>4. ASSUME NEW q \in Process, RequestFails(q) \/ Restart(q) PROVE FALSE
      BY <1>3, <3>4 DEF RequestFails, Restart, Goto, Ready
    <3> QED
      BY <1>3, <3>1, <3>2, <3>3, <3>4 DEF Next, vars, WriteDocument, Migrate
  <2> QED
    BY <2>1 DEF VersionsOK, OnlyUp, Migrating, Version
<1>4. ASSUME NEW p \in Process, pc[p] = "migrated", NEW v \in alias'
      PROVE  v \in alias \/ v # 1
  <2>1. ASSUME NEW q \in Process, PutAlias(q) PROVE v \in alias
    BY <1>4, <2>1 DEF PutAlias, Refuse, history, VersionsOK, CreatorsAlone, Creating
  <2>2. ASSUME NEW q \in Process, Swap(q) PROVE v \in alias \/ v # 1
    BY <1>4, <2>2 DEF Swap, Refuse, history, Version
  <2>3. CASE alias' \subseteq alias
    BY <1>4, <2>3
  <2> QED
    BY <2>1, <2>2, <2>3
    DEF Next, vars, history, Create, Migrate, CheckAlias, CheckV1, CreateV1, GetMapped, PutMapping,
        GetVersions, CreateNext, Reindex, Refuse, DeleteOld, RequestFails, Restart, WriteDocument
<1>5. MappingApplied'
  <2> SUFFICES ASSUME NEW p \in Process, pc'[p] = "migrated", NEW v \in alias'
               PROVE  index'[v].mapping = "configured"
    BY DEF MappingApplied
  <2>1. v \in Version /\ Exists(v)'
    BY DEF VersionsOK, AliasServes
  <2>2. CASE v # 1
    BY <1>2, <2>1, <2>2 DEF OnlyFirstOld
  <2>3. CASE v = 1
    <3>1. pc[p] = "migrated" /\ v \in alias
      BY <1>3, <1>4, <2>3
    <3>2. index[v].mapping = "configured"
      BY <3>1 DEF MappingsOK, MappingApplied
    <3> QED
      BY <1>1, <2>1, <3>2
  <2> QED
    BY <2>2, <2>3
<1> QED
  BY <1>2, <1>5 DEF MappingsOK

-----------------------------------------------------------------------------

\* Every step keeps the inductive invariant.
LEMMA IInvStep == ASSUME ~Overlap PROVE IInv /\ [Next]_vars => IInv'
<1> SUFFICES ASSUME IInv, [Next]_vars PROVE IInv'
  OBVIOUS
<1>1. TypeOK'
  BY TypeStep DEF IInv
<1>2. VersionsOK'
  BY <1>1, VersionsStep DEF IInv
<1>3. DocumentsOK'
  BY <1>1, <1>2, DocumentsStep DEF IInv
<1>4. MappingsOK'
  BY <1>1, <1>2, MappingsStep DEF IInv
<1> QED
  BY <1>1, <1>2, <1>3, <1>4 DEF IInv

\* IInv holds in every reachable state.
LEMMA Invariant == ASSUME ~Overlap PROVE Spec => []IInv
<1>1. IInv /\ [Next]_vars => IInv'
  BY IInvStep
<1> QED
  BY InitOK, <1>1, PTL DEF Spec

\* The alias is on one index that exists once a process runs, for any number of
\* servers, workers and migrations that fail anywhere or run side by side, if
\* no migration begins during the first start of another process.
THEOREM AliasStays == ASSUME ~Overlap PROVE Spec => []AliasServes
<1>1. IInv => AliasServes
  BY DEF IInv, VersionsOK
<1> QED
  BY Invariant, <1>1, PTL

\* Migrations lose no write but those between a reindex and the move of the
\* alias that follows it.
THEOREM WritesSurvive == ASSUME ~Overlap PROVE Spec => []NothingLost
<1>1. IInv => NothingLost
  BY DEF IInv, DocumentsOK
<1> QED
  BY Invariant, <1>1, PTL

\* A migration that ends without error leaves the configured mapping in use.
THEOREM MappingStays == ASSUME ~Overlap PROVE Spec => []MappingApplied
<1>1. IInv => MappingApplied
  BY DEF IInv, MappingsOK
<1> QED
  BY Invariant, <1>1, PTL
=============================================================================
