------------------------------ MODULE Indexes ------------------------------
(***************************************************************************)
(* The index of a resource kind (lib/opensearchclient).  Programs reach it *)
(* by an alias, the name of the kind; the alias points to an index of some *)
(* version.  Every process makes the index and the alias when it starts;   *)
(* the command update-indexes copies the documents to an index of the next *)
(* version, built with the configured mapping, and moves the alias there,  *)
(* while workers go on writing.                                            *)
(*                                                                         *)
(* Each action is a request to OpenSearch.  Requests fail, or are executed *)
(* and the response is lost, and processes die; MaxFaults bounds these.    *)
(***************************************************************************)
EXTENDS Integers, FiniteSets

CONSTANTS
  Starters,         \* processes that start a server or a worker
  Migrators,        \* processes that run update-indexes
  Ids,              \* documents
  Contents,         \* what a document may hold
  NoDoc,            \* there is no document
  NoIndex,          \* there is no index of a version
  TryMappingUpdate, \* configuration: try_mapping_update_on_startup
  Overlap,          \* a migration may begin while other processes still start
  MaxVersion,       \* bound on index versions
  MaxFaults         \* bound on faults

Process  == Starters \cup Migrators
Version  == 1..MaxVersion
Value    == Contents \cup {NoDoc}
Index    == [docs : [Ids -> Value], mapping : {"old", "configured"}]

ASSUME IndexesAssumption ==
  /\ Starters \cap Migrators = {}
  /\ NoDoc \notin Contents
  /\ NoIndex \notin Index
  /\ TryMappingUpdate \in BOOLEAN
  /\ Overlap \in BOOLEAN
  /\ MaxVersion \in Nat \ {0}
  /\ MaxFaults \in Nat

VARIABLES
  index,     \* the index of each version
  alias,     \* versions the alias points to
  pc,        \* the request a process sends next
  cur,       \* version a process read from the alias
  faults,    \* faults so far
  accepted,  \* history: what was written last to each document
  since,     \* history: documents written since the reindex of a process
  lost       \* history: documents whose last write a migration left behind

history == <<accepted, since, lost>>
vars    == <<index, alias, pc, cur, faults, accepted, since, lost>>

Creating  == {"v1", "create", "putalias"}
Migrating == {"createnext", "reindex", "swap", "deleteold"}
Label == {"alias", "getmapped", "putmapping", "started", "versions", "migrated", "failed"}
           \cup Creating \cup Migrating

Exists(v)  == index[v] # NoIndex
EmptyIndex == [docs |-> [i \in Ids |-> NoDoc], mapping |-> "configured"]

Goto(p, label) == pc' = [pc EXCEPT ![p] = label]

\* The end of a request that was executed: p continues at label, or the
\* response is lost and p ends with an error.
Answer(p, label) ==
  \/ /\ Goto(p, label)
     /\ UNCHANGED faults
  \/ /\ faults < MaxFaults
     /\ faults' = faults + 1
     /\ Goto(p, "failed")

\* OpenSearch refuses the request.
Refuse(p) ==
  /\ Goto(p, "failed")
  /\ UNCHANGED <<index, alias, cur, faults, history>>

\* Where New leads: update-indexes continues, a server or worker serves.
Ready(p) == IF p \in Migrators THEN "versions" ELSE "started"

-----------------------------------------------------------------------------
(* CreateIndex                                                             *)

\* IndexExists(kind)
CheckAlias(p) ==
  /\ pc[p] = "alias"
  /\ Goto(p, IF alias = {} THEN "v1"
             ELSE IF TryMappingUpdate THEN "getmapped" ELSE Ready(p))
  /\ UNCHANGED <<index, alias, cur, faults, history>>

\* Mutant of CheckV1: without the check an index that lacks its alias, left by
\* a process that died, makes CreateIndex fail.
CheckV1Skipped(p) ==
  /\ pc[p] = "v1"
  /\ Goto(p, "create")
  /\ UNCHANGED <<index, alias, cur, faults, history>>

\* IndexExists(kind_v1)
CheckV1(p) ==
  /\ pc[p] = "v1"
  /\ Goto(p, IF Exists(1) THEN "putalias" ELSE "create")
  /\ UNCHANGED <<index, alias, cur, faults, history>>

\* Indices.Create(kind_v1): refused when another process was faster.
CreateV1(p) ==
  /\ pc[p] = "create"
  /\ \/ Exists(1) /\ Refuse(p)
     \/ /\ ~Exists(1)
        /\ index' = [index EXCEPT ![1] = EmptyIndex]
        /\ Answer(p, "putalias")
        /\ UNCHANGED <<alias, cur, history>>

\* Indices.PutAlias(kind_v1, kind)
PutAlias(p) ==
  /\ pc[p] = "putalias"
  /\ \/ ~Exists(1) /\ Refuse(p)
     \/ /\ Exists(1)
        /\ alias' = alias \cup {1}
        /\ Answer(p, Ready(p))
        /\ UNCHANGED <<index, cur, history>>

\* updateIndexMappingWithoutReindex, GetIndexVersionsOfAlias.  An error is
\* logged and ignored.
GetMapped(p) ==
  /\ pc[p] = "getmapped"
  /\ \/ \E v \in alias :
          /\ alias = {v}
          /\ cur' = [cur EXCEPT ![p] = v]
          /\ Goto(p, "putmapping")
     \/ /\ Cardinality(alias) # 1
        /\ Goto(p, Ready(p))
        /\ UNCHANGED cur
  /\ UNCHANGED <<index, alias, faults, history>>

\* Indices.PutMapping.  OpenSearch refuses to change the type of a field, or
\* the index is gone: the error is ignored.
PutMapping(p) ==
  /\ pc[p] = "putmapping"
  /\ \/ UNCHANGED index
     \/ /\ Exists(cur[p])
        /\ index' = [index EXCEPT ![cur[p]].mapping = "configured"]
  /\ Goto(p, Ready(p))
  /\ UNCHANGED <<alias, cur, faults, history>>

-----------------------------------------------------------------------------
(* UpdateIndexMapping                                                      *)

\* GetIndexVersionsOfAlias: an alias on no or several indexes is an error.
\* Unless Overlap, the migration is run when no other process is in the
\* middle of making the index.
GetVersions(p) ==
  /\ pc[p] = "versions"
  /\ Overlap \/ \A q \in Process : pc[q] \notin Creating
  /\ \/ Cardinality(alias) # 1 /\ Refuse(p)
     \/ \E v \in alias :
          /\ alias = {v}
          /\ v < MaxVersion
          /\ cur' = [cur EXCEPT ![p] = v]
          /\ Goto(p, "createnext")
          /\ UNCHANGED <<index, alias, faults, history>>

\* Mutant of CreateNext: the new index gets the mapping of the old one.
CreateNextAlike(p) ==
  /\ pc[p] = "createnext"
  /\ \/ (Exists(cur[p] + 1) \/ ~Exists(cur[p])) /\ Refuse(p)
     \/ /\ ~Exists(cur[p] + 1) /\ Exists(cur[p])
        /\ index' = [index EXCEPT ![cur[p] + 1] =
                       [EmptyIndex EXCEPT !.mapping = index[cur[p]].mapping]]
        /\ Answer(p, "reindex")
        /\ UNCHANGED <<alias, cur, history>>

\* Indices.Create(nextVersion): refused when the index exists.
CreateNext(p) ==
  /\ pc[p] = "createnext"
  /\ \/ Exists(cur[p] + 1) /\ Refuse(p)
     \/ /\ ~Exists(cur[p] + 1)
        /\ index' = [index EXCEPT ![cur[p] + 1] = EmptyIndex]
        /\ Answer(p, "reindex")
        /\ UNCHANGED <<alias, cur, history>>

\* The documents of the next version when those in ids were copied.
Copied(p, ids) ==
  [i \in Ids |-> IF i \in ids /\ index[cur[p]].docs[i] # NoDoc
                 THEN index[cur[p]].docs[i]
                 ELSE index[cur[p] + 1].docs[i]]

\* Mutant of Reindex: failures are logged and the migration goes on.
ReindexFailuresIgnored(p) ==
  /\ pc[p] = "reindex"
  /\ Exists(cur[p]) /\ Exists(cur[p] + 1)
  /\ \E ids \in SUBSET Ids :
       index' = [index EXCEPT ![cur[p] + 1].docs = Copied(p, ids)]
  /\ Answer(p, "swap")
  /\ since' = [since EXCEPT ![p] = {}]
  /\ UNCHANGED <<alias, cur, accepted, lost>>

\* Client.Reindex.  It works on a snapshot: what is written from now on stays
\* behind.  Documents that cannot be copied are reported as failures, which
\* end the migration.  A destination that is gone would be made anew; here
\* that is a refusal, as it only happens when the source is gone too.
Reindex(p) ==
  /\ pc[p] = "reindex"
  /\ \/ ~(Exists(cur[p]) /\ Exists(cur[p] + 1)) /\ Refuse(p)
     \/ /\ Exists(cur[p]) /\ Exists(cur[p] + 1)
        /\ \/ /\ index' = [index EXCEPT ![cur[p] + 1].docs = Copied(p, Ids)]
              /\ Answer(p, "swap")
           \/ /\ faults < MaxFaults
              /\ faults' = faults + 1
              /\ \E ids \in SUBSET Ids :
                   index' = [index EXCEPT ![cur[p] + 1].docs = Copied(p, ids)]
              /\ Goto(p, "failed")
        /\ since' = [since EXCEPT ![p] = {}]
        /\ UNCHANGED <<alias, cur, accepted, lost>>

\* Mutant of Swap: the alias is added to the next version only.
SwapAddsOnly(p) ==
  /\ pc[p] = "swap"
  /\ Exists(cur[p] + 1)
  /\ alias' = alias \cup {cur[p] + 1}
  /\ lost' = lost \cup since[p]
  /\ Answer(p, "deleteold")
  /\ UNCHANGED <<index, cur, accepted, since>>

\* Indices.UpdateAliases: remove and add are one step, refused when the alias
\* is not on the current version or the next one is gone.
Swap(p) ==
  /\ pc[p] = "swap"
  /\ \/ ~(cur[p] \in alias /\ Exists(cur[p] + 1)) /\ Refuse(p)
     \/ /\ cur[p] \in alias /\ Exists(cur[p] + 1)
        /\ alias' = (alias \ {cur[p]}) \cup {cur[p] + 1}
        /\ lost' = lost \cup since[p]
        /\ Answer(p, "deleteold")
        /\ UNCHANGED <<index, cur, accepted, since>>

\* Indices.Delete(currentVersion)
DeleteOld(p) ==
  /\ pc[p] = "deleteold"
  /\ \/ ~Exists(cur[p]) /\ Refuse(p)
     \/ /\ Exists(cur[p])
        /\ index' = [index EXCEPT ![cur[p]] = NoIndex]
        /\ alias' = alias \ {cur[p]}
        /\ Answer(p, "migrated")
        /\ UNCHANGED <<cur, history>>

-----------------------------------------------------------------------------
(* Faults, restarts and the worker                                         *)

\* A request fails before it is executed, or the process dies.  Of the
\* update of the mapping only a death stops the process.
RequestFails(p) ==
  /\ pc[p] \notin {"started", "migrated", "failed"}
  /\ faults < MaxFaults
  /\ faults' = faults + 1
  /\ \/ Goto(p, "failed")
     \/ pc[p] \in {"getmapped", "putmapping"} /\ Goto(p, Ready(p))
  /\ UNCHANGED <<index, alias, cur, history>>

\* The process is started again.
Restart(p) ==
  /\ pc[p] \in {"started", "migrated", "failed"}
  /\ Goto(p, "alias")
  /\ cur' = [cur EXCEPT ![p] = 1]
  /\ since' = [since EXCEPT ![p] = {}]
  /\ UNCHANGED <<index, alias, faults, accepted, lost>>

\* A worker writes or deletes a document through the alias.
WriteDocument(i, x) ==
  \E v \in alias :
    /\ alias = {v}
    /\ x # accepted[i]
    /\ index' = [index EXCEPT ![v].docs[i] = x]
    /\ accepted' = [accepted EXCEPT ![i] = x]
    /\ since' = [p \in Process |-> IF pc[p] = "swap" THEN since[p] \cup {i} ELSE since[p]]
    /\ lost' = lost \ {i}
    /\ UNCHANGED <<alias, pc, cur, faults>>

-----------------------------------------------------------------------------

\* Nothing was ever deployed, or an older version made the index.
Init ==
  /\ accepted \in [Ids -> Value]
  /\ \/ /\ index = [v \in Version |-> NoIndex]
        /\ alias = {}
        /\ accepted = [i \in Ids |-> NoDoc]
     \/ /\ index = [v \in Version |-> IF v = 1 THEN [docs |-> accepted, mapping |-> "old"]
                                      ELSE NoIndex]
        /\ alias = {1}
  /\ pc = [p \in Process |-> "alias"]
  /\ cur = [p \in Process |-> 1]
  /\ faults = 0
  /\ since = [p \in Process |-> {}]
  /\ lost = {}

Create(p)  == CheckAlias(p) \/ CheckV1(p) \/ CreateV1(p) \/ PutAlias(p)
                \/ GetMapped(p) \/ PutMapping(p)
Migrate(p) == GetVersions(p) \/ CreateNext(p) \/ Reindex(p) \/ Swap(p) \/ DeleteOld(p)

Next ==
  \/ \E p \in Process : Create(p) \/ Migrate(p) \/ RequestFails(p) \/ Restart(p)
  \/ \E i \in Ids, x \in Value : WriteDocument(i, x)

Spec == Init /\ [][Next]_vars

\* A process that runs sends its requests; a server that ended with an error
\* is started again by its supervisor.
Fairness ==
  /\ \A p \in Process : WF_vars(Create(p) \/ Migrate(p))
  /\ \A p \in Starters : WF_vars(pc[p] = "failed" /\ Restart(p))

FairSpec == Spec /\ Fairness

-----------------------------------------------------------------------------
(* Properties                                                              *)

TypeOK ==
  /\ index \in [Version -> Index \cup {NoIndex}]
  /\ alias \in SUBSET Version
  /\ pc \in [Process -> Label]
  /\ cur \in [Process -> Version]
  /\ faults \in 0..MaxFaults
  /\ accepted \in [Ids -> Value]
  /\ since \in [Process -> SUBSET Ids]
  /\ lost \in SUBSET Ids

\* The alias is on no two indexes: OpenSearch would refuse every write.
AliasOnOneIndex == \A v, w \in alias : v = w

\* After update-indexes has ended without error the alias is on one index, of
\* a later version than before, which GetIndexVersionsOfAlias can report.
MigratedVersion ==
  \A p \in Process : pc[p] = "migrated" => \E v \in Version : alias = {v} /\ cur[p] < v

\* Whenever a process has left New, the alias is on one index, that index
\* exists, and no request of a migration takes it away.
AliasServes ==
  /\ AliasOnOneIndex
  /\ \A v \in alias : Exists(v)
  /\ (\E p \in Process : pc[p] \in {"started", "versions", "migrated"} \cup Migrating)
       => alias # {}

\* The index behind the alias has the last write of each document, whatever
\* migrations ran, failed or ran twice, except of the documents written
\* between the reindex and the move of the alias of one migration.
NothingLost ==
  \A v \in alias, i \in Ids \ lost : index[v].docs[i] = accepted[i]

\* update-indexes that ends without error leaves an index with the configured
\* mapping behind the alias, and so do all later migrations.
MappingApplied ==
  (\E p \in Process : pc[p] = "migrated")
    => \A v \in alias : index[v].mapping = "configured"

\* Every server comes up, whatever failed before: CreateIndex resumes after
\* each of its steps.
EveryoneStarts == \A p \in Starters : []<>(pc[p] = "started")
=============================================================================
