-------------------------- MODULE PermissionStore ---------------------------
(***************************************************************************)
(* What the worker promises: the documents change only by applying one     *)
(* message of a topic to one document, atomically.  No write mixes fields  *)
(* read before another write, a permission command or an annotation never  *)
(* brings a document into being, and only DELETE removes one.  Messages    *)
(* may be applied late, again or never: this specification says nothing of *)
(* the order.                                                              *)
(***************************************************************************)
EXTENDS Commands

CONSTANT NoDoc       \* there is no document under an id

VARIABLES
  log,       \* the messages of the topics
  doc        \* the documents of the index

storeVars == <<log, doc>>

StoreInit == doc = [id \in Ids |-> NoDoc]

Messages(c) == {log[c][i] : i \in DOMAIN log[c]}

\* One document changes from its present entry to e.
Rewrite(id, e) == doc' = [doc EXCEPT ![id] = e]

SetPermission(m) ==
  /\ IsPermUpdate(m) /\ m.id \in Ids
  /\ doc[m.id] # NoDoc
  /\ Rewrite(m.id, PermEffect(doc[m.id], m))

PutFeatures(m) ==
  /\ m.cmd = "PUT" /\ m.id \in Ids
  /\ IF doc[m.id] = NoDoc
     THEN \E e \in NewEntries(m.owner, m.features) : Rewrite(m.id, e)
     ELSE \E e \in FeaturesEffects(doc[m.id], m) : Rewrite(m.id, e)

SetRights(m) ==
  /\ m.cmd = "RIGHTS" /\ m.id \in Ids /\ m.rights # NoRights
  /\ doc[m.id] # NoDoc
  /\ \E e \in RightsEffects(doc[m.id], m) : Rewrite(m.id, e)

Delete(m) ==
  /\ m.cmd = "DELETE" /\ m.id \in Ids
  /\ doc[m.id] # NoDoc
  /\ Rewrite(m.id, NoDoc)

Annotate(m) ==
  \E i \in DOMAIN m.ids :
    /\ doc[m.ids[i]] # NoDoc
    /\ Rewrite(m.ids[i], AnnotationEffect(doc[m.ids[i]], m))

StoreNext ==
  /\ log' = log
  /\ \/ \E m \in Messages("perm") : SetPermission(m)
     \/ \E m \in Messages("resource") : PutFeatures(m) \/ SetRights(m) \/ Delete(m)
     \/ \E m \in Messages("annotation") : Annotate(m)

StoreSpec == StoreInit /\ [][StoreNext]_storeVars
=============================================================================
