------------------------------- MODULE Rights -------------------------------
(***************************************************************************)
(* The entry of a resource and the operations on its permission lists      *)
(* (lib/model/model.go).  An entry names, for each of the four rights, the *)
(* users and the groups that hold it.  The lists of the code are sets      *)
(* here: duplicates and order are never looked at, except for the first    *)
(* admin user, which becomes the creator of an entry without one (see      *)
(* CreatorFallback).  A rights string such as "rwx" is the set of its      *)
(* letters.                                                                *)
(***************************************************************************)
EXTENDS Naturals, FiniteSets, Functions

CONSTANTS
  Users,               \* user ids
  NoUser,              \* the empty string: no owner, no creator
  Groups,              \* group names
  Features,            \* values of the features map of an entry
  Fields,              \* names of annotation fields
  Values,              \* values of annotation fields, null included
  NoValue,             \* the kind has no such field for the topic
  InitialGroupRights   \* configuration: rights each group gets on creation

Right == {"a", "r", "w", "x"}

ASSUME RightsAssumption ==
  /\ NoUser \notin Users
  /\ NoValue \notin Values
  /\ IsFiniteSet(DOMAIN InitialGroupRights)
  /\ DOMAIN InitialGroupRights \subseteq Groups
  /\ InitialGroupRights \in [DOMAIN InitialGroupRights -> SUBSET Right]

\* Who holds each right, among the subjects S (users or groups).
Holders(S) == [Right -> SUBSET S]

NoHolders == [r \in Right |-> {}]

Annotations == [Fields -> Values \cup {NoValue}]

NoAnnotations == [f \in Fields |-> NoValue]

\* model.Entry.  The field Resource is the id the entry is stored under.
Entry == [features    : Features,
          annotations : Annotations,
          users       : Holders(Users),
          groups      : Holders(Groups),
          creator     : Users \cup {NoUser}]

-----------------------------------------------------------------------------
(* Single subjects: the permission commands.                               *)

AddUserRights(h, user, rights) ==
  [r \in Right |-> IF r \in rights THEN h[r] \cup {user} ELSE h[r]]

\* The 'x' case rebuilds the execute list from the ADMIN list.  The result
\* does not depend on the order of the letters: appending 'a' before or
\* after only adds the same group again.
AddGroupRights(h, group, rights) ==
  [r \in Right |->
     CASE r \notin rights -> h[r]
       [] r = "x" /\ r \in rights -> h["a"] \cup {group}
       [] OTHER -> h[r] \cup {group}]

RemoveUserRights(h, user) == [r \in Right |-> h[r] \ {user}]

RemoveGroupRights(h, group) == [r \in Right |-> h[r] \ {group}]

-----------------------------------------------------------------------------
(* Whole permission lists: RIGHTS commands, creation, export.              *)

\* A RIGHTS command maps subjects to sets of rights; it is added to h.
SetResourceRights(h, rightsOf) ==
  [r \in Right |-> h[r] \cup {s \in DOMAIN rightsOf : r \in rightsOf[s]}]

\* Mutant of ToResourceRights: the execute lists are forgotten.
ToResourceRightsNoExecute(h) ==
  [s \in UNION Range(h) |-> {r \in Right \ {"x"} : s \in h[r]}]

\* The inverse direction, used to report and to replay rights.  Only
\* subjects with at least one right are mentioned.
ToResourceRights(h) ==
  [s \in UNION Range(h) |-> {r \in Right : s \in h[r]}]

\* SetDefaultPermissions ranges over the InitialGroupRights map, whose
\* iteration order is random: any enumeration of its groups.
VisitOrders ==
  LET D == DOMAIN InitialGroupRights
  IN  Bijection(1..Cardinality(D), D)

\* The group lists after AddGroupRights has been called for every group in
\* the given order on an empty entry.  Every list holds the groups that have
\* the letter, but the execute list is the one the last 'x' built: its
\* group, and the admin groups visited before it.
GroupsAfterLoop(order) ==
  LET At(r) == {i \in DOMAIN order : r \in InitialGroupRights[order[i]]}
      Last(i) == \A j \in At("x") : j <= i
  IN  [r \in Right |->
         IF r # "x" THEN {order[i] : i \in At(r)}
         ELSE UNION {{order[i]} \cup {order[j] : j \in {k \in At("a") : k < i}} :
                      i \in {k \in At("x") : Last(k)}}]

\* The owner of a new entry gets every right.
OwnerRights(owner) ==
  [r \in Right |-> IF owner = NoUser THEN {} ELSE {owner}]

\* Mutant of NewEntries: the loop returns after the first group.
NewEntriesFirstGroup(owner, features) ==
  {[features    |-> features,
    annotations |-> NoAnnotations,
    users       |-> OwnerRights(owner),
    groups      |-> GroupsAfterLoop(Restrict(order, DOMAIN order \cap {1})),
    creator     |-> owner] : order \in VisitOrders}

\* The possible new entries of a PUT for an unknown id.
NewEntries(owner, features) ==
  {[features    |-> features,
    annotations |-> NoAnnotations,
    users       |-> OwnerRights(owner),
    groups      |-> GroupsAfterLoop(order),
    creator     |-> owner] : order \in VisitOrders}

\* An entry without creator takes its first admin user, else the owner that
\* the command names.  The list order is lost: any admin may be the first.
CreatorFallback(e, owner) ==
  {[e EXCEPT !.creator = c] :
     c \in IF e.creator # NoUser THEN {e.creator}
           ELSE IF e.users["a"] # {} THEN e.users["a"]
           ELSE {owner}}

\* Later values win, field by field.
MergeAnnotations(old, new) ==
  [f \in Fields |-> IF new[f] # NoValue THEN new[f] ELSE old[f]]
=============================================================================
