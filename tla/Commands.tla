------------------------------ MODULE Commands ------------------------------
(***************************************************************************)
(* The messages of the three kinds of Kafka topics the worker consumes and *)
(* what each one does to the entry it addresses (lib/worker/event.go,      *)
(* lib/worker/command.go).  An id stands for a resource kind together with *)
(* an id of that kind, i.e. for one document.                              *)
(***************************************************************************)
EXTENDS Rights, Sequences

CONSTANTS
  Ids,        \* documents: pairs of resource kind and resource id
  NoId,       \* a message without kind or without id
  NoGroup,    \* the empty group name
  NoRights    \* a RIGHTS message whose rights field is missing

ASSUME CommandsAssumption ==
  /\ NoId \notin Ids
  /\ NoGroup \notin Groups

\* model.ResourceRightsBase: maps from user and group names to rights.
RightsOf(S) == UNION {[T -> SUBSET Right] : T \in SUBSET S}

ResourceRightsBase == [users : RightsOf(Users), groups : RightsOf(Groups)]

\* model.PermCommandMsg.  MALFORMED is a payload that is no JSON, UNKNOWN
\* any other command.
PermCommand ==
  [cmd   : {"PUT", "DELETE", "UNKNOWN", "MALFORMED"},
   id    : Ids \cup {NoId},
   user  : Users \cup {NoUser},
   group : Groups \cup {NoGroup},
   right : SUBSET Right]

\* model.CommandWrapper and model.CommandWithRights.
ResourceCommand ==
  [cmd      : {"PUT", "RIGHTS", "DELETE", "UNKNOWN", "MALFORMED"},
   id       : Ids \cup {NoId},
   owner    : Users \cup {NoUser},
   features : Features,
   rights   : ResourceRightsBase \cup {NoRights}]

\* An annotation topic feeds a list of resource kinds; ids holds the
\* document addressed in each of them, the kinds for which the message has
\* no usable _id left out.
AnnotationMsg ==
  [cmd    : {"ANNOTATE", "MALFORMED"},
   ids    : Seq(Ids),
   fields : Annotations]

-----------------------------------------------------------------------------
\* The part of HandlePermissionCommand's switch that reaches a document.
IsPermUpdate(m) ==
  m.cmd \in {"PUT", "DELETE"} /\ (m.user # NoUser \/ m.group # NoGroup)

\* SetUserRight, SetGroupRight, DeleteUserRight, DeleteGroupRight; a user
\* in the message takes precedence over a group.
PermEffect(e, m) ==
  IF m.user # NoUser
  THEN LET rest == RemoveUserRights(e.users, m.user)
       IN  [e EXCEPT !.users = IF m.cmd = "PUT"
                               THEN AddUserRights(rest, m.user, m.right)
                               ELSE rest]
  ELSE LET rest == RemoveGroupRights(e.groups, m.group)
       IN  [e EXCEPT !.groups = IF m.cmd = "PUT"
                                THEN AddGroupRights(rest, m.group, m.right)
                                ELSE rest]

\* UpdateFeatures on an existing entry.
FeaturesEffects(e, m) ==
  CreatorFallback([e EXCEPT !.features = m.features], m.owner)

\* Mutant of RightsEffects: the lists are not emptied.
RightsEffectsAppending(e, m) ==
  CreatorFallback(
    [e EXCEPT !.users  = SetResourceRights(e.users, m.rights.users),
              !.groups = SetResourceRights(e.groups, m.rights.groups)],
    m.owner)

\* UpdateRights on an existing entry: all lists are emptied first.
RightsEffects(e, m) ==
  CreatorFallback(
    [e EXCEPT !.users  = SetResourceRights(NoHolders, m.rights.users),
              !.groups = SetResourceRights(NoHolders, m.rights.groups)],
    m.owner)

\* HandleAnnotationMsg on an existing entry.
AnnotationEffect(e, m) ==
  [e EXCEPT !.annotations = MergeAnnotations(e.annotations, m.fields)]
=============================================================================
