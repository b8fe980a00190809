---------------------------- MODULE RightsProofs ----------------------------
(***************************************************************************)
(* Facts about the operations on entries, for every set of users, groups,  *)
(* features, annotation fields and every configuration.                    *)
(***************************************************************************)
EXTENDS Commands, FiniteSetTheorems, TLAPS

\* Permission commands keep an entry an entry (SetUserRight, SetGroupRight,
\* DeleteUserRight, DeleteGroupRight).
LEMMA PermEffectType ==
  ASSUME NEW e \in Entry, NEW m \in PermCommand, IsPermUpdate(m)
  PROVE  PermEffect(e, m) \in Entry
<1>1. CASE m.user # NoUser
  <2>1. m.user \in Users
    BY <1>1 DEF PermCommand
  <2>2. RemoveUserRights(e.users, m.user) \in Holders(Users)
    BY DEF RemoveUserRights, Holders, Entry
  <2>3. AddUserRights(RemoveUserRights(e.users, m.user), m.user, m.right) \in Holders(Users)
    BY <2>1, <2>2 DEF AddUserRights, Holders
  <2> QED
    BY <1>1, <2>2, <2>3 DEF PermEffect, Entry
<1>2. CASE m.user = NoUser
  <2>1. m.group \in Groups
    BY <1>2 DEF PermCommand, IsPermUpdate
  <2>2. RemoveGroupRights(e.groups, m.group) \in Holders(Groups)
    BY DEF RemoveGroupRights, Holders, Entry
  <2>3. AddGroupRights(RemoveGroupRights(e.groups, m.group), m.group, m.right) \in Holders(Groups)
    BY <2>1, <2>2 DEF AddGroupRights, Holders, Right
  <2> QED
    BY <1>2, <2>2, <2>3 DEF PermEffect, Entry
<1> QED
  BY <1>1, <1>2

\* An entry whose creator is filled is an entry, and nothing else changes.
LEMMA CreatorFallbackType ==
  ASSUME NEW e \in Entry, NEW owner \in Users \cup {NoUser}, NEW f \in CreatorFallback(e, owner)
  PROVE  /\ f \in Entry
         /\ f.features = e.features
         /\ f.annotations = e.annotations
         /\ f.users = e.users
         /\ f.groups = e.groups
<1>1. PICK c \in IF e.creator # NoUser THEN {e.creator}
                 ELSE IF e.users["a"] # {} THEN e.users["a"]
                 ELSE {owner} : f = [e EXCEPT !.creator = c]
  BY DEF CreatorFallback
<1>2. e.users["a"] \subseteq Users
  BY DEF Entry, Holders, Right
<1>3. c \in Users \cup {NoUser}
  BY <1>1, <1>2 DEF Entry
<1> QED
  BY <1>1, <1>3 DEF Entry

\* A PUT on an existing entry sets the features and keeps annotations and
\* permissions (UpdateFeatures).
LEMMA FeaturesEffectsType ==
  ASSUME NEW e \in Entry, NEW m \in ResourceCommand, NEW f \in FeaturesEffects(e, m)
  PROVE  f \in Entry /\ f.features = m.features
<1>1. [e EXCEPT !.features = m.features] \in Entry
  BY DEF Entry, ResourceCommand
<1>2. m.owner \in Users \cup {NoUser}
  BY DEF ResourceCommand
<1>3. [e EXCEPT !.features = m.features].features = m.features
  BY DEF Entry
<1> QED
  BY <1>1, <1>2, <1>3, CreatorFallbackType DEF FeaturesEffects

\* The lists made from the map of a RIGHTS command are lists of subjects.
LEMMA SetResourceRightsType ==
  ASSUME NEW S, NEW rightsOf \in RightsOf(S)
  PROVE  SetResourceRights(NoHolders, rightsOf) \in Holders(S)
<1>1. PICK T \in SUBSET S : rightsOf \in [T -> SUBSET Right]
  BY DEF RightsOf
<1> QED
  BY <1>1 DEF SetResourceRights, Holders, NoHolders

\* A RIGHTS command sets the permissions and keeps features and annotations
\* (UpdateRights).
LEMMA RightsEffectsType ==
  ASSUME NEW e \in Entry, NEW m \in ResourceCommand, m.rights # NoRights,
         NEW f \in RightsEffects(e, m)
  PROVE  f \in Entry /\ f.features = e.features
<1> DEFINE g == [e EXCEPT !.users  = SetResourceRights(NoHolders, m.rights.users),
                          !.groups = SetResourceRights(NoHolders, m.rights.groups)]
<1>1. m.rights \in ResourceRightsBase
  BY DEF ResourceCommand
<1>2. SetResourceRights(NoHolders, m.rights.users) \in Holders(Users)
  BY <1>1, SetResourceRightsType DEF ResourceRightsBase
<1>3. SetResourceRights(NoHolders, m.rights.groups) \in Holders(Groups)
  BY <1>1, SetResourceRightsType DEF ResourceRightsBase
<1>4. g \in Entry /\ g.features = e.features
  BY <1>2, <1>3 DEF Entry
<1>5. m.owner \in Users \cup {NoUser}
  BY DEF ResourceCommand
<1> QED
  BY <1>4, <1>5, CreatorFallbackType DEF RightsEffects

\* What a RIGHTS command writes: the lists of the command, nothing else.
LEMMA RightsEffectsLists ==
  ASSUME NEW e \in Entry, NEW m \in ResourceCommand, m.rights \in ResourceRightsBase,
         m.rights # NoRights, NEW f \in RightsEffects(e, m)
  PROVE  /\ f \in Entry /\ f.features = e.features
         /\ f.users = SetResourceRights(NoHolders, m.rights.users)
         /\ f.groups = SetResourceRights(NoHolders, m.rights.groups)
<1> DEFINE g == [e EXCEPT !.users  = SetResourceRights(NoHolders, m.rights.users),
                          !.groups = SetResourceRights(NoHolders, m.rights.groups)]
<1>1. SetResourceRights(NoHolders, m.rights.users) \in Holders(Users)
  BY SetResourceRightsType DEF ResourceRightsBase
<1>2. SetResourceRights(NoHolders, m.rights.groups) \in Holders(Groups)
  BY SetResourceRightsType DEF ResourceRightsBase
<1>3. /\ g \in Entry /\ g.features = e.features
      /\ g.users = SetResourceRights(NoHolders, m.rights.users)
      /\ g.groups = SetResourceRights(NoHolders, m.rights.groups)
  BY <1>1, <1>2 DEF Entry
<1>4. m.owner \in Users \cup {NoUser} /\ f \in CreatorFallback(g, m.owner)
  BY DEF ResourceCommand, RightsEffects
<1> QED
  BY <1>3, <1>4, CreatorFallbackType

\* What a PUT writes over an entry: its features.
LEMMA FeaturesEffectsLists ==
  ASSUME NEW e \in Entry, NEW m \in ResourceCommand, NEW f \in FeaturesEffects(e, m)
  PROVE  f \in Entry /\ f.features = m.features /\ f.users = e.users /\ f.groups = e.groups
<1>1. [e EXCEPT !.features = m.features] \in Entry
  BY DEF Entry, ResourceCommand
<1>2. m.owner \in Users \cup {NoUser}
  BY DEF ResourceCommand
<1>3. /\ [e EXCEPT !.features = m.features].features = m.features
      /\ [e EXCEPT !.features = m.features].users = e.users
      /\ [e EXCEPT !.features = m.features].groups = e.groups
  BY DEF Entry
<1> QED
  BY <1>1, <1>2, <1>3, CreatorFallbackType DEF FeaturesEffects

\* Annotations change nothing but annotations (HandleAnnotationMsg).
LEMMA AnnotationEffectType ==
  ASSUME NEW e \in Entry, NEW m \in AnnotationMsg
  PROVE  /\ AnnotationEffect(e, m) \in Entry /\ AnnotationEffect(e, m).features = e.features
         /\ AnnotationEffect(e, m).users = e.users /\ AnnotationEffect(e, m).groups = e.groups
<1>1. MergeAnnotations(e.annotations, m.fields) \in Annotations
  BY DEF MergeAnnotations, Annotations, Entry, AnnotationMsg
<1> QED
  BY <1>1 DEF AnnotationEffect, Entry

\* Permission commands keep the features.
LEMMA PermEffectFeatures ==
  ASSUME NEW e \in Entry, NEW m \in PermCommand
  PROVE  PermEffect(e, m).features = e.features
BY DEF PermEffect, Entry

\* Whatever the iteration order of the configured groups, a new entry is an
\* entry with the features of its PUT (SetDefaultPermissions).
LEMMA NewEntriesType ==
  ASSUME NEW owner \in Users \cup {NoUser}, NEW features \in Features,
         NEW e \in NewEntries(owner, features)
  PROVE  e \in Entry /\ e.features = features
<1>1. PICK order \in VisitOrders :
        e = [features    |-> features,
             annotations |-> NoAnnotations,
             users       |-> OwnerRights(owner),
             groups      |-> GroupsAfterLoop(order),
             creator     |-> owner]
  BY DEF NewEntries
<1>2. NoAnnotations \in Annotations
  BY DEF NoAnnotations, Annotations
<1>3. OwnerRights(owner) \in Holders(Users)
  BY DEF OwnerRights, Holders
<1>4. GroupsAfterLoop(order) \in Holders(Groups)
  <2>1. \A i \in DOMAIN order : order[i] \in Groups
    BY RightsAssumption DEF VisitOrders, Bijection, Injection
  <2> QED
    BY <2>1 DEF GroupsAfterLoop, Holders
<1> QED
  BY <1>1, <1>2, <1>3, <1>4 DEF Entry
-----------------------------------------------------------------------------
(* What the commands do to an entry.                                       *)

\* Entries with the same fields are the same.
LEMMA EntryEqual ==
  ASSUME NEW e \in Entry, NEW f \in Entry, e.features = f.features,
         e.annotations = f.annotations, e.creator = f.creator,
         \A r \in Right : e.users[r] = f.users[r],
         \A r \in Right : e.groups[r] = f.groups[r]
  PROVE  e = f
<1>1. e.users = f.users
  BY DEF Entry, Holders
<1>2. e.groups = f.groups
  BY DEF Entry, Holders
<1> QED
  BY <1>1, <1>2 DEF Entry

\* A permission command for a user sets the rights of this user and nothing
\* else.  One for a group does the same for the group, but if it grants "x",
\* all other groups lose this right, unless they are admins, which gain it
\* (AddGroupRights builds the execute list from the admin list, model.go:70).
THEOREM PermissionCommandScope ==
  ASSUME NEW e \in Entry, NEW m \in PermCommand, IsPermUpdate(m)
  PROVE  LET f == PermEffect(e, m)
         IN  /\ m.user # NoUser =>
                  /\ f.groups = e.groups
                  /\ \A u \in Users, r \in Right :
                       u \in f.users[r] <=>
                         IF u = m.user THEN m.cmd = "PUT" /\ r \in m.right ELSE u \in e.users[r]
             /\ m.user = NoUser =>
                  /\ f.users = e.users
                  /\ \A g \in Groups, r \in Right :
                       g \in f.groups[r] <=>
                         IF g = m.group THEN m.cmd = "PUT" /\ r \in m.right
                         ELSE IF r = "x" /\ m.cmd = "PUT" /\ "x" \in m.right
                         THEN g \in e.groups["a"]
                         ELSE g \in e.groups[r]
             /\ f.features = e.features /\ f.annotations = e.annotations /\ f.creator = e.creator
<1> DEFINE f == PermEffect(e, m)
<1>1. f.features = e.features /\ f.annotations = e.annotations /\ f.creator = e.creator
  BY DEF PermEffect, Entry
<1>2. ASSUME m.user # NoUser
      PROVE  /\ f.groups = e.groups
             /\ \A u \in Users, r \in Right :
                  u \in f.users[r] <=>
                    IF u = m.user THEN m.cmd = "PUT" /\ r \in m.right ELSE u \in e.users[r]
  <2> DEFINE rest == RemoveUserRights(e.users, m.user)
  <2>1. /\ f.groups = e.groups
        /\ f.users = IF m.cmd = "PUT" THEN AddUserRights(rest, m.user, m.right) ELSE rest
    BY <1>2 DEF PermEffect, Entry
  <2>2. \A r \in Right : rest[r] = e.users[r] \ {m.user}
    BY DEF RemoveUserRights
  <2>3. \A r \in Right : AddUserRights(rest, m.user, m.right)[r] =
                           IF r \in m.right THEN rest[r] \cup {m.user} ELSE rest[r]
    BY DEF AddUserRights
  <2> HIDE DEF f, rest
  <2> QED
    BY <2>1, <2>2, <2>3
<1>3. ASSUME m.user = NoUser
      PROVE  /\ f.users = e.users
             /\ \A g \in Groups, r \in Right :
                  g \in f.groups[r] <=>
                    IF g = m.group THEN m.cmd = "PUT" /\ r \in m.right
                    ELSE IF r = "x" /\ m.cmd = "PUT" /\ "x" \in m.right
                    THEN g \in e.groups["a"]
                    ELSE g \in e.groups[r]
  <2> DEFINE rest == RemoveGroupRights(e.groups, m.group)
  <2>1. /\ f.users = e.users
        /\ f.groups = IF m.cmd = "PUT" THEN AddGroupRights(rest, m.group, m.right) ELSE rest
    BY <1>3 DEF PermEffect, Entry
  <2>2. \A r \in Right : rest[r] = e.groups[r] \ {m.group}
    BY DEF RemoveGroupRights
  <2>3. \A r \in Right : AddGroupRights(rest, m.group, m.right)[r] =
                           IF r \notin m.right THEN rest[r]
                           ELSE IF r = "x" THEN rest["a"] \cup {m.group}
                           ELSE rest[r] \cup {m.group}
    BY DEF AddGroupRights
  <2> HIDE DEF f, rest
  <2>4. ASSUME NEW g \in Groups, NEW r \in Right
        PROVE  g \in f.groups[r] <=>
                 IF g = m.group THEN m.cmd = "PUT" /\ r \in m.right
                 ELSE IF r = "x" /\ m.cmd = "PUT" /\ "x" \in m.right
                 THEN g \in e.groups["a"]
                 ELSE g \in e.groups[r]
    <3>1. CASE m.cmd # "PUT"
      BY <2>1, <2>2, <3>1
    <3>2. CASE m.cmd = "PUT" /\ r \notin m.right
      BY <2>1, <2>2, <2>3, <3>2
    <3>3. CASE m.cmd = "PUT" /\ r \in m.right /\ r # "x"
      BY <2>1, <2>2, <2>3, <3>3
    <3>4. CASE m.cmd = "PUT" /\ r \in m.right /\ r = "x"
      <4>1. f.groups["x"] = (e.groups["a"] \ {m.group}) \cup {m.group}
        <5>1. "a" \in Right /\ "x" \in Right
          BY DEF Right
        <5> QED
          BY <2>1, <2>2, <2>3, <3>4, <5>1
      <4> QED
        BY <3>4, <4>1
    <3> QED
      BY <3>1, <3>2, <3>3, <3>4
  <2> QED
    BY <2>1, <2>4
<1> QED
  BY <1>1, <1>2, <1>3
\* The fields of an entry whose creator is filled.
LEMMA CreatorFilled ==
  ASSUME NEW e \in Entry, NEW owner \in Users \cup {NoUser}, NEW f \in CreatorFallback(e, owner)
  PROVE  /\ e.creator # NoUser => f.creator = e.creator
         /\ e.creator = NoUser /\ e.users["a"] # {} => f.creator \in e.users["a"]
         /\ e.creator = NoUser /\ e.users["a"] = {} => f.creator = owner
<1>1. PICK c \in IF e.creator # NoUser THEN {e.creator}
                 ELSE IF e.users["a"] # {} THEN e.users["a"]
                 ELSE {owner} : f = [e EXCEPT !.creator = c]
  BY DEF CreatorFallback
<1>2. f.creator = c
  BY <1>1 DEF Entry
<1> QED
  BY <1>1, <1>2

\* Once the creator is filled, nothing is left to fill.
LEMMA FilledOnce ==
  ASSUME NEW e \in Entry, NEW owner \in Users \cup {NoUser}, NEW f \in CreatorFallback(e, owner)
  PROVE  CreatorFallback(f, owner) = {f}
<1>1. f \in Entry /\ f.users = e.users
  BY CreatorFallbackType
<1>2. [f EXCEPT !.creator = f.creator] = f
  BY <1>1 DEF Entry
<1>3. CASE f.creator # NoUser
  BY <1>2, <1>3 DEF CreatorFallback
<1>4. CASE f.creator = NoUser
  <2>1. "a" \in Right /\ NoUser \notin f.users["a"]
    BY <1>1, RightsAssumption DEF Entry, Holders, Right
  <2>2. f.users["a"] = {} /\ owner = NoUser
    BY <1>1, <1>4, <2>1, CreatorFilled
  <2> QED
    BY <1>2, <1>4, <2>2 DEF CreatorFallback
<1> QED
  BY <1>3, <1>4

\* Topics are delivered at least once: a message that is handled again, after
\* a lost response or from an offset that was not committed, changes nothing
\* unless other writes fell in between (lib/worker: all handlers).
THEOREM RedeliveryHarmless ==
  ASSUME NEW e \in Entry
  PROVE  /\ \A m \in PermCommand :
              IsPermUpdate(m) => PermEffect(PermEffect(e, m), m) = PermEffect(e, m)
         /\ \A m \in ResourceCommand : \A f \in FeaturesEffects(e, m) :
              FeaturesEffects(f, m) = {f}
         /\ \A m \in ResourceCommand :
              m.rights \in ResourceRightsBase /\ m.rights # NoRights =>
                \A f \in RightsEffects(e, m) : RightsEffects(f, m) = {f}
         /\ \A m \in AnnotationMsg :
              AnnotationEffect(AnnotationEffect(e, m), m) = AnnotationEffect(e, m)
<1>1. ASSUME NEW m \in PermCommand, IsPermUpdate(m)
      PROVE  PermEffect(PermEffect(e, m), m) = PermEffect(e, m)
  <2> DEFINE f == PermEffect(e, m)
             h == PermEffect(f, m)
  <2>1. f \in Entry /\ h \in Entry
    BY <1>1, PermEffectType
  <2>2. h.features = f.features /\ h.annotations = f.annotations /\ h.creator = f.creator
    BY <1>1, <2>1, PermissionCommandScope
  <2>3. ASSUME m.user # NoUser
        PROVE  h.groups = f.groups /\ \A r \in Right : h.users[r] = f.users[r]
    <3>1. h.groups = f.groups
      BY <1>1, <2>1, <2>3, PermissionCommandScope
    <3>2. ASSUME NEW u \in Users, NEW r \in Right
          PROVE  u \in h.users[r] <=> u \in f.users[r]
      <4>1. u \in f.users[r] <=>
              IF u = m.user THEN m.cmd = "PUT" /\ r \in m.right ELSE u \in e.users[r]
        BY <1>1, <2>3, PermissionCommandScope
      <4>2. u \in h.users[r] <=>
              IF u = m.user THEN m.cmd = "PUT" /\ r \in m.right ELSE u \in f.users[r]
        BY <1>1, <2>1, <2>3, PermissionCommandScope
      <4> QED
        BY <4>1, <4>2
    <3>3. \A r \in Right : h.users[r] \subseteq Users /\ f.users[r] \subseteq Users
      BY <2>1 DEF Entry, Holders
    <3> HIDE DEF f, h
    <3> QED
      BY <3>1, <3>2, <3>3
  <2>4. ASSUME m.user = NoUser
        PROVE  h.users = f.users /\ \A r \in Right : h.groups[r] = f.groups[r]
    <3>1. h.users = f.users
      BY <1>1, <2>1, <2>4, PermissionCommandScope
    <3>2. \A g \in Groups, r \in Right :
            g \in f.groups[r] <=>
              IF g = m.group THEN m.cmd = "PUT" /\ r \in m.right
              ELSE IF r = "x" /\ m.cmd = "PUT" /\ "x" \in m.right
              THEN g \in e.groups["a"]
              ELSE g \in e.groups[r]
      BY <1>1, <2>4, PermissionCommandScope
    <3>3. \A g \in Groups, r \in Right :
            g \in h.groups[r] <=>
              IF g = m.group THEN m.cmd = "PUT" /\ r \in m.right
              ELSE IF r = "x" /\ m.cmd = "PUT" /\ "x" \in m.right
              THEN g \in f.groups["a"]
              ELSE g \in f.groups[r]
      BY <1>1, <2>1, <2>4, PermissionCommandScope
    <3>4. \A r \in Right : h.groups[r] \subseteq Groups /\ f.groups[r] \subseteq Groups
      BY <2>1 DEF Entry, Holders
    <3>5. "a" \in Right /\ "a" # "x"
      BY DEF Right
    <3> HIDE DEF f, h
    <3>6. ASSUME NEW g \in Groups, NEW r \in Right
          PROVE  g \in h.groups[r] <=> g \in f.groups[r]
      BY <3>2, <3>3, <3>5
    <3> QED
      BY <3>1, <3>4, <3>6
  <2> HIDE DEF f, h
  <2>5. \A r \in Right : h.users[r] = f.users[r] /\ h.groups[r] = f.groups[r]
    BY <2>3, <2>4
  <2>6. h = f
    BY <2>1, <2>2, <2>5, EntryEqual
  <2> QED
    BY <2>6 DEF f, h
<1>2. ASSUME NEW m \in ResourceCommand, NEW f \in FeaturesEffects(e, m)
      PROVE  FeaturesEffects(f, m) = {f}
  <2>1. f \in Entry /\ f.features = m.features
    BY FeaturesEffectsLists
  <2>2. [f EXCEPT !.features = m.features] = f
    BY <2>1 DEF Entry
  <2>3. [e EXCEPT !.features = m.features] \in Entry /\ m.owner \in Users \cup {NoUser}
    BY DEF Entry, ResourceCommand
  <2>4. CreatorFallback(f, m.owner) = {f}
    BY <2>3, FilledOnce DEF FeaturesEffects
  <2> QED
    BY <2>2, <2>4 DEF FeaturesEffects
<1>3. ASSUME NEW m \in ResourceCommand, m.rights \in ResourceRightsBase, m.rights # NoRights,
             NEW f \in RightsEffects(e, m)
      PROVE  RightsEffects(f, m) = {f}
  <2> DEFINE us == SetResourceRights(NoHolders, m.rights.users)
             gs == SetResourceRights(NoHolders, m.rights.groups)
  <2>1. f \in Entry /\ f.users = us /\ f.groups = gs
    BY <1>3, RightsEffectsLists
  <2>2. us \in Holders(Users) /\ gs \in Holders(Groups)
    BY <2>1 DEF Entry
  <2>3. f \in CreatorFallback([e EXCEPT !.users = us, !.groups = gs], m.owner)
    BY DEF RightsEffects
  <2>4. RightsEffects(f, m) = CreatorFallback([f EXCEPT !.users = us, !.groups = gs], m.owner)
    BY DEF RightsEffects
  <2> HIDE DEF us, gs
  <2>5. [f EXCEPT !.users = us, !.groups = gs] = f
    BY <2>1 DEF Entry
  <2>6. [e EXCEPT !.users = us, !.groups = gs] \in Entry /\ m.owner \in Users \cup {NoUser}
    BY <2>2 DEF Entry, ResourceCommand
  <2> QED
    BY <2>3, <2>4, <2>5, <2>6, FilledOnce
<1>4. ASSUME NEW m \in AnnotationMsg
      PROVE  AnnotationEffect(AnnotationEffect(e, m), m) = AnnotationEffect(e, m)
  <2>1. MergeAnnotations(MergeAnnotations(e.annotations, m.fields), m.fields)
          = MergeAnnotations(e.annotations, m.fields)
    BY DEF MergeAnnotations
  <2>2. /\ AnnotationEffect(e, m).annotations = MergeAnnotations(e.annotations, m.fields)
        /\ AnnotationEffect(e, m) \in Entry
    BY AnnotationEffectType DEF AnnotationEffect, Entry
  <2> QED
    BY <2>1, <2>2 DEF AnnotationEffect, Entry
<1> QED
  BY <1>1, <1>2, <1>3, <1>4
\* Filling the creator and adding annotations do not look at each other.
LEMMA FallbackCommutes ==
  ASSUME NEW e \in Entry, NEW owner \in Users \cup {NoUser}, NEW n \in AnnotationMsg
  PROVE  CreatorFallback(AnnotationEffect(e, n), owner)
           = {AnnotationEffect(f, n) : f \in CreatorFallback(e, owner)}
<1> DEFINE C == IF e.creator # NoUser THEN {e.creator}
                ELSE IF e.users["a"] # {} THEN e.users["a"]
                ELSE {owner}
           d == AnnotationEffect(e, n)
           P(c) == [e EXCEPT !.creator = c]
           Q(c) == [d EXCEPT !.creator = c]
<1>1. d.creator = e.creator /\ d.users = e.users
  BY DEF AnnotationEffect, Entry
<1>2. CreatorFallback(d, owner) = {Q(c) : c \in C}
  BY <1>1 DEF CreatorFallback
<1>3. CreatorFallback(e, owner) = {P(c) : c \in C}
  BY DEF CreatorFallback
<1>4. ASSUME NEW c
      PROVE  Q(c) = AnnotationEffect(P(c), n)
  BY DEF AnnotationEffect, Entry
<1> HIDE DEF C, d, P, Q
<1> QED
  BY <1>2, <1>3, <1>4 DEF d

\* The consumer of the annotations and the bulk indexer may do their work
\* between or after the commands of the other topics: what becomes of the
\* document does not depend on the order (HandleAnnotationMsg).
THEOREM AnnotationsCommute ==
  ASSUME NEW e \in Entry, NEW n \in AnnotationMsg
  PROVE  /\ \A m \in PermCommand :
              IsPermUpdate(m) =>
                PermEffect(AnnotationEffect(e, n), m) = AnnotationEffect(PermEffect(e, m), n)
         /\ \A m \in ResourceCommand :
              FeaturesEffects(AnnotationEffect(e, n), m)
                = {AnnotationEffect(f, n) : f \in FeaturesEffects(e, m)}
         /\ \A m \in ResourceCommand :
              m.rights \in ResourceRightsBase /\ m.rights # NoRights =>
                RightsEffects(AnnotationEffect(e, n), m)
                  = {AnnotationEffect(f, n) : f \in RightsEffects(e, m)}
<1> DEFINE a == MergeAnnotations(e.annotations, n.fields)
           d == AnnotationEffect(e, n)
<1>1. d = [e EXCEPT !.annotations = a] /\ d.users = e.users /\ d.groups = e.groups
  BY AnnotationEffectType DEF AnnotationEffect
<1>2. \A f \in Entry : f.annotations = e.annotations =>
        AnnotationEffect(f, n) = [f EXCEPT !.annotations = a]
  BY DEF AnnotationEffect
<1> HIDE DEF a, d
<1>3. ASSUME NEW m \in PermCommand, IsPermUpdate(m)
      PROVE  PermEffect(d, m) = AnnotationEffect(PermEffect(e, m), n)
  <2>1. /\ PermEffect(e, m) \in Entry /\ PermEffect(e, m).annotations = e.annotations
    BY <1>3, PermEffectType, PermissionCommandScope
  <2>2. AnnotationEffect(PermEffect(e, m), n) = [PermEffect(e, m) EXCEPT !.annotations = a]
    BY <1>2, <2>1
  <2> QED
    BY <1>1, <2>2 DEF PermEffect, Entry
<1>4. ASSUME NEW m \in ResourceCommand
      PROVE  FeaturesEffects(d, m) = {AnnotationEffect(f, n) : f \in FeaturesEffects(e, m)}
  <2> DEFINE g == [e EXCEPT !.features = m.features]
  <2>1. g \in Entry /\ g.annotations = e.annotations /\ m.owner \in Users \cup {NoUser}
    BY DEF Entry, ResourceCommand
  <2>2. [d EXCEPT !.features = m.features] = [g EXCEPT !.annotations = a]
    BY <1>1 DEF Entry
  <2>3. FeaturesEffects(e, m) = CreatorFallback(g, m.owner)
    BY DEF FeaturesEffects
  <2>4. FeaturesEffects(d, m) = CreatorFallback([g EXCEPT !.annotations = a], m.owner)
    BY <2>2 DEF FeaturesEffects
  <2> HIDE DEF g
  <2>5. FeaturesEffects(d, m) = CreatorFallback(AnnotationEffect(g, n), m.owner)
    BY <1>2, <2>1, <2>4
  <2> QED
    BY <2>1, <2>3, <2>5, FallbackCommutes
<1>5. ASSUME NEW m \in ResourceCommand, m.rights \in ResourceRightsBase, m.rights # NoRights
      PROVE  RightsEffects(d, m) = {AnnotationEffect(f, n) : f \in RightsEffects(e, m)}
  <2> DEFINE us == SetResourceRights(NoHolders, m.rights.users)
             gs == SetResourceRights(NoHolders, m.rights.groups)
             g == [e EXCEPT !.users = us, !.groups = gs]
  <2>1. us \in Holders(Users) /\ gs \in Holders(Groups) /\ m.owner \in Users \cup {NoUser}
    BY <1>5, SetResourceRightsType DEF ResourceRightsBase, ResourceCommand
  <2>2. RightsEffects(e, m) = CreatorFallback(g, m.owner)
    BY DEF RightsEffects
  <2>3. RightsEffects(d, m) = CreatorFallback([d EXCEPT !.users = us, !.groups = gs], m.owner)
    BY DEF RightsEffects
  <2> HIDE DEF us, gs
  <2>4. [d EXCEPT !.users = us, !.groups = gs] = [g EXCEPT !.annotations = a]
    BY <1>1 DEF Entry
  <2>5. g \in Entry /\ g.annotations = e.annotations
    BY <2>1 DEF Entry
  <2> HIDE DEF g
  <2>6. RightsEffects(d, m) = CreatorFallback(AnnotationEffect(g, n), m.owner)
    BY <1>2, <2>3, <2>4, <2>5
  <2> QED
    BY <2>1, <2>2, <2>5, <2>6, FallbackCommutes
<1> QED
  BY <1>3, <1>4, <1>5 DEF d
-----------------------------------------------------------------------------
(* The initial rights of a new entry.                                      *)

\* The groups the configuration gives a right.
Configured(r) == {g \in DOMAIN InitialGroupRights : r \in InitialGroupRights[g]}

\* Configurations for which the random order of a map does not matter: nobody
\* has "x"; or the groups with "x" are the admin groups; or one group has "x"
\* and there are no admin groups.
OrderDoesNotMatter ==
  \/ Configured("x") = {}
  \/ Configured("x") = Configured("a")
  \/ Configured("a") = {} /\ \E g \in Configured("x") : Configured("x") = {g}

\* A non-empty set of places has a last one.
LEMMA LastPlace ==
  ASSUME NEW n \in Nat, NEW S \in SUBSET (1..n), S # {}
  PROVE  \E i \in S : \A j \in S : j <= i
<1> SUFFICES ASSUME \A i \in S : \E j \in S : j > i
             PROVE  FALSE
  OBVIOUS
<1> DEFINE T == {k \in 1..n : \E i \in S : k <= i}
           U == T \cup {0}
           f == [k \in U |-> k + 1]
<1>1. IsFiniteSet(1..n) /\ T \in SUBSET (1..n)
  BY FS_Interval
<1>2. IsFiniteSet(T) /\ 0 \notin T
  BY <1>1, FS_Subset
<1>3. IsFiniteSet(U) /\ Cardinality(U) = Cardinality(T) + 1
  BY <1>2, FS_AddElement
<1>4. Cardinality(T) \in Nat
  BY <1>2, FS_CardinalityType
<1>5. \A k \in U : k + 1 \in T
  <2>1. 0 + 1 \in T
    <3>1. PICK i \in S : TRUE
      OBVIOUS
    <3>2. 1 \in 1..n /\ 1 <= i
      BY <3>1
    <3> QED
      BY <3>2
  <2>2. ASSUME NEW k \in T PROVE k + 1 \in T
    <3>1. PICK i \in S : k <= i
      OBVIOUS
    <3>2. PICK j \in S : j > i
      OBVIOUS
    <3> QED
      BY <3>1, <3>2
  <2> QED
    BY <2>1, <2>2
<1>6. f \in [U -> T]
  BY <1>5
<1>7. U \subseteq Int
  OBVIOUS
<1> HIDE DEF T, U
<1>8. \A x \in U : f[x] = x + 1
  OBVIOUS
<1> HIDE DEF f
<1>9. \E x, y \in U : x # y /\ f[x] = f[y]
  <2>1. Cardinality(T) < Cardinality(U)
    BY <1>3, <1>4
  <2> QED
    BY ONLY <1>2, <1>3, <1>6, <2>1, FS_PigeonHole, Zenon
<1> QED
  BY <1>7, <1>8, <1>9

\* An order visits every configured group once.
LEMMA OrderVisits ==
  ASSUME NEW order \in VisitOrders
  PROVE  /\ Cardinality(DOMAIN InitialGroupRights) \in Nat
         /\ DOMAIN order = 1..Cardinality(DOMAIN InitialGroupRights)
         /\ \A i \in DOMAIN order : order[i] \in DOMAIN InitialGroupRights
         /\ \A i, j \in DOMAIN order : order[i] = order[j] => i = j
         /\ \A g \in DOMAIN InitialGroupRights : \E i \in DOMAIN order : order[i] = g
<1>1. Cardinality(DOMAIN InitialGroupRights) \in Nat
  BY RightsAssumption, FS_CardinalityType
<1> QED
  BY <1>1 DEF VisitOrders, Bijection, Injection, Surjection, IsInjective

\* The lists after the loop: the groups with the right, in the case of "x"
\* the last one and the admin groups in front of it.
LEMMA ListsAfterLoop ==
  ASSUME NEW order \in VisitOrders
  PROVE  LET At(r) == {i \in DOMAIN order : order[i] \in Configured(r)}
         IN  /\ \A r \in Right \ {"x"} : GroupsAfterLoop(order)[r] = Configured(r)
             /\ Configured("x") = {} => GroupsAfterLoop(order)["x"] = {}
             /\ \A i \in At("x") :
                  (\A j \in At("x") : j <= i) =>
                    GroupsAfterLoop(order)["x"]
                      = {order[i]} \cup {order[j] : j \in {k \in At("a") : k < i}}
<1> DEFINE At(r) == {i \in DOMAIN order : order[i] \in Configured(r)}
           B(r) == {i \in DOMAIN order : r \in InitialGroupRights[order[i]]}
           L(i) == \A j \in B("x") : j <= i
           U == UNION {{order[i]} \cup {order[j] : j \in {k \in B("a") : k < i}} :
                         i \in {k \in B("x") : L(k)}}
<1>1. \A r \in Right : At(r) = B(r)
  BY OrderVisits DEF Configured
<1>2. "x" \in Right /\ "a" \in Right
  BY DEF Right
<1>3. GroupsAfterLoop(order)["x"] = U
  BY <1>2 DEF GroupsAfterLoop
<1>4. ASSUME NEW r \in Right \ {"x"}
      PROVE  GroupsAfterLoop(order)[r] = Configured(r)
  <2>1. GroupsAfterLoop(order)[r] = {order[i] : i \in B(r)}
    BY DEF GroupsAfterLoop
  <2> QED
    BY <2>1, OrderVisits DEF Configured
<1>5. ASSUME Configured("x") = {} PROVE U = {}
  <2>1. B("x") = {}
    BY <1>1, <1>2, <1>5
  <2> QED
    BY <2>1
<1>6. ASSUME NEW i \in At("x"), \A j \in At("x") : j <= i
      PROVE  U = {order[i]} \cup {order[j] : j \in {k \in At("a") : k < i}}
  <2>1. B("x") \subseteq Int
    BY OrderVisits
  <2>2. {k \in B("x") : L(k)} = {i}
    BY <1>1, <1>2, <1>6, <2>1
  <2> HIDE DEF At, B, L
  <2> QED
    BY <1>1, <1>2, <2>2
<1> HIDE DEF U
<1> QED
  BY <1>3, <1>4, <1>5, <1>6
\* Two groups may change their places in an order.
LEMMA SwappedOrder ==
  ASSUME NEW order \in VisitOrders, NEW p \in DOMAIN order, NEW q \in DOMAIN order, p # q
  PROVE  \E swapped \in VisitOrders :
           /\ DOMAIN swapped = DOMAIN order
           /\ swapped[p] = order[q] /\ swapped[q] = order[p]
           /\ \A i \in DOMAIN order \ {p, q} : swapped[i] = order[i]
<1> DEFINE swapped == [i \in DOMAIN order |->
                         IF i = p THEN order[q] ELSE IF i = q THEN order[p] ELSE order[i]]
           D == DOMAIN InitialGroupRights
<1>1. /\ DOMAIN swapped = DOMAIN order
      /\ swapped[p] = order[q] /\ swapped[q] = order[p]
      /\ \A i \in DOMAIN order \ {p, q} : swapped[i] = order[i]
  OBVIOUS
<1>2. swapped \in [DOMAIN order -> D]
  BY OrderVisits
<1> HIDE DEF swapped
<1>3. \A i, j \in DOMAIN order : swapped[i] = swapped[j] => i = j
  BY <1>1, OrderVisits
<1>4. \A g \in D : \E i \in DOMAIN order : swapped[i] = g
  <2>1. ASSUME NEW g \in D PROVE \E i \in DOMAIN order : swapped[i] = g
    <3>1. PICK i \in DOMAIN order : order[i] = g
      BY OrderVisits
    <3> QED
      BY <1>1, <3>1
  <2> QED
    BY <2>1
<1>5. swapped \in VisitOrders
  BY <1>1, <1>2, <1>3, <1>4, OrderVisits
     DEF VisitOrders, Bijection, Injection, Surjection, IsInjective
<1> QED
  BY <1>1, <1>5

\* The configured groups get the configured rights in every order of the map
\* exactly for these configurations: "admin: rwxa" alone is one of them,
\* "admin: rwxa, user: rx" is not (config.json:64 and :45;
\* SetDefaultPermissions, AddGroupRights).
THEOREM InitialRightsExactly ==
  (\A order \in VisitOrders, r \in Right : GroupsAfterLoop(order)[r] = Configured(r))
    <=> OrderDoesNotMatter
<1> DEFINE A == Configured("a")
           X == Configured("x")
           At(order, S) == {i \in DOMAIN order : order[i] \in S}
           Last(order, i) == i \in At(order, X) /\ \A j \in At(order, X) : j <= i
           InFront(order, i) == {order[j] : j \in {k \in At(order, A) : k < i}}
<1>1. A \subseteq DOMAIN InitialGroupRights /\ X \subseteq DOMAIN InitialGroupRights
  BY DEF Configured
<1>2. ASSUME NEW order \in VisitOrders
      PROVE  /\ DOMAIN order \subseteq Int
             /\ \A i, j \in DOMAIN order : order[i] = order[j] => i = j
             /\ \A g \in DOMAIN InitialGroupRights : \E i \in DOMAIN order : order[i] = g
             /\ X # {} => \E i : Last(order, i)
             /\ \A i : Last(order, i) =>
                  GroupsAfterLoop(order)["x"] = {order[i]} \cup InFront(order, i)
  <2>1. /\ Cardinality(DOMAIN InitialGroupRights) \in Nat
        /\ DOMAIN order = 1..Cardinality(DOMAIN InitialGroupRights)
        /\ \A i, j \in DOMAIN order : order[i] = order[j] => i = j
        /\ \A g \in DOMAIN InitialGroupRights : \E i \in DOMAIN order : order[i] = g
    BY OrderVisits
  <2>2. ASSUME X # {} PROVE \E i : Last(order, i)
    <3>1. At(order, X) # {} /\ At(order, X) \in SUBSET DOMAIN order
      BY <1>1, <2>1, <2>2
    <3> QED
      BY <2>1, <3>1, LastPlace
  <2>3. \A i : Last(order, i) =>
          GroupsAfterLoop(order)["x"] = {order[i]} \cup InFront(order, i)
    BY ListsAfterLoop
  <2> QED
    BY <2>1, <2>2, <2>3
<1>3. ASSUME OrderDoesNotMatter, NEW order \in VisitOrders
      PROVE  GroupsAfterLoop(order)["x"] = X
  <2>1. CASE X = {}
    BY <2>1, ListsAfterLoop
  <2>2. CASE X # {}
    <3>1. PICK i : Last(order, i)
      BY <1>2, <2>2
    <3>2. GroupsAfterLoop(order)["x"] = {order[i]} \cup InFront(order, i)
      BY <1>2, <3>1
    <3>3. CASE X = A
      <4>1. \A g \in X : \E j \in At(order, A) : order[j] = g /\ j <= i
        BY <1>1, <1>2, <3>1, <3>3
      <4>2. \A j \in At(order, A) : j <= i => j = i \/ j < i
        BY <1>2, <3>1
      <4>3. X \subseteq {order[i]} \cup InFront(order, i)
        BY <4>1, <4>2
      <4>4. {order[i]} \cup InFront(order, i) \subseteq X
        BY <3>1, <3>3
      <4> QED
        BY <3>2, <4>3, <4>4
    <3>4. CASE A = {} /\ \E g \in X : X = {g}
      BY <3>1, <3>2, <3>4
    <3> QED
      BY <1>3, <2>2, <3>3, <3>4 DEF OrderDoesNotMatter
  <2> QED
    BY <2>1, <2>2
<1>4. ASSUME NEW g \in A \ X, X # {}
      PROVE  \E order \in VisitOrders : g \in GroupsAfterLoop(order)["x"]
  <2>1. PICK order \in VisitOrders : TRUE
    BY RightsAssumption, FS_CardinalityType DEF VisitOrders, ExistsBijection
  <2>2. PICK last : Last(order, last)
    BY <1>2, <1>4
  <2>3. PICK p \in DOMAIN order : order[p] = g
    BY <1>1, <1>2
  <2>4. p # last /\ p \in Int /\ last \in Int /\ last \in DOMAIN order
    BY <1>2, <2>2, <2>3
  <2>5. CASE p < last
    BY <1>2, <2>2, <2>3, <2>5
  <2>6. CASE last < p
    <3>1. PICK swapped \in VisitOrders :
            /\ DOMAIN swapped = DOMAIN order
            /\ swapped[p] = order[last] /\ swapped[last] = order[p]
            /\ \A i \in DOMAIN order \ {p, last} : swapped[i] = order[i]
      BY <2>4, SwappedOrder
    <3>2. \A j \in At(swapped, X) : j = p \/ j \in At(order, X)
      BY <1>4, <2>3, <3>1
    <3>3. p \in At(swapped, X)
      BY <2>2, <3>1
    <3>4. \A j \in At(swapped, X) : j <= p
      BY <1>2, <2>2, <2>4, <2>6, <3>2
    <3>5. GroupsAfterLoop(swapped)["x"] = {swapped[p]} \cup InFront(swapped, p)
      BY <1>2, <3>3, <3>4
    <3>6. g \in InFront(swapped, p)
      BY <2>3, <2>4, <2>6, <3>1
    <3> QED
      BY <3>5, <3>6
  <2> QED
    BY <2>4, <2>5, <2>6
<1>5. ASSUME NEW g \in X \ A, NEW h \in X, h # g
      PROVE  \E order \in VisitOrders : g \notin GroupsAfterLoop(order)["x"]
  <2>1. PICK order \in VisitOrders : TRUE
    BY RightsAssumption, FS_CardinalityType DEF VisitOrders, ExistsBijection
  <2>2. PICK last : Last(order, last)
    BY <1>2, <1>5
  <2>3. ASSUME NEW o \in VisitOrders, NEW i, Last(o, i), o[i] # g
        PROVE  g \notin GroupsAfterLoop(o)["x"]
    <3>1. GroupsAfterLoop(o)["x"] = {o[i]} \cup InFront(o, i)
      BY <1>2, <2>3
    <3> QED
      BY <2>3, <3>1
  <2>4. CASE order[last] # g
    BY <2>2, <2>3, <2>4
  <2>5. CASE order[last] = g
    <3>1. PICK q \in DOMAIN order : order[q] = h
      BY <1>1, <1>2
    <3>2. q # last /\ last \in DOMAIN order
      BY <1>5, <2>2, <2>5, <3>1
    <3>3. PICK swapped \in VisitOrders :
            /\ DOMAIN swapped = DOMAIN order
            /\ swapped[q] = order[last] /\ swapped[last] = order[q]
            /\ \A i \in DOMAIN order \ {q, last} : swapped[i] = order[i]
      BY <3>2, SwappedOrder
    <3>4. At(swapped, X) = At(order, X)
      BY <2>2, <3>1, <3>2, <3>3
    <3>5. Last(swapped, last) /\ swapped[last] # g
      BY <1>5, <2>2, <3>1, <3>3, <3>4
    <3> QED
      BY <2>3, <3>5
  <2> QED
    BY <2>4, <2>5
<1>6. ASSUME ~OrderDoesNotMatter
      PROVE  \E order \in VisitOrders : GroupsAfterLoop(order)["x"] # X
  <2>1. X # {} /\ X # A /\ ~(A = {} /\ \E g \in X : X = {g})
    BY <1>6 DEF OrderDoesNotMatter
  <2>2. CASE A \subseteq X
    <3>1. PICK g \in X \ A : TRUE
      BY <2>1, <2>2
    <3>2. PICK h \in X : h # g
      BY <2>1, <2>2
    <3> QED
      BY <1>5, <3>1, <3>2
  <2>3. CASE ~(A \subseteq X)
    BY <1>4, <2>1, <2>3
  <2> QED
    BY <2>2, <2>3
<1>7. "x" \in Right
  BY DEF Right
<1> QED
  BY <1>3, <1>6, <1>7, ListsAfterLoop
=============================================================================
