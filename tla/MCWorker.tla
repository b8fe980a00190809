------------------------------ MODULE MCWorker ------------------------------
(***************************************************************************)
(* Instances of Worker for TLC: the contents of the topics.                *)
(***************************************************************************)
EXTENDS Worker

CONSTANTS u1, u2, admin, user, d1, d2, f1, f2, n1, v1, v2

MCUsers == {u1, u2}
MCGroups == {admin, user}
MCFeatures == {f1, f2}
MCFields == {n1}
MCValues == {v1, v2}

\* A configuration whose outcome does not depend on the order in which its
\* groups are visited, and a smaller one.
TwoInitialGroups == (admin :> Right) @@ (user :> {"r", "w"})
OneInitialGroup == admin :> Right

\* GroupsAfterLoop is a closed form.  The loop of SetDefaultPermissions, call
\* by call, gives the same for every configuration of up to three groups and
\* every order.
Configured(rightsOf) == INSTANCE Rights WITH InitialGroupRights <- rightsOf

ASSUME LoopInClosedForm ==
  \A n \in 0..3 : \A rightsOf \in [1..n -> SUBSET Right] :
    \A order \in Configured(rightsOf)!VisitOrders :
      Configured(rightsOf)!GroupsAfterLoop(order)
        = FoldLeft(LAMBDA h, g : AddGroupRights(h, g, rightsOf[g]), NoHolders, order)

Put(id, owner, features) ==
  [cmd |-> "PUT", id |-> id, owner |-> owner, features |-> features, rights |-> NoRights]

RightsMsg(id, owner, rights) ==
  [cmd |-> "RIGHTS", id |-> id, owner |-> owner, features |-> f1, rights |-> rights]

Command(cmd, id) ==
  [cmd |-> cmd, id |-> id, owner |-> NoUser, features |-> f1, rights |-> NoRights]

UserPerm(cmd, id, u, right) ==
  [cmd |-> cmd, id |-> id, user |-> u, group |-> NoGroup, right |-> right]

GroupPerm(cmd, id, g, right) ==
  [cmd |-> cmd, id |-> id, user |-> NoUser, group |-> g, right |-> right]

Annotation(ids, v) ==
  [cmd |-> "ANNOTATE", ids |-> ids, fields |-> [f \in Fields |-> v]]

Topics(perm, resource, annotation) ==
  {[c \in Consumer |-> CASE c = "perm" -> p
                         [] c = "resource" -> r
                         [] c = "annotation" -> a] :
     p \in perm, r \in resource, a \in annotation}

OnlyU2 == [users |-> (u2 :> {"a", "r"}), groups |-> (user :> {"x"})]

\* A document is created, then changed twice, in every order of changes,
\* against at most one permission command and one annotation.
RaceLogs ==
  Topics({<<>>,
          <<UserPerm("PUT", d1, u2, {"r", "a"})>>,
          <<UserPerm("DELETE", d1, u1, {})>>,
          <<GroupPerm("PUT", d1, user, {"w", "x"})>>,
          <<GroupPerm("DELETE", d1, admin, {})>>},
         {<<Put(d1, u1, f1)>> \o s :
            s \in SeqOf({Put(d1, u2, f2), RightsMsg(d1, u1, OnlyU2), Command("DELETE", d1)}, 2)},
         {<<Annotation(<<d1>>, v1)>>})

\* Commands of one document in any order, RIGHTS and DELETE before the first
\* PUT included, and messages that are ignored or owned by nobody.
CrashLogs ==
  Topics({<<>>, <<UserPerm("PUT", d1, u1, {"a"})>>},
         {<<Put(d1, NoUser, f1)>> \o s :
            s \in SeqOf({Put(d1, u2, f2), RightsMsg(d1, u1, OnlyU2), Command("DELETE", d1)}, 2)}
         \cup {<<RightsMsg(d1, u1, OnlyU2), Put(d1, u1, f1)>>,
               <<Command("DELETE", d1), Put(d1, u1, f2), Command("DELETE", d1)>>,
               <<Command("PUT", NoId), RightsMsg(d1, u1, NoRights), Put(d1, u1, f2)>>},
         {<<>>})

\* Annotations of two documents through the bulk indexer.
BulkLogs ==
  Topics({<<>>},
         {<<Put(d1, u1, f1), Put(d2, u2, f2)>>,
          <<Put(d1, u1, f1), Put(d1, u2, f2)>>,
          <<Put(d1, u1, f1), Command("DELETE", d1)>>},
         {<<Annotation(<<d1, d2>>, v1), Annotation(<<d1>>, v2)>>})

\* Messages no handler can work on, next to good ones.
PoisonLogs ==
  Topics({<<UserPerm("MALFORMED", NoId, u1, {}), UserPerm("UNKNOWN", d1, u1, {}),
            UserPerm("PUT", d1, NoUser, {"r"}), UserPerm("PUT", d1, u2, {"r"})>>},
         {<<Put(d1, u1, f1), Command("UNKNOWN", d1)>>,
          <<Command("MALFORMED", d1), Put(d1, u1, f1)>>},
         {<<Annotation(<<>>, v1), [cmd |-> "MALFORMED", ids |-> <<d1>>, fields |-> NoAnnotations]>>})

\* Every message can be handled; three writers of one document.
ProgressLogs ==
  Topics({<<UserPerm("PUT", d1, u2, {"r"})>>},
         {<<Put(d1, u1, f1), RightsMsg(d1, u1, OnlyU2)>>,
          <<Put(d1, u1, f1), Command("DELETE", d1)>>},
         {<<Annotation(<<d2, d1>>, v1)>>})

HardLogs == PoisonLogs \cup ProgressLogs
DeliveryLogs == CrashLogs \cup BulkLogs
=============================================================================
