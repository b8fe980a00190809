----------------------------- MODULE MCRightsApi -----------------------------
(* Instances of RightsApi for TLC. *)
EXTENDS RightsApi, TLC

CONSTANTS u1, u2, admin, user, f1, f2, d1, d2, q1, q2

MCUsers == {u1, u2}
MCGroups == {admin, user}
MCIds == {d1}
MCPrefixes == {d1, d2}
MCRequests == {q1, q2}
MCInitialGroupRights == user :> {"r"}

\* Keys of d1 that differ behind the separator are far apart without the
\* balancer.
MCHash == [k \in {d1, d2} \X {"", "rights", "other"} |-> IF k = <<d1, "">> THEN 1 ELSE 2]

Foreign(cmd, d, owner, features) ==
  [key |-> <<d, "">>, by |-> Others, asked |-> Others,
   msg |-> [cmd |-> cmd, id |-> d, owner |-> owner, features |-> features,
            rights |-> NoRights]]

\* d1 is written again for another owner, and deleted.
MCForeign ==
  {Foreign("PUT", d1, u2, f2), Foreign("DELETE", d1, u1, f1)}

MCInitialTopic == <<Foreign("PUT", d1, u1, f1)>>

Request(u, roles, id, users, groups, key) ==
  [valid |-> TRUE, caller |-> [user |-> u, roles |-> roles], id |-> id,
   rights |-> [users |-> users, groups |-> groups], key |-> key]

None == [s \in {} |-> {}]

MCRightsRequests ==
  { \* u1 shares with the group user, and hands over to u2
    Request(u1, {user}, d1, u1 :> Right, user :> {"a", "r"}, NoKey),
    Request(u1, {user}, d1, u2 :> Right, user :> {"a"}, NoKey),
    Request(u1, {user}, d1, u2 :> Right, None, <<d1, "other">>),
    \* u2 administrates by the group only
    Request(u2, {user}, d1, u2 :> {"r"}, user :> Right, NoKey),
    Request(u2, {user}, d1, u1 :> {"a"}, admin :> Right, NoKey),
    \* a key that breaks the rules
    Request(u2, {user}, d1, u2 :> Right, None, <<d1, "">>),
    \* a platform admin, an unknown kind, an invalid id
    Request(u2, {admin}, d1, None, admin :> {"a"}, NoKey),
    Request(u2, {admin}, NoId, None, None, NoKey),
    [Request(u1, {user}, d1, None, None, NoKey) EXCEPT !.valid = FALSE] }

Symmetric == Permutations(MCRequests)
=============================================================================
