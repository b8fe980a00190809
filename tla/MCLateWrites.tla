---------------------------- MODULE MCLateWrites ----------------------------
(* Instances of LateWrites for TLC. *)
EXTENDS LateWrites, TLC

CONSTANTS u1, u2, g1, f1, f2, d1

MCUsers == {u1, u2}
MCGroups == {g1}
MCInitialGroupRights == g1 :> {"r"}

Command(cmd, owner, features) ==
  [cmd |-> cmd, id |-> d1, owner |-> owner, features |-> features,
   rights |-> [users |-> u2 :> {"a", "r"}, groups |-> [g \in {} |-> {}]]]

Put1 == Command("PUT", u1, f1)
Put2 == Command("PUT", u2, f2)
Rights2 == Command("RIGHTS", u2, f1)
Delete == Command("DELETE", u1, f1)

\* Created and changed, deleted, created again.
MCLogs ==
  {<<Put1, Put2>>, <<Put1, Rights2, Put2>>, <<Put1, Delete, Put2>>, <<Put1, Delete, Rights2>>}

MCOthers ==
  <<[cmd |-> "PUT", id |-> d1, user |-> u2, group |-> NoGroup, right |-> {"w"}]>>

MCImports ==
  {[id |-> d1, features |-> f2, creator |-> u2,
    rights |-> [users |-> u2 :> Right, groups |-> g1 :> {"x"}]]}
=============================================================================
