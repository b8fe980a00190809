------------------------------ MODULE MCReplay ------------------------------
(* Instances of Replay for TLC. *)
EXTENDS Replay

CONSTANTS u1, u2, admin, user, f1

MCUsers == {u1, u2}
MCGroups == {admin, user}
MCInitialGroupRights == admin :> Right

Owned(owner, groups) ==
  [features |-> f1, annotations |-> NoAnnotations, users |-> OwnerRights(owner),
   groups |-> groups, creator |-> owner]

\* user may read and execute, admin do everything.
Shared == [r \in Right |-> IF r \in {"r", "x"} THEN {admin, user} ELSE {admin}]

Docs(S) == [d \in Ids |-> IF d \in S THEN Owned(IF d = 2 THEN NoUser ELSE u1, Shared)
                                     ELSE NoDoc]

\* From an empty index to every id.
AllOrSome == {Docs({}), Docs({1, 3}), Docs(Ids)}

Command(cmd, id, rights) ==
  [cmd |-> cmd, id |-> id, owner |-> u2, features |-> f1, rights |-> rights]

OnlyU2 == [users |-> u2 :> Right, groups |-> user :> {"x"}]

\* Others give new rights to an entry, delete it or create it again.
Foreign ==
  {Command("RIGHTS", 2, OnlyU2), Command("DELETE", 2, NoRights), Command("PUT", 2, NoRights)}

Grant == [cmd |-> "PUT", id |-> 3, user |-> u2, group |-> NoGroup, right |-> {"r"}]

Grants == {Grant}
=============================================================================
