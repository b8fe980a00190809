------------------------------ MODULE MCAccess ------------------------------
(* Instances of Access for TLC. *)
EXTENDS Access, TLC

CONSTANTS u1, u2, admin, user, m, f1, f2

MCUsers == {u1, u2}
MCGroups == {admin, user}
MCInitialGroupRights == admin :> Right

Doc(features, users, groups) ==
  [features |-> features, annotations |-> NoAnnotations,
   users |-> [r \in Right |-> {u \in DOMAIN users : r \in users[u]}],
   groups |-> [r \in Right |-> {g \in DOMAIN groups : r \in groups[g]}],
   creator |-> NoUser]

\* u1 owns the first, has read and execute by its group on the second and
\* may write but not read the third.
MCContents ==
  {Doc(f1, u1 :> Right, admin :> Right),
   Doc(f2, u2 :> Right, user :> {"r", "x"}),
   Doc(f1, u1 :> {"w"}, admin :> {"a"})}

U1 == [user |-> u1, roles |-> {user}]
Admin == [user |-> u2, roles |-> {admin, user}]
OnlyUser(u) == [user |-> u, roles |-> {}]
OnlyGroup(g) == [user |-> NoUser, roles |-> {g}]

Id(d, mod) == [pure |-> d, mod |-> mod]

Both == <<Id(1, NoMod), Id(2, m), Id(1, m)>>

Of(op, token, rights, ids) ==
  [op |-> op, token |-> token, rights |-> rights, param |-> {}, ids |-> ids,
   feature |-> AnyFeature, mod |-> NoMod, query |-> FALSE, limit |-> 2, offset |-> 0]

\* Lists in pages of one and two results, with and without modifier,
\* through both endpoints.
Lists ==
  {Of("find", U1, {}, <<>>),
   [Of("find", Admin, {"r"}, <<>>) EXCEPT !.feature = f1, !.limit = 1, !.offset = 1],
   [Of("find", U1, {"r", "x"}, <<>>) EXCEPT !.mod = m],
   [Of("find", U1, {"w"}, <<>>) EXCEPT !.mod = m, !.query = TRUE],
   [Of("ids", U1, {}, Both) EXCEPT !.limit = 1],
   [Of("ids", U1, {"r"}, Both) EXCEPT !.mod = m],
   [Of("ids", Admin, {"x"}, Both) EXCEPT !.mod = m, !.query = TRUE],
   [Of("select", U1, {"w"}, Both) EXCEPT !.limit = 3],
   [Of("select", U1, {"r"}, Both) EXCEPT !.limit = 3],
   [Of("select", U1, {"w"}, Both) EXCEPT !.limit = 3, !.param = {"w"}, !.mod = m]}

Checks ==
  {Of("check", U1, rights, <<Id(1, m)>>) : rights \in {{}, {"r", "w"}, {"x", "other"}, {"other"}}}
  \cup {Of("bulk", U1, {"r", "x"}, Both), Of("bulk", U1, {"w"}, Both)}
  \cup {Of("rights", U1, {}, <<Id(1, NoMod)>>), Of("rights", Admin, {}, <<Id(2, NoMod)>>)}
  \cup {[Of("total", U1, {"r"}, <<>>) EXCEPT !.feature = f2]}
  \cup {Of("subject", OnlyUser(u1), {"w"}, <<Id(1, NoMod)>>),
        Of("subject", OnlyGroup(user), {"r"}, <<Id(2, NoMod)>>)}

MCRequests == Lists \cup Checks
=============================================================================
