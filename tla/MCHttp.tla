------------------------------- MODULE MCHttp -------------------------------
(* Instances of Http for TLC. *)
EXTENDS Http

CONSTANTS id1, text1, filter1, ids1, mod1

\* What a client may set, one or two fields at a time.
Plain == [limit |-> 2, offset |-> 0, sortBy |-> Absent, desc |-> FALSE, rights |-> Absent,
          after |-> Absent, mod |-> Absent, search |-> Absent, filter |-> Absent, ids |-> Absent]

Pages ==
  {[Plain EXCEPT !.limit = l, !.offset = f] : <<l, f>> \in (-1 .. 4) \X (-1 .. 4)}

Orders ==
  {[Plain EXCEPT !.sortBy = s, !.desc = d, !.after = a, !.offset = f] :
     <<s, d, a, f>> \in {Absent, "id", "name"} \X BOOLEAN \X {Absent, Empty, id1} \X {0, 1}}

Contents ==
  {[Plain EXCEPT !.search = s, !.filter = f, !.ids = i, !.mod = m, !.rights = r] :
     <<s, f, i, m, r>> \in {Absent, text1} \X {Absent, filter1} \X {Absent, ids1}
                             \X {Absent, mod1} \X {Absent, "w"}}

AllOptions == Pages \cup Orders \cup Contents

CallOf(op, token, o, message) == [op |-> op, token |-> token, options |-> o, message |-> message]

PartOptions ==
  {Absent, Plain, [Plain EXCEPT !.limit = 0, !.mod = mod1], [Plain EXCEPT !.limit = 5]}

Messages ==
  [find : PartOptions, check : {Absent, "w"}, ids : PartOptions, aggregate : BOOLEAN,
   resource : {"path"}]

MCCalls ==
  {CallOf(op, token, o, Absent) :
     <<op, token, o>> \in {"List", "Total"} \X BOOLEAN \X AllOptions}
  \cup {CallOf(op, token, [Plain EXCEPT !.rights = r], Absent) :
          <<op, token, r>> \in {"GetRights", "CheckUserOrGroup", "GetTermAggregation"}
                                 \X BOOLEAN \X {Absent, "w"}}
  \cup {CallOf("Query", TRUE, Plain, m) : m \in Messages}
  \cup {CallOf("Query", FALSE, Plain, CHOOSE m \in Messages : TRUE)}

MCValues == {Absent, Empty, id1, text1, filter1, ids1, mod1, "id", "name", "w"}

\* Other clients: every route with a token or without, numbers that are none
\* or too large, lists of two kinds at once.
WireQueries ==
  {[NoOptions EXCEPT !.limit = l, !.rights = r] : <<l, r>> \in {Absent, Garbage, 1, 5} \X {Absent, "w"}}
  \cup {[NoOptions EXCEPT !.search = text1, !.ids = ids1]}

MCRequests ==
  {[Wire(r.name, r.method, token, q, Absent) EXCEPT !.body = b, !.right = "x"] :
     <<r, token, b, q>> \in {r \in Routes : r.op # "Query"} \X BOOLEAN \X BOOLEAN \X WireQueries}
  \cup {Wire(name, "POST", token, NoOptions, m) :
          <<name, token, m>> \in {"v2/query", "v3/query"} \X BOOLEAN \X Messages}
  \cup {[Wire("v3/query/resource", "POST", token, NoOptions, [m EXCEPT !.resource = r])
            EXCEPT !.body = b] :
          <<token, b, m, r>> \in BOOLEAN \X BOOLEAN \X {m \in Messages : m.ids = Absent}
                                  \X {Absent, "path", "other"}}
=============================================================================
