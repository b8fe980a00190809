-------------------------------- MODULE Pages --------------------------------
(***************************************************************************)
(* Reading a whole list page by page with an offset: ExportKindAll, and    *)
(* GetFullListForUserOrGroup, SearchListAll and SelectByFieldAll behind    *)
(* the routes of API version 1.  The searches name no order: SearchListAll *)
(* gets the entries by the score of its text query, which depends on every *)
(* document of the index, the others as the shards have them.  So an entry *)
(* may be added, or moved, to any place of the list between two pages.     *)
(* OpenSearch refuses pages that reach behind its result window.           *)
(***************************************************************************)
EXTENDS Integers, FiniteSets, SequencesExt

CONSTANTS
  Entries,       \* number of entries that may match the query
  Limit,         \* size of a page
  Window,        \* index.max_result_window of OpenSearch
  MaxChanges,    \* bound on changes of the index while the loop runs
  MaxFaults      \* bound on failing requests

\* Nothing distinguishes entries, so they have the numbers of their places
\* when the loop begins.
Ids == 1..Entries

ASSUME PagesAssumption ==
  /\ Entries \in Nat
  /\ Limit \in Nat \ {0}
  /\ Window \in Nat
  /\ Window % Limit = 0
  /\ MaxChanges \in Nat
  /\ MaxFaults \in Nat

VARIABLES
  export,    \* the loop of the export, which stops after a page that is not
             \* full; the others stop after an empty one
  order,     \* the entries that match, in the order of OpenSearch
  pc,        \* state of the loop
  offset,    \* offset of the next page
  result,    \* the pages so far
  steady,    \* entries that have matched since the loop began
  appeared,  \* entries added since the loop began,
  vanished,  \* taken away
  moved,     \* and put to another place
  faults     \* failed requests so far

vars == <<export, order, pc, offset, result, steady, appeared, vanished, moved, faults>>

\* What OpenSearch returns for size Limit and from offset.
Page == SubSeq(order, offset + 1, Min({offset + Limit, Len(order)}))

\* Mutant of LastPage: a full page ends an export as well.
LastPageFull(page) == IF export THEN Len(page) <= Limit ELSE page = <<>>

\* Mutant of LastPage: the loops of the lists look at the whole result.
LastPageOfResult(page) ==
  IF export THEN Len(page) < Limit ELSE result \o page = <<>>

LastPage(page) == IF export THEN Len(page) < Limit ELSE page = <<>>

-----------------------------------------------------------------------------
\* One turn of the loop.
FetchPage ==
  /\ pc = "run"
  /\ offset + Limit <= Window
  /\ result' = result \o Page
  /\ offset' = offset + Limit
  /\ pc' = IF LastPage(Page) THEN "done" ELSE "run"
  /\ UNCHANGED <<export, order, steady, appeared, vanished, moved, faults>>

\* Mutant of Rejected: the loop goes on after an error.
RejectedIgnored ==
  /\ pc = "run"
  /\ offset + Limit > Window
  /\ UNCHANGED vars

\* The page reaches behind the window: the loop returns the error.
Rejected ==
  /\ pc = "run"
  /\ offset + Limit > Window
  /\ pc' = "error"
  /\ UNCHANGED <<export, order, offset, result, steady, appeared, vanished, moved, faults>>

\* Any other error of the request.
RequestFails ==
  /\ pc = "run"
  /\ faults < MaxFaults
  /\ faults' = faults + 1
  /\ pc' = "error"
  /\ UNCHANGED <<export, order, offset, result, steady, appeared, vanished, moved>>

-----------------------------------------------------------------------------
(* The index while the loop runs.  One write may change the scores, and so *)
(* the places, of many entries: each of them counts as a move of its own.  *)

Change ==
  /\ pc = "run"
  /\ appeared + vanished + moved < MaxChanges
  /\ UNCHANGED <<export, pc, offset, result, faults>>

\* An entry is created, or its rights or features begin to match.
Appear(d, j) ==
  /\ Change
  /\ d \in Ids \ ToSet(order)
  /\ order' = InsertAt(order, j, d)
  /\ appeared' = appeared + 1
  /\ UNCHANGED <<steady, vanished, moved>>

\* An entry is deleted, or ceases to match.
Vanish(i) ==
  /\ Change
  /\ order' = RemoveAt(order, i)
  /\ steady' = steady \ {order[i]}
  /\ vanished' = vanished + 1
  /\ UNCHANGED <<appeared, moved>>

\* An entry that goes on to match changes its place: it is written again, its
\* score changes, or segments are merged.
Move(i, j) ==
  /\ Change
  /\ i # j
  /\ order' = InsertAt(RemoveAt(order, i), j, order[i])
  /\ moved' = moved + 1
  /\ UNCHANGED <<steady, appeared, vanished>>

-----------------------------------------------------------------------------
Init ==
  /\ export \in BOOLEAN
  /\ order \in {[i \in 1..n |-> i] : n \in 0..Entries}
  /\ pc = "run"
  /\ offset = 0
  /\ result = <<>>
  /\ steady = ToSet(order)
  /\ appeared = 0 /\ vanished = 0 /\ moved = 0
  /\ faults = 0

Loop == FetchPage \/ Rejected

\* The loop has returned.
Returned ==
  /\ pc # "run"
  /\ UNCHANGED vars

Next ==
  \/ Loop
  \/ RequestFails
  \/ \E d \in Ids, j \in 1..(Len(order) + 1) : Appear(d, j)
  \/ \E i \in DOMAIN order : Vanish(i)
  \/ \E i, j \in DOMAIN order : Move(i, j)
  \/ Returned

Spec == Init /\ [][Next]_vars

\* Every request is answered in the end; none has to fail.
FairSpec == Spec /\ WF_vars(Loop)

-----------------------------------------------------------------------------
\* Types; pages begin at multiples of their size and end inside the window.
TypeOK ==
  /\ export \in BOOLEAN
  /\ order \in Seq(Ids) /\ IsInjective(order)
  /\ pc \in {"run", "done", "error"}
  /\ offset \in 0..Window /\ offset % Limit = 0
  /\ result \in Seq(Ids)
  /\ steady \subseteq ToSet(order)
  /\ appeared \in Nat /\ vanished \in Nat /\ moved \in Nat
  /\ appeared + vanished + moved <= MaxChanges
  /\ faults \in 0..MaxFaults

\* What a loop that ends without error may have wrong, in any order of the
\* entries: of the entries that matched all the time it misses at most one
\* for every entry that vanished or moved, and it lists at most one entry
\* again for every one that appeared or moved.  Entries that only appear,
\* wherever that is, hide no other; entries that only vanish are the reason
\* for none listed twice.
LossBounded ==
  pc = "done" =>
    /\ Cardinality(steady \ ToSet(result)) <= vanished + moved
    /\ Len(result) - Cardinality(ToSet(result)) <= appeared + moved

\* Only lists too long for the window fail, as long as OpenSearch answers:
\* an export fails from Window entries on; the loops that need an empty page
\* to end already fail when the last page of the window is begun.  Entries
\* that vanished since count.
RejectedOnlyWhenFull ==
  pc = "error" /\ faults = 0 =>
    IF export THEN Len(order) + vanished >= Window
              ELSE Len(order) + vanished > Window - Limit

\* Every loop returns, however the index changes: the window bounds it.
LoopEnds == <>(pc # "run")
=============================================================================
