----------------------------- MODULE MCIndexes -----------------------------
(* Instances of Indexes for TLC. *)
EXTENDS Indexes, TLC

\* Processes are interchangeable where only safety is checked, and so are
\* contents.
Interchangeable ==
  Permutations(Starters) \cup Permutations(Migrators) \cup Permutations(Contents)
=============================================================================
