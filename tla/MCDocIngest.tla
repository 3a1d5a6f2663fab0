---------------------------- MODULE MCDocIngest ----------------------------
(* Instances of DocIngest for TLC. *)
EXTENDS DocIngest, TLC

\* Contents and the ids of calls are interchangeable; paths are ordered.
Symmetry == Permutations(Contents) \cup Permutations(Walks) \cup Permutations(Forgets)
=============================================================================
