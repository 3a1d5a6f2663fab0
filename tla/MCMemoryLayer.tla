--------------------------- MODULE MCMemoryLayer ---------------------------
(* Instances of MemoryLayer for TLC. *)
EXTENDS MemoryLayer, TLC

Symmetry == Permutations(Memories) \cup Permutations(Names) \cup Permutations(Forgets)
=============================================================================
