-------------------------- MODULE MCPseudonymVault --------------------------
(* Instances of PseudonymVault for TLC. *)
EXTENDS PseudonymVault, TLC

Symmetry == Permutations(Originals) \cup Permutations(Prefixes) \cup Permutations(Procs)
=============================================================================
