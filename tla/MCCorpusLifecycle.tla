------------------------- MODULE MCCorpusLifecycle -------------------------
(* Small instances of CorpusLifecycle.                                      *)
EXTENDS CorpusLifecycle, TLC

Symmetry == Permutations(Reviews) \cup Permutations(Indexers) \cup Permutations(Forgets)

=============================================================================
