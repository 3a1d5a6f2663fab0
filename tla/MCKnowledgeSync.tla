-------------------------- MODULE MCKnowledgeSync --------------------------
(* Instances of KnowledgeSync for TLC. *)
EXTENDS KnowledgeSync, TLC

\* Contents, sources and the ids of calls are interchangeable; files are ordered.
Symmetry ==
  Permutations(Sources) \cup Permutations(Contents) \cup Permutations(Syncs)
    \cup Permutations(Regs) \cup Permutations(Forgets)
=============================================================================
