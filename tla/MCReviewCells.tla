--------------------------- MODULE MCReviewCells ---------------------------
(* Instances of ReviewCells for TLC. *)
EXTENDS ReviewCells

CONSTANTS a, b, m, yes, no

\* b is extracted when a holds "yes", and gates a manual column.
ChainParent == a :> NoCol @@ b :> a @@ m :> b
ChainOpens == a :> {} @@ b :> {yes} @@ m :> {no, NoValue}

\* One column.
OneParent == a :> NoCol
OneOpens == a :> {}

Symmetry == Permutations(Runs) \cup Permutations(Setters) \cup Permutations(Lockers)

\* With one column no value opens a gate: the values are interchangeable too.
SymmetryOne == Symmetry \cup Permutations({yes, no})
=============================================================================
