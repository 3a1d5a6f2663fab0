---------------------------- MODULE ReviewBoard ----------------------------
(***************************************************************************)
(* What the cells of a tabular review promise the reviewer, seen through   *)
(* the latest version of each cell: extraction fills a cell that is empty  *)
(* and never replaces what is shown; an override shows the reviewer's      *)
(* value; locking and unlocking leave the value that is shown alone.       *)
(* ReviewCells implements this specification.                              *)
(***************************************************************************)
CONSTANTS Cols, Values, Runs, Setters, Lockers, NoCell

VARIABLE shown   \* shown[c]: the visible version of column c, or NoCell

Version(v, l, who) == [value |-> v, locked |-> l, author |-> who]

Init == shown = [c \in Cols |-> NoCell]

Fill(c, v, r) ==
  /\ shown[c] = NoCell
  /\ shown' = [shown EXCEPT ![c] = Version(v, FALSE, r)]

Override(c, v, l, h) == shown' = [shown EXCEPT ![c] = Version(v, l, h)]

SetLock(c, l, h) ==
  /\ shown[c] # NoCell
  /\ shown' = [shown EXCEPT ![c] = Version(shown[c].value, l, h)]

Next ==
  \E c \in Cols :
    \/ \E v \in Values, r \in Runs : Fill(c, v, r)
    \/ \E v \in Values, l \in BOOLEAN, h \in Setters : Override(c, v, l, h)
    \/ \E l \in BOOLEAN, h \in Lockers : SetLock(c, l, h)

Spec == Init /\ [][Next]_shown
=============================================================================
