--------------------------- MODULE FolderRegistry ---------------------------
(***************************************************************************)
(* What registering and forgetting a local folder promise: a folder is     *)
(* listed or it is not, and a registration that is answered with success   *)
(* lists its folder at that moment.                                        *)
(***************************************************************************)
CONSTANTS Sources, Regs

VARIABLES
  listed,    \* the folders a sync will look at
  answered   \* the registrations answered with success

TypeOK == listed \subseteq Sources /\ answered \subseteq Regs

Init == listed = {} /\ answered = {}

Register(r, s) ==
  /\ r \notin answered
  /\ listed' = listed \cup {s}
  /\ answered' = answered \cup {r}

Forget(s) ==
  /\ listed' = listed \ {s}
  /\ UNCHANGED answered

Next ==
  \/ \E r \in Regs, s \in Sources : Register(r, s)
  \/ \E s \in Sources : Forget(s)

Spec == Init /\ [][Next]_<<listed, answered>>
=============================================================================
