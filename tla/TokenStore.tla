----------------------------- MODULE TokenStore -----------------------------
(***************************************************************************)
(* What a vault of pseudonyms promises those who keep texts with its       *)
(* tokens, without maps, files and failures: a token stands for one        *)
(* original for ever; an original has one token at a time, unless the      *)
(* erasure of the other has begun; a token resolves until its erasure      *)
(* begins, and resolves no more once that is confirmed.  In between it may *)
(* do either.                                                              *)
(* PseudonymVault implements this specification as long as one process at  *)
(* a time has the vault open; the vault MemoryLayer assumes is one.        *)
(***************************************************************************)
CONSTANTS Tokens, Originals

VARIABLES
  issued,  \* <<token, original>> in texts that were handed out
  left,    \* tokens whose erasure has begun
  gone,    \* tokens whose erasure was confirmed
  answer   \* answer[t]: the originals the vault gives for t, at most one

vars == <<issued, left, gone, answer>>

Resolves ==
  /\ answer \in [Tokens -> SUBSET Originals]
  /\ \A x \in issued : /\ answer[x[1]] \subseteq {x[2]}
                       /\ x[1] \notin left => answer[x[1]] = {x[2]}
  /\ \A t \in gone : answer[t] = {}

Init == issued = {} /\ left = {} /\ gone = {} /\ Resolves

\* A text with these tokens is handed out, for the first time or again.
HandOut(P) ==
  /\ \A x \in P : x[1] \notin gone
  /\ \A x \in P, y \in P \cup issued :
       /\ x[1] = y[1] => x[2] = y[2]
       /\ x[2] = y[2] => x[1] = y[1] \/ y[1] \in left
  /\ issued' = issued \cup P
  /\ UNCHANGED <<left, gone>>

\* An erasure begins, or is done at once.
Erase(t) ==
  /\ left' = left \cup {t}
  /\ gone' \in {gone, gone \cup {t}}
  /\ UNCHANGED issued

Confirm(T) ==
  /\ gone' = gone \cup T
  /\ UNCHANGED <<issued, left>>

\* Only the answers change.
Restart == UNCHANGED <<issued, left, gone>>

Next ==
  /\ \/ \E P \in SUBSET (Tokens \X Originals) : HandOut(P)
     \/ \E t \in Tokens : Erase(t)
     \/ \E T \in SUBSET left : Confirm(T)
     \/ Restart
  /\ Resolves'

Spec == Init /\ [][Next]_vars
=============================================================================
