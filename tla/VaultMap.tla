------------------------------ MODULE VaultMap ------------------------------
(***************************************************************************)
(* The token map of a vault: what one pseudonymization, one erasure, one   *)
(* serialization and one load do to it.  No state of its own: the modules  *)
(* that keep a vault, in memory and in a file, are built from these.       *)
(*                                                                         *)
(* A token is a prefix and a number: PERSON_3 is <<"PERSON", 3>>.          *)
(***************************************************************************)
EXTENDS Integers, FiniteSets

CONSTANTS
  Originals,   \* the values that are replaced
  Prefixes,    \* category prefixes of tokens
  MaxId,       \* bound on the tokens of a prefix
  NoToken, NoOriginal

Tokens == Prefixes \X (1 .. MaxId)

ASSUME MaxIdAssumption == MaxId \in Nat
ASSUME NoTokenAssumption == NoToken \notin Tokens
ASSUME NoOriginalAssumption == NoOriginal \notin Originals

\* fwd: original -> token; rev: token -> original; cnt: the last number of each prefix.
EmptyMap ==
  [fwd |-> [o \in Originals |-> NoToken],
   rev |-> [t \in Tokens |-> NoOriginal],
   cnt |-> [c \in Prefixes |-> 0]]

Maps == [fwd : [Originals -> Tokens \cup {NoToken}],
         rev : [Tokens -> Originals \cup {NoOriginal}],
         cnt : [Prefixes -> 0 .. MaxId]]

Fresh(m, c) == <<c, m.cnt[c] + 1>>

Mint(m, o, c) ==
  [fwd |-> [m.fwd EXCEPT ![o] = Fresh(m, c)],
   rev |-> [m.rev EXCEPT ![Fresh(m, c)] = o],
   cnt |-> [m.cnt EXCEPT ![c] = @ + 1]]

\* The token is that of the first call for the original, whatever the category now is.
GetOrCreate(m, o, c) == IF m.fwd[o] # NoToken THEN m ELSE Mint(m, o, c)

\* There is room for one more token, should one be needed.
HasRoom(m, o, c) == m.fwd[o] = NoToken => m.cnt[c] < MaxId

\* Variant with a bug: the number of the erased token becomes free.
RemoveRewinds(m, ref) ==
  LET t == IF ref \in Originals THEN m.fwd[ref] ELSE ref
      o == m.rev[t]
  IN [m EXCEPT !.fwd[o] = NoToken, !.rev[t] = NoOriginal, !.cnt[t[1]] = @ - 1]

\* ref is an original or a token.  The counters stay.
Remove(m, ref) ==
  IF ref \in Originals
  THEN [m EXCEPT !.fwd[ref] = NoToken,
                 !.rev = [t \in Tokens |-> IF t = m.fwd[ref] THEN NoOriginal ELSE m.rev[t]]]
  ELSE [m EXCEPT !.rev[ref] = NoOriginal,
                 !.fwd = [o \in Originals |-> IF o = m.rev[ref] THEN NoToken ELSE m.fwd[o]]]

Matches(m, ref) ==
  IF ref \in Originals THEN m.fwd[ref] # NoToken ELSE m.rev[ref] # NoOriginal

\* What a file holds: the forward map and the counters.
Data == [fwd : [Originals -> Tokens \cup {NoToken}], cnt : [Prefixes -> 0 .. MaxId]]

ToData(m) == [fwd |-> m.fwd, cnt |-> m.cnt]

FromData(d) ==
  [fwd |-> d.fwd,
   rev |-> [t \in Tokens |->
              IF \E o \in Originals : d.fwd[o] = t
              THEN CHOOSE o \in Originals : d.fwd[o] = t
              ELSE NoOriginal],
   cnt |-> d.cnt]
=============================================================================
