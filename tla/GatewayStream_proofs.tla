------------------------ MODULE GatewayStream_proofs ------------------------
(***************************************************************************)
(* Proofs about GatewayStream: whatever the digits, the vault and the      *)
(* bounds are, the streamed answer is the answer rehydrated as a whole.    *)
(*                                                                         *)
(* A text may be cut where its first part does not end in an open prefix,  *)
(* or where the second begins with a frame: no token crosses such a cut,   *)
(* so the parts can be rehydrated one by one (RehydrateConcat).  The       *)
(* inductive invariant says that what was passed on is the rehydration of  *)
(* a part of the answer that ends at such a cut.                           *)
(***************************************************************************)
EXTENDS GatewayStream, SequenceTheorems, WellFoundedInduction, TLAPS

\* Pieces of the answer, and pieces of what is passed on.
Sent == Piece \cup {"frame"}
Passed == Sent \cup Original \cup {"none"}

\* No token crosses the end of a when b follows.
Cuts(a, b) == ~ Open(a) \/ (b # <<>> /\ b[1] = "frame")

\* The text without the part of it that is still kept.
Gone(text, kept) == SubSeq(text, 1, Len(text) - Len(kept))

\* The text ends in what is kept, and out is what the rest of it became.
Split(text, out, kept) ==
  /\ text = Gone(text, kept) \o kept
  /\ out = Shown(Gone(text, kept))

\* The inductive invariant.
IInv ==
  /\ TypeOK
  /\ Split(got, put, pending)
  /\ Split(gotTool, putTool, tool)
  /\ Private /\ phase \in {"open", "failed"} => ~ Open(Gone(got, pending))
  /\ Private => ~ Open(Gone(gotTool, tool))
  /\ phase \in {"stopped", "ended"} => pending = <<>>
  /\ ~ Private => pending = <<>> /\ tool = <<>>

-----------------------------------------------------------------------------
(* Tokens and cuts.                                                        *)

LEMMA ConcatFacts ==
  ASSUME NEW S, NEW a \in Seq(S), NEW b \in Seq(S)
  PROVE  /\ a \o b \in Seq(S) /\ Len(a \o b) = Len(a) + Len(b)
         /\ Len(a) \in Nat /\ Len(b) \in Nat
         /\ \A k \in 1..Len(a) : (a \o b)[k] = a[k]
         /\ \A k \in 1..Len(b) : (a \o b)[Len(a) + k] = b[k]
BY ConcatProperties, LenProperties

LEMMA ConcatIs ==
  ASSUME NEW S, NEW t \in Seq(S), NEW a \in Seq(S), NEW b \in Seq(S),
         Len(t) = Len(a) + Len(b),
         \A k \in 1..Len(a) : t[k] = a[k],
         \A k \in 1..Len(b) : t[Len(a) + k] = b[k]
  PROVE  t = a \o b
<1> DEFINE u == a \o b
<1>1. /\ u \in Seq(S) /\ Len(u) = Len(a) + Len(b) /\ Len(a) \in Nat /\ Len(b) \in Nat
      /\ \A k \in 1..Len(a) : u[k] = a[k]
      /\ \A k \in 1..Len(b) : u[Len(a) + k] = b[k]
  BY ConcatFacts
<1> HIDE DEF u
<1>2. ASSUME NEW k \in 1..Len(t) PROVE t[k] = u[k]
  <2>1. k \in 1..Len(a) \/ (k - Len(a) \in 1..Len(b) /\ Len(a) + (k - Len(a)) = k)
    BY <1>1
  <2>2. k - Len(a) \in 1..Len(b) => t[Len(a) + (k - Len(a))] = u[Len(a) + (k - Len(a))]
    BY <1>1
  <2> QED BY <1>1, <2>1, <2>2
<1>3. t = u
  BY <1>1, <1>2, SeqEqual
<1> QED BY <1>3 DEF u

\* The numbers the vault knows are not empty and made of digits.
LEMMA NumberFacts ==
  ASSUME NEW number \in DOMAIN Vault
  PROVE  /\ number \in Seq(Digit) /\ Len(number) \in Nat \ {0}
         /\ \A k \in 1..Len(number) : number[k] \in Digit
<1>1. number \in Seq(Digit) /\ number # <<>>
  BY VaultAssumption
<1> QED BY <1>1, EmptySeq, ElementOfSeq

\* Whether a text reads as a token depends on the pieces of the token alone.
LEMMA SamePieces ==
  ASSUME NEW s, NEW t, NEW i \in Nat, NEW j \in Nat, NEW number \in DOMAIN Vault,
         i + 1 + Len(number) <= Len(s), j + 1 + Len(number) <= Len(t),
         \A k \in 0..Len(number) + 1 : s[i + k] = t[j + k]
  PROVE  TokenAt(s, i, number) <=> TokenAt(t, j, number)
<1>1. Len(number) \in Nat \ {0}
  BY NumberFacts
<1>2. s[i] = t[j] /\ s[i + 1] = t[j + 1]
  <2>1. 0 \in 0..Len(number) + 1 /\ 1 \in 0..Len(number) + 1
    BY <1>1
  <2>2. s[i + 0] = t[j + 0] /\ s[i + 1] = t[j + 1]
    BY <2>1
  <2> QED BY <2>2
<1>3. ASSUME NEW k \in 1..Len(number)
      PROVE  s[i + 1 + k] = t[j + 1 + k]
  <2>1. k + 1 \in 0..Len(number) + 1 /\ i + (k + 1) = i + 1 + k /\ j + (k + 1) = j + 1 + k
    BY <1>1
  <2>2. s[i + (k + 1)] = t[j + (k + 1)]
    BY <2>1
  <2> QED BY <2>1, <2>2
<1> QED BY <1>2, <1>3 DEF TokenAt

\* A token that begins before the cut is there before the rest comes.
LEMMA TokenBefore ==
  ASSUME NEW S, NEW a \in Seq(S), NEW b \in Seq(S), Cuts(a, b),
         NEW i \in 1..Len(a), NEW number \in DOMAIN Vault
  PROVE  TokenAt(a \o b, i, number) <=> TokenAt(a, i, number)
<1> DEFINE t == a \o b
<1>1. /\ t \in Seq(S) /\ Len(t) = Len(a) + Len(b) /\ Len(a) \in Nat /\ Len(b) \in Nat
      /\ \A k \in 1..Len(t) : t[k] = IF k <= Len(a) THEN a[k] ELSE b[k - Len(a)]
  BY ConcatFacts
<1> HIDE DEF t
<1>2. ASSUME TokenAt(t, i, number), i + 1 + Len(number) > Len(a)
      PROVE  FALSE
  <2>1. /\ Len(number) \in Nat \ {0} /\ i + 1 + Len(number) <= Len(t)
        /\ \A k \in 1..Len(number) : number[k] \in Digit /\ t[i + 1 + k] = number[k]
        /\ t[i] = "head" /\ t[i + 1] = "tail"
    BY <1>2, NumberFacts DEF TokenAt
  <2>2. \A j \in i + 2..i + 1 + Len(number) : t[j] \in Digit
    <3>1. TAKE j \in i + 2..i + 1 + Len(number)
    <3>2. j - (i + 1) \in 1..Len(number) /\ t[i + 1 + (j - (i + 1))] = t[j]
      BY <2>1
    <3> QED BY <2>1, <3>2
  <2>3. Open(a)
    <3>1. CASE i = Len(a)
      <4>1. a # <<>> /\ Last(a) = "head"
        BY <1>1, <2>1, <3>1 DEF Last
      <4> QED BY <4>1 DEF Open
    <3>2. CASE i < Len(a)
      <4>1. i \in 1..Len(a) - 1 /\ a[i] = "head" /\ a[i + 1] = "tail"
        BY <1>1, <2>1, <3>2
      <4>2. ASSUME NEW j \in i + 2..Len(a) PROVE a[j] \in Digit
        <5>1. j \in i + 2..i + 1 + Len(number) /\ j \in 1..Len(t) /\ j <= Len(a)
          BY <1>1, <1>2, <2>1
        <5> QED BY <1>1, <2>2, <5>1
      <4> QED BY <4>1, <4>2 DEF Open
    <3> QED BY <3>1, <3>2, <1>1
  <2>4. t[Len(a) + 1] = "frame"
    <3>1. b # <<>> /\ b[1] = "frame"
      BY <2>3 DEF Cuts
    <3>2. Len(b) >= 1
      BY <3>1, EmptySeq
    <3>3. /\ Len(a) + 1 \in 1..Len(t) /\ ~ (Len(a) + 1 <= Len(a))
          /\ Len(a) + 1 - Len(a) = 1
      BY <1>1, <3>2
    <3> QED BY <1>1, <3>1, <3>3
  <2>5. Len(a) + 1 = i + 1 \/ Len(a) + 1 \in i + 2..i + 1 + Len(number)
    BY <1>1, <1>2, <2>1
  <2>6. CASE Len(a) + 1 = i + 1
    BY <2>1, <2>4, <2>6
  <2>7. CASE Len(a) + 1 \in i + 2..i + 1 + Len(number)
    BY <2>2, <2>4, <2>7, DigitAssumption
  <2> QED BY <2>5, <2>6, <2>7
<1>3. ASSUME i + 1 + Len(number) <= Len(a)
      PROVE  TokenAt(t, i, number) <=> TokenAt(a, i, number)
  <2>1. Len(number) \in Nat \ {0} /\ i + 1 + Len(number) <= Len(t)
    BY <1>1, <1>3, NumberFacts
  <2>2. \A k \in 0..Len(number) + 1 : t[i + k] = a[i + k]
    BY <1>1, <1>3, <2>1
  <2> QED BY <1>3, <2>1, <2>2, SamePieces
<1>4. ASSUME i + 1 + Len(number) > Len(a)
      PROVE  ~ TokenAt(t, i, number) /\ ~ TokenAt(a, i, number)
  <2>1. Len(number) \in Nat
    BY NumberFacts
  <2> QED BY <1>1, <1>2, <1>4, <2>1 DEF TokenAt
<1>5. i + 1 + Len(number) <= Len(a) \/ i + 1 + Len(number) > Len(a)
  BY <1>1, NumberFacts
<1> QED BY <1>3, <1>4, <1>5 DEF t

\* What comes before a text moves its tokens and nothing else.
LEMMA TokenAfter ==
  ASSUME NEW S, NEW a \in Seq(S), NEW b \in Seq(S), NEW i \in 1..Len(b),
         NEW number \in DOMAIN Vault
  PROVE  TokenAt(a \o b, Len(a) + i, number) <=> TokenAt(b, i, number)
<1> DEFINE t == a \o b
<1>1. /\ Len(t) = Len(a) + Len(b) /\ Len(a) \in Nat /\ Len(b) \in Nat
      /\ \A k \in 1..Len(b) : t[Len(a) + k] = b[k]
  BY ConcatFacts
<1> HIDE DEF t
<1>2. ASSUME i + 1 + Len(number) <= Len(b)
      PROVE  TokenAt(t, Len(a) + i, number) <=> TokenAt(b, i, number)
  <2>1. Len(number) \in Nat \ {0} /\ Len(a) + i + 1 + Len(number) <= Len(t)
    BY <1>1, <1>2, NumberFacts
  <2>2. ASSUME NEW k \in 0..Len(number) + 1
        PROVE  t[Len(a) + i + k] = b[i + k]
    <3>1. i + k \in 1..Len(b) /\ Len(a) + (i + k) = Len(a) + i + k
      BY <1>1, <1>2, <2>1
    <3> QED BY <1>1, <3>1
  <2>3. Len(a) + i \in Nat /\ i \in Nat
    BY <1>1
  <2> QED BY <1>2, <2>1, <2>2, <2>3, SamePieces
<1>3. ASSUME i + 1 + Len(number) > Len(b)
      PROVE  ~ TokenAt(t, Len(a) + i, number) /\ ~ TokenAt(b, i, number)
  <2>1. Len(number) \in Nat
    BY NumberFacts
  <2> QED BY <1>1, <1>3, <2>1 DEF TokenAt
<1>4. i + 1 + Len(number) <= Len(b) \/ i + 1 + Len(number) > Len(b)
  BY <1>1, NumberFacts
<1> QED BY <1>2, <1>3, <1>4 DEF t

\* A token is its one head, a tail and digits: no other token begins within it.
LEMMA TokenMarks ==
  ASSUME NEW text, NEW i \in Nat, NEW number \in DOMAIN Vault, TokenAt(text, i, number)
  PROVE  /\ text[i] = "head"
         /\ \A k \in i + 1..i + 1 + Len(number) : text[k] \in {"tail"} \cup Digit
         /\ i + 1 + Len(number) \in Nat /\ i < i + 1 + Len(number)
         /\ i + 1 + Len(number) <= Len(text)
<1>1. Len(number) \in Nat \ {0} /\ \A k \in 1..Len(number) : number[k] \in Digit
  BY NumberFacts
<1>2. /\ i + 1 + Len(number) <= Len(text) /\ text[i] = "head" /\ text[i + 1] = "tail"
      /\ \A k \in 1..Len(number) : text[i + 1 + k] = number[k]
  BY DEF TokenAt
<1>3. ASSUME NEW k \in i + 1..i + 1 + Len(number) PROVE text[k] \in {"tail"} \cup Digit
  <2>1. k = i + 1 \/ (k - (i + 1) \in 1..Len(number) /\ i + 1 + (k - (i + 1)) = k)
    BY <1>1
  <2>2. k - (i + 1) \in 1..Len(number) => text[i + 1 + (k - (i + 1))] \in Digit
    BY <1>1, <1>2
  <2> QED BY <1>2, <2>1, <2>2
<1> QED BY <1>1, <1>2, <1>3

\* A piece belongs to a token of its own part.
LEMMA WithinBefore ==
  ASSUME NEW S, NEW a \in Seq(S), NEW b \in Seq(S), Cuts(a, b), NEW i \in 1..Len(a),
         NEW number \in DOMAIN Vault
  PROVE  Within(a \o b, i, number) <=> Within(a, i, number)
<1>1. \A j \in 1..i - 1 : j \in 1..Len(a)
  BY LenProperties
<1>2. \A j \in 1..i - 1 : TokenAt(a \o b, j, number) <=> TokenAt(a, j, number)
  BY <1>1, TokenBefore
<1> QED BY <1>2 DEF Within

LEMMA WithinAfter ==
  ASSUME NEW S, NEW a \in Seq(S), NEW b \in Seq(S), Cuts(a, b), NEW i \in 1..Len(b),
         NEW number \in DOMAIN Vault
  PROVE  Within(a \o b, Len(a) + i, number) <=> Within(b, i, number)
<1>1. Len(a) \in Nat /\ Len(b) \in Nat /\ Len(number) \in Nat
  BY LenProperties, NumberFacts
<1>2. ASSUME Within(b, i, number) PROVE Within(a \o b, Len(a) + i, number)
  <2>1. PICK j \in 1..i - 1 : TokenAt(b, j, number) /\ i <= j + 1 + Len(number)
    BY <1>2 DEF Within
  <2>2. j \in 1..Len(b) /\ Len(a) + j \in 1..(Len(a) + i) - 1
    BY <1>1
  <2>3. TokenAt(a \o b, Len(a) + j, number)
    BY <2>1, <2>2, TokenAfter
  <2>4. Len(a) + i <= Len(a) + j + 1 + Len(number)
    BY <1>1, <2>1
  <2> QED BY <2>2, <2>3, <2>4 DEF Within
<1>3. ASSUME Within(a \o b, Len(a) + i, number) PROVE Within(b, i, number)
  <2>1. PICK j \in 1..(Len(a) + i) - 1 :
               TokenAt(a \o b, j, number) /\ Len(a) + i <= j + 1 + Len(number)
    BY <1>3 DEF Within
  <2>2. CASE j <= Len(a)
    <3>1. j \in 1..Len(a)
      BY <1>1, <2>2
    <3>2. TokenAt(a, j, number)
      BY <2>1, <3>1, TokenBefore
    <3>3. j + 1 + Len(number) <= Len(a)
      BY <3>2 DEF TokenAt
    <3> QED BY <1>1, <2>1, <3>3
  <2>3. CASE j > Len(a)
    <3>1. /\ j - Len(a) \in 1..i - 1 /\ j - Len(a) \in 1..Len(b)
          /\ j = Len(a) + (j - Len(a)) /\ i <= (j - Len(a)) + 1 + Len(number)
      BY <1>1, <2>1, <2>3
    <3>2. TokenAt(b, j - Len(a), number)
      BY <2>1, <3>1, TokenAfter
    <3> QED BY <3>1, <3>2 DEF Within
  <2> QED BY <1>1, <2>2, <2>3
<1> QED BY <1>2, <1>3

-----------------------------------------------------------------------------
(* One token replaced.                                                     *)

\* The pieces tokens are made of.
Mark == {"head", "tail"} \cup Digit

\* A text after some replacements: its marks are still those of the text.
LeftOf(text, s) ==
  /\ s \in Seq(Passed) /\ Len(s) = Len(text)
  /\ \A i \in 1..Len(text) : s[i] = text[i] \/ s[i] \notin Mark

LEMMA ReplacePiece ==
  ASSUME NEW s, NEW number \in DOMAIN Vault, NEW i \in 1..Len(s)
  PROVE  /\ Replace(s, number)[i] \in {s[i], Vault[number], "none"}
         /\ TokenAt(s, i, number) => Replace(s, number)[i] = Vault[number]
         /\ ~ TokenAt(s, i, number) /\ ~ Within(s, i, number) => Replace(s, number)[i] = s[i]
         /\ Vault[number] \notin Mark /\ "none" \notin Mark
         /\ Vault[number] \in Original
<1>1. Replace(s, number)[i] =
        IF TokenAt(s, i, number) THEN Vault[number]
        ELSE IF Within(s, i, number) THEN "none" ELSE s[i]
  BY Zenon DEF Replace
<1>2. Vault[number] \notin Mark /\ "none" \notin Mark /\ Vault[number] \in Original
  BY VaultAssumption, DigitAssumption DEF Mark, Original
<1> HIDE DEF Replace
<1> QED BY <1>1, <1>2

LEMMA ReplaceType ==
  ASSUME NEW T, Original \cup {"none"} \subseteq T, NEW s \in Seq(T),
         NEW number \in DOMAIN Vault
  PROVE  Replace(s, number) \in Seq(T) /\ Len(Replace(s, number)) = Len(s)
<1> DEFINE r == Replace(s, number)
<1>1. Len(s) \in Nat /\ \A i \in 1..Len(s) : s[i] \in T
  BY LenProperties, ElementOfSeq
<1>2. \A i \in 1..Len(s) : r[i] \in T
  BY <1>1, ReplacePiece
<1>3. DOMAIN r = 1..Len(s) /\ r = [i \in 1..Len(s) |-> r[i]]
  BY Zenon DEF Replace
<1> HIDE DEF r
<1>4. r \in [1..Len(s) -> T]
  BY <1>2, <1>3
<1>5. r \in Seq(T) /\ Len(r) = Len(s)
  BY <1>1, <1>4
<1> QED BY <1>5 DEF r

\* A piece no token is made of stays.
LEMMA ReplaceKeeps ==
  ASSUME NEW s, NEW number \in DOMAIN Vault, NEW i \in 1..Len(s), s[i] \notin Mark
  PROVE  Replace(s, number)[i] = s[i]
<1>1. ~ TokenAt(s, i, number)
  BY DEF TokenAt, Mark
<1>2. ASSUME Within(s, i, number) PROVE FALSE
  <2>1. PICK j \in 1..i - 1 : TokenAt(s, j, number) /\ i <= j + 1 + Len(number)
    BY <1>2 DEF Within
  <2>2. \A k \in j + 1..j + 1 + Len(number) : s[k] \in {"tail"} \cup Digit
    BY <2>1, TokenMarks
  <2>3. i \in j + 1..j + 1 + Len(number)
    BY <2>1, NumberFacts
  <2> QED BY <2>2, <2>3 DEF Mark
<1> QED BY <1>1, <1>2, ReplacePiece

LEMMA ReplaceLeft ==
  ASSUME NEW text, NEW s, LeftOf(text, s), NEW number \in DOMAIN Vault
  PROVE  LeftOf(text, Replace(s, number))
<1>1. s \in Seq(Passed) /\ Len(s) = Len(text)
  BY DEF LeftOf
<1>2. Replace(s, number) \in Seq(Passed) /\ Len(Replace(s, number)) = Len(text)
  <2>1. Original \cup {"none"} \subseteq Passed
    BY DEF Passed
  <2> QED BY Zenon, <1>1, <2>1, ReplaceType
<1>3. ASSUME NEW i \in 1..Len(text)
      PROVE  Replace(s, number)[i] = text[i] \/ Replace(s, number)[i] \notin Mark
  <2>1. s[i] = text[i] \/ s[i] \notin Mark
    BY DEF LeftOf
  <2>2. /\ Replace(s, number)[i] \in {s[i], Vault[number], "none"}
        /\ Vault[number] \notin Mark /\ "none" \notin Mark
    BY <1>1, ReplacePiece
  <2> QED BY <2>1, <2>2
<1> QED BY <1>2, <1>3 DEF LeftOf

\* What reads as a token after some replacements is one of the text.
LEMMA TokenLeft ==
  ASSUME NEW text, NEW s, LeftOf(text, s), NEW i \in 1..Len(text),
         NEW number \in DOMAIN Vault, TokenAt(s, i, number)
  PROVE  TokenAt(text, i, number)
<1> DEFINE end == i + 1 + Len(number)
<1>1. /\ s[i] = "head" /\ \A k \in i + 1..end : s[k] \in {"tail"} \cup Digit
      /\ end \in Nat /\ i < end /\ end <= Len(text)
  BY TokenMarks DEF LeftOf
<1>2. \A k \in i..end : k \in 1..Len(text) /\ s[k] \in Mark
  <2>1. TAKE k \in i..end
  <2>2. Len(text) \in Nat
    BY LenProperties DEF LeftOf
  <2>3. k = i \/ k \in i + 1..end
    BY <1>1
  <2>4. k \in 1..Len(text)
    BY <1>1, <2>2
  <2> QED BY <1>1, <2>3, <2>4 DEF Mark
<1>3. \A k \in i..end : s[k] = text[k]
  BY <1>2 DEF LeftOf
<1>4. ASSUME NEW k \in 0..Len(number) + 1 PROVE s[i + k] = text[i + k]
  <2>1. i + k \in i..end
    BY <1>1, NumberFacts
  <2> QED BY <1>3, <2>1
<1>5. i + 1 + Len(number) <= Len(s) /\ i + 1 + Len(number) <= Len(text) /\ i \in Nat
  BY <1>1 DEF LeftOf
<1> QED BY <1>4, <1>5, SamePieces

\* An open prefix is one of the text, too.
LEMMA OpenLeft ==
  ASSUME NEW text, NEW s, LeftOf(text, s), Open(s)
  PROVE  Open(text)
<1>1. s \in Seq(Passed) /\ Len(s) \in Nat /\ Len(text) = Len(s)
  BY LenProperties DEF LeftOf
<1>2. \A i \in 1..Len(s) : s[i] \in Mark => text[i] = s[i]
  BY <1>1 DEF LeftOf
<1>3. CASE s # <<>> /\ Last(s) = "head"
  <2>1. Len(s) \in 1..Len(s) /\ s[Len(s)] = "head"
    BY <1>1, <1>3, EmptySeq DEF Last
  <2>2. text[Len(text)] = "head"
    BY <1>1, <1>2, <2>1 DEF Mark
  <2>3. text # <<>>
    BY <1>1, <2>1, EmptySeq
  <2> QED BY <2>2, <2>3 DEF Open, Last
<1>4. ASSUME NEW i \in 1..Len(s) - 1, s[i] = "head", s[i + 1] = "tail",
             \A j \in i + 2..Len(s) : s[j] \in Digit
      PROVE  Open(text)
  <2>1. i \in 1..Len(s) /\ i + 1 \in 1..Len(s) /\ i \in 1..Len(text) - 1
    BY <1>1
  <2>2. text[i] = "head" /\ text[i + 1] = "tail"
    BY <1>2, <1>4, <2>1 DEF Mark
  <2>3. ASSUME NEW j \in i + 2..Len(text) PROVE text[j] \in Digit
    <3>1. j \in i + 2..Len(s) /\ j \in 1..Len(s)
      BY <1>1
    <3> QED BY <1>2, <1>4, <3>1 DEF Mark
  <2> QED BY <2>1, <2>2, <2>3 DEF Open
<1> QED BY <1>3, <1>4 DEF Open

\* At a cut the parts are replaced one by one, and the cut stays one.
LEMMA ReplaceConcat ==
  ASSUME NEW a \in Seq(Passed), NEW b \in Seq(Passed), Cuts(a, b),
         NEW number \in DOMAIN Vault
  PROVE  /\ Replace(a \o b, number) = Replace(a, number) \o Replace(b, number)
         /\ Replace(a, number) \in Seq(Passed) /\ Replace(b, number) \in Seq(Passed)
         /\ Cuts(Replace(a, number), Replace(b, number))
<1> DEFINE t == a \o b
           rt == Replace(t, number)
           ra == Replace(a, number)
           rb == Replace(b, number)
<1>1. /\ t \in Seq(Passed) /\ Len(t) = Len(a) + Len(b) /\ Len(a) \in Nat /\ Len(b) \in Nat
      /\ \A k \in 1..Len(a) : t[k] = a[k]
      /\ \A k \in 1..Len(b) : t[Len(a) + k] = b[k]
  BY ConcatFacts
<1>2. Original \cup {"none"} \subseteq Passed
  BY DEF Passed
<1>3. /\ ra \in Seq(Passed) /\ Len(ra) = Len(a)
      /\ rb \in Seq(Passed) /\ Len(rb) = Len(b)
      /\ rt \in Seq(Passed) /\ Len(rt) = Len(t)
  BY Zenon, <1>1, <1>2, ReplaceType
<1>4. ASSUME NEW k \in 1..Len(a) PROVE rt[k] = ra[k]
  <2>1. /\ TokenAt(t, k, number) <=> TokenAt(a, k, number)
        /\ Within(t, k, number) <=> Within(a, k, number)
    BY TokenBefore, WithinBefore
  <2>2. k \in 1..Len(t) /\ t[k] = a[k]
    BY <1>1
  <2> QED BY Zenon, <2>1, <2>2 DEF Replace
<1>5. ASSUME NEW k \in 1..Len(b) PROVE rt[Len(a) + k] = rb[k]
  <2>1. /\ TokenAt(t, Len(a) + k, number) <=> TokenAt(b, k, number)
        /\ Within(t, Len(a) + k, number) <=> Within(b, k, number)
    BY TokenAfter, WithinAfter
  <2>2. Len(a) + k \in 1..Len(t) /\ t[Len(a) + k] = b[k]
    BY <1>1
  <2> QED BY Zenon, <2>1, <2>2 DEF Replace
<1>6. Cuts(ra, rb)
  <2>1. LeftOf(a, ra)
    <3>1. LeftOf(a, a)
      BY DEF LeftOf
    <3> QED BY <3>1, ReplaceLeft
  <2>2. CASE ~ Open(a)
    BY <2>1, <2>2, OpenLeft DEF Cuts
  <2>3. CASE b # <<>> /\ b[1] = "frame"
    <3>1. 1 \in 1..Len(b)
      BY <1>1, <2>3, EmptySeq
    <3>2. rb[1] = "frame"
      BY <2>3, <3>1, ReplaceKeeps, DigitAssumption DEF Mark
    <3>3. rb # <<>>
      BY <1>3, <3>1, EmptySeq
    <3> QED BY <3>2, <3>3 DEF Cuts
  <2> QED BY <2>2, <2>3 DEF Cuts
<1> HIDE DEF t, ra, rb, rt
<1>7. rt = ra \o rb
  <2>1. /\ \A k \in 1..Len(ra) : rt[k] = ra[k]
        /\ \A k \in 1..Len(rb) : rt[Len(ra) + k] = rb[k]
        /\ Len(rt) = Len(ra) + Len(rb)
    BY <1>1, <1>3, <1>4, <1>5
  <2> QED BY Zenon, <1>3, <2>1, ConcatIs
<1> QED BY <1>3, <1>6, <1>7 DEF t, ra, rb, rt

-----------------------------------------------------------------------------
(* What Rehydrate returns: the loop over the tokens.                       *)

\* Every set of numbers has a least one, and induction over the turns of a loop.
LEMMA Least ==
  ASSUME NEW S, S \subseteq Nat, S # {}
  PROVE  \E m \in S : \A n \in S : m <= n
<1> DEFINE R == OpToRel(<, Nat)
<1>1. IsWellFoundedOn(R, Nat)
  BY NatLessThanWellFounded
<1>2. \A x, y \in Nat : x < y => <<x, y>> \in R
  BY DEF OpToRel
<1> HIDE DEF R
<1>3. PICK m \in S : \A n \in S : ~ (<<n, m>> \in R)
  BY <1>1, WFMin
<1>4. ASSUME NEW n \in S PROVE m <= n
  <2>1. n \in Nat /\ m \in Nat /\ ~ (<<n, m>> \in R)
    BY <1>3
  <2>2. ~ (n < m)
    BY <1>2, <2>1
  <2> QED BY <2>1, <2>2
<1> QED BY <1>4

LEMMA NatSetInduction ==
  ASSUME NEW T, 0 \in T, \A n \in Nat : n \in T => n + 1 \in T
  PROVE  Nat \subseteq T
<1> DEFINE Bad == Nat \ T
<1>1. ASSUME Bad # {} PROVE FALSE
  <2>1. PICK m \in Bad : \A n \in Bad : m <= n
    BY <1>1, Least, Bad \subseteq Nat
  <2>2. m \in Nat /\ m # 0 /\ m - 1 \in Nat /\ (m - 1) + 1 = m
    OBVIOUS
  <2>3. m - 1 \in T
    BY <2>1, <2>2
  <2>4. m \in T
    BY <2>2, <2>3
  <2> QED BY <2>4
<1> QED BY <1>1

\* The loop of rehydrate over the first tokens, as an equation.
Loop(text, n, result) ==
  result = [k \in 0..n |-> IF k = 0 THEN text ELSE Replace(result[k - 1], Order[k])]

LEMMA OrderFacts ==
  /\ Len(Order) \in Nat
  /\ \A k \in Nat : k + 1 <= Len(Order) => Order[k + 1] \in DOMAIN Vault
<1>1. Order \in Seq(DOMAIN Vault)
  BY OrderAssumption
<1>2. ASSUME NEW k \in Nat, k + 1 <= Len(Order) PROVE Order[k + 1] \in DOMAIN Vault
  <2>1. k + 1 \in 1..Len(Order)
    BY <1>1, <1>2, LenProperties
  <2> QED BY <1>1, <2>1, ElementOfSeq
<1> QED BY <1>1, <1>2, LenProperties

LEMMA LoopExists == ASSUME NEW text, NEW n \in Nat PROVE \E result : Loop(text, n, result)
<1> DEFINE T == {m \in Nat : \E result : Loop(text, m, result)}
<1>1. 0 \in T
  <2> DEFINE f == [k \in 0..0 |-> text]
  <2>1. f = [k \in 0..0 |-> IF k = 0 THEN text ELSE Replace(f[k - 1], Order[k])]
    OBVIOUS
  <2> QED BY <2>1 DEF Loop
<1>2. ASSUME NEW m \in Nat, m \in T PROVE m + 1 \in T
  <2>1. PICK f : Loop(text, m, f)
    BY <1>2
  <2> DEFINE g == [k \in 0..m + 1 |-> IF k <= m THEN f[k] ELSE Replace(f[m], Order[m + 1])]
  <2>2. ASSUME NEW k \in 0..m + 1
        PROVE  g[k] = IF k = 0 THEN text ELSE Replace(g[k - 1], Order[k])
    <3>1. CASE k = 0
      <4>1. f[0] = text
        BY <2>1 DEF Loop
      <4> QED BY <3>1, <4>1
    <3>2. CASE k \in 1..m
      <4>1. f[k] = Replace(f[k - 1], Order[k])
        <5>1. k \in 0..m /\ k # 0
          BY <3>2
        <5> QED BY Zenon, <2>1, <5>1 DEF Loop
      <4>2. g[k] = f[k] /\ g[k - 1] = f[k - 1] /\ k # 0
        BY <3>2
      <4> QED BY <4>1, <4>2
    <3>3. CASE k = m + 1
      <4>1. g[k] = Replace(f[m], Order[m + 1]) /\ g[k - 1] = f[m] /\ k # 0
        BY <3>3
      <4> QED BY <3>3, <4>1
    <3> QED BY <3>1, <3>2, <3>3
  <2>3. g = [k \in 0..m + 1 |-> g[k]]
    OBVIOUS
  <2> HIDE DEF g
  <2>4. g = [k \in 0..m + 1 |-> IF k = 0 THEN text ELSE Replace(g[k - 1], Order[k])]
    BY Zenon, <2>2, <2>3
  <2>5. Loop(text, m + 1, g)
    BY <2>4 DEF Loop
  <2> QED BY <2>5
<1>3. Nat \subseteq T
  BY <1>1, <1>2, NatSetInduction
<1> QED BY <1>3

\* The turns of the loop.
LEMMA RehydrateTurns ==
  ASSUME NEW text
  PROVE  \E result : /\ Rehydrate(text) = result[Len(Order)] /\ result[0] = text
                     /\ \A k \in Nat : k + 1 <= Len(Order) =>
                          result[k + 1] = Replace(result[k], Order[k + 1])
<1> DEFINE N == Len(Order)
           f == CHOOSE result : Loop(text, N, result)
<1>1. N \in Nat
  BY OrderFacts
<1>2. Loop(text, N, f)
  BY Zenon, <1>1, LoopExists
<1>3. Rehydrate(text) = f[N]
  BY Zenon DEF Rehydrate, Loop
<1> HIDE DEF f
<1>4. f[0] = text
  <2>1. 0 \in 0..N
    BY <1>1
  <2> QED BY Zenon, <1>2, <2>1 DEF Loop
<1>5. ASSUME NEW k \in Nat, k + 1 <= N PROVE f[k + 1] = Replace(f[k], Order[k + 1])
  <2>1. k + 1 \in 0..N /\ k + 1 # 0 /\ (k + 1) - 1 = k
    BY <1>1, <1>5
  <2>2. f[k + 1] = Replace(f[(k + 1) - 1], Order[k + 1])
    BY Zenon, <1>2, <2>1 DEF Loop
  <2> QED BY <2>1, <2>2
<1> QED BY <1>3, <1>4, <1>5

\* What every replacement keeps, the loop keeps.
LEMMA RehydrateInduction ==
  ASSUME NEW text, NEW T, text \in T,
         \A s \in T : \A number \in DOMAIN Vault : Replace(s, number) \in T
  PROVE  Rehydrate(text) \in T
<1>1. PICK f : /\ Rehydrate(text) = f[Len(Order)] /\ f[0] = text
               /\ \A k \in Nat : k + 1 <= Len(Order) => f[k + 1] = Replace(f[k], Order[k + 1])
  BY RehydrateTurns
<1> DEFINE K == {k \in Nat : k <= Len(Order) => f[k] \in T}
<1>2. 0 \in K
  BY <1>1
<1>3. ASSUME NEW k \in Nat, k \in K PROVE k + 1 \in K
  <2>1. SUFFICES ASSUME k + 1 <= Len(Order) PROVE f[k + 1] \in T
    OBVIOUS
  <2>2. k <= Len(Order) /\ Order[k + 1] \in DOMAIN Vault
    BY <2>1, OrderFacts
  <2> QED BY <1>1, <1>3, <2>1, <2>2
<1>4. Nat \subseteq K
  BY <1>2, <1>3, NatSetInduction
<1> QED BY <1>1, <1>4, OrderFacts

LEMMA RehydrateType ==
  ASSUME NEW a \in Seq(Sent)
  PROVE  /\ Rehydrate(a) \in Seq(Passed) /\ Len(Rehydrate(a)) = Len(a)
         /\ a \in Seq(Piece) => Rehydrate(a) \in Seq(Piece \cup Original \cup {"none"})
<1>1. ASSUME NEW S, Original \cup {"none"} \subseteq S, a \in Seq(S)
      PROVE  Rehydrate(a) \in Seq(S) /\ Len(Rehydrate(a)) = Len(a)
  <2> DEFINE T == {s \in Seq(S) : Len(s) = Len(a)}
  <2>1. a \in T
    BY <1>1
  <2>2. \A s \in T : \A number \in DOMAIN Vault : Replace(s, number) \in T
    BY <1>1, ReplaceType
  <2>3. Rehydrate(a) \in T
    BY <2>1, <2>2, RehydrateInduction
  <2> QED BY <2>3
<1>2. Original \cup {"none"} \subseteq Passed /\ Sent \subseteq Passed
  BY DEF Passed
<1>3. a \in Seq(Passed)
  BY <1>2, SeqMonotonic
<1>4. a \in Seq(Piece) => a \in Seq(Piece \cup Original \cup {"none"})
  BY SeqMonotonic, Piece \subseteq Piece \cup Original \cup {"none"}
<1> QED BY <1>1, <1>2, <1>3, <1>4

\* At a cut the parts are rehydrated one by one.
LEMMA RehydrateConcat ==
  ASSUME NEW a \in Seq(Sent), NEW b \in Seq(Sent), Cuts(a, b)
  PROVE  Rehydrate(a \o b) = Rehydrate(a) \o Rehydrate(b)
<1> DEFINE Turns(text, f) ==
             /\ Rehydrate(text) = f[Len(Order)] /\ f[0] = text
             /\ \A k \in Nat : k + 1 <= Len(Order) => f[k + 1] = Replace(f[k], Order[k + 1])
<1>1. PICK f : Turns(a \o b, f)
  BY RehydrateTurns
<1>2. PICK g : Turns(a, g)
  BY RehydrateTurns
<1>3. PICK h : Turns(b, h)
  BY RehydrateTurns
<1> DEFINE Joined(k) == /\ f[k] = g[k] \o h[k] /\ Cuts(g[k], h[k])
                        /\ g[k] \in Seq(Passed) /\ h[k] \in Seq(Passed)
           K == {k \in Nat : k <= Len(Order) => Joined(k)}
<1>4. Joined(0)
  <2>1. a \in Seq(Passed) /\ b \in Seq(Passed)
    BY SeqMonotonic, Sent \subseteq Passed DEF Passed
  <2> QED BY <1>1, <1>2, <1>3, <2>1
<1>5. ASSUME NEW k \in Nat, k + 1 <= Len(Order), Joined(k) PROVE Joined(k + 1)
  <2>1. /\ f[k] = g[k] \o h[k] /\ Cuts(g[k], h[k])
        /\ g[k] \in Seq(Passed) /\ h[k] \in Seq(Passed)
    BY <1>5
  <2>2. /\ f[k + 1] = Replace(g[k] \o h[k], Order[k + 1])
        /\ g[k + 1] = Replace(g[k], Order[k + 1])
        /\ h[k + 1] = Replace(h[k], Order[k + 1])
    BY <1>1, <1>2, <1>3, <1>5, <2>1
  <2>3. Order[k + 1] \in DOMAIN Vault
    BY <1>5, OrderFacts
  <2>4. /\ Replace(g[k] \o h[k], Order[k + 1]) =
             Replace(g[k], Order[k + 1]) \o Replace(h[k], Order[k + 1])
        /\ Replace(g[k], Order[k + 1]) \in Seq(Passed)
        /\ Replace(h[k], Order[k + 1]) \in Seq(Passed)
        /\ Cuts(Replace(g[k], Order[k + 1]), Replace(h[k], Order[k + 1]))
    BY Zenon, <2>1, <2>3, ReplaceConcat
  <2> QED BY Zenon, <2>2, <2>4
<1> HIDE DEF Joined
<1>6. Nat \subseteq K
  <2>1. 0 \in K
    BY <1>4
  <2>2. ASSUME NEW k \in Nat, k \in K PROVE k + 1 \in K
    BY <1>5, <2>2, OrderFacts
  <2> QED BY <2>1, <2>2, NatSetInduction
<1>7. Joined(Len(Order))
  BY <1>6, OrderFacts
<1> QED BY <1>1, <1>2, <1>3, <1>7 DEF Joined

\* A text without heads stays as it is.
LEMMA RehydrateSmall ==
  /\ Rehydrate(<<>>) = <<>>
  /\ Rehydrate(<<"frame">>) = <<"frame">>
<1>1. <<>> \in Seq(Sent) /\ Len(<<>>) = 0
  BY EmptySeq
<1>2. Rehydrate(<<>>) \in Seq(Passed) /\ Len(Rehydrate(<<>>)) = 0
  BY <1>1, RehydrateType
<1>3. Rehydrate(<<>>) = <<>>
  BY <1>2, EmptySeq
<1>4. <<"frame">> \in Seq(Passed) /\ Len(<<"frame">>) = 1 /\ <<"frame">>[1] = "frame"
  BY DEF Passed, Sent
<1>5. ASSUME NEW number \in DOMAIN Vault
      PROVE  Replace(<<"frame">>, number) = <<"frame">>
  <2>1. /\ Replace(<<"frame">>, number) \in Seq(Passed)
        /\ Len(Replace(<<"frame">>, number)) = 1
    <3>1. Original \cup {"none"} \subseteq Passed
      BY DEF Passed
    <3> QED BY <1>4, <3>1, ReplaceType
  <2>2. Replace(<<"frame">>, number)[1] = "frame"
    <3>1. 1 \in 1..Len(<<"frame">>) /\ <<"frame">>[1] \notin Mark
      BY <1>4, DigitAssumption DEF Mark
    <3> QED BY <1>4, <3>1, ReplaceKeeps
  <2>3. \A i \in 1..1 : Replace(<<"frame">>, number)[i] = <<"frame">>[i]
    BY <1>4, <2>2
  <2> QED BY <1>4, <2>1, <2>3, SeqEqual
<1>6. Rehydrate(<<"frame">>) \in {<<"frame">>}
  BY <1>5, RehydrateInduction
<1> QED BY <1>3, <1>6

-----------------------------------------------------------------------------
(* What the loop does to a text, token by token.                           *)

LEMMA RehydrateLeft ==
  ASSUME NEW text \in Seq(Sent)
  PROVE  LeftOf(text, Rehydrate(text))
<1> DEFINE T == {s \in Seq(Passed) : LeftOf(text, s)}
<1>1. text \in T
  BY SeqMonotonic, Sent \subseteq Passed DEF Passed, LeftOf
<1>2. \A s \in T : \A number \in DOMAIN Vault : Replace(s, number) \in T
  <2>1. TAKE s \in T
  <2>2. TAKE number \in DOMAIN Vault
  <2>3. LeftOf(text, Replace(s, number))
    BY ReplaceLeft
  <2> QED BY <2>3 DEF LeftOf
<1> HIDE DEF T
<1>3. Rehydrate(text) \in T
  BY <1>1, <1>2, RehydrateInduction
<1> QED BY <1>3 DEF T

\* A token that is still there stays while tokens of other numbers are replaced.
LEMMA TokenStays ==
  ASSUME NEW text, NEW s, LeftOf(text, s), NEW i \in 1..Len(text),
         NEW number \in DOMAIN Vault, TokenAt(text, i, number),
         \A p \in i..i + 1 + Len(number) : s[p] = text[p],
         NEW other \in DOMAIN Vault, ~ TokenAt(text, i, other)
  PROVE  \A p \in i..i + 1 + Len(number) : Replace(s, other)[p] = text[p]
<1> DEFINE end == i + 1 + Len(number)
<1>1. /\ Len(number) \in Nat /\ Len(other) \in Nat
      /\ Len(s) = Len(text) /\ Len(text) \in Nat
  BY NumberFacts, LenProperties DEF LeftOf
<1>2. /\ text[i] = "head" /\ end \in Nat /\ i < end /\ end <= Len(text)
      /\ \A p \in i + 1..end : text[p] \in {"tail"} \cup Digit
  BY TokenMarks
<1>3. /\ s[i] = "head" /\ "head" \notin {"tail"} \cup Digit
      /\ \A p \in i + 1..end : s[p] \in {"tail"} \cup Digit
  BY <1>1, <1>2, DigitAssumption
<1>4. ~ TokenAt(s, i, other)
  BY TokenLeft
<1>5. ASSUME NEW p \in i..end PROVE Replace(s, other)[p] = text[p]
  <2>1. p \in 1..Len(s) /\ (p = i \/ p \in i + 1..end)
    BY <1>1, <1>2
  <2>2. ~ TokenAt(s, p, other)
    BY <1>3, <1>4, <2>1 DEF TokenAt
  <2>3. ASSUME NEW j \in 1..p - 1, TokenAt(s, j, other), p <= j + 1 + Len(other)
        PROVE  FALSE
    <3>1. /\ s[j] = "head"
          /\ \A k \in j + 1..j + 1 + Len(other) : s[k] \in {"tail"} \cup Digit
      BY <2>1, <2>3, TokenMarks
    <3>2. j = i \/ i \in j + 1..j + 1 + Len(other) \/ j \in i + 1..end
      BY <1>1, <1>2, <2>1, <2>3
    <3> QED BY <1>3, <1>4, <2>3, <3>1, <3>2
  <2>4. ~ Within(s, p, other)
    BY <2>3 DEF Within
  <2>5. s[p] = text[p]
    OBVIOUS
  <2> QED BY <2>1, <2>2, <2>4, <2>5, ReplacePiece
<1> QED BY <1>5

\* The loop comes to the longest of the tokens that begin at a piece first.
LEMMA FirstToken ==
  ASSUME NEW text, NEW i, NEW number \in DOMAIN Vault, TokenAt(text, i, number)
  PROVE  \E m \in 1..Len(Order) :
           /\ TokenAt(text, i, Order[m])
           /\ \A l \in 1..m - 1 : ~ TokenAt(text, i, Order[l])
           /\ \A other \in DOMAIN Vault :
                TokenAt(text, i, other) => Len(other) <= Len(Order[m])
<1> DEFINE M == {m \in 1..Len(Order) : TokenAt(text, i, Order[m])}
<1>1. \A other \in DOMAIN Vault : TokenAt(text, i, other) => \E k \in M : Order[k] = other
  BY OrderAssumption
<1>2. M # {} /\ M \subseteq Nat
  BY <1>1, OrderFacts
<1>3. PICK m \in M : \A l \in M : m <= l
  BY <1>2, Least
<1>4. \A l \in 1..m - 1 : ~ TokenAt(text, i, Order[l])
  <2>1. TAKE l \in 1..m - 1
  <2>2. l \notin M /\ l \in 1..Len(Order)
    BY <1>3, OrderFacts
  <2> QED BY <2>2
<1>5. ASSUME NEW other \in DOMAIN Vault, TokenAt(text, i, other)
      PROVE  Len(other) <= Len(Order[m])
  <2>1. PICK k \in M : Order[k] = other
    BY <1>1, <1>5
  <2>2. k \in 1..Len(Order) /\ m \in 1..k
    BY <1>3
  <2>3. Len(Order[m]) >= Len(Order[k])
    BY <2>2, OrderAssumption
  <2>4. Len(Order[m]) \in Nat /\ Len(other) \in Nat
    BY <2>1, OrderAssumption, ElementOfSeq, NumberFacts
  <2> QED BY <2>1, <2>3, <2>4
<1> QED BY <1>4, <1>5

\* Wherever tokens the vault knows begin, rehydrate puts the original of the longest
\* one, whatever the others are prefixes of: PERSON_11 never becomes the original of
\* PERSON_1 with a digit behind it (the sort of sorted_mappings).
THEOREM LongestIsReplaced ==
  ASSUME NEW text \in Seq(Sent), NEW i \in 1..Len(text), NEW number \in DOMAIN Vault,
         TokenAt(text, i, number)
  PROVE  \E longest \in DOMAIN Vault :
           /\ TokenAt(text, i, longest)
           /\ \A other \in DOMAIN Vault :
                TokenAt(text, i, other) => Len(other) <= Len(longest)
           /\ Rehydrate(text)[i] = Vault[longest]
<1>1. PICK m \in 1..Len(Order) :
             /\ TokenAt(text, i, Order[m])
             /\ \A l \in 1..m - 1 : ~ TokenAt(text, i, Order[l])
             /\ \A other \in DOMAIN Vault :
                  TokenAt(text, i, other) => Len(other) <= Len(Order[m])
  BY FirstToken
<1> DEFINE longest == Order[m]
           end == i + 1 + Len(longest)
<1>2. longest \in DOMAIN Vault
  BY OrderAssumption, ElementOfSeq
<1>3. PICK f : /\ Rehydrate(text) = f[Len(Order)] /\ f[0] = text
               /\ \A k \in Nat : k + 1 <= Len(Order) => f[k + 1] = Replace(f[k], Order[k + 1])
  BY RehydrateTurns
<1> DEFINE Turn(k) == /\ LeftOf(text, f[k])
                      /\ k < m => \A p \in i..end : f[k][p] = text[p]
                      /\ k >= m => f[k][i] = Vault[longest]
           K == {k \in Nat : k <= Len(Order) => Turn(k)}
<1>4. /\ TokenAt(text, i, longest) /\ Vault[longest] \notin Mark
      /\ Len(longest) \in Nat /\ i \in Nat /\ end \in Nat /\ i < end /\ end <= Len(text)
  <2>1. TokenAt(text, i, longest) /\ i \in Nat
    BY <1>1
  <2>2. end \in Nat /\ i < end /\ end <= Len(text)
    BY <1>2, <2>1, TokenMarks
  <2>3. Vault[longest] \notin Mark /\ Len(longest) \in Nat
    BY <1>2, NumberFacts, VaultAssumption DEF Mark
  <2> QED BY <2>1, <2>2, <2>3
<1> HIDE DEF longest
<1>5. Turn(0)
  <2>1. LeftOf(text, text)
    BY SeqMonotonic, Sent \subseteq Passed DEF Passed, LeftOf
  <2> QED BY <1>3, <2>1
<1>6. ASSUME NEW k \in Nat, k + 1 <= Len(Order), Turn(k) PROVE Turn(k + 1)
  <2>1. Order[k + 1] \in DOMAIN Vault /\ f[k + 1] = Replace(f[k], Order[k + 1])
    BY <1>3, <1>6, OrderFacts
  <2>2. LeftOf(text, f[k])
    BY <1>6
  <2>3. LeftOf(text, f[k + 1])
    BY <2>1, <2>2, ReplaceLeft
  <2>4. i \in 1..Len(f[k]) /\ Len(f[k]) = Len(text)
    BY <2>2 DEF LeftOf
  <2>5. k + 1 < m => \A p \in i..end : f[k + 1][p] = text[p]
    <3>1. SUFFICES ASSUME k + 1 < m PROVE \A p \in i..end : f[k + 1][p] = text[p]
      OBVIOUS
    <3>2. k + 1 \in 1..m - 1 /\ k < m
      BY <3>1
    <3>3. ~ TokenAt(text, i, Order[k + 1]) /\ \A p \in i..end : f[k][p] = text[p]
      BY <1>1, <1>6, <3>2
    <3>4. \A p \in i..end : Replace(f[k], Order[k + 1])[p] = text[p]
      BY <1>2, <1>4, <2>1, <2>2, <3>3, TokenStays
    <3> QED BY Zenon, <2>1, <3>4
  <2>6. k + 1 >= m => f[k + 1][i] = Vault[longest]
    <3>1. CASE k + 1 = m
      <4>1. \A p \in i..end : f[k][p] = text[p]
        BY <1>6, <3>1
      <4>2. ASSUME NEW q \in 0..Len(longest) + 1 PROVE f[k][i + q] = text[i + q]
        <5>1. i + q \in i..end
          BY <1>4
        <5> QED BY <4>1, <5>1
      <4>3. TokenAt(f[k], i, longest)
        BY <1>2, <1>4, <2>4, <4>2, SamePieces
      <4>4. Replace(f[k], longest)[i] = Vault[longest]
        BY <1>2, <2>4, <4>3, ReplacePiece
      <4> QED BY <2>1, <3>1, <4>4 DEF longest
    <3>2. CASE k >= m
      <4>1. f[k][i] = Vault[longest]
        BY <1>6, <3>2
      <4>2. Replace(f[k], Order[k + 1])[i] = f[k][i]
        BY <1>4, <2>1, <2>4, <4>1, ReplaceKeeps
      <4> QED BY <2>1, <4>1, <4>2
    <3> QED BY <3>1, <3>2
  <2> QED BY <2>3, <2>5, <2>6
<1> HIDE DEF Turn
<1>7. Nat \subseteq K
  <2>1. 0 \in K
    BY <1>5
  <2>2. ASSUME NEW k \in Nat, k \in K PROVE k + 1 \in K
    BY <1>6, <2>2, OrderFacts
  <2> QED BY <2>1, <2>2, NatSetInduction
<1>8. Rehydrate(text)[i] = Vault[longest]
  <2>1. Turn(Len(Order)) /\ Len(Order) >= m
    BY <1>7, OrderFacts
  <2> QED BY <1>3, <2>1, OrderFacts DEF Turn
<1> QED BY <1>1, <1>2, <1>8 DEF longest

\* After rehydrate no token the vault knows is left in the text.
THEOREM NoTokenLeft ==
  ASSUME NEW text \in Seq(Sent), NEW i \in 1..Len(text), NEW number \in DOMAIN Vault
  PROVE  ~ TokenAt(Rehydrate(text), i, number)
<1> SUFFICES ASSUME TokenAt(Rehydrate(text), i, number) PROVE FALSE
  OBVIOUS
<1>1. TokenAt(text, i, number)
  BY RehydrateLeft, TokenLeft
<1>2. PICK longest \in DOMAIN Vault : Rehydrate(text)[i] = Vault[longest]
  BY <1>1, LongestIsReplaced
<1> QED BY <1>2, VaultAssumption DEF TokenAt

\* A piece that belongs to no token the vault knows is passed on as it came.
THEOREM RestIsKept ==
  ASSUME NEW text \in Seq(Sent), NEW i \in 1..Len(text),
         \A number \in DOMAIN Vault :
           ~ TokenAt(text, i, number) /\ ~ Within(text, i, number)
  PROVE  Rehydrate(text)[i] = text[i]
<1> DEFINE T == {s \in Seq(Passed) : LeftOf(text, s) /\ s[i] = text[i]}
<1>1. text \in T
  BY SeqMonotonic, Sent \subseteq Passed DEF Passed, LeftOf
<1>2. ASSUME NEW s \in T, NEW number \in DOMAIN Vault PROVE Replace(s, number) \in T
  <2>1. LeftOf(text, s) /\ s[i] = text[i] /\ Len(s) = Len(text) /\ Len(text) \in Nat
    BY LenProperties DEF LeftOf
  <2>2. LeftOf(text, Replace(s, number))
    BY <2>1, ReplaceLeft
  <2>3. ~ TokenAt(s, i, number)
    BY <2>1, TokenLeft
  <2>4. ~ Within(s, i, number)
    <3>1. \A j \in 1..i - 1 : j \in 1..Len(text) /\ (TokenAt(s, j, number) => TokenAt(text, j, number))
      BY <2>1, TokenLeft
    <3> QED BY <3>1 DEF Within
  <2>5. Replace(s, number)[i] = text[i]
    BY <2>1, <2>3, <2>4, ReplacePiece
  <2> QED BY <2>2, <2>5 DEF LeftOf
<1> HIDE DEF T
<1>3. Rehydrate(text) \in T
  BY <1>1, <1>2, RehydrateInduction
<1> QED BY <1>3 DEF T

-----------------------------------------------------------------------------
(* Where an open prefix may end.                                           *)

LEMMA OpenEmpty == ~ Open(<<>>)
BY EmptySeq DEF Open

\* After a part that ends closed, a text is as open as its last part.
LEMMA OpenConcat ==
  ASSUME NEW a \in Seq(Sent), NEW b \in Seq(Sent), ~ Open(a), ~ Open(b)
  PROVE  ~ Open(a \o b)
<1> DEFINE t == a \o b
<1>1. /\ t \in Seq(Sent) /\ Len(t) = Len(a) + Len(b) /\ Len(a) \in Nat /\ Len(b) \in Nat
      /\ \A k \in 1..Len(a) : t[k] = a[k]
      /\ \A k \in 1..Len(b) : t[Len(a) + k] = b[k]
  BY ConcatFacts
<1>2. (a = <<>> <=> Len(a) = 0) /\ (b = <<>> <=> Len(b) = 0) /\ (t = <<>> <=> Len(t) = 0)
  BY <1>1, EmptySeq
<1> HIDE DEF t
<1>3. ~ (t # <<>> /\ Last(t) = "head")
  <2>1. CASE Len(b) = 0
    BY <1>1, <1>2, <2>1 DEF Open, Last
  <2>2. CASE Len(b) > 0
    <3>1. Last(t) = Last(b) /\ b # <<>>
      BY <1>1, <1>2, <2>2 DEF Last
    <3> QED BY <3>1 DEF Open
  <2> QED BY <1>1, <2>1, <2>2
<1>4. ASSUME NEW i \in 1..Len(t) - 1, t[i] = "head", t[i + 1] = "tail",
             \A j \in i + 2..Len(t) : t[j] \in Digit
      PROVE  FALSE
  <2>1. CASE i = Len(a)
    BY <1>1, <1>2, <1>4, <2>1 DEF Open, Last
  <2>2. CASE i < Len(a)
    <3>1. i \in 1..Len(a) - 1 /\ a[i] = "head" /\ a[i + 1] = "tail"
      BY <1>1, <1>4, <2>2
    <3>2. \A j \in i + 2..Len(a) : a[j] \in Digit
      BY <1>1, <1>4
    <3> QED BY <3>1, <3>2 DEF Open
  <2>3. CASE i > Len(a)
    <3> DEFINE h == i - Len(a)
    <3>1. /\ h \in 1..Len(b) - 1 /\ h + 1 \in 1..Len(b)
          /\ Len(a) + h = i /\ Len(a) + (h + 1) = i + 1
      BY <1>1, <2>3
    <3>2. b[h] = "head" /\ b[h + 1] = "tail"
      <4>1. h \in 1..Len(b) /\ h + 1 \in 1..Len(b)
        BY <3>1
      <4>2. t[Len(a) + h] = b[h] /\ t[Len(a) + (h + 1)] = b[h + 1]
        BY <1>1, <4>1
      <4> QED BY <1>4, <3>1, <4>2
    <3>3. \A j \in h + 2..Len(b) : b[j] \in Digit
      <4>1. TAKE j \in h + 2..Len(b)
      <4>2. j \in 1..Len(b) /\ Len(a) + j \in i + 2..Len(t)
        BY <1>1, <3>1
      <4> QED BY <1>1, <1>4, <4>2
    <3> QED BY <3>1, <3>2, <3>3 DEF Open
  <2> QED BY <1>1, <2>1, <2>2, <2>3
<1> QED BY <1>3, <1>4 DEF Open, t

\* Neither the end of a sentence nor a frame is part of a prefix.
LEMMA ClosedAtEnd ==
  ASSUME NEW a \in Seq(Sent), a # <<>>, Last(a) \in {"stop", "frame"}
  PROVE  ~ Open(a)
<1>1. Len(a) \in Nat \ {0}
  BY EmptySeq
<1>2. a[Len(a)] \in {"stop", "frame"}
  BY DEF Last
<1>3. ASSUME NEW i \in 1..Len(a) - 1, a[i + 1] = "tail",
             \A j \in i + 2..Len(a) : a[j] \in Digit
      PROVE  FALSE
  <2>1. Len(a) = i + 1 \/ Len(a) \in i + 2..Len(a)
    BY <1>1
  <2> QED BY <1>2, <1>3, <2>1, DigitAssumption
<1> QED BY <1>2, <1>3 DEF Open, Last

-----------------------------------------------------------------------------
(* How a text that was split goes on.                                      *)

LEMMA ShownType ==
  ASSUME NEW a \in Seq(Sent)
  PROVE  /\ Shown(a) \in Seq(Passed) /\ Len(Shown(a)) = Len(a)
         /\ a \in Seq(Piece) => Shown(a) \in Seq(Piece \cup Original \cup {"none"})
<1>1. a \in Seq(Passed)
  BY SeqMonotonic, Sent \subseteq Passed DEF Passed
<1>2. a \in Seq(Piece) => a \in Seq(Piece \cup Original \cup {"none"})
  BY SeqMonotonic, Piece \subseteq Piece \cup Original \cup {"none"}
<1> QED BY Zenon, <1>1, <1>2, RehydrateType DEF Shown

LEMMA ShownConcat ==
  ASSUME NEW a \in Seq(Sent), NEW b \in Seq(Sent), Private => Cuts(a, b)
  PROVE  Shown(a \o b) = Shown(a) \o Shown(b)
BY RehydrateConcat DEF Shown

LEMMA ShownSmall == Shown(<<>>) = <<>> /\ Shown(<<"frame">>) = <<"frame">>
BY RehydrateSmall DEF Shown

LEMMA GoneOf ==
  ASSUME NEW a \in Seq(Sent), NEW kept \in Seq(Sent)
  PROVE  Gone(a \o kept, kept) = a
<1> DEFINE t == a \o kept
           g == SubSeq(t, 1, Len(a))
<1>1. /\ t \in Seq(Sent) /\ Len(t) = Len(a) + Len(kept) /\ Len(a) \in Nat /\ Len(kept) \in Nat
      /\ \A k \in 1..Len(a) : t[k] = a[k]
  BY ConcatFacts
<1>2. Len(t) - Len(kept) = Len(a)
  BY <1>1
<1> HIDE DEF t
<1>3. \A k \in 1..Len(a) : t[k] \in Sent
  BY <1>1, ElementOfSeq
<1>4. /\ g \in Seq(Sent) /\ Len(g) = Len(a)
      /\ \A k \in 1..Len(a) : g[k] = t[k]
  BY <1>1, <1>3, SubSeqProperties
<1> HIDE DEF g
<1>5. g = a
  BY <1>1, <1>4, SeqEqual
<1> QED BY <1>2, <1>5 DEF Gone, g, t

LEMMA GoneType ==
  ASSUME NEW S, NEW text \in Seq(S), NEW kept \in Seq(Sent)
  PROVE  Gone(text, kept) \in Seq(S)
<1>1. Len(text) \in Nat /\ Len(kept) \in Nat /\ 1 \in Int
  BY LenProperties
<1>2. Len(text) - Len(kept) \in Int /\ \A k \in 1..Len(text) - Len(kept) : text[k] \in S
  BY <1>1, ElementOfSeq
<1> QED BY <1>1, <1>2, SubSeqProperties DEF Gone

\* More text comes and is kept.
LEMMA SplitGrow ==
  ASSUME NEW text \in Seq(Sent), NEW out, NEW kept \in Seq(Sent), NEW more \in Seq(Sent),
         Split(text, out, kept)
  PROVE  /\ Split(text \o more, out, kept \o more)
         /\ Gone(text \o more, kept \o more) = Gone(text, kept)
<1> DEFINE g == Gone(text, kept)
<1>1. g \in Seq(Sent) /\ text = g \o kept /\ kept \o more \in Seq(Sent)
  BY GoneType, ConcatFacts DEF Split
<1> HIDE DEF g
<1>2. text \o more = g \o (kept \o more)
  BY <1>1, ConcatAssociative
<1>3. Gone(text \o more, kept \o more) = g
  BY <1>1, <1>2, GoneOf
<1> QED BY <1>2, <1>3 DEF Split, g

\* All that was kept goes out.
LEMMA SplitEmit ==
  ASSUME NEW text \in Seq(Sent), NEW out, NEW kept \in Seq(Sent),
         Split(text, out, kept), Private => ~ Open(Gone(text, kept))
  PROVE  /\ Split(text, out \o Shown(kept), <<>>)
         /\ Gone(text, <<>>) = text /\ out \o Shown(kept) = Shown(text)
         /\ ~ Open(kept) /\ Private => ~ Open(text)
<1> DEFINE g == Gone(text, kept)
<1>1. g \in Seq(Sent) /\ text = g \o kept /\ out = Shown(g)
  BY GoneType DEF Split
<1>2. Private => ~ Open(g)
  OBVIOUS
<1> HIDE DEF g
<1>3. Shown(text) = out \o Shown(kept)
  BY <1>1, <1>2, ShownConcat DEF Cuts
<1>4. <<>> \in Seq(Sent) /\ text \o <<>> = text
  BY EmptySeq, ConcatEmptySeq
<1>5. Gone(text, <<>>) = text
  BY <1>4, GoneOf
<1>6. ~ Open(kept) /\ Private => ~ Open(text)
  BY <1>1, <1>2, OpenConcat
<1> QED BY <1>3, <1>4, <1>5, <1>6 DEF Split

\* A frame follows a text of which nothing is kept.
LEMMA SplitFrame ==
  ASSUME NEW text \in Seq(Sent)
  PROVE  /\ Append(text, "frame") \in Seq(Sent)
         /\ Split(Append(text, "frame"), Append(Shown(text), "frame"), <<>>)
         /\ ~ Open(Gone(Append(text, "frame"), <<>>))
<1> DEFINE f == <<"frame">>
           t == Append(text, "frame")
<1>1. f \in Seq(Sent) /\ f # <<>> /\ f[1] = "frame" /\ <<>> \in Seq(Sent)
  BY DEF Sent
<1>2. t = text \o f /\ t \in Seq(Sent) /\ t # <<>> /\ Last(t) = "frame"
  BY DEF Last, Sent
<1>3. Shown(text) \in Seq(Passed)
  BY ShownType
<1>4. Append(Shown(text), "frame") = Shown(text) \o f
  BY <1>3
<1>5. Shown(t) = Shown(text) \o f
  BY <1>1, <1>2, ShownConcat, ShownSmall DEF Cuts
<1> HIDE DEF t, f
<1>6. t \o <<>> = t
  BY <1>2, ConcatEmptySeq
<1>7. Gone(t, <<>>) = t
  BY <1>1, <1>2, <1>6, GoneOf
<1>8. ~ Open(t)
  BY <1>2, ClosedAtEnd
<1> QED BY <1>2, <1>4, <1>5, <1>6, <1>7, <1>8 DEF Split, t

-----------------------------------------------------------------------------
(* The inductive invariant.                                                *)

LEMMA FragmentFacts ==
  ASSUME NEW fragment \in Fragment
  PROVE  fragment \in Seq(Piece) /\ fragment \in Seq(Sent) /\ fragment # <<>>
<1>1. PICK n \in 0..MaxFragment : fragment \in [1..n -> Piece]
  BY BoundsAssumption DEF Fragment, SeqOf
<1>2. fragment \in Seq(Piece)
  BY <1>1, BoundsAssumption
<1>3. fragment \in Seq(Sent)
  BY <1>2, SeqMonotonic, Piece \subseteq Sent DEF Sent
<1> QED BY <1>2, <1>3 DEF Fragment

\* The types, as the lemmas on texts need them.
LEMMA TypeFacts ==
  ASSUME TypeOK
  PROVE  /\ pending \in Seq(Sent) /\ tool \in Seq(Sent) /\ gotTool \in Seq(Sent)
         /\ got \in Seq(Sent) /\ put \in Seq(Passed)
         /\ pending \in Seq(Piece) /\ tool \in Seq(Piece) /\ gotTool \in Seq(Piece)
         /\ putTool \in Seq(Piece \cup Original \cup {"none"})
         /\ mode \in Mode
<1>1. Piece \subseteq Sent /\ Sent = Piece \cup {"frame"}
  BY DEF Sent
<1>2. Piece \cup Original \cup {"frame", "none"} = Passed
  BY DEF Sent, Passed
<1>3. \A s \in Seq(Piece) : s \in Seq(Sent)
  BY <1>1, SeqMonotonic
<1> QED BY <1>1, <1>2, <1>3 DEF TypeOK

LEMMA TypeFrom ==
  ASSUME mode' \in Mode, phase' \in {"open", "stopped", "ended", "failed"},
         pending' \in Seq(Piece), tool' \in Seq(Piece), gotTool' \in Seq(Piece),
         got' \in Seq(Sent), put' \in Seq(Passed),
         putTool' \in Seq(Piece \cup Original \cup {"none"}),
         pending' # <<>> /\ Len(pending') >= MaxChars => Open(pending')
  PROVE  TypeOK'
<1>1. Sent = Piece \cup {"frame"} /\ Piece \cup Original \cup {"frame", "none"} = Passed
  BY DEF Sent, Passed
<1> QED BY <1>1 DEF TypeOK

\* The parts of the invariant on the text and on the tool JSON, after a step.
TextInv(ph, text, out, kept) ==
  /\ Split(text, out, kept)
  /\ Private /\ ph \in {"open", "failed"} => ~ Open(Gone(text, kept))
  /\ ph \in {"stopped", "ended"} => kept = <<>>
  /\ ~ Private => kept = <<>>

ToolInv(text, out, kept) ==
  /\ Split(text, out, kept)
  /\ Private => ~ Open(Gone(text, kept))
  /\ ~ Private => kept = <<>>

LEMMA IInvParts ==
  IInv <=> TypeOK /\ TextInv(phase, got, put, pending) /\ ToolInv(gotTool, putTool, tool)
BY DEF IInv, TextInv, ToolInv

LEMMA IInvNext ==
  ASSUME TypeOK', mode' = mode,
         TextInv(phase', got', put', pending'), ToolInv(gotTool', putTool', tool')
  PROVE  IInv'
<1>1. Private' <=> Private
  BY DEF Private
<1>2. \A text : Shown(text)' = Shown(text)
  BY <1>1 DEF Shown
<1> QED BY <1>1 DEF IInv, TextInv, ToolInv, Split, Shown, Private

LEMMA InitIInv == Init => IInv
<1> SUFFICES ASSUME Init PROVE IInv
  OBVIOUS
<1>1. TypeOK
  BY EmptySeq DEF Init, TypeOK, Piece
<1>2. <<>> \in Seq(Sent) /\ <<>> \o <<>> = <<>>
  BY EmptySeq, ConcatEmptySeq
<1>3. Gone(<<>>, <<>>) = <<>>
  BY <1>2, GoneOf
<1>4. Split(<<>>, <<>>, <<>>) /\ ~ Open(Gone(<<>>, <<>>))
  BY <1>2, <1>3, ShownSmall, OpenEmpty DEF Split
<1> QED BY <1>1, <1>4 DEF Init, IInv

-----------------------------------------------------------------------------
(* Every step keeps it.                                                    *)

\* All that is pending goes out, whatever it ends in.
LEMMA FinishEffect ==
  ASSUME IInv, phase = "open"
  PROVE  /\ Finish = Shown(got) /\ Finish \in Seq(Passed) /\ got \in Seq(Sent)
         /\ Split(got, Finish, <<>>) /\ Gone(got, <<>>) = got
         /\ ~ Open(pending) /\ Private => ~ Open(got)
<1>1. got \in Seq(Sent) /\ pending \in Seq(Sent)
  BY TypeFacts DEF IInv
<1>2. Split(got, put, pending) /\ (Private => ~ Open(Gone(got, pending)))
  BY DEF IInv
<1>3. Finish = put \o Shown(pending)
  BY Zenon, ShownSmall, RehydrateSmall DEF IInv, Finish, Shown
<1>4. /\ Split(got, Finish, <<>>) /\ Gone(got, <<>>) = got /\ Finish = Shown(got)
      /\ ~ Open(pending) /\ Private => ~ Open(got)
  BY <1>1, <1>2, <1>3, SplitEmit
<1> QED BY <1>1, <1>4, ShownType

\* What the handlers that flush have in common.
LEMMA FlushIInv ==
  ASSUME IInv, phase = "open", phase' \in {"open", "stopped", "ended"},
         phase' = "open" /\ Private => ~ Open(pending),
         put' = Finish, pending' = <<>>,
         UNCHANGED <<mode, tool, got, gotTool, putTool>>
  PROVE  IInv'
<1>1. TextInv(phase', got', put', pending')
  BY FinishEffect DEF TextInv
<1>2. ToolInv(gotTool', putTool', tool')
  BY IInvParts
<1>3. TypeOK'
  <2>1. /\ pending' \in Seq(Piece) /\ tool' \in Seq(Piece) /\ gotTool' \in Seq(Piece)
        /\ putTool' \in Seq(Piece \cup Original \cup {"none"}) /\ mode' \in Mode
    BY TypeFacts, EmptySeq DEF IInv
  <2>2. got' \in Seq(Sent) /\ put' \in Seq(Passed)
    BY FinishEffect
  <2> QED BY <2>1, <2>2, TypeFrom
<1> QED BY <1>1, <1>2, <1>3, IInvNext

\* What the steps that only end the stream in an error have in common.
LEMMA FailIInv ==
  ASSUME IInv, phase = "open", phase' = "failed",
         UNCHANGED <<mode, pending, tool, got, put, gotTool, putTool>>
  PROVE  IInv'
<1>1. TextInv(phase', got', put', pending') /\ ToolInv(gotTool', putTool', tool')
  BY IInvParts DEF TextInv
<1>2. TypeOK'
  BY DEF IInv, TypeOK
<1> QED BY <1>1, <1>2, IInvNext

LEMMA OtherFrameIInv == ASSUME IInv, OtherFrame PROVE IInv'
<1>1. /\ phase = "open" /\ phase' = phase /\ pending' = <<>>
      /\ got' = Append(got, "frame") /\ put' = Append(Shown(got), "frame")
      /\ mode' = mode /\ tool' = tool /\ gotTool' = gotTool /\ putTool' = putTool
  BY FinishEffect DEF OtherFrame, MaySend
<1>2. got \in Seq(Sent)
  BY TypeFacts DEF IInv
<1>3. got' \in Seq(Sent) /\ Split(got', put', <<>>) /\ ~ Open(Gone(got', <<>>))
  BY <1>1, <1>2, SplitFrame
<1>4. TextInv(phase', got', put', pending')
  BY <1>1, <1>3 DEF TextInv
<1>5. ToolInv(gotTool', putTool', tool')
  BY <1>1, IInvParts
<1>6. TypeOK'
  <2>1. /\ tool' \in Seq(Piece) /\ gotTool' \in Seq(Piece)
        /\ putTool' \in Seq(Piece \cup Original \cup {"none"}) /\ mode' \in Mode
    BY <1>1, TypeFacts DEF IInv
  <2>2. pending' \in Seq(Piece)
    BY <1>1, EmptySeq
  <2>3. put' \in Seq(Passed)
    <3>1. Shown(got) \in Seq(Passed) /\ "frame" \in Passed
      BY <1>2, ShownType DEF Passed, Sent
    <3> QED BY <1>1, <3>1
  <2> QED BY <1>1, <1>3, <2>1, <2>2, <2>3, TypeFrom
<1> QED BY <1>1, <1>4, <1>5, <1>6, IInvNext

LEMMA TextDeltaIInv ==
  ASSUME IInv, NEW fragment \in Fragment, TextDelta(fragment)
  PROVE  IInv'
<1> DEFINE text == pending \o fragment
<1>1. /\ phase = "open" /\ phase' = phase /\ got' = got \o fragment
      /\ mode' = mode /\ tool' = tool /\ gotTool' = gotTool /\ putTool' = putTool
  BY DEF TextDelta, MaySend
<1>2. /\ pending \in Seq(Sent) /\ got \in Seq(Sent) /\ put \in Seq(Passed)
      /\ pending \in Seq(Piece)
  BY TypeFacts DEF IInv
<1>3. fragment \in Seq(Piece) /\ fragment \in Seq(Sent) /\ fragment # <<>>
  BY FragmentFacts
<1>4. /\ got' \in Seq(Sent) /\ text \in Seq(Sent) /\ text \in Seq(Piece)
      /\ Len(text) \in Nat
  BY <1>1, <1>2, <1>3, ConcatFacts
<1>5. /\ Split(got', put, text) /\ Gone(got', text) = Gone(got, pending)
      /\ Private => ~ Open(Gone(got', text))
  BY <1>1, <1>2, <1>3, SplitGrow DEF IInv
<1>6. /\ Split(got', put \o Shown(text), <<>>) /\ Gone(got', <<>>) = got'
      /\ ~ Open(text) /\ Private => ~ Open(got')
  BY <1>4, <1>5, SplitEmit
<1>7. put \o Shown(text) \in Seq(Passed)
  BY <1>2, <1>4, ShownType, ConcatFacts
<1>8. ~ Private => text = fragment
  <2>1. ~ Private => pending = <<>>
    BY DEF IInv
  <2> QED BY <1>3, <2>1, ConcatEmptySeq
<1>9. ToolInv(gotTool', putTool', tool')
  BY <1>1, IInvParts
<1>10. /\ tool' \in Seq(Piece) /\ gotTool' \in Seq(Piece)
       /\ putTool' \in Seq(Piece \cup Original \cup {"none"}) /\ mode' \in Mode
       /\ phase' \in {"open", "stopped", "ended", "failed"} /\ <<>> \in Seq(Piece)
  BY <1>1, TypeFacts, EmptySeq DEF IInv
<1> HIDE DEF text
<1>11. ASSUME put' = put \o Shown(text), pending' = <<>>, Private => ~ Open(text)
       PROVE  IInv'
  <2>1. TextInv(phase', got', put', pending')
    BY <1>1, <1>6, <1>11 DEF TextInv
  <2>2. TypeOK'
    BY <1>4, <1>7, <1>10, <1>11, TypeFrom
  <2> QED BY <1>1, <1>9, <2>1, <2>2, IInvNext
<1>12. CASE ~ Private
  <2>1. put' = put \o fragment /\ pending' = pending /\ pending = <<>>
    BY <1>12 DEF TextDelta, IInv
  <2>2. put' = put \o Shown(text)
    BY <1>8, <1>12, <2>1 DEF Shown
  <2> QED BY <1>11, <1>12, <2>1, <2>2
<1>13. CASE Private /\ Ready(text)
  <2>1. put' = put \o Rehydrate(text) /\ pending' = <<>>
    BY <1>13 DEF TextDelta, text
  <2>2. put' = put \o Shown(text) /\ ~ Open(text)
    BY <1>13, <2>1 DEF Shown, Ready
  <2> QED BY <1>11, <2>1, <2>2
<1>14. CASE Private /\ ~ Ready(text)
  <2>1. put' = put /\ pending' = text
    BY <1>14 DEF TextDelta, text
  <2>2. TextInv(phase', got', put', pending')
    BY <1>1, <1>5, <1>14, <2>1 DEF TextInv
  <2>3. Len(pending') >= MaxChars => Open(pending')
    BY <1>14, <2>1 DEF Ready
  <2>4. TypeOK'
    BY <1>2, <1>4, <1>10, <2>1, <2>3, TypeFrom
  <2> QED BY <1>1, <1>9, <2>2, <2>4, IInvNext
<1> QED BY <1>12, <1>13, <1>14

LEMMA ToolDeltaIInv ==
  ASSUME IInv, NEW fragment \in Fragment, ToolDelta(fragment)
  PROVE  IInv'
<1> DEFINE json == tool \o fragment
           Out == Seq(Piece \cup Original \cup {"none"})
<1>1. /\ phase = "open" /\ gotTool' = gotTool \o fragment /\ phase' \in {"open", "failed"}
      /\ mode' = mode /\ pending' = pending /\ got' = got /\ put' = put
  BY DEF ToolDelta, MaySend
<1>2. /\ tool \in Seq(Sent) /\ gotTool \in Seq(Sent) /\ putTool \in Out
      /\ tool \in Seq(Piece) /\ gotTool \in Seq(Piece)
  BY TypeFacts DEF IInv
<1>3. fragment \in Seq(Piece) /\ fragment \in Seq(Sent) /\ fragment # <<>>
  BY FragmentFacts
<1>4. /\ gotTool' \in Seq(Sent) /\ gotTool' \in Seq(Piece)
      /\ json \in Seq(Sent) /\ json \in Seq(Piece) /\ json # <<>>
  BY <1>1, <1>2, <1>3, ConcatFacts, ConcatEqualIffEmpty
<1>5. /\ Split(gotTool', putTool, json) /\ Gone(gotTool', json) = Gone(gotTool, tool)
      /\ Private => ~ Open(Gone(gotTool', json))
  BY <1>1, <1>2, <1>3, SplitGrow DEF IInv
<1>6. /\ Split(gotTool', putTool \o Shown(json), <<>>) /\ Gone(gotTool', <<>>) = gotTool'
      /\ ~ Open(json) /\ Private => ~ Open(gotTool')
  BY <1>4, <1>5, SplitEmit
<1>7. putTool \o Shown(json) \in Out
  BY <1>2, <1>4, ShownType, ConcatFacts
<1>8. ~ Private => tool = <<>> /\ json = fragment
  <2>1. ~ Private => tool = <<>>
    BY DEF IInv
  <2> QED BY <1>3, <2>1, ConcatEmptySeq
<1>9. TextInv(phase', got', put', pending')
  BY <1>1, IInvParts DEF TextInv
<1>10. /\ pending' \in Seq(Piece) /\ got' \in Seq(Sent) /\ put' \in Seq(Passed)
       /\ mode' \in Mode /\ <<>> \in Seq(Piece)
       /\ pending' # <<>> /\ Len(pending') >= MaxChars => Open(pending')
       /\ phase' \in {"open", "stopped", "ended", "failed"}
  BY <1>1, TypeFacts, EmptySeq DEF IInv, TypeOK
<1> HIDE DEF json
<1>11. ASSUME putTool' = putTool \o Shown(json), tool' = <<>>, Private => ~ Open(json)
       PROVE  IInv'
  <2>1. ToolInv(gotTool', putTool', tool')
    BY <1>6, <1>11 DEF ToolInv
  <2>2. TypeOK'
    BY <1>4, <1>7, <1>10, <1>11, TypeFrom
  <2> QED BY <1>1, <1>9, <2>1, <2>2, IInvNext
<1>12. CASE ~ Private
  <2>1. putTool' = putTool \o fragment /\ tool' = tool
    BY <1>12 DEF ToolDelta
  <2>2. putTool' = putTool \o Shown(json) /\ tool' = <<>>
    BY <1>8, <1>12, <2>1 DEF Shown
  <2> QED BY <1>11, <1>12, <2>2
<1>13. CASE Private /\ tool' = <<>> /\ putTool' = putTool \o Rehydrate(json)
             /\ Last(json) = "stop"
  <2>1. ~ Open(json)
    BY <1>4, <1>13, ClosedAtEnd
  <2>2. putTool' = putTool \o Shown(json)
    BY <1>13 DEF Shown
  <2> QED BY <1>11, <1>13, <2>1, <2>2
<1>14. CASE Private /\ tool' = json /\ putTool' = putTool
  <2>1. ToolInv(gotTool', putTool', tool')
    BY <1>5, <1>14 DEF ToolInv
  <2>2. TypeOK'
    BY <1>2, <1>4, <1>10, <1>14, TypeFrom
  <2> QED BY <1>1, <1>9, <2>1, <2>2, IInvNext
<1> QED BY <1>12, <1>13, <1>14 DEF ToolDelta, json

LEMMA NextIInv == IInv /\ [Next]_vars => IInv'
<1> SUFFICES ASSUME IInv, [Next]_vars PROVE IInv'
  OBVIOUS
<1>1. ASSUME NEW fragment \in Fragment, TextDelta(fragment) PROVE IInv'
  BY <1>1, TextDeltaIInv
<1>2. ASSUME NEW fragment \in Fragment, ToolDelta(fragment) PROVE IInv'
  BY <1>2, ToolDeltaIInv
<1>3. CASE ToolRefused \/ Fail
  BY <1>3, FailIInv DEF ToolRefused, Fail
<1>4. CASE OtherFrame
  BY <1>4, OtherFrameIInv
<1>5. CASE Timer
  BY <1>5, FlushIInv DEF Timer
<1>6. CASE Stop
  BY <1>6, FlushIInv DEF Stop
<1>7. CASE End
  BY <1>7, FlushIInv DEF End
<1>8. CASE UNCHANGED vars
  BY <1>8 DEF vars, IInv, TypeOK, Split, Shown, Private
<1> QED BY <1>1, <1>2, <1>3, <1>4, <1>5, <1>6, <1>7, <1>8 DEF Next

LEMMA IInvAsUnstreamed == IInv => AsUnstreamed
<1> SUFFICES ASSUME IInv PROVE AsUnstreamed
  OBVIOUS
<1>1. /\ pending \in Seq(Sent) /\ tool \in Seq(Sent) /\ got \in Seq(Sent)
      /\ gotTool \in Seq(Sent) /\ put \in Seq(Passed)
  BY TypeFacts DEF IInv
<1>2. putTool \o Shown(tool) = Shown(gotTool)
  BY <1>1, SplitEmit DEF IInv
<1>3. put \o Shown(pending) = Shown(got)
  <2>1. CASE phase \in {"open", "failed"}
    BY <1>1, <2>1, SplitEmit DEF IInv
  <2>2. CASE phase \in {"stopped", "ended"}
    <3>1. pending = <<>> /\ Split(got, put, <<>>)
      BY <2>2 DEF IInv
    <3>2. Gone(got, <<>>) = got
      <4>1. <<>> \in Seq(Sent) /\ got \o <<>> = got
        BY <1>1, EmptySeq, ConcatEmptySeq
      <4> QED BY <1>1, <4>1, GoneOf
    <3>3. put = Shown(got) /\ put \o <<>> = put
      BY <1>1, <3>1, <3>2, ConcatEmptySeq DEF Split
    <3> QED BY <3>1, <3>3, ShownSmall
  <2> QED BY <2>1, <2>2 DEF IInv, TypeOK
<1>4. phase \in {"stopped", "ended"} => put = Shown(got)
  <2>1. phase \in {"stopped", "ended"} => pending = <<>>
    BY DEF IInv
  <2> QED BY <1>1, <1>3, <2>1, ShownSmall, ConcatEmptySeq
<1> QED BY <1>2, <1>3, <1>4 DEF AsUnstreamed

\* The invariant holds in every state of every behaviour.
THEOREM Invariance == Spec => []IInv
BY InitIInv, NextIInv, PTL DEF Spec

\* The types are right, and text is held beyond the limit of the buffer only
\* where it may be the start of a pseudonym (StreamBuffer::push), for any limit.
THEOREM TypeCorrect == Spec => []TypeOK
<1>1. IInv => TypeOK
  BY DEF IInv
<1> QED BY <1>1, Invariance, PTL

\* However the answer is cut, and whatever numbers the vault knows, what has been
\* passed on and what is pending is the answer rehydrated as a whole
\* (flush_stream_text, provider_stream_messages).
THEOREM AsUnstreamedHolds == Spec => []AsUnstreamed
BY IInvAsUnstreamed, Invariance, PTL
=============================================================================
