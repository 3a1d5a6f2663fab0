------------------------- MODULE ReviewCells_proofs -------------------------
(***************************************************************************)
(* Proofs about ReviewCells for any columns, any number of runs and any    *)
(* number of reviewers' calls.  The inductive invariant IInv says that     *)
(* every cell with versions has a latest one, that a pending call of a     *)
(* reviewer knows how its version compares to the latest, and that what a  *)
(* run is going to write went through its gate.                            *)
(***************************************************************************)
EXTENDS ReviewCells, SequenceTheorems, FiniteSetTheorems, WellFoundedInduction, TLAPS

\* A sequence of versions has a latest one as soon as it is not empty.
HasLatest(s) == s # <<>> => \E i \in DOMAIN s : IsLatest(s, i)

EveryCellHasLatest == \A c \in Cols : HasLatest(log[c])

\* The parent of c satisfied the condition of c at some time.
Seen(c) ==
  Parent[c] # NoCol =>
    \/ NoValue \in Opens[c]
    \/ \E k \in DOMAIN log[Parent[c]] : log[Parent[c]][k].value \in Opens[c]

\* What a row extraction has picked, received or is about to append passed its gate.
GoodRun(s) ==
  /\ s.pc = "appending" => s.next # NoEntry
  /\ s.kind # "refine" =>
       /\ \A c \in s.picked : Seen(c)
       /\ \A e \in s.batch : Seen(e.col)
       /\ s.next # NoEntry => Seen(s.next.col)

GoodRuns == \A r \in Runs : GoodRun(run[r])

\* Whoever wrote a version has started: its kind is settled.
AuthorsStarted ==
  \A c \in Cols : \A i \in DOMAIN log[c] :
    log[c][i].author \in Runs => run[log[c][i].author].pc # "idle"

\* A pending call that read a version: the latest is at least that one; it still is
\* that one, with the value a lock call copied, unless a human has written since.
GoodCall(h, x) ==
  LET latest == Latest(log[x.col]) IN
  x.pc = "read" =>
    /\ x.base <= Len(log[x.col])
    /\ h \in Lockers => x.seen > 0
    /\ x.seen > 0 =>
         /\ log[x.col] # <<>>
         /\ x.seen <= latest.version
         /\ h \in Lockers /\ latest.version = x.seen => latest.value = x.value
         /\ (\A i \in x.base + 1 .. Len(log[x.col]) : log[x.col][i].author \in Runs)
              => latest.version = x.seen

GoodCalls == \A h \in Humans : GoodCall(h, call[h])

IInv == TypeOK /\ EveryCellHasLatest /\ GoodRuns /\ AuthorsStarted /\ GoodCalls /\ GateHeld

-----------------------------------------------------------------------------
(* The latest version.                                                      *)

LEMMA LatestUnique ==
  ASSUME NEW s \in Seq(Cell), NEW i, NEW j, IsLatest(s, i), IsLatest(s, j)
  PROVE  i = j
  <1>1. i \in 1 .. Len(s) /\ j \in 1 .. Len(s)
    BY DEF IsLatest
  <1>2. s[i] \in Cell /\ s[j] \in Cell
    BY <1>1
  <1>3. s[i].version \in Nat /\ s[j].version \in Nat
    BY <1>2 DEF Cell
  <1> QED BY <1>1, <1>3 DEF IsLatest

LEMMA LatestIs ==
  ASSUME NEW s \in Seq(Cell), NEW i, IsLatest(s, i)
  PROVE  Latest(s) = s[i] /\ s[i] \in Cell /\ i \in 1 .. Len(s)
  <1>1. i \in DOMAIN s /\ DOMAIN s = 1 .. Len(s)
    BY DEF IsLatest
  <1> DEFINE k == CHOOSE n \in DOMAIN s : IsLatest(s, n)
  <1>2. IsLatest(s, k)
    BY <1>1
  <1>3. Latest(s) = s[k]
    BY DEF Latest
  <1> HIDE DEF k
  <1>4. k = i
    BY <1>2, LatestUnique
  <1>5. i \in 1 .. Len(s) /\ s[i] \in Cell
    BY <1>1
  <1> QED BY <1>3, <1>4, <1>5

LEMMA LatestType ==
  ASSUME NEW s \in Seq(Cell), s # <<>>, HasLatest(s)
  PROVE  Latest(s) \in Cell
  BY LatestIs DEF HasLatest

\* One append: the new version is the latest if it is higher than the one there was.
LEMMA AppendLatest ==
  ASSUME NEW s \in Seq(Cell), NEW e \in Cell, HasLatest(s)
  PROVE  /\ Append(s, e) # <<>>
         /\ HasLatest(Append(s, e))
         /\ Latest(Append(s, e)) =
              IF s = <<>> \/ e.version > Latest(s).version THEN e ELSE Latest(s)
  <1> DEFINE t == Append(s, e)
  <1>1. /\ t \in Seq(Cell) /\ Len(t) = Len(s) + 1 /\ t[Len(s) + 1] = e
        /\ \A n \in 1 .. Len(s) : t[n] = s[n]
        /\ DOMAIN t = 1 .. Len(s) + 1 /\ DOMAIN s = 1 .. Len(s) /\ Len(s) \in Nat
        /\ t # <<>>
    OBVIOUS
  <1>2. \A n \in 1 .. Len(s) : s[n].version \in Nat
    <2>1. \A n \in 1 .. Len(s) : s[n] \in Cell
      OBVIOUS
    <2> QED BY <2>1 DEF Cell
  <1>3. e.version \in Nat
    BY DEF Cell
  <1> HIDE DEF t
  <1>4. CASE s = <<>>
    <2>1. IsLatest(t, 1)
      BY <1>1, <1>3, <1>4 DEF IsLatest
    <2>2. Latest(t) = e
      BY <2>1, <1>1, <1>4, LatestIs
    <2> QED BY <2>1, <2>2, <1>1, <1>4 DEF HasLatest, IsLatest, t
  <1>5. CASE s # <<>>
    <2>1. PICK i \in DOMAIN s : IsLatest(s, i)
      BY <1>5 DEF HasLatest
    <2>2. Latest(s) = s[i] /\ i \in 1 .. Len(s)
      BY <2>1, LatestIs
    <2>3. CASE e.version > Latest(s).version
      <3>1. IsLatest(t, Len(s) + 1)
        BY SMTT(30), <1>1, <1>2, <1>3, <2>1, <2>2, <2>3 DEF IsLatest
      <3>2. Latest(t) = e
        BY <3>1, <1>1, LatestIs
      <3> QED BY <3>1, <3>2, <2>3, <1>1 DEF HasLatest, t
    <2>4. CASE ~(e.version > Latest(s).version)
      <3>1. IsLatest(t, i)
        BY <1>1, <1>2, <1>3, <2>1, <2>2, <2>4 DEF IsLatest
      <3>2. Latest(t) = Latest(s)
        BY <3>1, <2>2, <1>1, LatestIs
      <3> QED BY <3>1, <3>2, <2>4, <1>1, <1>5 DEF HasLatest, t
    <2> QED BY <2>3, <2>4
  <1> QED BY <1>4, <1>5

-----------------------------------------------------------------------------
(* The two readers of the table.  Both go through the versions from the     *)
(* first to the last; that they agree is shown by induction on the number   *)
(* of versions.  The library states induction for an operator on numbers,   *)
(* which the provers do not instantiate; here it is stated for a set of     *)
(* numbers, and follows from the well-foundedness of <.                     *)

LEMMA NatSetInduction ==
  ASSUME NEW T, 0 \in T, \A n \in Nat : n \in T => n + 1 \in T
  PROVE  Nat \subseteq T
<1> DEFINE R == OpToRel(<, Nat)
           Bad == Nat \ T
<1>1. IsWellFoundedOn(R, Nat)
  BY NatLessThanWellFounded
<1>2. \A x, y \in Nat : x < y => <<x, y>> \in R
  BY DEF OpToRel
<1> HIDE DEF R
<1>3. ASSUME Bad # {} PROVE FALSE
  <2>1. PICK x \in Bad : \A y \in Bad : ~ (<<y, x>> \in R)
    BY <1>1, <1>3, WFMin, Bad \subseteq Nat
  <2>2. x \in Nat /\ x # 0 /\ x - 1 \in Nat /\ x - 1 < x /\ (x - 1) + 1 = x
    OBVIOUS
  <2>3. x - 1 \notin Bad
    BY <1>2, <2>1, <2>2
  <2>4. x \in T
    BY <2>2, <2>3
  <2> QED BY <2>4
<1> QED BY <1>3

\* Any versions that are not none have a latest one.
LEMMA LatestExists == ASSUME NEW s \in Seq(Cell) PROVE HasLatest(s)
<1> DEFINE T == {n \in Nat : \A t \in Seq(Cell) : Len(t) = n => HasLatest(t)}
<1>1. 0 \in T
  BY EmptySeq DEF HasLatest
<1>2. ASSUME NEW n \in Nat, n \in T PROVE n + 1 \in T
  <2>1. ASSUME NEW t \in Seq(Cell), Len(t) = n + 1 PROVE HasLatest(t)
    <3> DEFINE front == SubSeq(t, 1, n)
               e == t[n + 1]
    <3>1. \A i \in 1..n : t[i] \in Cell
      BY <2>1, ElementOfSeq
    <3>2. /\ front \in Seq(Cell) /\ Len(front) = n /\ e \in Cell
          /\ \A i \in 1..n : front[i] = t[i]
      BY <2>1, <3>1, SubSeqProperties, ElementOfSeq
    <3> HIDE DEF front, e
    <3>3. t = Append(front, e)
      BY <2>1, <3>2, SeqEqual DEF e
    <3>4. HasLatest(front)
      BY <1>2, <3>2
    <3> QED BY <3>2, <3>3, <3>4, AppendLatest
  <2> QED BY <2>1
<1>3. Nat \subseteq T
  BY <1>1, <1>2, NatSetInduction
<1>4. Len(s) \in Nat
  BY LenProperties
<1> QED BY <1>3, <1>4

\* The latest of the first i versions, for every i.
LatestSoFar(s) == [i \in DOMAIN s |-> Latest(SubSeq(s, 1, i))]

\* The loop of all_for_review_latest, as an equation.
Loop(s, best) ==
  best = [i \in DOMAIN s |-> IF i = 1 THEN s[1] ELSE KeepBest(best[i - 1], s[i])]

\* One more version changes the latest one as one turn of the loop does.
LEMMA LatestStep ==
  ASSUME NEW s \in Seq(Cell), NEW i \in 1..Len(s)
  PROVE  LatestSoFar(s)[i] =
           IF i = 1 THEN s[1] ELSE KeepBest(LatestSoFar(s)[i - 1], s[i])
<1> DEFINE pre(k) == SubSeq(s, 1, k)
<1>1. Len(s) \in Nat /\ DOMAIN s = 1..Len(s) /\ i \in Nat /\ i - 1 \in 0..Len(s)
  BY LenProperties
<1>2. ASSUME NEW k \in 0..Len(s)
      PROVE  /\ pre(k) \in Seq(Cell) /\ Len(pre(k)) = k
             /\ \A n \in 1..k : pre(k)[n] = s[n]
  <2>1. \A n \in 1..k : s[n] \in Cell
    BY <1>1, ElementOfSeq
  <2> QED BY <1>1, <2>1, SubSeqProperties
<1>3. s[i] \in Cell
  BY ElementOfSeq
<1> DEFINE a == pre(i)
           f == pre(i - 1)
<1>4. /\ a \in Seq(Cell) /\ Len(a) = i /\ \A n \in 1..i : a[n] = s[n]
      /\ f \in Seq(Cell) /\ Len(f) = i - 1 /\ \A n \in 1..i - 1 : f[n] = s[n]
  BY <1>1, <1>2
<1>5. LatestSoFar(s)[i] = Latest(a) /\ (i # 1 => LatestSoFar(s)[i - 1] = Latest(f))
  BY <1>1 DEF LatestSoFar
<1> HIDE DEF a, f, pre
<1>6. a = Append(f, s[i])
  BY <1>1, <1>3, <1>4, SeqEqual
<1>7. HasLatest(f) /\ (f # <<>> => Latest(f) \in Cell)
  BY <1>4, LatestExists, LatestType
<1>8. Latest(a) = IF f = <<>> \/ s[i].version > Latest(f).version THEN s[i] ELSE Latest(f)
  BY <1>3, <1>4, <1>6, <1>7, AppendLatest
<1>9. CASE i = 1
  <2>1. f = <<>>
    BY <1>4, <1>9, EmptySeq
  <2> QED BY <1>5, <1>8, <1>9, <2>1
<1>10. CASE i # 1
  <2>1. f # <<>>
    BY <1>1, <1>4, <1>10, EmptySeq
  <2>2. Latest(f).version \in Nat /\ s[i].version \in Nat
    BY <1>3, <1>7, <2>1 DEF Cell
  <2> QED BY <1>5, <1>8, <1>10, <2>1, <2>2 DEF KeepBest
<1> QED BY <1>9, <1>10

\* The loop has a result, and it is the only one.
LEMMA LoopResult ==
  ASSUME NEW s \in Seq(Cell), NEW best, Loop(s, best)
  PROVE  \A i \in 1..Len(s) : best[i] = LatestSoFar(s)[i]
<1> DEFINE T == {n \in Nat : n + 1 \in 1..Len(s) => best[n + 1] = LatestSoFar(s)[n + 1]}
<1>1. Len(s) \in Nat /\ DOMAIN s = 1..Len(s)
  BY LenProperties
<1>2. ASSUME NEW i \in 1..Len(s)
      PROVE  best[i] = IF i = 1 THEN s[1] ELSE KeepBest(best[i - 1], s[i])
  BY Zenon, <1>1 DEF Loop
<1>3. 0 \in T
  BY <1>2, LatestStep
<1>4. ASSUME NEW n \in Nat, n \in T PROVE n + 1 \in T
  <2>1. SUFFICES ASSUME n + 2 \in 1..Len(s)
                 PROVE  best[n + 2] = LatestSoFar(s)[n + 2]
    OBVIOUS
  <2>2. n + 1 \in 1..Len(s) /\ (n + 2) - 1 = n + 1 /\ n + 2 # 1
    BY <1>1, <2>1
  <2>3. best[n + 1] = LatestSoFar(s)[n + 1]
    BY <1>4, <2>2
  <2>4. best[n + 2] = KeepBest(best[n + 1], s[n + 2])
    BY <1>2, <2>1, <2>2
  <2>5. LatestSoFar(s)[n + 2] = KeepBest(LatestSoFar(s)[n + 1], s[n + 2])
    BY LatestStep, <2>1, <2>2
  <2> QED BY <2>3, <2>4, <2>5
<1>5. Nat \subseteq T
  BY <1>3, <1>4, NatSetInduction
<1>6. ASSUME NEW i \in 1..Len(s) PROVE best[i] = LatestSoFar(s)[i]
  <2>1. i - 1 \in T /\ (i - 1) + 1 = i
    BY <1>1, <1>5
  <2> QED BY <2>1
<1> QED BY <1>6

\* For any versions whatever: the loop keeps what the sort puts first.
LEMMA BoardIsLatest ==
  ASSUME NEW s \in Seq(Cell), s # <<>>
  PROVE  BoardCell(s) = Latest(s)
<1> DEFINE best == CHOOSE f : Loop(s, f)
<1>1. Len(s) \in Nat /\ DOMAIN s = 1..Len(s) /\ Len(s) \in 1..Len(s)
  BY EmptySeq, LenProperties
<1>2. Loop(s, LatestSoFar(s))
  <2>1. \A i \in DOMAIN s : LatestSoFar(s)[i] =
          IF i = 1 THEN s[1] ELSE KeepBest(LatestSoFar(s)[i - 1], s[i])
    BY <1>1, LatestStep
  <2>2. LatestSoFar(s) = [i \in DOMAIN s |-> LatestSoFar(s)[i]]
    BY Zenon DEF LatestSoFar
  <2> DEFINE g == LatestSoFar(s)
  <2> HIDE DEF g
  <2>3. g = [i \in DOMAIN s |-> IF i = 1 THEN s[1] ELSE KeepBest(g[i - 1], s[i])]
    BY Zenon, <2>1, <2>2 DEF g
  <2> QED BY <2>3 DEF Loop, g
<1>3. Loop(s, best)
  BY Zenon, <1>2
<1>4. BoardCell(s) = best[Len(s)]
  BY Zenon DEF BoardCell, Loop
<1> HIDE DEF best
<1>5. best[Len(s)] = Latest(SubSeq(s, 1, Len(s)))
  BY <1>1, <1>3, LoopResult DEF LatestSoFar
<1>6. SubSeq(s, 1, Len(s)) = s
  <2>1. \A i \in 1..Len(s) : s[i] \in Cell
    BY ElementOfSeq
  <2>2. /\ SubSeq(s, 1, Len(s)) \in Seq(Cell) /\ Len(SubSeq(s, 1, Len(s))) = Len(s)
        /\ \A i \in 1..Len(s) : SubSeq(s, 1, Len(s))[i] = s[i]
    BY <1>1, <2>1, SubSeqProperties
  <2> QED BY <2>2, SeqEqual
<1> QED BY <1>4, <1>5, <1>6

-----------------------------------------------------------------------------
(* The steps that leave the table alone.                                    *)

LEMMA InitIInv == Init => IInv
  <1> SUFFICES ASSUME Init PROVE IInv
    OBVIOUS
  <1> USE DEF Init, NewRun, NewCall, NoEntry
  <1>1. TypeOK
    BY NullAssumption DEF TypeOK, RunType, CallType
  <1>2. EveryCellHasLatest /\ GoodRuns /\ AuthorsStarted /\ GoodCalls /\ GateHeld
    BY DEF EveryCellHasLatest, HasLatest, GoodRuns, GoodRun, AuthorsStarted, GoodCalls,
           GoodCall, GateHeld
  <1> QED BY <1>1, <1>2 DEF IInv

LEMMA NextWaveGood ==
  ASSUME NEW s \in RunType, GoodRun(s), s.pc # "appending"
  PROVE  LET t == NextWave(s) IN
         t \in RunType /\ GoodRun(t) /\ t.pc \in {"gating", "ended"} /\ t.kind = s.kind
  <1>1. Wave(s.emitted) \subseteq Cols
    BY DEF Wave
  <1> QED BY <1>1 DEF NextWave, RunType, GoodRun

\* Every step of a run but the append of a cell.
LocalStep(r) ==
  \/ \E force \in BOOLEAN : StartRow(r, force)
  \/ \E c \in Cols : Refine(r, c) \/ ListColumn(r, c) \/ Gate(r, c)
  \/ SkipWave(r) \/ Extract(r)
  \/ \E e \in run[r].batch : CheckLock(r, e)
  \/ EndWave(r) \/ GiveUp(r)

LEMMA LocalEffect ==
  ASSUME IInv, NEW r \in Runs, LocalStep(r)
  PROVE  /\ \E s \in RunType :
              /\ run' = [run EXCEPT ![r] = s]
              /\ GoodRun(s) /\ s.pc # "idle"
              /\ run[r].pc # "idle" => s.kind = run[r].kind
         /\ UNCHANGED <<log, call>>
  <1> USE DEF IInv
  <1>1. run[r] \in RunType /\ GoodRun(run[r]) /\ run \in [Runs -> RunType]
    BY DEF TypeOK, GoodRuns
  <1>2. NewRun \in RunType /\ GoodRun(NewRun)
    BY NullAssumption DEF NewRun, NoEntry, RunType, GoodRun
  <1>3. ASSUME NEW force \in BOOLEAN, StartRow(r, force)
        PROVE  \E s \in RunType : run' = [run EXCEPT ![r] = s] /\ GoodRun(s) /\ s.pc # "idle"
    <2> DEFINE forced == [NewRun EXCEPT !.kind = "forced"]
               listing == [NewRun EXCEPT !.pc = "listing", !.todo = Cols]
    <2>1. forced \in RunType /\ GoodRun(forced) /\ forced.pc # "appending"
      BY <1>2 DEF NewRun, NoEntry, RunType, GoodRun
    <2>2. listing \in RunType /\ GoodRun(listing) /\ listing.pc # "idle"
      BY <1>2 DEF NewRun, NoEntry, RunType, GoodRun
    <2> HIDE DEF forced, listing
    <2>3. NextWave(forced) \in RunType /\ GoodRun(NextWave(forced)) /\ NextWave(forced).pc # "idle"
      BY <2>1, NextWaveGood
    <2>4. run' = [run EXCEPT ![r] = IF force THEN NextWave(forced) ELSE listing]
      BY <1>3 DEF StartRow, forced, listing
    <2> QED BY <2>2, <2>3, <2>4
  <1>4. ASSUME NEW c \in Cols, Refine(r, c)
        PROVE  \E s \in RunType : run' = [run EXCEPT ![r] = s] /\ GoodRun(s) /\ s.pc # "idle"
    <2> DEFINE s == [NewRun EXCEPT !.pc = "gating", !.kind = "refine",
                                   !.picked = {c}, !.emitted = Cols]
    <2>1. s \in RunType /\ GoodRun(s) /\ s.pc # "idle"
      BY <1>2 DEF NewRun, NoEntry, RunType, GoodRun
    <2>2. run' = [run EXCEPT ![r] = s]
      BY <1>4 DEF Refine
    <2> HIDE DEF s
    <2> QED BY <2>1, <2>2
  <1>5. ASSUME NEW c \in Cols, ListColumn(r, c)
        PROVE  \E s \in RunType : /\ run' = [run EXCEPT ![r] = s]
                                  /\ GoodRun(s) /\ s.pc # "idle" /\ s.kind = run[r].kind
    <2> DEFINE s == [run[r] EXCEPT !.todo = @ \ {c},
                                   !.existing = IF log[c] = <<>> THEN @ ELSE @ \cup {c}]
    <2>1. s \in RunType /\ GoodRun(s) /\ s.pc = "listing" /\ s.kind = run[r].kind
      BY <1>1, <1>5 DEF ListColumn, RunType, GoodRun
    <2>2. run' = [run EXCEPT ![r] = IF s.todo = {} THEN NextWave(s) ELSE s]
      BY <1>5 DEF ListColumn
    <2> HIDE DEF s
    <2>3. /\ NextWave(s) \in RunType /\ GoodRun(NextWave(s)) /\ NextWave(s).pc # "idle"
          /\ NextWave(s).kind = s.kind
      BY <2>1, NextWaveGood
    <2> QED BY <2>1, <2>2, <2>3
  <1>6. ASSUME NEW c \in Cols, Gate(r, c)
        PROVE  \E s \in RunType : /\ run' = [run EXCEPT ![r] = s]
                                  /\ GoodRun(s) /\ s.pc # "idle" /\ s.kind = run[r].kind
    <2> DEFINE done == [run[r] EXCEPT !.todo = @ \ {c}]
               pick == [run[r] EXCEPT !.todo = @ \ {c}, !.picked = @ \cup {c}]
               skip == [run[r] EXCEPT !.todo = @ \ {c}, !.skipped = @ \cup {c}]
    <2>1. run[r].pc = "gating"
      BY <1>6 DEF Gate
    <2>2. done \in RunType /\ GoodRun(done) /\ done.pc # "idle" /\ done.kind = run[r].kind
      BY <1>1, <2>1 DEF RunType, GoodRun
    <2>3. skip \in RunType /\ GoodRun(skip) /\ skip.pc # "idle" /\ skip.kind = run[r].kind
      BY <1>1, <2>1 DEF RunType, GoodRun
    <2>4. GateOpen(r, c) => Seen(c)
      <3> SUFFICES ASSUME GateOpen(r, c), Parent[c] # NoCol PROVE Seen(c)
        BY DEF Seen
      <3>1. Parent[c] \in Cols /\ ValueOf(Parent[c]) \in Opens[c]
        BY ColumnsAssumption DEF GateOpen
      <3>2. CASE log[Parent[c]] = <<>>
        BY <3>1, <3>2 DEF ValueOf, Seen
      <3>3. CASE log[Parent[c]] # <<>>
        <4>1. log[Parent[c]] \in Seq(Cell)
          BY <3>1 DEF TypeOK
        <4>2. PICK i \in DOMAIN log[Parent[c]] : IsLatest(log[Parent[c]], i)
          BY <3>1, <3>3 DEF EveryCellHasLatest, HasLatest
        <4>3. Latest(log[Parent[c]]) = log[Parent[c]][i]
          BY <4>1, <4>2, LatestIs
        <4> QED BY <3>1, <3>3, <4>2, <4>3 DEF ValueOf, Seen
      <3> QED BY <3>2, <3>3
    <2>5. GateOpen(r, c) => pick \in RunType /\ GoodRun(pick) /\ pick.pc # "idle" /\ pick.kind = run[r].kind
      BY <1>1, <2>1, <2>4 DEF RunType, GoodRun
    <2>6. \/ run' = [run EXCEPT ![r] = done]
          \/ GateOpen(r, c) /\ run' = [run EXCEPT ![r] = pick]
          \/ run' = [run EXCEPT ![r] = skip]
      BY <1>1, <1>6 DEF Gate
    <2> HIDE DEF done, pick, skip
    <2> QED BY <2>2, <2>3, <2>5, <2>6
  <1>7. ASSUME SkipWave(r) \/ EndWave(r)
        PROVE  \E s \in RunType : /\ run' = [run EXCEPT ![r] = s]
                                  /\ GoodRun(s) /\ s.pc # "idle" /\ s.kind = run[r].kind
    <2>1. run[r].pc # "appending" /\ run' = [run EXCEPT ![r] = NextWave(run[r])]
      BY <1>7 DEF SkipWave, EndWave
    <2> QED BY <2>1, <1>1, NextWaveGood
  <1>8. ASSUME Extract(r)
        PROVE  \E s \in RunType : /\ run' = [run EXCEPT ![r] = s]
                                  /\ GoodRun(s) /\ s.pc # "idle" /\ s.kind = run[r].kind
    <2>1. PICK answered \in SUBSET (run[r].picked \ Manual) : \E v \in [answered -> Values] :
            run' = [run EXCEPT ![r].pc = "writing",
                               ![r].batch = {[col |-> c, value |-> v[c]] : c \in answered}]
      BY <1>8 DEF Extract
    <2>2. PICK v \in [answered -> Values] :
            run' = [run EXCEPT ![r].pc = "writing",
                               ![r].batch = {[col |-> c, value |-> v[c]] : c \in answered}]
      BY <2>1
    <2> DEFINE batch == {[col |-> c, value |-> v[c]] : c \in answered}
               s == [run[r] EXCEPT !.pc = "writing", !.batch = batch]
    <2>3. answered \subseteq run[r].picked /\ run[r].picked \subseteq Cols
      BY <1>1 DEF RunType
    <2>4. batch \subseteq [col : Cols, value : Values] /\ \A e \in batch : e.col \in run[r].picked
      BY <2>3
    <2>5. run' = [run EXCEPT ![r] = s]
      BY <1>1, <2>2
    <2> HIDE DEF batch
    <2>6. s \in RunType /\ GoodRun(s) /\ s.pc # "idle" /\ s.kind = run[r].kind
      BY <1>1, <2>4 DEF RunType, GoodRun
    <2> HIDE DEF s
    <2> QED BY <2>5, <2>6
  <1>9. ASSUME NEW e \in run[r].batch, CheckLock(r, e)
        PROVE  \E s \in RunType : /\ run' = [run EXCEPT ![r] = s]
                                  /\ GoodRun(s) /\ s.pc # "idle" /\ s.kind = run[r].kind
    <2> DEFINE drop == [run[r] EXCEPT !.batch = @ \ {e}]
               take == [run[r] EXCEPT !.batch = @ \ {e}, !.pc = "appending", !.next = e]
    <2>1. e \in [col : Cols, value : Values] /\ run[r].pc = "writing" /\ e # NoEntry
      BY <1>1, <1>9, NullAssumption DEF CheckLock, RunType, NoEntry
    <2>2. drop \in RunType /\ GoodRun(drop) /\ drop.pc # "idle" /\ drop.kind = run[r].kind
      BY <1>1, <2>1 DEF RunType, GoodRun
    <2>3. take \in RunType /\ GoodRun(take) /\ take.pc # "idle" /\ take.kind = run[r].kind
      BY <1>1, <2>1 DEF RunType, GoodRun
    <2>4. run' = [run EXCEPT ![r] = drop] \/ run' = [run EXCEPT ![r] = take]
      BY <1>1, <1>9 DEF CheckLock
    <2> HIDE DEF drop, take
    <2> QED BY <2>2, <2>3, <2>4
  <1>10. ASSUME GiveUp(r)
         PROVE  \E s \in RunType : /\ run' = [run EXCEPT ![r] = s]
                                   /\ GoodRun(s) /\ s.pc # "idle" /\ s.kind = run[r].kind
    <2> DEFINE s == [NewRun EXCEPT !.pc = "ended", !.kind = run[r].kind]
    <2>1. s \in RunType /\ GoodRun(s) /\ s.pc # "idle" /\ s.kind = run[r].kind
      BY <1>1, <1>2 DEF NewRun, NoEntry, RunType, GoodRun
    <2>2. run' = [run EXCEPT ![r] = s]
      BY <1>10 DEF GiveUp
    <2> HIDE DEF s
    <2> QED BY <2>1, <2>2
  <1>11. UNCHANGED <<log, call>>
    BY DEF LocalStep, StartRow, Refine, ListColumn, Gate, SkipWave, Extract, CheckLock, EndWave, GiveUp
  <1>12. (\E force \in BOOLEAN : StartRow(r, force)) \/ (\E c \in Cols : Refine(r, c))
           => run[r].pc = "idle"
    BY DEF StartRow, Refine
  <1>13. CASE (\E force \in BOOLEAN : StartRow(r, force)) \/ (\E c \in Cols : Refine(r, c))
    BY <1>13, <1>3, <1>4, <1>11, <1>12
  <1>14. CASE \/ \E c \in Cols : ListColumn(r, c) \/ Gate(r, c)
              \/ SkipWave(r) \/ Extract(r)
              \/ \E e \in run[r].batch : CheckLock(r, e)
              \/ EndWave(r) \/ GiveUp(r)
    BY <1>14, <1>5, <1>6, <1>7, <1>8, <1>9, <1>10, <1>11
  <1> QED BY <1>13, <1>14 DEF LocalStep

-----------------------------------------------------------------------------
(* The steps that append to the table.                                      *)

LEMMA AppendCellEffect ==
  ASSUME IInv, NEW r \in Runs, AppendCell(r)
  PROVE  \E c \in Cols, e \in Cell, s \in RunType :
           /\ log' = [log EXCEPT ![c] = Append(@, e)]
           /\ e.version = 1 /\ e.author = r
           /\ run' = [run EXCEPT ![r] = s]
           /\ GoodRun(s) /\ s.pc = "writing" /\ s.kind = run[r].kind
           /\ c = run[r].next.col
           /\ run[r].pc = "appending"
           /\ run[r].kind # "refine" => Seen(c)
           /\ UNCHANGED call
  <1> DEFINE c == run[r].next.col
             e == [value |-> run[r].next.value, locked |-> FALSE, version |-> 1, author |-> r]
             s == [run[r] EXCEPT !.pc = "writing", !.next = NoEntry]
  <1>1. run[r] \in RunType /\ GoodRun(run[r]) /\ run[r].pc = "appending"
    BY DEF IInv, TypeOK, GoodRuns, AppendCell
  <1>2. run[r].next \in [col : Cols, value : Values] /\ run[r].next # NoEntry
    BY <1>1 DEF RunType, GoodRun
  <1>3. c \in Cols /\ e \in Cell /\ e.version = 1 /\ e.author = r
    BY <1>2 DEF Cell, Authors
  <1>4. s \in RunType /\ GoodRun(s) /\ s.pc = "writing" /\ s.kind = run[r].kind
    BY <1>1 DEF RunType, GoodRun
  <1>5. run[r].kind # "refine" => Seen(c)
    BY <1>1, <1>2 DEF GoodRun
  <1>6. log' = [log EXCEPT ![c] = Append(@, e)] /\ run' = [run EXCEPT ![r] = s] /\ UNCHANGED call
    BY DEF AppendCell
  <1> HIDE DEF e, s
  <1> QED BY <1>1, <1>3, <1>4, <1>5, <1>6

LEMMA WriteEffect ==
  ASSUME IInv, NEW h \in Humans, Write(h)
  PROVE  \E c \in Cols, e \in Cell, x \in CallType :
           /\ log' = [log EXCEPT ![c] = Append(@, e)]
           /\ c = call[h].col
           /\ e.version = call[h].seen + 1 /\ e.author = h
           /\ e.value = call[h].value /\ e.locked = call[h].locked
           /\ call[h].pc = "read"
           /\ call' = [call EXCEPT ![h] = x] /\ x.pc = "ended"
           /\ UNCHANGED run
  <1> DEFINE c == call[h].col
             e == [value |-> call[h].value, locked |-> call[h].locked,
                   version |-> call[h].seen + 1, author |-> h]
             x == [call[h] EXCEPT !.pc = "ended"]
  <1>1. call[h] \in CallType /\ call[h].pc = "read"
    BY DEF IInv, TypeOK, Write
  <1>2. call[h].col \in Cols /\ call[h].value \in Values /\ call[h].seen \in Nat
        /\ call[h].locked \in BOOLEAN
    BY <1>1 DEF IInv, TypeOK, CallType
  <1>3. e \in Cell /\ e.version = call[h].seen + 1
    BY <1>2 DEF Cell, Authors
  <1>4. x \in CallType /\ x.pc = "ended"
    BY <1>1 DEF CallType
  <1>5. log' = [log EXCEPT ![c] = Append(@, e)] /\ call' = [call EXCEPT ![h] = x] /\ UNCHANGED run
    BY DEF Write
  <1>6. e.author = h /\ e.value = call[h].value /\ e.locked = call[h].locked
    OBVIOUS
  <1> HIDE DEF e, x
  <1> QED BY <1>1, <1>2, <1>3, <1>4, <1>5, <1>6

\* What every append keeps, and what it makes of the latest version of its column.
LEMMA Grows ==
  ASSUME TypeOK, EveryCellHasLatest, NEW c \in Cols, NEW e \in Cell,
         log' = [log EXCEPT ![c] = Append(@, e)]
  PROVE  /\ log' \in [Cols -> Seq(Cell)]
         /\ EveryCellHasLatest'
         /\ \A d \in Cols : Seen(d) => Seen(d)'
         /\ \A d \in Cols : d # c => log'[d] = log[d]
         /\ log'[c] # <<>> /\ Len(log'[c]) = Len(log[c]) + 1
         /\ log'[c][Len(log[c]) + 1] = e
         /\ \A i \in DOMAIN log[c] : log'[c][i] = log[c][i]
         /\ DOMAIN log'[c] = DOMAIN log[c] \cup {Len(log[c]) + 1}
         /\ Latest(log'[c]) =
              IF log[c] = <<>> \/ e.version > Latest(log[c]).version THEN e ELSE Latest(log[c])
         /\ log[c] # <<>> => Latest(log[c]).version \in Nat \ {0}
  <1>1. log[c] \in Seq(Cell) /\ log \in [Cols -> Seq(Cell)] /\ HasLatest(log[c])
    BY DEF TypeOK, EveryCellHasLatest
  <1>2. log'[c] = Append(log[c], e) /\ \A d \in Cols : d # c => log'[d] = log[d]
    BY <1>1
  <1>3. log' \in [Cols -> Seq(Cell)]
    BY <1>1
  <1>4. /\ log'[c] # <<>> /\ HasLatest(log'[c])
        /\ Latest(log'[c]) =
             IF log[c] = <<>> \/ e.version > Latest(log[c]).version THEN e ELSE Latest(log[c])
    BY <1>1, <1>2, AppendLatest
  <1>5. EveryCellHasLatest'
    BY <1>2, <1>4 DEF EveryCellHasLatest
  <1>6. /\ Len(log'[c]) = Len(log[c]) + 1
        /\ log'[c][Len(log[c]) + 1] = e
        /\ \A i \in DOMAIN log[c] : log'[c][i] = log[c][i]
        /\ DOMAIN log'[c] = DOMAIN log[c] \cup {Len(log[c]) + 1}
    BY <1>1, <1>2
  <1>7. \A d \in Cols : \A k \in DOMAIN log[d] : k \in DOMAIN log'[d] /\ log'[d][k] = log[d][k]
    BY <1>2, <1>6
  <1>8. \A d \in Cols : Seen(d) => Seen(d)'
    BY <1>7, ColumnsAssumption DEF Seen
  <1>9. log[c] # <<>> => Latest(log[c]).version \in Nat \ {0}
    BY <1>1, LatestType DEF Cell
  <1> QED BY <1>2, <1>3, <1>4, <1>5, <1>6, <1>8, <1>9

LEMMA SeenKept ==
  ASSUME NEW s \in RunType, GoodRun(s), \A d \in Cols : Seen(d) => Seen(d)'
  PROVE  GoodRun(s)'
  BY DEF GoodRun, RunType, NoEntry

-----------------------------------------------------------------------------
(* The inductive invariant, one lemma for each kind of step.                *)

LEMMA LocalIInv == ASSUME IInv, NEW r \in Runs, LocalStep(r) PROVE IInv'
  <1>1. PICK s \in RunType :
          /\ run' = [run EXCEPT ![r] = s]
          /\ GoodRun(s) /\ s.pc # "idle"
          /\ run[r].pc # "idle" => s.kind = run[r].kind
    BY LocalEffect
  <1>2. UNCHANGED <<log, call>>
    BY LocalEffect
  <1>3. run \in [Runs -> RunType] /\ run' \in [Runs -> RunType]
    BY <1>1 DEF IInv, TypeOK
  <1>4. \A q \in Runs : run'[q] = IF q = r THEN s ELSE run[q]
    BY <1>1, <1>3
  <1>5. TypeOK'
    BY <1>1, <1>2, <1>3, <1>4 DEF IInv, TypeOK, GoodRun
  <1>6. EveryCellHasLatest' /\ GoodCalls'
    BY <1>2 DEF IInv, EveryCellHasLatest, GoodCalls, GoodCall
  <1>7. GoodRuns'
    <2>1. \A q \in Runs : run'[q] \in RunType /\ GoodRun(run'[q])
      BY <1>1, <1>3, <1>4 DEF IInv, GoodRuns
    <2>2. \A d \in Cols : Seen(d) => Seen(d)'
      BY <1>2 DEF Seen
    <2>3. ASSUME NEW q \in Runs PROVE GoodRun(run[q])'
      BY <2>1, <2>2 DEF GoodRun, RunType, NoEntry
    <2> QED BY <2>3 DEF GoodRuns
  <1>8. AuthorsStarted'
    BY <1>1, <1>2, <1>4 DEF IInv, AuthorsStarted
  <1>9. GateHeld'
    BY <1>1, <1>2, <1>4 DEF IInv, AuthorsStarted, GateHeld
  <1> QED BY <1>5, <1>6, <1>7, <1>8, <1>9 DEF IInv

LEMMA AppendIInv == ASSUME IInv, NEW r \in Runs, AppendCell(r) PROVE IInv'
  <1>1. PICK c \in Cols, e \in Cell, s \in RunType :
           /\ log' = [log EXCEPT ![c] = Append(@, e)]
           /\ e.version = 1 /\ e.author = r
           /\ run' = [run EXCEPT ![r] = s]
           /\ GoodRun(s) /\ s.pc = "writing" /\ s.kind = run[r].kind
           /\ run[r].kind # "refine" => Seen(c)
           /\ UNCHANGED call
    BY AppendCellEffect
  <1>2. /\ log' \in [Cols -> Seq(Cell)]
        /\ EveryCellHasLatest'
        /\ \A d \in Cols : Seen(d) => Seen(d)'
        /\ \A d \in Cols : d # c => log'[d] = log[d]
        /\ log'[c] # <<>> /\ Len(log'[c]) = Len(log[c]) + 1
        /\ log'[c][Len(log[c]) + 1] = e
        /\ \A i \in DOMAIN log[c] : log'[c][i] = log[c][i]
        /\ DOMAIN log'[c] = DOMAIN log[c] \cup {Len(log[c]) + 1}
        /\ Latest(log'[c]) =
             IF log[c] = <<>> \/ e.version > Latest(log[c]).version THEN e ELSE Latest(log[c])
        /\ log[c] # <<>> => Latest(log[c]).version \in Nat \ {0}
    BY <1>1, Grows DEF IInv
  <1>3. run \in [Runs -> RunType] /\ run' \in [Runs -> RunType]
    BY <1>1 DEF IInv, TypeOK
  <1>4. \A q \in Runs : run'[q] = IF q = r THEN s ELSE run[q]
    BY <1>1, <1>3
  <1>5. TypeOK'
    BY <1>1, <1>2, <1>3, <1>4 DEF IInv, TypeOK
  <1>6. GoodRuns'
    BY <1>1, <1>2, <1>3, <1>4, SeenKept DEF IInv, GoodRuns
  <1>7. AuthorsStarted'
    BY <1>1, <1>2, <1>4 DEF IInv, AuthorsStarted
  <1>8. GoodCalls'
    <2> SUFFICES ASSUME NEW h \in Humans PROVE GoodCall(h, call[h])'
      BY DEF GoodCalls
    <2>1. GoodCall(h, call[h]) /\ call' = call /\ call[h] \in CallType
      BY <1>1 DEF IInv, GoodCalls, TypeOK
    <2>2. CASE call[h].pc # "read"
      BY <2>1, <2>2 DEF GoodCall
    <2>3. CASE call[h].pc = "read" /\ call[h].col # c
      <3>1. log'[call[h].col] = log[call[h].col]
        BY <1>2, <2>1, <2>3 DEF IInv, TypeOK, CallType
      <3> QED BY <2>1, <3>1 DEF GoodCall
    <2>4. CASE call[h].pc = "read" /\ call[h].col = c
      <3>1. call[h].seen \in Nat /\ call[h].base \in Nat /\ Len(log[c]) \in Nat
        BY <2>1 DEF CallType, IInv, TypeOK
      <3>2. call[h].base <= Len(log'[c]) /\ (h \in Lockers => call[h].seen > 0)
        BY <1>2, <2>1, <2>4, <3>1 DEF GoodCall
      <3>3. ASSUME call[h].seen > 0
            PROVE  Latest(log'[c]) = Latest(log[c]) /\ log[c] # <<>>
        BY <1>1, <1>2, <2>1, <2>4, <3>1, <3>3 DEF GoodCall
      <3>4. (\A i \in call[h].base + 1 .. Len(log'[c]) : log'[c][i].author \in Runs)
              => \A i \in call[h].base + 1 .. Len(log[c]) : log[c][i].author \in Runs
        <4>1. \A i \in call[h].base + 1 .. Len(log[c]) :
                 i \in call[h].base + 1 .. Len(log'[c]) /\ log'[c][i] = log[c][i]
          <5>1. log[c] \in Seq(Cell)
            BY DEF IInv, TypeOK
          <5> QED BY <1>2, <3>1, <5>1
        <4> QED BY <4>1
      <3> QED BY <1>2, <2>1, <2>4, <3>2, <3>3, <3>4 DEF GoodCall
    <2> QED BY <2>2, <2>3, <2>4
  <1>9. GateHeld'
    <2> SUFFICES ASSUME NEW d \in Cols, NEW i \in DOMAIN log'[d], Parent[d] # NoCol,
                        log'[d][i].author \in Runs, run'[log'[d][i].author].kind # "refine"
                 PROVE  Seen(d)'
      BY DEF GateHeld, Seen
    <2>1. CASE i \in DOMAIN log[d]
      <3>1. log'[d][i] = log[d][i]
        BY <1>2, <2>1
      <3>2. Seen(d)
        BY <1>1, <1>4, <2>1, <3>1 DEF IInv, GateHeld, Seen
      <3> QED BY <3>2, <1>2
    <2>2. CASE i \notin DOMAIN log[d]
      <3>1. d = c /\ log'[d][i] = e
        BY <1>2, <2>2
      <3> QED BY <1>1, <1>2, <1>4, <3>1
    <2> QED BY <2>1, <2>2
  <1> QED BY <1>2, <1>5, <1>6, <1>7, <1>8, <1>9 DEF IInv

LEMMA ReadIInv ==
  ASSUME IInv, NEW h \in Humans, NEW c \in Cols, NEW lock \in BOOLEAN,
         \/ h \in Setters /\ \E v \in Values : ReadToSet(h, c, v, lock)
         \/ h \in Lockers /\ ReadToLock(h, c, lock)
  PROVE  IInv'
  <1>1. /\ log[c] \in Seq(Cell) /\ HasLatest(log[c]) /\ Len(log[c]) \in Nat
        /\ call \in [Humans -> CallType] /\ UNCHANGED <<log, run>>
    <2>1. log[c] \in Seq(Cell) /\ HasLatest(log[c]) /\ call \in [Humans -> CallType]
      BY DEF IInv, TypeOK, EveryCellHasLatest
    <2>2. UNCHANGED <<log, run>>
      BY DEF ReadToSet, ReadToLock
    <2>3. Len(log[c]) \in Nat
      BY <2>1
    <2> QED BY <2>1, <2>2, <2>3
  <1>2. log[c] # <<>> => Latest(log[c]) \in Cell
    BY <1>1, LatestType
  <1>3. PICK x \in CallType :
          /\ call' = [call EXCEPT ![h] = x] /\ x.pc = "read"
          /\ x.col = c /\ x.value \in Values /\ x.base = Len(log[c])
          /\ \/ h \notin Lockers /\ x.seen = 0
             \/ /\ log[c] # <<>> /\ x.seen = Latest(log[c]).version
                /\ h \in Lockers => x.value = Latest(log[c]).value
    <2>1. CASE h \in Setters /\ \E v \in Values : ReadToSet(h, c, v, lock)
      <3>1. PICK v \in Values : ReadToSet(h, c, v, lock)
        BY <2>1
      <3>2. PICK failed \in {FALSE} \cup {f \in {TRUE} : "read" \in Faults} :
              call' = [call EXCEPT ![h] =
                [pc |-> "read", col |-> c, value |-> v, locked |-> lock, base |-> Len(log[c]),
                 seen |-> IF failed \/ log[c] = <<>> THEN 0 ELSE Latest(log[c]).version]]
        BY <3>1 DEF ReadToSet
      <3> DEFINE x == [pc |-> "read", col |-> c, value |-> v, locked |-> lock,
                       base |-> Len(log[c]),
                       seen |-> IF failed \/ log[c] = <<>> THEN 0 ELSE Latest(log[c]).version]
      <3>3. x.seen = 0 \/ (log[c] # <<>> /\ x.seen = Latest(log[c]).version /\ x.seen \in Nat)
        BY <1>2 DEF Cell
      <3>4. x \in CallType
        BY <1>1, <3>3 DEF CallType
      <3>5. h \notin Lockers
        BY <2>1, AuthorsAssumption
      <3> QED BY <3>2, <3>3, <3>4, <3>5
    <2>2. CASE h \in Lockers /\ ReadToLock(h, c, lock)
      <3> DEFINE x == [pc |-> "read", col |-> c, value |-> Latest(log[c]).value, locked |-> lock,
                       base |-> Len(log[c]), seen |-> Latest(log[c]).version]
      <3>1. log[c] # <<>> /\ call' = [call EXCEPT ![h] = x]
        BY <2>2 DEF ReadToLock
      <3>2. Latest(log[c]).value \in Values /\ Latest(log[c]).version \in Nat
        BY <1>2, <3>1 DEF Cell
      <3>3. x \in CallType
        BY <1>1, <3>2 DEF CallType
      <3> QED BY <3>1, <3>2, <3>3
    <2> QED BY <2>1, <2>2
  <1>4. \A g \in Humans : call'[g] = IF g = h THEN x ELSE call[g]
    BY <1>1, <1>3
  <1>5. TypeOK'
    BY <1>1, <1>3, <1>4, NullAssumption DEF IInv, TypeOK
  <1>6. EveryCellHasLatest' /\ GoodRuns' /\ AuthorsStarted' /\ GateHeld'
    BY <1>1 DEF IInv, EveryCellHasLatest, GoodRuns, GoodRun, Seen, AuthorsStarted, GateHeld
  <1>7. GoodCall(h, x)'
    <2>1. x.base + 1 > Len(log[c]) /\ x.seen \in Nat
      BY <1>1, <1>3 DEF CallType
    <2>2. h \in Lockers => x.seen > 0
      BY <1>2, <1>3, <2>1 DEF Cell
    <2> QED BY <1>1, <1>2, <1>3, <2>1, <2>2 DEF GoodCall, Cell
  <1>8. GoodCalls'
    BY <1>1, <1>4, <1>7 DEF IInv, GoodCalls, GoodCall
  <1> QED BY <1>5, <1>6, <1>8 DEF IInv

LEMMA WriteIInv == ASSUME IInv, NEW h \in Humans, Write(h) PROVE IInv'
  <1>1. PICK c \in Cols, e \in Cell, x \in CallType :
           /\ log' = [log EXCEPT ![c] = Append(@, e)]
           /\ c = call[h].col
           /\ e.version = call[h].seen + 1 /\ e.author = h
           /\ call[h].pc = "read"
           /\ call' = [call EXCEPT ![h] = x] /\ x.pc = "ended"
           /\ UNCHANGED run
    BY WriteEffect
  <1>2. /\ log' \in [Cols -> Seq(Cell)]
        /\ EveryCellHasLatest'
        /\ \A d \in Cols : Seen(d) => Seen(d)'
        /\ \A d \in Cols : d # c => log'[d] = log[d]
        /\ log'[c] # <<>> /\ Len(log'[c]) = Len(log[c]) + 1
        /\ log'[c][Len(log[c]) + 1] = e
        /\ \A i \in DOMAIN log[c] : log'[c][i] = log[c][i]
        /\ DOMAIN log'[c] = DOMAIN log[c] \cup {Len(log[c]) + 1}
        /\ Latest(log'[c]) =
             IF log[c] = <<>> \/ e.version > Latest(log[c]).version THEN e ELSE Latest(log[c])
        /\ log[c] # <<>> => Latest(log[c]).version \in Nat \ {0}
    BY <1>1, Grows DEF IInv
  <1>3. /\ call \in [Humans -> CallType] /\ call' \in [Humans -> CallType]
        /\ \A g \in Humans : call'[g] = IF g = h THEN x ELSE call[g]
        /\ Len(log[c]) \in Nat /\ e.version \in Nat /\ e.author \notin Runs
    BY <1>1, AuthorsAssumption DEF IInv, TypeOK, Cell
  <1>4. TypeOK'
    BY <1>1, <1>2, <1>3 DEF IInv, TypeOK
  <1>5. GoodRuns'
    BY <1>1, <1>2, SeenKept DEF IInv, GoodRuns, TypeOK
  <1>6. AuthorsStarted'
    BY <1>1, <1>2, <1>3 DEF IInv, AuthorsStarted
  <1>7. GoodCalls'
    <2> SUFFICES ASSUME NEW g \in Humans, g # h, call[g].pc = "read" PROVE GoodCall(g, call[g])'
      BY <1>1, <1>3 DEF GoodCalls, GoodCall
    <2>1. GoodCall(g, call[g]) /\ call'[g] = call[g] /\ call[g] \in CallType
      BY <1>3 DEF IInv, GoodCalls
    <2>2. CASE call[g].col # c
      <3>1. call[g].col \in Cols
        BY <2>1 DEF IInv, TypeOK, CallType
      <3>2. log'[call[g].col] = log[call[g].col]
        BY <1>2, <2>2, <3>1
      <3> QED BY <2>1, <3>2 DEF GoodCall
    <2>3. CASE call[g].col = c
      <3>1. call[g].seen \in Nat /\ call[g].base \in Nat
        BY <2>1 DEF CallType
      <3>2. call[g].base <= Len(log[c]) /\ (g \in Lockers => call[g].seen > 0)
        BY <2>1, <2>3 DEF GoodCall
      <3>3. ~(\A i \in call[g].base + 1 .. Len(log'[c]) : log'[c][i].author \in Runs)
        <4>1. Len(log[c]) + 1 \in call[g].base + 1 .. Len(log'[c])
          BY <1>2, <1>3, <3>1, <3>2
        <4> QED BY <1>2, <1>3, <4>1
      <3>4. ASSUME call[g].seen > 0
            PROVE  /\ call[g].seen <= Latest(log'[c]).version
                   /\ g \in Lockers /\ Latest(log'[c]).version = call[g].seen
                        => Latest(log'[c]).value = call[g].value
        <4>1. /\ log[c] # <<>> /\ call[g].seen <= Latest(log[c]).version
              /\ g \in Lockers /\ Latest(log[c]).version = call[g].seen
                   => Latest(log[c]).value = call[g].value
          BY <2>1, <2>3, <3>4 DEF GoodCall
        <4>2. CASE e.version > Latest(log[c]).version
          BY <1>2, <1>3, <3>1, <4>1, <4>2
        <4>3. CASE ~(e.version > Latest(log[c]).version)
          BY <1>2, <4>1, <4>3
        <4> QED BY <4>2, <4>3
      <3>5. call[g].base <= Len(log'[c])
        BY <1>2, <1>3, <3>1, <3>2
      <3> QED BY <1>2, <2>1, <2>3, <3>2, <3>3, <3>4, <3>5 DEF GoodCall
    <2> QED BY <2>2, <2>3
  <1>8. GateHeld'
    <2> SUFFICES ASSUME NEW d \in Cols, NEW i \in DOMAIN log'[d], Parent[d] # NoCol,
                        log'[d][i].author \in Runs, run'[log'[d][i].author].kind # "refine"
                 PROVE  Seen(d)'
      BY DEF GateHeld, Seen
    <2>1. i \in DOMAIN log[d] /\ log'[d][i] = log[d][i]
      BY SMTT(30), <1>1, <1>2, <1>3
    <2>2. Seen(d)
      BY <1>1, <2>1 DEF IInv, GateHeld, Seen
    <2> QED BY <2>2, <1>2
  <1> QED BY <1>2, <1>4, <1>5, <1>6, <1>7, <1>8 DEF IInv

\* Every step is a local step of a run, an append by a run, a read or a write by a
\* reviewer, or a stutter.
LEMMA StepKinds ==
  ASSUME [Next]_vars
  PROVE  \/ \E r \in Runs : LocalStep(r)
         \/ \E r \in Runs : AppendCell(r)
         \/ \E h \in Humans, c \in Cols, lock \in BOOLEAN :
              \/ h \in Setters /\ \E v \in Values : ReadToSet(h, c, v, lock)
              \/ h \in Lockers /\ ReadToLock(h, c, lock)
         \/ \E h \in Humans : Write(h)
         \/ UNCHANGED vars
  <1>1. ASSUME NEW r \in Runs, RunStep(r) PROVE LocalStep(r) \/ AppendCell(r)
    BY <1>1 DEF RunStep, LocalStep
  <1>2. ASSUME NEW h \in Humans, CallStep(h)
        PROVE  \/ \E c \in Cols, lock \in BOOLEAN :
                    \/ h \in Setters /\ \E v \in Values : ReadToSet(h, c, v, lock)
                    \/ h \in Lockers /\ ReadToLock(h, c, lock)
               \/ Write(h)
    BY <1>2 DEF CallStep
  <1> QED BY <1>1, <1>2 DEF Next

LEMMA NextIInv == IInv /\ [Next]_vars => IInv'
  <1> SUFFICES ASSUME IInv, [Next]_vars PROVE IInv'
    OBVIOUS
  <1>1. CASE UNCHANGED vars
    BY <1>1 DEF vars, IInv, TypeOK, EveryCellHasLatest, GoodRuns, GoodRun, Seen, AuthorsStarted,
                GoodCalls, GoodCall, GateHeld
  <1> QED BY <1>1, StepKinds, LocalIInv, AppendIInv, ReadIInv, WriteIInv

LEMMA SpecIInv == Spec => []IInv
  BY InitIInv, NextIInv, PTL DEF Spec

-----------------------------------------------------------------------------
\* The type invariant, for any columns and any number of runs and calls.
THEOREM TypeCorrect == Spec => []TypeOK
  BY SpecIInv, PTL DEF IInv

\* fanout.rs 318-345: what a row extraction fills in went through its gate.
THEOREM GateHeldHolds == Spec => []GateHeld
  BY SpecIInv, PTL DEF IInv

\* What a step makes of the version a cell shows.
LEMMA ShownStep ==
  ASSUME IInv, [Next]_vars, NEW c \in Cols, log'[c] # log[c]
  PROVE  \/ \E r \in Runs, v \in Values :
              /\ log'[c] # <<>>
              /\ IF log[c] = <<>>
                   THEN /\ Latest(log'[c]).value = v /\ ~Latest(log'[c]).locked
                        /\ Latest(log'[c]).locked \in BOOLEAN
                        /\ Latest(log'[c]).author = r
                   ELSE Latest(log'[c]) = Latest(log[c])
              /\ log' = [log EXCEPT ![c] = log'[c]]
         \/ \E h \in Humans :
              /\ Write(h) /\ call[h].col = c
              /\ log'[c] # <<>>
              /\ log' = [log EXCEPT ![c] = log'[c]]
              /\ \/ log[c] # <<>> /\ Latest(log'[c]) = Latest(log[c])
                 \/ /\ Latest(log'[c]) \in Cell
                    /\ Latest(log'[c]).author = h
                    /\ Latest(log'[c]).value = call[h].value
                    /\ h \in Lockers =>
                         log[c] # <<>> /\ Latest(log'[c]).value = Latest(log[c]).value
  <1>1. CASE UNCHANGED log
    BY <1>1
  <1>2. ASSUME NEW r \in Runs, AppendCell(r)
        PROVE  \E v \in Values :
                 /\ log'[c] # <<>>
                 /\ IF log[c] = <<>>
                      THEN /\ Latest(log'[c]).value = v /\ ~Latest(log'[c]).locked
                           /\ Latest(log'[c]).locked \in BOOLEAN
                           /\ Latest(log'[c]).author = r
                      ELSE Latest(log'[c]) = Latest(log[c])
                 /\ log' = [log EXCEPT ![c] = log'[c]]
    <2> DEFINE e == [value |-> run[r].next.value, locked |-> FALSE, version |-> 1, author |-> r]
    <2>1. run[r].next.col = c /\ log' = [log EXCEPT ![c] = Append(@, e)] /\ log \in [Cols -> Seq(Cell)]
      <3>1. log' = [log EXCEPT ![run[r].next.col] = Append(@, e)]
        BY <1>2 DEF AppendCell
      <3>2. run[r].next.col \in Cols
        BY <1>2, AppendCellEffect
      <3> QED BY <3>1, <3>2 DEF IInv, TypeOK
    <2>2. e \in Cell /\ e.value \in Values
      <3>1. run[r] \in RunType /\ run[r].pc = "appending" /\ run[r].next # NoEntry
        BY <1>2 DEF AppendCell, IInv, TypeOK
      <3> QED BY <3>1 DEF RunType, Cell, Authors
    <2>3. e.version = 1 /\ e.author = r /\ e.locked = FALSE
      OBVIOUS
    <2> HIDE DEF e
    <2>4. /\ log'[c] # <<>>
          /\ Latest(log'[c]) =
               IF log[c] = <<>> \/ e.version > Latest(log[c]).version THEN e ELSE Latest(log[c])
          /\ log[c] # <<>> => Latest(log[c]).version \in Nat \ {0}
      BY <2>1, <2>2, Grows DEF IInv
    <2>5. log' = [log EXCEPT ![c] = log'[c]]
      BY <2>1
    <2>6. CASE log[c] = <<>>
      <3>1. Latest(log'[c]) = e
        BY <2>4, <2>6
      <3> QED BY <2>2, <2>3, <2>4, <2>5, <2>6, <3>1
    <2>7. CASE log[c] # <<>>
      <3>1. Latest(log'[c]) = Latest(log[c])
        BY <2>3, <2>4, <2>7
      <3> QED BY <2>2, <2>4, <2>5, <2>7, <3>1
    <2> QED BY <2>6, <2>7
  <1>3. ASSUME NEW h \in Humans, Write(h)
        PROVE  /\ call[h].col = c
               /\ log'[c] # <<>>
               /\ log' = [log EXCEPT ![c] = log'[c]]
               /\ \/ log[c] # <<>> /\ Latest(log'[c]) = Latest(log[c])
                  \/ /\ Latest(log'[c]) \in Cell
                     /\ Latest(log'[c]).author = h
                     /\ Latest(log'[c]).value = call[h].value
                     /\ h \in Lockers =>
                          log[c] # <<>> /\ Latest(log'[c]).value = Latest(log[c]).value
    <2>1. PICK d \in Cols, e \in Cell :
             /\ log' = [log EXCEPT ![d] = Append(@, e)]
             /\ d = call[h].col
             /\ e.version = call[h].seen + 1 /\ e.author = h
             /\ e.value = call[h].value
             /\ call[h].pc = "read"
      BY <1>3, WriteEffect
    <2>2. d = c /\ log \in [Cols -> Seq(Cell)]
      BY <2>1 DEF IInv, TypeOK
    <2>3. /\ log'[c] # <<>>
          /\ Latest(log'[c]) =
               IF log[c] = <<>> \/ e.version > Latest(log[c]).version THEN e ELSE Latest(log[c])
          /\ log[c] # <<>> => Latest(log[c]).version \in Nat \ {0}
      BY <2>1, <2>2, Grows DEF IInv
    <2>4. log' = [log EXCEPT ![c] = log'[c]]
      BY <2>1, <2>2
    <2>5. GoodCall(h, call[h]) /\ call[h] \in CallType
      BY DEF IInv, TypeOK, GoodCalls
    <2>6. ASSUME h \in Lockers, Latest(log'[c]) = e, log[c] = <<>> \/ e.version > Latest(log[c]).version
          PROVE  log[c] # <<>> /\ Latest(log'[c]).value = Latest(log[c]).value
      <3>1. call[h].seen \in Nat /\ call[h].seen > 0
        BY <2>1, <2>5, <2>6 DEF GoodCall, CallType
      <3>2. log[c] # <<>> /\ call[h].seen <= Latest(log[c]).version
        BY <2>1, <2>2, <2>5, <3>1 DEF GoodCall
      <3>3. Latest(log[c]).version = call[h].seen
        BY <2>1, <2>3, <2>6, <3>1, <3>2
      <3> QED BY <2>1, <2>2, <2>5, <2>6, <3>1, <3>2, <3>3 DEF GoodCall
    <2> QED BY <2>1, <2>2, <2>3, <2>4, <2>6
  <1>4. ASSUME NEW r \in Runs, LocalStep(r) PROVE UNCHANGED log
    BY <1>4, LocalEffect
  <1>5. ASSUME NEW h \in Humans, NEW d \in Cols, NEW lock \in BOOLEAN,
               \/ h \in Setters /\ \E v \in Values : ReadToSet(h, d, v, lock)
               \/ h \in Lockers /\ ReadToLock(h, d, lock)
        PROVE  UNCHANGED log
    BY <1>5 DEF ReadToSet, ReadToLock
  <1> QED BY <1>1, <1>2, <1>3, <1>4, <1>5, StepKinds DEF vars

\* lock.rs 3-7: only a human changes what a locked cell shows.
THEOREM LockedStaysHolds == Spec => LockedStays
  <1>1. IInv /\ [Next]_vars =>
          [\A c \in Cols : Locked(c) /\ log'[c] # log[c] =>
             Latest(log'[c]) = Latest(log[c]) \/ Latest(log'[c]).author \in Humans]_vars
    BY ShownStep DEF Locked
  <1> QED BY <1>1, SpecIInv, PTL DEF Spec, LockedStays

\* lib.rs 3917-3946: an override that raced no other human is what the cell shows.
THEOREM OverrideWinsHolds == Spec => OverrideWins
  <1>1. ASSUME IInv, [Next]_vars, NEW h \in Humans,
               call[h].pc = "read", call'[h].pc = "ended", call[h].seen > 0,
               \A i \in call[h].base + 1 .. Len(log[call[h].col]) :
                  log[call[h].col][i].author \in Runs
        PROVE  Latest(log'[call[h].col]).author = h
    <2>1. Write(h)
      <3>1. call' # call
        BY <1>1
      <3>2. \A g \in Humans : Write(g) => g = h
        <4>1. \A g \in Humans : Write(g) /\ g # h => call'[h] = call[h]
          BY DEF Write, IInv, TypeOK
        <4> QED BY <4>1, <1>1
      <3>3. ASSUME NEW g \in Humans, NEW d \in Cols, NEW lock \in BOOLEAN,
                   \/ g \in Setters /\ \E v \in Values : ReadToSet(g, d, v, lock)
                   \/ g \in Lockers /\ ReadToLock(g, d, lock)
            PROVE  FALSE
        <4>1. call[g].pc = "idle"
          BY <3>3 DEF ReadToSet, ReadToLock
        <4>2. g # h
          BY <4>1, <1>1
        <4>3. call \in [Humans -> CallType]
          BY <1>1 DEF IInv, TypeOK
        <4>4. call'[h] = call[h]
          BY <3>3, <4>2, <4>3 DEF ReadToSet, ReadToLock
        <4> QED BY <4>4, <1>1
      <3>4. ASSUME NEW r \in Runs, LocalStep(r) \/ AppendCell(r) PROVE call' = call
        <4>1. CASE LocalStep(r)
          BY <1>1, <4>1, LocalEffect
        <4>2. CASE AppendCell(r)
          BY <4>2 DEF AppendCell
        <4> QED BY <3>4, <4>1, <4>2
      <3> QED BY <1>1, <3>1, <3>2, <3>3, <3>4, StepKinds DEF vars
    <2>2. PICK c \in Cols, e \in Cell :
             /\ log' = [log EXCEPT ![c] = Append(@, e)]
             /\ c = call[h].col
             /\ e.version = call[h].seen + 1 /\ e.author = h
      BY <2>1, <1>1, WriteEffect
    <2>3. Latest(log'[c]) =
            IF log[c] = <<>> \/ e.version > Latest(log[c]).version THEN e ELSE Latest(log[c])
      BY ZenonT(60), <1>1, <2>2, Grows DEF IInv
    <2>4. Latest(log[c]).version = call[h].seen /\ call[h].seen \in Nat
      BY <1>1, <2>2 DEF IInv, GoodCalls, GoodCall, TypeOK, CallType
    <2> QED BY <2>2, <2>3, <2>4
  <1>2. IInv /\ [Next]_vars =>
          [\A h \in Humans :
             LET c == call[h].col IN
             /\ call[h].pc = "read" /\ call'[h].pc = "ended" /\ call[h].seen > 0
             /\ \A i \in call[h].base + 1 .. Len(log[c]) : log[c][i].author \in Runs
             => Latest(log'[c]).author = h]_vars
    BY <1>1
  <1> QED BY <1>2, SpecIInv, PTL DEF Spec, OverrideWins

\* The refinement mapping, named.
Shown ==
  [c \in Cols |->
    IF log[c] = <<>> THEN NoCell
      ELSE [value |-> Latest(log[c]).value, locked |-> Latest(log[c]).locked,
            author |-> Latest(log[c]).author]]

\* Every step is a step of the board or leaves what is shown as it was.
LEMMA BoardStep == IInv /\ [Next]_vars => [Board!Next]_Shown
  <1> SUFFICES ASSUME IInv, [Next]_vars, Shown' # Shown PROVE Board!Next
    OBVIOUS
  <1>1. PICK c \in Cols : log'[c] # log[c]
    BY DEF Shown
  <1>2. log \in [Cols -> Seq(Cell)] /\ EveryCellHasLatest
    BY DEF IInv, TypeOK
  <1>3. log[c] # <<>> => Shown[c] = [value |-> Latest(log[c]).value,
            locked |-> Latest(log[c]).locked, author |-> Latest(log[c]).author]
    BY DEF Shown
  <1>4. log[c] = <<>> => Shown[c] = NoCell
    BY DEF Shown
  <1>5. ASSUME log[c] # <<>> PROVE Shown[c] # NoCell
    <2>1. Latest(log[c]) \in Cell
      BY <1>2, <1>5, LatestType DEF EveryCellHasLatest
    <2>2. Shown[c] \in [value : Values, locked : BOOLEAN, author : Authors]
      BY <1>3, <1>5, <2>1 DEF Cell
    <2> QED BY <2>2, NullAssumption
  <1>6. ASSUME log'[c] # <<>>, log' = [log EXCEPT ![c] = log'[c]]
        PROVE  Shown' = [Shown EXCEPT ![c] =
                 [value |-> Latest(log'[c]).value, locked |-> Latest(log'[c]).locked,
                  author |-> Latest(log'[c]).author]]
    <2>1. \A d \in Cols : d # c => log'[d] = log[d]
      BY <1>2, <1>6
    <2>2. \A d \in Cols : d # c => Shown'[d] = Shown[d]
      BY <2>1 DEF Shown
    <2>3. Shown'[c] = [value |-> Latest(log'[c]).value, locked |-> Latest(log'[c]).locked,
                       author |-> Latest(log'[c]).author]
      BY <1>6 DEF Shown
    <2> QED BY <2>2, <2>3 DEF Shown
  <1>7. ASSUME NEW r \in Runs, NEW v \in Values, log'[c] # <<>>,
               IF log[c] = <<>>
                 THEN /\ Latest(log'[c]).value = v /\ ~Latest(log'[c]).locked
                      /\ Latest(log'[c]).locked \in BOOLEAN
                      /\ Latest(log'[c]).author = r
                 ELSE Latest(log'[c]) = Latest(log[c]),
               log' = [log EXCEPT ![c] = log'[c]]
        PROVE  Board!Next
    <2>1. CASE log[c] = <<>>
      <3>1. Board!Fill(c, v, r)
        BY <1>4, <1>6, <1>7, <2>1 DEF Board!Fill, Board!Version, Shown
      <3> QED BY <3>1 DEF Board!Next
    <2>2. CASE log[c] # <<>>
      <3>1. Shown' = [Shown EXCEPT ![c] = Shown[c]]
        BY <1>3, <1>6, <1>7, <2>2
      <3> QED BY <3>1 DEF Shown
    <2> QED BY <2>1, <2>2
  <1>8. ASSUME NEW h \in Humans, log'[c] # <<>>, log' = [log EXCEPT ![c] = log'[c]],
               \/ log[c] # <<>> /\ Latest(log'[c]) = Latest(log[c])
               \/ /\ Latest(log'[c]) \in Cell
                  /\ Latest(log'[c]).author = h
                  /\ h \in Lockers =>
                       log[c] # <<>> /\ Latest(log'[c]).value = Latest(log[c]).value
        PROVE  Board!Next
    <2>1. CASE log[c] # <<>> /\ Latest(log'[c]) = Latest(log[c])
      <3>1. Shown' = [Shown EXCEPT ![c] = Shown[c]]
        BY <1>3, <1>6, <1>8, <2>1
      <3> QED BY <3>1 DEF Shown
    <2>2. CASE /\ Latest(log'[c]) \in Cell
               /\ Latest(log'[c]).author = h
               /\ h \in Lockers =>
                    log[c] # <<>> /\ Latest(log'[c]).value = Latest(log[c]).value
      <3>1. Latest(log'[c]).locked \in BOOLEAN /\ Latest(log'[c]).value \in Values
        BY <2>2 DEF Cell
      <3>2. CASE h \in Lockers
        <4>1. Board!SetLock(c, Latest(log'[c]).locked, h)
          BY <1>3, <1>5, <1>6, <1>8, <2>2, <3>2 DEF Board!SetLock, Board!Version, Shown
        <4> QED BY <4>1, <3>1, <3>2 DEF Board!Next
      <3>3. CASE h \in Setters
        <4>1. Board!Override(c, Latest(log'[c]).value, Latest(log'[c]).locked, h)
          BY <1>6, <1>8, <2>2 DEF Board!Override, Board!Version, Shown
        <4> QED BY <4>1, <3>1, <3>3 DEF Board!Next
      <3> QED BY <3>2, <3>3 DEF Humans
    <2> QED BY <1>8, <2>1, <2>2
  <1> QED BY <1>1, <1>7, <1>8, ShownStep

LEMMA BoardInit == Init => Board!Init
  BY DEF Init, Board!Init

\* What is shown follows ReviewBoard, for any number of runs and reviewers.
THEOREM BoardRefinedHolds == Spec => BoardRefined
  <1>1. IInv /\ [Next]_vars => [Board!Next]_Shown
    BY BoardStep
  <1> QED BY <1>1, BoardInit, SpecIInv, PTL DEF Spec, BoardRefined, Board!Spec, Shown

\* latest(), which sorts the versions, and all_for_review_latest(), which goes through
\* them once, show the same version of every cell (cells.rs 287-366).
THEOREM ReadersAgreeHolds == Spec => []ReadersAgree
<1>1. TypeOK => ReadersAgree
  <2>1. ASSUME TypeOK, NEW c \in Cols PROVE log[c] \in Seq(Cell)
    BY <2>1 DEF TypeOK
  <2> QED BY <2>1, BoardIsLatest DEF ReadersAgree
<1> QED BY <1>1, TypeCorrect, PTL
-----------------------------------------------------------------------------
(* Extractions come to an end.                                              *)

Answered(s) == {e.col : e \in s.batch}
Width == Cardinality(Cols)
WaveSteps == 3 * Width + 3

\* The LLM's answer has a column once.
OneAnswer(s) == \A e, f \in s.batch : e.col = f.col => e = f
OneAnswers == \A r \in Runs : OneAnswer(run[r])

InWave == {"gating", "writing", "appending"}

LEMMA Smaller ==
  ASSUME NEW S, IsFiniteSet(S), NEW T \in SUBSET S
  PROVE  /\ IsFiniteSet(T) /\ Cardinality(T) \in Nat /\ Cardinality(S) \in Nat
         /\ Cardinality(T) <= Cardinality(S)
         /\ T # S => Cardinality(T) < Cardinality(S)
BY FS_Subset, FS_CardinalityType

LEMMA MulNat == \A x, y \in Nat : x * y \in Nat
OBVIOUS

LEMMA MulLess ==
  ASSUME NEW a \in Nat, NEW b \in Nat, a < b, NEW k \in Nat
  PROVE  /\ a * k \in Nat /\ b * k \in Nat
         /\ a * k + k <= b * k
<1>1. b - (a + 1) \in Nat
  OBVIOUS
<1>2. \A x, y \in Nat : x * y \in Nat
  BY MulNat
<1> DEFINE d == b - (a + 1)
<1>3. b * k = (a + 1 + d) * k
  OBVIOUS
<1> HIDE DEF d
<1>4. (a + 1 + d) * k = a * k + k + d * k
  BY <1>1 DEF d
<1>5. d * k \in Nat
  BY <1>1, <1>2 DEF d
<1>6. a * k \in Nat /\ b * k \in Nat
  BY <1>2
<1> QED BY <1>3, <1>4, <1>5, <1>6

LEMMA WidthNat == IsFiniteSet(Cols) => Width \in Nat /\ WaveSteps \in Nat
BY FS_CardinalityType DEF Width, WaveSteps

LEMMA LeftParts ==
  ASSUME IsFiniteSet(Cols), NEW s \in RunType
  PROVE  /\ Cardinality(s.todo) \in Nat /\ Cardinality(s.todo) <= Width
         /\ Cardinality(Cols \ s.emitted) \in Nat /\ Cardinality(Cols \ s.emitted) <= Width
         /\ Cardinality(Answered(s)) \in Nat /\ Cardinality(Answered(s)) <= Width
         /\ OfWave(s) \in Nat /\ OfWave(s) < WaveSteps
<1>1. s.todo \subseteq Cols /\ Cols \ s.emitted \subseteq Cols /\ Answered(s) \subseteq Cols
  BY DEF RunType, Answered
<1>2. /\ Cardinality(s.todo) \in Nat /\ Cardinality(s.todo) <= Width
      /\ Cardinality(Cols \ s.emitted) \in Nat /\ Cardinality(Cols \ s.emitted) <= Width
      /\ Cardinality(Answered(s)) \in Nat /\ Cardinality(Answered(s)) <= Width
  BY <1>1, Smaller DEF Width
<1>3. OfWave(s) = IF s.pc = "gating" THEN 2 * Width + 2 + Cardinality(s.todo)
                  ELSE 2 * Cardinality(Answered(s)) + (IF s.pc = "appending" THEN 1 ELSE 0)
  BY DEF OfWave, Answered, Width
<1>4. Width \in Nat /\ WaveSteps = 3 * Width + 3
  BY WidthNat DEF WaveSteps
<1>5. OfWave(s) \in Nat /\ OfWave(s) < WaveSteps
  BY <1>2, <1>3, <1>4
<1> QED BY <1>2, <1>5

LEMMA LeftIs ==
  ASSUME NEW s \in RunType
  PROVE  /\ s.pc = "idle" => StepsLeft(s) = (Width + 1) * WaveSteps + Width + 2
         /\ s.pc = "listing" => StepsLeft(s) = (Width + 1) * WaveSteps + Cardinality(s.todo) + 1
         /\ s.pc = "ended" => StepsLeft(s) = 0
         /\ s.pc \in InWave =>
              StepsLeft(s) = Cardinality(Cols \ s.emitted) * WaveSteps + OfWave(s) + 1
<1>1. CASE s.pc = "idle"
  BY <1>1 DEF StepsLeft, Width, WaveSteps, InWave
<1>2. CASE s.pc = "listing"
  BY <1>2 DEF StepsLeft, Width, WaveSteps, InWave
<1>3. CASE s.pc = "ended"
  BY <1>3 DEF StepsLeft, InWave
<1>4. CASE s.pc \in InWave
  BY <1>4 DEF StepsLeft, Width, WaveSteps, InWave
<1> QED BY <1>1, <1>2, <1>3, <1>4 DEF InWave, RunType

\* Within a wave, and from a wave to the next one.
LEMMA WithinWave ==
  ASSUME IsFiniteSet(Cols), NEW s \in RunType, NEW t \in RunType, s.pc \in InWave, t.pc \in InWave,
         t.emitted = s.emitted, OfWave(t) < OfWave(s)
  PROVE  StepsLeft(t) < StepsLeft(s)
<1> DEFINE a == Cardinality(Cols \ s.emitted) * WaveSteps
<1>1. a \in Nat
  BY LeftParts, WidthNat, MulNat
<1>2. OfWave(s) \in Nat /\ OfWave(t) \in Nat
  BY LeftParts
<1>3. StepsLeft(s) = a + OfWave(s) + 1 /\ StepsLeft(t) = a + OfWave(t) + 1
  BY LeftIs
<1> HIDE DEF a
<1> QED BY <1>1, <1>2, <1>3

LEMMA AnyLeft ==
  ASSUME IsFiniteSet(Cols), NEW s \in RunType
  PROVE  /\ StepsLeft(s) \in Nat
         /\ s.pc # "ended" => StepsLeft(s) > 0
         /\ s.pc \in InWave => StepsLeft(s) <= (Width + 1) * WaveSteps
<1>1. /\ Width \in Nat /\ WaveSteps \in Nat /\ Cardinality(s.todo) \in Nat
      /\ Cardinality(Cols \ s.emitted) \in Nat /\ Cardinality(Cols \ s.emitted) < Width + 1
      /\ OfWave(s) \in Nat /\ OfWave(s) < WaveSteps
  BY LeftParts, WidthNat
<1>2. /\ Cardinality(Cols \ s.emitted) * WaveSteps \in Nat
      /\ (Width + 1) * WaveSteps \in Nat
      /\ Cardinality(Cols \ s.emitted) * WaveSteps + WaveSteps <= (Width + 1) * WaveSteps
  BY <1>1, MulLess
<1>3. s.pc \in {"idle", "listing", "ended"} \/ s.pc \in InWave
  BY DEF RunType, InWave
<1> DEFINE a == Cardinality(Cols \ s.emitted) * WaveSteps
           b == (Width + 1) * WaveSteps
<1>4. /\ s.pc = "idle" => StepsLeft(s) = b + Width + 2
      /\ s.pc = "listing" => StepsLeft(s) = b + Cardinality(s.todo) + 1
      /\ s.pc = "ended" => StepsLeft(s) = 0
      /\ s.pc \in InWave => StepsLeft(s) = a + OfWave(s) + 1
  BY LeftIs
<1>5. a \in Nat /\ b \in Nat /\ a + WaveSteps <= b
  BY <1>2
<1> HIDE DEF a, b
<1>6. s.pc \in InWave => StepsLeft(s) \in Nat /\ StepsLeft(s) > 0 /\ StepsLeft(s) <= b
  BY <1>1, <1>4, <1>5
<1>7. s.pc \in {"idle", "listing"} => StepsLeft(s) \in Nat /\ StepsLeft(s) > 0
  BY <1>1, <1>4, <1>5
<1> QED BY <1>3, <1>4, <1>6, <1>7 DEF b, InWave

LEMMA WaveLeft ==
  ASSUME IsFiniteSet(Cols), NEW s \in RunType, s.pc # "ended", NextWave(s) \in RunType
  PROVE  StepsLeft(NextWave(s)) < StepsLeft(s)
<1> DEFINE t == NextWave(s)
           wave == Wave(s.emitted)
<1>1. CASE wave = {}
  <2>1. t.pc = "ended"
    BY <1>1 DEF NextWave, RunType
  <2> QED BY <2>1, AnyLeft, LeftIs
<1>2. CASE wave # {}
  <2>1. t.pc = "gating" /\ t.emitted = s.emitted \cup wave /\ t.pc \in InWave
    BY <1>2 DEF NextWave, RunType, InWave
  <2>2. CASE s.pc \in {"idle", "listing"}
    <3> DEFINE b == (Width + 1) * WaveSteps
    <3>1. StepsLeft(t) <= b /\ StepsLeft(t) \in Nat
      BY <2>1, AnyLeft
    <3>2. b \in Nat /\ Width \in Nat /\ Cardinality(s.todo) \in Nat
      <4>1. Width \in Nat /\ WaveSteps \in Nat /\ Cardinality(s.todo) \in Nat
        BY LeftParts, WidthNat
      <4> QED BY <4>1, MulNat
    <3>3. \/ StepsLeft(s) = b + Width + 2
          \/ StepsLeft(s) = b + Cardinality(s.todo) + 1
      BY <2>2, LeftIs
    <3> HIDE DEF b, t
    <3>4. StepsLeft(t) < StepsLeft(s)
      BY <3>1, <3>2, <3>3
    <3> QED BY <3>4 DEF t
  <2>3. CASE s.pc \in InWave
    <3>1. /\ Cols \ t.emitted \subseteq Cols \ s.emitted
          /\ Cols \ t.emitted # Cols \ s.emitted
      BY <1>2, <2>1 DEF Wave
    <3>2. IsFiniteSet(Cols \ s.emitted)
      BY Smaller
    <3> DEFINE a == Cardinality(Cols \ t.emitted)
               b == Cardinality(Cols \ s.emitted)
    <3>3. a \in Nat /\ b \in Nat /\ a < b
      BY <3>1, <3>2, Smaller
    <3>4. /\ OfWave(s) \in Nat /\ OfWave(t) \in Nat /\ OfWave(t) < WaveSteps /\ WaveSteps \in Nat
      BY LeftParts, WidthNat
    <3>5. StepsLeft(t) = a * WaveSteps + OfWave(t) + 1 /\ StepsLeft(s) = b * WaveSteps + OfWave(s) + 1
      BY <2>1, <2>3, LeftIs
    <3> HIDE DEF a, b, t
    <3>6. a * WaveSteps \in Nat /\ b * WaveSteps \in Nat
          /\ a * WaveSteps + WaveSteps <= b * WaveSteps
      BY <3>3, <3>4, MulLess
    <3>7. StepsLeft(t) < StepsLeft(s)
      BY <3>4, <3>5, <3>6
    <3> QED BY <3>7 DEF t
  <2> QED BY <2>2, <2>3 DEF RunType, InWave
<1> QED BY <1>1, <1>2

LEMMA ListLeft ==
  ASSUME IsFiniteSet(Cols), NEW s \in RunType, NEW c \in s.todo, NEW t \in RunType,
         s.pc = "listing", t.pc = "listing", t.todo = s.todo \ {c}
  PROVE  StepsLeft(t) < StepsLeft(s)
<1>1. IsFiniteSet(s.todo) /\ t.todo \subseteq s.todo /\ t.todo # s.todo
  BY Smaller DEF RunType
<1>2. Cardinality(t.todo) < Cardinality(s.todo) /\ Cardinality(t.todo) \in Nat
      /\ Cardinality(s.todo) \in Nat
  BY <1>1, Smaller
<1> DEFINE b == (Width + 1) * WaveSteps
<1>3. b \in Nat
  <2>1. Width + 1 \in Nat /\ WaveSteps \in Nat
    BY WidthNat
  <2> QED BY <2>1, MulNat
<1>4. StepsLeft(s) = b + Cardinality(s.todo) + 1 /\ StepsLeft(t) = b + Cardinality(t.todo) + 1
  BY LeftIs
<1> HIDE DEF b
<1> QED BY <1>2, <1>3, <1>4

LEMMA IdleLeft ==
  ASSUME IsFiniteSet(Cols), NEW s \in RunType, NEW t \in RunType, s.pc = "idle",
         t.pc \in InWave \cup {"listing"}
  PROVE  StepsLeft(t) < StepsLeft(s)
<1> DEFINE b == (Width + 1) * WaveSteps
<1>1. Width \in Nat /\ b \in Nat
  <2>1. Width \in Nat /\ Width + 1 \in Nat /\ WaveSteps \in Nat
    BY WidthNat
  <2> QED BY <2>1, MulNat
<1>2. StepsLeft(s) = b + Width + 2
  BY LeftIs
<1>3. Cardinality(t.todo) \in Nat /\ Cardinality(t.todo) <= Width
  BY LeftParts
<1>4. t.pc = "listing" => StepsLeft(t) = b + Cardinality(t.todo) + 1
  BY LeftIs
<1>5. t.pc \in InWave => StepsLeft(t) \in Nat /\ StepsLeft(t) <= b
  BY AnyLeft
<1> HIDE DEF b
<1> QED BY <1>1, <1>2, <1>3, <1>4, <1>5

LEMMA NextWaveBatch == ASSUME NEW s \in RunType PROVE NextWave(s).batch = s.batch
BY DEF NextWave, RunType

LEMMA RunMoves ==
  ASSUME IsFiniteSet(Cols), NEW r \in Runs, run[r] \in RunType, run'[r] \in RunType,
         run \in [Runs -> RunType], OneAnswer(run[r]), RunStep(r)
  PROVE  StepsLeft(run'[r]) < StepsLeft(run[r]) /\ OneAnswer(run'[r])
<1> DEFINE s == run[r]
           t == run'[r]
<1>1. ASSUME NEW force \in BOOLEAN, StartRow(r, force)
      PROVE  StepsLeft(t) < StepsLeft(s) /\ OneAnswer(t)
  <2>1. CASE force
    <3> DEFINE u == [NewRun EXCEPT !.kind = "forced"]
    <3>1. u \in RunType /\ u.pc = "idle" /\ u.batch = {}
      BY DEF NewRun, RunType, NoEntry
    <3>2. t = NextWave(u) /\ s.pc = "idle"
      BY <1>1, <2>1 DEF StartRow
    <3> HIDE DEF u
    <3>3. StepsLeft(t) < StepsLeft(u) /\ t.batch = {}
      BY <3>1, <3>2, WaveLeft, NextWaveBatch
    <3>4. StepsLeft(s) = StepsLeft(u)
      BY <3>1, <3>2, LeftIs
    <3> QED BY <3>3, <3>4 DEF OneAnswer
  <2>2. CASE ~force
    <3>1. t.pc = "listing" /\ t.batch = {} /\ s.pc = "idle"
      BY <1>1, <2>2 DEF StartRow, NewRun
    <3> QED BY <3>1, IdleLeft DEF OneAnswer
  <2> QED BY <2>1, <2>2
<1>2. ASSUME NEW c \in Cols, Refine(r, c)
      PROVE  StepsLeft(t) < StepsLeft(s) /\ OneAnswer(t)
  <2>1. t.pc \in InWave /\ t.batch = {} /\ s.pc = "idle"
    BY <1>2 DEF Refine, NewRun, InWave
  <2> QED BY <2>1, IdleLeft DEF OneAnswer
<1>3. ASSUME NEW c \in Cols, ListColumn(r, c)
      PROVE  StepsLeft(t) < StepsLeft(s) /\ OneAnswer(t)
  <2> DEFINE seen == IF log[c] = <<>> THEN s.existing ELSE s.existing \cup {c}
             u == [s EXCEPT !.todo = s.todo \ {c}, !.existing = seen]
  <2>0. s.pc = "listing" /\ c \in s.todo /\ seen \in SUBSET Cols
    BY <1>3 DEF ListColumn, RunType
  <2>5. t = IF u.todo = {} THEN NextWave(u) ELSE u
    BY <1>3 DEF ListColumn
  <2> HIDE DEF seen
  <2>1. /\ u \in RunType /\ u.pc = "listing" /\ s.pc = "listing" /\ u.batch = s.batch
        /\ c \in s.todo /\ u.todo = s.todo \ {c}
        /\ t = IF u.todo = {} THEN NextWave(u) ELSE u
    BY <2>0, <2>5 DEF RunType
  <2> HIDE DEF u
  <2>2. StepsLeft(u) < StepsLeft(s)
    BY <2>1, ListLeft
  <2>3. CASE u.todo = {}
    <3>1. t = NextWave(u)
      BY <2>1, <2>3
    <3>2. StepsLeft(t) < StepsLeft(u) /\ t.batch = s.batch
      BY <2>1, <3>1, WaveLeft, NextWaveBatch
    <3>3. StepsLeft(t) \in Nat /\ StepsLeft(u) \in Nat /\ StepsLeft(s) \in Nat
      BY <2>1, AnyLeft
    <3> HIDE DEF s, t
    <3>4. StepsLeft(t) < StepsLeft(s)
      BY <2>2, <3>2, <3>3
    <3>5. OneAnswer(t)
      BY <3>2 DEF OneAnswer, s
    <3> QED BY <3>4, <3>5
  <2>4. CASE u.todo # {}
    <3>1. t = u
      BY <2>1, <2>4
    <3> QED BY <2>1, <2>2, <3>1 DEF OneAnswer
  <2> QED BY <2>3, <2>4
<1>4. ASSUME NEW c \in Cols, Gate(r, c)
      PROVE  StepsLeft(t) < StepsLeft(s) /\ OneAnswer(t)
  <2>1. /\ s.pc = "gating" /\ t.pc = "gating" /\ c \in s.todo /\ t.todo = s.todo \ {c}
        /\ t.batch = s.batch /\ t.emitted = s.emitted
    BY <1>4 DEF Gate, RunType
  <2>2. IsFiniteSet(s.todo) /\ t.todo \subseteq s.todo /\ t.todo # s.todo
    BY <2>1, Smaller DEF RunType
  <2>3. Cardinality(t.todo) < Cardinality(s.todo) /\ Cardinality(t.todo) \in Nat
        /\ Cardinality(s.todo) \in Nat
    BY <2>2, Smaller
  <2>4. /\ OfWave(s) = 2 * Width + 2 + Cardinality(s.todo)
        /\ OfWave(t) = 2 * Width + 2 + Cardinality(t.todo) /\ Width \in Nat
    BY <2>1, WidthNat DEF OfWave, Width
  <2>5. OfWave(t) < OfWave(s)
    BY <2>3, <2>4
  <2>6. s.pc \in InWave /\ t.pc \in InWave
    BY <2>1 DEF InWave
  <2> QED BY <2>1, <2>5, <2>6, WithinWave DEF OneAnswer
<1>5. CASE SkipWave(r) \/ EndWave(r)
  <2>1. t = NextWave(s) /\ s.pc \in {"gating", "writing"}
    BY <1>5 DEF SkipWave, EndWave
  <2> QED BY <2>1, WaveLeft, NextWaveBatch DEF OneAnswer
<1>6. CASE Extract(r)
  <2>1. PICK answered \in SUBSET (s.picked \ Manual) : \E v \in [answered -> Values] :
          run' = [run EXCEPT ![r].pc = "writing",
                             ![r].batch = {[col |-> c, value |-> v[c]] : c \in answered}]
    BY <1>6 DEF Extract
  <2>a. PICK v \in [answered -> Values] :
          run' = [run EXCEPT ![r].pc = "writing",
                             ![r].batch = {[col |-> c, value |-> v[c]] : c \in answered}]
    BY <2>1
  <2>2. /\ s.pc = "gating" /\ t.pc = "writing" /\ t.emitted = s.emitted
        /\ t.batch = {[col |-> c, value |-> v[c]] : c \in answered}
    BY <1>6, <2>a DEF Extract, RunType
  <2>3. OneAnswer(t)
    BY <2>2 DEF OneAnswer
  <2>4. OfWave(s) = 2 * Width + 2 + Cardinality(s.todo) /\ OfWave(t) = 2 * Cardinality(Answered(t)) + 0
    BY <2>2 DEF OfWave, Width, Answered
  <2>5. /\ Cardinality(Answered(t)) \in Nat /\ Cardinality(Answered(t)) <= Width
        /\ Cardinality(s.todo) \in Nat /\ Width \in Nat
    BY LeftParts, WidthNat
  <2>6. OfWave(t) < OfWave(s)
    BY <2>4, <2>5
  <2>7. s.pc \in InWave /\ t.pc \in InWave
    BY <2>2 DEF InWave
  <2> QED BY <2>2, <2>3, <2>6, <2>7, WithinWave
<1>7. ASSUME NEW e \in run[r].batch, CheckLock(r, e)
      PROVE  StepsLeft(t) < StepsLeft(s) /\ OneAnswer(t)
  <2>1. /\ s.pc = "writing" /\ t.pc \in {"writing", "appending"} /\ t.emitted = s.emitted
        /\ e \in s.batch /\ t.batch = s.batch \ {e}
    BY <1>7 DEF CheckLock, RunType
  <2>2. /\ Answered(t) \subseteq Answered(s) /\ e.col \in Answered(s) /\ e.col \notin Answered(t)
    BY <2>1 DEF Answered, OneAnswer
  <2>3. IsFiniteSet(Answered(s))
    BY Smaller DEF Answered, RunType
  <2>4. Cardinality(Answered(t)) < Cardinality(Answered(s)) /\ Cardinality(Answered(t)) \in Nat
        /\ Cardinality(Answered(s)) \in Nat
    BY <2>2, <2>3, Smaller
  <2>5. /\ OfWave(s) = 2 * Cardinality(Answered(s)) + 0
        /\ OfWave(t) = 2 * Cardinality(Answered(t)) + (IF t.pc = "appending" THEN 1 ELSE 0)
    BY <2>1 DEF OfWave, Answered
  <2>6. OfWave(t) < OfWave(s)
    BY <2>4, <2>5
  <2>7. s.pc \in InWave /\ t.pc \in InWave /\ OneAnswer(t)
    BY <2>1 DEF InWave, OneAnswer
  <2> QED BY <2>1, <2>6, <2>7, WithinWave
<1>8. CASE AppendCell(r)
  <2>1. /\ s.pc = "appending" /\ t.pc = "writing" /\ t.emitted = s.emitted /\ t.batch = s.batch
    BY <1>8 DEF AppendCell, RunType
  <2>2. /\ OfWave(s) = 2 * Cardinality(Answered(s)) + 1
        /\ OfWave(t) = 2 * Cardinality(Answered(s)) + 0
        /\ Cardinality(Answered(s)) \in Nat
    BY <2>1, LeftParts DEF OfWave, Answered
  <2>3. OfWave(t) < OfWave(s)
    BY <2>2
  <2>4. s.pc \in InWave /\ t.pc \in InWave /\ OneAnswer(t)
    BY <2>1 DEF InWave, OneAnswer
  <2> QED BY <2>1, <2>3, <2>4, WithinWave
<1>9. CASE GiveUp(r)
  <2>1. t.pc = "ended" /\ t.batch = {} /\ s.pc # "ended"
    BY <1>9 DEF GiveUp, NewRun
  <2>2. StepsLeft(t) = 0 /\ StepsLeft(s) > 0
    BY <2>1, LeftIs, AnyLeft
  <2> QED BY <2>1, <2>2 DEF OneAnswer
<1> QED BY <1>1, <1>2, <1>3, <1>4, <1>5, <1>6, <1>7, <1>8, <1>9 DEF RunStep

LEMMA OtherRuns ==
  ASSUME TypeOK, [Next]_vars, NEW r \in Runs, run'[r] # run[r]
  PROVE  RunStep(r)
<1>1. ASSUME NEW q \in Runs, RunStep(q), q # r PROVE FALSE
  BY <1>1 DEF RunStep, StartRow, Refine, ListColumn, Gate, SkipWave, Extract, CheckLock, AppendCell,
              EndWave, GiveUp, TypeOK
<1>2. ASSUME NEW h \in Humans, CallStep(h) PROVE FALSE
  BY <1>2 DEF CallStep, ReadToSet, ReadToLock, Write
<1> QED BY <1>1, <1>2 DEF Next, vars

\* An extraction, forced or not, and a refinement take at most StepsLeft(NewRun) steps, for any
\* finite number of columns: each step lowers what is left of the run, which is a number.
\* This is the part of RunEnds that needs no fairness (fanout.rs 41-76, 288-420).
THEOREM RunDescendsHolds ==
  ASSUME IsFiniteSet(Cols)
  PROVE  Spec => /\ [](\A r \in Runs : StepsLeft(run[r]) \in Nat)
                 /\ RunDescends
<1>1. Init => OneAnswers
  BY DEF Init, NewRun, OneAnswers, OneAnswer
<1>2. TypeOK /\ TypeOK' /\ OneAnswers /\ [Next]_vars =>
        /\ OneAnswers'
        /\ [\A r \in Runs : run'[r] # run[r] => StepsLeft(run'[r]) < StepsLeft(run[r])]_vars
  <2> SUFFICES ASSUME TypeOK, TypeOK', OneAnswers, [Next]_vars, NEW r \in Runs
               PROVE  /\ OneAnswer(run'[r])
                      /\ run'[r] # run[r] => StepsLeft(run'[r]) < StepsLeft(run[r])
    BY DEF OneAnswers
  <2>1. run[r] \in RunType /\ run'[r] \in RunType /\ run \in [Runs -> RunType] /\ OneAnswer(run[r])
    BY DEF TypeOK, OneAnswers
  <2>2. CASE run'[r] # run[r]
    BY <2>1, <2>2, OtherRuns, RunMoves
  <2> QED BY <2>1, <2>2
<1>3. TypeOK => \A r \in Runs : StepsLeft(run[r]) \in Nat
  BY AnyLeft DEF TypeOK
<1> QED BY <1>1, <1>2, <1>3, TypeCorrect, PTL DEF Spec, RunDescends
=============================================================================
