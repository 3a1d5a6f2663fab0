---------------------------- MODULE ReviewCells ----------------------------
(***************************************************************************)
(* The cells of one row of a tabular review: the append-only table of cell *)
(* versions, the extraction of the row in waves of columns, the refinement *)
(* of one cell, and the reviewer's overrides, locks and unlocks.           *)
(*                                                                         *)
(* run_review gives every row a task of its own and a cell belongs to one  *)
(* row, so rows do not interact.  Runs are extractions of the row: one     *)
(* server keeps to one run of a review at a time, but several servers open *)
(* the same table, and review_refine_cell is not guarded at all.           *)
(*                                                                         *)
(* Every read of the table, every append to it and every call of the LLM   *)
(* is a step of its own: that is where another writer comes in.            *)
(***************************************************************************)
EXTENDS Integers, SequencesExt

CONSTANTS
  Cols,     \* the columns of the review
  Manual,   \* the columns a human fills in: extraction skips them
  Parent,   \* Parent[c]: the column whose value gates c, or NoCol
  Opens,    \* Opens[c]: the parent's values, or NoValue, that satisfy c's predicate
  Values,   \* the cell values told apart
  Runs,     \* ids of extraction runs of the row and of refinements of a cell
  Setters,  \* ids of review_set_cell calls
  Lockers,  \* ids of review_lock_cell and review_unlock_cell calls
  Faults,   \* {"read"} when the first read of a refinement or an override may fail
  NoCol, NoValue, NoCell

Humans == Setters \cup Lockers
Authors == Runs \cup Humans

ASSUME ColumnsAssumption ==
  /\ Manual \subseteq Cols
  /\ Parent \in [Cols -> Cols \cup {NoCol}]
  /\ Opens \in [Cols -> SUBSET (Values \cup {NoValue})]
ASSUME AuthorsAssumption ==
  /\ Runs \cap Humans = {}
  /\ Setters \cap Lockers = {}
ASSUME NullAssumption ==
  /\ NoCol \notin Cols /\ NoValue \notin Values
  /\ NoCell \notin [value : Values, locked : BOOLEAN, author : Authors]

VARIABLES
  log,    \* log[c]: the versions of the cell of column c in the order of the table
  run,    \* run[r]: the state of an extraction run or a refinement
  call    \* call[h]: the state of a reviewer's call

vars == <<log, run, call>>

-----------------------------------------------------------------------------
(* The table of cell versions.                                              *)

Cell == [value : Values, locked : BOOLEAN, version : Nat \ {0}, author : Authors]

\* Variant with a bug: of two equal versions the one written last is taken.
IsLatestLastWins(s, i) ==
  /\ i \in DOMAIN s
  /\ \A k \in DOMAIN s : s[k].version < s[i].version \/ (s[k].version = s[i].version /\ k <= i)

\* history() sorts by descending version and the sort is stable, so of two equal
\* versions latest() takes the one that was appended first.
IsLatest(s, i) ==
  /\ i \in DOMAIN s
  /\ \A k \in DOMAIN s : s[k].version < s[i].version \/ (s[k].version = s[i].version /\ i <= k)

Latest(s) == s[CHOOSE i \in DOMAIN s : IsLatest(s, i)]

\* Variant with a bug: a later row of the same version replaces the one kept.
KeepLater(prev, c) == IF prev.version > c.version THEN prev ELSE c

\* all_for_review_latest: one pass over the rows that keeps the best so far.
KeepBest(prev, c) == IF prev.version >= c.version THEN prev ELSE c

BoardCell(s) ==
  LET best[i \in DOMAIN s] == IF i = 1 THEN s[1] ELSE KeepBest(best[i - 1], s[i])
  IN best[Len(s)]

Locked(c) == log[c] # <<>> /\ Latest(log[c]).locked

ValueOf(c) == IF log[c] = <<>> THEN NoValue ELSE Latest(log[c]).value

-----------------------------------------------------------------------------
(* Extraction.                                                              *)

NoEntry == [col |-> NoCol, value |-> NoValue]
NewRun == [pc |-> "idle", kind |-> "row", todo |-> {}, existing |-> {}, emitted |-> {},
           picked |-> {}, skipped |-> {}, batch |-> {}, next |-> NoEntry]
NewCall == [pc |-> "idle", col |-> NoCol, seen |-> 0, value |-> NoValue,
            locked |-> FALSE, base |-> 0]

Init ==
  /\ log = [c \in Cols |-> <<>>]
  /\ run = [r \in Runs |-> NewRun]
  /\ call = [h \in Humans |-> NewCall]

\* Variant with a bug: a wave takes columns that were in one before.
WaveAgain(emitted) == {c \in Cols : Parent[c] = NoCol \/ Parent[c] \in emitted}

\* topo_waves: the next wave holds the columns not emitted yet whose parent, if
\* they have one, is in an earlier wave.
Wave(emitted) == {c \in Cols \ emitted : Parent[c] = NoCol \/ Parent[c] \in emitted}

\* The run enters the wave that follows, or ends.
NextWave(state) ==
  LET wave == Wave(state.emitted) IN
  IF wave = {}
    THEN [state EXCEPT !.pc = "ended", !.todo = {}, !.picked = {}]
    ELSE [state EXCEPT !.pc = "gating", !.todo = wave, !.emitted = @ \cup wave, !.picked = {}]

\* run_review starts the row.  Without force_reextract the columns that have a cell
\* are looked up first, one read each.
StartRow(r, force) ==
  /\ run[r].pc = "idle"
  /\ run' = [run EXCEPT ![r] = IF force THEN NextWave([NewRun EXCEPT !.kind = "forced"])
                                 ELSE [NewRun EXCEPT !.pc = "listing", !.todo = Cols]]
  /\ UNCHANGED <<log, call>>

ListColumn(r, c) ==
  /\ run[r].pc = "listing"
  /\ c \in run[r].todo
  /\ LET state == [run[r] EXCEPT !.todo = @ \ {c},
                                 !.existing = IF log[c] = <<>> THEN @ ELSE @ \cup {c}]
     IN run' = [run EXCEPT ![r] = IF state.todo = {} THEN NextWave(state) ELSE state]
  /\ UNCHANGED <<log, call>>

\* Variant with a bug: the predicate is not evaluated.
GateOpenNoPredicate(r, c) == Parent[c] # NoCol => Parent[c] \notin run[r].skipped

\* A column without a condition is always extracted; one whose parent was skipped is
\* not; the others depend on what the table shows for the parent now.
GateOpen(r, c) ==
  Parent[c] # NoCol =>
    Parent[c] \notin run[r].skipped /\ ValueOf(Parent[c]) \in Opens[c]

Gate(r, c) ==
  /\ run[r].pc = "gating"
  /\ c \in run[r].todo
  /\ \/ /\ c \in run[r].existing
        /\ run' = [run EXCEPT ![r].todo = @ \ {c}]
     \/ /\ c \notin run[r].existing
        /\ GateOpen(r, c)
        /\ run' = [run EXCEPT ![r].todo = @ \ {c}, ![r].picked = @ \cup {c}]
     \/ /\ c \notin run[r].existing
        /\ ~GateOpen(r, c)
        /\ run' = [run EXCEPT ![r].todo = @ \ {c}, ![r].skipped = @ \cup {c}]
  /\ UNCHANGED <<log, call>>

SkipWave(r) ==
  /\ run[r].pc = "gating"
  /\ run[r].todo = {} /\ run[r].picked = {}
  /\ run' = [run EXCEPT ![r] = NextWave(run[r])]
  /\ UNCHANGED <<log, call>>

\* extract_doc: the LLM is asked for the columns that are not manual, and may leave
\* out any of them.
Extract(r) ==
  /\ run[r].pc = "gating"
  /\ run[r].todo = {} /\ run[r].picked # {}
  /\ \E answered \in SUBSET (run[r].picked \ Manual) : \E v \in [answered -> Values] :
       run' = [run EXCEPT ![r].pc = "writing",
                          ![r].batch = {[col |-> c, value |-> v[c]] : c \in answered}]
  /\ UNCHANGED <<log, call>>

\* upsert, first half: the latest version is read; a lock found there drops the cell.
CheckLock(r, e) ==
  /\ run[r].pc = "writing"
  /\ e \in run[r].batch
  /\ IF Locked(e.col)
       THEN run' = [run EXCEPT ![r].batch = @ \ {e}]
       ELSE run' = [run EXCEPT ![r].batch = @ \ {e}, ![r].pc = "appending", ![r].next = e]
  /\ UNCHANGED <<log, call>>

\* Variant with a bug: the version is the next free one when the row is appended.
AppendBumped(r) ==
  /\ run[r].pc = "appending"
  /\ LET c == run[r].next.col
         n == IF log[c] = <<>> THEN 0 ELSE Latest(log[c]).version
     IN log' = [log EXCEPT ![c] = Append(@,
          [value |-> run[r].next.value, locked |-> FALSE, version |-> n + 1, author |-> r])]
  /\ run' = [run EXCEPT ![r].pc = "writing", ![r].next = NoEntry]
  /\ UNCHANGED call

\* upsert, second half: the row is appended, unlocked and with version 1, the version
\* parse_cell_envelope gives to every extracted cell.
AppendCell(r) ==
  /\ run[r].pc = "appending"
  /\ log' = [log EXCEPT ![run[r].next.col] = Append(@,
       [value |-> run[r].next.value, locked |-> FALSE, version |-> 1, author |-> r])]
  /\ run' = [run EXCEPT ![r].pc = "writing", ![r].next = NoEntry]
  /\ UNCHANGED call

EndWave(r) ==
  /\ run[r].pc = "writing"
  /\ run[r].batch = {}
  /\ run' = [run EXCEPT ![r] = NextWave(run[r])]
  /\ UNCHANGED <<log, call>>

\* A read, the LLM or an append fails, or the server stops: the rest of the row is
\* given up, what was appended stays.
GiveUp(r) ==
  /\ run[r].pc \in {"listing", "gating", "writing", "appending"}
  /\ run' = [run EXCEPT ![r] = [NewRun EXCEPT !.pc = "ended", !.kind = run[r].kind]]
  /\ UNCHANGED <<log, call>>

\* review_refine_cell: one column, whatever its gate says, unless its cell is locked.
\* Every column counts as emitted, so the call ends after this one.  A read that
\* fails does not stop it.
Refine(r, c) ==
  /\ run[r].pc = "idle"
  /\ ~Locked(c) \/ "read" \in Faults
  /\ run' = [run EXCEPT ![r] = [NewRun EXCEPT !.pc = "gating", !.kind = "refine",
                                              !.picked = {c}, !.emitted = Cols]]
  /\ UNCHANGED <<log, call>>

-----------------------------------------------------------------------------
(* The reviewer.                                                            *)

\* review_set_cell reads the version it is going to exceed; a read that fails counts
\* as no version.
ReadToSet(h, c, v, lock) ==
  /\ call[h].pc = "idle"
  /\ \E failed \in {FALSE} \cup {f \in {TRUE} : "read" \in Faults} :
       call' = [call EXCEPT ![h] =
         [pc |-> "read", col |-> c, value |-> v, locked |-> lock, base |-> Len(log[c]),
          seen |-> IF failed \/ log[c] = <<>> THEN 0 ELSE Latest(log[c]).version]]
  /\ UNCHANGED <<log, run>>

\* Variant with a bug: a cell that has no version is locked all the same.
ReadToLockNothing(h, c, lock) ==
  /\ call[h].pc = "idle"
  /\ call' = [call EXCEPT ![h] =
       [pc |-> "read", col |-> c, value |-> ValueOf(c), locked |-> lock, base |-> Len(log[c]),
        seen |-> IF log[c] = <<>> THEN 0 ELSE Latest(log[c]).version]]
  /\ UNCHANGED <<log, run>>

\* set_cell_lock copies the latest version and refuses a cell that has none.
ReadToLock(h, c, lock) ==
  /\ call[h].pc = "idle"
  /\ log[c] # <<>>
  /\ call' = [call EXCEPT ![h] =
       [pc |-> "read", col |-> c, value |-> Latest(log[c]).value, locked |-> lock,
        base |-> Len(log[c]), seen |-> Latest(log[c]).version]]
  /\ UNCHANGED <<log, run>>

\* The append, one version above the one read; a lock never stops a human.
Write(h) ==
  /\ call[h].pc = "read"
  /\ log' = [log EXCEPT ![call[h].col] = Append(@,
       [value |-> call[h].value, locked |-> call[h].locked,
        version |-> call[h].seen + 1, author |-> h])]
  /\ call' = [call EXCEPT ![h].pc = "ended"]
  /\ UNCHANGED run

-----------------------------------------------------------------------------
RunStep(r) ==
  \/ \E force \in BOOLEAN : StartRow(r, force)
  \/ \E c \in Cols : Refine(r, c) \/ ListColumn(r, c) \/ Gate(r, c)
  \/ SkipWave(r) \/ Extract(r)
  \/ \E e \in run[r].batch : CheckLock(r, e)
  \/ AppendCell(r) \/ EndWave(r) \/ GiveUp(r)

CallStep(h) ==
  \/ \E c \in Cols, lock \in BOOLEAN :
       \/ h \in Setters /\ \E v \in Values : ReadToSet(h, c, v, lock)
       \/ h \in Lockers /\ ReadToLock(h, c, lock)
  \/ Write(h)

Next == (\E r \in Runs : RunStep(r)) \/ (\E h \in Humans : CallStep(h))

Spec == Init /\ [][Next]_vars

\* A row task is polled until it is done; nothing makes a host or a reviewer call.
RunProgress(r) ==
  \/ \E c \in Cols : ListColumn(r, c) \/ Gate(r, c)
  \/ SkipWave(r) \/ Extract(r)
  \/ \E e \in run[r].batch : CheckLock(r, e)
  \/ AppendCell(r) \/ EndWave(r)

FairSpec == Spec /\ \A r \in Runs : WF_vars(RunProgress(r))
-----------------------------------------------------------------------------
(* Properties.                                                              *)

RunType ==
  [pc : {"idle", "listing", "gating", "writing", "appending", "ended"},
   kind : {"row", "forced", "refine"},
   todo : SUBSET Cols, existing : SUBSET Cols, emitted : SUBSET Cols,
   picked : SUBSET Cols, skipped : SUBSET Cols,
   batch : SUBSET [col : Cols, value : Values],
   next : [col : Cols, value : Values] \cup {NoEntry}]

CallType ==
  [pc : {"idle", "read", "ended"}, col : Cols \cup {NoCol}, seen : Nat, base : Nat,
   value : Values \cup {NoValue}, locked : BOOLEAN]

TypeOK ==
  /\ log \in [Cols -> Seq(Cell)]
  /\ run \in [Runs -> RunType]
  /\ call \in [Humans -> CallType]
  /\ \A r \in Runs : run[r].pc = "appending" => run[r].next # NoEntry
  /\ \A h \in Humans : call[h].pc = "read" => call[h].col # NoCol /\ call[h].value # NoValue

\* The two readers of the table show the same version of a cell: latest(), which
\* sorts, and all_for_review_latest(), which folds over the rows (cells.rs 287-365).
ReadersAgree == \A c \in Cols : log[c] # <<>> => BoardCell(log[c]) = Latest(log[c])

\* A locked cell keeps what it shows until a human writes it (lock.rs 3-7), although
\* the lock is checked in one step and the row appended in another.
LockedStays ==
  [][\A c \in Cols : Locked(c) /\ log'[c] # log[c] =>
       Latest(log'[c]) = Latest(log[c]) \/ Latest(log'[c]).author \in Humans]_vars

\* The reviewer's write is what the cell shows from then on, when it read a version
\* of the cell and no other human wrote the cell in between: no extraction that runs
\* meanwhile hides it (lib.rs 3917-3946).
OverrideWins ==
  [][\A h \in Humans :
       LET c == call[h].col IN
       /\ call[h].pc = "read" /\ call'[h].pc = "ended" /\ call[h].seen > 0
       /\ \A i \in call[h].base + 1 .. Len(log[c]) : log[c][i].author \in Runs
       => Latest(log'[c]).author = h]_vars

\* A column with a condition is only ever filled by a row extraction when its parent
\* has, or once had, a value that satisfies the condition (fanout.rs 318-345).
GateHeld ==
  \A c \in Cols : \A i \in DOMAIN log[c] :
    LET r == log[c][i].author IN
    Parent[c] # NoCol /\ r \in Runs /\ run[r].kind # "refine" =>
      \/ NoValue \in Opens[c]
      \/ \E k \in DOMAIN log[Parent[c]] : log[Parent[c]][k].value \in Opens[c]

\* What the reviewer is shown follows the abstract board.
Board == INSTANCE ReviewBoard WITH
  shown <- [c \in Cols |->
    IF log[c] = <<>> THEN NoCell
      ELSE [value |-> Latest(log[c]).value, locked |-> Latest(log[c]).locked,
            author |-> Latest(log[c]).author]]

BoardRefined == Board!Spec

\* The steps that remain of the wave a run is in, and those that remain of the run: waves are
\* disjoint, of each wave every column is gated once, answered and written at most once.
OfWave(s) ==
  IF s.pc = "gating" THEN 2 * Cardinality(Cols) + 2 + Cardinality(s.todo)
  ELSE 2 * Cardinality({e.col : e \in s.batch}) + (IF s.pc = "appending" THEN 1 ELSE 0)

StepsLeft(s) ==
  LET n == Cardinality(Cols)
      wave == 3 * n + 3
  IN CASE s.pc = "idle" -> (n + 1) * wave + n + 2
       [] s.pc = "listing" -> (n + 1) * wave + Cardinality(s.todo) + 1
       [] s.pc = "ended" -> 0
       [] s.pc \in {"gating", "writing", "appending"} ->
            Cardinality(Cols \ s.emitted) * wave + OfWave(s) + 1

\* Whatever the LLM answers and whoever else writes, each step of an extraction brings it
\* nearer to its end (fanout.rs 41-76, 288-420): it takes at most StepsLeft(NewRun) of them.
RunDescends ==
  [][\A r \in Runs : run'[r] # run[r] => StepsLeft(run'[r]) < StepsLeft(run[r])]_vars

\* An extraction that was started comes to an end: the waves run out.
RunEnds == \A r \in Runs : run[r].pc # "idle" ~> run[r].pc = "ended"
=============================================================================
