---------------------------- MODULE MemoryLayer ----------------------------
(***************************************************************************)
(* The memories a client saves: rows of one table that refer to pseudonyms *)
(* of the vault.  A save runs at once, or stores the raw text and leaves   *)
(* detection to a background task.  A new preference retires the earlier   *)
(* ones it conflicts with.  Forgetting memories deletes their rows and     *)
(* then the vault entries that no memory refers to any more.               *)
(*                                                                         *)
(* Table and vault have no transaction in common and the table none over   *)
(* two calls: saves, tasks, forget calls and invalidations interleave      *)
(* between their calls of either, and each of them may fail or stop there. *)
(*                                                                         *)
(* The vault is taken as PseudonymVault shows it to be for one process:    *)
(* its calls are atomic, and a name that was erased gets a new token, here *)
(* the next generation of the name.  A definition that another one         *)
(* precedes with the comment "Mutant" is what a run of the mutant replaces.*)
(***************************************************************************)
EXTENDS Integers, FiniteSets

CONSTANTS
  Memories,   \* ids of memories
  Names,      \* originals the vault replaces
  Orgs,       \* entities of a text that are no personal data
  Forgets,    \* ids of calls of forget_memory
  Modes,      \* the modes a save may run in, of "sync", "async" and "disabled"
  MaxGen,     \* bound on the tokens of one name
  NoMemory

ASSUME ModesAssumption == Modes \subseteq {"sync", "async", "disabled"}
ASSUME MaxGenAssumption == MaxGen \in Nat
ASSUME NoMemoryAssumption == NoMemory \notin Memories

Tokens == Names \X (1 .. MaxGen)

VARIABLES
  live,      \* live[n]: the generation of the token the vault has for n, or 0
  gen,       \* gen[n]: the last generation of n
  row,       \* row[m]: the row of m
  save,      \* save[m]: the save of m, or its background task
  forget,    \* forget[f]: the state of a forget call
  chunks,    \* the tokens in the chunks of indexed documents
  retiredBy, \* history: the memory whose save retired m, or NoMemory
  erased,    \* history: tokens erased for their subject
  raced,     \* history: a forget call and a save that had its tokens have overlapped
  cut        \* history: a forget call broke off

vault == <<live, gen>>
history == <<retiredBy, erased, raced, cut>>
vars == <<live, gen, row, save, forget, chunks, retiredBy, erased, raced, cut>>

-----------------------------------------------------------------------------
\* tokens, ents: the token and entity references; valid: valid_to is not set.
NoRow == [there |-> FALSE, tokens |-> {}, ents |-> {}, pref |-> FALSE, valid |-> FALSE]

\* A save: the names and organisations in the text, whether it is saved as a preference,
\* whether it runs as a task, the conflicting memories, and the row that the task read.
NewSave == [pc |-> "new", task |-> FALSE, names |-> {}, orgs |-> {}, pref |-> FALSE, tokens |-> {},
            cands |-> {}, copy |-> NoRow]

Finished(label) == [NewSave EXCEPT !.pc = label]

NewForget == [pc |-> "idle", todo |-> {}, targets |-> {}, tokens |-> {}, took |-> {}]

Tokenized == {"embedded", "resolving", "retiring", "inserting", "reading", "writing"}
Running == {"reading", "deleting", "counting", "purging"}

IsLive(t) == live[t[1]] = t[2]
TokenOf(n) == <<n, live[n]>>

Init ==
  /\ live = [n \in Names |-> 0] /\ gen = [n \in Names |-> 0]
  /\ row = [m \in Memories |-> NoRow]
  /\ save = [m \in Memories |-> NewSave]
  /\ forget = [f \in Forgets |-> NewForget]
  /\ chunks = {}
  /\ retiredBy = [m \in Memories |-> NoMemory]
  /\ erased = {} /\ raced = FALSE /\ cut = FALSE

-----------------------------------------------------------------------------
(* The vault.                                                               *)

\* Pseudonymizing a text with the names N: each has its token, or gets a new one.
Pseudonymize(N) ==
  /\ \A n \in N : live[n] = 0 => gen[n] < MaxGen
  /\ gen' = [n \in Names |-> IF n \in N /\ live[n] = 0 THEN gen[n] + 1 ELSE gen[n]]
  /\ live' = [n \in Names |-> IF n \in N /\ live[n] = 0 THEN gen[n] + 1 ELSE live[n]]

TokensOf(N) == {<<n, live'[n]>> : n \in N}

\* Pseudonymizing the query of a recall.
Recall(n) ==
  /\ live[n] = 0
  /\ Pseudonymize({n})
  /\ UNCHANGED <<row, save, forget, chunks, history>>

\* A document with the name n is indexed.  DocIngest shows the steps of that.
IndexDoc(n) ==
  /\ Pseudonymize({n})
  /\ chunks' = chunks \cup TokensOf({n})
  /\ UNCHANGED <<row, save, forget, history>>

\* Erasure of a data subject, whatever refers to the token.
EraseSubject(n) ==
  /\ live[n] # 0
  /\ erased' = erased \cup {TokenOf(n)}
  /\ live' = [live EXCEPT ![n] = 0]
  /\ UNCHANGED <<gen, row, save, forget, chunks, retiredBy, raced, cut>>

-----------------------------------------------------------------------------
(* Saving.                                                                  *)

Overlaps == \E f \in Forgets : forget[f].pc \in Running

\* Detection and pseudonymization of a synchronous save.
SaveSync(m, N, O, p) ==
  /\ save[m].pc = "new" /\ "sync" \in Modes
  /\ Pseudonymize(N)
  /\ save' = [save EXCEPT ![m] = [NewSave EXCEPT !.pc = "embedded", !.orgs = O, !.pref = p,
                                                 !.tokens = TokensOf(N)]]
  /\ raced' = (raced \/ Overlaps)
  /\ UNCHANGED <<row, forget, chunks, retiredBy, erased, cut>>

\* The raw text is stored without references; the task is spawned in async mode.
SaveFast(m, mode, N, O, p) ==
  /\ save[m].pc = "new" /\ mode \in Modes \ {"sync"}
  /\ row' = [row EXCEPT ![m] = [NoRow EXCEPT !.there = TRUE, !.pref = p, !.valid = TRUE]]
  /\ save' = [save EXCEPT ![m] =
                IF mode = "async"
                THEN [NewSave EXCEPT !.pc = "queued", !.task = TRUE, !.names = N, !.orgs = O,
                                     !.pref = p]
                ELSE Finished("done")]
  /\ UNCHANGED <<vault, forget, chunks, history>>

\* Mutant: the task stores the references before it looks for conflicts.
TaskStoresFirst(m) ==
  /\ save[m].pc = "queued"
  /\ Pseudonymize(save[m].names)
  /\ save' = [save EXCEPT ![m].pc = IF save[m].pref THEN "resolving" ELSE "reading",
                          ![m].tokens = TokensOf(save[m].names), ![m].names = {}]
  /\ row' = [row EXCEPT ![m].ents = IF row[m].there THEN TokensOf(save[m].names) \cup save[m].orgs
                                    ELSE @]
  /\ raced' = (raced \/ Overlaps)
  /\ UNCHANGED <<forget, chunks, retiredBy, erased, cut>>

TaskStarts(m) ==
  /\ save[m].pc = "queued"
  /\ Pseudonymize(save[m].names)
  /\ save' = [save EXCEPT ![m].pc = IF save[m].pref THEN "resolving" ELSE "reading",
                          ![m].tokens = TokensOf(save[m].names), ![m].names = {}]
  /\ raced' = (raced \/ Overlaps)
  /\ UNCHANGED <<row, forget, chunks, retiredBy, erased, cut>>

\* The task looks for its row first, and resolves no conflicts without it.
TaskResolves(m) ==
  /\ save[m].pc = "resolving"
  /\ save' = [save EXCEPT ![m].pc = IF row[m].there THEN "embedded" ELSE "reading"]
  /\ UNCHANGED <<vault, row, forget, chunks, history>>

Entities(m) == save[m].tokens \cup save[m].orgs

\* The valid rows that share an entity.
ConflictRows(m) ==
  {p \in Memories \ {m} : row[p].there /\ row[p].valid /\ row[p].ents \cap Entities(m) # {}}

\* A preference conflicts with an earlier one that is similar enough: which ones are, Candidates
\* chooses.
ResolvesConflict(m, p) == save[m].pref /\ row[p].pref /\ row[p].valid

Candidates(m, S) ==
  /\ save[m].pc = "embedded"
  /\ S \subseteq {p \in ConflictRows(m) : ResolvesConflict(m, p)}
  /\ save' = [save EXCEPT ![m].pc = "retiring", ![m].cands = S]
  /\ UNCHANGED <<vault, row, forget, chunks, history>>

\* memory_update_valid_to touches a row that is still there and valid.
Retire(m, p) ==
  /\ save[m].pc = "retiring" /\ p \in save[m].cands
  /\ save' = [save EXCEPT ![m].cands = @ \ {p}]
  /\ IF row[p].there /\ row[p].valid
     THEN /\ row' = [row EXCEPT ![p].valid = FALSE]
          /\ retiredBy' = [retiredBy EXCEPT ![p] = m]
     ELSE UNCHANGED <<row, retiredBy>>
  /\ UNCHANGED <<vault, forget, chunks, erased, raced, cut>>

Resolved(m) ==
  /\ save[m].pc = "retiring" /\ save[m].cands = {}
  /\ save' = [save EXCEPT ![m].pc = IF save[m].task THEN "reading" ELSE "inserting"]
  /\ UNCHANGED <<vault, row, forget, chunks, history>>

Referring(r, m) == [r EXCEPT !.tokens = save[m].tokens, !.ents = Entities(m)]

Insert(m) ==
  /\ save[m].pc = "inserting"
  /\ row' = [row EXCEPT ![m] = Referring([NoRow EXCEPT !.there = TRUE, !.pref = save[m].pref,
                                                       !.valid = TRUE], m)]
  /\ save' = [save EXCEPT ![m] = Finished("done")]
  /\ UNCHANGED <<vault, forget, chunks, history>>

\* The task reads its row once more, to write all of it back with the references.
ReadRow(m) ==
  /\ save[m].pc = "reading"
  /\ save' = [save EXCEPT ![m] = IF row[m].there
                                 THEN [save[m] EXCEPT !.pc = "writing", !.copy = row[m]]
                                 ELSE Finished("done")]
  /\ UNCHANGED <<vault, row, forget, chunks, history>>

\* Mutant: a row that was deleted meanwhile is inserted again.
WriteRowUpserts(m) ==
  /\ save[m].pc = "writing"
  /\ row' = [row EXCEPT ![m] = Referring(save[m].copy, m)]
  /\ save' = [save EXCEPT ![m] = Finished("done")]
  /\ UNCHANGED <<vault, forget, chunks, history>>

\* Mutant: the references are written whether or not there still is a row.
WriteRowBlind(m) ==
  /\ save[m].pc = "writing"
  /\ row' = [row EXCEPT ![m] = Referring(row[m], m)]
  /\ save' = [save EXCEPT ![m] = Finished("done")]
  /\ UNCHANGED <<vault, forget, chunks, history>>

\* A row that was deleted meanwhile is not inserted again.
WriteRow(m) ==
  /\ save[m].pc = "writing"
  /\ row' = [row EXCEPT ![m] = IF row[m].there THEN Referring(save[m].copy, m) ELSE row[m]]
  /\ save' = [save EXCEPT ![m] = Finished("done")]
  /\ UNCHANGED <<vault, forget, chunks, history>>

\* A call returned an error, or the process stopped: what is written stays.
SaveFails(m) ==
  /\ save[m].pc \in Tokenized \cup {"queued"}
  /\ save' = [save EXCEPT ![m] = Finished("failed")]
  /\ UNCHANGED <<vault, row, forget, chunks, history>>

Invalidate(m) ==
  /\ row[m].there /\ row[m].valid
  /\ row' = [row EXCEPT ![m].valid = FALSE]
  /\ UNCHANGED <<vault, save, forget, chunks, history>>

-----------------------------------------------------------------------------
(* Forgetting memories: by id, or the hits of a query.                       *)

StartForget(f, T) ==
  /\ forget[f].pc = "idle"
  /\ T # {} /\ \A m \in T : row[m].there
  /\ forget' = [forget EXCEPT ![f] = [NewForget EXCEPT !.pc = "reading", !.todo = T]]
  /\ raced' = (raced \/ \E m \in Memories : save[m].pc \in Tokenized)
  /\ UNCHANGED <<vault, row, save, chunks, retiredBy, erased, cut>>

\* The row of a target is read for its tokens; one that is gone is no target.
ReadTarget(f, m) ==
  /\ forget[f].pc = "reading" /\ m \in forget[f].todo
  /\ forget' = [forget EXCEPT ![f].todo = @ \ {m},
                              ![f].targets = IF row[m].there THEN @ \cup {m} ELSE @,
                              ![f].tokens = @ \cup row[m].tokens]
  /\ UNCHANGED <<vault, row, save, chunks, history>>

EndReading(f) ==
  /\ forget[f].pc = "reading" /\ forget[f].todo = {}
  /\ forget' = [forget EXCEPT ![f].pc = "deleting", ![f].took = forget[f].tokens]
  /\ UNCHANGED <<vault, row, save, chunks, history>>

DeleteTarget(f, m) ==
  /\ forget[f].pc = "deleting" /\ m \in forget[f].targets
  /\ row' = [row EXCEPT ![m] = NoRow]
  /\ forget' = [forget EXCEPT ![f].targets = @ \ {m}]
  /\ UNCHANGED <<vault, save, chunks, history>>

EndDeleting(f) ==
  /\ forget[f].pc = "deleting" /\ forget[f].targets = {}
  /\ forget' = [forget EXCEPT ![f].pc = "counting"]
  /\ UNCHANGED <<vault, row, save, chunks, history>>

\* Mutant: only the memories that are still valid are counted.
ReferredValid(t) == \E m \in Memories : row[m].valid /\ t \in row[m].tokens

Referred(t) == \E m \in Memories : t \in row[m].tokens

\* token_reference_count scans the rows of all memories.
Count(f, t) ==
  /\ forget[f].pc = "counting" /\ t \in forget[f].tokens
  /\ forget' = IF Referred(t) THEN [forget EXCEPT ![f].tokens = @ \ {t}]
               ELSE [forget EXCEPT ![f].pc = "purging", ![f].todo = {t}]
  /\ UNCHANGED <<vault, row, save, chunks, history>>

\* Mutant: the vault is asked with the token, but only looks for originals.
PurgeByOriginal(f, t) ==
  /\ forget[f].pc = "purging" /\ t \in forget[f].todo
  /\ forget' = [forget EXCEPT ![f].pc = "counting", ![f].todo = {}, ![f].tokens = @ \ {t}]
  /\ UNCHANGED <<vault, row, save, chunks, history>>

\* A token that the vault no longer has is nothing to purge.
Purge(f, t) ==
  /\ forget[f].pc = "purging" /\ t \in forget[f].todo
  /\ live' = [live EXCEPT ![t[1]] = IF IsLive(t) THEN 0 ELSE @]
  /\ forget' = [forget EXCEPT ![f].pc = "counting", ![f].todo = {}, ![f].tokens = @ \ {t}]
  /\ UNCHANGED <<gen, row, save, chunks, history>>

EndForget(f) ==
  /\ forget[f].pc = "counting" /\ forget[f].tokens = {}
  /\ forget' = [forget EXCEPT ![f] = [NewForget EXCEPT !.pc = "done"]]
  /\ UNCHANGED <<vault, row, save, chunks, history>>

ForgetFails(f) ==
  /\ forget[f].pc \in Running
  /\ forget' = [forget EXCEPT ![f] = [NewForget EXCEPT !.pc = "failed"]]
  /\ cut' = TRUE
  /\ UNCHANGED <<vault, row, save, chunks, retiredBy, erased, raced>>

-----------------------------------------------------------------------------
SaveStep(m) ==
  \/ \E N \in SUBSET Names, O \in SUBSET Orgs, p \in BOOLEAN :
       SaveSync(m, N, O, p) \/ \E mode \in Modes : SaveFast(m, mode, N, O, p)
  \/ TaskStarts(m) \/ TaskResolves(m)
  \/ (\E S \in SUBSET Memories : Candidates(m, S)) \/ (\E p \in Memories : Retire(m, p))
  \/ Resolved(m) \/ Insert(m) \/ ReadRow(m) \/ WriteRow(m) \/ SaveFails(m) \/ Invalidate(m)

ForgetStep(f) ==
  \/ \E T \in SUBSET Memories : StartForget(f, T)
  \/ \E m \in Memories : ReadTarget(f, m) \/ DeleteTarget(f, m)
  \/ EndReading(f) \/ EndDeleting(f)
  \/ \E t \in Tokens : Count(f, t) \/ Purge(f, t)
  \/ EndForget(f) \/ ForgetFails(f)

Next ==
  \/ \E m \in Memories : SaveStep(m)
  \/ \E f \in Forgets : ForgetStep(f)
  \/ \E n \in Names : Recall(n) \/ IndexDoc(n) \/ EraseSubject(n)

Spec == Init /\ [][Next]_vars
-----------------------------------------------------------------------------
(* Properties.                                                              *)

RowType == [there : BOOLEAN, tokens : SUBSET Tokens, ents : SUBSET (Tokens \cup Orgs),
            pref : BOOLEAN, valid : BOOLEAN]

SaveType ==
  [pc : {"new", "queued", "done", "failed"} \cup Tokenized, task : BOOLEAN,
   names : SUBSET Names, orgs : SUBSET Orgs, pref : BOOLEAN, tokens : SUBSET Tokens,
   cands : SUBSET Memories, copy : RowType]

ForgetType ==
  [pc : {"idle", "done", "failed"} \cup Running, todo : SUBSET (Memories \cup Tokens),
   targets : SUBSET Memories, tokens : SUBSET Tokens, took : SUBSET Tokens]

TypeOK ==
  /\ live \in [Names -> 0 .. MaxGen] /\ gen \in [Names -> 0 .. MaxGen]
  /\ row \in [Memories -> RowType]
  /\ save \in [Memories -> SaveType]
  /\ forget \in [Forgets -> ForgetType]
  /\ chunks \subseteq Tokens /\ erased \subseteq Tokens
  /\ retiredBy \in [Memories -> Memories \cup {NoMemory}]
  /\ raced \in BOOLEAN /\ cut \in BOOLEAN
  /\ \A n \in Names : live[n] <= gen[n]
  /\ \A m \in Memories : ~row[m].there => row[m] = NoRow

\* Forgetting some memories does not take the tokens of the others: a name in a memory
\* that is kept is resolved by the vault until its subject is erased, whatever forget
\* calls run at once or break off (pipeline.rs 1692-1724).  Where no save overlapped one.
KeptResolves ==
  ~raced => \A m \in Memories : \A t \in row[m].tokens : IsLive(t) \/ t \in erased

\* The cascade leaves nothing: when a forget call ends, a token of a memory it deleted is
\* gone from the vault, or a memory that is kept refers to it, or another forget call has
\* still to count it.  Where no save overlapped one and none broke off.
CascadeComplete ==
  [][\A f \in Forgets :
       forget[f].pc = "counting" /\ forget'[f].pc = "done" /\ ~raced /\ ~cut =>
         \A t \in forget[f].took :
           IsLive(t) => Referred(t) \/ \E g \in Forgets \ {f} : t \in forget[g].tokens]_vars

\* A memory that was forgotten does not come back: no task that was still to enrich it
\* inserts its row again (store.rs 491-509, an update that inserts nothing).
Gone(m) == ~row[m].there /\ (save[m].task \/ save[m].pc \in {"done", "failed"})

ForgottenStays == [][\A m \in Memories : Gone(m) => Gone(m)']_vars

\* Of two preferences that are saved at once at most one retires the other, whatever order
\* their tasks run in: the conflict never takes both (pipeline.rs 1156-1175, 1258-1290).
OneSurvives == \A m, p \in Memories : retiredBy[p] = m => retiredBy[m] # p

\* What a document says survives the cascade: "a vault entry survives as long as any memory
\* row OR chunk row references it" (docs/superpowers/specs/
\* 2026-05-15-anno-rag-data-subject-pack-v1.md:275).  The code counts memories only.
ChunksResolve == \A t \in chunks : IsLive(t) \/ t \in erased

\* The tokens so far, and those that the vault has no more.
Minted == UNION {{<<n, g>> : g \in 1 .. gen[n]} : n \in Names}
Ended == {t \in Minted : ~IsLive(t)}

Store == INSTANCE TokenStore WITH
  Originals <- Names, issued <- {<<t, t[1]>> : t \in Minted}, left <- Ended, gone <- Ended,
  answer <- [t \in Tokens |-> IF IsLive(t) THEN {t[1]} ELSE {}]

\* The vault of this module is a token store, as that of PseudonymVault is: it takes no
\* more for granted than is shown there.
StoreRefined == Store!Spec
=============================================================================
