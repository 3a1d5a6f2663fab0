--------------------------- MODULE KnowledgeSync ---------------------------
(***************************************************************************)
(* The local knowledge index: folders registered as sources, the sync that *)
(* brings their files into the SQLite full-text index, and forgetting a    *)
(* source.  Files are edited and deleted underneath.                       *)
(*                                                                         *)
(* A sync takes a snapshot of the sources, then of the folder with the     *)
(* hash of every file, and works the files off one at a time; extraction   *)
(* and pseudonymization are awaited between the check of a file and its    *)
(* commit.  Nothing keeps two calls apart: each SQLite statement or        *)
(* transaction is a step, and the calls may belong to different servers.   *)
(* A content stands for its hash as well: SHA-256 tells contents apart.    *)
(***************************************************************************)
EXTENDS Integers, FiniteSets

CONSTANTS
  Sources,   \* local folders that can be registered; all hold the same files
  Files,     \* supported files that fit the byte budget, numbered in path order
  Contents,  \* the contents a file can have
  MaxFiles,  \* DiscoverBudget.max_files
  Syncs,     \* ids of sync calls
  Regs,      \* ids of registrations
  Forgets,   \* ids of forget calls
  Overlap,   \* TRUE when a client may start a sync while another one runs
  Reuse,     \* TRUE when a file may get a content back that it had before
  NoFile, NoSource

ASSUME FilesAssumption == Files \subseteq Nat /\ IsFiniteSet(Files)
ASSUME BudgetAssumption == MaxFiles \in Nat
ASSUME ModeAssumption == Overlap \in BOOLEAN /\ Reuse \in BOOLEAN
ASSUME NullAssumption == NoFile \notin Contents /\ NoSource \notin Sources

VARIABLES
  file,     \* file[f]: the content of f on disk, or NoFile
  past,     \* past[f]: the contents f has had
  level,    \* level[s]: how many of the rows source, account, scope of s exist
  epoch,    \* epoch[s]: how often s was forgotten (history)
  obj,      \* obj[s][f]: the object of f under s, its revisions and its chunks
  sync,     \* sync[c]: the state of a sync call
  reg,      \* reg[r]: the state of a registration
  forget    \* forget[d]: the state of a forget call

disk == <<file, past>>
rows == <<level, epoch>>
vars == <<file, past, level, epoch, obj, sync, reg, forget>>

-----------------------------------------------------------------------------
\* revs: the provider versions in knowledge_revisions; text: what the chunks and the
\* FTS rows hold.  History: the epochs when the scope was read and when they were written.
NoObject == [revs |-> {}, text |-> NoFile, read |-> 0, written |-> 0]

NewSync == [pc |-> "idle", queue |-> {}, src |-> NoSource, epoch |-> 0,
            found |-> [f \in Files |-> NoFile], todo |-> {}, skipped |-> {},
            failed |-> {}, left |-> {}, file |-> 0, text |-> NoFile]

Running == {"listed", "scoped", "walking", "extracting", "committing"}

Init ==
  /\ file = [f \in Files |-> NoFile]
  /\ past = [f \in Files |-> {}]
  /\ level = [s \in Sources |-> 0]
  /\ epoch = [s \in Sources |-> 0]
  /\ obj = [s \in Sources |-> [f \in Files |-> NoObject]]
  /\ sync = [c \in Syncs |-> NewSync]
  /\ reg = [r \in Regs |-> [pc |-> "idle", src |-> NoSource, row |-> 1]]
  /\ forget = [d \in Forgets |-> [pc |-> "idle", src |-> NoSource]]

-----------------------------------------------------------------------------
(* The folder.                                                              *)

Edit(f, v) ==
  /\ v # file[f]
  /\ v \in past[f] => Reuse
  /\ file' = [file EXCEPT ![f] = v]
  /\ past' = [past EXCEPT ![f] = @ \cup {v}]
  /\ UNCHANGED <<rows, obj, sync, reg, forget>>

Delete(f) ==
  /\ file[f] # NoFile
  /\ file' = [file EXCEPT ![f] = NoFile]
  /\ UNCHANGED <<past, rows, obj, sync, reg, forget>>

-----------------------------------------------------------------------------
(* register_local_folder: three inserts, each of its own transaction.  A    *)
(* row that exists is left alone.  Accounts and scopes have foreign keys,   *)
(* so the rows of a source exist in the order source, account, scope.       *)

StartRegister(r, s) ==
  /\ reg[r].pc = "idle"
  /\ reg' = [reg EXCEPT ![r] = [pc |-> "inserting", src |-> s, row |-> 1]]
  /\ UNCHANGED <<disk, rows, obj, sync, forget>>

Answer(r) ==
  reg' = [reg EXCEPT ![r] = IF reg[r].row = 3 THEN [reg[r] EXCEPT !.pc = "answered"]
                                              ELSE [reg[r] EXCEPT !.row = reg[r].row + 1]]

\* Variant with a bug: the foreign key error is ignored with the others.
InsertRowIgnoringKeys(r) ==
  /\ reg[r].pc = "inserting"
  /\ LET s == reg[r].src  i == reg[r].row IN
     level' = [level EXCEPT ![s] = IF @ = i - 1 THEN i ELSE @]
  /\ Answer(r)
  /\ UNCHANGED <<disk, epoch, obj, sync, forget>>

InsertRow(r) ==
  /\ reg[r].pc = "inserting"
  /\ LET s == reg[r].src  i == reg[r].row IN
     /\ level[s] >= i - 1
     /\ level' = [level EXCEPT ![s] = IF @ = i - 1 THEN i ELSE @]
  /\ Answer(r)
  /\ UNCHANGED <<disk, epoch, obj, sync, forget>>

\* The parent row is gone (OR IGNORE does not cover foreign keys), another error
\* of the store, or the end of the server.
RegisterFails(r) ==
  /\ reg[r].pc = "inserting"
  /\ reg' = [reg EXCEPT ![r].pc = "failed"]
  /\ UNCHANGED <<disk, rows, obj, sync, forget>>

-----------------------------------------------------------------------------
(* The sync.                                                                *)

\* list_sources, for one source or for all.  A client that waits for the answer does
\* not start a second sync.
ListSources(c, wanted) ==
  /\ sync[c].pc = "idle"
  /\ \A d \in Syncs : sync[d].pc \in Running => Overlap
  /\ sync' = [sync EXCEPT ![c] =
       [NewSync EXCEPT !.pc = "listed", !.queue = {s \in wanted : level[s] >= 1}]]
  /\ UNCHANGED <<disk, rows, obj, reg, forget>>

\* enabled_scopes_for_source: a source whose scope is missing has nothing to walk.
ListScopes(c, s) ==
  /\ sync[c].pc = "listed"
  /\ s \in sync[c].queue
  /\ sync' = [sync EXCEPT ![c] =
       IF level[s] = 3
         THEN [NewSync EXCEPT !.pc = "scoped", !.queue = sync[c].queue \ {s},
                              !.src = s, !.epoch = epoch[s]]
         ELSE [sync[c] EXCEPT !.queue = sync[c].queue \ {s}]]
  /\ UNCHANGED <<disk, rows, obj, reg, forget>>

\* discover: the first MaxFiles files in path order.
Discovered ==
  LET there == {f \in Files : file[f] # NoFile} IN
  {f \in there : Cardinality({g \in there : g < f}) < MaxFiles}

Discover(c) ==
  /\ sync[c].pc = "scoped"
  /\ sync' = [sync EXCEPT ![c].pc = "walking", ![c].todo = Discovered,
       ![c].found = [f \in Files |-> IF f \in Discovered THEN file[f] ELSE NoFile]]
  /\ UNCHANGED <<disk, rows, obj, reg, forget>>

IsNext(c, f) == f \in sync[c].todo /\ \A g \in sync[c].todo : f <= g

\* Variant with a bug: any indexed object is ready.
IsReadyAnyRevision(c, f) == obj[sync[c].src][f].revs # {}

\* revision_is_fts_ready: the object has a revision of this content, whatever its
\* chunks hold by now.
IsReady(c, f) == sync[c].found[f] \in obj[sync[c].src][f].revs

Skip(c, f) ==
  /\ sync[c].pc = "walking" /\ IsNext(c, f)
  /\ IsReady(c, f)
  /\ sync' = [sync EXCEPT ![c].todo = @ \ {f}, ![c].skipped = @ \cup {f}]
  /\ UNCHANGED <<disk, rows, obj, reg, forget>>

Work(c, f) ==
  /\ sync[c].pc = "walking" /\ IsNext(c, f)
  /\ ~IsReady(c, f)
  /\ sync' = [sync EXCEPT ![c].pc = "extracting", ![c].file = f]
  /\ UNCHANGED <<disk, rows, obj, reg, forget>>

\* The time budget is used up: the files that are left wait for another run.
OutOfTime(c, f) ==
  /\ sync[c].pc = "walking" /\ IsNext(c, f)
  /\ ~IsReady(c, f)
  /\ sync' = [sync EXCEPT ![c].todo = {}, ![c].left = sync[c].todo]
  /\ UNCHANGED <<disk, rows, obj, reg, forget>>

\* The check, the extraction, the pseudonymization or the commit of a file fails: the
\* file is counted and the walk goes on.
FileFails(c) ==
  \/ /\ sync[c].pc = "walking"
     /\ \E f \in sync[c].todo :
          /\ IsNext(c, f)
          /\ sync' = [sync EXCEPT ![c].todo = @ \ {f}, ![c].failed = @ \cup {f}]
     /\ UNCHANGED <<disk, rows, obj, reg, forget>>
  \/ /\ sync[c].pc \in {"extracting", "committing"}
     /\ sync' = [sync EXCEPT ![c].pc = "walking", ![c].todo = @ \ {sync[c].file},
                             ![c].failed = @ \cup {sync[c].file}]
     /\ UNCHANGED <<disk, rows, obj, reg, forget>>

\* Variant with a bug: a file that is gone is indexed as empty.
ExtractMissing(c) ==
  /\ sync[c].pc = "extracting"
  /\ sync' = [sync EXCEPT ![c].pc = "committing", ![c].text = file[sync[c].file]]
  /\ UNCHANGED <<disk, rows, obj, reg, forget>>

\* extract reads the file once more, then its text is pseudonymized.
Extract(c) ==
  /\ sync[c].pc = "extracting"
  /\ file[sync[c].file] # NoFile
  /\ sync' = [sync EXCEPT ![c].pc = "committing", ![c].text = file[sync[c].file]]
  /\ UNCHANGED <<disk, rows, obj, reg, forget>>

\* commit_object, one transaction: the revision of the hash found by the walk is
\* added to those there are, the chunks and FTS rows are replaced.
Commit(c) ==
  /\ sync[c].pc = "committing"
  /\ LET f == sync[c].file  s == sync[c].src IN
     /\ obj' = [obj EXCEPT ![s][f] =
          [revs |-> @.revs \cup {sync[c].found[f]}, text |-> sync[c].text,
           read |-> sync[c].epoch, written |-> epoch[s]]]
     /\ sync' = [sync EXCEPT ![c].pc = "walking", ![c].todo = @ \ {f}]
  /\ UNCHANGED <<disk, rows, reg, forget>>

EndWalk(c) ==
  /\ sync[c].pc = "walking"
  /\ sync[c].todo = {}
  /\ sync' = [sync EXCEPT ![c] = [NewSync EXCEPT !.pc = "listed", !.queue = sync[c].queue]]
  /\ UNCHANGED <<disk, rows, obj, reg, forget>>

EndSync(c) ==
  /\ sync[c].pc = "listed"
  /\ sync[c].queue = {}
  /\ sync' = [sync EXCEPT ![c].pc = "ended"]
  /\ UNCHANGED <<disk, rows, obj, reg, forget>>

\* The folder cannot be listed, the scopes cannot be read, or the server stops.
SyncFails(c) ==
  /\ sync[c].pc \in Running
  /\ sync' = [sync EXCEPT ![c] = [NewSync EXCEPT !.pc = "ended"]]
  /\ UNCHANGED <<disk, rows, obj, reg, forget>>

-----------------------------------------------------------------------------
(* Forgetting, by source id or by the path of the scope.                    *)

\* list_sources or source_by_provider_key finds the source.
FindSource(d, s) ==
  /\ forget[d].pc = "idle"
  /\ level[s] >= 1
  /\ forget' = [forget EXCEPT ![d] = [pc |-> "found", src |-> s]]
  /\ UNCHANGED <<disk, rows, obj, sync, reg>>

\* A source without its scope is not found by path: nothing is forgotten.
MissSource(d, s) ==
  /\ forget[d].pc = "idle"
  /\ level[s] < 3
  /\ forget' = [forget EXCEPT ![d] = [pc |-> "ended", src |-> s]]
  /\ UNCHANGED <<disk, rows, obj, sync, reg>>

\* Variant with a bug: the source goes and its objects stay.
ForgetRowsOnly(d) ==
  /\ forget[d].pc = "found"
  /\ LET s == forget[d].src IN
     /\ level' = [level EXCEPT ![s] = 0]
     /\ epoch' = [epoch EXCEPT ![s] = @ + 1]
  /\ forget' = [forget EXCEPT ![d].pc = "ended"]
  /\ UNCHANGED <<disk, obj, sync, reg>>

\* forget_source, one transaction: FTS rows, objects with all that hangs on them, and
\* the source with its account and scope.
ForgetSource(d) ==
  /\ forget[d].pc = "found"
  /\ LET s == forget[d].src IN
     /\ obj' = [obj EXCEPT ![s] = [f \in Files |-> NoObject]]
     /\ level' = [level EXCEPT ![s] = 0]
     /\ epoch' = [epoch EXCEPT ![s] = @ + 1]
  /\ forget' = [forget EXCEPT ![d].pc = "ended"]
  /\ UNCHANGED <<disk, sync, reg>>

-----------------------------------------------------------------------------
SyncStep(c) ==
  \/ ListSources(c, Sources)
  \/ \E s \in Sources : ListSources(c, {s}) \/ ListScopes(c, s)
  \/ Discover(c)
  \/ \E f \in Files : Skip(c, f) \/ Work(c, f) \/ OutOfTime(c, f)
  \/ FileFails(c) \/ Extract(c) \/ Commit(c) \/ EndWalk(c) \/ EndSync(c) \/ SyncFails(c)

RegStep(r) == (\E s \in Sources : StartRegister(r, s)) \/ InsertRow(r) \/ RegisterFails(r)

ForgetStep(d) ==
  (\E s \in Sources : FindSource(d, s) \/ MissSource(d, s)) \/ ForgetSource(d)

Next ==
  \/ \E f \in Files : (\E v \in Contents : Edit(f, v)) \/ Delete(f)
  \/ \E c \in Syncs : SyncStep(c)
  \/ \E r \in Regs : RegStep(r)
  \/ \E d \in Forgets : ForgetStep(d)

Spec == Init /\ [][Next]_vars
-----------------------------------------------------------------------------
(* Properties.                                                              *)

ObjectType == [revs : SUBSET Contents, text : Contents \cup {NoFile},
               read : Nat, written : Nat]

SyncType ==
  [pc : {"idle", "ended"} \cup Running, queue : SUBSET Sources,
   src : Sources \cup {NoSource}, epoch : Nat,
   found : [Files -> Contents \cup {NoFile}], todo : SUBSET Files, skipped : SUBSET Files,
   failed : SUBSET Files, left : SUBSET Files, file : Files \cup {0},
   text : Contents \cup {NoFile}]

TypeOK ==
  /\ file \in [Files -> Contents \cup {NoFile}]
  /\ past \in [Files -> SUBSET Contents]
  /\ level \in [Sources -> 0 .. 3]
  /\ epoch \in [Sources -> Nat]
  /\ obj \in [Sources -> [Files -> ObjectType]]
  /\ sync \in [Syncs -> SyncType]
  /\ reg \in [Regs -> [pc : {"idle", "inserting", "answered", "failed"},
                       src : Sources \cup {NoSource}, row : 1 .. 3]]
  /\ forget \in [Forgets -> [pc : {"idle", "found", "ended"}, src : Sources \cup {NoSource}]]
  /\ \A s \in Sources, f \in Files : obj[s][f].revs # {} => obj[s][f].text # NoFile

\* Forgetting is complete, and only a sync that had read the scope before its source was
\* forgotten writes to the index of a source that is gone: whatever the index holds was
\* written since the source was last forgotten (control_store.rs 563-584).
OrphanIsRaced ==
  \A s \in Sources, f \in Files :
    obj[s][f].revs # {} =>
      /\ obj[s][f].written = epoch[s]
      /\ level[s] < 3 => obj[s][f].read < epoch[s]

\* When a walk ends, every file it did not fail on or leave is in the index with the
\* content the file has, if the file still has the content found and its source was
\* not forgotten meanwhile: a file that was skipped is up to date as well (indexer.rs
\* 88-99).  For a client that runs one sync at a time over files that do not go back
\* to an earlier content.
SyncShowsFile ==
  [][\A c \in Syncs : LET s == sync[c].src IN
       sync[c].pc = "walking" /\ sync'[c].pc = "listed" /\ epoch[s] = sync[c].epoch =>
         \A f \in Files \ (sync[c].failed \cup sync[c].left) :
           sync[c].found[f] # NoFile /\ file[f] = sync[c].found[f] => obj[s][f].text = file[f]]_vars

\* The three inserts and the cascade behave as one step each (control_store.rs 289-339).
Registry == INSTANCE FolderRegistry WITH
  listed <- {s \in Sources : level[s] = 3},
  answered <- {r \in Regs : reg[r].pc = "answered"}

ScopesRefined == Registry!Spec

-----------------------------------------------------------------------------
(* What the comments say, and the code does not do.                         *)

\* folder.rs 16: "remaining files are picked up next run".  Then a run whose files are
\* all ready has no file left that was never indexed.
RemainingPickedUp ==
  [][\A c \in Syncs : LET s == sync[c].src IN
       /\ sync[c].pc = "scoped" /\ sync'[c].pc = "walking"
       /\ \A f \in sync'[c].todo : sync'[c].found[f] \in obj[s][f].revs
       => \A f \in Files : file[f] # NoFile => obj[s][f].revs # {}]_vars
=============================================================================
