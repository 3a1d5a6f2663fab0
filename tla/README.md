# TLA+ specifications of anno

anno is a Rust workspace for working on legal documents locally: an MCP server
(`crates/anno-rag-mcp`) indexes folders of documents, keeps a pseudonymised copy of
their text in several local stores, answers searches over it, and runs "tabular
reviews" in which a language model fills a grid of documents by columns. This
directory holds TLA+ models of the parts of it in which several writers, failing
stores and interrupted runs meet, the TLC runs that check them on small instances,
and TLAPS proofs of their main properties for instances of any size.

Contents: 1 inventory, 2 how to run, 3 the modules, 4 the runs, 5 fairness,
6 proofs, 7 where code and documentation disagree, 8 what is not modelled, 9 what is left.

Paths below are relative to `src/crates/` unless they start otherwise.

---

## 1. Inventory

### 1.1 Components, their state and their operations

| component | code | state | operations |
|---|---|---|---|
| background ingestion jobs | `anno-rag-mcp/src/lib.rs` (`legal_ingest_impl`, startup sweep), `anno-knowledge-store/src/jobs.rs` | `active_ingest_jobs` (one map per process), table `index_jobs` (shared SQLite file) | `legal_ingest`, the task and the progress watcher it spawns, sweep at start, `legal_ingest_status` (read) |
| legal document pipeline | `anno-rag/src/pipeline.rs`, `store.rs`, `legal/{store,status,kg}.rs`, `anno-rag-mcp/src/legal_maintenance.rs` | LanceDB tables for chunks, enrichment and enrichment status, a SQLite or Lance knowledge graph | `ingest_folder_with_scope`, recovery of documents without graph nodes, `drain_enrichment_backlog`, `forget_folder_path`, `forget_doc_ids` |
| local knowledge sync | `anno-rag-mcp/src/{indexer,knowledge}.rs`, `anno-knowledge-store/src/control_store.rs`, `anno-source-local/src/folder.rs` | SQLite: sources, accounts, scopes, objects, revisions, chunks, FTS | `register_local_folder`, `sync_local_folder`, `forget_source` |
| tabular review cells | `anno-rag-tabular/src/{fanout,extract/*,schema/conditional,storage/{cells,lock}}.rs`, `review_*` handlers in `anno-rag-mcp/src/lib.rs` | append-only Lance table of cell versions | row extraction in waves, forced extraction, `review_refine_cell`, `review_set_cell`, lock, unlock |
| review runs and review storage | `anno-rag-tabular/src/storage/*`, `lib.rs` 434-525, 1991-2220 | tables of reviews, columns, rows; `extraction_status` | create a review, add rows, start an extraction, status, delete a review |
| corpus lifecycle | `anno-corpus-store`, `anno-corpus-core`, `anno-rag-mcp/src/{corpus,corpus_sync}.rs`, `lib.rs` 1507-1976 | SQLite registry: corpora, bindings, documents | index a root (register, bind, sync, ingest), corpus sync, forget by corpus, source or folder |
| privacy gateway | `anno-privacy-gateway/src` | hash-chained audit file with its signature file, the buffers of a streamed answer, file registry | proxy a request, stream its answer, append an audit event, resume the chain |
| pseudonym vault | `anno-rag/src/vault*.rs`, vendored `cloakpipe` | encrypted map token <-> original in memory and in a file | open with recovery, replace originals, look up, erase, save |
| memory layer | `anno-rag/src/memory.rs`, `pipeline.rs` 1100-1730, `store.rs` | Lance table of memories | save at once or with a background task, retire conflicting preferences, invalidate, recall, forget with its cascade into the vault |
| tool routing and warm-up | `anno-rag-mcp/src/{health,envelope,params,warmup_history}.rs` | warm-up phase | parse, route, answer |
| detection, embedding, reranking, search | `anno-rag/src/{detect,embed,rerank}.rs`, `anno-rag-mcp/src/search.rs` | models in memory | pure computation, read-only queries |
| privacy workspace | `anno-rag/src/privacy_*.rs` | files of one case | sequential file-to-file steps |
| extraction prompts, verification, export | `anno-rag-tabular/src/{llm,verify,export,templates}` | none | pure, or the external language model |
| entity library, evaluation, command line, installer, configuration | `anno`, `anno-eval`, `anno-cli`, `anno-rag-bin`, `anno-rag-setup`, `anno-config-meta` | none shared | numeric and textual computation, argument parsing |

### 1.2 How they interact

* A host starts **one server process per client** (Claude Desktop and Claude Code each
  start one). All of them open the same data directory: the SQLite control store, the
  LanceDB tables, the vault file. Nothing but the stores is shared between processes.
* `legal_ingest` (ingestion jobs) spawns a task that calls the **document pipeline**;
  the pipeline reports progress over a watch channel to a second task that writes the
  job's row. The pipeline writes four stores one after the other, none of them in a
  transaction with another.
* Corpus sync calls knowledge sync and `legal_ingest`; forgetting a corpus calls
  `forget_source` and `forget_folder_path`.
* Indexing and forgetting a corpus go through the registry, which says which store holds
  what of it: the knowledge source, the legal chunks and the tables of its reviews.
* A review run reads the chunks of its documents, asks the language model, and appends
  cells; the reviewer's calls append to the same table while it runs.
* Pipeline, memory layer and gateway replace names by the **vault's** tokens; forgetting a
  memory erases the tokens no memory refers to any more. The gateway puts the originals back
  into the answer it streams.

### 1.3 What is hard

* **Interleaving.** Every `await` and every statement of a store is a point where another
  task, call or process comes in: query-then-insert (jobs), lock-check-then-append
  (cells), scope-read-then-commit (sync), probe-then-rewrite (pipeline).
* **Partial failure.** Store calls fail one by one; some errors end the call, some are
  logged, some are dropped, and each leaves a different mixture behind.
* **Crash and restart.** The map of a process dies, rows and chunks stay.
* **Files that move.** A file is hashed in one read and extracted in another.
* **Ties and duplicates.** Append-only tables whose readers decide which row counts.
* **Bounds.** File budgets, time budgets, a backlog taken 64 rows at a time.
* **One of several stores.** A forget call empties three of them and may fail on any; counting
  the references to a token and erasing it are two calls.
* **Fragments.** A streamed pseudonym is cut anywhere; text, timer and other frames race.

`PROJECT.json` lists these hazards one by one, at the line where each bites, with the
properties that cover it.

### 1.4 What makes each component correct

| component | properties |
|---|---|
| ingestion jobs | one job per corpus key in a process; a key in the map always has somebody who will take it out; at most one open row per process and corpus; status moves forward only; a finished task is `done`; progress stays within the walk; keys and `running` rows settle |
| review cells | both readers agree; only a human changes a locked cell; an override is what is shown afterwards; a gated column is filled only behind an open gate; an extraction ends |
| knowledge sync | a sync leaves the index at the content of the files; forgetting is complete up to syncs under way; registration acts as one step |
| document pipeline | never two contents of one file; a walk completes what earlier ones left; an interrupted forget can be repeated |
| vault | a token in a text that was handed out resolves to its original until it is erased, in memory and after any stop; it never stands for anything else; a confirmed erasure stays |
| memory layer | forgetting some memories leaves the names of the others; the cascade leaves no token behind; a forgotten memory does not come back; a conflict never retires both |
| corpus lifecycle, review storage | a corpus that is gone from the registry has left nothing in any store; a forget call that failed can be repeated to the end |
| gateway, streamed answer | what is streamed is the answer with its pseudonyms replaced as a whole, in order and complete; nothing is held without need |

---

## 2. Running

    tlc -workers 2 -config IngestJobs_safety.cfg MCIngestJobs
    tlapm IngestJobs_proofs.tla

Each `X_name.cfg` belongs to the module `MCX`; `PROJECT.json` lists all pairs. The community
modules must be on the path. Each `MCX` module adds to `X` only the symmetry sets and,
for the cells, the column graphs.

| module | role |
|---|---|
| `IngestJobs` | jobs, tasks, watchers, server processes |
| `KeyClaims` | abstract: the table of claims that `active_ingest_jobs` promises |
| `ReviewCells` | cell versions of one row, extraction, refinement, reviewers |
| `ReviewBoard` | abstract: the value, lock and author shown for each column |
| `KnowledgeSync` | folders, registration, sync, forget |
| `FolderRegistry` | abstract: a folder is listed or not; registering and forgetting are atomic |
| `DocIngest` | the pipeline over four stores, recovery, backlog, forget |
| `TokenStore` | abstract: what a vault of pseudonyms promises those who keep its tokens |
| `VaultMap` | operators: what minting, erasing, saving and loading do to a token map |
| `PseudonymVault` | processes with a vault in memory and its files, built on `VaultMap` |
| `MemoryLayer` | memories, the tasks that enrich them, forget calls and the vault entries |
| `CorpusLifecycle` | registry and stores under index calls, walks, reviews and forget calls |
| `GatewayStream` | the buffers of one streamed answer |
| `MC*` | instances for TLC |
| `*_proofs` | theorems |

In the models an operator commented "Variant with a bug" or "Mutant" is no part of the
specification: it is a plausible mistake in the definition that follows it, kept to show that
the properties notice it. `PROJECT.json` ("mutants") says which property each one breaks.

---

## 3. The modules

### 3.1 IngestJobs: a call of `legal_ingest` from claim to release

A call that gets past the map draws a fresh job id, and the call, the task it spawns, its
progress watcher and its row in `index_jobs` are all indexed by that id.

| state | code |
|---|---|
| `up[p]` | the server process is serving |
| `active[p][k]` | `active_ingest_jobs` of process `p` |
| `pc[j]`, `proc[j]`, `key[j]` | where call or task `j` stands, its process, its `corpus_key` |
| `walk[j]` | the counters of the folder walk |
| `row[j]` | `status` and `files_done` of the row |
| `watcher[j]` | the progress task: its own store handle, the last value it took |

`Claim` is check and insert under the write lock (lib.rs 654-670); `QueryFails`,
`FindRunning`, `FindNone` are the query for a running row of the corpus (672-695);
`Insert` and `InsertFails` the row (697-714); `StartWalk`, `WalkFile`, `EndWalk` the
pipeline's walk with each outcome of a file; `Reopen`, `Report`, `MarkDone` the final
writes through a second handle whose errors are dropped (765-835); `Release` the last
line of the task. `WatchOpen/Take/Write/End` are the watcher; the watch channel keeps
the last value only, so an older one may never be written. `Boot` is the sweep that every
server runs over the whole table (1161-1170), `Crash` takes a process's map and tasks away
and leaves the rows.

The constant `Faults` names the store operations that may fail. One fault breaks a
property by itself: `QueryFails` leaves the handler through `?` with the key still in the
map (section 7), so the properties about who owns a key are stated where it does not
occur, and the others where it does. `index_jobs.corpus_id` is NULL for a folder that
belongs to no corpus (`RowCorpus`), which is why such a folder is never deduplicated across
processes.

`KeyClaims` is what the map promises: one holder for a key, given up by the holder itself
or lost with the process, and a job claims once. `IngestJobs` implements it under
`holder <- active`.

### 3.2 ReviewCells: the versions of the cells of one row

`run_review` gives every row a task of its own and a cell belongs to one row, so one row
is modelled. `log[c]` is the append-only sequence of versions of column `c`'s cell;
`Latest` is the stable sort of `history()`/`latest()`, `BoardCell` the fold of
`all_for_review_latest` (cells.rs 287-365). `run[r]` is an extraction: `ListColumn` reads
which cells exist, `Wave`/`NextWave` are `topo_waves`, `Gate` evaluates a column's
predicate against the parent's cell at that moment (fanout.rs 318-345), `Extract` is the
call of the language model, which may leave any column out, `CheckLock` and `AppendCell`
are the two halves of `upsert` (cells.rs 219-232), `GiveUp` is any error or the end of the
server. `Refine` is `review_refine_cell`. `call[h]` is a reviewer's call: `ReadToSet` and
`ReadToLock` read the version to exceed, `Write` appends.

Extracted cells always carry version 1 (batch.rs 207): several may tie, and the first one
appended wins. `ReviewBoard` says what the reviewer may rely on: extraction fills empty
cells only, an override shows the reviewer's value, a lock call changes the lock and
nothing else.

### 3.3 KnowledgeSync: registering, syncing, forgetting a folder

`file`, `past` are the disk. `level[s]` counts the rows source, account, scope that exist:
foreign keys allow them in this order only, and `forget_source` removes all three.
`obj[s][f]` is the object of a file: `revs`, the hashes in `knowledge_revisions`, which
`commit_object` only ever adds to, and `text`, what the chunks hold, which it replaces.
`sync[c]` is a call: `ListSources`, `ListScopes`, `Discover` (the first `MaxFiles` of the
sorted listing, with their hashes), then file by file `Skip`, `Work`, `OutOfTime`,
`FileFails`, `Extract` (the second read of the file) and `Commit`. `epoch` counts how
often a source was forgotten and is history: it says which entries a sync wrote under a
scope it had read before. `FolderRegistry` is the promise of registration and forget as
single steps.

### 3.4 DocIngest: one corpus through four stores

A document is a path and a content (`scoped_doc_uuid`). `chunks[d]`, `legal`, `kg` and
`status` are the four stores. A walk reads a file (`ReadFile`: bytes, hence the id),
checks `doc_exists` (`Check`), and either indexes it (`Extract`, `DeleteRows`,
`InsertRows`, `Enrich`, `Link`) or probes and repairs it (`Probe`, `Load`, `Rewrite`,
`Relink`); `MarkOk/Pending/Failed` append to the status table. When the files are done,
`ListPending` and `TakeRow` drain the backlog. Any store call may fail, each with the
consequence it has in the code: before the insert a file is given up, after it the
document goes on the backlog, in the recovery it is only logged, in the backlog it ends the
drain. `WalkStops` is the end of the process between any two calls. `forget[f]` is
`forget_folder_path`: documents by their chunk rows, for each the rows of three stores,
then the chunk rows path by path.

`handled`, `superseded`, `raced` and `cut` are history variables for the properties. No
guard reads them.

### 3.5 PseudonymVault: a token map, its mutex and its file

`proc[p].map` is the map in memory and `proc[p].call` the call that holds its mutex;
`VaultMap` has what one replacement, one erasure, one save and one load do to a map. `path`
and `tmp` are the two files by their decrypted data, `Broken` where a write was cut or two
processes wrote into one file: authenticated encryption tells that apart, nothing else of it
matters. `fd[p]` is the file a process has open; it follows the file through a rename, as a
descriptor does. Opening reads `path` and falls back on `path.tmp`. A text with tokens is
handed out, and an erasure confirmed, after the save only; a save may fail while creating,
writing or renaming, and `Stop` ends a process between any two steps. `Concurrent` admits
several processes at once.

`TokenStore` is what all of this promises, without maps and files: a token stands for one
original for ever, an original has one token unless the erasure of the other has begun, a
token resolves until its erasure begins and no more once that is confirmed. `StoreRefined`
maps the answers to the map that is open or would be opened next (`Answering`), `left` to the
tokens an erasure took out of the map and `gone` to those whose erasure was confirmed. A stop
between the two may undo the erasure, as it may in the code: TokenStore's `Restart` has it.

### 3.6 MemoryLayer: memories and the tokens they refer to

A token is a name and a generation: a name that was erased gets a new one. `row[m]` is the
row of a memory, `save[m]` its save or its background task, `forget[f]` a call of
`forget_memory`: read the targets, delete their rows, count the references to each of their
tokens, purge those with none (pipeline.rs 1692-1724). `chunks` are tokens in indexed
documents, `erased` those erased by their subject's request. The vault's calls are atomic
here, which is what `PseudonymVault` shows for one process: `StoreRefined` says that this
vault is a `TokenStore` too, so that it takes nothing for granted but what that one does.
`raced` becomes true when a save
that has its tokens and a forget call are under way at the same time; nothing in the code
prevents that.

### 3.7 CorpusLifecycle: the registry and what it points to

One corpus (`register_root` refuses roots that overlap, each is on its own). `registry` is
its rows: corpus, source binding, folder binding, document ids, bound reviews; deleting the
corpus deletes all of them by cascade. `source`, `objects`, `legal`, `parts` are the stores.
`index[i]` is an index call (register, add the folder, bind it, sync, commit, start the legal
walk), `walk` the background walk that stores chunks file by file and registers binding and
documents at its end only, `review[r]` a review while it is created (with the undo when the
binding fails) and filled. `forget[f]` is `forget_corpus` call by call: documents, source,
legal folder, each review table by table, registry rows last and only without an error
(lib.rs 1890-2012). `ForgetOnlySource` and `ForgetOnlyLegal` are the other two targets of
`forget`. Sync, walk and extraction only add to a store here; their own steps are in
`KnowledgeSync`, `DocIngest` and `ReviewCells`, and `IngestJobs` is why there is one walk.
`alone` (no writer has run beside the call) and `whole` (all that is stored was registered
when it started) are history.

### 3.8 GatewayStream: one streamed answer

`got` and `put` are what the upstream sent and what the gateway passed on, `pending` the
`StreamBuffer`, `tool` the buffer of tool JSON. Text is made of pieces: the two halves of
a token's prefix, the digits (`Digit`), the end of a sentence and, in the history, "frame" for
any other frame. So a token is cut in every place a real one can be cut: within its prefix,
before its number and within its number, where one known token may be a prefix of another.
`Vault` gives the original of every known number, `Order` the numbers as the code sorts them,
longest first. `Open` is `ends_with_open_pseudonym_prefix`, `Ready` the rest of the test in
`push`, `Rehydrate` the vendored loop that replaces one token after the other. `Replace` keeps
positions: an original stands where its token began, "none" where the rest of it was.
`MCGatewayStream` checks on every text of six pieces that without the "none" this is what a
replacement from left to right gives. `mode` is the route: `stream_messages` with or without
the fresh scan (without it there is a timer), or `provider_stream_messages` with or without
privacy.

---

## 4. The runs

Every run covers one instance exhaustively. "Distinct states" are after symmetry.

| run | instance | distinct states | what it shows |
|---|---|---|---|
| `ingest_safety` | 2 processes, 3 calls, a corpus and a bare folder, every fault | 645 000 | `OneJobPerKey`, `OneOpenRowPerProc`, `StatusOrder` |
| `ingest_progress` | 2 processes, 2 calls, 1 corpus, at most 1 file, inserts may fail, fair | 223 000 | `ClaimHasOwner`, `ClaimsRefined`, `FinishedIsDone`, `ProgressWithinWalk`, `RunningSettles`, `ClaimReleased` |
| `cells_board` | 1 column, 2 runs, 1 override, 1 lock call, failing reads | 249 000 | `ReadersAgree`, `LockedStays`, `OverrideWins`, `BoardRefined` |
| `cells_waves` | 3 columns in a chain, the last one manual, 1 run, 1 override, fair | 4 800 | `GateHeld`, `RunEnds` |
| `knowledge_sync` | 1 folder, 2 files, 2 contents, 2 syncs, 2 registrations, 1 forget | 596 000 | `OrphanIsRaced`, `SyncShowsFile`, `ScopesRefined` |
| `docs_walks` | 1 file, 2 contents, 2 walks, 1 forget, every failure | 298 000 | `OneDocPerPath`, `RetryFindsAll`, `WalkIndexes` |
| `vault_saves` | 2 originals, 1 prefix, 3 numbers, 2 processes one at a time, every failure and stop | 111 000 | `IssuedStays`, `ErasedStays`, `StoreRefined` |
| `memory_forget` | 2 memories, 1 name, 1 organisation, 1 forget call, 2 tokens of the name, saves at once or by task | 2 826 000 | `KeptResolves`, `OneSurvives`, `CascadeComplete`, `ForgottenStays` |
| `corpus_forget` | 1 file, 1 review, 1 index call at a time, 2 forget calls, 2 operations under way at once, every failure and stop | 2 064 000 | `NothingLeft`, `StillFound` |
| `gateway_text` | answers of 6 pieces in fragments of 1 or 2, a buffer of 3, all four routes, fair | 819 000 | `AsUnstreamed`, `NotHeldLong` |
| `knowledge_budget`, `memory_cascade` | small | counterexample | section 7 |

Each module's `TypeOK` is checked in its first run.

**Why the bounds are enough.** Job ids, run ids and call ids are used once, so their number
bounds how many calls there ever are, not how many run at a time.

* *Jobs.* Three calls reach a duplicate inside a process, one across processes, and one
  after a restart. One corpus and one folder without a corpus are the two cases of
  `RowCorpus`. One file suffices for a watcher that writes late, because the watcher keeps
  one value. `ingest_safety` has `MaxFiles = 0`: the walk's counters do not meet the map.
* *Cells.* The columns of a row meet only through gates, so versions, locks and ties need
  one column. Two runs and two reviewers give every order of two ties and two higher versions.
  Three columns in a chain have a root, a gate, and a gate behind a gate.
* *Sync.* Two files are one before and one after the point where a sync stops; two contents are
  the old and the new one; with `Reuse = FALSE` a file sees each content once.
* *Documents.* A file that changes once has all the states a document can have (new,
  indexed, superseded); two walks are the one that breaks off and the one that repairs;
  `DrainMax = 1` makes the cap bite with two pending rows, `MaxAttempts = 2` reaches
  `markingFailed`. Larger instances were checked besides: three walks, two files, two forget
  calls, and overlapping walks for the inductive invariant.

* *Vault.* Three numbers of one prefix are two tokens and the number that must not be used
  again; two originals are one that is erased and one that stays. Prefixes count apart from
  each other. Two processes that take turns are what restart and recovery need.
* *Memories.* Two memories are the one that is forgotten and the one that is kept and shares
  its name, and the two sides of a conflict; `MaxGen = 2` gives an erased name its second
  token. The proofs have any number of each.
* *Corpus.* Two forget calls are the one that fails and its repetition, and two at once.
  `MaxActive = 2` lets any two operations overlap; three at once are left to the proofs, as
  are files below the root (`TopFiles` smaller than `Files`) and several reviews.
* *Stream.* Six pieces hold both tokens cut anywhere with something before or after, or two
  short tokens in a row; a buffer of three pieces fills up in the middle of either.

`CHECK_DEADLOCK FALSE` is set where all calls may have been used up and nothing is left to
do (cells, knowledge, documents, memories, stream), and for the vault, which no process can
open any more when both of its files are torn, or whose numbers are used up. In `IngestJobs`
and `CorpusLifecycle` something can always start again, and deadlock is checked.

**What the properties exempt, and why.**

* `SyncShowsFile` and `WalkIndexes` are for one sync, or walk, at a time over files that do
  not get an earlier content back. `Overlap` and `Reuse` open the other cases in the model;
  the claims fail there (section 7 for `Reuse`; overlapping syncs overwrite each other
  and nothing in the repository promises otherwise).
* `SyncShowsFile` says nothing when the source was forgotten while the sync ran, and only
  where the file still is what the walk found: a later edit is for the next sync.
* `WalkIndexes` and `RetryFindsAll` are limited to histories in which no walk and no forget
  call ran at the same time (`raced`), `WalkIndexes` further to those in which no forget call
  broke off (`cut`). The code does nothing to keep the two apart; `raced` is a statement of
  that, not a guarantee of it.
* `FinishedIsDone`, `RunningSettles`: the final writes go through. When they fail, the row
  says `running` until some server starts and sweeps it.
* `IssuedStays`, `TokenNeverRebound`, `ErasedStays` and `StoreRefined` are for one process at a
  time (`shared`). Every client starts a server on the same data directory (section 1.2), and
  with two of them none of the four is kept up: each saves its whole map over the other's, and
  goes on resolving what the other erased.
* `KeptResolves` and `CascadeComplete` are for histories in which no save overlapped a forget
  call (`raced`): a save that has its tokens and no row yet is not counted. `CascadeComplete`
  is also for those in which no forget call broke off (`cut`): its rows are gone then and
  nothing remembers their tokens.
* `NothingLeft` and `StillFound` are for forget calls beside which no writer ran (`alone`).
  `NothingLeft` further asks that all that was stored was registered when the call started
  (`whole`); a walk that failed before it registered its documents leaves chunks no forget
  call of the corpus finds (section 7).
* `AsUnstreamed` compares with the text as it is between two other frames: a frame in the
  middle of a pseudonym cuts it for good (section 7).

---

## 5. Fairness

* `IngestJobs`: `WF_vars(JobStep(j)) /\ WF_vars(WatchStep(j))` for every job. Both are tokio
  tasks, polled whenever they can run, and each of their awaits returns. Nothing is assumed
  of `Boot`, `Crash` and `Claim`: no host has to start, stop or call a server.
* `ReviewCells`: `WF_vars(RunProgress(r))` for every extraction, a row task that is polled
  until it is done. `RunProgress` leaves out `StartRow`, `Refine`, `GiveUp` and all
  reviewers' calls.
* `GatewayStream`: `WF_vars(Timer)`. The timer is a `timeout` around the wait for the next
  chunk, in the stream the client polls. Text that stays pending and is no start of a
  pseudonym keeps it enabled, unless upstream goes on sending chunks that complete no frame;
  the model has complete frames only. Nothing is assumed of the upstream.
* The other modules have no liveness property: their walks are finite loops over a list that
  was taken before, and what could be asked of them ("is a file indexed at last?") depends on
  a client that calls again.

Weak fairness suffices: no step of a task can be disabled for ever by another one. No
property relies on fairness except `ClaimReleased`, `RunningSettles`, `RunEnds` and
`NotHeldLong`.

---

## 6. Proofs

All theorems are checked by TLAPS to the last leaf, for every value of the constants that
satisfies the named assumptions of the module. TLC checks those assumptions in every run.

### IngestJobs_proofs

`IInv` = `TypeOK` and
* `LiveHoldsKey`: a call or task that has not ended is what the map holds under its key;
* `RowFollowsTask`: there is no row before the insert, and an open one until `MarkDone`;
* `WalkInOrder`: `ingested`, `failed <= processed <= files`, all files processed after the
  walk, the watcher's value not above `processed`;
* `ProgressWithinWalk` and `OneOpenRowPerProc` themselves.

`OneJobPerKey` alone is not inductive: `Release` takes a key out *by name*, whichever job
it is mapped to, and only `LiveHoldsKey` says that it is the job's own. Proved:
`TypeCorrect`, `OneJobPerKeyHolds`, `OneOpenRowPerProcHolds`, `ProgressWithinWalkHolds`,
`StatusOrderHolds` under every fault; `ClaimHasOwnerHolds`, `ClaimsRefinedHolds` when
`"query" \notin Faults`; `FinishedIsDoneHolds` when the final writes do not fail.

`JobsDescendHolds` is the part of `ClaimReleased` and `RunningSettles` that needs no fairness:
`TaskLeft` counts the steps that remain of a call and its task, `WatchLeft` those of its
watcher; both are numbers in every reachable state, and whatever moves a task or a watcher,
a fault or a crash included, lowers its count. It rests on `IInv` and on `WatcherFollows`
(there is no watcher before the walk starts): the watcher's count goes with the file counts
it has *not* seen, and a value sent twice while it writes is taken once. What is missing for
the two properties is that a step is always enabled, which is TLC's.

### ReviewCells_proofs

`IInv` = `TypeOK`, `EveryCellHasLatest`, `GoodRuns` (what is picked, answered or pending went
through its gate), `AuthorsStarted`, `GoodCalls`, `GateHeld`. `GoodCalls` is the crux: a
pending reviewer's call read some version `seen`; the latest is at least that, and is
exactly that as long as only extractions have appended since, because they append version 1.
So `seen + 1` wins (`OverrideWinsHolds`), and the copy a lock call writes is the value shown
(`BoardRefinedHolds`). Lemma `Grows` says what an append does to `Latest`. `LockedStaysHolds`
and `GateHeldHolds` follow from the same invariant. `BoardRefinedHolds` is the refinement of
`ReviewBoard`.

`ReadersAgreeHolds` is about data, not about steps: the loop of `all_for_review_latest` and the
stable sort of `latest` agree on any versions (`BoardIsLatest`). It needs induction. The
library's induction theorems have an operator parameter, which the provers do not instantiate;
`NatSetInduction` says the same of a *set* of numbers, and follows from `WFMin` and
`NatLessThanWellFounded`. With it: every sequence has a latest version (`LatestExists`), one
more version changes the latest as one turn of the loop does (`LatestStep`), so the latest of
the first i versions solves the loop's equation, and any solution is that one (`LoopResult`).

`RunDescendsHolds` does for an extraction what `JobsDescendHolds` does for a task, for any
finite set of columns: `StepsLeft` counts the columns that no wave has held yet, then the
columns of this wave still to be gated, then the answers still to be checked and appended. A
column leaves the first count when its wave begins, so a wave whose columns are all skipped
descends too; `OneAnswer` (an answer has a column at most once) bounds the writes of a wave.

### KnowledgeSync_proofs

`IInv` ties a sync to the epoch of its source: as long as the source was not forgotten since
the sync read its scope, all three of its rows are there (`InEpoch`); what the index holds was
written in the current epoch by a sync of that epoch or an earlier one (`GoodObjects`). From
it `OrphanIsRacedHolds` and `ScopesRefinedHolds` (with the invariant that a registration in its
third insert has a source that had the first two). `SoloInv`, for `~Overlap` and `~Reuse`, adds that
a content in `revs` other than the one indexed is one the file no longer has and cannot get
back; it gives `SyncShowsFileHolds`.

### DocIngest_proofs

Three layers.
* `IInv`: whatever has enrichment rows, graph nodes, status rows or a place in the work of a walk
  is `Known`: it has chunks, or was superseded, or a race happened; and a forget call has
  cleaned every indexed document that is no longer on its list (`GoodForget`). It holds for
  any overlap, and gives `RetryFindsAllHolds`.
* `SoloInv` (for `~Overlap`): at most one walk runs, there is one content per path, and what
  the walk saw of the stores is still so. Between `DeleteRows` and `InsertRows` *no* document of
  the path has chunks. It gives `OneDocPerPathHolds`.
* `FreshInv` (for `~Overlap`, `~Reuse`): superseded contents are not what the file holds, chunks
  show their document's content while the file has it, graph nodes of an indexed document imply
  enrichment rows (which is why probing the graph alone is a sufficient recovery test), and
  every handled document is indexed, enriched and in the graph. It gives `WalkIndexesHolds`.

### PseudonymVault_proofs

`IInv` = `TypeOK`, `Sound`, and `Alone` as long as `~shared`. `Sound` holds for any number of
processes: in every map and every readable file the two directions agree and each token's
number was counted, so that the next number is free. `Alone` says of the file and of the one
map, step by step of a save, that neither has forgotten a token in a text that was handed
out, that no count in them is below such a token's number, and that a token whose erasure
was confirmed is in none of the three places it could come back from: map, `path`,
`path.tmp`. The lemmas say what minting, erasing, saving and loading do to a sound map.
Proved: `TypeCorrect`, `SoundHolds`, `IssuedStaysHolds`, `TokenNeverReboundHolds`,
`ErasedStaysHolds`, and `SaveThenLoad`: a file has the map in one direction only, and loading
it gives the map that was saved.

`StoreRefinedHolds` is the refinement, for `~Concurrent`. It needs one more invariant
(`Begun`: an erasure that is being saved is in `dropped`) and, of `Alone`, that the map that
answers keeps the promises whether a process has it open or not (`AnsweringKeeps`). A save
that ends hands out the pairs of a text or confirms an erasure, `Forget` begins one, and every
other step leaves the history of tokens alone and is a `Restart` or a stutter.

### MemoryLayer_proofs

`IInv` = `TypeOK`, `SaveInv` (what a save may still do to its row; from it alone follow
`OneSurvivesHolds` and `ForgottenStaysHolds`), `CountedInv` (every token referred to was
minted) and, while `~raced`, `Apart` and `Tracked`. `Apart`: what a forget call has counted
as unreferred, and not yet purged, is still unreferred, since a row gets tokens from a save
only. It gives `KeptResolvesHolds`. `Tracked`: a token a forget call took out of the table
is dead, or referred to, or on the list of some forget call that has still to count it; it
gives `CascadeCompleteHolds`. `StoreRefinedHolds` needs the types only: new tokens are minted
beyond all that were (`PseudonymizeHandsOut`), and a name loses its token to a subject's
erasure or a purge (`EndErases`). TLC agrees on a small instance, which is no run of its own.

### CorpusLifecycle_proofs

`Inv` = `Owned` (only reviews of the corpus are bound to it), `Left` (after a forget call
that ran alone and found all registered nothing is there and nothing writes) and `Fine(f)`
for every forget call. `Fine` says that what a call that runs alone has read of the registry
is still what is registered (`HasRead`), and that what it is past is empty unless one of its
calls failed (`HasEmptied`). Several calls at once are the difficulty: each may empty what
another still has on its list, and one may delete the rows another goes by; `Fine` therefore
speaks of the registry as it is, not of what a call holds. Proved: `TypeCorrect`,
`NothingLeftHolds`, `StillFoundHolds`, for any files, reviews and calls under way at once.

### GatewayStream_proofs

A text can be cut where its first part does not end in an open prefix, or where a frame
follows: no token crosses such a cut (`TokenBefore`, `TokenAfter`), and the cut is still one
after a replacement (`ReplaceConcat`), so by induction over the turns of the loop the parts can
be rehydrated one by one (`RehydrateConcat`). `IInv` says that what was passed on is the
rehydration of a part of the answer, that the rest is pending, and that the part ends closed as
long as more may come; for tool JSON likewise. `AsUnstreamed` is not inductive without the
last clause, which is what `Open` is for. Proved for any digits, vault, limit and fragment
length: `TypeCorrect`, `AsUnstreamedHolds`.

`AsUnstreamed` says that streaming changes nothing; what rehydrating does is said by three
theorems about the loop, for any text. `LongestIsReplaced`: where known tokens begin, the
original of the longest one is put. The loop's invariant: until its turn comes, the pieces of
that token stay what they were (`TokenStays`), since no other known token begins within it and
all longer ones that begin with it had their turn. `NoTokenLeft`: afterwards there is no known
token in the text. `RestIsKept`: what belongs to no token is passed on as it came.

Assumed: numbers are digits and not empty, `Order` has every number and no longer one after a
shorter one, and an original is not itself a piece of a token. The induction is
`NatSetInduction`, as in `ReviewCells_proofs`.

### Only model-checked

* Liveness: `ClaimReleased`, `RunningSettles`, `RunEnds`, `NotHeldLong`; liveness under
  fairness is beyond the prover. What is proved of the first three is that every step lowers
  a number (`JobsDescendHolds`, `RunDescendsHolds`); that a step is taken whenever one remains
  is fairness and `ENABLED`, and stays with TLC.
* The counterexamples of section 7.

---

## 7. Where the code and its documentation disagree

The first two have a run that ends in a counterexample, and an entry under "findings".

1. **Files behind the budget** (`knowledge_budget`, anno-source-local/src/folder.rs 98) are not
   "picked up next run": every run takes the same first files of the sorted listing.
2. **The cascade of a forgotten memory** (`memory_cascade`, anno-rag/src/store.rs 679) counts
   references in memories only, and erases a token that chunks of documents still hold; the
   data subject pack (2026-05-15, line 275) says that a chunk keeps an entry as well.

Seen while modelling, without a run of their own:

* *Jobs.* The query for a running row and the insert of one's own (lib.rs 675, 697) are two
  statements, so two servers that ask at once both ingest. The sweep of a starting server
  (jobs.rs 162) marks rows of live servers `interrupted`, where lib.rs 1161 speaks of a
  "previous crashed/killed process"; the task's own last write corrects the row
  (`FinishedIsDone`), but until then the next call is not deduplicated. An error while the
  store is opened or queried (lib.rs 672-678) leaves the key in the map until the process
  ends, and every later call is answered `already_running` (`ClaimHasOwner` with `"query"` in
  `Faults` shows it); the errors of the insert, by contrast, are rolled back.
* *Cells.* A forced extraction (batch.rs 207) ties with the old cell at version 1, and the older
  wins: it overwrites nothing, against lib.rs 3774. The comment at lib.rs 3917-3923 accepts that
  two overrides may read the same version because "`latest()` returns the most recent write";
  among equal versions it returns the one appended first. An override whose read of the
  current cell fails takes version 1 and ties with what was extracted. `OverrideWins` is stated
  for the cases left.
* *Sync.* A file that returns to an earlier content (control_store.rs 431) is skipped as indexed
  "at the current content hash" (indexer.rs 17) while the index shows the later one.
* *Documents.* Forgetting a folder (legal_maintenance.rs 70) misses the enrichment, graph and
  status rows of superseded contents, which no chunk row names any more. pipeline.rs 2034-2036
  speaks of documents "whose last attempt was recorded as `pending`": the status table is
  append-only and `list_pending` returns every row that says pending, so a document that
  succeeded is taken again by later walks; the attempts come from any one row of the document,
  so the limit of five is reached late or never.
* *Vault.* A retry of an erasure whose save failed answers that nothing matched, while the
  file still has the token (vault.rs 349): the map had lost it before the save.
* *Memories.* memory.rs 60 and 70 say that cleartext personal data is never persisted; the
  default mode of a save (config.rs 210) stores the raw text until its task has run.
  Enrichment writes back a whole row it read before (store.rs 492-511), and undoes an
  invalidation made in between. The task of a memory that was forgotten meanwhile still mints
  tokens for it, which nothing refers to.
* *Corpus.* The folder of a legal binding is looked up among the folders of stored chunks
  (lib.rs 1945), which are those the files lie in, after the registered documents have been
  deleted. Mostly it is not found; nothing is deleted for the binding, and the call reports
  success. The scoping design (2026-06-03, line 243) says that forget "must remove all backend
  bindings for that corpus". Errors of `add_binding` and `add_document` are dropped at the end
  of a walk (lib.rs 778-796), which makes such chunks.
* *Gateway.* Any other frame lets the pending text out whatever it ends in (server.rs 453): one
  in the middle of a pseudonym leaves two halves, which are passed on as they are. The streaming
  design (2026-05-14, line 96) says "Never emit an incomplete pseudonym token fragment". Tool
  deltas of a provider are passed on ahead of text that is pending (server.rs 583), while line
  108 asks to "preserve event ordering". What is left of an incomplete frame or of unfinished
  tool JSON when upstream closes is dropped silently. The provider route has no timer.

---

## 8. What is not modelled

Whole components: `PROJECT.json` ("components") gives the reason for each; most have no state, or
are in the plan. Within the modelled ones:

* *Jobs*: panics of a task; the contents of `legal_ingest_status`.
* *Cells*: the fan-out over rows and its concurrency limit; prompts, citations, confidence.
* *Reviews*: the status column and which extraction it admits (lib.rs 2092); the module has one
  extraction of a review at a time.
* *Corpus*: how a call names its corpus (alias, path, active corpus); the freshness that corpus
  sync reports; several corpora; errors of the registry while it is read.
* *Vault*: categories beyond their prefix; format-preserving tokens; the key and its store.
* *Memories*: search, scoring, sessions, the texts and their embeddings; which memories conflict
  is any choice among those the query may return.
* *Gateway*: everything but the streamed answer. Requests are transformed one at a time under a
  lock. The audit chain (audit.rs 95-187) has state and a crash window, but no promise of what
  a verifier should find after one. Of the stream: the scan for fresh personal data, a vault
  that changes while an answer is streamed, several tool calls in one answer, an original that
  makes a token together with the text around it.
* *Sync*: sizes and the byte budget (a file that does not fit is like one that is not there);
  several scopes of a source (the code creates one).
* *Documents*: ingestion without a corpus (the id is the content's alone); the markdown
  copies; `forget_doc_ids`; what remains of a longer text when a raced second insert merges over
  it; the OCR queue (`NotIndexable` covers a file that waits for it). Equal enrichment rows
  count once, and so do status rows that differ in their time only. Reading the attempts and
  appending the row are one step. Index maintenance after a walk leaves the rows as they are.
  `link_cross_documents` does nothing in the store that the server uses.

Contents stand for their hashes (SHA-256 tells them apart). Texts, entities, tokens, embeddings
and answers of the language model are values without structure; no property is about them.

---

## 9. What is left

Done: `IngestJobs` with `KeyClaims`; `ReviewCells` with `ReviewBoard`; `KnowledgeSync` with
`FolderRegistry`; `DocIngest`; `PseudonymVault` with `VaultMap`; `MemoryLayer`; `TokenStore`, which both are;
`CorpusLifecycle`; the proofs of these; `GatewayStream`.

Next, in this order:

1. `ReviewRuns`: `extraction_status`, start, block, finish (lib.rs 2029-2220), composed with
   `ReviewCells` through `ReviewBoard`. Properties: one extraction at a time per server; a status
   that says running has a task.
2. A specification of an indexed folder that `DocIngest` implements, so that `CorpusLifecycle`
   can be composed with it by refinement, as `MemoryLayer` is with `PseudonymVault` by
   `TokenStore`; today it restates what that module shows.
3. `AuditChain`: the crash between the append of an event and the rewrite of the signature, half
   lines, resuming the chain (audit.rs 95-187).
4. `DocIngest`: `forget_doc_ids`, ingestion without a corpus, markdown copies.
