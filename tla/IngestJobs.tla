----------------------------- MODULE IngestJobs -----------------------------
(***************************************************************************)
(* Background legal ingestion: legal_ingest_impl, the task and the         *)
(* progress watcher it spawns, the job table index_jobs and the sweep that *)
(* every server process runs over that table when it starts.               *)
(*                                                                         *)
(* Several server processes (Claude Desktop and Claude Code start one      *)
(* each) share one SQLite file.  The map active_ingest_jobs is private to  *)
(* a process and dies with it; the rows survive.  A call of legal_ingest   *)
(* that gets past the map draws a fresh job id, so a call, its task, its   *)
(* watcher and its row are all indexed by that id.                         *)
(*                                                                         *)
(* Every await point and every SQLite statement is a step of its own.      *)
(***************************************************************************)
EXTENDS Integers, FiniteSets

CONSTANTS
  Procs,     \* server processes that share the data directory
  Keys,      \* corpus_key: a corpus id, or the hash of a folder
  Corpora,   \* the keys that are corpus ids (corpus_id is Some)
  Jobs,      \* the job ids that can be drawn; bounds the number of calls
  MaxFiles,  \* the most files a folder holds
  Faults,    \* the store operations that may fail, a subset of FaultKinds
  NoJob, NoProc, NoKey

FaultKinds == {"query", "insert", "reopen", "write", "watch", "sweep"}

ASSUME CorporaAssumption == Corpora \subseteq Keys
ASSUME FilesAssumption == MaxFiles \in Nat
ASSUME FaultsAssumption == Faults \subseteq FaultKinds
ASSUME NullAssumption == NoJob \notin Jobs /\ NoProc \notin Procs /\ NoKey \notin Keys

VARIABLES
  up,       \* up[p]: the process serves its peer
  active,   \* active[p][k]: the job in active_ingest_jobs of p under k, or NoJob
  pc,       \* pc[j]: where the call, later the task, of job j stands
  proc,     \* proc[j]: the process that runs j
  key,      \* key[j]: its corpus_key
  walk,     \* walk[j]: the folder walk of j, file counts by outcome
  row,      \* row[j]: the row of j in index_jobs
  watcher   \* watcher[j]: the progress watcher task of j

jobVars == <<pc, proc, key, walk>>
vars == <<up, active, pc, proc, key, walk, row, watcher>>

-----------------------------------------------------------------------------
(* A call is in the handler until the task is spawned; from then on the     *)
(* task runs, and its last step takes the key out of the map.               *)

InCall == {"claimed", "checked"}
InTask == {"spawned", "walking", "walked", "reporting", "marking", "releasing"}
Live == InCall \cup InTask
Ended == {"rejected", "aborted", "finished", "dead"}

\* Variant with a bug: every row is inserted without its corpus.
RowCorpusUnset(j) == NoKey

\* index_jobs.corpus_id as insert_job is given it: the corpus id, or NULL for a
\* folder that belongs to no corpus.
RowCorpus(j) == IF key[j] \in Corpora THEN key[j] ELSE NoKey

\* running_job_for_corpus: the rows a query for corpus key k can return.
RunningRows(k) == {i \in Jobs : row[i].status = "running" /\ RowCorpus(i) = k}

NoWalk == [files |-> 0, processed |-> 0, ingested |-> 0, failed |-> 0]

Init ==
  /\ up = [p \in Procs |-> FALSE]
  /\ active = [p \in Procs |-> [k \in Keys |-> NoJob]]
  /\ pc = [j \in Jobs |-> "unused"]
  /\ proc = [j \in Jobs |-> NoProc]
  /\ key = [j \in Jobs |-> NoKey]
  /\ walk = [j \in Jobs |-> NoWalk]
  /\ row = [j \in Jobs |-> [status |-> "absent", done |-> 0]]
  /\ watcher = [j \in Jobs |-> [pc |-> "off", seen |-> 0]]

-----------------------------------------------------------------------------
(* The server process.                                                      *)

\* Variant with a bug: the UPDATE of the sweep without its WHERE.
SweptAll == [j \in Jobs |-> IF row[j].status = "absent" THEN row[j]
                              ELSE [row[j] EXCEPT !.status = "interrupted"]]

\* mark_running_jobs_interrupted: one UPDATE over every row of the table.
Swept == [j \in Jobs |-> IF row[j].status = "running"
                           THEN [row[j] EXCEPT !.status = "interrupted"]
                           ELSE row[j]]

\* The sweep runs before the server takes its first request; when the store
\* refuses it, the error is logged and the server starts all the same.
Boot(p) ==
  /\ ~up[p]
  /\ up' = [up EXCEPT ![p] = TRUE]
  /\ \/ row' = Swept
     \/ "sweep" \in Faults /\ UNCHANGED row
  /\ UNCHANGED <<active, jobVars, watcher>>

\* The process stops, killed or told to: its map and its tasks go with it.
Crash(p) ==
  /\ up[p]
  /\ up' = [up EXCEPT ![p] = FALSE]
  /\ active' = [active EXCEPT ![p] = [k \in Keys |-> NoJob]]
  /\ pc' = [j \in Jobs |-> IF proc[j] = p /\ pc[j] \in Live THEN "dead" ELSE pc[j]]
  /\ watcher' = [j \in Jobs |-> IF proc[j] = p /\ watcher[j].pc # "off"
                                  THEN [watcher[j] EXCEPT !.pc = "gone"]
                                  ELSE watcher[j]]
  /\ UNCHANGED <<proc, key, walk, row>>

-----------------------------------------------------------------------------
(* The handler.                                                             *)

Goto(j, label) == pc' = [pc EXCEPT ![j] = label]
FreeKey(j) == active' = [active EXCEPT ![proc[j]][key[j]] = NoJob]

\* Variant with a bug: the insert without the check.
ClaimUnchecked(p, k, j) ==
  /\ up[p]
  /\ pc[j] = "unused"
  /\ active' = [active EXCEPT ![p][k] = j]
  /\ Goto(j, "claimed")
  /\ proc' = [proc EXCEPT ![j] = p]
  /\ key' = [key EXCEPT ![j] = k]
  /\ UNCHANGED <<up, walk, row, watcher>>

\* Check and insert under the write lock of the map.  A call that finds its key
\* taken is answered already_running and changes nothing.
Claim(p, k, j) ==
  /\ up[p]
  /\ pc[j] = "unused"
  /\ active[p][k] = NoJob
  /\ active' = [active EXCEPT ![p][k] = j]
  /\ Goto(j, "claimed")
  /\ proc' = [proc EXCEPT ![j] = p]
  /\ key' = [key EXCEPT ![j] = k]
  /\ UNCHANGED <<up, walk, row, watcher>>

\* The store cannot be opened or queried: `?` leaves the handler at once, and
\* the key stays in the map.
QueryFails(j) ==
  /\ pc[j] = "claimed"
  /\ "query" \in Faults
  /\ Goto(j, "aborted")
  /\ UNCHANGED <<up, active, proc, key, walk, row, watcher>>

\* Variant with a bug: the duplicate is answered and the key is not given back.
FindRunningKeepsKey(j) ==
  /\ pc[j] = "claimed"
  /\ RunningRows(key[j]) # {}
  /\ Goto(j, "rejected")
  /\ UNCHANGED <<up, active, proc, key, walk, row, watcher>>

\* The store has a running row for this corpus: already_running, and the key is
\* given back.
FindRunning(j) ==
  /\ pc[j] = "claimed"
  /\ RunningRows(key[j]) # {}
  /\ Goto(j, "rejected")
  /\ FreeKey(j)
  /\ UNCHANGED <<up, proc, key, walk, row, watcher>>

FindNone(j) ==
  /\ pc[j] = "claimed"
  /\ RunningRows(key[j]) = {}
  /\ Goto(j, "checked")
  /\ UNCHANGED <<up, active, proc, key, walk, row, watcher>>

\* insert_job, then the task is spawned and the call answers "running".
Insert(j) ==
  /\ pc[j] = "checked"
  /\ row' = [row EXCEPT ![j] = [status |-> "running", done |-> 0]]
  /\ Goto(j, "spawned")
  /\ UNCHANGED <<up, active, proc, key, walk, watcher>>

\* Variant with a bug: insert_job fails through `?`, without the rollback.
InsertFailsKeepsKey(j) ==
  /\ pc[j] = "checked"
  /\ "insert" \in Faults
  /\ Goto(j, "aborted")
  /\ UNCHANGED <<up, active, proc, key, walk, row, watcher>>

InsertFails(j) ==
  /\ pc[j] = "checked"
  /\ "insert" \in Faults
  /\ Goto(j, "aborted")
  /\ FreeKey(j)
  /\ UNCHANGED <<up, proc, key, walk, row, watcher>>

-----------------------------------------------------------------------------
(* The background task.                                                     *)

\* The progress channel and the watcher are made, and the folder is listed: how
\* many files it holds is settled here, after the count the row was given.
StartWalk(j) ==
  /\ pc[j] = "spawned"
  /\ \E n \in 0 .. MaxFiles : walk' = [walk EXCEPT ![j].files = n]
  /\ watcher' = [watcher EXCEPT ![j].pc = "opening"]
  /\ Goto(j, "walking")
  /\ UNCHANGED <<up, active, proc, key, row>>

\* Variant with a bug: the loop runs one file past the list.
WalkFileTooFar(j) ==
  /\ pc[j] = "walking"
  /\ walk[j].processed <= walk[j].files
  /\ walk' = [walk EXCEPT ![j].processed = @ + 1]
  /\ UNCHANGED <<up, active, pc, proc, key, row, watcher>>

\* One file: indexed now, passed over (already indexed, or nothing to index in
\* it), or failed with an error that is logged.  Every outcome is counted, and
\* the count is sent to the watcher; no outcome ends the walk.
WalkFile(j) ==
  /\ pc[j] = "walking"
  /\ walk[j].processed < walk[j].files
  /\ \/ walk' = [walk EXCEPT ![j].processed = @ + 1, ![j].ingested = @ + 1]
     \/ walk' = [walk EXCEPT ![j].processed = @ + 1]
     \/ walk' = [walk EXCEPT ![j].processed = @ + 1, ![j].failed = @ + 1]
  /\ UNCHANGED <<up, active, pc, proc, key, row, watcher>>

\* Backlog and index maintenance, whose errors are logged; the walk returns Ok
\* and the sender of the channel is dropped.
EndWalk(j) ==
  /\ pc[j] = "walking"
  /\ walk[j].processed = walk[j].files
  /\ Goto(j, "walked")
  /\ UNCHANGED <<up, active, proc, key, walk, row, watcher>>

\* A second handle on the store for the final writes; without it both are
\* skipped.
Reopen(j) ==
  /\ pc[j] = "walked"
  /\ \/ Goto(j, "reporting")
     \/ "reopen" \in Faults /\ Goto(j, "releasing")
  /\ UNCHANGED <<up, active, proc, key, walk, row, watcher>>

\* update_job_progress with the number of files ingested; an error is ignored.
Report(j) ==
  /\ pc[j] = "reporting"
  /\ \/ row' = [row EXCEPT ![j].done = walk[j].ingested]
     \/ "write" \in Faults /\ UNCHANGED row
  /\ Goto(j, "marking")
  /\ UNCHANGED <<up, active, proc, key, walk, watcher>>

\* Variant with a bug: done is written only over a row that still says running.
MarkDoneIfRunning(j) ==
  /\ pc[j] = "marking"
  /\ row' = [row EXCEPT ![j].status = IF @ = "running" THEN "done" ELSE @]
  /\ Goto(j, "releasing")
  /\ UNCHANGED <<up, active, proc, key, walk, watcher>>

\* Variant with a bug: an ingest that indexed nothing new is not marked.
MarkDoneIfIngested(j) ==
  /\ pc[j] = "marking"
  /\ row' = [row EXCEPT ![j].status = IF walk[j].ingested > 0 THEN "done" ELSE @]
  /\ Goto(j, "releasing")
  /\ UNCHANGED <<up, active, proc, key, walk, watcher>>

\* set_job_status(Done) whatever the row says by now; an error is ignored.
MarkDone(j) ==
  /\ pc[j] = "marking"
  /\ \/ row' = [row EXCEPT ![j].status = "done"]
     \/ "write" \in Faults /\ UNCHANGED row
  /\ Goto(j, "releasing")
  /\ UNCHANGED <<up, active, proc, key, walk, watcher>>

\* The key is removed from the map by name, whichever job it is mapped to.
Release(j) ==
  /\ pc[j] = "releasing"
  /\ FreeKey(j)
  /\ Goto(j, "finished")
  /\ UNCHANGED <<up, proc, key, walk, row, watcher>>

-----------------------------------------------------------------------------
(* The progress watcher.  A watch channel keeps only the last value sent,   *)
(* here walk[j].processed; the sender lives while pc[j] = "walking".        *)

WatchOpen(j) ==
  /\ watcher[j].pc = "opening"
  /\ \/ watcher' = [watcher EXCEPT ![j].pc = "waiting"]
     \/ "watch" \in Faults /\ watcher' = [watcher EXCEPT ![j].pc = "gone"]
  /\ UNCHANGED <<up, active, jobVars, row>>

\* Variant with a bug: the count is one too high.
WatchTakeAhead(j) ==
  /\ watcher[j].pc = "waiting"
  /\ watcher[j].seen # walk[j].processed
  /\ watcher' = [watcher EXCEPT ![j] = [pc |-> "writing", seen |-> walk[j].processed + 1]]
  /\ UNCHANGED <<up, active, jobVars, row>>

\* changed() and borrow_and_update(): an unseen value is delivered even when the
\* sender is gone.
WatchTake(j) ==
  /\ watcher[j].pc = "waiting"
  /\ watcher[j].seen # walk[j].processed
  /\ watcher' = [watcher EXCEPT ![j] = [pc |-> "writing", seen |-> walk[j].processed]]
  /\ UNCHANGED <<up, active, jobVars, row>>

WatchWrite(j) ==
  /\ watcher[j].pc = "writing"
  /\ \/ row' = [row EXCEPT ![j].done = watcher[j].seen]
     \/ "write" \in Faults /\ UNCHANGED row
  /\ watcher' = [watcher EXCEPT ![j].pc = "waiting"]
  /\ UNCHANGED <<up, active, jobVars>>

WatchEnd(j) ==
  /\ watcher[j].pc = "waiting"
  /\ watcher[j].seen = walk[j].processed
  /\ pc[j] # "walking"
  /\ watcher' = [watcher EXCEPT ![j].pc = "gone"]
  /\ UNCHANGED <<up, active, jobVars, row>>

-----------------------------------------------------------------------------
JobStep(j) ==
  \/ QueryFails(j) \/ FindRunning(j) \/ FindNone(j) \/ Insert(j) \/ InsertFails(j)
  \/ StartWalk(j) \/ WalkFile(j) \/ EndWalk(j)
  \/ Reopen(j) \/ Report(j) \/ MarkDone(j) \/ Release(j)

WatchStep(j) == WatchOpen(j) \/ WatchTake(j) \/ WatchWrite(j) \/ WatchEnd(j)

Next ==
  \/ \E p \in Procs : Boot(p) \/ Crash(p)
  \/ \E p \in Procs, k \in Keys, j \in Jobs : Claim(p, k, j)
  \/ \E j \in Jobs : JobStep(j) \/ WatchStep(j)

Spec == Init /\ [][Next]_vars

\* tokio polls every task that can run; nothing obliges a host to start, to stop
\* or to call a server.
Fairness == \A j \in Jobs : WF_vars(JobStep(j)) /\ WF_vars(WatchStep(j))

FairSpec == Spec /\ Fairness
-----------------------------------------------------------------------------
(* Properties.                                                              *)

WalkType == [files : 0 .. MaxFiles, processed : 0 .. MaxFiles,
             ingested : 0 .. MaxFiles, failed : 0 .. MaxFiles]
RowType == [status : {"absent", "running", "done", "interrupted"}, done : 0 .. MaxFiles]
WatcherType == [pc : {"off", "opening", "waiting", "writing", "gone"}, seen : 0 .. MaxFiles]

TypeOK ==
  /\ up \in [Procs -> BOOLEAN]
  /\ active \in [Procs -> [Keys -> Jobs \cup {NoJob}]]
  /\ pc \in [Jobs -> {"unused"} \cup Live \cup Ended]
  /\ proc \in [Jobs -> Procs \cup {NoProc}]
  /\ key \in [Jobs -> Keys \cup {NoKey}]
  /\ walk \in [Jobs -> WalkType]
  /\ row \in [Jobs -> RowType]
  /\ watcher \in [Jobs -> WatcherType]

\* In one process, two calls or tasks never work on the same corpus key: the
\* same-process deduplication under the write lock (lib.rs 654-670) together with
\* every place that takes the key out again.
OneJobPerKey ==
  \A i, j \in Jobs :
    i # j /\ pc[i] \in Live /\ pc[j] \in Live => <<proc[i], key[i]>> # <<proc[j], key[j]>>

\* A key in the map belongs to a call or task that is still going to take it
\* out.  An entry whose job has ended would answer already_running until the
\* process restarts.
ClaimHasOwner ==
  \A p \in Procs, k \in Keys :
    active[p][k] # NoJob =>
      LET j == active[p][k] IN pc[j] \in Live /\ proc[j] = p /\ key[j] = k

\* The calls of a corpus that are past the query of the store, or have a row that
\* still says running, whether or not their task is alive.
OpenJobs(k) == {j \in Jobs : key[j] = k /\ (pc[j] = "checked" \/ row[j].status = "running")}

\* What the query of the store adds to the map: a process, in all its lives, opens
\* at most one running row for a corpus.  The row that an earlier life of the
\* process left behind stops the next one until a sweep closes it.
OneOpenRowPerProc ==
  \A k \in Corpora : \A i, j \in OpenJobs(k) : i # j => proc[i] # proc[j]

\* files_done never runs ahead of the folder walk, although two tasks with two
\* handles on the store write it.
ProgressWithinWalk == \A j \in Jobs : row[j].done <= walk[j].processed

\* A task that came to its end left its row done, even when another server that
\* started meanwhile had marked the row interrupted.  (Where the final writes go
\* through: without "reopen" and "write" among the faults.)
FinishedIsDone == \A j \in Jobs : pc[j] = "finished" => row[j].status = "done"

\* A row is inserted once, as running; only its own task makes it done, and done is
\* final: no sweep and no late watcher reopens or relabels it.
StatusOrder ==
  [][\A j \in Jobs :
       row'[j].status # row[j].status =>
         \/ row[j].status = "absent" /\ row'[j].status = "running"
         \/ row[j].status = "running" /\ row'[j].status = "interrupted"
         \/ /\ row[j].status \in {"running", "interrupted"}
            /\ row'[j].status = "done"
            /\ pc[j] = "marking" /\ walk[j].processed = walk[j].files]_vars

\* The map behaves as the abstract table of claims.
Claims == INSTANCE KeyClaims WITH
  holder <- active,
  phase <- [j \in Jobs |-> IF pc[j] = "unused" THEN "fresh"
                          ELSE IF pc[j] \in Live THEN "holding" ELSE "released"]

ClaimsRefined == Claims!Spec

\* A corpus key that is taken is given back: no call or task holds it for ever.
ClaimReleased ==
  \A p \in Procs, k \in Keys, j \in Jobs : active[p][k] = j ~> active[p][k] # j

\* A row that says running does not go on saying so while its process lives.
RunningSettles ==
  \A j \in Jobs : row[j].status = "running" ~> row[j].status # "running" \/ pc[j] = "dead"

\* The steps that remain of a call and its task, and those of its watcher.
TaskLeft(at, w) ==
  CASE at = "unused" -> MaxFiles + 9
    [] at = "claimed" -> MaxFiles + 8
    [] at = "checked" -> MaxFiles + 7
    [] at = "spawned" -> MaxFiles + 6
    [] at = "walking" -> (w.files - w.processed) + 5
    [] at = "walked" -> 4
    [] at = "reporting" -> 3
    [] at = "marking" -> 2
    [] at = "releasing" -> 1
    [] at \in Ended -> 0

WatchLeft(v) ==
  CASE v.pc = "off" -> 2 * MaxFiles + 3
    [] v.pc = "opening" -> 2 * MaxFiles + 2
    [] v.pc = "writing" -> 2 * (MaxFiles - v.seen) + 2
    [] v.pc = "waiting" -> 2 * (MaxFiles - v.seen) + 1
    [] v.pc = "gone" -> 0

\* Whatever fails, stops or starts again, what a call, its task and its watcher do brings
\* each nearer to its end: no two of them keep one another busy (lib.rs 675-815).
JobsDescend ==
  [][\A j \in Jobs :
       /\ <<pc'[j], walk'[j]>> # <<pc[j], walk[j]>> =>
            TaskLeft(pc'[j], walk'[j]) < TaskLeft(pc[j], walk[j])
       /\ watcher'[j] # watcher[j] => WatchLeft(watcher'[j]) < WatchLeft(watcher[j])]_vars
=============================================================================
