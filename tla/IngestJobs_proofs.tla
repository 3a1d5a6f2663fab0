-------------------------- MODULE IngestJobs_proofs --------------------------
(***************************************************************************)
(* Proofs about IngestJobs for any number of processes, corpora, jobs and  *)
(* files.  The inductive invariant IInv adds to the invariants of the      *)
(* runs how far the row and the walk of a job can be for each place of its *)
(* task, and that a live job holds its key.                                *)
(***************************************************************************)
EXTENDS IngestJobs, TLAPS

BeforeInsert == {"unused", "claimed", "checked", "rejected", "aborted"}
Working == {"spawned", "walking", "walked", "reporting", "marking"}

\* A live job holds its key in the map of its process.
LiveHoldsKey ==
  \A j \in Jobs : pc[j] \in Live =>
    proc[j] \in Procs /\ key[j] \in Keys /\ active[proc[j]][key[j]] = j

\* The row of a job is absent until the insert and open until its task marks it.
RowFollowsTask ==
  \A j \in Jobs :
    /\ pc[j] \in BeforeInsert => row[j].status = "absent"
    /\ pc[j] \in Working => row[j].status \in {"running", "interrupted"}

\* The counters of the walk, and the values the watcher took from them.
WalkInOrder ==
  \A j \in Jobs :
    /\ walk[j].ingested <= walk[j].processed
    /\ walk[j].failed <= walk[j].processed
    /\ walk[j].processed <= walk[j].files
    /\ pc[j] \in BeforeInsert \cup {"spawned"} => walk[j].processed = 0
    /\ pc[j] \in {"walked", "reporting", "marking"} => walk[j].processed = walk[j].files
    /\ watcher[j].seen <= walk[j].processed

IInv ==
  /\ TypeOK
  /\ LiveHoldsKey
  /\ RowFollowsTask
  /\ WalkInOrder
  /\ ProgressWithinWalk
  /\ OneOpenRowPerProc

-----------------------------------------------------------------------------
\* Two live jobs of one process and one key would both be its value in the map.
LEMMA HoldersDiffer == LiveHoldsKey => OneJobPerKey
  BY DEF LiveHoldsKey, OneJobPerKey

LEMMA InitIInv == Init => IInv
  <1> SUFFICES ASSUME Init PROVE IInv
    OBVIOUS
  <1> USE FilesAssumption DEF Init
  <1>1. TypeOK
    BY DEF TypeOK, NoWalk, WalkType, RowType, WatcherType
  <1>2. LiveHoldsKey
    BY DEF LiveHoldsKey, Live, InCall, InTask
  <1>3. RowFollowsTask
    BY DEF RowFollowsTask, Working
  <1>4. WalkInOrder /\ ProgressWithinWalk
    BY DEF WalkInOrder, ProgressWithinWalk, NoWalk
  <1>5. OneOpenRowPerProc
    BY DEF OneOpenRowPerProc, OpenJobs
  <1> QED BY <1>1, <1>2, <1>3, <1>4, <1>5 DEF IInv

\* What a step does to the records of one job: all it can change of the walk, of
\* the row and of the watcher, each as one new record of the right type.
LEMMA WalkEffect ==
  ASSUME TypeOK, WalkInOrder, NEW j \in Jobs, WalkFile(j)
  PROVE  \E w \in WalkType :
           /\ walk' = [walk EXCEPT ![j] = w]
           /\ w.files = walk[j].files
           /\ w.processed = walk[j].processed + 1
           /\ w.ingested <= w.processed /\ w.failed <= w.processed
  <1> USE FilesAssumption
  <1>1. walk[j] \in WalkType
    BY DEF TypeOK
  <1>2. /\ walk[j].processed + 1 \in 0 .. MaxFiles
        /\ walk[j].ingested + 1 \in 0 .. MaxFiles
        /\ walk[j].failed + 1 \in 0 .. MaxFiles
        /\ walk[j].ingested <= walk[j].processed
        /\ walk[j].failed <= walk[j].processed
    BY <1>1 DEF WalkFile, WalkInOrder, WalkType
  <1>3. CASE walk' = [walk EXCEPT ![j].processed = @ + 1, ![j].ingested = @ + 1]
    <2> DEFINE w == [walk[j] EXCEPT !.processed = @ + 1, !.ingested = @ + 1]
    <2>1. w \in WalkType /\ walk' = [walk EXCEPT ![j] = w]
      BY <1>1, <1>2, <1>3 DEF WalkType, TypeOK
    <2>2. /\ w.files = walk[j].files /\ w.processed = walk[j].processed + 1
          /\ w.ingested <= w.processed /\ w.failed <= w.processed
      BY <1>1, <1>2 DEF WalkType
    <2> HIDE DEF w
    <2> QED BY <2>1, <2>2
  <1>4. CASE walk' = [walk EXCEPT ![j].processed = @ + 1]
    <2> DEFINE w == [walk[j] EXCEPT !.processed = @ + 1]
    <2>1. w \in WalkType /\ walk' = [walk EXCEPT ![j] = w]
      BY <1>1, <1>2, <1>4 DEF WalkType, TypeOK
    <2>2. /\ w.files = walk[j].files /\ w.processed = walk[j].processed + 1
          /\ w.ingested <= w.processed /\ w.failed <= w.processed
      BY <1>1, <1>2 DEF WalkType
    <2> HIDE DEF w
    <2> QED BY <2>1, <2>2
  <1>5. CASE walk' = [walk EXCEPT ![j].processed = @ + 1, ![j].failed = @ + 1]
    <2> DEFINE w == [walk[j] EXCEPT !.processed = @ + 1, !.failed = @ + 1]
    <2>1. w \in WalkType /\ walk' = [walk EXCEPT ![j] = w]
      BY <1>1, <1>2, <1>5 DEF WalkType, TypeOK
    <2>2. /\ w.files = walk[j].files /\ w.processed = walk[j].processed + 1
          /\ w.ingested <= w.processed /\ w.failed <= w.processed
      BY <1>1, <1>2 DEF WalkType
    <2> HIDE DEF w
    <2> QED BY <2>1, <2>2
  <1> QED BY <1>3, <1>4, <1>5 DEF WalkFile

LEMMA StartEffect ==
  ASSUME TypeOK, WalkInOrder, NEW j \in Jobs, StartWalk(j)
  PROVE  /\ \E w \in WalkType :
              /\ walk' = [walk EXCEPT ![j] = w]
              /\ w.processed = 0 /\ w.ingested = 0 /\ w.failed = 0
         /\ \E v \in WatcherType :
              watcher' = [watcher EXCEPT ![j] = v] /\ v.seen = watcher[j].seen
  <1> USE FilesAssumption
  <1>1. walk[j] \in WalkType /\ watcher[j] \in WatcherType
    BY DEF TypeOK
  <1>2. PICK n \in 0 .. MaxFiles : walk' = [walk EXCEPT ![j].files = n]
    BY DEF StartWalk
  <1> DEFINE w == [walk[j] EXCEPT !.files = n]
             v == [watcher[j] EXCEPT !.pc = "opening"]
  <1>3. walk[j].processed = 0 /\ walk[j].ingested = 0 /\ walk[j].failed = 0
    BY <1>1 DEF WalkInOrder, StartWalk, WalkType
  <1>4. w \in WalkType /\ walk' = [walk EXCEPT ![j] = w]
    BY <1>1, <1>2 DEF WalkType, TypeOK
  <1>5. w.processed = 0 /\ w.ingested = 0 /\ w.failed = 0
    BY <1>1, <1>3 DEF WalkType
  <1>6. v \in WatcherType /\ watcher' = [watcher EXCEPT ![j] = v] /\ v.seen = watcher[j].seen
    BY <1>1 DEF WatcherType, TypeOK, StartWalk
  <1> QED BY <1>4, <1>5, <1>6

\* The statements on one row: the insert, the two final writes and the watcher's.
LEMMA RowEffect ==
  ASSUME TypeOK, WalkInOrder, ProgressWithinWalk, NEW j \in Jobs,
         Insert(j) \/ Report(j) \/ MarkDone(j) \/ WatchWrite(j)
  PROVE  \E r \in RowType :
           /\ row' = [row EXCEPT ![j] = r]
           /\ r.done <= walk[j].processed
           /\ Insert(j) => r.status = "running"
           /\ MarkDone(j) => r.status \in {row[j].status, "done"}
           /\ Report(j) \/ WatchWrite(j) => r.status = row[j].status
  <1> USE FilesAssumption
  <1>1. /\ row[j] \in RowType /\ row[j].done <= walk[j].processed
        /\ walk[j].ingested \in 0 .. MaxFiles /\ walk[j].ingested <= walk[j].processed
        /\ watcher[j].seen \in 0 .. MaxFiles /\ watcher[j].seen <= walk[j].processed
        /\ walk[j].processed \in Nat
    BY DEF TypeOK, WalkType, WatcherType, WalkInOrder, ProgressWithinWalk
  <1>2. row = [row EXCEPT ![j] = row[j]]
    BY DEF TypeOK
  <1>3. CASE row' = row /\ ~ Insert(j)
    BY <1>1, <1>2, <1>3
  <1>4. CASE Insert(j)
    <2> DEFINE r == [status |-> "running", done |-> 0]
    <2>1. r \in RowType /\ row' = [row EXCEPT ![j] = r]
      BY <1>4 DEF RowType, Insert
    <2>2. pc[j] = "checked" /\ pc'[j] = "spawned"
      BY <1>4 DEF Insert, Goto, TypeOK
    <2>3. ~ Report(j) /\ ~ MarkDone(j)
      BY <2>2 DEF Report, MarkDone
    <2>4. ~ WatchWrite(j)
      BY <2>2 DEF WatchWrite, jobVars
    <2> HIDE DEF r
    <2>5. r.done = 0 /\ r.status = "running"
      BY DEF r
    <2>6. r.done <= walk[j].processed
      BY <1>1, <2>5
    <2> QED BY <2>1, <2>3, <2>4, <2>5, <2>6
  <1>5. CASE Report(j) /\ row' # row
    <2> DEFINE r == [row[j] EXCEPT !.done = walk[j].ingested]
    <2>1. r \in RowType /\ row' = [row EXCEPT ![j] = r]
      BY <1>1, <1>5 DEF RowType, Report, TypeOK
    <2>2. r.done = walk[j].ingested /\ r.status = row[j].status
      BY <1>1 DEF RowType
    <2>3. ~ Insert(j)
      BY <1>5 DEF Insert, Report
    <2> QED BY <1>1, <2>1, <2>2, <2>3
  <1>6. CASE MarkDone(j) /\ row' # row
    <2> DEFINE r == [row[j] EXCEPT !.status = "done"]
    <2>1. r \in RowType /\ row' = [row EXCEPT ![j] = r]
      BY <1>1, <1>6 DEF RowType, MarkDone, TypeOK
    <2>2. r.done = row[j].done /\ r.status = "done"
      BY <1>1 DEF RowType
    <2>3. ~ Insert(j) /\ ~ Report(j) /\ ~ WatchWrite(j)
      BY <1>6 DEF Insert, Report, MarkDone, WatchWrite, TypeOK, jobVars, Goto
    <2> QED BY <1>1, <2>1, <2>2, <2>3
  <1>7. CASE WatchWrite(j) /\ row' # row
    <2> DEFINE r == [row[j] EXCEPT !.done = watcher[j].seen]
    <2>1. r \in RowType /\ row' = [row EXCEPT ![j] = r]
      BY <1>1, <1>7 DEF RowType, WatchWrite, TypeOK
    <2>2. r.done = watcher[j].seen /\ r.status = row[j].status
      BY <1>1 DEF RowType
    <2>3. ~ Insert(j)
      BY <1>7 DEF Insert, WatchWrite, jobVars, Goto, TypeOK
    <2> QED BY <1>1, <2>1, <2>2, <2>3
  <1> QED BY <1>3, <1>4, <1>5, <1>6, <1>7

LEMMA SweepEffect ==
  ASSUME TypeOK, NEW p \in Procs, Boot(p)
  PROVE  /\ row' \in [Jobs -> RowType]
         /\ \A j \in Jobs :
              /\ row'[j].done = row[j].done
              /\ \/ row'[j].status = row[j].status
                 \/ row[j].status = "running" /\ row'[j].status = "interrupted"
  <1>1. CASE row' = row
    BY <1>1 DEF TypeOK
  <1>2. CASE row' = Swept
    <2>1. ASSUME NEW j \in Jobs
          PROVE  /\ Swept[j] \in RowType
                 /\ Swept[j].done = row[j].done
                 /\ \/ Swept[j].status = row[j].status
                    \/ row[j].status = "running" /\ Swept[j].status = "interrupted"
      <3>1. row[j] \in RowType
        BY DEF TypeOK
      <3> QED BY <3>1 DEF Swept, RowType
    <2> QED BY <1>2, <2>1 DEF Swept
  <1> QED BY <1>1, <1>2 DEF Boot

\* The watcher records a value of the walk; nothing else it does changes "seen".
LEMMA WatchEffect ==
  ASSUME TypeOK, NEW j \in Jobs, WatchStep(j)
  PROVE  \E v \in WatcherType :
           /\ watcher' = [watcher EXCEPT ![j] = v]
           /\ v.seen \in {watcher[j].seen, walk[j].processed}
  <1>1. watcher[j] \in WatcherType /\ walk[j].processed \in 0 .. MaxFiles
    BY DEF TypeOK, WalkType
  <1>2. ASSUME NEW label \in {"waiting", "gone"},
               watcher' = [watcher EXCEPT ![j].pc = label]
        PROVE  \E v \in WatcherType :
                 watcher' = [watcher EXCEPT ![j] = v] /\ v.seen = watcher[j].seen
    <2> DEFINE v == [watcher[j] EXCEPT !.pc = label]
    <2>1. v \in WatcherType /\ v.seen = watcher[j].seen
      BY <1>1 DEF WatcherType
    <2>2. watcher' = [watcher EXCEPT ![j] = v]
      BY <1>2 DEF TypeOK
    <2> QED BY <2>1, <2>2
  <1>3. CASE WatchTake(j)
    <2> DEFINE v == [pc |-> "writing", seen |-> walk[j].processed]
    <2>1. v \in WatcherType /\ watcher' = [watcher EXCEPT ![j] = v]
      BY <1>1, <1>3 DEF WatcherType, WatchTake
    <2> QED BY <2>1
  <1>4. CASE WatchOpen(j) \/ WatchWrite(j) \/ WatchEnd(j)
    BY <1>2, <1>4 DEF WatchOpen, WatchWrite, WatchEnd
  <1> QED BY <1>3, <1>4 DEF WatchStep

LEMMA CrashEffect ==
  ASSUME TypeOK, NEW p \in Procs, Crash(p)
  PROVE  /\ watcher' \in [Jobs -> WatcherType]
         /\ \A j \in Jobs : watcher'[j].seen = watcher[j].seen
  <1>1. ASSUME NEW j \in Jobs
        PROVE  watcher'[j] \in WatcherType /\ watcher'[j].seen = watcher[j].seen
    <2>1. watcher[j] \in WatcherType
      BY DEF TypeOK
    <2> QED BY <2>1 DEF Crash, WatcherType
  <1> QED BY <1>1 DEF Crash

\* Every step keeps the type of every variable.
LEMMA TypeStep == IInv /\ [Next]_vars => TypeOK'
  <1> SUFFICES ASSUME IInv, [Next]_vars PROVE TypeOK'
    OBVIOUS
  <1> USE DEF IInv, TypeOK, Live, InCall, InTask, Ended, jobVars, Goto, FreeKey
  <1>1. CASE UNCHANGED vars
    BY <1>1 DEF vars
  <1>2. ASSUME NEW p \in Procs, Boot(p) PROVE TypeOK'
    BY <1>2, SweepEffect DEF Boot
  <1>3. ASSUME NEW p \in Procs, Crash(p) PROVE TypeOK'
    BY <1>3, CrashEffect DEF Crash
  <1>4. ASSUME NEW p \in Procs, NEW k \in Keys, NEW j \in Jobs, Claim(p, k, j) PROVE TypeOK'
    BY <1>4 DEF Claim
  <1>5. ASSUME NEW j \in Jobs, QueryFails(j) \/ FindNone(j) \/ EndWalk(j) \/ Reopen(j)
        PROVE  TypeOK'
    BY <1>5 DEF QueryFails, FindNone, EndWalk, Reopen
  <1>6. ASSUME NEW j \in Jobs, FindRunning(j) \/ InsertFails(j) \/ Release(j) PROVE TypeOK'
    <2>1. active' \in [Procs -> [Keys -> Jobs \cup {NoJob}]]
      <3>1. proc[j] \in Procs /\ key[j] \in Keys
        BY <1>6 DEF FindRunning, InsertFails, Release, LiveHoldsKey
      <3> QED BY SMTT(30), <1>6, <3>1 DEF FindRunning, InsertFails, Release
    <2>2. pc' \in [Jobs -> {"unused"} \cup Live \cup Ended]
      BY <1>6 DEF FindRunning, InsertFails, Release
    <2> QED BY <1>6, <2>1, <2>2 DEF FindRunning, InsertFails, Release
  <1>7. ASSUME NEW j \in Jobs, Insert(j) \/ Report(j) \/ MarkDone(j) PROVE TypeOK'
    <2>1. row' \in [Jobs -> RowType]
      BY <1>7, RowEffect
    <2> QED BY <1>7, <2>1 DEF Insert, Report, MarkDone
  <1>8. ASSUME NEW j \in Jobs, StartWalk(j) PROVE TypeOK'
    <2>1. walk' \in [Jobs -> WalkType] /\ watcher' \in [Jobs -> WatcherType]
      BY <1>8, StartEffect
    <2> QED BY <1>8, <2>1 DEF StartWalk
  <1>9. ASSUME NEW j \in Jobs, WalkFile(j) PROVE TypeOK'
    <2>1. walk' \in [Jobs -> WalkType]
      BY <1>9, WalkEffect
    <2> QED BY <1>9, <2>1 DEF WalkFile
  <1>10. ASSUME NEW j \in Jobs, WatchStep(j) PROVE TypeOK'
    <2>1. watcher' \in [Jobs -> WatcherType]
      BY <1>10, WatchEffect
    <2>2. row' \in [Jobs -> RowType]
      BY <1>10, RowEffect DEF WatchStep, WatchOpen, WatchTake, WatchWrite, WatchEnd
    <2> QED BY <1>10, <2>1, <2>2 DEF WatchStep, WatchOpen, WatchTake, WatchWrite, WatchEnd
  <1> QED BY <1>1, <1>2, <1>3, <1>4, <1>5, <1>6, <1>7, <1>8, <1>9, <1>10 DEF Next, JobStep

\* A key that a job frees is its own, so every other live job keeps its key.
LEMMA HoldStep == IInv /\ [Next]_vars => LiveHoldsKey'
  <1> SUFFICES ASSUME IInv, [Next]_vars PROVE LiveHoldsKey'
    OBVIOUS
  <1> USE DEF IInv, TypeOK, LiveHoldsKey, Live, InCall, InTask, Ended, jobVars, Goto, FreeKey
  <1>1. CASE UNCHANGED vars
    BY <1>1 DEF vars
  <1>2. ASSUME NEW p \in Procs, Boot(p) PROVE LiveHoldsKey'
    BY <1>2 DEF Boot
  <1>3. ASSUME NEW p \in Procs, Crash(p) PROVE LiveHoldsKey'
    BY <1>3 DEF Crash
  <1>4. ASSUME NEW p \in Procs, NEW k \in Keys, NEW j \in Jobs, Claim(p, k, j)
        PROVE  LiveHoldsKey'
    BY <1>4, NullAssumption DEF Claim
  <1>5. ASSUME NEW j \in Jobs,
               \/ QueryFails(j) \/ FindNone(j) \/ Insert(j) \/ EndWalk(j)
               \/ Reopen(j) \/ Report(j) \/ MarkDone(j) \/ StartWalk(j) \/ WalkFile(j)
        PROVE  LiveHoldsKey'
    BY <1>5 DEF QueryFails, FindNone, Insert, EndWalk, Reopen, Report, MarkDone,
                StartWalk, WalkFile
  <1>6. ASSUME NEW j \in Jobs, FindRunning(j) \/ InsertFails(j) \/ Release(j)
        PROVE  LiveHoldsKey'
    BY <1>6 DEF FindRunning, InsertFails, Release
  <1>7. ASSUME NEW j \in Jobs, WatchStep(j) PROVE LiveHoldsKey'
    BY <1>7 DEF WatchStep, WatchOpen, WatchTake, WatchWrite, WatchEnd
  <1> QED BY <1>1, <1>2, <1>3, <1>4, <1>5, <1>6, <1>7 DEF Next, JobStep

LEMMA RowStep == IInv /\ [Next]_vars => RowFollowsTask'
  <1> SUFFICES ASSUME IInv, [Next]_vars PROVE RowFollowsTask'
    OBVIOUS
  <1> USE DEF IInv, TypeOK, RowFollowsTask, BeforeInsert, Working, Live, InCall, InTask,
              Ended, jobVars, Goto
  <1>1. CASE UNCHANGED vars
    BY <1>1 DEF vars
  <1>2. ASSUME NEW p \in Procs, Boot(p) PROVE RowFollowsTask'
    BY <1>2, SweepEffect DEF Boot
  <1>3. ASSUME NEW p \in Procs, Crash(p) PROVE RowFollowsTask'
    BY <1>3 DEF Crash
  <1>4. ASSUME NEW p \in Procs, NEW k \in Keys, NEW j \in Jobs, Claim(p, k, j)
        PROVE  RowFollowsTask'
    BY <1>4 DEF Claim
  <1>5. ASSUME NEW j \in Jobs,
               \/ QueryFails(j) \/ FindNone(j) \/ FindRunning(j) \/ InsertFails(j)
               \/ EndWalk(j) \/ Reopen(j) \/ StartWalk(j) \/ WalkFile(j) \/ Release(j)
        PROVE  RowFollowsTask'
    BY <1>5 DEF QueryFails, FindNone, FindRunning, InsertFails, EndWalk, Reopen,
                StartWalk, WalkFile, Release
  <1>6. ASSUME NEW j \in Jobs, Insert(j) \/ Report(j) \/ MarkDone(j) PROVE RowFollowsTask'
    <2>1. PICK r \in RowType :
            /\ row' = [row EXCEPT ![j] = r]
            /\ Insert(j) => r.status = "running"
            /\ MarkDone(j) => r.status \in {row[j].status, "done"}
            /\ Report(j) => r.status = row[j].status
      BY <1>6, RowEffect
    <2> QED BY <1>6, <2>1 DEF Insert, Report, MarkDone
  <1>7. ASSUME NEW j \in Jobs, WatchStep(j) PROVE RowFollowsTask'
    BY <1>7, RowEffect DEF WatchStep, WatchOpen, WatchTake, WatchWrite, WatchEnd
  <1> QED BY <1>1, <1>2, <1>3, <1>4, <1>5, <1>6, <1>7 DEF Next, JobStep

\* The counters grow together, and both writers of files_done copy one of them.
LEMMA WalkStep == IInv /\ [Next]_vars => WalkInOrder' /\ ProgressWithinWalk'
  <1> DEFINE Goal == WalkInOrder' /\ ProgressWithinWalk'
  <1> SUFFICES ASSUME IInv, [Next]_vars PROVE Goal
    OBVIOUS
  <1> USE FilesAssumption
      DEF IInv, TypeOK, WalkInOrder, ProgressWithinWalk, BeforeInsert, Live, InCall,
          InTask, Ended, jobVars, Goto
  <1>1. CASE UNCHANGED vars
    BY <1>1 DEF vars
  <1>2. ASSUME NEW p \in Procs, Boot(p) PROVE Goal
    BY <1>2, SweepEffect DEF Boot
  <1>3. ASSUME NEW p \in Procs, Crash(p) PROVE Goal
    BY <1>3, CrashEffect DEF Crash
  <1>4. ASSUME NEW p \in Procs, NEW k \in Keys, NEW j \in Jobs, Claim(p, k, j) PROVE Goal
    BY <1>4 DEF Claim
  <1>5. ASSUME NEW j \in Jobs,
               \/ QueryFails(j) \/ FindNone(j) \/ FindRunning(j) \/ InsertFails(j)
               \/ EndWalk(j) \/ Reopen(j) \/ Release(j)
        PROVE  Goal
    BY <1>5 DEF QueryFails, FindNone, FindRunning, InsertFails, EndWalk, Reopen, Release
  <1>6. ASSUME NEW j \in Jobs, Insert(j) \/ Report(j) \/ MarkDone(j) PROVE Goal
    <2>1. PICK r \in RowType :
            row' = [row EXCEPT ![j] = r] /\ r.done <= walk[j].processed
      BY <1>6, RowEffect
    <2> QED BY <1>6, <2>1 DEF Insert, Report, MarkDone
  <1>7. ASSUME NEW j \in Jobs, StartWalk(j) PROVE Goal
    <2>1. PICK w \in WalkType :
            /\ walk' = [walk EXCEPT ![j] = w]
            /\ w.processed = 0 /\ w.ingested = 0 /\ w.failed = 0
      BY <1>7, StartEffect
    <2>2. PICK v \in WatcherType :
            watcher' = [watcher EXCEPT ![j] = v] /\ v.seen = watcher[j].seen
      BY <1>7, StartEffect
    <2>3. w.files \in Nat /\ walk[j].processed = 0
      BY <1>7 DEF WalkType, StartWalk
    <2> QED BY <1>7, <2>1, <2>2, <2>3 DEF StartWalk
  <1>8. ASSUME NEW j \in Jobs, WalkFile(j) PROVE Goal
    <2>1. PICK w \in WalkType :
            /\ walk' = [walk EXCEPT ![j] = w]
            /\ w.files = walk[j].files
            /\ w.processed = walk[j].processed + 1
            /\ w.ingested <= w.processed /\ w.failed <= w.processed
      BY <1>8, WalkEffect
    <2>2. walk[j].processed \in Nat /\ walk[j].files \in Nat
      BY DEF WalkType
    <2>3. row[j].done \in Nat /\ watcher[j].seen \in Nat
      BY DEF RowType, WatcherType
    <2>4. w.processed <= w.files /\ row[j].done <= w.processed /\ watcher[j].seen <= w.processed
      BY <1>8, <2>1, <2>2, <2>3 DEF WalkFile
    <2> QED BY <1>8, <2>1, <2>4 DEF WalkFile
  <1>9. ASSUME NEW j \in Jobs, WatchStep(j) PROVE Goal
    <2>1. PICK v \in WatcherType :
            /\ watcher' = [watcher EXCEPT ![j] = v]
            /\ v.seen \in {watcher[j].seen, walk[j].processed}
      BY <1>9, WatchEffect
    <2>2. walk[j].processed \in Nat
      BY DEF WalkType
    <2>3. \A i \in Jobs : row'[i].done <= walk[i].processed
      <3>1. CASE WatchWrite(j)
        BY <3>1, RowEffect
      <3>2. CASE ~ WatchWrite(j)
        BY <1>9, <3>2 DEF WatchStep, WatchOpen, WatchTake, WatchEnd
      <3> QED BY <3>1, <3>2
    <2> QED BY <1>9, <2>1, <2>2, <2>3 DEF WatchStep, WatchOpen, WatchTake, WatchWrite, WatchEnd
  <1> QED BY <1>1, <1>2, <1>3, <1>4, <1>5, <1>6, <1>7, <1>8, <1>9 DEF Next, JobStep

\* A job becomes one of the open jobs of its corpus only by the query that finds
\* no running row: the other open jobs are then calls, and of other processes.
LEMMA OpenRowStep == IInv /\ [Next]_vars => OneOpenRowPerProc'
  <1> SUFFICES ASSUME IInv, [Next]_vars PROVE OneOpenRowPerProc'
    OBVIOUS
  <1> USE DEF IInv, TypeOK, OneOpenRowPerProc, OpenJobs, RowFollowsTask, BeforeInsert,
              Live, InCall, InTask, Ended, jobVars, Goto
  <1>1. CASE UNCHANGED vars
    BY <1>1 DEF vars
  <1>2. ASSUME NEW p \in Procs, Boot(p) PROVE OneOpenRowPerProc'
    BY <1>2, CorporaAssumption DEF Boot, Swept
  <1>3. ASSUME NEW p \in Procs, Crash(p) PROVE OneOpenRowPerProc'
    BY <1>3 DEF Crash
  <1>4. ASSUME NEW p \in Procs, NEW k \in Keys, NEW j \in Jobs, Claim(p, k, j)
        PROVE  OneOpenRowPerProc'
    BY <1>4 DEF Claim
  <1>5. ASSUME NEW j \in Jobs, FindNone(j) PROVE OneOpenRowPerProc'
    <2>1. SUFFICES ASSUME NEW k \in Corpora, NEW i \in Jobs, i # j,
                          key[i] = k, key[j] = k,
                          pc[i] = "checked" \/ row[i].status = "running"
                   PROVE  proc[i] # proc[j]
      BY <1>5 DEF FindNone
    <2>2. row[i].status # "running"
      BY <1>5, <2>1 DEF FindNone, RunningRows, RowCorpus
    <2>3. OneJobPerKey
      BY HoldersDiffer
    <2> QED BY <1>5, <2>1, <2>2, <2>3 DEF OneJobPerKey, FindNone
  <1>6. ASSUME NEW j \in Jobs,
               \/ QueryFails(j) \/ FindRunning(j) \/ InsertFails(j) \/ Insert(j)
               \/ EndWalk(j) \/ Reopen(j) \/ Release(j) \/ StartWalk(j) \/ WalkFile(j)
        PROVE  OneOpenRowPerProc'
    BY <1>6 DEF QueryFails, FindRunning, InsertFails, Insert, EndWalk, Reopen, Release,
                StartWalk, WalkFile
  <1>7. ASSUME NEW j \in Jobs, Report(j) \/ MarkDone(j) PROVE OneOpenRowPerProc'
    <2>1. \A i \in Jobs : row'[i].status \in {row[i].status, "done"}
      BY <1>7, RowEffect
    <2> QED BY <1>7, <2>1 DEF Report, MarkDone
  <1>8. ASSUME NEW j \in Jobs, WatchStep(j) PROVE OneOpenRowPerProc'
    <2>1. \A i \in Jobs : row'[i].status = row[i].status
      BY <1>8, RowEffect DEF WatchStep, WatchOpen, WatchTake, WatchWrite, WatchEnd
    <2> QED BY <1>8, <2>1 DEF WatchStep, WatchOpen, WatchTake, WatchWrite, WatchEnd
  <1> QED BY <1>1, <1>2, <1>3, <1>4, <1>5, <1>6, <1>7, <1>8 DEF Next, JobStep

LEMMA NextIInv == IInv /\ [Next]_vars => IInv'
  BY TypeStep, HoldStep, RowStep, WalkStep, OpenRowStep DEF IInv

LEMMA SpecIInv == Spec => []IInv
  BY InitIInv, NextIInv, PTL DEF Spec

-----------------------------------------------------------------------------
\* Type correctness, for every value of the constants.
THEOREM TypeCorrect == Spec => []TypeOK
  BY SpecIInv, PTL DEF IInv

\* In one process two calls or tasks never work on the same corpus key.
THEOREM OneJobPerKeyHolds == Spec => []OneJobPerKey
  <1>1. IInv => OneJobPerKey
    BY HoldersDiffer DEF IInv
  <1> QED BY <1>1, SpecIInv, PTL

\* A process opens at most one running row for a corpus, over all its restarts.
THEOREM OneOpenRowPerProcHolds == Spec => []OneOpenRowPerProc
  BY SpecIInv, PTL DEF IInv

\* files_done never runs ahead of the walk.
THEOREM ProgressWithinWalkHolds == Spec => []ProgressWithinWalk
  BY SpecIInv, PTL DEF IInv

-----------------------------------------------------------------------------
\* Which row a step touches, seen from its status: needed for what no step may do.
LEMMA StatusEffect ==
  ASSUME IInv, Next, NEW j \in Jobs, row'[j].status # row[j].status
  PROVE  \/ row[j].status = "absent" /\ row'[j].status = "running"
         \/ row[j].status = "running" /\ row'[j].status = "interrupted"
         \/ /\ row[j].status \in {"running", "interrupted"}
            /\ row'[j].status = "done"
            /\ pc[j] = "marking" /\ walk[j].processed = walk[j].files
  <1> USE DEF IInv
  <1>1. ASSUME NEW p \in Procs, Boot(p)
        PROVE  row[j].status = "running" /\ row'[j].status = "interrupted"
    BY <1>1, SweepEffect
  <1>2. ASSUME NEW i \in Jobs, Insert(i)
        PROVE  row[j].status = "absent" /\ row'[j].status = "running"
    <2>1. PICK r \in RowType : row' = [row EXCEPT ![i] = r] /\ r.status = "running"
      BY <1>2, RowEffect
    <2>2. row[i].status = "absent"
      BY <1>2 DEF Insert, RowFollowsTask, BeforeInsert
    <2> QED BY <2>1, <2>2 DEF TypeOK
  <1>3. ASSUME NEW i \in Jobs, MarkDone(i)
        PROVE  /\ row[j].status \in {"running", "interrupted"}
               /\ row'[j].status = "done"
               /\ pc[j] = "marking" /\ walk[j].processed = walk[j].files
    <2>1. PICK r \in RowType :
            row' = [row EXCEPT ![i] = r] /\ r.status \in {row[i].status, "done"}
      BY <1>3, RowEffect
    <2>2. /\ row[i].status \in {"running", "interrupted"}
          /\ pc[i] = "marking" /\ walk[i].processed = walk[i].files
      BY <1>3 DEF MarkDone, RowFollowsTask, Working, WalkInOrder
    <2> QED BY <2>1, <2>2 DEF TypeOK
  <1>4. ASSUME NEW i \in Jobs, Report(i) \/ WatchWrite(i)
        PROVE  row'[j].status = row[j].status
    <2>1. PICK r \in RowType :
            row' = [row EXCEPT ![i] = r] /\ r.status = row[i].status
      BY <1>4, RowEffect
    <2> QED BY <2>1 DEF TypeOK
  <1>5. ASSUME NEW i \in Jobs,
               \/ QueryFails(i) \/ FindRunning(i) \/ FindNone(i) \/ InsertFails(i)
               \/ StartWalk(i) \/ WalkFile(i) \/ EndWalk(i) \/ Reopen(i) \/ Release(i)
               \/ WatchOpen(i) \/ WatchTake(i) \/ WatchEnd(i)
        PROVE  row' = row
    BY <1>5 DEF QueryFails, FindRunning, FindNone, InsertFails, StartWalk, WalkFile, EndWalk,
                Reopen, Release, WatchOpen, WatchTake, WatchEnd
  <1>6. ASSUME NEW p \in Procs, Crash(p) PROVE row' = row
    BY <1>6 DEF Crash
  <1>7. ASSUME NEW p \in Procs, NEW k \in Keys, NEW i \in Jobs, Claim(p, k, i)
        PROVE  row' = row
    BY <1>7 DEF Claim
  <1> QED BY <1>1, <1>2, <1>3, <1>4, <1>5, <1>6, <1>7 DEF Next, JobStep, WatchStep

\* Rows move from absent to running, from running to interrupted, and to done only by
\* the task that walked the whole folder; done is final.
THEOREM StatusOrderHolds == Spec => StatusOrder
  <1>1. IInv /\ [Next]_vars =>
          [\A j \in Jobs :
             row'[j].status # row[j].status =>
               \/ row[j].status = "absent" /\ row'[j].status = "running"
               \/ row[j].status = "running" /\ row'[j].status = "interrupted"
               \/ /\ row[j].status \in {"running", "interrupted"}
                  /\ row'[j].status = "done"
                  /\ pc[j] = "marking" /\ walk[j].processed = walk[j].files]_vars
    BY StatusEffect
  <1> QED BY <1>1, SpecIInv, PTL DEF Spec, StatusOrder

-----------------------------------------------------------------------------
\* Every error path but the failing query gives the key back, so an entry of the
\* map always has a live owner.
LEMMA OwnerStep ==
  ASSUME "query" \notin Faults, IInv, ClaimHasOwner, [Next]_vars
  PROVE  ClaimHasOwner'
  <1> USE NullAssumption
      DEF IInv, TypeOK, ClaimHasOwner, LiveHoldsKey, Live, InCall, InTask, Ended, jobVars,
          Goto, FreeKey
  <1>1. CASE UNCHANGED vars
    BY <1>1 DEF vars
  <1>2. ASSUME NEW p \in Procs, Boot(p) PROVE ClaimHasOwner'
    BY <1>2 DEF Boot
  <1>3. ASSUME NEW p \in Procs, Crash(p) PROVE ClaimHasOwner'
    BY <1>3 DEF Crash
  <1>4. ASSUME NEW p \in Procs, NEW k \in Keys, NEW j \in Jobs, Claim(p, k, j)
        PROVE  ClaimHasOwner'
    BY <1>4 DEF Claim
  <1>5. ASSUME NEW j \in Jobs,
               \/ FindNone(j) \/ Insert(j) \/ EndWalk(j) \/ Reopen(j)
               \/ Report(j) \/ MarkDone(j) \/ StartWalk(j) \/ WalkFile(j)
        PROVE  ClaimHasOwner'
    BY <1>5 DEF FindNone, Insert, EndWalk, Reopen, Report, MarkDone, StartWalk, WalkFile
  <1>6. ASSUME NEW j \in Jobs, FindRunning(j) \/ InsertFails(j) \/ Release(j)
        PROVE  ClaimHasOwner'
    <2>1. /\ proc[j] \in Procs /\ key[j] \in Keys /\ active[proc[j]][key[j]] = j
          /\ active' = [active EXCEPT ![proc[j]][key[j]] = NoJob]
          /\ \A i \in Jobs : i # j => pc'[i] = pc[i]
          /\ proc' = proc /\ key' = key
      BY <1>6 DEF FindRunning, InsertFails, Release
    <2>2. ASSUME NEW p \in Procs, NEW k \in Keys, active'[p][k] # NoJob
          PROVE  active'[p][k] = active[p][k] /\ active[p][k] # j
      BY <2>1, <2>2
    <2>3. \A p \in Procs, k \in Keys : active[p][k] \in Jobs \cup {NoJob}
      OBVIOUS
    <2> QED BY <2>1, <2>2, <2>3
  <1>7. ASSUME NEW j \in Jobs, WatchStep(j) PROVE ClaimHasOwner'
    BY <1>7 DEF WatchStep, WatchOpen, WatchTake, WatchWrite, WatchEnd
  <1>8. ASSUME NEW j \in Jobs, QueryFails(j) PROVE ClaimHasOwner'
    BY <1>8 DEF QueryFails
  <1> QED BY <1>1, <1>2, <1>3, <1>4, <1>5, <1>6, <1>7, <1>8 DEF Next, JobStep

LEMMA InitOwner == Init => ClaimHasOwner
  BY DEF Init, ClaimHasOwner

\* As long as the query of the store does not fail, a key in the map always belongs to
\* a call or task that is going to take it out.
THEOREM ClaimHasOwnerHolds ==
  ASSUME "query" \notin Faults PROVE Spec => []ClaimHasOwner
  <1>1. IInv /\ ClaimHasOwner /\ [Next]_vars => ClaimHasOwner'
    BY OwnerStep
  <1> QED BY <1>1, InitOwner, SpecIInv, PTL DEF Spec

\* One step of the implementation is a step of the table of claims, or changes neither
\* the map nor who holds what.
LEMMA ClaimsStep ==
  ASSUME IInv, ClaimHasOwner, ClaimHasOwner', "query" \notin Faults, [Next]_vars
  PROVE  [Claims!Next]_(Claims!vars)
  <1> DEFINE phase == [j \in Jobs |-> IF pc[j] = "unused" THEN "fresh"
                          ELSE IF pc[j] \in Live THEN "holding" ELSE "released"]
             phaseNext == [j \in Jobs |-> IF pc'[j] = "unused" THEN "fresh"
                          ELSE IF pc'[j] \in Live THEN "holding" ELSE "released"]
  <1> USE DEF Claims!Next, Claims!vars
  <1>1. CASE UNCHANGED vars
    BY <1>1 DEF vars
  <1>2. ASSUME NEW p \in Procs, Boot(p) PROVE UNCHANGED Claims!vars
    BY <1>2 DEF Boot, jobVars
  <1>3. ASSUME NEW p \in Procs, Crash(p) PROVE Claims!ProcessDies(p)
    <2>1. ASSUME NEW j \in Jobs
          PROVE  (\E k \in Keys : active[p][k] = j) <=> proc[j] = p /\ pc[j] \in Live
      BY NullAssumption DEF IInv, LiveHoldsKey, ClaimHasOwner
    <2>2. phaseNext = [j \in Jobs |->
                         IF \E k \in Keys : active[p][k] = j THEN "released" ELSE phase[j]]
      BY <1>3, <2>1 DEF Crash, Live, InCall, InTask
    <2> QED BY <1>3, <2>2 DEF Claims!ProcessDies, Crash
  <1>4. ASSUME NEW p \in Procs, NEW k \in Keys, NEW j \in Jobs, Claim(p, k, j)
        PROVE  Claims!Acquire(p, k, j)
    <2>1. phaseNext = [phase EXCEPT ![j] = "holding"]
      BY <1>4 DEF Claim, Goto, Live, InCall, InTask, IInv, TypeOK
    <2> QED BY <1>4, <2>1 DEF Claims!Acquire, Claim
  <1>5. ASSUME NEW j \in Jobs,
               \/ FindNone(j) \/ Insert(j) \/ EndWalk(j) \/ Reopen(j)
               \/ Report(j) \/ MarkDone(j) \/ StartWalk(j) \/ WalkFile(j) \/ WatchStep(j)
        PROVE  UNCHANGED Claims!vars
    <2>1. active' = active
      BY <1>5 DEF FindNone, Insert, EndWalk, Reopen, Report, MarkDone, StartWalk, WalkFile,
                  WatchStep, WatchOpen, WatchTake, WatchWrite, WatchEnd
    <2>2. phaseNext = phase
      BY <1>5 DEF FindNone, Insert, EndWalk, Reopen, Report, MarkDone, StartWalk, WalkFile,
                  WatchStep, WatchOpen, WatchTake, WatchWrite, WatchEnd, jobVars, Goto,
                  Live, InCall, InTask, IInv, TypeOK
    <2> QED BY <2>1, <2>2
  <1>6. ASSUME NEW j \in Jobs, FindRunning(j) \/ InsertFails(j) \/ Release(j)
        PROVE  Claims!Yield(proc[j], key[j], j) /\ proc[j] \in Procs /\ key[j] \in Keys
    <2>1. /\ proc[j] \in Procs /\ key[j] \in Keys /\ active[proc[j]][key[j]] = j
          /\ phase[j] = "holding"
      BY <1>6 DEF FindRunning, InsertFails, Release, IInv, LiveHoldsKey, Live, InCall, InTask
    <2>2. phaseNext = [phase EXCEPT ![j] = "released"]
      BY <1>6 DEF FindRunning, InsertFails, Release, Goto, Live, InCall, InTask, IInv, TypeOK
    <2>3. active' = [active EXCEPT ![proc[j]][key[j]] = NoJob]
      BY <1>6 DEF FindRunning, InsertFails, Release, FreeKey
    <2> QED BY <2>1, <2>2, <2>3 DEF Claims!Yield
  <1>7. ASSUME NEW j \in Jobs, QueryFails(j) PROVE FALSE
    BY <1>7 DEF QueryFails
  <1> QED BY <1>1, <1>2, <1>3, <1>4, <1>5, <1>6, <1>7 DEF Next, JobStep

LEMMA ClaimsInit == Init => Claims!Init
  BY DEF Init, Claims!Init

\* The map implements the abstract table of claims: every job that gives up a key gives
\* up its own, and none is taken from it.
THEOREM ClaimsRefinedHolds ==
  ASSUME "query" \notin Faults PROVE Spec => ClaimsRefined
  <1>1. IInv /\ ClaimHasOwner /\ ClaimHasOwner' /\ [Next]_vars => [Claims!Next]_(Claims!vars)
    BY ClaimsStep
  <1> QED BY <1>1, ClaimsInit, ClaimHasOwnerHolds, SpecIInv, PTL
          DEF Spec, ClaimsRefined, Claims!Spec

-----------------------------------------------------------------------------
\* Where the final writes go through, the status a task leaves behind is done.
MarkedIsDone == \A j \in Jobs : pc[j] \in {"releasing", "finished"} => row[j].status = "done"

LEMMA MarkedStep ==
  ASSUME {"reopen", "write"} \cap Faults = {}, IInv, MarkedIsDone, [Next]_vars
  PROVE  MarkedIsDone'
  <1> SUFFICES ASSUME NEW j \in Jobs, pc'[j] \in {"releasing", "finished"}
               PROVE  row'[j].status = "done"
    BY DEF MarkedIsDone
  <1>1. CASE pc[j] \in {"releasing", "finished"}
    <2>1. row[j].status = "done"
      BY <1>1 DEF MarkedIsDone
    <2>2. row' = row \/ Next
      BY DEF vars
    <2> QED BY <2>1, <2>2, StatusEffect
  <1>2. CASE pc[j] \notin {"releasing", "finished"}
    <2>1. Next
      BY <1>2 DEF vars
    <2>2. ~ \E p \in Procs : Boot(p) \/ Crash(p)
      BY <1>2 DEF Boot, Crash, jobVars
    <2>3. ~ \E p \in Procs, k \in Keys, i \in Jobs : Claim(p, k, i)
      BY <1>2 DEF Claim, Goto, IInv, TypeOK
    <2>4. MarkDone(j)
      BY ZenonT(60), <1>2, <2>1, <2>2, <2>3
         DEF Next, JobStep, WatchStep, QueryFails, FindRunning, FindNone, Insert, InsertFails,
             StartWalk, WalkFile, EndWalk, Reopen, Report, MarkDone, Release, WatchOpen,
             WatchTake, WatchWrite, WatchEnd, jobVars, Goto, IInv, TypeOK
    <2>5. row[j] \in RowType
      BY DEF IInv, TypeOK
    <2> QED BY <2>4, <2>5 DEF MarkDone, RowType, IInv, TypeOK
  <1> QED BY <1>1, <1>2

\* A task that came to its end left its row done, whatever sweeps ran meanwhile.
THEOREM FinishedIsDoneHolds ==
  ASSUME {"reopen", "write"} \cap Faults = {} PROVE Spec => []FinishedIsDone
  <1>1. Init => MarkedIsDone
    BY DEF Init, MarkedIsDone
  <1>2. IInv /\ MarkedIsDone /\ [Next]_vars => MarkedIsDone'
    BY MarkedStep
  <1>3. MarkedIsDone => FinishedIsDone
    BY DEF MarkedIsDone, FinishedIsDone
  <1> QED BY <1>1, <1>2, <1>3, SpecIInv, PTL DEF Spec
-----------------------------------------------------------------------------
(* Calls, tasks and watchers come to an end.                                *)

LEMMA TaskIs ==
  ASSUME NEW at, NEW w
  PROVE  /\ at = "unused" => TaskLeft(at, w) = MaxFiles + 9
         /\ at = "claimed" => TaskLeft(at, w) = MaxFiles + 8
         /\ at = "checked" => TaskLeft(at, w) = MaxFiles + 7
         /\ at = "spawned" => TaskLeft(at, w) = MaxFiles + 6
         /\ at = "walking" => TaskLeft(at, w) = (w.files - w.processed) + 5
         /\ at = "walked" => TaskLeft(at, w) = 4
         /\ at = "reporting" => TaskLeft(at, w) = 3
         /\ at = "marking" => TaskLeft(at, w) = 2
         /\ at = "releasing" => TaskLeft(at, w) = 1
         /\ at \in Ended => TaskLeft(at, w) = 0
BY DEF TaskLeft, Ended

LEMMA WatchIs ==
  ASSUME NEW v
  PROVE  /\ v.pc = "off" => WatchLeft(v) = 2 * MaxFiles + 3
         /\ v.pc = "opening" => WatchLeft(v) = 2 * MaxFiles + 2
         /\ v.pc = "writing" => WatchLeft(v) = 2 * (MaxFiles - v.seen) + 2
         /\ v.pc = "waiting" => WatchLeft(v) = 2 * (MaxFiles - v.seen) + 1
         /\ v.pc = "gone" => WatchLeft(v) = 0
BY DEF WatchLeft

\* There is no watcher before the walk starts.
WatcherFollows ==
  \A j \in Jobs : pc[j] \in BeforeInsert \cup {"spawned"} => watcher[j].pc = "off"

\* The ways to a place of a task at or before the spawn.
LEMMA EarlyPlaces ==
  ASSUME TypeOK, Next, NEW j \in Jobs, pc'[j] \in BeforeInsert \cup {"spawned"}
  PROVE  pc[j] \in BeforeInsert \cup {"spawned"} /\ ~StartWalk(j)
<1>0. pc \in [Jobs -> {"unused"} \cup Live \cup Ended]
  BY DEF TypeOK
<1>1. ASSUME NEW p \in Procs, Boot(p) \/ Crash(p)
      PROVE  pc[j] \in BeforeInsert \cup {"spawned"} /\ ~StartWalk(j)
  BY <1>0, <1>1 DEF Boot, Crash, StartWalk, jobVars, BeforeInsert, Goto
<1>2. ASSUME NEW p \in Procs, NEW k \in Keys, NEW i \in Jobs, Claim(p, k, i)
      PROVE  pc[j] \in BeforeInsert \cup {"spawned"} /\ ~StartWalk(j)
  BY <1>0, <1>2 DEF Claim, StartWalk, Goto, BeforeInsert
<1>3. ASSUME NEW i \in Jobs, WatchStep(i)
      PROVE  pc[j] \in BeforeInsert \cup {"spawned"} /\ ~StartWalk(j)
  BY <1>0, <1>3 DEF WatchStep, WatchOpen, WatchTake, WatchWrite, WatchEnd, StartWalk, jobVars,
              BeforeInsert, Goto
<1>4. ASSUME NEW i \in Jobs, JobStep(i)
      PROVE  pc[j] \in BeforeInsert \cup {"spawned"} /\ ~StartWalk(j)
  <2>1. CASE i # j
    <3>1. pc'[j] = pc[j]
      BY <1>0, <1>4, <2>1
      DEF JobStep, QueryFails, FindRunning, FindNone, Insert, InsertFails, StartWalk, WalkFile,
          EndWalk, Reopen, Report, MarkDone, Release, Goto
    <3>2. ~StartWalk(j)
      BY <1>0, <3>1 DEF StartWalk, Goto
    <3> QED BY <3>1, <3>2
  <2>2. CASE i = j
    BY <1>0, <1>4, <2>2
    DEF JobStep, QueryFails, FindRunning, FindNone, Insert, InsertFails, StartWalk, WalkFile,
        EndWalk, Reopen, Report, MarkDone, Release, Goto, BeforeInsert
  <2> QED BY <2>1, <2>2
<1> QED BY <1>1, <1>2, <1>3, <1>4 DEF Next

LEMMA WatcherStep ==
  ASSUME TypeOK, WatcherFollows, [Next]_vars
  PROVE  WatcherFollows'
<1> SUFFICES ASSUME NEW j \in Jobs, pc'[j] \in BeforeInsert \cup {"spawned"}
             PROVE  watcher'[j].pc = "off"
  BY DEF WatcherFollows
<1>1. CASE UNCHANGED vars
  BY <1>1 DEF vars, WatcherFollows
<1>2. CASE Next
  <2>1. watcher[j].pc = "off" /\ ~StartWalk(j)
    BY <1>2, EarlyPlaces DEF WatcherFollows
  <2>2. watcher \in [Jobs -> WatcherType]
    BY DEF TypeOK
  <2>3. ASSUME NEW p \in Procs, Boot(p) \/ Crash(p) PROVE watcher'[j] = watcher[j]
    BY <2>1, <2>3 DEF Boot, Crash
  <2>4. ASSUME NEW p \in Procs, NEW k \in Keys, NEW i \in Jobs, Claim(p, k, i)
        PROVE  watcher'[j] = watcher[j]
    BY <2>4 DEF Claim
  <2>5. ASSUME NEW i \in Jobs, JobStep(i) PROVE watcher'[j] = watcher[j]
    BY <2>1, <2>2, <2>5
    DEF JobStep, QueryFails, FindRunning, FindNone, Insert, InsertFails, StartWalk, WalkFile,
        EndWalk, Reopen, Report, MarkDone, Release
  <2>6. ASSUME NEW i \in Jobs, WatchStep(i) PROVE watcher'[j] = watcher[j]
    BY <2>1, <2>2, <2>6 DEF WatchStep, WatchOpen, WatchTake, WatchWrite, WatchEnd
  <2>7. watcher'[j] = watcher[j]
    BY <1>2, <2>3, <2>4, <2>5, <2>6 DEF Next
  <2> QED BY <2>1, <2>7
<1> QED BY <1>1, <1>2

LEMMA LeftNat ==
  ASSUME IInv, NEW j \in Jobs
  PROVE  /\ TaskLeft(pc[j], walk[j]) \in Nat
         /\ pc[j] \in {"unused"} \cup Live => TaskLeft(pc[j], walk[j]) > 0
         /\ WatchLeft(watcher[j]) \in Nat
         /\ watcher[j].pc # "gone" => WatchLeft(watcher[j]) > 0
<1> USE FilesAssumption
<1>1. /\ walk[j].files \in Nat /\ walk[j].processed \in Nat /\ walk[j].processed <= walk[j].files
      /\ watcher[j].seen \in Nat /\ watcher[j].seen <= MaxFiles
      /\ watcher[j].pc \in {"off", "opening", "waiting", "writing", "gone"}
      /\ pc[j] \in {"unused"} \cup Live \cup Ended
  BY DEF IInv, TypeOK, WalkType, WatcherType, WalkInOrder
<1>2. pc[j] \in Ended => TaskLeft(pc[j], walk[j]) = 0
  BY TaskIs
<1>3. pc[j] \in {"unused"} \cup Live => TaskLeft(pc[j], walk[j]) \in Nat /\ TaskLeft(pc[j], walk[j]) > 0
  BY <1>1, TaskIs DEF Live, InCall, InTask
<1>4. WatchLeft(watcher[j]) \in Nat /\ (watcher[j].pc # "gone" => WatchLeft(watcher[j]) > 0)
  BY <1>1, WatchIs
<1> QED BY <1>1, <1>2, <1>3, <1>4

\* The step of a job, of its watcher, of another job, of a host.
LEMMA TaskDescends ==
  ASSUME IInv, NEW j \in Jobs, JobStep(j)
  PROVE  TaskLeft(pc'[j], walk'[j]) < TaskLeft(pc[j], walk[j])
<1> USE FilesAssumption DEF Goto
<1>0. /\ pc \in [Jobs -> {"unused"} \cup Live \cup Ended] /\ walk \in [Jobs -> WalkType]
      /\ walk[j].files \in Nat /\ walk[j].processed \in Nat /\ walk[j].processed <= walk[j].files
  BY DEF IInv, TypeOK, WalkType, WalkInOrder
<1>1. CASE QueryFails(j) \/ FindRunning(j) \/ InsertFails(j)
  <2>1. pc[j] \in {"claimed", "checked"} /\ pc'[j] \in Ended
    BY <1>0, <1>1 DEF QueryFails, FindRunning, InsertFails, Ended
  <2> QED BY <2>1, TaskIs
<1>2. CASE FindNone(j)
  <2>1. pc[j] = "claimed" /\ pc'[j] = "checked"
    BY <1>0, <1>2 DEF FindNone
  <2> QED BY <2>1, TaskIs
<1>3. CASE Insert(j)
  <2>1. pc[j] = "checked" /\ pc'[j] = "spawned"
    BY <1>0, <1>3 DEF Insert
  <2> QED BY <2>1, TaskIs
<1>4. CASE StartWalk(j)
  <2>1. PICK n \in 0 .. MaxFiles : walk' = [walk EXCEPT ![j].files = n]
    BY <1>4 DEF StartWalk
  <2>2. /\ pc[j] = "spawned" /\ pc'[j] = "walking"
        /\ walk'[j].files = n /\ walk'[j].processed = walk[j].processed
    BY <1>0, <1>4, <2>1 DEF StartWalk, WalkType
  <2>3. TaskLeft(pc'[j], walk'[j]) = (n - walk[j].processed) + 5
    BY <2>2, TaskIs
  <2>4. TaskLeft(pc[j], walk[j]) = MaxFiles + 6
    BY <2>2, TaskIs
  <2> QED BY <1>0, <2>3, <2>4
<1>5. CASE WalkFile(j)
  <2>1. PICK w \in WalkType :
          /\ walk' = [walk EXCEPT ![j] = w]
          /\ w.files = walk[j].files /\ w.processed = walk[j].processed + 1
    BY <1>5, WalkEffect DEF IInv
  <2>2. pc[j] = "walking" /\ pc'[j] = "walking" /\ walk'[j] = w
    BY <1>0, <1>5, <2>1 DEF WalkFile
  <2>3. /\ TaskLeft(pc'[j], walk'[j]) = (walk[j].files - (walk[j].processed + 1)) + 5
        /\ TaskLeft(pc[j], walk[j]) = (walk[j].files - walk[j].processed) + 5
    BY <2>1, <2>2, TaskIs
  <2> QED BY <1>0, <2>3
<1>6. CASE EndWalk(j)
  <2>1. pc[j] = "walking" /\ pc'[j] = "walked" /\ walk[j].processed = walk[j].files
    BY <1>0, <1>6 DEF EndWalk
  <2>2. /\ TaskLeft(pc'[j], walk'[j]) = 4
        /\ TaskLeft(pc[j], walk[j]) = (walk[j].files - walk[j].processed) + 5
    BY <2>1, TaskIs
  <2> QED BY <1>0, <2>1, <2>2
<1>7. CASE Reopen(j)
  <2>1. pc[j] = "walked" /\ pc'[j] \in {"reporting", "releasing"}
    BY <1>0, <1>7 DEF Reopen
  <2> QED BY <2>1, TaskIs
<1>8. CASE Report(j)
  <2>1. pc[j] = "reporting" /\ pc'[j] = "marking"
    BY <1>0, <1>8 DEF Report
  <2> QED BY <2>1, TaskIs
<1>9. CASE MarkDone(j)
  <2>1. pc[j] = "marking" /\ pc'[j] = "releasing"
    BY <1>0, <1>9 DEF MarkDone
  <2> QED BY <2>1, TaskIs
<1>10. CASE Release(j)
  <2>1. pc[j] = "releasing" /\ pc'[j] \in Ended
    BY <1>0, <1>10 DEF Release, Ended
  <2> QED BY <2>1, TaskIs
<1> QED BY <1>1, <1>2, <1>3, <1>4, <1>5, <1>6, <1>7, <1>8, <1>9, <1>10 DEF JobStep

LEMMA WatchDescends ==
  ASSUME IInv, NEW j \in Jobs, WatchStep(j)
  PROVE  WatchLeft(watcher'[j]) < WatchLeft(watcher[j])
<1> USE FilesAssumption
<1>0. /\ watcher \in [Jobs -> WatcherType] /\ watcher[j].seen \in Nat
      /\ watcher[j].seen <= walk[j].processed /\ walk[j].processed \in Nat
      /\ walk[j].processed <= MaxFiles
  BY DEF IInv, TypeOK, WalkType, WatcherType, WalkInOrder
<1>1. CASE WatchOpen(j)
  <2>1. /\ watcher[j].pc = "opening" /\ watcher'[j].pc \in {"waiting", "gone"}
        /\ watcher'[j].seen = watcher[j].seen
    BY <1>0, <1>1 DEF WatchOpen, WatcherType
  <2> QED BY <1>0, <2>1, WatchIs
<1>2. CASE WatchTake(j)
  <2>1. /\ watcher[j].pc = "waiting" /\ watcher'[j].pc = "writing"
        /\ watcher'[j].seen = walk[j].processed /\ watcher[j].seen # walk[j].processed
    BY <1>0, <1>2 DEF WatchTake, WatcherType
  <2>2. /\ WatchLeft(watcher'[j]) = 2 * (MaxFiles - walk[j].processed) + 2
        /\ WatchLeft(watcher[j]) = 2 * (MaxFiles - watcher[j].seen) + 1
    BY <2>1, WatchIs
  <2>3. watcher[j].seen + 1 <= walk[j].processed
    BY <1>0, <2>1
  <2> QED BY <1>0, <2>2, <2>3
<1>3. CASE WatchWrite(j)
  <2>1. /\ watcher[j].pc = "writing" /\ watcher'[j].pc = "waiting"
        /\ watcher'[j].seen = watcher[j].seen
    BY <1>0, <1>3 DEF WatchWrite, WatcherType
  <2> QED BY <1>0, <2>1, WatchIs
<1>4. CASE WatchEnd(j)
  <2>1. watcher[j].pc = "waiting" /\ watcher'[j].pc = "gone"
    BY <1>0, <1>4 DEF WatchEnd, WatcherType
  <2> QED BY <1>0, <2>1, WatchIs
<1> QED BY <1>1, <1>2, <1>3, <1>4 DEF WatchStep

LEMMA DescendStep ==
  ASSUME IInv, WatcherFollows, Next, NEW j \in Jobs
  PROVE  /\ <<pc'[j], walk'[j]>> # <<pc[j], walk[j]>> =>
              TaskLeft(pc'[j], walk'[j]) < TaskLeft(pc[j], walk[j])
         /\ watcher'[j] # watcher[j] => WatchLeft(watcher'[j]) < WatchLeft(watcher[j])
<1> DEFINE Task == <<pc'[j], walk'[j]>> # <<pc[j], walk[j]>> =>
                     TaskLeft(pc'[j], walk'[j]) < TaskLeft(pc[j], walk[j])
           Watch == watcher'[j] # watcher[j] => WatchLeft(watcher'[j]) < WatchLeft(watcher[j])
<1>0. /\ pc \in [Jobs -> {"unused"} \cup Live \cup Ended] /\ walk \in [Jobs -> WalkType]
      /\ watcher \in [Jobs -> WatcherType]
  BY DEF IInv, TypeOK
<1>1. ASSUME NEW p \in Procs, Boot(p) PROVE Task /\ Watch
  BY <1>1 DEF Boot, jobVars
<1>2. ASSUME NEW p \in Procs, Crash(p) PROVE Task /\ Watch
  <2>1. /\ walk' = walk
        /\ pc'[j] = pc[j] \/ (pc[j] \in Live /\ pc'[j] = "dead")
    BY <1>2 DEF Crash
  <2>2. watcher'[j] = watcher[j] \/ (watcher'[j] = [watcher[j] EXCEPT !.pc = "gone"])
    BY <1>2 DEF Crash
  <2>3. Task
    <3>1. CASE pc[j] \in Live /\ pc'[j] = "dead"
      <4>1. pc'[j] \in Ended
        BY <3>1 DEF Ended
      <4>2. TaskLeft(pc'[j], walk'[j]) = 0
        BY <4>1, TaskIs
      <4>3. TaskLeft(pc[j], walk[j]) > 0
        BY <3>1, LeftNat
      <4> QED BY <4>2, <4>3
    <3> QED BY <2>1, <3>1
  <2>4. Watch
    <3>1. CASE watcher'[j] = [watcher[j] EXCEPT !.pc = "gone"] /\ watcher[j].pc # "gone"
      <4>1. watcher'[j].pc = "gone"
        BY <1>0, <3>1 DEF WatcherType
      <4> QED BY <3>1, <4>1, WatchIs, LeftNat
    <3>2. CASE watcher'[j] = [watcher[j] EXCEPT !.pc = "gone"] /\ watcher[j].pc = "gone"
      <4>1. watcher'[j] = watcher[j]
        BY <1>0, <3>2 DEF WatcherType
      <4> QED BY <4>1
    <3> QED BY <2>2, <3>1, <3>2
  <2> QED BY <2>3, <2>4
<1>3. ASSUME NEW p \in Procs, NEW k \in Keys, NEW i \in Jobs, Claim(p, k, i) PROVE Task /\ Watch
  <2>1. /\ walk' = walk /\ watcher' = watcher
        /\ pc'[j] = pc[j] \/ (pc[j] = "unused" /\ pc'[j] = "claimed")
    BY <1>0, <1>3 DEF Claim, Goto
  <2>2. pc[j] = "unused" /\ pc'[j] = "claimed" => TaskLeft(pc'[j], walk'[j]) < TaskLeft(pc[j], walk[j])
    BY TaskIs, FilesAssumption
  <2> QED BY <2>1, <2>2
<1>4. ASSUME NEW i \in Jobs, JobStep(i) PROVE Task /\ Watch
  <2>1. CASE i = j
    <3>1. Task
      BY <1>4, <2>1, TaskDescends
    <3>2. CASE StartWalk(j)
      <4>1. watcher' = [watcher EXCEPT ![j].pc = "opening"]
        BY <3>2 DEF StartWalk
      <4>2. watcher'[j].pc = "opening"
        BY <1>0, <4>1 DEF WatcherType
      <4>3. watcher[j].pc = "off"
        BY <3>2 DEF StartWalk, WatcherFollows
      <4> QED BY <3>1, <4>2, <4>3, WatchIs, FilesAssumption
    <3>3. CASE ~StartWalk(j)
      <4>1. watcher' = watcher
        BY <1>4, <2>1, <3>3
        DEF JobStep, QueryFails, FindRunning, FindNone, Insert, InsertFails, WalkFile, EndWalk,
            Reopen, Report, MarkDone, Release
      <4> QED BY <3>1, <4>1
    <3> QED BY <3>2, <3>3
  <2>2. CASE i # j
    <3>1. pc'[j] = pc[j] /\ walk'[j] = walk[j] /\ watcher'[j] = watcher[j]
      BY <1>0, <1>4, <2>2
      DEF JobStep, QueryFails, FindRunning, FindNone, Insert, InsertFails, StartWalk, WalkFile,
          EndWalk, Reopen, Report, MarkDone, Release, Goto
    <3> QED BY <3>1
  <2> QED BY <2>1, <2>2
<1>5. ASSUME NEW i \in Jobs, WatchStep(i) PROVE Task /\ Watch
  <2>1. pc' = pc /\ walk' = walk
    BY <1>5 DEF WatchStep, WatchOpen, WatchTake, WatchWrite, WatchEnd, jobVars
  <2>2. i # j => watcher'[j] = watcher[j]
    BY <1>0, <1>5 DEF WatchStep, WatchOpen, WatchTake, WatchWrite, WatchEnd
  <2> QED BY <1>5, <2>1, <2>2, WatchDescends
<1> QED BY <1>1, <1>2, <1>3, <1>4, <1>5 DEF Next

\* Whatever fails, stops or starts again, every step of a call, of its task or of its watcher
\* (lib.rs 675-815) lowers the number of steps that remain of it: no two of them keep one
\* another busy, and none comes back to where it was.
THEOREM JobsDescendHolds ==
  Spec => /\ [](\A j \in Jobs : TaskLeft(pc[j], walk[j]) \in Nat /\ WatchLeft(watcher[j]) \in Nat)
          /\ JobsDescend
<1> DEFINE Bounded == \A j \in Jobs : TaskLeft(pc[j], walk[j]) \in Nat /\ WatchLeft(watcher[j]) \in Nat
           Descends == \A j \in Jobs :
                         /\ <<pc'[j], walk'[j]>> # <<pc[j], walk[j]>> =>
                              TaskLeft(pc'[j], walk'[j]) < TaskLeft(pc[j], walk[j])
                         /\ watcher'[j] # watcher[j] =>
                              WatchLeft(watcher'[j]) < WatchLeft(watcher[j])
<1>1. Init => WatcherFollows
  BY DEF Init, WatcherFollows
<1>2. IInv => TypeOK
  BY DEF IInv
<1>3. TypeOK /\ WatcherFollows /\ [Next]_vars => WatcherFollows'
  BY WatcherStep
<1>4. IInv => Bounded
  BY LeftNat
<1>5. IInv /\ WatcherFollows /\ [Next]_vars => [Descends]_vars
  BY DescendStep
<1> QED BY <1>1, <1>2, <1>3, <1>4, <1>5, SpecIInv, PTL DEF Spec, JobsDescend
=============================================================================
