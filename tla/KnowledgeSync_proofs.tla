------------------------ MODULE KnowledgeSync_proofs ------------------------
(***************************************************************************)
(* Proofs about KnowledgeSync for any folders, files and contents and any  *)
(* number of syncs, registrations and forget calls.                        *)
(*                                                                         *)
(* IInv ties a sync to the epoch of its source: as long as the source was  *)
(* not forgotten since the sync read its scope, the scope is still there.  *)
(* What is in the index was written in the current epoch, by a sync of     *)
(* this epoch or of an earlier one.  SoloInv adds what holds when one sync *)
(* runs at a time over files that never go back to an earlier content.     *)
(***************************************************************************)
EXTENDS KnowledgeSync, TLAPS

Walks == {"scoped", "walking", "extracting", "committing"}

\* A sync at work has a source, and the scope of the source unless it was forgotten.
InEpoch(x) ==
  x.pc \in Walks =>
    /\ x.src \in Sources
    /\ x.epoch <= epoch[x.src]
    /\ x.epoch = epoch[x.src] => level[x.src] = 3

\* The files still to do were found; the one at work is one of them.
GoodWork(x) ==
  /\ \A f \in x.todo : x.found[f] \in Contents
  /\ x.pc \in {"extracting", "committing"} => x.file \in x.todo
  /\ x.pc = "committing" => x.text \in Contents

GoodSync(x) == InEpoch(x) /\ GoodWork(x)

GoodSyncs == \A c \in Syncs : GoodSync(sync[c])

GoodCalls ==
  /\ \A r \in Regs : reg[r].pc = "inserting" => reg[r].src \in Sources
  /\ \A d \in Forgets : forget[d].pc = "found" => forget[d].src \in Sources

GoodObjects ==
  \A s \in Sources, f \in Files :
    obj[s][f].revs # {} =>
      /\ obj[s][f].written = epoch[s]
      /\ obj[s][f].read <= epoch[s]
      /\ obj[s][f].read = epoch[s] => level[s] = 3

IInv == TypeOK /\ GoodSyncs /\ GoodCalls /\ GoodObjects

-----------------------------------------------------------------------------
LEMMA InitIInv == Init => IInv
  <1> SUFFICES ASSUME Init PROVE IInv
    OBVIOUS
  <1>1. NewSync \in SyncType /\ GoodSync(NewSync)
    BY DEF NewSync, SyncType, Running, GoodSync, InEpoch, GoodWork, Walks
  <1>2. NoObject \in ObjectType /\ NoObject.revs = {}
    BY DEF NoObject, ObjectType
  <1>3. GoodSyncs
    BY <1>1 DEF Init, GoodSyncs
  <1>4. GoodCalls /\ GoodObjects
    BY <1>2 DEF Init, GoodCalls, GoodObjects
  <1>5. TypeOK
    BY <1>1, <1>2 DEF Init, TypeOK
  <1> QED BY <1>3, <1>4, <1>5 DEF IInv

\* A step of one sync that leaves the index and the calls of others alone.
LEMMA SyncOnly ==
  ASSUME IInv, NEW c \in Syncs, NEW STATE x, x \in SyncType, GoodSync(x),
         sync' = [sync EXCEPT ![c] = x], UNCHANGED <<disk, rows, obj, reg, forget>>
  PROVE  IInv'
  <1>1. sync \in [Syncs -> SyncType]
    BY DEF IInv, TypeOK
  <1>2. sync' \in [Syncs -> SyncType] /\ \A d \in Syncs : sync'[d] \in {sync[d], x}
    BY <1>1
  <1>3. TypeOK'
    BY <1>2 DEF IInv, TypeOK, disk, rows
  <1>4. \A d \in Syncs : GoodSync(sync'[d])
    BY <1>2 DEF IInv, GoodSyncs
  <1>5. GoodSyncs'
    BY <1>4 DEF GoodSyncs, GoodSync, InEpoch, GoodWork, rows
  <1>6. GoodCalls' /\ GoodObjects'
    BY DEF IInv, GoodCalls, GoodObjects, rows
  <1> QED BY <1>3, <1>5, <1>6 DEF IInv

LEMMA SyncStepIInv ==
  ASSUME IInv, NEW c \in Syncs, SyncStep(c)
  PROVE  IInv'
  <1>1. /\ sync \in [Syncs -> SyncType] /\ sync[c] \in SyncType /\ GoodSync(sync[c])
        /\ file \in [Files -> Contents \cup {NoFile}] /\ NoFile \notin Contents
    BY NullAssumption DEF IInv, TypeOK, GoodSyncs
  <1>2. ASSUME NEW wanted \in SUBSET Sources, ListSources(c, wanted) PROVE IInv'
    <2> DEFINE q == {s \in wanted : level[s] >= 1}
               x == [NewSync EXCEPT !.pc = "listed", !.queue = q]
    <2>1. x \in SyncType /\ GoodSync(x)
      BY DEF NewSync, SyncType, Running, GoodSync, InEpoch, GoodWork, Walks
    <2>2. sync' = [sync EXCEPT ![c] = x] /\ UNCHANGED <<disk, rows, obj, reg, forget>>
      BY <1>2 DEF ListSources, disk
    <2> HIDE DEF x
    <2> QED BY <2>1, <2>2, SyncOnly
  <1>3. ASSUME NEW s \in Sources, ListScopes(c, s) PROVE IInv'
    <2> DEFINE q == sync[c].queue \ {s}
    <2>1. /\ epoch[s] \in Nat /\ q \subseteq Sources /\ sync[c].pc = "listed"
          /\ UNCHANGED <<disk, rows, obj, reg, forget>>
      BY <1>1, <1>3 DEF IInv, TypeOK, ListScopes, SyncType
    <2>2. CASE level[s] = 3
      <3> DEFINE x == [NewSync EXCEPT !.pc = "scoped", !.queue = q, !.src = s,
                                      !.epoch = epoch[s]]
      <3>1. /\ x.pc = "scoped" /\ x.src = s /\ x.epoch = epoch[s] /\ x.todo = {}
            /\ x \in SyncType
        BY <2>1 DEF NewSync, SyncType, Running
      <3>2. sync' = [sync EXCEPT ![c] = x]
        BY <1>3, <2>2 DEF ListScopes
      <3> HIDE DEF x
      <3>3. GoodSync(x)
        BY <2>1, <2>2, <3>1 DEF GoodSync, InEpoch, GoodWork
      <3> QED BY <2>1, <3>1, <3>2, <3>3, SyncOnly
    <2>3. CASE level[s] # 3
      <3> DEFINE x == [sync[c] EXCEPT !.queue = q]
      <3>1. x \in SyncType /\ GoodSync(x)
        BY <1>1, <2>1 DEF SyncType, GoodSync, InEpoch, GoodWork, Walks
      <3>2. sync' = [sync EXCEPT ![c] = x]
        BY <1>3, <2>3 DEF ListScopes
      <3> HIDE DEF x
      <3> QED BY <2>1, <3>1, <3>2, SyncOnly
    <2> QED BY <2>2, <2>3
  <1>4. CASE Discover(c)
    <2> DEFINE x == [sync[c] EXCEPT !.pc = "walking", !.todo = Discovered,
                       !.found = [f \in Files |-> IF f \in Discovered THEN file[f] ELSE NoFile]]
    <2>1. Discovered \subseteq Files /\ \A f \in Discovered : file[f] \in Contents
      BY <1>1 DEF Discovered
    <2>2. x \in SyncType
      BY <1>1, <2>1 DEF SyncType, Running
    <2>3. GoodSync(x)
      BY <1>1, <1>4, <2>1 DEF Discover, SyncType, GoodSync, InEpoch, GoodWork, Walks
    <2>4. sync' = [sync EXCEPT ![c] = x] /\ UNCHANGED <<disk, rows, obj, reg, forget>>
      BY <1>1, <1>4 DEF Discover, disk
    <2> HIDE DEF x
    <2> QED BY <2>2, <2>3, <2>4, SyncOnly
  <1>5. ASSUME NEW f \in Files, Skip(c, f) PROVE IInv'
    <2> DEFINE x == [sync[c] EXCEPT !.todo = @ \ {f}, !.skipped = @ \cup {f}]
    <2>1. x \in SyncType /\ GoodSync(x)
      BY <1>1, <1>5 DEF Skip, SyncType, Running, GoodSync, InEpoch, GoodWork, Walks
    <2>2. sync' = [sync EXCEPT ![c] = x] /\ UNCHANGED <<disk, rows, obj, reg, forget>>
      BY <1>1, <1>5 DEF Skip, disk
    <2> HIDE DEF x
    <2> QED BY <2>1, <2>2, SyncOnly
  <1>6. ASSUME NEW f \in Files, Work(c, f) PROVE IInv'
    <2> DEFINE x == [sync[c] EXCEPT !.pc = "extracting", !.file = f]
    <2>1. x \in SyncType /\ GoodSync(x)
      BY <1>1, <1>6 DEF Work, IsNext, SyncType, Running, GoodSync, InEpoch, GoodWork, Walks
    <2>2. sync' = [sync EXCEPT ![c] = x] /\ UNCHANGED <<disk, rows, obj, reg, forget>>
      BY <1>1, <1>6 DEF Work, disk
    <2> HIDE DEF x
    <2> QED BY <2>1, <2>2, SyncOnly
  <1>7. ASSUME NEW f \in Files, OutOfTime(c, f) PROVE IInv'
    <2> DEFINE x == [sync[c] EXCEPT !.todo = {}, !.left = sync[c].todo]
    <2>1. x \in SyncType /\ GoodSync(x)
      BY <1>1, <1>7 DEF OutOfTime, SyncType, Running, GoodSync, InEpoch, GoodWork, Walks
    <2>2. sync' = [sync EXCEPT ![c] = x] /\ UNCHANGED <<disk, rows, obj, reg, forget>>
      BY <1>1, <1>7 DEF OutOfTime, disk
    <2> HIDE DEF x
    <2> QED BY <2>1, <2>2, SyncOnly
  <1>8. ASSUME NEW f \in Files, sync[c].pc = "walking",
               sync' = [sync EXCEPT ![c].todo = @ \ {f}, ![c].failed = @ \cup {f}],
               UNCHANGED <<disk, rows, obj, reg, forget>>
        PROVE  IInv'
    <2> DEFINE x == [sync[c] EXCEPT !.todo = @ \ {f}, !.failed = @ \cup {f}]
    <2>1. x \in SyncType /\ GoodSync(x)
      BY <1>1, <1>8 DEF SyncType, Running, GoodSync, InEpoch, GoodWork, Walks
    <2>2. sync' = [sync EXCEPT ![c] = x] /\ UNCHANGED <<disk, rows, obj, reg, forget>>
      BY <1>1, <1>8
    <2> HIDE DEF x
    <2> QED BY <2>1, <2>2, SyncOnly
  <1>9. ASSUME sync[c].pc \in {"extracting", "committing"},
               sync' = [sync EXCEPT ![c].pc = "walking", ![c].todo = @ \ {sync[c].file},
                                    ![c].failed = @ \cup {sync[c].file}],
               UNCHANGED <<disk, rows, obj, reg, forget>>
        PROVE  IInv'
    <2> DEFINE x == [sync[c] EXCEPT !.pc = "walking", !.todo = @ \ {sync[c].file},
                                    !.failed = @ \cup {sync[c].file}]
    <2>1. x \in SyncType /\ GoodSync(x)
      BY <1>1, <1>9 DEF SyncType, Running, GoodSync, InEpoch, GoodWork, Walks
    <2>2. sync' = [sync EXCEPT ![c] = x] /\ UNCHANGED <<disk, rows, obj, reg, forget>>
      BY <1>1, <1>9
    <2> HIDE DEF x
    <2> QED BY <2>1, <2>2, SyncOnly
  <1>10. CASE FileFails(c)
    <2>1. CASE sync[c].pc = "walking"
      BY <1>1, <1>8, <1>10, <2>1 DEF FileFails, SyncType
    <2>2. CASE sync[c].pc \in {"extracting", "committing"}
      BY <1>9, <1>10, <2>2 DEF FileFails
    <2> QED BY <1>10, <2>1, <2>2 DEF FileFails
  <1>11. CASE Extract(c)
    <2> DEFINE x == [sync[c] EXCEPT !.pc = "committing", !.text = file[sync[c].file]]
    <2>1. sync[c].file \in sync[c].todo /\ sync[c].todo \subseteq Files
      BY <1>1, <1>11 DEF Extract, GoodSync, GoodWork, SyncType
    <2>2. file[sync[c].file] \in Contents
      BY <1>1, <1>11, <2>1 DEF Extract
    <2>3. x \in SyncType /\ GoodSync(x)
      BY <1>1, <1>11, <2>1, <2>2
         DEF Extract, SyncType, Running, GoodSync, InEpoch, GoodWork, Walks
    <2>4. sync' = [sync EXCEPT ![c] = x] /\ UNCHANGED <<disk, rows, obj, reg, forget>>
      BY <1>1, <1>11 DEF Extract, disk
    <2> HIDE DEF x
    <2> QED BY <2>3, <2>4, SyncOnly
  <1>13. CASE EndWalk(c)
    <2> DEFINE x == [NewSync EXCEPT !.pc = "listed", !.queue = sync[c].queue]
    <2>1. x \in SyncType /\ GoodSync(x)
      BY <1>1 DEF NewSync, SyncType, Running, GoodSync, InEpoch, GoodWork, Walks
    <2>2. sync' = [sync EXCEPT ![c] = x] /\ UNCHANGED <<disk, rows, obj, reg, forget>>
      BY <1>13 DEF EndWalk, disk
    <2> HIDE DEF x
    <2> QED BY <2>1, <2>2, SyncOnly
  <1>14. CASE EndSync(c)
    <2> DEFINE x == [sync[c] EXCEPT !.pc = "ended"]
    <2>1. x \in SyncType /\ GoodSync(x)
      BY <1>1 DEF SyncType, Running, GoodSync, InEpoch, GoodWork, Walks
    <2>2. sync' = [sync EXCEPT ![c] = x] /\ UNCHANGED <<disk, rows, obj, reg, forget>>
      BY <1>1, <1>14 DEF EndSync, disk
    <2> HIDE DEF x
    <2> QED BY <2>1, <2>2, SyncOnly
  <1>15. CASE SyncFails(c)
    <2> DEFINE x == [NewSync EXCEPT !.pc = "ended"]
    <2>1. x \in SyncType /\ GoodSync(x)
      BY <1>1 DEF NewSync, SyncType, Running, GoodSync, InEpoch, GoodWork, Walks
    <2>2. sync' = [sync EXCEPT ![c] = x] /\ UNCHANGED <<disk, rows, obj, reg, forget>>
      BY <1>15 DEF SyncFails, disk
    <2> HIDE DEF x
    <2> QED BY <2>1, <2>2, SyncOnly
  <1>12. CASE Commit(c)
    <2> DEFINE f == sync[c].file
               s == sync[c].src
               y == [sync[c] EXCEPT !.pc = "walking", !.todo = @ \ {f}]
               o == [revs |-> obj[s][f].revs \cup {sync[c].found[f]}, text |-> sync[c].text,
                     read |-> sync[c].epoch, written |-> epoch[s]]
    <2>1. /\ s \in Sources /\ f \in Files /\ f \in sync[c].todo
          /\ sync[c].found[f] \in Contents /\ sync[c].text \in Contents
          /\ epoch[s] \in Nat /\ sync[c].epoch \in Nat /\ sync[c].epoch <= epoch[s]
          /\ sync[c].epoch = epoch[s] => level[s] = 3
      BY <1>1, <1>12 DEF Commit, IInv, TypeOK, SyncType, GoodSync, InEpoch, GoodWork, Walks
    <2>2. obj \in [Sources -> [Files -> ObjectType]]
      BY DEF IInv, TypeOK
    <2>3. o \in ObjectType
      BY <2>1, <2>2 DEF ObjectType
    <2>4. y \in SyncType /\ GoodSync(y)
      BY <1>1, <1>12, <2>1 DEF Commit, SyncType, Running, GoodSync, InEpoch, GoodWork, Walks
    <2>5. /\ obj' = [obj EXCEPT ![s][f] = o] /\ sync' = [sync EXCEPT ![c] = y]
          /\ UNCHANGED <<file, past, level, epoch, reg, forget>>
      BY <1>1, <1>12, <2>1, <2>2 DEF Commit, disk, rows
    <2>6. o.revs # {} /\ o.text # NoFile /\ o.written = epoch[s] /\ o.read = sync[c].epoch
      BY <1>1, <2>1
    <2> HIDE DEF f, s, y, o
    <2>7. /\ sync' \in [Syncs -> SyncType] /\ \A d \in Syncs : sync'[d] \in {sync[d], y}
          /\ obj' \in [Sources -> [Files -> ObjectType]]
          /\ \A t \in Sources, g \in Files :
               \/ t = s /\ g = f /\ obj'[t][g] = o
               \/ obj'[t][g] = obj[t][g]
      BY <1>1, <2>1, <2>2, <2>3, <2>4, <2>5
    <2>8. TypeOK'
      BY <2>5, <2>6, <2>7 DEF IInv, TypeOK
    <2>9. GoodSyncs'
      <3>1. \A d \in Syncs : GoodSync(sync'[d])
        BY <2>4, <2>7 DEF IInv, GoodSyncs
      <3> QED BY <2>5, <3>1 DEF GoodSyncs, GoodSync, InEpoch, GoodWork
    <2>10. GoodCalls'
      BY <2>5 DEF IInv, GoodCalls
    <2>11. GoodObjects'
      BY <2>1, <2>5, <2>6, <2>7 DEF IInv, GoodObjects
    <2> QED BY <2>8, <2>9, <2>10, <2>11 DEF IInv
  <1>16. ASSUME NEW s \in Sources, ListSources(c, {s}) PROVE IInv'
    BY <1>2, <1>16
  <1>17. CASE ListSources(c, Sources)
    BY <1>2, <1>17
  <1> QED BY <1>3, <1>4, <1>5, <1>6, <1>7, <1>10, <1>11, <1>12, <1>13, <1>14, <1>15, <1>16, <1>17
          DEF SyncStep

LEMMA DiskIInv ==
  ASSUME IInv, NEW f \in Files, (\E v \in Contents : Edit(f, v)) \/ Delete(f)
  PROVE  IInv'
  <1>1. /\ UNCHANGED <<level, epoch, obj, sync, reg, forget>>
        /\ file' \in [Files -> Contents \cup {NoFile}] /\ past' \in [Files -> SUBSET Contents]
    <2>1. file \in [Files -> Contents \cup {NoFile}] /\ past \in [Files -> SUBSET Contents]
      BY DEF IInv, TypeOK
    <2>2. CASE Delete(f)
      BY <2>1, <2>2 DEF Delete, rows
    <2>3. ASSUME NEW v \in Contents, Edit(f, v)
          PROVE  /\ UNCHANGED <<level, epoch, obj, sync, reg, forget>>
                 /\ file' \in [Files -> Contents \cup {NoFile}]
                 /\ past' \in [Files -> SUBSET Contents]
      BY <2>1, <2>3 DEF Edit, rows
    <2> QED BY <2>2, <2>3
  <1>2. TypeOK'
    BY <1>1 DEF IInv, TypeOK
  <1>3. GoodSyncs' /\ GoodCalls' /\ GoodObjects'
    BY <1>1 DEF IInv, GoodSyncs, GoodSync, InEpoch, GoodWork, GoodCalls, GoodObjects
  <1> QED BY <1>2, <1>3 DEF IInv

LEMMA RegStepIInv ==
  ASSUME IInv, NEW r \in Regs, RegStep(r)
  PROVE  IInv'
  <1> DEFINE Reg == [pc : {"idle", "inserting", "answered", "failed"},
                     src : Sources \cup {NoSource}, row : 1 .. 3]
  <1>1. reg \in [Regs -> Reg] /\ level \in [Sources -> 0 .. 3]
    BY DEF IInv, TypeOK
  <1>2. ASSUME NEW x \in Reg, x.pc = "inserting" => x.src \in Sources,
               reg' = [reg EXCEPT ![r] = x], level' \in [Sources -> 0 .. 3],
               \A s \in Sources : level[s] = 3 => level'[s] = 3,
               UNCHANGED <<disk, epoch, obj, sync, forget>>
        PROVE  IInv'
    <2>1. TypeOK'
      BY <1>1, <1>2 DEF IInv, TypeOK, disk
    <2>2. GoodSyncs'
      BY <1>2 DEF IInv, GoodSyncs, GoodSync, InEpoch, GoodWork
    <2>3. GoodCalls'
      BY <1>1, <1>2 DEF IInv, GoodCalls
    <2>4. GoodObjects'
      BY <1>2 DEF IInv, GoodObjects
    <2> QED BY <2>1, <2>2, <2>3, <2>4 DEF IInv
  <1>3. ASSUME NEW s \in Sources, StartRegister(r, s) PROVE IInv'
    <2>1. [pc |-> "inserting", src |-> s, row |-> 1] \in Reg
      OBVIOUS
    <2> QED BY <1>1, <1>2, <1>3, <2>1 DEF StartRegister, rows
  <1>4. CASE InsertRow(r)
    <2> DEFINE s == reg[r].src
               x == IF reg[r].row = 3 THEN [reg[r] EXCEPT !.pc = "answered"]
                                      ELSE [reg[r] EXCEPT !.row = @ + 1]
    <2>1. s \in Sources /\ reg[r] \in Reg /\ reg[r].pc = "inserting"
      BY <1>1, <1>4 DEF InsertRow, IInv, GoodCalls
    <2>2. x \in Reg /\ (x.pc = "inserting" => x.src \in Sources)
      BY <2>1
    <2>3. reg' = [reg EXCEPT ![r] = x]
      BY <1>1, <1>4 DEF InsertRow, Answer
    <2>4. /\ level' = [level EXCEPT ![s] = IF @ = reg[r].row - 1 THEN reg[r].row ELSE @]
          /\ UNCHANGED <<disk, epoch, obj, sync, forget>>
      BY <1>4 DEF InsertRow
    <2>5. /\ level' \in [Sources -> 0 .. 3]
          /\ \A t \in Sources : level[t] = 3 => level'[t] = 3
      BY <1>1, <2>1, <2>4
    <2> HIDE DEF x
    <2> QED BY <1>2, <2>2, <2>3, <2>4, <2>5
  <1>5. CASE RegisterFails(r)
    <2>1. [reg[r] EXCEPT !.pc = "failed"] \in Reg
      BY <1>1
    <2> QED BY <1>1, <1>2, <1>5, <2>1 DEF RegisterFails, rows
  <1> QED BY <1>3, <1>4, <1>5 DEF RegStep

LEMMA ForgetStepIInv ==
  ASSUME IInv, NEW d \in Forgets, ForgetStep(d)
  PROVE  IInv'
  <1> DEFINE Call == [pc : {"idle", "found", "ended"}, src : Sources \cup {NoSource}]
  <1>1. /\ forget \in [Forgets -> Call] /\ level \in [Sources -> 0 .. 3]
        /\ epoch \in [Sources -> Nat] /\ obj \in [Sources -> [Files -> ObjectType]]
    BY DEF IInv, TypeOK
  <1>2. ASSUME NEW s \in Sources, FindSource(d, s) \/ MissSource(d, s) PROVE IInv'
    <2>1. /\ UNCHANGED <<file, past, level, epoch, obj, sync, reg>>
          /\ forget' \in [Forgets -> Call]
          /\ \A e \in Forgets : forget'[e].pc = "found" => forget'[e].src \in Sources
      <3>1. \A e \in Forgets : forget[e].pc = "found" => forget[e].src \in Sources
        BY DEF IInv, GoodCalls
      <3>2. CASE FindSource(d, s)
        BY <1>1, <3>1, <3>2 DEF FindSource, disk, rows
      <3>3. CASE MissSource(d, s)
        BY <1>1, <3>1, <3>3 DEF MissSource, disk, rows
      <3> QED BY <1>2, <3>2, <3>3
    <2>2. TypeOK'
      BY <2>1 DEF IInv, TypeOK
    <2>3. GoodSyncs' /\ GoodCalls' /\ GoodObjects'
      BY <2>1 DEF IInv, GoodSyncs, GoodSync, InEpoch, GoodWork, GoodCalls, GoodObjects
    <2> QED BY <2>2, <2>3 DEF IInv
  <1>3. CASE ForgetSource(d)
    <2> DEFINE s == forget[d].src
    <2>1. s \in Sources
      BY <1>3 DEF ForgetSource, IInv, GoodCalls
    <2>2. NoObject \in ObjectType /\ NoObject.revs = {}
      BY DEF NoObject, ObjectType
    <2>3. /\ UNCHANGED <<file, past, sync, reg>>
          /\ level' = [level EXCEPT ![s] = 0]
          /\ epoch' = [epoch EXCEPT ![s] = @ + 1]
          /\ obj' = [obj EXCEPT ![s] = [f \in Files |-> NoObject]]
          /\ forget' = [forget EXCEPT ![d].pc = "ended"]
      BY <1>3 DEF ForgetSource, disk
    <2> HIDE DEF s
    <2>4. /\ forget' \in [Forgets -> Call]
          /\ \A e \in Forgets : forget'[e].pc = "found" => forget'[e].src \in Sources
      BY <1>1, <2>3 DEF IInv, GoodCalls
    <2>5. /\ level' \in [Sources -> 0 .. 3] /\ epoch' \in [Sources -> Nat]
          /\ obj' \in [Sources -> [Files -> ObjectType]]
          /\ epoch'[s] = epoch[s] + 1 /\ \A f \in Files : obj'[s][f].revs = {}
          /\ \A t \in Sources \ {s} :
               level'[t] = level[t] /\ epoch'[t] = epoch[t] /\ obj'[t] = obj[t]
      BY <1>1, <2>1, <2>2, <2>3
    <2>6. TypeOK'
      BY <2>3, <2>4, <2>5 DEF IInv, TypeOK
    <2>7. GoodSyncs'
      <3>1. ASSUME NEW c \in Syncs PROVE GoodSync(sync[c])'
        <4>1. GoodSync(sync[c]) /\ sync'[c] = sync[c] /\ sync[c].epoch \in Nat
          BY <2>3 DEF IInv, GoodSyncs, TypeOK, SyncType
        <4>2. InEpoch(sync[c])'
          BY <1>1, <2>1, <2>3, <2>5, <4>1 DEF GoodSync, InEpoch
        <4> QED BY <4>1, <4>2 DEF GoodSync, GoodWork
      <3> QED BY <3>1 DEF GoodSyncs
    <2>8. GoodCalls' /\ GoodObjects'
      BY <2>3, <2>4, <2>5 DEF IInv, GoodCalls, GoodObjects
    <2> QED BY <2>6, <2>7, <2>8 DEF IInv
  <1> QED BY <1>2, <1>3 DEF ForgetStep

LEMMA StepIInv == IInv /\ [Next]_vars => IInv'
  <1> SUFFICES ASSUME IInv, [Next]_vars PROVE IInv'
    OBVIOUS
  <1>1. CASE UNCHANGED vars
    BY <1>1 DEF vars, IInv, TypeOK, GoodSyncs, GoodSync, InEpoch, GoodWork, GoodCalls,
                GoodObjects
  <1>2. CASE Next
    BY <1>2, DiskIInv, SyncStepIInv, RegStepIInv, ForgetStepIInv DEF Next
  <1> QED BY <1>1, <1>2

THEOREM IInvHolds == Spec => []IInv
  <1> QED BY InitIInv, StepIInv, PTL DEF Spec

-----------------------------------------------------------------------------
\* Every variable keeps its type, for any folders and any number of calls, and what is
\* indexed has a text (KnowledgeSync.TypeOK).
THEOREM TypeCorrect == Spec => []TypeOK
  <1>1. IInv => TypeOK
    BY DEF IInv
  <1> QED BY <1>1, IInvHolds, PTL

\* Only a sync that read its scope before the source was forgotten leaves entries under
\* a source that is gone, and nothing written before a forget outlives it.
THEOREM OrphanIsRacedHolds == Spec => []OrphanIsRaced
  <1>1. IInv => OrphanIsRaced
    <2> SUFFICES ASSUME IInv, NEW s \in Sources, NEW f \in Files, obj[s][f].revs # {}
                 PROVE  /\ obj[s][f].written = epoch[s]
                        /\ level[s] < 3 => obj[s][f].read < epoch[s]
      BY DEF OrphanIsRaced
    <2>1. /\ obj[s][f].read \in Nat /\ epoch[s] \in Nat
          /\ obj[s][f].written = epoch[s] /\ obj[s][f].read <= epoch[s]
          /\ obj[s][f].read = epoch[s] => level[s] = 3
      BY DEF IInv, TypeOK, ObjectType, GoodObjects
    <2> QED BY <2>1
  <1> QED BY <1>1, IInvHolds, PTL

-----------------------------------------------------------------------------
(* Registering and forgetting act as one step each.                         *)

Listed == {s \in Sources : level[s] = 3}
Answered == {r \in Regs : reg[r].pc = "answered"}

LEMMA InsertRowRefines ==
  ASSUME IInv, NEW r \in Regs, InsertRow(r)
  PROVE  (\E t \in Sources : Registry!Register(r, t)) \/ UNCHANGED <<Listed, Answered>>
  <1> DEFINE s == reg[r].src
             i == reg[r].row
             x == IF i = 3 THEN [reg[r] EXCEPT !.pc = "answered"]
                           ELSE [reg[r] EXCEPT !.row = i + 1]
  <1>1. /\ s \in Sources /\ i \in 1 .. 3 /\ reg[r].pc = "inserting"
        /\ level[s] \in 0 .. 3 /\ level[s] >= i - 1
        /\ \A t \in Sources : level[t] \in 0 .. 3
    BY DEF InsertRow, IInv, TypeOK, GoodCalls
  <1>2. /\ level' = [level EXCEPT ![s] = IF @ = i - 1 THEN i ELSE @]
        /\ reg' = [reg EXCEPT ![r] = x]
    BY DEF InsertRow, Answer
  <1>3. level \in [Sources -> 0 .. 3] /\ \A q \in Regs : reg'[q] = IF q = r THEN x ELSE reg[q]
    BY <1>2 DEF IInv, TypeOK
  <1>4. x.pc = IF i = 3 THEN "answered" ELSE "inserting"
    BY <1>1 DEF IInv, TypeOK
  <1> HIDE DEF s, i, x
  <1>5. CASE i = 3
    <2>1. Listed' = Listed \cup {s}
      BY <1>1, <1>2, <1>3, <1>5 DEF Listed
    <2>2. Answered' = Answered \cup {r} /\ r \notin Answered
      BY <1>1, <1>3, <1>4, <1>5 DEF Answered, i
    <2>3. Registry!Register(r, s)
      BY <2>1, <2>2 DEF Registry!Register, Listed, Answered
    <2> QED BY <1>1, <2>3 DEF Registry!Register
  <1>6. CASE i # 3
    <2>1. Listed' = Listed
      BY <1>1, <1>2, <1>3, <1>6 DEF Listed
    <2>2. Answered' = Answered
      BY <1>1, <1>3, <1>4, <1>6 DEF Answered, i
    <2> QED BY <2>1, <2>2
  <1> QED BY <1>5, <1>6

LEMMA RegistryStep == IInv /\ [Next]_vars => [Registry!Next]_<<Listed, Answered>>
  <1> SUFFICES ASSUME IInv, [Next]_vars PROVE [Registry!Next]_<<Listed, Answered>>
    OBVIOUS
  <1>1. ASSUME UNCHANGED <<level, reg>> PROVE UNCHANGED <<Listed, Answered>>
    BY <1>1 DEF Listed, Answered
  <1>2. CASE UNCHANGED vars
    BY <1>1, <1>2 DEF vars
  <1>3. ASSUME NEW f \in Files, (\E v \in Contents : Edit(f, v)) \/ Delete(f)
        PROVE  UNCHANGED <<level, reg>>
    BY <1>3 DEF Edit, Delete, rows
  <1>4. ASSUME NEW c \in Syncs, SyncStep(c)
        PROVE  UNCHANGED <<level, reg>>
    BY <1>4 DEF SyncStep, ListSources, ListScopes, Discover, Skip, Work, OutOfTime, FileFails,
                Extract, Commit, EndWalk, EndSync, SyncFails, rows
  <1>5. ASSUME NEW r \in Regs, RegStep(r)
        PROVE  [Registry!Next]_<<Listed, Answered>>
    <2>1. CASE InsertRow(r)
      <3>1. (\E t \in Sources : Registry!Register(r, t)) \/ UNCHANGED <<Listed, Answered>>
        BY <2>1, InsertRowRefines
      <3>2. (\E t \in Sources : Registry!Register(r, t)) => Registry!Next
        BY DEF Registry!Next
      <3> QED BY <3>1, <3>2
    <2>2. ASSUME UNCHANGED level,
                 \A q \in Regs : reg'[q].pc = "answered" <=> reg[q].pc = "answered"
          PROVE  UNCHANGED <<Listed, Answered>>
      BY <2>2 DEF Listed, Answered
    <2>3. CASE \E s \in Sources : StartRegister(r, s)
      <3>1. UNCHANGED level /\ reg \in [Regs -> [pc : {"idle", "inserting", "answered", "failed"},
                                               src : Sources \cup {NoSource}, row : 1 .. 3]]
        BY <2>3 DEF StartRegister, rows, IInv, TypeOK
      <3>2. \A q \in Regs : reg'[q].pc = "answered" <=> reg[q].pc = "answered"
        BY <2>3, <3>1 DEF StartRegister
      <3> QED BY <2>2, <3>1, <3>2
    <2>4. CASE RegisterFails(r)
      <3>1. UNCHANGED level /\ reg \in [Regs -> [pc : {"idle", "inserting", "answered", "failed"},
                                               src : Sources \cup {NoSource}, row : 1 .. 3]]
        BY <2>4 DEF RegisterFails, rows, IInv, TypeOK
      <3>2. \A q \in Regs : reg'[q].pc = "answered" <=> reg[q].pc = "answered"
        BY <2>4, <3>1 DEF RegisterFails
      <3> QED BY <2>2, <3>1, <3>2
    <2> QED BY <1>5, <2>1, <2>3, <2>4 DEF RegStep
  <1>6. ASSUME NEW d \in Forgets, ForgetStep(d)
        PROVE  [Registry!Next]_<<Listed, Answered>>
    <2>1. CASE ForgetSource(d)
      <3> DEFINE s == forget[d].src
      <3>1. s \in Sources /\ level \in [Sources -> 0 .. 3]
        BY <2>1 DEF ForgetSource, IInv, TypeOK, GoodCalls
      <3>2. level' = [level EXCEPT ![s] = 0] /\ reg' = reg
        BY <2>1 DEF ForgetSource
      <3> HIDE DEF s
      <3>3. Listed' = Listed \ {s} /\ Answered' = Answered
        BY <3>1, <3>2 DEF Listed, Answered
      <3> QED BY <3>1, <3>3 DEF Registry!Next, Registry!Forget, Listed, Answered
    <2>2. CASE \E s \in Sources : FindSource(d, s) \/ MissSource(d, s)
      BY <1>1, <2>2 DEF FindSource, MissSource, rows
    <2> QED BY <1>6, <2>1, <2>2 DEF ForgetStep
  <1>7. CASE Next
    BY <1>1, <1>3, <1>4, <1>5, <1>6, <1>7 DEF Next
  <1> QED BY <1>2, <1>7

LEMMA RegistryInit == Init => Registry!Init
  BY DEF Init, Registry!Init

\* Registering a folder in three transactions and forgetting it by a cascade behave as
\* FolderRegistry promises: a registration answered with success has its folder listed.
THEOREM ScopesRefinedHolds == Spec => ScopesRefined
  <1>1. IInv /\ [Next]_vars => [Registry!Next]_<<Listed, Answered>>
    BY RegistryStep
  <1> QED BY <1>1, RegistryInit, IInvHolds, PTL
          DEF Spec, ScopesRefined, Registry!Spec, Listed, Answered

-----------------------------------------------------------------------------
(* One sync at a time, over files that do not go back to an old content.    *)

OneRuns ==
  \A c, d \in Syncs : sync[c].pc \in Running /\ sync[d].pc \in Running => c = d

\* Whatever is on disk or in the index is a content the file has had.
KnownContents ==
  /\ \A f \in Files : file[f] # NoFile => file[f] \in past[f]
  /\ \A s \in Sources, f \in Files : obj[s][f].revs \subseteq past[f]

\* An object with a revision of the content on disk shows that content.
ReadyShows ==
  \A s \in Sources, f \in Files :
    file[f] \in obj[s][f].revs => obj[s][f].text = file[f]

\* What a sync is about to commit does not undo that.
CommitShows(x) ==
  x.pc = "committing" =>
    /\ file[x.file] \in obj[x.src][x.file].revs => x.text = file[x.file]
    /\ file[x.file] = x.found[x.file] => x.text = file[x.file]

\* The files a walk is through with are ready, unless their source was forgotten.
WalkDone(x) ==
  x.pc \in {"walking", "extracting", "committing"} /\ epoch[x.src] = x.epoch =>
    \A f \in Files \ (x.todo \cup x.failed \cup x.left) :
      x.found[f] # NoFile => x.found[f] \in obj[x.src][f].revs

SoloSync(x) ==
  /\ \A f \in Files : x.found[f] # NoFile => x.found[f] \in past[f]
  /\ x.todo # {} \/ x.pc = "scoped" => x.left = {}
  /\ CommitShows(x)
  /\ WalkDone(x)

SoloInv ==
  /\ OneRuns
  /\ KnownContents
  /\ ReadyShows
  /\ \A c \in Syncs : SoloSync(sync[c])

LEMMA InitSolo == Init => SoloInv
  <1> SUFFICES ASSUME Init PROVE SoloInv
    OBVIOUS
  <1>1. NoObject.revs = {}
    BY DEF NoObject
  <1>2. /\ NewSync.pc = "idle" /\ NewSync.todo = {}
        /\ \A f \in Files : NewSync.found[f] = NoFile
    BY DEF NewSync
  <1>3. SoloSync(NewSync)
    BY <1>2 DEF SoloSync, CommitShows, WalkDone
  <1>4. KnownContents /\ ReadyShows
    BY <1>1 DEF Init, KnownContents, ReadyShows
  <1>5. OneRuns
    BY <1>2 DEF Init, OneRuns, Running
  <1> QED BY <1>3, <1>4, <1>5 DEF Init, SoloInv

\* A step of one sync that leaves folder and index alone.
LEMMA SoloSyncOnly ==
  ASSUME IInv, SoloInv, NEW c \in Syncs, NEW STATE x, SoloSync(x),
         \/ x.pc \notin Running
         \/ sync[c].pc \in Running
         \/ \A d \in Syncs : sync[d].pc \notin Running,
         sync' = [sync EXCEPT ![c] = x], UNCHANGED <<disk, rows, obj, reg, forget>>
  PROVE  SoloInv'
  <1>1. \A d \in Syncs : sync'[d] = IF d = c THEN x ELSE sync[d]
    BY DEF IInv, TypeOK
  <1>2. \A d \in Syncs : SoloSync(sync'[d])
    BY <1>1 DEF SoloInv
  <1>3. (\A d \in Syncs : SoloSync(sync[d]))'
    BY <1>2 DEF SoloSync, CommitShows, WalkDone, disk, rows
  <1>4. OneRuns'
    BY <1>1 DEF SoloInv, OneRuns
  <1>5. KnownContents' /\ ReadyShows'
    BY DEF SoloInv, KnownContents, ReadyShows, disk
  <1> QED BY <1>3, <1>4, <1>5 DEF SoloInv

LEMMA DiskSolo ==
  ASSUME ~Reuse, IInv, SoloInv, NEW f \in Files, (\E v \in Contents : Edit(f, v)) \/ Delete(f)
  PROVE  SoloInv'
  <1>1. /\ file \in [Files -> Contents \cup {NoFile}] /\ past \in [Files -> SUBSET Contents]
        /\ NoFile \notin Contents
        /\ \A s \in Sources, g \in Files : obj[s][g].revs \subseteq Contents
    BY NullAssumption DEF IInv, TypeOK, ObjectType
  <1>2. /\ UNCHANGED <<level, epoch, obj, sync, reg, forget>>
        /\ \A g \in Files : past[g] \subseteq past'[g]
        /\ \A g \in Files : file'[g] # NoFile => file'[g] \in past'[g]
        /\ \A g \in Files : file'[g] = file[g] \/ file'[g] \notin past[g]
    <2>1. /\ \A g \in Files : file[g] # NoFile => file[g] \in past[g]
          /\ \A g \in Files : NoFile \notin past[g]
      BY <1>1 DEF SoloInv, KnownContents
    <2>2. CASE Delete(f)
      BY <1>1, <2>1, <2>2 DEF Delete, rows
    <2>3. ASSUME NEW v \in Contents, Edit(f, v)
          PROVE  /\ UNCHANGED <<level, epoch, obj, sync, reg, forget>>
                 /\ \A g \in Files : past[g] \subseteq past'[g]
                 /\ \A g \in Files : file'[g] # NoFile => file'[g] \in past'[g]
                 /\ \A g \in Files : file'[g] = file[g] \/ file'[g] \notin past[g]
      BY <1>1, <2>1, <2>3 DEF Edit, rows
    <2> QED BY <2>2, <2>3
  <1>3. KnownContents' /\ ReadyShows' /\ OneRuns'
    BY <1>2 DEF SoloInv, KnownContents, ReadyShows, OneRuns
  <1>4. ASSUME NEW c \in Syncs PROVE SoloSync(sync[c])'
    <2>1. SoloSync(sync[c]) /\ sync'[c] = sync[c] /\ GoodSync(sync[c]) /\ sync[c] \in SyncType
      BY <1>2 DEF SoloInv, IInv, GoodSyncs, TypeOK
    <2>2. WalkDone(sync[c])'
      BY <1>2, <2>1 DEF SoloSync, WalkDone
    <2>3. CommitShows(sync[c])'
      <3>1. SUFFICES ASSUME sync[c].pc = "committing" PROVE CommitShows(sync[c])'
        BY <2>1 DEF CommitShows
      <3>2. /\ sync[c].file \in Files /\ sync[c].src \in Sources
            /\ sync[c].found[sync[c].file] \in past[sync[c].file]
            /\ obj[sync[c].src][sync[c].file].revs \subseteq past[sync[c].file]
        BY <1>1, <2>1, <3>1
           DEF GoodSync, GoodWork, InEpoch, Walks, SyncType, SoloSync, SoloInv, KnownContents
      <3> QED BY <1>2, <2>1, <3>1, <3>2 DEF SoloSync, CommitShows
    <2> QED BY <1>2, <2>1, <2>2, <2>3 DEF SoloSync
  <1> QED BY <1>3, <1>4 DEF SoloInv

LEMMA SyncStepSolo ==
  ASSUME ~Overlap, IInv, SoloInv, NEW c \in Syncs, SyncStep(c)
  PROVE  SoloInv'
  <1>1. /\ sync \in [Syncs -> SyncType] /\ sync[c] \in SyncType
        /\ GoodSync(sync[c]) /\ SoloSync(sync[c])
    BY DEF IInv, TypeOK, GoodSyncs, SoloInv
  <1>2. ASSUME NEW wanted \in SUBSET Sources, ListSources(c, wanted) PROVE SoloInv'
    <2> DEFINE x == [NewSync EXCEPT !.pc = "listed", !.queue = {s \in wanted : level[s] >= 1}]
    <2>1. SoloSync(x)
      BY DEF NewSync, SoloSync, CommitShows, WalkDone
    <2>2. /\ sync' = [sync EXCEPT ![c] = x] /\ UNCHANGED <<disk, rows, obj, reg, forget>>
          /\ \A d \in Syncs : sync[d].pc \notin Running
      BY <1>2 DEF ListSources, disk
    <2> HIDE DEF x
    <2> QED BY <2>1, <2>2, SoloSyncOnly
  <1>3. ASSUME NEW s \in Sources, ListScopes(c, s) PROVE SoloInv'
    <2> DEFINE q == sync[c].queue \ {s}
    <2>1. sync[c].pc \in Running /\ UNCHANGED <<disk, rows, obj, reg, forget>>
      BY <1>3 DEF ListScopes, Running
    <2>2. CASE level[s] = 3
      <3> DEFINE x == [NewSync EXCEPT !.pc = "scoped", !.queue = q, !.src = s,
                                      !.epoch = epoch[s]]
      <3>1. SoloSync(x)
        BY DEF NewSync, SoloSync, CommitShows, WalkDone
      <3>2. sync' = [sync EXCEPT ![c] = x]
        BY <1>3, <2>2 DEF ListScopes
      <3> HIDE DEF x
      <3> QED BY <2>1, <3>1, <3>2, SoloSyncOnly
    <2>3. CASE level[s] # 3
      <3> DEFINE x == [sync[c] EXCEPT !.queue = q]
      <3>1. SoloSync(x)
        BY <1>1 DEF SyncType, SoloSync, CommitShows, WalkDone
      <3>2. sync' = [sync EXCEPT ![c] = x]
        BY <1>3, <2>3 DEF ListScopes
      <3> HIDE DEF x
      <3> QED BY <2>1, <3>1, <3>2, SoloSyncOnly
    <2> QED BY <2>2, <2>3
  <1>4. CASE Discover(c)
    <2> DEFINE x == [sync[c] EXCEPT !.pc = "walking", !.todo = Discovered,
                       !.found = [f \in Files |-> IF f \in Discovered THEN file[f] ELSE NoFile]]
    <2>1. /\ \A f \in Files : x.found[f] # NoFile =>
               f \in Discovered /\ x.found[f] = file[f]
          /\ x.pc = "walking" /\ x.todo = Discovered /\ x.left = sync[c].left
      BY <1>1 DEF SyncType
    <2>2. sync[c].left = {}
      BY <1>1, <1>4 DEF Discover, SoloSync
    <2>3. sync' = [sync EXCEPT ![c] = x] /\ UNCHANGED <<disk, rows, obj, reg, forget>>
      BY <1>1, <1>4 DEF Discover, disk
    <2> HIDE DEF x
    <2>4. SoloSync(x)
      BY <2>1, <2>2 DEF SoloInv, KnownContents, SoloSync, CommitShows, WalkDone
    <2> QED BY <1>4, <2>3, <2>4, SoloSyncOnly DEF Discover, Running
  <1>5. ASSUME NEW f \in Files, Skip(c, f) PROVE SoloInv'
    <2> DEFINE x == [sync[c] EXCEPT !.todo = @ \ {f}, !.skipped = @ \cup {f}]
    <2>1. SoloSync(x)
      BY <1>1, <1>5 DEF Skip, IsReady, IsNext, SyncType, SoloSync, CommitShows, WalkDone
    <2>2. sync' = [sync EXCEPT ![c] = x] /\ UNCHANGED <<disk, rows, obj, reg, forget>>
      BY <1>1, <1>5 DEF Skip, disk
    <2> HIDE DEF x
    <2> QED BY <1>5, <2>1, <2>2, SoloSyncOnly DEF Skip, Running
  <1>6. ASSUME NEW f \in Files, Work(c, f) PROVE SoloInv'
    <2> DEFINE x == [sync[c] EXCEPT !.pc = "extracting", !.file = f]
    <2>1. SoloSync(x)
      BY <1>1, <1>6 DEF Work, SyncType, SoloSync, CommitShows, WalkDone
    <2>2. sync' = [sync EXCEPT ![c] = x] /\ UNCHANGED <<disk, rows, obj, reg, forget>>
      BY <1>1, <1>6 DEF Work, disk
    <2> HIDE DEF x
    <2> QED BY <1>6, <2>1, <2>2, SoloSyncOnly DEF Work, Running
  <1>7. ASSUME NEW f \in Files, OutOfTime(c, f) PROVE SoloInv'
    <2> DEFINE x == [sync[c] EXCEPT !.todo = {}, !.left = sync[c].todo]
    <2>1. SoloSync(x)
      BY <1>1, <1>7 DEF OutOfTime, IsNext, SyncType, SoloSync, CommitShows, WalkDone
    <2>2. sync' = [sync EXCEPT ![c] = x] /\ UNCHANGED <<disk, rows, obj, reg, forget>>
      BY <1>1, <1>7 DEF OutOfTime, disk
    <2> HIDE DEF x
    <2> QED BY <1>7, <2>1, <2>2, SoloSyncOnly DEF OutOfTime, Running
  <1>8. ASSUME NEW f \in Files, sync[c].pc = "walking",
               sync' = [sync EXCEPT ![c].todo = @ \ {f}, ![c].failed = @ \cup {f}],
               UNCHANGED <<disk, rows, obj, reg, forget>>
        PROVE  SoloInv'
    <2> DEFINE x == [sync[c] EXCEPT !.todo = @ \ {f}, !.failed = @ \cup {f}]
    <2>1. SoloSync(x)
      BY <1>1, <1>8 DEF SyncType, SoloSync, CommitShows, WalkDone
    <2>2. sync' = [sync EXCEPT ![c] = x] /\ UNCHANGED <<disk, rows, obj, reg, forget>>
      BY <1>1, <1>8
    <2> HIDE DEF x
    <2> QED BY <1>8, <2>1, <2>2, SoloSyncOnly DEF Running
  <1>9. ASSUME sync[c].pc \in {"extracting", "committing"},
               sync' = [sync EXCEPT ![c].pc = "walking", ![c].todo = @ \ {sync[c].file},
                                    ![c].failed = @ \cup {sync[c].file}],
               UNCHANGED <<disk, rows, obj, reg, forget>>
        PROVE  SoloInv'
    <2> DEFINE x == [sync[c] EXCEPT !.pc = "walking", !.todo = @ \ {sync[c].file},
                                    !.failed = @ \cup {sync[c].file}]
    <2>1. SoloSync(x)
      BY <1>1, <1>9 DEF SyncType, SoloSync, CommitShows, WalkDone
    <2>2. sync' = [sync EXCEPT ![c] = x] /\ UNCHANGED <<disk, rows, obj, reg, forget>>
      BY <1>1, <1>9
    <2> HIDE DEF x
    <2> QED BY <1>9, <2>1, <2>2, SoloSyncOnly DEF Running
  <1>10. CASE FileFails(c)
    <2>1. CASE sync[c].pc = "walking"
      BY <1>1, <1>8, <1>10, <2>1 DEF FileFails, SyncType
    <2>2. CASE sync[c].pc \in {"extracting", "committing"}
      BY <1>9, <1>10, <2>2 DEF FileFails
    <2> QED BY <1>10, <2>1, <2>2 DEF FileFails
  <1>11. CASE Extract(c)
    <2> DEFINE x == [sync[c] EXCEPT !.pc = "committing", !.text = file[sync[c].file]]
    <2>1. SoloSync(x)
      BY <1>1, <1>11 DEF Extract, SyncType, SoloSync, CommitShows, WalkDone
    <2>2. sync' = [sync EXCEPT ![c] = x] /\ UNCHANGED <<disk, rows, obj, reg, forget>>
      BY <1>1, <1>11 DEF Extract, disk
    <2> HIDE DEF x
    <2> QED BY <1>11, <2>1, <2>2, SoloSyncOnly DEF Extract, Running
  <1>12. CASE Commit(c)
    <2> DEFINE f == sync[c].file
               s == sync[c].src
               y == [sync[c] EXCEPT !.pc = "walking", !.todo = @ \ {f}]
    <2>1. /\ s \in Sources /\ f \in Files /\ f \in sync[c].todo /\ sync[c].pc = "committing"
          /\ sync[c].found[f] \in Contents
      BY <1>1, <1>12 DEF Commit, SyncType, GoodSync, InEpoch, GoodWork, Walks
    <2>2. /\ obj' = [obj EXCEPT ![s][f] =
               [revs |-> obj[s][f].revs \cup {sync[c].found[f]}, text |-> sync[c].text,
                read |-> sync[c].epoch, written |-> epoch[s]]]
          /\ sync' = [sync EXCEPT ![c] = y]
          /\ UNCHANGED <<file, past, level, epoch, reg, forget>>
          /\ obj \in [Sources -> [Files -> ObjectType]]
      BY <1>1, <1>12 DEF Commit, disk, rows, IInv, TypeOK
    <2>3. /\ y.pc = "walking" /\ y.found = sync[c].found /\ y.todo = sync[c].todo \ {f}
          /\ y.failed = sync[c].failed /\ y.left = sync[c].left /\ y.src = s
          /\ y.epoch = sync[c].epoch
      BY <1>1 DEF SyncType
    <2>4. /\ sync[c].found[f] \in past[f]
          /\ file[f] \in obj[s][f].revs => sync[c].text = file[f]
          /\ file[f] = sync[c].found[f] => sync[c].text = file[f]
      BY <1>1, <2>1, NullAssumption DEF SoloSync, CommitShows
    <2> HIDE DEF f, s, y
    <2>5. /\ \A d \in Syncs : sync'[d] = IF d = c THEN y ELSE sync[d]
          /\ \A t \in Sources, g \in Files :
               \/ t = s /\ g = f /\ obj'[t][g].revs = obj[t][g].revs \cup {sync[c].found[f]}
                                 /\ obj'[t][g].text = sync[c].text
               \/ obj'[t][g] = obj[t][g]
          /\ obj'[s][f].revs = obj[s][f].revs \cup {sync[c].found[f]}
      BY <1>1, <2>1, <2>2
    <2>6. KnownContents' /\ ReadyShows'
      BY <2>2, <2>4, <2>5 DEF SoloInv, KnownContents, ReadyShows
    <2>7. OneRuns'
      BY <2>1, <2>3, <2>5 DEF SoloInv, OneRuns, Running
    <2>8. ASSUME NEW d \in Syncs PROVE SoloSync(sync[d])'
      <3>1. CASE d = c
        <4>1. sync'[d] = y
          BY <2>5, <3>1
        <4>2. SoloSync(sync[c])
          BY <1>1
        <4>3. WalkDone(sync[d])'
          <5> SUFFICES ASSUME epoch[s] = sync[c].epoch,
                              NEW g \in Files \ (y.todo \cup y.failed \cup y.left),
                              y.found[g] # NoFile
                       PROVE  y.found[g] \in obj'[s][g].revs
            BY <2>2, <2>3, <4>1 DEF WalkDone
          <5>1. CASE g = f
            BY <2>3, <2>5, <5>1
          <5>2. CASE g # f
            <6>1. obj'[s][g] = obj[s][g]
              BY <2>1, <2>5, <5>2
            <6>2. sync[c].found[g] \in obj[s][g].revs
              BY <2>1, <2>3, <4>2, <5>2 DEF SoloSync, WalkDone, s
            <6> QED BY <2>3, <6>1, <6>2
          <5> QED BY <5>1, <5>2
        <4> QED BY <2>2, <2>3, <4>1, <4>2, <4>3 DEF SoloSync, CommitShows
      <3>2. CASE d # c
        <4>1. sync'[d] = sync[d] /\ SoloSync(sync[d]) /\ sync[d].pc \notin Running
          BY <2>1, <2>5, <3>2 DEF SoloInv, OneRuns, Running
        <4> QED BY <2>2, <4>1 DEF SoloSync, CommitShows, WalkDone, Running
      <3> QED BY <3>1, <3>2
    <2> QED BY <2>6, <2>7, <2>8 DEF SoloInv
  <1>13. CASE EndWalk(c)
    <2> DEFINE x == [NewSync EXCEPT !.pc = "listed", !.queue = sync[c].queue]
    <2>1. SoloSync(x)
      BY DEF NewSync, SoloSync, CommitShows, WalkDone
    <2>2. sync' = [sync EXCEPT ![c] = x] /\ UNCHANGED <<disk, rows, obj, reg, forget>>
      BY <1>13 DEF EndWalk, disk
    <2> HIDE DEF x
    <2> QED BY <1>13, <2>1, <2>2, SoloSyncOnly DEF EndWalk, Running
  <1>14. CASE EndSync(c)
    <2> DEFINE x == [sync[c] EXCEPT !.pc = "ended"]
    <2>1. SoloSync(x)
      BY <1>1 DEF SyncType, SoloSync, CommitShows, WalkDone
    <2>2. sync' = [sync EXCEPT ![c] = x] /\ UNCHANGED <<disk, rows, obj, reg, forget>>
      BY <1>1, <1>14 DEF EndSync, disk
    <2> HIDE DEF x
    <2> QED BY <1>14, <2>1, <2>2, SoloSyncOnly DEF EndSync, Running
  <1>15. CASE SyncFails(c)
    <2> DEFINE x == [NewSync EXCEPT !.pc = "ended"]
    <2>1. SoloSync(x)
      BY DEF NewSync, SoloSync, CommitShows, WalkDone
    <2>2. sync' = [sync EXCEPT ![c] = x] /\ UNCHANGED <<disk, rows, obj, reg, forget>>
      BY <1>15 DEF SyncFails, disk
    <2> HIDE DEF x
    <2> QED BY <1>15, <2>1, <2>2, SoloSyncOnly DEF SyncFails
  <1>16. ASSUME NEW s \in Sources, ListSources(c, {s}) PROVE SoloInv'
    BY <1>2, <1>16
  <1>17. CASE ListSources(c, Sources)
    BY <1>2, <1>17
  <1> QED BY <1>3, <1>4, <1>5, <1>6, <1>7, <1>10, <1>11, <1>12, <1>13, <1>14, <1>15, <1>16, <1>17
          DEF SyncStep

LEMMA CallsSolo ==
  ASSUME IInv, SoloInv,
         \/ \E r \in Regs : RegStep(r)
         \/ \E d \in Forgets : ForgetStep(d)
  PROVE  SoloInv'
  <1>1. ASSUME UNCHANGED <<disk, epoch, obj, sync>> PROVE SoloInv'
    BY <1>1 DEF disk, SoloInv, OneRuns, KnownContents, ReadyShows, SoloSync, CommitShows, WalkDone
  <1>2. ASSUME NEW r \in Regs, RegStep(r) PROVE SoloInv'
    <2>1. UNCHANGED <<disk, epoch, obj, sync>>
      BY <1>2 DEF RegStep, StartRegister, InsertRow, RegisterFails, rows
    <2> QED BY <1>1, <2>1
  <1>3. ASSUME NEW d \in Forgets, ForgetStep(d) PROVE SoloInv'
    <2>1. CASE \E s \in Sources : FindSource(d, s) \/ MissSource(d, s)
      <3>1. UNCHANGED <<disk, epoch, obj, sync>>
        BY <2>1 DEF FindSource, MissSource, rows
      <3> QED BY <1>1, <3>1
    <2>2. CASE ForgetSource(d)
      <3> DEFINE s == forget[d].src
      <3>1. /\ s \in Sources /\ epoch \in [Sources -> Nat]
            /\ obj \in [Sources -> [Files -> ObjectType]]
        BY <2>2 DEF ForgetSource, IInv, TypeOK, GoodCalls
      <3>2. /\ obj' = [obj EXCEPT ![s] = [f \in Files |-> NoObject]]
            /\ epoch' = [epoch EXCEPT ![s] = @ + 1] /\ UNCHANGED <<file, past, sync>>
        BY <2>2 DEF ForgetSource, disk
      <3> HIDE DEF s
      <3>3. /\ epoch'[s] = epoch[s] + 1 /\ \A f \in Files : obj'[s][f].revs = {}
            /\ \A t \in Sources \ {s} : epoch'[t] = epoch[t] /\ obj'[t] = obj[t]
        BY <3>1, <3>2 DEF NoObject
      <3>4. OneRuns' /\ KnownContents' /\ ReadyShows'
        BY <3>2, <3>3 DEF SoloInv, OneRuns, KnownContents, ReadyShows
      <3>5. ASSUME NEW c \in Syncs PROVE SoloSync(sync[c])'
        <4>1. /\ SoloSync(sync[c]) /\ InEpoch(sync[c]) /\ sync[c] \in SyncType
              /\ sync'[c] = sync[c]
          BY <3>2 DEF SoloInv, IInv, GoodSyncs, GoodSync, TypeOK
        <4>2. CASE sync[c].pc \in Walks /\ sync[c].src = s
          <5>1. GoodWork(sync[c]) /\ epoch'[s] # sync[c].epoch /\ sync[c].todo \subseteq Files
            BY <3>1, <3>3, <4>1, <4>2 DEF InEpoch, IInv, GoodSyncs, GoodSync, SyncType
          <5>2. WalkDone(sync[c])'
            BY <4>1, <4>2, <5>1 DEF WalkDone
          <5>3. CommitShows(sync[c])'
            <6>1. sync[c].pc = "committing" => obj'[s][sync[c].file].revs = {}
              BY <3>3, <5>1 DEF GoodWork
            <6> QED BY <3>2, <4>1, <4>2, <6>1 DEF SoloSync, CommitShows
          <5> QED BY <3>2, <4>1, <5>2, <5>3 DEF SoloSync
        <4>3. CASE ~(sync[c].pc \in Walks /\ sync[c].src = s)
          <5>1. sync[c].pc \in Walks =>
                  epoch'[sync[c].src] = epoch[sync[c].src] /\ obj'[sync[c].src] = obj[sync[c].src]
            BY <3>3, <4>1, <4>3 DEF InEpoch
          <5> QED BY <3>2, <4>1, <5>1 DEF SoloSync, CommitShows, WalkDone, Walks
        <4> QED BY <4>2, <4>3
      <3> QED BY <3>4, <3>5 DEF SoloInv
    <2> QED BY <1>3, <2>1, <2>2 DEF ForgetStep
  <1> QED BY <1>2, <1>3

LEMMA StepSolo ==
  ASSUME ~Overlap, ~Reuse
  PROVE  IInv /\ SoloInv /\ [Next]_vars => SoloInv'
  <1> SUFFICES ASSUME IInv, SoloInv, [Next]_vars PROVE SoloInv'
    OBVIOUS
  <1>1. CASE UNCHANGED vars
    BY <1>1 DEF vars, SoloInv, OneRuns, KnownContents, ReadyShows, SoloSync, CommitShows, WalkDone
  <1>2. CASE Next
    BY <1>2, DiskSolo, SyncStepSolo, CallsSolo DEF Next
  <1> QED BY <1>1, <1>2

\* A walk ends in one step only, and finds every file it is through with ready.
LEMMA EndOfWalkShows ==
  ASSUME IInv, SoloInv, [Next]_vars, NEW c \in Syncs,
         sync[c].pc = "walking", sync'[c].pc = "listed", epoch[sync[c].src] = sync[c].epoch,
         NEW f \in Files \ (sync[c].failed \cup sync[c].left),
         sync[c].found[f] # NoFile, file[f] = sync[c].found[f]
  PROVE  obj[sync[c].src][f].text = file[f]
  <1>1. sync \in [Syncs -> SyncType]
    BY DEF IInv, TypeOK
  <1>2. PICK d \in Syncs : SyncStep(d)
    BY DEF Next, vars, Edit, Delete, RegStep, StartRegister, InsertRow, RegisterFails,
           ForgetStep, FindSource, MissSource, ForgetSource
  <1>3. sync[c].todo = {}
    <2>1. CASE EndWalk(d)
      BY <1>1, <2>1 DEF EndWalk
    <2>2. CASE (\E s \in Sources : ListSources(d, {s})) \/ ListSources(d, Sources)
      BY <1>1, <2>2 DEF ListSources
    <2>3. CASE \E s \in Sources : ListScopes(d, s)
      BY <1>1, <2>3 DEF ListScopes
    <2>4. CASE Discover(d)
      BY <1>1, <2>4 DEF Discover, SyncType
    <2>5. CASE \E g \in Files : Skip(d, g) \/ OutOfTime(d, g)
      BY <1>1, <2>5 DEF Skip, OutOfTime, SyncType
    <2>6. CASE \E g \in Files : Work(d, g)
      BY <1>1, <2>6 DEF Work, SyncType
    <2>7. CASE FileFails(d)
      BY ZenonT(60), <1>1, <2>7 DEF FileFails, SyncType
    <2>8. CASE Extract(d) \/ Commit(d) \/ EndSync(d)
      BY <1>1, <2>8 DEF Extract, Commit, EndSync
    <2>9. CASE SyncFails(d)
      BY <1>1, <2>9 DEF SyncFails, NewSync
    <2> QED BY <1>2, <2>1, <2>2, <2>3, <2>4, <2>5, <2>6, <2>7, <2>8, <2>9 DEF SyncStep
  <1>4. sync[c].found[f] \in obj[sync[c].src][f].revs
    BY <1>3 DEF SoloInv, SoloSync, WalkDone
  <1>5. sync[c].src \in Sources
    BY DEF IInv, GoodSyncs, GoodSync, InEpoch, Walks
  <1> QED BY <1>4, <1>5 DEF SoloInv, ReadyShows

\* For a client that runs one sync at a time over files that do not go back to an old
\* content, a walk leaves every file it did not fail on or put off indexed with the
\* content found, whatever edits, deletes, registrations and forgets happen meanwhile.
THEOREM SyncShowsFileHolds ==
  ASSUME ~Overlap, ~Reuse PROVE Spec => SyncShowsFile
  <1>1. IInv /\ SoloInv /\ [Next]_vars => SoloInv'
    BY StepSolo
  <1>2. IInv /\ SoloInv /\ [Next]_vars =>
          [\A c \in Syncs : LET s == sync[c].src IN
             sync[c].pc = "walking" /\ sync'[c].pc = "listed" /\ epoch[s] = sync[c].epoch =>
               \A f \in Files \ (sync[c].failed \cup sync[c].left) :
                 sync[c].found[f] # NoFile /\ file[f] = sync[c].found[f]
                   => obj[s][f].text = file[f]]_vars
    BY EndOfWalkShows
  <1> QED BY <1>1, <1>2, InitSolo, IInvHolds, PTL DEF Spec, SyncShowsFile
=============================================================================
