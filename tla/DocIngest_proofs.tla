-------------------------- MODULE DocIngest_proofs --------------------------
(***************************************************************************)
(* Proofs about DocIngest for any files and contents and any number of     *)
(* walks and forget calls.                                                 *)
(*                                                                         *)
(* IInv: every document that has left a trace in the enrichment tables, in *)
(* the graph or in the work of a walk still has chunks or gave way to a    *)
(* newer content, and a forget call has cleaned what it no longer has to   *)
(* do.  SoloInv adds what holds when walks do not overlap, FreshInv what   *)
(* holds when moreover files do not go back to an earlier content.         *)
(***************************************************************************)
EXTENDS DocIngest, TLAPS

Known(d) == chunks[d] # NoFile \/ d \in superseded \/ raced

Clean(d) == d \notin legal \cup kg /\ \A r \in status : r.doc # d

Traces == (\A d \in legal \cup kg : Known(d)) /\ (\A r \in status : Known(r.doc))

\* What a walk is about to write belongs to a known document.
GoodWalk(w) ==
  /\ walk[w].pc \in Enriching \cup Healing \cup Marking => Known(walk[w].doc)
  /\ walk[w].pc \in Running => \A r \in walk[w].backlog : Known(r.doc)
  /\ walk[w].pc \in {"deleting", "inserting"} => walk[w].text \in Contents

\* A forget call still has to do every indexed document that is not clean.
GoodForget(f) ==
  ~raced /\ forget[f].pc \in Forgetting =>
    /\ \A d \in Docs : chunks[d] # NoFile => d \in forget[f].todo \/ Clean(d)
    /\ forget[f].pc \in {"graph", "status"} => forget[f].doc \notin legal
    /\ forget[f].pc = "status" => forget[f].doc \notin kg
    /\ forget[f].pc = "rows" => forget[f].todo = {}

Apart == \A w \in Walks, f \in Forgets :
           walk[w].pc \in Running /\ forget[f].pc \in Forgetting => raced

IInv ==
  /\ TypeOK /\ Traces /\ Apart
  /\ \A w \in Walks : GoodWalk(w)
  /\ \A f \in Forgets : GoodForget(f)

-----------------------------------------------------------------------------
Solo == \A v, w \in Walks : walk[v].pc \in Running /\ walk[w].pc \in Running => v = w

\* The walk is past the moment at which the document had to be indexed.
Found(w) ==
  \/ walk[w].pc \in Enriching \cup {"probing", "loading"}
  \/ walk[w].pc \in {"rewriting", "relinking"} /\ ~walk[w].draining

\* What a walk has seen of the stores is still so.
SoloWalk(w) ==
  /\ walk[w].draining => walk[w].pc \in {"listing", "draining", "rewriting", "relinking"} \cup Marking
  /\ walk[w].pc \in {"listing", "draining"} => walk[w].draining
  /\ walk[w].pc \in {"extracting", "deleting"} => chunks[walk[w].doc] = NoFile
  /\ walk[w].pc = "inserting" =>
       \A d \in Docs : PathOf(d) = PathOf(walk[w].doc) => chunks[d] = NoFile
  /\ ~raced =>
       /\ Found(w) => chunks[walk[w].doc] # NoFile
       /\ walk[w].pc = "linking" => walk[w].doc \in legal
       /\ walk[w].draining /\ walk[w].pc \in {"rewriting", "relinking"} =>
            walk[w].text = chunks[walk[w].doc]
       /\ walk[w].pc = "relinking" /\ chunks[walk[w].doc] # NoFile => walk[w].doc \in legal

\* The contents in the index and in the walks are contents the files have had.
Seen ==
  /\ \A p \in Paths : file[p] # NoFile => file[p] \in past[p]
  /\ \A d \in Docs : chunks[d] # NoFile \/ d \in superseded => ContentOf(d) \in past[PathOf(d)]
  /\ \A w \in Walks : walk[w].pc \in Ingesting => ContentOf(walk[w].doc) \in past[PathOf(walk[w].doc)]

\* What was superseded does not come back, and what is indexed shows the file.
FreshStores ==
  /\ \A d \in superseded : file[PathOf(d)] # ContentOf(d)
  /\ \A d \in Docs : chunks[d] # NoFile /\ file[PathOf(d)] = ContentOf(d) => chunks[d] = ContentOf(d)
  /\ ~raced /\ ~cut /\ (\A f \in Forgets : forget[f].pc \notin Forgetting) =>
       \A d \in kg : chunks[d] # NoFile => d \in legal

FreshWalk(w) ==
  /\ walk[w].pc \in Ingesting =>
       /\ walk[w].doc \notin superseded
       /\ \A d \in Docs : /\ chunks[d] # NoFile /\ d # walk[w].doc
                          /\ PathOf(d) = PathOf(walk[w].doc)
                          => file[PathOf(d)] # ContentOf(d)
  /\ walk[w].pc \in {"deleting", "inserting"} /\ file[PathOf(walk[w].doc)] = ContentOf(walk[w].doc)
       => walk[w].text = ContentOf(walk[w].doc)
  /\ walk[w].pc \in Ingesting \/ Found(w) => PathOf(walk[w].doc) \notin walk[w].todo
  /\ ~raced /\ ~cut /\ walk[w].pc \in Running =>
       \A d \in walk[w].handled :
         /\ d \in legal \cap kg /\ chunks[d] # NoFile
         /\ PathOf(d) \notin walk[w].todo
         /\ (walk[w].pc \in Ingesting => PathOf(d) # PathOf(walk[w].doc))

SoloInv ==
  /\ Solo /\ OneDocPerPath
  /\ \A w \in Walks : SoloWalk(w)

FreshInv == Seen /\ FreshStores /\ \A w \in Walks : FreshWalk(w)
-----------------------------------------------------------------------------
(* Moving one walk on.                                                      *)

LEMMA DocParts ==
  ASSUME NEW d \in Docs
  PROVE  /\ PathOf(d) \in Paths /\ ContentOf(d) \in Contents
         /\ \A e \in Docs : PathOf(d) = PathOf(e) /\ ContentOf(d) = ContentOf(e) => d = e
  BY DEF Docs, PathOf, ContentOf

\* Walk w goes to a label and keeps everything but what it counts as handled.
Moved(w, label) ==
  /\ walk' \in [Walks -> WalkType]
  /\ \A v \in Walks : v # w => walk'[v] = walk[v]
  /\ walk'[w].pc = label /\ walk'[w].doc = walk[w].doc /\ walk'[w].text = walk[w].text
  /\ walk'[w].todo = walk[w].todo /\ walk'[w].backlog = walk[w].backlog
  /\ walk'[w].draining = walk[w].draining

LEMMA GotoMoves ==
  ASSUME TypeOK, NEW w \in Walks, NEW label \in Running, Goto(w, label)
  PROVE  Moved(w, label) /\ walk'[w].handled = walk[w].handled
  BY DEF TypeOK, Goto, Moved, WalkType

LEMMA GotoHandledMoves ==
  ASSUME TypeOK, NEW w \in Walks, NEW label \in Running, GotoHandled(w, label),
         walk[w].doc \in Docs
  PROVE  Moved(w, label) /\ walk'[w].handled = walk[w].handled \cup {walk[w].doc}
  BY ZenonT(60) DEF TypeOK, GotoHandled, Moved, WalkType

HasDoc == Ingesting \cup Enriching \cup Healing \cup Marking

LEMMA DocAtHand ==
  ASSUME TypeOK, NEW w \in Walks
  PROVE  /\ walk[w] \in WalkType
         /\ walk[w].pc \in HasDoc => walk[w].doc \in Docs
  BY DEF TypeOK, WalkType, HasDoc

StoreTypes ==
  /\ chunks \in [Docs -> Contents \cup {NoFile}]
  /\ legal \subseteq Docs /\ kg \subseteq Docs /\ superseded \subseteq Docs
  /\ status \subseteq RowType

\* A step of a walk that makes no known document unknown.
LEMMA WalkIInv ==
  ASSUME IInv, NEW w \in Walks, walk[w].pc \in Running,
         walk' \in [Walks -> WalkType], \A v \in Walks : v # w => walk'[v] = walk[v],
         walk'[w].pc \in HasDoc => walk'[w].doc # NoDoc,
         GoodWalk(w)', Traces', StoreTypes', \A d \in Docs : Known(d) => Known(d)',
         UNCHANGED <<disk, forget, raced, cut>>
  PROVE  IInv'
  <1>1. TypeOK'
    BY DEF IInv, TypeOK, StoreTypes, HasDoc, disk
  <1>2. Apart'
    BY DEF IInv, Apart
  <1>3. ASSUME NEW v \in Walks PROVE GoodWalk(v)'
    <2>1. CASE v = w
      BY <2>1
    <2>2. CASE v # w
      <3>1. walk'[v] = walk[v] /\ walk[v] \in WalkType
        BY <2>2 DEF IInv, TypeOK
      <3>2. walk[v].pc \in Enriching \cup Healing \cup Marking => walk[v].doc \in Docs
        BY <3>1 DEF IInv, TypeOK, WalkType
      <3>3. \A r \in walk[v].backlog : r.doc \in Docs
        BY <3>1 DEF WalkType, RowType
      <3>4. GoodWalk(v)
        BY DEF IInv
      <3>5. walk'[v].pc \in Enriching \cup Healing \cup Marking => Known(walk[v].doc)'
        BY <3>1, <3>2, <3>4 DEF GoodWalk, Known
      <3> QED BY <3>1, <3>2, <3>3, <3>4 DEF GoodWalk, Known
    <2> QED BY <2>1, <2>2
  <1>4. ASSUME NEW f \in Forgets PROVE GoodForget(f)'
    BY DEF IInv, Apart, GoodForget
  <1> QED BY <1>1, <1>2, <1>3, <1>4 DEF IInv

\* The same for a walk that leaves the stores alone.
LEMMA MoveIInv ==
  ASSUME IInv, NEW w \in Walks, walk[w].pc \in Running,
         walk' \in [Walks -> WalkType], \A v \in Walks : v # w => walk'[v] = walk[v],
         walk'[w].pc \in HasDoc => walk'[w].doc # NoDoc,
         GoodWalk(w)', UNCHANGED <<disk, stores, forget, history>>
  PROVE  IInv'
  <1>1. Traces' /\ StoreTypes' /\ \A d \in Docs : Known(d) => Known(d)'
    BY DEF IInv, TypeOK, StoreTypes, Traces, Known, stores, history
  <1> QED BY <1>1, WalkIInv DEF history

LEMMA GotoIInv ==
  ASSUME IInv, NEW w \in Walks, walk[w].pc \in Running, NEW label \in Running,
         Moved(w, label), UNCHANGED <<disk, stores, forget, history>>,
         label \in HasDoc => walk[w].pc \in HasDoc,
         label \in Enriching \cup Healing \cup Marking => Known(walk[w].doc),
         label \notin {"deleting", "inserting"}
  PROVE  IInv'
  <1>1. walk[w] \in WalkType /\ (walk[w].pc \in HasDoc => walk[w].doc \in Docs)
    BY DocAtHand DEF IInv
  <1>2. \A r \in walk[w].backlog : Known(r.doc)
    BY DEF IInv, GoodWalk
  <1>3. GoodWalk(w)'
    BY <1>2 DEF GoodWalk, Known, Moved, stores, history
  <1>4. walk'[w].pc \in HasDoc => walk'[w].doc # NoDoc
    BY <1>1, NullAssumption DEF Moved
  <1> QED BY <1>3, <1>4, MoveIInv DEF Moved

LEMMA DoneIInv ==
  ASSUME IInv, NEW w \in Walks, walk[w].pc \in Running, NEW label \in {"done", "stopped"},
         walk' = [walk EXCEPT ![w] = [NewWalk EXCEPT !.pc = label]],
         UNCHANGED <<disk, stores, forget, history>>
  PROVE  IInv'
  <1>1. [NewWalk EXCEPT !.pc = label] \in WalkType
    BY DEF NewWalk, WalkType
  <1>2. walk'[w].pc = label /\ walk' \in [Walks -> WalkType]
    BY <1>1 DEF IInv, TypeOK, NewWalk
  <1>3. \A v \in Walks : v # w => walk'[v] = walk[v]
    BY DEF IInv, TypeOK
  <1>4. label \notin Running /\ label \notin HasDoc
    BY DEF Running, HasDoc, Ingesting, Enriching, Healing, Marking
  <1>5. GoodWalk(w)'
    BY <1>2, <1>4 DEF GoodWalk, HasDoc, Ingesting
  <1> QED BY <1>2, <1>3, <1>4, <1>5, MoveIInv

USE DEF Ingesting, Enriching, Healing, Marking, Running, HasDoc

-----------------------------------------------------------------------------
(* IInv is kept by every step.                                              *)

LEMMA InitIInv == Init => IInv
  <1> SUFFICES ASSUME Init PROVE IInv
    OBVIOUS
  <1>1. NewWalk \in WalkType /\ NewForget \in ForgetType
    BY DEF NewWalk, WalkType, NewForget, ForgetType
  <1>2. TypeOK
    BY <1>1 DEF Init, TypeOK, NewWalk, NewForget, RowType
  <1>3. Traces /\ Apart /\ (\A w \in Walks : GoodWalk(w)) /\ (\A f \in Forgets : GoodForget(f))
    BY DEF Init, Traces, Apart, GoodWalk, GoodForget, NewWalk, NewForget, Forgetting
  <1> QED BY <1>2, <1>3 DEF IInv

\* Editing and deleting files touches nothing else.
LEMMA DiskIInv ==
  ASSUME IInv, NEW p \in Paths, (\E v \in Contents : Edit(p, v)) \/ Delete(p)
  PROVE  IInv'
  <1>1. UNCHANGED <<stores, walk, forget, history>>
    BY DEF Edit, Delete
  <1>2. TypeOK'
    BY <1>1 DEF IInv, TypeOK, Edit, Delete, stores, history
  <1>3. Traces' /\ Apart' /\ (\A w \in Walks : GoodWalk(w)') /\ (\A f \in Forgets : GoodForget(f)')
    BY <1>1 DEF IInv, Traces, Apart, GoodWalk, GoodForget, Known, Clean, stores, history
  <1> QED BY <1>2, <1>3 DEF IInv

LEMMA StartIInv ==
  ASSUME IInv, NEW w \in Walks, StartWalk(w)
  PROVE  IInv'
  <1> DEFINE x == [NewWalk EXCEPT !.pc = "reading", !.todo = {p \in Paths : file[p] # NoFile}]
  <1>1. x \in WalkType /\ x.pc = "reading" /\ x.backlog = {}
    BY DEF NewWalk, WalkType
  <1>2. walk' = [walk EXCEPT ![w] = x] /\ UNCHANGED <<disk, stores, forget, superseded, cut>>
    BY DEF StartWalk
  <1> HIDE DEF x
  <1>3. walk' \in [Walks -> WalkType] /\ walk'[w] = x /\ \A v \in Walks : v # w => walk'[v] = walk[v]
    BY <1>1, <1>2 DEF IInv, TypeOK
  <1>4. raced' \in BOOLEAN /\ (raced => raced') /\ \A f \in Forgets : forget[f].pc \in Forgetting => raced'
    BY DEF StartWalk
  <1>5. TypeOK'
    BY <1>1, <1>2, <1>3, <1>4 DEF IInv, TypeOK, disk, stores
  <1>6. Traces' /\ Apart'
    BY <1>2, <1>4 DEF IInv, Traces, Apart, Known, stores
  <1>7. \A v \in Walks : GoodWalk(v)'
    BY <1>1, <1>2, <1>3, <1>4 DEF IInv, GoodWalk, Known, stores
  <1>8. \A f \in Forgets : GoodForget(f)'
    BY <1>2, <1>4 DEF GoodForget
  <1> QED BY <1>5, <1>6, <1>7, <1>8 DEF IInv

LEMMA ReadIInv ==
  ASSUME IInv, NEW w \in Walks, NEW p \in Paths, ReadFile(w, p) \/ ReadFails(w, p)
  PROVE  IInv'
  <1>1. walk[w] \in WalkType /\ walk \in [Walks -> WalkType] /\ walk[w].pc = "reading"
        /\ file \in [Paths -> Contents \cup {NoFile}]
        /\ UNCHANGED <<disk, stores, forget, history>>
    BY DEF IInv, TypeOK, ReadFile, ReadFails
  <1>2. \A r \in walk[w].backlog : Known(r.doc)
    BY <1>1 DEF IInv, GoodWalk
  <1>3. CASE ReadFile(w, p)
    <2>1. <<p, file[p]>> \in Docs
      BY <1>1, <1>3 DEF ReadFile, Docs
    <2>2. /\ walk' \in [Walks -> WalkType] /\ \A v \in Walks : v # w => walk'[v] = walk[v]
          /\ walk'[w].pc = "checking" /\ walk'[w].doc = <<p, file[p]>>
          /\ walk'[w].backlog = walk[w].backlog
      BY <1>1, <1>3, <2>1 DEF ReadFile, WalkType
    <2>3. GoodWalk(w)'
      BY <1>1, <1>2, <2>2 DEF GoodWalk, Known, stores, history
    <2> QED BY <1>1, <2>1, <2>2, <2>3, NullAssumption, MoveIInv
  <1>4. CASE ReadFails(w, p)
    <2>2. /\ walk' \in [Walks -> WalkType] /\ \A v \in Walks : v # w => walk'[v] = walk[v]
          /\ walk'[w].pc = "reading" /\ walk'[w].backlog = walk[w].backlog
      BY <1>1, <1>4 DEF ReadFails, WalkType
    <2>3. GoodWalk(w)'
      BY <1>1, <1>2, <2>2 DEF GoodWalk, Known, stores, history
    <2> QED BY <1>1, <2>2, <2>3, MoveIInv
  <1> QED BY <1>3, <1>4

\* Up to the insert of the chunks.
LEMMA IngestIInv ==
  ASSUME IInv, NEW w \in Walks,
         Check(w) \/ Extract(w) \/ NotIndexable(w) \/ FileFails(w) \/ DeleteRows(w) \/ InsertRows(w)
  PROVE  IInv'
  <1>1. /\ TypeOK /\ walk[w] \in WalkType /\ walk \in [Walks -> WalkType]
        /\ walk[w].pc \in HasDoc => walk[w].doc \in Docs
    BY DocAtHand DEF IInv, TypeOK
  <1>2. \A r \in walk[w].backlog : r.doc \in Docs
    BY <1>1 DEF WalkType, RowType
  <1>3. CASE Check(w)
    <2>1. CASE chunks[walk[w].doc] = NoFile
      <3>1. Moved(w, "extracting") /\ walk[w].pc = "checking"
        BY <1>1, <1>3, <2>1, GotoMoves DEF Check
      <3> QED BY <1>3, <3>1, GotoIInv DEF Check
    <2>2. CASE chunks[walk[w].doc] # NoFile
      <3>1. Moved(w, "probing") /\ walk[w].pc = "checking"
        BY <1>1, <1>3, <2>2, GotoMoves DEF Check
      <3> QED BY <1>3, <2>2, <3>1, GotoIInv DEF Check, Known
    <2> QED BY <2>1, <2>2
  <1>4. CASE Extract(w)
    <2>1. walk[w].doc \in Docs /\ PathOf(walk[w].doc) \in Paths
      BY <1>1, <1>4, DocParts DEF Extract
    <2>2. /\ file[PathOf(walk[w].doc)] \in Contents /\ walk[w].pc = "extracting"
          /\ UNCHANGED <<disk, stores, forget, history>>
      BY <1>1, <1>4, <2>1 DEF Extract, TypeOK
    <2>3. /\ walk' \in [Walks -> WalkType] /\ \A v \in Walks : v # w => walk'[v] = walk[v]
          /\ walk'[w].pc = "deleting" /\ walk'[w].doc = walk[w].doc
          /\ walk'[w].backlog = walk[w].backlog
          /\ walk'[w].text = file[PathOf(walk[w].doc)]
      BY <1>1, <1>4, <2>2 DEF Extract, WalkType
    <2>4. \A r \in walk[w].backlog : Known(r.doc)
      BY <2>2 DEF IInv, GoodWalk
    <2>5. GoodWalk(w)'
      BY <2>2, <2>3, <2>4 DEF GoodWalk, Known, stores, history
    <2> QED BY <2>1, <2>2, <2>3, <2>5, NullAssumption, MoveIInv
  <1>5. CASE NotIndexable(w) \/ FileFails(w)
    <2>1. Moved(w, "reading") /\ walk[w].pc \in Ingesting /\ UNCHANGED <<disk, stores, forget, history>>
      BY <1>1, <1>5, GotoMoves DEF NotIndexable, FileFails
    <2> QED BY <2>1, GotoIInv
  <1>6. CASE DeleteRows(w)
    <2>1. Moved(w, "inserting") /\ walk[w].pc = "deleting"
          /\ UNCHANGED <<disk, legal, kg, status, forget, raced, cut>>
      BY <1>1, <1>6, GotoMoves DEF DeleteRows
    <2>2. PICK old \in SUBSET Docs :
            /\ chunks' = [d \in Docs |-> IF d \in old THEN NoFile ELSE chunks[d]]
            /\ superseded' = superseded \cup old
      BY <1>6 DEF DeleteRows, Indexed
    <2>3. \A d \in Docs : Known(d) => Known(d)'
      BY <2>1, <2>2 DEF Known
    <2>4. StoreTypes'
      BY <1>1, <2>1, <2>2 DEF TypeOK, StoreTypes
    <2>5. Traces'
      BY <1>1, <2>1, <2>3 DEF IInv, TypeOK, Traces, RowType
    <2>6. GoodWalk(w)'
      BY <1>2, <2>1, <2>3 DEF IInv, GoodWalk, Moved
    <2>7. walk[w].doc # NoDoc
      BY <1>1, <2>1, NullAssumption
    <2> QED BY <2>1, <2>3, <2>4, <2>5, <2>6, <2>7, WalkIInv DEF Moved
  <1>7. CASE InsertRows(w)
    <2>1. Moved(w, "enriching") /\ walk[w].pc = "inserting"
          /\ UNCHANGED <<disk, legal, kg, status, forget, raced, cut>>
      BY <1>1, <1>7, GotoMoves DEF InsertRows
    <2>2. walk[w].text \in Contents /\ walk[w].doc \in Docs
      BY <1>1, <2>1 DEF IInv, GoodWalk
    <2>3. /\ chunks' = [chunks EXCEPT ![walk[w].doc] = walk[w].text]
          /\ superseded' = superseded \ {walk[w].doc}
      BY <1>7 DEF InsertRows
    <2>4. StoreTypes'
      BY <1>1, <2>1, <2>2, <2>3 DEF TypeOK, StoreTypes
    <2>5. \A d \in Docs : (Known(d) => Known(d)') /\ (d = walk[w].doc => Known(d)')
      BY <1>1, <2>1, <2>2, <2>3, NullAssumption DEF TypeOK, Known
    <2>6. Traces'
      BY <1>1, <2>1, <2>5 DEF IInv, TypeOK, Traces, RowType
    <2>7. GoodWalk(w)'
      BY <1>2, <2>1, <2>2, <2>5 DEF IInv, GoodWalk, Moved
    <2>8. walk[w].doc # NoDoc
      BY <2>2, NullAssumption
    <2> QED BY <2>1, <2>4, <2>5, <2>6, <2>7, <2>8, WalkIInv DEF Moved
  <1> QED BY <1>3, <1>4, <1>5, <1>6, <1>7

\* A step of a walk that adds traces of the document at hand, which is known.
LEMMA TraceIInv ==
  ASSUME IInv, NEW w \in Walks, walk[w].pc \in Enriching \cup Healing \cup Marking,
         NEW label \in Running \ Ingesting, Moved(w, label),
         legal' \in {legal, legal \cup {walk[w].doc}}, kg' \in {kg, kg \cup {walk[w].doc}},
         status' \subseteq RowType, \A r \in status' : r \in status \/ r.doc = walk[w].doc,
         UNCHANGED <<disk, chunks, forget, history>>
  PROVE  IInv'
  <1>1. /\ TypeOK /\ walk[w] \in WalkType /\ walk[w].doc \in Docs
        /\ Known(walk[w].doc)
    BY DocAtHand DEF IInv, TypeOK, GoodWalk
  <1>2. \A r \in walk[w].backlog : r.doc \in Docs
    BY <1>1 DEF WalkType, RowType
  <1>3. \A d \in Docs : (Known(d) => Known(d)') /\ (d = walk[w].doc => Known(d)')
    BY <1>1 DEF Known, history
  <1>4. StoreTypes'
    BY <1>1 DEF TypeOK, StoreTypes, history
  <1>5. Traces'
    BY <1>1, <1>3 DEF IInv, TypeOK, Traces, RowType
  <1>6. GoodWalk(w)'
    BY <1>1, <1>2, <1>3 DEF IInv, GoodWalk, Moved
  <1> QED BY <1>1, <1>3, <1>4, <1>5, <1>6, NullAssumption, WalkIInv DEF Moved, history

\* Enrichment, graph and recovery.
LEMMA EnrichIInv ==
  ASSUME IInv, NEW w \in Walks,
         Enrich(w) \/ Link(w) \/ Probe(w) \/ Load(w) \/ Rewrite(w) \/ Relink(w)
  PROVE  IInv'
  <1>1. /\ TypeOK /\ walk[w].pc \in Enriching \cup Healing /\ walk[w].doc \in Docs
        /\ UNCHANGED <<disk, chunks, status, forget, history>> /\ status \subseteq RowType
    BY DocAtHand DEF IInv, TypeOK, Enrich, Link, Probe, Load, Rewrite, Relink, stores
  <1>2. legal' \in {legal, legal \cup {walk[w].doc}} /\ kg' \in {kg, kg \cup {walk[w].doc}}
    BY DEF Enrich, Link, Probe, Load, Rewrite, Relink, stores
  <1>3. \E label \in Running \ Ingesting : Goto(w, label) \/ GotoHandled(w, label)
    BY DEF Enrich, Link, Probe, Load, Rewrite, Relink, Failed
  <1>4. PICK label \in Running \ Ingesting : Moved(w, label)
    BY <1>1, <1>3, GotoMoves, GotoHandledMoves
  <1> QED BY <1>1, <1>2, <1>4, TraceIInv

LEMMA AttemptsInNat ==
  ASSUME TypeOK, NEW d \in Docs
  PROVE  Attempts(d) \subseteq Nat
  <1> DEFINE known == {r.attempts : r \in {s \in status : s.doc = d}}
  <1>1. known \subseteq Nat
    BY DEF TypeOK, RowType
  <1> HIDE DEF known
  <1>2. Attempts(d) = IF known = {} THEN {0} ELSE known
    BY DEF Attempts, known
  <1> QED BY <1>1, <1>2

LEMMA MarkIInv ==
  ASSUME IInv, NEW w \in Walks, MarkOk(w) \/ MarkPending(w) \/ MarkFailed(w)
  PROVE  IInv'
  <1>1. /\ TypeOK /\ walk[w].pc \in Marking /\ walk[w].doc \in Docs
        /\ UNCHANGED <<disk, chunks, legal, kg, forget, history>> /\ status \subseteq RowType
    BY DocAtHand DEF IInv, TypeOK, MarkOk, MarkPending, MarkFailed
  <1>2. \E n \in Nat, kind \in {"ok", "pending", "failed"} :
          status' = status \cup {Row(walk[w].doc, kind, n)}
    BY <1>1, AttemptsInNat DEF MarkOk, MarkPending, MarkFailed
  <1>3. /\ status' \subseteq RowType
        /\ \A r \in status' : r \in status \/ r.doc = walk[w].doc
    BY <1>1, <1>2 DEF Row, RowType
  <1>4. \E label \in Running \ Ingesting : Goto(w, label)
    BY DEF MarkOk, MarkPending, MarkFailed, Marked
  <1>5. PICK label \in Running \ Ingesting : Moved(w, label)
    BY <1>1, <1>4, GotoMoves
  <1> QED BY <1>1, <1>3, <1>5, TraceIInv

\* The backlog, and the end of a walk.
LEMMA DrainIInv ==
  ASSUME IInv, NEW w \in Walks,
         MarkFails(w) \/ EndFiles(w) \/ ListPending(w) \/ TakeFails(w)
           \/ (\E r \in walk[w].backlog : TakeRow(w, r)) \/ EndWalk(w) \/ WalkStops(w)
  PROVE  IInv'
  <1>1. /\ TypeOK /\ walk[w] \in WalkType /\ walk \in [Walks -> WalkType]
        /\ walk[w].pc \in Running /\ UNCHANGED <<disk, stores, forget, history>>
    BY DEF IInv, TypeOK, MarkFails, EndFiles, ListPending, TakeFails, TakeRow, EndWalk, WalkStops
  <1>2. /\ \A r \in walk[w].backlog : r \in RowType /\ Known(r.doc)
        /\ \A r \in status : r \in RowType /\ Known(r.doc)
    BY <1>1 DEF IInv, TypeOK, WalkType, Traces, GoodWalk
  <1>3. CASE MarkFails(w) \/ EndFiles(w) \/ TakeFails(w)
    <2>1. /\ walk' \in [Walks -> WalkType] /\ \A v \in Walks : v # w => walk'[v] = walk[v]
          /\ walk'[w].pc \in {"draining", "reading", "listing"}
          /\ walk'[w].backlog \subseteq walk[w].backlog
      BY <1>1, <1>3 DEF MarkFails, EndFiles, TakeFails, WalkType
    <2>2. GoodWalk(w)'
      BY <1>1, <1>2, <2>1 DEF GoodWalk, Known, stores, history
    <2> QED BY <1>1, <2>1, <2>2, MoveIInv
  <1>4. CASE ListPending(w)
    <2>1. /\ walk' \in [Walks -> WalkType] /\ \A v \in Walks : v # w => walk'[v] = walk[v]
          /\ walk'[w].pc = "draining"
          /\ walk'[w].backlog \subseteq walk[w].backlog \cup status
      <3>1. CASE Goto(w, "draining")
        BY <1>1, <3>1, GotoMoves DEF Moved
      <3>2. CASE ~Goto(w, "draining")
        <4>1. PICK rows \in SUBSET {r \in status : r.kind = "pending"} :
                walk' = [walk EXCEPT ![w].pc = "draining", ![w].backlog = rows]
          BY <1>4, <3>2 DEF ListPending
        <4>2. rows \subseteq RowType
          BY <1>1 DEF TypeOK
        <4> QED BY <1>1, <4>1, <4>2 DEF WalkType
      <3> QED BY <3>1, <3>2
    <2>2. GoodWalk(w)'
      BY <1>1, <1>2, <2>1 DEF GoodWalk, Known, stores, history
    <2> QED BY <1>1, <2>1, <2>2, MoveIInv
  <1>5. ASSUME NEW r \in walk[w].backlog, TakeRow(w, r) PROVE IInv'
    <2>1. r.doc \in Docs /\ chunks[r.doc] \in Contents \cup {NoFile}
      BY <1>1, <1>2 DEF TypeOK, RowType
    <2> DEFINE label == IF r.attempts >= MaxAttempts THEN "markingFailed" ELSE "rewriting"
    <2>2. /\ walk' \in [Walks -> WalkType] /\ \A v \in Walks : v # w => walk'[v] = walk[v]
          /\ walk'[w].pc \in {"markingFailed", "rewriting"} /\ walk'[w].doc = r.doc
          /\ walk'[w].backlog \subseteq walk[w].backlog
      <3>1. label \in {"markingFailed", "rewriting"}
        OBVIOUS
      <3>2. walk' = [walk EXCEPT ![w].backlog = @ \ {r}, ![w].doc = r.doc,
                                 ![w].text = chunks[r.doc], ![w].pc = label]
        BY <1>5 DEF TakeRow
      <3> HIDE DEF label
      <3> QED BY ZenonT(60), <1>1, <2>1, <3>1, <3>2 DEF WalkType
    <2>3. GoodWalk(w)'
      BY <1>1, <1>2, <2>2 DEF GoodWalk, Known, stores, history
    <2> QED BY <1>1, <2>1, <2>2, <2>3, NullAssumption, MoveIInv
  <1>6. CASE EndWalk(w)
    BY <1>1, <1>6, DoneIInv DEF EndWalk
  <1>7. CASE WalkStops(w)
    BY <1>1, <1>7, DoneIInv DEF WalkStops
  <1> QED BY <1>3, <1>4, <1>5, <1>6, <1>7

LEMMA WalkStepIInv ==
  ASSUME IInv, NEW w \in Walks, WalkStep(w)
  PROVE  IInv'
  BY StartIInv, ReadIInv, IngestIInv, EnrichIInv, MarkIInv, DrainIInv DEF WalkStep

\* A forget call at work only takes away, and chunks only of documents that are clean.
LEMMA DropIInv ==
  ASSUME IInv, NEW f \in Forgets, forget[f].pc \in Forgetting,
         forget' \in [Forgets -> ForgetType], \A g \in Forgets : g # f => forget'[g] = forget[g],
         forget'[f].pc \in {"graph", "status"} => forget'[f].doc # NoDoc, GoodForget(f)',
         legal' \subseteq legal, kg' \subseteq kg, status' \subseteq status,
         chunks' \in [Docs -> Contents \cup {NoFile}],
         \A d \in Docs : chunks'[d] = chunks[d] \/ (chunks'[d] = NoFile /\ (raced \/ Clean(d))),
         UNCHANGED <<disk, walk, superseded, raced>>, cut' \in BOOLEAN
  PROVE  IInv'
  <1>1. TypeOK'
    BY DEF IInv, TypeOK, disk
  <1>2. Apart'
    BY DEF IInv, Apart
  <1>3. Traces'
    BY DEF IInv, TypeOK, Traces, Known, Clean, RowType
  <1>4. ASSUME NEW w \in Walks PROVE GoodWalk(w)'
    <2>1. raced \/ walk[w].pc \notin Running
      BY DEF IInv, Apart
    <2>2. walk'[w].pc \in {"deleting", "inserting"} => walk'[w].text \in Contents
      BY DEF IInv, GoodWalk
    <2> QED BY <2>1, <2>2 DEF GoodWalk, Known
  <1>5. ASSUME NEW g \in Forgets PROVE GoodForget(g)'
    <2>1. CASE g = f
      BY <2>1
    <2>2. CASE g # f
      <3>1. GoodForget(g) /\ forget'[g] = forget[g]
        BY <2>2 DEF IInv
      <3>2. \A d \in Docs : (Clean(d) => Clean(d)') /\ (chunks'[d] # NoFile => chunks[d] # NoFile)
        BY DEF Clean
      <3> QED BY <3>1, <3>2 DEF GoodForget
    <2> QED BY <2>1, <2>2
  <1> QED BY <1>1, <1>2, <1>3, <1>4, <1>5 DEF IInv

LEMMA FindDocsIInv ==
  ASSUME IInv, NEW f \in Forgets, FindDocs(f)
  PROVE  IInv'
  <1>1. /\ forget' \in [Forgets -> ForgetType] /\ \A g \in Forgets : g # f => forget'[g] = forget[g]
        /\ forget'[f].pc = "legal" /\ forget'[f].todo = {d \in Docs : chunks[d] # NoFile}
        /\ UNCHANGED <<disk, stores, walk, superseded, cut>>
    BY ZenonT(60) DEF IInv, TypeOK, FindDocs, ForgetType, Forgetting
  <1>2. raced' \in BOOLEAN /\ (raced => raced') /\ \A w \in Walks : walk[w].pc \in Running => raced'
    BY DEF FindDocs
  <1>3. TypeOK'
    BY <1>1, <1>2 DEF IInv, TypeOK, disk, stores
  <1>4. Traces' /\ Apart' /\ \A w \in Walks : GoodWalk(w)'
    BY <1>1, <1>2 DEF IInv, Traces, Apart, GoodWalk, Known, stores
  <1>5. ASSUME NEW g \in Forgets PROVE GoodForget(g)'
    BY <1>1, <1>2 DEF IInv, GoodForget, Clean, stores
  <1> QED BY <1>3, <1>4, <1>5 DEF IInv

LEMMA ForgetStepIInv ==
  ASSUME IInv, NEW f \in Forgets, ForgetStep(f)
  PROVE  IInv'
  <1>1. /\ TypeOK /\ forget \in [Forgets -> ForgetType] /\ forget[f] \in ForgetType /\ GoodForget(f)
        /\ chunks \in [Docs -> Contents \cup {NoFile}] /\ cut \in BOOLEAN
    BY DEF IInv, TypeOK
  <1>2. ASSUME NEW d \in Docs, DropLegal(f, d) PROVE IInv'
    <2>1. /\ forget' \in [Forgets -> ForgetType] /\ \A g \in Forgets : g # f => forget'[g] = forget[g]
          /\ forget[f].pc = "legal" /\ forget'[f].pc = "graph" /\ forget'[f].doc = d
          /\ forget'[f].todo = forget[f].todo /\ legal' = legal \ {d}
          /\ UNCHANGED <<disk, chunks, kg, status, walk, history>>
      BY <1>1, <1>2 DEF DropLegal, ForgetType, Forgetting
    <2>2. GoodForget(f)'
      BY <1>1, <2>1 DEF GoodForget, Clean, Forgetting, history
    <2> QED BY <1>1, <2>1, <2>2, NullAssumption, DropIInv DEF Forgetting, history
  <1>3. CASE DropGraph(f)
    <2>1. /\ forget' \in [Forgets -> ForgetType] /\ \A g \in Forgets : g # f => forget'[g] = forget[g]
          /\ forget[f].pc = "graph" /\ forget'[f].pc = "status" /\ forget'[f].doc = forget[f].doc
          /\ forget'[f].todo = forget[f].todo /\ kg' = kg \ {forget[f].doc}
          /\ UNCHANGED <<disk, chunks, legal, status, walk, history>>
      BY <1>1, <1>3 DEF DropGraph, ForgetType, Forgetting
    <2>2. GoodForget(f)'
      BY <1>1, <2>1 DEF GoodForget, Clean, Forgetting, history
    <2> QED BY <1>1, <2>1, <2>2, DropIInv DEF Forgetting, history, TypeOK
  <1>4. CASE DropStatus(f)
    <2>1. /\ forget' \in [Forgets -> ForgetType] /\ \A g \in Forgets : g # f => forget'[g] = forget[g]
          /\ forget[f].pc = "status" /\ forget'[f].pc = "legal"
          /\ forget'[f].todo = forget[f].todo \ {forget[f].doc}
          /\ status' = {r \in status : r.doc # forget[f].doc}
          /\ UNCHANGED <<disk, chunks, legal, kg, walk, history>>
      BY <1>1, <1>4 DEF DropStatus, ForgetType, Forgetting
    <2>2. GoodForget(f)'
      BY <1>1, <2>1 DEF GoodForget, Clean, Forgetting, history
    <2> QED BY <1>1, <2>1, <2>2, DropIInv DEF Forgetting, history
  <1>5. CASE FindPaths(f)
    <2>1. /\ forget' \in [Forgets -> ForgetType] /\ \A g \in Forgets : g # f => forget'[g] = forget[g]
          /\ forget[f].pc = "legal" /\ forget'[f].pc = "rows"
          /\ forget[f].todo = {} /\ forget'[f].todo = {}
          /\ UNCHANGED <<disk, stores, walk, history>>
      BY <1>1, <1>5 DEF FindPaths, ForgetType, Forgetting
    <2>2. GoodForget(f)'
      BY <1>1, <2>1 DEF GoodForget, Clean, Forgetting, history, stores
    <2> QED BY <1>1, <2>1, <2>2, DropIInv DEF Forgetting, history, stores
  <1>6. ASSUME NEW p \in Paths, DropPath(f, p) PROVE IInv'
    <2>1. /\ forget' \in [Forgets -> ForgetType] /\ \A g \in Forgets : g # f => forget'[g] = forget[g]
          /\ forget[f].pc = "rows" /\ forget'[f].pc = "rows" /\ forget'[f].todo = forget[f].todo
          /\ chunks' = [d \in Docs |-> IF PathOf(d) = p THEN NoFile ELSE chunks[d]]
          /\ UNCHANGED <<disk, legal, kg, status, walk, history>>
      BY <1>1, <1>6 DEF DropPath, ForgetType, Forgetting
    <2>2. \A d \in Docs : chunks[d] # NoFile => raced \/ Clean(d)
      BY <1>1, <2>1 DEF GoodForget, Forgetting
    <2>3. /\ chunks' \in [Docs -> Contents \cup {NoFile}]
          /\ \A d \in Docs : chunks'[d] = chunks[d] \/ (chunks'[d] = NoFile /\ (raced \/ Clean(d)))
      BY <1>1, <2>1, <2>2
    <2>4. GoodForget(f)'
      BY <1>1, <2>1, <2>3 DEF GoodForget, Clean, Forgetting, history
    <2> QED BY <1>1, <2>1, <2>3, <2>4, DropIInv DEF Forgetting, history
  <1>7. CASE EndForget(f) \/ ForgetFails(f)
    <2>1. /\ forget' \in [Forgets -> ForgetType] /\ \A g \in Forgets : g # f => forget'[g] = forget[g]
          /\ forget[f].pc \in Forgetting /\ forget'[f].pc \in {"done", "failed"}
          /\ UNCHANGED <<disk, stores, walk, superseded, raced>> /\ cut' \in BOOLEAN
      <3>1. [NewForget EXCEPT !.pc = "done"] \in ForgetType /\ [NewForget EXCEPT !.pc = "failed"] \in ForgetType
        BY DEF NewForget, ForgetType
      <3>2. CASE EndForget(f)
        BY <1>1, <3>1, <3>2 DEF EndForget, NewForget, Forgetting, history
      <3>3. CASE ForgetFails(f)
        BY <1>1, <3>1, <3>3 DEF ForgetFails, NewForget
      <3> QED BY <1>7, <3>2, <3>3
    <2>2. GoodForget(f)'
      BY <2>1 DEF GoodForget, Forgetting
    <2> QED BY <1>1, <2>1, <2>2, DropIInv DEF stores
  <1> QED BY <1>2, <1>3, <1>4, <1>5, <1>6, <1>7, FindDocsIInv DEF ForgetStep

LEMMA NextIInv == IInv /\ [Next]_vars => IInv'
  <1> SUFFICES ASSUME IInv, [Next]_vars PROVE IInv'
    OBVIOUS
  <1>1. CASE UNCHANGED vars
    BY <1>1 DEF vars, IInv, TypeOK, Traces, Apart, GoodWalk, GoodForget, Known, Clean
  <1>2. CASE Next
    BY <1>2, DiskIInv, WalkStepIInv, ForgetStepIInv DEF Next
  <1> QED BY <1>1, <1>2

-----------------------------------------------------------------------------
\* The types of the stores and of the calls, for any number of files and calls.
THEOREM TypeCorrect == Spec => []TypeOK
  <1>1. IInv => TypeOK
    BY DEF IInv
  <1> QED BY <1>1, InitIInv, NextIInv, PTL DEF Spec

\* legal_maintenance.rs 69-91: whatever breaks off, and whatever walks overlap, the next
\* forget call finds every document that left a trace, but for superseded contents and
\* walks that ran beside a forget call.
THEOREM RetryFindsAllHolds == Spec => []RetryFindsAll
  <1>1. IInv => RetryFindsAll
    BY DEF IInv, Traces, Known, RetryFindsAll
  <1> QED BY <1>1, InitIInv, NextIInv, PTL DEF Spec

-----------------------------------------------------------------------------
(* Walks that do not overlap.                                               *)

LEMMA InitSolo == Init => SoloInv
  <1> SUFFICES ASSUME Init PROVE SoloInv
    OBVIOUS
  <1>1. Solo /\ OneDocPerPath
    BY DEF Init, Solo, OneDocPerPath, NewWalk
  <1>2. \A w \in Walks : SoloWalk(w)
    BY DEF Init, SoloWalk, Found, NewWalk
  <1> QED BY <1>1, <1>2 DEF SoloInv

\* The other walks are at rest, where SoloWalk says little.
LEMMA WalkSolo ==
  ASSUME SoloInv, NEW w \in Walks, walk[w].pc \in Running,
         \A v \in Walks : v # w => walk'[v] = walk[v],
         OneDocPerPath', SoloWalk(w)'
  PROVE  SoloInv'
  <1>1. Solo'
    BY DEF SoloInv, Solo
  <1>2. ASSUME NEW v \in Walks PROVE SoloWalk(v)'
    <2>1. CASE v = w
      BY <2>1
    <2>2. CASE v # w
      <3>1. walk'[v] = walk[v] /\ walk[v].pc \notin Running /\ SoloWalk(v)
        BY <2>2 DEF SoloInv, Solo
      <3> QED BY <3>1 DEF SoloWalk, Found
    <2> QED BY <2>1, <2>2
  <1> QED BY <1>1, <1>2 DEF SoloInv

LEMMA StartSolo ==
  ASSUME IInv, SoloInv, ~Overlap, NEW w \in Walks, StartWalk(w)
  PROVE  SoloInv'
  <1>1. /\ \A v \in Walks : walk[v].pc \notin Running
        /\ \A v \in Walks : v # w => walk'[v] = walk[v]
        /\ walk'[w].pc = "reading" /\ ~walk'[w].draining /\ UNCHANGED chunks
    BY DEF IInv, TypeOK, StartWalk, NewWalk, stores
  <1>2. Solo' /\ OneDocPerPath'
    BY <1>1 DEF SoloInv, Solo, OneDocPerPath
  <1>3. ASSUME NEW v \in Walks PROVE SoloWalk(v)'
    <2>1. CASE v = w
      BY <1>1, <2>1 DEF SoloWalk, Found
    <2>2. CASE v # w
      <3>1. walk'[v] = walk[v] /\ walk[v].pc \notin Running /\ SoloWalk(v)
        BY <1>1, <2>2 DEF SoloInv
      <3> QED BY <3>1 DEF SoloWalk, Found
    <2> QED BY <2>1, <2>2
  <1> QED BY <1>2, <1>3 DEF SoloInv

\* A step that leaves the stores as they are.
LEMMA MoveSolo ==
  ASSUME SoloInv, NEW w \in Walks, walk[w].pc \in Running,
         \A v \in Walks : v # w => walk'[v] = walk[v],
         UNCHANGED chunks, SoloWalk(w)'
  PROVE  SoloInv'
  <1>1. OneDocPerPath'
    BY DEF SoloInv, OneDocPerPath
  <1> QED BY <1>1, WalkSolo

LEMMA ReadSolo ==
  ASSUME IInv, SoloInv, NEW w \in Walks, NEW p \in Paths, ReadFile(w, p) \/ ReadFails(w, p)
  PROVE  SoloInv'
  <1>1. /\ \A v \in Walks : v # w => walk'[v] = walk[v]
        /\ walk[w].pc = "reading" /\ walk'[w].pc \in {"reading", "checking"}
        /\ walk'[w].draining = walk[w].draining /\ UNCHANGED chunks
    BY DEF IInv, TypeOK, WalkType, ReadFile, ReadFails, stores
  <1>2. SoloWalk(w)'
    BY <1>1 DEF SoloInv, SoloWalk, Found
  <1> QED BY <1>1, <1>2, MoveSolo

LEMMA IngestSolo ==
  ASSUME IInv, SoloInv, NEW w \in Walks,
         Check(w) \/ Extract(w) \/ NotIndexable(w) \/ FileFails(w) \/ DeleteRows(w) \/ InsertRows(w)
  PROVE  SoloInv'
  <1>1. /\ TypeOK /\ walk[w] \in WalkType /\ walk[w].pc \in Ingesting /\ walk[w].doc \in Docs
        /\ SoloWalk(w) /\ ~walk[w].draining
    BY DocAtHand DEF IInv, Check, Extract, NotIndexable, FileFails, DeleteRows, InsertRows,
         SoloInv, SoloWalk
  <1>2. CASE Check(w)
    <2>1. \E label \in {"extracting", "probing"} :
            Goto(w, label) /\ (label = "extracting" <=> chunks[walk[w].doc] = NoFile)
      BY <1>2 DEF Check
    <2>2. PICK label \in {"extracting", "probing"} :
            Moved(w, label) /\ (label = "extracting" <=> chunks[walk[w].doc] = NoFile)
      BY <1>1, <2>1, GotoMoves
    <2>3. UNCHANGED chunks /\ UNCHANGED raced
      BY <1>2 DEF Check, stores, history
    <2>4. SoloWalk(w)'
      BY <1>1, <2>2, <2>3 DEF SoloWalk, Found, Moved
    <2> QED BY <1>1, <2>2, <2>3, <2>4, MoveSolo DEF Moved
  <1>3. CASE Extract(w)
    <2>1. /\ \A v \in Walks : v # w => walk'[v] = walk[v]
          /\ walk[w].pc = "extracting" /\ walk'[w].pc = "deleting" /\ walk'[w].doc = walk[w].doc
          /\ ~walk'[w].draining /\ UNCHANGED chunks
      BY <1>1, <1>3 DEF Extract, TypeOK, WalkType, stores
    <2>2. SoloWalk(w)'
      BY <1>1, <2>1 DEF SoloWalk, Found
    <2> QED BY <1>1, <2>1, <2>2, MoveSolo
  <1>4. CASE NotIndexable(w) \/ FileFails(w)
    <2>1. Moved(w, "reading") /\ UNCHANGED chunks
      BY <1>1, <1>4, GotoMoves DEF NotIndexable, FileFails, stores
    <2>2. SoloWalk(w)'
      BY <1>1, <2>1 DEF SoloWalk, Found, Moved
    <2> QED BY <1>1, <2>1, <2>2, MoveSolo DEF Moved
  <1>5. CASE DeleteRows(w)
    <2>1. Moved(w, "inserting")
      BY <1>1, <1>5, GotoMoves DEF DeleteRows
    <2>2. \A d \in Docs : chunks'[d] = IF PathOf(d) = PathOf(walk[w].doc) THEN NoFile ELSE chunks[d]
      BY <1>1, <1>5 DEF DeleteRows, Indexed, TypeOK
    <2>3. SoloWalk(w)'
      BY <1>1, <2>1, <2>2 DEF SoloWalk, Found, Moved
    <2>4. OneDocPerPath'
      BY <2>2 DEF SoloInv, OneDocPerPath
    <2> QED BY <1>1, <2>1, <2>3, <2>4, WalkSolo DEF Moved
  <1>6. CASE InsertRows(w)
    <2>1. Moved(w, "enriching") /\ walk[w].pc = "inserting"
      BY <1>1, <1>6, GotoMoves DEF InsertRows
    <2>2. /\ chunks' = [chunks EXCEPT ![walk[w].doc] = walk[w].text]
          /\ chunks \in [Docs -> Contents \cup {NoFile}] /\ walk[w].text # NoFile
      BY <1>1, <1>6, <2>1, NullAssumption DEF InsertRows, TypeOK, IInv, GoodWalk
    <2>3. \A d \in Docs : PathOf(d) = PathOf(walk[w].doc) => chunks[d] = NoFile
      BY <1>1, <2>1 DEF SoloWalk
    <2>4. SoloWalk(w)'
      BY <1>1, <2>1, <2>2 DEF SoloWalk, Found, Moved
    <2>5. OneDocPerPath'
      BY <1>1, <2>2, <2>3 DEF SoloInv, OneDocPerPath
    <2> QED BY <1>1, <2>1, <2>4, <2>5, WalkSolo DEF Moved
  <1> QED BY <1>2, <1>3, <1>4, <1>5, <1>6

LEMMA EnrichSolo ==
  ASSUME IInv, SoloInv, NEW w \in Walks,
         Enrich(w) \/ Link(w) \/ Probe(w) \/ Load(w) \/ Rewrite(w) \/ Relink(w)
  PROVE  SoloInv'
  <1>1. /\ TypeOK /\ walk[w].pc \in Enriching \cup Healing /\ walk[w].doc \in Docs /\ SoloWalk(w)
        /\ UNCHANGED <<chunks, raced>>
    BY DocAtHand DEF IInv, SoloInv, Enrich, Link, Probe, Load, Rewrite, Relink, stores, history
  <1>2. ASSUME NEW label \in Running \ Ingesting, Goto(w, label) \/ GotoHandled(w, label)
        PROVE  Moved(w, label)
    BY <1>1, <1>2, GotoMoves, GotoHandledMoves
  <1>3. CASE Enrich(w)
    <2>1. \E label \in {"linking", "markingPending"} :
            Goto(w, label) /\ (label = "linking" => legal' = legal \cup {walk[w].doc})
      BY <1>3 DEF Enrich
    <2>2. PICK label \in {"linking", "markingPending"} :
            Moved(w, label) /\ (label = "linking" => legal' = legal \cup {walk[w].doc})
      BY <1>2, <2>1
    <2>3. SoloWalk(w)' /\ walk[w].pc = "enriching"
      BY <1>1, <1>3, <2>2 DEF Enrich, SoloWalk, Found, Moved
    <2> QED BY <1>1, <2>2, <2>3, MoveSolo DEF Moved
  <1>4. CASE Link(w)
    <2>1. \E label \in {"markingOk", "markingPending"} : Goto(w, label) \/ GotoHandled(w, label)
      BY <1>4 DEF Link
    <2>2. PICK label \in {"markingOk", "markingPending"} : Moved(w, label)
      BY <1>2, <2>1
    <2>3. SoloWalk(w)'
      BY <1>1, <2>2 DEF SoloWalk, Found, Moved
    <2> QED BY <1>1, <2>2, <2>3, MoveSolo DEF Moved
  <1>5. CASE Probe(w) \/ Load(w)
    <2>1. \E label \in {"reading", "loading", "rewriting"} :
            /\ Goto(w, label) \/ GotoHandled(w, label)
            /\ label = "rewriting" => chunks[walk[w].doc] # NoFile
      BY <1>5 DEF Probe, Load
    <2>2. PICK label \in {"reading", "loading", "rewriting"} :
            Moved(w, label) /\ (label = "rewriting" => chunks[walk[w].doc] # NoFile)
      BY <1>2, <2>1
    <2>3. walk[w].pc \in {"probing", "loading"} /\ ~walk[w].draining
      BY <1>1, <1>5 DEF Probe, Load, SoloWalk
    <2>4. SoloWalk(w)'
      BY <1>1, <2>2, <2>3 DEF SoloWalk, Found, Moved
    <2> QED BY <1>1, <2>2, <2>4, MoveSolo DEF Moved
  <1>6. CASE Rewrite(w)
    <2>1. \E label \in {"relinking", "markingPending", "reading"} :
            /\ Goto(w, label) /\ (label = "reading" <=> label # "relinking" /\ ~walk[w].draining)
            /\ label = "relinking" /\ ~(walk[w].draining /\ walk[w].text = NoFile) =>
                 legal' = legal \cup {walk[w].doc}
      BY <1>6 DEF Rewrite, Failed
    <2>2. PICK label \in {"relinking", "markingPending", "reading"} :
            /\ Moved(w, label) /\ (label = "reading" <=> label # "relinking" /\ ~walk[w].draining)
            /\ label = "relinking" /\ ~(walk[w].draining /\ walk[w].text = NoFile) =>
                 legal' = legal \cup {walk[w].doc}
      BY <1>2, <2>1
    <2>3. walk[w].pc = "rewriting"
      BY <1>6 DEF Rewrite
    <2>4. SoloWalk(w)'
      BY <1>1, <2>2, <2>3 DEF SoloWalk, Found, Moved
    <2> QED BY <1>1, <2>2, <2>4, MoveSolo DEF Moved
  <1>7. CASE Relink(w)
    <2>1. \E label \in {"markingOk", "markingPending", "reading"} :
            (Goto(w, label) \/ GotoHandled(w, label)) /\ (label = "reading" <=> ~walk[w].draining)
      BY <1>7 DEF Relink, Failed
    <2>2. PICK label \in {"markingOk", "markingPending", "reading"} :
            Moved(w, label) /\ (label = "reading" <=> ~walk[w].draining)
      BY <1>2, <2>1
    <2>3. SoloWalk(w)'
      BY <1>1, <2>2 DEF SoloWalk, Found, Moved
    <2> QED BY <1>1, <2>2, <2>3, MoveSolo DEF Moved
  <1> QED BY <1>3, <1>4, <1>5, <1>6, <1>7

LEMMA MarkSolo ==
  ASSUME IInv, SoloInv, NEW w \in Walks, MarkOk(w) \/ MarkPending(w) \/ MarkFailed(w)
  PROVE  SoloInv'
  <1>1. /\ TypeOK /\ walk[w].pc \in Marking /\ SoloWalk(w) /\ UNCHANGED <<chunks, raced>>
    BY DEF IInv, SoloInv, MarkOk, MarkPending, MarkFailed, history
  <1>2. \E label \in {"draining", "reading"} : Goto(w, label) /\ (label = "reading" <=> ~walk[w].draining)
    BY DEF MarkOk, MarkPending, MarkFailed, Marked
  <1>3. PICK label \in {"draining", "reading"} :
          Moved(w, label) /\ (label = "reading" <=> ~walk[w].draining)
    BY <1>1, <1>2, GotoMoves
  <1>4. SoloWalk(w)'
    BY <1>1, <1>3 DEF SoloWalk, Found, Moved
  <1> QED BY <1>1, <1>3, <1>4, MoveSolo DEF Moved

LEMMA DrainSolo ==
  ASSUME IInv, SoloInv, NEW w \in Walks,
         MarkFails(w) \/ EndFiles(w) \/ ListPending(w) \/ TakeFails(w)
           \/ (\E r \in walk[w].backlog : TakeRow(w, r)) \/ EndWalk(w) \/ WalkStops(w)
  PROVE  SoloInv'
  <1>1. /\ TypeOK /\ walk \in [Walks -> WalkType] /\ walk[w] \in WalkType
        /\ walk[w].pc \in Running /\ SoloWalk(w) /\ UNCHANGED <<chunks, raced>>
    BY DEF IInv, TypeOK, SoloInv, MarkFails, EndFiles, ListPending, TakeFails, TakeRow, EndWalk,
         WalkStops, stores, history
  <1>2. \A v \in Walks : v # w => walk'[v] = walk[v]
    BY <1>1 DEF MarkFails, EndFiles, ListPending, TakeFails, TakeRow, EndWalk, WalkStops, Goto
  <1>3. CASE MarkFails(w) \/ EndFiles(w) \/ ListPending(w) \/ TakeFails(w)
    <2>1. /\ walk'[w].pc \in {"draining", "reading", "listing"}
          /\ walk'[w].pc = "reading" <=> ~walk'[w].draining
      BY <1>1, <1>3 DEF MarkFails, EndFiles, ListPending, TakeFails, WalkType, Goto, SoloWalk
    <2>2. SoloWalk(w)'
      BY <1>1, <2>1 DEF SoloWalk, Found
    <2> QED BY <1>1, <1>2, <2>2, MoveSolo
  <1>4. ASSUME NEW r \in walk[w].backlog, TakeRow(w, r) PROVE SoloInv'
    <2>1. walk[w].draining
      BY <1>1, <1>4 DEF TakeRow, SoloWalk
    <2>2. /\ walk'[w].pc \in {"markingFailed", "rewriting"} /\ walk'[w].text = chunks[walk'[w].doc]
          /\ walk'[w].draining = walk[w].draining
      BY <1>1, <1>4 DEF TakeRow, WalkType
    <2>3. SoloWalk(w)'
      BY <1>1, <2>1, <2>2 DEF SoloWalk, Found
    <2> QED BY <1>1, <1>2, <2>3, MoveSolo
  <1>5. CASE EndWalk(w) \/ WalkStops(w)
    <2>1. walk'[w].pc \in {"done", "stopped"} /\ ~walk'[w].draining
      BY <1>1, <1>5 DEF EndWalk, WalkStops, NewWalk
    <2>2. SoloWalk(w)'
      BY <2>1 DEF SoloWalk, Found
    <2> QED BY <1>1, <1>2, <2>2, MoveSolo
  <1> QED BY <1>3, <1>4, <1>5

\* What a forget call does to walks and chunks: it takes chunks away, and what a walk
\* relies on is given up when both run.
LEMMA ForgetTakes ==
  ASSUME IInv, NEW f \in Forgets, ForgetStep(f)
  PROVE  /\ UNCHANGED <<file, past, walk, superseded>> /\ (raced => raced')
         /\ \A d \in Docs : chunks'[d] = chunks[d] \/ chunks'[d] = NoFile
         /\ \A w \in Walks : walk[w].pc \in Running => raced'
  <1>1. /\ UNCHANGED <<file, past, walk, superseded>> /\ (raced => raced')
        /\ \A d \in Docs : chunks'[d] = chunks[d] \/ chunks'[d] = NoFile
    BY DEF IInv, TypeOK, ForgetStep, FindDocs, DropLegal, DropGraph, DropStatus, FindPaths,
         DropPath, EndForget, ForgetFails, disk, stores, history
  <1>2. CASE FindDocs(f)
    BY <1>1, <1>2 DEF FindDocs
  <1>3. CASE ~FindDocs(f)
    <2>1. forget[f].pc \in Forgetting
      BY <1>3 DEF ForgetStep, DropLegal, DropGraph, DropStatus, FindPaths, DropPath, EndForget,
           ForgetFails, Forgetting
    <2> QED BY <1>1, <2>1 DEF IInv, Apart
  <1> QED BY <1>2, <1>3, <1>1

LEMMA NextSolo ==
  ASSUME IInv, SoloInv, ~Overlap, [Next]_vars
  PROVE  SoloInv'
  <1>1. ASSUME UNCHANGED <<chunks, walk, legal, raced>> PROVE SoloInv'
    BY <1>1 DEF SoloInv, Solo, OneDocPerPath, SoloWalk, Found
  <1>2. ASSUME NEW p \in Paths, (\E v \in Contents : Edit(p, v)) \/ Delete(p) PROVE SoloInv'
    BY <1>1, <1>2 DEF Edit, Delete, stores, history
  <1>3. ASSUME NEW w \in Walks, WalkStep(w) PROVE SoloInv'
    BY <1>3, StartSolo, ReadSolo, IngestSolo, EnrichSolo, MarkSolo, DrainSolo DEF WalkStep
  <1>4. ASSUME NEW f \in Forgets, ForgetStep(f) PROVE SoloInv'
    <2>1. /\ UNCHANGED <<file, past, walk, superseded>> /\ (raced => raced')
          /\ \A d \in Docs : chunks'[d] = chunks[d] \/ chunks'[d] = NoFile
          /\ \A w \in Walks : walk[w].pc \in Running => raced'
      BY <1>4, ForgetTakes
    <2>2. Solo' /\ OneDocPerPath'
      BY <2>1 DEF SoloInv, Solo, OneDocPerPath
    <2>3. ASSUME NEW w \in Walks PROVE SoloWalk(w)'
      <3>1. SoloWalk(w) /\ (walk[w].pc \in HasDoc => walk[w].doc \in Docs)
        BY DocAtHand DEF IInv, SoloInv
      <3> QED BY <2>1, <3>1 DEF SoloWalk, Found
    <2> QED BY <2>2, <2>3 DEF SoloInv
  <1> QED BY <1>1, <1>2, <1>3, <1>4 DEF Next, vars

\* pipeline.rs 513-516: where walks of the corpus do not overlap, no two contents of a
\* file are indexed at a time, whatever breaks off.
THEOREM OneDocPerPathHolds ==
  ASSUME ~Overlap
  PROVE  Spec => []OneDocPerPath
  <1>1. Init => IInv /\ SoloInv
    BY InitIInv, InitSolo
  <1>2. IInv /\ SoloInv /\ [Next]_vars => (IInv /\ SoloInv)'
    BY NextIInv, NextSolo
  <1>3. SoloInv => OneDocPerPath
    BY DEF SoloInv
  <1> QED BY <1>1, <1>2, <1>3, PTL DEF Spec

-----------------------------------------------------------------------------
(* Files that do not go back to an earlier content.                         *)

LEMMA InitFresh == Init => FreshInv
  <1> SUFFICES ASSUME Init PROVE FreshInv
    OBVIOUS
  <1>1. Seen /\ FreshStores
    BY DEF Init, Seen, FreshStores, NewWalk
  <1>2. \A w \in Walks : FreshWalk(w)
    BY DEF Init, FreshWalk, Found, NewWalk
  <1> QED BY <1>1, <1>2 DEF FreshInv

LEMMA DiskFresh ==
  ASSUME IInv, FreshInv, ~Reuse, NEW p \in Paths, (\E v \in Contents : Edit(p, v)) \/ Delete(p)
  PROVE  FreshInv'
  <1>1. /\ TypeOK /\ UNCHANGED <<stores, walk, forget, history>>
        /\ \A q \in Paths : past[q] \subseteq past'[q]
        /\ \A q \in Paths : file'[q] = file[q] \/ file'[q] \notin past[q]
        /\ \A q \in Paths : file'[q] # NoFile => file'[q] \in past'[q]
    <2>1. TypeOK /\ UNCHANGED <<stores, walk, forget, history>>
      BY DEF IInv, Edit, Delete
    <2>2. CASE Delete(p)
      BY <2>1, <2>2, NullAssumption DEF TypeOK, FreshInv, Seen, Delete
    <2>3. ASSUME NEW v \in Contents, Edit(p, v)
          PROVE  /\ \A q \in Paths : past[q] \subseteq past'[q]
                 /\ \A q \in Paths : file'[q] = file[q] \/ file'[q] \notin past[q]
                 /\ \A q \in Paths : file'[q] # NoFile => file'[q] \in past'[q]
      BY <2>1, <2>3 DEF TypeOK, FreshInv, Seen, Edit
    <2> QED BY <2>1, <2>2, <2>3
  <1>2. \A d \in Docs : PathOf(d) \in Paths
    BY DocParts
  <1>3. \A w \in Walks : walk[w].pc \in Ingesting => walk[w].doc \in Docs
    BY <1>1, DocAtHand
  <1>4. Seen'
    BY <1>1, <1>2, <1>3 DEF TypeOK, FreshInv, Seen, stores, history
  <1>5. FreshStores'
    BY <1>1, <1>2 DEF TypeOK, FreshInv, Seen, FreshStores, stores, history
  <1>6. ASSUME NEW w \in Walks PROVE FreshWalk(w)'
    <2>1. /\ FreshWalk(w) /\ Seen
          /\ walk[w].pc \in {"deleting", "inserting"} =>
               /\ ContentOf(walk[w].doc) \in past[PathOf(walk[w].doc)]
               /\ PathOf(walk[w].doc) \in Paths
      BY <1>2, <1>3 DEF FreshInv, Seen
    <2> QED BY <1>1, <1>2, <2>1 DEF Seen, FreshWalk, Found, stores, history
  <1> QED BY <1>4, <1>5, <1>6 DEF FreshInv

LEMMA WalkFresh ==
  ASSUME SoloInv, FreshInv, NEW w \in Walks, walk[w].pc \in Running,
         \A v \in Walks : v # w => walk'[v] = walk[v],
         Seen', FreshStores', FreshWalk(w)'
  PROVE  FreshInv'
  <1>1. ASSUME NEW v \in Walks PROVE FreshWalk(v)'
    <2>1. CASE v = w
      BY <2>1
    <2>2. CASE v # w
      <3>1. walk'[v] = walk[v] /\ walk[v].pc \notin Running
        BY <2>2 DEF SoloInv, Solo
      <3> QED BY <3>1 DEF FreshWalk, Found
    <2> QED BY <2>1, <2>2
  <1> QED BY <1>1 DEF FreshInv

LEMMA MoveFresh ==
  ASSUME SoloInv, FreshInv, NEW w \in Walks, walk[w].pc \in Running,
         \A v \in Walks : v # w => walk'[v] = walk[v],
         walk'[w].pc \in Ingesting => ContentOf(walk'[w].doc) \in past[PathOf(walk'[w].doc)],
         UNCHANGED <<disk, stores, forget, history>>, FreshWalk(w)'
  PROVE  FreshInv'
  <1>1. Seen'
    BY DEF FreshInv, Seen, disk, stores, history
  <1>2. FreshStores'
    BY DEF FreshInv, FreshStores, disk, stores, history
  <1> QED BY <1>1, <1>2, WalkFresh

LEMMA StartFresh ==
  ASSUME IInv, FreshInv, ~Overlap, NEW w \in Walks, StartWalk(w)
  PROVE  FreshInv'
  <1>1. /\ \A v \in Walks : walk[v].pc \notin Running
        /\ \A v \in Walks : v # w => walk'[v] = walk[v]
        /\ walk'[w].pc = "reading" /\ walk'[w].handled = {}
        /\ UNCHANGED <<disk, stores, forget, superseded, cut>> /\ (raced => raced')
    BY DEF IInv, TypeOK, StartWalk, NewWalk
  <1>2. Seen'
    BY <1>1 DEF FreshInv, Seen, disk, stores
  <1>3. FreshStores'
    BY <1>1 DEF IInv, TypeOK, FreshInv, FreshStores, disk, stores
  <1>4. ASSUME NEW v \in Walks PROVE FreshWalk(v)'
    <2>1. CASE v = w
      BY <1>1, <2>1 DEF FreshWalk, Found
    <2>2. CASE v # w
      <3>1. walk'[v] = walk[v] /\ walk[v].pc \notin Running
        BY <1>1, <2>2
      <3> QED BY <3>1 DEF FreshWalk, Found
    <2> QED BY <2>1, <2>2
  <1> QED BY <1>2, <1>3, <1>4 DEF FreshInv

LEMMA ReadFresh ==
  ASSUME IInv, SoloInv, FreshInv, NEW w \in Walks, NEW p \in Paths,
         ReadFile(w, p) \/ ReadFails(w, p)
  PROVE  FreshInv'
  <1>1. /\ TypeOK /\ walk[w] \in WalkType /\ walk[w].pc = "reading" /\ FreshWalk(w)
        /\ p \in walk[w].todo /\ UNCHANGED <<disk, stores, forget, history>>
        /\ \A v \in Walks : v # w => walk'[v] = walk[v]
    BY DEF IInv, TypeOK, FreshInv, ReadFile, ReadFails, IsNext
  <1>2. walk[w].handled \subseteq Docs /\ \A d \in Docs : PathOf(d) \in Paths
    BY <1>1, DocParts DEF WalkType
  <1>3. CASE ReadFile(w, p)
    <2>1. /\ walk'[w].pc = "checking" /\ walk'[w].doc = <<p, file[p]>>
          /\ walk'[w].todo = walk[w].todo \ {p} /\ walk'[w].handled = walk[w].handled
          /\ file[p] # NoFile
      BY <1>1, <1>3 DEF ReadFile, TypeOK, WalkType
    <2>2. /\ <<p, file[p]>> \in Docs
          /\ PathOf(<<p, file[p]>>) = p /\ ContentOf(<<p, file[p]>>) = file[p]
      BY <1>1, <2>1 DEF TypeOK, Docs, PathOf, ContentOf
    <2>3. file[p] \in past[p]
      BY <2>1 DEF FreshInv, Seen
    <2>4. /\ <<p, file[p]>> \notin superseded
          /\ \A d \in Docs : d # <<p, file[p]>> /\ PathOf(d) = p => file[p] # ContentOf(d)
      BY <1>1, <2>2, DocParts DEF TypeOK, FreshInv, FreshStores
    <2>5. FreshWalk(w)'
      BY <1>1, <1>2, <2>1, <2>2, <2>4 DEF FreshWalk, Found, disk, stores, history
    <2> QED BY <1>1, <2>1, <2>2, <2>3, <2>5, MoveFresh
  <1>4. CASE ReadFails(w, p)
    <2>1. /\ walk'[w].pc = "reading" /\ walk'[w].todo = walk[w].todo \ {p}
          /\ walk'[w].handled = walk[w].handled
      BY <1>1, <1>4 DEF ReadFails, TypeOK, WalkType
    <2>2. FreshWalk(w)'
      BY <1>1, <2>1 DEF FreshWalk, Found, disk, stores, history
    <2> QED BY <1>1, <2>1, <2>2, MoveFresh
  <1> QED BY <1>3, <1>4

LEMMA IngestFresh ==
  ASSUME IInv, SoloInv, FreshInv, NEW w \in Walks,
         Check(w) \/ Extract(w) \/ NotIndexable(w) \/ FileFails(w) \/ DeleteRows(w) \/ InsertRows(w)
  PROVE  FreshInv'
  <1>1. /\ TypeOK /\ walk[w] \in WalkType /\ walk[w].pc \in Ingesting /\ walk[w].doc \in Docs
        /\ PathOf(walk[w].doc) \in Paths /\ SoloWalk(w) /\ FreshWalk(w)
        /\ ContentOf(walk[w].doc) \in past[PathOf(walk[w].doc)]
        /\ walk[w].handled \subseteq Docs
    BY DocAtHand, DocParts DEF IInv, Check, Extract, NotIndexable, FileFails, DeleteRows, InsertRows,
         SoloInv, FreshInv, Seen, WalkType
  <1>2. CASE Check(w) \/ NotIndexable(w) \/ FileFails(w)
    <2>1. \E label \in {"extracting", "probing", "reading"} : Goto(w, label)
      BY <1>2 DEF Check, NotIndexable, FileFails
    <2>2. PICK label \in {"extracting", "probing", "reading"} :
            Moved(w, label) /\ walk'[w].handled = walk[w].handled
      BY <1>1, <2>1, GotoMoves
    <2>3. UNCHANGED <<disk, stores, forget, history>>
      BY <1>2 DEF Check, NotIndexable, FileFails
    <2>4. FreshWalk(w)'
      BY <1>1, <2>2, <2>3 DEF FreshWalk, Found, Moved, disk, stores, history
    <2> QED BY <1>1, <2>2, <2>3, <2>4, MoveFresh DEF Moved
  <1>3. CASE Extract(w)
    <2>1. /\ \A v \in Walks : v # w => walk'[v] = walk[v]
          /\ walk'[w].pc = "deleting" /\ walk'[w].doc = walk[w].doc
          /\ walk'[w].text = file[PathOf(walk[w].doc)] /\ walk'[w].todo = walk[w].todo
          /\ walk'[w].handled = walk[w].handled /\ UNCHANGED <<disk, stores, forget, history>>
      BY <1>1, <1>3 DEF Extract, TypeOK, WalkType
    <2>2. FreshWalk(w)'
      BY <1>1, <2>1 DEF FreshWalk, Found, disk, stores, history
    <2> QED BY <1>1, <2>1, <2>2, MoveFresh
  <1>4. CASE DeleteRows(w)
    <2>1. /\ Moved(w, "inserting") /\ walk'[w].handled = walk[w].handled /\ walk[w].pc = "deleting"
          /\ UNCHANGED <<disk, legal, kg, status, forget, raced, cut>>
      BY <1>1, <1>4, GotoMoves DEF DeleteRows
    <2>2. /\ \A d \in Docs : chunks'[d] = IF PathOf(d) = PathOf(walk[w].doc) THEN NoFile ELSE chunks[d]
          /\ \A d \in superseded' : d \in superseded \/
               (d \in Docs /\ PathOf(d) = PathOf(walk[w].doc) /\ chunks[d] # NoFile)
          /\ superseded' \subseteq Docs
      BY <1>1, <1>4 DEF DeleteRows, Indexed, TypeOK
    <2>3. chunks[walk[w].doc] = NoFile
      BY <1>1, <2>1 DEF SoloWalk
    <2>4. \A d \in superseded' \ superseded : file[PathOf(d)] # ContentOf(d)
      BY <1>1, <2>2, <2>3 DEF FreshWalk
    <2>5. Seen'
      BY <1>1, <2>1, <2>2 DEF FreshInv, Seen, Moved, disk
    <2>6. FreshStores'
      BY <1>1, <2>1, <2>2, <2>4 DEF TypeOK, FreshInv, FreshStores, disk
    <2>7. FreshWalk(w)'
      BY <1>1, <2>1, <2>2, <2>3 DEF FreshWalk, Found, Moved, disk
    <2> QED BY <1>1, <2>1, <2>5, <2>6, <2>7, WalkFresh DEF Moved
  <1>5. CASE InsertRows(w)
    <2>1. /\ Moved(w, "enriching") /\ walk'[w].handled = walk[w].handled /\ walk[w].pc = "inserting"
          /\ UNCHANGED <<disk, legal, kg, status, forget, raced, cut>>
          /\ superseded' \subseteq superseded
      BY <1>1, <1>5, GotoMoves DEF InsertRows
    <2>2. \A d \in Docs : chunks'[d] = IF d = walk[w].doc THEN walk[w].text ELSE chunks[d]
      BY <1>1, <1>5 DEF InsertRows, TypeOK
    <2>3. chunks[walk[w].doc] = NoFile /\ (raced \/ walk[w].doc \notin kg)
      BY <1>1, <2>1 DEF SoloWalk, FreshWalk, IInv, Traces, Known
    <2>4. Seen'
      BY <1>1, <2>1, <2>2 DEF FreshInv, Seen, Moved, disk
    <2>5. FreshStores'
      BY <1>1, <2>1, <2>2, <2>3 DEF TypeOK, FreshInv, FreshStores, FreshWalk, disk
    <2>6. FreshWalk(w)'
      BY <1>1, <2>1, <2>2 DEF FreshWalk, Found, Moved, disk
    <2> QED BY <1>1, <2>1, <2>4, <2>5, <2>6, WalkFresh DEF Moved
  <1> QED BY <1>2, <1>3, <1>4, <1>5

\* A step that adds traces of the document at hand.
LEMMA TraceFresh ==
  ASSUME IInv, SoloInv, FreshInv, NEW w \in Walks,
         walk[w].pc \in Enriching \cup Healing \cup Marking,
         NEW label \in {"linking", "loading", "rewriting", "relinking", "reading", "draining"} \cup Marking,
         Moved(w, label),
         label \in {"linking", "loading"} => Found(w),
         label \in {"rewriting", "relinking"} => (Found(w) \/ walk[w].draining),
         legal' \in {legal, legal \cup {walk[w].doc}}, kg' \in {kg, kg \cup {walk[w].doc}},
         kg' # kg /\ ~raced /\ chunks[walk[w].doc] # NoFile => walk[w].doc \in legal,
         UNCHANGED <<disk, chunks, forget, history>>,
         \/ walk'[w].handled = walk[w].handled
         \/ /\ walk'[w].handled = walk[w].handled \cup {walk[w].doc} /\ Found(w)
            /\ ~raced /\ ~cut => walk[w].doc \in legal' \cap kg'
  PROVE  FreshInv'
  <1>1. /\ TypeOK /\ walk[w].doc \in Docs /\ SoloWalk(w) /\ FreshWalk(w)
        /\ \A v \in Walks : v # w => walk'[v] = walk[v]
        /\ label \notin Ingesting
    BY DocAtHand DEF IInv, SoloInv, FreshInv, Moved
  <1>2. Seen'
    BY <1>1 DEF FreshInv, Seen, Moved, disk, history
  <1>3. FreshStores'
    BY <1>1 DEF FreshInv, FreshStores, disk, history
  <1>4. label \in {"linking", "loading", "rewriting", "relinking"} /\ ~walk[w].draining =>
          PathOf(walk[w].doc) \notin walk[w].todo
    BY <1>1 DEF FreshWalk
  <1>5. Found(w) => /\ PathOf(walk[w].doc) \notin walk[w].todo
                    /\ ~raced => chunks[walk[w].doc] # NoFile
    BY <1>1 DEF FreshWalk, SoloWalk
  <1>6. walk[w].draining => label \notin {"linking", "loading"}
    BY <1>1 DEF SoloWalk, Found
  <1>7. FreshWalk(w)'
    BY <1>1, <1>4, <1>5, <1>6 DEF FreshWalk, Found, Moved, disk, history
  <1> QED BY <1>1, <1>2, <1>3, <1>7, WalkFresh

LEMMA EnrichFresh ==
  ASSUME IInv, SoloInv, FreshInv, NEW w \in Walks,
         Enrich(w) \/ Link(w) \/ Probe(w) \/ Load(w) \/ Rewrite(w) \/ Relink(w)
  PROVE  FreshInv'
  <1>1. /\ TypeOK /\ walk[w].pc \in Enriching \cup Healing /\ walk[w].doc \in Docs
        /\ SoloWalk(w) /\ FreshWalk(w) /\ UNCHANGED <<disk, chunks, forget, history>>
    BY DocAtHand DEF IInv, SoloInv, FreshInv, Enrich, Link, Probe, Load, Rewrite, Relink, stores
  <1>2. ASSUME NEW label \in Running, Goto(w, label)
        PROVE  Moved(w, label) /\ walk'[w].handled = walk[w].handled
    BY <1>1, <1>2, GotoMoves
  <1>3. ASSUME NEW label \in Running, GotoHandled(w, label)
        PROVE  Moved(w, label) /\ walk'[w].handled = walk[w].handled \cup {walk[w].doc}
    BY <1>1, <1>3, GotoHandledMoves
  <1>4. CASE Enrich(w)
    <2>1. \E label \in {"linking", "markingPending"} : Goto(w, label)
      BY <1>4 DEF Enrich
    <2>2. PICK label \in {"linking", "markingPending"} :
            Moved(w, label) /\ walk'[w].handled = walk[w].handled
      BY <1>2, <2>1
    <2>3. Found(w) /\ legal' \in {legal, legal \cup {walk[w].doc}} /\ kg' = kg
      BY <1>4 DEF Enrich, Found
    <2> QED BY <1>1, <2>2, <2>3, TraceFresh
  <1>5. CASE Link(w)
    <2>1. Found(w) /\ legal' = legal /\ (~raced => walk[w].doc \in legal)
      BY <1>1, <1>5 DEF Link, Found, SoloWalk
    <2>2. CASE kg' = kg \cup {walk[w].doc} /\ GotoHandled(w, "markingOk")
      <3>1. Moved(w, "markingOk") /\ walk'[w].handled = walk[w].handled \cup {walk[w].doc}
        BY <1>3, <2>2
      <3> QED BY <1>1, <2>1, <2>2, <3>1, TraceFresh
    <2>3. CASE kg' = kg /\ Goto(w, "markingPending")
      <3>1. Moved(w, "markingPending") /\ walk'[w].handled = walk[w].handled
        BY <1>2, <2>3
      <3> QED BY <1>1, <2>1, <2>3, <3>1, TraceFresh
    <2> QED BY <1>5, <2>2, <2>3 DEF Link
  <1>6. CASE Probe(w) \/ Load(w)
    <2>1. Found(w) /\ legal' = legal /\ kg' = kg
      BY <1>6 DEF Probe, Load, Found, stores
    <2>2. CASE \E label \in {"loading", "rewriting", "reading"} : Goto(w, label)
      <3>1. PICK label \in {"loading", "rewriting", "reading"} :
              Moved(w, label) /\ walk'[w].handled = walk[w].handled
        BY <1>2, <2>2
      <3> QED BY <1>1, <2>1, <3>1, TraceFresh
    <2>3. CASE GotoHandled(w, "reading") /\ (walk[w].doc \in kg \/ chunks[walk[w].doc] = NoFile)
      <3>1. Moved(w, "reading") /\ walk'[w].handled = walk[w].handled \cup {walk[w].doc}
        BY <1>3, <2>3
      <3>2. ~raced => chunks[walk[w].doc] # NoFile
        BY <1>1, <2>1 DEF SoloWalk
      <3>3. ~raced => \A f \in Forgets : forget[f].pc \notin Forgetting
        BY <1>1 DEF IInv, Apart
      <3>4. ~raced /\ ~cut => walk[w].doc \in legal \cap kg
        BY <1>1, <2>3, <3>2, <3>3 DEF FreshInv, FreshStores
      <3> QED BY <1>1, <2>1, <3>1, <3>4, TraceFresh
    <2> QED BY <1>6, <2>2, <2>3 DEF Probe, Load
  <1>7. CASE Rewrite(w)
    <2>1. \E label \in {"relinking", "markingPending", "reading"} : Goto(w, label)
      BY <1>7 DEF Rewrite, Failed
    <2>2. PICK label \in {"relinking", "markingPending", "reading"} :
            Moved(w, label) /\ walk'[w].handled = walk[w].handled
      BY <1>2, <2>1
    <2>3. /\ Found(w) \/ walk[w].draining
          /\ legal' \in {legal, legal \cup {walk[w].doc}} /\ kg' = kg
      BY <1>7 DEF Rewrite, Found
    <2> QED BY <1>1, <2>2, <2>3, TraceFresh
  <1>8. CASE Relink(w)
    <2>1. /\ legal' = legal /\ kg' \in {kg, kg \cup {walk[w].doc}}
          /\ ~raced /\ chunks[walk[w].doc] # NoFile => walk[w].doc \in legal
      BY <1>1, <1>8 DEF Relink, SoloWalk
    <2>2. CASE \E label \in {"markingOk", "markingPending", "reading"} : Goto(w, label)
      <3>1. PICK label \in {"markingOk", "markingPending", "reading"} :
              Moved(w, label) /\ walk'[w].handled = walk[w].handled
        BY <1>2, <2>2
      <3> QED BY <1>1, <2>1, <3>1, TraceFresh
    <2>3. CASE GotoHandled(w, "reading") /\ ~walk[w].draining /\ kg' = kg \cup {walk[w].doc}
      <3>1. Moved(w, "reading") /\ walk'[w].handled = walk[w].handled \cup {walk[w].doc}
        BY <1>3, <2>3
      <3>2. Found(w)
        BY <1>8, <2>3 DEF Relink, Found
      <3>3. ~raced => chunks[walk[w].doc] # NoFile
        BY <1>1, <3>2 DEF SoloWalk
      <3> QED BY <1>1, <2>1, <2>3, <3>1, <3>2, <3>3, TraceFresh
    <2> QED BY <1>8, <2>2, <2>3 DEF Relink, Failed
  <1> QED BY <1>4, <1>5, <1>6, <1>7, <1>8

LEMMA MarkFresh ==
  ASSUME IInv, SoloInv, FreshInv, NEW w \in Walks, MarkOk(w) \/ MarkPending(w) \/ MarkFailed(w)
  PROVE  FreshInv'
  <1>1. /\ TypeOK /\ walk[w].pc \in Marking
        /\ UNCHANGED <<disk, chunks, legal, kg, forget, history>>
    BY DEF IInv, MarkOk, MarkPending, MarkFailed
  <1>2. \E label \in {"draining", "reading"} : Goto(w, label)
    BY DEF MarkOk, MarkPending, MarkFailed, Marked
  <1>3. PICK label \in {"draining", "reading"} :
          Moved(w, label) /\ walk'[w].handled = walk[w].handled
    BY <1>1, <1>2, GotoMoves
  <1> QED BY <1>1, <1>3, TraceFresh

LEMMA DrainFresh ==
  ASSUME IInv, SoloInv, FreshInv, NEW w \in Walks,
         MarkFails(w) \/ EndFiles(w) \/ ListPending(w) \/ TakeFails(w)
           \/ (\E r \in walk[w].backlog : TakeRow(w, r)) \/ EndWalk(w) \/ WalkStops(w)
  PROVE  FreshInv'
  <1>1. /\ TypeOK /\ walk \in [Walks -> WalkType] /\ walk[w] \in WalkType
        /\ walk[w].pc \in Running /\ SoloWalk(w) /\ FreshWalk(w)
        /\ UNCHANGED <<disk, stores, forget, history>>
    BY DEF IInv, TypeOK, SoloInv, FreshInv, MarkFails, EndFiles, ListPending, TakeFails, TakeRow,
         EndWalk, WalkStops
  <1>2. \A v \in Walks : v # w => walk'[v] = walk[v]
    BY <1>1 DEF MarkFails, EndFiles, ListPending, TakeFails, TakeRow, EndWalk, WalkStops, Goto
  <1>3. CASE MarkFails(w) \/ EndFiles(w) \/ ListPending(w) \/ TakeFails(w)
    <2>1. /\ walk'[w].pc \in {"draining", "reading", "listing"}
          /\ walk'[w].todo = walk[w].todo /\ walk'[w].handled = walk[w].handled
      BY <1>1, <1>3 DEF MarkFails, EndFiles, ListPending, TakeFails, WalkType, Goto
    <2>2. FreshWalk(w)'
      BY <1>1, <2>1 DEF FreshWalk, Found, disk, stores, history
    <2> QED BY <1>1, <1>2, <2>1, <2>2, MoveFresh
  <1>4. ASSUME NEW r \in walk[w].backlog, TakeRow(w, r) PROVE FreshInv'
    <2>1. walk[w].draining
      BY <1>1, <1>4 DEF TakeRow, SoloWalk
    <2>2. /\ walk'[w].pc \in {"markingFailed", "rewriting"} /\ walk'[w].draining
          /\ walk'[w].todo = walk[w].todo /\ walk'[w].handled = walk[w].handled
      BY <1>1, <1>4, <2>1 DEF TakeRow, WalkType
    <2>3. FreshWalk(w)'
      BY <1>1, <2>2 DEF FreshWalk, Found, disk, stores, history
    <2> QED BY <1>1, <1>2, <2>2, <2>3, MoveFresh
  <1>5. CASE EndWalk(w) \/ WalkStops(w)
    <2>1. walk'[w].pc \in {"done", "stopped"} /\ walk'[w].handled = {}
      BY <1>1, <1>5 DEF EndWalk, WalkStops, NewWalk
    <2>2. FreshWalk(w)'
      BY <2>1 DEF FreshWalk, Found
    <2> QED BY <1>1, <1>2, <2>1, <2>2, MoveFresh
  <1> QED BY <1>3, <1>4, <1>5

LEMMA ForgetFresh ==
  ASSUME IInv, SoloInv, FreshInv, NEW f \in Forgets, ForgetStep(f)
  PROVE  FreshInv'
  <1>1. /\ UNCHANGED <<file, past, walk, superseded>> /\ (raced => raced')
        /\ \A d \in Docs : chunks'[d] = chunks[d] \/ chunks'[d] = NoFile
        /\ \A w \in Walks : walk[w].pc \in Running => raced'
    BY ForgetTakes
  <1>2. TypeOK /\ forget \in [Forgets -> ForgetType] /\ kg \subseteq Docs
    BY DEF IInv, TypeOK
  <1>3. \A w \in Walks : walk[w].pc \in HasDoc => walk[w].doc \in Docs
    BY <1>2, DocAtHand
  <1>4. Seen'
    BY <1>1, <1>3 DEF FreshInv, Seen
  <1>5. ASSUME ~raced', ~cut', \A g \in Forgets : forget'[g].pc \notin Forgetting
        PROVE  \A d \in kg' : chunks'[d] # NoFile => d \in legal'
    <2>1. EndForget(f)
      BY <1>2, <1>5 DEF ForgetStep, FindDocs, DropLegal, DropGraph, DropStatus, FindPaths, DropPath,
           ForgetFails, Forgetting, ForgetType
    <2>2. ~raced /\ forget[f].pc = "rows" /\ chunks' = chunks /\ kg' = kg
      BY <1>5, <2>1 DEF EndForget, stores, history
    <2>3. \A d \in Docs : chunks[d] # NoFile => d \notin kg
      BY <2>2 DEF IInv, GoodForget, Forgetting, Clean
    <2> QED BY <1>2, <2>2, <2>3
  <1>6. FreshStores'
    BY <1>1, <1>2, <1>5, DocParts DEF FreshInv, FreshStores, TypeOK
  <1>7. ASSUME NEW w \in Walks PROVE FreshWalk(w)'
    <2>1. FreshWalk(w)
      BY DEF FreshInv
    <2> QED BY <1>1, <1>3, <2>1 DEF FreshWalk, Found
  <1> QED BY <1>4, <1>6, <1>7 DEF FreshInv

LEMMA NextFresh ==
  ASSUME IInv, SoloInv, FreshInv, ~Overlap, ~Reuse, [Next]_vars
  PROVE  FreshInv'
  <1>1. CASE UNCHANGED vars
    BY <1>1 DEF vars, FreshInv, Seen, FreshStores, FreshWalk, Found
  <1>2. ASSUME NEW p \in Paths, (\E v \in Contents : Edit(p, v)) \/ Delete(p) PROVE FreshInv'
    BY <1>2, DiskFresh
  <1>3. ASSUME NEW w \in Walks, WalkStep(w) PROVE FreshInv'
    BY <1>3, StartFresh, ReadFresh, IngestFresh, EnrichFresh, MarkFresh, DrainFresh DEF WalkStep
  <1>4. ASSUME NEW f \in Forgets, ForgetStep(f) PROVE FreshInv'
    BY <1>4, ForgetFresh
  <1> QED BY <1>1, <1>2, <1>3, <1>4 DEF Next

\* pipeline.rs 428-434, 772-802: a walk that ends leaves every document no call failed on
\* indexed, enriched and in the graph, and where the file is still what it was the chunks
\* hold its text.  For walks of a corpus that do not overlap.
THEOREM WalkIndexesHolds ==
  ASSUME ~Overlap
  PROVE  Spec => WalkIndexes
  <1> DEFINE Inv == IInv /\ SoloInv /\ (~Reuse => FreshInv)
  <1>1. Init => Inv
    BY InitIInv, InitSolo, InitFresh
  <1>2. Inv /\ [Next]_vars => Inv'
    BY NextIInv, NextSolo, NextFresh
  <1>3. Inv /\ [Next]_vars =>
          [\A w \in Walks :
             /\ walk[w].pc = "draining" /\ walk'[w].pc = "done"
             /\ ~Reuse /\ ~raced /\ ~cut
             => \A d \in walk[w].handled :
                  /\ d \in legal \cap kg
                  /\ chunks[d] # NoFile
                  /\ file[PathOf(d)] = ContentOf(d) => chunks[d] = ContentOf(d)]_vars
    <2> SUFFICES ASSUME Inv, NEW w \in Walks, walk[w].pc = "draining", ~Reuse, ~raced, ~cut,
                        NEW d \in walk[w].handled
                 PROVE  /\ d \in legal \cap kg
                        /\ chunks[d] # NoFile
                        /\ file[PathOf(d)] = ContentOf(d) => chunks[d] = ContentOf(d)
      OBVIOUS
    <2>1. d \in legal \cap kg /\ chunks[d] # NoFile
      BY DEF FreshInv, FreshWalk
    <2>2. d \in Docs
      BY <2>1 DEF IInv, TypeOK
    <2> QED BY <2>1, <2>2 DEF FreshInv, FreshStores
  <1> HIDE DEF Inv
  <1> QED BY <1>1, <1>2, <1>3, PTL DEF Spec, WalkIndexes
=============================================================================
