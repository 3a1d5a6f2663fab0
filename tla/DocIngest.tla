----------------------------- MODULE DocIngest -----------------------------
(***************************************************************************)
(* The document pipeline of one corpus: the walk that brings the files of  *)
(* a folder into the chunk table, the legal enrichment table and the       *)
(* knowledge graph, the recovery of what an earlier walk left unfinished,  *)
(* the backlog of failed enrichments, and forgetting the folder.           *)
(*                                                                         *)
(* The four stores have no transaction in common.  Each call of a store is *)
(* a step: it may fail, and the process may stop before the next one.      *)
(* Files are edited and deleted underneath.                                *)
(*                                                                         *)
(* In a corpus a document is a path and a content: scoped_doc_uuid hashes  *)
(* the corpus, the relative path and the hash of the bytes.  A content     *)
(* stands for its hash and for the text extracted from it.                 *)
(***************************************************************************)
EXTENDS Integers, FiniteSets

CONSTANTS
  Paths,        \* the supported files of the folder, numbered in path order
  Contents,     \* the contents a file can have
  Walks,        \* ids of calls of ingest_folder_with_scope
  Forgets,      \* ids of calls of forget_folder_path on the folder
  MaxAttempts,  \* attempts after which the backlog gives a document up (5)
  DrainMax,     \* rows of the backlog that one walk takes (64)
  Overlap,      \* TRUE when a walk may start while another one runs
  Reuse,        \* TRUE when a file may get a content back that it had before
  NoFile, NoDoc

Docs == Paths \X Contents
PathOf(d) == d[1]
ContentOf(d) == d[2]

ASSUME PathsAssumption == Paths \subseteq Nat
ASSUME BoundsAssumption == MaxAttempts \in Nat \ {0} /\ DrainMax \in Nat
ASSUME ModeAssumption == Overlap \in BOOLEAN /\ Reuse \in BOOLEAN
ASSUME NullAssumption == NoFile \notin Contents /\ NoDoc \notin Docs

VARIABLES
  file,        \* file[p]: the content of p on disk, or NoFile
  past,        \* past[p]: the contents p has had
  chunks,      \* chunks[d]: the text in the chunk rows of d, or NoFile without rows
  legal,       \* the documents with rows in legal_chunk_enrichment
  kg,          \* the documents with nodes in the knowledge graph
  status,      \* the rows of the enrichment status table
  walk,        \* walk[w]: the state of a walk
  forget,      \* forget[f]: the state of a forget call
  superseded,  \* history: documents whose rows gave way to a newer content
  raced,       \* history: a walk and a forget call have run at the same time
  cut          \* history: a forget call broke off

disk == <<file, past>>
stores == <<chunks, legal, kg, status>>
history == <<superseded, raced, cut>>
vars == <<file, past, chunks, legal, kg, status, walk, forget, superseded, raced, cut>>

-----------------------------------------------------------------------------
\* The state of a walk.  doc: the document at hand; text: what was extracted for it;
\* backlog: status rows still to be drained; draining: the files are done.  History, in
\* handled: the documents no call failed on.
NewWalk == [pc |-> "idle", todo |-> {}, doc |-> NoDoc, text |-> NoFile, backlog |-> {},
            draining |-> FALSE, handled |-> {}]

NewForget == [pc |-> "idle", todo |-> {}, doc |-> NoDoc, paths |-> {}]

Ingesting == {"checking", "extracting", "deleting", "inserting"}
Enriching == {"enriching", "linking"}
Healing == {"probing", "loading", "rewriting", "relinking"}
Marking == {"markingOk", "markingPending", "markingFailed"}
Running == {"reading", "listing", "draining"} \cup Ingesting \cup Enriching \cup Healing \cup Marking

Forgetting == {"legal", "graph", "status", "rows"}

Row(d, kind, attempts) == [doc |-> d, kind |-> kind, attempts |-> attempts]

Init ==
  /\ file = [p \in Paths |-> NoFile]
  /\ past = [p \in Paths |-> {}]
  /\ chunks = [d \in Docs |-> NoFile]
  /\ legal = {} /\ kg = {} /\ status = {}
  /\ walk = [w \in Walks |-> NewWalk]
  /\ forget = [f \in Forgets |-> NewForget]
  /\ superseded = {} /\ raced = FALSE /\ cut = FALSE

-----------------------------------------------------------------------------
(* The folder.                                                              *)

Edit(p, v) ==
  /\ v # file[p]
  /\ v \in past[p] => Reuse
  /\ file' = [file EXCEPT ![p] = v]
  /\ past' = [past EXCEPT ![p] = @ \cup {v}]
  /\ UNCHANGED <<stores, walk, forget, history>>

Delete(p) ==
  /\ file[p] # NoFile
  /\ file' = [file EXCEPT ![p] = NoFile]
  /\ UNCHANGED <<past, stores, walk, forget, history>>

-----------------------------------------------------------------------------
(* The walk over the files.                                                 *)

Goto(w, label) == walk' = [walk EXCEPT ![w].pc = label]
GotoHandled(w, label) ==
  walk' = [walk EXCEPT ![w].pc = label, ![w].handled = @ \cup {walk[w].doc}]

StartWalk(w) ==
  /\ walk[w].pc = "idle"
  /\ \A v \in Walks : walk[v].pc \in Running => Overlap
  /\ walk' = [walk EXCEPT ![w] = [NewWalk EXCEPT !.pc = "reading",
                                   !.todo = {p \in Paths : file[p] # NoFile}]]
  /\ raced' = (raced \/ \E f \in Forgets : forget[f].pc \in Forgetting)
  /\ UNCHANGED <<disk, stores, forget, superseded, cut>>

IsNext(w, p) == p \in walk[w].todo /\ \A q \in walk[w].todo : p <= q

\* Variant with a bug: a file that is gone since it was listed is read as empty.
ReadFileGone(w, p) ==
  /\ walk[w].pc = "reading" /\ IsNext(w, p)
  /\ walk' = [walk EXCEPT ![w].pc = "checking", ![w].todo = @ \ {p},
                          ![w].doc = <<p, file[p]>>]
  /\ UNCHANGED <<disk, stores, forget, history>>

\* The bytes are read and name the document.
ReadFile(w, p) ==
  /\ walk[w].pc = "reading" /\ IsNext(w, p)
  /\ file[p] # NoFile
  /\ walk' = [walk EXCEPT ![w].pc = "checking", ![w].todo = @ \ {p},
                          ![w].doc = <<p, file[p]>>]
  /\ UNCHANGED <<disk, stores, forget, history>>

ReadFails(w, p) ==
  /\ walk[w].pc = "reading" /\ IsNext(w, p)
  /\ walk' = [walk EXCEPT ![w].todo = @ \ {p}]
  /\ UNCHANGED <<disk, stores, forget, history>>

\* doc_exists: any chunk row of the document.
Check(w) ==
  /\ walk[w].pc = "checking"
  /\ Goto(w, IF chunks[walk[w].doc] = NoFile THEN "extracting" ELSE "probing")
  /\ UNCHANGED <<disk, stores, forget, history>>

\* The file is read once more for its text, which is pseudonymized and embedded.
Extract(w) ==
  /\ walk[w].pc = "extracting"
  /\ file[PathOf(walk[w].doc)] # NoFile
  /\ walk' = [walk EXCEPT ![w].pc = "deleting", ![w].text = file[PathOf(walk[w].doc)]]
  /\ UNCHANGED <<disk, stores, forget, history>>

\* Nothing to index in it, or it waits for OCR.
NotIndexable(w) ==
  /\ walk[w].pc = "extracting"
  /\ Goto(w, "reading")
  /\ UNCHANGED <<disk, stores, forget, history>>

\* Up to the insert of its chunks an error gives the file up, and the walk goes on.
FileFails(w) ==
  /\ walk[w].pc \in Ingesting
  /\ Goto(w, "reading")
  /\ UNCHANGED <<disk, stores, forget, history>>

Indexed(p) == {d \in Docs : PathOf(d) = p /\ chunks[d] # NoFile}

\* Variant with a bug: the rows are deleted by document, and there are none.
DeleteRowsOfDoc(w) ==
  /\ walk[w].pc = "deleting"
  /\ chunks' = [chunks EXCEPT ![walk[w].doc] = NoFile]
  /\ Goto(w, "inserting")
  /\ UNCHANGED <<disk, legal, kg, status, forget, history>>

\* delete_doc_rows: every chunk row of the path, whatever its document.
DeleteRows(w) ==
  /\ walk[w].pc = "deleting"
  /\ LET old == Indexed(PathOf(walk[w].doc)) IN
     /\ chunks' = [d \in Docs |-> IF d \in old THEN NoFile ELSE chunks[d]]
     /\ superseded' = superseded \cup old
  /\ Goto(w, "inserting")
  /\ UNCHANGED <<disk, legal, kg, status, forget, raced, cut>>

InsertRows(w) ==
  /\ walk[w].pc = "inserting"
  /\ chunks' = [chunks EXCEPT ![walk[w].doc] = walk[w].text]
  /\ superseded' = superseded \ {walk[w].doc}
  /\ Goto(w, "enriching")
  /\ UNCHANGED <<disk, legal, kg, status, forget, raced, cut>>

\* The enrichment rows: a failure puts the document on the backlog, and the graph is
\* not written.
Enrich(w) ==
  /\ walk[w].pc = "enriching"
  /\ \/ legal' = legal \cup {walk[w].doc} /\ Goto(w, "linking")
     \/ Goto(w, "markingPending") /\ UNCHANGED legal
  /\ UNCHANGED <<disk, chunks, kg, status, forget, history>>

\* The graph, one SQLite transaction.
Link(w) ==
  /\ walk[w].pc = "linking"
  /\ \/ kg' = kg \cup {walk[w].doc} /\ GotoHandled(w, "markingOk")
     \/ Goto(w, "markingPending") /\ UNCHANGED kg
  /\ UNCHANGED <<disk, chunks, legal, status, forget, history>>

-----------------------------------------------------------------------------
(* Recovery of a document that is indexed already.                          *)

\* Variant with a bug: what has chunks is taken to be enriched.
ProbeTrusting(w) ==
  /\ walk[w].pc = "probing"
  /\ GotoHandled(w, "reading")
  /\ UNCHANGED <<disk, stores, forget, history>>

\* document_has_kg_nodes.
Probe(w) ==
  /\ walk[w].pc = "probing"
  /\ \/ walk[w].doc \in kg /\ GotoHandled(w, "reading")
     \/ walk[w].doc \notin kg /\ Goto(w, "loading")
     \/ Goto(w, "reading")
  /\ UNCHANGED <<disk, stores, forget, history>>

\* chunks_by_doc: a document that lost its chunks meanwhile is left alone.
Load(w) ==
  /\ walk[w].pc = "loading"
  /\ \/ chunks[walk[w].doc] # NoFile /\ Goto(w, "rewriting")
     \/ chunks[walk[w].doc] = NoFile /\ GotoHandled(w, "reading")
     \/ Goto(w, "reading")
  /\ UNCHANGED <<disk, stores, forget, history>>

-----------------------------------------------------------------------------
(* reenrich_doc, for the recovery and for the backlog.                      *)

\* What a failure of reenrich_doc leads to.
Failed(w) == Goto(w, IF walk[w].draining THEN "markingPending" ELSE "reading")

\* text holds the chunks that were loaded; without any there is no row to append.
Rewrite(w) ==
  /\ walk[w].pc = "rewriting"
  /\ \/ /\ legal' = IF walk[w].draining /\ walk[w].text = NoFile
                      THEN legal ELSE legal \cup {walk[w].doc}
        /\ Goto(w, "relinking")
     \/ Failed(w) /\ UNCHANGED legal
  /\ UNCHANGED <<disk, chunks, kg, status, forget, history>>

\* The node of the document is written even when it has no chunk.
Relink(w) ==
  /\ walk[w].pc = "relinking"
  /\ \/ /\ kg' = kg \cup {walk[w].doc}
        /\ IF walk[w].draining THEN Goto(w, "markingOk") ELSE GotoHandled(w, "reading")
     \/ Failed(w) /\ UNCHANGED kg
  /\ UNCHANGED <<disk, chunks, legal, status, forget, history>>

-----------------------------------------------------------------------------
(* The status table.  Every mark appends a row; attempts() returns the      *)
(* count of any one row of the document.  Rows that are equal but for their *)
(* time count once, and the read and the append are one step: only the      *)
(* count depends on what comes in between.                                  *)

Attempts(d) == LET known == {r.attempts : r \in {s \in status : s.doc = d}} IN
               IF known = {} THEN {0} ELSE known

\* After a mark a file has had its turn, and the backlog goes on with its next row.
\* An error is ignored for a file and ends the backlog.
Marked(w) == Goto(w, IF walk[w].draining THEN "draining" ELSE "reading")

MarkFails(w) ==
  /\ walk[w].pc \in Marking
  /\ walk' = [walk EXCEPT ![w].pc = IF walk[w].draining THEN "draining" ELSE "reading",
                          ![w].backlog = {}]
  /\ UNCHANGED <<disk, stores, forget, history>>

MarkOk(w) ==
  /\ walk[w].pc = "markingOk"
  /\ \E n \in Attempts(walk[w].doc) : status' = status \cup {Row(walk[w].doc, "ok", n)}
  /\ Marked(w)
  /\ UNCHANGED <<disk, chunks, legal, kg, forget, history>>

MarkPending(w) ==
  /\ walk[w].pc = "markingPending"
  /\ \E n \in Attempts(walk[w].doc) : status' = status \cup {Row(walk[w].doc, "pending", n + 1)}
  /\ Marked(w)
  /\ UNCHANGED <<disk, chunks, legal, kg, forget, history>>

MarkFailed(w) ==
  /\ walk[w].pc = "markingFailed"
  /\ \E n \in Attempts(walk[w].doc) : status' = status \cup {Row(walk[w].doc, "failed", n)}
  /\ Marked(w)
  /\ UNCHANGED <<disk, chunks, legal, kg, forget, history>>

-----------------------------------------------------------------------------
(* The backlog, when the files are done.                                    *)

EndFiles(w) ==
  /\ walk[w].pc = "reading" /\ walk[w].todo = {}
  /\ walk' = [walk EXCEPT ![w].pc = "listing", ![w].draining = TRUE]
  /\ UNCHANGED <<disk, stores, forget, history>>

\* list_pending: rows that say pending, DrainMax of them at most.
ListPending(w) ==
  /\ walk[w].pc = "listing"
  /\ LET pending == {r \in status : r.kind = "pending"} IN
     \/ \E rows \in SUBSET pending :
          /\ rows = pending \/ Cardinality(rows) = DrainMax
          /\ Cardinality(rows) <= DrainMax
          /\ walk' = [walk EXCEPT ![w].pc = "draining", ![w].backlog = rows]
     \/ Goto(w, "draining")
  /\ UNCHANGED <<disk, stores, forget, history>>

\* One row: too many attempts, or its chunks are loaded; an error ends the backlog.
TakeRow(w, r) ==
  /\ walk[w].pc = "draining" /\ r \in walk[w].backlog
  /\ walk' = [walk EXCEPT ![w].backlog = @ \ {r}, ![w].doc = r.doc, ![w].text = chunks[r.doc],
       ![w].pc = IF r.attempts >= MaxAttempts THEN "markingFailed" ELSE "rewriting"]
  /\ UNCHANGED <<disk, stores, forget, history>>

TakeFails(w) ==
  /\ walk[w].pc = "draining" /\ walk[w].backlog # {}
  /\ walk' = [walk EXCEPT ![w].backlog = {}]
  /\ UNCHANGED <<disk, stores, forget, history>>

\* Index maintenance and compaction follow, which leave the rows as they are.
EndWalk(w) ==
  /\ walk[w].pc = "draining" /\ walk[w].backlog = {}
  /\ walk' = [walk EXCEPT ![w] = [NewWalk EXCEPT !.pc = "done"]]
  /\ UNCHANGED <<disk, stores, forget, history>>

\* The process stops.
WalkStops(w) ==
  /\ walk[w].pc \in Running
  /\ walk' = [walk EXCEPT ![w] = [NewWalk EXCEPT !.pc = "stopped"]]
  /\ UNCHANGED <<disk, stores, forget, history>>

-----------------------------------------------------------------------------
(* forget_folder_path.                                                      *)

\* doc_ids_for_source_subtree finds the documents by their chunk rows.
FindDocs(f) ==
  /\ forget[f].pc = "idle"
  /\ forget' = [forget EXCEPT ![f].pc = "legal", ![f].todo = {d \in Docs : chunks[d] # NoFile}]
  /\ raced' = (raced \/ \E w \in Walks : walk[w].pc \in Running)
  /\ UNCHANGED <<disk, stores, walk, superseded, cut>>

DropLegal(f, d) ==
  /\ forget[f].pc = "legal" /\ d \in forget[f].todo
  /\ legal' = legal \ {d}
  /\ forget' = [forget EXCEPT ![f].pc = "graph", ![f].doc = d]
  /\ UNCHANGED <<disk, chunks, kg, status, walk, history>>

DropGraph(f) ==
  /\ forget[f].pc = "graph"
  /\ kg' = kg \ {forget[f].doc}
  /\ forget' = [forget EXCEPT ![f].pc = "status"]
  /\ UNCHANGED <<disk, chunks, legal, status, walk, history>>

DropStatus(f) ==
  /\ forget[f].pc = "status"
  /\ status' = {r \in status : r.doc # forget[f].doc}
  /\ forget' = [forget EXCEPT ![f].pc = "legal", ![f].todo = @ \ {forget[f].doc}]
  /\ UNCHANGED <<disk, chunks, legal, kg, walk, history>>

\* Variant with a bug: the chunk rows are looked up and deleted before the rest.
FindPathsFirst(f) ==
  /\ forget[f].pc = "legal"
  /\ forget' = [forget EXCEPT ![f].pc = "rows",
                              ![f].paths = {p \in Paths : Indexed(p) # {}}]
  /\ UNCHANGED <<disk, stores, walk, history>>

\* delete_folder_rows looks the paths up again and deletes them one by one.
FindPaths(f) ==
  /\ forget[f].pc = "legal" /\ forget[f].todo = {}
  /\ forget' = [forget EXCEPT ![f].pc = "rows",
                              ![f].paths = {p \in Paths : Indexed(p) # {}}]
  /\ UNCHANGED <<disk, stores, walk, history>>

DropPath(f, p) ==
  /\ forget[f].pc = "rows" /\ p \in forget[f].paths
  /\ chunks' = [d \in Docs |-> IF PathOf(d) = p THEN NoFile ELSE chunks[d]]
  /\ forget' = [forget EXCEPT ![f].paths = @ \ {p}]
  /\ UNCHANGED <<disk, legal, kg, status, walk, history>>

EndForget(f) ==
  /\ forget[f].pc = "rows" /\ forget[f].paths = {}
  /\ forget' = [forget EXCEPT ![f] = [NewForget EXCEPT !.pc = "done"]]
  /\ UNCHANGED <<disk, stores, walk, history>>

\* A deletion fails, or the process stops: what is left is left.
ForgetFails(f) ==
  /\ forget[f].pc \in Forgetting
  /\ forget' = [forget EXCEPT ![f] = [NewForget EXCEPT !.pc = "failed"]]
  /\ cut' = TRUE
  /\ UNCHANGED <<disk, stores, walk, superseded, raced>>

-----------------------------------------------------------------------------
WalkStep(w) ==
  \/ StartWalk(w)
  \/ \E p \in Paths : ReadFile(w, p) \/ ReadFails(w, p)
  \/ Check(w) \/ Extract(w) \/ NotIndexable(w) \/ FileFails(w)
  \/ DeleteRows(w) \/ InsertRows(w) \/ Enrich(w) \/ Link(w)
  \/ Probe(w) \/ Load(w) \/ Rewrite(w) \/ Relink(w)
  \/ MarkOk(w) \/ MarkPending(w) \/ MarkFailed(w) \/ MarkFails(w)
  \/ EndFiles(w) \/ ListPending(w) \/ TakeFails(w)
  \/ \E r \in walk[w].backlog : TakeRow(w, r)
  \/ EndWalk(w) \/ WalkStops(w)

ForgetStep(f) ==
  \/ FindDocs(f) \/ (\E d \in Docs : DropLegal(f, d)) \/ DropGraph(f) \/ DropStatus(f)
  \/ FindPaths(f) \/ (\E p \in Paths : DropPath(f, p)) \/ EndForget(f) \/ ForgetFails(f)

Next ==
  \/ \E p \in Paths : (\E v \in Contents : Edit(p, v)) \/ Delete(p)
  \/ \E w \in Walks : WalkStep(w)
  \/ \E f \in Forgets : ForgetStep(f)

Spec == Init /\ [][Next]_vars
-----------------------------------------------------------------------------
(* Properties.                                                              *)

RowType == [doc : Docs, kind : {"ok", "pending", "failed"}, attempts : Nat]

WalkType ==
  [pc : {"idle", "done", "stopped"} \cup Running, todo : SUBSET Paths,
   doc : Docs \cup {NoDoc}, text : Contents \cup {NoFile}, backlog : SUBSET RowType,
   draining : BOOLEAN, handled : SUBSET Docs]

ForgetType ==
  [pc : {"idle", "done", "failed"} \cup Forgetting, todo : SUBSET Docs,
   doc : Docs \cup {NoDoc}, paths : SUBSET Paths]

TypeOK ==
  /\ file \in [Paths -> Contents \cup {NoFile}]
  /\ past \in [Paths -> SUBSET Contents]
  /\ chunks \in [Docs -> Contents \cup {NoFile}]
  /\ legal \subseteq Docs /\ kg \subseteq Docs /\ superseded \subseteq Docs
  /\ status \subseteq RowType
  /\ walk \in [Walks -> WalkType]
  /\ forget \in [Forgets -> ForgetType]
  /\ raced \in BOOLEAN /\ cut \in BOOLEAN
  /\ \A w \in Walks :
       walk[w].pc \in Ingesting \cup Enriching \cup Healing \cup Marking => walk[w].doc # NoDoc
  /\ \A f \in Forgets : forget[f].pc \in {"graph", "status"} => forget[f].doc # NoDoc

\* The chunk table never holds two contents of one file, whatever walks and forget calls
\* broke off: a search that returned both would cite a text that is no longer there
\* (pipeline.rs 513-516).  For walks of a corpus that do not overlap.
OneDocPerPath ==
  \A d, e \in Docs : PathOf(d) = PathOf(e) /\ chunks[d] # NoFile /\ chunks[e] # NoFile => d = e

\* Enrichment rows and graph nodes without chunks belong to a superseded content, unless a
\* walk ran beside a forget call: a forget call that broke off left the chunk rows, so
\* that the next one finds every document there is to forget (legal_maintenance.rs 69-91).
RetryFindsAll ==
  \A d \in legal \cup kg : chunks[d] # NoFile \/ d \in superseded \/ raced

\* A walk that ends has every document no call failed on indexed with its enrichment and
\* its nodes, whatever earlier walks failed to write or were stopped before, and the
\* chunks show the file if it still is what it was when it was read (pipeline.rs 428-434,
\* 772-802).  Where files do not go back to an earlier content, and not after forget
\* calls that broke off or raced.
WalkIndexes ==
  [][\A w \in Walks :
       /\ walk[w].pc = "draining" /\ walk'[w].pc = "done"
       /\ ~Reuse /\ ~raced /\ ~cut
       => \A d \in walk[w].handled :
            /\ d \in legal \cap kg
            /\ chunks[d] # NoFile
            /\ file[PathOf(d)] = ContentOf(d) => chunks[d] = ContentOf(d)]_vars
=============================================================================
