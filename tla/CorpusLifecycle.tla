-------------------------- MODULE CorpusLifecycle --------------------------
(***************************************************************************)
(* One corpus, from the index call that registers its root to the forget   *)
(* call that removes it.  What belongs to the corpus lies in three stores  *)
(* with no transaction in common: the knowledge store, the legal chunks    *)
(* and the tables of the reviews.  The registry says where: bindings and   *)
(* the ids of documents.  A forget call reads the registry, empties the    *)
(* stores one call after the other and at last deletes the registry's      *)
(* rows, unless one of its calls has failed: then it may be called again.  *)
(*                                                                         *)
(* Index calls, their walks in the background, reviews being created or    *)
(* filled and forget calls interleave between their calls of the stores;   *)
(* each of these calls may fail, and the server may stop.  The steps of a  *)
(* sync, a walk and an extraction are those of KnowledgeSync, DocIngest    *)
(* and ReviewCells; here they only add to a store.  IngestJobs admits one  *)
(* walk of a corpus at a time.  register_root refuses roots that overlap,  *)
(* so one corpus is enough.  A definition that another one precedes with   *)
(* the comment "Mutant" is what a run of the mutant replaces.              *)
(***************************************************************************)
EXTENDS Naturals, FiniteSets

CONSTANTS
  Files,     \* the files of the folder, each with one document
  TopFiles,  \* those that lie in the folder itself, not in a folder below it
  Reviews,   \* ids of reviews
  Indexers,  \* ids of index calls
  Forgets,   \* ids of forget calls
  MaxActive, \* bound on the operations under way at once
  NoReview

ASSUME TopFilesAssumption == TopFiles \subseteq Files
ASSUME MaxActiveAssumption == MaxActive \in Nat
ASSUME NoReviewAssumption == NoReview \notin Reviews

VARIABLES
  registry,  \* the rows of the corpus in the registry
  source,    \* the knowledge store has the folder as a source
  objects,   \* the knowledge store has objects of the folder
  legal,     \* the files whose chunks are stored
  parts,     \* parts[r]: the tables with rows of the review r
  index,     \* index[i]: the state of an index call
  walk,      \* the background walk
  review,    \* review[r]: the state of the review r
  forget,    \* forget[f]: the state of a forget call
  last       \* history: how the forget call ran that has deleted the registry's rows

stores == <<source, objects, legal, parts>>
writers == <<index, walk, review>>
vars == <<registry, source, objects, legal, parts, index, walk, review, forget, last>>

-----------------------------------------------------------------------------
NoRegistry == [corpus |-> FALSE, source |-> FALSE, folder |-> FALSE, docs |-> {}, reviews |-> {}]

Parts == {"cells", "rows", "columns", "review"}

\* The order in which a forget call empties the tables of a review.
NextPart == [p \in {"cells", "rows", "columns"} |->
               IF p = "cells" THEN "rows" ELSE IF p = "rows" THEN "columns" ELSE "review"]

NewIndex == [pc |-> "idle", legal |-> FALSE]
NewWalk == [pc |-> "idle", todo |-> {}, found |-> {}]

\* alone: no writer has run beside the call; whole: and all was registered at its start.
NewForget == [pc |-> "idle", source |-> FALSE, folder |-> FALSE, docs |-> {}, reviews |-> {},
              at |-> NoReview, failed |-> FALSE, alone |-> FALSE, whole |-> FALSE]

NotForgotten == [alone |-> FALSE, whole |-> FALSE]

Init ==
  /\ registry = NoRegistry
  /\ source = FALSE /\ objects = FALSE /\ legal = {}
  /\ parts = [r \in Reviews |-> {}]
  /\ index = [i \in Indexers |-> NewIndex]
  /\ walk = NewWalk
  /\ review = [r \in Reviews |-> [pc |-> "new", owned |-> FALSE]]
  /\ forget = [f \in Forgets |-> NewForget]
  /\ last = NotForgotten

Creating == {"header", "columns", "bind", "undo columns", "undo header"}
Filling == {"rows", "extract", "cells"}

AtWork(r) == review[r].pc \in Creating \cup Filling

Active == Cardinality({i \in Indexers : index[i].pc # "idle"}) + (IF walk.pc = "idle" THEN 0 ELSE 1)
          + Cardinality({r \in Reviews : AtWork(r)})
          + Cardinality({f \in Forgets : forget[f].pc # "idle"})

\* Something that writes for the corpus is under way.
Busy ==
  \/ \E i \in Indexers : index[i].pc # "idle"
  \/ walk.pc # "idle"
  \/ \E r \in Reviews : review[r].owned /\ AtWork(r)

\* All there is of the corpus can be found from the registry.
AllRegistered ==
  /\ source => registry.source
  /\ objects => source
  /\ legal \subseteq registry.docs
  /\ \A r \in Reviews : review[r].owned /\ parts[r] # {} => r \in registry.reviews

\* A writer starts: the forget calls under way no longer run alone.
Disturbed == [f \in Forgets |-> IF forget[f].pc = "idle" THEN forget[f]
                                ELSE [forget[f] EXCEPT !.alone = FALSE, !.whole = FALSE]]

-----------------------------------------------------------------------------
(* An index call.                                                           *)

AfterKnowledge(i) == IF index[i].legal THEN [index[i] EXCEPT !.pc = "ingest"] ELSE NewIndex

IndexStarts(i, profile) ==
  /\ index[i].pc = "idle" /\ Active < MaxActive
  /\ registry' = [registry EXCEPT !.corpus = TRUE]
  /\ index' = [index EXCEPT ![i] = [pc |-> IF profile = "legal" THEN "ingest" ELSE "add",
                                    legal |-> profile # "general"]]
  /\ forget' = Disturbed
  /\ last' = NotForgotten
  /\ UNCHANGED <<stores, walk, review>>

\* The folder becomes a source of the knowledge store.
IndexAdds(i) ==
  /\ index[i].pc = "add"
  /\ \/ source' = TRUE /\ index' = [index EXCEPT ![i].pc = "bind"]
     \/ UNCHANGED source /\ index' = [index EXCEPT ![i] = AfterKnowledge(i)]
  /\ UNCHANGED <<registry, objects, legal, parts, walk, review, forget, last>>

\* Mutant: the binding is added whether or not the corpus is there.
IndexBindsBlindly(i) ==
  /\ index[i].pc = "bind"
  /\ registry' \in {registry, [registry EXCEPT !.source = TRUE]}
  /\ index' = [index EXCEPT ![i].pc = "sync"]
  /\ UNCHANGED <<stores, walk, review, forget, last>>

\* A binding that cannot be added is an error of the answer; the call goes on.
IndexBinds(i) ==
  /\ index[i].pc = "bind"
  /\ \/ registry.corpus /\ registry' = [registry EXCEPT !.source = TRUE]
     \/ UNCHANGED registry
  /\ index' = [index EXCEPT ![i].pc = "sync"]
  /\ UNCHANGED <<stores, walk, review, forget, last>>

\* The sync looks its source up; without one it has nothing to do.
IndexSyncs(i) ==
  /\ index[i].pc = "sync"
  /\ index' = [index EXCEPT ![i] = IF source THEN [@ EXCEPT !.pc = "commit"] ELSE AfterKnowledge(i)]
  /\ UNCHANGED <<registry, stores, walk, review, forget, last>>

\* Objects have no foreign key to their source.
IndexCommits(i) ==
  /\ index[i].pc = "commit"
  /\ objects' \in {objects, TRUE}
  /\ index' = [index EXCEPT ![i] = AfterKnowledge(i)]
  /\ UNCHANGED <<registry, source, legal, parts, walk, review, forget, last>>

\* The walk is spawned and not awaited; one that runs already is left alone.
IndexIngests(i) ==
  /\ index[i].pc = "ingest"
  /\ index' = [index EXCEPT ![i] = NewIndex]
  /\ walk' \in {walk} \cup (IF walk.pc = "idle"
                            THEN {[pc |-> "walking", todo |-> Files, found |-> {}]} ELSE {})
  /\ UNCHANGED <<registry, stores, review, forget, last>>

-----------------------------------------------------------------------------
(* The background walk.                                                     *)

\* A document is stored now, or was before.
WalkTakes(d) ==
  /\ walk.pc = "walking" /\ d \in walk.todo
  /\ legal' = legal \cup {d}
  /\ walk' = [walk EXCEPT !.todo = @ \ {d}, !.found = @ \cup {d}]
  /\ UNCHANGED <<registry, source, objects, parts, index, review, forget, last>>

\* A document is skipped, or its ingestion fails, after its chunks were stored or before.
WalkMisses(d) ==
  /\ walk.pc = "walking" /\ d \in walk.todo
  /\ legal' \in {legal, legal \cup {d}}
  /\ walk' = [walk EXCEPT !.todo = @ \ {d}]
  /\ UNCHANGED <<registry, source, objects, parts, index, review, forget, last>>

\* The walk is over.  Errors of the registry are ignored.
WalkBinds ==
  /\ walk.pc = "walking" /\ walk.todo = {}
  /\ \/ /\ registry.corpus
        /\ registry' = [registry EXCEPT !.folder = TRUE]
     \/ UNCHANGED registry
  /\ walk' = [walk EXCEPT !.pc = IF walk.found = {} THEN "idle" ELSE "adding"]
  /\ UNCHANGED <<stores, index, review, forget, last>>

WalkAdds(d) ==
  /\ walk.pc = "adding" /\ d \in walk.found
  /\ \/ registry.corpus /\ registry' = [registry EXCEPT !.docs = @ \cup {d}]
     \/ UNCHANGED registry
  /\ walk' = [walk EXCEPT !.found = @ \ {d}, !.pc = IF walk.found = {d} THEN "idle" ELSE "adding"]
  /\ UNCHANGED <<stores, index, review, forget, last>>

\* The registry cannot be opened: nothing of the walk is registered.
WalkEndsUnregistered ==
  /\ walk.pc = "walking" /\ walk.todo = {}
  /\ walk' = NewWalk
  /\ UNCHANGED <<registry, stores, index, review, forget, last>>

-----------------------------------------------------------------------------
(* A review.                                                                *)

\* With a corpus registered the review belongs to it, without one to none.
CreateStarts(r) ==
  /\ review[r].pc = "new" /\ Active < MaxActive
  /\ review' = [review EXCEPT ![r] = [pc |-> "header", owned |-> registry.corpus]]
  /\ forget' = IF registry.corpus THEN Disturbed ELSE forget
  /\ UNCHANGED <<registry, stores, index, walk, last>>

CreateStoresHeader(r) ==
  /\ review[r].pc = "header"
  /\ \/ parts' = [parts EXCEPT ![r] = @ \cup {"review"}] /\ review' = [review EXCEPT ![r].pc = "columns"]
     \/ UNCHANGED parts /\ review' = [review EXCEPT ![r].pc = "gone"]
  /\ UNCHANGED <<registry, source, objects, legal, index, walk, forget, last>>

\* Columns are stored one at a time: when one fails, earlier ones are there.
CreateStoresColumns(r) ==
  /\ review[r].pc = "columns"
  /\ \/ /\ parts' = [parts EXCEPT ![r] = @ \cup {"columns"}]
        /\ review' = [review EXCEPT ![r].pc = IF review[r].owned THEN "bind" ELSE "ready"]
     \/ /\ parts' \in {parts, [parts EXCEPT ![r] = @ \cup {"columns"}]}
        /\ review' = [review EXCEPT ![r].pc = "undo columns"]
  /\ UNCHANGED <<registry, source, objects, legal, index, walk, forget, last>>

CreateBinds(r) ==
  /\ review[r].pc = "bind"
  /\ \/ /\ registry.corpus
        /\ registry' = [registry EXCEPT !.reviews = @ \cup {r}]
        /\ review' = [review EXCEPT ![r].pc = "ready"]
     \/ UNCHANGED registry /\ review' = [review EXCEPT ![r].pc = "undo columns"]
  /\ UNCHANGED <<stores, index, walk, forget, last>>

\* The cleanup goes on when one of its calls fails.
CreateUndoes(r) ==
  /\ \/ /\ review[r].pc = "undo columns"
        /\ parts' \in {parts, [parts EXCEPT ![r] = @ \ {"columns"}]}
        /\ review' = [review EXCEPT ![r].pc = "undo header"]
     \/ /\ review[r].pc = "undo header"
        /\ parts' \in {parts, [parts EXCEPT ![r] = @ \ {"review"}]}
        /\ review' = [review EXCEPT ![r].pc = "gone"]
  /\ UNCHANGED <<registry, source, objects, legal, index, walk, forget, last>>

\* Rows are for documents of the review's corpus that are stored.
RowsStart(r) ==
  /\ review[r].pc = "ready" /\ "review" \in parts[r] /\ Active < MaxActive
  /\ r \in registry.reviews /\ registry.docs \cap legal # {}
  /\ review' = [review EXCEPT ![r].pc = "rows"]
  /\ forget' = Disturbed
  /\ UNCHANGED <<registry, stores, index, walk, last>>

StoresRows(r) ==
  /\ review[r].pc = "rows"
  /\ \/ parts' = [parts EXCEPT ![r] = @ \cup {"rows"}] /\ review' = [review EXCEPT ![r].pc = "extract"]
     \/ UNCHANGED parts /\ review' = [review EXCEPT ![r].pc = "ready"]
  /\ UNCHANGED <<registry, source, objects, legal, index, walk, forget, last>>

\* After rows were added, or on a call of its own.
ExtractionStarts(r) ==
  /\ review[r].pc \in {"ready", "extract"}
  /\ review[r].pc = "ready" => Active < MaxActive
  /\ \/ /\ {"review", "columns", "rows"} \subseteq parts[r]
        /\ review' = [review EXCEPT ![r].pc = "cells"]
        /\ forget' = IF review[r].owned THEN Disturbed ELSE forget
     \/ /\ review[r].pc = "extract"
        /\ review' = [review EXCEPT ![r].pc = "ready"]
        /\ UNCHANGED forget
  /\ UNCHANGED <<registry, stores, index, walk, last>>

\* Nothing is looked up again before cells are stored.
StoresCells(r) ==
  /\ review[r].pc = "cells"
  /\ parts' \in {parts, [parts EXCEPT ![r] = @ \cup {"cells"}]}
  /\ review' = [review EXCEPT ![r].pc = "ready"]
  /\ UNCHANGED <<registry, source, objects, legal, index, walk, forget, last>>

-----------------------------------------------------------------------------
(* Forgetting the corpus.                                                   *)

\* The corpus is found, and its bindings are read.
ForgetStarts(f) ==
  /\ forget[f].pc = "idle" /\ registry.corpus /\ Active < MaxActive
  /\ forget' = [forget EXCEPT ![f] =
                  [NewForget EXCEPT !.pc = "documents", !.source = registry.source,
                                    !.folder = registry.folder, !.reviews = registry.reviews,
                                    !.alone = ~Busy, !.whole = ~Busy /\ AllRegistered]]
  /\ UNCHANGED <<registry, stores, writers, last>>

\* A read that fails, or finds no corpus any more, is an error of the answer.
ForgetReadsDocuments(f) ==
  /\ forget[f].pc = "documents"
  /\ \/ /\ registry.corpus
        /\ forget' = [forget EXCEPT ![f].pc = "chunks", ![f].docs = registry.docs]
     \/ forget' = [forget EXCEPT ![f].pc = "source", ![f].failed = TRUE]
  /\ UNCHANGED <<registry, stores, writers, last>>

\* The chunks S are deleted; where calls is true there is a call that may fail after some.
DeletesChunks(f, S, calls, next) ==
  \/ /\ legal' = legal \ S
     /\ forget' = [forget EXCEPT ![f].pc = next, ![f].docs = {}]
  \/ /\ calls
     /\ \E D \in SUBSET (legal \cap S) : legal' = legal \ D
     /\ forget' = [forget EXCEPT ![f].pc = next, ![f].docs = {}, ![f].failed = TRUE]

ForgetDeletesDocuments(f) ==
  /\ forget[f].pc = "chunks"
  /\ DeletesChunks(f, forget[f].docs, forget[f].docs # {}, "source")
  /\ UNCHANGED <<registry, source, objects, parts, writers, last>>

\* Mutant: a binding goes with the attempt to empty what it names.
ForgetSourceUnbinds(f) ==
  /\ forget[f].pc = "source"
  /\ \/ /\ source' = (source /\ ~forget[f].source)
        /\ objects' = (objects /\ ~(source /\ forget[f].source))
        /\ forget' = [forget EXCEPT ![f].pc = "folder", ![f].source = FALSE]
     \/ /\ forget[f].source /\ UNCHANGED <<source, objects>>
        /\ forget' = [forget EXCEPT ![f].pc = "folder", ![f].source = FALSE, ![f].failed = TRUE]
  /\ registry' = [registry EXCEPT !.source = FALSE]
  /\ UNCHANGED <<legal, parts, writers, last>>

\* A source that is not listed is nothing to forget, whatever objects it has.
ForgetSource(f) ==
  /\ forget[f].pc = "source"
  /\ \/ /\ source' = (source /\ ~forget[f].source)
        /\ objects' = (objects /\ ~(source /\ forget[f].source))
        /\ forget' = [forget EXCEPT ![f].pc = "folder", ![f].source = FALSE]
     \/ /\ forget[f].source /\ UNCHANGED <<source, objects>>
        /\ forget' = [forget EXCEPT ![f].pc = "folder", ![f].source = FALSE, ![f].failed = TRUE]
  /\ UNCHANGED <<registry, legal, parts, writers, last>>

\* The binding holds a hash of the folder.  It is compared with the folders of the stored
\* chunks, each the folder its file lies in; without a match nothing is deleted.
ForgetFolder(f) ==
  /\ forget[f].pc = "folder"
  /\ DeletesChunks(f, IF forget[f].folder /\ legal \cap TopFiles # {} THEN Files ELSE {},
                   forget[f].folder, "reviews")
  /\ UNCHANGED <<registry, source, objects, parts, writers, last>>

ForgetTakesReview(f, r) ==
  /\ forget[f].pc = "reviews" /\ r \in forget[f].reviews
  /\ forget' = [forget EXCEPT ![f].pc = "cells", ![f].at = r]
  /\ UNCHANGED <<registry, stores, writers, last>>

\* The first table that cannot be emptied ends the work on the review.
ForgetDeletesPart(f) ==
  LET p == forget[f].pc
      r == forget[f].at
      done == [forget[f] EXCEPT !.pc = "reviews", !.reviews = @ \ {r}, !.at = NoReview]
  IN /\ p \in Parts
     /\ \/ /\ parts' = [parts EXCEPT ![r] = @ \ {p}]
           /\ forget' = [forget EXCEPT ![f] = IF p = "review" THEN done
                                              ELSE [@ EXCEPT !.pc = NextPart[p]]]
        \/ UNCHANGED parts /\ forget' = [forget EXCEPT ![f] = [done EXCEPT !.failed = TRUE]]
     /\ UNCHANGED <<registry, source, objects, legal, writers, last>>

DeletesRegistry(f) ==
  /\ registry' = NoRegistry
  /\ last' = IF registry.corpus THEN [alone |-> forget[f].alone, whole |-> forget[f].whole]
             ELSE last

\* Mutant: the registry's rows are deleted whatever has failed.
ForgetEndsAnyway(f) ==
  /\ forget[f].pc = "reviews" /\ forget[f].reviews = {}
  /\ \/ DeletesRegistry(f)
     \/ UNCHANGED <<registry, last>>
  /\ forget' = [forget EXCEPT ![f] = NewForget]
  /\ UNCHANGED <<stores, writers>>

\* The registry's rows go only when nothing has failed, and may then fail to go.
ForgetEnds(f) ==
  /\ forget[f].pc = "reviews" /\ forget[f].reviews = {}
  /\ \/ ~forget[f].failed /\ DeletesRegistry(f)
     \/ UNCHANGED <<registry, last>>
  /\ forget' = [forget EXCEPT ![f] = NewForget]
  /\ UNCHANGED <<stores, writers>>

\* A forget call for the source alone.
ForgetOnlySource ==
  /\ source
  /\ source' = FALSE /\ objects' = FALSE
  /\ UNCHANGED <<registry, legal, parts, writers, forget, last>>

\* A forget call for the folder's legal chunks alone, which may fail after some.
ForgetOnlyLegal ==
  /\ \E D \in SUBSET legal : D # {} /\ legal' = legal \ D
  /\ UNCHANGED <<registry, source, objects, parts, writers, forget, last>>

-----------------------------------------------------------------------------
\* The server stops and starts: what was under way is not taken up again.
Crash ==
  /\ index' = [i \in Indexers |-> NewIndex]
  /\ walk' = NewWalk
  /\ review' = [r \in Reviews |->
       IF review[r].pc \in Creating THEN [review[r] EXCEPT !.pc = "gone"]
       ELSE IF review[r].pc \in Filling THEN [review[r] EXCEPT !.pc = "ready"]
       ELSE review[r]]
  /\ forget' = [f \in Forgets |-> NewForget]
  /\ UNCHANGED <<registry, stores, last>>

IndexNext == \E i \in Indexers :
  \/ \E profile \in {"general", "legal", "all"} : IndexStarts(i, profile)
  \/ IndexAdds(i) \/ IndexBinds(i) \/ IndexSyncs(i) \/ IndexCommits(i) \/ IndexIngests(i)

WalkNext ==
  \/ \E d \in Files : WalkTakes(d) \/ WalkMisses(d) \/ WalkAdds(d)
  \/ WalkBinds \/ WalkEndsUnregistered

ReviewNext == \E r \in Reviews :
  \/ CreateStarts(r) \/ CreateStoresHeader(r) \/ CreateStoresColumns(r) \/ CreateBinds(r)
  \/ CreateUndoes(r) \/ RowsStart(r) \/ StoresRows(r) \/ ExtractionStarts(r) \/ StoresCells(r)

ForgetStep(f) ==
  \/ ForgetReadsDocuments(f) \/ ForgetDeletesDocuments(f) \/ ForgetSource(f) \/ ForgetFolder(f)
  \/ \E r \in Reviews : ForgetTakesReview(f, r)
  \/ ForgetDeletesPart(f) \/ ForgetEnds(f)

ForgetNext ==
  \/ \E f \in Forgets : ForgetStarts(f) \/ ForgetStep(f)
  \/ ForgetOnlySource \/ ForgetOnlyLegal

Next == IndexNext \/ WalkNext \/ ReviewNext \/ ForgetNext \/ Crash

Spec == Init /\ [][Next]_vars

-----------------------------------------------------------------------------
(* Properties.                                                              *)

RegistryRec == [corpus : BOOLEAN, source : BOOLEAN, folder : BOOLEAN, docs : SUBSET Files,
                reviews : SUBSET Reviews]
IndexRec == [pc : {"idle", "add", "bind", "sync", "commit", "ingest"}, legal : BOOLEAN]
WalkRec == [pc : {"idle", "walking", "adding"}, todo : SUBSET Files, found : SUBSET Files]
ReviewRec == [pc : {"new", "ready", "gone"} \cup Creating \cup Filling, owned : BOOLEAN]
ForgetRec == [pc : {"idle", "documents", "chunks", "source", "folder", "reviews"} \cup Parts,
              source : BOOLEAN, folder : BOOLEAN, docs : SUBSET Files, reviews : SUBSET Reviews,
              at : Reviews \cup {NoReview}, failed : BOOLEAN, alone : BOOLEAN, whole : BOOLEAN]

\* Every variable has a value of its type, and what the registry has of a corpus it has
\* for a corpus that is registered: the rows go by cascade (migrations.rs:24).
TypeOK ==
  /\ registry \in RegistryRec /\ (registry.corpus \/ registry = NoRegistry)
  /\ source \in BOOLEAN /\ objects \in BOOLEAN /\ legal \in SUBSET Files
  /\ parts \in [Reviews -> SUBSET Parts]
  /\ index \in [Indexers -> IndexRec]
  /\ walk \in WalkRec
  /\ review \in [Reviews -> ReviewRec]
  /\ forget \in [Forgets -> ForgetRec]
  /\ \A f \in Forgets : forget[f].pc \in Parts => forget[f].at \in Reviews
  /\ last \in [alone : BOOLEAN, whole : BOOLEAN]

\* A corpus whose registry rows are gone has left nothing behind in any store, if no writer
\* ran beside the forget call that deleted them and all was registered when it started: the
\* rows stay as long as any store may still have something of it (lib.rs:1961, :1987).
NothingLeft ==
  ~registry.corpus /\ last.alone /\ last.whole =>
    /\ ~source /\ ~objects /\ legal = {}
    /\ \A r \in Reviews : review[r].owned => parts[r] = {}

\* No step of a forget call that runs beside no writer takes from the registry what a store
\* still has: after a call that failed, on whatever step and for the how manieth time, a
\* further call finds all that is left (lib.rs:1890-1985).
StillFound ==
  [][\A f \in Forgets : ForgetStep(f) /\ forget[f].alone /\ AllRegistered => AllRegistered']_vars
=============================================================================
