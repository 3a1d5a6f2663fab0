----------------------- MODULE CorpusLifecycle_proofs -----------------------
(***************************************************************************)
(* Proofs about CorpusLifecycle.  The argument is in Inv: while a forget   *)
(* call runs alone no writer is at work, so that what it has read of the   *)
(* registry stays true and what it has emptied stays empty.                *)
(***************************************************************************)
EXTENDS CorpusLifecycle, TLAPS

-----------------------------------------------------------------------------
(* Types.                                                                   *)

\* Types of the values that several actions store.
LEMMA ConstantsTyped ==
  /\ NoRegistry \in RegistryRec /\ NewIndex \in IndexRec /\ NewWalk \in WalkRec
  /\ NewForget \in ForgetRec /\ NewForget.pc \notin Parts
BY DEF NoRegistry, NewIndex, NewWalk, NewForget, RegistryRec, IndexRec, WalkRec, ForgetRec, Parts

LEMMA InitTyped == Init => TypeOK
<1>1. [pc |-> "new", owned |-> FALSE] \in ReviewRec
  BY DEF ReviewRec
<1>2. ASSUME Init
      PROVE  /\ parts \in [Reviews -> SUBSET Parts] /\ review \in [Reviews -> ReviewRec]
             /\ forget \in [Forgets -> ForgetRec] /\ index \in [Indexers -> IndexRec]
             /\ \A f \in Forgets : forget[f].pc \notin Parts
             /\ last \in [alone : BOOLEAN, whole : BOOLEAN]
  BY <1>1, <1>2, ConstantsTyped DEF Init, NotForgotten
<1> QED
  BY <1>2, ConstantsTyped DEF Init, TypeOK

\* A change of the registry that keeps the corpus keeps its type.
LEMMA RegistryTyped ==
  ASSUME TypeOK, registry.corpus
  PROVE  /\ [registry EXCEPT !.source = TRUE] \in RegistryRec
         /\ [registry EXCEPT !.folder = TRUE] \in RegistryRec
         /\ \A D \in SUBSET Files : [registry EXCEPT !.docs = D] \in RegistryRec
         /\ \A R \in SUBSET Reviews : [registry EXCEPT !.reviews = R] \in RegistryRec
         /\ [registry EXCEPT !.source = TRUE].corpus
         /\ [registry EXCEPT !.folder = TRUE].corpus
         /\ \A D \in SUBSET Files : [registry EXCEPT !.docs = D].corpus
         /\ \A R \in SUBSET Reviews : [registry EXCEPT !.reviews = R].corpus
BY DEF TypeOK, RegistryRec

LEMMA DisturbedTyped ==
  ASSUME TypeOK
  PROVE  /\ Disturbed \in [Forgets -> ForgetRec]
         /\ \A f \in Forgets : Disturbed[f].pc \in Parts => Disturbed[f].at \in Reviews
<1> DEFINE All == {"idle", "documents", "chunks", "source", "folder", "reviews"} \cup Parts
<1>1. ASSUME NEW q \in ForgetRec
      PROVE  /\ [q EXCEPT !.alone = FALSE, !.whole = FALSE] \in ForgetRec
             /\ [q EXCEPT !.alone = FALSE, !.whole = FALSE].pc = q.pc
             /\ [q EXCEPT !.alone = FALSE, !.whole = FALSE].at = q.at
  <2>1. ForgetRec = [pc : All, source : BOOLEAN, folder : BOOLEAN, docs : SUBSET Files,
                     reviews : SUBSET Reviews, at : Reviews \cup {NoReview}, failed : BOOLEAN,
                     alone : BOOLEAN, whole : BOOLEAN]
    BY DEF ForgetRec
  <2> HIDE DEF All
  <2> QED
    BY <1>1, <2>1
<1>2. ASSUME NEW f \in Forgets
      PROVE  /\ Disturbed[f] \in ForgetRec
             /\ Disturbed[f].pc = forget[f].pc /\ Disturbed[f].at = forget[f].at
  BY <1>1 DEF TypeOK, Disturbed
<1> QED
  BY <1>2 DEF TypeOK, Disturbed

\* One forget call takes another state.
LEMMA ForgetTyped ==
  ASSUME TypeOK, NEW f \in Forgets, NEW s \in ForgetRec, s.pc \in Parts => s.at \in Reviews,
         forget' = [forget EXCEPT ![f] = s]
  PROVE  /\ forget' \in [Forgets -> ForgetRec]
         /\ \A g \in Forgets : forget'[g].pc \in Parts => forget'[g].at \in Reviews
BY DEF TypeOK

LEMMA IndexTyped == TypeOK /\ IndexNext => TypeOK'
<1> SUFFICES ASSUME TypeOK, NEW i \in Indexers,
                    \/ \E profile \in {"general", "legal", "all"} : IndexStarts(i, profile)
                    \/ IndexAdds(i) \/ IndexBinds(i) \/ IndexSyncs(i) \/ IndexCommits(i)
                    \/ IndexIngests(i)
             PROVE  TypeOK'
  BY DEF IndexNext
<1>0. AfterKnowledge(i) \in IndexRec
  BY DEF TypeOK, AfterKnowledge, NewIndex, IndexRec
<1>1. ASSUME NEW profile \in {"general", "legal", "all"}, IndexStarts(i, profile) PROVE TypeOK'
  <2>1. registry' \in RegistryRec /\ registry'.corpus
    BY <1>1 DEF TypeOK, IndexStarts, RegistryRec
  <2>2. index' \in [Indexers -> IndexRec]
    BY <1>1 DEF TypeOK, IndexStarts, IndexRec
  <2>3. last' \in [alone : BOOLEAN, whole : BOOLEAN]
    BY <1>1 DEF IndexStarts, NotForgotten
  <2> QED
    BY <1>1, <2>1, <2>2, <2>3, DisturbedTyped DEF TypeOK, IndexStarts, stores
<1>2. CASE IndexAdds(i)
  <2>1. [index[i] EXCEPT !.pc = "bind"] \in IndexRec
    BY DEF TypeOK, IndexRec
  <2> QED
    BY <1>0, <1>2, <2>1 DEF TypeOK, IndexAdds
<1>3. CASE IndexBinds(i)
  <2>1. [index[i] EXCEPT !.pc = "sync"] \in IndexRec
    BY DEF TypeOK, IndexRec
  <2> QED
    BY <1>3, <2>1, RegistryTyped DEF TypeOK, IndexBinds, stores
<1>4. CASE IndexSyncs(i)
  <2>1. [index[i] EXCEPT !.pc = "commit"] \in IndexRec
    BY DEF TypeOK, IndexRec
  <2> QED
    BY <1>0, <1>4, <2>1 DEF TypeOK, IndexSyncs, stores
<1>5. CASE IndexCommits(i)
  BY <1>0, <1>5 DEF TypeOK, IndexCommits
<1>6. CASE IndexIngests(i)
  <2>1. [pc |-> "walking", todo |-> Files, found |-> {}] \in WalkRec
    BY DEF WalkRec
  <2> QED
    BY <1>6, <2>1, ConstantsTyped DEF TypeOK, IndexIngests, stores
<1> QED
  BY <1>1, <1>2, <1>3, <1>4, <1>5, <1>6

LEMMA WalkTyped == TypeOK /\ WalkNext => TypeOK'
<1> SUFFICES ASSUME TypeOK, WalkNext
             PROVE  TypeOK'
  OBVIOUS
<1>1. ASSUME NEW d \in Files, WalkTakes(d) PROVE TypeOK'
  <2>1. walk' \in WalkRec
    BY <1>1 DEF TypeOK, WalkTakes, WalkRec
  <2> QED
    BY <1>1, <2>1 DEF TypeOK, WalkTakes
<1>2. ASSUME NEW d \in Files, WalkMisses(d) PROVE TypeOK'
  <2>1. walk' \in WalkRec
    BY <1>2 DEF TypeOK, WalkMisses, WalkRec
  <2> QED
    BY <1>2, <2>1 DEF TypeOK, WalkMisses
<1>3. ASSUME NEW d \in Files, WalkAdds(d) PROVE TypeOK'
  <2>1. walk' \in WalkRec
    BY <1>3 DEF TypeOK, WalkAdds, WalkRec
  <2>2. registry.docs \cup {d} \in SUBSET Files
    BY DEF TypeOK, RegistryRec
  <2> QED
    BY <1>3, <2>1, <2>2, RegistryTyped DEF TypeOK, WalkAdds, stores
<1>4. CASE WalkBinds
  <2>1. walk' \in WalkRec
    BY <1>4 DEF TypeOK, WalkBinds, WalkRec
  <2> QED
    BY <1>4, <2>1, RegistryTyped DEF TypeOK, WalkBinds, stores
<1>5. CASE WalkEndsUnregistered
  BY <1>5, ConstantsTyped DEF TypeOK, WalkEndsUnregistered, stores
<1> QED
  BY <1>1, <1>2, <1>3, <1>4, <1>5 DEF WalkNext

LEMMA ReviewTyped == TypeOK /\ ReviewNext => TypeOK'
<1> SUFFICES ASSUME TypeOK, NEW r \in Reviews,
                    \/ CreateStarts(r) \/ CreateStoresHeader(r) \/ CreateStoresColumns(r)
                    \/ CreateBinds(r) \/ CreateUndoes(r) \/ RowsStart(r) \/ StoresRows(r)
                    \/ ExtractionStarts(r) \/ StoresCells(r)
             PROVE  TypeOK'
  BY DEF ReviewNext
<1>a. \A pc \in {"new", "ready", "gone"} \cup Creating \cup Filling :
        [review EXCEPT ![r].pc = pc] \in [Reviews -> ReviewRec]
  BY DEF TypeOK, ReviewRec
<1>b. \A p \in Parts : /\ [parts EXCEPT ![r] = @ \cup {p}] \in [Reviews -> SUBSET Parts]
                       /\ [parts EXCEPT ![r] = @ \ {p}] \in [Reviews -> SUBSET Parts]
  BY DEF TypeOK
<1>d. "review" \in Parts /\ "columns" \in Parts /\ "rows" \in Parts /\ "cells" \in Parts
  BY DEF Parts
<1>e. /\ "header" \in Creating /\ "columns" \in Creating /\ "bind" \in Creating
      /\ "undo columns" \in Creating /\ "undo header" \in Creating
      /\ "rows" \in Filling /\ "extract" \in Filling /\ "cells" \in Filling
  BY DEF Creating, Filling
<1>f. ASSUME NEW pc \in {"new", "ready", "gone"} \cup Creating \cup Filling,
             review' = [review EXCEPT ![r].pc = pc]
      PROVE  review' \in [Reviews -> ReviewRec]
  BY <1>a, <1>f
<1>1. CASE CreateStarts(r)
  <2>1. [pc |-> "header", owned |-> registry.corpus] \in ReviewRec
    BY <1>e DEF TypeOK, ReviewRec, RegistryRec
  <2> QED
    BY <1>1, <2>1, DisturbedTyped DEF TypeOK, CreateStarts, stores
<1>2. CASE CreateStoresHeader(r)
  <2>1. review' \in [Reviews -> ReviewRec]
    BY <1>2, <1>e, <1>f DEF CreateStoresHeader
  <2>2. parts' \in [Reviews -> SUBSET Parts]
    BY <1>2, <1>b, <1>d DEF CreateStoresHeader, TypeOK
  <2> QED
    BY <1>2, <2>1, <2>2 DEF TypeOK, CreateStoresHeader
<1>3. CASE CreateStoresColumns(r)
  <2>1. review' \in [Reviews -> ReviewRec]
    BY <1>3, <1>e, <1>f DEF CreateStoresColumns
  <2>2. parts' \in [Reviews -> SUBSET Parts]
    <3>1. \A p \in {"review", "columns"} :
            /\ [parts EXCEPT ![r] = @ \cup {p}] \in [Reviews -> SUBSET Parts]
            /\ [parts EXCEPT ![r] = @ \ {p}] \in [Reviews -> SUBSET Parts]
      BY <1>b, <1>d
    <3> QED
      BY <1>3, <3>1 DEF CreateStoresColumns, TypeOK
  <2> QED
    BY <1>3, <2>1, <2>2 DEF TypeOK, CreateStoresColumns
<1>4. CASE CreateBinds(r)
  <2>1. registry.reviews \cup {r} \in SUBSET Reviews
    BY DEF TypeOK, RegistryRec
  <2>2. review' \in [Reviews -> ReviewRec]
    BY <1>4, <1>e, <1>f DEF CreateBinds
  <2> QED
    BY <1>4, <2>1, <2>2, RegistryTyped DEF TypeOK, CreateBinds, stores
<1>5. CASE CreateUndoes(r)
  <2>1. review' \in [Reviews -> ReviewRec]
    BY <1>5, <1>e, <1>f DEF CreateUndoes
  <2>2. parts' \in [Reviews -> SUBSET Parts]
    <3>1. \A p \in {"review", "columns"} :
            /\ [parts EXCEPT ![r] = @ \cup {p}] \in [Reviews -> SUBSET Parts]
            /\ [parts EXCEPT ![r] = @ \ {p}] \in [Reviews -> SUBSET Parts]
      BY <1>b, <1>d
    <3> QED
      BY <1>5, <3>1 DEF CreateUndoes, TypeOK
  <2> QED
    BY <1>5, <2>1, <2>2 DEF TypeOK, CreateUndoes
<1>6. CASE RowsStart(r)
  <2>1. review' \in [Reviews -> ReviewRec]
    BY <1>6, <1>e, <1>f DEF RowsStart
  <2> QED
    BY <1>6, <2>1, DisturbedTyped DEF TypeOK, RowsStart, stores
<1>7. CASE StoresRows(r)
  <2>1. review' \in [Reviews -> ReviewRec]
    BY <1>7, <1>e, <1>f DEF StoresRows
  <2>2. parts' \in [Reviews -> SUBSET Parts]
    BY <1>7, <1>b, <1>d DEF StoresRows, TypeOK
  <2> QED
    BY <1>7, <2>1, <2>2 DEF TypeOK, StoresRows
<1>8. CASE ExtractionStarts(r)
  <2>1. review' \in [Reviews -> ReviewRec]
    BY <1>8, <1>e, <1>f DEF ExtractionStarts
  <2> QED
    BY <1>8, <2>1, DisturbedTyped DEF TypeOK, ExtractionStarts, stores
<1>9. CASE StoresCells(r)
  <2>1. review' \in [Reviews -> ReviewRec]
    BY <1>9, <1>e, <1>f DEF StoresCells
  <2>2. parts' \in [Reviews -> SUBSET Parts]
    BY <1>9, <1>b, <1>d DEF StoresCells, TypeOK
  <2> QED
    BY <1>9, <2>1, <2>2 DEF TypeOK, StoresCells
<1> QED
  BY <1>1, <1>2, <1>3, <1>4, <1>5, <1>6, <1>7, <1>8, <1>9

\* The states that a forget call takes are states of forget calls.
LEMMA ForgetStates ==
  ASSUME NEW q \in ForgetRec, NEW D \in SUBSET Files,
         NEW pc \in {"chunks", "source", "folder", "reviews"} \cup Parts
  PROVE  /\ [q EXCEPT !.pc = pc] \in ForgetRec
         /\ [q EXCEPT !.pc = pc, !.docs = D] \in ForgetRec
         /\ [q EXCEPT !.pc = pc, !.failed = TRUE] \in ForgetRec
         /\ [q EXCEPT !.pc = pc, !.docs = D, !.failed = TRUE] \in ForgetRec
         /\ [q EXCEPT !.pc = pc, !.source = FALSE] \in ForgetRec
         /\ [q EXCEPT !.pc = pc, !.source = FALSE, !.failed = TRUE] \in ForgetRec
         /\ \A r \in Reviews :
              /\ [q EXCEPT !.pc = pc, !.at = r] \in ForgetRec
              /\ [q EXCEPT !.pc = pc, !.reviews = q.reviews \ {r}, !.at = NoReview] \in ForgetRec
<1> DEFINE All == {"idle", "documents", "chunks", "source", "folder", "reviews"} \cup Parts
<1>1. pc \in All
  OBVIOUS
<1>2. ForgetRec = [pc : All, source : BOOLEAN, folder : BOOLEAN, docs : SUBSET Files,
                   reviews : SUBSET Reviews, at : Reviews \cup {NoReview}, failed : BOOLEAN,
                   alone : BOOLEAN, whole : BOOLEAN]
  BY DEF ForgetRec
<1> HIDE DEF All
<1> QED
  BY <1>1, <1>2

LEMMA ForgetStepTyped ==
  ASSUME TypeOK, NEW f \in Forgets, ForgetStarts(f) \/ ForgetStep(f)
  PROVE  TypeOK'
<1>0. forget[f] \in ForgetRec /\ registry.docs \in SUBSET Files /\ {} \in SUBSET Files
  BY DEF TypeOK, RegistryRec
<1>p. {"chunks", "source", "folder", "reviews"} \cap Parts = {} /\ "cells" \in Parts
  BY DEF Parts
<1>1. CASE ForgetStarts(f)
  <2> DEFINE a == ~Busy
             w == ~Busy /\ AllRegistered
             s == [NewForget EXCEPT !.pc = "documents", !.source = registry.source,
                                    !.folder = registry.folder, !.reviews = registry.reviews,
                                    !.alone = a, !.whole = w]
  <2>1. a \in BOOLEAN /\ w \in BOOLEAN
    OBVIOUS
  <2>2. s \in ForgetRec /\ s.pc \notin Parts
    <3> HIDE DEF a, w
    <3>1. /\ registry.source \in BOOLEAN /\ registry.folder \in BOOLEAN
          /\ registry.reviews \in SUBSET Reviews
      BY DEF TypeOK, RegistryRec
    <3> DEFINE All == {"idle", "documents", "chunks", "source", "folder", "reviews"} \cup Parts
    <3>2. "documents" \notin Parts /\ "documents" \in All
      BY DEF Parts
    <3>3. ForgetRec = [pc : All, source : BOOLEAN, folder : BOOLEAN, docs : SUBSET Files,
                       reviews : SUBSET Reviews, at : Reviews \cup {NoReview}, failed : BOOLEAN,
                       alone : BOOLEAN, whole : BOOLEAN]
      BY DEF ForgetRec
    <3> HIDE DEF All
    <3> QED
      BY <2>1, <3>1, <3>2, <3>3, ConstantsTyped
  <2>3. forget' = [forget EXCEPT ![f] = s]
    BY <1>1 DEF ForgetStarts
  <2> HIDE DEF s
  <2> QED
    BY <1>1, <2>2, <2>3, ForgetTyped DEF TypeOK, ForgetStarts, stores, writers
<1>2. CASE ForgetReadsDocuments(f)
  <2>1. PICK s \in {[forget[f] EXCEPT !.pc = "chunks", !.docs = registry.docs],
                    [forget[f] EXCEPT !.pc = "source", !.failed = TRUE]} :
               forget' = [forget EXCEPT ![f] = s]
    BY <1>2 DEF ForgetReadsDocuments, TypeOK
  <2>2. s \in ForgetRec
    <3>1. /\ "chunks" \in {"chunks", "source", "folder", "reviews"} \cup Parts
          /\ "source" \in {"chunks", "source", "folder", "reviews"} \cup Parts
      OBVIOUS
    <3>2. [forget[f] EXCEPT !.pc = "chunks", !.docs = registry.docs] \in ForgetRec
      BY <1>0, <3>1, ForgetStates
    <3>3. [forget[f] EXCEPT !.pc = "source", !.failed = TRUE] \in ForgetRec
      BY <1>0, <3>1, ForgetStates
    <3> QED
      BY <2>1, <3>2, <3>3
  <2>3. s.pc \notin Parts
    BY <1>0, <1>p, <2>1 DEF ForgetRec
  <2> QED
    BY <1>2, <2>1, <2>2, <2>3, ForgetTyped DEF TypeOK, ForgetReadsDocuments, stores, writers
<1>3. CASE ForgetDeletesDocuments(f)
  <2>1. PICK s \in {[forget[f] EXCEPT !.pc = "source", !.docs = {}],
                    [forget[f] EXCEPT !.pc = "source", !.docs = {}, !.failed = TRUE]} :
               forget' = [forget EXCEPT ![f] = s]
    BY <1>3 DEF ForgetDeletesDocuments, DeletesChunks, TypeOK
  <2>2. s \in ForgetRec
    <3>1. "source" \in {"chunks", "source", "folder", "reviews"} \cup Parts
      OBVIOUS
    <3>2. [forget[f] EXCEPT !.pc = "source", !.docs = {}] \in ForgetRec
      BY <1>0, <3>1, ForgetStates
    <3>3. [forget[f] EXCEPT !.pc = "source", !.docs = {}, !.failed = TRUE] \in ForgetRec
      BY <1>0, <3>1, ForgetStates
    <3> QED
      BY <2>1, <3>2, <3>3
  <2>3. s.pc \notin Parts
    BY <1>0, <1>p, <2>1 DEF ForgetRec
  <2> QED
    BY <1>3, <2>1, <2>2, <2>3, ForgetTyped DEF TypeOK, ForgetDeletesDocuments, DeletesChunks, writers
<1>4. CASE ForgetSource(f)
  <2>1. PICK s \in {[forget[f] EXCEPT !.pc = "folder", !.source = FALSE],
                    [forget[f] EXCEPT !.pc = "folder", !.source = FALSE, !.failed = TRUE]} :
               forget' = [forget EXCEPT ![f] = s]
    BY <1>4 DEF ForgetSource, TypeOK
  <2>2. s \in ForgetRec
    <3>1. "folder" \in {"chunks", "source", "folder", "reviews"} \cup Parts
      OBVIOUS
    <3>2. [forget[f] EXCEPT !.pc = "folder", !.source = FALSE] \in ForgetRec
      BY <1>0, <3>1, ForgetStates
    <3>3. [forget[f] EXCEPT !.pc = "folder", !.source = FALSE, !.failed = TRUE] \in ForgetRec
      BY <1>0, <3>1, ForgetStates
    <3> QED
      BY <2>1, <3>2, <3>3
  <2>3. s.pc \notin Parts
    BY <1>0, <1>p, <2>1 DEF ForgetRec
  <2>4. source' \in BOOLEAN /\ objects' \in BOOLEAN
    BY <1>4 DEF ForgetSource, TypeOK
  <2> QED
    BY <1>4, <2>1, <2>2, <2>3, <2>4, ForgetTyped DEF TypeOK, ForgetSource, writers
<1>5. CASE ForgetFolder(f)
  <2>1. PICK s \in {[forget[f] EXCEPT !.pc = "reviews", !.docs = {}],
                    [forget[f] EXCEPT !.pc = "reviews", !.docs = {}, !.failed = TRUE]} :
               forget' = [forget EXCEPT ![f] = s]
    BY <1>5 DEF ForgetFolder, DeletesChunks, TypeOK
  <2>2. s \in ForgetRec
    <3>1. "reviews" \in {"chunks", "source", "folder", "reviews"} \cup Parts
      OBVIOUS
    <3>2. [forget[f] EXCEPT !.pc = "reviews", !.docs = {}] \in ForgetRec
      BY <1>0, <3>1, ForgetStates
    <3>3. [forget[f] EXCEPT !.pc = "reviews", !.docs = {}, !.failed = TRUE] \in ForgetRec
      BY <1>0, <3>1, ForgetStates
    <3> QED
      BY <2>1, <3>2, <3>3
  <2>3. s.pc \notin Parts
    BY <1>0, <1>p, <2>1 DEF ForgetRec
  <2> QED
    BY <1>5, <2>1, <2>2, <2>3, ForgetTyped DEF TypeOK, ForgetFolder, DeletesChunks, writers
<1>6. ASSUME NEW r \in Reviews, ForgetTakesReview(f, r) PROVE TypeOK'
  <2> DEFINE s == [forget[f] EXCEPT !.pc = "cells", !.at = r]
  <2>1. s \in ForgetRec /\ s.at \in Reviews
    <3>1. "cells" \in {"chunks", "source", "folder", "reviews"} \cup Parts
      BY <1>p
    <3>2. s \in ForgetRec
      BY <1>0, <3>1, ForgetStates
    <3> QED
      BY <1>0, <3>2 DEF ForgetRec
  <2>2. forget' = [forget EXCEPT ![f] = s]
    BY <1>6 DEF ForgetTakesReview, TypeOK
  <2> HIDE DEF s
  <2> QED
    BY <1>6, <2>1, <2>2, ForgetTyped DEF TypeOK, ForgetTakesReview, stores, writers
<1>7. CASE ForgetDeletesPart(f)
  <2> DEFINE p == forget[f].pc
             r == forget[f].at
             done == [forget[f] EXCEPT !.pc = "reviews", !.reviews = @ \ {r}, !.at = NoReview]
  <2>1. p \in Parts /\ r \in Reviews
    BY <1>7 DEF ForgetDeletesPart, TypeOK
  <2>2. /\ parts' \in {parts, [parts EXCEPT ![r] = @ \ {p}]}
        /\ \/ forget' = [forget EXCEPT ![f] = done]
           \/ forget' = [forget EXCEPT ![f] = [done EXCEPT !.failed = TRUE]]
           \/ p # "review" /\ forget' = [forget EXCEPT ![f] = [forget[f] EXCEPT !.pc = NextPart[p]]]
    BY <1>7 DEF ForgetDeletesPart, TypeOK
  <2>3. p # "review" => NextPart[p] \in Parts
    BY <2>1 DEF NextPart, Parts
  <2>4. done \in ForgetRec /\ done.pc \notin Parts
    <3>1. "reviews" \in {"chunks", "source", "folder", "reviews"} \cup Parts
      OBVIOUS
    <3>2. done \in ForgetRec
      BY <1>0, <2>1, <3>1, ForgetStates
    <3> QED
      BY <1>0, <1>p, <3>2 DEF ForgetRec
  <2>5. [done EXCEPT !.failed = TRUE] \in ForgetRec /\ [done EXCEPT !.failed = TRUE].pc \notin Parts
    BY <1>p, <2>4 DEF ForgetRec
  <2>6. p # "review" => /\ [forget[f] EXCEPT !.pc = NextPart[p]] \in ForgetRec
                        /\ [forget[f] EXCEPT !.pc = NextPart[p]].at \in Reviews
    BY <1>0, <2>1, <2>3, ForgetStates DEF ForgetRec
  <2>7. parts' \in [Reviews -> SUBSET Parts]
    BY <2>1, <2>2 DEF TypeOK
  <2> HIDE DEF done
  <2>8. /\ forget' \in [Forgets -> ForgetRec]
        /\ \A g \in Forgets : forget'[g].pc \in Parts => forget'[g].at \in Reviews
    BY <2>2, <2>4, <2>5, <2>6, ForgetTyped
  <2> QED
    BY <1>7, <2>7, <2>8 DEF TypeOK, ForgetDeletesPart, writers
<1>8. CASE ForgetEnds(f)
  <2>1. last' \in [alone : BOOLEAN, whole : BOOLEAN]
    BY <1>8 DEF ForgetEnds, DeletesRegistry, TypeOK, ForgetRec
  <2>2. registry' \in RegistryRec /\ (registry'.corpus \/ registry' = NoRegistry)
    BY <1>8, ConstantsTyped DEF ForgetEnds, DeletesRegistry, TypeOK
  <2>3. forget' = [forget EXCEPT ![f] = NewForget]
    BY <1>8 DEF ForgetEnds
  <2> QED
    BY <1>8, <2>1, <2>2, <2>3, ForgetTyped, ConstantsTyped DEF TypeOK, ForgetEnds, stores, writers
<1> QED
  BY <1>1, <1>2, <1>3, <1>4, <1>5, <1>6, <1>7, <1>8 DEF ForgetStep

\* Every step keeps every variable in its type.
LEMMA NextTyped == TypeOK /\ [Next]_vars => TypeOK'
<1> SUFFICES ASSUME TypeOK, [Next]_vars
             PROVE  TypeOK'
  OBVIOUS
<1>1. CASE ForgetOnlySource
  BY <1>1 DEF TypeOK, ForgetOnlySource, writers
<1>2. CASE ForgetOnlyLegal
  BY <1>2 DEF TypeOK, ForgetOnlyLegal, writers
<1>3. CASE Crash
  <2>1. review' \in [Reviews -> ReviewRec]
    BY <1>3 DEF TypeOK, Crash, ReviewRec
  <2> QED
    BY <1>3, <2>1, ConstantsTyped DEF TypeOK, Crash, stores
<1>4. CASE UNCHANGED vars
  BY <1>4 DEF TypeOK, vars
<1> QED
  BY <1>1, <1>2, <1>3, <1>4, IndexTyped, WalkTyped, ReviewTyped, ForgetStepTyped
     DEF Next, ForgetNext

\* Every reachable state is one of the program's: rows of the registry only for a corpus that
\* is registered (store.rs:209-294), calls and reviews in a state they can be in.
THEOREM TypeCorrect == Spec => []TypeOK
BY InitTyped, NextTyped, PTL DEF Spec

-----------------------------------------------------------------------------
(* The invariant.                                                           *)

Alone(f) == forget[f].pc # "idle" /\ forget[f].alone

\* Only reviews of the corpus are bound to it.
Owned ==
  /\ \A r \in registry.reviews : review[r].owned
  /\ \A r \in Reviews : review[r].pc = "bind" => review[r].owned

AfterChunks == {"source", "folder", "reviews"} \cup Parts
AfterSource == {"folder", "reviews"} \cup Parts
AfterFolder == {"reviews"} \cup Parts

\* The tables of a review that are empty when the table p is next.
Before(p) == CASE p = "rows" -> {"cells"}
               [] p = "columns" -> {"cells", "rows"}
               [] p = "review" -> {"cells", "rows", "columns"}
               [] OTHER -> {}

\* What the call f has read is what is registered, and what it is past is empty, unless
\* one of its calls has failed.
HasRead(f) ==
  /\ forget[f].reviews \subseteq registry.reviews
  /\ forget[f].pc = "chunks" => forget[f].docs = registry.docs
  /\ forget[f].pc \in {"documents", "chunks", "source"} => forget[f].source = registry.source
  /\ forget[f].pc \in {"documents", "chunks", "source", "folder"} =>
       forget[f].reviews = registry.reviews

HasEmptied(f) ==
  ~forget[f].failed =>
    /\ forget[f].pc \in AfterChunks => legal \cap registry.docs = {}
    /\ forget[f].pc \in AfterSource => ~(registry.source /\ source)
    /\ forget[f].pc \in AfterFolder =>
         \A r \in registry.reviews \ forget[f].reviews : parts[r] = {}
    /\ forget[f].pc \in Parts => /\ forget[f].at \in forget[f].reviews
                                 /\ parts[forget[f].at] \cap Before(forget[f].pc) = {}

\* Nothing writes beside a call that runs alone, and while the corpus is registered what was
\* so when the call started is so.
Fine(f) ==
  /\ forget[f].whole => forget[f].alone
  /\ Alone(f) => ~Busy
  /\ Alone(f) /\ registry.corpus => /\ forget[f].whole => AllRegistered
                                    /\ HasRead(f) /\ HasEmptied(f)

NothingThere ==
  /\ ~source /\ ~objects /\ legal = {}
  /\ \A r \in Reviews : review[r].owned => parts[r] = {}

\* After a call that ran alone and found all registered, nothing is there and nothing writes.
Left == ~registry.corpus /\ last.alone /\ last.whole => ~Busy /\ NothingThere

Inv == Owned /\ Left /\ \A f \in Forgets : Fine(f)

LEMMA InitInv == Init => Inv
<1> SUFFICES ASSUME Init
             PROVE  Inv
  OBVIOUS
<1>1. ASSUME NEW f \in Forgets
      PROVE  forget[f].pc = "idle" /\ ~forget[f].whole
  BY DEF Init, NewForget
<1>2. registry.reviews = {} /\ ~last.alone /\ \A r \in Reviews : review[r].pc # "bind"
  BY DEF Init, NoRegistry, NotForgotten
<1> QED
  BY <1>1, <1>2 DEF Inv, Owned, Left, Fine, Alone

\* The calls under way when a writer starts no longer run alone.
LEMMA StartKeeps ==
  ASSUME TypeOK, Inv, forget' = Disturbed, Owned', Left'
  PROVE  Inv'
<1>1. ASSUME NEW f \in Forgets
      PROVE  Fine(f)'
  <2>1. CASE forget[f].pc = "idle"
    <3>1. forget'[f] = forget[f]
      BY <1>1, <2>1 DEF Disturbed
    <3> QED
      BY <2>1, <3>1 DEF Inv, Fine, Alone
  <2>2. CASE forget[f].pc # "idle"
    <3>1. forget'[f] = [forget[f] EXCEPT !.alone = FALSE, !.whole = FALSE]
      BY <1>1, <2>2 DEF Disturbed
    <3>2. ~forget'[f].alone /\ ~forget'[f].whole
      BY <1>1, <3>1 DEF TypeOK, ForgetRec
    <3> QED
      BY <3>2 DEF Fine, Alone
  <2> QED
    BY <2>1, <2>2
<1> QED
  BY <1>1 DEF Inv

\* A writer at work: no forget call runs alone, and none has just ended so.
LEMMA BusyKeeps ==
  ASSUME Inv, Busy, forget' = forget, last' = last, registry'.corpus = registry.corpus, Owned'
  PROVE  Inv'
<1>1. ASSUME NEW f \in Forgets
      PROVE  Fine(f)'
  BY <1>1 DEF Inv, Fine, Alone
<1>2. Left'
  BY DEF Inv, Left
<1> QED
  BY <1>1, <1>2 DEF Inv

LEMMA IndexKeeps == TypeOK /\ Inv /\ IndexNext => Inv'
<1> SUFFICES ASSUME TypeOK, Inv, NEW i \in Indexers,
                    \/ \E profile \in {"general", "legal", "all"} : IndexStarts(i, profile)
                    \/ IndexAdds(i) \/ IndexBinds(i) \/ IndexSyncs(i) \/ IndexCommits(i)
                    \/ IndexIngests(i)
             PROVE  Inv'
  BY DEF IndexNext
<1>1. ASSUME NEW profile \in {"general", "legal", "all"}, IndexStarts(i, profile) PROVE Inv'
  <2>1. registry'.reviews = registry.reviews /\ registry'.corpus
    BY <1>1 DEF IndexStarts, TypeOK, RegistryRec
  <2>2. Owned' /\ Left'
    BY <1>1, <2>1 DEF IndexStarts, Inv, Owned, Left
  <2>3. forget' = Disturbed
    BY <1>1 DEF IndexStarts
  <2> QED
    BY <2>2, <2>3, StartKeeps
<1>2. ASSUME IndexAdds(i) \/ IndexBinds(i) \/ IndexSyncs(i) \/ IndexCommits(i) \/ IndexIngests(i)
      PROVE  Inv'
  <2>1. Busy
    BY <1>2 DEF IndexAdds, IndexBinds, IndexSyncs, IndexCommits, IndexIngests, Busy
  <2>2. registry'.corpus = registry.corpus /\ registry'.reviews = registry.reviews
    BY <1>2 DEF IndexAdds, IndexBinds, IndexSyncs, IndexCommits, IndexIngests, TypeOK, RegistryRec
  <2>3. forget' = forget /\ last' = last /\ review' = review
    BY <1>2 DEF IndexAdds, IndexBinds, IndexSyncs, IndexCommits, IndexIngests
  <2>4. Owned'
    BY <2>2, <2>3 DEF Inv, Owned
  <2> QED
    BY <2>1, <2>2, <2>3, <2>4, BusyKeeps
<1> QED
  BY <1>1, <1>2

LEMMA WalkKeeps == TypeOK /\ Inv /\ WalkNext => Inv'
<1> SUFFICES ASSUME TypeOK, Inv, WalkNext
             PROVE  Inv'
  OBVIOUS
<1>1. ASSUME NEW d \in Files, WalkTakes(d) \/ WalkMisses(d) \/ WalkAdds(d)
      PROVE  /\ walk.pc # "idle" /\ forget' = forget /\ last' = last /\ review' = review
             /\ registry'.corpus = registry.corpus /\ registry'.reviews = registry.reviews
  BY <1>1 DEF WalkTakes, WalkMisses, WalkAdds, TypeOK, RegistryRec
<1>2. ASSUME WalkBinds \/ WalkEndsUnregistered
      PROVE  /\ walk.pc # "idle" /\ forget' = forget /\ last' = last /\ review' = review
             /\ registry'.corpus = registry.corpus /\ registry'.reviews = registry.reviews
  BY <1>2 DEF WalkBinds, WalkEndsUnregistered, TypeOK, RegistryRec
<1>3. /\ walk.pc # "idle" /\ forget' = forget /\ last' = last /\ review' = review
      /\ registry'.corpus = registry.corpus /\ registry'.reviews = registry.reviews
  BY <1>1, <1>2 DEF WalkNext
<1>4. Owned'
  BY <1>3 DEF Inv, Owned
<1> QED
  BY <1>3, <1>4, BusyKeeps DEF Busy

\* What happens to a review of no corpus is nothing to a forget call.
LEMMA UnownedKeeps ==
  ASSUME TypeOK, Inv, NEW r \in Reviews, r \notin registry.reviews,
         UNCHANGED <<registry, source, objects, legal, index, walk, forget, last>>,
         ~review'[r].owned, review'[r].pc # "bind",
         \A s \in Reviews \ {r} : review'[s] = review[s] /\ parts'[s] = parts[s]
  PROVE  Inv'
<1>1. ~Busy => ~Busy'
  BY DEF Busy, AtWork
<1>2. AllRegistered => AllRegistered'
  BY DEF AllRegistered
<1>3. NothingThere => NothingThere'
  BY DEF NothingThere
<1>4. Owned' /\ Left'
  BY <1>1, <1>3 DEF Inv, Owned, Left, TypeOK, RegistryRec
<1>5. ASSUME NEW f \in Forgets
      PROVE  Fine(f)'
  <2>1. Alone(f)' = Alone(f) /\ HasRead(f)' = HasRead(f)
    BY DEF Alone, HasRead
  <2>2. HasRead(f) /\ HasEmptied(f) => HasEmptied(f)'
    <3>1. \A s \in registry.reviews : parts'[s] = parts[s]
      BY DEF TypeOK, RegistryRec
    <3> QED
      BY <3>1 DEF HasRead, HasEmptied
  <2> QED
    BY <1>1, <1>2, <2>1, <2>2 DEF Inv, Fine
<1> QED
  BY <1>4, <1>5 DEF Inv

\* A review at work changes itself, its tables and its binding.
LEMMA ReviewEffect ==
  ASSUME TypeOK, NEW r \in Reviews,
         \/ CreateStoresHeader(r) \/ CreateStoresColumns(r) \/ CreateBinds(r)
         \/ CreateUndoes(r) \/ StoresRows(r) \/ StoresCells(r)
  PROVE  /\ review'[r].owned = review[r].owned /\ (review'[r].pc = "bind" => review[r].owned)
         /\ \A s \in Reviews \ {r} : review'[s] = review[s] /\ parts'[s] = parts[s]
         /\ UNCHANGED <<source, objects, legal, index, walk, forget, last>>
         /\ \/ registry' = registry
            \/ /\ registry'.corpus = registry.corpus
               /\ registry'.reviews = registry.reviews \cup {r}
               /\ review[r].pc = "bind"
<1>1. \E pc \in {"columns", "gone", "bind", "ready", "undo columns", "undo header", "extract"} :
        review' = [review EXCEPT ![r].pc = pc] /\ (pc = "bind" => review[r].owned)
  <2>1. CASE CreateStoresHeader(r)
    BY <2>1 DEF CreateStoresHeader
  <2>2. CASE CreateStoresColumns(r)
    BY <2>2 DEF CreateStoresColumns
  <2>3. CASE CreateBinds(r)
    BY <2>3 DEF CreateBinds
  <2>4. CASE CreateUndoes(r)
    BY <2>4 DEF CreateUndoes
  <2>5. CASE StoresRows(r)
    BY <2>5 DEF StoresRows
  <2>6. CASE StoresCells(r)
    BY <2>6 DEF StoresCells
  <2> QED
    BY <2>1, <2>2, <2>3, <2>4, <2>5, <2>6
<1>2. \A s \in Reviews \ {r} : parts'[s] = parts[s]
  <2>1. CASE CreateStoresHeader(r)
    BY <2>1 DEF TypeOK, CreateStoresHeader
  <2>2. CASE CreateStoresColumns(r)
    BY <2>2 DEF TypeOK, CreateStoresColumns
  <2>3. CASE CreateBinds(r)
    BY <2>3 DEF TypeOK, CreateBinds, stores
  <2>4. CASE CreateUndoes(r)
    BY <2>4 DEF TypeOK, CreateUndoes
  <2>5. CASE StoresRows(r)
    BY <2>5 DEF TypeOK, StoresRows
  <2>6. CASE StoresCells(r)
    BY <2>6 DEF TypeOK, StoresCells
  <2> QED
    BY <2>1, <2>2, <2>3, <2>4, <2>5, <2>6
<1>3. /\ UNCHANGED <<source, objects, legal, index, walk, forget, last>>
      /\ \/ registry' = registry
         \/ /\ registry'.corpus = registry.corpus
            /\ registry'.reviews = registry.reviews \cup {r}
            /\ review[r].pc = "bind"
  <2>1. CASE CreateBinds(r)
    BY <2>1 DEF CreateBinds, stores, TypeOK, RegistryRec
  <2>2. CASE ~CreateBinds(r)
    BY <2>2 DEF CreateStoresHeader, CreateStoresColumns, CreateUndoes, StoresRows, StoresCells
  <2> QED
    BY <2>1, <2>2
<1>4. PICK pc : review' = [review EXCEPT ![r].pc = pc] /\ (pc = "bind" => review[r].owned)
  BY <1>1
<1>5. review \in [Reviews -> [pc : {"new", "ready", "gone"} \cup Creating \cup Filling,
                              owned : BOOLEAN]]
  BY DEF TypeOK, ReviewRec
<1>6. /\ review'[r].owned = review[r].owned /\ review'[r].pc = pc
      /\ \A s \in Reviews \ {r} : review'[s] = review[s]
  BY <1>4, <1>5
<1> QED
  BY <1>2, <1>3, <1>4, <1>6

LEMMA ReviewKeeps == TypeOK /\ Inv /\ ReviewNext => Inv'
<1> SUFFICES ASSUME TypeOK, Inv, NEW r \in Reviews,
                    \/ CreateStarts(r) \/ CreateStoresHeader(r) \/ CreateStoresColumns(r)
                    \/ CreateBinds(r) \/ CreateUndoes(r) \/ RowsStart(r) \/ StoresRows(r)
                    \/ ExtractionStarts(r) \/ StoresCells(r)
             PROVE  Inv'
  BY DEF ReviewNext
<1>0. registry.corpus \/ (registry = NoRegistry /\ registry.reviews = {})
  BY DEF TypeOK, NoRegistry
<1>1. CASE CreateStarts(r)
  <2>1. /\ review'[r].owned = registry.corpus /\ review'[r].pc = "header"
        /\ \A s \in Reviews \ {r} : review'[s] = review[s]
    BY <1>1 DEF CreateStarts, TypeOK
  <2>2. CASE registry.corpus
    <3>1. Owned' /\ Left'
      BY <1>1, <2>1, <2>2 DEF CreateStarts, Inv, Owned, Left, TypeOK, RegistryRec
    <3>2. forget' = Disturbed
      BY <1>1, <2>2 DEF CreateStarts
    <3> QED
      BY <3>1, <3>2, StartKeeps
  <2>3. CASE ~registry.corpus
    <3>1. r \notin registry.reviews
      BY <1>0, <2>3
    <3>2. /\ ~review'[r].owned /\ review'[r].pc # "bind"
      BY <2>1, <2>3
    <3>3. UNCHANGED <<registry, source, objects, legal, index, walk, forget, last>> /\ parts' = parts
      BY <1>1, <2>3 DEF CreateStarts, stores
    <3> QED
      BY <2>1, <3>1, <3>2, <3>3, UnownedKeeps
  <2> QED
    BY <2>2, <2>3
<1>2. CASE RowsStart(r)
  <2>1. registry.corpus
    BY <1>0, <1>2 DEF RowsStart
  <2>2. \A s \in Reviews : review'[s].owned = review[s].owned /\ (review'[s].pc = "bind" => review[s].pc = "bind")
    BY <1>2 DEF RowsStart, TypeOK, ReviewRec
  <2>3. Owned' /\ Left'
    BY <1>2, <2>1, <2>2 DEF RowsStart, Inv, Owned, Left, TypeOK, RegistryRec
  <2>4. forget' = Disturbed
    BY <1>2 DEF RowsStart
  <2> QED
    BY <2>3, <2>4, StartKeeps
<1>3. CASE ExtractionStarts(r)
  <2>1. /\ review'[r].owned = review[r].owned /\ review'[r].pc # "bind"
        /\ \A s \in Reviews \ {r} : review'[s] = review[s]
    BY <1>3 DEF ExtractionStarts, TypeOK, ReviewRec
  <2>2. UNCHANGED <<registry, source, objects, legal, parts, index, walk, last>>
    BY <1>3 DEF ExtractionStarts, stores
  <2>3. Owned'
    BY <2>1, <2>2 DEF Inv, Owned, TypeOK, RegistryRec
  <2>4. CASE ~review[r].owned
    <3>1. r \notin registry.reviews
      BY <2>4 DEF Inv, Owned
    <3>2. forget' = forget
      BY <1>3, <2>4 DEF ExtractionStarts
    <3> QED
      BY <2>1, <2>2, <2>4, <3>1, <3>2, UnownedKeeps
  <2>5. CASE review[r].owned /\ forget' = Disturbed /\ parts[r] # {}
    <3>1. Left'
      BY <2>2, <2>5 DEF Inv, Left, NothingThere
    <3> QED
      BY <2>3, <2>5, <3>1, StartKeeps
  <2>6. CASE review[r].owned /\ forget' = forget /\ review[r].pc = "extract"
    <3>1. Busy
      BY <2>6 DEF Busy, AtWork, Filling
    <3> QED
      BY <2>2, <2>3, <2>6, <3>1, BusyKeeps
  <2> QED
    BY <1>3, <2>4, <2>5, <2>6 DEF ExtractionStarts
<1>4. ASSUME \/ CreateStoresHeader(r) \/ CreateStoresColumns(r) \/ CreateBinds(r)
             \/ CreateUndoes(r) \/ StoresRows(r) \/ StoresCells(r)
      PROVE  Inv'
  <2>1. AtWork(r)
    BY <1>4 DEF CreateStoresHeader, CreateStoresColumns, CreateBinds, CreateUndoes, StoresRows,
                StoresCells, AtWork, Creating, Filling
  <2>2. /\ review'[r].owned = review[r].owned /\ (review'[r].pc = "bind" => review[r].owned)
        /\ \A s \in Reviews \ {r} : review'[s] = review[s] /\ parts'[s] = parts[s]
    BY <1>4, ReviewEffect
  <2>3. UNCHANGED <<source, objects, legal, index, walk, forget, last>>
    BY <1>4, ReviewEffect
  <2>4. \/ registry' = registry
        \/ /\ registry'.corpus = registry.corpus /\ registry'.reviews = registry.reviews \cup {r}
           /\ review[r].pc = "bind"
    BY <1>4, ReviewEffect
  <2>5. CASE review[r].owned
    <3>1. Owned'
      BY <2>2, <2>4, <2>5 DEF Inv, Owned, TypeOK, RegistryRec
    <3>2. Busy
      BY <2>1, <2>5 DEF Busy
    <3> QED
      BY <2>3, <2>4, <3>1, <3>2, BusyKeeps
  <2>6. CASE ~review[r].owned
    <3>1. r \notin registry.reviews /\ review[r].pc # "bind"
      BY <2>6 DEF Inv, Owned
    <3> QED
      BY <2>2, <2>3, <2>4, <2>6, <3>1, UnownedKeeps
  <2> QED
    BY <2>5, <2>6
<1> QED
  BY <1>1, <1>2, <1>3, <1>4

-----------------------------------------------------------------------------
(* Forget calls.                                                            *)

\* What a forget call may do to the stores.
Shrink ==
  /\ source' \in BOOLEAN /\ source' => source
  /\ (objects => source) => (objects' => source')
  /\ objects' => objects
  /\ legal' \subseteq legal
  /\ \A r \in Reviews : parts'[r] \subseteq parts[r]

\* A call that takes from the stores leaves true what concerns the other calls.
LEMMA ShrinkKeeps ==
  ASSUME TypeOK, Inv, Shrink, UNCHANGED <<registry, index, walk, review, last>>
  PROVE  /\ Owned' /\ Left' /\ Busy' = Busy /\ (AllRegistered => AllRegistered')
         /\ \A g \in Forgets : forget'[g] = forget[g] => Fine(g)'
<1>1. Owned' /\ Busy' = Busy
  BY DEF Inv, Owned, Busy, AtWork
<1>2. AllRegistered => AllRegistered'
  BY DEF AllRegistered, Shrink, TypeOK
<1>3. NothingThere => NothingThere'
  BY DEF NothingThere, Shrink, TypeOK
<1>4. Left'
  BY <1>1, <1>3 DEF Inv, Left
<1>5. ASSUME NEW g \in Forgets, forget'[g] = forget[g]
      PROVE  Fine(g)'
  <2>1. Alone(g)' = Alone(g) /\ HasRead(g)' = HasRead(g)
    BY <1>5 DEF Alone, HasRead
  <2>2. HasRead(g) /\ HasEmptied(g) => HasEmptied(g)'
    <3>1. registry.reviews \subseteq Reviews
      BY DEF TypeOK, RegistryRec
    <3> QED
      BY <1>5, <3>1 DEF HasRead, HasEmptied, Shrink
  <2> QED
    BY <1>1, <1>2, <1>5, <2>1, <2>2 DEF Inv, Fine
<1> QED
  BY <1>1, <1>2, <1>4, <1>5

\* A step of one call within its run.
LEMMA StepKeeps ==
  ASSUME TypeOK, Inv, NEW f \in Forgets, \A g \in Forgets \ {f} : forget'[g] = forget[g],
         forget[f].pc # "idle", forget'[f].alone = forget[f].alone,
         forget'[f].whole = forget[f].whole,
         Shrink, UNCHANGED <<registry, index, walk, review, last>>,
         Alone(f) /\ registry.corpus => HasRead(f)' /\ HasEmptied(f)'
  PROVE  Inv'
<1>1. Fine(f)'
  BY ShrinkKeeps DEF Inv, Fine, Alone
<1> QED
  BY <1>1, ShrinkKeeps DEF Inv

\* A step that leaves the stores alone, and one that empties part of one.
LEMMA Shrinks ==
  ASSUME TypeOK
  PROVE  /\ UNCHANGED stores => Shrink
         /\ \A f \in Forgets : /\ ForgetDeletesDocuments(f) => Shrink
                               /\ ForgetSource(f) => Shrink
                               /\ ForgetFolder(f) => Shrink
                               /\ ForgetDeletesPart(f) => Shrink
<1>1. UNCHANGED stores => Shrink
  BY DEF stores, Shrink, TypeOK
<1>2. ASSUME NEW f \in Forgets, ForgetDeletesDocuments(f) \/ ForgetFolder(f)
      PROVE  Shrink
  BY <1>2 DEF ForgetDeletesDocuments, ForgetFolder, DeletesChunks, Shrink, TypeOK
<1>3. ASSUME NEW f \in Forgets, ForgetSource(f)
      PROVE  Shrink
  BY <1>3 DEF ForgetSource, Shrink, TypeOK
<1>4. ASSUME NEW f \in Forgets, ForgetDeletesPart(f)
      PROVE  Shrink
  BY <1>4 DEF ForgetDeletesPart, Shrink, TypeOK
<1> QED
  BY <1>1, <1>2, <1>3, <1>4

LEMMA StartsForgetKeeps == TypeOK /\ Inv => \A f \in Forgets : ForgetStarts(f) => Inv'
<1> SUFFICES ASSUME TypeOK, Inv, NEW f \in Forgets, ForgetStarts(f)
             PROVE  Inv'
  OBVIOUS
<1>1. /\ forget'[f].pc = "documents" /\ forget'[f].source = registry.source
      /\ forget'[f].reviews = registry.reviews
      /\ forget'[f].alone = ~Busy /\ forget'[f].whole = (~Busy /\ AllRegistered)
      /\ \A g \in Forgets \ {f} : forget'[g] = forget[g]
  BY DEF ForgetStarts, NewForget, TypeOK
<1>2. UNCHANGED <<registry, stores, index, walk, review, last>>
  BY DEF ForgetStarts, writers
<1>3. /\ Owned' /\ Left' /\ Busy' = Busy /\ (AllRegistered => AllRegistered')
      /\ \A g \in Forgets \ {f} : Fine(g)'
  BY <1>1, <1>2, Shrinks, ShrinkKeeps
<1>4. HasRead(f)' /\ HasEmptied(f)'
  <2>1. "documents" \notin AfterChunks /\ "documents" \notin AfterSource /\ "documents" \notin AfterFolder
        /\ "documents" \notin Parts
    BY DEF AfterChunks, AfterSource, AfterFolder, Parts
  <2> QED
    BY <1>1, <1>2, <2>1 DEF HasRead, HasEmptied
<1>5. Fine(f)'
  BY <1>1, <1>3, <1>4 DEF Fine, Alone
<1> QED
  BY <1>3, <1>5 DEF Inv

\* Where a call is says what it is past.
LEMMA Places ==
  /\ "chunks" \notin AfterChunks \cup AfterSource \cup AfterFolder \cup Parts
  /\ "source" \in AfterChunks /\ "source" \notin AfterSource \cup AfterFolder \cup Parts
  /\ "folder" \in AfterChunks \cap AfterSource /\ "folder" \notin AfterFolder \cup Parts
  /\ "reviews" \in AfterChunks \cap AfterSource \cap AfterFolder /\ "reviews" \notin Parts
  /\ Parts \subseteq AfterChunks \cap AfterSource \cap AfterFolder
  /\ \A p \in Parts : p \notin {"idle", "documents", "chunks", "source", "folder"}
BY DEF AfterChunks, AfterSource, AfterFolder, Parts

LEMMA ReadsKeeps == TypeOK /\ Inv => \A f \in Forgets : ForgetReadsDocuments(f) => Inv'
<1> SUFFICES ASSUME TypeOK, Inv, NEW f \in Forgets, ForgetReadsDocuments(f)
             PROVE  Inv'
  OBVIOUS
<1>1. /\ forget'[f].reviews = forget[f].reviews /\ forget'[f].source = forget[f].source
      /\ forget'[f].alone = forget[f].alone /\ forget'[f].whole = forget[f].whole
      /\ \/ forget'[f].pc = "chunks" /\ forget'[f].docs = registry.docs
         \/ forget'[f].pc = "source" /\ forget'[f].failed
      /\ \A g \in Forgets \ {f} : forget'[g] = forget[g]
  BY DEF ForgetReadsDocuments, TypeOK, ForgetRec
<1>2. UNCHANGED <<registry, stores, index, walk, review, last>> /\ forget[f].pc = "documents"
  BY DEF ForgetReadsDocuments, writers
<1>3. ASSUME Alone(f), registry.corpus
      PROVE  HasRead(f)' /\ HasEmptied(f)'
  <2>1. HasRead(f)
    BY <1>3 DEF Inv, Fine
  <2>2. HasRead(f)'
    BY <1>1, <1>2, <2>1 DEF HasRead
  <2>3. HasEmptied(f)'
    BY <1>1, Places DEF HasEmptied
  <2> QED
    BY <2>2, <2>3
<1>4. UNCHANGED <<registry, index, walk, review, last>> /\ forget[f].pc # "idle" /\ Shrink
  BY <1>2, Shrinks
<1> QED
  BY <1>1, <1>3, <1>4, StepKeeps

\* What a deletion of chunks does to its call.
LEMMA DeletesEffect ==
  ASSUME TypeOK, NEW f \in Forgets, NEW S, NEW calls, NEW next, DeletesChunks(f, S, calls, next)
  PROVE  /\ forget'[f].pc = next /\ forget'[f].source = forget[f].source
         /\ forget'[f].reviews = forget[f].reviews
         /\ forget'[f].alone = forget[f].alone /\ forget'[f].whole = forget[f].whole
         /\ \A g \in Forgets \ {f} : forget'[g] = forget[g]
         /\ \/ forget'[f].failed
            \/ legal' = legal \ S /\ forget'[f].failed = forget[f].failed
BY DEF DeletesChunks, TypeOK, ForgetRec

LEMMA DeletesDocumentsKeeps == TypeOK /\ Inv => \A f \in Forgets : ForgetDeletesDocuments(f) => Inv'
<1> SUFFICES ASSUME TypeOK, Inv, NEW f \in Forgets, ForgetDeletesDocuments(f)
             PROVE  Inv'
  OBVIOUS
<1>1. DeletesChunks(f, forget[f].docs, forget[f].docs # {}, "source")
  BY DEF ForgetDeletesDocuments
<1>2. UNCHANGED <<registry, index, walk, review, last>> /\ forget[f].pc = "chunks" /\ Shrink
  BY Shrinks DEF ForgetDeletesDocuments, writers
<1>3. ASSUME Alone(f), registry.corpus
      PROVE  HasRead(f)' /\ HasEmptied(f)'
  <2>1. HasRead(f)
    BY <1>3 DEF Inv, Fine
  <2>2. HasRead(f)'
    BY <1>1, <1>2, <2>1, DeletesEffect DEF HasRead
  <2>3. ~forget'[f].failed => legal' \cap registry.docs = {}
    BY <1>1, <1>2, <2>1, DeletesEffect DEF HasRead
  <2>4. HasEmptied(f)'
    BY <1>1, <1>2, <2>3, DeletesEffect, Places DEF HasEmptied
  <2> QED
    BY <2>2, <2>4
<1>4. /\ forget'[f].alone = forget[f].alone /\ forget'[f].whole = forget[f].whole
      /\ \A g \in Forgets \ {f} : forget'[g] = forget[g]
  BY <1>1, DeletesEffect
<1>5. UNCHANGED <<registry, index, walk, review, last>> /\ forget[f].pc # "idle"
  BY <1>2
<1> QED
  BY <1>2, <1>3, <1>4, <1>5, StepKeeps

LEMMA FolderKeeps == TypeOK /\ Inv => \A f \in Forgets : ForgetFolder(f) => Inv'
<1> SUFFICES ASSUME TypeOK, Inv, NEW f \in Forgets, ForgetFolder(f)
             PROVE  Inv'
  OBVIOUS
<1>1. PICK S : DeletesChunks(f, S, forget[f].folder, "reviews")
  BY DEF ForgetFolder
<1>2. UNCHANGED <<registry, source, index, walk, review, last>> /\ forget[f].pc = "folder" /\ Shrink
  BY Shrinks DEF ForgetFolder, writers
<1>3. ASSUME Alone(f), registry.corpus
      PROVE  HasRead(f)' /\ HasEmptied(f)'
  <2>1. HasRead(f) /\ HasEmptied(f)
    BY <1>3 DEF Inv, Fine
  <2>2. HasRead(f)'
    BY <1>1, <1>2, <2>1, DeletesEffect DEF HasRead
  <2>3. ~forget'[f].failed =>
          legal' \cap registry.docs = {} /\ ~(registry.source /\ source)
    BY <1>1, <1>2, <2>1, DeletesEffect, Places DEF HasEmptied, Shrink
  <2>4. registry.reviews \ forget'[f].reviews = {}
    BY <1>1, <1>2, <2>1, DeletesEffect DEF HasRead
  <2>5. HasEmptied(f)'
    BY <1>1, <1>2, <2>3, <2>4, DeletesEffect, Places DEF HasEmptied
  <2> QED
    BY <2>2, <2>5
<1>4. /\ forget'[f].alone = forget[f].alone /\ forget'[f].whole = forget[f].whole
      /\ \A g \in Forgets \ {f} : forget'[g] = forget[g]
  BY <1>1, DeletesEffect
<1>5. UNCHANGED <<registry, index, walk, review, last>> /\ forget[f].pc # "idle"
  BY <1>2
<1> QED
  BY <1>2, <1>3, <1>4, <1>5, StepKeeps

LEMMA SourceKeeps == TypeOK /\ Inv => \A f \in Forgets : ForgetSource(f) => Inv'
<1> SUFFICES ASSUME TypeOK, Inv, NEW f \in Forgets, ForgetSource(f)
             PROVE  Inv'
  OBVIOUS
<1>1. /\ forget'[f].pc = "folder" /\ forget'[f].reviews = forget[f].reviews
      /\ forget'[f].alone = forget[f].alone /\ forget'[f].whole = forget[f].whole
      /\ \A g \in Forgets \ {f} : forget'[g] = forget[g]
      /\ \/ forget'[f].failed
         \/ /\ source' = (source /\ ~forget[f].source)
            /\ forget'[f].failed = forget[f].failed
  BY DEF ForgetSource, TypeOK, ForgetRec
<1>2. /\ UNCHANGED <<registry, legal, parts, index, walk, review, last>>
      /\ forget[f].pc = "source" /\ Shrink
  BY Shrinks DEF ForgetSource, writers
<1>3. ASSUME Alone(f), registry.corpus
      PROVE  HasRead(f)' /\ HasEmptied(f)'
  <2>1. HasRead(f) /\ HasEmptied(f)
    BY <1>3 DEF Inv, Fine
  <2>2. HasRead(f)'
    BY <1>1, <1>2, <2>1 DEF HasRead
  <2>3. ~forget'[f].failed => legal \cap registry.docs = {} /\ ~(registry.source /\ source')
    BY <1>1, <1>2, <2>1, Places DEF HasRead, HasEmptied
  <2>4. HasEmptied(f)'
    BY <1>1, <1>2, <2>3, Places DEF HasEmptied
  <2> QED
    BY <2>2, <2>4
<1> QED
  BY <1>1, <1>2, <1>3, StepKeeps

LEMMA TakesReviewKeeps ==
  TypeOK /\ Inv => \A f \in Forgets, r \in Reviews : ForgetTakesReview(f, r) => Inv'
<1> SUFFICES ASSUME TypeOK, Inv, NEW f \in Forgets, NEW r \in Reviews, ForgetTakesReview(f, r)
             PROVE  Inv'
  OBVIOUS
<1>1. /\ forget'[f].pc = "cells" /\ forget'[f].at = r
      /\ forget'[f].reviews = forget[f].reviews /\ forget'[f].failed = forget[f].failed
      /\ forget'[f].alone = forget[f].alone /\ forget'[f].whole = forget[f].whole
      /\ \A g \in Forgets \ {f} : forget'[g] = forget[g]
  BY DEF ForgetTakesReview, TypeOK, ForgetRec
<1>2. /\ UNCHANGED <<registry, stores, index, walk, review, last>>
      /\ forget[f].pc = "reviews" /\ r \in forget[f].reviews
  BY DEF ForgetTakesReview, writers
<1>3. UNCHANGED <<registry, index, walk, review, last>> /\ forget[f].pc # "idle" /\ Shrink
  BY <1>2, Shrinks
<1>4. UNCHANGED <<source, legal, parts>>
  BY <1>2 DEF stores
<1>5. Before("cells") = {} /\ "cells" \in Parts
  BY DEF Before, Parts
<1>6. ASSUME Alone(f), registry.corpus
      PROVE  HasRead(f)' /\ HasEmptied(f)'
  <2>1. HasRead(f) /\ HasEmptied(f)
    BY <1>6 DEF Inv, Fine
  <2>2. HasRead(f)'
    BY <1>1, <1>2, <1>5, <2>1, Places DEF HasRead
  <2>3. ~forget'[f].failed =>
          /\ legal \cap registry.docs = {} /\ ~(registry.source /\ source)
          /\ \A q \in registry.reviews \ forget[f].reviews : parts[q] = {}
    BY <1>1, <1>2, <2>1, Places DEF HasEmptied
  <2>4. HasEmptied(f)'
    BY <1>1, <1>2, <1>4, <1>5, <2>3, Places DEF HasEmptied
  <2> QED
    BY <2>2, <2>4
<1> QED
  BY <1>1, <1>3, <1>6, StepKeeps

\* What the next deletion finds empty is what this one found empty, and what it has deleted.
LEMMA BeforeNext ==
  /\ \A p \in Parts \ {"review"} : NextPart[p] \in Parts /\ Before(NextPart[p]) = Before(p) \cup {p}
  /\ Parts = Before("review") \cup {"review"}
<1>1. /\ Before("cells") = {} /\ Before("rows") = {"cells"} /\ Before("columns") = {"cells", "rows"}
      /\ Before("review") = {"cells", "rows", "columns"}
  BY DEF Before
<1>2. NextPart["cells"] = "rows" /\ NextPart["rows"] = "columns" /\ NextPart["columns"] = "review"
  BY DEF NextPart
<1> QED
  BY <1>1, <1>2 DEF Parts

\* The step of a call at a table of the review at: it fails, goes on to the next table or is
\* done with the review.
LEMMA PartEffect ==
  ASSUME TypeOK, NEW f \in Forgets, ForgetDeletesPart(f)
  PROVE  /\ forget'[f].alone = forget[f].alone /\ forget'[f].whole = forget[f].whole
         /\ \A g \in Forgets \ {f} : forget'[g] = forget[g]
         /\ \/ /\ forget'[f].pc = "reviews" /\ forget'[f].failed
               /\ forget'[f].reviews = forget[f].reviews \ {forget[f].at}
            \/ /\ forget[f].pc # "review" /\ forget'[f].pc = NextPart[forget[f].pc]
               /\ forget'[f].reviews = forget[f].reviews /\ forget'[f].at = forget[f].at
               /\ forget'[f].failed = forget[f].failed
               /\ parts' = [parts EXCEPT ![forget[f].at] = @ \ {forget[f].pc}]
            \/ /\ forget[f].pc = "review" /\ forget'[f].pc = "reviews"
               /\ forget'[f].reviews = forget[f].reviews \ {forget[f].at}
               /\ forget'[f].failed = forget[f].failed
               /\ parts' = [parts EXCEPT ![forget[f].at] = @ \ {"review"}]
<1> DEFINE p == forget[f].pc
           r == forget[f].at
           done == [forget[f] EXCEPT !.pc = "reviews", !.reviews = @ \ {r}, !.at = NoReview]
<1>0. forget[f] \in ForgetRec /\ forget \in [Forgets -> ForgetRec]
  BY DEF TypeOK
<1>1. /\ done.pc = "reviews" /\ done.reviews = forget[f].reviews \ {r}
      /\ done.failed = forget[f].failed /\ done.alone = forget[f].alone
      /\ done.whole = forget[f].whole
      /\ [done EXCEPT !.failed = TRUE].pc = "reviews" /\ [done EXCEPT !.failed = TRUE].failed
      /\ [done EXCEPT !.failed = TRUE].reviews = forget[f].reviews \ {r}
      /\ [done EXCEPT !.failed = TRUE].alone = forget[f].alone
      /\ [done EXCEPT !.failed = TRUE].whole = forget[f].whole
  BY <1>0 DEF ForgetRec
<1>2. LET n == [forget[f] EXCEPT !.pc = NextPart[p]]
      IN  /\ n.pc = NextPart[p] /\ n.reviews = forget[f].reviews /\ n.at = r
          /\ n.failed = forget[f].failed /\ n.alone = forget[f].alone /\ n.whole = forget[f].whole
  BY <1>0 DEF ForgetRec
<1>3. \/ forget' = [forget EXCEPT ![f] = [done EXCEPT !.failed = TRUE]]
      \/ /\ p # "review" /\ forget' = [forget EXCEPT ![f] = [forget[f] EXCEPT !.pc = NextPart[p]]]
         /\ parts' = [parts EXCEPT ![r] = @ \ {p}]
      \/ /\ p = "review" /\ forget' = [forget EXCEPT ![f] = done]
         /\ parts' = [parts EXCEPT ![r] = @ \ {p}]
  BY <1>0 DEF ForgetDeletesPart
<1> HIDE DEF done
<1> QED
  BY <1>0, <1>1, <1>2, <1>3

LEMMA DeletesPartKeeps == TypeOK /\ Inv => \A f \in Forgets : ForgetDeletesPart(f) => Inv'
<1> SUFFICES ASSUME TypeOK, Inv, NEW f \in Forgets, ForgetDeletesPart(f)
             PROVE  Inv'
  OBVIOUS
<1>1. /\ UNCHANGED <<registry, source, objects, legal, index, walk, review, last>>
      /\ forget[f].pc \in Parts /\ forget[f].at \in Reviews /\ Shrink
  BY Shrinks DEF ForgetDeletesPart, writers, TypeOK
<1>2. forget[f].pc # "idle"
  BY <1>1, Places
<1>3. ASSUME Alone(f), registry.corpus
      PROVE  HasRead(f)' /\ HasEmptied(f)'
  <2>1. HasRead(f) /\ HasEmptied(f)
    BY <1>3 DEF Inv, Fine
  <2>2. \/ forget'[f].pc = "reviews" /\ forget'[f].reviews = forget[f].reviews \ {forget[f].at}
        \/ forget'[f].pc \in Parts /\ forget'[f].reviews = forget[f].reviews
    BY <1>1, PartEffect, BeforeNext
  <2>3. HasRead(f)'
    BY <1>1, <2>1, <2>2, Places DEF HasRead
  <2>4. ASSUME ~forget'[f].failed
        PROVE  /\ legal \cap registry.docs = {} /\ ~(registry.source /\ source)
               /\ \A q \in registry.reviews \ forget'[f].reviews : parts'[q] = {}
               /\ forget'[f].pc \in Parts => /\ forget'[f].at \in forget'[f].reviews
                                             /\ parts'[forget'[f].at] \cap Before(forget'[f].pc) = {}
    <3>1. /\ legal \cap registry.docs = {} /\ ~(registry.source /\ source)
          /\ \A q \in registry.reviews \ forget[f].reviews : parts[q] = {}
          /\ forget[f].at \in forget[f].reviews
          /\ parts[forget[f].at] \cap Before(forget[f].pc) = {}
      BY <1>1, <2>1, <2>4, PartEffect, Places DEF HasEmptied
    <3>2. registry.reviews \subseteq Reviews /\ parts[forget[f].at] \subseteq Parts
      BY <1>1 DEF TypeOK, RegistryRec
    <3>3. parts \in [Reviews -> SUBSET Parts]
      BY DEF TypeOK
    <3>4. \A q \in registry.reviews \ forget[f].reviews : parts'[q] = {}
      BY <1>1, <3>1, <3>2 DEF Shrink
    <3>5. CASE forget[f].pc # "review"
      <4>1. /\ forget'[f].pc = NextPart[forget[f].pc] /\ forget'[f].reviews = forget[f].reviews
            /\ forget'[f].at = forget[f].at
            /\ parts' = [parts EXCEPT ![forget[f].at] = @ \ {forget[f].pc}]
        BY <2>4, <3>5, PartEffect
      <4>2. parts'[forget[f].at] = parts[forget[f].at] \ {forget[f].pc}
        BY <1>1, <3>3, <4>1
      <4> QED
        BY <1>1, <3>1, <3>4, <3>5, <4>1, <4>2, BeforeNext
    <3>6. CASE forget[f].pc = "review"
      <4>1. /\ forget'[f].pc = "reviews"
            /\ forget'[f].reviews = forget[f].reviews \ {forget[f].at}
            /\ parts' = [parts EXCEPT ![forget[f].at] = @ \ {"review"}]
        BY <2>4, <3>6, PartEffect
      <4>2. parts'[forget[f].at] = {}
        BY <1>1, <3>1, <3>2, <3>3, <3>6, <4>1, BeforeNext
      <4> QED
        BY <3>1, <3>4, <4>1, <4>2, Places
    <3> QED
      BY <3>5, <3>6
  <2>5. HasEmptied(f)'
    BY <1>1, <2>2, <2>4, Places DEF HasEmptied
  <2> QED
    BY <2>3, <2>5
<1>4. UNCHANGED <<registry, index, walk, review, last>>
  BY <1>1
<1> QED
  BY <1>1, <1>2, <1>3, <1>4, PartEffect, StepKeeps

\* A call that ran alone, found all registered and has not failed leaves nothing.
LEMMA EndLeavesNothing ==
  ASSUME TypeOK, Inv, NEW f \in Forgets, forget[f].pc = "reviews", forget[f].reviews = {},
         ~forget[f].failed, registry.corpus, forget[f].alone, forget[f].whole
  PROVE  ~Busy /\ NothingThere
<1>1. ~Busy /\ AllRegistered /\ HasEmptied(f)
  BY DEF Inv, Fine, Alone
<1>2. /\ legal \cap registry.docs = {} /\ ~(registry.source /\ source)
      /\ \A r \in registry.reviews : parts[r] = {}
  BY <1>1, Places DEF HasEmptied
<1>3. legal = {}
  BY <1>1, <1>2 DEF AllRegistered
<1>4. ~source /\ ~objects
  BY <1>1, <1>2 DEF AllRegistered, TypeOK
<1>5. \A r \in Reviews : review[r].owned => parts[r] = {}
  BY <1>1, <1>2 DEF AllRegistered
<1> QED
  BY <1>1, <1>3, <1>4, <1>5 DEF NothingThere

LEMMA EndsKeeps == TypeOK /\ Inv => \A f \in Forgets : ForgetEnds(f) => Inv'
<1> SUFFICES ASSUME TypeOK, Inv, NEW f \in Forgets, ForgetEnds(f)
             PROVE  Inv'
  OBVIOUS
<1>1. /\ forget'[f].pc = "idle" /\ ~forget'[f].whole
      /\ \A g \in Forgets \ {f} : forget'[g] = forget[g]
  BY DEF ForgetEnds, NewForget, TypeOK
<1>2. UNCHANGED <<source, objects, legal, parts, index, walk, review>>
  BY DEF ForgetEnds, stores, writers
<1>3. Busy' = Busy /\ NothingThere' = NothingThere
  BY <1>2 DEF Busy, AtWork, NothingThere
<1>4. Fine(f)'
  BY <1>1 DEF Fine, Alone
<1>5. CASE UNCHANGED <<registry, last>>
  <2>1. UNCHANGED stores
    BY <1>2 DEF stores
  <2>2. /\ Owned' /\ Left' /\ \A g \in Forgets \ {f} : Fine(g)'
    BY <1>1, <1>2, <1>5, <2>1, Shrinks, ShrinkKeeps
  <2> QED
    BY <1>4, <2>2 DEF Inv
<1>6. CASE ~forget[f].failed /\ DeletesRegistry(f)
  <2>1. registry' = NoRegistry /\ ~registry'.corpus /\ registry'.reviews = {}
    BY <1>6 DEF DeletesRegistry, NoRegistry
  <2>2. Owned'
    BY <1>2, <2>1 DEF Inv, Owned
  <2>3. ASSUME NEW g \in Forgets \ {f}
        PROVE  Fine(g)'
    BY <1>1, <1>3, <2>1, <2>3 DEF Inv, Fine, Alone
  <2>4. Left'
    <3>1. CASE ~registry.corpus
      <4>1. last' = last
        BY <1>6, <3>1 DEF DeletesRegistry
      <4> QED
        BY <1>3, <3>1, <4>1 DEF Inv, Left
    <3>2. CASE registry.corpus
      <4>1. last'.alone = forget[f].alone /\ last'.whole = forget[f].whole
        BY <1>6, <3>2 DEF DeletesRegistry
      <4>2. forget[f].pc = "reviews" /\ forget[f].reviews = {}
        BY DEF ForgetEnds
      <4>3. forget[f].alone /\ forget[f].whole => ~Busy /\ NothingThere
        BY <1>6, <3>2, <4>2, EndLeavesNothing
      <4> QED
        BY <1>3, <4>1, <4>3 DEF Left
    <3> QED
      BY <3>1, <3>2
  <2> QED
    BY <1>4, <2>2, <2>3, <2>4 DEF Inv
<1> QED
  BY <1>5, <1>6 DEF ForgetEnds

LEMMA ForgetOnlyKeeps == TypeOK /\ Inv /\ (ForgetOnlySource \/ ForgetOnlyLegal) => Inv'
<1> SUFFICES ASSUME TypeOK, Inv, ForgetOnlySource \/ ForgetOnlyLegal
             PROVE  Inv'
  OBVIOUS
<1>1. Shrink
  BY DEF ForgetOnlySource, ForgetOnlyLegal, Shrink, TypeOK
<1>2. UNCHANGED <<registry, index, walk, review, last>> /\ forget' = forget
  BY DEF ForgetOnlySource, ForgetOnlyLegal, writers
<1> QED
  BY <1>1, <1>2, ShrinkKeeps DEF Inv

LEMMA CrashKeeps == TypeOK /\ Inv /\ Crash => Inv'
<1> SUFFICES ASSUME TypeOK, Inv, Crash
             PROVE  Inv'
  OBVIOUS
<1>1. UNCHANGED <<registry, source, objects, legal, parts, last>>
  BY DEF Crash, stores
<1>2. ASSUME NEW r \in Reviews
      PROVE  /\ review'[r].owned = review[r].owned /\ review'[r].pc # "bind"
             /\ review'[r].pc \notin Creating \cup Filling
  BY DEF Crash, TypeOK, ReviewRec, Creating, Filling
<1>3. ~Busy'
  BY <1>2 DEF Crash, Busy, AtWork, NewIndex, NewWalk
<1>4. Owned'
  BY <1>1, <1>2 DEF Inv, Owned, TypeOK, RegistryRec
<1>5. Left'
  BY <1>1, <1>2, <1>3 DEF Inv, Left, NothingThere
<1>6. ASSUME NEW f \in Forgets
      PROVE  Fine(f)'
  BY DEF Crash, Fine, Alone, NewForget
<1> QED
  BY <1>4, <1>5, <1>6 DEF Inv

LEMMA NextKeeps == TypeOK /\ Inv /\ [Next]_vars => Inv'
<1> SUFFICES ASSUME TypeOK, Inv, [Next]_vars
             PROVE  Inv'
  OBVIOUS
<1>1. CASE UNCHANGED vars
  BY <1>1 DEF vars, Inv, Owned, Left, Fine, Alone, HasRead, HasEmptied, AllRegistered,
              NothingThere, Busy, AtWork
<1>2. ASSUME NEW f \in Forgets, ForgetStarts(f) \/ ForgetStep(f)
      PROVE  Inv'
  BY <1>2, StartsForgetKeeps, ReadsKeeps, DeletesDocumentsKeeps, SourceKeeps, FolderKeeps,
     TakesReviewKeeps, DeletesPartKeeps, EndsKeeps DEF ForgetStep
<1> QED
  BY <1>1, <1>2, IndexKeeps, WalkKeeps, ReviewKeeps, ForgetOnlyKeeps, CrashKeeps
     DEF Next, ForgetNext

LEMMA Invariant == Spec => [](TypeOK /\ Inv)
<1>1. Init => TypeOK /\ Inv
  BY InitTyped, InitInv
<1>2. TypeOK /\ Inv /\ [Next]_vars => (TypeOK /\ Inv)'
  BY NextTyped, NextKeeps
<1> QED
  BY <1>1, <1>2, PTL DEF Spec

-----------------------------------------------------------------------------
\* A corpus that is gone after a forget call beside no writer, with all registered when it
\* started, has left nothing in any store (lib.rs:1890-1987), whatever has failed before.
THEOREM NothingLeftHolds == Spec => []NothingLeft
<1>1. TypeOK /\ Inv => NothingLeft
  BY DEF Inv, Left, NothingThere, NothingLeft
<1> QED
  BY <1>1, Invariant, PTL

\* A step of a forget call within its run, or its end, leaves all that there is registered.
LEMMA StepFinds ==
  ASSUME TypeOK, Inv, NEW f \in Forgets, ForgetStep(f), forget[f].alone, AllRegistered
  PROVE  AllRegistered'
<1>1. ASSUME Shrink, UNCHANGED <<registry, index, walk, review, last>>
      PROVE  AllRegistered'
  BY <1>1, ShrinkKeeps
<1>2. CASE ForgetReadsDocuments(f)
  <2>1. UNCHANGED <<registry, stores, index, walk, review, last>>
    BY <1>2 DEF ForgetReadsDocuments, writers
  <2> QED
    BY <1>1, <2>1, Shrinks
<1>3. CASE ForgetDeletesDocuments(f)
  <2>1. UNCHANGED <<registry, index, walk, review, last>>
    BY <1>3 DEF ForgetDeletesDocuments, writers
  <2> QED
    BY <1>1, <1>3, <2>1, Shrinks
<1>4. CASE ForgetSource(f)
  <2>1. UNCHANGED <<registry, index, walk, review, last>>
    BY <1>4 DEF ForgetSource, writers
  <2> QED
    BY <1>1, <1>4, <2>1, Shrinks
<1>5. CASE ForgetFolder(f)
  <2>1. UNCHANGED <<registry, index, walk, review, last>>
    BY <1>5 DEF ForgetFolder, writers
  <2> QED
    BY <1>1, <1>5, <2>1, Shrinks
<1>6. ASSUME NEW r \in Reviews, ForgetTakesReview(f, r)
      PROVE  AllRegistered'
  <2>1. UNCHANGED <<registry, stores, index, walk, review, last>>
    BY <1>6 DEF ForgetTakesReview, writers
  <2> QED
    BY <1>1, <2>1, Shrinks
<1>7. CASE ForgetDeletesPart(f)
  <2>1. UNCHANGED <<registry, index, walk, review, last>>
    BY <1>7 DEF ForgetDeletesPart, writers
  <2> QED
    BY <1>1, <1>7, <2>1, Shrinks
<1>8. CASE ForgetEnds(f)
  <2>1. UNCHANGED <<source, objects, legal, parts, review>>
    BY <1>8 DEF ForgetEnds, stores, writers
  <2>2. CASE registry' = registry
    BY <2>1, <2>2 DEF AllRegistered
  <2>3. CASE ~forget[f].failed /\ registry' = NoRegistry
    <3>1. CASE ~registry.corpus
      BY <2>1, <2>3, <3>1 DEF TypeOK, AllRegistered
    <3>2. CASE registry.corpus
      <4>1. forget[f].pc = "reviews" /\ forget[f].reviews = {}
        BY <1>8 DEF ForgetEnds
      <4>2. HasEmptied(f)
        BY <3>2, <4>1 DEF Inv, Fine, Alone
      <4>3. /\ legal \cap registry.docs = {} /\ ~(registry.source /\ source)
            /\ \A r \in registry.reviews : parts[r] = {}
        BY <2>3, <4>1, <4>2, Places DEF HasEmptied
      <4>4. legal = {} /\ ~source /\ ~objects
        BY <4>3 DEF AllRegistered, TypeOK
      <4>5. \A r \in Reviews : review[r].owned => parts[r] = {}
        BY <4>3 DEF AllRegistered
      <4> QED
        BY <2>1, <4>4, <4>5 DEF AllRegistered
    <3> QED
      BY <3>1, <3>2
  <2> QED
    BY <1>8, <2>2, <2>3 DEF ForgetEnds, DeletesRegistry
<1> QED
  BY <1>2, <1>3, <1>4, <1>5, <1>6, <1>7, <1>8 DEF ForgetStep

\* No step of a forget call beside no writer takes from the registry what a store still has:
\* whatever fails, a further call finds all that is left (lib.rs:1890-1985).
THEOREM StillFoundHolds == Spec => StillFound
<1>1. TypeOK /\ Inv /\ [Next]_vars =>
        [\A f \in Forgets : ForgetStep(f) /\ forget[f].alone /\ AllRegistered => AllRegistered']_vars
  BY StepFinds
<1> QED
  BY <1>1, Invariant, PTL DEF Spec, StillFound

=============================================================================
