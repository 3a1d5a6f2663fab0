------------------------ MODULE MemoryLayer_proofs ------------------------
(***************************************************************************)
(* Proofs about MemoryLayer for any memories, names and forget calls.      *)
(*                                                                         *)
(* The invariant has four parts besides the types: what a save may still   *)
(* do to its row (SaveInv), that every token that is referred to was       *)
(* counted (CountedInv), what holds while no save overlapped a forget call *)
(* (Apart), and where the tokens are that a forget call took (Tracked).    *)
(***************************************************************************)
EXTENDS MemoryLayer, TLAPS

SaveInvOf(m) ==
  /\ save[m].pc = "writing" => save[m].copy.there
  /\ save[m].pc \in {"new", "inserting"} => ~save[m].task
  /\ save[m].pc = "new" => ~row[m].there
  /\ save[m].pc \notin Tokenized => save[m].tokens = {}
  /\ row[m].ents # {} => save[m].pc = "done"
  /\ \A p \in save[m].cands : save[p].pc = "done"
  /\ retiredBy[m] # NoMemory => save[m].pc = "done"

SaveInv == \A m \in Memories : SaveInvOf(m)

Counted(t) == t[2] <= gen[t[1]]

CountedInv ==
  /\ \A m \in Memories : \A t \in row[m].tokens \cup save[m].tokens : Counted(t)
  /\ \A f \in Forgets : \A t \in forget[f].tokens \cup forget[f].took : Counted(t)

Resolves(t) == IsLive(t) \/ t \in erased

Apart ==
  /\ \A m \in Memories, f \in Forgets : ~(save[m].pc \in Tokenized /\ forget[f].pc \in Running)
  /\ \A m \in Memories : \A t \in row[m].tokens \cup save[m].tokens : Resolves(t)
  /\ \A f \in Forgets : forget[f].pc = "purging" =>
       \A t \in forget[f].todo : t \in Tokens /\ ~Referred(t)

\* What a forget call has to delete, its tokens include.
Reads(f) ==
  /\ forget[f].pc = "idle" => forget[f].tokens = {}
  /\ forget[f].pc = "deleting" => forget[f].took \subseteq forget[f].tokens
  /\ forget[f].pc \in {"reading", "deleting"} =>
       \A m \in forget[f].targets : row[m].tokens \subseteq forget[f].tokens

\* A token that a call took is dead, referred to, or still to be counted by some call.
Held(t) == IsLive(t) => Referred(t) \/ \E g \in Forgets : t \in forget[g].tokens

Tracked ==
  /\ \A f \in Forgets : Reads(f)
  /\ ~cut => \A f \in Forgets : forget[f].pc \in {"counting", "purging"} =>
               \A t \in forget[f].took : Held(t)

IInv == TypeOK /\ SaveInv /\ CountedInv /\ (~raced => Apart /\ Tracked)

-----------------------------------------------------------------------------
(* Tokens and the vault.                                                    *)

LEMMA TokenParts ==
  ASSUME NEW t \in Tokens
  PROVE  t[1] \in Names /\ t[2] \in 1 .. MaxGen /\ t[2] # 0 /\ t[2] \in Nat /\ t = <<t[1], t[2]>>
BY MaxGenAssumption DEF Tokens

LEMMA NoRowType == NoRow \in RowType /\ NewSave \in SaveType /\ NewForget \in ForgetType
<1>1. NoRow \in RowType
  BY DEF NoRow, RowType
<1>2. NewSave \in SaveType
  BY <1>1 DEF NewSave, SaveType, Tokenized
<1>3. NewForget \in ForgetType
  BY DEF NewForget, ForgetType
<1> QED BY <1>1, <1>2, <1>3

\* What pseudonymizing a text does: it mints tokens beyond the counted ones, revives none
\* and takes none away.
LEMMA PseudonymizeVault ==
  ASSUME TypeOK, NEW N \in SUBSET Names, Pseudonymize(N)
  PROVE  /\ live' \in [Names -> 0 .. MaxGen] /\ gen' \in [Names -> 0 .. MaxGen]
         /\ \A n \in Names : live'[n] <= gen'[n]
         /\ \A t \in Tokens : IsLive(t) => live'[t[1]] = t[2]
         /\ \A t \in Tokens : Counted(t) => t[2] <= gen'[t[1]]
         /\ \A t \in Tokens : Counted(t) /\ ~IsLive(t) => live'[t[1]] # t[2]
         /\ \A t \in TokensOf(N) : t \in Tokens /\ live'[t[1]] = t[2] /\ t[2] <= gen'[t[1]]
<1> USE MaxGenAssumption DEF TypeOK, Pseudonymize
<1>1. \A n \in Names : /\ live[n] \in 0 .. MaxGen /\ gen[n] \in 0 .. MaxGen /\ live[n] <= gen[n]
                       /\ gen'[n] = IF n \in N /\ live[n] = 0 THEN gen[n] + 1 ELSE gen[n]
                       /\ live'[n] = IF n \in N /\ live[n] = 0 THEN gen[n] + 1 ELSE live[n]
  OBVIOUS
<1>2. \A n \in N : live[n] = 0 => gen[n] < MaxGen
  OBVIOUS
<1>3. \A n \in Names : live'[n] \in 0 .. MaxGen /\ gen'[n] \in 0 .. MaxGen /\ live'[n] <= gen'[n]
  BY <1>1, <1>2
<1>4. \A n \in N : live'[n] \in 1 .. MaxGen
  BY <1>1, <1>2
<1>5. live' \in [Names -> 0 .. MaxGen] /\ gen' \in [Names -> 0 .. MaxGen]
  BY <1>3
<1>6. \A t \in TokensOf(N) : t \in Tokens /\ live'[t[1]] = t[2] /\ t[2] <= gen'[t[1]]
  BY <1>3, <1>4 DEF TokensOf, Tokens
<1>7. \A t \in Tokens : /\ IsLive(t) => live'[t[1]] = t[2]
                        /\ Counted(t) => t[2] <= gen'[t[1]]
                        /\ Counted(t) /\ ~IsLive(t) => live'[t[1]] # t[2]
  <2> SUFFICES ASSUME NEW t \in Tokens
               PROVE  /\ IsLive(t) => live'[t[1]] = t[2]
                      /\ Counted(t) => t[2] <= gen'[t[1]]
                      /\ Counted(t) /\ ~IsLive(t) => live'[t[1]] # t[2]
    OBVIOUS
  <2>1. t[1] \in Names /\ t[2] \in Nat /\ t[2] # 0
    BY TokenParts
  <2> QED BY <1>1, <2>1 DEF IsLive, Counted
<1> QED BY <1>3, <1>5, <1>6, <1>7

-----------------------------------------------------------------------------
(* Types.                                                                   *)

LEMMA Setting ==
  ASSUME TypeOK, NEW m \in Memories
  PROVE  /\ row[m] \in RowType /\ row[m].tokens \subseteq Tokens
         /\ save[m] \in SaveType /\ save[m].tokens \subseteq Tokens /\ save[m].names \subseteq Names
         /\ Entities(m) \subseteq Tokens \cup Orgs
         /\ Finished("done") \in SaveType /\ Finished("failed") \in SaveType
<1>1. row[m] \in RowType /\ save[m] \in SaveType
  BY DEF TypeOK
<1>2. row[m].tokens \subseteq Tokens
  BY <1>1 DEF RowType
<1>3. save[m].tokens \subseteq Tokens /\ save[m].names \subseteq Names /\ save[m].orgs \subseteq Orgs
  BY <1>1 DEF SaveType
<1>4. Finished("done") \in SaveType /\ Finished("failed") \in SaveType
  BY NoRowType DEF Finished, SaveType
<1> QED BY <1>1, <1>2, <1>3, <1>4 DEF Entities

\* One save changes, to a record of its type.
LEMMA SaveTyped ==
  ASSUME TypeOK, NEW m \in Memories, NEW s \in SaveType, save' = [save EXCEPT ![m] = s]
  PROVE  save' \in [Memories -> SaveType]
BY DEF TypeOK

LEMMA RowTyped ==
  ASSUME TypeOK, NEW m \in Memories, NEW r \in RowType, row' = [row EXCEPT ![m] = r],
         r.there \/ r = NoRow
  PROVE  row' \in [Memories -> RowType] /\ \A k \in Memories : ~row'[k].there => row'[k] = NoRow
BY DEF TypeOK

LEMMA ForgetTyped ==
  ASSUME TypeOK, NEW f \in Forgets, NEW r \in ForgetType, forget' = [forget EXCEPT ![f] = r]
  PROVE  forget' \in [Forgets -> ForgetType]
BY DEF TypeOK

LEMMA SaveStepTypes ==
  ASSUME TypeOK, SaveInv, NEW m \in Memories, SaveStep(m)
  PROVE  TypeOK'
<1> USE DEF vault, history
<1>0. /\ row[m] \in RowType /\ save[m] \in SaveType /\ row[m].tokens \subseteq Tokens
      /\ Entities(m) \subseteq Tokens \cup Orgs /\ SaveInvOf(m) /\ save[m].names \subseteq Names
      /\ save[m].tokens \subseteq Tokens
      /\ Finished("done") \in SaveType /\ Finished("failed") \in SaveType
  BY Setting DEF SaveInv
<1>1. ASSUME NEW N \in SUBSET Names, NEW O \in SUBSET Orgs, NEW p \in BOOLEAN, SaveSync(m, N, O, p)
      PROVE  TypeOK'
  <2>1. TokensOf(N) \subseteq Tokens
    BY <1>1, PseudonymizeVault DEF SaveSync
  <2> DEFINE s == [NewSave EXCEPT !.pc = "embedded", !.orgs = O, !.pref = p, !.tokens = TokensOf(N)]
  <2>2. s \in SaveType /\ save' = [save EXCEPT ![m] = s]
    BY <1>1, <2>1, NoRowType DEF SaveSync, SaveType, Tokenized
  <2> HIDE DEF s
  <2>3. save' \in [Memories -> SaveType]
    BY <2>2, SaveTyped
  <2> QED BY <1>1, <2>3, PseudonymizeVault DEF SaveSync, TypeOK
<1>2. ASSUME NEW N \in SUBSET Names, NEW O \in SUBSET Orgs, NEW p \in BOOLEAN, NEW mode \in Modes,
             SaveFast(m, mode, N, O, p)
      PROVE  TypeOK'
  <2> DEFINE r == [NoRow EXCEPT !.there = TRUE, !.pref = p, !.valid = TRUE]
  <2>1. r \in RowType /\ r.there /\ row' = [row EXCEPT ![m] = r]
    BY <1>2, NoRowType DEF SaveFast, RowType, NoRow
  <2> DEFINE s == IF mode = "async"
                  THEN [NewSave EXCEPT !.pc = "queued", !.task = TRUE, !.names = N, !.orgs = O,
                                       !.pref = p]
                  ELSE Finished("done")
  <2>2. s \in SaveType /\ save' = [save EXCEPT ![m] = s]
    BY <1>0, <1>2, NoRowType DEF SaveFast, SaveType
  <2> HIDE DEF s, r
  <2> QED BY <1>2, <2>1, <2>2, SaveTyped, RowTyped DEF SaveFast, TypeOK
<1>3. CASE TaskStarts(m)
  <2>1. Pseudonymize(save[m].names) /\ TokensOf(save[m].names) \subseteq Tokens
    BY <1>0, <1>3, PseudonymizeVault DEF TaskStarts
  <2> DEFINE s == [save[m] EXCEPT !.pc = IF save[m].pref THEN "resolving" ELSE "reading",
                                  !.tokens = TokensOf(save[m].names), !.names = {}]
  <2>2. s \in SaveType /\ save' = [save EXCEPT ![m] = s]
    BY <1>0, <1>3, <2>1 DEF TaskStarts, SaveType, Tokenized, TypeOK
  <2> HIDE DEF s
  <2>3. save' \in [Memories -> SaveType]
    BY <2>2, SaveTyped
  <2> QED BY <1>0, <1>3, <2>1, <2>3, PseudonymizeVault DEF TaskStarts, TypeOK
<1>4. CASE TaskResolves(m)
  <2> DEFINE s == [save[m] EXCEPT !.pc = IF row[m].there THEN "embedded" ELSE "reading"]
  <2>1. s \in SaveType /\ save' = [save EXCEPT ![m] = s]
    BY <1>0, <1>4 DEF TaskResolves, SaveType, Tokenized, TypeOK
  <2> HIDE DEF s
  <2> QED BY <1>4, <2>1, SaveTyped DEF TaskResolves, TypeOK
<1>5. ASSUME NEW S \in SUBSET Memories, Candidates(m, S)
      PROVE  TypeOK'
  <2> DEFINE s == [save[m] EXCEPT !.pc = "retiring", !.cands = S]
  <2>1. s \in SaveType /\ save' = [save EXCEPT ![m] = s]
    BY <1>0, <1>5 DEF Candidates, SaveType, Tokenized, TypeOK
  <2> HIDE DEF s
  <2> QED BY <1>5, <2>1, SaveTyped DEF Candidates, TypeOK
<1>6. ASSUME NEW p \in Memories, Retire(m, p)
      PROVE  TypeOK'
  <2> DEFINE s == [save[m] EXCEPT !.cands = @ \ {p}]
             r == [row[p] EXCEPT !.valid = FALSE]
  <2>1. s \in SaveType /\ save' = [save EXCEPT ![m] = s]
    BY <1>0, <1>6 DEF Retire, SaveType, TypeOK
  <2>2. r \in RowType /\ r.there = row[p].there
    BY DEF TypeOK, RowType
  <2> HIDE DEF s, r
  <2>3. CASE row[p].there /\ row[p].valid
    <3>1. row' = [row EXCEPT ![p] = r] /\ retiredBy' = [retiredBy EXCEPT ![p] = m]
      BY <1>6, <2>3 DEF Retire, r
    <3>2. retiredBy' \in [Memories -> Memories \cup {NoMemory}]
      BY <3>1 DEF TypeOK
    <3> QED BY <1>6, <2>1, <2>2, <2>3, <3>1, <3>2, SaveTyped, RowTyped DEF Retire, TypeOK
  <2> QED BY <1>6, <2>1, <2>3, SaveTyped DEF Retire, TypeOK
<1>7. CASE Resolved(m)
  <2> DEFINE s == [save[m] EXCEPT !.pc = IF save[m].task THEN "reading" ELSE "inserting"]
  <2>1. s \in SaveType /\ save' = [save EXCEPT ![m] = s]
    BY <1>0, <1>7 DEF Resolved, SaveType, Tokenized, TypeOK
  <2> HIDE DEF s
  <2> QED BY <1>7, <2>1, SaveTyped DEF Resolved, TypeOK
<1>8. CASE Insert(m)
  <2> DEFINE r == Referring([NoRow EXCEPT !.there = TRUE, !.pref = save[m].pref, !.valid = TRUE], m)
  <2>1. r \in RowType /\ r.there /\ row' = [row EXCEPT ![m] = r]
    BY <1>0, <1>8, NoRowType DEF Insert, Referring, RowType, SaveType, NoRow
  <2> HIDE DEF r
  <2> QED BY <1>0, <1>8, <2>1, SaveTyped, RowTyped DEF Insert, TypeOK
<1>9. CASE ReadRow(m)
  <2> DEFINE s == IF row[m].there THEN [save[m] EXCEPT !.pc = "writing", !.copy = row[m]]
                  ELSE Finished("done")
  <2>1. s \in SaveType /\ save' = [save EXCEPT ![m] = s]
    BY <1>0, <1>9 DEF ReadRow, SaveType, Tokenized, TypeOK
  <2> HIDE DEF s
  <2> QED BY <1>9, <2>1, SaveTyped DEF ReadRow, TypeOK
<1>10. CASE WriteRow(m)
  <2> DEFINE r == IF row[m].there THEN Referring(save[m].copy, m) ELSE row[m]
  <2>1. save[m].copy \in RowType /\ save[m].copy.there
    BY <1>0, <1>10 DEF WriteRow, SaveType, SaveInvOf
  <2>2. r \in RowType /\ row' = [row EXCEPT ![m] = r] /\ (r.there \/ r = row[m])
    BY <1>0, <1>10, <2>1 DEF WriteRow, Referring, RowType
  <2>3. r.there \/ r = NoRow
    BY <2>2 DEF TypeOK
  <2> HIDE DEF r
  <2> QED BY <1>0, <1>10, <2>2, <2>3, SaveTyped, RowTyped DEF WriteRow, TypeOK
<1>11. CASE SaveFails(m)
  BY <1>0, <1>11, SaveTyped DEF SaveFails, TypeOK
<1>12. CASE Invalidate(m)
  <2> DEFINE r == [row[m] EXCEPT !.valid = FALSE]
  <2>1. r \in RowType /\ r.there /\ row' = [row EXCEPT ![m] = r]
    BY <1>0, <1>12 DEF Invalidate, RowType
  <2> HIDE DEF r
  <2> QED BY <1>12, <2>1, RowTyped DEF Invalidate, TypeOK
<1> QED BY <1>1, <1>2, <1>3, <1>4, <1>5, <1>6, <1>7, <1>8, <1>9, <1>10, <1>11, <1>12 DEF SaveStep

LEMMA ForgetStepTypes ==
  ASSUME TypeOK, NEW f \in Forgets, ForgetStep(f)
  PROVE  TypeOK'
<1> USE DEF vault, history
<1>0. forget[f] \in ForgetType /\ forget[f].tokens \subseteq Tokens
  BY DEF TypeOK, ForgetType
<1>1. ASSUME NEW T \in SUBSET Memories, StartForget(f, T)
      PROVE  TypeOK'
  <2> DEFINE r == [NewForget EXCEPT !.pc = "reading", !.todo = T]
  <2>1. r \in ForgetType /\ forget' = [forget EXCEPT ![f] = r]
    BY <1>1, NoRowType DEF StartForget, ForgetType, Running
  <2> HIDE DEF r
  <2> QED BY <1>1, <2>1, ForgetTyped DEF StartForget, TypeOK
<1>2. ASSUME NEW m \in Memories, ReadTarget(f, m)
      PROVE  TypeOK'
  <2> DEFINE r == [forget[f] EXCEPT !.todo = @ \ {m},
                                    !.targets = IF row[m].there THEN @ \cup {m} ELSE @,
                                    !.tokens = @ \cup row[m].tokens]
  <2>1. row[m].tokens \subseteq Tokens
    BY Setting
  <2>2. r \in ForgetType /\ forget' = [forget EXCEPT ![f] = r]
    BY <1>0, <1>2, <2>1 DEF ReadTarget, ForgetType, TypeOK
  <2> HIDE DEF r
  <2> QED BY <1>2, <2>2, ForgetTyped DEF ReadTarget, TypeOK
<1>3. ASSUME NEW m \in Memories, DeleteTarget(f, m)
      PROVE  TypeOK'
  <2> DEFINE r == [forget[f] EXCEPT !.targets = @ \ {m}]
  <2>1. r \in ForgetType /\ forget' = [forget EXCEPT ![f] = r]
    BY <1>0, <1>3 DEF DeleteTarget, ForgetType, TypeOK
  <2> HIDE DEF r
  <2> QED BY <1>3, <2>1, ForgetTyped, RowTyped, NoRowType DEF DeleteTarget, TypeOK
<1>4. CASE EndReading(f)
  <2> DEFINE r == [forget[f] EXCEPT !.pc = "deleting", !.took = forget[f].tokens]
  <2>1. r \in ForgetType /\ forget' = [forget EXCEPT ![f] = r]
    BY <1>0, <1>4 DEF EndReading, ForgetType, Running, TypeOK
  <2> HIDE DEF r
  <2> QED BY <1>4, <2>1, ForgetTyped DEF EndReading, TypeOK
<1>5. CASE EndDeleting(f)
  <2> DEFINE r == [forget[f] EXCEPT !.pc = "counting"]
  <2>1. r \in ForgetType /\ forget' = [forget EXCEPT ![f] = r]
    BY <1>0, <1>5 DEF EndDeleting, ForgetType, Running, TypeOK
  <2> HIDE DEF r
  <2> QED BY <1>5, <2>1, ForgetTyped DEF EndDeleting, TypeOK
<1>6. ASSUME NEW t \in Tokens, Count(f, t)
      PROVE  TypeOK'
  <2> DEFINE r == IF Referred(t) THEN [forget[f] EXCEPT !.tokens = @ \ {t}]
                  ELSE [forget[f] EXCEPT !.pc = "purging", !.todo = {t}]
  <2>1. r \in ForgetType /\ forget' = [forget EXCEPT ![f] = r]
    BY <1>0, <1>6 DEF Count, ForgetType, Running, TypeOK
  <2> HIDE DEF r
  <2> QED BY <1>6, <2>1, ForgetTyped DEF Count, TypeOK
<1>7. ASSUME NEW t \in Tokens, Purge(f, t)
      PROVE  TypeOK'
  <2> DEFINE r == [forget[f] EXCEPT !.pc = "counting", !.todo = {}, !.tokens = @ \ {t}]
  <2>1. r \in ForgetType /\ forget' = [forget EXCEPT ![f] = r]
    BY <1>0, <1>7 DEF Purge, ForgetType, Running, TypeOK
  <2>2. live' \in [Names -> 0 .. MaxGen] /\ \A n \in Names : live'[n] <= gen[n]
    BY <1>7, MaxGenAssumption, TokenParts DEF Purge, TypeOK
  <2> HIDE DEF r
  <2> QED BY <1>7, <2>1, <2>2, ForgetTyped DEF Purge, TypeOK
<1>8. CASE EndForget(f)
  <2> DEFINE r == [NewForget EXCEPT !.pc = "done"]
  <2>1. r \in ForgetType /\ forget' = [forget EXCEPT ![f] = r]
    BY <1>8, NoRowType DEF EndForget, ForgetType
  <2> HIDE DEF r
  <2> QED BY <1>8, <2>1, ForgetTyped DEF EndForget, TypeOK
<1>9. CASE ForgetFails(f)
  <2> DEFINE r == [NewForget EXCEPT !.pc = "failed"]
  <2>1. r \in ForgetType /\ forget' = [forget EXCEPT ![f] = r]
    BY <1>9, NoRowType DEF ForgetFails, ForgetType
  <2> HIDE DEF r
  <2> QED BY <1>9, <2>1, ForgetTyped DEF ForgetFails, TypeOK
<1> QED BY <1>1, <1>2, <1>3, <1>4, <1>5, <1>6, <1>7, <1>8, <1>9 DEF ForgetStep

LEMMA NameStepTypes ==
  ASSUME TypeOK, NEW n \in Names, Recall(n) \/ IndexDoc(n) \/ EraseSubject(n)
  PROVE  TypeOK'
<1>1. CASE Recall(n)
  BY <1>1, PseudonymizeVault DEF Recall, TypeOK, history
<1>2. CASE IndexDoc(n)
  BY <1>2, PseudonymizeVault DEF IndexDoc, TypeOK, history
<1>3. CASE EraseSubject(n)
  <2>1. TokenOf(n) \in Tokens
    BY <1>3, MaxGenAssumption DEF EraseSubject, TokenOf, Tokens, TypeOK
  <2>2. live' \in [Names -> 0 .. MaxGen] /\ \A k \in Names : live'[k] <= gen[k]
    BY <1>3, MaxGenAssumption DEF EraseSubject, TypeOK
  <2> QED BY <1>3, <2>1, <2>2 DEF EraseSubject, TypeOK
<1> QED BY <1>1, <1>2, <1>3

-----------------------------------------------------------------------------
(* What a save may still do to its row.                                     *)

\* A step of the save of m changes no other save, and a save that is done stays so.
LEMMA OtherSaves ==
  ASSUME TypeOK, NEW m \in Memories, SaveStep(m)
  PROVE  /\ \A k \in Memories \ {m} : save'[k] = save[k]
         /\ \A k \in Memories : save[k].pc = "done" => save'[k].pc = "done"
<1> USE DEF SaveType, TypeOK
<1>1. \A k \in Memories \ {m} : save'[k] = save[k]
  BY DEF SaveStep, SaveSync, SaveFast, TaskStarts, TaskResolves, Candidates, Retire, Resolved,
         Insert, ReadRow, WriteRow, SaveFails, Invalidate
<1>2. save[m].pc = "done" => save'[m] = save[m]
  BY DEF SaveStep, SaveSync, SaveFast, TaskStarts, TaskResolves, Candidates, Retire, Resolved,
         Insert, ReadRow, WriteRow, SaveFails, Invalidate, Tokenized
<1> QED BY <1>1, <1>2

LEMMA FinishedParts ==
  ASSUME NEW label
  PROVE  /\ Finished(label).pc = label /\ ~Finished(label).task
         /\ Finished(label).cands = {} /\ Finished(label).tokens = {}
BY DEF Finished, NewSave

\* The save of m keeps what is said of others when neither row nor retiredBy of others change.
LEMMA SaveInvOthers ==
  ASSUME SaveInv, NEW m \in Memories, SaveStep(m), TypeOK,
         \A k \in Memories \ {m} : /\ row'[k].ents = row[k].ents /\ row'[k].there = row[k].there
                                   /\ retiredBy'[k] = retiredBy[k]
  PROVE  \A k \in Memories \ {m} : SaveInvOf(k)'
<1> SUFFICES ASSUME NEW k \in Memories \ {m}
             PROVE  SaveInvOf(k)'
  OBVIOUS
<1>1. save'[k] = save[k] /\ row'[k].ents = row[k].ents /\ retiredBy'[k] = retiredBy[k]
        /\ row'[k].there = row[k].there
  BY OtherSaves
<1>2. SaveInvOf(k) /\ save[k].cands \subseteq Memories
  BY DEF SaveInv, TypeOK, SaveType
<1>3. \A p \in save[k].cands : save'[p].pc = "done"
  BY <1>2, OtherSaves DEF SaveInvOf
<1> QED BY <1>1, <1>2, <1>3 DEF SaveInvOf

LEMMA SaveStepSaveInv ==
  ASSUME TypeOK, SaveInv, NEW m \in Memories, SaveStep(m)
  PROVE  SaveInv'
<1> USE DEF vault, history
<1>0. /\ save[m] \in SaveType /\ row[m] \in RowType /\ SaveInvOf(m)
      /\ save \in [Memories -> SaveType] /\ row \in [Memories -> RowType]
  BY DEF TypeOK, SaveInv
<1>r. \A k \in Memories : /\ row[k].ents # {} => save[k].pc = "done"
                          /\ retiredBy[k] # NoMemory => save[k].pc = "done"
                          /\ \A p \in save[k].cands : p \in Memories /\ save[p].pc = "done"
  BY DEF SaveInv, SaveInvOf, TypeOK, SaveType
<1>1. ASSUME NEW N \in SUBSET Names, NEW O \in SUBSET Orgs, NEW p \in BOOLEAN, SaveSync(m, N, O, p)
      PROVE  SaveInv'
  <2>1. /\ save'[m].pc = "embedded" /\ save'[m].cands = {} /\ save[m].pc = "new"
        /\ row' = row /\ retiredBy' = retiredBy
    BY <1>0, <1>1 DEF SaveSync, NewSave
  <2>2. SaveInvOf(m)'
    BY <1>r, <2>1 DEF SaveInvOf, Tokenized
  <2> QED BY <2>1, <2>2, SaveInvOthers DEF SaveInv
<1>2. ASSUME NEW N \in SUBSET Names, NEW O \in SUBSET Orgs, NEW p \in BOOLEAN, NEW mode \in Modes,
             SaveFast(m, mode, N, O, p)
      PROVE  SaveInv'
  <2>1. /\ save'[m].pc \in {"queued", "done"} /\ save'[m].cands = {} /\ save'[m].tokens = {} /\ save[m].pc = "new"
        /\ row'[m].ents = {} /\ retiredBy' = retiredBy
        /\ \A k \in Memories \ {m} : row'[k] = row[k]
    BY <1>0, <1>2 DEF SaveFast, NewSave, Finished, NoRow
  <2>2. SaveInvOf(m)'
    BY <1>r, <2>1 DEF SaveInvOf, Tokenized
  <2> QED BY <2>1, <2>2, SaveInvOthers DEF SaveInv
<1>3. CASE TaskStarts(m)
  <2>1. /\ save'[m].pc \in {"resolving", "reading"} /\ save'[m].cands = save[m].cands
        /\ save[m].pc = "queued" /\ row' = row /\ retiredBy' = retiredBy
    BY <1>0, <1>3 DEF TaskStarts, SaveType
  <2>2. SaveInvOf(m)'
    BY <1>r, <2>1, OtherSaves DEF SaveInvOf, Tokenized
  <2> QED BY <2>1, <2>2, SaveInvOthers DEF SaveInv
<1>4. CASE TaskResolves(m)
  <2>1. /\ save'[m].pc \in {"embedded", "reading"} /\ save'[m].cands = save[m].cands
        /\ save[m].pc = "resolving" /\ row' = row /\ retiredBy' = retiredBy
    BY <1>0, <1>4 DEF TaskResolves, SaveType
  <2>2. SaveInvOf(m)'
    BY <1>r, <2>1, OtherSaves DEF SaveInvOf, Tokenized
  <2> QED BY <2>1, <2>2, SaveInvOthers DEF SaveInv
<1>5. ASSUME NEW S \in SUBSET Memories, Candidates(m, S)
      PROVE  SaveInv'
  <2>1. /\ save'[m].pc = "retiring" /\ save'[m].cands = S
        /\ save[m].pc = "embedded" /\ row' = row /\ retiredBy' = retiredBy
    BY <1>0, <1>5 DEF Candidates, SaveType
  <2>2. \A q \in S : q \in Memories /\ row[q].ents # {}
    BY <1>5 DEF Candidates, ConflictRows
  <2>3. SaveInvOf(m)'
    BY <1>r, <2>1, <2>2, OtherSaves DEF SaveInvOf, Tokenized
  <2> QED BY <2>1, <2>3, SaveInvOthers DEF SaveInv
<1>6. ASSUME NEW p \in Memories, Retire(m, p)
      PROVE  SaveInv'
  <2>1. /\ save'[m].pc = "retiring" /\ save'[m].cands \subseteq save[m].cands
        /\ save[m].pc = "retiring" /\ p \in save[m].cands
    BY <1>0, <1>6 DEF Retire, SaveType
  <2>a. /\ \A k \in Memories : row'[k].ents = row[k].ents /\ row'[k].there = row[k].there
        /\ \A k \in Memories \ {p} : retiredBy'[k] = retiredBy[k]
    <3>1. CASE row[p].there /\ row[p].valid
      BY <1>0, <1>6, <3>1 DEF Retire, RowType, TypeOK
    <3>2. CASE ~(row[p].there /\ row[p].valid)
      BY <1>6, <3>2 DEF Retire
    <3> QED BY <3>1, <3>2
  <2>2. save[p].pc = "done"
    BY <1>r, <2>1
  <2> SUFFICES ASSUME NEW k \in Memories
               PROVE  SaveInvOf(k)'
    BY DEF SaveInv
  <2>3. save[k].pc = "done" => save'[k].pc = "done"
    BY OtherSaves
  <2>4. retiredBy'[k] # NoMemory => save'[k].pc = "done"
    BY <1>r, <2>a, <2>2, <2>3
  <2>5. row'[k].ents # {} => save'[k].pc = "done"
    BY <1>r, <2>a, <2>3
  <2>6. CASE k = m
    BY <1>r, <2>1, <2>4, <2>5, <2>6, OtherSaves DEF SaveInvOf, Tokenized
  <2>7. CASE k # m
    BY <1>r, <2>a, <2>4, <2>5, <2>7, OtherSaves DEF SaveInvOf, SaveInv
  <2> QED BY <2>6, <2>7
<1>7. CASE Resolved(m)
  <2>1. /\ save'[m].pc = IF save[m].task THEN "reading" ELSE "inserting"
        /\ save'[m].cands = save[m].cands /\ save'[m].task = save[m].task
        /\ save[m].pc = "retiring" /\ row' = row /\ retiredBy' = retiredBy
    BY <1>0, <1>7 DEF Resolved, SaveType
  <2>2. SaveInvOf(m)'
    BY <1>r, <2>1, OtherSaves DEF SaveInvOf, Tokenized
  <2> QED BY <2>1, <2>2, SaveInvOthers DEF SaveInv
<1>8. CASE Insert(m)
  <2>1. /\ save'[m] = Finished("done") /\ retiredBy' = retiredBy
        /\ \A k \in Memories \ {m} : row'[k] = row[k]
    BY <1>0, <1>8 DEF Insert
  <2>2. SaveInvOf(m)'
    BY <2>1, FinishedParts DEF SaveInvOf, Tokenized
  <2> QED BY <2>1, <2>2, SaveInvOthers DEF SaveInv
<1>9. CASE ReadRow(m)
  <2>1. /\ save[m].pc = "reading" /\ row' = row /\ retiredBy' = retiredBy
        /\ \/ save'[m] = Finished("done")
           \/ /\ save'[m].pc = "writing" /\ save'[m].copy.there
              /\ save'[m].cands = save[m].cands
    BY <1>0, <1>9 DEF ReadRow, SaveType
  <2>2. SaveInvOf(m)'
    BY <1>r, <2>1, OtherSaves, FinishedParts DEF SaveInvOf, Tokenized
  <2> QED BY <2>1, <2>2, SaveInvOthers DEF SaveInv
<1>10. CASE WriteRow(m)
  <2>1. /\ save'[m] = Finished("done") /\ retiredBy' = retiredBy
        /\ \A k \in Memories \ {m} : row'[k] = row[k]
    BY <1>0, <1>10 DEF WriteRow
  <2>2. SaveInvOf(m)'
    BY <2>1, FinishedParts DEF SaveInvOf, Tokenized
  <2> QED BY <2>1, <2>2, SaveInvOthers DEF SaveInv
<1>11. CASE SaveFails(m)
  <2>1. /\ save'[m] = Finished("failed") /\ retiredBy' = retiredBy /\ row' = row
        /\ save[m].pc # "done"
    BY <1>0, <1>11 DEF SaveFails, Tokenized
  <2>2. SaveInvOf(m)'
    BY <1>r, <2>1, FinishedParts DEF SaveInvOf, Tokenized
  <2> QED BY <2>1, <2>2, SaveInvOthers DEF SaveInv
<1>12. CASE Invalidate(m)
  <2>1. /\ save' = save /\ retiredBy' = retiredBy
        /\ \A k \in Memories : row'[k].ents = row[k].ents /\ row'[k].there = row[k].there
    BY <1>0, <1>12 DEF Invalidate, RowType
  <2> QED BY <2>1 DEF SaveInv, SaveInvOf
<1> QED BY <1>1, <1>2, <1>3, <1>4, <1>5, <1>6, <1>7, <1>8, <1>9, <1>10, <1>11, <1>12 DEF SaveStep

LEMMA OtherStepsSaveInv ==
  ASSUME TypeOK, SaveInv,
         save' = save, retiredBy' = retiredBy,
         \A k \in Memories : row'[k] = NoRow \/ row'[k] = row[k]
  PROVE  SaveInv'
BY DEF SaveInv, SaveInvOf, NoRow

LEMMA ForgetStepRows ==
  ASSUME TypeOK, NEW f \in Forgets, ForgetStep(f)
  PROVE  /\ save' = save /\ retiredBy' = retiredBy /\ gen' = gen /\ chunks' = chunks
         /\ erased' = erased
         /\ \A k \in Memories : row'[k] = NoRow \/ row'[k] = row[k]
BY DEF ForgetStep, StartForget, ReadTarget, EndReading, DeleteTarget, EndDeleting, Count, Purge,
       EndForget, ForgetFails, vault, history, TypeOK

LEMMA NameStepRows ==
  ASSUME NEW n \in Names, Recall(n) \/ IndexDoc(n) \/ EraseSubject(n)
  PROVE  save' = save /\ retiredBy' = retiredBy /\ row' = row /\ forget' = forget /\ raced' = raced
         /\ cut' = cut
BY DEF Recall, IndexDoc, EraseSubject, history

-----------------------------------------------------------------------------
(* Tokens: who refers to which, and whether the vault has them.             *)

VaultGrows ==
  \A t \in Tokens : /\ IsLive(t) => live'[t[1]] = t[2]
                    /\ Counted(t) => t[2] <= gen'[t[1]]
                    /\ Counted(t) /\ ~IsLive(t) => live'[t[1]] # t[2]

\* The tokens of a row are those it had, or those of its save.
RowTokens(m) ==
  \A k \in Memories : \/ row'[k].tokens = row[k].tokens
                      \/ k = m /\ row'[m].tokens = save[m].tokens /\ save[m].pc \in Tokenized

\* The tokens of a save are those it had, or in the vault.
SaveTokens ==
  \A k \in Memories : \A t \in save'[k].tokens :
    t \in save[k].tokens \/ (t \in Tokens /\ live'[t[1]] = t[2] /\ t[2] <= gen'[t[1]])

\* A save gets tokens beside a forget call only where that is recorded.
SaveEnters(m) ==
  ~raced' => ~raced /\ (save'[m].pc \in Tokenized => save[m].pc \in Tokenized \/ ~Overlaps)

LEMMA SameVault == ASSUME TypeOK, live' = live, gen' = gen PROVE VaultGrows
BY DEF VaultGrows, IsLive, Counted

LEMMA PseudonymizeGrows ==
  ASSUME TypeOK, NEW N \in SUBSET Names, Pseudonymize(N) PROVE VaultGrows
BY PseudonymizeVault DEF VaultGrows

\* A save that gets no tokens in this step.
LEMMA SaveKeepsTokens ==
  ASSUME TypeOK, NEW m \in Memories, SaveStep(m), save'[m].tokens \subseteq save[m].tokens
  PROVE  SaveTokens
<1> SUFFICES ASSUME NEW k \in Memories, NEW t \in save'[k].tokens
             PROVE  t \in save[k].tokens
  BY Zenon DEF SaveTokens
<1> QED BY OtherSaves

LEMMA SaveGetsTokens ==
  ASSUME TypeOK, NEW m \in Memories, SaveStep(m), NEW N \in SUBSET Names, Pseudonymize(N),
         save'[m].tokens = TokensOf(N)
  PROVE  SaveTokens
<1>1. \A t \in save'[m].tokens : t \in Tokens /\ live'[t[1]] = t[2] /\ t[2] <= gen'[t[1]]
  BY PseudonymizeVault
<1>2. ASSUME NEW k \in Memories, NEW t \in save'[k].tokens, k # m
      PROVE  t \in save[k].tokens
  BY <1>2, OtherSaves
<1> QED BY <1>1, <1>2, Zenon DEF SaveTokens

LEMMA SaveStepTokens ==
  ASSUME TypeOK, SaveInv, NEW m \in Memories, SaveStep(m)
  PROVE  /\ VaultGrows /\ RowTokens(m) /\ SaveTokens /\ SaveEnters(m)
         /\ forget' = forget /\ erased' = erased /\ cut' = cut
<1> DEFINE Goal == /\ VaultGrows /\ RowTokens(m) /\ SaveTokens /\ SaveEnters(m)
                   /\ forget' = forget /\ erased' = erased /\ cut' = cut
<1> USE DEF vault, history
<1>0. /\ save[m] \in SaveType /\ row[m] \in RowType /\ SaveInvOf(m)
      /\ save \in [Memories -> SaveType] /\ row \in [Memories -> RowType]
      /\ ~row[m].there => row[m].tokens = {}
  BY DEF TypeOK, SaveInv, NoRow
<1>1. ASSUME NEW N \in SUBSET Names, NEW O \in SUBSET Orgs, NEW p \in BOOLEAN, SaveSync(m, N, O, p)
      PROVE  Goal
  <2>1. VaultGrows
    BY <1>1, PseudonymizeGrows DEF SaveSync
  <2>a. save'[m].tokens = TokensOf(N)
    BY <1>0, <1>1 DEF SaveSync, NewSave
  <2>2. SaveTokens
    BY <1>1, <2>a, SaveGetsTokens DEF SaveSync
  <2>3. RowTokens(m) /\ SaveEnters(m)
    BY <1>1 DEF SaveSync, RowTokens, SaveEnters
  <2> QED BY <1>1, <2>1, <2>2, <2>3 DEF SaveSync
<1>2. ASSUME NEW N \in SUBSET Names, NEW O \in SUBSET Orgs, NEW p \in BOOLEAN, NEW mode \in Modes,
             SaveFast(m, mode, N, O, p)
      PROVE  Goal
  <2>1. save'[m].tokens = {} /\ save'[m].pc \notin Tokenized
    BY <1>0, <1>2 DEF SaveFast, NewSave, Finished, Tokenized
  <2>2. RowTokens(m)
    BY <1>0, <1>2 DEF SaveFast, RowTokens, SaveInvOf, NoRow
  <2>3. SaveTokens /\ SaveEnters(m)
    BY <1>2, <2>1, SaveKeepsTokens DEF SaveFast, SaveEnters
  <2> QED BY <1>2, <2>2, <2>3, SameVault DEF SaveFast
<1>3. CASE TaskStarts(m)
  <2>1. save[m].names \subseteq Names
    BY <1>0 DEF SaveType
  <2>2. VaultGrows
    BY <1>3, <2>1, PseudonymizeGrows DEF TaskStarts
  <2>a. save'[m].tokens = TokensOf(save[m].names)
    BY <1>0, <1>3 DEF TaskStarts, SaveType
  <2>3. SaveTokens
    BY <1>3, <2>1, <2>a, SaveGetsTokens DEF TaskStarts
  <2>4. RowTokens(m) /\ SaveEnters(m)
    BY <1>3 DEF TaskStarts, RowTokens, SaveEnters
  <2> QED BY <1>3, <2>2, <2>3, <2>4 DEF TaskStarts
<1>4. CASE TaskResolves(m)
  <2>1. save'[m].tokens = save[m].tokens /\ save[m].pc \in Tokenized
    BY <1>0, <1>4 DEF TaskResolves, SaveType, Tokenized
  <2> QED BY <1>4, <2>1, SameVault, SaveKeepsTokens DEF TaskResolves, RowTokens, SaveEnters
<1>5. ASSUME NEW S \in SUBSET Memories, Candidates(m, S)
      PROVE  Goal
  <2>1. save'[m].tokens = save[m].tokens /\ save[m].pc \in Tokenized
    BY <1>0, <1>5 DEF Candidates, SaveType, Tokenized
  <2> QED BY <1>5, <2>1, SameVault, SaveKeepsTokens DEF Candidates, RowTokens, SaveEnters
<1>6. ASSUME NEW p \in Memories, Retire(m, p)
      PROVE  Goal
  <2>1. \A k \in Memories : row'[k].tokens = row[k].tokens
    BY <1>0, <1>6 DEF Retire, RowType
  <2>2. SaveTokens /\ SaveEnters(m)
    <3>1. save'[m].tokens = save[m].tokens /\ save[m].pc \in Tokenized
      BY <1>0, <1>6 DEF Retire, SaveType, Tokenized
    <3> QED BY <1>6, <3>1, SaveKeepsTokens DEF Retire, SaveEnters
  <2> QED BY <1>6, <2>1, <2>2, SameVault DEF Retire, RowTokens
<1>7. CASE Resolved(m)
  <2>1. save'[m].tokens = save[m].tokens /\ save[m].pc \in Tokenized
    BY <1>0, <1>7 DEF Resolved, SaveType, Tokenized
  <2> QED BY <1>7, <2>1, SameVault, SaveKeepsTokens DEF Resolved, RowTokens, SaveEnters
<1>8. CASE Insert(m)
  <2>1. row'[m].tokens = save[m].tokens /\ save[m].pc \in Tokenized
    BY <1>0, <1>8 DEF Insert, Referring, RowType, Tokenized, NoRow
  <2>2. RowTokens(m)
    BY <1>0, <1>8, <2>1 DEF Insert, RowTokens
  <2>3. SaveTokens /\ SaveEnters(m)
    <3>1. save'[m].tokens = {} /\ save'[m].pc \notin Tokenized
      BY <1>0, <1>8, FinishedParts DEF Insert, Tokenized
    <3> QED BY <1>8, <3>1, SaveKeepsTokens DEF Insert, SaveEnters
  <2> QED BY <1>8, <2>2, <2>3, SameVault DEF Insert
<1>9. CASE ReadRow(m)
  <2>1. \/ save'[m] = Finished("done")
        \/ save'[m].tokens = save[m].tokens /\ save[m].pc \in Tokenized
    BY <1>0, <1>9 DEF ReadRow, SaveType, Tokenized
  <2>2. SaveTokens /\ SaveEnters(m)
    <3>1. save'[m].tokens \subseteq save[m].tokens /\ save[m].pc \in Tokenized
      BY <1>9, <2>1, FinishedParts DEF ReadRow, Tokenized
    <3> QED BY <1>9, <3>1, SaveKeepsTokens DEF ReadRow, SaveEnters
  <2> QED BY <1>9, <2>2, SameVault DEF ReadRow, RowTokens
<1>10. CASE WriteRow(m)
  <2>1. /\ save[m].pc \in Tokenized
        /\ row'[m].tokens = save[m].tokens \/ row'[m] = row[m]
    BY <1>0, <1>10 DEF WriteRow, Referring, RowType, SaveType, Tokenized
  <2>2. RowTokens(m)
    BY <1>0, <1>10, <2>1 DEF WriteRow, RowTokens
  <2>3. SaveTokens /\ SaveEnters(m)
    <3>1. save'[m].tokens = {} /\ save'[m].pc \notin Tokenized
      BY <1>0, <1>10, FinishedParts DEF WriteRow, Tokenized
    <3> QED BY <1>10, <3>1, SaveKeepsTokens DEF WriteRow, SaveEnters
  <2> QED BY <1>10, <2>2, <2>3, SameVault DEF WriteRow
<1>11. CASE SaveFails(m)
  <2>1. SaveTokens /\ SaveEnters(m)
    <3>1. save'[m].tokens = {} /\ save'[m].pc \notin Tokenized
      BY <1>0, <1>11, FinishedParts DEF SaveFails, Tokenized
    <3> QED BY <1>11, <3>1, SaveKeepsTokens DEF SaveFails, SaveEnters
  <2> QED BY <1>11, <2>1, SameVault DEF SaveFails, RowTokens
<1>12. CASE Invalidate(m)
  <2>1. \A k \in Memories : row'[k].tokens = row[k].tokens
    BY <1>0, <1>12 DEF Invalidate, RowType
  <2> QED BY <1>12, <2>1, SameVault, SaveKeepsTokens DEF Invalidate, RowTokens, SaveEnters
<1> QED BY <1>1, <1>2, <1>3, <1>4, <1>5, <1>6, <1>7, <1>8, <1>9, <1>10, <1>11, <1>12 DEF SaveStep

\* The tokens of rows, saves and forget calls are tokens.
LEMMA TokenSets ==
  ASSUME TypeOK
  PROVE  /\ \A m \in Memories : row[m].tokens \subseteq Tokens /\ save[m].tokens \subseteq Tokens
         /\ \A f \in Forgets : /\ forget[f].tokens \subseteq Tokens /\ forget[f].took \subseteq Tokens
                               /\ forget[f].targets \subseteq Memories
         /\ erased \subseteq Tokens
BY DEF TypeOK, RowType, SaveType, ForgetType

LEMMA SaveStepInv ==
  ASSUME IInv, NEW m \in Memories, SaveStep(m)
  PROVE  CountedInv' /\ (~raced' => Apart' /\ Tracked')
<1>1. TypeOK /\ SaveInv /\ CountedInv /\ (~raced => Apart /\ Tracked)
  BY DEF IInv
<1>2. /\ VaultGrows /\ RowTokens(m) /\ SaveTokens /\ SaveEnters(m)
      /\ forget' = forget /\ erased' = erased /\ cut' = cut
  BY <1>1, SaveStepTokens
<1>3. \A k \in Memories : row'[k].tokens \subseteq row[k].tokens \cup save[k].tokens
  BY <1>2 DEF RowTokens
<1>4. CountedInv'
  <2>1. ASSUME NEW k \in Memories, NEW t \in row'[k].tokens \cup save'[k].tokens
        PROVE  t[2] <= gen'[t[1]]
    <3>1. CASE t \in row[k].tokens \cup save[k].tokens
      BY <1>1, <1>2, <3>1, TokenSets DEF CountedInv, VaultGrows
    <3>2. CASE t \notin row[k].tokens \cup save[k].tokens
      BY <1>2, <1>3, <2>1, <3>2 DEF SaveTokens
    <3> QED BY <3>1, <3>2
  <2>2. ASSUME NEW f \in Forgets, NEW t \in forget[f].tokens \cup forget[f].took
        PROVE  t[2] <= gen'[t[1]]
    BY <1>1, <1>2, <2>2, TokenSets DEF CountedInv, VaultGrows
  <2> QED BY <1>2, <2>1, <2>2 DEF CountedInv, Counted
<1>5. ASSUME ~raced'
      PROVE  Apart' /\ Tracked'
  <2>1. Apart /\ Tracked /\ (save'[m].pc \in Tokenized => save[m].pc \in Tokenized \/ ~Overlaps)
    BY <1>1, <1>2, <1>5 DEF SaveEnters
  <2>2. ASSUME NEW k \in Memories, NEW f \in Forgets
        PROVE  ~(save'[k].pc \in Tokenized /\ forget[f].pc \in Running)
    BY <1>1, <2>1, OtherSaves DEF Apart, Overlaps
  <2>3. ASSUME NEW k \in Memories, NEW t \in row'[k].tokens \cup save'[k].tokens
        PROVE  live'[t[1]] = t[2] \/ t \in erased
    <3>1. CASE t \in row[k].tokens \cup save[k].tokens
      BY <1>1, <1>2, <2>1, <3>1, TokenSets DEF Apart, VaultGrows, Resolves
    <3>2. CASE t \notin row[k].tokens \cup save[k].tokens
      BY <1>2, <1>3, <2>3, <3>2 DEF SaveTokens
    <3> QED BY <3>1, <3>2
  \* Beside a forget call no row changes its tokens.
  <2>4. ASSUME NEW f \in Forgets, forget[f].pc \in Running, NEW k \in Memories
        PROVE  row'[k].tokens = row[k].tokens
    BY <1>2, <2>1, <2>4 DEF RowTokens, Apart
  <2>5. Apart'
    <3>1. ASSUME NEW f \in Forgets, forget[f].pc = "purging", NEW t \in forget[f].todo
          PROVE  t \in Tokens /\ \A k \in Memories : t \notin row'[k].tokens
      BY <2>1, <2>4, <3>1 DEF Apart, Referred, Running
    <3> QED BY <1>2, <2>2, <2>3, <3>1 DEF Apart, Resolves, IsLive, Referred
  <2>6. ASSUME NEW f \in Forgets
        PROVE  Reads(f)'
    <3>1. ASSUME forget[f].pc \in {"reading", "deleting"}, NEW k \in forget[f].targets
          PROVE  row'[k].tokens \subseteq forget[f].tokens
      <4>1. k \in Memories
        BY <1>1, TokenSets
      <4> QED BY <2>1, <2>4, <3>1, <4>1 DEF Tracked, Reads, Running
    <3>2. Reads(f)
      BY <2>1 DEF Tracked
    <3> QED BY <1>2, <3>1, <3>2 DEF Reads
  <2>7. ASSUME ~cut, NEW f \in Forgets, forget[f].pc \in {"counting", "purging"},
               NEW t \in forget[f].took
        PROVE  Held(t)'
    <3>1. Held(t) /\ t \in Tokens /\ Counted(t)
      BY <1>1, <2>1, <2>7, TokenSets DEF Tracked, CountedInv
    <3>2. live'[t[1]] = t[2] => IsLive(t)
      BY <1>2, <3>1 DEF VaultGrows
    <3>3. Referred(t) => \E k \in Memories : t \in row'[k].tokens
      BY <2>4, <2>7 DEF Referred, Running
    <3> QED BY <1>2, <3>1, <3>2, <3>3 DEF Held, IsLive, Referred
  <2> QED BY <1>2, <2>5, <2>6, <2>7 DEF Tracked
<1> QED BY <1>4, <1>5

\* No step of a forget call brings a token into a row, and only a purge one out of the vault.
LEMMA ForgetStepTokens ==
  ASSUME TypeOK, NEW f \in Forgets, ForgetStep(f)
  PROVE  /\ \A g \in Forgets \ {f} : forget'[g] = forget[g]
         /\ \A k \in Memories : row'[k].tokens \subseteq row[k].tokens
         /\ forget'[f].took \subseteq forget[f].took \cup forget[f].tokens
         /\ \A t \in forget'[f].tokens :
              t \in forget[f].tokens \/ \E k \in Memories : t \in row[k].tokens
         /\ forget'[f].pc \in Running => forget[f].pc \in Running \/ forget[f].pc = "idle"
         /\ raced => raced'
         /\ cut => cut'
<1> USE DEF vault, history
<1>0. forget \in [Forgets -> ForgetType] /\ row \in [Memories -> RowType]
  BY DEF TypeOK
<1>1. \A k \in Memories : row'[k].tokens \subseteq row[k].tokens
  BY ForgetStepRows DEF NoRow
<1>2. CASE \E T \in SUBSET Memories : StartForget(f, T)
  <2>1. PICK T \in SUBSET Memories : StartForget(f, T)
    BY <1>2
  <2>2. forget'[f] = [NewForget EXCEPT !.pc = "reading", !.todo = T] /\ forget[f].pc = "idle"
    BY <1>0, <2>1 DEF StartForget
  <2>3. forget'[f].took = {} /\ forget'[f].tokens = {}
    BY <2>2 DEF NewForget
  <2>4. (raced => raced') /\ cut' = cut
    BY <2>1 DEF StartForget
  <2>5. \A g \in Forgets \ {f} : forget'[g] = forget[g]
    BY <1>0, <2>1 DEF StartForget
  <2> QED BY <1>1, <2>2, <2>3, <2>4, <2>5
<1>3. CASE \E m \in Memories : ReadTarget(f, m)
  BY <1>0, <1>1, <1>3 DEF ReadTarget, ForgetType
<1>4. CASE \E m \in Memories : DeleteTarget(f, m)
  BY <1>0, <1>1, <1>4 DEF DeleteTarget, ForgetType
<1>5. CASE EndReading(f)
  BY <1>0, <1>1, <1>5 DEF EndReading, ForgetType, Running
<1>6. CASE EndDeleting(f)
  BY <1>0, <1>1, <1>6 DEF EndDeleting, ForgetType, Running
<1>7. CASE \E t \in Tokens : Count(f, t)
  BY <1>0, <1>1, <1>7 DEF Count, ForgetType, Running
<1>8. CASE \E t \in Tokens : Purge(f, t)
  BY <1>0, <1>1, <1>8 DEF Purge, ForgetType, Running
<1>9. CASE EndForget(f)
  BY <1>0, <1>1, <1>9 DEF EndForget, NewForget, Running
<1>10. CASE ForgetFails(f)
  BY <1>0, <1>1, <1>10 DEF ForgetFails, NewForget, Running
<1> QED BY <1>2, <1>3, <1>4, <1>5, <1>6, <1>7, <1>8, <1>9, <1>10 DEF ForgetStep

LEMMA PurgingFromCount ==
  ASSUME TypeOK, NEW f \in Forgets, ForgetStep(f), forget'[f].pc = "purging"
  PROVE  \E t \in Tokens : Count(f, t)
<1>0. forget \in [Forgets -> ForgetType]
  BY DEF TypeOK
<1>1. ASSUME NEW T \in SUBSET Memories, StartForget(f, T) PROVE FALSE
  BY <1>0, <1>1 DEF StartForget, NewForget
<1>2. ASSUME NEW m \in Memories, ReadTarget(f, m) PROVE FALSE
  BY <1>0, <1>2 DEF ReadTarget, ForgetType
<1>3. ASSUME NEW m \in Memories, DeleteTarget(f, m) PROVE FALSE
  BY <1>0, <1>3 DEF DeleteTarget, ForgetType
<1>4. ASSUME EndReading(f) PROVE FALSE
  BY <1>0, <1>4 DEF EndReading, ForgetType
<1>5. ASSUME EndDeleting(f) PROVE FALSE
  BY <1>0, <1>5 DEF EndDeleting, ForgetType
<1>6. ASSUME NEW t \in Tokens, Purge(f, t) PROVE FALSE
  BY <1>0, <1>6 DEF Purge, ForgetType
<1>7. ASSUME EndForget(f) PROVE FALSE
  BY <1>0, <1>7 DEF EndForget, NewForget
<1>8. ASSUME ForgetFails(f) PROVE FALSE
  BY <1>0, <1>8 DEF ForgetFails, NewForget
<1> QED BY <1>1, <1>2, <1>3, <1>4, <1>5, <1>6, <1>7, <1>8 DEF ForgetStep

LEMMA ForgetStepCounted ==
  ASSUME TypeOK, CountedInv, NEW f \in Forgets, ForgetStep(f)
  PROVE  CountedInv'
<1>1. gen' = gen /\ save' = save
  BY ForgetStepRows
<1>2. ASSUME NEW k \in Memories, NEW t \in row'[k].tokens \cup save'[k].tokens
      PROVE  t[2] <= gen[t[1]]
  BY <1>1, <1>2, ForgetStepTokens DEF CountedInv, Counted
<1>3. ASSUME NEW g \in Forgets, NEW t \in forget'[g].tokens \cup forget'[g].took
      PROVE  t[2] <= gen[t[1]]
  BY <1>3, ForgetStepTokens DEF CountedInv, Counted
<1> QED BY <1>1, <1>2, <1>3 DEF CountedInv, Counted

\* A forget call takes no token that a row or a save of a name refers to.
LEMMA ForgetStepApart ==
  ASSUME TypeOK, SaveInv, Apart, NEW f \in Forgets, ForgetStep(f), ~raced'
  PROVE  Apart'
<1> USE DEF vault, history
<1>0. /\ forget \in [Forgets -> ForgetType] /\ row \in [Memories -> RowType]
      /\ live \in [Names -> 0 .. MaxGen]
  BY DEF TypeOK
<1>1. save' = save /\ erased' = erased
  BY ForgetStepRows
<1>2. ASSUME NEW m \in Memories, NEW g \in Forgets, save[m].pc \in Tokenized, forget'[g].pc \in Running
      PROVE  FALSE
  <2>1. g = f /\ forget[f].pc = "idle"
    BY <1>2, ForgetStepTokens DEF Apart
  <2>2. \E T \in SUBSET Memories : StartForget(f, T)
    BY <2>1 DEF ForgetStep, ReadTarget, DeleteTarget, EndReading, EndDeleting, Count, Purge,
                EndForget, ForgetFails, Running, TypeOK, ForgetType
  <2> QED BY <1>2, <2>2 DEF StartForget
<1>3. ASSUME NEW g \in Forgets, forget'[g].pc = "purging", NEW t \in forget'[g].todo
      PROVE  t \in Tokens /\ \A k \in Memories : t \notin row[k].tokens
  <2>1. CASE g # f
    <3>1. forget'[g] = forget[g]
      BY <2>1, ForgetStepTokens
    <3> QED BY <1>3, <3>1 DEF Apart, Referred
  <2>2. CASE g = f
    <3>1. g = f
      BY <2>2
    <3>2. PICK u \in Tokens : Count(f, u)
      BY <1>3, <3>1, PurgingFromCount
    <3>3. ~Referred(u) /\ forget'[f].todo = {u}
      BY <1>0, <1>3, <3>1, <3>2 DEF Count, ForgetType
    <3> QED BY <1>3, <3>1, <3>3 DEF Referred
  <2> QED BY <2>1, <2>2
<1>4. ASSUME NEW k \in Memories, NEW t \in row'[k].tokens \cup save[k].tokens
      PROVE  live'[t[1]] = t[2] \/ t \in erased
  <2>1. /\ t \in row[k].tokens \cup save[k].tokens /\ t \in Tokens
        /\ IsLive(t) \/ t \in erased
    BY <1>4, ForgetStepTokens, TokenSets DEF Apart, Resolves
  <2>2. CASE live' = live
    BY <2>1, <2>2 DEF IsLive
  <2>3. CASE \E u \in Tokens : Purge(f, u)
    <3>1. PICK u \in Tokens : Purge(f, u)
      BY <2>3
    <3>2. forget[f].pc = "purging" /\ u \in forget[f].todo
      BY <3>1 DEF Purge
    <3>3. t \in save[k].tokens \/ t # u
      BY <1>4, <3>2, ForgetStepTokens DEF Apart, Referred
    <3>4. CASE t # u
      <4>1. t = <<t[1], t[2]>> /\ u = <<u[1], u[2]>> /\ t[1] \in Names /\ u[1] \in Names
        BY <2>1, TokenParts
      <4> QED BY <1>0, <2>1, <3>1, <3>4, <4>1 DEF Purge, IsLive
    <3>5. CASE t = u /\ t \in save[k].tokens
      <4>1. save[k].pc \in Tokenized \/ save[k].tokens = {}
        BY DEF SaveInv, SaveInvOf
      <4> QED BY <3>2, <3>5, <4>1 DEF Apart, Running
    <3> QED BY <3>3, <3>4, <3>5
  <2> QED BY <2>2, <2>3
    DEF ForgetStep, StartForget, ReadTarget, DeleteTarget, EndReading, EndDeleting, Count,
        EndForget, ForgetFails
<1>5. \A k \in Memories : row'[k].tokens \subseteq row[k].tokens
  BY ForgetStepTokens
<1>6. \A m \in Memories, g \in Forgets : ~(save'[m].pc \in Tokenized /\ forget'[g].pc \in Running)
  BY <1>1, <1>2
<1>7. \A k \in Memories : \A t \in row'[k].tokens \cup save'[k].tokens :
        live'[t[1]] = t[2] \/ t \in erased'
  BY <1>1, <1>4
<1>8. \A g \in Forgets : forget'[g].pc = "purging" =>
        \A t \in forget'[g].todo : t \in Tokens /\ ~(\E k \in Memories : t \in row'[k].tokens)
  BY <1>3, <1>5
<1> QED BY <1>6, <1>7, <1>8 DEF Apart, Resolves, IsLive, Referred

LEMMA ForgetStepReads ==
  ASSUME TypeOK, \A g \in Forgets : Reads(g), NEW f \in Forgets, ForgetStep(f), NEW g \in Forgets
  PROVE  Reads(g)'
<1> USE DEF vault, history
<1>0. /\ forget \in [Forgets -> ForgetType] /\ row \in [Memories -> RowType] /\ Reads(g)
      /\ forget[g].targets \subseteq Memories
  BY DEF TypeOK, ForgetType
<1>a. \A k \in Memories : row'[k].tokens \subseteq row[k].tokens
  BY ForgetStepTokens
<1>b. CASE g # f
  BY <1>0, <1>a, <1>b, ForgetStepTokens DEF Reads
<1>1. ASSUME g = f, NEW T \in SUBSET Memories, StartForget(f, T)
      PROVE  Reads(g)'
  BY <1>0, <1>1 DEF StartForget, NewForget, Reads
<1>2. ASSUME g = f, NEW m \in Memories, ReadTarget(f, m)
      PROVE  Reads(g)'
  <2>1. /\ forget'[f].pc = "reading" /\ forget[f].pc = "reading" /\ row' = row
        /\ forget'[f].targets \subseteq forget[f].targets \cup {m}
        /\ forget'[f].tokens = forget[f].tokens \cup row[m].tokens
    BY <1>0, <1>2 DEF ReadTarget, ForgetType
  <2> QED BY <1>0, <1>2, <2>1 DEF Reads
<1>3. ASSUME g = f, NEW m \in Memories, DeleteTarget(f, m)
      PROVE  Reads(g)'
  <2>1. /\ forget'[f].pc = "deleting" /\ forget[f].pc = "deleting"
        /\ forget'[f].targets \subseteq forget[f].targets
        /\ forget'[f].tokens = forget[f].tokens /\ forget'[f].took = forget[f].took
    BY <1>0, <1>3 DEF DeleteTarget, ForgetType
  <2> QED BY <1>0, <1>a, <1>3, <2>1 DEF Reads
<1>4. CASE g = f /\ EndReading(f)
  <2>1. /\ forget'[f].pc = "deleting" /\ forget[f].pc = "reading" /\ row' = row
        /\ forget'[f].targets = forget[f].targets
        /\ forget'[f].tokens = forget[f].tokens /\ forget'[f].took = forget[f].tokens
    BY <1>0, <1>4 DEF EndReading, ForgetType
  <2> QED BY <1>0, <1>4, <2>1 DEF Reads
<1>5. CASE g = f /\ EndDeleting(f)
  BY <1>0, <1>5 DEF EndDeleting, ForgetType, Reads
<1>6. ASSUME g = f, NEW t \in Tokens, Count(f, t)
      PROVE  Reads(g)'
  BY <1>0, <1>6 DEF Count, ForgetType, Reads
<1>7. ASSUME g = f, NEW t \in Tokens, Purge(f, t)
      PROVE  Reads(g)'
  BY <1>0, <1>7 DEF Purge, ForgetType, Reads
<1>8. CASE g = f /\ EndForget(f)
  BY <1>0, <1>8 DEF EndForget, NewForget, Reads
<1>9. CASE g = f /\ ForgetFails(f)
  BY <1>0, <1>9 DEF ForgetFails, NewForget, Reads
<1> QED BY <1>b, <1>1, <1>2, <1>3, <1>4, <1>5, <1>6, <1>7, <1>8, <1>9 DEF ForgetStep

\* A token that is dead, referred to or still to be counted stays so.
LEMMA ForgetStepHeld ==
  ASSUME TypeOK, \A g \in Forgets : Reads(g), NEW f \in Forgets, ForgetStep(f), ~cut',
         NEW t \in Tokens, Held(t)
  PROVE  Held(t)'
<1> USE DEF vault, history
<1>0. /\ forget \in [Forgets -> ForgetType] /\ row \in [Memories -> RowType] /\ Reads(f)
      /\ live \in [Names -> 0 .. MaxGen]
  BY DEF TypeOK
<1> DEFINE Counts == \E g \in Forgets : t \in forget'[g].tokens
           Refers == \E k \in Memories : t \in row'[k].tokens
           Alive == live'[t[1]] = t[2]
<1>a. \A g \in Forgets \ {f} : forget'[g] = forget[g]
  BY ForgetStepTokens
<1>b. SUFFICES Alive => Refers \/ Counts
  BY DEF Held, IsLive, Referred
<1>c. ASSUME live' = live, row' = row, t \in forget[f].tokens => t \in forget'[f].tokens \/ Referred(t)
      PROVE  Alive => Refers \/ Counts
  BY <1>a, <1>c DEF Held, IsLive, Referred
<1> HIDE DEF Alive, Refers, Counts
<1>1. ASSUME NEW T \in SUBSET Memories, StartForget(f, T)
      PROVE  Alive => Refers \/ Counts
  BY <1>0, <1>c, <1>1 DEF StartForget, Reads
<1>2. ASSUME NEW m \in Memories, ReadTarget(f, m)
      PROVE  Alive => Refers \/ Counts
  <2>1. forget[f].tokens \subseteq forget'[f].tokens
    BY <1>0, <1>2 DEF ReadTarget, ForgetType
  <2> QED BY <1>c, <1>2, <2>1 DEF ReadTarget
<1>3. ASSUME NEW m \in Memories, DeleteTarget(f, m)
      PROVE  Alive => Refers \/ Counts
  <2>1. /\ forget'[f].tokens = forget[f].tokens /\ row[m].tokens \subseteq forget[f].tokens
        /\ live' = live /\ \A k \in Memories \ {m} : row'[k] = row[k]
    BY <1>0, <1>3 DEF DeleteTarget, ForgetType, Reads
  <2> QED BY <1>a, <2>1 DEF Alive, Refers, Counts, Held, IsLive, Referred
<1>4. CASE EndReading(f)
  <2>1. forget'[f].tokens = forget[f].tokens
    BY <1>0, <1>4 DEF EndReading, ForgetType
  <2> QED BY <1>c, <1>4, <2>1 DEF EndReading
<1>5. CASE EndDeleting(f)
  <2>1. forget'[f].tokens = forget[f].tokens
    BY <1>0, <1>5 DEF EndDeleting, ForgetType
  <2> QED BY <1>c, <1>5, <2>1 DEF EndDeleting
<1>6. ASSUME NEW u \in Tokens, Count(f, u)
      PROVE  Alive => Refers \/ Counts
  <2>1. t \in forget[f].tokens => t \in forget'[f].tokens \/ Referred(t)
    BY <1>0, <1>6 DEF Count, ForgetType
  <2> QED BY <1>c, <1>6, <2>1 DEF Count
<1>7. ASSUME NEW u \in Tokens, Purge(f, u)
      PROVE  Alive => Refers \/ Counts
  <2>1. forget'[f].tokens = forget[f].tokens \ {u} /\ row' = row
    BY <1>0, <1>7 DEF Purge, ForgetType
  <2>2. Alive => IsLive(t) /\ t # u
    <3>1. t[1] \in Names /\ t[2] # 0 /\ u[1] \in Names
      BY TokenParts
    <3> QED BY <1>0, <1>7, <3>1 DEF Purge, Alive, IsLive
  <2> QED BY <1>a, <2>1, <2>2 DEF Refers, Counts, Held, Referred
<1>8. CASE EndForget(f)
  BY <1>c, <1>8 DEF EndForget
<1>9. CASE ForgetFails(f)
  BY <1>9 DEF ForgetFails
<1> QED BY <1>1, <1>2, <1>3, <1>4, <1>5, <1>6, <1>7, <1>8, <1>9 DEF ForgetStep

LEMMA ForgetStepTracked ==
  ASSUME TypeOK, Tracked, NEW f \in Forgets, ForgetStep(f)
  PROVE  Tracked'
<1>0. forget \in [Forgets -> ForgetType]
  BY DEF TypeOK
<1>1. \A g \in Forgets : Reads(g)'
  BY ForgetStepReads DEF Tracked
<1>2. ASSUME ~cut', NEW g \in Forgets, forget'[g].pc \in {"counting", "purging"},
             NEW t \in forget'[g].took
      PROVE  Held(t)'
  <2>1. ~cut /\ t \in Tokens
    BY <1>2, ForgetStepTokens, TokenSets
  <2>2. CASE forget[g].pc \in {"counting", "purging"} /\ forget'[g].took = forget[g].took
    BY <1>2, <2>1, <2>2, ForgetStepHeld DEF Tracked
  <2>3. CASE g = f /\ EndDeleting(f)
    <3>1. forget[f].pc = "deleting" /\ forget'[f].took = forget[f].took
      BY <1>0, <2>3 DEF EndDeleting, ForgetType
    <3>2. t \in forget[f].tokens
      BY <1>2, <2>3, <3>1 DEF Tracked, Reads
    <3>3. Held(t)
      BY <3>2 DEF Held
    <3> QED BY <1>2, <2>1, <3>3, ForgetStepHeld DEF Tracked
  <2>4. CASE g # f
    BY <1>2, <2>2, <2>4, ForgetStepTokens
  <2>5. CASE g = f /\ ~EndDeleting(f)
    <3>1. \E u \in Tokens : Count(f, u) \/ Purge(f, u)
      <4>0. forget'[f].pc \in {"counting", "purging"}
        BY <1>2, <2>5
      <4>1. ASSUME NEW T \in SUBSET Memories, StartForget(f, T) PROVE FALSE
        BY <1>0, <4>0, <4>1 DEF StartForget, NewForget
      <4>2. ASSUME NEW m \in Memories, ReadTarget(f, m) PROVE FALSE
        BY <1>0, <4>0, <4>2 DEF ReadTarget, ForgetType
      <4>3. ASSUME NEW m \in Memories, DeleteTarget(f, m) PROVE FALSE
        BY <1>0, <4>0, <4>3 DEF DeleteTarget, ForgetType
      <4>4. ASSUME EndReading(f) PROVE FALSE
        BY <1>0, <4>0, <4>4 DEF EndReading, ForgetType
      <4>5. ASSUME EndForget(f) PROVE FALSE
        BY <1>0, <4>0, <4>5 DEF EndForget, NewForget
      <4>6. ASSUME ForgetFails(f) PROVE FALSE
        BY <1>0, <4>0, <4>6 DEF ForgetFails, NewForget
      <4> QED BY <2>5, <4>1, <4>2, <4>3, <4>4, <4>5, <4>6 DEF ForgetStep
    <3>2. forget[f].pc \in {"counting", "purging"} /\ forget'[f].took = forget[f].took
      BY <1>0, <3>1 DEF Count, Purge, ForgetType
    <3> QED BY <2>2, <2>5, <3>2
  <2> QED BY <2>3, <2>4, <2>5
<1> QED BY <1>1, <1>2 DEF Tracked

LEMMA NameStepInv ==
  ASSUME IInv, NEW n \in Names, Recall(n) \/ IndexDoc(n) \/ EraseSubject(n)
  PROVE  CountedInv' /\ (~raced' => Apart' /\ Tracked')
<1> USE DEF history
<1>1. TypeOK /\ CountedInv /\ (~raced => Apart /\ Tracked)
  BY DEF IInv
<1>2. save' = save /\ row' = row /\ forget' = forget /\ raced' = raced /\ cut' = cut
  BY NameStepRows
<1>3. /\ \A t \in Tokens : IsLive(t) => live'[t[1]] = t[2] \/ t \in erased'
      /\ \A t \in Tokens : Counted(t) => t[2] <= gen'[t[1]]
      /\ \A t \in Tokens : Counted(t) /\ ~IsLive(t) => live'[t[1]] # t[2]
      /\ erased \subseteq erased'
  <2>1. CASE Recall(n) \/ IndexDoc(n)
    <3>1. VaultGrows
      BY <1>1, <2>1, PseudonymizeGrows DEF Recall, IndexDoc
    <3> QED BY <2>1, <3>1 DEF VaultGrows, Recall, IndexDoc
  <2>2. CASE EraseSubject(n)
    <3>1. /\ live \in [Names -> 0 .. MaxGen] /\ gen' = gen
          /\ live' = [live EXCEPT ![n] = 0] /\ erased' = erased \cup {TokenOf(n)}
      BY <1>1, <2>2 DEF EraseSubject, TypeOK
    <3>2. ASSUME NEW t \in Tokens
          PROVE  /\ IsLive(t) => live'[t[1]] = t[2] \/ t \in erased'
                 /\ ~IsLive(t) => live'[t[1]] # t[2]
      BY <3>1, TokenParts DEF IsLive, TokenOf
    <3> QED BY <3>1, <3>2 DEF Counted
  <2> QED BY <2>1, <2>2
<1>4. CountedInv'
  BY <1>1, <1>2, <1>3, TokenSets DEF CountedInv, Counted
<1>5. ASSUME ~raced
      PROVE  Apart'
  <2>1. \A m \in Memories : \A t \in row[m].tokens \cup save[m].tokens :
          live'[t[1]] = t[2] \/ t \in erased'
    BY <1>1, <1>3, <1>5, TokenSets DEF Apart, Resolves
  <2> QED BY <1>1, <1>2, <1>5, <2>1 DEF Apart, Resolves, IsLive, Referred
<1>6. ASSUME ~raced
      PROVE  Tracked'
  <2>1. \A g \in Forgets : Reads(g)'
    BY <1>1, <1>2, <1>6 DEF Tracked, Reads
  <2>2. ASSUME ~cut, NEW g \in Forgets, forget[g].pc \in {"counting", "purging"},
               NEW t \in forget[g].took
        PROVE  Held(t)'
    <3>1. Held(t) /\ t \in Tokens /\ Counted(t)
      BY <1>1, <1>6, <2>2, TokenSets DEF Tracked, CountedInv
    <3> QED BY <1>2, <1>3, <3>1 DEF Held, IsLive, Referred
  <2> QED BY <1>2, <2>1, <2>2 DEF Tracked
<1> QED BY <1>2, <1>4, <1>5, <1>6

-----------------------------------------------------------------------------
(* The invariant and the theorems.                                          *)

LEMMA InitInv == Init => IInv
<1> SUFFICES ASSUME Init
             PROVE  IInv
  OBVIOUS
<1> USE DEF Init, NoRow, NewSave, NewForget
<1>1. TypeOK
  <2>1. /\ row \in [Memories -> RowType] /\ save \in [Memories -> SaveType]
        /\ forget \in [Forgets -> ForgetType]
    BY NoRowType
  <2>2. /\ live \in [Names -> 0 .. MaxGen] /\ gen \in [Names -> 0 .. MaxGen]
        /\ \A n \in Names : live[n] <= gen[n]
    BY MaxGenAssumption
  <2>3. \A m \in Memories : ~row[m].there => row[m] = NoRow
    OBVIOUS
  <2>4. retiredBy \in [Memories -> Memories \cup {NoMemory}] /\ chunks \subseteq Tokens
        /\ erased \subseteq Tokens /\ raced \in BOOLEAN /\ cut \in BOOLEAN
    OBVIOUS
  <2> QED BY <2>1, <2>2, <2>3, <2>4 DEF TypeOK
<1>2. SaveInv
  BY DEF SaveInv, SaveInvOf, Tokenized
<1>3. CountedInv
  BY DEF CountedInv
<1>4. Apart
  BY DEF Apart, Tokenized, Running
<1>5. Tracked
  BY DEF Tracked, Reads
<1> QED BY <1>1, <1>2, <1>3, <1>4, <1>5 DEF IInv

LEMMA NextInv == IInv /\ [Next]_vars => IInv'
<1> SUFFICES ASSUME IInv, [Next]_vars
             PROVE  IInv'
  OBVIOUS
<1>0. TypeOK /\ SaveInv /\ CountedInv /\ (~raced => Apart /\ Tracked)
  BY DEF IInv
<1>1. ASSUME NEW m \in Memories, SaveStep(m)
      PROVE  IInv'
  BY <1>0, <1>1, SaveStepTypes, SaveStepSaveInv, SaveStepInv DEF IInv
<1>2. ASSUME NEW f \in Forgets, ForgetStep(f)
      PROVE  IInv'
  <2>1. TypeOK' /\ CountedInv'
    BY <1>0, <1>2, ForgetStepTypes, ForgetStepCounted
  <2>2. SaveInv'
    BY <1>0, <1>2, ForgetStepRows, OtherStepsSaveInv
  <2>3. ~raced' => Apart' /\ Tracked'
    BY <1>0, <1>2, ForgetStepTokens, ForgetStepApart, ForgetStepTracked
  <2> QED BY <2>1, <2>2, <2>3 DEF IInv
<1>3. ASSUME NEW n \in Names, Recall(n) \/ IndexDoc(n) \/ EraseSubject(n)
      PROVE  IInv'
  <2>1. TypeOK'
    BY <1>0, <1>3, NameStepTypes
  <2>2. SaveInv'
    BY <1>0, <1>3, NameStepRows, OtherStepsSaveInv
  <2> QED BY <1>3, <2>1, <2>2, NameStepInv DEF IInv
<1>4. CASE UNCHANGED vars
  BY <1>0, <1>4
  DEF vars, IInv, TypeOK, SaveInv, SaveInvOf, CountedInv, Counted, Apart, Resolves, IsLive, Referred,
      Tracked, Reads, Held
<1> QED BY <1>1, <1>2, <1>3, <1>4 DEF Next

LEMMA Invariance == Spec => []IInv
BY InitInv, NextInv, PTL DEF Spec

\* The types of vault, table, saves and forget calls (anno-rag/src/pipeline.rs 1091-1729).
THEOREM TypeCorrect == Spec => []TypeOK
<1>1. IInv => TypeOK
  BY DEF IInv
<1> QED BY <1>1, Invariance, PTL

\* A name in a memory that is kept resolves until its subject is erased, as long as no save
\* overlapped a forget call (pipeline.rs 1692-1724).
THEOREM KeptResolvesHolds == Spec => []KeptResolves
<1>1. IInv => KeptResolves
  BY DEF IInv, KeptResolves, Apart, Resolves
<1> QED BY <1>1, Invariance, PTL

\* Two memories never retire each other (pipeline.rs 1156-1175, 1258-1290): a memory that is
\* retired was done, and one that retires is not yet.
THEOREM OneSurvivesHolds == Spec => []OneSurvives
<1>1. Init => OneSurvives
  BY NoMemoryAssumption DEF Init, OneSurvives
<1>2. IInv /\ OneSurvives /\ [Next]_vars => OneSurvives'
  <2> SUFFICES ASSUME IInv, OneSurvives, [Next]_vars
               PROVE  OneSurvives'
    OBVIOUS
  <2>1. CASE retiredBy' = retiredBy
    BY <2>1 DEF OneSurvives
  <2>2. ASSUME NEW m \in Memories, NEW p \in Memories, Retire(m, p)
        PROVE  OneSurvives'
    <3>1. /\ retiredBy \in [Memories -> Memories \cup {NoMemory}]
          /\ save[m].pc = "retiring" /\ save[p].pc = "done"
          /\ retiredBy[m] # NoMemory => save[m].pc = "done"
      BY <2>2 DEF IInv, TypeOK, SaveInv, SaveInvOf, Retire
    <3>2. retiredBy[m] = NoMemory /\ m # p
      BY <3>1
    <3>3. retiredBy' = retiredBy \/ retiredBy' = [retiredBy EXCEPT ![p] = m]
      BY <2>2 DEF Retire
    <3> QED BY <3>1, <3>2, <3>3, NoMemoryAssumption DEF OneSurvives
  <2>3. retiredBy' = retiredBy \/ \E m, p \in Memories : Retire(m, p)
    <3>1. ASSUME NEW m \in Memories, SaveStep(m)
          PROVE  retiredBy' = retiredBy \/ \E p \in Memories : Retire(m, p)
      BY <3>1 DEF SaveStep, SaveSync, SaveFast, TaskStarts, TaskResolves, Candidates, Resolved,
                  Insert, ReadRow, WriteRow, SaveFails, Invalidate, history
    <3>2. ASSUME NEW f \in Forgets, ForgetStep(f)
          PROVE  retiredBy' = retiredBy
      BY <3>2, ForgetStepRows DEF IInv
    <3>3. ASSUME NEW n \in Names, Recall(n) \/ IndexDoc(n) \/ EraseSubject(n)
          PROVE  retiredBy' = retiredBy
      BY <3>3, NameStepRows
    <3> QED BY <3>1, <3>2, <3>3 DEF Next, vars
  <2> QED BY <2>1, <2>2, <2>3
<1> QED BY <1>1, <1>2, Invariance, PTL DEF Spec

\* A forget call that ends has left no token of what it deleted, unless a kept memory has it
\* or another call has still to count it (pipeline.rs 1695-1723).
THEOREM CascadeCompleteHolds == Spec => CascadeComplete
<1>1. IInv /\ [Next]_vars =>
        [\A f \in Forgets :
           forget[f].pc = "counting" /\ forget'[f].pc = "done" /\ ~raced /\ ~cut =>
             \A t \in forget[f].took :
               IsLive(t) => Referred(t) \/ \E g \in Forgets \ {f} : t \in forget[g].tokens]_vars
  <2> SUFFICES ASSUME IInv, Next, NEW f \in Forgets, forget[f].pc = "counting",
                      forget'[f].pc = "done", ~raced, ~cut, NEW t \in forget[f].took
               PROVE  IsLive(t) => Referred(t) \/ \E g \in Forgets \ {f} : t \in forget[g].tokens
    OBVIOUS
  <2>0. TypeOK /\ forget \in [Forgets -> ForgetType]
    BY DEF IInv, TypeOK
  <2>1. Held(t)
    BY DEF IInv, Tracked
  <2>2. ForgetStep(f)
    <3>1. ASSUME NEW m \in Memories, SaveStep(m)
          PROVE  FALSE
      BY <3>1, SaveStepTokens DEF IInv
    <3>2. ASSUME NEW n \in Names, Recall(n) \/ IndexDoc(n) \/ EraseSubject(n)
          PROVE  FALSE
      BY <3>2, NameStepRows
    <3>3. ASSUME NEW g \in Forgets, ForgetStep(g), g # f
          PROVE  FALSE
      BY <2>0, <3>3, ForgetStepTokens
    <3> QED BY <3>1, <3>2, <3>3 DEF Next
  <2>3. EndForget(f)
    <3>1. ASSUME NEW u \in Tokens, Count(f, u) PROVE FALSE
      BY <2>0, <3>1 DEF Count, ForgetType
    <3>2. ASSUME ForgetFails(f) PROVE FALSE
      BY <2>0, <3>2 DEF ForgetFails, NewForget
    <3> QED BY <2>2, <3>1, <3>2 DEF ForgetStep, StartForget, ReadTarget, DeleteTarget, EndReading,
                                     EndDeleting, Purge
  <2>4. forget[f].tokens = {}
    BY <2>3 DEF EndForget
  <2> QED BY <2>1, <2>4 DEF Held
<1> QED BY <1>1, Invariance, PTL DEF Spec, CascadeComplete

\* No task brings a memory back whose row was deleted (store.rs 491-509).
THEOREM ForgottenStaysHolds == Spec => ForgottenStays
<1>1. IInv /\ [Next]_vars => [\A m \in Memories : Gone(m) => Gone(m)']_vars
  <2> SUFFICES ASSUME IInv, Next, NEW m \in Memories, Gone(m)
               PROVE  Gone(m)'
    OBVIOUS
  <2>0. /\ TypeOK /\ SaveInvOf(m)
        /\ save \in [Memories -> SaveType] /\ row \in [Memories -> RowType]
    BY DEF IInv, TypeOK, SaveInv
  <2>1. ASSUME NEW k \in Memories, SaveStep(k), k # m
        PROVE  Gone(m)'
    <3>1. save'[m] = save[m]
      BY <2>0, <2>1, OtherSaves
    <3>2. row'[m] = row[m]
      BY <2>0, <2>1
      DEF SaveStep, SaveSync, SaveFast, TaskStarts, TaskResolves, Candidates, Resolved, Retire,
          Insert, ReadRow, WriteRow, SaveFails, Invalidate, Gone
    <3> QED BY <3>1, <3>2 DEF Gone
  <2>2. CASE SaveStep(m)
    <3>1. ~row'[m].there
      <4>1. ASSUME NEW p \in Memories, Retire(m, p)
            PROVE  row'[m].there = row[m].there
        <5>1. CASE row[p].there /\ row[p].valid
          BY <2>0, <4>1, <5>1 DEF Retire, Gone
        <5>2. CASE ~(row[p].there /\ row[p].valid)
          BY <4>1, <5>2 DEF Retire
        <5> QED BY <5>1, <5>2
      <4>2. CASE WriteRow(m)
        BY <2>0, <4>2 DEF WriteRow, Gone
      <4>3. CASE row' = row
        BY <4>3 DEF Gone
      <4> QED BY <2>0, <2>2, <4>1, <4>2, <4>3
        DEF SaveStep, SaveSync, SaveFast, TaskStarts, TaskResolves, Candidates, Resolved,
            Insert, ReadRow, SaveFails, Invalidate, Gone, SaveInvOf
    <3>2. save'[m].task = save[m].task \/ save'[m] = Finished("done") \/ save'[m] = Finished("failed")
      <4>1. ASSUME NEW p \in Memories, NEW S \in SUBSET Memories,
                   \/ TaskStarts(m) \/ TaskResolves(m) \/ Candidates(m, S) \/ Retire(m, p)
                   \/ Resolved(m) \/ Invalidate(m)
            PROVE  save'[m].task = save[m].task
        BY <2>0, <4>1 DEF TaskStarts, TaskResolves, Candidates, Retire, Resolved, Invalidate, SaveType
      <4>2. CASE Insert(m) \/ WriteRow(m) \/ SaveFails(m)
        BY <2>0, <4>2 DEF Insert, WriteRow, SaveFails
      <4>3. CASE ReadRow(m)
        BY <2>0, <4>3 DEF ReadRow, Gone
      <4> QED BY <2>0, <2>2, <4>1, <4>2, <4>3 DEF SaveStep, SaveSync, SaveFast, Gone, SaveInvOf
    <3>3. save[m].pc \in {"done", "failed"} => save'[m] = save[m]
      BY <2>0, <2>2
      DEF SaveStep, SaveSync, SaveFast, TaskStarts, TaskResolves, Candidates, Resolved, Retire,
          Insert, ReadRow, WriteRow, SaveFails, Invalidate, Gone, SaveType, Tokenized
    <3> QED BY <3>1, <3>2, <3>3, FinishedParts DEF Gone
  <2>3. ASSUME NEW f \in Forgets, ForgetStep(f)
        PROVE  Gone(m)'
    BY <2>0, <2>3, ForgetStepRows DEF Gone, NoRow
  <2>4. ASSUME NEW n \in Names, Recall(n) \/ IndexDoc(n) \/ EraseSubject(n)
        PROVE  Gone(m)'
    BY <2>4, NameStepRows DEF Gone
  <2> QED BY <2>1, <2>2, <2>3, <2>4 DEF Next
<1> QED BY <1>1, Invariance, PTL DEF Spec, ForgottenStays

-----------------------------------------------------------------------------
(* The token store.                                                         *)

LEMMA MintedTokens ==
  ASSUME TypeOK
  PROVE  /\ Minted = {t \in Tokens : Counted(t)}
         /\ \A t \in Tokens : IsLive(t) => Counted(t)
<1> USE MaxGenAssumption
<1>1. \A n \in Names : gen[n] \in 0 .. MaxGen /\ live[n] \in 0 .. MaxGen /\ live[n] <= gen[n]
  BY DEF TypeOK
<1>2. ASSUME NEW t \in Minted PROVE t \in Tokens /\ Counted(t)
  BY <1>1, <1>2 DEF Minted, Tokens, Counted
<1>3. ASSUME NEW t \in Tokens, Counted(t) PROVE t \in Minted
  <2>1. t[1] \in Names /\ t[2] \in 1 .. gen[t[1]] /\ t = <<t[1], t[2]>>
    BY <1>1, <1>3, TokenParts DEF Counted
  <2> QED BY <2>1 DEF Minted
<1>4. ASSUME NEW t \in Tokens, IsLive(t) PROVE Counted(t)
  BY <1>1, <1>4, TokenParts DEF IsLive, Counted
<1> QED BY <1>2, <1>3, <1>4

LEMMA StoreResolves == ASSUME TypeOK PROVE Store!Resolves
<1> DEFINE Answer(t) == IF IsLive(t) THEN {t[1]} ELSE {}
           answer == [t \in Tokens |-> Answer(t)]
<1>1. \A t \in Tokens : Answer(t) \in SUBSET Names /\ Answer(t) \subseteq {t[1]}
  BY TokenParts
<1>2. answer \in [Tokens -> SUBSET Names]
  BY <1>1
<1>3. \A t \in Minted : t \in Tokens /\ (t \notin Ended => Answer(t) = {t[1]})
  BY MintedTokens DEF Ended
<1>4. \A t \in Ended : t \in Tokens /\ Answer(t) = {}
  BY MintedTokens DEF Ended
<1>5. ASSUME NEW x \in {<<t, t[1]>> : t \in Minted}
      PROVE  /\ answer[x[1]] \subseteq {x[2]}
             /\ x[1] \notin Ended => answer[x[1]] = {x[2]}
  <2>1. PICK t \in Minted : x = <<t, t[1]>>
    OBVIOUS
  <2>2. t \in Tokens /\ answer[t] = Answer(t) /\ x[1] = t /\ x[2] = t[1]
    BY <1>3, <2>1
  <2> HIDE DEF answer, Answer
  <2> QED BY <1>1, <1>3, <2>2
<1>6. \A t \in Ended : answer[t] = {}
  BY <1>4
<1> QED BY <1>2, <1>5, <1>6 DEF Store!Resolves

\* The new tokens of a text are handed out: no one had them, and the names had none.
LEMMA PseudonymizeHandsOut ==
  ASSUME TypeOK, TypeOK', NEW N \in SUBSET Names, Pseudonymize(N)
  PROVE  \E P \in SUBSET (Tokens \X Names) : Store!HandOut(P)
<1> USE MaxGenAssumption
<1> DEFINE New == {t \in Tokens : ~Counted(t) /\ t[2] <= gen'[t[1]]}
           P == {<<t, t[1]>> : t \in New}
           Issued == {<<t, t[1]>> : t \in Minted}
<1>1. \A n \in Names : /\ live[n] \in 0 .. MaxGen /\ gen[n] \in 0 .. MaxGen
                       /\ gen'[n] = IF n \in N /\ live[n] = 0 THEN gen[n] + 1 ELSE gen[n]
                       /\ live'[n] = IF n \in N /\ live[n] = 0 THEN gen[n] + 1 ELSE live[n]
  BY DEF TypeOK, Pseudonymize
<1>2. Minted = {t \in Tokens : Counted(t)} /\ Minted' = {t \in Tokens : t[2] <= gen'[t[1]]}
  <2>1. (Minted = {t \in Tokens : Counted(t)})'
    BY MintedTokens, PTL
  <2> QED BY <2>1, MintedTokens DEF Counted
<1>3. ASSUME NEW t \in New
      PROVE  /\ t[1] \in Names /\ t[2] = gen[t[1]] + 1 /\ live[t[1]] = 0 /\ live'[t[1]] = t[2]
             /\ t = <<t[1], t[2]>>
  <2>1. t[1] \in Names /\ t[2] \in Nat /\ t = <<t[1], t[2]>>
    BY TokenParts
  <2> QED BY <1>1, <2>1 DEF Counted
<1>4. Minted' = Minted \cup New
  BY <1>2, PseudonymizeVault
<1>5. Ended' = Ended
  <2>1. ASSUME NEW t \in Minted PROVE IsLive(t) <=> live'[t[1]] = t[2]
    BY <1>2, PseudonymizeVault
  <2>2. \A t \in New : live'[t[1]] = t[2]
    BY <1>3
  <2> QED BY <1>4, <2>1, <2>2 DEF Ended, IsLive
<1>6. Issued' = Issued \cup P
  BY <1>4
<1>7. \A x \in P : x[1] \in New /\ x[2] = x[1][1]
  OBVIOUS
<1>8. \A x \in P : x[1] \notin Ended
  BY <1>2, <1>7 DEF Ended
<1>9. ASSUME NEW x \in P, NEW y \in P \cup Issued
      PROVE  /\ x[1] = y[1] => x[2] = y[2]
             /\ x[2] = y[2] => x[1] = y[1] \/ y[1] \in Ended
  <2>1. x[1] \in New /\ x[2] = x[1][1] /\ y[2] = y[1][1]
    BY <1>7
  <2>2. CASE y \in P
    BY <1>3, <1>7, <2>1, <2>2
  <2>3. CASE y[1] \in Minted
    <3>1. y[1] \in Tokens /\ y[1][2] # 0
      BY <1>2, <2>3, TokenParts
    <3>2. x[2] = y[2] => live[y[1][1]] = 0
      BY <1>3, <2>1
    <3> QED BY <2>1, <2>3, <3>1, <3>2 DEF Ended, IsLive
  <2> QED BY <2>2, <2>3
<1>10. P \in SUBSET (Tokens \X Names)
  BY <1>3
<1> HIDE DEF P, New
<1>11. PICK Q \in SUBSET (Tokens \X Names) : Q = P
  BY <1>10
<1>12. Store!HandOut(Q)
  <2>1. Issued' = Issued \cup Q /\ Ended' = Ended
    BY <1>5, <1>6, <1>11
  <2> HIDE DEF Issued
  <2>2. /\ \A x \in Q : x[1] \notin Ended
        /\ \A x \in Q, y \in Q \cup Issued :
             /\ x[1] = y[1] => x[2] = y[2]
             /\ x[2] = y[2] => x[1] = y[1] \/ y[1] \in Ended
    BY <1>8, <1>9, <1>11
  <2> QED BY <2>1, <2>2 DEF Store!HandOut, Issued
<1> QED BY <1>12

\* A name without its token: the token has ended.
LEMMA EndErases ==
  ASSUME TypeOK, NEW n \in Names, live[n] # 0, live' = [live EXCEPT ![n] = 0], gen' = gen
  PROVE  TokenOf(n) \in Tokens /\ Store!Erase(TokenOf(n))
<1>1. TokenOf(n) \in Tokens /\ IsLive(TokenOf(n)) /\ live \in [Names -> 0 .. MaxGen]
  BY MaxGenAssumption DEF TypeOK, TokenOf, Tokens, IsLive
<1>2. Minted' = Minted
  BY DEF Minted
<1>3. TokenOf(n) \in Minted
  BY <1>1, MintedTokens
<1>4. ASSUME NEW t \in Minted
      PROVE  live'[t[1]] # t[2] <=> live[t[1]] # t[2] \/ t = TokenOf(n)
  <2>1. t[1] \in Names /\ t[2] # 0 /\ t = <<t[1], t[2]>>
    BY MintedTokens, TokenParts
  <2> QED BY <1>1, <2>1 DEF TokenOf
<1>5. Ended' = Ended \cup {TokenOf(n)}
  BY <1>2, <1>3, <1>4 DEF Ended, IsLive
<1> QED BY <1>1, <1>2, <1>5 DEF Store!Erase

\* What a step does to the vault.
LEMMA VaultStep ==
  ASSUME TypeOK, [Next]_vars
  PROVE  \/ UNCHANGED vault
         \/ \E N \in SUBSET Names : Pseudonymize(N)
         \/ \E n \in Names : live[n] # 0 /\ live' = [live EXCEPT ![n] = 0] /\ gen' = gen
<1> DEFINE Fine == \/ UNCHANGED vault
                   \/ \E N \in SUBSET Names : Pseudonymize(N)
                   \/ \E n \in Names : live[n] # 0 /\ live' = [live EXCEPT ![n] = 0] /\ gen' = gen
<1>1. ASSUME NEW m \in Memories, SaveStep(m) PROVE Fine
  <2>1. save[m].names \in SUBSET Names
    BY Setting
  <2>2. CASE TaskStarts(m)
    BY <2>1, <2>2 DEF TaskStarts
  <2>3. ASSUME NEW N \in SUBSET Names, NEW O \in SUBSET Orgs, NEW q \in BOOLEAN, SaveSync(m, N, O, q)
        PROVE  Fine
    BY <2>3 DEF SaveSync
  <2> QED BY <1>1, <2>2, <2>3
    DEF SaveStep, SaveFast, TaskResolves, Candidates, Retire, Resolved, Insert, ReadRow, WriteRow,
        SaveFails, Invalidate
<1>2. ASSUME NEW f \in Forgets, ForgetStep(f) PROVE Fine
  <2>1. ASSUME NEW t \in Tokens, Purge(f, t) PROVE Fine
    <3>1. t[1] \in Names /\ t[2] # 0
      BY TokenParts
    <3>2. CASE IsLive(t)
      BY <2>1, <3>1, <3>2 DEF Purge, IsLive
    <3>3. CASE ~IsLive(t)
      BY <2>1, <3>1, <3>3 DEF Purge, TypeOK, vault
    <3> QED BY <3>2, <3>3
  <2> QED BY <1>2, <2>1
    DEF ForgetStep, StartForget, ReadTarget, DeleteTarget, EndReading, EndDeleting, Count, EndForget,
        ForgetFails
<1>3. ASSUME NEW n \in Names, Recall(n) \/ IndexDoc(n) \/ EraseSubject(n) PROVE Fine
  BY <1>3 DEF Recall, IndexDoc, EraseSubject
<1>4. CASE UNCHANGED vars
  BY <1>4 DEF vars, vault
<1> QED BY <1>1, <1>2, <1>3, <1>4 DEF Next

LEMMA StoreStep == ASSUME TypeOK, TypeOK', [Next]_vars PROVE Store!Next
<1>1. Store!Resolves'
  BY StoreResolves, PTL
<1>2. CASE UNCHANGED vault
  <2>1. Minted' = Minted /\ Ended' = Ended
    BY <1>2 DEF vault, Minted, Ended, IsLive
  <2> QED BY <1>1, <2>1 DEF Store!Next, Store!Restart
<1>3. ASSUME NEW N \in SUBSET Names, Pseudonymize(N) PROVE Store!Next
  BY <1>1, <1>3, PseudonymizeHandsOut DEF Store!Next
<1>4. ASSUME NEW n \in Names, live[n] # 0, live' = [live EXCEPT ![n] = 0], gen' = gen
      PROVE  Store!Next
  BY <1>1, <1>4, EndErases DEF Store!Next
<1> QED BY <1>2, <1>3, <1>4, VaultStep

\* The vault this module takes for granted is a token store, with the tokens it minted for
\* those handed out: it assumes nothing that TokenStore does not promise, and PseudonymVault
\* shows the vault of the code to be one (StoreRefined; pipeline.rs 1692-1724).
THEOREM StoreRefinedHolds == Spec => StoreRefined
<1>1. Spec => []TypeOK
  BY TypeCorrect
<1>2. Init /\ TypeOK => Store!Init
  <2> SUFFICES ASSUME Init, TypeOK PROVE Store!Init
    OBVIOUS
  <2>1. Minted = {} /\ Ended = {}
    BY DEF Init, Minted, Ended
  <2> QED BY <2>1, StoreResolves DEF Store!Init
<1>3. TypeOK /\ TypeOK' /\ [Next]_vars => [Store!Next]_(Store!vars)
  BY StoreStep
<1> QED BY <1>1, <1>2, <1>3, PTL DEF Spec, StoreRefined, Store!Spec
=============================================================================
