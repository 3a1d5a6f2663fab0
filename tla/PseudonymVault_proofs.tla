----------------------- MODULE PseudonymVault_proofs -----------------------
(***************************************************************************)
(* Proofs about PseudonymVault for any originals, prefixes and processes.  *)
(*                                                                         *)
(* A map is sound when its two directions agree and every token in it has  *)
(* a number that was counted.  IInv: all maps and readable files are       *)
(* sound, and, as long as one process at a time had the vault open, the    *)
(* file and the map keep what was promised about issued and erased tokens. *)
(***************************************************************************)
EXTENDS PseudonymVault, TLAPS

Counted(t, cnt) == t[2] <= cnt[t[1]]

SoundData(d) ==
  /\ d \in Data
  /\ \A o, q \in Originals : d.fwd[o] = d.fwd[q] /\ d.fwd[o] # NoToken => o = q
  /\ \A o \in Originals : d.fwd[o] # NoToken => Counted(d.fwd[o], d.cnt)

SoundMap(m) ==
  /\ m \in Maps
  /\ \A o \in Originals, t \in Tokens : m.fwd[o] = t <=> m.rev[t] = o
  /\ \A o \in Originals : m.fwd[o] # NoToken => Counted(m.fwd[o], m.cnt)

Sound ==
  /\ Readable(path) => SoundData(path)
  /\ Readable(tmp) => SoundData(tmp)
  /\ \A p \in Procs : SoundMap(proc[p].map)

\* What a map or a file promises about the tokens that left the vault.
Keeps(fwd, cnt) ==
  /\ \A x \in issued :
       /\ Counted(x[1], cnt)
       /\ \A o \in Originals : fwd[o] = x[1] => o = x[2]
       /\ x[1] \notin dropped => fwd[x[2]] = x[1]
  /\ \A t \in erased : Counted(t, cnt) /\ \A o \in Originals : fwd[o] # t

\* The pairs of the call at hand, seen in its map.
PairsOK(p) ==
  /\ proc[p].pc = "replacing" => proc[p].call = "text"
  /\ proc[p].pc \in {"replacing"} \cup Saving /\ proc[p].call = "text" =>
       \A x \in proc[p].pairs : proc[p].map.fwd[x[2]] = x[1]
  /\ proc[p].pc \in Saving /\ proc[p].call # "text" =>
       \A x \in proc[p].pairs : /\ Counted(x[1], proc[p].map.cnt)
                                /\ \A o \in Originals : proc[p].map.fwd[o] # x[1]

AloneProc(p) ==
  /\ proc[p].pc # "down" => Keeps(proc[p].map.fwd, proc[p].map.cnt)
  /\ PairsOK(p)
  /\ proc[p].pc = "writing" => fd[p] = "tmp" /\ tmp = Broken
  /\ proc[p].pc = "renaming" => tmp = ToData(proc[p].map)

AloneFiles ==
  /\ path # Broken
  /\ path = NoFile => issued = {} /\ erased = {}
  /\ Readable(path) => Keeps(path.fwd, path.cnt)

Alone ==
  /\ \A p, q \in Up : p = q
  /\ AloneFiles
  /\ \A p \in Procs : AloneProc(p)

IInv == TypeOK /\ Sound /\ (~shared => Alone)

-----------------------------------------------------------------------------
(* The map.                                                                 *)

LEMMA TokenParts ==
  ASSUME NEW t \in Tokens
  PROVE  t[1] \in Prefixes /\ t[2] \in 1 .. MaxId /\ t[2] \in Nat /\ t = <<t[1], t[2]>> /\ t # NoToken
BY NoTokenAssumption, MaxIdAssumption DEF Tokens

LEMMA EmptySound == SoundMap(EmptyMap) /\ SoundData(ToData(EmptyMap))
<1>1. EmptyMap \in Maps /\ ToData(EmptyMap) \in Data
  BY MaxIdAssumption DEF EmptyMap, Maps, ToData, Data
<1>2. \A o \in Originals, t \in Tokens : EmptyMap.fwd[o] # t /\ EmptyMap.rev[t] # o
  BY TokenParts, NoOriginalAssumption DEF EmptyMap
<1>3. \A o \in Originals : EmptyMap.fwd[o] = NoToken /\ ToData(EmptyMap).fwd[o] = NoToken
  BY DEF EmptyMap, ToData
<1> QED BY <1>1, <1>2, <1>3 DEF SoundMap, SoundData

LEMMA FreshFree ==
  ASSUME NEW m, SoundMap(m), NEW c \in Prefixes, m.cnt[c] < MaxId
  PROVE  /\ Fresh(m, c) \in Tokens
         /\ m.rev[Fresh(m, c)] = NoOriginal
         /\ \A o \in Originals : m.fwd[o] # Fresh(m, c)
<1>1. m.cnt[c] \in Nat /\ Fresh(m, c) \in Tokens
  BY MaxIdAssumption DEF SoundMap, Maps, Fresh, Tokens
<1>2. ~Counted(Fresh(m, c), m.cnt)
  BY <1>1 DEF Counted, Fresh
<1>3. \A o \in Originals : m.fwd[o] # Fresh(m, c)
  BY <1>1, <1>2, TokenParts DEF SoundMap
<1> QED BY <1>1, <1>3 DEF SoundMap, Maps

LEMMA MintSound ==
  ASSUME NEW m, SoundMap(m), NEW o \in Originals, NEW c \in Prefixes,
         m.fwd[o] = NoToken, m.cnt[c] < MaxId
  PROVE  SoundMap(Mint(m, o, c))
<1> DEFINE n == Mint(m, o, c)  t0 == Fresh(m, c)
<1>1. t0 \in Tokens /\ m.rev[t0] = NoOriginal /\ (\A q \in Originals : m.fwd[q] # t0)
  BY FreshFree
<1>2. m.cnt[c] + 1 \in 0 .. MaxId /\ m.cnt \in [Prefixes -> 0 .. MaxId]
  BY MaxIdAssumption DEF SoundMap, Maps
<1>3. n \in Maps
  BY <1>1, <1>2 DEF Mint, Maps, SoundMap
<1>4. /\ n.fwd[o] = t0 /\ (\A q \in Originals \ {o} : n.fwd[q] = m.fwd[q])
      /\ n.rev[t0] = o /\ (\A t \in Tokens \ {t0} : n.rev[t] = m.rev[t])
      /\ n.cnt[c] = m.cnt[c] + 1 /\ (\A d \in Prefixes \ {c} : n.cnt[d] = m.cnt[d])
  BY <1>1 DEF Mint, SoundMap, Maps
<1>5. ASSUME NEW q \in Originals, NEW t \in Tokens PROVE n.fwd[q] = t <=> n.rev[t] = q
  <2>1. CASE q = o /\ t = t0
    BY <2>1, <1>4
  <2>2. CASE q = o /\ t # t0
    BY <2>2, <1>4, TokenParts DEF SoundMap
  <2>3. CASE q # o /\ t = t0
    BY <2>3, <1>4, <1>1
  <2>4. CASE q # o /\ t # t0
    BY <2>4, <1>4 DEF SoundMap
  <2> QED BY <2>1, <2>2, <2>3, <2>4
<1>6. ASSUME NEW q \in Originals, n.fwd[q] # NoToken PROVE Counted(n.fwd[q], n.cnt)
  <2>1. CASE q = o
    BY <2>1, <1>4, <1>2 DEF Counted, Fresh
  <2>2. CASE q # o
    <3>1. m.fwd[q] \in Tokens /\ Counted(m.fwd[q], m.cnt) /\ n.fwd[q] = m.fwd[q]
      BY <2>2, <1>4, <1>6 DEF SoundMap, Maps
    <3>2. \A d \in Prefixes : m.cnt[d] \in Nat /\ m.cnt[d] <= n.cnt[d]
      BY <1>2, <1>4
    <3>3. m.fwd[q][1] \in Prefixes /\ m.fwd[q][2] \in Nat
      BY <3>1, TokenParts
    <3> QED BY <3>1, <3>2, <3>3, <1>3 DEF Counted, Maps
  <2> QED BY <2>1, <2>2
<1> QED BY <1>3, <1>5, <1>6 DEF SoundMap

\* What one pseudonymized entity does to the map.
LEMMA GetOrCreateSound ==
  ASSUME NEW m, SoundMap(m), NEW o \in Originals, NEW c \in Prefixes, HasRoom(m, o, c)
  PROVE  /\ SoundMap(GetOrCreate(m, o, c))
         /\ GetOrCreate(m, o, c).fwd[o] \in Tokens
         /\ \A q \in Originals : m.fwd[q] # NoToken => GetOrCreate(m, o, c).fwd[q] = m.fwd[q]
         /\ \A q \in Originals : GetOrCreate(m, o, c).fwd[q] # m.fwd[q] =>
              GetOrCreate(m, o, c).fwd[q] = Fresh(m, c)
         /\ \A d \in Prefixes : m.cnt[d] <= GetOrCreate(m, o, c).cnt[d]
<1>1. CASE m.fwd[o] # NoToken
  <2>1. GetOrCreate(m, o, c) = m
    BY <1>1 DEF GetOrCreate
  <2>2. m.fwd[o] \in Tokens /\ \A d \in Prefixes : m.cnt[d] \in Int
    BY <1>1 DEF SoundMap, Maps
  <2> QED BY <2>1, <2>2
<1>2. CASE m.fwd[o] = NoToken
  <2>1. GetOrCreate(m, o, c) = Mint(m, o, c) /\ m.cnt[c] < MaxId
    BY <1>2 DEF GetOrCreate, HasRoom
  <2>2. SoundMap(Mint(m, o, c)) /\ Fresh(m, c) \in Tokens
    BY <2>1, <1>2, MintSound, FreshFree
  <2>3. /\ Mint(m, o, c).fwd[o] = Fresh(m, c)
        /\ \A q \in Originals \ {o} : Mint(m, o, c).fwd[q] = m.fwd[q]
        /\ \A d \in Prefixes : m.cnt[d] <= Mint(m, o, c).cnt[d]
    BY MaxIdAssumption DEF Mint, SoundMap, Maps
  <2> QED BY <2>1, <2>2, <2>3, <1>2
<1> QED BY <1>1, <1>2

\* What an erasure does to the map.
LEMMA RemoveSound ==
  ASSUME NEW m, SoundMap(m), NEW ref \in Originals \cup Tokens, Matches(m, ref)
  PROVE  /\ SoundMap(Remove(m, ref))
         /\ Remove(m, ref).cnt = m.cnt
         /\ Erased(m, ref) \in Tokens \X Originals
         /\ m.fwd[Erased(m, ref)[2]] = Erased(m, ref)[1]
         /\ \A q \in Originals : Remove(m, ref).fwd[q] # Erased(m, ref)[1]
         /\ \A q \in Originals : \/ Remove(m, ref).fwd[q] = NoToken
                                 \/ Remove(m, ref).fwd[q] = m.fwd[q]
         /\ \A q \in Originals : m.fwd[q] # Erased(m, ref)[1] => Remove(m, ref).fwd[q] = m.fwd[q]
<1> DEFINE n == Remove(m, ref)
<1>1. PICK o \in Originals, t \in Tokens :
        /\ m.fwd[o] = t /\ m.rev[t] = o /\ Erased(m, ref) = <<t, o>>
        /\ ref = o \/ (ref = t /\ ref \notin Originals)
  BY DEF Matches, SoundMap, Maps, Erased
<1>2. n \in Maps /\ n.cnt = m.cnt
  BY <1>1 DEF Remove, SoundMap, Maps
<1>3. /\ n.fwd[o] = NoToken /\ n.rev[t] = NoOriginal
      /\ \A q \in Originals \ {o} : n.fwd[q] = m.fwd[q]
      /\ \A u \in Tokens \ {t} : n.rev[u] = m.rev[u]
  <2>1. CASE ref = o
    BY <2>1, <1>1 DEF Remove, SoundMap, Maps
  <2>2. CASE ref = t /\ ref \notin Originals
    BY <2>2, <1>1 DEF Remove, SoundMap, Maps
  <2> QED BY <2>1, <2>2, <1>1
<1>4. ASSUME NEW q \in Originals, NEW u \in Tokens PROVE n.fwd[q] = u <=> n.rev[u] = q
  <2>1. CASE q = o
    BY <2>1, <1>1, <1>3, TokenParts, NoOriginalAssumption DEF SoundMap
  <2>2. CASE q # o
    BY <2>2, <1>1, <1>3, NoOriginalAssumption DEF SoundMap
  <2> QED BY <2>1, <2>2
<1>5. \A q \in Originals : n.fwd[q] # NoToken => Counted(n.fwd[q], n.cnt)
  BY <1>2, <1>3 DEF SoundMap
<1>6. SoundMap(n)
  BY <1>2, <1>4, <1>5 DEF SoundMap
<1>7. \A q \in Originals : n.fwd[q] # t
  BY <1>1, <1>3, TokenParts DEF SoundMap
<1> HIDE DEF n
<1>8. Erased(m, ref)[1] = t /\ Erased(m, ref)[2] = o /\ Erased(m, ref) \in Tokens \X Originals
  BY <1>1
<1> QED BY <1>1, <1>2, <1>3, <1>6, <1>7, <1>8 DEF n

LEMMA SaveSound ==
  ASSUME NEW m, SoundMap(m)
  PROVE  /\ SoundData(ToData(m)) /\ Readable(ToData(m))
         /\ ToData(m).fwd = m.fwd /\ ToData(m).cnt = m.cnt
<1>1. ToData(m) \in Data /\ ToData(m).fwd = m.fwd /\ ToData(m).cnt = m.cnt
  BY DEF ToData, Data, SoundMap, Maps
<1>2. ASSUME NEW o \in Originals, NEW q \in Originals, m.fwd[o] = m.fwd[q], m.fwd[o] # NoToken
      PROVE  o = q
  BY <1>2 DEF SoundMap, Maps
<1> QED BY <1>1, <1>2, FilesAssumption DEF SoundData, SoundMap, Readable

\* A start from a file rebuilds a sound map.
LEMMA LoadSound ==
  ASSUME NEW d, SoundData(d)
  PROVE  /\ SoundMap(FromData(d))
         /\ FromData(d).fwd = d.fwd /\ FromData(d).cnt = d.cnt
<1> DEFINE n == FromData(d)
<1>1. d.fwd \in [Originals -> Tokens \cup {NoToken}] /\ d.cnt \in [Prefixes -> 0 .. MaxId]
  BY DEF SoundData, Data
<1>2. n.fwd = d.fwd /\ n.cnt = d.cnt
  BY DEF FromData
<1>3. \A t \in Tokens : n.rev[t] = IF \E o \in Originals : d.fwd[o] = t
                                   THEN CHOOSE o \in Originals : d.fwd[o] = t
                                   ELSE NoOriginal
  BY DEF FromData
<1>4. n.rev \in [Tokens -> Originals \cup {NoOriginal}]
  BY DEF FromData
<1>5. n \in Maps
  BY <1>1, <1>4 DEF FromData, Maps
<1> HIDE DEF n
<1>6. ASSUME NEW o \in Originals, NEW t \in Tokens PROVE n.fwd[o] = t <=> n.rev[t] = o
  <2>1. CASE \E q \in Originals : d.fwd[q] = t
    <3>1. n.rev[t] \in Originals /\ d.fwd[n.rev[t]] = t
      BY <2>1, <1>3
    <3> QED BY <3>1, <1>2, TokenParts DEF SoundData
  <2>2. CASE ~ \E q \in Originals : d.fwd[q] = t
    BY <2>2, <1>2, <1>3, NoOriginalAssumption
  <2> QED BY <2>1, <2>2
<1>7. \A o \in Originals : n.fwd[o] # NoToken => Counted(n.fwd[o], n.cnt)
  BY <1>2 DEF SoundData
<1> QED BY <1>2, <1>5, <1>6, <1>7 DEF SoundMap, n

-----------------------------------------------------------------------------
(* What is kept.                                                            *)

\* More counted tokens, and no token but uncounted ones given to an original: the
\* promises are kept.
LEMMA KeepsMint ==
  ASSUME TypeOK, NEW m, SoundMap(m), NEW o \in Originals, NEW c \in Prefixes, HasRoom(m, o, c),
         Keeps(m.fwd, m.cnt)
  PROVE  Keeps(GetOrCreate(m, o, c).fwd, GetOrCreate(m, o, c).cnt)
<1> DEFINE n == GetOrCreate(m, o, c)
<1>1. /\ SoundMap(n)
      /\ \A q \in Originals : m.fwd[q] # NoToken => n.fwd[q] = m.fwd[q]
      /\ \A q \in Originals : n.fwd[q] # m.fwd[q] => n.fwd[q] = Fresh(m, c)
      /\ \A d \in Prefixes : m.cnt[d] <= n.cnt[d]
  BY GetOrCreateSound
<1>2. \A d \in Prefixes : m.cnt[d] \in Nat /\ n.cnt[d] \in Nat
  BY <1>1, MaxIdAssumption DEF SoundMap, Maps
<1> HIDE DEF n
<1>3. \A t \in Tokens : Counted(t, m.cnt) => Counted(t, n.cnt) /\ t # Fresh(m, c)
  BY <1>1, <1>2, TokenParts DEF Counted, Fresh
<1>4. \A x \in issued : x[1] \in Tokens /\ x[2] \in Originals
  BY DEF TypeOK
<1>5. \A t \in erased : t \in Tokens
  BY DEF TypeOK
<1>6. ASSUME NEW x \in issued
      PROVE  /\ Counted(x[1], n.cnt)
             /\ \A q \in Originals : n.fwd[q] = x[1] => q = x[2]
             /\ x[1] \notin dropped => n.fwd[x[2]] = x[1]
  <2>1. Counted(x[1], n.cnt) /\ x[1] # Fresh(m, c)
    BY <1>3, <1>4 DEF Keeps
  <2>2. \A q \in Originals : n.fwd[q] = x[1] => q = x[2]
    BY <2>1, <1>1, <1>4 DEF Keeps
  <2>3. x[1] \notin dropped => n.fwd[x[2]] = x[1]
    BY <1>1, <1>4, TokenParts DEF Keeps
  <2> QED BY <2>1, <2>2, <2>3
<1>7. ASSUME NEW t \in erased PROVE Counted(t, n.cnt) /\ \A q \in Originals : n.fwd[q] # t
  BY <1>1, <1>3, <1>5 DEF Keeps
<1> QED BY <1>6, <1>7 DEF Keeps, n

-----------------------------------------------------------------------------
(* Types.                                                                   *)

LEMMA MapTypes ==
  /\ EmptyMap \in Maps /\ Down \in ProcType
  /\ \A d \in Data : FromData(d) \in Maps
  /\ \A m \in Maps : ToData(m) \in Data
  /\ \A m \in Maps, o \in Originals, c \in Prefixes :
       HasRoom(m, o, c) => GetOrCreate(m, o, c) \in Maps /\ GetOrCreate(m, o, c).fwd[o] \in Tokens
  /\ \A m \in Maps, ref \in Originals \cup Tokens :
       Matches(m, ref) => Remove(m, ref) \in Maps /\ Erased(m, ref) \in Tokens \X Originals
<1>1. EmptyMap \in Maps /\ Down \in ProcType
  BY EmptySound DEF SoundMap, Down, ProcType
<1>2. ASSUME NEW d \in Data PROVE FromData(d) \in Maps
  BY DEF FromData, Data, Maps
<1>3. ASSUME NEW m \in Maps PROVE ToData(m) \in Data
  BY DEF ToData, Data, Maps
<1>4. ASSUME NEW m \in Maps, NEW o \in Originals, NEW c \in Prefixes, HasRoom(m, o, c)
      PROVE  GetOrCreate(m, o, c) \in Maps /\ GetOrCreate(m, o, c).fwd[o] \in Tokens
  <2>1. CASE m.fwd[o] # NoToken
    BY <2>1 DEF GetOrCreate, Maps
  <2>2. CASE m.fwd[o] = NoToken
    <3>1. m.cnt[c] + 1 \in 1 .. MaxId /\ Fresh(m, c) \in Tokens
      BY <1>4, <2>2, MaxIdAssumption DEF HasRoom, Maps, Fresh, Tokens
    <3>2. Mint(m, o, c) \in Maps /\ Mint(m, o, c).fwd[o] = Fresh(m, c)
      BY <3>1 DEF Mint, Maps
    <3> QED BY <3>1, <3>2, <2>2 DEF GetOrCreate
  <2> QED BY <2>1, <2>2
<1>5. ASSUME NEW m \in Maps, NEW ref \in Originals \cup Tokens, Matches(m, ref)
      PROVE  Remove(m, ref) \in Maps /\ Erased(m, ref) \in Tokens \X Originals
  <2>1. CASE ref \in Originals
    BY <2>1, <1>5 DEF Remove, Maps, Matches, Erased
  <2>2. CASE ref \notin Originals
    BY <2>2, <1>5 DEF Remove, Maps, Matches, Erased
  <2> QED BY <2>1, <2>2
<1> QED BY <1>1, <1>2, <1>3, <1>4, <1>5

LEMMA OpenedType ==
  ASSUME TypeOK, NEW p \in Procs, NEW m \in Maps, Opened(p, m)
  PROVE  /\ proc' \in [Procs -> ProcType] /\ shared' \in BOOLEAN
         /\ issued' \subseteq Tokens \X Originals
         /\ dropped' \subseteq Tokens /\ erased' \subseteq Tokens
         /\ fd[p] = "none"
         /\ \A q \in Procs \ {p} : proc'[q] = proc[q]
<1>1. [Down EXCEPT !.pc = "idle", !.map = m] \in ProcType
  BY MapTypes DEF Down, ProcType
<1> DEFINE r == [Down EXCEPT !.pc = "idle", !.map = m]
<1>2. proc' = [proc EXCEPT ![p] = r] /\ r \in ProcType
  BY <1>1 DEF Opened
<1> HIDE DEF r
<1>3. proc' \in [Procs -> ProcType] /\ \A q \in Procs \ {p} : proc'[q] = proc[q]
  BY <1>2 DEF TypeOK
<1>4. fd[p] = "none"
  BY DEF TypeOK, Opened
<1>5. shared' \in BOOLEAN
  BY DEF Opened
<1>6. UNCHANGED <<issued, dropped, erased>>
  BY DEF Opened
<1>7. issued' \subseteq Tokens \X Originals /\ dropped' \subseteq Tokens /\ erased' \subseteq Tokens
  BY <1>6 DEF TypeOK
<1> QED BY <1>3, <1>4, <1>5, <1>7

\* The steps of a call leave the type of the process alone.
LEMMA StepType ==
  ASSUME TypeOK, NEW p \in Procs, NEW r \in ProcType, proc' = [proc EXCEPT ![p] = r]
  PROVE  /\ proc' \in [Procs -> ProcType] /\ proc'[p] = r
         /\ \A q \in Procs \ {p} : proc'[q] = proc[q]
BY DEF TypeOK

LEMMA MoveType ==
  ASSUME TypeOK, MoveTmp
  PROVE  /\ path' \in File /\ tmp' \in File
         /\ fd' \in [Procs -> {"none", "tmp", "path", "lost"}]
         /\ \A q \in Procs : fd'[q] # "none" => fd[q] # "none"
<1>1. path' \in File /\ tmp' \in File
  BY DEF TypeOK, MoveTmp, File
<1>2. fd' = Renamed(fd) /\ fd \in [Procs -> {"none", "tmp", "path", "lost"}]
  BY DEF TypeOK, MoveTmp
<1> QED BY <1>1, <1>2 DEF Renamed

LEMMA TypeStep ==
  ASSUME TypeOK, [Next]_vars
  PROVE  TypeOK'
<1> USE DEF File
<1>1. ASSUME NEW p \in Procs, OpenPath(p) PROVE TypeOK'
  <2>1. Opened(p, FromData(path)) /\ FromData(path) \in Maps
    BY <1>1, MapTypes DEF OpenPath, TypeOK, Readable
  <2> HIDE DEF File
  <2> QED BY <1>1, <2>1, OpenedType DEF OpenPath, TypeOK, files
<1>2. ASSUME NEW p \in Procs, OpenTmp(p) PROVE TypeOK'
  <2>1. Opened(p, FromData(tmp)) /\ FromData(tmp) \in Maps
    BY <1>2, MapTypes DEF OpenTmp, TypeOK, Readable
  <2> QED BY <1>2, <2>1, OpenedType, MoveType DEF OpenTmp, TypeOK
<1>3. ASSUME NEW p \in Procs, OpenNew(p) PROVE TypeOK'
  <2>1. Opened(p, EmptyMap) /\ EmptyMap \in Maps
    BY <1>3, MapTypes DEF OpenNew
  <2>2. /\ path' \in File /\ tmp' \in File
        /\ fd' \in [Procs -> {"none", "tmp", "path", "lost"}]
        /\ \A q \in Procs : fd'[q] # "none" => fd[q] # "none"
    BY <1>3 DEF OpenNew, TypeOK
  <2> QED BY <2>1, <2>2, OpenedType DEF TypeOK
<1>4. ASSUME NEW p \in Procs, StartText(p) PROVE TypeOK'
  <2> DEFINE r == [proc[p] EXCEPT !.pc = "replacing", !.call = "text", !.pairs = {}]
  <2>1. proc' = [proc EXCEPT ![p] = r] /\ proc[p] \in ProcType
    BY <1>4 DEF StartText, TypeOK
  <2>2. r \in ProcType
    BY <2>1 DEF ProcType
  <2>3. fd[p] = "none"
    BY <1>4 DEF StartText, TypeOK
  <2> HIDE DEF r
  <2> QED BY <1>4, <2>1, <2>2, <2>3, StepType DEF StartText, TypeOK, files, history
<1>5. ASSUME NEW p \in Procs, NEW o \in Originals, NEW c \in Prefixes, Replace(p, o, c) PROVE TypeOK'
  <2> DEFINE m == GetOrCreate(proc[p].map, o, c)
             r == [proc[p] EXCEPT !.map = m, !.pairs = @ \cup {<<m.fwd[o], o>>}]
  <2>1. m \in Maps /\ m.fwd[o] \in Tokens
    BY <1>5, MapTypes DEF Replace, TypeOK, ProcType
  <2>2. proc' = [proc EXCEPT ![p] = r]
    BY <1>5 DEF Replace, TypeOK
  <2> HIDE DEF m
  <2>3. proc[p] \in ProcType /\ proc[p].pairs \cup {<<m.fwd[o], o>>} \subseteq Tokens \X Originals
    BY <2>1 DEF TypeOK, ProcType
  <2>4. r \in ProcType /\ r.pc = proc[p].pc
    BY <2>1, <2>3 DEF ProcType
  <2> HIDE DEF r
  <2> QED BY <1>5, <2>2, <2>4, StepType DEF Replace, TypeOK, files, history
<1>6. ASSUME NEW p \in Procs, EndText(p) PROVE TypeOK'
  BY <1>6 DEF EndText, TypeOK, files, history, ProcType, Saving
<1>7. ASSUME NEW p \in Procs, NEW ref \in Originals \cup Tokens, Forget(p, ref) PROVE TypeOK'
  <2> DEFINE m == Remove(proc[p].map, ref)  x == Erased(proc[p].map, ref)
             r == [proc[p] EXCEPT !.pc = "creating", !.call = "erase", !.map = m, !.pairs = {x}]
  <2>1. m \in Maps /\ x \in Tokens \X Originals
    BY <1>7, MapTypes DEF Forget, TypeOK, ProcType
  <2>2. proc' = [proc EXCEPT ![p] = r] /\ dropped' = dropped \cup {x[1]}
    BY <1>7 DEF Forget, TypeOK
  <2> HIDE DEF m, x
  <2>3. r \in ProcType
    <3>1. proc[p] \in ProcType /\ {x} \subseteq Tokens \X Originals
      BY <2>1 DEF TypeOK
    <3> QED BY <2>1, <3>1 DEF ProcType, Saving
  <2> HIDE DEF r
  <2>4. dropped' \subseteq Tokens /\ fd[p] = "none"
    BY <1>7, <2>1, <2>2 DEF Forget, TypeOK
  <2> QED BY <1>7, <2>2, <2>3, <2>4, StepType DEF Forget, TypeOK, files
<1>8. ASSUME NEW p \in Procs, CreateTmp(p) PROVE TypeOK'
  BY <1>8 DEF CreateTmp, TypeOK, history, ProcType, Saving
<1>9. ASSUME NEW p \in Procs, WriteTmp(p) PROVE TypeOK'
  <2>1. ToData(proc[p].map) \in Data
    BY MapTypes DEF TypeOK, ProcType
  <2>2. path' \in File /\ tmp' \in File
    BY <1>9, <2>1 DEF WriteTmp, Contents, TypeOK
  <2> QED BY <1>9, <2>2 DEF WriteTmp, TypeOK, history, ProcType, Saving
<1>10. ASSUME NEW p \in Procs, Rename(p) PROVE TypeOK'
  <2>1. fd[p] = "none"
    BY <1>10 DEF Rename, TypeOK
  <2>2. issued' \subseteq Tokens \X Originals /\ erased' \subseteq Tokens
    <3>1. proc[p].pairs \subseteq Tokens \X Originals
      BY DEF TypeOK, ProcType
    <3> QED BY <1>10, <3>1 DEF Rename, TypeOK
  <2>3. MoveTmp
    BY <1>10 DEF Rename
  <2>4. proc' \in [Procs -> ProcType] /\ \A q \in Procs \ {p} : proc'[q] = proc[q]
    BY <1>10 DEF Rename, TypeOK, ProcType
  <2> QED BY <1>10, <2>1, <2>2, <2>3, <2>4, MoveType DEF Rename, TypeOK
<1>11. ASSUME NEW p \in Procs, SaveFails(p) PROVE TypeOK'
  BY <1>11 DEF SaveFails, TypeOK, history, ProcType
<1>12. ASSUME NEW p \in Procs, Stop(p) PROVE TypeOK'
  <2>1. proc' \in [Procs -> ProcType] /\ \A q \in Procs \ {p} : proc'[q] = proc[q]
    BY <1>12, MapTypes DEF Stop, TypeOK
  <2> QED BY <1>12, <2>1 DEF Stop, TypeOK, history
<1>13. ASSUME UNCHANGED vars PROVE TypeOK'
  BY <1>13 DEF vars, TypeOK, Up
<1> QED BY <1>1, <1>2, <1>3, <1>4, <1>5, <1>6, <1>7, <1>8, <1>9, <1>10, <1>11, <1>12, <1>13 DEF Next

\* The file, path.tmp, the processes and the history keep their types, for any number of
\* processes that open the vault (TypeOK).
THEOREM TypeCorrect == Spec => []TypeOK
<1>1. Init => TypeOK
  BY MapTypes DEF Init, TypeOK, File
<1> QED BY <1>1, TypeStep, PTL DEF Spec

-----------------------------------------------------------------------------
(* All maps are sound, however many processes share the files.               *)

LEMMA SoundStep ==
  ASSUME TypeOK, Sound, [Next]_vars
  PROVE  Sound'
<1>0. ASSUME NEW p \in Procs, NEW m, SoundMap(m), Opened(p, m)
      PROVE  \A q \in Procs : SoundMap(proc'[q].map)
  <2>1. proc'[p].map = m /\ \A q \in Procs \ {p} : proc'[q] = proc[q]
    BY <1>0 DEF Opened, TypeOK, Down
  <2> QED BY <1>0, <2>1 DEF Sound
<1>1. ASSUME NEW p \in Procs, OpenPath(p) PROVE Sound'
  <2>1. SoundMap(FromData(path))
    BY <1>1, LoadSound DEF OpenPath, Sound
  <2>2. \A q \in Procs : SoundMap(proc'[q].map)
    BY <1>0, <1>1, <2>1 DEF OpenPath
  <2> QED BY <1>1, <2>2 DEF OpenPath, Sound, files
<1>2. ASSUME NEW p \in Procs, OpenTmp(p) PROVE Sound'
  <2>1. SoundMap(FromData(tmp))
    BY <1>2, LoadSound DEF OpenTmp, Sound
  <2>2. \A q \in Procs : SoundMap(proc'[q].map)
    BY <1>0, <1>2, <2>1 DEF OpenTmp
  <2>3. path' = tmp /\ tmp' = NoFile
    BY <1>2 DEF OpenTmp, MoveTmp
  <2> QED BY <2>2, <2>3 DEF Sound, Readable
<1>3. ASSUME NEW p \in Procs, OpenNew(p) PROVE Sound'
  <2>2. \A q \in Procs : SoundMap(proc'[q].map)
    BY <1>0, <1>3, EmptySound DEF OpenNew
  <2>3. path' = path /\ (tmp' = NoFile \/ tmp' = tmp)
    BY <1>3 DEF OpenNew
  <2> QED BY <2>2, <2>3 DEF Sound, Readable
<1>4. ASSUME NEW p \in Procs, proc' = [proc EXCEPT ![p] = proc'[p]], SoundMap(proc'[p].map)
      PROVE  \A q \in Procs : SoundMap(proc'[q].map)
  <2>1. \A q \in Procs \ {p} : proc'[q] = proc[q]
    BY <1>4 DEF TypeOK
  <2> QED BY <1>4, <2>1 DEF Sound
<1>5. ASSUME NEW p \in Procs, StartText(p) \/ EndText(p) PROVE Sound'
  <2>1. proc' = [proc EXCEPT ![p] = proc'[p]] /\ proc'[p].map = proc[p].map
    BY <1>5 DEF StartText, EndText, TypeOK, ProcType
  <2> QED BY <1>4, <1>5, <2>1 DEF Sound, StartText, EndText, files
<1>6. ASSUME NEW p \in Procs, NEW o \in Originals, NEW c \in Prefixes, Replace(p, o, c) PROVE Sound'
  <2>1. SoundMap(GetOrCreate(proc[p].map, o, c))
    BY <1>6, GetOrCreateSound DEF Sound, Replace
  <2>2. proc' = [proc EXCEPT ![p] = proc'[p]] /\ proc'[p].map = GetOrCreate(proc[p].map, o, c)
    BY <1>6 DEF Replace, TypeOK, ProcType
  <2>3. \A q \in Procs : SoundMap(proc'[q].map)
    BY <1>4, <2>1, <2>2
  <2> QED BY <1>6, <2>3 DEF Sound, Replace, files
<1>7. ASSUME NEW p \in Procs, NEW ref \in Originals \cup Tokens, Forget(p, ref) PROVE Sound'
  <2>1. SoundMap(Remove(proc[p].map, ref))
    BY <1>7, RemoveSound DEF Sound, Forget
  <2>2. proc' = [proc EXCEPT ![p] = proc'[p]] /\ proc'[p].map = Remove(proc[p].map, ref)
    BY <1>7 DEF Forget, TypeOK, ProcType
  <2>3. \A q \in Procs : SoundMap(proc'[q].map)
    BY <1>4, <2>1, <2>2
  <2> QED BY <1>7, <2>3 DEF Sound, Forget, files
<1>8. ASSUME NEW p \in Procs, CreateTmp(p) PROVE Sound'
  <2>1. proc' = [proc EXCEPT ![p] = proc'[p]] /\ proc'[p].map = proc[p].map
    BY <1>8 DEF CreateTmp, TypeOK, ProcType
  <2>2. \A q \in Procs : SoundMap(proc'[q].map)
    BY <1>4, <2>1 DEF Sound
  <2> QED BY <1>8, <2>2 DEF Sound, CreateTmp, Readable
<1>9. ASSUME NEW p \in Procs, WriteTmp(p) PROVE Sound'
  <2>1. proc' = [proc EXCEPT ![p] = proc'[p]] /\ proc'[p].map = proc[p].map
    BY <1>9 DEF WriteTmp, TypeOK, ProcType
  <2>2. \A q \in Procs : SoundMap(proc'[q].map)
    BY <1>4, <2>1 DEF Sound
  <2>3. SoundData(ToData(proc[p].map))
    BY SaveSound DEF Sound
  <2>4. path' \in {path, ToData(proc[p].map), Broken} /\ tmp' \in {tmp, ToData(proc[p].map), Broken}
    BY <1>9 DEF WriteTmp, Contents
  <2> QED BY <2>2, <2>3, <2>4 DEF Sound, Readable
<1>10. ASSUME NEW p \in Procs, Rename(p) PROVE Sound'
  <2>1. proc' = [proc EXCEPT ![p] = proc'[p]] /\ proc'[p].map = proc[p].map
    BY <1>10 DEF Rename, TypeOK, ProcType
  <2>2. \A q \in Procs : SoundMap(proc'[q].map)
    BY <1>4, <2>1 DEF Sound
  <2>3. path' = tmp /\ tmp' = NoFile
    BY <1>10 DEF Rename, MoveTmp
  <2> QED BY <2>2, <2>3 DEF Sound, Readable
<1>11. ASSUME NEW p \in Procs, SaveFails(p) PROVE Sound'
  <2>1. proc' = [proc EXCEPT ![p] = proc'[p]] /\ proc'[p].map = proc[p].map
    BY <1>11 DEF SaveFails, TypeOK, ProcType
  <2>2. \A q \in Procs : SoundMap(proc'[q].map)
    BY <1>4, <2>1 DEF Sound
  <2> QED BY <1>11, <2>2 DEF Sound, SaveFails, Readable
<1>12. ASSUME NEW p \in Procs, Stop(p) PROVE Sound'
  <2>1. proc' = [proc EXCEPT ![p] = proc'[p]] /\ proc'[p].map = EmptyMap
    BY <1>12 DEF Stop, TypeOK, Down
  <2>2. \A q \in Procs : SoundMap(proc'[q].map)
    BY <1>4, <2>1, EmptySound
  <2> QED BY <1>12, <2>2 DEF Sound, Stop, Readable
<1>13. ASSUME UNCHANGED vars PROVE Sound'
  BY <1>13 DEF vars, Sound
<1> QED BY <1>1, <1>2, <1>3, <1>5, <1>6, <1>7, <1>8, <1>9, <1>10, <1>11, <1>12, <1>13 DEF Next

-----------------------------------------------------------------------------
(* One process at a time.                                                    *)

\* A step of the only process that is up.
LEMMA OnlyOne ==
  ASSUME TypeOK, Alone, NEW p \in Procs, proc[p].pc # "down",
         \A q \in Procs \ {p} : proc'[q] = proc[q]
  PROVE  /\ \A q \in Procs \ {p} : proc[q].pc = "down" /\ proc'[q].pc = "down"
         /\ \A q, r \in Up' : q = r
<1>1. \A q \in Procs \ {p} : proc[q].pc = "down"
  BY DEF Alone, Up
<1> QED BY <1>1 DEF Up

LEMMA AloneOthers ==
  ASSUME NEW p \in Procs, \A q \in Procs \ {p} : proc'[q].pc = "down",
         \A q, r \in Up' : q = r, AloneFiles', AloneProc(p)'
  PROVE  Alone'
<1>1. ASSUME NEW q \in Procs, q # p PROVE AloneProc(q)'
  <2>1. proc'[q].pc = "down"
    BY <1>1
  <2> QED BY <2>1 DEF AloneProc, PairsOK, Saving
<1> QED BY <1>1 DEF Alone

\* Opening: the map is the one of a file that keeps the promises, or nothing was promised.
LEMMA AloneOpened ==
  ASSUME TypeOK, Sound, Alone, NEW p \in Procs, NEW m \in Maps, Opened(p, m), ~shared',
         Keeps(m.fwd, m.cnt), AloneFiles'
  PROVE  Alone'
<1>1. Up = {} /\ UNCHANGED <<issued, dropped, erased>>
  BY DEF Opened
<1>2. /\ proc'[p].pc = "idle" /\ proc'[p].map = m
      /\ \A q \in Procs \ {p} : proc'[q] = proc[q]
  BY DEF Opened, TypeOK, Down
<1>3. \A q \in Procs \ {p} : proc'[q].pc = "down"
  BY <1>1, <1>2 DEF Up
<1>4. AloneProc(p)'
  BY <1>1, <1>2 DEF AloneProc, PairsOK, Saving, Keeps
<1>5. \A q, r \in Up' : q = r
  BY <1>3 DEF Up
<1> QED BY <1>3, <1>4, <1>5, AloneOthers

LEMMA AloneStep ==
  ASSUME TypeOK, Sound, Alone, [Next]_vars, ~shared'
  PROVE  Alone'
<1>1. ASSUME NEW p \in Procs, OpenPath(p) PROVE Alone'
  <2>1. /\ Opened(p, FromData(path)) /\ FromData(path) \in Maps
        /\ FromData(path).fwd = path.fwd /\ FromData(path).cnt = path.cnt
    BY <1>1, LoadSound DEF OpenPath, Sound, SoundMap
  <2>2. AloneFiles'
    BY <1>1 DEF OpenPath, Opened, Alone, AloneFiles, files, Keeps, Readable
  <2>3. Keeps(path.fwd, path.cnt)
    BY <1>1 DEF OpenPath, Alone, AloneFiles
  <2>4. Keeps(FromData(path).fwd, FromData(path).cnt)
    BY <2>1, <2>3
  <2> QED BY <2>1, <2>2, <2>4, AloneOpened
<1>2. ASSUME NEW p \in Procs, OpenTmp(p) PROVE Alone'
  <2>1. Opened(p, FromData(tmp)) /\ FromData(tmp) \in Maps
    BY <1>2, LoadSound DEF OpenTmp, Sound, SoundMap
  <2>2. issued = {} /\ erased = {} /\ UNCHANGED <<issued, erased>>
    BY <1>2 DEF OpenTmp, Opened, Alone, AloneFiles, Readable
  <2>3. AloneFiles'
    <3>1. path' # Broken
      BY <1>2 DEF OpenTmp, MoveTmp, Readable
    <3> QED BY <2>2, <3>1 DEF AloneFiles, Keeps
  <2> QED BY <2>1, <2>2, <2>3, AloneOpened DEF Keeps
<1>3. ASSUME NEW p \in Procs, OpenNew(p) PROVE Alone'
  <2>1. Opened(p, EmptyMap) /\ EmptyMap \in Maps
    BY <1>3, MapTypes DEF OpenNew
  <2>2. path' = NoFile /\ issued = {} /\ erased = {} /\ UNCHANGED <<issued, erased>>
    BY <1>3 DEF OpenNew, Opened, Alone, AloneFiles
  <2>3. AloneFiles'
    BY <2>2, FilesAssumption DEF AloneFiles, Keeps, Readable
  <2> QED BY <2>1, <2>2, <2>3, AloneOpened DEF Keeps
\* A step that leaves the file and what was promised alone.
<1>4. ASSUME UNCHANGED <<path, history>> PROVE AloneFiles'
  BY <1>4 DEF Alone, AloneFiles, history, Keeps, Readable
<1>5. ASSUME NEW p \in Procs, StartText(p) PROVE Alone'
  <2>1. /\ proc[p].pc # "down" /\ proc'[p].pc = "replacing" /\ proc'[p].map = proc[p].map
        /\ proc'[p].pairs = {} /\ proc'[p].call = "text"
        /\ \A q \in Procs \ {p} : proc'[q] = proc[q]
    BY <1>5 DEF StartText, TypeOK, ProcType
  <2>2. Keeps(proc[p].map.fwd, proc[p].map.cnt) /\ UNCHANGED history
    BY <1>5, <2>1 DEF Alone, AloneProc, StartText
  <2>3. AloneProc(p)'
    BY <2>1, <2>2 DEF AloneProc, PairsOK, Keeps, history, Saving
  <2>4. AloneFiles'
    BY <1>4, <1>5 DEF StartText, files
  <2> QED BY <2>1, <2>3, <2>4, OnlyOne, AloneOthers
<1>6. ASSUME NEW p \in Procs, NEW o \in Originals, NEW c \in Prefixes, Replace(p, o, c) PROVE Alone'
  <2> DEFINE m == proc[p].map  n == GetOrCreate(m, o, c)
  <2>1. /\ proc[p].pc = "replacing" /\ proc'[p].pc = "replacing" /\ proc'[p].map = n
        /\ proc'[p].pairs = proc[p].pairs \cup {<<n.fwd[o], o>>} /\ proc'[p].call = proc[p].call
        /\ \A q \in Procs \ {p} : proc'[q] = proc[q]
    BY <1>6 DEF Replace, TypeOK, ProcType
  <2>2. SoundMap(m) /\ Keeps(m.fwd, m.cnt) /\ HasRoom(m, o, c) /\ UNCHANGED history
    BY <1>6, <2>1 DEF Alone, AloneProc, Sound, Replace
  <2>3. Keeps(n.fwd, n.cnt)
    BY <2>2, KeepsMint
  <2>4. n.fwd[o] \in Tokens /\ \A q \in Originals : m.fwd[q] # NoToken => n.fwd[q] = m.fwd[q]
    BY <2>2, GetOrCreateSound
  <2>5. proc[p].call = "text" /\ \A x \in proc[p].pairs : m.fwd[x[2]] = x[1]
    BY <2>1 DEF Alone, AloneProc, PairsOK
  <2>6. \A x \in proc[p].pairs : x[1] \in Tokens /\ x[2] \in Originals
    BY DEF TypeOK, ProcType
  <2> HIDE DEF m, n
  <2>7. PairsOK(p)'
    <3>1. ASSUME proc[p].call = "text", NEW x \in proc[p].pairs \cup {<<n.fwd[o], o>>}
          PROVE  n.fwd[x[2]] = x[1]
      <4>1. CASE x \in proc[p].pairs
        BY <2>4, <2>5, <2>6, <3>1, <4>1, TokenParts
      <4>2. CASE x = <<n.fwd[o], o>>
        BY <4>2
      <4> QED BY <3>1, <4>1, <4>2
    <3> QED BY <2>1, <2>5, <3>1 DEF PairsOK, Saving
  <2>8. AloneProc(p)'
    BY <2>1, <2>2, <2>3, <2>7 DEF AloneProc, Keeps, history
  <2>9. AloneFiles'
    BY <1>4, <1>6 DEF Replace, files
  <2> QED BY <2>1, <2>8, <2>9, OnlyOne, AloneOthers
<1>7. ASSUME NEW p \in Procs, EndText(p) PROVE Alone'
  <2>1. /\ proc[p].pc = "replacing" /\ proc'[p].pc = "creating" /\ proc'[p].map = proc[p].map
        /\ proc'[p].pairs = proc[p].pairs /\ proc'[p].call = proc[p].call
        /\ \A q \in Procs \ {p} : proc'[q] = proc[q]
    BY <1>7 DEF EndText, TypeOK, ProcType
  <2>2. Keeps(proc[p].map.fwd, proc[p].map.cnt) /\ UNCHANGED history /\ PairsOK(p)
    BY <1>7, <2>1 DEF Alone, AloneProc, EndText
  <2>3. AloneProc(p)'
    BY <2>1, <2>2 DEF AloneProc, PairsOK, Keeps, history, Saving
  <2>4. AloneFiles'
    BY <1>4, <1>7 DEF EndText, files
  <2> QED BY <2>1, <2>3, <2>4, OnlyOne, AloneOthers
<1>8. ASSUME NEW p \in Procs, NEW ref \in Originals \cup Tokens, Forget(p, ref) PROVE Alone'
  <2> DEFINE m == proc[p].map  n == Remove(m, ref)  x == Erased(m, ref)
  <2>1. /\ proc[p].pc = "idle" /\ proc'[p].pc = "creating" /\ proc'[p].map = n
        /\ proc'[p].pairs = {x} /\ proc'[p].call = "erase"
        /\ \A q \in Procs \ {p} : proc'[q] = proc[q]
    BY <1>8 DEF Forget, TypeOK, ProcType
  <2>2. SoundMap(m) /\ Keeps(m.fwd, m.cnt) /\ Matches(m, ref)
    BY <1>8, <2>1 DEF Alone, AloneProc, Sound, Forget
  <2>3. /\ SoundMap(n) /\ n.cnt = m.cnt
        /\ x[1] \in Tokens /\ x[2] \in Originals /\ m.fwd[x[2]] = x[1]
        /\ \A q \in Originals : n.fwd[q] # x[1]
        /\ \A q \in Originals : n.fwd[q] = NoToken \/ n.fwd[q] = m.fwd[q]
        /\ \A q \in Originals : m.fwd[q] # x[1] => n.fwd[q] = m.fwd[q]
    BY <2>2, RemoveSound
  <2>4. dropped' = dropped \cup {x[1]} /\ UNCHANGED <<path, issued, erased>>
    BY <1>8 DEF Forget, files
  <2>5. Counted(x[1], n.cnt)
    BY <2>2, <2>3, TokenParts DEF SoundMap
  <2> HIDE DEF m, n, x
  <2>6. ASSUME NEW y \in issued
        PROVE  /\ Counted(y[1], n.cnt) /\ (\A o \in Originals : n.fwd[o] = y[1] => o = y[2])
               /\ y[1] \notin dropped' => n.fwd[y[2]] = y[1]
    <3>1. y[1] \in Tokens /\ y[2] \in Originals
      BY DEF TypeOK
    <3> QED BY <2>2, <2>3, <2>4, <3>1, TokenParts DEF Keeps
  <2>7. ASSUME NEW t \in erased PROVE Counted(t, n.cnt) /\ \A o \in Originals : n.fwd[o] # t
    <3>1. t \in Tokens
      BY DEF TypeOK
    <3> QED BY <2>2, <2>3, <3>1, TokenParts DEF Keeps
  <2>8. AloneProc(p)'
    <3>1. Keeps(proc[p].map.fwd, proc[p].map.cnt)'
      BY <2>1, <2>4, <2>6, <2>7 DEF Keeps
    <3> QED BY <2>1, <2>3, <2>5, <3>1 DEF AloneProc, PairsOK, Saving
  <2>9. AloneFiles'
    <3>1. Readable(path) => Keeps(path.fwd, path.cnt)'
      BY <2>4 DEF Alone, AloneFiles, Keeps
    <3> QED BY <2>4, <3>1 DEF Alone, AloneFiles, Readable, Keeps
  <2> QED BY <2>1, <2>8, <2>9, OnlyOne, AloneOthers
\* The steps of a save keep the map and the pairs of the call.
<1>9. ASSUME NEW p \in Procs, CreateTmp(p) \/ WriteTmp(p) \/ SaveFails(p)
      PROVE  /\ proc[p].pc \in Saving /\ proc'[p].pc \in Saving \cup {"idle"}
             /\ proc'[p].map = proc[p].map
             /\ proc'[p].pairs = proc[p].pairs /\ proc'[p].call = proc[p].call
             /\ \A q \in Procs \ {p} : proc'[q] = proc[q]
             /\ UNCHANGED history
             /\ Keeps(proc[p].map.fwd, proc[p].map.cnt)' /\ PairsOK(p)'
  <2>1. /\ proc[p].pc \in Saving /\ proc'[p].pc \in Saving \cup {"idle"}
        /\ proc'[p].map = proc[p].map
        /\ proc'[p].pairs = proc[p].pairs /\ proc'[p].call = proc[p].call
        /\ \A q \in Procs \ {p} : proc'[q] = proc[q]
        /\ UNCHANGED history
    BY <1>9 DEF CreateTmp, WriteTmp, SaveFails, TypeOK, ProcType, Saving
  <2>2. Keeps(proc[p].map.fwd, proc[p].map.cnt) /\ PairsOK(p)
    BY <2>1 DEF Alone, AloneProc, Saving
  <2>3. Keeps(proc[p].map.fwd, proc[p].map.cnt)'
    BY <2>1, <2>2 DEF Keeps, history
  <2>4. PairsOK(p)'
    BY <2>1, <2>2 DEF PairsOK, Saving
  <2> QED BY <2>1, <2>3, <2>4
<1>10. ASSUME NEW p \in Procs, CreateTmp(p) PROVE Alone'
  <2>1. proc'[p].pc = "writing" /\ fd'[p] = "tmp" /\ tmp' = Broken
    BY <1>10 DEF CreateTmp, TypeOK, ProcType
  <2>2. AloneFiles'
    BY <1>4, <1>10 DEF CreateTmp
  <2>3. AloneProc(p)'
    BY <1>9, <1>10, <2>1 DEF AloneProc
  <2> QED BY <1>9, <1>10, <2>2, <2>3, OnlyOne, AloneOthers DEF Saving
<1>11. ASSUME NEW p \in Procs, WriteTmp(p) PROVE Alone'
  <2>1. proc[p].pc = "writing" /\ fd[p] = "tmp" /\ tmp = Broken
    BY <1>11 DEF WriteTmp, Alone, AloneProc
  <2>2. proc'[p].pc = "renaming" /\ tmp' = ToData(proc'[p].map) /\ path' = path
    BY <1>11, <2>1 DEF WriteTmp, Contents, Readable, TypeOK, ProcType
  <2>3. AloneFiles'
    BY <1>4, <1>11, <2>2 DEF WriteTmp
  <2>4. AloneProc(p)'
    BY <1>9, <1>11, <2>2 DEF AloneProc
  <2> QED BY <1>9, <1>11, <2>3, <2>4, OnlyOne, AloneOthers DEF Saving
<1>12. ASSUME NEW p \in Procs, SaveFails(p) PROVE Alone'
  <2>1. proc'[p].pc = "idle"
    BY <1>12 DEF SaveFails, TypeOK, ProcType
  <2>2. AloneFiles'
    BY <1>4, <1>12 DEF SaveFails
  <2>3. AloneProc(p)'
    BY <1>9, <1>12, <2>1 DEF AloneProc
  <2> QED BY <1>9, <1>12, <2>2, <2>3, OnlyOne, AloneOthers DEF Saving
<1>13. ASSUME NEW p \in Procs, Rename(p) PROVE Alone'
  <2> DEFINE m == proc[p].map
  <2>1. /\ proc[p].pc = "renaming" /\ proc'[p].pc = "idle" /\ proc'[p].map = m
        /\ \A q \in Procs \ {p} : proc'[q] = proc[q]
    BY <1>13 DEF Rename, TypeOK, ProcType
  <2>2. SoundMap(m) /\ Keeps(m.fwd, m.cnt) /\ PairsOK(p) /\ path' = ToData(m) /\ dropped' = dropped
    BY <1>13, <2>1 DEF Alone, AloneProc, Sound, Rename, MoveTmp
  <2>3. path'.fwd = m.fwd /\ path'.cnt = m.cnt /\ Readable(path')
    BY <2>2, SaveSound
  <2>4. \A x \in proc[p].pairs : x[1] \in Tokens /\ x[2] \in Originals
    BY DEF TypeOK, ProcType
  <2>5. Keeps(m.fwd, m.cnt)'
    <3>1. CASE proc[p].call = "text"
      <4>1. issued' = issued \cup proc[p].pairs /\ erased' = erased
        BY <1>13, <3>1 DEF Rename
      <4>2. ASSUME NEW x \in proc[p].pairs
            PROVE  /\ Counted(x[1], m.cnt) /\ m.fwd[x[2]] = x[1]
                   /\ \A o \in Originals : m.fwd[o] = x[1] => o = x[2]
        <5>1. m.fwd[x[2]] = x[1]
          BY <2>1, <2>2, <3>1 DEF PairsOK, Saving
        <5> QED BY <5>1, <2>2, <2>4, TokenParts DEF SoundMap
      <4> QED BY <2>1, <2>2, <4>1, <4>2 DEF Keeps
    <3>2. CASE proc[p].call # "text"
      <4>1. erased' = erased \cup {x[1] : x \in proc[p].pairs} /\ issued' = issued
        BY <1>13, <3>2 DEF Rename
      <4>2. \A x \in proc[p].pairs : Counted(x[1], m.cnt) /\ \A o \in Originals : m.fwd[o] # x[1]
        BY <2>1, <2>2, <3>2 DEF PairsOK, Saving
      <4> QED BY <2>1, <2>2, <4>1, <4>2 DEF Keeps
    <3> QED BY <3>1, <3>2
  <2>6. AloneFiles'
    <3>1. Keeps(path.fwd, path.cnt)'
      BY <2>3, <2>5, <2>1 DEF Keeps
    <3> QED BY <2>3, <3>1 DEF AloneFiles, Readable
  <2>7. AloneProc(p)'
    <3>1. Keeps(proc[p].map.fwd, proc[p].map.cnt)'
      BY <2>1, <2>5 DEF Keeps
    <3> QED BY <2>1, <3>1 DEF AloneProc, PairsOK, Saving
  <2> QED BY <2>1, <2>6, <2>7, OnlyOne, AloneOthers
<1>14. ASSUME NEW p \in Procs, Stop(p) PROVE Alone'
  <2>1. /\ proc[p].pc # "down" /\ proc'[p].pc = "down"
        /\ \A q \in Procs \ {p} : proc'[q] = proc[q]
    BY <1>14 DEF Stop, TypeOK, Down
  <2>2. AloneFiles'
    BY <1>4, <1>14 DEF Stop
  <2>3. AloneProc(p)'
    BY <2>1 DEF AloneProc, PairsOK, Saving
  <2> QED BY <2>1, <2>2, <2>3, OnlyOne, AloneOthers
<1>15. ASSUME UNCHANGED vars PROVE Alone'
  <2>1. AloneFiles' /\ Up' = Up
    BY <1>4, <1>15 DEF vars, history, Up
  <2>2. ASSUME NEW p \in Procs PROVE AloneProc(p)'
    BY <1>15 DEF vars, Alone, AloneProc, PairsOK, Keeps
  <2> QED BY <2>1, <2>2 DEF Alone
<1> QED BY <1>1, <1>2, <1>3, <1>5, <1>6, <1>7, <1>8, <1>10, <1>11, <1>12, <1>13, <1>14, <1>15 DEF Next

-----------------------------------------------------------------------------
(* The invariants.                                                          *)

\* That two processes have had the vault open is not forgotten.
LEMMA SharedStays ==
  ASSUME [Next]_vars
  PROVE  shared => shared'
<1>1. ASSUME NEW p \in Procs, NEW m, Opened(p, m)
      PROVE  shared => shared'
  BY <1>1 DEF Opened
<1>2. ASSUME NEW p \in Procs, OpenPath(p) \/ OpenTmp(p) \/ OpenNew(p)
      PROVE  shared => shared'
  <2>1. PICK m : Opened(p, m)
    BY <1>2 DEF OpenPath, OpenTmp, OpenNew
  <2> QED BY <1>1, <2>1
<1>3. ASSUME NEW p \in Procs, NEW o \in Originals, NEW c \in Prefixes, Replace(p, o, c)
      PROVE  shared => shared'
  BY <1>3 DEF Replace, history
<1>4. ASSUME NEW p \in Procs, NEW ref \in Originals \cup Tokens, Forget(p, ref)
      PROVE  shared => shared'
  BY <1>4 DEF Forget
<1>5. ASSUME NEW p \in Procs, CreateTmp(p)
      PROVE  shared => shared'
  BY <1>5 DEF CreateTmp, history
<1>6. ASSUME NEW p \in Procs, WriteTmp(p)
      PROVE  shared => shared'
  BY <1>6 DEF WriteTmp, history
<1>7. ASSUME NEW p \in Procs, Rename(p)
      PROVE  shared => shared'
  BY <1>7 DEF Rename, MoveTmp, Renamed
<1>8. ASSUME NEW p \in Procs, SaveFails(p) \/ Stop(p)
      PROVE  shared => shared'
  BY <1>8 DEF SaveFails, Stop, history
<1>9. CASE UNCHANGED vars
  BY <1>9 DEF vars
<1>10. CASE Next
  <2>1. PICK p \in Procs :
          \/ OpenPath(p) \/ OpenTmp(p) \/ OpenNew(p)
          \/ StartText(p) \/ (\E o \in Originals, c \in Prefixes : Replace(p, o, c)) \/ EndText(p)
          \/ \E ref \in Originals \cup Tokens : Forget(p, ref)
          \/ CreateTmp(p) \/ WriteTmp(p) \/ Rename(p) \/ SaveFails(p) \/ Stop(p)
    BY <1>10, Zenon DEF Next
  <2>2. CASE OpenPath(p) \/ OpenTmp(p) \/ OpenNew(p)
    BY <2>2, <1>2
  <2>3. CASE StartText(p)
    BY <2>3 DEF StartText, history
  <2>4. ASSUME NEW o \in Originals, NEW c \in Prefixes, Replace(p, o, c)
        PROVE  shared => shared'
    BY <2>4, <1>3
  <2>5. CASE EndText(p)
    BY <2>5 DEF EndText, history
  <2> QED BY <2>1, <2>2, <2>3, <2>4, <2>5, <1>4, <1>5, <1>6, <1>7, <1>8, Zenon
<1> QED BY <1>9, <1>10

LEMMA Invariant == Spec => []IInv
<1>1. Init => IInv
  <2> SUFFICES ASSUME Init PROVE IInv
    OBVIOUS
  <2>1. TypeOK
    BY MapTypes DEF Init, TypeOK, File
  <2>2. Sound
    BY EmptySound DEF Init, Sound, Readable, Down
  <2>3. Alone
    BY FilesAssumption DEF Init, Alone, AloneFiles, AloneProc, PairsOK, Up, Down, Readable, Saving
  <2> QED BY <2>1, <2>2, <2>3 DEF IInv
<1>2. IInv /\ [Next]_vars => IInv'
  <2> SUFFICES ASSUME IInv, [Next]_vars PROVE IInv'
    OBVIOUS
  <2>1. TypeOK' /\ Sound'
    BY TypeStep, SoundStep DEF IInv
  <2>2. shared => shared'
    BY SharedStays DEF IInv
  <2>3. ~shared' => Alone'
    BY <2>2, AloneStep DEF IInv
  <2> QED BY <2>1, <2>3 DEF IInv
<1> QED BY <1>1, <1>2, PTL DEF Spec

\* What the next process finds keeps the promises.
LEMMA RecoveredKeeps ==
  ASSUME IInv, ~shared
  PROVE  Readable(Recovered) /\ Keeps(Recovered.fwd, Recovered.cnt)
<1>1. AloneFiles
  BY DEF IInv, Alone
<1>2. CASE Readable(path)
  BY <1>1, <1>2 DEF AloneFiles, Recovered
<1>3. CASE ~Readable(path)
  <2>1. path = NoFile /\ issued = {} /\ erased = {}
    BY <1>1, <1>3 DEF AloneFiles, Readable
  <2>2. Recovered = IF Readable(tmp) THEN tmp ELSE ToData(EmptyMap)
    BY <1>3, <2>1 DEF Recovered
  <2>3. Readable(ToData(EmptyMap))
    BY EmptySound, SaveSound
  <2> QED BY <2>1, <2>2, <2>3 DEF Keeps
<1> QED BY <1>2, <1>3

\* A token in a text that was handed out leads back to its original, in memory and after a
\* restart, until it is erased (IssuedStays: anno-rag/src/vault.rs 131-138).
THEOREM IssuedStaysHolds == Spec => []IssuedStays
<1>1. IInv => IssuedStays
  <2> SUFFICES ASSUME IInv, ~shared, NEW x \in issued, x[1] \notin dropped
               PROVE  /\ Readable(Recovered) /\ Recovered.fwd[x[2]] = x[1]
                      /\ \A p \in Up : /\ proc[p].map.fwd[x[2]] = x[1]
                                       /\ proc[p].map.rev[x[1]] = x[2]
    BY DEF IssuedStays
  <2>1. x[1] \in Tokens /\ x[2] \in Originals
    BY DEF IInv, TypeOK
  <2>2. ASSUME NEW p \in Up PROVE proc[p].map.fwd[x[2]] = x[1] /\ proc[p].map.rev[x[1]] = x[2]
    <3>1. Keeps(proc[p].map.fwd, proc[p].map.cnt) /\ SoundMap(proc[p].map)
      BY DEF IInv, Alone, AloneProc, Sound, Up
    <3> QED BY <2>1, <3>1 DEF Keeps, SoundMap
  <2> QED BY <2>2, RecoveredKeeps DEF Keeps
<1> QED BY <1>1, Invariant, PTL

\* A token that was handed out never stands for anything else (TokenNeverRebound:
\* cloakpipe vault.rs 322-361).
THEOREM TokenNeverReboundHolds == Spec => []TokenNeverRebound
<1>1. IInv => TokenNeverRebound
  <2> SUFFICES ASSUME IInv, ~shared, NEW x \in issued
               PROVE  /\ \A o \in Originals : Recovered.fwd[o] = x[1] => o = x[2]
                      /\ \A p \in Up : proc[p].map.rev[x[1]] \in {x[2], NoOriginal}
    BY DEF TokenNeverRebound
  <2>1. x[1] \in Tokens /\ x[2] \in Originals
    BY DEF IInv, TypeOK
  <2>2. ASSUME NEW p \in Up PROVE proc[p].map.rev[x[1]] \in {x[2], NoOriginal}
    <3>1. Keeps(proc[p].map.fwd, proc[p].map.cnt) /\ SoundMap(proc[p].map)
      BY DEF IInv, Alone, AloneProc, Sound, Up
    <3> QED BY <2>1, <3>1 DEF Keeps, SoundMap, Maps
  <2> QED BY <2>2, RecoveredKeeps DEF Keeps
<1> QED BY <1>1, Invariant, PTL

\* A token whose erasure was confirmed resolves nowhere again (ErasedStays:
\* anno-rag/src/vault.rs 346-355).
THEOREM ErasedStaysHolds == Spec => []ErasedStays
<1>1. IInv => ErasedStays
  <2> SUFFICES ASSUME IInv, ~shared, NEW t \in erased
               PROVE  /\ \A o \in Originals : Recovered.fwd[o] # t
                      /\ \A p \in Up : proc[p].map.rev[t] = NoOriginal
    BY DEF ErasedStays
  <2>1. t \in Tokens
    BY DEF IInv, TypeOK
  <2>2. ASSUME NEW p \in Up PROVE proc[p].map.rev[t] = NoOriginal
    <3>1. Keeps(proc[p].map.fwd, proc[p].map.cnt) /\ SoundMap(proc[p].map)
      BY DEF IInv, Alone, AloneProc, Sound, Up
    <3> QED BY <2>1, <3>1 DEF Keeps, SoundMap, Maps
  <2> QED BY <2>2, RecoveredKeeps DEF Keeps
<1> QED BY <1>1, Invariant, PTL

\* However many processes share the files, whatever they overwrite and wherever they stop:
\* in every map and every file that can be read no two originals have one token, and no
\* token has a number that would be given out again (cloakpipe vault.rs 322-361).
THEOREM SoundHolds == Spec => []Sound
<1>1. IInv => Sound
  BY DEF IInv
<1> QED BY <1>1, Invariant, PTL

\* A vault that is saved and opened again is the same: the file has only one direction of
\* the map, and the other one is rebuilt (cloakpipe vault.rs 100-147, 282-311).
THEOREM SaveThenLoad ==
  ASSUME NEW m, SoundMap(m)
  PROVE  FromData(ToData(m)) = m
<1> DEFINE n == FromData(ToData(m))
<1>1. SoundMap(n) /\ n.fwd = m.fwd /\ n.cnt = m.cnt
  BY SaveSound, LoadSound
<1>2. m \in Maps /\ n \in Maps
  BY <1>1 DEF SoundMap
<1> HIDE DEF n
<1>3. ASSUME NEW t \in Tokens PROVE n.rev[t] = m.rev[t]
  <2>1. \A o \in Originals : n.rev[t] = o <=> m.rev[t] = o
    BY <1>1 DEF SoundMap
  <2>2. n.rev[t] \in Originals \cup {NoOriginal} /\ m.rev[t] \in Originals \cup {NoOriginal}
    BY <1>2 DEF Maps
  <2> QED BY <2>1, <2>2
<1>4. n.rev = m.rev
  BY <1>2, <1>3 DEF Maps
<1>5. n = m
  BY <1>1, <1>2, <1>4 DEF Maps
<1> QED BY <1>5 DEF n

-----------------------------------------------------------------------------
(* The token store.                                                         *)

\* An erasure that is being saved has begun.
Begun ==
  \A p \in Procs :
    /\ proc[p].pc = "replacing" => proc[p].call = "text"
    /\ proc[p].pc \in Saving /\ proc[p].call # "text" =>
         \A x \in proc[p].pairs : x[1] \in dropped

\* Where one process at a time opens the vault, it is not shared.
LEMMA SoleStep == ASSUME ~Concurrent, ~shared, [Next]_vars PROVE ~shared'
<1>1. ASSUME NEW p \in Procs, NEW m, Opened(p, m) PROVE ~shared'
  BY <1>1 DEF Opened
<1>2. ASSUME NEW p \in Procs, OpenPath(p) \/ OpenTmp(p) \/ OpenNew(p) PROVE ~shared'
  BY <1>1, <1>2 DEF OpenPath, OpenTmp, OpenNew
<1>3. ASSUME NEW p \in Procs, Rename(p) PROVE ~shared'
  BY <1>3 DEF Rename, MoveTmp
<1>4. ASSUME NEW p \in Procs, NEW ref \in Originals \cup Tokens, Forget(p, ref) PROVE ~shared'
  BY <1>4 DEF Forget
<1>5. ASSUME NEW p \in Procs,
             \/ StartText(p) \/ (\E o \in Originals, c \in Prefixes : Replace(p, o, c))
             \/ EndText(p) \/ CreateTmp(p) \/ WriteTmp(p) \/ SaveFails(p) \/ Stop(p)
      PROVE  ~shared'
  <2>1. UNCHANGED history
    BY <1>5 DEF StartText, Replace, EndText, CreateTmp, WriteTmp, SaveFails, Stop
  <2> QED BY <2>1 DEF history
<1>6. CASE UNCHANGED vars
  BY <1>6 DEF vars
<1> QED BY <1>2, <1>3, <1>4, <1>5, <1>6, Zenon DEF Next

\* The history of tokens changes in three actions.
LEMMA HistoryStep ==
  ASSUME TypeOK, [Next]_vars
  PROVE  \/ UNCHANGED <<issued, dropped, erased>>
         \/ \E p \in Procs : Rename(p) \/ \E ref \in Originals \cup Tokens : Forget(p, ref)
<1>1. ASSUME NEW p \in Procs, NEW m, Opened(p, m) PROVE UNCHANGED <<issued, dropped, erased>>
  BY <1>1 DEF Opened
<1>2. ASSUME NEW p \in Procs, OpenPath(p) \/ OpenTmp(p) \/ OpenNew(p)
      PROVE  UNCHANGED <<issued, dropped, erased>>
  BY <1>1, <1>2 DEF OpenPath, OpenTmp, OpenNew
<1>3. ASSUME NEW p \in Procs,
             \/ StartText(p) \/ (\E o \in Originals, c \in Prefixes : Replace(p, o, c))
             \/ EndText(p) \/ CreateTmp(p) \/ WriteTmp(p) \/ SaveFails(p) \/ Stop(p)
      PROVE  UNCHANGED <<issued, dropped, erased>>
  <2>1. UNCHANGED history
    BY <1>3 DEF StartText, Replace, EndText, CreateTmp, WriteTmp, SaveFails, Stop
  <2> QED BY <2>1 DEF history
<1>4. CASE UNCHANGED vars
  BY <1>4 DEF vars
<1> QED BY <1>2, <1>3, <1>4, Zenon DEF Next

\* What an erasure takes out of the map.
LEMMA ErasedPair ==
  ASSUME NEW m, SoundMap(m), NEW ref \in Originals \cup Tokens, Matches(m, ref)
  PROVE  Erased(m, ref) \in Tokens \X Originals /\ Erased(m, ref)[1] \in Tokens
<1>1. m.fwd \in [Originals -> Tokens \cup {NoToken}]
      /\ m.rev \in [Tokens -> Originals \cup {NoOriginal}]
  BY DEF SoundMap, Maps
<1>2. CASE ref \in Originals
  BY <1>1, <1>2 DEF Matches, Erased
<1>3. CASE ref \notin Originals
  BY <1>1, <1>3 DEF Matches, Erased
<1> QED BY <1>2, <1>3

LEMMA BegunStep == ASSUME TypeOK, Sound, Begun, [Next]_vars PROVE Begun'
<1> DEFINE Fine(r, begun) ==
             /\ r.pc = "replacing" => r.call = "text"
             /\ r.pc \in Saving /\ r.call # "text" => \A x \in r.pairs : x[1] \in begun
<1>1. ASSUME NEW p \in Procs, \A q \in Procs \ {p} : proc'[q] = proc[q],
             dropped \subseteq dropped', Fine(proc'[p], dropped')
      PROVE  Begun'
  <2>1. ASSUME NEW q \in Procs PROVE Fine(proc'[q], dropped')
    <3>1. CASE q = p
      BY <1>1, <3>1
    <3>2. CASE q # p
      BY <1>1, <3>2 DEF Begun
    <3> QED BY <3>1, <3>2
  <2> QED BY <2>1 DEF Begun
<1>2. ASSUME NEW p \in Procs PROVE Fine(proc[p], dropped) /\ proc[p] \in ProcType
  BY DEF Begun, TypeOK
<1>3. ASSUME NEW p \in Procs, NEW m, Opened(p, m) PROVE Begun'
  <2>1. /\ \A q \in Procs \ {p} : proc'[q] = proc[q]
        /\ proc'[p].pc = "idle" /\ dropped' = dropped
    BY <1>3 DEF Opened, TypeOK, Down
  <2> QED BY <1>1, <2>1 DEF Saving
<1>4. ASSUME NEW p \in Procs, OpenPath(p) \/ OpenTmp(p) \/ OpenNew(p) PROVE Begun'
  BY <1>3, <1>4 DEF OpenPath, OpenTmp, OpenNew
<1>5. ASSUME NEW p \in Procs, StartText(p) PROVE Begun'
  <2>1. /\ \A q \in Procs \ {p} : proc'[q] = proc[q]
        /\ proc'[p].pc = "replacing" /\ proc'[p].call = "text" /\ dropped' = dropped
    BY <1>2, <1>5 DEF StartText, TypeOK, ProcType, history
  <2> QED BY <1>1, <2>1 DEF Saving
<1>6. ASSUME NEW p \in Procs, NEW o \in Originals, NEW c \in Prefixes, Replace(p, o, c)
      PROVE  Begun'
  <2>1. /\ \A q \in Procs \ {p} : proc'[q] = proc[q]
        /\ proc'[p].pc = "replacing" /\ proc'[p].call = proc[p].call /\ dropped' = dropped
        /\ proc[p].pc = "replacing"
    BY <1>2, <1>6 DEF Replace, TypeOK, ProcType, history
  <2> QED BY <1>1, <1>2, <2>1 DEF Saving
<1>7. ASSUME NEW p \in Procs, EndText(p) PROVE Begun'
  <2>1. /\ \A q \in Procs \ {p} : proc'[q] = proc[q]
        /\ proc'[p].pc = "creating" /\ proc'[p].call = proc[p].call /\ dropped' = dropped
        /\ proc[p].pc = "replacing"
    BY <1>2, <1>7 DEF EndText, TypeOK, ProcType, history
  <2> QED BY <1>1, <1>2, <2>1
<1>8. ASSUME NEW p \in Procs, NEW ref \in Originals \cup Tokens, Forget(p, ref) PROVE Begun'
  <2> DEFINE e == Erased(proc[p].map, ref)
  <2>1. /\ \A q \in Procs \ {p} : proc'[q] = proc[q]
        /\ proc'[p].pc = "creating" /\ proc'[p].pairs = {e} /\ dropped' = dropped \cup {e[1]}
    BY <1>2, <1>8 DEF Forget, TypeOK, ProcType
  <2> HIDE DEF e
  <2> QED BY <1>1, <2>1
<1>9. ASSUME NEW p \in Procs, CreateTmp(p) \/ WriteTmp(p) PROVE Begun'
  <2>1. /\ \A q \in Procs \ {p} : proc'[q] = proc[q]
        /\ proc'[p].pc \in {"writing", "renaming"} /\ proc[p].pc \in Saving
        /\ dropped' = dropped
        /\ proc'[p].call = proc[p].call /\ proc'[p].pairs = proc[p].pairs
    BY <1>2, <1>9 DEF CreateTmp, WriteTmp, TypeOK, ProcType, Saving, history
  <2> QED BY <1>1, <1>2, <2>1
<1>10. ASSUME NEW p \in Procs, Rename(p) \/ SaveFails(p) \/ Stop(p) PROVE Begun'
  <2>1. /\ \A q \in Procs \ {p} : proc'[q] = proc[q]
        /\ proc'[p].pc \in {"idle", "down"} /\ dropped' = dropped
    BY <1>2, <1>10 DEF Rename, SaveFails, Stop, Down, TypeOK, ProcType, history
  <2> QED BY <1>1, <2>1 DEF Saving
<1>11. CASE UNCHANGED vars
  BY <1>11 DEF vars, Begun
<1> QED BY <1>4, <1>5, <1>6, <1>7, <1>8, <1>9, <1>10, <1>11, Zenon DEF Next

\* The map that answers keeps the promises, open or not.
LEMMA AnsweringKeeps ==
  ASSUME IInv, ~shared
  PROVE  SoundMap(Answering) /\ Keeps(Answering.fwd, Answering.cnt)
<1>1. CASE Up # {}
  <2> DEFINE p == CHOOSE q \in Up : TRUE
  <2>1. p \in Up
    BY <1>1
  <2>2. Answering = proc[p].map
    BY <1>1 DEF Answering
  <2> HIDE DEF p
  <2>3. SoundMap(proc[p].map) /\ Keeps(proc[p].map.fwd, proc[p].map.cnt)
    BY <2>1 DEF IInv, Alone, AloneProc, Sound, Up
  <2> QED BY <2>2, <2>3
<1>2. CASE Up = {}
  <2>1. Readable(Recovered) /\ Keeps(Recovered.fwd, Recovered.cnt)
    BY RecoveredKeeps
  <2>2. SoundData(Recovered)
    BY <2>1, EmptySound DEF IInv, Sound, Recovered, Readable
  <2>3. Answering = FromData(Recovered)
    BY <1>2, <2>1 DEF Answering
  <2> QED BY <2>1, <2>2, <2>3, LoadSound
<1> QED BY <1>1, <1>2

LEMMA StoreResolves == ASSUME IInv, ~shared PROVE Store!Resolves
<1> DEFINE m == Answering
           Answer(t) == {o \in Originals : m.rev[t] = o}
<1>1. SoundMap(m) /\ Keeps(m.fwd, m.cnt)
  BY AnsweringKeeps
<1> HIDE DEF m
<1>2. issued \subseteq Tokens \X Originals /\ erased \subseteq Tokens
  BY DEF IInv, TypeOK
<1>3. ASSUME NEW x \in issued
      PROVE  /\ x[1] \in Tokens /\ Answer(x[1]) \subseteq {x[2]}
             /\ x[1] \notin dropped => Answer(x[1]) = {x[2]}
  <2>1. x[1] \in Tokens /\ x[2] \in Originals
    BY <1>2
  <2>2. \A o \in Originals : m.rev[x[1]] = o <=> m.fwd[o] = x[1]
    BY <1>1, <2>1 DEF SoundMap
  <2>3. /\ \A o \in Originals : m.fwd[o] = x[1] => o = x[2]
        /\ x[1] \notin dropped => m.fwd[x[2]] = x[1]
    BY <1>1 DEF Keeps
  <2> QED BY <2>1, <2>2, <2>3
<1>4. ASSUME NEW t \in erased PROVE t \in Tokens /\ Answer(t) = {}
  <2>1. t \in Tokens /\ \A o \in Originals : m.fwd[o] # t
    BY <1>1, <1>2 DEF Keeps
  <2> QED BY <1>1, <2>1 DEF SoundMap
<1>5. [t \in Tokens |-> Answer(t)] \in [Tokens -> SUBSET Originals]
  OBVIOUS
<1>6. [t \in Tokens |-> {o \in Originals : Answering.rev[t] = o}] = [t \in Tokens |-> Answer(t)]
  BY DEF m
<1> HIDE DEF Answer
<1> QED BY <1>3, <1>4, <1>5, <1>6 DEF Store!Resolves

\* The pairs of a text that is handed out agree with all that were handed out before.
LEMMA RenameHandsOut ==
  ASSUME IInv, ~shared, NEW p \in Procs, Rename(p), proc[p].call = "text"
  PROVE  /\ proc[p].pairs \in SUBSET (Tokens \X Originals)
         /\ Store!HandOut(proc[p].pairs)
<1> DEFINE m == proc[p].map
           P == proc[p].pairs
<1>1. P \subseteq Tokens \X Originals /\ proc[p].pc = "renaming" /\ p \in Up
  BY DEF IInv, TypeOK, ProcType, Rename, Up
<1>2. SoundMap(m) /\ Keeps(m.fwd, m.cnt) /\ \A x \in P : m.fwd[x[2]] = x[1]
  BY <1>1 DEF IInv, Alone, AloneProc, PairsOK, Sound, Saving
<1>3. issued' = issued \cup P /\ UNCHANGED <<dropped, erased>>
  BY DEF Rename
<1> HIDE DEF m, P
<1>4. ASSUME NEW x \in P PROVE x[1] \in Tokens /\ x[2] \in Originals /\ m.rev[x[1]] = x[2]
  BY <1>1, <1>2 DEF SoundMap
<1>5. \A x \in P : x[1] \notin erased
  BY <1>2, <1>4 DEF Keeps
<1>6. ASSUME NEW x \in P, NEW y \in P
      PROVE  (x[1] = y[1] => x[2] = y[2]) /\ (x[2] = y[2] => x[1] = y[1])
  BY <1>2, <1>4
<1>7. ASSUME NEW x \in P, NEW y \in issued
      PROVE  /\ x[1] = y[1] => x[2] = y[2]
             /\ x[2] = y[2] => x[1] = y[1] \/ y[1] \in dropped
  BY <1>2, <1>4 DEF Keeps
<1> QED BY <1>1, <1>3, <1>5, <1>6, <1>7 DEF Store!HandOut, P

LEMMA StoreStep ==
  ASSUME IInv, Begun, ~shared, Store!Resolves', [Next]_vars
  PROVE  Store!Next
<1>1. CASE UNCHANGED <<issued, dropped, erased>>
  BY <1>1 DEF Store!Next, Store!Restart
<1>2. ASSUME NEW p \in Procs, Rename(p), proc[p].call = "text" PROVE Store!Next
  BY <1>2, RenameHandsOut DEF Store!Next
<1>3. ASSUME NEW p \in Procs, Rename(p), proc[p].call # "text" PROVE Store!Next
  <2> DEFINE T == {x[1] : x \in proc[p].pairs}
  <2>1. erased' = erased \cup T /\ UNCHANGED <<issued, dropped>> /\ proc[p].pc \in Saving
    BY <1>3 DEF Rename, Saving
  <2>2. T \subseteq dropped
    BY <1>3, <2>1 DEF Begun
  <2> HIDE DEF T
  <2>3. Store!Confirm(T)
    BY <2>1 DEF Store!Confirm
  <2> QED BY <2>2, <2>3 DEF Store!Next
<1>4. ASSUME NEW p \in Procs, NEW ref \in Originals \cup Tokens, Forget(p, ref)
      PROVE  Store!Next
  <2> DEFINE t == Erased(proc[p].map, ref)[1]
  <2>1. dropped' = dropped \cup {t} /\ UNCHANGED <<issued, erased>>
    BY <1>4 DEF Forget
  <2>2. t \in Tokens
    BY <1>4, ErasedPair DEF Forget, IInv, Sound
  <2> HIDE DEF t
  <2>3. Store!Erase(t)
    BY <2>1 DEF Store!Erase
  <2> QED BY <2>2, <2>3 DEF Store!Next
<1> QED BY <1>1, <1>2, <1>3, <1>4, HistoryStep DEF IInv

\* Where one process at a time opens the vault, map, file, path.tmp, failing saves and stops
\* together are a token store: TokenStore's promises hold in every state, and every step is
\* one of its steps (StoreRefined; anno-rag/src/vault.rs 131-138, 346-355).
THEOREM StoreRefinedHolds == ASSUME ~Concurrent PROVE Spec => StoreRefined
<1>1. Init => Begun /\ ~shared /\ issued = {} /\ dropped = {} /\ erased = {}
  BY DEF Init, Begun, Down, Saving
<1>2. Begun /\ ~shared /\ IInv /\ [Next]_vars => Begun' /\ ~shared'
  BY BegunStep, SoleStep DEF IInv
<1>3. IInv /\ ~shared => Store!Resolves
  BY StoreResolves
<1>4. IInv /\ Begun /\ ~shared /\ Store!Resolves' /\ [Next]_vars => [Store!Next]_(Store!vars)
  BY StoreStep
<1>5. Init /\ Store!Resolves => Store!Init
  BY <1>1 DEF Store!Init
<1> QED BY <1>1, <1>2, <1>3, <1>4, <1>5, Invariant, PTL DEF Spec, StoreRefined, Store!Spec
=============================================================================
