--------------------------- MODULE PseudonymVault ---------------------------
(***************************************************************************)
(* The pseudonym vault of a server: a token map in memory behind a mutex,  *)
(* saved as a whole to an encrypted file before any text with its tokens   *)
(* is handed out and before an erasure is confirmed.                       *)
(*                                                                         *)
(* A save writes path.tmp and renames it over path; opening falls back on  *)
(* path.tmp.  A save may fail at each step, a process may stop at any      *)
(* moment, and other processes may have the same vault open: they share    *)
(* the two names, and a file that is renamed while a process still writes  *)
(* to it is written on under its new name.                                 *)
(*                                                                         *)
(* A file that is cut, or that two processes wrote into, does not decrypt. *)
(***************************************************************************)
EXTENDS VaultMap

CONSTANTS
  Procs,       \* the processes that open the vault
  Concurrent,  \* TRUE when several of them may have it open
  NoFile, Broken

ASSUME ConcurrentAssumption == Concurrent \in BOOLEAN
ASSUME FilesAssumption == NoFile \notin Data /\ Broken \notin Data /\ NoFile # Broken

VARIABLES
  path,      \* the data in the vault file, Broken, or NoFile
  tmp,       \* the same for path.tmp
  fd,        \* fd[p]: the file p has open for writing: "tmp", "path", "lost" or "none"
  proc,      \* proc[p]: the state of a process and of the call that holds its mutex
  issued,    \* history: <<token, original>> in texts that were handed out
  dropped,   \* history: tokens an erasure has taken from a map
  erased,    \* history: tokens whose erasure was confirmed
  shared     \* history: two processes have had the vault open at once

files == <<path, tmp, fd>>
history == <<issued, dropped, erased, shared>>
vars == <<path, tmp, fd, proc, issued, dropped, erased, shared>>

-----------------------------------------------------------------------------
\* map: the map in memory; call: what holds the mutex; pairs: the mappings of the text
\* at hand, or the one that is erased.
Down == [pc |-> "down", map |-> EmptyMap, call |-> "none", pairs |-> {}]

Saving == {"creating", "writing", "renaming"}
Up == {p \in Procs : proc[p].pc # "down"}

Readable(f) == f \notin {NoFile, Broken}

Init ==
  /\ path = NoFile /\ tmp = NoFile
  /\ fd = [p \in Procs |-> "none"]
  /\ proc = [p \in Procs |-> Down]
  /\ issued = {} /\ dropped = {} /\ erased = {} /\ shared = FALSE

\* path.tmp takes the name of the vault file: who writes to it, writes to that file now,
\* and who wrote to the file that had the name writes to no file of the vault.
Renamed(files_) ==
  [p \in Procs |-> CASE files_[p] = "tmp"  -> "path"
                     [] files_[p] = "path" -> "lost"
                     [] OTHER              -> files_[p]]

MoveTmp ==
  /\ tmp # NoFile
  /\ path' = tmp /\ tmp' = NoFile
  /\ fd' = Renamed(fd)

-----------------------------------------------------------------------------
(* Opening the vault.                                                       *)

Opened(p, m) ==
  /\ proc[p].pc = "down"
  /\ Up # {} => Concurrent
  /\ proc' = [proc EXCEPT ![p] = [Down EXCEPT !.pc = "idle", !.map = m]]
  /\ shared' = (shared \/ Up # {})
  /\ UNCHANGED <<issued, dropped, erased>>

OpenPath(p) ==
  /\ Readable(path)
  /\ Opened(p, FromData(path))
  /\ UNCHANGED files

\* What an interrupted save left takes the place of a file that is gone or unreadable.
\* Opening fails, and nothing changes, when both are unreadable.
OpenTmp(p) ==
  /\ ~Readable(path) /\ Readable(tmp)
  /\ Opened(p, FromData(tmp))
  /\ MoveTmp

\* A new vault.  A path.tmp that cannot be read, or not renamed, is removed if possible.
OpenNew(p) ==
  /\ path = NoFile
  /\ Opened(p, EmptyMap)
  /\ \/ /\ tmp' = NoFile
        /\ fd' = [q \in Procs |-> IF fd[q] = "tmp" THEN "lost" ELSE fd[q]]
     \/ tmp # NoFile /\ UNCHANGED <<tmp, fd>>
  /\ UNCHANGED path

-----------------------------------------------------------------------------
(* The calls.  A call keeps the mutex until it has saved.                    *)

StartText(p) ==
  /\ proc[p].pc = "idle"
  /\ proc' = [proc EXCEPT ![p].pc = "replacing", ![p].call = "text", ![p].pairs = {}]
  /\ UNCHANGED <<files, history>>

\* The next entity of the text, detected with the category of the prefix c.
Replace(p, o, c) ==
  /\ proc[p].pc = "replacing"
  /\ HasRoom(proc[p].map, o, c)
  /\ LET m == GetOrCreate(proc[p].map, o, c)
     IN proc' = [proc EXCEPT ![p].map = m, ![p].pairs = @ \cup {<<m.fwd[o], o>>}]
  /\ UNCHANGED <<files, history>>

EndText(p) ==
  /\ proc[p].pc = "replacing"
  /\ proc' = [proc EXCEPT ![p].pc = "creating"]
  /\ UNCHANGED <<files, history>>

Erased(m, ref) ==
  IF ref \in Originals THEN <<m.fwd[ref], ref>> ELSE <<ref, m.rev[ref]>>

\* Variant with a bug: the erasure is confirmed, and saved with the next text.
ForgetUnsaved(p, ref) ==
  /\ proc[p].pc = "idle"
  /\ Matches(proc[p].map, ref)
  /\ proc' = [proc EXCEPT ![p].map = Remove(proc[p].map, ref)]
  /\ dropped' = dropped \cup {Erased(proc[p].map, ref)[1]}
  /\ erased' = erased \cup {Erased(proc[p].map, ref)[1]}
  /\ UNCHANGED <<files, issued, shared>>

\* An erasure that matches nothing saves nothing, and changes nothing.
Forget(p, ref) ==
  /\ proc[p].pc = "idle"
  /\ Matches(proc[p].map, ref)
  /\ proc' = [proc EXCEPT ![p].pc = "creating", ![p].call = "erase",
                          ![p].map = Remove(proc[p].map, ref),
                          ![p].pairs = {Erased(proc[p].map, ref)}]
  /\ dropped' = dropped \cup {Erased(proc[p].map, ref)[1]}
  /\ UNCHANGED <<files, issued, erased, shared>>

-----------------------------------------------------------------------------
(* Saving.                                                                  *)

\* Variant with a bug: the vault file itself is opened and emptied.
CreateInPlace(p) ==
  /\ proc[p].pc = "creating"
  /\ path' = Broken /\ tmp' = Broken
  /\ fd' = [fd EXCEPT ![p] = "tmp"]
  /\ proc' = [proc EXCEPT ![p].pc = "writing"]
  /\ UNCHANGED history

\* Creating path.tmp empties the one that is there.
CreateTmp(p) ==
  /\ proc[p].pc = "creating"
  /\ tmp' = Broken
  /\ fd' = [fd EXCEPT ![p] = "tmp"]
  /\ proc' = [proc EXCEPT ![p].pc = "writing"]
  /\ UNCHANGED <<path, history>>

\* The bytes land in the file p has open.  Over bytes of another process the result may
\* be a mixture of both.
Contents(p, old) ==
  {ToData(proc[p].map)} \cup (IF Readable(old) THEN {Broken} ELSE {})

WriteTmp(p) ==
  /\ proc[p].pc = "writing"
  /\ IF fd[p] = "tmp" THEN tmp' \in Contents(p, tmp) ELSE UNCHANGED tmp
  /\ IF fd[p] = "path" THEN path' \in Contents(p, path) ELSE UNCHANGED path
  /\ fd' = [fd EXCEPT ![p] = "none"]
  /\ proc' = [proc EXCEPT ![p].pc = "renaming"]
  /\ UNCHANGED history

\* The call returns: the text is out, or the erasure is confirmed.
Rename(p) ==
  /\ proc[p].pc = "renaming"
  /\ MoveTmp
  /\ proc' = [proc EXCEPT ![p].pc = "idle"]
  /\ IF proc[p].call = "text"
     THEN issued' = issued \cup proc[p].pairs /\ UNCHANGED erased
     ELSE erased' = erased \cup {pair[1] : pair \in proc[p].pairs} /\ UNCHANGED issued
  /\ UNCHANGED <<dropped, shared>>

\* Variant with a bug: path.tmp stays open.
SaveFailsOpen(p) ==
  /\ proc[p].pc \in Saving
  /\ proc' = [proc EXCEPT ![p].pc = "idle"]
  /\ UNCHANGED <<files, history>>

\* Any step of the save fails: the call returns the error, the map stays as it is.
SaveFails(p) ==
  /\ proc[p].pc \in Saving
  /\ fd' = [fd EXCEPT ![p] = "none"]
  /\ proc' = [proc EXCEPT ![p].pc = "idle"]
  /\ UNCHANGED <<path, tmp, history>>

Stop(p) ==
  /\ proc[p].pc # "down"
  /\ fd' = [fd EXCEPT ![p] = "none"]
  /\ proc' = [proc EXCEPT ![p] = Down]
  /\ UNCHANGED <<path, tmp, history>>

Next ==
  \E p \in Procs :
    \/ OpenPath(p) \/ OpenTmp(p) \/ OpenNew(p)
    \/ StartText(p) \/ (\E o \in Originals, c \in Prefixes : Replace(p, o, c)) \/ EndText(p)
    \/ \E ref \in Originals \cup Tokens : Forget(p, ref)
    \/ CreateTmp(p) \/ WriteTmp(p) \/ Rename(p) \/ SaveFails(p) \/ Stop(p)

Spec == Init /\ [][Next]_vars
-----------------------------------------------------------------------------
(* Properties.                                                              *)

File == Data \cup {NoFile, Broken}

ProcType ==
  [pc : {"down", "idle", "replacing"} \cup Saving, map : Maps,
   call : {"none", "text", "erase"}, pairs : SUBSET (Tokens \X Originals)]

TypeOK ==
  /\ path \in File /\ tmp \in File
  /\ fd \in [Procs -> {"none", "tmp", "path", "lost"}]
  /\ proc \in [Procs -> ProcType]
  /\ issued \subseteq Tokens \X Originals
  /\ dropped \subseteq Tokens /\ erased \subseteq Tokens
  /\ shared \in BOOLEAN
  /\ \A p \in Procs : fd[p] # "none" => proc[p].pc = "writing"

\* What the next process to open the vault would find.
Recovered ==
  IF Readable(path) THEN path
  ELSE IF Readable(tmp) THEN tmp
  ELSE IF path = NoFile THEN ToData(EmptyMap)
  ELSE Broken

\* A token in a text that was handed out leads back to its original in every process that
\* has the vault open, and in the one that opens it next, wherever processes stopped and
\* whichever saves failed, until it is erased (anno-rag/src/vault.rs 131-138, cloakpipe
\* vault.rs 100-147, 282-311).  For one process at a time.
IssuedStays ==
  ~shared => \A x \in issued : x[1] \notin dropped =>
    /\ Readable(Recovered) /\ Recovered.fwd[x[2]] = x[1]
    /\ \A p \in Up : proc[p].map.fwd[x[2]] = x[1] /\ proc[p].map.rev[x[1]] = x[2]

\* A token that was handed out never stands for anything else, not even after its
\* erasure: the numbers of erased tokens are not used again, also not by a process that
\* starts from the file (cloakpipe vault.rs 322-361).  For one process at a time.
TokenNeverRebound ==
  ~shared => \A x \in issued :
    /\ Readable(Recovered) => \A o \in Originals : Recovered.fwd[o] = x[1] => o = x[2]
    /\ \A p \in Up : proc[p].map.rev[x[1]] \in {x[2], NoOriginal}

\* A token whose erasure was confirmed resolves nowhere again: a stop, and a start from
\* what an earlier save left in path.tmp, do not bring it back (anno-rag/src/vault.rs
\* 346-355).  For one process at a time.
ErasedStays ==
  ~shared => \A t \in erased :
    /\ Readable(Recovered) => \A o \in Originals : Recovered.fwd[o] # t
    /\ \A p \in Up : proc[p].map.rev[t] = NoOriginal

\* The map that answers: that of the process that has the vault open, or the one the next
\* process starts with.
Answering ==
  IF Up # {} THEN proc[CHOOSE p \in Up : TRUE].map
  ELSE IF Readable(Recovered) THEN FromData(Recovered)
  ELSE EmptyMap

Store == INSTANCE TokenStore WITH
  left <- dropped, gone <- erased,
  answer <- [t \in Tokens |-> {o \in Originals : Answering.rev[t] = o}]

\* With one process at a time the map, its saves, their failures and stops are a token
\* store (anno-rag/src/vault.rs 131-138, 346-355, cloakpipe vault.rs 100-147, 282-361).
StoreRefined == Store!Spec
=============================================================================
