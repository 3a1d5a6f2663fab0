----------------------------- MODULE KeyClaims -----------------------------
(***************************************************************************)
(* What the in-memory map active_ingest_jobs promises the callers of       *)
(* legal_ingest: in one server process a corpus key is held by one job at  *)
(* a time; the job that holds it gives it up itself, or loses it with the  *)
(* process; no other job can take it away, and a job id claims only once.  *)
(* IngestJobs implements this specification.                               *)
(***************************************************************************)
CONSTANTS Procs, Keys, Jobs, NoJob

VARIABLES
  holder,   \* holder[p][k]: the job that holds key k in process p, or NoJob
  phase     \* phase[j]: "fresh", then "holding", then "released" for ever

vars == <<holder, phase>>

Init ==
  /\ holder = [p \in Procs |-> [k \in Keys |-> NoJob]]
  /\ phase = [j \in Jobs |-> "fresh"]

Acquire(p, k, j) ==
  /\ holder[p][k] = NoJob
  /\ phase[j] = "fresh"
  /\ holder' = [holder EXCEPT ![p][k] = j]
  /\ phase' = [phase EXCEPT ![j] = "holding"]

\* The job ends its own claim: it stops holding in the step that frees the key.
Yield(p, k, j) ==
  /\ holder[p][k] = j
  /\ phase[j] = "holding"
  /\ holder' = [holder EXCEPT ![p][k] = NoJob]
  /\ phase' = [phase EXCEPT ![j] = "released"]

\* A process that dies takes its whole map and the jobs that hold keys with it.
ProcessDies(p) ==
  /\ holder' = [holder EXCEPT ![p] = [k \in Keys |-> NoJob]]
  /\ phase' = [j \in Jobs |->
                 IF \E k \in Keys : holder[p][k] = j THEN "released" ELSE phase[j]]

Next ==
  \/ \E p \in Procs, k \in Keys, j \in Jobs : Acquire(p, k, j) \/ Yield(p, k, j)
  \/ \E p \in Procs : ProcessDies(p)

Spec == Init /\ [][Next]_vars
=============================================================================
