---------------------------- MODULE MCIngestJobs ----------------------------
(* Instances of IngestJobs for TLC. *)
EXTENDS IngestJobs, TLC

\* The ids of calls are interchangeable, and so are the server processes.  Not for
\* liveness.
Symmetry == Permutations(Procs) \cup Permutations(Jobs)
=============================================================================
