SPECIFICATION FairSpec
CONSTANTS
  Procs = {p1, p2}
  Keys = {c1}
  Corpora = {c1}
  Jobs = {j1, j2}
  MaxFiles = 1
  Faults = {"insert"}
  NoJob = NoJob
  NoProc = NoProc
  NoKey = NoKey
  p1 = p1
  p2 = p2
  c1 = c1
  j1 = j1
  j2 = j2
INVARIANT ClaimHasOwner
 
INVARIANT ProgressWithinWalk
PROPERTY ClaimsRefined
PROPERTY RunningSettles
PROPERTY ClaimReleased
