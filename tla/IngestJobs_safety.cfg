SPECIFICATION Spec
CONSTANTS
  Procs = {p1, p2}
  Keys = {c1, f1}
  Corpora = {c1}
  Jobs = {j1, j2, j3}
  MaxFiles = 0
  Faults = {"query", "insert", "reopen", "write", "watch", "sweep"}
  NoJob = NoJob
  NoProc = NoProc
  NoKey = NoKey
  p1 = p1
  p2 = p2
  c1 = c1
  f1 = f1
  j1 = j1
  j2 = j2
  j3 = j3
SYMMETRY Symmetry
INVARIANT TypeOK
INVARIANT OneJobPerKey
INVARIANT OneOpenRowPerProc
PROPERTY StatusOrder
