SPECIFICATION Spec
CHECK_DEADLOCK FALSE
CONSTANTS
  Paths = {1}
  Contents = {v1, v2}
  Walks = {w1, w2}
  Forgets = {f1}
  MaxAttempts = 2
  DrainMax = 1
  Overlap = FALSE
  Reuse = FALSE
  NoFile = NoFile
  NoDoc = NoDoc
  v1 = v1
  v2 = v2
  w1 = w1
  w2 = w2
  f1 = f1
SYMMETRY Symmetry
INVARIANT TypeOK
INVARIANT OneDocPerPath
INVARIANT RetryFindsAll
PROPERTY WalkIndexes
