SPECIFICATION Spec
CHECK_DEADLOCK FALSE
CONSTANTS
  Sources = {s1}
  Files = {1, 2}
  Contents = {v1, v2}
  MaxFiles = 2
  Syncs = {c1, c2}
  Regs = {g1, g2}
  Forgets = {d1}
  Overlap = FALSE
  Reuse = FALSE
  NoFile = NoFile
  NoSource = NoSource
  s1 = s1
  v1 = v1
  v2 = v2
  c1 = c1
  c2 = c2
  g1 = g1
  g2 = g2
  d1 = d1
SYMMETRY Symmetry
INVARIANT TypeOK
INVARIANT OrphanIsRaced
PROPERTY SyncShowsFile
PROPERTY ScopesRefined
