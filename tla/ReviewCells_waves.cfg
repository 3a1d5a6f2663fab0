SPECIFICATION FairSpec
CHECK_DEADLOCK FALSE
CONSTANTS
  Cols = {a, b, m}
  Parent <- ChainParent
  Opens <- ChainOpens
  Manual = {m}
  Values = {yes, no}
  Runs = {r1}
  Setters = {s1}
  Lockers = {}
  Faults = {}
  NoCol = NoCol
  NoValue = NoValue
  NoCell = NoCell
  a = a
  b = b
  m = m
  yes = yes
  no = no
  r1 = r1
  s1 = s1
INVARIANT GateHeld
PROPERTY RunEnds
