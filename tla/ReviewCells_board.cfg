SPECIFICATION Spec
CHECK_DEADLOCK FALSE
CONSTANTS
  Cols = {a}
  Parent <- OneParent
  Opens <- OneOpens
  Manual = {}
  Values = {yes, no}
  Runs = {r1, r2}
  Setters = {s1}
  Lockers = {k1}
  Faults = {"read"}
  NoCol = NoCol
  NoValue = NoValue
  NoCell = NoCell
  a = a
  b = b
  m = m
  yes = yes
  no = no
  r1 = r1
  r2 = r2
  s1 = s1
  k1 = k1
SYMMETRY SymmetryOne
INVARIANT TypeOK
INVARIANT ReadersAgree
PROPERTY LockedStays
PROPERTY OverrideWins
 
