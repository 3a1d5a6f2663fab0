SPECIFICATION Spec
CHECK_DEADLOCK FALSE
CONSTANTS
  Memories = {m1, m2}
  Names = {ann}
  Orgs = {acme}
  Forgets = {f1}
  Modes = {"sync", "async"}
  MaxGen = 2
  NoMemory = NoMemory
  m1 = m1
  m2 = m2
  ann = ann
  acme = acme
  f1 = f1
SYMMETRY Symmetry
INVARIANT TypeOK
INVARIANT KeptResolves
INVARIANT OneSurvives
PROPERTY CascadeComplete
PROPERTY ForgottenStays
