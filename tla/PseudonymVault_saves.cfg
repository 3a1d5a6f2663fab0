SPECIFICATION Spec
CHECK_DEADLOCK FALSE
CONSTANTS
  Originals = {ann, bob}
  Prefixes = {person}
  MaxId = 3
  Procs = {p1, p2}
  Concurrent = FALSE
  NoToken = NoToken
  NoOriginal = NoOriginal
  NoFile = NoFile
  Broken = Broken
  ann = ann
  bob = bob
  person = person
  p1 = p1
  p2 = p2
SYMMETRY Symmetry
INVARIANT TypeOK
INVARIANT IssuedStays
PROPERTY StoreRefined
INVARIANT ErasedStays
