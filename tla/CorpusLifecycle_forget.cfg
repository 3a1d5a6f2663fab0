\* Two forget calls, an index call, a walk and a review.
SPECIFICATION Spec
CONSTANTS
  Files = {top}
  TopFiles = {top}
  Reviews = {r1}
  Indexers = {i1}
  Forgets = {f1, f2}
  MaxActive = 2
  NoReview = NoReview
SYMMETRY Symmetry
INVARIANT TypeOK
INVARIANT NothingLeft
PROPERTY StillFound
