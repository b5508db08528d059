\* One client that pages through three messages.
SPECIFICATION Spec
CONSTANTS
  k1 = k1
  c1 = c1
  Key = {k1}
  Client = {c1}
  KeyOf <- OnlyKey
  Message = {m1, m2, m3}
  MaxRank = 3
  Limit = 1
  Rate = 1
  Span = 2
  MaxTime = 4
SYMMETRY Symmetry
INVARIANTS
  TwiceAtMost
  WalkIsExact
