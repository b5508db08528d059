\* Three requests of one session, whose tokens are renewed up to twice.
SPECIFICATION Spec
CONSTANTS
  Session = {s1}
  Request = {r1, r2, r3}
  MaxToken = 3
SYMMETRY Symmetry
INVARIANTS
  TypeOK
  RefreshIsUsable
  SignOutIsExplained
  ServedIsRenewed
PROPERTIES
  DeletedStaysDeleted
