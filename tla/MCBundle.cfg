\* Two mailctl processes over one directory.  Nobody has to run a further command.
SPECIFICATION Spec
CONSTANTS
  Secret = {s1, s2}
  Credential = {k1, k2}
  None = None
  Installation = {i1}
  Command = {c1, c2}
  MaxCerts = 2
  MaxStarts = 4
SYMMETRY Symmetry
INVARIANTS
  TypeOK
  InstallationIsWhole
  StaysHardened
  RecordedIsServed
PROPERTIES
  ClosedOnceHardened
CHECK_DEADLOCK FALSE
