\* Two mailctl processes over two volumes, which may share a directory.
SPECIFICATION Spec
CONSTANTS
  app = app
  mail = mail
  Volume <- TwoVolumes
  Writer <- TwoVolumes
  Owner <- Itself
  Dir = {d1}
  Command = {c1, c2}
  MaxWrites = 2
SYMMETRY Symmetry
INVARIANTS
  TypeOK
  RestoredIsVerified
  ServiceIsBack
PROPERTIES
  CopiesArePromised
