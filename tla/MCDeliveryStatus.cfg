\* A message nobody writes any more is at rest: the system may stop.
CHECK_DEADLOCK FALSE
SPECIFICATION Spec
CONSTANTS
  Whole = Whole
  Recipients = {a1, a2}
  Strangers = {stranger}
  Handlers = {h1, h2}
  MaxReported = 3
SYMMETRY Symmetry
INVARIANTS
  TypeOK
  CoveringStatus
  DeliveredOnEvidence
  PartialOnEvidence
  FailureOnEvidence
  NotLeftQueued
  RollupExactAlone
PROPERTIES
  GoneStaysGone
