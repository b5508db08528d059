\* The code does not keep MixedIsPartial: two requests whose statements interleave,
\* or one whose roll-up sendMessage overwrites, leave a stale status behind.
CHECK_DEADLOCK FALSE
SPECIFICATION Spec
CONSTANTS
  Whole = Whole
  Recipients = {a1, a2}
  Strangers = {stranger}
  Handlers = {h1, h2}
  MaxReported = 2
INVARIANTS
  MixedIsPartial
