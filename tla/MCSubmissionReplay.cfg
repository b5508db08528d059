\* All requests answered, the clock at its bound: the model stops.
CHECK_DEADLOCK FALSE
SPECIFICATION Spec
CONSTANTS
  Requests = {r1, r2}
  Keys = {k1, k2}
  Revocable = {}
  Tokens = {t1}
  NoToken = NoToken
  Bodies = {"plain", "other", "malformed", "repeating"}
  Malformed = {"malformed"}
  Repeating = {"repeating"}
  Calls <- TokenCalls
  Digests <- StableDigests
  Digest <- StableDigest
  TTL = 1
  Retention = 0
  MaxTime = 1
  NoMessage = NoMessage
SYMMETRY Symmetry
INVARIANTS
  ReceiptIsOwn
PROPERTIES
  ReceiptsArePromised
