\* All requests answered, the clock at its bound: the model stops.
CHECK_DEADLOCK FALSE
SPECIFICATION Spec
CONSTANTS
  Requests = {r1, r2}
  Keys = {k1, k2}
  Revocable = {k1}
  Tokens = {t1}
  NoToken = NoToken
  Bodies = {"plain", "other", "malformed", "repeating"}
  Malformed = {"malformed"}
  Repeating = {"repeating"}
  Calls <- TokenCalls
  Digests <- FreshDigests
  Digest <- FreshDigest
  TTL = 1
  Retention = 2
  MaxTime = 3
  NoMessage = NoMessage
PROPERTY ExpiredTokenIsFree
