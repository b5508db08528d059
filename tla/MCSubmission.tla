---------------------------- MODULE MCSubmission ----------------------------
(***************************************************************************)
(* Submission for TLC: the two kinds of digest, and the calls made.        *)
(***************************************************************************)
EXTENDS Submission, TLC

\* The code: the MIME message of a request is like no other.
FreshDigests == Requests \X Bodies
FreshDigest  == [r \in Requests |-> [b \in Bodies |-> <<r, b>>]]

\* A digest of what the client sent and nothing else, which is what the store
\* is tested with (store_test.go:53-63).
StableDigests == Bodies
StableDigest  == [r \in Requests |-> [b \in Bodies |-> b]]

\* A token of one key or of another, no token, and a body of each kind.
MixedCalls ==
  [key : Keys, token : Tokens, body : {"plain"}]
  \cup [key : {CHOOSE k \in Keys : TRUE}, token : {NoToken}, body : {"plain"}]
  \cup [key : {CHOOSE k \in Keys : TRUE}, token : Tokens, body : {"malformed", "repeating"}]

\* Requests that can meet in the table of idempotency records: of one key with
\* two contents, and of another key.
TokenCalls ==
  [key : Keys, token : Tokens, body : {"plain"}]
  \cup [key : {CHOOSE k \in Keys : TRUE}, token : Tokens, body : {"other"}]

Symmetry == Permutations(Requests)
=============================================================================
