----------------------------- MODULE MCListing -----------------------------
(***************************************************************************)
(* Listing for TLC: one client that pages through a few messages.          *)
(***************************************************************************)
EXTENDS Listing, TLC

CONSTANTS k1, c1

OnlyKey  == [w \in Client |-> k1]
Symmetry == Permutations(Message)
=============================================================================
