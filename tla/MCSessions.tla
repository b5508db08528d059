----------------------------- MODULE MCSessions -----------------------------
(***************************************************************************)
(* Sessions for TLC: one user, whose three requests may overlap.           *)
(***************************************************************************)
EXTENDS Sessions, TLC

Symmetry == Permutations(Request)
=============================================================================
