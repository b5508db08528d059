------------------------------ MODULE MCBundle ------------------------------
(***************************************************************************)
(* Bundle for TLC: two mailctl processes, two secrets, two credentials.    *)
(***************************************************************************)
EXTENDS Bundle, TLC

Symmetry == Permutations(Secret) \union Permutations(Credential)
              \union Permutations(Installation) \union Permutations(Command)
=============================================================================
