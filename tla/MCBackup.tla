------------------------------ MODULE MCBackup ------------------------------
(***************************************************************************)
(* Backup for TLC: two volumes, each with a container that writes to it.   *)
(***************************************************************************)
EXTENDS Backup, TLC

CONSTANTS app, mail

TwoVolumes == {app, mail}
Itself     == [v \in Volume |-> v]

Symmetry == Permutations(TwoVolumes) \union Permutations(Command)
=============================================================================
