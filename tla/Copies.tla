------------------------------- MODULE Copies -------------------------------
(***************************************************************************)
(* What mailctl's backup and restore promise about the appliance's data,   *)
(* whatever steps they take: a kept copy is a state the data really had    *)
(* while the copy was being made, and the data are what the appliance made *)
(* of them, or a kept copy, or known to be mixed.  A part that a copy may  *)
(* lack is then left with whatever there was.                              *)
(***************************************************************************)
CONSTANTS
  Dir,       \* names of copies
  Vector,    \* states of the data: the content of each part
  Optional   \* parts that need not exist; their content is then 0

VARIABLES
  live,      \* the data, {v}; {} from when a part was replaced until all were
  held,      \* what has been copied, and may be kept
  kept       \* the copies, {v} or {}

Init ==
  /\ \E v \in Vector : live = {v}
  /\ held = [d \in Dir |-> {}]
  /\ kept = [d \in Dir |-> {}]

\* The appliance, or its operator, changes the data.
Change ==
  /\ live # {} /\ \E v \in live' : v \in Vector /\ live' = {v}
  /\ UNCHANGED <<held, kept>>

Copy(d)   == held' = [held EXCEPT ![d] = live] /\ UNCHANGED <<live, kept>>
Forget(d) == held' = [held EXCEPT ![d] = {}] /\ UNCHANGED <<live, kept>>

Keep(d) ==
  /\ held[d] # {}
  /\ kept' = [kept EXCEPT ![d] = held[d]]
  /\ held' = [held EXCEPT ![d] = {}]
  /\ UNCHANGED live

Mix == live' = {} /\ UNCHANGED <<held, kept>>

\* The copy v, laid over data of which w is what the copy may leave.
Over(v, w) == [p \in DOMAIN v |-> IF p \in Optional /\ v[p] = 0 THEN w[p] ELSE v[p]]

Restore(d) ==
  /\ live = {}
  /\ \E v \in kept[d], w \in Vector : live' = {Over(v, w)}
  /\ UNCHANGED <<held, kept>>

Next ==
  \/ Change \/ Mix
  \/ \E d \in Dir : Copy(d) \/ Forget(d) \/ Keep(d) \/ Restore(d)

Spec == Init /\ [][Next]_<<live, held, kept>>
=============================================================================
