-------------------------- MODULE MCDeliveryStatus --------------------------
(***************************************************************************)
(* DeliveryStatus with two recipients, one address that is not a           *)
(* recipient, and two telemetry requests at once.                          *)
(***************************************************************************)
EXTENDS DeliveryStatus, TLC

\* Recipients are interchangeable, and so are handlers.
Symmetry == Permutations(Recipients) \cup Permutations(Handlers)
=============================================================================
