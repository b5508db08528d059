----------------------------- MODULE MCWebhooks -----------------------------
(***************************************************************************)
(* Webhooks for TLC: one endpoint that wants every event, the others only  *)
(* the first; the delay doubles from one tick and stops at two.            *)
(***************************************************************************)
EXTENDS Webhooks

CONSTANTS FirstEvent, Subscriber

ThreeWants == {w \in Events \X Endpoints : w[1] = FirstEvent \/ w[2] = Subscriber}
AllWants   == Events \X Endpoints

Doubling == [n \in 0 .. LastAttempt |-> 2 ^ n]
=============================================================================
