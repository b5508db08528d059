------------------------------ MODULE Notices -------------------------------
(***************************************************************************)
(* What the outgoing webhooks promise an endpoint, whatever the dispatcher *)
(* does: it is sent a notice that was written down for it, until it is     *)
(* known to have processed it and no longer; and it is sent one again that *)
(* it has processed only if there is doubt.  That it is sent each notice   *)
(* at all is a matter of fairness, and not said here.                      *)
(***************************************************************************)
CONSTANT Notice  \* notices: of an event, to an endpoint

VARIABLES
  owed,       \* written down, and not known to be processed
  settled,    \* written down, and known to be processed
  ever,       \* those that were ever written down
  processed,  \* those the endpoint has processed
  twice,      \* those it has processed more than once
  doubt       \* those of which it may not be known that they are processed

all == <<owed, settled, ever, processed, twice, doubt>>

Init ==
  /\ owed = {} /\ settled = {} /\ ever = {}
  /\ processed = {} /\ twice = {} /\ doubt = {}

\* A notice written down for a second time may have been processed before.
Owe(n) ==
  /\ n \notin owed \cup settled
  /\ owed' = owed \cup {n}
  /\ ever' = ever \cup {n}
  /\ doubt' = IF n \in ever THEN doubt \cup {n} ELSE doubt
  /\ UNCHANGED <<settled, processed, twice>>

\* The endpoint processes a notice, and its answer may be lost.
Process(n) ==
  /\ n \in ever \ settled
  /\ n \in processed => n \in doubt
  /\ processed' = processed \cup {n}
  /\ twice' = IF n \in processed THEN twice \cup {n} ELSE twice
  /\ doubt' \in {doubt, doubt \cup {n}}
  /\ UNCHANGED <<owed, settled, ever>>

\* The answer is written down ...
Settle(n) ==
  /\ n \in owed \cap processed
  /\ owed' = owed \ {n}
  /\ settled' = settled \cup {n}
  /\ UNCHANGED <<ever, processed, twice, doubt>>

\* ... or never will be.
Doubt(n) ==
  /\ n \in processed
  /\ doubt' = doubt \cup {n}
  /\ UNCHANGED <<owed, settled, ever, processed, twice>>

\* Notices are deleted, in whatever state they are.
Withdraw(N) ==
  /\ owed' = owed \ N
  /\ settled' = settled \ N
  /\ UNCHANGED <<ever, processed, twice, doubt>>

Next ==
  \/ \E n \in Notice : Owe(n) \/ Process(n) \/ Settle(n) \/ Doubt(n)
  \/ \E N \in SUBSET Notice : Withdraw(N)

Spec == Init /\ [][Next]_all

\* What is settled was processed, and nothing is processed twice without a doubt.
AgainOnlyInDoubt == settled \subseteq processed /\ twice \subseteq doubt
=============================================================================
