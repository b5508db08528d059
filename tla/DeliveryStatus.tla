--------------------------- MODULE DeliveryStatus ---------------------------
(***************************************************************************)
(* The life of one message in the database after InsertMessage: its row in *)
(* messages, its rows in message_recipients, and everyone who writes them: *)
(*   - sendMessage, which submits the message to the mail server and then  *)
(*     writes "processing" or "failed";                                    *)
(*   - the handlers of internalEvents, one per telemetry request of the    *)
(*     mail server, which write a recipient's state and then, in two more  *)
(*     statements of their own, count the states and write the roll-up;    *)
(*   - the retention cleanup, which deletes the message.                   *)
(* The pool of the database holds one connection (store.go:87), so every   *)
(* statement is one atomic step and any two statements can have those of   *)
(* others between them.  No statement ever touches two messages' rows, but *)
(* for the cleanup, so one message is enough.                              *)
(***************************************************************************)
EXTENDS Rollup

CONSTANTS
  Recipients,  \* addresses the message was submitted to, in lower case
  Strangers,   \* other addresses an event may name
  Handlers,    \* telemetry requests that can be in progress at once
  Whole,       \* what an event without a recipient is about
  MaxReported  \* bound on the different events received

ASSUME RecipientsAssumption ==
  /\ IsFiniteSet(Recipients)
  /\ Recipients # {}
  /\ Recipients \cap Strangers = {}
  /\ Whole \notin Recipients \cup Strangers
  /\ MaxReported \in Nat

\* The events of the mail server, after normalizeEvent.
Events == [to : Recipients \cup Strangers \cup {Whole}, status : EventStatus]

VARIABLES
  row,         \* messages.status, "none" when there is no row
  rcpt,        \* message_recipients.status by address
  submit,      \* where sendMessage is
  sendResult,  \* what Send returned
  handler,     \* where each handler is, the event it is at, its roll-up
  taken,       \* the mail server has the message in its queue
  reported,    \* history: the events received
  overlapped,  \* history: an event was received while another writer was active
  cut          \* history: a write failed, a process died, or an event without
               \* recipient was received

vars == <<row, rcpt, submit, sendResult, handler, taken, reported, overlapped, cut>>

NoEvent == [to |-> Whole, status |-> "queued"]
Idle    == [pc |-> "idle", event |-> NoEvent, verdict |-> "queued"]

TypeOK ==
  /\ row \in MessageStatus \cup {"none"}
  /\ rcpt \in [Recipients -> EventStatus] \cup [{} -> EventStatus]
  /\ submit \in {"sending", "mark", "done"}
  /\ sendResult \in {"none", "ok", "error"}
  /\ handler \in [Handlers -> [pc      : {"idle", "apply", "count", "write"},
                               event   : Events,
                               verdict : MessageStatus]]
  /\ taken \in BOOLEAN
  /\ reported \subseteq Events
  /\ overlapped \in BOOLEAN
  /\ cut \in BOOLEAN

\* InsertMessage has committed and sendMessage is about to call Send.
Init ==
  /\ row = "queued"
  /\ rcpt = [a \in Recipients |-> "queued"]
  /\ submit = "sending"
  /\ sendResult = "none"
  /\ handler = [h \in Handlers |-> Idle]
  /\ taken = FALSE
  /\ reported = {}
  /\ overlapped = FALSE
  /\ cut = FALSE

-----------------------------------------------------------------------------
\* Mistaken: an upsert.
UpsertMessageStatus(s) == row' = s

\* UpdateMessageStatus: an UPDATE, which does nothing when the row is gone.
UpdateMessageStatus(s) == row' = IF row = "none" THEN "none" ELSE s

\* Mistaken: an upsert.
UpsertRecipient(to, s) ==
  rcpt' = [a \in DOMAIN rcpt \cup {to} |-> IF a = to THEN s ELSE rcpt[a]]

\* Mistaken: no condition on the address.
UpdateEveryRecipient(to, s) == rcpt' = [a \in DOMAIN rcpt |-> s]

\* The statement of UpdateRecipient: nothing for an address without a row.
UpdateRecipient(to, s) ==
  rcpt' = [a \in DOMAIN rcpt |-> IF a = to THEN s ELSE rcpt[a]]

Busy(h) == handler[h].pc # "idle"
AtRest  == submit = "done" /\ \A h \in Handlers : ~Busy(h)

-----------------------------------------------------------------------------
\* The mail server confirms the end of DATA: the message is in its queue, and
\* its events about the message may arrive before Send has returned.
Take ==
  /\ submit = "sending"
  /\ ~taken
  /\ taken' = TRUE
  /\ UNCHANGED <<row, rcpt, submit, sendResult, handler, reported, overlapped, cut>>

\* Send returns. It returns without an error only if the mail server took the
\* message, and may return one although it did: that of QUIT, after DATA.
SendReturns ==
  /\ submit = "sending"
  /\ sendResult' \in IF taken THEN {"ok", "error"} ELSE {"error"}
  /\ submit' = "mark"
  /\ UNCHANGED <<row, rcpt, handler, taken, reported, overlapped, cut>>

\* Mistaken: only a failure is written.
MarkFailureOnly(lost) ==
  /\ submit = "mark"
  /\ submit' = "done"
  /\ IF lost \/ sendResult = "ok" THEN UNCHANGED row ELSE UpdateMessageStatus("failed")
  /\ cut' = (cut \/ lost)
  /\ UNCHANGED <<rcpt, sendResult, handler, taken, reported, overlapped>>

\* sendMessage writes what Send returned. The write, whose error is ignored,
\* fails when the client has closed the connection: lost.
Mark(lost) ==
  /\ submit = "mark"
  /\ submit' = "done"
  /\ IF lost THEN UNCHANGED row
     ELSE UpdateMessageStatus(IF sendResult = "ok" THEN "processing" ELSE "failed")
  /\ cut' = (cut \/ lost)
  /\ UNCHANGED <<rcpt, sendResult, handler, taken, reported, overlapped>>

\* A handler of internalEvents reaches an event of its request that is about
\* this message. Requests may be repeated, delayed and in any order.
Receive(h, e) ==
  /\ taken
  /\ ~Busy(h)
  /\ handler' = [handler EXCEPT ![h] = [Idle EXCEPT !.pc = "apply", !.event = e]]
  /\ reported' = reported \cup {e} /\ Cardinality(reported') <= MaxReported
  /\ overlapped' = (overlapped \/ ~AtRest)
  /\ cut' = (cut \/ e.to = Whole)
  /\ UNCHANGED <<row, rcpt, submit, sendResult, taken>>

\* An event without a recipient is written to the message.
ApplyWhole(h) ==
  /\ handler[h].pc = "apply"
  /\ handler[h].event.to = Whole
  /\ UpdateMessageStatus(handler[h].event.status)
  /\ handler' = [handler EXCEPT ![h] = Idle]
  /\ UNCHANGED <<rcpt, submit, sendResult, taken, reported, overlapped, cut>>

\* Mistaken: no roll-up follows.
ApplyRecipientOnly(h) ==
  /\ handler[h].pc = "apply"
  /\ handler[h].event.to # Whole
  /\ UpdateRecipient(handler[h].event.to, handler[h].event.status)
  /\ handler' = [handler EXCEPT ![h] = Idle]
  /\ UNCHANGED <<row, submit, sendResult, taken, reported, overlapped, cut>>

\* An event with a recipient is written to the recipient, if there is one of
\* that address; the roll-up follows in either case.
ApplyRecipient(h) ==
  /\ handler[h].pc = "apply"
  /\ handler[h].event.to # Whole
  /\ UpdateRecipient(handler[h].event.to, handler[h].event.status)
  /\ handler' = [handler EXCEPT ![h].pc = "count"]
  /\ UNCHANGED <<row, submit, sendResult, taken, reported, overlapped, cut>>

\* The SELECT of recalculate and the switch over what it returned.
CountStates(h) ==
  /\ handler[h].pc = "count"
  /\ handler' = [handler EXCEPT ![h].pc = "write", ![h].verdict = Recalculate(rcpt)]
  /\ UNCHANGED <<row, rcpt, submit, sendResult, taken, reported, overlapped, cut>>

\* The UPDATE of recalculate.
WriteRollup(h) ==
  /\ handler[h].pc = "write"
  /\ UpdateMessageStatus(handler[h].verdict)
  /\ handler' = [handler EXCEPT ![h] = Idle]
  /\ UNCHANGED <<rcpt, submit, sendResult, taken, reported, overlapped, cut>>

\* A statement of a handler fails, because its client is gone or the database
\* says so: the rest of the event's statements are not tried, and the error is
\* ignored.
Abandon(h) ==
  /\ Busy(h)
  /\ handler' = [handler EXCEPT ![h] = Idle]
  /\ cut' = TRUE
  /\ UNCHANGED <<row, rcpt, submit, sendResult, taken, reported, overlapped>>

\* The cleanup deletes the message, and its recipients with it.
Cleanup ==
  /\ row # "none"
  /\ row' = "none"
  /\ rcpt' = [a \in {} |-> "queued"]
  /\ UNCHANGED <<submit, sendResult, handler, taken, reported, overlapped, cut>>

\* The process dies. The database and the mail server keep what they have.
Crash ==
  /\ ~AtRest
  /\ submit' = "done"
  /\ handler' = [h \in Handlers |-> Idle]
  /\ cut' = TRUE
  /\ UNCHANGED <<row, rcpt, sendResult, taken, reported, overlapped>>

Next ==
  \/ Take
  \/ SendReturns
  \/ \E lost \in BOOLEAN : Mark(lost)
  \/ \E h \in Handlers, e \in Events : Receive(h, e)
  \/ \E h \in Handlers : \/ ApplyWhole(h)
                         \/ ApplyRecipient(h)
                         \/ CountStates(h)
                         \/ WriteRollup(h)
                         \/ Abandon(h)
  \/ Cleanup
  \/ Crash

Spec == Init /\ [][Next]_vars

-----------------------------------------------------------------------------
Said(a, s) == [to |-> a, status |-> s] \in reported

(***************************************************************************)
(* A message is "delivered" only on evidence: an event said so of the      *)
(* whole message, or an event said so of every recipient, however the      *)
(* handlers' statements interleaved. (They may have said other things of   *)
(* them since: events come in any order.)                                  *)
(***************************************************************************)
DeliveredOnEvidence ==
  row = "delivered" =>
    \/ Said(Whole, "delivered")
    \/ \A a \in Recipients : Said(a, "delivered")

(***************************************************************************)
(* "partial" needs two recipients: one reported delivered and another one  *)
(* reported bounced or failed. No event can say it, and a single recipient *)
(* that was delivered and then bounced is not it.                          *)
(***************************************************************************)
PartialOnEvidence ==
  row = "partial" =>
    \E a, b \in Recipients :
      a # b /\ Said(a, "delivered") /\ (Said(b, "bounced") \/ Said(b, "failed"))

(***************************************************************************)
(* A message is "failed" only because Send returned an error or an event   *)
(* said so, and "bounced" only because an event said so: of the message,   *)
(* or of every one of its recipients.                                      *)
(***************************************************************************)
FailureOnEvidence ==
  \A s \in {"failed", "bounced"} :
    row = s => \/ s = "failed" /\ sendResult = "error"
               \/ Said(Whole, s)
               \/ \A a \in Recipients : Said(a, s)

\* Whatever states events have left the recipients in, or the cleanup, the
\* counting switch of recalculate gives the one status that covers them.
CoveringStatus == RollupIsCovering(rcpt)

(***************************************************************************)
(* Once nobody is working on a message it is not "queued", unless a write  *)
(* or a process was cut short or an event put it back: one that says       *)
(* "queued", or one about an address the message was never sent to, for    *)
(* which the untouched recipients are counted again.                       *)
(***************************************************************************)
NotLeftQueued ==
  AtRest /\ ~cut /\ row = "queued" =>
    \E e \in reported : e.status = "queued" \/ e.to \in Strangers

(***************************************************************************)
(* When the events about the recipients came one after the other, after    *)
(* sendMessage was done, and none was cut short, the status of the message *)
(* is the roll-up of the states of its recipients.                         *)
(***************************************************************************)
RollupExactAlone ==
  AtRest /\ ~cut /\ ~overlapped /\ reported # {} /\ row # "none" =>
    row = Recalculate(rcpt)

(***************************************************************************)
(* What the test of store_test.go:64-73 says: after an event that one      *)
(* recipient's copy was delivered and one that another's bounced, the      *)
(* message is "partial". The test makes the two calls one after the other; *)
(* when the events overlap each other or sendMessage, the code does not    *)
(* keep it: a roll-up counted before the second event, or the "processing" *)
(* of sendMessage, can be the last write.                                  *)
(***************************************************************************)
MixedIsPartial ==
  /\ AtRest /\ ~cut /\ row # "none" /\ sendResult = "ok"
  /\ \E a, b \in Recipients : rcpt[a] = "delivered" /\ rcpt[b] = "bounced"
  => row = "partial"

(***************************************************************************)
(* A message the cleanup deleted is not brought back, nor its recipients,  *)
(* by a handler that was at work on it.                                    *)
(***************************************************************************)
GoneStaysGone == [][row = "none" => row' = "none" /\ rcpt' = rcpt]_vars
=============================================================================
