----------------------- MODULE DeliveryStatusTheorems -----------------------
(***************************************************************************)
(* Proofs about DeliveryStatus, for any number of recipients, of telemetry *)
(* requests at once and of events.                                         *)
(***************************************************************************)
EXTENDS DeliveryStatus, RollupTheorems

-----------------------------------------------------------------------------
(***************************************************************************)
(* The inductive invariant.  A status is backed when events account for    *)
(* it. The invariants of the specification speak of the message's row      *)
(* only; for them to be kept, what will be written to the row must be      *)
(* backed already: the roll-up a handler holds between its SELECT and its  *)
(* UPDATE, which the recipients' rows it was counted from back in turn.    *)
(***************************************************************************)
Backed(s) ==
  /\ s = "delivered" => \A a \in Recipients : Said(a, "delivered")
  /\ s = "partial" => \E a, b \in Recipients :
                        a # b /\ Said(a, "delivered") /\ (Said(b, "bounced") \/ Said(b, "failed"))
  /\ s \in {"failed", "bounced"} => \A a \in Recipients : Said(a, s)

EventsReceived    == \A h \in Handlers : Busy(h) => handler[h].event \in reported
RecipientsBacked  == \A a \in DOMAIN rcpt : rcpt[a] # "queued" => Said(a, rcpt[a])
VerdictsBacked    == \A h \in Handlers :
                       handler[h].pc = "write" /\ row # "none" => Backed(handler[h].verdict)
RowBacked         == DeliveredOnEvidence /\ PartialOnEvidence /\ FailureOnEvidence
SendOnce          == /\ submit = "sending" => sendResult = "none"
                     /\ submit = "mark" => sendResult # "none"
RecipientsOfRow   == row # "none" => rcpt \in [Recipients -> EventStatus]

EvidenceInv ==
  /\ TypeOK
  /\ EventsReceived
  /\ RecipientsBacked
  /\ VerdictsBacked
  /\ RowBacked
  /\ SendOnce
  /\ RecipientsOfRow

-----------------------------------------------------------------------------
LEMMA IdleHandler == Idle \in [pc : {"idle"}, event : Events, verdict : MessageStatus]
BY DEF Idle, NoEvent, Events, MessageStatus, EventStatus

\* The recipients' rows are a table the lemmas on recalculate apply to.
LEMMA RecipientTable ==
  ASSUME TypeOK
  PROVE  /\ Table(rcpt)
         /\ Recalculate(rcpt) \in MessageStatus
<1>1. DOMAIN rcpt = Recipients \/ DOMAIN rcpt = {}
  BY DEF TypeOK
<1>2. IsFiniteSet(DOMAIN rcpt)
  BY <1>1, RecipientsAssumption, FS_EmptySet
<1>3. \A a \in DOMAIN rcpt : rcpt[a] \in EventStatus
  BY DEF TypeOK
<1>4. Recalculate(rcpt) \in MessageStatus
  BY DEF Recalculate, MessageStatus, EventStatus
<1> QED
  BY <1>2, <1>3, <1>4 DEF Table

\* Every variable keeps its type.
LEMMA TypeOKInductive == TypeOK /\ [Next]_vars => TypeOK'
<1> SUFFICES ASSUME TypeOK, [Next]_vars PROVE TypeOK'
  OBVIOUS
<1> USE DEF TypeOK
<1>1. CASE Take
  BY <1>1 DEF Take
<1>2. CASE SendReturns
  BY <1>2 DEF SendReturns
<1>3. ASSUME NEW lost \in BOOLEAN, Mark(lost) PROVE TypeOK'
  BY <1>3 DEF Mark, UpdateMessageStatus, MessageStatus, EventStatus
<1>4. ASSUME NEW h \in Handlers, NEW e \in Events, Receive(h, e) PROVE TypeOK'
  <2>1. [Idle EXCEPT !.pc = "apply", !.event = e]
          \in [pc : {"apply"}, event : Events, verdict : MessageStatus]
    BY IdleHandler
  <2> QED
    BY <1>4, <2>1 DEF Receive
<1>5. ASSUME NEW h \in Handlers, ApplyWhole(h) PROVE TypeOK'
  <2>1. handler[h].event.status \in MessageStatus
    BY DEF Events, MessageStatus
  <2> QED
    BY <1>5, <2>1, IdleHandler DEF ApplyWhole, UpdateMessageStatus
<1>6. ASSUME NEW h \in Handlers, ApplyRecipient(h) PROVE TypeOK'
  <2>1. handler[h].event.status \in EventStatus
    BY DEF Events
  <2>2. rcpt' \in [Recipients -> EventStatus] \cup [{} -> EventStatus]
    BY <1>6, <2>1 DEF ApplyRecipient, UpdateRecipient
  <2> QED
    BY <1>6, <2>2 DEF ApplyRecipient
<1>7. ASSUME NEW h \in Handlers, CountStates(h) PROVE TypeOK'
  BY <1>7, RecipientTable DEF CountStates
<1>8. ASSUME NEW h \in Handlers, WriteRollup(h) PROVE TypeOK'
  BY <1>8, IdleHandler DEF WriteRollup, UpdateMessageStatus
<1>9. ASSUME NEW h \in Handlers, Abandon(h) PROVE TypeOK'
  BY <1>9, IdleHandler DEF Abandon
<1>10. CASE Cleanup
  BY <1>10 DEF Cleanup, EventStatus
<1>11. CASE Crash
  BY <1>11, IdleHandler DEF Crash
<1>12. CASE UNCHANGED vars
  BY <1>12 DEF vars
<1> QED
  BY <1>1, <1>2, <1>3, <1>4, <1>5, <1>6, <1>7, <1>8, <1>9, <1>10, <1>11, <1>12 DEF Next

LEMMA InitTypeOK == Init => TypeOK
<1> SUFFICES ASSUME Init PROVE TypeOK
  OBVIOUS
<1>1. handler \in [Handlers -> [pc      : {"idle", "apply", "count", "write"},
                               event   : Events,
                               verdict : MessageStatus]]
  BY IdleHandler DEF Init
<1>2. rcpt \in [Recipients -> EventStatus]
  BY DEF Init, EventStatus
<1> QED
  BY <1>1, <1>2 DEF Init, TypeOK, MessageStatus, EventStatus

THEOREM TypeCorrect == Spec => []TypeOK
<1>1. Init => TypeOK
  BY InitTypeOK
<1> QED
  BY <1>1, TypeOKInductive, PTL DEF Spec

\* recalculate leaves no state of the recipients' rows to two of its cases or
\* to none, whichever events came and whether the rows are still there.
THEOREM CoveringStatusCorrect == Spec => []CoveringStatus
<1>1. TypeOK => CoveringStatus
  BY RecipientTable, RecalculateCovers DEF CoveringStatus
<1> QED
  BY <1>1, TypeCorrect, PTL

-----------------------------------------------------------------------------
(***************************************************************************)
(* What the SELECT of recalculate returns is a snapshot of one moment: a   *)
(* roll-up counted from rows that events account for is accounted for.     *)
(***************************************************************************)
LEMMA CountedVerdictBacked ==
  ASSUME TypeOK, RecipientsBacked, rcpt \in [Recipients -> EventStatus]
  PROVE  Backed(Recalculate(rcpt))
<1> DEFINE v == Recalculate(rcpt)
<1>1. \A s \in MessageStatus : Covers(s, Seen(rcpt)) <=> s = v
  BY RecipientTable, RecalculateCovers DEF RollupIsCovering
<1>2. v \in MessageStatus
  BY RecipientTable
<1>3. Covers(v, Seen(rcpt))
  BY <1>1, <1>2
<1> HIDE DEF v
<1>4. ASSUME NEW s \in {"delivered", "failed", "bounced"}, v = s
      PROVE  \A a \in Recipients : Said(a, s)
  <2>1. Seen(rcpt) = {s}
    BY <1>3, <1>4 DEF Covers
  <2>2. \A a \in Recipients : rcpt[a] = s
    BY <2>1 DEF Seen
  <2> QED
    BY <2>2 DEF RecipientsBacked
<1>5. ASSUME v = "partial"
      PROVE  \E a, b \in Recipients :
               a # b /\ Said(a, "delivered") /\ (Said(b, "bounced") \/ Said(b, "failed"))
  <2>1. "delivered" \in Seen(rcpt) /\ Seen(rcpt) \cap {"bounced", "failed"} # {}
    BY <1>3, <1>5 DEF Covers
  <2>2. PICK a \in Recipients : rcpt[a] = "delivered"
    BY <2>1 DEF Seen
  <2>3. PICK b \in Recipients : rcpt[b] \in {"bounced", "failed"}
    BY <2>1 DEF Seen
  <2>4. a # b /\ Said(a, "delivered") /\ (Said(b, "bounced") \/ Said(b, "failed"))
    BY <2>2, <2>3 DEF RecipientsBacked
  <2> QED
    BY <2>4
<1> QED
  BY <1>4, <1>5 DEF Backed, v

\* Events are never taken back, so that what they backed stays backed.
LEMMA BackedStable ==
  ASSUME reported \subseteq reported', NEW s, Backed(s)
  PROVE  Backed(s)'
BY DEF Backed, Said

\* What can be written to the row, so that it stays backed.
LEMMA WriteBacked ==
  ASSUME RowBacked, reported \subseteq reported',
         sendResult = "error" => sendResult' = "error",
         \/ row' \in {row, "none", "processing"}
         \/ Backed(row')
         \/ row' \in EventStatus /\ Said(Whole, row')
         \/ row' = "failed" /\ sendResult = "error"
  PROVE  RowBacked'
<1>1. DeliveredOnEvidence'
  BY DEF RowBacked, DeliveredOnEvidence, Backed, Said
<1>2. PartialOnEvidence'
  BY DEF RowBacked, PartialOnEvidence, Backed, Said, EventStatus
<1>3. FailureOnEvidence'
  BY DEF RowBacked, FailureOnEvidence, Backed, Said
<1> QED
  BY <1>1, <1>2, <1>3 DEF RowBacked

\* A handler that lets go of its event has nothing to account for.
LEMMA FreedHandler ==
  ASSUME EventsReceived, VerdictsBacked, NEW h \in Handlers,
         \A k \in Handlers : handler'[k] = IF k = h THEN Idle ELSE handler[k],
         reported' = reported, row' # "none" => row # "none"
  PROVE  EventsReceived' /\ VerdictsBacked'
<1>1. \A k \in Handlers : handler'[k].pc # "idle" => handler'[k] = handler[k]
  BY DEF Idle
<1>2. EventsReceived'
  BY <1>1 DEF EventsReceived, Busy
<1>3. ASSUME NEW k \in Handlers, handler'[k].pc = "write", row' # "none"
      PROVE  Backed(handler[k].verdict)'
  <2>1. handler'[k] = handler[k]
    BY <1>1, <1>3
  <2>2. Backed(handler[k].verdict)
    BY <1>3, <2>1 DEF VerdictsBacked
  <2> QED
    BY <2>1, <2>2 DEF Backed, Said
<1> QED
  BY <1>2, <1>3 DEF VerdictsBacked

-----------------------------------------------------------------------------
LEMMA EvidenceInitial == Init => EvidenceInv
<1> SUFFICES ASSUME Init PROVE EvidenceInv
  OBVIOUS
<1>1. TypeOK
  BY InitTypeOK
<1>2. EventsReceived /\ VerdictsBacked
  BY DEF Init, EventsReceived, VerdictsBacked, Busy, Idle
<1>3. RecipientsBacked /\ RecipientsOfRow /\ SendOnce
  BY DEF Init, RecipientsBacked, RecipientsOfRow, SendOnce, EventStatus
<1>4. RowBacked
  BY DEF Init, RowBacked, DeliveredOnEvidence, PartialOnEvidence, FailureOnEvidence
<1> QED
  BY <1>1, <1>2, <1>3, <1>4 DEF EvidenceInv

(***************************************************************************)
(* Every step keeps the evidence.  The steps of a handler matter: the      *)
(* others write no recipient and no roll-up.                               *)
(***************************************************************************)
LEMMA EvidenceInductive == EvidenceInv /\ [Next]_vars => EvidenceInv'
<1> SUFFICES ASSUME EvidenceInv, [Next]_vars PROVE EvidenceInv'
  OBVIOUS
<1>0. TypeOK /\ TypeOK'
  BY TypeOKInductive DEF EvidenceInv
<1>once. SendOnce'
  BY DEF EvidenceInv, SendOnce, TypeOK, Next, vars, Take, SendReturns, Mark, Receive, ApplyWhole,
         ApplyRecipient, CountStates, WriteRollup, Abandon, Cleanup, Crash
<1>1. CASE Take \/ SendReturns \/ UNCHANGED vars
  <2>1. UNCHANGED <<row, rcpt, handler, reported>> /\ (sendResult = "error" => sendResult' = "error")
    BY <1>1 DEF Take, SendReturns, vars, EvidenceInv, SendOnce
  <2>2. RowBacked'
    BY <2>1, WriteBacked DEF EvidenceInv
  <2> QED
    BY <1>0, <1>once, <2>1, <2>2
    DEF EvidenceInv, EventsReceived, RecipientsBacked, VerdictsBacked, RecipientsOfRow,
        Backed, Said, Busy
<1>2. ASSUME NEW lost \in BOOLEAN, Mark(lost) PROVE EvidenceInv'
  <2>1. UNCHANGED <<rcpt, handler, reported, sendResult>>
    BY <1>2 DEF Mark
  <2>2. row' \in {row, "none", "processing"} \/ (row' = "failed" /\ sendResult = "error")
    BY <1>0, <1>2 DEF Mark, UpdateMessageStatus, EvidenceInv, SendOnce, TypeOK
  <2>3. RowBacked'
    BY <2>1, <2>2, WriteBacked DEF EvidenceInv
  <2>4. row' # "none" => row # "none"
    BY <1>2 DEF Mark, UpdateMessageStatus
  <2> QED
    BY <1>0, <1>once, <2>1, <2>3, <2>4
    DEF EvidenceInv, EventsReceived, RecipientsBacked, VerdictsBacked, RecipientsOfRow,
        Backed, Said, Busy
<1>3. ASSUME NEW h \in Handlers, NEW e \in Events, Receive(h, e) PROVE EvidenceInv'
  <2>1. /\ UNCHANGED <<row, rcpt, sendResult>>
        /\ reported' = reported \cup {e}
        /\ \A k \in Handlers : IF k = h THEN handler'[k].event = e /\ handler'[k].pc = "apply"
                                        ELSE handler'[k] = handler[k]
    BY <1>0, <1>3, IdleHandler DEF Receive, TypeOK
  <2>2. RowBacked'
    BY <2>1, WriteBacked DEF EvidenceInv
  <2>3. EventsReceived'
    BY <2>1 DEF EvidenceInv, EventsReceived, Busy
  <2>4. VerdictsBacked'
    BY <2>1, BackedStable DEF EvidenceInv, VerdictsBacked, Backed, Said
  <2> QED
    BY <1>0, <1>once, <2>1, <2>2, <2>3, <2>4
    DEF EvidenceInv, RecipientsBacked, RecipientsOfRow, Said
<1>4. ASSUME NEW h \in Handlers, ApplyWhole(h) PROVE EvidenceInv'
  <2> DEFINE s == handler[h].event.status
  <2>1. s \in EventStatus /\ handler[h].event = [to |-> Whole, status |-> s]
    BY <1>0, <1>4 DEF ApplyWhole, TypeOK, Events
  <2>2. Said(Whole, s)
    BY <1>4, <2>1 DEF ApplyWhole, EvidenceInv, EventsReceived, Busy, Said
  <2>3. row' \in {row, "none"} \/ (row' \in EventStatus /\ Said(Whole, row'))
    BY <1>4, <2>1, <2>2 DEF ApplyWhole, UpdateMessageStatus
  <2>4. UNCHANGED <<rcpt, sendResult, reported>> /\ (row' # "none" => row # "none")
    BY <1>4 DEF ApplyWhole, UpdateMessageStatus
  <2>5. RowBacked'
    BY <2>3, <2>4, WriteBacked DEF EvidenceInv
  <2>6. \A k \in Handlers : handler'[k] = IF k = h THEN Idle ELSE handler[k]
    BY <1>0, <1>4 DEF ApplyWhole, TypeOK
  <2> HIDE DEF s
  <2>7. EventsReceived' /\ VerdictsBacked'
    BY <2>4, <2>6, FreedHandler DEF EvidenceInv
  <2> QED
    BY <1>0, <1>once, <2>4, <2>5, <2>7
    DEF EvidenceInv, RecipientsBacked, RecipientsOfRow, Said
<1>5. ASSUME NEW h \in Handlers, ApplyRecipient(h) PROVE EvidenceInv'
  <2> DEFINE ev == handler[h].event
  <2>1. ev \in reported /\ ev \in Events
    BY <1>0, <1>5 DEF ApplyRecipient, EvidenceInv, EventsReceived, Busy, TypeOK
  <2>2. Said(ev.to, ev.status)
    BY <2>1 DEF Said, Events
  <2>3. /\ DOMAIN rcpt' = DOMAIN rcpt
        /\ \A a \in DOMAIN rcpt : rcpt'[a] = IF a = ev.to THEN ev.status ELSE rcpt[a]
    BY <1>5 DEF ApplyRecipient, UpdateRecipient
  <2>4. UNCHANGED <<row, sendResult, reported>>
    BY <1>5 DEF ApplyRecipient
  <2>5. \A k \in Handlers : /\ handler'[k].pc = IF k = h THEN "count" ELSE handler[k].pc
                            /\ handler'[k].event = handler[k].event
                            /\ handler'[k].verdict = handler[k].verdict
    BY <1>0, <1>5 DEF ApplyRecipient, TypeOK
  <2>6. RecipientsBacked'
    BY <2>2, <2>3, <2>4 DEF EvidenceInv, RecipientsBacked, Said
  <2>7. RecipientsOfRow'
    <3>1. ev.status \in EventStatus
      BY <2>1 DEF Events
    <3> QED
      BY <1>5, <2>4, <3>1 DEF ApplyRecipient, UpdateRecipient, EvidenceInv, RecipientsOfRow
  <2>8. RowBacked'
    BY <2>4, WriteBacked DEF EvidenceInv
  <2>9. EventsReceived'
    BY <1>5, <2>4, <2>5 DEF EvidenceInv, EventsReceived, Busy, ApplyRecipient
  <2>10. VerdictsBacked'
    BY <2>4, <2>5 DEF EvidenceInv, VerdictsBacked, Backed, Said
  <2> QED
    BY <1>0, <1>once, <2>6, <2>7, <2>8, <2>9, <2>10 DEF EvidenceInv
<1>6. ASSUME NEW h \in Handlers, CountStates(h) PROVE EvidenceInv'
  <2>1. UNCHANGED <<row, rcpt, sendResult, reported>>
    BY <1>6 DEF CountStates
  <2>2. row # "none" => Backed(Recalculate(rcpt))
    BY <1>0, CountedVerdictBacked DEF EvidenceInv, RecipientsOfRow
  <2>3. \A k \in Handlers :
          /\ handler'[k].pc = IF k = h THEN "write" ELSE handler[k].pc
          /\ handler'[k].event = handler[k].event
          /\ handler'[k].verdict = IF k = h THEN Recalculate(rcpt) ELSE handler[k].verdict
    BY <1>0, <1>6 DEF CountStates, TypeOK
  <2>4. VerdictsBacked'
    BY <2>1, <2>2, <2>3 DEF EvidenceInv, VerdictsBacked, Backed, Said
  <2>5. RowBacked'
    BY <2>1, WriteBacked DEF EvidenceInv
  <2>6. EventsReceived'
    BY <1>6, <2>1, <2>3 DEF EvidenceInv, EventsReceived, Busy, CountStates
  <2> QED
    BY <1>0, <1>once, <2>1, <2>4, <2>5, <2>6 DEF EvidenceInv, RecipientsBacked, RecipientsOfRow, Said
<1>7. ASSUME NEW h \in Handlers, WriteRollup(h) PROVE EvidenceInv'
  <2>1. UNCHANGED <<rcpt, sendResult, reported>> /\ (row' # "none" => row # "none")
    BY <1>7 DEF WriteRollup, UpdateMessageStatus
  <2>2. row' = "none" \/ Backed(row')
    BY <1>7 DEF WriteRollup, UpdateMessageStatus, EvidenceInv, VerdictsBacked
  <2>3. RowBacked'
    BY <2>1, <2>2, WriteBacked DEF EvidenceInv
  <2>4. \A k \in Handlers : handler'[k] = IF k = h THEN Idle ELSE handler[k]
    BY <1>0, <1>7 DEF WriteRollup, TypeOK
  <2>5. EventsReceived' /\ VerdictsBacked'
    BY <2>1, <2>4, FreedHandler DEF EvidenceInv
  <2> QED
    BY <1>0, <1>once, <2>1, <2>3, <2>5
    DEF EvidenceInv, RecipientsBacked, RecipientsOfRow, Said
<1>8. ASSUME NEW h \in Handlers, Abandon(h) PROVE EvidenceInv'
  <2>1. UNCHANGED <<row, rcpt, sendResult, reported>>
    BY <1>8 DEF Abandon
  <2>2. RowBacked'
    BY <2>1, WriteBacked DEF EvidenceInv
  <2>3. \A k \in Handlers : handler'[k] = IF k = h THEN Idle ELSE handler[k]
    BY <1>0, <1>8 DEF Abandon, TypeOK
  <2>4. EventsReceived' /\ VerdictsBacked'
    BY <2>1, <2>3, FreedHandler DEF EvidenceInv
  <2> QED
    BY <1>0, <1>once, <2>1, <2>2, <2>4
    DEF EvidenceInv, RecipientsBacked, RecipientsOfRow, Said
<1>9. CASE Cleanup
  <2>1. UNCHANGED <<handler, sendResult, reported>> /\ row' = "none" /\ DOMAIN rcpt' = {}
    BY <1>9 DEF Cleanup
  <2>2. RowBacked'
    BY <2>1, WriteBacked DEF EvidenceInv
  <2>3. EventsReceived'
    BY <2>1 DEF EvidenceInv, EventsReceived, Busy
  <2>4. RecipientsBacked' /\ VerdictsBacked' /\ RecipientsOfRow'
    BY <2>1 DEF RecipientsBacked, VerdictsBacked, RecipientsOfRow
  <2> QED
    BY <1>0, <1>once, <2>2, <2>3, <2>4 DEF EvidenceInv
<1>10. CASE Crash
  <2>1. /\ UNCHANGED <<row, rcpt, sendResult, reported>>
        /\ \A k \in Handlers : handler'[k] = Idle
    BY <1>10 DEF Crash
  <2>2. RowBacked'
    BY <2>1, WriteBacked DEF EvidenceInv
  <2>3. EventsReceived' /\ VerdictsBacked'
    BY <2>1 DEF EventsReceived, VerdictsBacked, Busy, Idle
  <2> QED
    BY <1>0, <1>once, <2>1, <2>2, <2>3
    DEF EvidenceInv, RecipientsBacked, RecipientsOfRow, Said
<1> QED
  BY <1>1, <1>2, <1>3, <1>4, <1>5, <1>6, <1>7, <1>8, <1>9, <1>10 DEF Next

(***************************************************************************)
(* A message is reported delivered, partial, failed or bounced only on the *)
(* evidence of events or of Send, however the statements of the handlers   *)
(* of events, of sendMessage and of the cleanup interleave.                *)
(***************************************************************************)
THEOREM EvidenceCorrect == Spec => []EvidenceInv
BY EvidenceInitial, EvidenceInductive, PTL DEF Spec

THEOREM DeliveredOnEvidenceCorrect == Spec => []DeliveredOnEvidence
<1>1. EvidenceInv => DeliveredOnEvidence
  BY DEF EvidenceInv, RowBacked
<1> QED
  BY <1>1, EvidenceCorrect, PTL

THEOREM PartialOnEvidenceCorrect == Spec => []PartialOnEvidence
<1>1. EvidenceInv => PartialOnEvidence
  BY DEF EvidenceInv, RowBacked
<1> QED
  BY <1>1, EvidenceCorrect, PTL

THEOREM FailureOnEvidenceCorrect == Spec => []FailureOnEvidence
<1>1. EvidenceInv => FailureOnEvidence
  BY DEF EvidenceInv, RowBacked
<1> QED
  BY <1>1, EvidenceCorrect, PTL

-----------------------------------------------------------------------------
(***************************************************************************)
(* Why no message is left "queued".  When no event is to blame, from the   *)
(* UPDATE of a recipient on some recipient is past "queued" and remains    *)
(* so, since only an event that says "queued" takes it back; hence no      *)
(* roll-up counted then is "queued", and none that is in a handler's       *)
(* hands.  The row itself may say so only until sendMessage has written    *)
(* it.                                                                     *)
(***************************************************************************)
Excused == \E e \in reported : e.status = "queued" \/ e.to \in Strangers
Moved   == \E a \in DOMAIN rcpt : rcpt[a] # "queued"

WholeCuts == \A e \in reported : e.to = Whole => cut

QueuedIsExcused ==
  ~cut /\ row # "none" /\ ~Excused =>
    /\ row = "queued" => submit # "done"
    /\ \A h \in Handlers : /\ handler[h].pc = "count" => Moved
                           /\ handler[h].pc = "write" => handler[h].verdict # "queued"

QueuedInv == EvidenceInv /\ WholeCuts /\ QueuedIsExcused

\* recalculate says "queued" of untouched recipients only.
LEMMA MovedIsNotQueued ==
  ASSUME TypeOK, Moved
  PROVE  Recalculate(rcpt) # "queued"
<1>1. \A s \in MessageStatus : Covers(s, Seen(rcpt)) <=> s = Recalculate(rcpt)
  BY RecipientTable, RecalculateCovers DEF RollupIsCovering
<1>2. ~ Covers("queued", Seen(rcpt))
  BY DEF Moved, Seen, Covers
<1>3. "queued" \in MessageStatus
  BY DEF MessageStatus, EventStatus
<1> QED
  BY <1>1, <1>2, <1>3

\* What every step keeps: what was reported, the excuses and the cuts.
LEMMA ReportsGrow ==
  ASSUME TypeOK, [Next]_vars
  PROVE  /\ reported \subseteq reported'
         /\ cut => cut'
         /\ submit = "done" => submit' = "done"
         /\ row' # "none" => row # "none"
BY DEF TypeOK, Next, vars, Take, SendReturns, Mark, Receive, ApplyWhole, ApplyRecipient,
       CountStates, WriteRollup, Abandon, Cleanup, Crash, UpdateMessageStatus

\* An event without a recipient counts as a cut from its receipt on.
LEMMA WholeCutsInductive ==
  ASSUME TypeOK, WholeCuts, [Next]_vars
  PROVE  WholeCuts'
<1>1. cut => cut'
  BY ReportsGrow
<1>2. CASE reported' = reported
  BY <1>1, <1>2 DEF WholeCuts
<1>3. ASSUME NEW h \in Handlers, NEW e \in Events, Receive(h, e) PROVE WholeCuts'
  BY <1>3 DEF WholeCuts, Receive
<1> QED
  BY <1>2, <1>3 DEF Next, vars, Take, SendReturns, Mark, ApplyWhole, ApplyRecipient,
                    CountStates, WriteRollup, Abandon, Cleanup, Crash

LEMMA QueuedIsExcusedInductive ==
  ASSUME QueuedInv, [Next]_vars
  PROVE  QueuedIsExcused'
<1> SUFFICES ASSUME ~cut', row' # "none", ~Excused'
             PROVE  /\ row' = "queued" => submit' # "done"
                    /\ \A k \in Handlers : /\ handler'[k].pc = "count" => Moved'
                                           /\ handler'[k].pc = "write" => handler'[k].verdict # "queued"
  BY DEF QueuedIsExcused
<1> DEFINE RowGoal     == row' = "queued" => submit' # "done"
           HandlerGoal == \A k \in Handlers :
                            /\ handler'[k].pc = "count" => Moved'
                            /\ handler'[k].pc = "write" => handler'[k].verdict # "queued"
<1>0. TypeOK
  BY DEF QueuedInv, EvidenceInv
<1>e. ~cut /\ row # "none" /\ ~Excused
  BY <1>0, ReportsGrow DEF Excused
<1>q. /\ row = "queued" => submit # "done"
      /\ \A k \in Handlers : /\ handler[k].pc = "count" => Moved
                             /\ handler[k].pc = "write" => handler[k].verdict # "queued"
  BY <1>e DEF QueuedInv, QueuedIsExcused
<1>1. CASE Take \/ SendReturns \/ UNCHANGED vars
  BY <1>1, <1>q DEF Take, SendReturns, vars, Moved
<1>2. ASSUME NEW lost \in BOOLEAN, Mark(lost) PROVE RowGoal /\ HandlerGoal
  BY <1>2, <1>q DEF Mark, UpdateMessageStatus, Moved
<1>3. ASSUME NEW h \in Handlers, NEW e \in Events, Receive(h, e) PROVE RowGoal /\ HandlerGoal
  <2>1. \A k \in Handlers : handler'[k].pc = "apply" \/ handler'[k] = handler[k]
    BY <1>0, <1>3 DEF Receive, TypeOK, Idle
  <2> QED
    BY <1>3, <1>q, <2>1 DEF Receive, Moved
<1>4. ASSUME NEW h \in Handlers, ApplyWhole(h) PROVE RowGoal /\ HandlerGoal
  <2>1. handler[h].event \in reported
    BY <1>4 DEF ApplyWhole, QueuedInv, EvidenceInv, EventsReceived, Busy
  <2>2. cut
    BY <1>4, <2>1 DEF ApplyWhole, QueuedInv, WholeCuts
  <2> QED
    BY <1>e, <2>2
<1>5. ASSUME NEW h \in Handlers, ApplyRecipient(h) PROVE RowGoal /\ HandlerGoal
  <2> DEFINE ev == handler[h].event
  <2>1. ev \in reported /\ ev \in Events
    BY <1>0, <1>5 DEF ApplyRecipient, QueuedInv, EvidenceInv, EventsReceived, Busy, TypeOK
  <2>2. ev.status # "queued" /\ ev.to \in Recipients
    BY <1>5, <1>e, <2>1 DEF ApplyRecipient, Excused, Events
  <2>3. DOMAIN rcpt = Recipients
    BY <1>e DEF QueuedInv, EvidenceInv, RecipientsOfRow
  <2>4. ev.to \in DOMAIN rcpt' /\ rcpt'[ev.to] = ev.status
    BY <1>5, <2>2, <2>3 DEF ApplyRecipient, UpdateRecipient
  <2>5. Moved'
    BY <2>2, <2>4 DEF Moved
  <2>6. \A k \in Handlers : /\ handler'[k].pc \in {handler[k].pc, "count"}
                            /\ handler'[k].verdict = handler[k].verdict
    BY <1>0, <1>5 DEF ApplyRecipient, TypeOK
  <2> QED
    BY <1>5, <1>q, <2>5, <2>6 DEF ApplyRecipient
<1>6. ASSUME NEW h \in Handlers, CountStates(h) PROVE RowGoal /\ HandlerGoal
  <2>1. Recalculate(rcpt) # "queued"
    BY <1>0, <1>6, <1>q, MovedIsNotQueued DEF CountStates
  <2>2. \A k \in Handlers : \/ handler'[k] = handler[k]
                            \/ handler'[k].pc = "write" /\ handler'[k].verdict = Recalculate(rcpt)
    BY <1>0, <1>6 DEF CountStates, TypeOK
  <2> QED
    BY <1>6, <1>q, <2>1, <2>2 DEF CountStates, Moved
<1>7. ASSUME NEW h \in Handlers, WriteRollup(h) PROVE RowGoal /\ HandlerGoal
  <2>1. \A k \in Handlers : handler'[k].pc = "idle" \/ handler'[k] = handler[k]
    BY <1>0, <1>7 DEF WriteRollup, TypeOK, Idle
  <2>2. row' # "queued"
    BY <1>7, <1>q, <1>e DEF WriteRollup, UpdateMessageStatus
  <2> QED
    BY <1>7, <1>q, <2>1, <2>2 DEF WriteRollup, Moved
<1>8. ASSUME NEW h \in Handlers, Abandon(h) PROVE RowGoal /\ HandlerGoal
  BY <1>8 DEF Abandon
<1>9. CASE Cleanup
  BY <1>9 DEF Cleanup
<1>10. CASE Crash
  BY <1>10 DEF Crash
<1> QED
  BY <1>1, <1>2, <1>3, <1>4, <1>5, <1>6, <1>7, <1>8, <1>9, <1>10 DEF Next

(***************************************************************************)
(* When sendMessage and the handlers have finished undisturbed, a message  *)
(* is not "queued" but for an event that put it back: for any number of    *)
(* recipients and of requests at once, in any order of their statements.   *)
(***************************************************************************)
THEOREM NotLeftQueuedCorrect == Spec => []NotLeftQueued
<1>1. Init => QueuedInv
  <2>1. Init => WholeCuts /\ QueuedIsExcused
    BY DEF Init, WholeCuts, QueuedIsExcused, Idle
  <2> QED
    BY <2>1, EvidenceInitial DEF QueuedInv
<1>2. QueuedInv /\ [Next]_vars => QueuedInv'
  BY EvidenceInductive, WholeCutsInductive, QueuedIsExcusedInductive DEF QueuedInv, EvidenceInv
<1>3. QueuedInv => NotLeftQueued
  BY DEF QueuedInv, QueuedIsExcused, NotLeftQueued, AtRest, Excused
<1> QED
  BY <1>1, <1>2, <1>3, PTL DEF Spec

-----------------------------------------------------------------------------
(***************************************************************************)
(* Events that came one after the other.  Each finds everyone at rest, so  *)
(* one handler works at a time, with sendMessage done; nobody else writes  *)
(* between its three statements, and the roll-up it writes is of the rows  *)
(* as they are.                                                            *)
(***************************************************************************)
Undisturbed == ~cut /\ ~overlapped /\ reported # {} /\ row # "none"

AloneAtWork ==
  Undisturbed =>
    /\ submit = "done"
    /\ \A h, k \in Handlers : Busy(h) /\ Busy(k) => h = k
    /\ (\A h \in Handlers : ~Busy(h)) => row = Recalculate(rcpt)
    /\ \A h \in Handlers : handler[h].pc = "write" => handler[h].verdict = Recalculate(rcpt)

AloneInv == EvidenceInv /\ WholeCuts /\ AloneAtWork

\* Only a new event starts a handler; the others end their work or go on with it.
LEMMA BusySteps ==
  ASSUME TypeOK, [Next]_vars, ~ \E h \in Handlers, e \in Events : Receive(h, e),
         NEW k \in Handlers, Busy(k)'
  PROVE  Busy(k)
<1>1. CASE handler' = handler
  BY <1>1 DEF Busy
<1>2. ASSUME NEW h \in Handlers, ApplyRecipient(h) \/ CountStates(h) PROVE Busy(k)
  <2>1. handler[h].pc # "idle" /\ (k # h => handler'[k].pc = handler[k].pc)
    BY <1>2 DEF ApplyRecipient, CountStates, TypeOK
  <2> QED
    BY <2>1 DEF Busy
<1>3. ASSUME NEW h \in Handlers, handler' = [handler EXCEPT ![h] = Idle] PROVE Busy(k)
  BY <1>3 DEF Busy, Idle, TypeOK
<1>4. CASE Crash
  BY <1>4 DEF Crash, Busy, Idle
<1> QED
  BY <1>1, <1>2, <1>3, <1>4
  DEF Next, vars, Take, SendReturns, Mark, ApplyWhole, WriteRollup, Abandon, Cleanup

LEMMA AloneInductive ==
  ASSUME AloneInv, [Next]_vars
  PROVE  AloneAtWork'
<1> DEFINE Goal == /\ submit' = "done"
                   /\ \A h, k \in Handlers : Busy(h)' /\ Busy(k)' => h = k
                   /\ (\A h \in Handlers : ~Busy(h)') => row' = Recalculate(rcpt')
                   /\ \A h \in Handlers :
                        handler'[h].pc = "write" => handler'[h].verdict = Recalculate(rcpt')
<1> SUFFICES ASSUME Undisturbed' PROVE Goal
  BY DEF AloneAtWork, Recalculate, Count
<1>0. TypeOK
  BY DEF AloneInv, EvidenceInv
<1>cut. ~cut' /\ ~overlapped' /\ row' # "none" /\ reported' # {}
  BY DEF Undisturbed
<1>u. ~cut /\ row # "none"
  BY <1>0, <1>cut, ReportsGrow
<1>1. ASSUME NEW h \in Handlers, NEW e \in Events, Receive(h, e) PROVE Goal
  <2>1. AtRest
    BY <1>1, <1>cut DEF Receive
  <2>2. \A k \in Handlers : /\ handler'[k].pc = IF k = h THEN "apply" ELSE "idle"
    BY <1>0, <1>1, <2>1 DEF Receive, AtRest, Busy, TypeOK, Idle
  <2> QED
    BY <1>1, <2>1, <2>2 DEF Receive, AtRest, Busy
<1>n. ASSUME ~ \E h \in Handlers, e \in Events : Receive(h, e), reported' = reported,
             overlapped' = overlapped
      PROVE  Goal
  <2>1. Undisturbed
    BY <1>n, <1>cut, <1>u DEF Undisturbed
  <2>2. /\ submit = "done"
        /\ \A h, k \in Handlers : Busy(h) /\ Busy(k) => h = k
        /\ (\A h \in Handlers : ~Busy(h)) => row = Recalculate(rcpt)
        /\ \A h \in Handlers : handler[h].pc = "write" => handler[h].verdict = Recalculate(rcpt)
    BY <2>1 DEF AloneInv, AloneAtWork
  <2>3. submit' = "done" /\ \A h, k \in Handlers : Busy(h)' /\ Busy(k)' => h = k
    BY <1>0, <1>n, <2>2, ReportsGrow, BusySteps
  <2>4. CASE Take \/ SendReturns \/ UNCHANGED vars
    BY <2>2, <2>3, <2>4 DEF Take, SendReturns, vars, Busy
  <2>5. ASSUME NEW lost \in BOOLEAN, Mark(lost) PROVE Goal
    BY <2>2, <2>5 DEF Mark
  <2>6. ASSUME NEW h \in Handlers, ApplyWhole(h) PROVE Goal
    <3>1. handler[h].event \in reported
      BY <2>6 DEF ApplyWhole, AloneInv, EvidenceInv, EventsReceived, Busy
    <3> QED
      BY <1>u, <2>6, <3>1 DEF ApplyWhole, AloneInv, WholeCuts
  <2>7. ASSUME NEW h \in Handlers, ApplyRecipient(h) PROVE Goal
    <3>1. \A k \in Handlers : handler'[k].pc = IF k = h THEN "count" ELSE "idle"
      BY <1>0, <2>2, <2>7 DEF ApplyRecipient, TypeOK, Busy
    <3> QED
      BY <2>3, <2>7, <3>1 DEF Busy
  <2>8. ASSUME NEW h \in Handlers, CountStates(h) PROVE Goal
    <3>1. \A k \in Handlers :
            IF k = h THEN handler'[k].pc = "write" /\ handler'[k].verdict = Recalculate(rcpt)
                     ELSE handler'[k].pc = "idle"
      BY <1>0, <2>2, <2>8 DEF CountStates, TypeOK, Busy
    <3> QED
      BY <2>3, <2>8, <3>1 DEF CountStates, Busy
  <2>9. ASSUME NEW h \in Handlers, WriteRollup(h) PROVE Goal
    <3>1. row' = Recalculate(rcpt)
      BY <1>u, <2>2, <2>9 DEF WriteRollup, UpdateMessageStatus
    <3>2. \A k \in Handlers : handler'[k].pc = "idle"
      BY <1>0, <2>2, <2>9 DEF WriteRollup, TypeOK, Busy, Idle
    <3> QED
      BY <2>3, <2>9, <3>1, <3>2 DEF WriteRollup
  <2>10. ASSUME NEW h \in Handlers, Abandon(h) PROVE Goal
    BY <1>cut, <2>10 DEF Abandon
  <2>11. CASE Cleanup
    BY <1>cut, <2>11 DEF Cleanup
  <2>12. CASE Crash
    BY <1>cut, <2>12 DEF Crash
  <2> QED
    BY <1>n, <2>4, <2>5, <2>6, <2>7, <2>8, <2>9, <2>10, <2>11, <2>12 DEF Next
<1> QED
  <2>1. ASSUME ~ \E h \in Handlers, e \in Events : Receive(h, e)
        PROVE  reported' = reported /\ overlapped' = overlapped
    BY <2>1 DEF Next, vars, Take, SendReturns, Mark, ApplyWhole, ApplyRecipient,
                CountStates, WriteRollup, Abandon, Cleanup, Crash
  <2> QED
    BY <1>1, <1>n, <2>1

(***************************************************************************)
(* When the events came one after the other and nothing was cut short, the *)
(* status of the message is the roll-up of its recipients as they are, for *)
(* any number of recipients and events.                                    *)
(***************************************************************************)
THEOREM RollupExactAloneCorrect == Spec => []RollupExactAlone
<1>1. Init => AloneInv
  <2>1. Init => WholeCuts /\ AloneAtWork
    BY DEF Init, WholeCuts, AloneAtWork, Undisturbed
  <2> QED
    BY <2>1, EvidenceInitial DEF AloneInv
<1>2. AloneInv /\ [Next]_vars => AloneInv'
  BY EvidenceInductive, WholeCutsInductive, AloneInductive DEF AloneInv, EvidenceInv
<1>3. AloneInv => RollupExactAlone
  BY DEF AloneInv, AloneAtWork, Undisturbed, RollupExactAlone, AtRest
<1> QED
  BY <1>1, <1>2, <1>3, PTL DEF Spec

(***************************************************************************)
(* What store_test.go:64-73 says does hold of events that came one after   *)
(* the other, for any number of recipients: one copy delivered and another *)
(* bounced makes the message "partial". That the code does not keep it in  *)
(* general is due to the overlap of statements, and to nothing else.       *)
(***************************************************************************)
THEOREM MixedIsPartialAlone == Spec => [](~overlapped => MixedIsPartial)
<1>1. Init => AloneInv
  <2>1. Init => WholeCuts /\ AloneAtWork
    BY DEF Init, WholeCuts, AloneAtWork, Undisturbed
  <2> QED
    BY <2>1, EvidenceInitial DEF AloneInv
<1>2. AloneInv /\ [Next]_vars => AloneInv'
  BY EvidenceInductive, WholeCutsInductive, AloneInductive DEF AloneInv, EvidenceInv
<1>3. AloneInv => (~overlapped => MixedIsPartial)
  <2> SUFFICES ASSUME AloneInv, ~overlapped, AtRest, ~cut, row # "none",
                      NEW a \in Recipients, NEW b \in Recipients,
                      rcpt[a] = "delivered", rcpt[b] = "bounced"
               PROVE  row = "partial"
    BY DEF MixedIsPartial
  <2>1. rcpt \in [Recipients -> EventStatus]
    BY DEF AloneInv, EvidenceInv, RecipientsOfRow
  <2>2. Said(a, "delivered")
    BY <2>1 DEF AloneInv, EvidenceInv, RecipientsBacked
  <2>3. row = Recalculate(rcpt)
    BY <2>2 DEF AloneInv, AloneAtWork, Undisturbed, AtRest, Said
  <2>4. "delivered" \in Seen(rcpt) /\ "bounced" \in Seen(rcpt)
    BY <2>1 DEF Seen
  <2>5. Covers("partial", Seen(rcpt))
    BY <2>4 DEF Covers
  <2>6. RollupIsCovering(rcpt)
    BY RecipientTable, RecalculateCovers DEF AloneInv, EvidenceInv
  <2> QED
    BY <2>3, <2>5, <2>6 DEF RollupIsCovering, MessageStatus
<1> QED
  BY <1>1, <1>2, <1>3, PTL DEF Spec

-----------------------------------------------------------------------------
\* The recipients of a message go with its row.
NoRecipientsLeft == row = "none" => DOMAIN rcpt = {}

LEMMA GoneStep ==
  ASSUME TypeOK, NoRecipientsLeft, [Next]_vars
  PROVE  /\ NoRecipientsLeft'
         /\ row = "none" => row' = "none" /\ rcpt' = rcpt
<1>1. CASE rcpt' = rcpt
  <2>1. row = "none" => row' = "none"
    BY ReportsGrow
  <2>2. row' = "none" => row = "none" \/ Cleanup
    BY <1>1 DEF TypeOK, Next, vars, Take, SendReturns, Mark, Receive, ApplyWhole, ApplyRecipient,
                CountStates, WriteRollup, Abandon, Crash, UpdateMessageStatus, MessageStatus,
                EventStatus, Events
  <2> QED
    BY <1>1, <2>1, <2>2 DEF NoRecipientsLeft, Cleanup
<1>2. ASSUME NEW h \in Handlers, ApplyRecipient(h)
      PROVE  NoRecipientsLeft' /\ (row = "none" => row' = "none" /\ rcpt' = rcpt)
  <2>1. row' = row /\ DOMAIN rcpt' = DOMAIN rcpt
    BY <1>2 DEF ApplyRecipient, UpdateRecipient
  <2>2. DOMAIN rcpt = {} => rcpt' = rcpt
    BY <1>2 DEF ApplyRecipient, UpdateRecipient, TypeOK
  <2> QED
    BY <2>1, <2>2 DEF NoRecipientsLeft
<1>3. CASE Cleanup
  BY <1>3 DEF Cleanup, NoRecipientsLeft
<1> QED
  BY <1>1, <1>2, <1>3
  DEF Next, vars, Take, SendReturns, Mark, Receive, ApplyWhole, CountStates, WriteRollup,
      Abandon, Crash

(***************************************************************************)
(* A message that the cleanup deleted is not brought back by the roll-up   *)
(* or the event of a handler that was at work on it, nor by sendMessage.   *)
(***************************************************************************)
THEOREM GoneStaysGoneCorrect == Spec => GoneStaysGone
<1>1. Init => TypeOK /\ NoRecipientsLeft
  BY InitTypeOK DEF Init, NoRecipientsLeft
<1>2. TypeOK /\ NoRecipientsLeft /\ [Next]_vars => (TypeOK /\ NoRecipientsLeft)'
  BY TypeOKInductive, GoneStep
<1>3. TypeOK /\ NoRecipientsLeft /\ [Next]_vars
        => [row = "none" => row' = "none" /\ rcpt' = rcpt]_vars
  BY GoneStep
<1> QED
  BY <1>1, <1>2, <1>3, PTL DEF Spec, GoneStaysGone
=============================================================================
