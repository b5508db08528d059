------------------------------- MODULE Rollup -------------------------------
(***************************************************************************)
(* How the delivery states of the recipients of a message are rolled up    *)
(* into the status of the message: recalculate of internal/store/store.go, *)
(* and the statuses normalizeEvent of internal/httpapi/server.go produces. *)
(***************************************************************************)
EXTENDS Naturals, FiniteSets

\* What an event of the mail server can say of a recipient, which is also what
\* message_recipients.status can hold (sendMessage inserts "queued").
EventStatus == {"queued", "delivered", "deferred", "bounced", "failed"}

\* What messages.status can hold.
MessageStatus == EventStatus \cup {"processing", "partial"}

-----------------------------------------------------------------------------
\* Mistaken: a temporary failure counts as a final one.
CountDeferredAsFailed(rcpt, s) ==
  Cardinality({a \in DOMAIN rcpt : rcpt[a] = s \/ (s = "failed" /\ rcpt[a] = "deferred")})

\* SELECT status, COUNT(*) ... GROUP BY status, for one status. rcpt is the
\* table of the message's recipients: a function from addresses to statuses.
Count(rcpt, s) == Cardinality({a \in DOMAIN rcpt : rcpt[a] = s})

\* The switch of recalculate: the first case that holds decides.
Recalculate(rcpt) ==
  LET total == Cardinality(DOMAIN rcpt)
      n(s)  == Count(rcpt, s)
  IN  IF total > 0 /\ n("delivered") = total THEN "delivered"
      ELSE IF n("delivered") > 0 /\ n("bounced") + n("failed") > 0 THEN "partial"
      ELSE IF total > 0 /\ n("bounced") = total THEN "bounced"
      ELSE IF total > 0 /\ n("failed") = total THEN "failed"
      ELSE IF n("deferred") > 0 THEN "deferred"
      ELSE IF n("queued") = total THEN "queued"
      ELSE "processing"

-----------------------------------------------------------------------------
(***************************************************************************)
(* The same without counting and without an order of cases: each status    *)
(* says which sets of recipient statuses it stands for.  A set of statuses *)
(* belongs to exactly one of them.                                         *)
(***************************************************************************)
Covers(s, seen) ==
  CASE s = "delivered"  -> seen = {"delivered"}
    [] s = "partial"    -> "delivered" \in seen /\ seen \cap {"bounced", "failed"} # {}
    [] s = "bounced"    -> seen = {"bounced"}
    [] s = "failed"     -> seen = {"failed"}
    [] s = "deferred"   -> /\ "deferred" \in seen
                           /\ "delivered" \notin seen \/ seen \cap {"bounced", "failed"} = {}
    [] s = "queued"     -> seen \subseteq {"queued"}
    [] s = "processing" -> /\ "deferred" \notin seen
                           /\ \/ seen = {"bounced", "failed"}
                              \/ /\ "queued" \in seen
                                 /\ seen # {"queued"}
                                 /\ "delivered" \notin seen \/ seen \cap {"bounced", "failed"} = {}

Seen(rcpt) == {rcpt[a] : a \in DOMAIN rcpt}

(***************************************************************************)
(* The counting switch of recalculate gives the one status that covers the *)
(* states the recipients are in: the order of its cases, and its           *)
(* comparisons of counts with the total, leave no table to two cases or to *)
(* none. Recipients that all bounced or failed, some of each, are covered  *)
(* by "processing": nothing will move such a message on.                   *)
(***************************************************************************)
RollupIsCovering(rcpt) ==
  {s \in MessageStatus : Covers(s, Seen(rcpt))} = {Recalculate(rcpt)}
=============================================================================
