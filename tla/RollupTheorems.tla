--------------------------- MODULE RollupTheorems ---------------------------
(***************************************************************************)
(* What recalculate computes, for tables of any finite size.               *)
(***************************************************************************)
EXTENDS Rollup, FiniteSetTheorems, TLAPS

\* Tables of recipients: what GROUP BY can be asked about.
Table(rcpt) ==
  /\ IsFiniteSet(DOMAIN rcpt)
  /\ \A a \in DOMAIN rcpt : rcpt[a] \in EventStatus

-----------------------------------------------------------------------------
\* Counting a status gives a number between none and all of the recipients;
\* it is positive when one of them has the status, and the total when all do.
LEMMA CountFacts ==
  ASSUME NEW rcpt, Table(rcpt), NEW s
  PROVE  /\ Count(rcpt, s) \in Nat
         /\ Cardinality(DOMAIN rcpt) \in Nat
         /\ Count(rcpt, s) > 0 <=> \E a \in DOMAIN rcpt : rcpt[a] = s
         /\ Count(rcpt, s) = Cardinality(DOMAIN rcpt)
              <=> \A a \in DOMAIN rcpt : rcpt[a] = s
         /\ Cardinality(DOMAIN rcpt) > 0 <=> DOMAIN rcpt # {}
<1> DEFINE S == {a \in DOMAIN rcpt : rcpt[a] = s}
<1>1. IsFiniteSet(DOMAIN rcpt) /\ Cardinality(DOMAIN rcpt) \in Nat
  BY FS_CardinalityType DEF Table
<1>2. S \subseteq DOMAIN rcpt /\ IsFiniteSet(S) /\ Cardinality(S) \in Nat
  BY <1>1, FS_Subset, FS_CardinalityType
<1>3. Cardinality(S) = 0 <=> S = {}
  BY <1>2, FS_EmptySet
<1>4. Cardinality(DOMAIN rcpt) = 0 <=> DOMAIN rcpt = {}
  BY <1>1, FS_EmptySet
<1>5. Cardinality(S) = Cardinality(DOMAIN rcpt) => S = DOMAIN rcpt
  BY <1>1, <1>2, FS_Subset
<1>6. Count(rcpt, s) = Cardinality(S)
  BY DEF Count
<1>7. Count(rcpt, s) > 0 <=> S # {}
  BY <1>2, <1>3, <1>6
<1>8. Count(rcpt, s) = Cardinality(DOMAIN rcpt) <=> S = DOMAIN rcpt
  BY <1>5, <1>6
<1>9. Cardinality(DOMAIN rcpt) > 0 <=> DOMAIN rcpt # {}
  <2>1. Cardinality(DOMAIN rcpt) > 0 <=> Cardinality(DOMAIN rcpt) # 0
    BY <1>1
  <2> QED
    BY <1>4, <2>1, Zenon
<1> QED
  <2>1. S # {} <=> \E a \in DOMAIN rcpt : rcpt[a] = s
    OBVIOUS
  <2>2. S = DOMAIN rcpt <=> \A a \in DOMAIN rcpt : rcpt[a] = s
    OBVIOUS
  <2> HIDE DEF S
  <2> QED
    BY <1>1, <1>2, <1>6, <1>7, <1>8, <1>9, <2>1, <2>2

\* The tests of the switch, as statements about the set of states seen.
LEMMA SwitchTests ==
  ASSUME NEW rcpt, Table(rcpt), NEW s
  PROVE  /\ Seen(rcpt) \subseteq EventStatus
         /\ Count(rcpt, s) \in Nat
         /\ Count(rcpt, s) > 0 <=> s \in Seen(rcpt)
         /\ Count(rcpt, s) = Cardinality(DOMAIN rcpt) <=> Seen(rcpt) \subseteq {s}
         /\ Cardinality(DOMAIN rcpt) > 0 <=> Seen(rcpt) # {}
<1>1. /\ Count(rcpt, s) \in Nat
      /\ Count(rcpt, s) > 0 <=> \E a \in DOMAIN rcpt : rcpt[a] = s
      /\ Count(rcpt, s) = Cardinality(DOMAIN rcpt) <=> \A a \in DOMAIN rcpt : rcpt[a] = s
      /\ Cardinality(DOMAIN rcpt) > 0 <=> DOMAIN rcpt # {}
  BY CountFacts
<1>2. Seen(rcpt) \subseteq EventStatus
  BY DEF Seen, Table
<1>3. s \in Seen(rcpt) <=> \E a \in DOMAIN rcpt : rcpt[a] = s
  BY DEF Seen
<1>4. Seen(rcpt) \subseteq {s} <=> \A a \in DOMAIN rcpt : rcpt[a] = s
  BY DEF Seen
<1>5. Seen(rcpt) # {} <=> DOMAIN rcpt # {}
  BY DEF Seen
<1> QED
  BY <1>1, <1>2, <1>3, <1>4, <1>5

(***************************************************************************)
(* recalculate (store.go:290) gives the one status that covers the states  *)
(* of the recipients, for a message of any number of recipients.           *)
(***************************************************************************)
THEOREM RecalculateCovers ==
  ASSUME NEW rcpt, Table(rcpt)
  PROVE  RollupIsCovering(rcpt)
<1> DEFINE seen  == Seen(rcpt)
           total == Cardinality(DOMAIN rcpt)
           n(s)  == Count(rcpt, s)
<1>1. seen \subseteq EventStatus
  BY SwitchTests
<1>2. total > 0 <=> seen # {}
  BY SwitchTests
<1>3. \A s : /\ n(s) \in Nat
             /\ n(s) > 0 <=> s \in seen
             /\ n(s) = total <=> seen \subseteq {s}
  BY SwitchTests
<1>4. n("bounced") + n("failed") > 0 <=> seen \cap {"bounced", "failed"} # {}
  <2>1. n("bounced") + n("failed") > 0 <=> n("bounced") > 0 \/ n("failed") > 0
    BY <1>3
  <2> QED
    BY <1>3, <2>1
<1>5. Recalculate(rcpt) =
        IF seen = {"delivered"} THEN "delivered"
        ELSE IF "delivered" \in seen /\ seen \cap {"bounced", "failed"} # {} THEN "partial"
        ELSE IF seen = {"bounced"} THEN "bounced"
        ELSE IF seen = {"failed"} THEN "failed"
        ELSE IF "deferred" \in seen THEN "deferred"
        ELSE IF seen \subseteq {"queued"} THEN "queued"
        ELSE "processing"
  <2>1. \A s : total > 0 /\ n(s) = total <=> seen = {s}
    BY <1>2, <1>3
  <2> QED
    BY <1>3, <1>4, <2>1 DEF Recalculate
<1> HIDE DEF seen, total, n
<1>6. /\ Covers("delivered", seen)  <=> "delivered" = Recalculate(rcpt)
      /\ Covers("partial", seen)    <=> "partial" = Recalculate(rcpt)
      /\ Covers("bounced", seen)    <=> "bounced" = Recalculate(rcpt)
      /\ Covers("failed", seen)     <=> "failed" = Recalculate(rcpt)
      /\ Covers("deferred", seen)   <=> "deferred" = Recalculate(rcpt)
      /\ Covers("queued", seen)     <=> "queued" = Recalculate(rcpt)
      /\ Covers("processing", seen) <=> "processing" = Recalculate(rcpt)
  <2>1. Covers("delivered", seen) <=> "delivered" = Recalculate(rcpt)
    BY <1>1, <1>5 DEF Covers, EventStatus
  <2>2. Covers("partial", seen) <=> "partial" = Recalculate(rcpt)
    BY <1>1, <1>5 DEF Covers, EventStatus
  <2>3. Covers("bounced", seen) <=> "bounced" = Recalculate(rcpt)
    BY <1>1, <1>5 DEF Covers, EventStatus
  <2>4. Covers("failed", seen) <=> "failed" = Recalculate(rcpt)
    BY <1>1, <1>5 DEF Covers, EventStatus
  <2>5. Covers("deferred", seen) <=> "deferred" = Recalculate(rcpt)
    BY <1>1, <1>5 DEF Covers, EventStatus
  <2>6. Covers("queued", seen) <=> "queued" = Recalculate(rcpt)
    BY <1>1, <1>5 DEF Covers, EventStatus
  <2>7. Covers("processing", seen) <=> "processing" = Recalculate(rcpt)
    BY <1>1, <1>5 DEF Covers, EventStatus
  <2> QED
    BY <2>1, <2>2, <2>3, <2>4, <2>5, <2>6, <2>7
<1>7. Recalculate(rcpt) \in MessageStatus
  BY <1>5 DEF MessageStatus, EventStatus
<1>8. \A s \in MessageStatus : Covers(s, seen) <=> s = Recalculate(rcpt)
  BY <1>6 DEF MessageStatus, EventStatus
<1> QED
  BY <1>7, <1>8 DEF RollupIsCovering, seen
=============================================================================
