--------------------------- MODULE ListingTheorems ---------------------------
(***************************************************************************)
(* Proofs about Listing and the rate limiter it is behind, for any number  *)
(* of messages, clients and keys, any limit and any rate.                  *)
(***************************************************************************)
EXTENDS Listing, FunctionTheorems, FiniteSetTheorems, SequenceTheorems, TLAPS

\* The minutes of the clock.
LEMMA MinuteType == ASSUME NEW t \in Nat PROVE Minute(t) \in Nat
BY LimiterAssumption DEF Minute

LEMMA MinutesGrow == ASSUME NEW t \in Nat, NEW u \in Nat, t <= u PROVE Minute(t) <= Minute(u)
BY LimiterAssumption DEF Minute

LEMMA AMinuteBetween ==
  ASSUME NEW t \in Nat, NEW u \in Nat, Minute(t) + 2 <= Minute(u)
  PROVE  u > t + Span
BY LimiterAssumption DEF Minute

-----------------------------------------------------------------------------
(* The rate limiter. *)

LimiterType ==
  now \in 0 .. MaxTime /\ entries \in [Key -> Entry] /\ log \in [Key -> Seq(0 .. MaxTime)]

\* The calls of the minute that is counted are the last ones, as many as the
\* count says or fewer, and Rate calls later another minute has begun.
Counted(k) ==
  LET L == log[k] IN
  /\ \A i \in 1 .. Len(L) : L[i] <= now
  /\ \A i \in 1 .. Len(L) : L[i] <= L[Len(L)]
  /\ Len(L) > 0 => entries[k].minute = Minute(L[Len(L)])
  /\ \A i \in 1 .. Len(L) :
       Minute(L[i]) = entries[k].minute => i > Len(L) - entries[k].count
  /\ \A i \in 1 .. Len(L) :
       i + Rate <= Len(L) => Minute(L[i]) < Minute(L[i + Rate])

\* The limiter's own steps.
Limiting == Tick \/ SetBack \/ Forget \/ UNCHANGED limiter \/ \E k \in Key : Allow(k)

LEMMA CurrentType ==
  ASSUME LimiterType, NEW k \in Key
  PROVE  /\ Current(k) \in Entry /\ Current(k).minute = Minute(now)
         /\ Current(k).count < Rate
              => [Current(k) EXCEPT !.count = @ + 1] \in Entry
<1>1. Minute(now) \in Nat
  BY MinuteType DEF LimiterType
<1>2. Current(k) \in Entry /\ Current(k).minute = Minute(now)
  BY <1>1, LimiterAssumption DEF Current, LimiterType, Entry
<1>3. ASSUME Current(k).count < Rate PROVE Current(k).count + 1 \in 0 .. Rate
  BY <1>2, <1>3, LimiterAssumption DEF Entry
<1> QED
  BY <1>2, <1>3 DEF Entry

LEMMA LimiterTypeStep == LimiterType /\ Limiting => LimiterType'
<1> SUFFICES ASSUME LimiterType, Limiting PROVE LimiterType'
  OBVIOUS
<1>1. Blank \in Entry
  BY LimiterAssumption DEF Blank, Entry
<1>2. CASE Tick
  BY <1>2, LimiterAssumption DEF Tick, LimiterType
<1>3. CASE SetBack
  BY <1>3, LimiterAssumption DEF SetBack, LimiterType
<1>4. CASE Forget
  BY <1>1, <1>4 DEF Forget, LimiterType
<1>5. ASSUME NEW k \in Key, Allow(k) PROVE LimiterType'
  <2>1. entries' \in [Key -> Entry]
    BY <1>5, CurrentType DEF Allow, LimiterType
  <2>2. log' \in [Key -> Seq(0 .. MaxTime)]
    BY <1>5 DEF Allow, LimiterType
  <2> QED
    BY <1>5, <2>1, <2>2 DEF Allow, LimiterType
<1>6. CASE UNCHANGED limiter
  BY <1>6 DEF limiter, LimiterType
<1> QED
  BY <1>2, <1>3, <1>4, <1>5, <1>6 DEF Limiting

LEMMA CountedStep ==
  ASSUME LimiterType, NEW k \in Key, Counted(k), Limiting
  PROVE  Counted(k)'
<1> DEFINE L == log[k]
<1> DEFINE n == Len(L)
<1> DEFINE e == entries[k]
<1>0. /\ now \in Nat /\ L \in Seq(Nat) /\ n \in Nat /\ \A i \in 1 .. n : L[i] \in Nat
      /\ e.minute \in Nat /\ e.count \in Nat /\ e.count <= Rate
  BY LimiterAssumption DEF LimiterType, Entry
<1>1. ASSUME log' = [b \in Key |-> <<>>] PROVE Counted(k)'
  <2>1. Len(log'[k]) = 0
    BY <1>1
  <2> QED
    BY <2>1 DEF Counted
<1>2. ASSUME L = log'[k], e = entries'[k], now' >= now, now' \in Nat PROVE Counted(k)'
  BY <1>0, <1>2 DEF Counted
<1>3. CASE Tick
  BY <1>0, <1>2, <1>3 DEF Tick
<1>4. CASE SetBack \/ Forget
  BY <1>1, <1>4 DEF SetBack, Forget
<1>5. CASE UNCHANGED limiter
  BY <1>0, <1>2, <1>5 DEF limiter
<1>6. ASSUME NEW b \in Key, b # k, Allow(b) PROVE Counted(k)'
  BY <1>0, <1>2, <1>6 DEF Allow, LimiterType
<1>7. CASE Allow(k)
  <2> DEFINE M == log'[k]
  <2> DEFINE f == entries'[k]
  <2>1. /\ f = [Current(k) EXCEPT !.count = @ + 1] /\ M = Append(L, now)
        /\ now' = now /\ Current(k).count < Rate
    BY <1>7 DEF Allow, LimiterType
  <2>2. /\ f.minute = Minute(now) /\ f.count = Current(k).count + 1
        /\ Current(k).count \in Nat
    BY <2>1, CurrentType, LimiterAssumption DEF Entry
  <2>3. /\ Len(M) = n + 1 /\ M[n + 1] = now /\ \A i \in 1 .. n : M[i] = L[i]
    BY <1>0, <2>1
  <2>4. Minute(now) \in Nat /\ \A i \in 1 .. n : Minute(L[i]) \in Nat
    BY <1>0, MinuteType
  <2>5. ASSUME NEW i \in 1 .. n, Minute(L[i]) = Minute(now) PROVE i > n - Current(k).count
    <3>1. n > 0 /\ n \in 1 .. n /\ L[i] <= L[n] /\ L[n] <= now
      BY <1>0 DEF Counted
    <3>2. Minute(L[i]) <= Minute(L[n]) /\ Minute(L[n]) <= Minute(now)
      BY <1>0, <3>1, MinutesGrow
    <3>3. e.minute = Minute(L[n])
      BY <3>1 DEF Counted
    <3>4. e.minute = Minute(now)
      BY <1>0, <2>4, <2>5, <3>2, <3>3
    <3>5. Current(k) = e
      BY <3>4 DEF Current
    <3> QED
      BY <2>5, <3>4, <3>5 DEF Counted
  <2>6. \A i \in 1 .. Len(M) : M[i] <= now' /\ M[i] <= M[Len(M)]
    BY <1>0, <2>1, <2>3 DEF Counted
  <2>7. f.minute = Minute(M[Len(M)])
    BY <2>2, <2>3
  <2>8. ASSUME NEW i \in 1 .. Len(M), Minute(M[i]) = f.minute PROVE i > Len(M) - f.count
    <3>1. CASE i = n + 1
      BY <1>0, <2>2, <2>3, <3>1
    <3>2. CASE i \in 1 .. n
      <4>1. i > n - Current(k).count
        BY <2>2, <2>3, <2>5, <2>8, <3>2
      <4> QED
        BY <1>0, <2>2, <2>3, <4>1
    <3> QED
      BY <1>0, <2>3, <3>1, <3>2
  <2>9. ASSUME NEW i \in 1 .. Len(M), i + Rate <= Len(M)
        PROVE  Minute(M[i]) < Minute(M[i + Rate])
    <3>1. i \in 1 .. n /\ M[i] = L[i]
      <4>1. i \in Nat /\ i >= 1 /\ i + Rate <= n + 1 /\ Rate \in Nat /\ Rate >= 1
        BY <1>0, <2>3, <2>9, LimiterAssumption
      <4>2. i \in 1 .. n
        BY <1>0, <4>1
      <4> QED
        BY <2>3, <4>2
    <3>2. CASE i + Rate <= n
      <4>1. i + Rate \in 1 .. n
        BY <3>1, <3>2, <1>0, LimiterAssumption
      <4> QED
        BY <2>3, <3>1, <3>2, <4>1 DEF Counted
    <3>3. CASE i + Rate = n + 1
      <4>1. L[i] <= now
        BY <3>1 DEF Counted
      <4>2. Minute(L[i]) <= Minute(now)
        BY <1>0, <3>1, <4>1, MinutesGrow
      <4>3. i = n + 1 - Rate
        BY <1>0, <3>1, <3>3, LimiterAssumption
      <4>4. Minute(L[i]) # Minute(now)
        <5>1. SUFFICES ASSUME Minute(L[i]) = Minute(now) PROVE FALSE
          OBVIOUS
        <5>2. i > n - Current(k).count
          BY <2>5, <3>1, <5>1
        <5>3. Current(k).count <= Rate - 1 /\ Rate \in Nat
          BY <2>1, <2>2, LimiterAssumption
        <5> QED
          BY <1>0, <2>2, <4>3, <5>2, <5>3
      <4> QED
        BY <2>3, <2>4, <3>1, <3>3, <4>2, <4>4
    <3> QED
      <4>1. i + Rate <= n + 1 /\ i \in Nat /\ Rate \in Nat
        BY <1>0, <2>3, <2>9, <3>1, LimiterAssumption
      <4>2. i + Rate <= n \/ i + Rate = n + 1
        BY <1>0, <4>1
      <4> QED
        BY <3>2, <3>3, <4>2
  <2> QED
    BY <2>6, <2>7, <2>8, <2>9 DEF Counted
<1> QED
  BY <1>3, <1>4, <1>5, <1>6, <1>7 DEF Limiting

LEMMA CountedIsTwice == LimiterType /\ (\A k \in Key : Counted(k)) => TwiceAtMost
<1> SUFFICES ASSUME LimiterType, \A k \in Key : Counted(k),
                    NEW k \in Key, NEW i \in 1 .. Len(log[k]), i + 2 * Rate <= Len(log[k])
             PROVE  log[k][i + 2 * Rate] > log[k][i] + Span
  BY DEF TwiceAtMost
<1> DEFINE L == log[k]
<1>0. /\ Len(L) \in Nat /\ \A j \in 1 .. Len(L) : L[j] \in Nat
  <2>1. L \in Seq(0 .. MaxTime)
    BY DEF LimiterType
  <2>2. \A j \in 1 .. Len(L) : L[j] \in 0 .. MaxTime
    BY <2>1, ElementOfSeq
  <2> QED
    BY <2>1, <2>2
<1>1. /\ i + Rate \in 1 .. Len(L) /\ i + 2 * Rate \in 1 .. Len(L)
      /\ (i + Rate) + Rate = i + 2 * Rate
  BY <1>0, LimiterAssumption
<1>2. Minute(L[i]) < Minute(L[i + Rate]) /\ Minute(L[i + Rate]) < Minute(L[i + 2 * Rate])
  BY <1>0, <1>1 DEF Counted
<1>3. \A j \in 1 .. Len(L) : Minute(L[j]) \in Nat
  BY <1>0, MinuteType
<1>4. Minute(L[i]) + 2 <= Minute(L[i + 2 * Rate])
  BY <1>1, <1>2, <1>3
<1> QED
  BY <1>0, <1>1, <1>4, AMinuteBetween

-----------------------------------------------------------------------------
(* The rows of a query. *)

Tables ==
  at \in [Message -> 0 .. MaxRank] /\ live \subseteq Message /\ match \subseteq live

LEMMA LeastType ==
  ASSUME NEW m \in Nat, NEW n \in Nat
  PROVE  Least(m, n) \in Nat /\ Least(m, n) <= m /\ Least(m, n) <= n
         /\ (Least(m, n) = m \/ Least(m, n) = n)
BY DEF Least

LEMMA RowsFound ==
  ASSUME Tables, NEW c \in 0 .. First, NEW p \in Rows(c)
  PROVE  /\ p \in Seq(Message) /\ Len(p) <= Limit + 1
         /\ \A i \in 1 .. Len(p) : p[i] \in Older(c)
         /\ \A i, j \in 1 .. Len(p) : i < j => p[i] # p[j] /\ at[p[i]] >= at[p[j]]
         /\ \A m \in Older(c) :
              \/ \E i \in 1 .. Len(p) : p[i] = m
              \/ Len(p) = Limit + 1 /\ \A i \in 1 .. Len(p) : at[m] <= at[p[i]]
<1> DEFINE S == Older(c)
<1> DEFINE n == Least(Limit + 1, Cardinality(S))
<1>1. S \subseteq Message /\ IsFiniteSet(S) /\ Cardinality(S) \in Nat
  <2>1. S \in SUBSET Message
    BY DEF Older, Tables
  <2> QED
    BY <2>1, ListingAssumption, FS_Subset, FS_CardinalityType
<1>2. n \in Nat /\ n <= Limit + 1 /\ (n = Limit + 1 \/ n = Cardinality(S))
  BY <1>1, LeastType, ListingAssumption
<1>3. /\ p \in [1 .. n -> S]
      /\ \A i, j \in 1 .. n : i < j => p[i] # p[j] /\ at[p[i]] >= at[p[j]]
      /\ \A m \in S : (\E i \in 1 .. n : p[i] = m) \/ \A i \in 1 .. n : at[m] <= at[p[i]]
  BY DEF Rows
<1> HIDE DEF n
<1>4. p \in Seq(S) /\ Len(p) = n
  BY <1>2, <1>3
<1>5. p \in Seq(Message)
  BY <1>1, <1>4, SeqMonotonic
<1>6. ASSUME n = Cardinality(S), NEW m \in S PROVE \E i \in 1 .. n : p[i] = m
  <2>1. \A i, j \in 1 .. n : p[i] = p[j] => i = j
    BY <1>2, <1>3
  <2>2. p \in Injection(1 .. n, S)
    BY <1>3, <2>1, Fun_IsInj
  <2>3. IsFiniteSet(1 .. n) /\ Cardinality(1 .. n) = n
    BY <1>2, FS_Interval
  <2>4. p \in Surjection(1 .. n, S)
    BY <1>1, <1>6, <2>2, <2>3, FS_Injection
  <2> QED
    BY <1>6, <2>4 DEF Surjection
<1> QED
  BY <1>2, <1>3, <1>4, <1>5, <1>6

-----------------------------------------------------------------------------
(* The types of the clients. *)

LEMMA FreshType == Tables => Fresh \in Walks
<1>1. ASSUME Tables PROVE First \in 0 .. First /\ 0 \in 0 .. MaxRank
                          /\ live \intersect match \in SUBSET Message
  BY <1>1, ListingAssumption DEF First, Tables
<1>2. <<>> \in Seq(Message)
  OBVIOUS
<1> QED
  BY <1>1, <1>2 DEF Fresh, Walks

LEMMA TablesStep == Tables /\ [Next]_vars => Tables'
<1> SUFFICES ASSUME Tables, [Next]_vars PROVE Tables'
  OBVIOUS
<1>1. ASSUME NEW m \in Message, NEW r \in Rank, Store(m, r) PROVE Tables'
  BY <1>1, ListingAssumption DEF Store, Rank, Tables
<1>2. ASSUME NEW m \in Message, Rematch(m) PROVE Tables'
  BY <1>2 DEF Rematch, Tables
<1>3. ASSUME NEW r \in Rank, Cleanup(r) PROVE Tables'
  BY <1>3 DEF Cleanup, Tables
<1>4. ASSUME UNCHANGED <<at, live, match>> PROVE Tables'
  BY <1>4 DEF Tables
<1> QED
  BY <1>1, <1>2, <1>3, <1>4 DEF Next, Query, Read, Fails, Answer, Begin, TakeCursor, Call, Restart,
     vars

\* A client's walk begins or goes on.
Goes(w) ==
  \/ Query(w) \/ Read(w) \/ Fails(w) \/ Answer(w) \/ Begin(w)
  \/ \E ok \in BOOLEAN : TakeCursor(w, ok)

\* What is left of a client's walk that is left alone.
Unmoved(w) ==
  LET V == walk[w]  W == walk'[w] IN
  /\ W.pc = V.pc /\ W.cursor = V.cursor /\ W.page = V.page /\ W.left = V.left /\ W.next = V.next
  /\ W.shown = V.shown /\ W.twice = V.twice /\ W.cut = V.cut
  /\ W.steady \subseteq V.steady

\* The client asks for the page again.
Again(w) ==
  LET V == walk[w]  W == walk'[w] IN
  /\ V.pc \in {"cursor", "read"} /\ W.pc = "idle"
  /\ W.cursor = V.cursor /\ W.page = <<>> /\ W.left = <<>> /\ W.next = V.next
  /\ W.shown = V.shown /\ W.twice = V.twice /\ ~W.cut
  /\ W.steady = V.steady

LEMMA WithoutWalk ==
  ASSUME walk \in [Client -> Walks], NEW S, Without(S), NEW w \in Client
  PROVE  /\ walk' \in [Client -> Walks] /\ Unmoved(w)
         /\ walk'[w].steady = walk[w].steady \ S
<1>1. \A v \in Client : walk'[v] = [walk[v] EXCEPT !.steady = @ \ S]
  BY DEF Without
<1>2. ASSUME NEW v \in Client PROVE walk'[v] \in Walks
  <2>1. walk[v] \in Walks /\ walk[v].steady \ S \in SUBSET Message
    BY DEF Walks
  <2> QED
    BY <1>1, <2>1 DEF Walks
<1>3. walk' \in [Client -> Walks]
  BY <1>2 DEF Without
<1> QED
  BY <1>1, <1>3 DEF Walks, Unmoved

LEMMA ReadWalk ==
  ASSUME walk \in [Client -> Walks], NEW w \in Client, Read(w)
  PROVE  LET V == walk[w]  W == walk'[w] IN
         /\ W \in Walks /\ V.pc = "read" /\ W.pc = "read" /\ V.left # <<>> /\ Head(V.left) \in live
         /\ W.left = Tail(V.left) /\ W.page = V.page /\ W.next = V.next /\ W.cursor = V.cursor
         /\ W.shown = V.shown /\ W.twice = V.twice /\ W.cut = V.cut /\ W.steady = V.steady
<1>1. walk'[w] = [walk[w] EXCEPT !.left = Tail(@)] /\ walk[w] \in Walks
  BY DEF Read
<1>2. walk[w].pc = "read" /\ walk[w].left # <<>> /\ Head(walk[w].left) \in live
  BY DEF Read
<1>3. walk[w].left \in Seq(Message)
  BY <1>1 DEF Walks
<1>4. Tail(walk[w].left) \in Seq(Message)
  BY <1>2, <1>3, HeadTailProperties
<1> QED
  BY <1>1, <1>2, <1>4 DEF Walks

LEMMA FailsWalk ==
  ASSUME walk \in [Client -> Walks], NEW w \in Client, Fails(w)
  PROVE  walk'[w] \in Walks /\ Again(w)
<1>1. walk'[w] = [walk[w] EXCEPT !.pc = "idle", !.page = <<>>, !.left = <<>>, !.cut = FALSE]
      /\ walk[w] \in Walks
  BY DEF Fails
<1>2. walk[w].pc \in {"cursor", "read"} /\ <<>> \in Seq(Message)
  BY DEF Fails
<1> QED
  BY <1>1, <1>2 DEF Walks, Again

LEMMA RestartWalk ==
  ASSUME walk \in [Client -> Walks], NEW w \in Client, Restart
  PROVE  walk' \in [Client -> Walks] /\ (Again(w) \/ Unmoved(w))
<1>0. <<>> \in Seq(Message)
  OBVIOUS
<1>1. ASSUME NEW v \in Client PROVE walk'[v] \in Walks /\ (Again(v) \/ Unmoved(v))
  <2>0. walk[v] \in Walks
    OBVIOUS
  <2>1. CASE walk[v].pc \in {"cursor", "read"}
    <3>1. walk'[v] = [walk[v] EXCEPT !.pc = "idle", !.page = <<>>, !.left = <<>>, !.cut = FALSE]
      BY <2>1 DEF Restart
    <3> QED
      BY <1>0, <2>0, <2>1, <3>1 DEF Walks, Again
  <2>2. CASE walk[v].pc \notin {"cursor", "read"}
    <3>1. walk'[v] = walk[v]
      BY <2>2 DEF Restart
    <3> QED
      BY <2>0, <3>1 DEF Unmoved
  <2> QED
    BY <2>1, <2>2
<1>2. walk' \in [Client -> Walks]
  BY <1>1 DEF Restart
<1> QED
  BY <1>1, <1>2

LEMMA QueryWalk ==
  ASSUME Tables, walk \in [Client -> Walks], NEW w \in Client, Query(w)
  PROVE  LET V == walk[w]  W == walk'[w] IN
         /\ W \in Walks /\ V.pc = "idle"
         /\ W.next = 0 /\ W.cursor = V.cursor
         /\ W.shown = V.shown /\ W.twice = V.twice /\ W.steady = V.steady
         /\ \E p \in Rows(V.cursor) : \E n \in 0 .. Len(p) :
              /\ W.page = SubSeq(p, 1, n) /\ W.left = SubSeq(p, 1, Least(n, Limit))
              /\ W.pc = IF n > Limit THEN "cursor" ELSE "read"
              /\ W.cut <=> n < Len(p)
<1> DEFINE Found(p, n) ==
             walk' = [walk EXCEPT ![w].page = SubSeq(p, 1, n), ![w].next = 0, ![w].cut = n < Len(p),
                                  ![w].pc = IF n > Limit THEN "cursor" ELSE "read",
                                  ![w].left = SubSeq(p, 1, Least(n, Limit))]
<1>a. PICK p \in Rows(walk[w].cursor) : \E n \in 0 .. Len(p) : Found(p, n)
  BY DEF Query
<1>1. PICK n \in 0 .. Len(p) : Found(p, n)
  BY <1>a
<1>2. /\ walk[w] \in Walks /\ walk[w].cursor \in 0 .. First /\ walk[w].pc = "idle"
      /\ 0 \in 0 .. MaxRank
  BY ListingAssumption DEF Query, Walks
<1>3. p \in Seq(Message)
  BY <1>1, <1>2, RowsFound
<1>4. n \in Nat /\ n <= Len(p) /\ Least(n, Limit) \in Nat /\ Least(n, Limit) <= Len(p)
  <2>1. Len(p) \in Nat /\ Limit \in Nat
    BY <1>3, ListingAssumption
  <2>2. n \in Nat /\ n <= Len(p)
    BY <2>1
  <2>3. Least(n, Limit) \in Nat /\ Least(n, Limit) <= n
    BY <2>1, <2>2, LeastType
  <2> QED
    BY <2>1, <2>2, <2>3
<1>5. ASSUME NEW k \in Nat, k <= Len(p) PROVE SubSeq(p, 1, k) \in Seq(Message)
  BY <1>3, <1>5
<1>6. SubSeq(p, 1, n) \in Seq(Message) /\ SubSeq(p, 1, Least(n, Limit)) \in Seq(Message)
  BY <1>4, <1>5
<1>7. walk'[w] = [walk[w] EXCEPT !.page = SubSeq(p, 1, n), !.next = 0, !.cut = n < Len(p),
                                 !.pc = IF n > Limit THEN "cursor" ELSE "read",
                                 !.left = SubSeq(p, 1, Least(n, Limit))]
  BY <1>1
<1> DEFINE W == walk'[w]
<1>8. /\ W.page = SubSeq(p, 1, n) /\ W.left = SubSeq(p, 1, Least(n, Limit)) /\ W.next = 0
      /\ W.pc = IF n > Limit THEN "cursor" ELSE "read"
  BY <1>2, <1>7 DEF Walks
<1>9. /\ W.cursor = walk[w].cursor /\ W.shown = walk[w].shown /\ W.twice = walk[w].twice
      /\ W.steady = walk[w].steady
  BY <1>2, <1>7 DEF Walks
<1>10. W.cut <=> n < Len(p)
  BY <1>2, <1>7 DEF Walks
<1>11. W \in Walks
  <2>1. ASSUME NEW V \in Walks, NEW page \in Seq(Message), NEW left \in Seq(Message),
               NEW pc \in {"cursor", "read"}, NEW cut \in BOOLEAN
        PROVE  [V EXCEPT !.page = page, !.next = 0, !.cut = cut, !.pc = pc, !.left = left] \in Walks
    BY <1>2 DEF Walks
  <2> DEFINE cut == n < Len(p)
  <2> DEFINE pc == IF n > Limit THEN "cursor" ELSE "read"
  <2> DEFINE page == SubSeq(p, 1, n)
  <2> DEFINE left == SubSeq(p, 1, Least(n, Limit))
  <2>2. /\ cut \in BOOLEAN /\ pc \in {"cursor", "read"}
        /\ page \in Seq(Message) /\ left \in Seq(Message)
    BY <1>6
  <2>3. walk'[w] = [walk[w] EXCEPT !.page = page, !.next = 0, !.cut = cut, !.pc = pc, !.left = left]
    BY <1>7
  <2> HIDE DEF cut, pc, page, left
  <2> QED
    <3>1. [walk[w] EXCEPT !.page = page, !.next = 0, !.cut = cut, !.pc = pc, !.left = left] \in Walks
      BY <1>2, <2>1, <2>2
    <3> QED
      BY <2>3, <3>1
<1> QED
  BY <1>1, <1>2, <1>8, <1>9, <1>10, <1>11

LEMMA TakeCursorWalk ==
  ASSUME Tables, walk \in [Client -> Walks], NEW w \in Client, NEW ok \in BOOLEAN,
         TakeCursor(w, ok), LastOfPage(w) \in Message
  PROVE  LET V == walk[w]  W == walk'[w] IN
         /\ W \in Walks /\ V.pc = "cursor" /\ W.pc = "read"
         /\ W.next = IF ok THEN at[LastOfPage(w)] ELSE 0
         /\ W.cut <=> V.cut \/ (~ok /\ LastOfPage(w) \in live)
         /\ W.left = V.left /\ W.page = V.page /\ W.cursor = V.cursor
         /\ W.shown = V.shown /\ W.twice = V.twice /\ W.steady = V.steady
<1> DEFINE last == LastOfPage(w)
<1>1. /\ walk[w] \in Walks /\ walk[w].pc = "cursor"
      /\ walk' = [walk EXCEPT ![w].pc = "read", ![w].next = IF ok THEN at[last] ELSE 0,
                              ![w].cut = @ \/ (~ok /\ last \in live)]
  BY DEF TakeCursor
<1>2. walk'[w] = [walk[w] EXCEPT !.pc = "read", !.next = IF ok THEN at[last] ELSE 0,
                                 !.cut = @ \/ (~ok /\ last \in live)]
  BY <1>1
<1>3. (IF ok THEN at[last] ELSE 0) \in 0 .. MaxRank
  BY ListingAssumption DEF Tables
<1>4. /\ walk'[w].pc = "read" /\ walk'[w].next = IF ok THEN at[last] ELSE 0
      /\ walk'[w].left = walk[w].left /\ walk'[w].page = walk[w].page
      /\ walk'[w].cursor = walk[w].cursor
  BY <1>1, <1>2 DEF Walks
<1>5. /\ walk'[w].shown = walk[w].shown /\ walk'[w].twice = walk[w].twice
      /\ walk'[w].steady = walk[w].steady
  BY <1>1, <1>2 DEF Walks
<1>6. walk'[w].cut <=> walk[w].cut \/ (~ok /\ last \in live)
  BY <1>1, <1>2 DEF Walks
<1>7. walk'[w] \in Walks
  BY <1>1, <1>2, <1>3 DEF Walks
<1> QED
  BY <1>1, <1>4, <1>5, <1>6, <1>7

\* The messages that are shown of the page.
Page(w) == {walk[w].page[i] : i \in 1 .. Least(Limit, Len(walk[w].page))}

LEMMA AnswerWalk ==
  ASSUME walk \in [Client -> Walks], NEW w \in Client, Answer(w)
  PROVE  LET V == walk[w]  W == walk'[w] IN
         /\ W \in Walks /\ V.pc = "read" /\ V.left = <<>>
         /\ W.pc = IF V.next = 0 THEN "done" ELSE "idle"
         /\ W.cursor = V.next /\ W.page = <<>> /\ W.left = V.left /\ W.next = V.next
         /\ W.shown = V.shown \union Page(w)
         /\ W.twice <=> V.twice \/ V.shown \intersect Page(w) # {}
         /\ W.cut = V.cut /\ W.steady = V.steady
<1> DEFINE V == walk[w]
<1>0. V \in Walks /\ V.pc = "read" /\ V.left = <<>> /\ <<>> \in Seq(Message)
  <2>1. V.pc = "read" /\ V.left = <<>>
    BY DEF Answer
  <2> QED
    BY <2>1
<1>1. /\ V \in Walks /\ V.pc = "read" /\ V.left = <<>> /\ <<>> \in Seq(Message)
      /\ walk' = [walk EXCEPT ![w].pc = IF V.next = 0 THEN "done" ELSE "idle",
                              ![w].cursor = V.next, ![w].page = <<>>,
                              ![w].shown = @ \union Page(w),
                              ![w].twice = @ \/ V.shown \intersect Page(w) # {}]
  BY <1>0, Zenon DEF Answer, Page
<1>2. walk'[w] = [V EXCEPT !.pc = IF V.next = 0 THEN "done" ELSE "idle",
                           !.cursor = V.next, !.page = <<>>,
                           !.shown = @ \union Page(w),
                           !.twice = @ \/ V.shown \intersect Page(w) # {}]
  BY <1>1
<1>3. V.next \in 0 .. First
  BY <1>1, ListingAssumption DEF Walks, First
<1>4. Page(w) \subseteq Message
  <2>1. V.page \in Seq(Message) /\ Len(V.page) \in Nat
    BY <1>1 DEF Walks
  <2>2. \A i \in 1 .. Least(Limit, Len(V.page)) : i \in 1 .. Len(V.page)
    <3>1. /\ Least(Limit, Len(V.page)) \in Nat
          /\ Least(Limit, Len(V.page)) <= Len(V.page)
      BY <2>1, LeastType, ListingAssumption
    <3> QED
      BY <2>1, <3>1
  <2>3. \A i \in 1 .. Len(V.page) : V.page[i] \in Message
    BY <2>1, ElementOfSeq
  <2> QED
    BY <2>2, <2>3 DEF Page
<1>5. /\ walk'[w].pc = IF V.next = 0 THEN "done" ELSE "idle"
      /\ walk'[w].cursor = V.next /\ walk'[w].page = <<>> /\ walk'[w].left = V.left
      /\ walk'[w].next = V.next
  BY <1>1, <1>2 DEF Walks
<1>6. /\ walk'[w].shown = V.shown \union Page(w)
      /\ walk'[w].cut = V.cut /\ walk'[w].steady = V.steady
  BY <1>1, <1>2 DEF Walks
<1>7. walk'[w].twice <=> V.twice \/ V.shown \intersect Page(w) # {}
  BY <1>1, <1>2 DEF Walks
<1>8. walk'[w] \in Walks
  BY <1>1, <1>2, <1>3, <1>4 DEF Walks
<1> QED
  BY <1>1, <1>5, <1>6, <1>7, <1>8

WalksType == walk \in [Client -> Walks]

LEMMA OthersWalk ==
  ASSUME WalksType, NEW w \in Client, Goes(w), NEW v \in Client, v # w
  PROVE  walk'[v] = walk[v]
BY DEF WalksType, Goes, Query, Read, Fails, Answer, Begin, TakeCursor

\* One client's walk has a walk's type when it goes on: so have all of them.
LEMMA GoesWalk ==
  ASSUME WalksType, NEW w \in Client, Goes(w), walk'[w] \in Walks
  PROVE  WalksType'
<1>1. \E W : walk' = [walk EXCEPT ![w] = W]
  <2>1. walk' = [walk EXCEPT ![w] = walk'[w]]
    <3>1. DOMAIN walk' = Client /\ walk' = [v \in Client |-> walk'[v]]
      BY DEF WalksType, Goes, Query, Read, Fails, Answer, Begin, TakeCursor
    <3> QED
      BY <3>1, OthersWalk DEF WalksType
  <2> QED
    BY <2>1
<1> QED
  BY <1>1 DEF WalksType

-----------------------------------------------------------------------------
(* What a walk is given. *)

Stored == \A m \in live : at[m] # 0

\* Message m is on the page, among those that are shown.
Paged(w, m) == \E i \in 1 .. Least(Limit, Len(walk[w].page)) : walk[w].page[i] = m

\* What is shown is not older than the cursor, and what is on the page is.
InOrder(w) ==
  LET W == walk[w] IN
  /\ ~W.twice
  /\ \A m \in W.shown : at[m] # 0 /\ at[m] >= W.cursor
  /\ \A i \in 1 .. Len(W.left) : at[W.left[i]] # 0
  /\ \A i \in 1 .. Len(W.page) : at[W.page[i]] # 0 /\ at[W.page[i]] < W.cursor
  /\ \A i, j \in 1 .. Len(W.page) :
       i < j => W.page[i] # W.page[j] /\ at[W.page[i]] >= at[W.page[j]]

\* The next cursor is the time of the page's last message.
Cursors(w) ==
  LET W == walk[w] IN
  /\ W.pc \in {"idle", "cursor"} => ~W.cut
  /\ W.pc = "cursor" \/ (W.pc = "read" /\ W.next # 0) =>
       /\ Len(W.page) = Limit + 1 /\ ~W.cut
       /\ W.pc = "cursor" => Len(W.left) = Limit /\ W.left[Limit] = W.page[Limit]
       /\ W.pc = "read" => W.next = at[W.page[Limit]]

\* What was there all along was shown, is on the page, or is older than it.
Covered(w) ==
  LET W == walk[w] IN
  /\ W.steady \subseteq live \intersect match
  /\ W.pc \in {"idle", "cursor", "read"} =>
       \A m \in W.steady : m \in W.shown \/ Twin(m) \/ at[m] < W.cursor
  /\ W.pc = "cursor" =>
       \A m \in W.steady : at[m] < W.cursor =>
         Paged(w, m) \/ Twin(m) \/ at[m] < at[W.page[Limit]]
  /\ W.pc = "read" /\ ~W.cut =>
       \/ \E i \in 1 .. Len(W.left) : W.left[i] \notin live
       \/ \A m \in W.steady : at[m] < W.cursor => Paged(w, m) \/ Twin(m) \/ at[m] < W.next
  /\ W.pc = "done" /\ ~W.cut => \A m \in W.steady : m \in W.shown \/ Twin(m)

Walking(w) == InOrder(w) /\ Cursors(w) /\ Covered(w)

\* The messages only come and go: their times stay, and none comes back.
Kept ==
  \A m \in Message : at[m] # 0 => at'[m] = at[m] /\ (m \in live' => m \in live)

LEMMA WalkFacts ==
  ASSUME Tables, WalksType, NEW w \in Client
  PROVE  LET W == walk[w] IN
         /\ W \in Walks
         /\ W.page \in Seq(Message) /\ Len(W.page) \in Nat
         /\ \A i \in 1 .. Len(W.page) : W.page[i] \in Message /\ at[W.page[i]] \in Nat
         /\ W.left \in Seq(Message) /\ Len(W.left) \in Nat
         /\ \A i \in 1 .. Len(W.left) : W.left[i] \in Message
         /\ W.shown \subseteq Message /\ W.steady \subseteq Message
         /\ W.cursor \in Nat /\ W.next \in Nat /\ W.twice \in BOOLEAN /\ W.cut \in BOOLEAN
         /\ \A m \in Message : at[m] \in Nat
         /\ Limit \in Nat /\ Limit >= 1 /\ MaxRank \in Nat
<1> DEFINE W == walk[w]
<1>1. W \in Walks
  BY DEF WalksType
<1>2. Limit \in Nat /\ Limit >= 1 /\ MaxRank \in Nat
  BY ListingAssumption
<1>3. \A m \in Message : at[m] \in Nat
  BY <1>2 DEF Tables
<1>4. W.page \in Seq(Message) /\ W.left \in Seq(Message)
  BY <1>1 DEF Walks
<1>5. /\ W.shown \subseteq Message /\ W.steady \subseteq Message
      /\ W.twice \in BOOLEAN /\ W.cut \in BOOLEAN
  BY <1>1 DEF Walks
<1>6. W.cursor \in Nat /\ W.next \in Nat
  BY <1>1, <1>2 DEF Walks, First
<1>7. /\ \A i \in 1 .. Len(W.page) : W.page[i] \in Message
      /\ \A i \in 1 .. Len(W.left) : W.left[i] \in Message
  BY <1>4, ElementOfSeq
<1>8. Len(W.page) \in Nat /\ Len(W.left) \in Nat
  BY <1>4
<1> QED
  BY <1>1, <1>2, <1>3, <1>4, <1>5, <1>6, <1>7, <1>8

\* A walk that is left alone stays right while messages come and go.
LEMMA UnmovedStep ==
  ASSUME Tables, Stored, WalksType, NEW w \in Client, Walking(w), Unmoved(w), Kept,
         walk'[w].steady \subseteq live' \intersect match'
  PROVE  Walking(w)'
<1> DEFINE V == walk[w]
<1> DEFINE W == walk'[w]
<1>0. /\ W.pc = V.pc /\ W.cursor = V.cursor /\ W.page = V.page /\ W.left = V.left /\ W.next = V.next
      /\ W.shown = V.shown /\ W.twice = V.twice /\ W.cut = V.cut
      /\ W.steady \subseteq V.steady
  BY DEF Unmoved
<1>1. /\ V.shown \subseteq Message /\ V.steady \subseteq Message
      /\ \A i \in 1 .. Len(V.page) : V.page[i] \in Message
      /\ \A i \in 1 .. Len(V.left) : V.left[i] \in Message
      /\ Limit \in Nat /\ Limit >= 1 /\ Len(V.page) \in Nat
  BY WalkFacts
<1>2. InOrder(w)'
  <2>1. InOrder(w)
    BY DEF Walking
  <2>2. \A m \in V.shown : at'[m] = at[m]
    BY <1>1, <2>1 DEF InOrder, Kept
  <2>3. \A i \in 1 .. Len(V.left) : at'[V.left[i]] = at[V.left[i]]
    BY <1>1, <2>1 DEF InOrder, Kept
  <2>4. \A i \in 1 .. Len(V.page) : at'[V.page[i]] = at[V.page[i]]
    BY <1>1, <2>1 DEF InOrder, Kept
  <2> QED
    BY <1>0, <2>1, <2>2, <2>3, <2>4 DEF InOrder
<1>3. ASSUME Len(V.page) = Limit + 1 PROVE at'[V.page[Limit]] = at[V.page[Limit]]
  BY <1>1, <1>3 DEF Walking, InOrder, Kept
<1>4. Cursors(w)'
  BY <1>0, <1>3 DEF Walking, Cursors
<1>5. ASSUME NEW m \in W.steady PROVE at'[m] = at[m] /\ (Twin(m) => Twin(m)')
  <2>1. m \in Message /\ at[m] # 0
    BY <1>0, <1>1 DEF Walking, Covered, Stored
  <2>2. at'[m] = at[m]
    BY <2>1 DEF Kept
  <2>3. ASSUME NEW n \in Message \ {m}, at[n] = at[m] PROVE at'[n] = at'[m]
    BY <2>1, <2>2, <2>3 DEF Kept
  <2> QED
    BY <2>2, <2>3 DEF Twin
<1>6. \A m \in Message : Paged(w, m) => Paged(w, m)'
  BY <1>0 DEF Paged
<1>7. Covered(w)'
  <2>0. Covered(w) /\ Cursors(w)
    BY DEF Walking
  <2>1. W.pc \in {"idle", "cursor", "read"} =>
          \A m \in W.steady : m \in W.shown \/ Twin(m)' \/ at'[m] < W.cursor
    BY <1>0, <1>5, <2>0 DEF Covered
  <2>2. W.pc = "cursor" =>
          \A m \in W.steady : at'[m] < W.cursor =>
            Paged(w, m)' \/ Twin(m)' \/ at'[m] < at'[W.page[Limit]]
    BY <1>0, <1>1, <1>3, <1>5, <1>6, <2>0 DEF Covered, Cursors
  <2>3. ASSUME NEW i \in 1 .. Len(V.left), V.left[i] \notin live PROVE V.left[i] \notin live'
    BY <1>1, <2>3 DEF Walking, InOrder, Kept
  <2>4. W.pc = "read" /\ ~W.cut =>
          \/ \E i \in 1 .. Len(W.left) : W.left[i] \notin live'
          \/ \A m \in W.steady : at'[m] < W.cursor => Paged(w, m)' \/ Twin(m)' \/ at'[m] < W.next
    BY <1>0, <1>1, <1>5, <1>6, <2>0, <2>3 DEF Covered
  <2>5. W.pc = "done" /\ ~W.cut => \A m \in W.steady : m \in W.shown \/ Twin(m)'
    BY <1>0, <1>5, <2>0 DEF Covered
  <2> QED
    BY <2>1, <2>2, <2>4, <2>5 DEF Covered
<1> QED
  BY <1>2, <1>4, <1>7 DEF Walking

LEMMA AgainStep ==
  ASSUME NEW w \in Client, Walking(w), Again(w), UNCHANGED <<at, live, match>>
  PROVE  Walking(w)'
<1>1. InOrder(w)'
  BY DEF Walking, Again, InOrder
<1>2. Cursors(w)'
  BY DEF Again, Cursors
<1>3. Covered(w)'
  BY DEF Walking, Again, Covered, Twin
<1> QED
  BY <1>1, <1>2, <1>3 DEF Walking

LEMMA ReadStep ==
  ASSUME Tables, WalksType, NEW w \in Client, Walking(w), Read(w)
  PROVE  Walking(w)' /\ walk'[w] \in Walks
<1> DEFINE V == walk[w]
<1> DEFINE W == walk'[w]
<1>1. /\ W \in Walks /\ V.pc = "read" /\ W.pc = "read" /\ V.left # <<>> /\ Head(V.left) \in live
      /\ W.left = Tail(V.left) /\ W.page = V.page /\ W.next = V.next /\ W.cursor = V.cursor
      /\ W.shown = V.shown /\ W.twice = V.twice /\ W.cut = V.cut /\ W.steady = V.steady
  BY ReadWalk DEF WalksType
<1>2. V.left \in Seq(Message) /\ Len(V.left) \in Nat
  BY WalkFacts
<1>3. /\ Len(W.left) = Len(V.left) - 1 /\ V.left[1] = Head(V.left)
      /\ \A i \in 1 .. Len(W.left) : W.left[i] = V.left[i + 1]
  BY <1>1, <1>2, HeadTailProperties
<1>4. UNCHANGED <<at, live, match>>
  BY DEF Read
<1>5. InOrder(w)'
  <2>1. \A i \in 1 .. Len(W.left) : at[W.left[i]] # 0
    <3>1. \A i \in 1 .. Len(W.left) : i + 1 \in 1 .. Len(V.left)
      BY <1>2, <1>3
    <3>2. \A i \in 1 .. Len(V.left) : at[V.left[i]] # 0
      BY DEF Walking, InOrder
    <3> QED
      BY <1>3, <3>1, <3>2
  <2> QED
    BY <1>1, <1>4, <2>1 DEF Walking, InOrder
<1>6. Cursors(w)'
  BY <1>1, <1>4 DEF Walking, Cursors
<1>7. Covered(w)'
  <2>1. ASSUME NEW i \in 1 .. Len(V.left), V.left[i] \notin live
        PROVE  \E j \in 1 .. Len(W.left) : W.left[j] \notin live
    <3>1. i # 1
      BY <1>1, <1>3, <2>1
    <3>2. i - 1 \in 1 .. Len(W.left) /\ W.left[i - 1] = V.left[i]
      BY <1>2, <1>3, <3>1
    <3> QED
      BY <2>1, <3>2
  <2>2. \A m \in Message : (Twin(m) <=> Twin(m)') /\ (Paged(w, m) <=> Paged(w, m)')
    BY <1>1, <1>4 DEF Twin, Paged
  <2>3. V.steady \subseteq Message
    BY WalkFacts
  <2> QED
    BY <1>1, <1>4, <2>1, <2>2, <2>3 DEF Walking, Covered
<1> QED
  BY <1>1, <1>5, <1>6, <1>7 DEF Walking

LEMMA BeginStep ==
  ASSUME Tables, Stored, WalksType, NEW w \in Client, Begin(w)
  PROVE  Walking(w)' /\ walk'[w] \in Walks
<1> DEFINE W == walk'[w]
<1>1. W = Fresh /\ UNCHANGED <<at, live, match>>
  BY DEF Begin, WalksType
<1>2. /\ W.pc = "idle" /\ W.cursor = First /\ W.page = <<>> /\ W.left = <<>> /\ W.next = 0
      /\ W.shown = {} /\ W.steady = live \intersect match /\ ~W.twice /\ ~W.cut
  BY <1>1 DEF Fresh
<1>3. \A m \in W.steady : at[m] < W.cursor
  BY <1>2, ListingAssumption DEF Tables, First
<1>4. InOrder(w)' /\ Cursors(w)' /\ Covered(w)'
  BY <1>1, <1>2, <1>3 DEF InOrder, Cursors, Covered
<1> QED
  BY <1>1, <1>4, FreshType DEF Walking

LEMMA AnswerStep ==
  ASSUME Tables, WalksType, NEW w \in Client, Walking(w), Answer(w)
  PROVE  Walking(w)' /\ walk'[w] \in Walks
<1> DEFINE V == walk[w]
<1> DEFINE W == walk'[w]
<1>1. /\ W \in Walks /\ V.pc = "read" /\ V.left = <<>>
      /\ W.pc = IF V.next = 0 THEN "done" ELSE "idle"
      /\ W.cursor = V.next /\ W.page = <<>> /\ W.left = V.left /\ W.next = V.next
      /\ W.shown = V.shown \union Page(w)
      /\ W.twice <=> V.twice \/ V.shown \intersect Page(w) # {}
      /\ W.cut = V.cut /\ W.steady = V.steady
  BY AnswerWalk DEF WalksType
<1>2. /\ V.shown \subseteq Message /\ V.steady \subseteq Message
      /\ \A i \in 1 .. Len(V.page) : V.page[i] \in Message /\ at[V.page[i]] \in Nat
      /\ Limit \in Nat /\ Limit >= 1 /\ Len(V.page) \in Nat
      /\ V.cursor \in Nat /\ V.next \in Nat
      /\ \A m \in Message : at[m] \in Nat
  BY WalkFacts
<1>3. UNCHANGED <<at, live, match>>
  BY DEF Answer
<1>4. Least(Limit, Len(V.page)) \in Nat /\ Least(Limit, Len(V.page)) <= Len(V.page)
      /\ Least(Limit, Len(V.page)) <= Limit
  BY <1>2, LeastType
<1>5. InOrder(w)
  BY DEF Walking
<1>6. \A m \in Page(w) : m \in Message /\ at[m] # 0 /\ at[m] < V.cursor
  <2>1. \A i \in 1 .. Least(Limit, Len(V.page)) : i \in 1 .. Len(V.page)
    BY <1>2, <1>4
  <2> QED
    BY <1>2, <1>5, <2>1 DEF Page, InOrder
<1>7. V.next # 0 => \A m \in Page(w) : at[m] >= V.next
  <2> SUFFICES ASSUME V.next # 0, NEW i \in 1 .. Least(Limit, Len(V.page))
               PROVE  at[V.page[i]] >= V.next
    BY DEF Page
  <2>1. Len(V.page) = Limit + 1 /\ V.next = at[V.page[Limit]]
    BY <1>1 DEF Walking, Cursors
  <2>2. i \in 1 .. Len(V.page) /\ Limit \in 1 .. Len(V.page) /\ i <= Limit
    BY <1>2, <1>4, <2>1
  <2>3. i < Limit => at[V.page[i]] >= at[V.page[Limit]]
    BY <1>5, <2>2 DEF InOrder
  <2> QED
    BY <1>2, <2>1, <2>2, <2>3
<1>8. V.next # 0 => V.next < V.cursor
  <2>1. V.next # 0 => /\ Len(V.page) = Limit + 1 /\ V.next = at[V.page[Limit]]
                      /\ Limit \in 1 .. Len(V.page)
    BY <1>1, <1>2 DEF Walking, Cursors
  <2> QED
    BY <1>5, <2>1 DEF InOrder
<1>9. InOrder(w)'
  <2>1. ~W.twice
    BY <1>1, <1>2, <1>5, <1>6 DEF InOrder
  <2>2. ASSUME NEW m \in W.shown PROVE at[m] # 0 /\ at[m] >= V.next
    <3>1. CASE m \in V.shown
      BY <1>2, <1>5, <1>8, <3>1 DEF InOrder
    <3>2. CASE m \in Page(w)
      BY <1>2, <1>6, <1>7, <3>2
    <3> QED
      BY <1>1, <3>1, <3>2
  <2> QED
    BY <1>1, <1>3, <2>1, <2>2 DEF InOrder
<1>10. Cursors(w)'
  BY <1>1, <1>3 DEF Walking, Cursors
<1>11. \A m \in Message : Paged(w, m) => m \in Page(w)
  BY DEF Paged, Page
<1>12. Covered(w)'
  <2>0. Covered(w)
    BY DEF Walking
  <2>1. \A m \in V.steady : m \in V.shown \/ Twin(m) \/ at[m] < V.cursor
    BY <1>1, <2>0 DEF Covered
  <2>2. ~V.cut => \A m \in V.steady : at[m] < V.cursor => Paged(w, m) \/ Twin(m) \/ at[m] < V.next
    BY <1>1, <2>0 DEF Covered
  <2>3. V.next # 0 => ~V.cut
    BY <1>1 DEF Walking, Cursors
  <2>4. ~V.cut => \A m \in V.steady : m \in W.shown \/ Twin(m) \/ at[m] < V.next
    BY <1>1, <1>2, <1>11, <2>1, <2>2
  <2>5. \A m \in Message : Twin(m) <=> Twin(m)'
    BY <1>3 DEF Twin
  <2>6. W.pc \in {"idle", "cursor", "read"} =>
          \A m \in W.steady : m \in W.shown \/ Twin(m)' \/ at[m] < W.cursor
    BY <1>1, <1>2, <2>3, <2>4, <2>5
  <2>7. W.pc = "done" /\ ~W.cut => \A m \in W.steady : m \in W.shown \/ Twin(m)'
    BY <1>1, <1>2, <2>4, <2>5
  <2>8. W.pc \notin {"cursor", "read"} /\ W.steady \subseteq live \intersect match
    BY <1>1, <2>0 DEF Covered
  <2> QED
    BY <1>3, <2>6, <2>7, <2>8 DEF Covered
<1> QED
  BY <1>1, <1>9, <1>10, <1>12 DEF Walking

LEMMA TakeCursorStep ==
  ASSUME Tables, Stored, WalksType, NEW w \in Client, Walking(w), NEW ok \in BOOLEAN,
         TakeCursor(w, ok)
  PROVE  Walking(w)' /\ walk'[w] \in Walks
<1> DEFINE V == walk[w]
<1> DEFINE W == walk'[w]
<1> DEFINE last == LastOfPage(w)
<1>0. /\ V.steady \subseteq Message /\ Limit \in Nat /\ Limit >= 1 /\ Len(V.page) \in Nat
      /\ \A i \in 1 .. Len(V.page) : V.page[i] \in Message
  BY WalkFacts
<1>1. V.pc = "cursor" /\ (ok => last \in live) /\ UNCHANGED <<at, live, match>>
  BY DEF TakeCursor
<1>2. /\ Len(V.page) = Limit + 1 /\ ~V.cut /\ Len(V.left) = Limit
      /\ V.left[Limit] = V.page[Limit] /\ last = V.page[Limit] /\ Limit \in 1 .. Len(V.page)
  BY <1>0, <1>1 DEF Walking, Cursors, LastOfPage
<1>3. /\ W \in Walks /\ W.pc = "read"
      /\ W.next = IF ok THEN at[last] ELSE 0
      /\ W.cut <=> V.cut \/ (~ok /\ last \in live)
      /\ W.left = V.left /\ W.page = V.page /\ W.cursor = V.cursor
      /\ W.shown = V.shown /\ W.twice = V.twice /\ W.steady = V.steady
  BY <1>0, <1>2, TakeCursorWalk DEF WalksType
<1>4. InOrder(w)'
  BY <1>1, <1>3 DEF Walking, InOrder
<1>5. Cursors(w)'
  BY <1>1, <1>2, <1>3 DEF Cursors
<1>6. \A m \in Message : (Twin(m) <=> Twin(m)') /\ (Paged(w, m) <=> Paged(w, m)')
  BY <1>1, <1>3 DEF Twin, Paged
<1>7. ~W.cut =>
        \/ \E i \in 1 .. Len(W.left) : W.left[i] \notin live
        \/ \A m \in W.steady : at[m] < W.cursor => Paged(w, m) \/ Twin(m) \/ at[m] < W.next
  <2>1. CASE ok
    BY <1>1, <1>2, <1>3, <2>1 DEF Walking, Covered
  <2>2. CASE ~ok
    <3>1. ~W.cut => last \notin live
      BY <1>3, <2>2
    <3>2. Limit \in 1 .. Len(W.left) /\ W.left[Limit] = last
      BY <1>0, <1>2, <1>3
    <3> QED
      BY <3>1, <3>2
  <2> QED
    BY <2>1, <2>2
<1>8. Covered(w)'
  BY <1>0, <1>1, <1>3, <1>6, <1>7 DEF Walking, Covered
<1> QED
  BY <1>3, <1>4, <1>5, <1>8 DEF Walking

LEMMA QueryStep ==
  ASSUME Tables, Stored, WalksType, NEW w \in Client, Walking(w), Query(w)
  PROVE  Walking(w)' /\ walk'[w] \in Walks
<1> DEFINE V == walk[w]
<1> DEFINE W == walk'[w]
<1>0. /\ V.steady \subseteq Message /\ Limit \in Nat /\ Limit >= 1
      /\ V.cursor \in 0 .. First /\ V.cursor \in Nat
      /\ \A m \in Message : at[m] \in Nat
  BY WalkFacts DEF Walks
<1>1. /\ W \in Walks /\ V.pc = "idle"
      /\ W.next = 0 /\ W.cursor = V.cursor
      /\ W.shown = V.shown /\ W.twice = V.twice /\ W.steady = V.steady
      /\ \E p \in Rows(V.cursor) : \E n \in 0 .. Len(p) :
           /\ W.page = SubSeq(p, 1, n) /\ W.left = SubSeq(p, 1, Least(n, Limit))
           /\ W.pc = IF n > Limit THEN "cursor" ELSE "read"
           /\ W.cut <=> n < Len(p)
  BY QueryWalk DEF WalksType
<1>2. PICK p \in Rows(V.cursor) : \E n \in 0 .. Len(p) :
        /\ W.page = SubSeq(p, 1, n) /\ W.left = SubSeq(p, 1, Least(n, Limit))
        /\ W.pc = IF n > Limit THEN "cursor" ELSE "read"
        /\ W.cut <=> n < Len(p)
  BY <1>1
<1>3. PICK n \in 0 .. Len(p) :
        /\ W.page = SubSeq(p, 1, n) /\ W.left = SubSeq(p, 1, Least(n, Limit))
        /\ W.pc = IF n > Limit THEN "cursor" ELSE "read"
        /\ W.cut <=> n < Len(p)
  BY <1>2
<1>4. UNCHANGED <<at, live, match>>
  BY DEF Query
<1>5. /\ p \in Seq(Message) /\ Len(p) <= Limit + 1
      /\ \A i \in 1 .. Len(p) : p[i] \in Older(V.cursor)
      /\ \A i, j \in 1 .. Len(p) : i < j => p[i] # p[j] /\ at[p[i]] >= at[p[j]]
      /\ \A m \in Older(V.cursor) :
           \/ \E i \in 1 .. Len(p) : p[i] = m
           \/ Len(p) = Limit + 1 /\ \A i \in 1 .. Len(p) : at[m] <= at[p[i]]
  BY <1>0, RowsFound
<1>6. n \in Nat /\ Len(p) \in Nat /\ n <= Len(p)
  BY <1>5
<1> DEFINE k == Least(n, Limit)
<1>7. k \in Nat /\ k <= n /\ k <= Limit /\ (k = n \/ k = Limit)
  BY <1>0, <1>6, LeastType
<1>8. /\ Len(W.page) = n /\ \A i \in 1 .. n : W.page[i] = p[i]
  BY <1>3, <1>5, <1>6
<1>9. /\ Len(W.left) = k /\ \A i \in 1 .. k : W.left[i] = p[i]
  <2>1. k <= Len(p)
    BY <1>6, <1>7
  <2>2. W.left = SubSeq(p, 1, k)
    BY <1>3
  <2> HIDE DEF k
  <2> QED
    BY <1>5, <1>7, <2>1, <2>2
<1>10. \A i \in 1 .. Len(p) : p[i] \in Message /\ p[i] \in match /\ at[p[i]] < V.cursor /\ at[p[i]] # 0
  BY <1>5 DEF Older, Tables, Stored
<1> HIDE DEF k
<1>11. InOrder(w)'
  <2>1. \A i \in 1 .. k : i \in 1 .. Len(p)
    BY <1>6, <1>7
  <2>2. \A i \in 1 .. Len(W.left) : at[W.left[i]] # 0
    BY <1>9, <1>10, <2>1
  <2>3. \A i \in 1 .. n : i \in 1 .. Len(p)
    BY <1>6
  <2>4. \A i \in 1 .. Len(W.page) : at[W.page[i]] # 0 /\ at[W.page[i]] < W.cursor
    BY <1>1, <1>8, <1>10, <2>3
  <2>5. \A i, j \in 1 .. Len(W.page) :
          i < j => W.page[i] # W.page[j] /\ at[W.page[i]] >= at[W.page[j]]
    BY <1>5, <1>8, <2>3
  <2> QED
    BY <1>1, <1>4, <2>2, <2>4, <2>5 DEF Walking, InOrder
<1>12. W.pc = "cursor" => n = Limit + 1 /\ Len(p) = n /\ k = Limit /\ Limit \in 1 .. Len(p)
  BY <1>0, <1>3, <1>5, <1>6, <1>7
<1>13. Cursors(w)'
  <2>1. W.pc = "cursor" => /\ Len(W.page) = Limit + 1 /\ ~W.cut
                           /\ Len(W.left) = Limit /\ W.left[Limit] = W.page[Limit]
    <3> SUFFICES ASSUME W.pc = "cursor"
                 PROVE  /\ Len(W.page) = Limit + 1 /\ ~W.cut
                        /\ Len(W.left) = Limit /\ W.left[Limit] = W.page[Limit]
      OBVIOUS
    <3>1. n = Limit + 1 /\ Len(p) = n /\ k = Limit /\ Limit \in 1 .. n /\ Limit \in 1 .. k
      BY <1>0, <1>12
    <3>2. ~W.cut
      BY <1>3, <1>6, <3>1
    <3>3. W.left[Limit] = p[Limit] /\ W.page[Limit] = p[Limit]
      BY <1>8, <1>9, <3>1
    <3> QED
      BY <1>8, <1>9, <3>1, <3>2, <3>3
  <2>2. W.pc \in {"cursor", "read"} /\ W.next = 0
    BY <1>1, <1>3
  <2> QED
    BY <2>1, <2>2 DEF Cursors
<1>14. \A m \in Message : Twin(m) <=> Twin(m)'
  BY <1>4 DEF Twin
<1>15. ASSUME NEW m \in V.steady, at[m] < V.cursor PROVE m \in Older(V.cursor)
  BY <1>15 DEF Walking, Covered, Older
<1>16. ASSUME W.pc = "cursor", NEW m \in V.steady, at[m] < V.cursor
       PROVE  Paged(w, m)' \/ Twin(m) \/ at[m] < at[W.page[Limit]]
  <2>0. n = Limit + 1 /\ Len(p) = n /\ Limit \in 1 .. n
    BY <1>12, <1>16
  <2>1. Least(Limit, Len(W.page)) = Limit
    BY <1>0, <1>8, <2>0 DEF Least
  <2>2. W.page[Limit] = p[Limit] /\ p[Limit] \in Message /\ m \in Message
    BY <1>0, <1>8, <1>10, <2>0
  <2>3. CASE \E i \in 1 .. Limit : p[i] = m
    <3>1. PICK i \in 1 .. Limit : p[i] = m
      BY <2>3
    <3>2. W.page[i] = m
      <4>1. i \in 1 .. n
        BY <1>0, <2>0
      <4> QED
        BY <1>8, <3>1, <4>1
    <3> QED
      BY <2>1, <3>2 DEF Paged
  <2>4. CASE ~\E i \in 1 .. Limit : p[i] = m
    <3>1. at[m] <= at[p[Limit]]
      <4>1. CASE \E i \in 1 .. Len(p) : p[i] = m
        <5>1. PICK i \in 1 .. Len(p) : p[i] = m
          BY <4>1
        <5>2. i = Limit + 1 /\ Limit < i
          BY <1>0, <2>0, <2>4, <5>1
        <5>3. at[p[Limit]] >= at[p[i]]
          BY <1>5, <2>0, <5>2
        <5> QED
          BY <1>0, <2>2, <5>1, <5>3
      <4>2. CASE ~\E i \in 1 .. Len(p) : p[i] = m
        BY <1>5, <1>15, <1>16, <2>0, <4>2
      <4> QED
        BY <4>1, <4>2
    <3>2. p[Limit] # m
      BY <1>0, <2>4
    <3>3. at[m] = at[p[Limit]] => Twin(m)
      BY <2>2, <3>2 DEF Twin
    <3> QED
      BY <1>0, <2>2, <3>1, <3>3
  <2> QED
    BY <2>3, <2>4
<1>17. ASSUME W.pc = "read", ~W.cut, NEW m \in V.steady, at[m] < V.cursor
       PROVE  Paged(w, m)'
  <2>1. n = Len(p) /\ n <= Limit
    BY <1>0, <1>3, <1>6, <1>17
  <2>2. \E i \in 1 .. n : p[i] = m
    BY <1>0, <1>5, <1>6, <1>15, <1>17, <2>1
  <2>3. Least(Limit, Len(W.page)) = n
    BY <1>0, <1>6, <1>8, <2>1 DEF Least
  <2> QED
    BY <1>8, <2>2, <2>3 DEF Paged
<1>18. Covered(w)'
  <2>1. W.pc \in {"cursor", "read"}
    BY <1>3
  <2>2. W.steady = V.steady /\ V.steady \subseteq live \intersect match
    BY <1>1 DEF Walking, Covered
  <2>3. \A m \in V.steady : m \in V.shown \/ Twin(m) \/ at[m] < V.cursor
    BY <1>1 DEF Walking, Covered
  <2>4. \A m \in W.steady : m \in W.shown \/ Twin(m)' \/ at[m] < W.cursor
    BY <1>0, <1>1, <1>14, <2>3
  <2>5. W.pc = "cursor" =>
          \A m \in W.steady : at[m] < W.cursor =>
            Paged(w, m)' \/ Twin(m)' \/ at[m] < at[W.page[Limit]]
    BY <1>0, <1>1, <1>14, <1>16
  <2>6. W.pc = "read" /\ ~W.cut => \A m \in W.steady : at[m] < W.cursor => Paged(w, m)'
    BY <1>1, <1>17
  <2> QED
    BY <1>4, <2>1, <2>2, <2>4, <2>5, <2>6 DEF Covered
<1> QED
  BY <1>1, <1>11, <1>13, <1>18 DEF Walking

-----------------------------------------------------------------------------
(* The theorems. *)

IInv == /\ LimiterType /\ (\A k \in Key : Counted(k))
        /\ Tables /\ Stored /\ WalksType /\ \A w \in Client : Walking(w)

LEMMA InitIInv == Init => IInv
<1> SUFFICES ASSUME Init PROVE IInv
  OBVIOUS
<1>1. LimiterType
  BY LimiterAssumption DEF Init, LimiterInit, LimiterType, Blank, Entry
<1>3. ASSUME NEW k \in Key PROVE Counted(k)
  <2>1. Len(log[k]) = 0
    BY DEF Init, LimiterInit
  <2> QED
    BY <2>1 DEF Counted
<1>4. Tables /\ Stored
  BY DEF Init, Tables, Stored
<1>5. WalksType
  BY <1>4, FreshType DEF Init, WalksType
<1>6. ASSUME NEW w \in Client PROVE Walking(w)
  <2> DEFINE W == walk[w]
  <2>1. /\ W.pc = "idle" /\ W.cursor = First /\ W.page = <<>> /\ W.left = <<>> /\ W.next = 0
        /\ W.shown = {} /\ W.steady = live \intersect match /\ ~W.twice /\ ~W.cut
    BY DEF Init, Fresh
  <2>2. \A m \in W.steady : at[m] < W.cursor
    BY <1>4, <2>1, ListingAssumption DEF Tables, First
  <2> QED
    BY <2>1, <2>2 DEF Walking, InOrder, Cursors, Covered
<1> QED
  BY <1>1, <1>3, <1>4, <1>5, <1>6 DEF IInv

LEMMA Steps ==
  ASSUME [Next]_vars
  PROVE  \/ \E m \in Message : Rematch(m) \/ \E r \in Rank : Store(m, r)
         \/ \E r \in Rank : Cleanup(r)
         \/ \E w \in Client : Goes(w)
         \/ \E k \in Key : Call(k)
         \/ (Tick \/ SetBack) /\ UNCHANGED <<at, live, match, walk>>
         \/ Restart \/ UNCHANGED vars
BY DEF Next, Goes

LEMMA StepIInv == IInv /\ [Next]_vars => IInv'
<1> SUFFICES ASSUME IInv, [Next]_vars PROVE IInv'
  OBVIOUS
<1>0. /\ LimiterType /\ (\A k \in Key : Counted(k))
      /\ Tables /\ Stored /\ WalksType /\ \A w \in Client : Walking(w)
  BY DEF IInv
<1>1. Limiting
  <2>1. ASSUME NEW w \in Client, Query(w) PROVE \E k \in Key : Allow(k)
    BY <2>1, ListingAssumption DEF Query
  <2>2. ASSUME NEW w \in Client, Goes(w), ~Query(w) PROVE UNCHANGED limiter
    BY <2>2 DEF Goes, Read, Fails, Answer, Begin, TakeCursor
  <2>3. ASSUME NEW m \in Message, Rematch(m) \/ \E r \in Rank : Store(m, r)
        PROVE  UNCHANGED limiter
    BY <2>3 DEF Rematch, Store
  <2>4. ASSUME NEW r \in Rank, Cleanup(r) PROVE UNCHANGED limiter
    BY <2>4 DEF Cleanup
  <2>5. ASSUME NEW k \in Key, Call(k) PROVE Allow(k)
    BY <2>5 DEF Call
  <2>6. Restart => Forget
    BY DEF Restart
  <2>7. UNCHANGED vars => UNCHANGED limiter
    BY DEF vars
  <2> QED
    BY <2>1, <2>2, <2>3, <2>4, <2>5, <2>6, <2>7, Steps DEF Limiting
<1>2. LimiterType' /\ \A k \in Key : Counted(k)'
  BY <1>0, <1>1, LimiterTypeStep, CountedStep
<1>3. Tables'
  BY <1>0, TablesStep
<1> DEFINE Rest == Stored' /\ WalksType' /\ \A w \in Client : Walking(w)'
<1>a. ASSUME Kept, WalksType',
             \A w \in Client : Unmoved(w) /\ walk'[w].steady \subseteq live' \intersect match'
      PROVE  \A w \in Client : Walking(w)'
  BY <1>0, <1>a, UnmovedStep
<1>4. ASSUME NEW m \in Message, NEW r \in Rank, Store(m, r) PROVE Rest
  <2>1. /\ at[m] = 0 /\ at' = [at EXCEPT ![m] = r] /\ r # 0
        /\ live' = live \union {m} /\ match' = match \union {m} /\ walk' = walk
    BY <1>4 DEF Store, Rank
  <2>2. Kept
    BY <1>0, <2>1 DEF Kept, Tables
  <2>3. Stored'
    BY <1>0, <2>1 DEF Stored, Tables
  <2>4. ASSUME NEW w \in Client PROVE Unmoved(w) /\ walk'[w].steady \subseteq live' \intersect match'
    BY <1>0, <2>1 DEF Unmoved, Walking, Covered
  <2> QED
    BY <1>0, <1>a, <2>1, <2>2, <2>3, <2>4 DEF WalksType
<1>5. ASSUME NEW m \in Message, Rematch(m) PROVE Rest
  <2>1. /\ UNCHANGED <<at, live>> /\ match \ {m} \subseteq match' /\ Without({m})
    BY <1>5 DEF Rematch
  <2>2. Kept /\ Stored'
    BY <1>0, <2>1 DEF Kept, Stored
  <2>3. ASSUME NEW w \in Client
        PROVE  /\ Unmoved(w) /\ walk' \in [Client -> Walks]
               /\ walk'[w].steady = walk[w].steady \ {m}
    BY <1>0, <2>1, WithoutWalk DEF WalksType
  <2>4. \A w \in Client : walk'[w].steady \subseteq live' \intersect match'
    BY <1>0, <2>1, <2>3 DEF Walking, Covered
  <2>5. WalksType'
    BY <2>1, <2>3 DEF WalksType, Without
  <2> QED
    BY <1>a, <2>2, <2>3, <2>4, <2>5
<1>6. ASSUME NEW r \in Rank, Cleanup(r) PROVE Rest
  <2>1. PICK old \in SUBSET Message :
          UNCHANGED at /\ live' = live \ old /\ match' = match \ old /\ Without(old)
    BY <1>0, <1>6 DEF Cleanup, Tables
  <2>2. Kept /\ Stored'
    BY <1>0, <2>1 DEF Kept, Stored
  <2>3. ASSUME NEW w \in Client
        PROVE  /\ Unmoved(w) /\ walk' \in [Client -> Walks]
               /\ walk'[w].steady = walk[w].steady \ old
    BY <1>0, <2>1, WithoutWalk DEF WalksType
  <2>4. \A w \in Client : walk'[w].steady \subseteq live' \intersect match'
    BY <1>0, <2>1, <2>3 DEF Walking, Covered
  <2>5. WalksType'
    BY <2>1, <2>3 DEF WalksType, Without
  <2> QED
    BY <1>a, <2>2, <2>3, <2>4, <2>5
<1>7. ASSUME NEW w \in Client, Goes(w) PROVE Rest
  <2>1. UNCHANGED <<at, live, match>>
    BY <1>7 DEF Goes, Query, Read, Fails, Answer, Begin, TakeCursor
  <2>2. Walking(w)' /\ walk'[w] \in Walks
    <3>1. CASE Fails(w)
      BY <1>0, <2>1, <3>1, FailsWalk, AgainStep DEF WalksType
    <3> QED
      BY <1>0, <1>7, <3>1, QueryStep, ReadStep, AnswerStep, BeginStep, TakeCursorStep DEF Goes
  <2>3. Kept
    BY <2>1 DEF Kept
  <2>4. ASSUME NEW v \in Client, v # w PROVE Walking(v)'
    <3>1. walk'[v] = walk[v]
      BY <1>0, <1>7, <2>4, OthersWalk
    <3>2. Unmoved(v) /\ walk'[v].steady \subseteq live' \intersect match'
      BY <1>0, <2>1, <3>1 DEF Unmoved, Walking, Covered
    <3> QED
      BY <1>0, <2>3, <3>2, UnmovedStep
  <2>5. WalksType' /\ Stored'
    BY <1>0, <1>7, <2>1, <2>2, GoesWalk DEF Stored
  <2> QED
    BY <2>2, <2>4, <2>5
<1>8. ASSUME Restart PROVE Rest
  <2>1. UNCHANGED <<at, live, match>>
    BY <1>8 DEF Restart
  <2>2. Kept /\ Stored'
    BY <1>0, <2>1 DEF Kept, Stored
  <2>3. ASSUME NEW w \in Client PROVE walk' \in [Client -> Walks] /\ (Again(w) \/ Unmoved(w))
    BY <1>0, <1>8, RestartWalk DEF WalksType
  <2>4. ASSUME NEW w \in Client PROVE Walking(w)'
    <3>1. CASE Again(w)
      BY <1>0, <2>1, <3>1, AgainStep
    <3>2. CASE Unmoved(w)
      <4>1. walk'[w].steady \subseteq live' \intersect match'
        BY <1>0, <2>1, <3>2 DEF Unmoved, Walking, Covered
      <4> QED
        BY <1>0, <2>2, <3>2, <4>1, UnmovedStep
    <3> QED
      BY <2>3, <3>1, <3>2
  <2>5. WalksType'
    BY <1>8, <2>3 DEF WalksType, Restart
  <2>6. \A w \in Client : Walking(w)'
    BY <2>4
  <2> QED
    BY <2>2, <2>5, <2>6
<1>9. ASSUME UNCHANGED <<at, live, match, walk>> PROVE Rest
  <2>1. Kept /\ Stored' /\ WalksType'
    BY <1>0, <1>9 DEF Kept, Stored, WalksType
  <2>2. \A w \in Client : Unmoved(w) /\ walk'[w].steady \subseteq live' \intersect match'
    BY <1>0, <1>9 DEF Unmoved, Walking, Covered
  <2> QED
    BY <1>a, <2>1, <2>2
<1>10. Rest
  <2>1. ASSUME NEW k \in Key, Call(k) PROVE Rest
    BY <1>9, <2>1 DEF Call
  <2>2. CASE UNCHANGED vars
    BY <1>9, <2>2 DEF vars
  <2>3. CASE (Tick \/ SetBack) /\ UNCHANGED <<at, live, match, walk>>
    BY <1>9, <2>3
  <2> HIDE DEF Rest
  <2> QED
    BY <1>4, <1>5, <1>6, <1>7, <1>8, <2>1, <2>2, <2>3, Steps
<1> QED
  BY <1>2, <1>3, <1>10 DEF IInv

LEMMA Invariance == Spec => []IInv
BY InitIInv, StepIInv, PTL DEF Spec

\* Every variable keeps its type: a count is never more than the rate, and a walk
\* follows cursors and pages of messages.
THEOREM TypeCorrect == Spec => []TypeOK
<1>1. IInv => TypeOK
  BY DEF IInv, LimiterType, Tables, WalksType, TypeOK
<1> QED
  BY <1>1, Invariance, PTL

\* Whatever a key's calls, the ticks of the clock and the minute they fall in:
\* more than a minute lies between a call and the one that comes 2 * Rate later.
THEOREM LimitedTwice == Spec => []TwiceAtMost
<1>1. IInv => TwiceAtMost
  BY CountedIsTwice DEF IInv
<1> QED
  BY <1>1, Invariance, PTL

\* A client that has followed the cursors to the end has all that was there all
\* along, and nothing twice, whatever came, changed and went meanwhile.
THEOREM WalkExact == Spec => []WalkIsExact
<1>1. IInv => WalkIsExact
  BY DEF IInv, Walking, InOrder, Covered, WalkIsExact
<1> QED
  BY <1>1, Invariance, PTL
=============================================================================
