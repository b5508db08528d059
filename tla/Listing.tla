------------------------------ MODULE Listing ------------------------------
(***************************************************************************)
(* GET /api/v1/messages, page after page: authAPI's limit, the query of    *)
(* the identifiers, the cursor, and the messages read one by one, while    *)
(* messages are stored, change their status and are deleted.  The cursor   *)
(* is the time, as text, at which the last message shown was submitted.    *)
(***************************************************************************)
EXTENDS RateLimiter, FiniteSets

CONSTANTS
  Message,
  MaxRank,   \* bound on the places in the order of submission times
  Limit,     \* messages on a page
  Client,    \* programs that read the whole list
  KeyOf      \* the API key of each

ASSUME ListingAssumption ==
  /\ IsFiniteSet(Message) /\ MaxRank \in Nat
  /\ Limit \in Nat \ {0} /\ KeyOf \in [Client -> Key]

VARIABLES
  at,        \* the rank of each message's submission time, 0 before it is stored
  live,      \* the messages the table has
  match,     \* the ones the client's filter selects
  walk       \* the clients

vars == <<limiter, at, live, match, walk>>

Rank  == 1 .. MaxRank
First == MaxRank + 1    \* before the first page: everything is older

\* page: what the query has found; left: what is to be read of it; next: the
\* next cursor, 0 for none; shown: what the client was given so far.  History:
\* steady: messages there all along; twice: one was shown twice; cut: the
\* database failed and the client is not told.
Walks == [pc : {"idle", "cursor", "read", "done"}, cursor : 0 .. First, page : Seq(Message),
          left : Seq(Message), next : 0 .. MaxRank, shown : SUBSET Message,
          steady : SUBSET Message, twice : BOOLEAN, cut : BOOLEAN]

Fresh == [pc |-> "idle", cursor |-> First, page |-> <<>>, left |-> <<>>, next |-> 0,
          shown |-> {}, steady |-> live \intersect match, twice |-> FALSE, cut |-> FALSE]

Init ==
  /\ LimiterInit
  /\ at \in [Message -> 0 .. MaxRank]
  /\ live = {m \in Message : at[m] # 0} /\ match = live
  /\ walk = [w \in Client |-> Fresh]

\* Nothing is steady for a walk any more that has been away.
Without(S) == walk' = [w \in Client |-> [walk[w] EXCEPT !.steady = @ \ S]]

-----------------------------------------------------------------------------
(* What happens to the messages meanwhile. *)

\* The text of a later time may come before that of an earlier one: whole
\* seconds have no fraction.
Store(m, r) ==
  /\ at[m] = 0
  /\ at' = [at EXCEPT ![m] = r]
  /\ live' = live \union {m} /\ match' = match \union {m}
  /\ UNCHANGED <<limiter, walk>>

\* A status update takes it out of a filter by status, or back into it.
Rematch(m) ==
  /\ m \in live
  /\ match' = IF m \in match THEN match \ {m} ELSE match \union {m}
  /\ Without({m})
  /\ UNCHANGED <<limiter, at, live>>

Cleanup(r) ==
  LET old == {m \in live : at[m] < r} IN
  /\ old # {}
  /\ live' = live \ old /\ match' = match \ old
  /\ Without(old)
  /\ UNCHANGED <<limiter, at>>

-----------------------------------------------------------------------------
(* A page. *)

Older(c) == {m \in match : at[m] < c}

Least(m, n) == IF m < n THEN m ELSE n

\* ORDER BY submitted_at DESC LIMIT Limit + 1: those of one time in any order.
Rows(c) ==
  LET n == Least(Limit + 1, Cardinality(Older(c))) IN
  {p \in [1 .. n -> Older(c)] :
     /\ \A i, j \in 1 .. n : i < j => p[i] # p[j] /\ at[p[i]] >= at[p[j]]
     /\ \A m \in Older(c) : (\E i \in 1 .. n : p[i] = m) \/ \A i \in 1 .. n : at[m] <= at[p[i]]}

\* The rows come to an end, or an error ends them that nobody looks at.  Without
\* a row too many there is no next page.
Query(w) ==
  /\ walk[w].pc = "idle"
  /\ Allow(KeyOf[w])
  /\ \E p \in Rows(walk[w].cursor) : \E n \in 0 .. Len(p) :
       LET got == SubSeq(p, 1, n) IN
       walk' = [walk EXCEPT ![w].page = got, ![w].next = 0, ![w].cut = n < Len(p),
                            ![w].pc = IF n > Limit THEN "cursor" ELSE "read",
                            ![w].left = SubSeq(p, 1, Least(n, Limit))]
  /\ UNCHANGED <<at, live, match>>

\* Mistaken: the next page starts after the row that is not shown.
LastOfPageFetched(w) == walk[w].page[Limit + 1]

LastOfPage(w) == walk[w].page[Limit]

\* The last message is read for its time.  An error means that there is no next
\* page; reading the message again for the answer fails then, or it does not.
TakeCursor(w, ok) ==
  LET last == LastOfPage(w) IN
  /\ walk[w].pc = "cursor" /\ (ok => last \in live)
  /\ walk' = [walk EXCEPT ![w].pc = "read", ![w].next = IF ok THEN at[last] ELSE 0,
                          ![w].cut = @ \/ (~ok /\ last \in live)]
  /\ UNCHANGED <<limiter, at, live, match>>

Read(w) ==
  /\ walk[w].pc = "read" /\ walk[w].left # <<>> /\ Head(walk[w].left) \in live
  /\ walk' = [walk EXCEPT ![w].left = Tail(@)]
  /\ UNCHANGED <<limiter, at, live, match>>

\* A message that was deleted since, or the database's failing, is an error of
\* the request.  The client asks for the page again.
Fails(w) ==
  /\ walk[w].pc \in {"cursor", "read"}
  /\ walk' = [walk EXCEPT ![w].pc = "idle", ![w].page = <<>>, ![w].left = <<>>,
                          ![w].cut = FALSE]
  /\ UNCHANGED <<limiter, at, live, match>>

Answer(w) ==
  LET page == {walk[w].page[i] : i \in 1 .. Least(Limit, Len(walk[w].page))} IN
  /\ walk[w].pc = "read" /\ walk[w].left = <<>>
  /\ walk' = [walk EXCEPT ![w].pc = IF walk[w].next = 0 THEN "done" ELSE "idle",
                          ![w].cursor = walk[w].next, ![w].page = <<>>,
                          ![w].shown = @ \union page,
                          ![w].twice = @ \/ walk[w].shown \intersect page # {}]
  /\ UNCHANGED <<limiter, at, live, match>>

Begin(w) ==
  /\ walk[w].pc = "done"
  /\ walk' = [walk EXCEPT ![w] = Fresh]
  /\ UNCHANGED <<limiter, at, live, match>>

-----------------------------------------------------------------------------
\* Any other call with the key.
Call(k) == Allow(k) /\ UNCHANGED <<at, live, match, walk>>

\* MEOVV is started again: the requests it was working on fail.
Restart ==
  /\ Forget
  /\ walk' = [w \in Client |->
                IF walk[w].pc \in {"cursor", "read"}
                THEN [walk[w] EXCEPT !.pc = "idle", !.page = <<>>, !.left = <<>>, !.cut = FALSE]
                ELSE walk[w]]
  /\ UNCHANGED <<at, live, match>>

Next ==
  \/ \E m \in Message : Rematch(m) \/ \E r \in Rank : Store(m, r)
  \/ \E r \in Rank : Cleanup(r)
  \/ \E w \in Client : \/ Query(w) \/ Read(w) \/ Fails(w) \/ Answer(w) \/ Begin(w)
                       \/ \E ok \in BOOLEAN : TakeCursor(w, ok)
  \/ \E k \in Key : Call(k)
  \/ (Tick \/ SetBack) /\ UNCHANGED <<at, live, match, walk>>
  \/ Restart

Spec == Init /\ [][Next]_vars

-----------------------------------------------------------------------------
(* Properties. *)

TypeOK ==
  /\ now \in 0 .. MaxTime /\ entries \in [Key -> Entry] /\ log \in [Key -> Seq(0 .. MaxTime)]
  /\ at \in [Message -> 0 .. MaxRank]
  /\ live \subseteq Message /\ match \subseteq live
  /\ walk \in [Client -> Walks]

Twin(m) == \E n \in Message \ {m} : at[n] = at[m]

\* A client that has followed the cursors to the end was given every message
\* that was there all along, and none twice, whatever was stored or deleted
\* meanwhile and whichever requests it had to repeat, unless the database failed
\* on the way.  A message that shares its time with another may be left out.
WalkIsExact ==
  \A w \in Client : walk[w].pc = "done" =>
    /\ ~walk[w].twice
    /\ walk[w].cut \/ \A m \in walk[w].steady : m \in walk[w].shown \/ Twin(m)
=============================================================================
