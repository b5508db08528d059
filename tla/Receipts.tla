------------------------------ MODULE Receipts ------------------------------
(***************************************************************************)
(* What POST /api/v1/messages promises its clients, whatever steps it      *)
(* takes: a message goes to the mail server once, after it was written     *)
(* down and before its client is answered; it is written down only while   *)
(* no other message holds its token; a token is let go only when it is     *)
(* due; and a receipt is of a message that was sent, or of an earlier one  *)
(* with the same token and content.                                        *)
(***************************************************************************)
CONSTANTS
  Messages,  \* requests, each with the message it would make
  Names,     \* values of tokens
  Digests    \* what tells the contents of messages apart

VARIABLES
  token,     \* the token a request came with, {n}, or {}
  digest,    \* the digest of its content
  stored,    \* messages written down
  holders,   \* messages that hold their token
  due,       \* messages whose hold on their token is due to end
  sent,      \* messages the mail server was given
  answered,  \* requests that are over
  receipts,  \* pairs: the request, the message it got the receipt of
  announced  \* messages announced to webhooks

asked == <<token, digest>>
all   == <<token, digest, stored, holders, due, sent, answered, receipts, announced>>

SameName(m, o) == token[m] # {} /\ token[m] = token[o]

Init ==
  /\ token \in [Messages -> {{}} \cup {{n} : n \in Names}]
  /\ digest \in [Messages -> Digests]
  /\ stored = {} /\ holders = {} /\ due = {}
  /\ sent = {} /\ answered = {} /\ receipts = {} /\ announced = {}

\* A message is written down, and holds its token from then on. It may have
\* waited so long that its hold is due to end at once.
Store(m) ==
  /\ m \notin stored \cup answered
  /\ \A o \in holders : ~SameName(m, o)
  /\ stored' = stored \cup {m}
  /\ holders' = IF token[m] = {} THEN holders ELSE holders \cup {m}
  /\ due' \in {due, due \cup {m}}
  /\ UNCHANGED <<asked, sent, answered, receipts, announced>>

Send(m) ==
  /\ m \in stored \ (sent \cup answered)
  /\ sent' = sent \cup {m}
  /\ UNCHANGED <<asked, stored, holders, due, answered, receipts, announced>>

\* A message that was sent is announced, before its client is answered or not
\* at all.
Announce(m) ==
  /\ m \in sent \ answered
  /\ announced' = announced \cup {m}
  /\ UNCHANGED <<asked, stored, holders, due, sent, answered, receipts>>

\* The receipt of a message that was sent.
Acknowledge(m) ==
  /\ m \in sent \ answered
  /\ answered' = answered \cup {m}
  /\ receipts' = receipts \cup {<<m, m>>}
  /\ UNCHANGED <<asked, stored, holders, due, sent, announced>>

\* The receipt of an earlier message, for a request that repeats it.
Repeat(m, o) ==
  /\ m \notin stored \cup answered
  /\ o \in stored /\ SameName(m, o) /\ digest[m] = digest[o]
  /\ answered' = answered \cup {m}
  /\ receipts' = receipts \cup {<<m, o>>}
  /\ UNCHANGED <<asked, stored, holders, due, sent, announced>>

\* Requests end without a receipt: with an error, or nobody is left to get it.
End(M) ==
  /\ M # {} /\ M \cap answered = {}
  /\ answered' = answered \cup M
  /\ UNCHANGED <<asked, stored, holders, due, sent, receipts, announced>>

\* Time makes holds due to end, and then they may be ended.
Age(M) ==
  /\ M \subseteq stored
  /\ due' = due \cup M
  /\ UNCHANGED <<asked, stored, holders, sent, answered, receipts, announced>>

LetGo(M) ==
  /\ M \subseteq due
  /\ holders' = holders \ M
  /\ UNCHANGED <<asked, stored, due, sent, answered, receipts, announced>>

Next ==
  \/ \E m \in Messages : Store(m) \/ Send(m) \/ Announce(m) \/ Acknowledge(m)
  \/ \E m, o \in Messages : Repeat(m, o)
  \/ \E M \in SUBSET Messages : End(M) \/ Age(M) \/ LetGo(M)

Spec == Init /\ [][Next]_all

\* Of two messages with one token that were both sent, one was due to lose it.
OncePerName ==
  \A m, o \in sent : m # o /\ SameName(m, o) => m \in due \/ o \in due
=============================================================================
