----------------------------- MODULE Submission -----------------------------
(***************************************************************************)
(* POST /api/v1/messages: sendMessage of internal/httpapi/server.go over   *)
(* InsertMessage of internal/store/store.go, for any number of requests at *)
(* once, with the reports of the mail server that write the same row, the  *)
(* retention cleanup, the passing of time, clients that give up, a         *)
(* database that fails a statement and a process that dies.                *)
(*                                                                         *)
(* A request draws a message id of its own (server.go:588), so a request   *)
(* and its message have one name. What the client is told is kept in       *)
(* answer; what the mail server has in its queue is in accepted, which is  *)
(* outside the process and survives it, as the database does.              *)
(***************************************************************************)
EXTENDS Integers

CONSTANTS
  Requests,     \* requests, each with the id of the message it would create
  Keys,         \* API keys
  Revocable,    \* bound: those that may be revoked
  Tokens,       \* values of the Idempotency-Key header
  NoToken,      \* the header is absent
  Bodies,       \* what a client asks to send
  Malformed,    \* bodies that are refused before anything is stored
  Repeating,    \* bodies that name a recipient twice
  Calls,        \* what the requests may ask: key, token and body
  Digests,      \* sha256 sums
  Digest,       \* Digest[r][b]: that of the MIME message r builds from b
  TTL,          \* life of an idempotency record: 24 hours
  Retention,    \* life of a message's row
  MaxTime,      \* bound of the clock
  NoMessage     \* no message

ASSUME ConstantsAssumption ==
  /\ TTL \in Nat /\ Retention \in Nat /\ MaxTime \in Nat
  /\ NoToken \notin Tokens /\ Revocable \subseteq Keys
  /\ NoMessage \notin Requests
  /\ Malformed \subseteq Bodies /\ Repeating \subseteq Bodies
  /\ Digest \in [Requests -> [Bodies -> Digests]]
  /\ Calls \subseteq [key : Keys, token : Tokens \cup {NoToken}, body : Bodies]

VARIABLES
  now,         \* the clock
  call,        \* what each request asks
  pc,          \* where sendMessage is
  existing,    \* its local variable: what InsertMessage returned
  submittedAt, \* its local variable now, and messages.submitted_at
  sendResult,  \* what Send returned to it
  answer,      \* the status code the client got, "lost" when it got none
  gone,        \* requests whose client has closed the connection
  row,         \* messages.status, "none" when there is no row, "reported" for
               \* any status that a report of the mail server brought
  idem,        \* the rows of idempotency_keys
  revoked,     \* keys with a revoked_at
  accepted,    \* messages in the queue of the mail server
  announced,   \* messages whose message.queued event is handed to webhooks
  insertedAt,  \* history: when the message was inserted, -1 if it was not
  late,        \* history: requests that came when their key was revoked
  faulty       \* history: requests of which the database failed a statement

vars == <<now, call, pc, existing, submittedAt, sendResult, answer, gone, row, idem,
          revoked, accepted, announced, insertedAt, late, faulty>>

IdemRows ==
  [key : Keys, token : Tokens, msg : Requests, digest : Digests, expires : Nat]

TypeOK ==
  /\ now \in 0 .. MaxTime
  /\ call \in [Requests -> Calls]
  /\ pc \in [Requests -> {"new", "auth", "insert", "replay", "send", "mark", "announce", "reply",
                           "done"}]
  /\ existing \in [Requests -> Requests \cup {NoMessage}]
  /\ submittedAt \in [Requests -> Nat]
  /\ sendResult \in [Requests -> {"none", "ok", "error"}]
  /\ answer \in [Requests -> {"none", "202", "401", "409", "422", "500", "502", "lost"}]
  /\ gone \subseteq Requests
  /\ row \in [Requests -> {"none", "queued", "processing", "failed", "reported"}]
  /\ idem \subseteq IdemRows
  /\ revoked \subseteq Keys
  /\ accepted \subseteq Requests
  /\ announced \subseteq Requests
  /\ insertedAt \in [Requests -> Nat \cup {-1}]
  /\ late \subseteq Requests
  /\ faulty \subseteq Requests

Init ==
  /\ now = 0
  /\ call \in [Requests -> Calls]
  /\ pc = [r \in Requests |-> "new"]
  /\ existing = [r \in Requests |-> NoMessage]
  /\ submittedAt = [r \in Requests |-> 0]
  /\ sendResult = [r \in Requests |-> "none"]
  /\ answer = [r \in Requests |-> "none"]
  /\ gone = {}
  /\ row = [r \in Requests |-> "none"]
  /\ idem = {}
  /\ revoked = {}
  /\ accepted = {}
  /\ announced = {}
  /\ insertedAt = [r \in Requests |-> -1]
  /\ late = {}
  /\ faulty = {}

-----------------------------------------------------------------------------
InFlight(r) == pc[r] \notin {"new", "done"}

\* sendMessage returns. Nobody reads the answer of a connection that is closed.
Return(r, code) ==
  /\ pc' = [pc EXCEPT ![r] = "done"]
  /\ answer' = [answer EXCEPT ![r] = IF r \in gone THEN "lost" ELSE code]

Goto(r, label) == pc' = [pc EXCEPT ![r] = label] /\ UNCHANGED answer

\* A statement of r's without effect: its context is done, or the database
\* fails it for a reason of its own.
Dropped(r) == faulty' = IF r \in gone THEN faulty ELSE faulty \cup {r}

-----------------------------------------------------------------------------
Arrive(r) ==
  /\ pc[r] = "new"
  /\ Goto(r, "auth")
  /\ late' = IF call[r].key \in revoked THEN late \cup {r} ELSE late
  /\ UNCHANGED <<now, call, existing, submittedAt, sendResult, gone, row, idem, revoked,
                 accepted, announced, insertedAt, faulty>>

\* Mistaken: the lookup does not look at revoked_at.
AdmitRevoked(r) ==
  /\ pc[r] = "auth"
  /\ \/ Dropped(r) /\ Return(r, "401") /\ UNCHANGED submittedAt
     \/ /\ r \notin gone
        /\ Goto(r, "insert")
        /\ submittedAt' = [submittedAt EXCEPT ![r] = now]
        /\ UNCHANGED faulty
  /\ UNCHANGED <<now, call, existing, sendResult, gone, row, idem, revoked, accepted,
                 announced, insertedAt, late>>

\* authAPI looks the key up, and takes an error of the database for a key that
\* is not there; sendMessage checks the body, builds the MIME message and takes
\* the time. Nothing is stored yet.
Admit(r) ==
  /\ pc[r] = "auth"
  /\ \/ Dropped(r) /\ Return(r, "401") /\ UNCHANGED submittedAt
     \/ /\ r \notin gone /\ call[r].key \in revoked
        /\ Return(r, "401")
        /\ UNCHANGED <<submittedAt, faulty>>
     \/ /\ r \notin gone /\ call[r].key \notin revoked
        /\ IF call[r].body \in Malformed THEN Return(r, "422") ELSE Goto(r, "insert")
        /\ submittedAt' = [submittedAt EXCEPT ![r] = now]
        /\ UNCHANGED faulty
  /\ UNCHANGED <<now, call, existing, sendResult, gone, row, idem, revoked, accepted,
                 announced, insertedAt, late>>

-----------------------------------------------------------------------------
(***************************************************************************)
(* InsertMessage, one transaction: the record of the token decides.        *)
(***************************************************************************)
DigestOf(r) == Digest[r][call[r].body]

\* Mistaken: a record is looked up by the token alone.
SameTokenOfAnyKey(r) == {i \in idem : i.token = call[r].token}

\* Mistaken: the digest is part of what identifies a record.
SameKeyAndDigest(r) ==
  {i \in idem : i.key = call[r].key /\ i.token = call[r].token /\ i.digest = DigestOf(r)}

SameKey(r)  == {i \in idem : i.key = call[r].key /\ i.token = call[r].token}

\* The record the SELECT finds, if any: one that has not expired.
Live(r) == {i \in SameKey(r) : i.expires > now}

\* What the transaction refuses: the token was used for another digest, the
\* record of an earlier use has expired and is still there, or the second row
\* of one recipient violates the primary key.
Refused(r) ==
  \/ \E i \in Live(r) : i.digest # DigestOf(r)
  \/ Live(r) = {} /\ (SameKey(r) # {} \/ call[r].body \in Repeating)

\* Any error is answered 409, one of the database too, and rolls back.
InsertFails(r) ==
  /\ pc[r] = "insert"
  /\ \/ Dropped(r)
     \/ r \notin gone /\ Refused(r) /\ UNCHANGED faulty
  /\ Return(r, "409")
  /\ UNCHANGED <<now, call, existing, submittedAt, sendResult, gone, row, idem, revoked,
                 accepted, announced, insertedAt, late>>

\* The token was used for the same digest: that message is the answer.
InsertFindsPrior(r) ==
  /\ pc[r] = "insert"
  /\ r \notin gone
  /\ \E i \in Live(r) : /\ i.digest = DigestOf(r)
                        /\ existing' = [existing EXCEPT ![r] = i.msg]
  /\ Goto(r, "replay")
  /\ UNCHANGED <<now, call, submittedAt, sendResult, gone, row, idem, revoked, accepted,
                 announced, insertedAt, late, faulty>>

\* Mistaken: a record is made of every call, with a token or without.
InsertFreshAlways(r) ==
  /\ pc[r] = "insert" /\ r \notin gone
  /\ SameKey(r) = {} /\ call[r].body \notin Repeating
  /\ row' = [row EXCEPT ![r] = "queued"]
  /\ idem' = idem \cup {[key |-> call[r].key, token |-> call[r].token, msg |-> r,
                         digest |-> DigestOf(r), expires |-> now + TTL]}
  /\ insertedAt' = [insertedAt EXCEPT ![r] = now]
  /\ Goto(r, "send")
  /\ UNCHANGED <<now, call, existing, submittedAt, sendResult, gone, revoked, accepted,
                 announced, late, faulty>>

\* The message, its recipients and the record of the token, if there is one.
InsertFresh(r) ==
  /\ pc[r] = "insert"
  /\ r \notin gone
  /\ SameKey(r) = {}
  /\ call[r].body \notin Repeating
  /\ row' = [row EXCEPT ![r] = "queued"]
  /\ idem' = idem \cup
       IF call[r].token = NoToken THEN {}
       ELSE {[key |-> call[r].key, token |-> call[r].token, msg |-> r,
              digest |-> DigestOf(r), expires |-> now + TTL]}
  /\ insertedAt' = [insertedAt EXCEPT ![r] = now]
  /\ Goto(r, "send")
  /\ UNCHANGED <<now, call, existing, submittedAt, sendResult, gone, revoked, accepted,
                 announced, late, faulty>>

-----------------------------------------------------------------------------
\* The receipt of the earlier request, whose row may be gone since.
Replay(r) ==
  /\ pc[r] = "replay"
  /\ \/ Dropped(r) /\ Return(r, "500")
     \/ /\ r \notin gone
        /\ Return(r, IF row[existing[r]] = "none" THEN "500" ELSE "202")
        /\ UNCHANGED faulty
  /\ UNCHANGED <<now, call, existing, submittedAt, sendResult, gone, row, idem, revoked,
                 accepted, announced, insertedAt, late>>

\* The mail server confirms the end of DATA.
Take(r) ==
  /\ pc[r] = "send"
  /\ r \notin accepted
  /\ accepted' = accepted \cup {r}
  /\ UNCHANGED <<now, call, pc, existing, submittedAt, sendResult, answer, gone, row, idem,
                 revoked, announced, insertedAt, late, faulty>>

\* Send returns: without an error only if the mail server took the message, with
\* one in any case. The context of the request is used for the connection only.
SendReturns(r) ==
  /\ pc[r] = "send"
  /\ \E result \in {"ok", "error"} :
       /\ result = "ok" => r \in accepted
       /\ sendResult' = [sendResult EXCEPT ![r] = result]
  /\ Goto(r, "mark")
  /\ UNCHANGED <<now, call, existing, submittedAt, gone, row, idem, revoked, accepted,
                 announced, insertedAt, late, faulty>>

\* UpdateMessageStatus of what Send returned. Its error is dropped, and it
\* updates nothing when the row is gone.
WriteResult(r) ==
  \/ Dropped(r) /\ UNCHANGED row
  \/ /\ r \notin gone
     /\ row' = IF row[r] = "none" THEN row
               ELSE [row EXCEPT ![r] = IF sendResult[r] = "ok" THEN "processing" ELSE "failed"]
     /\ UNCHANGED faulty

\* Mistaken: the error of Send is written down and otherwise ignored.
MarkAndGoOn(r) ==
  /\ pc[r] = "mark"
  /\ WriteResult(r)
  /\ Goto(r, "announce")
  /\ UNCHANGED <<now, call, existing, submittedAt, sendResult, gone, idem, revoked, accepted,
                 announced, insertedAt, late>>

\* Mistaken: a failure is answered and not written down.
MarkSuccessOnly(r) ==
  /\ pc[r] = "mark"
  /\ IF sendResult[r] = "ok" THEN WriteResult(r) /\ Goto(r, "announce")
     ELSE Return(r, "502") /\ UNCHANGED <<row, faulty>>
  /\ UNCHANGED <<now, call, existing, submittedAt, sendResult, gone, idem, revoked, accepted,
                 announced, insertedAt, late>>

Mark(r) ==
  /\ pc[r] = "mark"
  /\ WriteResult(r)
  /\ IF sendResult[r] = "ok" THEN Goto(r, "announce") ELSE Return(r, "502")
  /\ UNCHANGED <<now, call, existing, submittedAt, sendResult, gone, idem, revoked, accepted,
                 announced, insertedAt, late>>

\* EnqueueEvent of message.queued, whose error is dropped. It goes from endpoint
\* to endpoint: announced is what reached the first of them.
Announce(r) ==
  /\ pc[r] = "announce"
  /\ \/ Dropped(r) /\ UNCHANGED announced
     \/ r \notin gone /\ announced' = announced \cup {r} /\ UNCHANGED faulty
  /\ Goto(r, "reply")
  /\ UNCHANGED <<now, call, existing, submittedAt, sendResult, gone, row, idem, revoked,
                 accepted, insertedAt, late>>

\* The receipt.
Reply(r) ==
  /\ pc[r] = "reply"
  /\ Return(r, "202")
  /\ UNCHANGED <<now, call, existing, submittedAt, sendResult, gone, row, idem, revoked,
                 accepted, announced, insertedAt, late, faulty>>

\* internalEvents: a report of the mail server about a message it has writes the
\* row, before or after sendMessage does. DeliveryStatus has what it writes.
Report(r) ==
  /\ r \in accepted
  /\ row[r] # "none"
  /\ row' = [row EXCEPT ![r] = "reported"]
  /\ UNCHANGED <<now, call, pc, existing, submittedAt, sendResult, answer, gone, idem, revoked,
                 accepted, announced, insertedAt, late, faulty>>

-----------------------------------------------------------------------------
\* The client closes the connection: the context of its request is done.
Disconnect(r) ==
  /\ InFlight(r)
  /\ r \notin gone
  /\ gone' = gone \cup {r}
  /\ UNCHANGED <<now, call, pc, existing, submittedAt, sendResult, answer, row, idem, revoked,
                 accepted, announced, insertedAt, late, faulty>>

RevokeKey(k) ==
  /\ k \notin revoked
  /\ revoked' = revoked \cup {k}
  /\ UNCHANGED <<now, call, pc, existing, submittedAt, sendResult, answer, gone, row, idem,
                 accepted, announced, insertedAt, late, faulty>>

\* Mistaken: the records of a deleted message stay.
CleanupWithoutCascade ==
  /\ row' = [r \in Requests |->
               IF row[r] # "none" /\ submittedAt[r] < now - Retention THEN "none" ELSE row[r]]
  /\ idem' = {i \in idem : i.expires >= now}
  /\ row' # row \/ idem' # idem
  /\ UNCHANGED <<now, call, pc, existing, submittedAt, sendResult, answer, gone, revoked,
                 accepted, announced, insertedAt, late, faulty>>

\* The cleanup, one transaction: messages past their retention, with the records
\* of their tokens (ON DELETE CASCADE), and records that have expired.
Cleanup ==
  LET Old(r) == row[r] # "none" /\ submittedAt[r] < now - Retention
  IN  /\ row' = [r \in Requests |-> IF Old(r) THEN "none" ELSE row[r]]
      /\ idem' = {i \in idem : ~Old(i.msg) /\ i.expires >= now}
      /\ row' # row \/ idem' # idem
      /\ UNCHANGED <<now, call, pc, existing, submittedAt, sendResult, answer, gone, revoked,
                     accepted, announced, insertedAt, late, faulty>>

\* The process dies and is started again: what it was doing is forgotten.
Crash ==
  /\ \E r \in Requests : InFlight(r)
  /\ pc' = [r \in Requests |-> IF InFlight(r) THEN "done" ELSE pc[r]]
  /\ answer' = [r \in Requests |-> IF InFlight(r) THEN "lost" ELSE answer[r]]
  /\ UNCHANGED <<now, call, existing, submittedAt, sendResult, gone, row, idem, revoked,
                 accepted, announced, insertedAt, late, faulty>>

Tick ==
  /\ now < MaxTime
  /\ now' = now + 1
  /\ UNCHANGED <<call, pc, existing, submittedAt, sendResult, answer, gone, row, idem, revoked,
                 accepted, announced, insertedAt, late, faulty>>

Handle(r) ==
  \/ Arrive(r) \/ Admit(r)
  \/ InsertFails(r) \/ InsertFindsPrior(r) \/ InsertFresh(r)
  \/ Replay(r) \/ Take(r) \/ SendReturns(r) \/ Mark(r) \/ Announce(r)
  \/ Reply(r) \/ Report(r) \/ Disconnect(r)

Next ==
  \/ \E r \in Requests : Handle(r)
  \/ \E k \in Revocable : RevokeKey(k)
  \/ Cleanup
  \/ Crash
  \/ Tick

Spec == Init /\ [][Next]_vars

-----------------------------------------------------------------------------
Inserted(r) == insertedAt[r] # -1

\* The message the receipt of r names.
ReceiptOf(r) == IF existing[r] = NoMessage THEN r ELSE existing[r]

SameToken(r, s) ==
  /\ call[r].key = call[s].key
  /\ call[r].token = call[s].token
  /\ call[r].token # NoToken

\* From time t on, the use of r's token no longer protects r.
Forgotten(r, t) == t > insertedAt[r] + TTL \/ t > submittedAt[r] + Retention

\* The MIME message has random boundaries, a random Message-ID and the message
\* id of the request in it: no two requests have the same digest.
DigestsFresh ==
  \A r, s \in Requests : \A b, c \in Bodies : Digest[r][b] = Digest[s][c] => r = s

(***************************************************************************)
(* docs/architecture.md: 202 is returned only after the mail server has    *)
(* accepted the message of the receipt. Given DigestsFresh: a request that *)
(* found an earlier one would get its receipt whatever became of it.       *)
(***************************************************************************)
AckedIsAccepted ==
  \A r \in Requests : answer[r] = "202" => ReceiptOf(r) \in accepted

(***************************************************************************)
(* The mail server is given at most one message per idempotency key of an  *)
(* API key until the record of the first one is due to be forgotten,       *)
(* whatever requests, retries, crashes and cleanups come in between.       *)
(***************************************************************************)
AtMostOncePerToken ==
  \A r, s \in accepted :
    r # s /\ SameToken(r, s) => Forgotten(r, insertedAt[s]) \/ Forgotten(s, insertedAt[r])

(***************************************************************************)
(* A receipt is of the caller's own request: the same API key, the same    *)
(* idempotency key and the same digest.                                    *)
(***************************************************************************)
ReceiptIsOwn ==
  \A r \in Requests :
    answer[r] = "202" /\ ReceiptOf(r) # r =>
      SameToken(r, ReceiptOf(r)) /\ DigestOf(r) = DigestOf(ReceiptOf(r))

(***************************************************************************)
(* A record of a token has its message (foreign key, ON DELETE CASCADE),   *)
(* and an API key has one record of a token (primary key).                 *)
(***************************************************************************)
RecordsConsistent ==
  \A i, j \in idem :
    /\ row[i.msg] # "none"
    /\ i.key = j.key /\ i.token = j.token => i = j

(***************************************************************************)
(* What the row of a finished request says agrees with what the client was *)
(* told: "queued" is left behind only when nobody was told anything, or    *)
(* the database failed the write; "processing" and what a report wrote are *)
(* of a message the mail server has; and a client told of a failure does   *)
(* not find that sendMessage has called the message under way.             *)
(***************************************************************************)
RowAgreesWithAnswer ==
  \A r \in Requests :
    pc[r] = "done" =>
      /\ row[r] = "queued"     => answer[r] = "lost" \/ (answer[r] \in {"202", "502"} /\ r \in faulty)
      /\ row[r] = "processing" => answer[r] \in {"202", "lost"} /\ r \in accepted
      /\ row[r] = "failed"     => answer[r] \in {"502", "lost"}
      /\ row[r] = "reported"   => answer[r] \in {"202", "502", "lost"} /\ r \in accepted

(***************************************************************************)
(* A request that came after its key was revoked leaves no trace; one that *)
(* was let in before may still be sent.                                    *)
(***************************************************************************)
RevokedKeySendsNothing ==
  \A r \in late : ~Inserted(r) /\ r \notin accepted /\ answer[r] # "202"

(***************************************************************************)
(* message.queued is handed to webhooks only of a message the mail server  *)
(* has, and never of one whose client was told that it failed.             *)
(***************************************************************************)
AnnouncedIsAccepted ==
  \A r \in announced : r \in accepted /\ answer[r] # "502"

(***************************************************************************)
(* api/openapi.yaml:135: an idempotency key replays the original receipt   *)
(* for 24 hours. Here of a request that is repeated word for word after    *)
(* its first sending was acknowledged, with a database that does not fail. *)
(* The code answers 409.                                                   *)
(***************************************************************************)
RepeatIsReplayed ==
  [][\A r, o \in Requests :
       /\ call[r] = call[o] /\ call[r].token # NoToken
       /\ answer[o] = "202" /\ row[o] # "none" /\ now < insertedAt[o] + TTL
       => ~(pc[r] = "insert" /\ answer'[r] = "409" /\ r \notin faulty')]_vars

(***************************************************************************)
(* docs/architecture.md:34: records of tokens expire after 24 hours. Here: *)
(* a token that no live record holds is free. In the code the expired      *)
(* record stands in the way until the daily cleanup has deleted it.        *)
(***************************************************************************)
ExpiredTokenIsFree ==
  [][\A r \in Requests :
       /\ pc[r] = "insert" /\ answer'[r] = "409" /\ r \notin faulty'
       => Live(r) # {} \/ call[r].body \in Repeating]_vars
-----------------------------------------------------------------------------
\* What Receipts speaks of: the token a request came with, the digest of its
\* content, and the sets of requests and of their messages.
Token      == [r \in Requests |-> IF call[r].token = NoToken THEN {}
                                  ELSE {<<call[r].key, call[r].token>>}]
Content    == [r \in Requests |-> DigestOf(r)]
Stored     == {r \in Requests : Inserted(r)}
Holders    == {i.msg : i \in idem}
Outlived   == {r \in Stored : Forgotten(r, now)}
Answered   == {r \in Requests : answer[r] # "none"}
GotReceipt == {<<r, ReceiptOf(r)>> : r \in {s \in Requests : answer[s] = "202"}}

(***************************************************************************)
(* POST /api/v1/messages keeps the promise of Receipts, for digests of any *)
(* kind: every step of the requests, of the cleanup, of the clock and of a *)
(* crash is one that Receipts allows, or changes nothing it speaks of.     *)
(***************************************************************************)
Promise == INSTANCE Receipts
  WITH Messages  <- Requests,
       Names     <- Keys \X Tokens,
       token     <- Token,
       digest    <- Content,
       stored    <- Stored,
       holders   <- Holders,
       due       <- Outlived,
       sent      <- accepted,
       answered  <- Answered,
       receipts  <- GotReceipt,
       announced <- announced

ReceiptsArePromised == Promise!Spec
=============================================================================
