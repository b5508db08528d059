------------------------- MODULE SubmissionTheorems -------------------------
(***************************************************************************)
(* Proofs about Submission, for any number of requests, keys and tokens,   *)
(* and any lives of records and messages.                                  *)
(***************************************************************************)
EXTENDS Submission, TLAPS

-----------------------------------------------------------------------------
(***************************************************************************)
(* The inductive invariant, in three parts.                                *)
(***************************************************************************)

\* Where sendMessage is tells what it has done so far.
ProgressOf(r) ==
  /\ pc[r] \in {"new", "auth", "insert", "replay"} => ~Inserted(r)
  /\ pc[r] \in {"send", "mark", "announce", "reply"} => Inserted(r) /\ existing[r] = NoMessage
  /\ pc[r] \in {"new", "auth", "insert"} => existing[r] = NoMessage
  /\ pc[r] = "replay" => existing[r] # NoMessage
  /\ pc[r] # "done" => answer[r] = "none"
  /\ pc[r] \notin {"reply", "done"} => r \notin announced
  /\ pc[r] \in {"send", "mark"} => row[r] \in {"queued", "reported", "none"}
  /\ pc[r] = "mark" /\ sendResult[r] = "ok" => r \in accepted
  /\ pc[r] = "mark" => sendResult[r] # "none"
  /\ pc[r] \in {"announce", "reply"} =>
       /\ r \in accepted
       /\ row[r] \in {"processing", "reported", "none"}
          \/ (r \in gone \cup faulty /\ row[r] = "queued")
  /\ row[r] = "reported" => r \in accepted
  /\ r \in accepted => Inserted(r)
  /\ row[r] # "none" => Inserted(r)
  /\ r \in announced => r \in accepted /\ answer[r] # "502"
  /\ existing[r] # NoMessage => ~Inserted(r)

Progress == \A r \in Requests : ProgressOf(r)

\* A record of a token is that of an inserted message with its call and digest.
RecordsFaithful ==
  \A i \in idem :
    /\ Inserted(i.msg)
    /\ i.key = call[i.msg].key
    /\ i.token = call[i.msg].token
    /\ i.token # NoToken
    /\ i.digest = DigestOf(i.msg)
    /\ i.expires = insertedAt[i.msg] + TTL

\* A message that used a token still holds it, or is due to be forgotten.
TokensHeld ==
  \A r \in Requests :
    Inserted(r) /\ call[r].token # NoToken =>
      (\E i \in idem : i.msg = r) \/ Forgotten(r, now)

\* AtMostOncePerToken, already of the messages in the database.
OneInsertPerToken ==
  \A r, s \in Requests :
    Inserted(r) /\ Inserted(s) /\ r # s /\ SameToken(r, s) =>
      Forgotten(r, insertedAt[s]) \/ Forgotten(s, insertedAt[r])

LateStopped ==
  \A r \in late : /\ call[r].key \in revoked
                  /\ pc[r] \in {"auth", "done"}
                  /\ ~Inserted(r)
                  /\ answer[r] # "202"

SubmissionInv ==
  /\ TypeOK
  /\ Progress
  /\ RecordsFaithful
  /\ RecordsConsistent
  /\ TokensHeld
  /\ OneInsertPerToken
  /\ RowAgreesWithAnswer
  /\ LateStopped

-----------------------------------------------------------------------------
LEMMA InitTypeOK == Init => TypeOK
BY ConstantsAssumption DEF Init, TypeOK

\* A record of a token that InsertFresh makes is one.
LEMMA NewRecordTyped ==
  ASSUME TypeOK, NEW r \in Requests, call[r].token # NoToken
  PROVE  [key |-> call[r].key, token |-> call[r].token, msg |-> r,
          digest |-> DigestOf(r), expires |-> now + TTL] \in IdemRows
<1>1. call[r].key \in Keys /\ call[r].token \in Tokens /\ call[r].body \in Bodies
  BY ConstantsAssumption DEF TypeOK
<1>2. DigestOf(r) \in Digests
  BY <1>1, ConstantsAssumption DEF DigestOf
<1>3. now + TTL \in Nat
  BY ConstantsAssumption DEF TypeOK
<1> QED
  BY <1>1, <1>2, <1>3 DEF IdemRows

\* The lookup answers, or goes on to the insert, and may take the time.
LEMMA AdmitTyped ==
  ASSUME TypeOK, NEW r \in Requests, Admit(r)
  PROVE  /\ submittedAt' \in [Requests -> Nat]
         /\ pc' \in [Requests -> {"new", "auth", "insert", "replay", "send", "mark", "announce",
                                  "reply", "done"}]
         /\ answer' \in [Requests -> {"none", "202", "401", "409", "422", "500", "502", "lost"}]
         /\ faulty' \subseteq Requests
<1>1. \/ submittedAt' = submittedAt
      \/ submittedAt' = [submittedAt EXCEPT ![r] = now]
  BY DEF Admit
<1>2. \/ Return(r, "401") \/ Return(r, "422") \/ Goto(r, "insert")
  BY DEF Admit
<1>3. faulty' = faulty \/ Dropped(r)
  BY DEF Admit
<1>4. submittedAt' \in [Requests -> Nat]
  <2>1. now \in Nat
    BY ConstantsAssumption DEF TypeOK
  <2>2. submittedAt \in [Requests -> Nat]
    BY DEF TypeOK
  <2> QED
    BY <1>1, <2>1, <2>2
<1>5. pc' \in [Requests -> {"new", "auth", "insert", "replay", "send", "mark", "announce", "reply",
                           "done"}]
  BY <1>2 DEF Return, Goto, TypeOK
<1>6. answer' \in [Requests -> {"none", "202", "401", "409", "422", "500", "502", "lost"}]
  BY <1>2 DEF Return, Goto, TypeOK
<1>7. faulty' \subseteq Requests
  BY <1>3 DEF Dropped, TypeOK
<1> QED
  BY <1>4, <1>5, <1>6, <1>7

\* Every variable keeps its type.
LEMMA TypeOKInductive == TypeOK /\ [Next]_vars => TypeOK'
<1> SUFFICES ASSUME TypeOK, [Next]_vars PROVE TypeOK'
  OBVIOUS
<1> USE ConstantsAssumption DEF TypeOK, Return, Goto, Dropped
<1>1. ASSUME NEW r \in Requests, Arrive(r) PROVE TypeOK'
  BY <1>1 DEF Arrive
<1>2. ASSUME NEW r \in Requests, Admit(r) PROVE TypeOK'
  <2>1. UNCHANGED <<now, call, existing, sendResult, gone, row, idem, revoked, accepted,
                    announced, insertedAt, late>>
    BY <1>2 DEF Admit
  <2> QED
    BY <1>2, <2>1, AdmitTyped
<1>3. ASSUME NEW r \in Requests, InsertFails(r) PROVE TypeOK'
  BY <1>3 DEF InsertFails
<1>4. ASSUME NEW r \in Requests, InsertFindsPrior(r) PROVE TypeOK'
  BY <1>4 DEF InsertFindsPrior, Live, SameKey, IdemRows
<1>5. ASSUME NEW r \in Requests, InsertFresh(r) PROVE TypeOK'
  <2>1. idem' \subseteq IdemRows
    BY <1>5, NewRecordTyped DEF InsertFresh
  <2> QED
    BY <1>5, <2>1 DEF InsertFresh
<1>6. ASSUME NEW r \in Requests, Replay(r) PROVE TypeOK'
  <2>1. answer' \in [Requests -> {"none", "202", "401", "409", "422", "500", "502", "lost"}]
    BY <1>6 DEF Replay
  <2> QED
    BY <1>6, <2>1 DEF Replay
<1>7. ASSUME NEW r \in Requests, Take(r) \/ SendReturns(r) PROVE TypeOK'
  <2>1. CASE Take(r)
    BY <2>1 DEF Take
  <2>2. CASE SendReturns(r)
    BY <2>2 DEF SendReturns
  <2> QED
    BY <1>7, <2>1, <2>2
<1>8. ASSUME NEW r \in Requests, Mark(r) PROVE TypeOK'
  <2>1. row' \in [Requests -> {"none", "queued", "processing", "failed", "reported"}]
    BY <1>8 DEF Mark, WriteResult
  <2>2. faulty' \subseteq Requests
    BY <1>8 DEF Mark, WriteResult
  <2> QED
    BY <1>8, <2>1, <2>2 DEF Mark
<1>9. ASSUME NEW r \in Requests, Announce(r) \/ Reply(r) \/ Report(r) \/ Disconnect(r) PROVE TypeOK'
  BY <1>9 DEF Announce, Reply, Report, Disconnect
<1>10. ASSUME NEW k \in Revocable, RevokeKey(k) PROVE TypeOK'
  BY <1>10 DEF RevokeKey
<1>11. CASE Cleanup
  BY <1>11 DEF Cleanup
<1>12. CASE Crash
  BY <1>12 DEF Crash
<1>13. CASE Tick
  BY <1>13 DEF Tick
<1>14. CASE UNCHANGED vars
  BY <1>14 DEF vars
<1> QED
  BY <1>1, <1>2, <1>3, <1>4, <1>5, <1>6, <1>7, <1>8, <1>9, <1>10, <1>11, <1>12, <1>13, <1>14
  DEF Next, Handle

THEOREM TypeCorrect == Spec => []TypeOK
BY InitTypeOK, TypeOKInductive, PTL DEF Spec

-----------------------------------------------------------------------------
(***************************************************************************)
(* At most one message of a token.  What the argument needs of a step:     *)
(* insertedAt, idem and the rest of what Forgotten and SameToken speak of  *)
(* change in four actions only.                                            *)
(***************************************************************************)
LEMMA RecordFrame ==
  ASSUME TypeOK, [Next]_vars
  PROVE  \/ UNCHANGED <<now, call, submittedAt, insertedAt, idem>>
         \/ \E r \in Requests : Admit(r) /\ UNCHANGED <<now, call, insertedAt, idem>>
         \/ \E r \in Requests : InsertFresh(r)
         \/ Cleanup
         \/ Tick
BY DEF Next, Handle, vars, Arrive, Admit, InsertFails, InsertFindsPrior, Replay, Take,
       SendReturns, Mark, Announce, Reply, Report, Disconnect, RevokeKey, Crash

\* Once a token's use is due to be forgotten, it stays so.
LEMMA ForgottenStable ==
  ASSUME TypeOK, NEW r \in Requests, NEW t \in Int, NEW u \in Int, t <= u, Forgotten(r, t)
  PROVE  Forgotten(r, u)
BY ConstantsAssumption DEF Forgotten, TypeOK

LEMMA RecordsFaithfulInductive ==
  ASSUME SubmissionInv, [Next]_vars
  PROVE  RecordsFaithful'
<1> USE DEF SubmissionInv
<1>1. CASE UNCHANGED <<now, call, submittedAt, insertedAt, idem>>
  BY <1>1 DEF RecordsFaithful, Inserted, DigestOf
<1>2. ASSUME NEW r \in Requests, Admit(r) PROVE RecordsFaithful'
  BY <1>2 DEF Admit, RecordsFaithful, Inserted, DigestOf
<1>3. ASSUME NEW r \in Requests, InsertFresh(r) PROVE RecordsFaithful'
  <2>1. UNCHANGED <<now, call>> /\ insertedAt' = [insertedAt EXCEPT ![r] = now] /\ ~Inserted(r)
    BY <1>3 DEF InsertFresh, Progress, ProgressOf
  <2>2. ASSUME NEW i \in idem
        PROVE  /\ insertedAt'[i.msg] = insertedAt[i.msg]
               /\ Inserted(i.msg)'
    <3>1. i.msg \in Requests /\ Inserted(i.msg)
      BY DEF RecordsFaithful, TypeOK, IdemRows
    <3> QED
      BY <2>1, <3>1 DEF TypeOK, Inserted
  <2>3. ASSUME NEW i \in idem', i \notin idem
        PROVE  /\ i = [key |-> call[r].key, token |-> call[r].token, msg |-> r,
                       digest |-> DigestOf(r), expires |-> now + TTL]
               /\ call[r].token # NoToken
    BY <1>3, <2>3 DEF InsertFresh
  <2>4. insertedAt'[r] = now /\ now # -1
    BY <2>1 DEF TypeOK
  <2> QED
    BY <2>1, <2>2, <2>3, <2>4 DEF RecordsFaithful, Inserted, DigestOf
<1>4. CASE Cleanup
  BY <1>4 DEF Cleanup, RecordsFaithful, Inserted, DigestOf
<1>5. CASE Tick
  BY <1>5 DEF Tick, RecordsFaithful, Inserted, DigestOf
<1> QED
  BY <1>1, <1>2, <1>3, <1>4, <1>5, RecordFrame

LEMMA TokensHeldInductive ==
  ASSUME SubmissionInv, [Next]_vars
  PROVE  TokensHeld'
<1> USE DEF SubmissionInv
<1>1. CASE UNCHANGED <<now, call, submittedAt, insertedAt, idem>>
  BY <1>1 DEF TokensHeld, Inserted, Forgotten
<1>2. ASSUME NEW r \in Requests, Admit(r) PROVE TokensHeld'
  <2>1. ~Inserted(r) /\ UNCHANGED <<now, call, insertedAt, idem>>
    BY <1>2 DEF Admit, Progress, ProgressOf
  <2>2. \A s \in Requests : s # r => submittedAt'[s] = submittedAt[s]
    BY <1>2 DEF Admit, TypeOK
  <2> QED
    BY <2>1, <2>2 DEF TokensHeld, Inserted, Forgotten
<1>3. ASSUME NEW r \in Requests, InsertFresh(r) PROVE TokensHeld'
  <2>1. /\ UNCHANGED <<now, call, submittedAt>>
        /\ \A s \in Requests : insertedAt'[s] = IF s = r THEN now ELSE insertedAt[s]
        /\ idem \subseteq idem'
    BY <1>3 DEF InsertFresh, TypeOK
  <2>2. call[r].token # NoToken => \E i \in idem' : i.msg = r
    <3> DEFINE i == [key |-> call[r].key, token |-> call[r].token, msg |-> r,
                     digest |-> DigestOf(r), expires |-> now + TTL]
    <3>1. call[r].token # NoToken => i \in idem'
      BY <1>3 DEF InsertFresh
    <3>2. i.msg = r
      OBVIOUS
    <3> QED
      BY <3>1, <3>2
  <2>3. ASSUME NEW s \in Requests, s # r, Inserted(s)', call[s].token # NoToken
        PROVE  (\E i \in idem' : i.msg = s) \/ Forgotten(s, now)'
    BY <2>1, <2>3 DEF TokensHeld, Inserted, Forgotten
  <2> QED
    BY <2>1, <2>2, <2>3 DEF TokensHeld
<1>4. CASE Cleanup
  <2> DEFINE Old(r) == row[r] # "none" /\ submittedAt[r] < now - Retention
  <2>1. /\ UNCHANGED <<now, call, submittedAt, insertedAt>>
        /\ idem' = {i \in idem : ~Old(i.msg) /\ i.expires >= now}
    BY <1>4 DEF Cleanup
  <2>2. ASSUME NEW i \in idem, i \notin idem'
        PROVE  Forgotten(i.msg, now)
    <3>1. i.msg \in Requests /\ i.expires = insertedAt[i.msg] + TTL /\ i.expires \in Nat
      BY DEF RecordsFaithful, TypeOK, IdemRows
    <3>2. Old(i.msg) \/ i.expires < now
      BY <2>1, <2>2, <3>1 DEF TypeOK
    <3>3. CASE i.expires < now
      BY <3>1, <3>3 DEF Forgotten
    <3>4. CASE Old(i.msg)
      BY <3>1, <3>4, ConstantsAssumption DEF Forgotten, TypeOK
    <3> QED
      BY <3>2, <3>3, <3>4
  <2> QED
    BY <2>1, <2>2 DEF TokensHeld, Inserted, Forgotten
<1>5. CASE Tick
  <2>1. UNCHANGED <<call, submittedAt, insertedAt, idem>> /\ now' \in Int /\ now \in Int /\ now <= now'
    BY <1>5 DEF Tick, TypeOK
  <2>2. ASSUME NEW r \in Requests, Forgotten(r, now)
        PROVE  Forgotten(r, now)'
    <3>1. Forgotten(r, now')
      BY <2>1, <2>2, ForgottenStable
    <3> QED
      BY <2>1, <3>1 DEF Forgotten
  <2> QED
    BY <2>1, <2>2 DEF TokensHeld, Inserted
<1> QED
  BY <1>1, <1>2, <1>3, <1>4, <1>5, RecordFrame

(***************************************************************************)
(* InsertFresh makes a second use of a token only when no record of it is  *)
(* left, live or expired: the first use is due to be forgotten by then.    *)
(***************************************************************************)
LEMMA OneInsertInductive ==
  ASSUME SubmissionInv, [Next]_vars
  PROVE  OneInsertPerToken'
<1> USE DEF SubmissionInv
<1>1. CASE UNCHANGED <<now, call, submittedAt, insertedAt, idem>>
  BY <1>1 DEF OneInsertPerToken, Inserted, Forgotten, SameToken
<1>2. ASSUME NEW r \in Requests, Admit(r) PROVE OneInsertPerToken'
  <2>1. ~Inserted(r) /\ UNCHANGED <<now, call, insertedAt, idem>>
    BY <1>2 DEF Admit, Progress, ProgressOf
  <2>2. \A s \in Requests : s # r => submittedAt'[s] = submittedAt[s]
    BY <1>2 DEF Admit, TypeOK
  <2> QED
    BY <2>1, <2>2 DEF OneInsertPerToken, Inserted, Forgotten, SameToken
<1>3. ASSUME NEW r \in Requests, InsertFresh(r) PROVE OneInsertPerToken'
  <2>1. /\ UNCHANGED <<now, call, submittedAt>>
        /\ \A s \in Requests : insertedAt'[s] = IF s = r THEN now ELSE insertedAt[s]
        /\ SameKey(r) = {}
    BY <1>3 DEF InsertFresh, TypeOK
  <2>2. ASSUME NEW s \in Requests, s # r, Inserted(s), SameToken(r, s)
        PROVE  Forgotten(s, now)
    <3>1. ~\E i \in idem : i.msg = s
      BY <2>1, <2>2 DEF SameKey, SameToken, RecordsFaithful
    <3> QED
      BY <2>2, <3>1 DEF TokensHeld, SameToken
  <2>3. ASSUME NEW s \in Requests, s # r, Inserted(s), SameToken(r, s)
        PROVE  Forgotten(s, insertedAt[r])'
    BY <2>1, <2>2, <2>3 DEF Forgotten
  <2>4. ASSUME NEW s \in Requests, NEW u \in Requests, s # r, u # r, s # u,
               Inserted(s)', Inserted(u)', SameToken(s, u)'
        PROVE  Forgotten(s, insertedAt[u])' \/ Forgotten(u, insertedAt[s])'
    BY <2>1, <2>4 DEF OneInsertPerToken, Inserted, Forgotten, SameToken
  <2>5. ASSUME NEW s \in Requests, NEW u \in Requests, s # u,
               Inserted(s)', Inserted(u)', SameToken(s, u)'
        PROVE  Forgotten(s, insertedAt[u])' \/ Forgotten(u, insertedAt[s])'
    <3>1. CASE s = r
      <4>1. SameToken(s, u)
        BY <2>1, <2>5 DEF SameToken
      <4>2. SameToken(r, u)
        BY <3>1, <4>1 DEF SameToken
      <4>3. Inserted(u)
        BY <2>1, <2>5, <3>1 DEF Inserted
      <4>4. Forgotten(u, insertedAt[r])'
        BY <2>3, <2>5, <3>1, <4>2, <4>3
      <4> QED
        BY <3>1, <4>4 DEF Forgotten
    <3>2. CASE u = r
      <4>1. SameToken(s, u)
        BY <2>1, <2>5 DEF SameToken
      <4>2. SameToken(r, s)
        BY <3>2, <4>1 DEF SameToken
      <4>3. Inserted(s)
        BY <2>1, <2>5, <3>2 DEF Inserted
      <4>4. Forgotten(s, insertedAt[r])'
        BY <2>3, <2>5, <3>2, <4>2, <4>3
      <4> QED
        BY <3>2, <4>4 DEF Forgotten
    <3> QED
      BY <2>4, <2>5, <3>1, <3>2
  <2> QED
    BY <2>5 DEF OneInsertPerToken
<1>4. CASE Cleanup
  BY <1>4 DEF Cleanup, OneInsertPerToken, Inserted, Forgotten, SameToken
<1>5. CASE Tick
  BY <1>5 DEF Tick, OneInsertPerToken, Inserted, Forgotten, SameToken
<1> QED
  BY <1>1, <1>2, <1>3, <1>4, <1>5, RecordFrame

-----------------------------------------------------------------------------
(***************************************************************************)
(* Where the requests are.  A step of one request, and any other step, is  *)
(* a stutter for all the requests but that one.                            *)
(***************************************************************************)
Same(s) ==
  /\ pc'[s] = pc[s] /\ existing'[s] = existing[s] /\ sendResult'[s] = sendResult[s]
  /\ answer'[s] = answer[s] /\ row'[s] = row[s] /\ insertedAt'[s] = insertedAt[s]
  /\ s \in gone => s \in gone'
  /\ s \in faulty => s \in faulty'
  /\ s \in accepted' <=> s \in accepted
  /\ s \in announced' <=> s \in announced

LEMMA SameKeeps ==
  ASSUME NEW s \in Requests, Same(s), ProgressOf(s)
  PROVE  ProgressOf(s)'
BY DEF Same, ProgressOf, Inserted

LEMMA OthersSame ==
  ASSUME TypeOK, NEW r \in Requests, Handle(r), NEW s \in Requests, s # r
  PROVE  Same(s)
<1> USE DEF Same, TypeOK, Return, Goto, Dropped
<1>1. CASE Arrive(r) \/ Admit(r) \/ InsertFails(r)
  BY <1>1 DEF Arrive, Admit, InsertFails
<1>2. CASE InsertFindsPrior(r) \/ Replay(r)
  BY <1>2 DEF InsertFindsPrior, Replay
<1>3. CASE InsertFresh(r) \/ Take(r)
  BY <1>3 DEF InsertFresh, Take
<1>4. CASE SendReturns(r)
  BY <1>4 DEF SendReturns
<1>5. CASE Mark(r)
  BY <1>5 DEF Mark, WriteResult
<1>6. CASE Announce(r) \/ Reply(r) \/ Report(r) \/ Disconnect(r)
  BY <1>6 DEF Announce, Reply, Report, Disconnect
<1> QED
  BY <1>1, <1>2, <1>3, <1>4, <1>5, <1>6 DEF Handle

\* A crash ends the requests in flight, and no others.
LEMMA CrashFrame ==
  ASSUME Crash, NEW s \in Requests
  PROVE  \/ pc'[s] = pc[s] /\ answer'[s] = answer[s]
         \/ InFlight(s) /\ pc'[s] = "done" /\ answer'[s] = "lost"
<1>1. pc'[s] = IF InFlight(s) THEN "done" ELSE pc[s]
  BY DEF Crash
<1>2. answer'[s] = IF InFlight(s) THEN "lost" ELSE answer[s]
  BY DEF Crash
<1> QED
  BY <1>1, <1>2

LEMMA ProgressInductive ==
  ASSUME SubmissionInv, [Next]_vars
  PROVE  Progress'
<1> USE DEF SubmissionInv, Return, Goto, Dropped
<1>1. ASSUME NEW r \in Requests, Handle(r) PROVE Progress'
  <2>1. ASSUME NEW s \in Requests, s # r PROVE ProgressOf(s)'
    BY <1>1, <2>1, OthersSame, SameKeeps DEF Progress
  <2>2. ProgressOf(r)
    BY DEF Progress
  <2>3. ProgressOf(r)'
    <3> USE DEF ProgressOf, Inserted, TypeOK
    <3>1. CASE Arrive(r)
      BY <2>2, <3>1 DEF Arrive
    <3>2. CASE Admit(r)
      BY <2>2, <3>2 DEF Admit
    <3>3. CASE InsertFails(r)
      BY <2>2, <3>3 DEF InsertFails
    <3>4. CASE InsertFindsPrior(r)
      <4>1. existing'[r] # NoMessage
        BY <3>4, ConstantsAssumption DEF InsertFindsPrior, Live, SameKey, IdemRows
      <4> QED
        BY <2>2, <3>4, <4>1 DEF InsertFindsPrior
    <3>5. CASE InsertFresh(r)
      BY <2>2, <3>5 DEF InsertFresh
    <3>6. CASE Replay(r)
      BY <2>2, <3>6 DEF Replay
    <3>7. CASE Take(r)
      BY <2>2, <3>7 DEF Take
    <3>8. CASE SendReturns(r)
      BY <2>2, <3>8 DEF SendReturns
    <3>9. CASE Mark(r)
      <4>1. /\ row'[r] \in {row[r], "none", "processing", "failed"}
            /\ sendResult[r] = "ok" => row'[r] # "failed"
            /\ row'[r] # "none" => row[r] # "none"
            /\ row'[r] = "queued" => r \in gone \/ r \in faulty'
            /\ row'[r] = "reported" => row[r] = "reported"
        BY <3>9, <2>2 DEF Mark, WriteResult
      <4>2. UNCHANGED <<existing, sendResult, gone, accepted, announced, insertedAt>>
        BY <3>9 DEF Mark
      <4>3. \/ sendResult[r] = "ok" /\ pc'[r] = "announce" /\ answer' = answer
            \/ /\ sendResult[r] # "ok" /\ pc'[r] = "done"
               /\ answer'[r] \in {"502", "lost"}
        BY <3>9 DEF Mark
      <4> QED
        BY <2>2, <3>9, <4>1, <4>2, <4>3 DEF Mark
    <3>10. CASE Announce(r)
      BY <2>2, <3>10 DEF Announce
    <3>11. CASE Disconnect(r)
      BY <2>2, <3>11 DEF Disconnect
    <3>12. CASE Reply(r)
      BY <2>2, <3>12 DEF Reply
    <3>13. CASE Report(r)
      BY <2>2, <3>13 DEF Report
    <3> QED
      BY <1>1, <3>1, <3>2, <3>3, <3>4, <3>5, <3>6, <3>7, <3>8, <3>9, <3>10, <3>11, <3>12, <3>13
      DEF Handle
  <2> QED
    BY <2>1, <2>3 DEF Progress
<1>2. CASE (\E k \in Revocable : RevokeKey(k)) \/ Tick \/ UNCHANGED vars
  <2>1. \A s \in Requests : Same(s)
    BY <1>2 DEF RevokeKey, Tick, vars, Same
  <2> QED
    BY <2>1, SameKeeps DEF Progress
<1>3. CASE Cleanup
  <2>1. /\ UNCHANGED <<pc, existing, sendResult, answer, gone, accepted, announced, insertedAt,
                     faulty>>
        /\ \A s \in Requests : row'[s] \in {row[s], "none"}
    BY <1>3 DEF Cleanup
  <2> QED
    BY <2>1 DEF Progress, ProgressOf, Inserted
<1>4. CASE Crash
  <2>1. UNCHANGED <<existing, sendResult, row, gone, accepted, announced, insertedAt, faulty>>
    BY <1>4 DEF Crash
  <2>2. ASSUME NEW s \in Requests PROVE ProgressOf(s)'
    <3>1. ProgressOf(s)
      BY DEF Progress
    <3> QED
      BY <1>4, <2>1, <3>1, CrashFrame DEF ProgressOf, Inserted, InFlight
  <2> QED
    BY <2>2 DEF Progress
<1> QED
  BY <1>1, <1>2, <1>3, <1>4 DEF Next

\* What the row of a finished request says.
LEMMA RowAgreesInductive ==
  ASSUME SubmissionInv, [Next]_vars
  PROVE  RowAgreesWithAnswer'
<1> USE DEF SubmissionInv, Return, Goto, Dropped
<1>1. ASSUME NEW r \in Requests, Handle(r) PROVE RowAgreesWithAnswer'
  <2> DEFINE Agrees(s) == pc[s] = "done" =>
                            /\ row[s] = "queued"     => \/ answer[s] = "lost"
                                                        \/ answer[s] \in {"202", "502"} /\ s \in faulty
                            /\ row[s] = "processing" => answer[s] \in {"202", "lost"} /\ s \in accepted
                            /\ row[s] = "failed"     => answer[s] \in {"502", "lost"}
                            /\ row[s] = "reported"   => /\ answer[s] \in {"202", "502", "lost"}
                                                        /\ s \in accepted
  <2>1. ASSUME NEW s \in Requests, s # r PROVE Agrees(s)'
    <3>1. Same(s)
      BY <1>1, <2>1, OthersSame
    <3> QED
      BY <3>1 DEF Same, RowAgreesWithAnswer
  <2>2. ProgressOf(r)
    BY DEF Progress
  <2>3. Agrees(r)'
    <3> USE DEF ProgressOf, Inserted, TypeOK
    <3>1. CASE Arrive(r) \/ Admit(r) \/ InsertFails(r) \/ InsertFindsPrior(r) \/ Replay(r)
      <4>1. row' = row /\ row[r] = "none"
        BY <2>2, <3>1 DEF Arrive, Admit, InsertFails, InsertFindsPrior, Replay
      <4> QED
        BY <4>1
    <3>2. CASE InsertFresh(r) \/ SendReturns(r)
      BY <3>2 DEF InsertFresh, SendReturns
    <3>3. CASE Take(r) \/ Disconnect(r)
      BY <3>3 DEF Take, Disconnect, RowAgreesWithAnswer, InFlight
    <3>4. CASE Mark(r)
      <4>1. /\ row'[r] = "queued" => r \in gone \/ r \in faulty'
            /\ sendResult[r] # "ok" => row'[r] # "processing"
            /\ row'[r] = "reported" => row[r] = "reported"
        BY <2>2, <3>4 DEF Mark, WriteResult
      <4>2. \/ pc'[r] = "announce"
            \/ sendResult[r] # "ok" /\ answer'[r] = IF r \in gone THEN "lost" ELSE "502"
        BY <3>4 DEF Mark
      <4>3. accepted' = accepted
        BY <3>4 DEF Mark
      <4> QED
        BY <2>2, <4>1, <4>2, <4>3
    <3>5. CASE Announce(r) \/ Reply(r)
      BY <2>2, <3>5 DEF Announce, Reply
    <3>6. CASE Report(r)
      <4>1. row'[r] = "reported" /\ UNCHANGED <<pc, answer, accepted>> /\ r \in accepted /\ row[r] # "none"
        BY <3>6 DEF Report
      <4>2. pc[r] = "done" => answer[r] \in {"202", "502", "lost"}
        BY <4>1 DEF RowAgreesWithAnswer
      <4> QED
        BY <4>1, <4>2
    <3> QED
      BY <1>1, <3>1, <3>2, <3>3, <3>4, <3>5, <3>6 DEF Handle
  <2> QED
    BY <2>1, <2>3 DEF RowAgreesWithAnswer
<1>2. CASE (\E k \in Revocable : RevokeKey(k)) \/ Tick \/ UNCHANGED vars
  BY <1>2 DEF RevokeKey, Tick, vars, RowAgreesWithAnswer
<1>3. CASE Cleanup
  BY <1>3 DEF Cleanup, RowAgreesWithAnswer
<1>4. CASE Crash
  <2>1. UNCHANGED <<row, accepted, faulty>>
    BY <1>4 DEF Crash
  <2>2. \A s \in Requests : \/ pc'[s] = pc[s] /\ answer'[s] = answer[s]
                            \/ InFlight(s) /\ answer'[s] = "lost"
    BY <1>4, CrashFrame
  <2>3. \A s \in Requests : InFlight(s) /\ row[s] \in {"processing", "reported"} => s \in accepted
    BY DEF Progress, ProgressOf, InFlight, TypeOK
  <2> QED
    BY <2>1, <2>2, <2>3 DEF RowAgreesWithAnswer
<1> QED
  BY <1>1, <1>2, <1>3, <1>4 DEF Next

LEMMA RecordsConsistentInductive ==
  ASSUME SubmissionInv, [Next]_vars
  PROVE  RecordsConsistent'
<1> USE DEF SubmissionInv
<1>1. ASSUME NEW r \in Requests, InsertFresh(r) PROVE RecordsConsistent'
  <2>1. /\ \A s \in Requests : row'[s] = IF s = r THEN "queued" ELSE row[s]
        /\ SameKey(r) = {}
    BY <1>1 DEF InsertFresh, TypeOK
  <2>2. \A i \in idem' : \/ i \in idem /\ i.msg \in Requests
                         \/ i.key = call[r].key /\ i.token = call[r].token /\ i.msg = r
    <3> DEFINE new == [key |-> call[r].key, token |-> call[r].token, msg |-> r,
                       digest |-> DigestOf(r), expires |-> now + TTL]
    <3>1. \A i \in idem' : i \in idem \/ i = new
      BY <1>1 DEF InsertFresh
    <3>2. \A i \in idem : i.msg \in Requests
      BY DEF TypeOK, IdemRows
    <3>3. new.key = call[r].key /\ new.token = call[r].token /\ new.msg = r
      OBVIOUS
    <3> HIDE DEF new
    <3> QED
      BY <3>1, <3>2, <3>3
  <2>3. \A i, j \in idem' : i \notin idem /\ j \notin idem => i = j
    BY <1>1 DEF InsertFresh
  <2>4. \A i \in idem' : row'[i.msg] # "none"
    BY <2>1, <2>2 DEF RecordsConsistent
  <2>5. ASSUME NEW i \in idem', NEW j \in idem', i.key = j.key, i.token = j.token
        PROVE  i = j
    BY <2>1, <2>2, <2>3, <2>5 DEF RecordsConsistent, SameKey
  <2> QED
    BY <2>4, <2>5 DEF RecordsConsistent
<1>2. CASE Cleanup
  BY <1>2 DEF Cleanup, RecordsConsistent, TypeOK, IdemRows
<1>3. ASSUME NEW r \in Requests, Mark(r) \/ Report(r) PROVE RecordsConsistent'
  <2>1. idem' = idem /\ \A s \in Requests : row[s] # "none" => row'[s] # "none"
    BY <1>3 DEF Mark, WriteResult, Report, TypeOK
  <2>2. \A i \in idem : i.msg \in Requests
    BY DEF TypeOK, IdemRows
  <2> QED
    BY <2>1, <2>2 DEF RecordsConsistent
<1>4. CASE UNCHANGED <<row, idem>>
  BY <1>4 DEF RecordsConsistent
<1>5. \/ UNCHANGED <<row, idem>>
      \/ \E r \in Requests : InsertFresh(r) \/ Mark(r) \/ Report(r)
      \/ Cleanup
  BY DEF Next, Handle, vars, Arrive, Admit, InsertFails, InsertFindsPrior, Replay, Take,
         SendReturns, Announce, Reply, Disconnect, RevokeKey, Crash, Tick
<1> QED
  BY <1>1, <1>2, <1>3, <1>4, <1>5

LEMMA LateStoppedInductive ==
  ASSUME SubmissionInv, [Next]_vars
  PROVE  LateStopped'
<1> USE DEF SubmissionInv, Return, Goto
<1>1. ASSUME NEW r \in Requests, Handle(r) PROVE LateStopped'
  <2>1. UNCHANGED <<call, revoked>>
    BY <1>1 DEF Handle, Arrive, Admit, InsertFails, InsertFindsPrior, InsertFresh, Replay, Take,
                SendReturns, Mark, Announce, Reply, Report, Disconnect
  <2>2. late' = late \/ Arrive(r)
    BY <1>1 DEF Handle, Admit, InsertFails, InsertFindsPrior, InsertFresh, Replay, Take,
                SendReturns, Mark, Announce, Reply, Report, Disconnect
  <2>3. ASSUME NEW s \in late', s # r
        PROVE  /\ call[s].key \in revoked
               /\ pc'[s] \in {"auth", "done"}
               /\ ~Inserted(s)'
               /\ answer'[s] # "202"
    <3>1. s \in late /\ s \in Requests
      BY <2>2, <2>3 DEF Arrive, TypeOK
    <3>2. Same(s)
      BY <1>1, <2>3, <3>1, OthersSame
    <3> QED
      BY <3>1, <3>2 DEF LateStopped, Same, Inserted
  <2>4. ASSUME r \in late'
        PROVE  /\ call[r].key \in revoked
               /\ pc'[r] \in {"auth", "done"}
               /\ ~Inserted(r)'
               /\ answer'[r] # "202"
    <3>1. CASE Arrive(r)
      <4>1. call[r].key \in revoked
        BY <2>4, <3>1 DEF Arrive, LateStopped
      <4>2. pc'[r] = "auth" /\ insertedAt' = insertedAt /\ answer' = answer
        BY <3>1 DEF Arrive, TypeOK
      <4>3. ~Inserted(r) /\ answer[r] = "none"
        BY <3>1 DEF Arrive, Progress, ProgressOf
      <4> QED
        BY <4>1, <4>2, <4>3 DEF Inserted
    <3>2. CASE ~Arrive(r)
      <4>1. r \in late
        BY <2>2, <2>4, <3>2
      <4>2. call[r].key \in revoked /\ pc[r] \in {"auth", "done"} /\ ~Inserted(r) /\ answer[r] # "202"
        BY <4>1 DEF LateStopped
      <4>3. Admit(r) \/ Disconnect(r) \/ Report(r)
        BY <1>1, <3>2, <4>2
        DEF Handle, InsertFails, InsertFindsPrior, InsertFresh, Replay, Take, SendReturns, Mark,
            Announce, Reply
      <4> QED
        BY <4>2, <4>3 DEF Admit, Report, Disconnect, Inserted, TypeOK
    <3> QED
      BY <3>1, <3>2
  <2> QED
    BY <2>1, <2>3, <2>4 DEF LateStopped
<1>2. CASE (\E k \in Revocable : RevokeKey(k)) \/ Cleanup \/ Tick \/ UNCHANGED vars
  <2>1. UNCHANGED <<call, pc, insertedAt, answer, late>> /\ revoked \subseteq revoked'
    BY <1>2 DEF RevokeKey, Cleanup, Tick, vars
  <2> QED
    BY <2>1 DEF LateStopped, Inserted
<1>3. CASE Crash
  <2>1. UNCHANGED <<call, insertedAt, revoked, late>>
    BY <1>3 DEF Crash
  <2>2. \A s \in Requests : \/ pc'[s] = pc[s] /\ answer'[s] = answer[s]
                            \/ pc'[s] = "done" /\ answer'[s] = "lost"
    BY <1>3, CrashFrame
  <2> QED
    BY <2>1, <2>2 DEF LateStopped, Inserted, TypeOK
<1> QED
  BY <1>1, <1>2, <1>3 DEF Next

-----------------------------------------------------------------------------
LEMMA SubmissionInvInitial == Init => SubmissionInv
<1> SUFFICES ASSUME Init PROVE SubmissionInv
  OBVIOUS
<1>1. TypeOK
  BY InitTypeOK
<1>2. Progress
  BY ConstantsAssumption DEF Init, Progress, ProgressOf, Inserted
<1>3. RecordsFaithful /\ RecordsConsistent /\ LateStopped
  BY DEF Init, RecordsFaithful, RecordsConsistent, LateStopped
<1>4. TokensHeld /\ OneInsertPerToken /\ RowAgreesWithAnswer
  BY DEF Init, TokensHeld, OneInsertPerToken, RowAgreesWithAnswer, Inserted
<1> QED
  BY <1>1, <1>2, <1>3, <1>4 DEF SubmissionInv

THEOREM SubmissionInvariant == Spec => []SubmissionInv
<1>1. SubmissionInv /\ [Next]_vars => SubmissionInv'
  <2> SUFFICES ASSUME SubmissionInv, [Next]_vars PROVE SubmissionInv'
    OBVIOUS
  <2>1. TypeOK'
    BY TypeOKInductive DEF SubmissionInv
  <2> QED
    BY <2>1, ProgressInductive, RecordsFaithfulInductive, RecordsConsistentInductive,
       TokensHeldInductive, OneInsertInductive, RowAgreesInductive, LateStoppedInductive
    DEF SubmissionInv
<1> QED
  BY <1>1, SubmissionInvInitial, PTL DEF Spec

(***************************************************************************)
(* The mail server is given at most one message per idempotency key until  *)
(* the record of the first is due to be forgotten. Whatever the digest is. *)
(***************************************************************************)
THEOREM OncePerTokenCorrect == Spec => []AtMostOncePerToken
<1>1. SubmissionInv => AtMostOncePerToken
  BY DEF SubmissionInv, Progress, ProgressOf, OneInsertPerToken, AtMostOncePerToken, TypeOK
<1> QED
  BY <1>1, SubmissionInvariant, PTL

\* A record has its message, and a token one record.
THEOREM RecordsCorrect == Spec => []RecordsConsistent
<1>1. SubmissionInv => RecordsConsistent
  BY DEF SubmissionInv
<1> QED
  BY <1>1, SubmissionInvariant, PTL

\* What the client was told and what the row says agree.
THEOREM RowAgreesCorrect == Spec => []RowAgreesWithAnswer
<1>1. SubmissionInv => RowAgreesWithAnswer
  BY DEF SubmissionInv
<1> QED
  BY <1>1, SubmissionInvariant, PTL

\* A request that came after its key was revoked leaves no trace.
THEOREM RevokedKeyCorrect == Spec => []RevokedKeySendsNothing
<1>1. SubmissionInv => RevokedKeySendsNothing
  BY DEF SubmissionInv, LateStopped, RevokedKeySendsNothing, Progress, ProgressOf, TypeOK
<1> QED
  BY <1>1, SubmissionInvariant, PTL

\* message.queued is announced only of what the mail server has.
THEOREM AnnouncedCorrect == Spec => []AnnouncedIsAccepted
<1>1. SubmissionInv => AnnouncedIsAccepted
  BY DEF SubmissionInv, AnnouncedIsAccepted, Progress, ProgressOf, TypeOK
<1> QED
  BY <1>1, SubmissionInvariant, PTL

-----------------------------------------------------------------------------
(***************************************************************************)
(* The contract of 202.  With digests of their own, no request finds an    *)
(* earlier one's record to be its own: every 202 is that of a request      *)
(* which saw Send succeed.                                                 *)
(***************************************************************************)
AckInv ==
  \A r \in Requests : /\ pc[r] # "replay"
                      /\ existing[r] = NoMessage
                      /\ answer[r] = "202" => r \in accepted

LEMMA AckInductive ==
  ASSUME DigestsFresh, SubmissionInv, AckInv, [Next]_vars
  PROVE  AckInv'
<1> USE DEF SubmissionInv, Return, Goto, Dropped, AckInv
<1>1. ASSUME NEW r \in Requests, InsertFindsPrior(r) PROVE FALSE
  <2>1. PICK i \in Live(r) : i.digest = DigestOf(r)
    BY <1>1 DEF InsertFindsPrior
  <2>2. i \in idem /\ i.msg \in Requests /\ Inserted(i.msg) /\ i.digest = DigestOf(i.msg)
    BY <2>1 DEF Live, SameKey, RecordsFaithful, TypeOK, IdemRows
  <2>3. \A s \in Requests : call[s].body \in Bodies
    BY ConstantsAssumption DEF TypeOK
  <2>4. i.msg = r
    <3>1. Digest[i.msg][call[i.msg].body] = Digest[r][call[r].body]
      BY <2>1, <2>2 DEF DigestOf
    <3> QED
      BY <2>2, <2>3, <3>1 DEF DigestsFresh
  <2> QED
    BY <1>1, <2>2, <2>4 DEF InsertFindsPrior, Progress, ProgressOf
<1>2. ASSUME NEW r \in Requests, Handle(r) PROVE AckInv'
  <2>1. \A s \in Requests : s # r => Same(s)
    BY <1>2, OthersSame
  <2>2. ProgressOf(r)
    BY DEF Progress
  <2>3. /\ pc'[r] # "replay"
        /\ existing'[r] = NoMessage
        /\ answer'[r] = "202" => r \in accepted'
    <3> USE DEF TypeOK
    <3>1. CASE Arrive(r) \/ InsertFails(r) \/ Replay(r)
      BY <3>1 DEF Arrive, InsertFails, Replay
    <3>2. CASE Admit(r)
      BY <3>2 DEF Admit
    <3>3. CASE InsertFresh(r) \/ SendReturns(r)
      BY <3>3 DEF InsertFresh, SendReturns
    <3>4. CASE Take(r) \/ Report(r) \/ Disconnect(r)
      BY <3>4 DEF Take, Report, Disconnect
    <3>5. CASE Mark(r)
      BY <2>2, <3>5 DEF Mark, ProgressOf
    <3>6. CASE Announce(r) \/ Reply(r)
      BY <2>2, <3>6 DEF Announce, Reply, ProgressOf
    <3> QED
      BY <1>1, <1>2, <3>1, <3>2, <3>3, <3>4, <3>5, <3>6 DEF Handle
  <2> QED
    BY <2>1, <2>3 DEF Same
<1>3. CASE (\E k \in Revocable : RevokeKey(k)) \/ Cleanup \/ Tick \/ UNCHANGED vars
  BY <1>3 DEF RevokeKey, Cleanup, Tick, vars
<1>4. CASE Crash
  <2>1. UNCHANGED <<existing, accepted>>
    BY <1>4 DEF Crash
  <2>2. \A s \in Requests : \/ pc'[s] = pc[s] /\ answer'[s] = answer[s]
                            \/ pc'[s] = "done" /\ answer'[s] = "lost"
    BY <1>4, CrashFrame
  <2> QED
    BY <2>1, <2>2
<1> QED
  BY <1>2, <1>3, <1>4 DEF Next

THEOREM AckedIsAcceptedCorrect ==
  ASSUME DigestsFresh
  PROVE  Spec => []AckedIsAccepted
<1>1. Init => AckInv
  BY DEF Init, AckInv
<1>2. SubmissionInv /\ AckInv /\ [Next]_vars => AckInv'
  BY AckInductive
<1>3. AckInv => AckedIsAccepted
  <2> SUFFICES ASSUME AckInv, NEW r \in Requests, answer[r] = "202"
               PROVE  ReceiptOf(r) \in accepted
    BY DEF AckedIsAccepted
  <2> QED
    BY DEF AckInv, ReceiptOf
<1> QED
  BY <1>1, <1>2, <1>3, SubmissionInvariant, PTL DEF Spec

(***************************************************************************)
(* With the digests of the code no request is ever handed the message of   *)
(* an earlier one: the replay of sendMessage (server.go:614) is not        *)
(* reached, and a repeated idempotency key is answered 409 or starts anew. *)
(***************************************************************************)
THEOREM NeverReplayed ==
  ASSUME DigestsFresh
  PROVE  Spec => [](\A r \in Requests : existing[r] = NoMessage /\ pc[r] # "replay")
<1>1. Init => AckInv
  BY DEF Init, AckInv
<1>2. SubmissionInv /\ AckInv /\ [Next]_vars => AckInv'
  BY AckInductive
<1>3. AckInv => \A r \in Requests : existing[r] = NoMessage /\ pc[r] # "replay"
  BY DEF AckInv
<1> QED
  BY <1>1, <1>2, <1>3, SubmissionInvariant, PTL DEF Spec

-----------------------------------------------------------------------------
\* What InsertMessage returns to a request is of that request's own call.
ExistingIsOwn ==
  \A r \in Requests :
    existing[r] # NoMessage =>
      /\ existing[r] \in Requests
      /\ SameToken(r, existing[r])
      /\ DigestOf(r) = DigestOf(existing[r])

LEMMA ExistingIsOwnInductive ==
  ASSUME SubmissionInv, ExistingIsOwn, [Next]_vars
  PROVE  ExistingIsOwn'
<1> USE DEF SubmissionInv, Return, Goto
<1>1. ASSUME NEW r \in Requests, InsertFindsPrior(r) PROVE ExistingIsOwn'
  <2>1. PICK i \in Live(r) : /\ i.digest = DigestOf(r)
                             /\ existing' = [existing EXCEPT ![r] = i.msg]
    BY <1>1 DEF InsertFindsPrior
  <2>2. /\ i.msg \in Requests
        /\ SameToken(r, i.msg)
        /\ DigestOf(r) = DigestOf(i.msg)
    BY <2>1 DEF Live, SameKey, SameToken, RecordsFaithful, TypeOK, IdemRows
  <2>3. call' = call
    BY <1>1 DEF InsertFindsPrior
  <2> QED
    BY <2>1, <2>2, <2>3 DEF ExistingIsOwn, SameToken, DigestOf, TypeOK
<1>2. CASE UNCHANGED <<call, existing>>
  BY <1>2 DEF ExistingIsOwn, SameToken, DigestOf
<1>3. UNCHANGED <<call, existing>> \/ \E r \in Requests : InsertFindsPrior(r)
  BY DEF Next, Handle, vars, Arrive, Admit, InsertFails, InsertFresh, Replay, Take, SendReturns,
         Mark, Announce, Reply, Report, Disconnect, RevokeKey, Cleanup, Crash, Tick
<1> QED
  BY <1>1, <1>2, <1>3

\* A receipt is of the caller's own API key, idempotency key and digest.
THEOREM ReceiptIsOwnCorrect == Spec => []ReceiptIsOwn
<1>1. Init => ExistingIsOwn
  BY DEF Init, ExistingIsOwn
<1>2. SubmissionInv /\ ExistingIsOwn /\ [Next]_vars => ExistingIsOwn'
  BY ExistingIsOwnInductive
<1>3. ExistingIsOwn => ReceiptIsOwn
  BY DEF ExistingIsOwn, ReceiptIsOwn, ReceiptOf
<1> QED
  BY <1>1, <1>2, <1>3, SubmissionInvariant, PTL DEF Spec

-----------------------------------------------------------------------------
(***************************************************************************)
(* The promise of Receipts, step by step.  What a request does between its *)
(* insert and its answer, and what the clock and a crash do, is told from  *)
(* what changes: the records and times (Quiet says they do not) and the    *)
(* answers.                                                                *)
(***************************************************************************)
Quiet ==
  /\ UNCHANGED <<now, call, insertedAt, idem, accepted>>
  /\ \A r \in Requests : Inserted(r) => submittedAt'[r] = submittedAt[r]

LEMMA AskedForGood ==
  ASSUME call' = call
  PROVE  Token' = Token /\ Content' = Content
BY DEF Token, Content, DigestOf

LEMMA QuietKeeps ==
  ASSUME Quiet
  PROVE  UNCHANGED <<Token, Content, Stored, Holders, Outlived, accepted>>
<1>1. Stored' = Stored
  BY DEF Quiet, Stored, Inserted
<1>2. Outlived' = Outlived
  BY <1>1 DEF Quiet, Outlived, Stored, Forgotten
<1> QED
  BY <1>1, <1>2, AskedForGood DEF Quiet, Holders

\* What InsertMessage returned matters to a receipt only once it is given.
LEMMA NothingAnswered ==
  ASSUME answer' = answer, \A r \in Requests : answer[r] = "202" => existing'[r] = existing[r]
  PROVE  Answered' = Answered /\ GotReceipt' = GotReceipt
<1> DEFINE R == {r \in Requests : answer[r] = "202"}
<1>1. \A r \in R : ReceiptOf(r)' = ReceiptOf(r)
  BY DEF ReceiptOf
<1>2. GotReceipt = {<<r, ReceiptOf(r)>> : r \in R} /\ GotReceipt' = {<<r, ReceiptOf(r)'>> : r \in R}
  BY DEF GotReceipt
<1> QED
  BY <1>1, <1>2 DEF Answered

LEMMA OneAnswered ==
  ASSUME TypeOK, NEW r \in Requests, NEW c, c # "none", answer[r] = "none",
         answer' = [answer EXCEPT ![r] = c], existing' = existing
  PROVE  /\ r \notin Answered /\ Answered' = Answered \cup {r}
         /\ GotReceipt' = GotReceipt \cup IF c = "202" THEN {<<r, ReceiptOf(r)>>} ELSE {}
<1>1. \A s \in Requests : answer'[s] = IF s = r THEN c ELSE answer[s]
  BY DEF TypeOK
<1>2. r \notin Answered /\ Answered' = Answered \cup {r}
  BY <1>1 DEF Answered
<1>3. \A s : ReceiptOf(s)' = ReceiptOf(s)
  BY DEF ReceiptOf
<1>4. {s \in Requests : answer'[s] = "202"}
        = {s \in Requests : answer[s] = "202"} \cup IF c = "202" THEN {r} ELSE {}
  BY <1>1
<1>5. GotReceipt' = {<<s, ReceiptOf(s)>> : s \in {t \in Requests : answer'[t] = "202"}}
  BY <1>3 DEF GotReceipt
<1> QED
  BY <1>2, <1>4, <1>5 DEF GotReceipt

\* A request that ends without a receipt.
LEMMA EndMapped ==
  ASSUME TypeOK, Quiet, announced' = announced, existing' = existing,
         NEW r \in Requests, NEW c, c \notin {"none", "202"}, answer[r] = "none",
         answer' = [answer EXCEPT ![r] = c]
  PROVE  Promise!Next
<1>1. /\ r \notin Answered /\ Answered' = Answered \cup {r}
      /\ GotReceipt' = GotReceipt
  BY OneAnswered
<1>2. Promise!End({r})
  BY <1>1, QuietKeeps DEF Promise!End, Promise!asked
<1> QED
  BY <1>2 DEF Promise!Next

\* The steps that change no answer and nothing else Receipts speaks of.
LEMMA SilentMapped ==
  ASSUME TypeOK, Quiet, UNCHANGED <<answer, announced>>,
         \A r \in Requests : answer[r] = "202" => existing'[r] = existing[r]
  PROVE  UNCHANGED Promise!all
BY QuietKeeps, NothingAnswered DEF Promise!all, Promise!asked

\* InsertFresh finds no record of the token, so that no message holds it.
LEMMA StoreMapped ==
  ASSUME SubmissionInv, NEW r \in Requests, InsertFresh(r)
  PROVE  Promise!Store(r)
<1> USE DEF SubmissionInv
<1>1. /\ ~Inserted(r) /\ answer[r] = "none"
      /\ UNCHANGED <<now, call, existing, submittedAt, accepted, announced, answer>>
      /\ \A s \in Requests : insertedAt'[s] = IF s = r THEN now ELSE insertedAt[s]
      /\ SameKey(r) = {}
  BY DEF InsertFresh, Goto, Progress, ProgressOf, TypeOK
<1>2. r \notin Stored \cup Answered
  BY <1>1 DEF Stored, Answered
<1>3. Stored' = Stored \cup {r}
  <2>1. now # -1
    BY DEF TypeOK
  <2> QED
    BY <1>1, <2>1 DEF Stored, Inserted
<1>4. ASSUME NEW o \in Holders PROVE ~Promise!SameName(r, o)
  <2>1. PICK i \in idem : i.msg = o
    BY DEF Holders
  <2>2. /\ o \in Requests
        /\ i.key = call[o].key /\ i.token = call[o].token
    BY <2>1 DEF RecordsFaithful, TypeOK, IdemRows
  <2>3. ~(call[r].key = call[o].key /\ call[r].token = call[o].token)
    BY <1>1, <2>1, <2>2 DEF SameKey
  <2> QED
    BY <2>2, <2>3 DEF Promise!SameName, Token
<1>5. Holders' = IF Token[r] = {} THEN Holders ELSE Holders \cup {r}
  <2> DEFINE new == [key |-> call[r].key, token |-> call[r].token, msg |-> r,
                     digest |-> DigestOf(r), expires |-> now + TTL]
  <2>1. Token[r] = {} <=> call[r].token = NoToken
    BY DEF Token
  <2>2. idem' = idem \cup IF call[r].token = NoToken THEN {} ELSE {new}
    BY DEF InsertFresh
  <2>3. new.msg = r
    OBVIOUS
  <2> HIDE DEF new
  <2> QED
    BY <2>1, <2>2, <2>3 DEF Holders
<1>6. Outlived' \in {Outlived, Outlived \cup {r}}
  <2>1. \A s \in Stored : Forgotten(s, now)' <=> Forgotten(s, now)
    BY <1>1 DEF Stored, Forgotten
  <2> QED
    BY <1>2, <1>3, <2>1 DEF Outlived
<1>7. Answered' = Answered /\ GotReceipt' = GotReceipt
  BY <1>1, NothingAnswered
<1> QED
  BY <1>1, <1>2, <1>3, <1>4, <1>5, <1>6, <1>7, AskedForGood DEF Promise!Store, Promise!asked

\* One request's step.
LEMMA HandleMapped ==
  ASSUME SubmissionInv, ExistingIsOwn, NEW r \in Requests, Handle(r)
  PROVE  Promise!Next \/ UNCHANGED Promise!all
<1> USE DEF SubmissionInv
<1>0. ProgressOf(r)
  BY DEF Progress
<1>1. CASE Arrive(r) \/ SendReturns(r) \/ Report(r) \/ Disconnect(r)
  <2>1. Quiet /\ UNCHANGED <<answer, announced, existing>>
    BY <1>1 DEF Arrive, SendReturns, Report, Disconnect, Goto, Quiet
  <2> QED
    BY <2>1, SilentMapped
<1>2. CASE Admit(r)
  <2>1. Quiet /\ UNCHANGED <<announced, existing>> /\ answer[r] = "none"
    BY <1>0, <1>2 DEF Admit, Quiet, ProgressOf, TypeOK
  <2>2. \/ answer' = answer
        \/ \E c \in {"401", "422", "lost"} : answer' = [answer EXCEPT ![r] = c]
    BY <1>2 DEF Admit, Return, Goto
  <2> QED
    BY <2>1, <2>2, SilentMapped, EndMapped
<1>3. CASE InsertFails(r)
  <2>1. Quiet /\ UNCHANGED <<announced, existing>> /\ answer[r] = "none"
    BY <1>0, <1>3 DEF InsertFails, Quiet, ProgressOf
  <2>2. \E c \in {"409", "lost"} : answer' = [answer EXCEPT ![r] = c]
    BY <1>3 DEF InsertFails, Return
  <2> QED
    BY <2>1, <2>2, EndMapped
<1>4. CASE InsertFindsPrior(r)
  <2>1. Quiet /\ UNCHANGED <<answer, announced>> /\ answer[r] = "none"
    BY <1>0, <1>4 DEF InsertFindsPrior, Quiet, Goto, ProgressOf
  <2>2. \A s \in Requests : s # r => existing'[s] = existing[s]
    BY <1>4 DEF InsertFindsPrior, TypeOK
  <2> QED
    BY <2>1, <2>2, SilentMapped
<1>5. CASE InsertFresh(r)
  BY <1>5, StoreMapped DEF Promise!Next
<1>6. CASE Replay(r)
  <2> DEFINE o == existing[r]
  <2>1. /\ Quiet /\ UNCHANGED <<announced, existing>> /\ answer[r] = "none"
        /\ o # NoMessage /\ ~Inserted(r)
    BY <1>0, <1>6 DEF Replay, Quiet, ProgressOf
  <2>2. \E c \in {"500", "202", "lost"} :
          /\ answer' = [answer EXCEPT ![r] = c]
          /\ c = "202" => row[o] # "none"
    BY <1>6 DEF Replay, Return
  <2>3. ASSUME answer' = [answer EXCEPT ![r] = "202"], row[o] # "none"
        PROVE  Promise!Next
    <3>1. o \in Requests /\ SameToken(r, o) /\ DigestOf(r) = DigestOf(o)
      BY <2>1 DEF ExistingIsOwn
    <3>2. Inserted(o)
      BY <2>3, <3>1 DEF Progress, ProgressOf
    <3>3. r \notin Stored /\ o \in Stored
      BY <2>1, <3>1, <3>2 DEF Stored
    <3>4. Promise!SameName(r, o) /\ Content[r] = Content[o]
      BY <3>1 DEF Promise!SameName, SameToken, Token, Content
    <3>5. /\ r \notin Answered /\ Answered' = Answered \cup {r}
          /\ GotReceipt' = GotReceipt \cup {<<r, ReceiptOf(r)>>}
      BY <2>1, <2>3, OneAnswered
    <3>6. ReceiptOf(r) = o
      BY <2>1 DEF ReceiptOf
    <3>7. Promise!Repeat(r, o)
      BY <2>1, <3>3, <3>4, <3>5, <3>6, QuietKeeps DEF Promise!Repeat, Promise!asked
    <3> QED
      BY <3>1, <3>7 DEF Promise!Next
  <2> QED
    BY <2>1, <2>2, <2>3, EndMapped
<1>7. CASE Take(r)
  <2>1. /\ UNCHANGED <<now, call, submittedAt, insertedAt, idem, announced, existing, answer>>
        /\ accepted' = accepted \cup {r} /\ r \notin accepted
        /\ Inserted(r) /\ answer[r] = "none"
    BY <1>0, <1>7 DEF Take, ProgressOf
  <2>2. r \in Stored \ (accepted \cup Answered)
    BY <2>1 DEF Stored, Answered
  <2>3. UNCHANGED <<Token, Content, Stored, Holders, Outlived, Answered, GotReceipt>>
    BY <2>1, AskedForGood, NothingAnswered
    DEF Stored, Holders, Outlived, Inserted, Forgotten
  <2>4. Promise!Send(r)
    BY <2>1, <2>2, <2>3 DEF Promise!Send, Promise!asked
  <2> QED
    BY <2>4 DEF Promise!Next
<1>8. CASE Mark(r)
  <2>1. Quiet /\ UNCHANGED <<announced, existing>> /\ answer[r] = "none"
    BY <1>0, <1>8 DEF Mark, Quiet, ProgressOf
  <2>2. \/ answer' = answer
        \/ \E c \in {"502", "lost"} : answer' = [answer EXCEPT ![r] = c]
    BY <1>8 DEF Mark, Return, Goto
  <2> QED
    BY <2>1, <2>2, SilentMapped, EndMapped
<1>9. CASE Announce(r)
  <2>1. Quiet /\ UNCHANGED <<answer, existing>> /\ answer[r] = "none" /\ r \in accepted
    BY <1>0, <1>9 DEF Announce, Quiet, Goto, ProgressOf
  <2>2. CASE announced' = announced
    BY <2>1, <2>2, SilentMapped
  <2>3. CASE announced' = announced \cup {r}
    <3>1. r \notin Answered
      BY <2>1 DEF Answered
    <3>2. Answered' = Answered /\ GotReceipt' = GotReceipt
      BY <2>1, NothingAnswered
    <3>3. Promise!Announce(r)
      BY <2>1, <2>3, <3>1, <3>2, QuietKeeps DEF Promise!Announce, Promise!asked
    <3> QED
      BY <3>3 DEF Promise!Next
  <2> QED
    BY <1>9, <2>2, <2>3 DEF Announce
<1>10. CASE Reply(r)
  <2>1. /\ Quiet /\ UNCHANGED <<announced, existing>> /\ answer[r] = "none"
        /\ r \in accepted /\ existing[r] = NoMessage
    BY <1>0, <1>10 DEF Reply, Quiet, ProgressOf
  <2>2. CASE r \in gone
    <3>1. answer' = [answer EXCEPT ![r] = "lost"]
      BY <1>10, <2>2 DEF Reply, Return
    <3> QED
      BY <2>1, <3>1, EndMapped
  <2>3. CASE r \notin gone
    <3>1. answer' = [answer EXCEPT ![r] = "202"]
      BY <1>10, <2>3 DEF Reply, Return
    <3>2. /\ r \notin Answered /\ Answered' = Answered \cup {r}
          /\ GotReceipt' = GotReceipt \cup {<<r, ReceiptOf(r)>>}
      BY <2>1, <3>1, OneAnswered
    <3>3. ReceiptOf(r) = r
      BY <2>1 DEF ReceiptOf
    <3>4. Promise!Acknowledge(r)
      BY <2>1, <3>2, <3>3, QuietKeeps DEF Promise!Acknowledge, Promise!asked
    <3> QED
      BY <3>4 DEF Promise!Next
  <2> QED
    BY <2>2, <2>3
<1> QED
  BY <1>1, <1>2, <1>3, <1>4, <1>5, <1>6, <1>7, <1>8, <1>9, <1>10 DEF Handle

\* What the cleanup deletes is due to be forgotten.
LEMMA CleanupMapped ==
  ASSUME SubmissionInv, Cleanup
  PROVE  Promise!Next
<1> USE DEF SubmissionInv
<1> DEFINE Old(r) == row[r] # "none" /\ submittedAt[r] < now - Retention
           gone1  == Holders \ Holders'
<1>1. /\ UNCHANGED <<now, call, submittedAt, insertedAt, existing, answer, accepted, announced>>
      /\ idem' = {i \in idem : ~Old(i.msg) /\ i.expires >= now}
  BY DEF Cleanup
<1>2. ASSUME NEW m \in gone1 PROVE m \in Outlived
  <2>1. PICK i \in idem : i.msg = m /\ i \notin idem'
    BY DEF Holders
  <2>2. m \in Requests /\ Inserted(m) /\ i.expires = insertedAt[m] + TTL /\ i.expires \in Nat
    BY <2>1 DEF RecordsFaithful, TypeOK, IdemRows
  <2>3. Old(m) \/ i.expires < now
    BY <1>1, <2>1, <2>2 DEF TypeOK
  <2>4. Forgotten(m, now)
    <3>1. now \in Int /\ submittedAt[m] \in Int /\ insertedAt[m] \in Int /\ Retention \in Int /\ TTL \in Int
      BY <2>2, ConstantsAssumption DEF TypeOK
    <3> QED
      BY <2>2, <2>3, <3>1 DEF Forgotten
  <2> QED
    BY <2>2, <2>4 DEF Outlived, Stored
<1>3. Holders' = Holders \ gone1
  BY <1>1 DEF Holders
<1>4. UNCHANGED <<Token, Content, Stored, Outlived, Answered, GotReceipt>>
  BY <1>1, AskedForGood, NothingAnswered DEF Stored, Outlived, Inserted, Forgotten
<1>5. gone1 \subseteq Requests
  BY <1>2 DEF Outlived, Stored
<1> HIDE DEF gone1
<1>6. Promise!LetGo(gone1)
  BY <1>1, <1>2, <1>3, <1>4 DEF Promise!LetGo, Promise!asked
<1> QED
  BY <1>5, <1>6 DEF Promise!Next

\* A crash ends the requests in flight.
LEMMA CrashMapped ==
  ASSUME SubmissionInv, Crash
  PROVE  Promise!Next
<1> USE DEF SubmissionInv
<1> DEFINE M == {r \in Requests : InFlight(r)}
<1>1. Quiet /\ UNCHANGED <<announced, existing>> /\ M # {}
  BY DEF Crash, Quiet
<1>2. \A r \in Requests : answer'[r] = IF r \in M THEN "lost" ELSE answer[r]
  BY DEF Crash
<1>3. \A r \in M : answer[r] = "none"
  BY DEF Progress, ProgressOf, InFlight
<1>4. M \subseteq Requests
  OBVIOUS
<1> HIDE DEF M
<1>5. M \cap Answered = {} /\ Answered' = Answered \cup M
  BY <1>2, <1>3, <1>4 DEF Answered
<1>6. GotReceipt' = GotReceipt
  <2>1. \A s : ReceiptOf(s)' = ReceiptOf(s)
    BY <1>1 DEF ReceiptOf
  <2>2. {r \in Requests : answer'[r] = "202"} = {r \in Requests : answer[r] = "202"}
    BY <1>2, <1>3
  <2> QED
    BY <2>1, <2>2 DEF GotReceipt
<1>7. Promise!End(M)
  BY <1>1, <1>5, <1>6, QuietKeeps DEF Promise!End, Promise!asked
<1> QED
  BY <1>4, <1>7 DEF Promise!Next

LEMMA TickMapped ==
  ASSUME SubmissionInv, Tick
  PROVE  Promise!Next
<1> USE DEF SubmissionInv
<1>1. /\ UNCHANGED <<call, submittedAt, insertedAt, idem, existing, answer, accepted, announced>>
      /\ now' \in Int /\ now \in Int /\ now <= now'
  BY DEF Tick, TypeOK
<1>2. UNCHANGED <<Token, Content, Stored, Holders, Answered, GotReceipt>>
  BY <1>1, AskedForGood, NothingAnswered DEF Stored, Holders, Inserted
<1>3. Outlived \subseteq Outlived' /\ Outlived' \subseteq Stored
  <2>1. ASSUME NEW r \in Outlived PROVE r \in Outlived'
    <3>1. r \in Stored /\ r \in Requests /\ Forgotten(r, now)
      BY DEF Outlived, Stored
    <3>2. Forgotten(r, now')
      BY <1>1, <3>1, ForgottenStable
    <3>3. Forgotten(r, now)'
      BY <1>1, <3>2 DEF Forgotten
    <3> QED
      BY <1>2, <3>1, <3>3 DEF Outlived
  <2> QED
    BY <1>2, <2>1 DEF Outlived
<1>4. Promise!Age(Outlived')
  BY <1>1, <1>2, <1>3 DEF Promise!Age, Promise!asked
<1>5. Outlived' \subseteq Requests
  BY <1>3 DEF Stored
<1> QED
  BY <1>4, <1>5 DEF Promise!Next

LEMMA PromiseInitial == Init => Promise!Init
<1> SUFFICES ASSUME Init PROVE Promise!Init
  OBVIOUS
<1>0. TypeOK
  BY InitTypeOK
<1>1. Token \in [Requests -> {{}} \cup {{n} : n \in Keys \X Tokens}]
  <2>1. \A r \in Requests :
          call[r].token # NoToken => <<call[r].key, call[r].token>> \in Keys \X Tokens
    BY <1>0, ConstantsAssumption DEF TypeOK
  <2> QED
    BY <2>1 DEF Token
<1>2. Content \in [Requests -> Digests]
  <2>1. \A r \in Requests : call[r].body \in Bodies
    BY <1>0, ConstantsAssumption DEF TypeOK
  <2> QED
    BY <2>1, ConstantsAssumption DEF Content, DigestOf
<1>3. Stored = {} /\ Outlived = {} /\ Holders = {}
  BY DEF Init, Stored, Outlived, Holders, Inserted
<1>4. Answered = {} /\ GotReceipt = {}
  BY DEF Init, Answered, GotReceipt
<1> QED
  BY <1>1, <1>2, <1>3, <1>4 DEF Init, Promise!Init

(***************************************************************************)
(* POST /api/v1/messages keeps the promise of Receipts, for any requests,  *)
(* tokens and digests: under the mapping of Submission every step is one   *)
(* that Receipts allows, or a stutter.                                     *)
(***************************************************************************)
THEOREM ReceiptsKept == Spec => ReceiptsArePromised
<1>1. SubmissionInv /\ ExistingIsOwn /\ [Next]_vars => [Promise!Next]_(Promise!all)
  <2> SUFFICES ASSUME SubmissionInv, ExistingIsOwn, [Next]_vars
               PROVE  Promise!Next \/ UNCHANGED Promise!all
    OBVIOUS
  <2>1. CASE (\E k \in Revocable : RevokeKey(k)) \/ UNCHANGED vars
    <3>1. SubmissionInv => TypeOK
      BY DEF SubmissionInv
    <3>2. Quiet /\ UNCHANGED <<answer, announced, existing>>
      BY <2>1 DEF RevokeKey, vars, Quiet
    <3> QED
      BY <3>1, <3>2, SilentMapped
  <2> QED
    BY <2>1, HandleMapped, CleanupMapped, CrashMapped, TickMapped DEF Next
<1>2. Init => ExistingIsOwn
  BY DEF Init, ExistingIsOwn
<1>3. SubmissionInv /\ ExistingIsOwn /\ [Next]_vars => ExistingIsOwn'
  BY ExistingIsOwnInductive
<1> QED
  BY <1>1, <1>2, <1>3, PromiseInitial, SubmissionInvariant, PTL
     DEF Spec, ReceiptsArePromised, Promise!Spec

-----------------------------------------------------------------------------
(***************************************************************************)
(* What the promise is worth: whoever keeps it sends one message of a      *)
(* token, but for one that was due to lose it. The argument is about       *)
(* Receipts alone; nothing of Submission's steps is used.                  *)
(***************************************************************************)
PromiseInv ==
  /\ accepted \subseteq Stored
  /\ \A m \in Stored : Token[m] # {} => m \in Holders \cup Outlived
  /\ \A m, o \in Stored :
       m # o /\ Promise!SameName(m, o) => m \in Outlived \/ o \in Outlived

LEMMA PromiseInvInductive ==
  ASSUME PromiseInv, [Promise!Next]_(Promise!all)
  PROVE  PromiseInv'
<1> USE DEF PromiseInv, Promise!SameName
<1>1. CASE UNCHANGED Promise!all
  BY <1>1 DEF Promise!all, Promise!asked
<1>2. ASSUME NEW m \in Requests, Promise!Store(m) PROVE PromiseInv'
  <2>1. /\ m \notin Stored /\ Stored' = Stored \cup {m}
        /\ UNCHANGED <<Token, accepted>>
        /\ Holders' = IF Token[m] = {} THEN Holders ELSE Holders \cup {m}
        /\ Outlived \subseteq Outlived'
        /\ \A o \in Holders : ~Promise!SameName(m, o)
    BY <1>2 DEF Promise!Store, Promise!asked
  <2>2. \A o \in Stored : Promise!SameName(m, o) \/ Promise!SameName(o, m) => o \in Outlived'
    BY <2>1
  <2> QED
    BY <2>1, <2>2
<1>3. ASSUME NEW m \in Requests, Promise!Send(m) \/ Promise!Announce(m) \/ Promise!Acknowledge(m)
      PROVE  PromiseInv'
  BY <1>3 DEF Promise!Send, Promise!Announce, Promise!Acknowledge, Promise!asked
<1>4. ASSUME NEW m \in Requests, NEW o \in Requests, Promise!Repeat(m, o) PROVE PromiseInv'
  BY <1>4 DEF Promise!Repeat, Promise!asked
<1>5. ASSUME NEW M \in SUBSET Requests, Promise!End(M) \/ Promise!Age(M) \/ Promise!LetGo(M)
      PROVE  PromiseInv'
  BY <1>5 DEF Promise!End, Promise!Age, Promise!LetGo, Promise!asked
<1> QED
  BY <1>1, <1>2, <1>3, <1>4, <1>5 DEF Promise!Next

THEOREM PromiseMeansOnce == ReceiptsArePromised => []Promise!OncePerName
<1>1. Promise!Init => PromiseInv
  BY DEF Promise!Init, PromiseInv
<1>2. PromiseInv /\ [Promise!Next]_(Promise!all) => PromiseInv'
  BY PromiseInvInductive
<1>3. PromiseInv => Promise!OncePerName
  BY DEF PromiseInv, Promise!OncePerName
<1> QED
  BY <1>1, <1>2, <1>3, PTL DEF ReceiptsArePromised, Promise!Spec
=============================================================================
