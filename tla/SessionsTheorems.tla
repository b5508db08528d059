-------------------------- MODULE SessionsTheorems --------------------------
(***************************************************************************)
(* Proofs about Sessions, for any number of sessions, requests and tokens. *)
(***************************************************************************)
EXTENDS Sessions, TLAPS

\* The tokens rows and requests hold were issued for their session, and an
\* answered request holds a newer one than it found in the row.
Issued ==
  /\ \A s \in live : row[s].access \in 1 .. issued[s]
  /\ \A r \in Request :
       /\ req[r].pc # "idle" => req[r].s \in born
       /\ req[r].pc = "asking" => req[r].old \in 1 .. issued[req[r].s]
       /\ req[r].pc = "answered" => /\ req[r].access \in 1 .. issued[req[r].s]
                                    /\ req[r].access # req[r].old
       /\ req[r].pc = "serving" => req[r].access # 0 /\ req[r].access # req[r].old

\* A session nothing has happened to is renewed by one request at a time, which
\* holds what the mail server will honour while the row does not.
Calm(s) ==
  /\ \A r, q \in Renewing(s) : r = q
  /\ \A r \in Request : req[r].s = s =>
       /\ req[r].pc = "asking" => req[r].refresh \in usable[s]
       /\ req[r].pc = "answered" => NextRefresh(r) \in usable[s]
       /\ req[r].pc # "failed"
  /\ \/ row[s].refresh \in usable[s]
     \/ \E r \in Renewing(s) : req[r].pc = "answered" /\ req[r].next # 0

Kept == \A s \in live \ troubled : Calm(s)

\* The inductive invariant.
IInv == TypeOK /\ Issued /\ Kept /\ SignOutIsExplained

-----------------------------------------------------------------------------
LEMMA InitIInv == Init => IInv
<1> SUFFICES ASSUME Init PROVE IInv
  OBVIOUS
<1>1. (CHOOSE s \in Session : TRUE) \in Session /\ 0 \in Token
  BY ConstantsAssumption DEF Token
<1>2. Idle(CHOOSE s \in Session : TRUE) \in Turns
  BY <1>1 DEF Turns, Idle
<1>3. row \in [Session -> Rows]
  BY <1>1 DEF Init, Rows
<1>4. TypeOK
  BY <1>1, <1>2, <1>3 DEF Init, TypeOK
<1>5. Issued /\ Kept /\ SignOutIsExplained
  BY DEF Init, Issued, Kept, SignOutIsExplained, Idle
<1> QED
  BY <1>4, <1>5 DEF IInv

\* A request that comes to another point of session() is still one.
LEMMA TurnType ==
  ASSUME TypeOK, NEW r \in Request, NEW pc \in {"idle", "asking", "answered", "failed", "serving"}
  PROVE  /\ [req[r] EXCEPT !.pc = pc] \in Turns
         /\ \A t \in Turns : [req EXCEPT ![r] = t] \in [Request -> Turns]
         /\ [req EXCEPT ![r].pc = pc] \in [Request -> Turns]
         /\ req[r].s \in Session
         /\ Idle(req[r].s) \in Turns
<1>1. req[r] \in Turns /\ 0 \in Token
  BY ConstantsAssumption DEF TypeOK, Token
<1>2. [req[r] EXCEPT !.pc = pc] \in Turns
  BY <1>1 DEF Turns
<1> QED
  BY <1>1, <1>2 DEF TypeOK, Idle, Turns

LEMMA TypeStep == TypeOK /\ [Next]_vars => TypeOK'
<1> SUFFICES ASSUME TypeOK, [Next]_vars PROVE TypeOK'
  OBVIOUS
<1> USE DEF process, store, mail, history
<1>0. 0 \in Token /\ 1 \in Token
  BY ConstantsAssumption DEF Token
<1>1. ASSUME NEW readable \in BOOLEAN, Start(readable) PROVE TypeOK'
  BY <1>1 DEF Start, TypeOK
<1>2. CASE DieWritingKey
  BY <1>2 DEF DieWritingKey, TypeOK
<1>3. CASE Crash
  BY <1>3, <1>0 DEF Crash, TypeOK, Idle, Turns
<1>4. ASSUME NEW s \in Session, NEW due \in BOOLEAN, NEW refresh \in {0, 1},
             SignIn(s, due, refresh)
      PROVE  TypeOK'
  <2>1. [access |-> 1, refresh |-> refresh, due |-> due, key |-> key] \in Rows
    BY <1>0, <1>4 DEF SignIn, Rows, TypeOK
  <2> QED
    BY <1>0, <1>4, <2>1 DEF SignIn, TypeOK
<1>5. ASSUME NEW s \in Session, Logout(s) PROVE TypeOK'
  BY <1>5 DEF Logout, TypeOK
<1>6. ASSUME NEW s \in Session, TokenAges(s) PROVE TypeOK'
  BY <1>6 DEF TokenAges, TypeOK, Rows
<1>7. ASSUME NEW s \in Session, SessionAges(s) \/ Revoke(s) PROVE TypeOK'
  BY <1>7 DEF SessionAges, Revoke, TypeOK
<1>8. CASE Cleanup
  BY <1>8 DEF Cleanup, TypeOK
<1>9. ASSUME NEW r \in Request, NEW s \in Session, ServeStored(r, s) \/ AskRefresh(r, s)
      PROVE  TypeOK'
  <2>1. row[s].access \in Token /\ row[s].refresh \in Token
    BY DEF TypeOK, Rows
  <2>2. /\ [Idle(s) EXCEPT !.pc = "serving", !.access = row[s].access] \in Turns
        /\ [Idle(s) EXCEPT !.pc = "asking", !.old = row[s].access,
                           !.refresh = row[s].refresh] \in Turns
    BY <1>0, <2>1 DEF Idle, Turns
  <2>3. req' \in [Request -> Turns]
    BY <1>9, <2>2, TurnType DEF ServeStored, AskRefresh
  <2> QED
    BY <1>9, <2>3 DEF ServeStored, AskRefresh, TypeOK
<1>10. ASSUME NEW r \in Request, NEW next \in Token, NEW kept \in BOOLEAN, Grant(r, next, kept)
       PROVE  TypeOK'
  <2> DEFINE s == req[r].s
  <2>1. s \in Session /\ req[r] \in Turns /\ req[r].refresh \in Token
    BY DEF TypeOK, Turns
  <2>2. issued[s] + 1 \in Token
    BY <1>10, <2>1, ConstantsAssumption DEF Grant, TypeOK, Token
  <2>3. [req[r] EXCEPT !.pc = "answered", !.access = issued[s] + 1, !.next = next] \in Turns
    BY <2>1, <2>2 DEF Turns
  <2>4. req' \in [Request -> Turns]
    BY <1>10, <2>3 DEF Grant, TypeOK
  <2>5. issued' \in [Session -> Token] /\ usable' \in [Session -> SUBSET Token]
    BY <1>10, <2>1, <2>2 DEF Grant, TypeOK
  <2> QED
    BY <1>10, <2>4, <2>5 DEF Grant, TypeOK
<1>11. ASSUME NEW r \in Request,
              Refuse(r) \/ Outage(r) \/ DropSession(r) \/ DropFails(r) \/ StoreFails(r) \/ Serve(r)
       PROVE  TypeOK'
  <2>1. req[r].s \in Session /\ [req EXCEPT ![r] = Idle(req[r].s)] \in [Request -> Turns]
        /\ [req EXCEPT ![r].pc = "failed"] \in [Request -> Turns]
    <3>1. /\ \A t \in Turns : [req EXCEPT ![r] = t] \in [Request -> Turns]
          /\ [req EXCEPT ![r].pc = "failed"] \in [Request -> Turns]
          /\ req[r].s \in Session /\ Idle(req[r].s) \in Turns
      BY TurnType
    <3> QED
      BY <3>1
  <2>2. \/ req' = [req EXCEPT ![r] = Idle(req[r].s)]
        \/ req' = [req EXCEPT ![r].pc = "failed"]
    BY <1>11, Zenon DEF Refuse, Outage, DropSession, DropFails, StoreFails, Serve
  <2>3. req' \in [Request -> Turns]
    BY <2>1, <2>2
  <2> QED
    BY <1>11, <2>1, <2>3 DEF Refuse, Outage, DropSession, DropFails, StoreFails, Serve, TypeOK
<1>12. ASSUME NEW r \in Request, StoreTokens(r) PROVE TypeOK'
  <2>1. req' \in [Request -> Turns]
    BY <1>12, TurnType DEF StoreTokens
  <2>2. ASSUME req[r].s \in live PROVE Renewed(r) \in Rows
    <3>1. key \in {"secret", "own"} /\ req[r] \in Turns
      BY <1>12 DEF StoreTokens, TypeOK
    <3> QED
      BY <3>1 DEF Renewed, NextRefresh, Rows, Turns
  <2>3. row' \in [Session -> Rows]
    BY <1>12, <2>2, TurnType DEF StoreTokens, TypeOK
  <2> QED
    BY <1>12, <2>1, <2>3 DEF StoreTokens, TypeOK
<1>13. CASE UNCHANGED vars
  BY <1>13 DEF vars, TypeOK
<1> QED
  BY <1>1, <1>2, <1>3, <1>4, <1>5, <1>6, <1>7, <1>8, <1>9, <1>10, <1>11, <1>12, <1>13 DEF Next

-----------------------------------------------------------------------------
\* The steps that leave a request with nothing to store.
LEMMA LeavesRenewal ==
  ASSUME TypeOK, NEW r \in Request,
         \/ Refuse(r) \/ Outage(r) \/ DropSession(r) \/ DropFails(r)
         \/ StoreFails(r) \/ Serve(r)
  PROVE  /\ req'[r].pc \in {"idle", "failed"} /\ (req'[r].pc = "failed" => req[r].pc # "idle")
         /\ req'[r].s = req[r].s /\ \A q \in Request : q # r => req'[q] = req[q]
         /\ live' \subseteq live
         /\ UNCHANGED <<born, row, issued, usable, aged, loggedOut>>
<1>1. req[r] \in Turns
  BY DEF TypeOK
<1>2. CASE Refuse(r) \/ Outage(r)
  <2>1. req' = [req EXCEPT ![r].pc = "failed"] /\ req[r].pc # "idle"
    BY <1>2 DEF Refuse, Outage
  <2>2. req'[r].pc = "failed" /\ req'[r].s = req[r].s /\ \A q \in Request : q # r => req'[q] = req[q]
    BY <1>1, <2>1 DEF TypeOK, Turns
  <2> QED
    BY <1>2, <2>1, <2>2 DEF Refuse, Outage, store, mail, history
<1>3. CASE DropSession(r) \/ DropFails(r) \/ StoreFails(r) \/ Serve(r)
  <2>1. req' = [req EXCEPT ![r] = Idle(req[r].s)]
    BY <1>3 DEF DropSession, DropFails, StoreFails, Serve
  <2>2. req'[r].pc = "idle" /\ req'[r].s = req[r].s /\ \A q \in Request : q # r => req'[q] = req[q]
    BY <2>1 DEF TypeOK, Idle
  <2> QED
    BY <1>3, <2>2 DEF DropSession, DropFails, StoreFails, Serve, store, mail, history
<1> QED
  BY <1>2, <1>3

LEMMA IssuedStep == TypeOK /\ Issued /\ [Next]_vars => Issued'
<1> SUFFICES ASSUME TypeOK, Issued, [Next]_vars PROVE Issued'
  OBVIOUS
<1> USE DEF process, store, mail, history
<1>0. \A s \in Session : issued[s] \in Nat
  BY ConstantsAssumption DEF TypeOK, Token
<1>1. CASE \/ \E readable \in BOOLEAN : Start(readable)
           \/ DieWritingKey
           \/ Cleanup
           \/ UNCHANGED vars
  BY <1>1 DEF Start, DieWritingKey, Cleanup, vars, Issued
<1>2. CASE Crash
  BY <1>2 DEF Crash, Issued, Idle
<1>3. ASSUME NEW s \in Session, NEW due \in BOOLEAN, NEW refresh \in {0, 1},
             SignIn(s, due, refresh)
      PROVE  Issued'
  <2>1. \A r \in Request : req[r].pc # "idle" => req[r].s # s
    BY <1>3 DEF SignIn, Issued
  <2> QED
    BY <1>3, <2>1, <1>0 DEF SignIn, Issued, TypeOK
<1>4. ASSUME NEW s \in Session, Logout(s) \/ TokenAges(s) \/ SessionAges(s) \/ Revoke(s)
      PROVE  Issued'
  <2>1. UNCHANGED <<born, req, issued>> /\ live' \subseteq live
    BY <1>4 DEF Logout, TokenAges, SessionAges, Revoke
  <2>2. \A n \in live : row'[n].access = row[n].access
    BY <1>4 DEF Logout, TokenAges, SessionAges, Revoke, TypeOK, Rows
  <2> QED
    BY <2>1, <2>2 DEF Issued
<1>5. ASSUME NEW r \in Request, NEW s \in Session, ServeStored(r, s) \/ AskRefresh(r, s)
      PROVE  Issued'
  <2>1. s \in live /\ s \in born /\ row[s].access \in 1 .. issued[s] /\ issued[s] \in Nat
    BY <1>0, <1>5 DEF ServeStored, AskRefresh, Found, TypeOK, Issued
  <2>2. /\ req'[r].s = s
        /\ \/ req'[r].pc = "serving" /\ req'[r].access = row[s].access /\ req'[r].old = 0
           \/ req'[r].pc = "asking" /\ req'[r].old = row[s].access
    <3>1. CASE ServeStored(r, s)
      BY <3>1, Zenon DEF ServeStored, Idle, TypeOK
    <3>2. CASE AskRefresh(r, s)
      BY <3>2, Zenon DEF AskRefresh, Idle, TypeOK
    <3> QED
      BY <1>5, <3>1, <3>2
  <2>3. \A q \in Request : q # r => req'[q] = req[q]
    BY <1>5 DEF ServeStored, AskRefresh, TypeOK
  <2>4. UNCHANGED <<born, live, row, issued>>
    BY <1>5 DEF ServeStored, AskRefresh
  <2> QED
    BY <2>1, <2>2, <2>3, <2>4 DEF Issued
<1>6. ASSUME NEW r \in Request, NEW next \in Token, NEW kept \in BOOLEAN, Grant(r, next, kept)
      PROVE  Issued'
  <2>1. req[r].s \in Session /\ req[r].s \in born /\ req[r].old \in 1 .. issued[req[r].s]
    BY <1>6 DEF Grant, TypeOK, Turns, Issued
  <2>2. /\ req'[r].pc = "answered" /\ req'[r].s = req[r].s /\ req'[r].old = req[r].old
        /\ req'[r].access = issued[req[r].s] + 1
    BY <1>6 DEF Grant, TypeOK
  <2>3. \A q \in Request : q # r => req'[q] = req[q]
    BY <1>6 DEF Grant, TypeOK
  <2>4. /\ issued'[req[r].s] = issued[req[r].s] + 1
        /\ \A s \in Session : s # req[r].s => issued'[s] = issued[s]
        /\ UNCHANGED <<born, live, row>>
    BY <1>6, <2>1 DEF Grant, TypeOK
  <2> QED
    BY <1>0, <2>1, <2>2, <2>3, <2>4 DEF Issued, TypeOK, Turns
<1>7. ASSUME NEW r \in Request,
             \/ Refuse(r) \/ Outage(r) \/ DropSession(r) \/ DropFails(r)
             \/ StoreFails(r) \/ Serve(r)
      PROVE  Issued'
  <2>1. /\ req'[r].pc \in {"idle", "failed"} /\ (req'[r].pc = "failed" => req[r].pc # "idle")
        /\ req'[r].s = req[r].s /\ \A q \in Request : q # r => req'[q] = req[q]
        /\ live' \subseteq live /\ UNCHANGED <<born, row, issued>>
    BY <1>7, LeavesRenewal
  <2> QED
    BY <2>1 DEF Issued
<1>8. ASSUME NEW r \in Request, StoreTokens(r) PROVE Issued'
  <2>1. /\ req[r].access \in 1 .. issued[req[r].s] /\ req[r].access # req[r].old
        /\ req[r].s \in born
    BY <1>8 DEF StoreTokens, Issued
  <2>2. /\ req'[r].pc = "serving" /\ req'[r].s = req[r].s
        /\ req'[r].access = req[r].access /\ req'[r].old = req[r].old
        /\ \A q \in Request : q # r => req'[q] = req[q]
    BY <1>8 DEF StoreTokens, TypeOK
  <2>3. \A s \in live : row'[s].access = row[s].access
                        \/ (s = req[r].s /\ row'[s].access = req[r].access)
    BY <1>8 DEF StoreTokens, Renewed, TypeOK
  <2>4. UNCHANGED <<born, live, issued>>
    BY <1>8 DEF StoreTokens
  <2> QED
    BY <1>0, <2>1, <2>2, <2>3, <2>4 DEF Issued, TypeOK
<1> QED
  BY <1>1, <1>2, <1>3, <1>4, <1>5, <1>6, <1>7, <1>8 DEF Next

-----------------------------------------------------------------------------
\* Nothing about a session but the age of its token changes for a session
\* whose requests, row and tokens stay as they are.
LEMMA CalmStays ==
  ASSUME NEW s \in Session, Calm(s),
         UNCHANGED <<req, usable>>, row'[s].refresh = row[s].refresh
  PROVE  Calm(s)'
BY DEF Calm, Renewing, NextRefresh

LEMMA KeptStep == IInv /\ [Next]_vars => Kept'
<1> SUFFICES ASSUME IInv, [Next]_vars, NEW s \in (live \ troubled)' PROVE Calm(s)'
  BY DEF Kept
<1> s \in Session /\ s \in live' /\ s \notin troubled'
  BY TypeStep DEF IInv, TypeOK
<1> USE DEF process, store, mail, history
<1>t. TypeOK /\ Issued /\ (s \in live /\ s \notin troubled => Calm(s))
  BY DEF IInv, Kept
<1>1. CASE (\E readable \in BOOLEAN : Start(readable)) \/ DieWritingKey \/ Cleanup \/ UNCHANGED vars
  BY <1>1, <1>t, CalmStays DEF Start, DieWritingKey, Cleanup, vars
<1>2. CASE Crash
  <2>1. s \in live /\ s \notin troubled /\ Renewing(s) = {} /\ UNCHANGED <<row, usable>>
    BY <1>2 DEF Crash
  <2>2. row[s].refresh \in usable[s]
    BY <1>t, <2>1 DEF Calm
  <2>3. \A r \in Request : req'[r].pc = "idle"
    BY <1>2 DEF Crash, Idle
  <2> QED
    BY <2>1, <2>2, <2>3 DEF Calm, Renewing
<1>3. ASSUME NEW n \in Session, NEW due \in BOOLEAN, NEW refresh \in {0, 1},
             SignIn(n, due, refresh)
      PROVE  Calm(s)'
  <2>1. CASE s = n
    <3>1. refresh = 1 /\ s \notin born /\ UNCHANGED req
      BY <1>3, <2>1 DEF SignIn
    <3>2. row'[s].refresh \in usable'[s]
      BY <1>3, <1>t, <2>1, <3>1 DEF SignIn, TypeOK
    <3>3. \A r \in Request : req[r].s = s => req[r].pc = "idle"
      BY <1>t, <3>1 DEF Issued
    <3> QED
      BY <3>1, <3>2, <3>3 DEF Calm, Renewing
  <2>2. CASE s # n
    <3>1. s \in live /\ s \notin troubled /\ req' = req /\ row'[s] = row[s] /\ usable'[s] = usable[s]
      BY <1>3, <1>t, <2>2 DEF SignIn, TypeOK
    <3> QED
      BY <1>t, <3>1 DEF Calm, Renewing, NextRefresh
  <2> QED
    BY <2>1, <2>2
<1>4. ASSUME NEW n \in Session, Logout(n) \/ SessionAges(n) PROVE Calm(s)'
  BY <1>4, <1>t, CalmStays DEF Logout, SessionAges
<1>5. ASSUME NEW n \in Session, TokenAges(n) PROVE Calm(s)'
  <2>1. row'[s].refresh = row[s].refresh
    BY <1>5, <1>t DEF TokenAges, TypeOK, Rows
  <2> QED
    BY <1>5, <1>t, <2>1, CalmStays DEF TokenAges
<1>6. ASSUME NEW n \in Session, Revoke(n) PROVE Calm(s)'
  <2>1. s \in live /\ s \notin troubled /\ s # n
    BY <1>6 DEF Revoke
  <2>2. req' = req /\ row' = row /\ usable'[s] = usable[s]
    BY <1>6, <1>t, <2>1 DEF Revoke, TypeOK
  <2> QED
    BY <1>t, <2>1, <2>2 DEF Calm, Renewing, NextRefresh
<1>7. ASSUME NEW r \in Request, NEW n \in Session, ServeStored(r, n) PROVE Calm(s)'
  <2>1. /\ req[r].pc = "idle" /\ req'[r].pc = "serving" /\ UNCHANGED <<live, row, usable, troubled>>
        /\ \A q \in Request : q # r => req'[q] = req[q]
    BY <1>7, <1>t DEF ServeStored, Idle, TypeOK
  <2> QED
    BY <1>t, <2>1 DEF Calm, Renewing, NextRefresh
<1>8. ASSUME NEW r \in Request, NEW n \in Session, AskRefresh(r, n) PROVE Calm(s)'
  <2>1. /\ req[r].pc = "idle" /\ req'[r].pc = "asking" /\ req'[r].s = n
        /\ req'[r].refresh = row[n].refresh
        /\ \A q \in Request : q # r => req'[q] = req[q]
    BY <1>8, <1>t, Zenon DEF AskRefresh, Idle, TypeOK
  <2>2. s \in live /\ s \notin troubled /\ UNCHANGED <<row, usable>> /\ (s = n => Renewing(s) = {})
    BY <1>8 DEF AskRefresh
  <2>3. CASE s = n
    <3>1. row[s].refresh \in usable[s]
      BY <1>t, <2>2, <2>3 DEF Calm
    <3>2. \A q \in Request : q # r /\ req[q].s = s => req[q].pc \notin {"asking", "answered", "failed"}
      BY <1>t, <2>2, <2>3 DEF Calm, Renewing
    <3> QED
      BY <2>1, <2>2, <2>3, <3>1, <3>2 DEF Calm, Renewing
  <2>4. CASE s # n
    BY <1>t, <2>1, <2>2, <2>4 DEF Calm, Renewing, NextRefresh
  <2> QED
    BY <2>3, <2>4
<1>9. ASSUME NEW r \in Request, NEW next \in Token, NEW kept \in BOOLEAN, Grant(r, next, kept)
      PROVE  Calm(s)'
  <2> DEFINE n == req[r].s
  <2>1. /\ req[r].pc = "asking" /\ req'[r].pc = "answered" /\ req'[r].s = n
        /\ req'[r].refresh = req[r].refresh /\ req'[r].next = next
        /\ \A q \in Request : q # r => req'[q] = req[q]
    BY <1>9, <1>t DEF Grant, TypeOK, Turns
  <2>2. n \in Session /\ s \in live /\ s \notin troubled /\ UNCHANGED row
    BY <1>9, <1>t DEF Grant, TypeOK, Turns
  <2>3. /\ next # 0 => next \in usable'[n]
        /\ next = 0 => usable'[n] = usable[n]
        /\ req[r].refresh \in usable[n]
        /\ s # n => usable'[s] = usable[s]
    BY <1>9, <1>t, <2>2 DEF Grant, TypeOK
  <2>4. CASE s = n
    <3>1. r \in Renewing(s) /\ \A q \in Renewing(s) : q = r
      BY <1>t, <2>1, <2>2, <2>4 DEF Calm, Renewing
    <3>2. \A q \in Request : q # r /\ req[q].s = s => req[q].pc \notin {"asking", "answered", "failed"}
      BY <1>t, <2>2, <2>4, <3>1 DEF Calm, Renewing
    <3>3. next = 0 => row[s].refresh \in usable[s]
      BY <1>t, <2>1, <2>2, <2>4, <3>1 DEF Calm
    <3> QED
      BY <2>1, <2>2, <2>3, <2>4, <3>1, <3>2, <3>3 DEF Calm, Renewing, NextRefresh
  <2>5. CASE s # n
    BY <1>t, <2>1, <2>2, <2>3, <2>5 DEF Calm, Renewing, NextRefresh
  <2> QED
    BY <2>4, <2>5
<1>10. ASSUME NEW r \in Request, Outage(r) \/ StoreFails(r) PROVE Calm(s)'
  <2>1. s # req[r].s /\ s \in live /\ s \notin troubled
    BY <1>10 DEF Outage, StoreFails
  <2>2. /\ req'[r].s = req[r].s /\ UNCHANGED <<row, usable>>
        /\ \A q \in Request : q # r => req'[q] = req[q]
    BY <1>10, <1>t, LeavesRenewal
  <2> QED
    BY <1>t, <2>1, <2>2 DEF Calm, Renewing, NextRefresh
<1>11. ASSUME NEW r \in Request, Refuse(r) PROVE Calm(s)'
  <2>1. /\ s \in live /\ s \notin troubled /\ req[r].pc = "asking"
        /\ req[r].refresh \notin usable[req[r].s]
    BY <1>11 DEF Refuse
  <2>2. s # req[r].s
    BY <1>t, <2>1 DEF Calm
  <2>3. /\ req'[r].s = req[r].s /\ UNCHANGED <<row, usable>>
        /\ \A q \in Request : q # r => req'[q] = req[q]
    BY <1>11, <1>t, LeavesRenewal
  <2> QED
    BY <1>t, <2>1, <2>2, <2>3 DEF Calm, Renewing, NextRefresh
<1>12. ASSUME NEW r \in Request, DropSession(r) \/ DropFails(r) \/ Serve(r) PROVE Calm(s)'
  <2>1. /\ s \in live /\ s \notin troubled /\ UNCHANGED <<row, usable>>
        /\ req[r].pc \in {"failed", "serving"} /\ req'[r].pc = "idle" /\ req'[r].s = req[r].s
        /\ \A q \in Request : q # r => req'[q] = req[q]
    <3>1. req'[r].pc = "idle" /\ req[r].pc \in {"failed", "serving"} /\ troubled' = troubled
      BY <1>12, <1>t DEF DropSession, DropFails, Serve, Idle, TypeOK
    <3> QED
      BY <1>12, <1>t, <3>1, LeavesRenewal
  <2> QED
    BY <1>t, <2>1 DEF Calm, Renewing, NextRefresh
<1>13. ASSUME NEW r \in Request, StoreTokens(r) PROVE Calm(s)'
  <2> DEFINE n == req[r].s
  <2>1. /\ req[r].pc = "answered" /\ req'[r].pc = "serving" /\ req'[r].s = n
        /\ \A q \in Request : q # r => req'[q] = req[q]
    BY <1>13, <1>t DEF StoreTokens, TypeOK, Turns
  <2>2. s \in live /\ s \notin troubled /\ UNCHANGED usable
    BY <1>13 DEF StoreTokens
  <2>3. CASE s = n
    <3>1. row'[s].refresh = NextRefresh(r)
      BY <1>13, <1>t, <2>2, <2>3 DEF StoreTokens, Renewed, TypeOK
    <3>2. NextRefresh(r) \in usable[s]
      BY <1>t, <2>1, <2>2, <2>3 DEF Calm
    <3>3. \A q \in Request : q # r /\ req[q].s = s => req[q].pc \notin {"asking", "answered", "failed"}
      BY <1>t, <2>1, <2>2, <2>3 DEF Calm, Renewing
    <3> QED
      BY <2>1, <2>2, <2>3, <3>1, <3>2, <3>3 DEF Calm, Renewing
  <2>4. CASE s # n
    <3>1. row'[s] = row[s]
      BY <1>13, <1>t, <2>4 DEF StoreTokens, TypeOK
    <3> QED
      BY <1>t, <2>1, <2>2, <2>4, <3>1 DEF Calm, Renewing, NextRefresh
  <2> QED
    BY <2>3, <2>4
<1> QED
  BY <1>1, <1>2, <1>3, <1>4, <1>5, <1>6, <1>7, <1>8, <1>9, <1>10, <1>11, <1>12, <1>13 DEF Next

-----------------------------------------------------------------------------
LEMMA SignOutStep == IInv /\ [Next]_vars => SignOutIsExplained'
<1> SUFFICES ASSUME IInv, [Next]_vars PROVE SignOutIsExplained'
  OBVIOUS
<1> USE DEF process, store, mail, history
<1>t. TypeOK /\ Kept /\ SignOutIsExplained
  BY DEF IInv
<1>1. CASE (\E readable \in BOOLEAN : Start(readable)) \/ DieWritingKey \/ Crash \/ UNCHANGED vars
  BY <1>1, <1>t DEF Start, DieWritingKey, Crash, vars, SignOutIsExplained
<1>2. CASE Cleanup
  BY <1>2, <1>t DEF Cleanup, Expired, SignOutIsExplained
<1>3. ASSUME NEW s \in Session, NEW due \in BOOLEAN, NEW refresh \in {0, 1},
             SignIn(s, due, refresh)
      PROVE  SignOutIsExplained'
  BY <1>3, <1>t DEF SignIn, SignOutIsExplained
<1>4. ASSUME NEW s \in Session, Logout(s) \/ TokenAges(s) \/ SessionAges(s) \/ Revoke(s)
      PROVE  SignOutIsExplained'
  BY <1>4, <1>t DEF Logout, TokenAges, SessionAges, Revoke, SignOutIsExplained
<1>5. ASSUME NEW r \in Request, NEW s \in Session, ServeStored(r, s) \/ AskRefresh(r, s)
      PROVE  SignOutIsExplained'
  BY <1>5, <1>t DEF ServeStored, AskRefresh, SignOutIsExplained
<1>6. ASSUME NEW r \in Request, NEW next \in Token, NEW kept \in BOOLEAN, Grant(r, next, kept)
      PROVE  SignOutIsExplained'
  BY <1>6, <1>t DEF Grant, SignOutIsExplained
<1>7. ASSUME NEW r \in Request, DropSession(r) PROVE SignOutIsExplained'
  <2>1. req[r].pc = "failed" /\ live' = live \ {req[r].s} /\ UNCHANGED <<born, aged, loggedOut, troubled>>
    BY <1>7 DEF DropSession
  <2>2. req[r].s \in live => req[r].s \in troubled
    BY <1>t, <2>1 DEF Kept, Calm
  <2> QED
    BY <1>t, <2>1, <2>2 DEF SignOutIsExplained
<1>8. ASSUME NEW r \in Request,
             \/ Refuse(r) \/ Outage(r) \/ DropFails(r) \/ StoreTokens(r)
             \/ StoreFails(r) \/ Serve(r)
      PROVE  SignOutIsExplained'
  BY <1>8, <1>t DEF Refuse, Outage, DropFails, StoreTokens, StoreFails, Serve, SignOutIsExplained
<1> QED
  BY <1>1, <1>2, <1>3, <1>4, <1>5, <1>6, <1>7, <1>8 DEF Next

LEMMA Inductive == Spec => []IInv
<1>1. IInv /\ [Next]_vars => IInv'
  BY TypeStep, IssuedStep, KeptStep, SignOutStep DEF IInv
<1> QED
  BY InitIInv, <1>1, PTL DEF Spec

-----------------------------------------------------------------------------
\* Rows and requests hold tokens of the bounded range, and a session that was
\* deleted by signing out has no row (store.go:583-616, server.go:214-267).
THEOREM TypeCorrect == Spec => []TypeOK
<1>1. IInv => TypeOK
  BY DEF IInv
<1> QED
  BY Inductive, <1>1, PTL

\* The stored refresh token is one the mail server honours, for a session whose
\* renewals were neither lost nor overlapping (server.go:226-262).
THEOREM RefreshUsable == Spec => []RefreshIsUsable
<1>1. IInv => RefreshIsUsable
  <2> SUFFICES ASSUME IInv, NEW s \in live \ troubled,
                      NEW r \in Renewing(s), req[r].pc = "answered", req[r].next # 0
               PROVE  req[r].next \in usable[s]
    BY DEF IInv, Kept, Calm, RefreshIsUsable
  <2> QED
    BY DEF IInv, Kept, Calm, Renewing, NextRefresh
<1> QED
  BY Inductive, <1>1, PTL

\* Whoever is signed out has signed out, has reached the session's age, or has
\* met a renewal that was lost, refused or overlapped (server.go:232-235).
THEOREM SignOutExplained == Spec => []SignOutIsExplained
<1>1. IInv => SignOutIsExplained
  BY DEF IInv
<1> QED
  BY Inductive, <1>1, PTL

\* A request that renewed the tokens is served with the new one (server.go:258).
THEOREM Renewal == Spec => []ServedIsRenewed
<1>1. IInv => ServedIsRenewed
  BY DEF IInv, Issued, ServedIsRenewed
<1> QED
  BY Inductive, <1>1, PTL

\* An update by id does not bring a deleted session back (store.go:609-612).
THEOREM DeletedForGood == Spec => DeletedStaysDeleted
<1> DEFINE Stays == (born \ live) \intersect live' = {}
<1>1. TypeOK /\ [Next]_vars => [Stays]_vars
  <2> SUFFICES ASSUME TypeOK, Next PROVE Stays
    OBVIOUS
  <2> USE DEF process, store, mail, history
  <2>1. ASSUME NEW s \in Session, NEW due \in BOOLEAN, NEW refresh \in {0, 1},
               SignIn(s, due, refresh)
        PROVE  Stays
    BY <2>1 DEF SignIn
  <2>2. CASE live' \subseteq live
    BY <2>2
  <2>3. \/ live' \subseteq live
        \/ \E s \in Session, due \in BOOLEAN, refresh \in {0, 1} : SignIn(s, due, refresh)
    BY DEF Next, Start, DieWritingKey, Crash, Logout, TokenAges, SessionAges, Revoke, Cleanup,
           ServeStored, AskRefresh, Grant, Refuse, Outage, DropSession, DropFails, StoreTokens,
           StoreFails, Serve
  <2> QED
    BY <2>1, <2>2, <2>3
<1> QED
  BY TypeCorrect, <1>1, PTL DEF Spec, DeletedStaysDeleted
=============================================================================
