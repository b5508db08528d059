------------------------------ MODULE Sessions ------------------------------
(***************************************************************************)
(* Browser sessions: the row that keeps a user's encrypted tokens, the     *)
(* requests that look it up, renew an access token that is about to expire *)
(* at the mail server and store what they get, sign-in and sign-out, the   *)
(* retention cleanup, the passing of time, and a process that dies and     *)
(* starts again, with the key it decrypts the rows with.                   *)
(*                                                                         *)
(* The mail server is external: it numbers the token pairs it issues for a *)
(* session, may or may not rotate the refresh token, and honours the ones  *)
(* in `usable'.  A token is its number; 0 is no token.                     *)
(***************************************************************************)
EXTENDS Naturals

CONSTANTS
  Session,    \* ids of sessions: random, so each is created once
  Request,    \* requests of browsers, each for one session at a time
  MaxToken    \* bound on the pairs issued for one session

ASSUME ConstantsAssumption == Session # {} /\ MaxToken \in Nat \ {0}

VARIABLES
  key,        \* the process: "down", or the key it started with, "secret" or "own"
  keyFile,    \* session.key of the data directory: "none", "torn" or "written"
  born,       \* sessions whose row was inserted
  live,       \* sessions that have a row
  aged,       \* sessions whose session_expires_at has passed
  row,        \* the rows; due: expires_at is less than a minute away
  req,        \* the requests: where session() is, and what it holds
  issued,     \* mail server: how many pairs it has issued for each session
  usable,     \* mail server: the refresh tokens it honours
  loggedOut,  \* history: sessions deleted by logout
  troubled    \* history: sessions whose renewal was lost, refused or overlapped

vars == <<key, keyFile, born, live, aged, row, req, issued, usable, loggedOut, troubled>>

Token == 0 .. MaxToken
Rows  == [access : Token, refresh : Token, due : BOOLEAN, key : {"secret", "own"}]
Turns == [pc : {"idle", "asking", "answered", "failed", "serving"}, s : Session,
          old : Token, refresh : Token, access : Token, next : Token]

TypeOK ==
  /\ key \in {"down", "secret", "own"}
  /\ keyFile \in {"none", "torn", "written"}
  /\ born \subseteq Session /\ live \subseteq born /\ aged \subseteq born
  /\ loggedOut \subseteq born \ live
  /\ troubled \subseteq Session
  /\ row \in [Session -> Rows]
  /\ req \in [Request -> Turns]
  /\ issued \in [Session -> Token]
  /\ usable \in [Session -> SUBSET Token]

Idle(s) == [pc |-> "idle", s |-> s, old |-> 0, refresh |-> 0, access |-> 0, next |-> 0]

Init ==
  /\ key = "down" /\ keyFile = "none"
  /\ born = {} /\ live = {} /\ aged = {} /\ loggedOut = {} /\ troubled = {}
  /\ row = [s \in Session |-> [access |-> 0, refresh |-> 0, due |-> FALSE, key |-> "secret"]]
  /\ req = [r \in Request |-> Idle(CHOOSE s \in Session : TRUE)]
  /\ issued = [s \in Session |-> 0]
  /\ usable = [s \in Session |-> {}]

process == <<key, keyFile>>
store   == <<born, live, aged, row>>
mail    == <<issued, usable>>
history == <<loggedOut, troubled>>

\* Requests of session s that are between reading its row and writing it.
Renewing(s) == {r \in Request : req[r].pc \in {"asking", "answered"} /\ req[r].s = s}

-----------------------------------------------------------------------------
(* The process. *)

\* The key comes from the secret when that can be read, otherwise from the
\* data directory, where it is made when there is none.
Start(readable) ==
  /\ key = "down"
  /\ \/ readable /\ key' = "secret" /\ UNCHANGED keyFile
     \/ ~readable /\ keyFile # "torn" /\ key' = "own" /\ keyFile' = "written"
  /\ UNCHANGED <<store, req, mail, history>>

\* Killed while session.key is being written: the file is there, and empty.
\* A start without the secret is refused from then on.
DieWritingKey ==
  /\ key = "down" /\ keyFile = "none"
  /\ keyFile' = "torn"
  /\ UNCHANGED <<key, store, req, mail, history>>

\* The requests in progress are gone; what the mail server does with those it
\* was sent, nobody will know.
Crash ==
  /\ key # "down"
  /\ key' = "down"
  /\ req' = [r \in Request |-> Idle(req[r].s)]
  /\ troubled' = troubled \union {s \in Session : Renewing(s) # {}}
  /\ UNCHANGED <<keyFile, store, mail, loggedOut>>

-----------------------------------------------------------------------------
(* Sign-in, sign-out and time. *)

\* sessionExchange.  An expires_in below zero makes a row that is due at once;
\* a mail server that grants no refresh token leaves nothing to renew with.
SignIn(s, due, refresh) ==
  /\ key # "down" /\ s \notin born /\ refresh \in {0, 1}
  /\ born' = born \union {s} /\ live' = live \union {s}
  /\ row' = [row EXCEPT ![s] = [access |-> 1, refresh |-> refresh, due |-> due, key |-> key]]
  /\ issued' = [issued EXCEPT ![s] = 1]
  /\ usable' = [usable EXCEPT ![s] = {refresh} \ {0}]
  /\ troubled' = IF refresh = 0 THEN troubled \union {s} ELSE troubled
  /\ UNCHANGED <<process, aged, req, loggedOut>>

\* logout.  The browser's cookie is cleared even if the deletion fails: the row
\* then stays as it is.
Logout(s) ==
  /\ key # "down" /\ s \in live
  /\ live' = live \ {s}
  /\ loggedOut' = loggedOut \union {s}
  /\ UNCHANGED <<process, born, aged, row, req, mail, troubled>>

TokenAges(s) ==
  /\ s \in live /\ ~row[s].due
  /\ row' = [row EXCEPT ![s].due = TRUE]
  /\ UNCHANGED <<process, born, live, aged, req, mail, history>>

SessionAges(s) ==
  /\ s \in live \ aged
  /\ aged' = aged \union {s}
  /\ UNCHANGED <<process, born, live, row, req, mail, history>>

\* Mistaken: expires_at, of the access token, for session_expires_at.
TokenExpired(s) == s \in aged \/ row[s].due

\* The cleanup's deletion of sessions.
Expired(s) == s \in aged

Cleanup ==
  /\ key # "down"
  /\ live' = {s \in live : ~Expired(s)}
  /\ UNCHANGED <<process, born, aged, row, req, mail, history>>

-----------------------------------------------------------------------------
(* session(): what every request of a browser goes through first. *)

\* GetSession finds the row and the key in use decrypts it; otherwise the
\* request is refused and nothing changes.
Found(s) == key # "down" /\ s \in live \ aged /\ row[s].key = key

ServeStored(r, s) ==
  /\ req[r].pc = "idle" /\ Found(s) /\ ~row[s].due
  /\ req' = [req EXCEPT ![r] = [Idle(s) EXCEPT !.pc = "serving", !.access = row[s].access]]
  /\ UNCHANGED <<process, store, mail, history>>

AskRefresh(r, s) ==
  /\ req[r].pc = "idle" /\ Found(s) /\ row[s].due
  /\ req' = [req EXCEPT ![r] = [Idle(s) EXCEPT !.pc = "asking", !.old = row[s].access,
                                               !.refresh = row[s].refresh]]
  /\ troubled' = IF Renewing(s) # {} THEN troubled \union {s} ELSE troubled
  /\ UNCHANGED <<process, store, mail, loggedOut>>

\* External.  The mail server issues a new pair: with a new refresh token, the
\* old one honoured still (kept) or not, or with none, the old one being kept.
Grant(r, next, kept) ==
  LET s == req[r].s IN
  /\ req[r].pc = "asking" /\ req[r].refresh \in usable[s] /\ issued[s] < MaxToken
  /\ next \in {0, issued[s] + 1} /\ (next = 0 => kept)
  /\ issued' = [issued EXCEPT ![s] = @ + 1]
  /\ usable' = [usable EXCEPT ![s] = (@ \ (IF kept THEN {} ELSE {req[r].refresh}))
                                       \union ({next} \ {0})]
  /\ req' = [req EXCEPT ![r].pc = "answered", ![r].access = issued[s] + 1, ![r].next = next]
  /\ UNCHANGED <<process, store, history>>

\* External.  The mail server does not honour the refresh token.
Refuse(r) ==
  /\ req[r].pc = "asking" /\ req[r].refresh \notin usable[req[r].s]
  /\ req' = [req EXCEPT ![r].pc = "failed"]
  /\ UNCHANGED <<process, store, mail, history>>

\* No answer, an unreadable one, an error of the mail server's own, a timeout,
\* a browser that went away: to Refresh they are all an error.
Outage(r) ==
  /\ req[r].pc \in {"asking", "answered"}
  /\ req' = [req EXCEPT ![r].pc = "failed"]
  /\ troubled' = troubled \union {req[r].s}
  /\ UNCHANGED <<process, store, mail, loggedOut>>

\* External.  Refresh tokens expire at the mail server and can be revoked there.
Revoke(s) ==
  /\ usable[s] # {}
  /\ usable' = [usable EXCEPT ![s] = {}]
  /\ troubled' = troubled \union {s}
  /\ UNCHANGED <<process, store, req, issued, loggedOut>>

\* The row goes whatever the error was, and whatever it holds by now.
DropSession(r) ==
  /\ req[r].pc = "failed"
  /\ live' = live \ {req[r].s}
  /\ req' = [req EXCEPT ![r] = Idle(req[r].s)]
  /\ UNCHANGED <<process, born, aged, row, mail, history>>

\* The deletion fails too: the request's context is done.
DropFails(r) ==
  /\ req[r].pc = "failed"
  /\ req' = [req EXCEPT ![r] = Idle(req[r].s)]
  /\ UNCHANGED <<process, store, mail, history>>

\* Mistaken: a refresh token the mail server has granted is not kept.
ForgetRotation(r) == req[r].refresh

\* The refresh token to store: the one that was sent, if no other was granted.
NextRefresh(r) == IF req[r].next = 0 THEN req[r].refresh ELSE req[r].next

\* What the row of a renewed session holds.
Renewed(r) == [access |-> req[r].access, refresh |-> NextRefresh(r), due |-> FALSE, key |-> key]

\* Mistaken: the row is inserted when there is none.
UpsertTokens(r) ==
  LET s == req[r].s IN
  /\ key # "down" /\ req[r].pc = "answered"
  /\ row' = [row EXCEPT ![s] = Renewed(r)]
  /\ live' = live \union {s}
  /\ req' = [req EXCEPT ![r].pc = "serving"]
  /\ UNCHANGED <<process, born, aged, mail, history>>

\* Mistaken: the request goes on with the session as it was read.
ServeOldToken(r) ==
  LET s == req[r].s IN
  /\ key # "down" /\ req[r].pc = "answered"
  /\ row' = IF s \in live THEN [row EXCEPT ![s] = Renewed(r)] ELSE row
  /\ req' = [req EXCEPT ![r].pc = "serving", ![r].access = req[r].old]
  /\ UNCHANGED <<process, born, live, aged, mail, history>>

\* UpdateSessionTokens, by id: of a row that is gone it updates none, and the
\* request is served all the same.
StoreTokens(r) ==
  LET s == req[r].s IN
  /\ key # "down" /\ req[r].pc = "answered"
  /\ row' = IF s \in live THEN [row EXCEPT ![s] = Renewed(r)] ELSE row
  /\ req' = [req EXCEPT ![r].pc = "serving"]
  /\ UNCHANGED <<process, born, live, aged, mail, history>>

\* The tokens cannot be stored: the request is refused, the row keeps the old.
StoreFails(r) ==
  /\ req[r].pc = "answered"
  /\ req' = [req EXCEPT ![r] = Idle(req[r].s)]
  /\ troubled' = troubled \union {req[r].s}
  /\ UNCHANGED <<process, store, mail, loggedOut>>

\* The proxied call is made with the access token and ends.
Serve(r) ==
  /\ req[r].pc = "serving"
  /\ req' = [req EXCEPT ![r] = Idle(req[r].s)]
  /\ UNCHANGED <<process, store, mail, history>>

-----------------------------------------------------------------------------
Next ==
  \/ \E readable \in BOOLEAN : Start(readable)
  \/ DieWritingKey
  \/ Crash
  \/ \E s \in Session, due \in BOOLEAN, refresh \in {0, 1} : SignIn(s, due, refresh)
  \/ \E s \in Session : Logout(s) \/ TokenAges(s) \/ SessionAges(s) \/ Revoke(s)
  \/ Cleanup
  \/ \E r \in Request, s \in Session : ServeStored(r, s) \/ AskRefresh(r, s)
  \/ \E r \in Request, next \in Token, kept \in BOOLEAN : Grant(r, next, kept)
  \/ \E r \in Request :
       \/ Refuse(r) \/ Outage(r)
       \/ DropSession(r) \/ DropFails(r)
       \/ StoreTokens(r) \/ StoreFails(r) \/ Serve(r)

Spec == Init /\ [][Next]_vars

-----------------------------------------------------------------------------
(* Properties. *)

\* A session that was deleted stays deleted: a request that was renewing its
\* tokens when the user signed out does not bring the row back.
DeletedStaysDeleted == [][(born \ live) \intersect live' = {}]_vars

\* The token a session will be renewed with is one the mail server honours, as
\* long as nothing was lost and no two of its requests renewed it at once;
\* between the mail server's answer and the update, the request holds it.
RefreshIsUsable ==
  \A s \in live \ troubled :
    \/ row[s].refresh \in usable[s]
    \/ \E r \in Renewing(s) : req[r].pc = "answered" /\ req[r].next \in usable[s]

\* A user is signed out only by signing out, by the session's age, or after a
\* renewal that was lost, refused or overlapped: never by the cleanup of a
\* session whose access token has expired, or by a restart with another key.
SignOutIsExplained == born \ live \subseteq loggedOut \union aged \union troubled

\* No request is served with the access token it found to be expiring.
ServedIsRenewed ==
  \A r \in Request : req[r].pc = "serving" => req[r].access # req[r].old /\ req[r].access # 0

=============================================================================
