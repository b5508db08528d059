------------------------------- MODULE Bundle -------------------------------
(***************************************************************************)
(* The directory the appliance is run from: .env, secrets/ and the record  *)
(* of the TLS certificate, with what was started from them.  mailctl's     *)
(* init, harden, reset-password and configure-tls write them a step at a   *)
(* time, can be stopped after any step, and may overlap; the first-run     *)
(* setup uses the recovery credential that the two containers were started *)
(* with.  backup, and a restore that comes to its end, are one step here;  *)
(* a restore that fails or is killed leaves what it would at any point.    *)
(* Neither overlaps another command: module Backup has that, and the steps *)
(* of both.                                                                *)
(***************************************************************************)
EXTENDS Naturals, FiniteSets

CONSTANTS
  Secret,       \* the files init makes in secrets/
  Credential,   \* recovery credentials
  None,         \* none of them: the value is empty
  Installation, \* what setup requests ask for
  Command,      \* mailctl processes
  MaxCerts,     \* bound on the certificates made in the mail server
  MaxStarts     \* bound on the commands started

ASSUME ConstantsAssumption ==
  /\ None \notin Credential /\ Credential # {}
  /\ MaxCerts \in Nat \ {0} /\ MaxStarts \in Nat

VARIABLES
  env, tmp,     \* .env and .env.tmp: {}, or one of Contents
  secrets,      \* each secret's file: "none", "torn", "whole"
  record,       \* certificate_id: {}, {0} when it is empty, or {id}
  armed,        \* the credential each container was started with
  made,         \* certificates made in the mail server so far
  certs,        \* the ones it has
  default,      \* the one it serves, 0 for none of them
  core,         \* the installation the mail server has, {} or {i}
  setting,      \* the one in MEOVV's settings
  accepted,     \* setup requests the mail server has said yes to, not saved yet
  saved,        \* the copy of all that which backup keeps, {} or {copy}
  cmd,          \* the mailctl processes
  started,      \* commands started so far
  installed,    \* history: .env was complete once
  crossed,      \* history: two commands were at .env, or at .env.tmp, at once
  outdated,     \* history: a restore took the recorded certificate away
  mixed,        \* history: a restore was not finished, or of a copy of such data
  hardened      \* history: harden has succeeded, with no other command around

files  == <<env, tmp, secrets, record>>
server == <<made, certs, default, core>>
setup  == <<setting, accepted>>
marks  == <<started, installed, crossed, outdated, mixed, hardened>>
vars   == <<files, armed, server, setup, saved, cmd, marks>>

Container == {"stalwart", "meovv"}
Creds     == Credential \union {None}
Id        == 0 .. MaxCerts

\* .env has all its lines or not, and a credential or none.
Contents == [full : BOOLEAN, cred : Creds]
Torn     == [full |-> FALSE, cred |-> None]

AtMostOne(S) == {X \in SUBSET S : \A x, y \in X : x = y}

States == {"none", "torn", "whole"}

Copies == [env : AtMostOne(Contents), secrets : [Secret -> States], record : AtMostOne(Id),
           certs : SUBSET Id, default : Id, core : AtMostOne(Installation),
           setting : AtMostOne(Installation), mixed : BOOLEAN]

Kinds == {"init", "harden", "reset", "tls", "up"}
Steps == {"idle", "secrets", "read", "open", "write", "rename", "compose",
          "recreate", "look", "register", "note", "fill", "select"}

\* text: what is to be written, or was read; id: the certificate, 0 to make one;
\* todo: secrets to make; at: the file its handle is of by now.
Processes == [pc : Steps, kind : Kinds, text : Contents, id : Id, todo : SUBSET Secret,
              at : {"none", "tmp", "env", "gone"}, alone : BOOLEAN]

Idle == [pc |-> "idle", kind |-> "up", text |-> Torn, id |-> 0, todo |-> {}, at |-> "none",
         alone |-> TRUE]

TypeOK ==
  /\ env \in AtMostOne(Contents) /\ tmp \in AtMostOne(Contents)
  /\ secrets \in [Secret -> States]
  /\ record \in AtMostOne(Id)
  /\ armed \in [Container -> Creds]
  /\ made \in Id /\ certs \subseteq 1 .. made /\ default \in certs \union {0}
  /\ core \in AtMostOne(Installation) /\ setting \in AtMostOne(Installation)
  /\ accepted \subseteq Installation
  /\ saved \in AtMostOne(Copies)
  /\ cmd \in [Command -> Processes] /\ started \in 0 .. MaxStarts
  /\ installed \in BOOLEAN /\ crossed \in BOOLEAN /\ outdated \in BOOLEAN
  /\ mixed \in BOOLEAN /\ hardened \in BOOLEAN

\* The release is unpacked: no file is made yet, and nothing runs.
Init ==
  /\ env = {} /\ tmp = {} /\ record = {}
  /\ secrets = [s \in Secret |-> "none"]
  /\ armed = [k \in Container |-> None]
  /\ made = 0 /\ certs = {} /\ default = 0 /\ core = {}
  /\ setting = {} /\ accepted = {} /\ saved = {}
  /\ cmd = [c \in Command |-> Idle] /\ started = 0
  /\ installed = FALSE /\ crossed = FALSE /\ outdated = FALSE
  /\ mixed = FALSE /\ hardened = FALSE

Busy == {c \in Command : cmd[c].pc # "idle"}
Goto(c, pc) == cmd' = [cmd EXCEPT ![c].pc = pc]
Exit(c)     == cmd' = [cmd EXCEPT ![c] = Idle]

-----------------------------------------------------------------------------
\* mailctl is started: init looks for .env first, and the others but up read it.
Start(c, kind) ==
  /\ cmd[c].pc = "idle"
  /\ kind = "init" => env = {}
  /\ started < MaxStarts /\ started' = started + 1
  /\ cmd' = [b \in Command |->
               IF b = c
               THEN [Idle EXCEPT !.kind = kind, !.alone = (Busy = {}),
                       !.todo = IF kind = "init" THEN Secret ELSE {},
                       !.pc = CASE kind = "init" -> "secrets" [] kind = "up" -> "compose"
                                [] OTHER -> "read"]
               ELSE IF b \in Busy THEN [cmd[b] EXCEPT !.alone = FALSE] ELSE cmd[b]]
  /\ hardened' = (hardened /\ kind # "reset")
  /\ UNCHANGED <<files, armed, server, setup, saved, installed, crossed, outdated,
                 mixed>>

\* It returns with an error, is killed, or the host goes down.
Stops(c) ==
  /\ c \in Busy
  /\ Exit(c)
  /\ UNCHANGED <<files, armed, server, setup, saved, marks>>

-----------------------------------------------------------------------------
(* init: each file is made by writeExclusive, which refuses an existing one. *)

\* Created and written: nobody reads a secret in between.
WriteSecret(c, s) ==
  /\ cmd[c].pc = "secrets" /\ s \in cmd[c].todo /\ secrets[s] = "none"
  /\ secrets' = [secrets EXCEPT ![s] = "whole"]
  /\ cmd' = [cmd EXCEPT ![c].todo = @ \ {s}]
  /\ UNCHANGED <<env, tmp, record, armed, server, setup, saved, marks>>

TearSecret(c, s) ==
  /\ cmd[c].pc = "secrets" /\ s \in cmd[c].todo /\ secrets[s] = "none"
  /\ secrets' = [secrets EXCEPT ![s] = "torn"]
  /\ Exit(c)
  /\ UNCHANGED <<env, tmp, record, armed, server, setup, saved, marks>>

\* Mistaken: .env is made while secrets are missing.
CreateEnvEarly(c, k) ==
  /\ cmd[c].pc = "secrets" /\ env = {}
  /\ env' = {Torn}
  /\ cmd' = [cmd EXCEPT ![c].pc = "write", ![c].at = "env", ![c].text = [full |-> TRUE, cred |-> k]]
  /\ UNCHANGED <<tmp, secrets, record, armed, server, setup, saved, marks>>

\* The last file, with a new credential.
CreateEnv(c, k) ==
  /\ cmd[c].pc = "secrets" /\ cmd[c].todo = {} /\ env = {}
  /\ env' = {Torn}
  /\ cmd' = [cmd EXCEPT ![c].pc = "write", ![c].at = "env", ![c].text = [full |-> TRUE, cred |-> k]]
  /\ UNCHANGED <<tmp, secrets, record, armed, server, setup, saved, marks>>

-----------------------------------------------------------------------------
(* harden and reset-password: setEnv, then docker compose up. *)

ReadEnv(c, k) ==
  /\ cmd[c].pc = "read" /\ cmd[c].kind \in {"harden", "reset"}
  /\ \E e \in env :
       cmd' = [cmd EXCEPT ![c].pc = "open",
                 ![c].text = [e EXCEPT !.cred = IF cmd[c].kind = "harden" THEN None ELSE k]]
  /\ crossed' = (crossed \/ \E b \in Busy : cmd[b].at = "env")
  /\ UNCHANGED <<files, armed, server, setup, saved, started, installed, outdated,
                 mixed, hardened>>

\* Mistaken: .env is written in place.
OpenInPlace(c) ==
  /\ cmd[c].pc = "open"
  /\ env' = {Torn}
  /\ cmd' = [cmd EXCEPT ![c].pc = "write", ![c].at = "env"]
  /\ UNCHANGED <<tmp, secrets, record, armed, server, setup, saved, marks>>

\* The one .env.tmp of all commands is truncated.
OpenTmp(c) ==
  /\ cmd[c].pc = "open"
  /\ tmp' = {Torn}
  /\ cmd' = [cmd EXCEPT ![c].pc = "write", ![c].at = "tmp"]
  /\ crossed' = (crossed \/ \E b \in Busy \ {c} : cmd[b].at = "tmp")
  /\ UNCHANGED <<env, secrets, record, armed, server, setup, saved, started, installed, outdated,
                 mixed, hardened>>

\* What is written goes to the open file, whatever its name has become.
Write(c) ==
  LET p == cmd[c] IN
  /\ p.pc = "write"
  /\ env' = IF p.at = "env" THEN {p.text} ELSE env
  /\ tmp' = IF p.at = "tmp" THEN {p.text} ELSE tmp
  /\ installed' = (installed \/ (p.at = "env" /\ p.text.full))
  /\ IF p.kind = "init" THEN Exit(c) ELSE Goto(c, "rename")
  /\ UNCHANGED <<secrets, record, armed, server, setup, saved, started, crossed, outdated,
                 mixed, hardened>>

\* Where the file behind another command's handle is after a rename.
Moved(at) == CASE at = "tmp" -> "env" [] at = "env" -> "gone" [] OTHER -> at

\* The rename fails when another command has renamed the file already.
Rename(c) ==
  /\ cmd[c].pc = "rename" /\ tmp # {}
  /\ env' = tmp /\ tmp' = {}
  /\ installed' = (installed \/ \E e \in tmp : e.full)
  /\ cmd' = [b \in Command |-> IF b = c THEN [cmd[c] EXCEPT !.pc = "compose", !.at = "none"]
                               ELSE [cmd[b] EXCEPT !.at = Moved(@)]]
  /\ UNCHANGED <<secrets, record, armed, server, setup, saved, started, crossed, outdated,
                 mixed, hardened>>

\* docker compose reads .env once, and recreates the containers then.
ReadByCompose(c) ==
  /\ cmd[c].pc = "compose"
  /\ \E e \in env : cmd' = [cmd EXCEPT ![c].pc = "recreate", ![c].text = e]
  /\ UNCHANGED <<files, armed, server, setup, saved, marks>>

\* Mistaken: harden recreates what reset-password does.
TargetsOfReset(kind) == IF kind \in {"reset", "harden"} THEN {"stalwart"} ELSE Container

Targets(kind) == IF kind = "reset" THEN {"stalwart"} ELSE Container

\* What failed may be the old container, the new one, or stopped.  A recreated
\* meovv forgets the requests it was working on; an unchanged one is left alone.
Recreate(c, ok) ==
  LET p == cmd[c]
      After(k) == IF k \notin Targets(p.kind) THEN {armed[k]}
                  ELSE IF ok THEN {p.text.cred} ELSE {armed[k], p.text.cred, None} IN
  /\ p.pc = "recreate"
  /\ armed' \in {a \in [Container -> Creds] : \A k \in Container : a[k] \in After(k)}
  /\ accepted' = IF ok /\ p.kind = "harden" /\ "meovv" \in Targets(p.kind) THEN {} ELSE accepted
  /\ hardened' = (hardened \/ (ok /\ p.kind = "harden" /\ p.alone))
  /\ Exit(c)
  /\ UNCHANGED <<files, server, setting, saved, started, installed, crossed, outdated, mixed>>

-----------------------------------------------------------------------------
(* configure-tls. *)

Authorized(k) == k # None /\ armed["stalwart"] = k

ReadCredential(c) ==
  /\ cmd[c].pc = "read" /\ cmd[c].kind = "tls"
  /\ \E e \in env : e.cred # None /\ cmd' = [cmd EXCEPT ![c].pc = "look", ![c].text = e]
  /\ UNCHANGED <<files, armed, server, setup, saved, marks>>

\* An empty record, like none, means that a certificate is to be made.
ReadRecord(c) ==
  /\ cmd[c].pc = "look"
  /\ \E id \in Id : /\ IF record = {} THEN id = 0 ELSE record = {id}
                    /\ cmd' = [cmd EXCEPT ![c].pc = "register", ![c].id = id]
  /\ UNCHANGED <<files, armed, server, setup, saved, marks>>

\* The mail server makes it, though its answer may come too late.
Register(c, answered) ==
  /\ cmd[c].pc = "register" /\ cmd[c].id = 0 /\ Authorized(cmd[c].text.cred)
  /\ made < MaxCerts
  /\ made' = made + 1 /\ certs' = certs \union {made'}
  /\ IF answered THEN cmd' = [cmd EXCEPT ![c].pc = "note", ![c].id = made'] ELSE Exit(c)
  /\ UNCHANGED <<files, armed, default, core, setup, saved, marks>>

\* It does not update one it does not have.
UpdateCertificate(c) ==
  /\ cmd[c].pc = "register" /\ cmd[c].id \in certs /\ Authorized(cmd[c].text.cred)
  /\ Goto(c, "select")
  /\ UNCHANGED <<files, armed, server, setup, saved, marks>>

\* Mistaken: a record that exists is no error.
CreateRecordOrGoOn(c) ==
  /\ cmd[c].pc = "note"
  /\ IF record = {} THEN record' = {0} /\ Goto(c, "fill") ELSE record' = record /\ Goto(c, "select")
  /\ UNCHANGED <<env, tmp, secrets, armed, server, setup, saved, marks>>

\* Mistaken: the record is opened to append.
AppendToRecord(c) ==
  /\ cmd[c].pc = "note"
  /\ record' = record \union {0}
  /\ Goto(c, "fill")
  /\ UNCHANGED <<env, tmp, secrets, armed, server, setup, saved, marks>>

\* writeExclusive: an existing record, an empty one too, is an error.
CreateRecord(c) ==
  /\ cmd[c].pc = "note" /\ record = {}
  /\ record' = {0}
  /\ Goto(c, "fill")
  /\ UNCHANGED <<env, tmp, secrets, armed, server, setup, saved, marks>>

FillRecord(c) ==
  /\ cmd[c].pc = "fill"
  /\ record' = {cmd[c].id}
  /\ Goto(c, "select")
  /\ UNCHANGED <<env, tmp, secrets, armed, server, setup, saved, marks>>

\* The restart that follows starts the same container again.
Select(c) ==
  /\ cmd[c].pc = "select" /\ cmd[c].id \in certs /\ Authorized(cmd[c].text.cred)
  /\ default' = cmd[c].id
  /\ Exit(c)
  /\ UNCHANGED <<files, armed, made, certs, core, setup, saved, marks>>

-----------------------------------------------------------------------------
(* The first-run setup, with the credential meovv was started with. *)

Bootstrap(i) ==
  /\ Authorized(armed["meovv"])
  /\ core' = {i}
  /\ accepted' \in {accepted, accepted \union {i}}    \* or its answer is lost
  /\ UNCHANGED <<files, armed, made, certs, default, setting, saved, cmd, marks>>

SaveSetting(i) ==
  /\ i \in accepted
  /\ setting' = {i}
  /\ accepted' = accepted \ {i}
  /\ UNCHANGED <<files, armed, server, saved, cmd, marks>>

\* The database fails, or MEOVV is stopped.
SetupFails(i) ==
  /\ i \in accepted
  /\ accepted' = accepted \ {i}
  /\ UNCHANGED <<files, armed, server, setting, saved, cmd, marks>>

-----------------------------------------------------------------------------
(* backup and restore, with no other command around. *)

Backup ==
  /\ Busy = {}
  /\ \E e \in env :
       /\ saved' = {[env |-> env, secrets |-> secrets, record |-> record, certs |-> certs,
                     default |-> default, core |-> core, setting |-> setting, mixed |-> mixed]}
       /\ armed' = [k \in Container |-> e.cred] /\ accepted' = {}
  /\ UNCHANGED <<files, server, setting, cmd, marks>>

\* The copy's files are laid over those that are there: what it does not have stays.
LaidSecrets(s) == [x \in Secret |-> IF s.secrets[x] = "none" THEN secrets[x] ELSE s.secrets[x]]
LaidRecord(s)  == IF s.record = {} THEN record ELSE s.record

BeginRestore ==
  /\ Busy = {} /\ saved # {}
  /\ started < MaxStarts /\ started' = started + 1
  /\ UNCHANGED <<tmp, made, saved, cmd, installed, crossed>>

\* It ends with an up of everything, which can fail with any container stopped.
Restore(ok) ==
  /\ BeginRestore
  /\ \E s \in saved, e \in Contents :
       /\ s.env = {e}
       /\ env' = s.env /\ secrets' = LaidSecrets(s) /\ record' = LaidRecord(s)
       /\ certs' = s.certs /\ default' = s.default
       /\ core' = s.core /\ setting' = s.setting
       /\ armed' \in [Container -> IF ok THEN {e.cred} ELSE {None, e.cred}]
       /\ hardened' = (hardened /\ e.cred = None)
       /\ mixed' = s.mixed
  /\ accepted' = {}
  /\ outdated' = ~(record' \subseteq certs' \union {0})

\* It ends before the first volume, with any container stopped.
RestoreHalts ==
  /\ BeginRestore
  /\ armed' \in {a \in [Container -> Creds] : \A k \in Container : a[k] \in {armed[k], None}}
  /\ accepted' \in {accepted, {}}
  /\ UNCHANGED <<env, secrets, record, certs, default, core, setting, outdated, mixed, hardened>>

\* Both containers are stopped when it ends later.
Unfinished ==
  /\ BeginRestore
  /\ armed' = [k \in Container |-> None] /\ accepted' = {}
  /\ mixed' = TRUE

Emptied == [certs |-> {}, default |-> 0, core |-> {}]

\* At the volumes, which are emptied and filled in either order.
RestoreVolumesEnds ==
  /\ Unfinished
  /\ \E s \in saved :
       /\ \E v \in {[certs |-> certs, default |-> default, core |-> core], Emptied,
                   [certs |-> s.certs, default |-> s.default, core |-> s.core]} :
            certs' = v.certs /\ default' = v.default /\ core' = v.core
       /\ setting' \in {setting, {}, s.setting}
  /\ UNCHANGED <<env, secrets, record, outdated, hardened>>

\* At the files, each of which is truncated and written in place: .env first.
RestoreFilesEnds ==
  /\ Unfinished
  /\ \E s \in saved :
       /\ certs' = s.certs /\ default' = s.default
       /\ core' = s.core /\ setting' = s.setting
       /\ \/ env' = {Torn} /\ UNCHANGED <<secrets, record>>
          \/ /\ env' = s.env
             /\ secrets' \in {f \in [Secret -> States] : \A x \in Secret :
                               f[x] \in {secrets[x], "torn", LaidSecrets(s)[x]}}
             /\ record' \in {record, LaidRecord(s), IF s.record = {} THEN record ELSE {0}}
  /\ hardened' = (hardened /\ \A e \in env' : e.cred = None)
  /\ UNCHANGED outdated

-----------------------------------------------------------------------------
Run(c) ==
  \/ \E kind \in Kinds : Start(c, kind)
  \/ Stops(c)
  \/ \E s \in Secret : WriteSecret(c, s) \/ TearSecret(c, s)
  \/ \E k \in Credential : CreateEnv(c, k) \/ ReadEnv(c, k)
  \/ OpenTmp(c) \/ Write(c) \/ Rename(c) \/ ReadByCompose(c)
  \/ \E ok \in BOOLEAN : Recreate(c, ok) \/ Register(c, ok)
  \/ ReadCredential(c) \/ ReadRecord(c) \/ UpdateCertificate(c)
  \/ CreateRecord(c) \/ FillRecord(c) \/ Select(c)

Next ==
  \/ \E c \in Command : Run(c)
  \/ \E i \in Installation : Bootstrap(i) \/ SaveSetting(i) \/ SetupFails(i)
  \/ Backup \/ \E ok \in BOOLEAN : Restore(ok)
  \/ RestoreHalts \/ RestoreVolumesEnds \/ RestoreFilesEnds

Spec == Init /\ [][Next]_vars

-----------------------------------------------------------------------------
(* Properties. *)

\* Once .env was complete, every secret is there for the services to read, and
\* .env stays complete whenever a command is stopped, unless two commands were
\* at the same file at once.  Only a restore that is not finished breaks that, and
\* a finished one, of a copy made before, mends it.
InstallationIsWhole ==
  installed => \/ mixed
               \/ /\ \A s \in Secret : secrets[s] = "whole"
                  /\ crossed \/ \E e \in env : e.full

\* After a harden that met no other command there is no recovery credential in
\* the file or in a running container, whatever is run, stopped or started from
\* then on, until reset-password or the copy of a backup brings one.
StaysHardened ==
  hardened => /\ \A e \in env : e.cred = None
              /\ \A k \in Container : armed[k] = None

Restores == (\E ok \in BOOLEAN : Restore(ok)) \/ RestoreVolumesEnds \/ RestoreFilesEnds

\* From then on nobody sets the installation up or changes the mail server's
\* certificates, not even who had begun to before.
ClosedOnceHardened ==
  [][hardened /\ hardened' => UNCHANGED <<server, setting>> \/ Restores]_vars

\* The certificate that is served is the one that is recorded, and the recorded
\* one can be renewed by a later configure-tls, unless a restore took it away.
\* A restore that is not finished breaks that, and a finished one mends it.
RecordedIsServed ==
  \/ mixed
  \/ /\ default # 0 => record = {default}
     /\ outdated \/ record \subseteq certs \union {0}
=============================================================================
