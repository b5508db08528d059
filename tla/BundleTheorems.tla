---------------------------- MODULE BundleTheorems ----------------------------
(***************************************************************************)
(* Proofs about Bundle, for any number of secrets, credentials,            *)
(* installations, certificates and commands.                               *)
(***************************************************************************)
EXTENDS Bundle, TLAPS

\* A command that runs alone is the only one that runs.
Alone == \A c \in Busy : cmd[c].alone => Busy = {c}

\* Which commands come to which steps.
Shape ==
  \A c \in Command :
    /\ cmd[c].pc = "secrets" => cmd[c].kind = "init"
    /\ cmd[c].pc \in {"look", "register", "note", "fill", "select"} => cmd[c].kind = "tls"
    /\ cmd[c].pc = "read" => cmd[c].kind \in {"harden", "reset", "tls"}
    /\ cmd[c].pc \in {"open", "rename"} => cmd[c].kind \in {"harden", "reset"}
    /\ cmd[c].pc = "write" => cmd[c].kind \in {"init", "harden", "reset"}
    /\ cmd[c].at # "none" => cmd[c].pc \in {"write", "rename"}

\* A copy has an environment file, and what the server had.
Copied ==
  \A s \in saved : /\ s.env # {} /\ s.certs \subseteq 1 .. made
                   /\ s.default \in s.certs \union {0}

-----------------------------------------------------------------------------
LEMMA Zero == 0 \in Id /\ 0 \in 0 .. MaxStarts /\ None \in Creds
BY ConstantsAssumption DEF Id, Creds

LEMMA TornType == Torn \in Contents /\ {Torn} \in AtMostOne(Contents)
<1>1. Torn \in Contents
  BY Zero DEF Contents, Torn
<1>2. ASSUME NEW t \in Contents PROVE {t} \in AtMostOne(Contents)
  BY DEF AtMostOne
<1> QED
  BY <1>1, <1>2

LEMMA IdleType == Idle \in Processes
BY Zero, TornType DEF Idle, Processes, Steps, Kinds

LEMMA InitType == Init => TypeOK /\ Alone /\ Shape /\ Copied
<1> SUFFICES ASSUME Init PROVE TypeOK /\ Alone /\ Shape /\ Copied
  OBVIOUS
<1>1. TypeOK
  BY Zero, IdleType DEF Init, TypeOK, AtMostOne, States
<1>2. Busy = {}
  BY DEF Init, Busy, Idle
<1> QED
  BY <1>1, <1>2 DEF Init, Alone, Shape, Copied, Idle

\* The processes stay processes when one of them comes to another step.
LEMMA ProcessType ==
  ASSUME TypeOK, NEW c \in Command
  PROVE  /\ Exit(c) => cmd' \in [Command -> Processes]
         /\ \A pc \in Steps : Goto(c, pc) => cmd' \in [Command -> Processes]
         /\ \A pc \in Steps, text \in Contents :
              /\ cmd' = [cmd EXCEPT ![c].pc = pc, ![c].text = text]
                   => cmd' \in [Command -> Processes]
              /\ \A at \in {"none", "tmp", "env", "gone"} :
                   cmd' = [cmd EXCEPT ![c].pc = pc, ![c].at = at, ![c].text = text]
                     => cmd' \in [Command -> Processes]
         /\ \A pc \in Steps, id \in Id : cmd' = [cmd EXCEPT ![c].pc = pc, ![c].id = id]
              => cmd' \in [Command -> Processes]
         /\ \A pc \in Steps, at \in {"none", "tmp", "env", "gone"} :
              cmd' = [cmd EXCEPT ![c].pc = pc, ![c].at = at] => cmd' \in [Command -> Processes]
<1>1. cmd[c] \in Processes
  BY DEF TypeOK
<1>2. ASSUME NEW p \in Processes PROVE [cmd EXCEPT ![c] = p] \in [Command -> Processes]
  BY DEF TypeOK
<1>3. ASSUME NEW pc \in Steps PROVE [cmd[c] EXCEPT !.pc = pc] \in Processes
  BY <1>1 DEF Processes
<1>4. ASSUME NEW pc \in Steps, NEW text \in Contents
      PROVE  [cmd[c] EXCEPT !.pc = pc, !.text = text] \in Processes
  BY <1>1 DEF Processes
<1>5. ASSUME NEW pc \in Steps, NEW text \in Contents, NEW at \in {"none", "tmp", "env", "gone"}
      PROVE  [cmd[c] EXCEPT !.pc = pc, !.at = at, !.text = text] \in Processes
  BY <1>1 DEF Processes
<1>6. ASSUME NEW pc \in Steps, NEW id \in Id
      PROVE  [cmd[c] EXCEPT !.pc = pc, !.id = id] \in Processes
  BY <1>1 DEF Processes
<1>7. ASSUME NEW pc \in Steps, NEW at \in {"none", "tmp", "env", "gone"}
      PROVE  [cmd[c] EXCEPT !.pc = pc, !.at = at] \in Processes
  BY <1>1 DEF Processes
<1>8. Exit(c) => cmd' \in [Command -> Processes]
  BY <1>2, IdleType DEF Exit
<1>9. \A pc \in Steps : Goto(c, pc) => cmd' \in [Command -> Processes]
  BY <1>2, <1>3 DEF Goto
<1>10. \A pc \in Steps, text \in Contents :
         cmd' = [cmd EXCEPT ![c].pc = pc, ![c].text = text] => cmd' \in [Command -> Processes]
  BY <1>2, <1>4
<1>11. \A pc \in Steps, text \in Contents, at \in {"none", "tmp", "env", "gone"} :
         cmd' = [cmd EXCEPT ![c].pc = pc, ![c].at = at, ![c].text = text]
           => cmd' \in [Command -> Processes]
  <2> SUFFICES ASSUME NEW pc \in Steps, NEW text \in Contents,
                      NEW at \in {"none", "tmp", "env", "gone"},
                      cmd' = [cmd EXCEPT ![c].pc = pc, ![c].at = at, ![c].text = text]
               PROVE  cmd' \in [Command -> Processes]
    OBVIOUS
  <2>1. cmd' = [cmd EXCEPT ![c] = [cmd[c] EXCEPT !.pc = pc, !.at = at, !.text = text]]
    OBVIOUS
  <2>2. [cmd[c] EXCEPT !.pc = pc, !.at = at, !.text = text] \in Processes
    BY <1>5
  <2> QED
    BY <1>2, <2>1, <2>2
<1>12. \A pc \in Steps, id \in Id : cmd' = [cmd EXCEPT ![c].pc = pc, ![c].id = id]
         => cmd' \in [Command -> Processes]
  BY <1>2, <1>6
<1>13. \A pc \in Steps, at \in {"none", "tmp", "env", "gone"} :
         cmd' = [cmd EXCEPT ![c].pc = pc, ![c].at = at] => cmd' \in [Command -> Processes]
  BY <1>2, <1>7
<1> QED
  BY <1>8, <1>9, <1>10, <1>11, <1>12, <1>13

LEMMA TypeStep == TypeOK /\ Copied /\ [Next]_vars => TypeOK'
<1> SUFFICES ASSUME TypeOK, Copied, [Next]_vars PROVE TypeOK'
  OBVIOUS
<1> USE DEF files, server, setup, marks
<1>1. ASSUME NEW c \in Command, NEW kind \in Kinds, Start(c, kind) PROVE TypeOK'
  <2> DEFINE p == [Idle EXCEPT !.kind = kind, !.alone = (Busy = {}),
                     !.todo = IF kind = "init" THEN Secret ELSE {},
                     !.pc = CASE kind = "init" -> "secrets" [] kind = "up" -> "compose"
                              [] OTHER -> "read"]
  <2> DEFINE pc == CASE kind = "init" -> "secrets" [] kind = "up" -> "compose" [] OTHER -> "read"
  <2>0. pc \in Steps /\ (Busy = {}) \in BOOLEAN
    BY DEF Steps, Kinds
  <2>1. p \in Processes
    BY <2>0, IdleType DEF Processes
  <2>2. \A b \in Command : [cmd[b] EXCEPT !.alone = FALSE] \in Processes /\ cmd[b] \in Processes
    BY DEF TypeOK, Processes
  <2>3. cmd' \in [Command -> Processes]
    BY <1>1, <2>1, <2>2 DEF Start
  <2>4. started' \in 0 .. MaxStarts
    <3>1. started \in 0 .. MaxStarts
      BY DEF TypeOK
    <3>2. started < MaxStarts /\ started' = started + 1
      BY <1>1 DEF Start
    <3> QED
      BY <3>1, <3>2, ConstantsAssumption
  <2>5. hardened' \in BOOLEAN
    BY <1>1 DEF Start
  <2> QED
    BY <1>1, <2>3, <2>4, <2>5 DEF Start, TypeOK
<1>2. ASSUME NEW c \in Command, Stops(c) PROVE TypeOK'
  BY <1>2, ProcessType DEF Stops, TypeOK
<1>3. ASSUME NEW c \in Command, NEW s \in Secret, WriteSecret(c, s) \/ TearSecret(c, s)
      PROVE  TypeOK'
  <2>1. ASSUME WriteSecret(c, s) PROVE cmd' \in [Command -> Processes]
    <3>1. [cmd[c] EXCEPT !.todo = @ \ {s}] \in Processes
      BY DEF TypeOK, Processes
    <3> QED
      BY <2>1, <3>1 DEF WriteSecret, TypeOK
  <2>2. cmd' \in [Command -> Processes]
    BY <1>3, <2>1, ProcessType DEF TearSecret
  <2> QED
    BY <1>3, <2>2 DEF WriteSecret, TearSecret, TypeOK, States
<1>4. ASSUME NEW c \in Command, NEW k \in Credential, CreateEnv(c, k) PROVE TypeOK'
  <2>1. k \in Creds
    BY DEF Creds
  <2>2. [full |-> TRUE, cred |-> k] \in Contents
    BY <2>1 DEF Contents
  <2>4. env' \in AtMostOne(Contents)
    BY <1>4, TornType DEF CreateEnv
  <2>3. cmd' \in [Command -> Processes]
    BY <1>4, <2>2, ProcessType DEF CreateEnv, Steps
  <2> QED
    BY <1>4, <2>4, <2>3 DEF CreateEnv, TypeOK
<1>5. ASSUME NEW c \in Command, NEW k \in Credential, ReadEnv(c, k) PROVE TypeOK'
  <2>1. PICK e \in env :
          cmd' = [cmd EXCEPT ![c].pc = "open",
                    ![c].text = [e EXCEPT !.cred = IF cmd[c].kind = "harden" THEN None ELSE k]]
    BY <1>5 DEF ReadEnv
  <2>2. e \in Contents /\ (IF cmd[c].kind = "harden" THEN None ELSE k) \in Creds
    BY Zero DEF TypeOK, AtMostOne, Creds
  <2>3. [e EXCEPT !.cred = IF cmd[c].kind = "harden" THEN None ELSE k] \in Contents
    BY <2>2 DEF Contents
  <2>4. cmd' \in [Command -> Processes]
    BY <2>1, <2>3, ProcessType DEF Steps
  <2> QED
    BY <1>5, <2>4 DEF ReadEnv, TypeOK
<1>6. ASSUME NEW c \in Command, OpenTmp(c) PROVE TypeOK'
  <2>1. cmd' \in [Command -> Processes]
    BY <1>6, ProcessType DEF OpenTmp, Steps
  <2>2. tmp' \in AtMostOne(Contents)
    BY <1>6, TornType DEF OpenTmp
  <2> QED
    BY <1>6, <2>1, <2>2 DEF OpenTmp, TypeOK
<1>7. ASSUME NEW c \in Command, Write(c) PROVE TypeOK'
  <2>1. cmd[c].text \in Contents
    BY DEF TypeOK, Processes
  <2>2. {cmd[c].text} \in AtMostOne(Contents)
    BY <2>1, Zero DEF AtMostOne
  <2>3. cmd' \in [Command -> Processes]
    BY <1>7, ProcessType DEF Write, Steps
  <2> QED
    BY <1>7, <2>2, <2>3 DEF Write, TypeOK
<1>8. ASSUME NEW c \in Command, Rename(c) PROVE TypeOK'
  <2>1. \A b \in Command : /\ [cmd[b] EXCEPT !.pc = "compose", !.at = "none"] \in Processes
                           /\ [cmd[b] EXCEPT !.at = Moved(@)] \in Processes
    BY DEF TypeOK, Processes, Moved, Steps
  <2>2. cmd' \in [Command -> Processes]
    BY <1>8, <2>1 DEF Rename
  <2>3. env' \in AtMostOne(Contents) /\ tmp' \in AtMostOne(Contents)
    BY <1>8 DEF Rename, TypeOK, AtMostOne
  <2> QED
    BY <1>8, <2>2, <2>3 DEF Rename, TypeOK
<1>9. ASSUME NEW c \in Command, ReadByCompose(c) \/ ReadCredential(c) PROVE TypeOK'
  <2>1. \A e \in env : e \in Contents
    BY DEF TypeOK, AtMostOne
  <2>2. cmd' \in [Command -> Processes]
    BY <1>9, <2>1, ProcessType DEF ReadByCompose, ReadCredential, Steps
  <2> QED
    BY <1>9, <2>2 DEF ReadByCompose, ReadCredential, TypeOK
<1>10. ASSUME NEW c \in Command, NEW ok \in BOOLEAN, Recreate(c, ok) PROVE TypeOK'
  <2>1. armed' \in [Container -> Creds] /\ accepted' \subseteq Installation
    BY <1>10 DEF Recreate, TypeOK
  <2>2. cmd' \in [Command -> Processes]
    BY <1>10, ProcessType DEF Recreate
  <2> QED
    BY <1>10, <2>1, <2>2 DEF Recreate, TypeOK
<1>11. ASSUME NEW c \in Command, ReadRecord(c) PROVE TypeOK'
  <2>1. cmd' \in [Command -> Processes]
    BY <1>11, ProcessType DEF ReadRecord, Steps
  <2> QED
    BY <1>11, <2>1 DEF ReadRecord, TypeOK
<1>12. ASSUME NEW c \in Command, NEW answered \in BOOLEAN, Register(c, answered) PROVE TypeOK'
  <2>1. made' \in Id /\ certs' \subseteq 1 .. made' /\ default \in certs' \union {0}
    <3>1. made \in 0 .. MaxCerts /\ certs \subseteq 1 .. made /\ default \in certs \union {0}
      BY DEF TypeOK, Id
    <3>2. made < MaxCerts /\ made' = made + 1 /\ certs' = certs \union {made'}
      BY <1>12 DEF Register
    <3>3. \A n \in 1 .. made : n \in 1 .. (made + 1)
      BY <3>1, ConstantsAssumption
    <3>4. made + 1 \in 0 .. MaxCerts /\ made + 1 \in 1 .. (made + 1)
      BY <3>1, <3>2, ConstantsAssumption
    <3> QED
      BY <3>1, <3>2, <3>3, <3>4 DEF Id
  <2>2. cmd' \in [Command -> Processes]
    <3>1. CASE answered
      <4>1. cmd' = [cmd EXCEPT ![c].pc = "note", ![c].id = made'] /\ "note" \in Steps
        BY <1>12, <3>1 DEF Register, Steps
      <4> QED
        BY <2>1, <4>1, ProcessType
    <3>2. CASE ~answered
      BY <1>12, <3>2, ProcessType DEF Register
    <3> QED
      BY <3>1, <3>2
  <2> QED
    BY <1>12, <2>1, <2>2 DEF Register, TypeOK
<1>13. ASSUME NEW c \in Command, UpdateCertificate(c) \/ Select(c) PROVE TypeOK'
  <2>1. cmd' \in [Command -> Processes]
    BY <1>13, ProcessType DEF UpdateCertificate, Select, Steps
  <2> QED
    BY <1>13, <2>1 DEF UpdateCertificate, Select, TypeOK
<1>14. ASSUME NEW c \in Command, CreateRecord(c) \/ FillRecord(c) PROVE TypeOK'
  <2>1. cmd' \in [Command -> Processes]
    BY <1>14, ProcessType DEF CreateRecord, FillRecord, Steps
  <2>2. cmd[c].id \in Id
    BY DEF TypeOK, Processes
  <2>3. record' \in AtMostOne(Id)
    BY <1>14, <2>2, Zero DEF CreateRecord, FillRecord, AtMostOne
  <2> QED
    BY <1>14, <2>1, <2>3 DEF CreateRecord, FillRecord, TypeOK
<1>15. ASSUME NEW i \in Installation, Bootstrap(i) \/ SaveSetting(i) \/ SetupFails(i)
       PROVE  TypeOK'
  <2>1. {i} \in AtMostOne(Installation)
    BY DEF AtMostOne
  <2> QED
    BY <1>15, <2>1 DEF Bootstrap, SaveSetting, SetupFails, TypeOK
<1>16. ASSUME Backup PROVE TypeOK'
  <2> DEFINE s == [env |-> env, secrets |-> secrets, record |-> record, certs |-> certs,
                   default |-> default, core |-> core, setting |-> setting, mixed |-> mixed]
  <2>1. 1 .. made \subseteq Id
    BY ConstantsAssumption DEF TypeOK, Id
  <2>2. s \in Copies
    BY <2>1, Zero DEF TypeOK, Copies
  <2>3. {s} \in AtMostOne(Copies)
    BY <2>2 DEF AtMostOne
  <2>4. \A e \in env : e.cred \in Creds
    BY DEF TypeOK, AtMostOne, Contents
  <2>5. armed' \in [Container -> Creds] /\ accepted' = {} /\ saved' = {s}
    BY <1>16, <2>4 DEF Backup
  <2> QED
    BY <1>16, <2>3, <2>5 DEF Backup, TypeOK
<1>17. ASSUME Restores \/ RestoreHalts PROVE TypeOK'
  <2>1. started' \in 0 .. MaxStarts /\ UNCHANGED <<tmp, made, saved, cmd, installed, crossed>>
    <3>1. started \in 0 .. MaxStarts
      BY DEF TypeOK
    <3>2. /\ started < MaxStarts /\ started' = started + 1
          /\ UNCHANGED <<tmp, made, saved, cmd, installed, crossed>>
      BY <1>17 DEF Restores, Restore, RestoreHalts, RestoreVolumesEnds, RestoreFilesEnds, Unfinished,
         BeginRestore
    <3> QED
      BY <3>1, <3>2, ConstantsAssumption
  <2>2. ASSUME NEW s \in saved
        PROVE  /\ s \in Copies /\ s.certs \subseteq 1 .. made /\ s.default \in s.certs \union {0}
               /\ LaidSecrets(s) \in [Secret -> States] /\ LaidRecord(s) \in AtMostOne(Id)
    <3>1. s \in Copies
      BY DEF TypeOK, AtMostOne
    <3>2. LaidSecrets(s) \in [Secret -> States] /\ LaidRecord(s) \in AtMostOne(Id)
      BY <3>1 DEF LaidSecrets, LaidRecord, Copies, TypeOK
    <3> QED
      BY <3>1, <3>2 DEF Copied
  <2>3. ASSUME NEW ok \in BOOLEAN, Restore(ok) PROVE TypeOK'
    <3>1. PICK s \in saved, e \in Contents :
            /\ s.env = {e}
            /\ env' = s.env /\ secrets' = LaidSecrets(s) /\ record' = LaidRecord(s)
            /\ certs' = s.certs /\ default' = s.default
            /\ core' = s.core /\ setting' = s.setting
            /\ armed' \in [Container -> IF ok THEN {e.cred} ELSE {None, e.cred}]
            /\ hardened' = (hardened /\ e.cred = None)
            /\ mixed' = s.mixed
      BY <2>3 DEF Restore
    <3>2. e.cred \in Creds /\ None \in Creds
      BY Zero DEF Contents
    <3>3. armed' \in [Container -> Creds]
      BY <3>1, <3>2
    <3>4. /\ env' \in AtMostOne(Contents) /\ core' \in AtMostOne(Installation)
          /\ setting' \in AtMostOne(Installation) /\ mixed' \in BOOLEAN
      BY <2>2, <3>1 DEF Copies
    <3>5. accepted' = {} /\ outdated' \in BOOLEAN /\ hardened' \in BOOLEAN
      BY <2>3, <3>1 DEF Restore
    <3> QED
      BY <2>1, <2>2, <3>1, <3>3, <3>4, <3>5 DEF TypeOK
  <2>4. ASSUME RestoreHalts PROVE TypeOK'
    BY <2>1, <2>4 DEF RestoreHalts, TypeOK
  <2>5. ASSUME RestoreVolumesEnds PROVE TypeOK'
    <3>1. /\ armed' = [k \in Container |-> None] /\ accepted' = {} /\ mixed' = TRUE
          /\ UNCHANGED <<env, secrets, record, outdated, hardened>>
      BY <2>5 DEF RestoreVolumesEnds, Unfinished
    <3>2. PICK s \in saved :
            /\ \/ certs' = certs /\ default' = default /\ core' = core
               \/ certs' = {} /\ default' = 0 /\ core' = {}
               \/ certs' = s.certs /\ default' = s.default /\ core' = s.core
            /\ setting' \in {setting, {}, s.setting}
      BY <2>5 DEF RestoreVolumesEnds, Emptied
    <3>3. s.core \in AtMostOne(Installation) /\ s.setting \in AtMostOne(Installation)
          /\ {} \in AtMostOne(Installation)
      BY <2>2 DEF Copies, AtMostOne
    <3>4. certs' \subseteq 1 .. made /\ default' \in certs' \union {0}
      BY <2>2, <3>2 DEF TypeOK
    <3>5. core' \in AtMostOne(Installation) /\ setting' \in AtMostOne(Installation)
      BY <3>2, <3>3 DEF TypeOK
    <3>6. armed' \in [Container -> Creds]
      BY <3>1, Zero
    <3> QED
      BY <2>1, <3>1, <3>4, <3>5, <3>6 DEF TypeOK
  <2>6. ASSUME RestoreFilesEnds PROVE TypeOK'
    <3>1. /\ armed' = [k \in Container |-> None] /\ accepted' = {} /\ mixed' = TRUE
          /\ outdated' = outdated /\ hardened' \in BOOLEAN
      BY <2>6 DEF RestoreFilesEnds, Unfinished
    <3>2. PICK s \in saved :
            /\ certs' = s.certs /\ default' = s.default
            /\ core' = s.core /\ setting' = s.setting
            /\ \/ env' = {Torn} /\ UNCHANGED <<secrets, record>>
               \/ /\ env' = s.env
                  /\ secrets' \in [Secret -> States]
                  /\ record' \in {record, LaidRecord(s), IF s.record = {} THEN record ELSE {0}}
      BY <2>6 DEF RestoreFilesEnds
    <3>3. core' \in AtMostOne(Installation) /\ setting' \in AtMostOne(Installation)
          /\ certs' \subseteq 1 .. made /\ default' \in certs' \union {0}
      BY <2>2, <3>2 DEF Copies
    <3>4. env' \in AtMostOne(Contents) /\ secrets' \in [Secret -> States]
      BY <2>2, <3>2, TornType DEF Copies, TypeOK
    <3>5. {0} \in AtMostOne(Id)
      BY Zero DEF AtMostOne
    <3>6. record' \in AtMostOne(Id)
      BY <2>2, <3>2, <3>5 DEF TypeOK
    <3>7. armed' \in [Container -> Creds]
      BY <3>1, Zero
    <3> QED
      BY <2>1, <3>1, <3>3, <3>4, <3>6, <3>7 DEF TypeOK
  <2> QED
    BY <1>17, <2>3, <2>4, <2>5, <2>6 DEF Restores
<1>18. CASE UNCHANGED vars
  BY <1>18 DEF vars, TypeOK
<1> QED
  BY <1>1, <1>2, <1>3, <1>4, <1>5, <1>6, <1>7, <1>8, <1>9, <1>10, <1>11, <1>12, <1>13, <1>14,
     <1>15, <1>16, <1>17, <1>18 DEF Next, Run, Restores

-----------------------------------------------------------------------------
\* Command c goes on, by any step of its own but its start.
Proceed(c) ==
  \/ Stops(c)
  \/ \E s \in Secret : WriteSecret(c, s) \/ TearSecret(c, s)
  \/ \E k \in Credential : CreateEnv(c, k) \/ ReadEnv(c, k)
  \/ OpenTmp(c) \/ Write(c) \/ Rename(c) \/ ReadByCompose(c)
  \/ \E ok \in BOOLEAN : Recreate(c, ok) \/ Register(c, ok)
  \/ ReadCredential(c) \/ ReadRecord(c) \/ UpdateCertificate(c)
  \/ CreateRecord(c) \/ FillRecord(c) \/ Select(c)

\* What a step of c leaves alone in another process b: all but where its file is.
Same(b) ==
  /\ cmd'[b].pc = cmd[b].pc /\ cmd'[b].kind = cmd[b].kind /\ cmd'[b].text = cmd[b].text
  /\ cmd'[b].id = cmd[b].id /\ cmd'[b].todo = cmd[b].todo /\ cmd'[b].alone = cmd[b].alone

\* A step of one command leaves the other processes where they are.
LEMMA Others ==
  ASSUME TypeOK, NEW c \in Command, Proceed(c)
  PROVE  /\ c \in Busy
         /\ \A b \in Command \ {c} : Same(b) /\ cmd'[b].at \in {cmd[b].at, Moved(cmd[b].at)}
         /\ ~Rename(c) => \A b \in Command \ {c} : cmd'[b] = cmd[b]
<1> DEFINE Apart == \A b \in Command \ {c} : cmd'[b] = cmd[b]
<1>1. CASE Stops(c)
  <2>1. c \in Busy /\ Apart
    BY <1>1 DEF Stops, Exit, TypeOK
  <2> QED
    BY <2>1 DEF Same
<1>2. ASSUME NEW s \in Secret, WriteSecret(c, s) \/ TearSecret(c, s)
      PROVE  c \in Busy /\ Apart
  BY <1>2 DEF WriteSecret, TearSecret, Exit, TypeOK, Busy
<1>3. ASSUME NEW k \in Credential, CreateEnv(c, k) \/ ReadEnv(c, k)
      PROVE  c \in Busy /\ Apart
  BY <1>3 DEF CreateEnv, ReadEnv, TypeOK, Busy
<1>4. ASSUME OpenTmp(c) \/ Write(c) \/ ReadByCompose(c) PROVE c \in Busy /\ Apart
  BY <1>4 DEF OpenTmp, Write, ReadByCompose, Exit, Goto, TypeOK, Busy
<1>5. CASE Rename(c)
  <2>1. c \in Busy
    BY <1>5 DEF Rename, Busy
  <2>2. ASSUME NEW b \in Command \ {c}
        PROVE  Same(b) /\ cmd'[b].at \in {cmd[b].at, Moved(cmd[b].at)}
    <3>1. cmd'[b] = [cmd[b] EXCEPT !.at = Moved(@)] /\ cmd[b] \in Processes
      BY <1>5 DEF Rename, TypeOK
    <3> QED
      BY <3>1 DEF Same, Processes
  <2> QED
    BY <1>5, <2>1, <2>2
<1>6. ASSUME NEW ok \in BOOLEAN, Recreate(c, ok) \/ Register(c, ok) PROVE c \in Busy /\ Apart
  BY <1>6 DEF Recreate, Register, Exit, TypeOK, Busy
<1>7. ASSUME ReadCredential(c) \/ ReadRecord(c) \/ UpdateCertificate(c)
      PROVE  c \in Busy /\ Apart
  BY <1>7 DEF ReadCredential, ReadRecord, UpdateCertificate, Goto, TypeOK, Busy
<1>8. ASSUME CreateRecord(c) \/ FillRecord(c) \/ Select(c) PROVE c \in Busy /\ Apart
  BY <1>8 DEF CreateRecord, FillRecord, Select, Goto, Exit, TypeOK, Busy
<1>9. c \in Busy /\ Apart
        => /\ c \in Busy
           /\ \A b \in Command \ {c} : Same(b) /\ cmd'[b].at \in {cmd[b].at, Moved(cmd[b].at)}
           /\ ~Rename(c) => \A b \in Command \ {c} : cmd'[b] = cmd[b]
  BY DEF Same
<1> QED
  BY <1>1, <1>2, <1>3, <1>4, <1>5, <1>6, <1>7, <1>8, <1>9 DEF Proceed

\* Where the steps of a command lead.
Leads == {<<"secrets", "secrets">>, <<"secrets", "write">>, <<"read", "open">>,
          <<"open", "write">>, <<"write", "rename">>, <<"rename", "compose">>,
          <<"compose", "recreate">>, <<"read", "look">>, <<"look", "register">>,
          <<"register", "note">>, <<"register", "select">>, <<"note", "fill">>,
          <<"fill", "select">>}

Onwards(c) ==
  /\ <<cmd[c].pc, cmd'[c].pc>> \in Leads
  /\ cmd'[c].kind = cmd[c].kind /\ cmd'[c].alone = cmd[c].alone
  /\ cmd'[c].at # "none" => cmd'[c].pc \in {"write", "rename"}
  /\ cmd[c].pc = "read" /\ cmd'[c].pc = "open" => cmd[c].kind \in {"harden", "reset"}
  /\ cmd[c].pc = "read" /\ cmd'[c].pc = "look" => cmd[c].kind = "tls"
  /\ cmd[c].pc = "write" => cmd[c].kind # "init"

\* A step of a command ends it or takes it onwards.
LEMMA Onward ==
  ASSUME TypeOK, Shape, NEW c \in Command, Proceed(c)
  PROVE  cmd'[c] = Idle \/ Onwards(c)
<1>0. cmd[c] \in Processes
  BY DEF TypeOK
<1>a. cmd[c].at # "none" => cmd[c].pc \in {"write", "rename"}
  BY DEF Shape
<1>1. ASSUME \/ Stops(c) \/ Select(c)
             \/ \E s \in Secret : TearSecret(c, s)
             \/ \E ok \in BOOLEAN : Recreate(c, ok)
      PROVE  cmd'[c] = Idle
  BY <1>1 DEF Stops, Select, TearSecret, Recreate, Exit, TypeOK
<1>2. ASSUME NEW s \in Secret, WriteSecret(c, s) PROVE Onwards(c)
  <2>1. cmd'[c] = [cmd[c] EXCEPT !.todo = @ \ {s}]
    BY <1>2 DEF WriteSecret, TypeOK
  <2> QED
    BY <1>0, <1>a, <1>2, <2>1 DEF WriteSecret, Onwards, Leads, Processes
<1>3. ASSUME NEW k \in Credential, CreateEnv(c, k) PROVE Onwards(c)
  <2>1. cmd'[c] = [cmd[c] EXCEPT !.pc = "write", !.at = "env", !.text = [full |-> TRUE, cred |-> k]]
    BY <1>3 DEF CreateEnv, TypeOK
  <2> QED
    <3>1. /\ cmd'[c].pc = "write" /\ cmd'[c].kind = cmd[c].kind
          /\ cmd'[c].alone = cmd[c].alone
      BY <1>0, <2>1 DEF Processes
    <3>2. cmd[c].pc = "secrets"
      BY <1>3 DEF CreateEnv
    <3> QED
      BY <3>1, <3>2 DEF Onwards, Leads
<1>4. ASSUME NEW k \in Credential, ReadEnv(c, k) PROVE Onwards(c)
  <2>1. \E text : cmd'[c] = [cmd[c] EXCEPT !.pc = "open", !.text = text]
    BY <1>4 DEF ReadEnv, TypeOK
  <2> QED
    BY <1>0, <1>a, <1>4, <2>1 DEF ReadEnv, Onwards, Leads, Processes
<1>5. ASSUME OpenTmp(c) PROVE Onwards(c)
  <2>1. cmd'[c] = [cmd[c] EXCEPT !.pc = "write", !.at = "tmp"]
    BY <1>5 DEF OpenTmp, TypeOK
  <2> QED
    <3>1. /\ cmd'[c].pc = "write" /\ cmd'[c].kind = cmd[c].kind
          /\ cmd'[c].alone = cmd[c].alone
      BY <1>0, <2>1 DEF Processes
    <3>2. cmd[c].pc = "open"
      BY <1>5 DEF OpenTmp
    <3> QED
      BY <3>1, <3>2 DEF Onwards, Leads
<1>6. ASSUME Write(c) PROVE cmd'[c] = Idle \/ Onwards(c)
  <2>1. CASE cmd[c].kind = "init"
    BY <1>6, <2>1 DEF Write, Exit, TypeOK
  <2>2. CASE cmd[c].kind # "init"
    <3>1. cmd'[c] = [cmd[c] EXCEPT !.pc = "rename"] /\ cmd[c].pc = "write"
      BY <1>6, <2>2 DEF Write, Goto, TypeOK
    <3> QED
      BY <1>0, <2>2, <3>1 DEF Onwards, Leads, Processes
  <2> QED
    BY <2>1, <2>2
<1>7. ASSUME Rename(c) PROVE Onwards(c)
  <2>1. cmd'[c] = [cmd[c] EXCEPT !.pc = "compose", !.at = "none"]
    BY <1>7 DEF Rename, TypeOK
  <2> QED
    BY <1>0, <1>7, <2>1 DEF Rename, Onwards, Leads, Processes
<1>8. ASSUME ReadByCompose(c) \/ ReadCredential(c) PROVE Onwards(c)
  <2>1. \E text : \/ /\ cmd'[c] = [cmd[c] EXCEPT !.pc = "recreate", !.text = text]
                    /\ cmd[c].pc = "compose"
                 \/ /\ cmd'[c] = [cmd[c] EXCEPT !.pc = "look", !.text = text]
                    /\ cmd[c].pc = "read" /\ cmd[c].kind = "tls"
    BY <1>8 DEF ReadByCompose, ReadCredential, TypeOK
  <2> QED
    BY <1>0, <1>a, <2>1 DEF Onwards, Leads, Processes
<1>9. ASSUME NEW answered \in BOOLEAN, Register(c, answered) PROVE cmd'[c] = Idle \/ Onwards(c)
  <2>1. CASE ~answered
    BY <1>9, <2>1 DEF Register, Exit, TypeOK
  <2>2. CASE answered
    <3>1. cmd'[c] = [cmd[c] EXCEPT !.pc = "note", !.id = made'] /\ cmd[c].pc = "register"
      BY <1>9, <2>2 DEF Register, TypeOK
    <3> QED
      BY <1>0, <1>a, <3>1 DEF Onwards, Leads, Processes
  <2> QED
    BY <2>1, <2>2
<1>10. ASSUME ReadRecord(c) PROVE Onwards(c)
  <2>1. \E id : cmd'[c] = [cmd[c] EXCEPT !.pc = "register", !.id = id]
    BY <1>10 DEF ReadRecord, TypeOK
  <2> QED
    BY <1>0, <1>a, <1>10, <2>1 DEF ReadRecord, Onwards, Leads, Processes
<1>11. ASSUME UpdateCertificate(c) \/ CreateRecord(c) \/ FillRecord(c) PROVE Onwards(c)
  <2>1. \/ cmd'[c] = [cmd[c] EXCEPT !.pc = "select"] /\ cmd[c].pc \in {"register", "fill"}
        \/ cmd'[c] = [cmd[c] EXCEPT !.pc = "fill"] /\ cmd[c].pc = "note"
    BY <1>11 DEF UpdateCertificate, CreateRecord, FillRecord, Goto, TypeOK
  <2> QED
    BY <1>0, <1>a, <2>1 DEF Onwards, Leads, Processes
<1> QED
  BY <1>1, <1>2, <1>3, <1>4, <1>5, <1>6, <1>7, <1>8, <1>9, <1>10, <1>11 DEF Proceed

\* The steps of nobody's command leave the processes alone.
LEMMA NextCases ==
  [Next]_vars =>
    \/ \E c \in Command : (\E kind \in Kinds : Start(c, kind)) \/ Proceed(c)
    \/ (\E i \in Installation : Bootstrap(i) \/ SaveSetting(i) \/ SetupFails(i)) /\ cmd' = cmd
    \/ Backup /\ cmd' = cmd
    \/ (Restores \/ RestoreHalts) /\ cmd' = cmd
    \/ UNCHANGED vars
BY DEF Next, Run, Proceed, Bootstrap, SaveSetting, SetupFails, Backup, Restores, Restore, RestoreHalts,
   RestoreVolumesEnds, RestoreFilesEnds, Unfinished, BeginRestore

\* A restore meets no command, and keeps the copy, .env.tmp and what was.
LEMMA RestoreLeaves ==
  Restores \/ RestoreHalts =>
    Busy = {} /\ saved # {} /\ UNCHANGED <<tmp, made, saved, cmd, installed, crossed>>
BY DEF Restores, Restore, RestoreHalts, RestoreVolumesEnds, RestoreFilesEnds, Unfinished, BeginRestore

LEMMA ShapeStep == TypeOK /\ Alone /\ Shape /\ [Next]_vars => Alone' /\ Shape'
<1> SUFFICES ASSUME TypeOK, Alone, Shape, [Next]_vars PROVE Alone' /\ Shape'
  OBVIOUS
<1>1. ASSUME NEW c \in Command, NEW kind \in Kinds, Start(c, kind) PROVE Alone' /\ Shape'
  <2>1. c \notin Busy
    BY <1>1 DEF Start, Busy
  <2>2. /\ cmd'[c].kind = kind /\ cmd'[c].at = "none"
        /\ cmd'[c].pc = CASE kind = "init" -> "secrets" [] kind = "up" -> "compose"
                          [] OTHER -> "read"
        /\ cmd'[c].alone <=> Busy = {}
    BY <1>1 DEF Start, Idle, TypeOK
  <2>3. ASSUME NEW b \in Command \ {c}
        PROVE  /\ cmd'[b].pc = cmd[b].pc /\ cmd'[b].kind = cmd[b].kind /\ cmd'[b].at = cmd[b].at
               /\ b \in Busy => ~cmd'[b].alone
    BY <1>1 DEF Start, TypeOK, Processes
  <2>4. cmd'[c].pc # "idle"
    BY <2>2 DEF Kinds
  <2>5. Busy' = Busy \union {c}
    BY <2>3, <2>4 DEF Busy
  <2>6. Alone'
    <3>1. cmd'[c].alone => Busy' = {c}
      BY <2>2, <2>5
    <3>2. \A b \in Busy : b \in Command \ {c}
      BY <2>1 DEF Busy
    <3> QED
      BY <2>3, <2>5, <3>1, <3>2 DEF Alone
  <2>7. Shape'
    BY <2>2, <2>3 DEF Shape, Kinds
  <2> QED
    BY <2>6, <2>7
<1>2. ASSUME NEW c \in Command, Proceed(c) PROVE Alone' /\ Shape'
  <2>1. c \in Busy /\ \A b \in Command \ {c} : Same(b) /\ cmd'[b].at \in {cmd[b].at, Moved(cmd[b].at)}
    BY <1>2, Others
  <2>2. cmd'[c] = Idle \/ Onwards(c)
    BY <1>2, Onward
  <2>3. Busy' \subseteq Busy /\ \A b \in Busy' : cmd'[b].alone => cmd[b].alone
    <3>1. Busy' \subseteq Busy
      BY <2>1 DEF Same, Busy
    <3>2. c \in Busy' => cmd'[c].alone = cmd[c].alone
      BY <2>2 DEF Busy, Idle, Onwards
    <3> QED
      BY <2>1, <3>1, <3>2 DEF Same, Busy
  <2>4. Alone'
    BY <2>3 DEF Alone
  <2>5. ASSUME NEW b \in Command \ {c}, cmd'[b].at # "none" PROVE cmd'[b].pc \in {"write", "rename"}
    BY <2>1, <2>5 DEF Same, Moved, Shape
  <2>6. Shape'
    BY <2>1, <2>2, <2>5 DEF Same, Shape, Onwards, Leads, Idle
  <2> QED
    BY <2>4, <2>6
<1>3. ASSUME cmd' = cmd PROVE Alone' /\ Shape'
  BY <1>3 DEF Alone, Shape, Busy
<1> QED
  BY <1>1, <1>2, <1>3, NextCases DEF vars

LEMMA CopiedStep == TypeOK /\ Copied /\ [Next]_vars => Copied'
<1> SUFFICES ASSUME TypeOK, Copied, [Next]_vars PROVE Copied'
  OBVIOUS
<1>1. ASSUME saved' = saved, made' = made PROVE Copied'
  BY <1>1 DEF Copied
<1>2. ASSUME NEW c \in Command, NEW ok \in BOOLEAN, Register(c, ok) PROVE Copied'
  <2>1. saved' = saved /\ made' = made + 1
    BY <1>2 DEF Register
  <2>2. \A n \in 1 .. made : n \in 1 .. made'
    BY <2>1, ConstantsAssumption DEF TypeOK, Id
  <2> QED
    BY <2>1, <2>2 DEF Copied
<1>3. CASE Backup
  <2>1. /\ env # {} /\ made' = made
        /\ saved' = {[env |-> env, secrets |-> secrets, record |-> record, certs |-> certs,
                      default |-> default, core |-> core, setting |-> setting, mixed |-> mixed]}
    BY <1>3 DEF Backup, server
  <2> QED
    BY <2>1 DEF Copied, TypeOK
<1>4. CASE Restores \/ RestoreHalts
  BY <1>1, <1>4, RestoreLeaves
<1>5. ASSUME NEW c \in Command, Run(c), ~\E ok \in BOOLEAN : Register(c, ok) PROVE Copied'
  <2>1. saved' = saved /\ made' = made
    BY <1>5 DEF Run, Start, Stops, WriteSecret, TearSecret, CreateEnv, ReadEnv, OpenTmp, Write,
       Rename, ReadByCompose, Recreate, ReadCredential, ReadRecord, UpdateCertificate,
       CreateRecord, FillRecord, Select, server
  <2> QED
    BY <1>1, <2>1
<1>6. ASSUME NEW i \in Installation, Bootstrap(i) \/ SaveSetting(i) \/ SetupFails(i) PROVE Copied'
  BY <1>1, <1>6 DEF Bootstrap, SaveSetting, SetupFails, server
<1> QED
  BY <1>1, <1>2, <1>3, <1>4, <1>5, <1>6 DEF Next, vars, server, Restores

-----------------------------------------------------------------------------
(* After harden. *)

NoCredential(S) == \A e \in S : e.cred = None

\* What a harden that runs alone has done so far.
Hardening ==
  \A c \in Command : cmd[c].alone /\ cmd[c].kind = "harden" =>
    /\ cmd[c].pc \in {"open", "write", "rename", "recreate"} => cmd[c].text.cred = None
    /\ cmd[c].pc \in {"write", "rename"} => cmd[c].at = "tmp"
    /\ cmd[c].pc = "rename" => tmp = {cmd[c].text}
    /\ cmd[c].pc \in {"compose", "recreate"} => env # {} /\ NoCredential(env) /\ tmp = {}

\* No credential is left to anybody, and no command that brings one is under way.
Hardened ==
  hardened =>
    /\ env # {} /\ NoCredential(env) /\ NoCredential(tmp)
    /\ \A k \in Container : armed[k] = None
    /\ accepted = {}
    /\ \A c \in Busy :
         /\ cmd[c].kind \in {"harden", "tls", "up"}
         /\ cmd[c].kind = "tls" => cmd[c].pc = "read"
         /\ cmd[c].pc \in {"open", "write", "rename", "recreate"} => cmd[c].text.cred = None

LEMMA HardeningStep ==
  TypeOK /\ Alone /\ Shape /\ Hardening /\ [Next]_vars => Hardening'
<1> SUFFICES ASSUME TypeOK, Alone, Shape, Hardening, [Next]_vars PROVE Hardening'
  OBVIOUS
<1>1. ASSUME NEW c \in Command, NEW kind \in Kinds, Start(c, kind) PROVE Hardening'
  <2>1. /\ cmd'[c].kind = kind
        /\ cmd'[c].pc = CASE kind = "init" -> "secrets" [] kind = "up" -> "compose"
                          [] OTHER -> "read"
    BY <1>1 DEF Start, Idle, TypeOK
  <2>2. ASSUME NEW b \in Command \ {c}
        PROVE  cmd'[b].pc = "idle" \/ ~cmd'[b].alone
    BY <1>1 DEF Start, TypeOK, Processes, Busy
  <2> QED
    BY <2>1, <2>2 DEF Hardening, Kinds
<1>2. ASSUME NEW c \in Command, Proceed(c) PROVE Hardening'
  <2>1. /\ c \in Busy
        /\ \A b \in Command \ {c} : Same(b) /\ cmd'[b].at \in {cmd[b].at, Moved(cmd[b].at)}
    BY <1>2, Others
  <2>2. \A b \in Command \ {c} : cmd[b].pc = "idle" \/ ~cmd[b].alone
    BY <2>1 DEF Alone, Busy
  <2>3. \A b \in Command \ {c} : cmd'[b].pc = "idle" \/ ~cmd'[b].alone
    BY <2>1, <2>2 DEF Same
  <2>4. cmd'[c] = Idle \/ Onwards(c)
    BY <1>2, Onward
  <2> DEFINE Own ==
        /\ cmd'[c].pc \in {"open", "write", "rename", "recreate"} => cmd'[c].text.cred = None
        /\ cmd'[c].pc \in {"write", "rename"} => cmd'[c].at = "tmp"
        /\ cmd'[c].pc = "rename" => tmp' = {cmd'[c].text}
        /\ cmd'[c].pc \in {"compose", "recreate"} => env' # {} /\ NoCredential(env') /\ tmp' = {}
  <2>5. ASSUME cmd'[c].alone, cmd'[c].kind = "harden", cmd'[c] # Idle PROVE Own
    <3>0. /\ cmd[c].alone /\ cmd[c].kind = "harden" /\ Onwards(c) /\ cmd[c] \in Processes
          /\ cmd \in [Command -> Processes]
      BY <2>4, <2>5 DEF Onwards, TypeOK
    <3>1. ASSUME NEW s \in Secret, WriteSecret(c, s) \/ TearSecret(c, s) PROVE Own
      BY <3>0, <3>1 DEF WriteSecret, TearSecret, Shape
    <3>2. ASSUME NEW k \in Credential, CreateEnv(c, k) PROVE Own
      BY <3>0, <3>2 DEF CreateEnv, Shape
    <3>3. ASSUME NEW k \in Credential, ReadEnv(c, k) PROVE Own
      <4>1. PICK e \in env : cmd' = [cmd EXCEPT ![c].pc = "open", ![c].text = [e EXCEPT !.cred = None]]
        BY <3>0, <3>3 DEF ReadEnv
      <4>2. cmd'[c].pc = "open" /\ cmd'[c].text = [e EXCEPT !.cred = None] /\ e \in Contents
        BY <3>0, <4>1 DEF TypeOK, AtMostOne
      <4> QED
        BY <4>2 DEF Contents
    <3>4. ASSUME OpenTmp(c) PROVE Own
      <4>1. cmd'[c] = [cmd[c] EXCEPT !.pc = "write", !.at = "tmp"] /\ cmd[c].pc = "open"
        BY <3>0, <3>4 DEF OpenTmp
      <4>2. cmd'[c].pc = "write" /\ cmd'[c].at = "tmp" /\ cmd'[c].text = cmd[c].text
        BY <3>0, <4>1 DEF Processes
      <4> QED
        BY <3>0, <4>1, <4>2 DEF Hardening
    <3>5. ASSUME Write(c) PROVE Own
      <4>1. cmd[c].pc = "write" /\ cmd[c].at = "tmp" /\ cmd[c].text.cred = None
        BY <3>0, <3>5 DEF Write, Hardening
      <4>2. cmd'[c] = [cmd[c] EXCEPT !.pc = "rename"] /\ tmp' = {cmd[c].text}
        BY <3>0, <3>5, <4>1 DEF Write, Goto
      <4>3. cmd'[c].pc = "rename" /\ cmd'[c].at = "tmp" /\ cmd'[c].text = cmd[c].text
        BY <3>0, <4>1, <4>2 DEF Processes
      <4> QED
        BY <4>1, <4>2, <4>3
    <3>6. ASSUME Rename(c) PROVE Own
      <4>1. tmp = {cmd[c].text} /\ cmd[c].text.cred = None
        BY <3>0, <3>6 DEF Rename, Hardening
      <4>2. /\ cmd'[c] = [cmd[c] EXCEPT !.pc = "compose", !.at = "none"]
            /\ env' = tmp /\ tmp' = {}
        BY <3>0, <3>6 DEF Rename
      <4>3. cmd'[c].pc = "compose"
        BY <3>0, <4>2 DEF Processes
      <4> QED
        BY <4>1, <4>2, <4>3 DEF NoCredential
    <3>7. ASSUME ReadByCompose(c) PROVE Own
      <4>1. PICK e \in env : cmd' = [cmd EXCEPT ![c].pc = "recreate", ![c].text = e]
        BY <3>7 DEF ReadByCompose
      <4>2. cmd'[c].pc = "recreate" /\ cmd'[c].text = e
        BY <3>0, <4>1 DEF Processes
      <4>3. cmd[c].pc = "compose" /\ env' = env /\ tmp' = tmp
        BY <3>7 DEF ReadByCompose, files
      <4> QED
        BY <3>0, <4>2, <4>3 DEF Hardening, NoCredential
    <3>8. ASSUME NEW ok \in BOOLEAN, Recreate(c, ok) PROVE Own
      BY <2>5, <3>0, <3>8 DEF Recreate, Exit
    <3>9. ASSUME NEW ok \in BOOLEAN, Register(c, ok) PROVE Own
      BY <3>0, <3>9 DEF Register, Shape
    <3>10. ASSUME \/ ReadCredential(c) \/ ReadRecord(c) \/ UpdateCertificate(c)
                  \/ CreateRecord(c) \/ FillRecord(c) \/ Select(c)
           PROVE  Own
      BY <3>0, <3>10 DEF ReadCredential, ReadRecord, UpdateCertificate, CreateRecord, FillRecord,
         Select, Shape
    <3>11. ASSUME Stops(c) PROVE Own
      BY <2>5, <3>0, <3>11 DEF Stops, Exit
    <3> QED
      BY <1>2, <3>1, <3>2, <3>3, <3>4, <3>5, <3>6, <3>7, <3>8, <3>9, <3>10, <3>11 DEF Proceed
  <2>6. cmd'[c] = Idle => cmd'[c].pc = "idle"
    BY DEF Idle
  <2> QED
    BY <2>3, <2>5, <2>6 DEF Hardening
<1>3. ASSUME NEW i \in Installation, Bootstrap(i) \/ SaveSetting(i) \/ SetupFails(i)
      PROVE  Hardening'
  BY <1>3 DEF Bootstrap, SaveSetting, SetupFails, Hardening, files
<1>4. ASSUME Backup \/ Restores \/ RestoreHalts PROVE Hardening'
  BY <1>4, RestoreLeaves DEF Backup, Hardening, Busy
<1>5. CASE UNCHANGED vars
  BY <1>5 DEF vars, files, Hardening
<1> QED
  BY <1>1, <1>2, <1>3, <1>4, <1>5, NextCases

LEMMA HardenedStep ==
  TypeOK /\ Alone /\ Shape /\ Copied /\ Hardening /\ Hardened /\ [Next]_vars => Hardened'
<1> SUFFICES ASSUME TypeOK, Alone, Shape, Copied, Hardening, Hardened, [Next]_vars, hardened'
             PROVE  Hardened'
  BY DEF Hardened
<1> DEFINE Clear ==
      /\ env # {} /\ NoCredential(env) /\ NoCredential(tmp)
      /\ \A k \in Container : armed[k] = None
      /\ accepted = {}
<1> DEFINE Harmless(b) ==
      /\ cmd[b].kind \in {"harden", "tls", "up"}
      /\ cmd[b].kind = "tls" => cmd[b].pc = "read"
      /\ cmd[b].pc \in {"open", "write", "rename", "recreate"} => cmd[b].text.cred = None
<1>0. cmd \in [Command -> Processes]
  BY DEF TypeOK
<1>1. ASSUME NEW c \in Command, NEW kind \in Kinds, Start(c, kind) PROVE Hardened'
  <2>1. hardened /\ kind # "reset" /\ (kind = "init" => env = {})
    BY <1>1 DEF Start
  <2>2. Clear' /\ kind # "init"
    BY <1>1, <2>1 DEF Start, Hardened, files, setup
  <2>3. /\ cmd'[c].kind = kind
        /\ cmd'[c].pc = CASE kind = "init" -> "secrets" [] kind = "up" -> "compose"
                          [] OTHER -> "read"
    BY <1>1 DEF Start, Idle, TypeOK
  <2>4. ASSUME NEW b \in Command \ {c}
        PROVE  cmd'[b].pc = cmd[b].pc /\ cmd'[b].kind = cmd[b].kind /\ cmd'[b].text = cmd[b].text
    BY <1>0, <1>1 DEF Start, Processes
  <2> QED
    BY <2>1, <2>2, <2>3, <2>4 DEF Hardened, Busy, Kinds
<1>2. ASSUME NEW c \in Command, NEW ok \in BOOLEAN, Recreate(c, ok), ~hardened PROVE Hardened'
  <2>1. ok /\ cmd[c].kind = "harden" /\ cmd[c].alone /\ cmd[c].pc = "recreate" /\ c \in Busy
    BY <1>2 DEF Recreate, Busy
  <2>2. cmd[c].text.cred = None /\ env # {} /\ NoCredential(env) /\ tmp = {}
    BY <2>1 DEF Hardening
  <2>3. /\ \A k \in Container : armed'[k] = None
        /\ accepted' = {} /\ env' = env /\ tmp' = tmp
    BY <1>2, <2>1, <2>2 DEF Recreate, Targets, Container, files
  <2>4. Busy' = {}
    BY <1>0, <1>2, <2>1 DEF Recreate, Exit, Alone, Busy, Idle
  <2> QED
    BY <2>2, <2>3, <2>4 DEF Hardened, NoCredential
<1>3. ASSUME NEW c \in Command, Proceed(c), hardened PROVE Hardened'
  <2>0. Clear /\ c \in Busy /\ Harmless(c)
    BY <1>3, Others DEF Hardened
  <2>1. \A b \in Command \ {c} : Same(b)
    BY <1>3, Others
  <2>2. cmd'[c] = Idle \/ Onwards(c)
    BY <1>3, Onward
  <2>3. cmd'[c] = Idle => cmd'[c].pc = "idle"
    BY DEF Idle
  <2>4. ASSUME Clear', Harmless(c)' \/ cmd'[c] = Idle PROVE Hardened'
    BY <1>3, <2>1, <2>3, <2>4 DEF Hardened, Busy, Same
  <2>5. cmd[c].pc \notin {"secrets", "look", "register", "note", "fill", "select"}
    BY <2>0 DEF Shape
  <2>6. ASSUME Stops(c) PROVE Hardened'
    <3>1. cmd'[c] = Idle
      BY <1>0, <2>6 DEF Stops, Exit
    <3>2. Clear'
      BY <2>0, <2>6 DEF Stops, files, setup
    <3> QED
      BY <2>4, <3>1, <3>2
  <2>7. ASSUME NEW k \in Credential, ReadEnv(c, k) PROVE Hardened'
    <3>1. cmd[c].kind = "harden"
      BY <2>0, <2>7 DEF ReadEnv
    <3>2. PICK e \in env : cmd' = [cmd EXCEPT ![c].pc = "open", ![c].text = [e EXCEPT !.cred = None]]
      BY <2>7, <3>1 DEF ReadEnv
    <3>3. /\ cmd'[c].pc = "open" /\ cmd'[c].kind = "harden"
          /\ cmd'[c].text = [e EXCEPT !.cred = None] /\ e \in Contents
      BY <1>0, <3>1, <3>2 DEF TypeOK, AtMostOne, Processes
    <3>4. [e EXCEPT !.cred = None].cred = None
      BY <3>3 DEF Contents
    <3>5. Clear'
      BY <2>0, <2>7 DEF ReadEnv, files, setup
    <3> QED
      BY <2>4, <3>3, <3>4, <3>5
  <2>8. ASSUME OpenTmp(c) PROVE Hardened'
    <3>1. cmd'[c] = [cmd[c] EXCEPT !.pc = "write", !.at = "tmp"] /\ cmd[c].pc = "open"
      BY <1>0, <2>8 DEF OpenTmp
    <3>2. cmd'[c].pc = "write" /\ cmd'[c].kind = cmd[c].kind /\ cmd'[c].text = cmd[c].text
      BY <1>0, <3>1 DEF Processes
    <3>3. Clear'
      BY <2>0, <2>8 DEF OpenTmp, setup, NoCredential, Torn
    <3>4. cmd[c].kind # "tls" /\ cmd[c].text.cred = None
      BY <2>0, <3>1
    <3> QED
      BY <2>0, <2>4, <3>2, <3>3, <3>4
  <2>9. ASSUME Write(c) PROVE Hardened'
    <3>1. cmd[c].pc = "write" /\ cmd[c].kind \in {"harden", "up"} /\ cmd[c].text.cred = None
      BY <2>0, <2>9 DEF Write
    <3>2. cmd'[c] = [cmd[c] EXCEPT !.pc = "rename"]
      BY <1>0, <2>9, <3>1 DEF Write, Goto
    <3>3. cmd'[c].pc = "rename" /\ cmd'[c].kind = cmd[c].kind /\ cmd'[c].text = cmd[c].text
      BY <1>0, <3>2 DEF Processes
    <3>4. Clear'
      BY <2>0, <2>9, <3>1 DEF Write, setup, NoCredential
    <3> QED
      BY <2>4, <3>1, <3>3, <3>4
  <2>10. ASSUME Rename(c) PROVE Hardened'
    <3>1. cmd'[c] = [cmd[c] EXCEPT !.pc = "compose", !.at = "none"] /\ cmd[c].pc = "rename"
      BY <1>0, <2>10 DEF Rename
    <3>2. cmd'[c].pc = "compose" /\ cmd'[c].kind = cmd[c].kind
      BY <1>0, <3>1 DEF Processes
    <3>3. Clear'
      BY <2>0, <2>10 DEF Rename, setup, NoCredential
    <3> QED
      BY <2>0, <2>4, <3>1, <3>2, <3>3
  <2>11. ASSUME ReadByCompose(c) PROVE Hardened'
    <3>1. PICK e \in env : cmd' = [cmd EXCEPT ![c].pc = "recreate", ![c].text = e]
      BY <2>11 DEF ReadByCompose
    <3>2. cmd'[c].pc = "recreate" /\ cmd'[c].kind = cmd[c].kind /\ cmd'[c].text = e
      BY <1>0, <3>1 DEF Processes
    <3>3. Clear' /\ cmd[c].pc = "compose"
      BY <2>0, <2>11 DEF ReadByCompose, files, setup
    <3> QED
      BY <2>0, <2>4, <3>2, <3>3 DEF NoCredential
  <2>12. ASSUME NEW ok \in BOOLEAN, Recreate(c, ok) PROVE Hardened'
    <3>1. cmd[c].text.cred = None
      BY <2>0, <2>12 DEF Recreate
    <3>2. Clear' /\ cmd'[c] = Idle
      BY <1>0, <2>0, <2>12, <3>1 DEF Recreate, Exit, files
    <3> QED
      BY <2>4, <3>2
  <2>13. ~ReadCredential(c)
    BY <2>0 DEF ReadCredential, NoCredential
  <2>14. /\ \A s \in Secret : ~WriteSecret(c, s) /\ ~TearSecret(c, s)
         /\ \A k \in Credential : ~CreateEnv(c, k)
         /\ \A ok \in BOOLEAN : ~Register(c, ok)
         /\ ~ReadRecord(c) /\ ~UpdateCertificate(c)
         /\ ~CreateRecord(c) /\ ~FillRecord(c) /\ ~Select(c)
    BY <2>5 DEF WriteSecret, TearSecret, CreateEnv, Register, ReadRecord, UpdateCertificate,
       CreateRecord, FillRecord, Select
  <2> QED
    BY <1>3, <2>6, <2>7, <2>8, <2>9, <2>10, <2>11, <2>12, <2>13, <2>14 DEF Proceed
<1>4. ASSUME NEW i \in Installation, Bootstrap(i) \/ SaveSetting(i) \/ SetupFails(i)
      PROVE  Hardened'
  BY <1>4 DEF Bootstrap, SaveSetting, SetupFails, Hardened, Authorized, Container, marks
<1>5. CASE Backup
  <2>1. hardened /\ Clear /\ Busy' = {} /\ env' = env /\ tmp' = tmp
    BY <1>5 DEF Backup, Hardened, Busy, marks, files
  <2>2. (\A k \in Container : armed'[k] = None) /\ accepted' = {}
    BY <1>5, <2>1 DEF Backup, NoCredential
  <2> QED
    BY <2>1, <2>2 DEF Hardened, NoCredential
<1>6. ASSUME Restores \/ RestoreHalts PROVE Hardened'
  <2>0. Busy' = {} /\ tmp' = tmp /\ saved # {}
    BY <1>6, RestoreLeaves DEF Busy
  <2>1. ASSUME hardened, env' # {}, NoCredential(env'), \A k \in Container : armed'[k] = None,
               accepted' = {}
        PROVE  Hardened'
    BY <2>0, <2>1 DEF Hardened, NoCredential
  <2>2. ASSUME NEW ok \in BOOLEAN, Restore(ok) PROVE Hardened'
    <3>1. PICK e \in Contents :
            /\ env' = {e} /\ armed' \in [Container -> IF ok THEN {e.cred} ELSE {None, e.cred}]
            /\ hardened' = (hardened /\ e.cred = None)
      BY <2>2 DEF Restore
    <3>2. hardened /\ e.cred = None /\ accepted' = {}
      BY <2>2, <3>1 DEF Restore
    <3> QED
      BY <2>1, <3>1, <3>2 DEF NoCredential
  <2>3. ASSUME RestoreHalts PROVE Hardened'
    <3>1. hardened /\ env' = env /\ \A k \in Container : armed'[k] \in {armed[k], None}
      BY <2>3 DEF RestoreHalts
    <3>2. accepted' = {} /\ env # {} /\ NoCredential(env) /\ \A k \in Container : armed[k] = None
      BY <2>3, <3>1 DEF RestoreHalts, Hardened
    <3> QED
      BY <2>1, <3>1, <3>2
  <2>4. ASSUME RestoreVolumesEnds PROVE Hardened'
    <3>1. /\ hardened /\ env' = env /\ accepted' = {}
          /\ \A k \in Container : armed'[k] = None
      BY <2>4 DEF RestoreVolumesEnds, Unfinished
    <3>2. env # {} /\ NoCredential(env)
      BY <3>1 DEF Hardened
    <3> QED
      BY <2>1, <3>1, <3>2
  <2>5. ASSUME RestoreFilesEnds PROVE Hardened'
    <3>1. /\ hardened /\ NoCredential(env') /\ accepted' = {}
          /\ \A k \in Container : armed'[k] = None
      BY <2>5 DEF RestoreFilesEnds, Unfinished, NoCredential
    <3>2. env' # {}
      BY <2>5 DEF RestoreFilesEnds, Copied
    <3> QED
      BY <2>1, <3>1, <3>2
  <2> QED
    BY <1>6, <2>2, <2>3, <2>4, <2>5 DEF Restores
<1>7. CASE UNCHANGED vars
  BY <1>7 DEF vars, files, setup, marks, Hardened, Busy
<1>8. ASSUME NEW c \in Command, Proceed(c), ~hardened PROVE \E ok \in BOOLEAN : Recreate(c, ok)
  BY <1>8 DEF Proceed, Stops, WriteSecret, TearSecret, CreateEnv, ReadEnv, OpenTmp, Write, Rename,
     ReadByCompose, Register, ReadCredential, ReadRecord, UpdateCertificate, CreateRecord,
     FillRecord, Select, marks
<1> QED
  BY <1>1, <1>2, <1>3, <1>4, <1>5, <1>6, <1>7, <1>8, NextCases

-----------------------------------------------------------------------------
(* The certificate. *)

\* What each configure-tls knows is what is on record, and only one fills it in.
Knows(c) ==
  /\ cmd[c].pc \in {"note", "fill"} => cmd[c].id \in certs
  /\ cmd[c].pc = "fill" => record = {0}
  /\ cmd[c].pc = "register" /\ cmd[c].id # 0 => record = {cmd[c].id}
  /\ cmd[c].pc = "select" => record = {cmd[c].id} /\ cmd[c].id # 0

OneFills == \A b, c \in Command : cmd[b].pc = "fill" /\ cmd[c].pc = "fill" => b = c

Recording == (\A c \in Command : Knows(c)) /\ OneFills

CopyRecorded == \A s \in saved : s.mixed \/ (s.default # 0 => s.record = {s.default})

Certificates == RecordedIsServed /\ Recording /\ CopyRecorded

LEMMA CertificatesStep ==
  TypeOK /\ Shape /\ Copied /\ Certificates /\ [Next]_vars => Certificates'
<1> SUFFICES ASSUME TypeOK, Shape, Copied, Certificates, [Next]_vars PROVE Certificates'
  OBVIOUS
<1>0. /\ cmd \in [Command -> Processes]
      /\ \A n \in certs : n \in Nat /\ n # 0
      /\ default \in certs \union {0}
  BY DEF TypeOK
<1> DEFINE Fixed == UNCHANGED <<record, certs, default, saved, outdated, mixed>>
<1> DEFINE Steady(b) == /\ cmd'[b].id = cmd[b].id
                        /\ cmd'[b].pc \in {"note", "fill", "register", "select"}
                             => cmd'[b].pc = cmd[b].pc
<1> DEFINE Elsewhere(b) == cmd'[b].pc \notin {"note", "fill", "register", "select"}
<1>a. ASSUME NEW b \in Command, Steady(b) \/ Elsewhere(b), record' = record, certs \subseteq certs'
      PROVE  Knows(b)'
  <2>1. Knows(b)
    BY DEF Certificates, Recording
  <2>2. CASE Elsewhere(b)
    BY <2>2 DEF Knows
  <2>3. CASE Steady(b) /\ ~Elsewhere(b)
    <3>1. cmd'[b].pc = cmd[b].pc /\ cmd'[b].id = cmd[b].id
      BY <2>3
    <3> QED
      BY <1>a, <2>1, <3>1 DEF Knows
  <2> QED
    BY <1>a, <2>2, <2>3
<1>b. ASSUME \A b \in Command : cmd'[b].pc = "fill" => cmd[b].pc = "fill" PROVE OneFills'
  BY <1>b DEF Certificates, Recording, OneFills
<1>1. ASSUME Fixed, \A b \in Command : Steady(b) \/ Elsewhere(b) PROVE Certificates'
  <2>1. \A b \in Command : Knows(b)'
    BY <1>1, <1>a
  <2>2. RecordedIsServed' /\ CopyRecorded'
    BY <1>1 DEF Certificates, RecordedIsServed, CopyRecorded
  <2>3. Recording'
    BY <1>1, <1>b, <2>1 DEF Recording
  <2> QED
    BY <2>2, <2>3 DEF Certificates
<1>2. ASSUME NEW c \in Command, NEW kind \in Kinds, Start(c, kind) PROVE Certificates'
  <2>1. cmd'[c].pc \in {"secrets", "compose", "read"}
    BY <1>2 DEF Start, Idle, TypeOK
  <2>2. ASSUME NEW b \in Command \ {c} PROVE Steady(b)
    BY <1>0, <1>2 DEF Start, Processes
  <2> QED
    BY <1>1, <1>2, <2>1, <2>2 DEF Start, files, server
<1>3. ASSUME NEW c \in Command, Proceed(c) PROVE Certificates'
  <2>1. \A b \in Command \ {c} : Same(b)
    BY <1>3, Others
  <2>2. \A b \in Command \ {c} : Steady(b)
    BY <2>1 DEF Same
  <2>3. cmd'[c] = Idle \/ Onwards(c)
    BY <1>3, Onward
  <2>4. cmd'[c] = Idle => cmd'[c].pc = "idle"
    BY DEF Idle
  <2>5. ASSUME Fixed, cmd[c].pc \notin {"look", "register", "note", "fill"} PROVE Certificates'
    BY <1>1, <2>2, <2>3, <2>4, <2>5 DEF Onwards, Leads
  <2>6. ASSUME \/ \E s \in Secret : WriteSecret(c, s) \/ TearSecret(c, s)
               \/ \E k \in Credential : CreateEnv(c, k) \/ ReadEnv(c, k)
               \/ OpenTmp(c) \/ Write(c) \/ Rename(c)
        PROVE  Certificates'
    <3>1. cmd[c].pc \notin {"look", "register", "note", "fill"}
      BY <2>6 DEF WriteSecret, TearSecret, CreateEnv, ReadEnv, OpenTmp, Write, Rename
    <3>2. Fixed
      BY <2>6 DEF WriteSecret, TearSecret, CreateEnv, ReadEnv, OpenTmp, Write, Rename, server,
         files, marks
    <3> QED
      BY <2>5, <3>1, <3>2
  <2>7. ASSUME ReadByCompose(c) \/ ReadCredential(c) \/ \E ok \in BOOLEAN : Recreate(c, ok)
        PROVE  Certificates'
    BY <2>5, <2>7 DEF ReadByCompose, ReadCredential, Recreate, server, files, marks
  <2>8. ASSUME Stops(c) PROVE Certificates'
    BY <1>1, <2>2, <2>4, <2>8, <1>0 DEF Stops, Exit, server, files, marks
  <2>9. ASSUME ReadRecord(c) PROVE Certificates'
    <3>1. PICK id \in Id : /\ IF record = {} THEN id = 0 ELSE record = {id}
                           /\ cmd' = [cmd EXCEPT ![c].pc = "register", ![c].id = id]
      BY <2>9 DEF ReadRecord
    <3>2. cmd'[c].pc = "register" /\ cmd'[c].id = id /\ (id # 0 => record = {id})
      BY <1>0, <3>1 DEF Processes
    <3>3. Fixed
      BY <2>9 DEF ReadRecord, server, files, marks
    <3>4. Knows(c)' /\ \A b \in Command \ {c} : Knows(b)'
      BY <1>a, <2>2, <3>2, <3>3 DEF Knows
    <3>5. Recording'
      BY <1>b, <2>2, <3>2, <3>4 DEF Recording
    <3> QED
      BY <3>3, <3>5 DEF Certificates, RecordedIsServed, CopyRecorded
  <2>10. ASSUME NEW ok \in BOOLEAN, Register(c, ok) PROVE Certificates'
    <3>1. /\ certs' = certs \union {made'} /\ record' = record /\ default' = default
          /\ saved' = saved /\ outdated' = outdated /\ mixed' = mixed
      BY <2>10 DEF Register, files, marks
    <3>2. (cmd'[c].pc = "note" /\ cmd'[c].id = made') \/ cmd'[c].pc = "idle"
      <4>1. CASE ok
        <5>1. cmd'[c] = [cmd[c] EXCEPT !.pc = "note", !.id = made']
          BY <1>0, <2>10, <4>1 DEF Register
        <5> QED
          BY <1>0, <5>1 DEF Processes
      <4>2. CASE ~ok
        BY <1>0, <2>10, <4>2 DEF Register, Exit, Idle
      <4> QED
        BY <4>1, <4>2
    <3>3. Knows(c)' /\ \A b \in Command \ {c} : Knows(b)'
      BY <1>a, <2>2, <3>1, <3>2 DEF Knows
    <3>4. Recording'
      BY <1>b, <2>2, <3>2, <3>3 DEF Recording
    <3> QED
      BY <3>1, <3>4 DEF Certificates, RecordedIsServed, CopyRecorded
  <2>11. ASSUME UpdateCertificate(c) PROVE Certificates'
    <3>1. cmd[c].pc = "register" /\ cmd[c].id # 0 /\ Fixed
      BY <1>0, <2>11 DEF UpdateCertificate, files, server, marks
    <3>2. cmd'[c] = [cmd[c] EXCEPT !.pc = "select"]
      BY <1>0, <2>11 DEF UpdateCertificate, Goto
    <3>3. cmd'[c].pc = "select" /\ cmd'[c].id = cmd[c].id
      BY <1>0, <3>2 DEF Processes
    <3>4. record = {cmd[c].id}
      BY <3>1 DEF Certificates, Recording, OneFills, Knows
    <3>5. Knows(c)' /\ \A b \in Command \ {c} : Knows(b)'
      BY <1>a, <2>2, <3>1, <3>3, <3>4 DEF Knows
    <3>6. Recording'
      BY <1>b, <2>2, <3>3, <3>5 DEF Recording
    <3> QED
      BY <3>1, <3>6 DEF Certificates, RecordedIsServed, CopyRecorded
  <2>12. ASSUME CreateRecord(c) PROVE Certificates'
    <3>1. /\ record = {} /\ record' = {0} /\ cmd[c].pc = "note"
          /\ UNCHANGED <<certs, default, saved, outdated, mixed>>
      BY <2>12 DEF CreateRecord, server, marks
    <3>2. cmd'[c] = [cmd[c] EXCEPT !.pc = "fill"]
      BY <1>0, <2>12 DEF CreateRecord, Goto
    <3>3. cmd'[c].pc = "fill" /\ cmd'[c].id = cmd[c].id
      BY <1>0, <3>2 DEF Processes
    <3>4. (mixed \/ default = 0) /\ cmd[c].id \in certs
      BY <3>1 DEF Certificates, RecordedIsServed, Recording, OneFills, Knows
    <3>5. ASSUME NEW b \in Command \ {c} PROVE Knows(b)' /\ cmd'[b].pc # "fill"
      BY <2>1, <3>1 DEF Same, Certificates, Recording, Knows
    <3>6. RecordedIsServed' /\ CopyRecorded'
      BY <3>1, <3>4 DEF Certificates, RecordedIsServed, CopyRecorded
    <3>7. Recording'
      <4>1. Knows(c)'
        BY <3>1, <3>3, <3>4 DEF Knows
      <4> QED
        BY <3>5, <4>1 DEF Recording, OneFills
    <3> QED
      BY <3>6, <3>7 DEF Certificates
  <2>13. ASSUME FillRecord(c) PROVE Certificates'
    <3>1. /\ record' = {cmd[c].id} /\ cmd[c].pc = "fill"
          /\ UNCHANGED <<certs, default, saved, outdated, mixed>>
      BY <2>13 DEF FillRecord, server, marks
    <3>2. cmd'[c] = [cmd[c] EXCEPT !.pc = "select"]
      BY <1>0, <2>13 DEF FillRecord, Goto
    <3>3. cmd'[c].pc = "select" /\ cmd'[c].id = cmd[c].id
      BY <1>0, <3>2 DEF Processes
    <3>4. record = {0} /\ cmd[c].id \in certs /\ (mixed \/ default = 0)
      BY <3>1 DEF Certificates, RecordedIsServed, Recording, OneFills, Knows
    <3>5. ASSUME NEW b \in Command \ {c} PROVE Knows(b)' /\ cmd'[b].pc # "fill"
      <4>1. Knows(b) /\ cmd[b].pc # "fill"
        BY <3>1 DEF Certificates, Recording, OneFills
      <4> QED
        BY <1>0, <2>1, <3>1, <3>4, <4>1 DEF Same, Knows
    <3>6. RecordedIsServed' /\ CopyRecorded'
      BY <3>1, <3>4 DEF Certificates, RecordedIsServed, CopyRecorded
    <3>7. Recording'
      <4>1. Knows(c)'
        BY <1>0, <3>1, <3>3, <3>4 DEF Knows
      <4> QED
        BY <3>3, <3>5, <4>1 DEF Recording, OneFills
    <3> QED
      BY <3>6, <3>7 DEF Certificates
  <2>14. ASSUME Select(c) PROVE Certificates'
    <3>1. /\ default' = cmd[c].id /\ cmd[c].pc = "select" /\ cmd'[c] = Idle
          /\ UNCHANGED <<certs, record, saved, outdated, mixed>>
      BY <1>0, <2>14 DEF Select, Exit, files, marks
    <3>2. record = {cmd[c].id}
      BY <3>1 DEF Certificates, Recording, OneFills, Knows
    <3>3. \A b \in Command : Knows(b)'
      BY <1>a, <2>2, <2>4, <3>1
    <3>4. Recording'
      BY <1>b, <2>2, <2>4, <3>1, <3>3 DEF Recording
    <3>5. RecordedIsServed' /\ CopyRecorded'
      BY <3>1, <3>2 DEF Certificates, RecordedIsServed, CopyRecorded
    <3> QED
      BY <3>4, <3>5 DEF Certificates
  <2> QED
    BY <1>3, <2>6, <2>7, <2>8, <2>9, <2>10, <2>11, <2>12, <2>13, <2>14 DEF Proceed
<1>4. ASSUME NEW i \in Installation, Bootstrap(i) \/ SaveSetting(i) \/ SetupFails(i)
      PROVE  Certificates'
  BY <1>1, <1>4 DEF Bootstrap, SaveSetting, SetupFails, files, server, marks
<1>5. CASE Backup
  <2>1. /\ cmd' = cmd /\ UNCHANGED <<record, certs, default, outdated, mixed>>
        /\ saved' = {[env |-> env, secrets |-> secrets, record |-> record, certs |-> certs,
                      default |-> default, core |-> core, setting |-> setting, mixed |-> mixed]}
    BY <1>5 DEF Backup, files, server, marks
  <2>2. CopyRecorded'
    BY <2>1 DEF CopyRecorded, Certificates, RecordedIsServed
  <2> QED
    BY <2>1, <2>2 DEF Certificates, RecordedIsServed, Recording, OneFills, Knows
<1>6. ASSUME Restores \/ RestoreHalts PROVE Certificates'
  <2>1. cmd' = cmd /\ saved' = saved /\ Busy = {}
    BY <1>6, RestoreLeaves
  <2>2. Recording' /\ CopyRecorded'
    BY <2>1 DEF Certificates, Recording, OneFills, Knows, CopyRecorded, Busy
  <2>3. ASSUME NEW ok \in BOOLEAN, Restore(ok) PROVE RecordedIsServed'
    <3>1. PICK s \in saved : /\ record' = LaidRecord(s) /\ default' = s.default
                             /\ mixed' = s.mixed
      BY <2>3 DEF Restore
    <3>2. outdated' = ~(record' \subseteq certs' \union {0})
      BY <2>3 DEF Restore
    <3>3. mixed' \/ (default' # 0 => record' = {default'})
      BY <3>1 DEF Certificates, CopyRecorded, LaidRecord
    <3> QED
      BY <3>2, <3>3 DEF RecordedIsServed
  <2>4. ASSUME RestoreVolumesEnds \/ RestoreFilesEnds PROVE RecordedIsServed'
    BY <2>4 DEF RestoreVolumesEnds, RestoreFilesEnds, Unfinished, RecordedIsServed
  <2>5. ASSUME RestoreHalts PROVE RecordedIsServed'
    BY <2>5 DEF RestoreHalts, Certificates, RecordedIsServed
  <2> QED
    BY <1>6, <2>2, <2>3, <2>4, <2>5 DEF Restores, Certificates
<1>7. CASE UNCHANGED vars
  BY <1>1, <1>7 DEF vars, files, server, marks
<1> QED
  BY <1>2, <1>3, <1>4, <1>5, <1>6, <1>7, NextCases

-----------------------------------------------------------------------------
(* The files. *)

Whole == \A s \in Secret : secrets[s] = "whole"

\* Before .env is made nothing was kept or edited.
NoneYet ==
  env = {} => /\ saved = {} /\ ~installed
              /\ \A c \in Command : cmd[c].pc \notin {"open", "write", "rename"}

\* Where there is an .env there are all the secrets, and a copy has them all, but
\* for restores that are not finished.
SecretsKept ==
  /\ env # {} => mixed \/ Whole
  /\ \A s \in saved : s.mixed \/ \A x \in Secret : s.secrets[x] = "whole"
  /\ \A c \in Command : cmd[c].pc = "secrets" =>
       mixed \/ \A x \in Secret \ cmd[c].todo : secrets[x] = "whole"

LEMMA SecretsKeptStep ==
  TypeOK /\ Shape /\ NoneYet /\ SecretsKept /\ [Next]_vars => SecretsKept'
<1> SUFFICES ASSUME TypeOK, Shape, NoneYet, SecretsKept, [Next]_vars PROVE SecretsKept'
  OBVIOUS
<1>0. cmd \in [Command -> Processes] /\ Idle.pc = "idle"
  BY DEF TypeOK, Idle
<1> DEFINE Lasts == \A x \in Secret : secrets[x] = "whole" => secrets'[x] = "whole"
<1> DEFINE Made(b) == cmd'[b].pc = "secrets" =>
                        mixed \/ \A x \in Secret \ cmd'[b].todo : secrets'[x] = "whole"
<1>a. ASSUME Lasts, UNCHANGED <<saved, mixed>>, env' # {} => env # {} \/ mixed \/ Whole,
             \A b \in Command : Made(b)
      PROVE  SecretsKept'
  <2>1. Whole => Whole'
    BY <1>a DEF Whole
  <2> QED
    BY <1>a, <2>1 DEF SecretsKept
<1>b. ASSUME NEW b \in Command, Lasts,
             cmd'[b].pc # "secrets" \/ (cmd'[b].pc = cmd[b].pc /\ cmd'[b].todo = cmd[b].todo)
      PROVE  Made(b)
  BY <1>b DEF SecretsKept
<1>1. ASSUME NEW c \in Command, NEW kind \in Kinds, Start(c, kind) PROVE SecretsKept'
  <2>1. Lasts /\ UNCHANGED <<env, saved, mixed>>
    BY <1>1 DEF Start, files
  <2>2. ASSUME NEW b \in Command PROVE Made(b)
    <3>1. CASE b = c
      <4>1. cmd'[c].pc = "secrets" => cmd'[c].todo = Secret
        BY <1>1 DEF Start, Idle, TypeOK, Kinds
      <4> QED
        BY <3>1, <4>1
    <3>2. CASE b # c
      <4>1. cmd'[b].pc = cmd[b].pc /\ cmd'[b].todo = cmd[b].todo
        BY <1>0, <1>1, <3>2 DEF Start, Processes
      <4> QED
        BY <1>b, <2>1, <4>1
    <3> QED
      BY <3>1, <3>2
  <2> QED
    BY <1>a, <2>1, <2>2
<1>2. ASSUME NEW c \in Command, Proceed(c) PROVE SecretsKept'
  <2>1. \A b \in Command \ {c} : Same(b)
    BY <1>2, Others
  <2>2. ASSUME Lasts, Made(c) PROVE \A b \in Command : Made(b)
    BY <1>b, <2>1, <2>2 DEF Same
  <2>3. saved' = saved /\ mixed' = mixed
    BY <1>2 DEF Proceed, Stops, WriteSecret, TearSecret, CreateEnv, ReadEnv, OpenTmp, Write, Rename,
       ReadByCompose, Recreate, Register, ReadCredential, ReadRecord, UpdateCertificate,
       CreateRecord, FillRecord, Select, marks
  <2>4. ASSUME NEW x \in Secret, WriteSecret(c, x) PROVE SecretsKept'
    <3>1. cmd'[c] = [cmd[c] EXCEPT !.todo = @ \ {x}] /\ cmd[c].pc = "secrets"
      BY <1>0, <2>4 DEF WriteSecret
    <3>2. cmd'[c].todo = cmd[c].todo \ {x}
      BY <1>0, <3>1 DEF Processes
    <3>3. secrets' = [secrets EXCEPT ![x] = "whole"] /\ secrets \in [Secret -> States]
      BY <2>4 DEF WriteSecret, TypeOK
    <3>4. Lasts /\ secrets'[x] = "whole"
      BY <3>3
    <3>5. Made(c)
      BY <3>1, <3>2, <3>4 DEF SecretsKept
    <3>6. env' = env
      BY <2>4 DEF WriteSecret
    <3> QED
      BY <1>a, <2>2, <2>3, <3>4, <3>5, <3>6
  <2>5. ASSUME NEW x \in Secret, TearSecret(c, x) PROVE SecretsKept'
    <3>1. cmd'[c].pc = "idle" /\ env' = env
      BY <1>0, <2>5 DEF TearSecret, Exit
    <3>2. Lasts
      BY <2>5 DEF TearSecret, TypeOK
    <3> QED
      BY <1>a, <2>2, <2>3, <3>1, <3>2
  <2>6. ASSUME NEW k \in Credential, CreateEnv(c, k) PROVE SecretsKept'
    <3>1. mixed \/ Whole
      BY <2>6 DEF CreateEnv, SecretsKept, Whole
    <3>2. cmd'[c] = [cmd[c] EXCEPT !.pc = "write", !.at = "env",
                                   !.text = [full |-> TRUE, cred |-> k]]
      BY <1>0, <2>6 DEF CreateEnv
    <3>3. cmd'[c].pc = "write" /\ Lasts
      BY <1>0, <2>6, <3>2 DEF CreateEnv, Processes
    <3> QED
      BY <1>a, <2>2, <2>3, <3>1, <3>3
  <2>7. ASSUME ~\E x \in Secret : WriteSecret(c, x) \/ TearSecret(c, x),
               ~\E k \in Credential : CreateEnv(c, k)
        PROVE  SecretsKept'
    <3>1. secrets' = secrets
      BY <1>2, <2>7 DEF Proceed, Stops, ReadEnv, OpenTmp, Write, Rename, ReadByCompose, Recreate,
         Register, ReadCredential, ReadRecord, UpdateCertificate, CreateRecord, FillRecord, Select,
         files
    <3>2. env' = env \/ cmd[c].pc \in {"write", "rename"}
      BY <1>2, <2>7 DEF Proceed, Stops, ReadEnv, OpenTmp, Write, Rename, ReadByCompose, Recreate,
         Register, ReadCredential, ReadRecord, UpdateCertificate, CreateRecord, FillRecord, Select,
         files
    <3>3. env' # {} => env # {}
      BY <3>2 DEF NoneYet
    <3>4. cmd'[c].pc # "secrets"
      <4>1. cmd[c].pc = "secrets" => Stops(c)
        BY <1>2, <2>7 DEF Proceed, ReadEnv, OpenTmp, Write, Rename, ReadByCompose, Recreate,
           Register, ReadCredential, ReadRecord, UpdateCertificate, CreateRecord, FillRecord, Select
      <4>2. cmd'[c] = Idle \/ Onwards(c)
        BY <1>2, Onward
      <4>3. Stops(c) => cmd'[c] = Idle
        BY <1>0 DEF Stops, Exit
      <4> QED
        BY <1>0, <4>1, <4>2, <4>3 DEF Onwards, Leads
    <3> QED
      BY <1>a, <2>2, <2>3, <3>1, <3>3, <3>4
  <2> QED
    BY <2>4, <2>5, <2>6, <2>7
<1>3. ASSUME NEW i \in Installation, Bootstrap(i) \/ SaveSetting(i) \/ SetupFails(i)
      PROVE  SecretsKept'
  BY <1>3 DEF Bootstrap, SaveSetting, SetupFails, files, marks, SecretsKept, Whole
<1>4. CASE Backup
  <2>1. cmd' = cmd /\ UNCHANGED <<env, secrets, mixed>> /\ env # {}
    BY <1>4 DEF Backup, files, marks
  <2>2. \A s \in saved' : s.secrets = secrets /\ s.mixed = mixed
    BY <1>4 DEF Backup
  <2>3. mixed \/ Whole
    BY <2>1 DEF SecretsKept
  <2> QED
    BY <2>1, <2>2, <2>3 DEF SecretsKept, Whole
<1>5. ASSUME Restores \/ RestoreHalts PROVE SecretsKept'
  <2>1. saved' = saved /\ \A b \in Command : cmd'[b].pc = "idle"
    BY <1>5, RestoreLeaves DEF Busy
  <2>2. ASSUME NEW ok \in BOOLEAN, Restore(ok) PROVE mixed' \/ Whole'
    <3>1. PICK s \in saved : secrets' = LaidSecrets(s) /\ mixed' = s.mixed
      BY <2>2 DEF Restore
    <3>2. s.mixed \/ \A x \in Secret : s.secrets[x] = "whole"
      BY DEF SecretsKept
    <3> QED
      BY <3>1, <3>2 DEF LaidSecrets, Whole
  <2>3. ASSUME RestoreVolumesEnds \/ RestoreFilesEnds PROVE mixed'
    BY <2>3 DEF RestoreVolumesEnds, RestoreFilesEnds, Unfinished
  <2>4. ASSUME RestoreHalts PROVE env' # {} => mixed' \/ Whole'
    BY <2>4 DEF RestoreHalts, SecretsKept, Whole
  <2> QED
    BY <1>5, <2>1, <2>2, <2>3, <2>4 DEF Restores, SecretsKept
<1>6. CASE UNCHANGED vars
  BY <1>6 DEF vars, files, marks, SecretsKept, Whole
<1> QED
  BY <1>1, <1>2, <1>3, <1>4, <1>5, <1>6, NextCases

-----------------------------------------------------------------------------
(* .env, while no two commands were at one file at once. *)

Making(c) == cmd[c].pc = "write" /\ cmd[c].kind = "init"

\* init writes its .env, and nobody edits it before it is complete.
Maker(c) ==
  Making(c) => /\ cmd[c].text.full /\ cmd[c].at = "env"
               /\ env = {Torn} /\ saved = {} /\ ~installed
               /\ \A b \in Command \ {c} : cmd[b].pc \notin {"open", "write", "rename"}

\* What has all the lines is of a complete installation, which has them all but
\* for a restore that is not finished.
Complete(full, m) == (full => installed) /\ (installed => m \/ full)

\* What a command edits is as complete as .env is, and it is in .env.tmp.
Editor(c) ==
  cmd[c].pc \in {"open", "write", "rename"} /\ cmd[c].kind # "init" =>
    /\ Complete(cmd[c].text.full, mixed)
    /\ cmd[c].pc # "open" => cmd[c].at = "tmp"
    /\ cmd[c].pc = "rename" => tmp = {cmd[c].text}

OneTmp == \A b, c \in Command : cmd[b].at = "tmp" /\ cmd[c].at = "tmp" => b = c

AsFull(S, m) == \A e \in S : Complete(e.full, m)

AllAsFull == AsFull(env, mixed) /\ \A s \in saved : AsFull(s.env, s.mixed)

Files ==
  ~crossed =>
    /\ \A c \in Command : Maker(c) /\ Editor(c)
    /\ OneTmp
    /\ AllAsFull

EnvWhole == NoneYet /\ Files

LEMMA EnvWholeStep == TypeOK /\ Shape /\ Copied /\ EnvWhole /\ [Next]_vars => EnvWhole'
<1> SUFFICES ASSUME TypeOK, Shape, Copied, EnvWhole, [Next]_vars PROVE EnvWhole'
  OBVIOUS
<1>0. cmd \in [Command -> Processes] /\ ~Torn.full /\ Idle.pc = "idle" /\ Idle.at = "none"
  BY DEF TypeOK, Torn, Idle
<1> DEFINE Writing == {"open", "write", "rename"}
<1> DEFINE Steady(b) ==
             \/ cmd'[b].pc \notin Writing /\ cmd'[b].at = "none"
             \/ cmd'[b].pc = cmd[b].pc /\ cmd'[b].kind = cmd[b].kind /\ cmd'[b].text = cmd[b].text
                /\ cmd'[b].at = cmd[b].at
<1>a. ASSUME UNCHANGED <<env, tmp, installed, saved, crossed, mixed>>, \A b \in Command : Steady(b)
      PROVE  EnvWhole'
  <2>1. NoneYet'
    BY <1>a DEF EnvWhole, NoneYet
  <2>2. ASSUME ~crossed' PROVE /\ \A b \in Command : Maker(b)' /\ Editor(b)'
                               /\ OneTmp' /\ AllAsFull'
    <3>1. /\ \A b \in Command : Maker(b) /\ Editor(b)
          /\ OneTmp /\ AllAsFull
      BY <1>a, <2>2 DEF EnvWhole, Files
    <3>2. ASSUME NEW b \in Command PROVE Maker(b)'
      BY <1>a, <3>1 DEF Maker, Making
    <3>3. ASSUME NEW b \in Command PROVE Editor(b)'
      BY <1>a, <3>1 DEF Editor, Complete
    <3>4. OneTmp'
      BY <1>a, <3>1 DEF OneTmp
    <3> QED
      BY <1>a, <3>1, <3>2, <3>3, <3>4 DEF AllAsFull, AsFull, Complete
  <2> QED
    BY <2>1, <2>2 DEF EnvWhole, Files
<1>1. ASSUME NEW c \in Command, NEW kind \in Kinds, Start(c, kind) PROVE EnvWhole'
  <2>1. cmd'[c].pc \in {"secrets", "compose", "read"} /\ cmd'[c].at = "none"
    BY <1>1 DEF Start, Idle, TypeOK
  <2>2. ASSUME NEW b \in Command \ {c} PROVE Steady(b)
    BY <1>0, <1>1 DEF Start, Processes
  <2> QED
    BY <1>1, <1>a, <2>1, <2>2 DEF Start, files
<1>2. ASSUME NEW c \in Command, Proceed(c) PROVE EnvWhole'
  <2>1. \A b \in Command \ {c} : Same(b) /\ (~Rename(c) => cmd'[b].at = cmd[b].at)
    BY <1>2, Others
  <2>2. ~Rename(c) => \A b \in Command \ {c} : Steady(b)
    BY <2>1 DEF Same
  <2>3. cmd[c].at # "none" => cmd[c].pc \in {"write", "rename"}
    BY DEF Shape
  <2>4. ASSUME ~crossed
        PROVE  /\ \A b \in Command : Maker(b) /\ Editor(b)
               /\ OneTmp /\ AllAsFull
    BY <2>4 DEF EnvWhole, Files
  <2>5. ASSUME NEW s \in Secret, WriteSecret(c, s) PROVE EnvWhole'
    <3>1. cmd'[c] = [cmd[c] EXCEPT !.todo = @ \ {s}]
      BY <1>0, <2>5 DEF WriteSecret
    <3>2. Steady(c)
      BY <1>0, <3>1 DEF Processes
    <3>3. ~Rename(c) /\ UNCHANGED <<env, tmp, installed, saved, crossed, mixed>>
      BY <2>5 DEF WriteSecret, Rename, marks
    <3> QED
      BY <1>a, <2>2, <3>2, <3>3
  <2>6. ASSUME \/ Stops(c) \/ Select(c)
               \/ \E ok \in BOOLEAN : Recreate(c, ok)
               \/ \E s \in Secret : TearSecret(c, s)
        PROVE  EnvWhole'
    <3>1. cmd'[c] = Idle
      BY <1>0, <2>6 DEF Stops, Select, Recreate, TearSecret, Exit
    <3>2. UNCHANGED <<env, tmp, installed, saved, crossed, mixed>>
      BY <2>6 DEF Stops, Select, Recreate, TearSecret, files, marks
    <3>3. \A b \in Command \ {c} : Steady(b)
      BY <1>0, <2>6 DEF Stops, Select, Recreate, TearSecret, Exit
    <3> QED
      BY <1>0, <1>a, <3>1, <3>2, <3>3
  <2>7. ASSUME \/ ReadRecord(c) \/ UpdateCertificate(c) \/ CreateRecord(c) \/ FillRecord(c)
               \/ ReadByCompose(c) \/ ReadCredential(c)
               \/ \E ok \in BOOLEAN : Register(c, ok)
        PROVE  EnvWhole'
    <3>1. /\ UNCHANGED <<env, tmp, installed, saved, crossed, mixed>>
          /\ ~Rename(c) /\ cmd[c].pc \notin Writing
      BY <2>7 DEF ReadRecord, UpdateCertificate, CreateRecord, FillRecord, ReadByCompose,
         ReadCredential, Register, Rename, files, marks
    <3>2. \/ cmd'[c] = Idle
          \/ \E pc \in {"register", "note", "select", "fill", "recreate", "look"} :
               \/ cmd'[c] = [cmd[c] EXCEPT !.pc = pc]
               \/ \E id : cmd'[c] = [cmd[c] EXCEPT !.pc = pc, !.id = id]
               \/ \E text : cmd'[c] = [cmd[c] EXCEPT !.pc = pc, !.text = text]
      <4>1. CASE UpdateCertificate(c) \/ CreateRecord(c) \/ FillRecord(c)
        BY <1>0, <4>1 DEF UpdateCertificate, CreateRecord, FillRecord, Goto
      <4>2. CASE ReadRecord(c)
        BY <1>0, <4>2 DEF ReadRecord
      <4>3. ASSUME NEW ok \in BOOLEAN, Register(c, ok)
            PROVE  cmd'[c] = Idle \/ \E id : cmd'[c] = [cmd[c] EXCEPT !.pc = "note", !.id = id]
        BY <1>0, <4>3 DEF Register, Exit
      <4>4. CASE ReadByCompose(c)
        BY <1>0, <4>4 DEF ReadByCompose
      <4>5. CASE ReadCredential(c)
        BY <1>0, <4>5 DEF ReadCredential
      <4> QED
        BY <2>7, <4>1, <4>2, <4>3, <4>4, <4>5
    <3>3. cmd'[c].pc \notin Writing /\ cmd'[c].at = "none"
      BY <1>0, <2>3, <3>1, <3>2 DEF Processes
    <3> QED
      BY <1>a, <2>2, <3>1, <3>3
  <2>8. ASSUME NEW k \in Credential, CreateEnv(c, k) PROVE EnvWhole'
    <3>1. /\ env = {} /\ env' = {Torn} /\ cmd[c].pc = "secrets"
          /\ UNCHANGED <<tmp, installed, saved, crossed, mixed>>
      BY <2>8 DEF CreateEnv, marks
    <3>2. /\ saved = {} /\ ~installed
          /\ \A b \in Command : cmd[b].pc \notin Writing
      BY <3>1 DEF EnvWhole, NoneYet
    <3>3. cmd'[c] = [cmd[c] EXCEPT !.pc = "write", !.at = "env",
                                   !.text = [full |-> TRUE, cred |-> k]]
      BY <1>0, <2>8 DEF CreateEnv
    <3>4. cmd'[c].pc = "write" /\ cmd'[c].at = "env" /\ cmd'[c].text.full /\ cmd'[c].kind = cmd[c].kind
      BY <1>0, <3>3 DEF Processes
    <3>5. cmd[c].kind = "init"
      BY <3>1 DEF Shape
    <3>6. \A b \in Command \ {c} : cmd'[b].pc \notin Writing /\ cmd'[b].at # "tmp"
      BY <2>1, <2>8, <3>2 DEF Same, Shape, CreateEnv, Rename
    <3>7. Maker(c)' /\ Editor(c)'
      BY <3>1, <3>2, <3>4, <3>5, <3>6 DEF Maker, Making, Editor
    <3>8. \A b \in Command \ {c} : Maker(b)' /\ Editor(b)'
      BY <3>6 DEF Maker, Making, Editor
    <3>9. OneTmp'
      BY <3>4, <3>6 DEF OneTmp
    <3>10. AllAsFull'
      BY <1>0, <3>1, <3>2 DEF AllAsFull, AsFull, Complete
    <3>11. NoneYet'
      BY <3>1 DEF NoneYet
    <3> QED
      BY <3>7, <3>8, <3>9, <3>10, <3>11 DEF EnvWhole, Files
  <2>9. ASSUME NEW k \in Credential, ReadEnv(c, k) PROVE EnvWhole'
    <3>1. PICK e \in env :
            cmd' = [cmd EXCEPT ![c].pc = "open",
                      ![c].text = [e EXCEPT !.cred = IF cmd[c].kind = "harden" THEN None ELSE k]]
      BY <2>9 DEF ReadEnv
    <3>2. e \in Contents
      BY DEF TypeOK, AtMostOne
    <3>3. cmd'[c].pc = "open" /\ (cmd'[c].text.full <=> e.full) /\ cmd'[c].at = cmd[c].at
          /\ cmd'[c].kind = cmd[c].kind
      BY <1>0, <3>1, <3>2 DEF Processes, Contents
    <3>4. UNCHANGED <<env, tmp, installed, saved, mixed>> /\ cmd[c].kind # "init" /\ ~Rename(c)
          /\ cmd[c].pc = "read" /\ crossed' = (crossed \/ \E b \in Busy : cmd[b].at = "env")
      BY <2>9 DEF ReadEnv, files, Rename
    <3>5. cmd'[c].at = "none"
      BY <2>3, <3>3, <3>4
    <3>6. NoneYet'
      BY <3>1, <3>4 DEF NoneYet
    <3>7. ASSUME ~crossed' PROVE /\ \A b \in Command : Maker(b)' /\ Editor(b)'
                                 /\ OneTmp' /\ AllAsFull'
      <4>1. ~crossed /\ \A b \in Command : Making(b) => cmd[b].at # "env"
        BY <3>4, <3>7 DEF Making, Busy
      <4>2. \A b \in Command : ~Making(b)
        BY <2>4, <4>1 DEF Maker
      <4>3. Maker(c)' /\ Editor(c)'
        BY <2>4, <3>3, <3>4, <4>1 DEF Maker, Making, Editor, AllAsFull, AsFull, Complete
      <4>4. ASSUME NEW b \in Command \ {c} PROVE Maker(b)' /\ Editor(b)'
        <5>1. Maker(b)'
          BY <2>1, <4>2 DEF Same, Maker, Making
        <5>2. Editor(b)'
          BY <2>1, <2>4, <3>4, <4>1 DEF Same, Editor, Complete
        <5> QED
          BY <5>1, <5>2
      <4>5. OneTmp'
        BY <2>1, <2>4, <3>4, <3>5, <4>1 DEF OneTmp
      <4> QED
        BY <2>4, <3>4, <4>1, <4>3, <4>4, <4>5 DEF AllAsFull, AsFull, Complete
    <3> QED
      BY <3>6, <3>7 DEF EnvWhole, Files
  <2>10. ASSUME OpenTmp(c) PROVE EnvWhole'
    <3>1. cmd'[c] = [cmd[c] EXCEPT !.pc = "write", !.at = "tmp"]
      BY <1>0, <2>10 DEF OpenTmp
    <3>2. /\ cmd'[c].pc = "write" /\ cmd'[c].text = cmd[c].text /\ cmd'[c].kind = cmd[c].kind
          /\ cmd'[c].at = "tmp"
      BY <1>0, <3>1 DEF Processes
    <3>3. UNCHANGED <<env, installed, saved, mixed>> /\ cmd[c].pc = "open" /\ ~Rename(c)
          /\ crossed' = (crossed \/ \E b \in Busy \ {c} : cmd[b].at = "tmp")
      BY <2>10 DEF OpenTmp, Rename
    <3>4. env # {} /\ cmd[c].kind # "init"
      BY <3>3 DEF EnvWhole, NoneYet, Shape
    <3>5. NoneYet'
      BY <3>3, <3>4 DEF NoneYet
    <3>6. ASSUME ~crossed' PROVE /\ \A b \in Command : Maker(b)' /\ Editor(b)'
                                 /\ OneTmp' /\ AllAsFull'
      <4>1. ~crossed
        BY <3>3, <3>6
      <4>2. ASSUME NEW b \in Command \ {c} PROVE cmd'[b].at # "tmp" /\ Same(b)
        BY <2>1, <3>3, <3>6 DEF Busy, Shape
      <4>3. Maker(c)' /\ Editor(c)'
        BY <2>4, <3>2, <3>3, <3>4, <4>1 DEF Maker, Making, Editor, Complete
      <4>4. ASSUME NEW b \in Command \ {c} PROVE Maker(b)' /\ Editor(b)'
        <5>1. ~Making(b)
          BY <2>4, <3>3, <4>1 DEF Maker
        <5>2. Maker(b)'
          BY <4>2, <5>1 DEF Same, Maker, Making
        <5>3. cmd[b].at # "tmp"
          BY <2>1, <3>3, <4>2
        <5>4. Editor(b)'
          BY <2>4, <3>3, <4>1, <4>2, <5>3 DEF Same, Editor, Complete
        <5> QED
          BY <5>2, <5>4
      <4>5. OneTmp'
        BY <4>2 DEF OneTmp
      <4> QED
        BY <2>4, <3>3, <4>1, <4>3, <4>4, <4>5 DEF AllAsFull, AsFull, Complete
    <3> QED
      BY <3>5, <3>6 DEF EnvWhole, Files
  <2>11. ASSUME Write(c), cmd[c].kind = "init" PROVE EnvWhole'
    <3>1. cmd'[c] = Idle /\ cmd[c].pc = "write" /\ ~Rename(c) /\ UNCHANGED <<saved, crossed, mixed>>
      BY <1>0, <2>11 DEF Write, Exit, Rename
    <3>2. env' = IF cmd[c].at = "env" THEN {cmd[c].text} ELSE env
      BY <2>11 DEF Write
    <3>3. env # {}
      BY <3>1 DEF EnvWhole, NoneYet
    <3>4. NoneYet'
      BY <3>2, <3>3 DEF NoneYet
    <3>5. ASSUME ~crossed' PROVE /\ \A b \in Command : Maker(b)' /\ Editor(b)'
                                 /\ OneTmp' /\ AllAsFull'
      <4>1. /\ cmd[c].text.full /\ cmd[c].at = "env" /\ saved = {} /\ ~crossed
            /\ \A b \in Command \ {c} : cmd[b].pc \notin Writing
        BY <2>4, <2>11, <3>1, <3>5 DEF Maker, Making
      <4>2. env' = {cmd[c].text} /\ installed' = TRUE
        BY <2>11, <4>1 DEF Write
      <4>3. ASSUME NEW b \in Command PROVE cmd'[b].pc \notin Writing /\ cmd'[b].at # "tmp"
        BY <1>0, <2>1, <3>1, <4>1 DEF Same, Shape
      <4>4. (\A b \in Command : Maker(b)' /\ Editor(b)') /\ OneTmp'
        BY <4>3 DEF Maker, Making, Editor, OneTmp
      <4> QED
        BY <3>1, <4>1, <4>2, <4>4 DEF AllAsFull, AsFull, Complete
    <3> QED
      BY <3>4, <3>5 DEF EnvWhole, Files
  <2>12. ASSUME Write(c), cmd[c].kind # "init" PROVE EnvWhole'
    <3>1. cmd'[c] = [cmd[c] EXCEPT !.pc = "rename"]
      BY <1>0, <2>12 DEF Write, Goto
    <3>2. /\ cmd'[c].pc = "rename" /\ cmd'[c].text = cmd[c].text /\ cmd'[c].kind = cmd[c].kind
          /\ cmd'[c].at = cmd[c].at
      BY <1>0, <3>1 DEF Processes
    <3>3. cmd[c].pc = "write" /\ ~Rename(c) /\ UNCHANGED <<saved, crossed, mixed>>
          /\ env' = IF cmd[c].at = "env" THEN {cmd[c].text} ELSE env
      BY <2>12 DEF Write, Rename
    <3>4. env # {}
      BY <3>3 DEF EnvWhole, NoneYet
    <3>5. NoneYet'
      BY <3>3, <3>4 DEF NoneYet
    <3>6. ASSUME ~crossed' PROVE /\ \A b \in Command : Maker(b)' /\ Editor(b)'
                                 /\ OneTmp' /\ AllAsFull'
      <4>1. ~crossed /\ Complete(cmd[c].text.full, mixed) /\ cmd[c].at = "tmp"
        BY <2>4, <2>12, <3>3, <3>6 DEF Editor, Complete
      <4>2. env' = env /\ tmp' = {cmd[c].text}
        BY <2>12, <4>1 DEF Write
      <4>3. installed' = installed
        BY <2>12, <4>1 DEF Write, TypeOK
      <4>4. Maker(c)' /\ Editor(c)'
        BY <2>12, <3>2, <3>3, <4>1, <4>2, <4>3 DEF Maker, Making, Editor, Complete
      <4>5. ASSUME NEW b \in Command \ {c} PROVE Maker(b)' /\ Editor(b)'
        <5>1. ~Making(b) /\ cmd[b].at # "tmp"
          BY <2>4, <3>3, <4>1 DEF Maker, OneTmp
        <5>2. Maker(b)'
          BY <2>1, <5>1 DEF Same, Maker, Making
        <5>3. cmd'[b].at = cmd[b].at
          BY <2>1, <3>3
        <5>4. Editor(b)'
          BY <2>1, <2>4, <3>3, <4>1, <4>3, <5>1, <5>3 DEF Same, Editor, Complete
        <5> QED
          BY <5>2, <5>4
      <4>6. \A b \in Command : cmd'[b].at = cmd[b].at
        BY <2>1, <3>2, <3>3
      <4>7. OneTmp'
        BY <2>4, <4>1, <4>6 DEF OneTmp
      <4> QED
        BY <2>4, <3>3, <4>1, <4>2, <4>3, <4>4, <4>5, <4>7 DEF AllAsFull, AsFull, Complete
    <3> QED
      BY <3>5, <3>6 DEF EnvWhole, Files
  <2>13. ASSUME Rename(c) PROVE EnvWhole'
    <3>1. cmd'[c] = [cmd[c] EXCEPT !.pc = "compose", !.at = "none"]
      BY <1>0, <2>13 DEF Rename
    <3>2. cmd'[c].pc = "compose" /\ cmd'[c].at = "none"
      BY <1>0, <3>1 DEF Processes
    <3>3. /\ cmd[c].pc = "rename" /\ tmp # {} /\ env' = tmp /\ UNCHANGED <<saved, crossed, mixed>>
          /\ installed' = (installed \/ \E e \in tmp : e.full)
      BY <2>13 DEF Rename
    <3>4. cmd[c].kind # "init" /\ NoneYet'
      BY <3>3 DEF Shape, NoneYet
    <3>5. ASSUME ~crossed' PROVE /\ \A b \in Command : Maker(b)' /\ Editor(b)'
                                 /\ OneTmp' /\ AllAsFull'
      <4>1. /\ ~crossed /\ Complete(cmd[c].text.full, mixed) /\ cmd[c].at = "tmp"
            /\ tmp = {cmd[c].text}
        BY <2>4, <3>3, <3>4, <3>5 DEF Editor, Complete
      <4>2. installed' = installed
        BY <3>3, <4>1 DEF TypeOK, Complete
      <4>3. ASSUME NEW b \in Command \ {c} PROVE cmd[b].pc \notin {"write", "rename"}
        <5>1. ~Making(b) /\ cmd[b].at # "tmp"
          BY <2>4, <3>3, <4>1 DEF Maker, OneTmp
        <5>2. Editor(b)
          BY <2>4, <4>1
        <5> QED
          BY <5>1, <5>2 DEF Making, Editor, Shape
      <4>4. \A b \in Command \ {c} : cmd[b].at = "none"
        BY <4>3 DEF Shape
      <4>5. \A b \in Command \ {c} : cmd'[b].at = "none"
        BY <2>13, <4>4, Others, <1>2 DEF Moved
      <4>6. ASSUME NEW b \in Command \ {c} PROVE Maker(b)' /\ Editor(b)'
        <5>1. cmd'[b].pc \notin {"write", "rename"} /\ Maker(b)'
          BY <2>1, <4>3 DEF Same, Maker, Making
        <5>2. Editor(b)'
          BY <2>1, <2>4, <3>3, <4>1, <4>2, <5>1 DEF Same, Editor, Complete
        <5> QED
          BY <5>1, <5>2
      <4>7. Maker(c)' /\ Editor(c)' /\ OneTmp'
        BY <3>2, <4>5 DEF Maker, Making, Editor, OneTmp
      <4> QED
        BY <2>4, <3>3, <4>1, <4>2, <4>6, <4>7 DEF AllAsFull, AsFull, Complete
    <3> QED
      BY <3>4, <3>5 DEF EnvWhole, Files
  <2> QED
    BY <1>2, <2>5, <2>6, <2>7, <2>8, <2>9, <2>10, <2>11, <2>12, <2>13 DEF Proceed
<1>3. ASSUME NEW i \in Installation, Bootstrap(i) \/ SaveSetting(i) \/ SetupFails(i)
      PROVE  EnvWhole'
  BY <1>3, <1>a DEF Bootstrap, SaveSetting, SetupFails, files, marks
<1>4. ASSUME Backup \/ Restores \/ RestoreHalts PROVE EnvWhole'
  <2>1. cmd' = cmd /\ Busy = {} /\ UNCHANGED <<tmp, installed, crossed>>
    BY <1>4, RestoreLeaves DEF Backup, files, marks
  <2>2. \A b \in Command : cmd[b].pc = "idle"
    BY <2>1 DEF Busy
  <2>3. env # {} /\ (saved # {} => \A s \in saved : s.env # {})
    BY <1>4, RestoreLeaves DEF Backup, EnvWhole, NoneYet, Copied
  <2>4. \/ env' = env /\ (mixed' = mixed \/ mixed')
        \/ env' = {Torn} /\ mixed'
        \/ \E s \in saved : env' = s.env /\ (mixed' = s.mixed \/ mixed')
    BY <1>4 DEF Backup, Restores, Restore, RestoreHalts, RestoreVolumesEnds, RestoreFilesEnds,
       Unfinished, files, marks
  <2>5. \A s \in saved' : s \in saved \/ (s.env = env /\ s.mixed = mixed)
    BY <1>4, RestoreLeaves DEF Backup
  <2>6. NoneYet'
    BY <2>3, <2>4 DEF NoneYet
  <2>7. ASSUME ~crossed' PROVE /\ \A b \in Command : Maker(b)' /\ Editor(b)'
                               /\ OneTmp' /\ AllAsFull'
    <3>1. OneTmp /\ AsFull(env, mixed) /\ \A s \in saved : AsFull(s.env, s.mixed)
      BY <2>1, <2>7 DEF EnvWhole, Files, AllAsFull
    <3>2. \A b \in Command : Maker(b)' /\ Editor(b)'
      BY <2>1, <2>2 DEF Maker, Making, Editor
    <3>3. OneTmp'
      BY <2>1, <3>1 DEF OneTmp
    <3>4. AsFull(env, mixed)'
      BY <1>0, <2>1, <2>4, <3>1 DEF AsFull, Complete
    <3>5. \A s \in saved' : AsFull(s.env, s.mixed)'
      BY <2>1, <2>5, <3>1 DEF AsFull, Complete
    <3> QED
      BY <3>2, <3>3, <3>4, <3>5 DEF AllAsFull
  <2> QED
    BY <2>6, <2>7 DEF EnvWhole, Files
<1>5. CASE UNCHANGED vars
  BY <1>5, <1>a DEF vars, files, marks
<1> QED
  BY <1>1, <1>2, <1>3, <1>4, <1>5, NextCases

-----------------------------------------------------------------------------
(* The theorems. *)

IInv == /\ TypeOK /\ Alone /\ Shape /\ Copied
        /\ Hardening /\ Hardened /\ Certificates /\ SecretsKept /\ EnvWhole

LEMMA Invariance == Spec => []IInv
<1>1. Init => IInv
  <2> SUFFICES ASSUME Init PROVE IInv
    OBVIOUS
  <2>1. Hardening /\ Hardened
    BY DEF Init, Idle, Hardening, Hardened
  <2>2. Certificates
    BY DEF Init, Idle, Certificates, RecordedIsServed, Recording, OneFills, Knows, CopyRecorded
  <2>3. SecretsKept
    BY DEF Init, Idle, SecretsKept
  <2>4. EnvWhole
    BY DEF Init, Idle, EnvWhole, NoneYet, Files, Maker, Making, Editor, OneTmp, AllAsFull, AsFull, Complete
  <2> QED
    BY <2>1, <2>2, <2>3, <2>4, InitType DEF IInv
<1>2. IInv /\ [Next]_vars => IInv'
  BY TypeStep, ShapeStep, CopiedStep, HardeningStep, HardenedStep, CertificatesStep, SecretsKeptStep,
     EnvWholeStep DEF IInv, EnvWhole
<1> QED
  BY <1>1, <1>2, PTL DEF Spec

\* Every variable keeps its type: .env, .env.tmp and the record stay at most one
\* file each, and the mail server serves a certificate that it has.
THEOREM TypeCorrect == Spec => []TypeOK
<1>1. IInv => TypeOK
  BY DEF IInv
<1> QED
  BY <1>1, Invariance, PTL

\* After a harden that met no other command no recovery credential comes back,
\* by whatever is run, stopped or started, a restore that fails or is killed too,
\* but by reset-password or the copy that a restore lays over the files.
THEOREM HardenedStays == Spec => []StaysHardened
<1>1. IInv => StaysHardened
  BY DEF IInv, Hardened, StaysHardened, NoCredential
<1> QED
  BY <1>1, Invariance, PTL

\* And from then on neither a setup request nor configure-tls, begun before it or
\* after it, changes the mail server or the settings.
THEOREM ClosedHardened == Spec => ClosedOnceHardened
<1>1. IInv /\ [Next]_vars
        => [hardened /\ hardened' => UNCHANGED <<server, setting>> \/ Restores]_vars
  <2> SUFFICES ASSUME IInv, [Next]_vars, hardened, ~Restores, vars' # vars
               PROVE  UNCHANGED <<server, setting>>
    OBVIOUS
  <2>1. (\A k \in Container : armed[k] = None) /\ accepted = {}
    BY DEF IInv, Hardened
  <2>2. \A k \in Creds : ~Authorized(k)
    BY <2>1 DEF Authorized, Container
  <2>3. \A c \in Command : cmd[c].text.cred \in Creds
    BY DEF IInv, TypeOK, Processes, Contents
  <2>4. armed["meovv"] \in Creds
    BY <2>1, Zero DEF Container
  <2>5. ASSUME NEW c \in Command, NEW kind \in Kinds, Start(c, kind)
        PROVE  UNCHANGED <<server, setting>>
    BY <2>5 DEF Start, setup
  <2>6. ASSUME NEW c \in Command, Proceed(c) PROVE UNCHANGED <<server, setting>>
    <3>1. ~Select(c) /\ \A ok \in BOOLEAN : ~Register(c, ok)
      BY <2>2, <2>3 DEF Select, Register
    <3> QED
      BY <2>6, <3>1 DEF Proceed, Stops, WriteSecret, TearSecret, CreateEnv, ReadEnv, OpenTmp,
         Write, Rename, ReadByCompose, Recreate, ReadCredential, ReadRecord, UpdateCertificate,
         CreateRecord, FillRecord, setup
  <2>7. ASSUME NEW i \in Installation, Bootstrap(i) \/ SaveSetting(i) \/ SetupFails(i)
        PROVE  UNCHANGED <<server, setting>>
    BY <2>1, <2>2, <2>4, <2>7 DEF Bootstrap, SaveSetting, SetupFails
  <2>8. CASE Backup
    BY <2>8 DEF Backup
  <2>9. CASE RestoreHalts
    BY <2>9 DEF RestoreHalts, BeginRestore, server
  <2> QED
    BY <2>5, <2>6, <2>7, <2>8, <2>9, NextCases
<1> QED
  BY <1>1, Invariance, PTL DEF Spec, ClosedOnceHardened

\* However many configure-tls overlap or are stopped: the certificate that is
\* served is the recorded one, and the recorded one is there to be renewed, but
\* while the last restore is one that was not finished.
THEOREM CertificateRecorded == Spec => []RecordedIsServed
<1>1. IInv => RecordedIsServed
  BY DEF IInv, Certificates
<1> QED
  BY <1>1, Invariance, PTL

\* Once .env was complete every secret is there, and .env stays complete through
\* every step and every stop of commands that do not meet at one file, but while
\* the last restore is one that was not finished.
THEOREM InstallationWhole == Spec => []InstallationIsWhole
<1>1. IInv => InstallationIsWhole
  <2> SUFFICES ASSUME IInv, installed, ~mixed PROVE InstallationIsWhole
    BY DEF InstallationIsWhole
  <2>1. env # {}
    BY DEF IInv, EnvWhole, NoneYet
  <2>2. \A s \in Secret : secrets[s] = "whole"
    BY <2>1 DEF IInv, SecretsKept, Whole
  <2>3. ~crossed => \A e \in env : e.full
    BY DEF IInv, EnvWhole, Files, AllAsFull, AsFull, Complete
  <2> QED
    BY <2>1, <2>2, <2>3 DEF InstallationIsWhole
<1> QED
  BY <1>1, Invariance, PTL
=============================================================================
