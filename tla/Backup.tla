------------------------------- MODULE Backup -------------------------------
(***************************************************************************)
(* The commands of mailctl that copy and replace the appliance's data:     *)
(* backup, restore, upgrade, and what only changes the configuration and   *)
(* has containers started again (harden, reset-password, configure-tls and *)
(* the certificate hook).  Nothing keeps two of them from running at once, *)
(* every step of them can fail, and each can be killed between any two.    *)
(*                                                                         *)
(* The content of a part of the data, and of a file with a copy of it, is  *)
(* the number of the write that made it; 0 stands for something torn: half *)
(* a directory, half a file, or none.  Extra, which need not exist, is 0   *)
(* also when it is not there.                                              *)
(***************************************************************************)
EXTENDS Naturals, FiniteSets

CONSTANTS
  Volume,     \* the appliance's named volumes
  Writer,     \* the containers that write to them
  Owner,      \* Owner[v]: the container that writes to volume v
  Dir,        \* backup directories: named by the second they are made in
  Command,    \* mailctl processes
  MaxWrites   \* bound on the writes to the data

Configuration == "configuration"    \* .env, compose.yaml, secrets/ as it was set up
Extra == "extra"                    \* what came into secrets/ later: tls/, certificate_id
Part == Volume \union {Configuration, Extra}

ASSUME ConstantsAssumption ==
  /\ Configuration \notin Volume /\ Extra \notin Volume
  /\ Owner \in [Volume -> Writer]
  /\ Volume # {} /\ Dir # {}
  /\ MaxWrites \in Nat \ {0}

VARIABLES
  running,    \* the containers that run
  data,       \* the parts of the data
  writes,     \* the number of the last write
  files,      \* the archives in each directory
  sealed,     \* directories whose configuration.tgz was made
  manifest,   \* directories that have a manifest
  digest,     \* the checksums in it
  cmd,        \* the mailctl processes
  harmed,     \* history: a container was left stopped by a kill or by docker
  whole,      \* history: no part of the data was replaced without the others
  good        \* history: copies made alone, of whole data

vars == <<running, data, writes, files, sealed, manifest, digest, cmd, harmed, whole,
          good>>

Content == 0 .. MaxWrites
Vectors == [Part -> Content]
Kinds   == {"backup", "restore", "upgrade", "recreate"}
Steps   == {"idle", "preflight", "stop", "copy", "manifest", "up", "pull",
            "swap", "start", "edit", "renew"}

\* todo: parts not copied or replaced yet; ok: no step has failed so far;
\* alone: history, no other command has run since this one began.
Processes == [pc : Steps, kind : Kinds, d : Dir, todo : SUBSET Part, ok : BOOLEAN,
              alone : BOOLEAN]

NoDir == CHOOSE d \in Dir : TRUE
Idle  == [pc |-> "idle", kind |-> "backup", d |-> NoDir, todo |-> {}, ok |-> TRUE, alone |-> TRUE]

TypeOK ==
  /\ running \subseteq Writer
  /\ data \in Vectors
  /\ writes \in Content
  /\ files \in [Dir -> Vectors] /\ digest \in [Dir -> Vectors]
  /\ sealed \subseteq Dir /\ manifest \subseteq sealed /\ good \subseteq manifest
  /\ cmd \in [Command -> Processes]
  /\ harmed \in BOOLEAN /\ whole \in BOOLEAN

Init ==
  /\ running = Writer
  /\ data = [p \in Part |-> IF p = Extra THEN 0 ELSE 1] /\ writes = 1
  /\ files = [d \in Dir |-> [p \in Part |-> 0]] /\ digest = files
  /\ sealed = {} /\ manifest = {} /\ good = {}
  /\ cmd = [c \in Command |-> Idle]
  /\ harmed = FALSE /\ whole = TRUE

copies    == <<files, sealed, manifest, digest>>
appliance == <<running, data, writes>>

Busy == {c \in Command : cmd[c].pc # "idle"}
Goto(c, pc) == cmd' = [cmd EXCEPT ![c].pc = pc]
Exit(c)     == cmd' = [cmd EXCEPT ![c] = Idle]
Fail(c, pc) == cmd' = [cmd EXCEPT ![c].pc = pc, ![c].ok = FALSE]

-----------------------------------------------------------------------------
(* External: the containers and the operator change the data. *)

Change(P) ==
  /\ writes < MaxWrites
  /\ writes' = writes + 1
  /\ data' = [p \in Part |-> IF p \in P THEN writes + 1 ELSE data[p]]

\* A mail, an account, a status: it may be in several volumes at once.
Write ==
  /\ \E P \in SUBSET {v \in Volume : Owner[v] \in running} : P # {} /\ Change(P)
  /\ UNCHANGED <<running, copies, cmd, harmed, whole, good>>

\* The operator's own edits; what restarts a container as well is a command.
EditConfiguration ==
  /\ \E p \in {Configuration, Extra} : Change({p})
  /\ UNCHANGED <<running, copies, cmd, harmed, whole, good>>

-----------------------------------------------------------------------------
(* docker compose stop, up and restart. *)

\* Mistaken: only one of the containers is stopped.
StopOneWriter(ok) ==
  /\ running' \in {running \ {w} : w \in Writer}
  /\ harmed' = (harmed \/ (~ok /\ running' # running))

\* Both containers stop, or docker fails with any of them stopped.
StopWriters(ok) ==
  /\ IF ok THEN running' = {} ELSE running' \in SUBSET running
  /\ harmed' = (harmed \/ (~ok /\ running' # running))

\* The containers of T run afterwards.  up and restart stop what they replace,
\* and can fail half way.
StartWriters(T, ok) ==
  /\ IF ok THEN running' = running \union T
     ELSE running' \in {W \in SUBSET (running \union T) : running \ T \subseteq W}
  /\ harmed' = (running' # Writer /\ (harmed \/ ~ok))

-----------------------------------------------------------------------------
(* A command starts. *)

\* Another command that runs, now or later, and this one are not alone.
Start(c, kind, d, pc, todo) ==
  /\ cmd[c].pc = "idle"
  /\ cmd' = [b \in Command |->
               IF b = c THEN [pc |-> pc, kind |-> kind, d |-> d, todo |-> todo, ok |-> TRUE,
                              alone |-> Busy = {}]
               ELSE IF b \in Busy THEN [cmd[b] EXCEPT !.alone = FALSE] ELSE cmd[b]]

\* The name of the directory is the present second: nothing was completed in it
\* before, unless by a command that was started in the same second.
BeginBackup(c, kind, d) ==
  /\ kind \in {"backup", "upgrade"}
  /\ \/ d \notin sealed
     \/ \E b \in Busy : cmd[b].kind \in {"backup", "upgrade"} /\ cmd[b].d = d
  /\ Start(c, kind, d, IF kind = "upgrade" THEN "preflight" ELSE "stop", Volume)
  /\ UNCHANGED <<appliance, copies, harmed, whole, good>>

\* Mistaken: only the manifest is read.
ManifestRead(d) == d \in manifest

\* The manifest and every checksum in it are verified before anything else.
Verified(d) == d \in manifest /\ files[d] = digest[d]

BeginRestore(c, d) ==
  /\ Verified(d)
  /\ Start(c, "restore", d, "stop", Volume)
  /\ UNCHANGED <<appliance, copies, harmed, whole, good>>

\* harden and reset-password: setEnv, then up --force-recreate.  configure-tls and
\* the certificate hook: the files under secrets/, then restart.
BeginRecreate(c) ==
  /\ Start(c, "recreate", NoDir, "edit", {})
  /\ UNCHANGED <<appliance, copies, harmed, whole, good>>

SetEnv(c) ==
  /\ cmd[c].pc = "edit"
  /\ \E p \in {Configuration, Extra} : Change({p})
  /\ Goto(c, "renew")
  /\ UNCHANGED <<running, copies, harmed, whole, good>>

\* harden names every container, the others the mail server; the hook leaves it
\* alone when it does not run.
Recreate(c, T, ok) ==
  /\ cmd[c].pc = "renew"
  /\ T = {} => running # Writer
  /\ StartWriters(T, ok)
  /\ Exit(c)
  /\ UNCHANGED <<data, writes, copies, whole, good>>

-----------------------------------------------------------------------------
(* backup, and upgrade around it. *)

\* upgrade: the release's signature and versions, then doctor.
Preflight(c, ok) ==
  /\ cmd[c].pc = "preflight"
  /\ IF ok THEN Goto(c, "stop") ELSE Exit(c)
  /\ UNCHANGED <<appliance, copies, harmed, whole, good>>

\* backup returns when the containers do not stop; only later errors start them.
Stop(c, ok) ==
  /\ cmd[c].pc = "stop"
  /\ StopWriters(ok)
  /\ IF ok THEN Goto(c, IF cmd[c].kind = "restore" THEN "swap" ELSE "copy") ELSE Exit(c)
  /\ UNCHANGED <<data, writes, copies, whole, good>>

\* The volumes come in the order of their names, which is left open here.
CopyVolume(c, v) ==
  /\ cmd[c].pc = "copy" /\ v \in cmd[c].todo
  /\ files' = [files EXCEPT ![cmd[c].d][v] = data[v]]
  /\ cmd' = [cmd EXCEPT ![c].todo = @ \ {v}]
  /\ UNCHANGED <<appliance, sealed, manifest, digest, harmed, whole, good>>

\* Mistaken: a volume that cannot be copied is passed over.
CopyPassedOver(c, v) ==
  /\ cmd[c].pc = "copy" /\ v \in cmd[c].todo
  /\ files' = [files EXCEPT ![cmd[c].d][v] = 0]
  /\ Goto(c, "manifest")
  /\ UNCHANGED <<appliance, sealed, manifest, digest, harmed, whole, good>>

\* Mistaken: the containers are started at the end, and not by a deferred call.
CopyFailsStopped(c, v) ==
  /\ cmd[c].pc = "copy" /\ v \in cmd[c].todo
  /\ files' = [files EXCEPT ![cmd[c].d][v] = 0]
  /\ Exit(c)
  /\ UNCHANGED <<appliance, sealed, manifest, digest, harmed, whole, good>>

\* The archive of a volume is left torn.
CopyFails(c, v) ==
  /\ cmd[c].pc = "copy" /\ v \in cmd[c].todo
  /\ files' = [files EXCEPT ![cmd[c].d][v] = 0]
  /\ Fail(c, "up")
  /\ UNCHANGED <<appliance, sealed, manifest, digest, harmed, whole, good>>

\* archiveConfiguration makes its file or refuses (O_EXCL).  What closing it
\* flushes, and a directory that cannot be read, go wrong without an error:
\* the file is then torn, and the command goes on.
CopyConfiguration(c, torn) ==
  LET d == cmd[c].d
      archive == [p \in Part |-> IF p \in Volume THEN files[d][p]
                                ELSE IF torn THEN 0 ELSE data[p]]
  IN
  /\ cmd[c].pc = "copy" /\ cmd[c].todo = {} /\ d \notin sealed
  /\ files' = [files EXCEPT ![d] = archive]
  /\ sealed' = sealed \union {d}
  /\ Goto(c, "manifest")
  /\ UNCHANGED <<appliance, manifest, digest, harmed, whole, good>>

ConfigurationFails(c) ==
  /\ cmd[c].pc = "copy" /\ cmd[c].todo = {}
  /\ sealed' = sealed \union {cmd[c].d}
  /\ Fail(c, "up")
  /\ UNCHANGED <<appliance, files, manifest, digest, harmed, whole, good>>

\* c has archives of everything, made alone of whole data, and none is torn.
Sealing(c, d) ==
  cmd[c].pc = "manifest" /\ cmd[c].d = d /\ cmd[c].alone /\ whole /\ files[d][Configuration] # 0

\* The checksums are of what the files hold by now.
WriteManifest(c) ==
  LET d == cmd[c].d IN
  /\ cmd[c].pc = "manifest"
  /\ manifest' = manifest \union {d}
  /\ digest' = [digest EXCEPT ![d] = files[d]]
  /\ good' = IF Sealing(c, d) THEN good \union {d} ELSE good
  /\ Goto(c, "up")
  /\ UNCHANGED <<appliance, files, sealed, harmed, whole>>

ManifestFails(c) ==
  /\ cmd[c].pc = "manifest"
  /\ Fail(c, "up")
  /\ UNCHANGED <<appliance, copies, harmed, whole, good>>

\* The deferred up, whatever backup returns; its own error is ignored.
Up(c, ok) ==
  /\ cmd[c].pc = "up"
  /\ StartWriters(Writer, ok)
  /\ IF cmd[c].kind = "upgrade" /\ cmd[c].ok THEN Goto(c, "pull") ELSE Exit(c)
  /\ UNCHANGED <<data, writes, copies, whole, good>>

\* upgrade: pull and build, then up, which recreates what has a new image.
Upgrade(c, ok) ==
  /\ cmd[c].pc = "pull"
  /\ StartWriters(Writer, ok)
  /\ Exit(c)
  /\ UNCHANGED <<data, writes, copies, whole, good>>

PullFails(c) ==
  /\ cmd[c].pc = "pull"
  /\ Exit(c)
  /\ UNCHANGED <<appliance, copies, harmed, whole, good>>

-----------------------------------------------------------------------------
(* restore. *)

\* A volume is emptied and its archive extracted; the volumes come in the order
\* of a Go map.
Swap(c, v) ==
  /\ cmd[c].pc = "swap" /\ v \in cmd[c].todo
  /\ data' = [data EXCEPT ![v] = files[cmd[c].d][v]]
  /\ whole' = FALSE
  /\ cmd' = [cmd EXCEPT ![c].todo = @ \ {v}]
  /\ UNCHANGED <<running, writes, copies, harmed, good>>

\* restore returns there, with the containers stopped.
SwapFails(c, v) ==
  /\ cmd[c].pc = "swap" /\ v \in cmd[c].todo
  /\ data' = [data EXCEPT ![v] = 0]
  /\ whole' = FALSE
  /\ Exit(c)
  /\ UNCHANGED <<running, writes, copies, harmed, good>>

\* restoreConfiguration writes over the files that the archive names and removes
\* none: what came into secrets/ after the copy stays.
Overlay(d) ==
  [data EXCEPT ![Configuration] = files[d][Configuration],
               ![Extra] = IF files[d][Extra] = 0 THEN @ ELSE files[d][Extra]]

\* A torn archive fails, or is extracted without an error as far as it goes.
SwapConfiguration(c) ==
  LET d == cmd[c].d IN
  /\ cmd[c].pc = "swap" /\ cmd[c].todo = {}
  /\ data' = Overlay(d)
  /\ whole' = (cmd[c].alone /\ d \in good)
  /\ Goto(c, "start")
  /\ UNCHANGED <<running, writes, copies, harmed, good>>

\* Its files are truncated and written in place, one by one.
SwapConfigurationFails(c) ==
  /\ cmd[c].pc = "swap" /\ cmd[c].todo = {}
  /\ \E later \in {0, data[Extra], files[cmd[c].d][Extra]} :
       data' = [data EXCEPT ![Configuration] = 0, ![Extra] = later]
  /\ whole' = FALSE
  /\ Exit(c)
  /\ UNCHANGED <<running, writes, copies, harmed, good>>

StartRestored(c, ok) ==
  /\ cmd[c].pc = "start"
  /\ StartWriters(Writer, ok)
  /\ Exit(c)
  /\ UNCHANGED <<data, writes, copies, whole, good>>

-----------------------------------------------------------------------------
\* Killed, or the host goes down: deferred calls do not run either.
Kill(c) ==
  /\ c \in Busy
  /\ Exit(c)
  /\ harmed' = (harmed \/ running # Writer)
  /\ UNCHANGED <<appliance, copies, whole, good>>

Run(c) ==
  \/ \E kind \in Kinds, d \in Dir : BeginBackup(c, kind, d)
  \/ \E d \in Dir : BeginRestore(c, d)
  \/ BeginRecreate(c)
  \/ SetEnv(c)
  \/ \E T \in SUBSET Writer, ok \in BOOLEAN : Recreate(c, T, ok)
  \/ \E ok \in BOOLEAN :
       Preflight(c, ok) \/ Stop(c, ok) \/ Up(c, ok) \/ Upgrade(c, ok) \/ StartRestored(c, ok)
  \/ \E v \in Volume : CopyVolume(c, v) \/ CopyFails(c, v) \/ Swap(c, v) \/ SwapFails(c, v)
  \/ \E torn \in BOOLEAN : CopyConfiguration(c, torn)
  \/ ConfigurationFails(c) \/ WriteManifest(c) \/ ManifestFails(c) \/ PullFails(c)
  \/ SwapConfiguration(c) \/ SwapConfigurationFails(c)
  \/ Kill(c)

Next == Write \/ EditConfiguration \/ \E c \in Command : Run(c)

Spec == Init /\ [][Next]_vars

-----------------------------------------------------------------------------
(* Properties. *)

\* backup and restore keep the promise of Copies: a copy made by one command
\* alone, of whole data, is a state those data had while it was made; and what a
\* restore that met no other command leaves is such a copy, laid over what was
\* in secrets/ before, while any other leaves data that are known to be mixed.
Promise == INSTANCE Copies
  WITH Vector <- Vectors,
       Optional <- {Extra},
       live <- IF whole THEN {data} ELSE {},
       held <- [d \in Dir |-> IF \E c \in Command : Sealing(c, d) THEN {files[d]} ELSE {}],
       kept <- [d \in Dir |-> IF d \in good THEN {digest[d]} ELSE {}]

CopiesArePromised == Promise!Spec

\* A restore that met no other command starts the containers on what the
\* manifest's checksums are of, in every volume.
RestoredIsVerified ==
  \A c \in Command : cmd[c].pc = "start" /\ cmd[c].alone =>
    \A v \in Volume : data[v] = digest[cmd[c].d][v]

\* Whoever is done leaves the service running, unless docker failed, a command
\* was killed, or a restore could not be finished.
ServiceIsBack == Busy = {} /\ running # Writer => harmed \/ ~whole

\* The new release is pulled and started only by a command that has completed
\* its copy of the data.
UpgradeIsCopied == \A c \in Command : cmd[c].pc = "pull" => cmd[c].d \in manifest
=============================================================================
