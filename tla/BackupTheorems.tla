--------------------------- MODULE BackupTheorems ---------------------------
(***************************************************************************)
(* Proofs about Backup, for any number of volumes, containers, directories *)
(* and commands: its invariants, and that it implements Copies.            *)
(***************************************************************************)
EXTENDS Backup, TLAPS

AloneAt(c, pcs) == cmd[c].alone /\ cmd[c].pc \in pcs

\* A command that runs alone is the only one that runs.
Alone == \A c \in Busy : cmd[c].alone => Busy = {c}

\* What a lone command copies or replaces is not being written.
Stopped == \A c \in Command : AloneAt(c, {"copy", "manifest", "swap", "start"}) => running = {}

\* What a command has still to do.
Todo ==
  \A c \in Command :
    /\ cmd[c].todo \subseteq Volume
    /\ cmd[c].pc \in {"preflight", "stop"} => cmd[c].todo = Volume
    /\ cmd[c].pc = "preflight" => cmd[c].kind = "upgrade"
    /\ cmd[c].pc \in {"manifest", "start"} => cmd[c].todo = {}

\* What a lone backup has copied is what is there.
Copied ==
  \A c \in Command : AloneAt(c, {"copy", "manifest"}) =>
    \A v \in Volume : v \notin cmd[c].todo => files[cmd[c].d][v] = data[v]

\* Making configuration.tgz is given to one command for each directory.
Sealers ==
  \A c \in Command : cmd[c].pc = "manifest" =>
    /\ cmd[c].d \in sealed \ manifest
    /\ \A b \in Command : cmd[b].pc = "manifest" /\ cmd[b].d = cmd[c].d => b = c

\* A lone restore replaces the volumes by archives that have been verified.
Restoring ==
  \A c \in Command :
    /\ AloneAt(c, {"swap", "start"}) \/ (AloneAt(c, {"stop"}) /\ cmd[c].kind = "restore")
         => files[cmd[c].d] = digest[cmd[c].d]
    /\ AloneAt(c, {"swap", "start"}) =>
         \A v \in Volume : v \notin cmd[c].todo => data[v] = files[cmd[c].d][v]
    /\ AloneAt(c, {"swap"}) /\ cmd[c].todo # Volume => ~whole

\* Somebody will start the containers that do not run.
Pending ==
  running # Writer =>
    \/ harmed \/ ~whole
    \/ \E c \in Command : cmd[c].pc \in {"copy", "manifest", "up", "swap", "start"}

Completed ==
  \A c \in Command :
    cmd[c].pc = "pull" \/ (cmd[c].pc = "up" /\ cmd[c].ok) => cmd[c].d \in manifest

\* The inductive invariant.
IInv == /\ TypeOK /\ Alone /\ Stopped /\ Todo /\ Copied
        /\ Sealers /\ Restoring /\ Pending /\ Completed

-----------------------------------------------------------------------------
LEMMA InitIInv == Init => IInv
<1> SUFFICES ASSUME Init PROVE IInv
  OBVIOUS
<1>1. NoDir \in Dir /\ 0 \in Content /\ 1 \in Content
  BY ConstantsAssumption DEF NoDir, Content
<1>2. Idle \in Processes
  BY <1>1 DEF Idle, Processes, Steps, Kinds
<1>3. TypeOK
  BY <1>1, <1>2 DEF Init, TypeOK, Vectors
<1>4. Busy = {}
  BY DEF Init, Busy, Idle
<1> QED
  BY <1>3, <1>4 DEF Init, Idle, IInv, Alone, Stopped, Todo, Copied, Sealers, Restoring,
     Pending, Completed, AloneAt

\* The containers of a configuration command are started; a restore goes wrong.
Renews(c)    == \E T \in SUBSET Writer, ok \in BOOLEAN : Recreate(c, T, ok)
SwapsFail(c) == SwapConfigurationFails(c) \/ \E v \in Volume : SwapFails(c, v)

\* What the steps of a command do to the processes.
LEMMA ProcessType ==
  ASSUME TypeOK, NEW c \in Command, NEW pc \in Steps
  PROVE  /\ Goto(c, pc) \/ Fail(c, pc) \/ Exit(c) => cmd' \in [Command -> Processes]
         /\ \A v \in Volume : cmd' = [cmd EXCEPT ![c].todo = @ \ {v}]
                                => cmd' \in [Command -> Processes]
         /\ \A kind \in Kinds, d \in Dir, todo \in SUBSET Part :
              Start(c, kind, d, pc, todo) => cmd' \in [Command -> Processes]
<1>1. cmd \in [Command -> Processes]
  BY DEF TypeOK
<1>2. Idle \in Processes
  BY ConstantsAssumption DEF Idle, Processes, Steps, Kinds, NoDir
<1>3. Goto(c, pc) \/ Fail(c, pc) \/ Exit(c) => cmd' \in [Command -> Processes]
  BY <1>1, <1>2 DEF Goto, Fail, Exit, Processes
<1>4. ASSUME NEW v \in Volume, cmd' = [cmd EXCEPT ![c].todo = @ \ {v}]
      PROVE  cmd' \in [Command -> Processes]
  BY <1>1, <1>4 DEF Processes
<1>5. ASSUME NEW kind \in Kinds, NEW d \in Dir, NEW todo \in SUBSET Part,
             Start(c, kind, d, pc, todo)
      PROVE  cmd' \in [Command -> Processes]
  <2>1. [pc |-> pc, kind |-> kind, d |-> d, todo |-> todo, ok |-> TRUE,
         alone |-> Busy = {}] \in Processes
    BY DEF Processes
  <2>2. \A b \in Command : [cmd[b] EXCEPT !.alone = FALSE] \in Processes
    BY <1>1 DEF Processes
  <2> QED
    BY <1>1, <1>5, <2>1, <2>2 DEF Start
<1> QED
  BY <1>3, <1>4, <1>5

LEMMA FilesType ==
  ASSUME TypeOK, NEW d \in Dir, NEW p \in Part, NEW x \in Content
  PROVE  [files EXCEPT ![d][p] = x] \in [Dir -> Vectors]
<1>1. files[d] \in Vectors
  BY DEF TypeOK
<1>2. [files[d] EXCEPT ![p] = x] \in Vectors
  BY <1>1 DEF Vectors
<1> QED
  BY <1>2 DEF TypeOK

LEMMA TypeStep == TypeOK /\ Sealers /\ [Next]_vars => TypeOK'
<1> SUFFICES ASSUME TypeOK, Sealers, [Next]_vars PROVE TypeOK'
  OBVIOUS
<1> USE DEF appliance, copies
<1>0. /\ 0 \in Content /\ Volume \subseteq Part /\ Configuration \in Part /\ Extra \in Part
      /\ Volume \in SUBSET Part /\ {} \in SUBSET Part /\ NoDir \in Dir
      /\ {"idle", "preflight", "stop", "copy", "manifest", "up", "pull", "swap", "start",
          "edit", "renew"} \subseteq Steps
  BY ConstantsAssumption DEF Content, Part, NoDir, Steps
<1>1. ASSUME NEW P, Change(P) PROVE writes' \in Content /\ data' \in Vectors
  BY <1>1, ConstantsAssumption DEF Change, TypeOK, Content, Vectors
<1>2. ASSUME NEW ok \in BOOLEAN,
             StopWriters(ok) \/ \E T \in SUBSET Writer : StartWriters(T, ok)
      PROVE  running' \subseteq Writer /\ harmed' \in BOOLEAN
  BY <1>2 DEF StopWriters, StartWriters, TypeOK
<1>3. CASE Write \/ EditConfiguration
  BY <1>1, <1>3 DEF Write, EditConfiguration, TypeOK
<1>4. ASSUME NEW c \in Command, Run(c) PROVE TypeOK'
  <2>0. cmd[c].d \in Dir /\ cmd[c].kind \in Kinds
    BY DEF TypeOK, Processes
  <2>1. ASSUME NEW kind \in Kinds, NEW d \in Dir,
               BeginBackup(c, kind, d) \/ BeginRestore(c, d) \/ BeginRecreate(c)
        PROVE  TypeOK'
    <3>1. cmd' \in [Command -> Processes]
      <4>1. "recreate" \in Kinds /\ "restore" \in Kinds
        BY DEF Kinds
      <4> QED
        BY <1>0, <2>1, <4>1, ProcessType DEF BeginBackup, BeginRestore, BeginRecreate
    <3> QED
      BY <2>1, <3>1 DEF BeginBackup, BeginRestore, BeginRecreate, TypeOK
  <2>2. CASE SetEnv(c)
    <3>1. cmd' \in [Command -> Processes]
      BY <1>0, <2>2, ProcessType DEF SetEnv
    <3> QED
      BY <1>1, <2>2, <3>1 DEF SetEnv, TypeOK
  <2>3. ASSUME NEW ok \in BOOLEAN,
               \/ Renews(c) \/ Preflight(c, ok) \/ Stop(c, ok) \/ Up(c, ok)
               \/ Upgrade(c, ok) \/ StartRestored(c, ok)
        PROVE  TypeOK'
    <3>1. cmd' \in [Command -> Processes]
      BY <1>0, <2>3, ProcessType DEF Renews, Recreate, Preflight, Stop, Up, Upgrade, StartRestored
    <3>2. running' \subseteq Writer /\ harmed' \in BOOLEAN
      BY <1>2, <2>3 DEF Renews, Recreate, Preflight, Stop, Up, Upgrade, StartRestored, TypeOK
    <3> QED
      BY <2>3, <3>1, <3>2
         DEF Renews, Recreate, Preflight, Stop, Up, Upgrade, StartRestored, TypeOK
  <2>4. ASSUME NEW v \in Volume, CopyVolume(c, v) \/ CopyFails(c, v) PROVE TypeOK'
    <3>1. cmd' \in [Command -> Processes]
      BY <1>0, <2>4, ProcessType DEF CopyVolume, CopyFails
    <3>2. files' \in [Dir -> Vectors]
      <4>1. data[v] \in Content
        BY <1>0 DEF TypeOK, Vectors
      <4> QED
        BY <1>0, <2>0, <2>4, <4>1, FilesType DEF CopyVolume, CopyFails
    <3> QED
      BY <2>4, <3>1, <3>2 DEF CopyVolume, CopyFails, TypeOK
  <2>5. ASSUME NEW torn \in BOOLEAN, CopyConfiguration(c, torn) PROVE TypeOK'
    <3>1. cmd' \in [Command -> Processes]
      BY <1>0, <2>5, ProcessType DEF CopyConfiguration
    <3>2. files' \in [Dir -> Vectors]
      <4>1. \A p \in Part : data[p] \in Content /\ files[cmd[c].d][p] \in Content
        BY <2>0 DEF TypeOK, Vectors
      <4> QED
        BY <1>0, <2>0, <2>5, <4>1 DEF CopyConfiguration, TypeOK, Vectors
    <3> QED
      BY <2>0, <2>5, <3>1, <3>2 DEF CopyConfiguration, TypeOK
  <2>6. CASE ConfigurationFails(c) \/ ManifestFails(c) \/ PullFails(c) \/ Kill(c)
    <3>1. cmd' \in [Command -> Processes]
      BY <1>0, <2>6, ProcessType DEF ConfigurationFails, ManifestFails, PullFails, Kill
    <3> QED
      BY <2>0, <2>6, <3>1 DEF ConfigurationFails, ManifestFails, PullFails, Kill, TypeOK
  <2>7. CASE WriteManifest(c)
    <3>1. cmd' \in [Command -> Processes]
      BY <1>0, <2>7, ProcessType DEF WriteManifest
    <3>2. cmd[c].d \in sealed
      BY <2>7 DEF WriteManifest, Sealers
    <3>3. digest' \in [Dir -> Vectors]
      BY <2>0, <2>7 DEF WriteManifest, TypeOK
    <3>4. manifest' \subseteq sealed' /\ good' \subseteq manifest'
      BY <2>7, <3>2 DEF WriteManifest, TypeOK
    <3> QED
      BY <2>7, <3>1, <3>3, <3>4 DEF WriteManifest, TypeOK
  <2>8. ASSUME NEW v \in Volume, Swap(c, v) PROVE TypeOK'
    <3>1. cmd' \in [Command -> Processes]
      BY <1>0, <2>8, ProcessType DEF Swap
    <3>2. data' \in Vectors
      BY <1>0, <2>0, <2>8 DEF Swap, TypeOK, Vectors
    <3> QED
      BY <2>8, <3>1, <3>2 DEF Swap, TypeOK
  <2>9. CASE SwapsFail(c) \/ SwapConfiguration(c)
    <3>1. cmd' \in [Command -> Processes]
      BY <1>0, <2>9, ProcessType
         DEF SwapsFail, SwapFails, SwapConfigurationFails, SwapConfiguration
    <3>2. data' \in Vectors
      BY <1>0, <2>0, <2>9
         DEF SwapsFail, SwapFails, SwapConfigurationFails, SwapConfiguration, Overlay,
         TypeOK, Vectors
    <3>3. whole' \in BOOLEAN
      <4>1. cmd[c].alone \in BOOLEAN
        BY DEF TypeOK, Processes
      <4> QED
        BY <2>9, <4>1 DEF SwapsFail, SwapFails, SwapConfigurationFails, SwapConfiguration
    <3> QED
      BY <2>9, <3>1, <3>2, <3>3
         DEF SwapsFail, SwapFails, SwapConfigurationFails, SwapConfiguration, TypeOK
  <2> QED
    BY <1>0, <1>4, <2>0, <2>1, <2>2, <2>3, <2>4, <2>5, <2>6, <2>7, <2>8, <2>9
       DEF Run, Renews, SwapsFail
<1>5. CASE UNCHANGED vars
  BY <1>5 DEF vars, TypeOK
<1> QED
  BY <1>3, <1>4, <1>5 DEF Next

\* A command begins: it is at one of three points, and nobody else is alone.
Begins(c) ==
  \E kind \in Kinds, d \in Dir : BeginBackup(c, kind, d) \/ BeginRestore(c, d) \/ BeginRecreate(c)

LEMMA BeginTurn ==
  ASSUME TypeOK, NEW c \in Command, Begins(c)
  PROVE  /\ cmd[c].pc = "idle" /\ cmd'[c].pc \in {"preflight", "stop", "edit"}
         /\ (cmd'[c].alone <=> Busy = {})
         /\ cmd'[c].pc \in {"preflight", "stop"} => cmd'[c].todo = Volume
         /\ cmd'[c].pc = "edit" => cmd'[c].todo = {}
         /\ cmd'[c].pc = "preflight" => cmd'[c].kind = "upgrade"
         /\ cmd'[c].pc = "stop" /\ cmd'[c].kind = "restore"
              => files[cmd'[c].d] = digest[cmd'[c].d]
         /\ \A b \in Command \ {c} :
              /\ cmd'[b].pc = cmd[b].pc /\ cmd'[b].kind = cmd[b].kind /\ cmd'[b].d = cmd[b].d
              /\ cmd'[b].todo = cmd[b].todo /\ (cmd'[b].ok <=> cmd[b].ok)
              /\ b \in Busy => ~cmd'[b].alone
         /\ UNCHANGED <<running, data, writes, files, sealed, manifest, digest, harmed, whole,
                        good>>
<1> USE DEF appliance, copies
<1>1. PICK kind \in Kinds, d \in Dir :
        BeginBackup(c, kind, d) \/ BeginRestore(c, d) \/ BeginRecreate(c)
  BY DEF Begins
<1>0. ASSUME NEW k \in Kinds, NEW e \in Dir, NEW pc, NEW todo, Start(c, k, e, pc, todo)
      PROVE  /\ cmd[c].pc = "idle" /\ cmd'[c].pc = pc /\ (cmd'[c].alone <=> Busy = {})
             /\ cmd'[c].todo = todo /\ cmd'[c].kind = k /\ cmd'[c].d = e
             /\ \A b \in Command \ {c} :
                  /\ cmd'[b].pc = cmd[b].pc /\ cmd'[b].kind = cmd[b].kind /\ cmd'[b].d = cmd[b].d
                  /\ cmd'[b].todo = cmd[b].todo /\ (cmd'[b].ok <=> cmd[b].ok)
                  /\ b \in Busy => ~cmd'[b].alone
  <2>1. cmd'[c] = [pc |-> pc, kind |-> k, d |-> e, todo |-> todo, ok |-> TRUE,
                   alone |-> Busy = {}]
    BY <1>0 DEF Start, TypeOK
  <2>2. \A b \in Command \ {c} : cmd'[b] = cmd[b] \/ cmd'[b] = [cmd[b] EXCEPT !.alone = FALSE]
    BY <1>0 DEF Start, TypeOK
  <2>3. \A b \in Command \ {c} : b \in Busy => cmd'[b] = [cmd[b] EXCEPT !.alone = FALSE]
    BY <1>0 DEF Start, TypeOK
  <2>4. \A b \in Command : cmd[b] \in Processes
    BY DEF TypeOK
  <2>5. \A b \in Command \ {c} :
          /\ cmd'[b].pc = cmd[b].pc /\ cmd'[b].kind = cmd[b].kind /\ cmd'[b].d = cmd[b].d
          /\ cmd'[b].todo = cmd[b].todo /\ (cmd'[b].ok <=> cmd[b].ok)
    BY <2>2, <2>4 DEF Processes
  <2>6. \A b \in Command \ {c} : b \in Busy => ~cmd'[b].alone
    BY <2>3, <2>4 DEF Processes
  <2> QED
    BY <1>0, <2>1, <2>5, <2>6 DEF Start
<1>2. CASE BeginBackup(c, kind, d)
  <2>1. /\ kind \in {"backup", "upgrade"}
        /\ Start(c, kind, d, IF kind = "upgrade" THEN "preflight" ELSE "stop", Volume)
    BY <1>2 DEF BeginBackup
  <2> QED
    BY <1>0, <1>2, <2>1 DEF BeginBackup
<1>3. CASE BeginRestore(c, d)
  <2>1. "restore" \in Kinds /\ Start(c, "restore", d, "stop", Volume)
    BY <1>3 DEF BeginRestore, Kinds
  <2> QED
    BY <1>0, <1>3, <2>1 DEF BeginRestore, Verified
<1>4. CASE BeginRecreate(c)
  <2>1. "recreate" \in Kinds /\ Start(c, "recreate", NoDir, "edit", {}) /\ NoDir \in Dir
    BY <1>4, ConstantsAssumption DEF BeginRecreate, Kinds, NoDir
  <2> QED
    BY <1>0, <1>4, <2>1 DEF BeginRecreate
<1> QED
  BY <1>1, <1>2, <1>3, <1>4

\* The other steps of a command, and what each of them changes of it.
Continues(c) ==
  \/ SetEnv(c) \/ ConfigurationFails(c) \/ WriteManifest(c) \/ ManifestFails(c) \/ PullFails(c)
  \/ SwapConfiguration(c) \/ Kill(c)
  \/ \E ok \in BOOLEAN :
       \/ Renews(c) \/ Preflight(c, ok) \/ Stop(c, ok) \/ Up(c, ok)
       \/ Upgrade(c, ok) \/ StartRestored(c, ok) \/ CopyConfiguration(c, ok)
  \/ \E v \in Volume : CopyVolume(c, v) \/ CopyFails(c, v) \/ Swap(c, v)
  \/ SwapsFail(c)

LEMMA RunCases == ASSUME NEW c \in Command, Run(c) PROVE Begins(c) \/ Continues(c)
<1>1. NoDir \in Dir /\ "recreate" \in Kinds
  BY ConstantsAssumption DEF NoDir, Kinds
<1>2. BeginRecreate(c) => Begins(c)
  BY <1>1 DEF Begins
<1>3. (\E d \in Dir : BeginRestore(c, d)) => Begins(c)
  BY <1>1 DEF Begins
<1>4. (\E kind \in Kinds, d \in Dir : BeginBackup(c, kind, d)) => Begins(c)
  BY DEF Begins
<1>5. /\ (\E v \in Volume : SwapFails(c, v)) \/ SwapConfigurationFails(c) => Continues(c)
      /\ (\E T \in SUBSET Writer, ok \in BOOLEAN : Recreate(c, T, ok)) => Continues(c)
  BY DEF SwapsFail, Renews, Continues
<1> QED
  BY <1>2, <1>3, <1>4, <1>5 DEF Run, Continues

LEMMA Turn ==
  ASSUME TypeOK, NEW c \in Command, NEW pc
  PROVE  /\ Goto(c, pc) => /\ cmd'[c].pc = pc /\ cmd'[c].todo = cmd[c].todo
                           /\ (cmd'[c].ok <=> cmd[c].ok)
         /\ Fail(c, pc) => /\ cmd'[c].pc = pc /\ cmd'[c].todo = cmd[c].todo
                           /\ ~cmd'[c].ok
         /\ Goto(c, pc) \/ Fail(c, pc) => /\ cmd'[c].kind = cmd[c].kind /\ cmd'[c].d = cmd[c].d
                                          /\ (cmd'[c].alone <=> cmd[c].alone)
         /\ Goto(c, pc) \/ Fail(c, pc) => \A b \in Command \ {c} : cmd'[b] = cmd[b]
<1>1. cmd \in [Command -> Processes] /\ cmd[c] \in Processes
  BY DEF TypeOK
<1>2. ASSUME Goto(c, pc)
      PROVE  cmd'[c] = [cmd[c] EXCEPT !.pc = pc] /\ \A b \in Command \ {c} : cmd'[b] = cmd[b]
  BY <1>1, <1>2 DEF Goto
<1>3. ASSUME Fail(c, pc)
      PROVE  /\ cmd'[c] = [cmd[c] EXCEPT !.pc = pc, !.ok = FALSE]
             /\ \A b \in Command \ {c} : cmd'[b] = cmd[b]
  BY <1>1, <1>3 DEF Fail
<1> QED
  BY <1>1, <1>2, <1>3 DEF Processes

LEMMA ExitTurn ==
  ASSUME TypeOK, NEW c \in Command, Exit(c)
  PROVE  cmd'[c] = Idle /\ \A b \in Command \ {c} : cmd'[b] = cmd[b]
BY DEF TypeOK, Exit

LEMMA TodoTurn ==
  ASSUME TypeOK, NEW c \in Command, NEW v, cmd' = [cmd EXCEPT ![c].todo = @ \ {v}]
  PROVE  /\ cmd'[c].pc = cmd[c].pc /\ cmd'[c].todo = cmd[c].todo \ {v}
         /\ (cmd'[c].ok <=> cmd[c].ok)
         /\ cmd'[c].kind = cmd[c].kind /\ cmd'[c].d = cmd[c].d /\ (cmd'[c].alone <=> cmd[c].alone)
         /\ \A b \in Command \ {c} : cmd'[b] = cmd[b]
<1>1. cmd \in [Command -> Processes] /\ cmd[c] \in Processes
  BY DEF TypeOK
<1>2. /\ cmd'[c] = [cmd[c] EXCEPT !.todo = cmd[c].todo \ {v}]
      /\ \A b \in Command \ {c} : cmd'[b] = cmd[b]
  BY <1>1
<1> QED
  BY <1>1, <1>2 DEF Processes

\* Another command stays what it is, and the one that steps stays alone or not.
LEMMA ContinueTurn ==
  ASSUME TypeOK, NEW c \in Command, Continues(c)
  PROVE  /\ c \in Busy
         /\ \A b \in Command \ {c} : cmd'[b] = cmd[b]
         /\ cmd'[c].pc # "idle" => /\ cmd'[c].kind = cmd[c].kind /\ cmd'[c].d = cmd[c].d
                                   /\ (cmd'[c].alone <=> cmd[c].alone)
<1>1. CASE \/ SetEnv(c) \/ ConfigurationFails(c) \/ WriteManifest(c) \/ ManifestFails(c)
           \/ PullFails(c) \/ SwapConfiguration(c) \/ Kill(c)
  BY <1>1, Turn, ExitTurn DEF SetEnv, ConfigurationFails, WriteManifest, ManifestFails, PullFails,
     SwapConfiguration, Kill, Busy, Idle
<1>2. ASSUME NEW ok \in BOOLEAN,
             \/ Renews(c) \/ Preflight(c, ok) \/ Stop(c, ok) \/ Up(c, ok)
             \/ Upgrade(c, ok) \/ StartRestored(c, ok) \/ CopyConfiguration(c, ok)
      PROVE  /\ c \in Busy
             /\ \A b \in Command \ {c} : cmd'[b] = cmd[b]
             /\ cmd'[c].pc # "idle" => /\ cmd'[c].kind = cmd[c].kind /\ cmd'[c].d = cmd[c].d
                                       /\ (cmd'[c].alone <=> cmd[c].alone)
  BY <1>2, Turn, ExitTurn DEF Renews, Recreate, Preflight, Stop, Up, Upgrade, StartRestored,
     CopyConfiguration, Busy, Idle
<1>3. ASSUME NEW v \in Volume, CopyVolume(c, v) \/ CopyFails(c, v) \/ Swap(c, v)
      PROVE  /\ c \in Busy
             /\ \A b \in Command \ {c} : cmd'[b] = cmd[b]
             /\ cmd'[c].pc # "idle" => /\ cmd'[c].kind = cmd[c].kind /\ cmd'[c].d = cmd[c].d
                                       /\ (cmd'[c].alone <=> cmd[c].alone)
  BY <1>3, Turn, ExitTurn, TodoTurn DEF CopyVolume, CopyFails, Swap, Busy
<1>4. ASSUME SwapsFail(c)
      PROVE  /\ c \in Busy
             /\ \A b \in Command \ {c} : cmd'[b] = cmd[b]
             /\ cmd'[c].pc # "idle" => /\ cmd'[c].kind = cmd[c].kind /\ cmd'[c].d = cmd[c].d
                                       /\ (cmd'[c].alone <=> cmd[c].alone)
  BY <1>4, Turn, ExitTurn DEF SwapsFail, SwapFails, SwapConfigurationFails, Busy, Idle
<1> QED
  BY <1>1, <1>2, <1>3, <1>4 DEF Continues

\* Whoever is alone after a step of c is c.
LEMMA OnlyOne ==
  ASSUME TypeOK, Alone, NEW c \in Command, Run(c), NEW b \in Command, b \in Busy', cmd'[b].alone
  PROVE  b = c /\ (Continues(c) => cmd[c].alone)
<1>1. CASE Begins(c)
  BY <1>1, BeginTurn, ContinueTurn DEF Busy
<1>2. CASE Continues(c)
  BY <1>2, ContinueTurn DEF Alone, Busy
<1> QED
  BY <1>1, <1>2, RunCases, BeginTurn, ContinueTurn DEF Busy

LEMMA AloneStep == TypeOK /\ Alone /\ [Next]_vars => Alone'
<1> SUFFICES ASSUME TypeOK, Alone, [Next]_vars PROVE Alone'
  OBVIOUS
<1>1. ASSUME NEW c \in Command, Run(c) PROVE Alone'
  <2>1. CASE Begins(c)
    BY <2>1, BeginTurn DEF Alone, Busy
  <2>2. CASE Continues(c)
    BY <2>2, ContinueTurn DEF Alone, Busy
  <2> QED
    BY <1>1, <2>1, <2>2, RunCases
<1>2. CASE Write \/ EditConfiguration \/ UNCHANGED vars
  BY <1>2 DEF Write, EditConfiguration, vars, Alone, Busy
<1> QED
  BY <1>1, <1>2 DEF Next

\* The steps after which a lone command has something at stake.
LEMMA PcTurn ==
  ASSUME TypeOK, NEW c \in Command, Continues(c)
  PROVE  \/ cmd'[c].pc \in {"idle", "renew", "up", "pull"}
         \/ Preflight(c, TRUE) \/ Stop(c, TRUE) \/ SwapConfiguration(c)
         \/ \E torn \in BOOLEAN : CopyConfiguration(c, torn)
         \/ \E v \in Volume : CopyVolume(c, v) \/ Swap(c, v)
<1>1. CASE \/ SetEnv(c) \/ ConfigurationFails(c) \/ WriteManifest(c) \/ ManifestFails(c)
           \/ PullFails(c) \/ Kill(c)
  <2>1. cmd'[c].pc \in {"idle", "renew", "up"}
    BY <1>1, Turn, ExitTurn DEF SetEnv, ConfigurationFails, WriteManifest, ManifestFails,
       PullFails, Kill, Idle
  <2> QED
    BY <2>1
<1>2. ASSUME NEW ok \in BOOLEAN,
             Renews(c) \/ Up(c, ok) \/ Upgrade(c, ok) \/ StartRestored(c, ok)
      PROVE  cmd'[c].pc \in {"idle", "pull"}
  BY <1>2, Turn, ExitTurn DEF Renews, Recreate, Up, Upgrade, StartRestored, Idle
<1>3. ASSUME NEW ok \in BOOLEAN, ~ok, Preflight(c, ok) \/ Stop(c, ok)
      PROVE  cmd'[c].pc = "idle"
  BY <1>3, ExitTurn DEF Preflight, Stop, Idle
<1>5. ASSUME SwapsFail(c) PROVE cmd'[c].pc = "idle"
  BY <1>5, ExitTurn DEF SwapsFail, SwapFails, SwapConfigurationFails, Idle
<1>6. \A ok \in BOOLEAN : ok => ok = TRUE
  OBVIOUS
<1>4. ASSUME NEW v \in Volume, CopyFails(c, v) PROVE cmd'[c].pc = "up"
  BY <1>4, Turn, ExitTurn DEF CopyFails
<1> QED
  BY <1>1, <1>2, <1>3, <1>4, <1>5, <1>6 DEF Continues

\* Nobody can be alone but the command that steps; and then it was so before.
LEMMA LoneTurn ==
  ASSUME TypeOK, Alone, NEW c \in Command, Run(c), NEW b \in Command,
         NEW pcs \in SUBSET {"stop", "copy", "manifest", "swap", "start"}, AloneAt(b, pcs)'
  PROVE  /\ b = c
         /\ \/ Begins(c) /\ cmd'[c].pc = "stop"
            \/ /\ Continues(c) /\ cmd[c].alone
               /\ \/ Preflight(c, TRUE) \/ Stop(c, TRUE) \/ SwapConfiguration(c)
                  \/ \E torn \in BOOLEAN : CopyConfiguration(c, torn)
                  \/ \E v \in Volume : CopyVolume(c, v) \/ Swap(c, v)
<1>1. b \in Busy' /\ cmd'[b].alone /\ cmd'[b].pc \in {"stop", "copy", "manifest", "swap", "start"}
  BY DEF AloneAt, Busy
<1>2. b = c /\ (Continues(c) => cmd[c].alone)
  BY <1>1, OnlyOne
<1> QED
  BY <1>1, <1>2, RunCases, BeginTurn, PcTurn

LEMMA StoppedStep == TypeOK /\ Alone /\ Stopped /\ [Next]_vars => Stopped'
<1> SUFFICES ASSUME TypeOK, Alone, Stopped, [Next]_vars,
                    NEW b \in Command, AloneAt(b, {"copy", "manifest", "swap", "start"})'
             PROVE  running' = {}
  BY DEF Stopped
<1>1. ASSUME NEW c \in Command, Run(c) PROVE running' = {}
  <2>1. /\ b = c /\ cmd'[c].pc \in {"copy", "manifest", "swap", "start"}
        /\ \/ Begins(c) /\ cmd'[c].pc = "stop"
           \/ /\ Continues(c) /\ cmd[c].alone
              /\ \/ Preflight(c, TRUE) \/ Stop(c, TRUE) \/ SwapConfiguration(c)
                 \/ \E torn \in BOOLEAN : CopyConfiguration(c, torn)
                 \/ \E v \in Volume : CopyVolume(c, v) \/ Swap(c, v)
    BY <1>1, LoneTurn DEF AloneAt
  <2>2. CASE Preflight(c, TRUE)
    BY <2>1, <2>2, Turn, ExitTurn DEF Preflight
  <2>3. CASE Stop(c, TRUE)
    BY <2>3 DEF Stop, StopWriters
  <2>4. CASE SwapConfiguration(c)
    BY <2>1, <2>4 DEF SwapConfiguration, Stopped, AloneAt
  <2>5. ASSUME NEW torn \in BOOLEAN, CopyConfiguration(c, torn) PROVE running' = {}
    BY <2>1, <2>5 DEF CopyConfiguration, Stopped, AloneAt, appliance
  <2>6. ASSUME NEW v \in Volume, CopyVolume(c, v) \/ Swap(c, v) PROVE running' = {}
    BY <2>1, <2>6 DEF CopyVolume, Swap, Stopped, AloneAt, appliance
  <2> QED
    BY <2>1, <2>2, <2>3, <2>4, <2>5, <2>6
<1>2. CASE Write \/ EditConfiguration \/ UNCHANGED vars
  BY <1>2 DEF Write, EditConfiguration, vars, Stopped, AloneAt
<1> QED
  BY <1>1, <1>2 DEF Next

LEMMA TodoStep == TypeOK /\ Todo /\ [Next]_vars => Todo'
<1> SUFFICES ASSUME TypeOK, Todo, [Next]_vars PROVE Todo'
  OBVIOUS
<1> DEFINE Good(b) ==
      /\ cmd[b].todo \subseteq Volume
      /\ cmd[b].pc \in {"preflight", "stop"} => cmd[b].todo = Volume
      /\ cmd[b].pc = "preflight" => cmd[b].kind = "upgrade"
      /\ cmd[b].pc \in {"manifest", "start"} => cmd[b].todo = {}
<1>1. ASSUME NEW c \in Command, Run(c) PROVE Todo'
  <2>1. CASE Begins(c)
    BY <2>1, BeginTurn DEF Todo
  <2>2. CASE Continues(c)
    <3>1. Good(c)
      BY DEF Todo
    <3>2. ASSUME NEW pc \in {"idle", "edit", "renew", "copy", "up", "pull", "swap"},
                 Goto(c, pc) \/ Fail(c, pc) \/ Exit(c)
          PROVE  Good(c)'
      BY <3>1, <3>2, Turn, ExitTurn DEF Idle
    <3>3. Good(c)'
      <4>1. CASE \/ SetEnv(c) \/ ConfigurationFails(c) \/ WriteManifest(c) \/ ManifestFails(c)
                 \/ PullFails(c) \/ Kill(c) \/ SwapsFail(c)
        BY <3>2, <4>1 DEF SetEnv, ConfigurationFails, WriteManifest, ManifestFails, PullFails,
           Kill, SwapsFail, SwapFails, SwapConfigurationFails
      <4>2. ASSUME NEW ok \in BOOLEAN,
                   \/ Renews(c) \/ Stop(c, ok) \/ Up(c, ok) \/ Upgrade(c, ok)
                   \/ StartRestored(c, ok)
            PROVE  Good(c)'
        BY <3>2, <4>2 DEF Renews, Recreate, Stop, Up, Upgrade, StartRestored
      <4>3. ASSUME NEW ok \in BOOLEAN, Preflight(c, ok) PROVE Good(c)'
        <5>1. CASE ok
          BY <3>1, <4>3, <5>1, Turn, ExitTurn DEF Preflight
        <5> QED
          BY <3>2, <4>3, <5>1 DEF Preflight
      <4>4. ASSUME NEW torn \in BOOLEAN, CopyConfiguration(c, torn) PROVE Good(c)'
        BY <3>1, <4>4, Turn, ExitTurn DEF CopyConfiguration
      <4>5. CASE SwapConfiguration(c)
        BY <3>1, <4>5, Turn, ExitTurn DEF SwapConfiguration
      <4>6. ASSUME NEW v \in Volume, CopyVolume(c, v) \/ Swap(c, v) PROVE Good(c)'
        BY <3>1, <4>6, TodoTurn DEF CopyVolume, Swap
      <4>7. ASSUME NEW v \in Volume, CopyFails(c, v) PROVE Good(c)'
        BY <3>2, <4>7 DEF CopyFails
      <4> QED
        BY <2>2, <4>1, <4>2, <4>3, <4>4, <4>5, <4>6, <4>7 DEF Continues
    <3> QED
      BY <2>2, <3>3, ContinueTurn DEF Todo
  <2> QED
    BY <1>1, <2>1, <2>2, RunCases
<1>2. CASE Write \/ EditConfiguration \/ UNCHANGED vars
  BY <1>2 DEF Write, EditConfiguration, vars, Todo
<1> QED
  BY <1>1, <1>2 DEF Next

LEMMA CopiedStep == TypeOK /\ Alone /\ Stopped /\ Todo /\ Copied /\ [Next]_vars => Copied'
<1> SUFFICES ASSUME TypeOK, Alone, Stopped, Todo, Copied, [Next]_vars,
                    NEW b \in Command, AloneAt(b, {"copy", "manifest"})',
                    NEW v \in Volume, v \notin cmd'[b].todo
             PROVE  files'[cmd'[b].d][v] = data'[v]
  BY DEF Copied
<1>0. /\ v \in Part /\ v # Configuration /\ v # Extra /\ data \in Vectors
      /\ files \in [Dir -> Vectors]
      /\ cmd[b].d \in Dir
  BY ConstantsAssumption DEF Part, TypeOK, Processes
<1>1. ASSUME NEW c \in Command, Run(c) PROVE files'[cmd'[b].d][v] = data'[v]
  <2>1. /\ b = c /\ cmd'[c].pc \in {"copy", "manifest"}
        /\ \/ Begins(c) /\ cmd'[c].pc = "stop"
           \/ /\ Continues(c) /\ cmd[c].alone
              /\ \/ Preflight(c, TRUE) \/ Stop(c, TRUE) \/ SwapConfiguration(c)
                 \/ \E torn \in BOOLEAN : CopyConfiguration(c, torn)
                 \/ \E w \in Volume : CopyVolume(c, w) \/ Swap(c, w)
    BY <1>1, LoneTurn DEF AloneAt
  <2>2. ~Preflight(c, TRUE) /\ ~SwapConfiguration(c) /\ \A w \in Volume : ~Swap(c, w)
    BY <2>1, Turn, TodoTurn DEF Preflight, SwapConfiguration, Swap
  <2>3. ~Stop(c, TRUE)
    BY <2>1, Turn DEF Stop, Todo
  <2>4. ASSUME NEW torn \in BOOLEAN, CopyConfiguration(c, torn)
        PROVE  files'[cmd'[b].d][v] = data'[v]
    <3>1. cmd[c].pc = "copy" /\ v \notin cmd[c].todo /\ cmd'[c].d = cmd[c].d
      BY <2>1, <2>4, Turn DEF CopyConfiguration
    <3>2. files[cmd[c].d][v] = data[v]
      BY <2>1, <3>1 DEF Copied, AloneAt
    <3>3. files'[cmd[c].d][v] = files[cmd[c].d][v] /\ data' = data
      BY <1>0, <2>1, <2>4 DEF CopyConfiguration, appliance, Vectors
    <3> QED
      BY <2>1, <3>1, <3>2, <3>3
  <2>5. ASSUME NEW w \in Volume, CopyVolume(c, w) PROVE files'[cmd'[b].d][v] = data'[v]
    <3>1. /\ cmd[c].pc = "copy" /\ cmd'[c].d = cmd[c].d /\ data' = data
          /\ v = w \/ v \notin cmd[c].todo
      BY <2>1, <2>5, TodoTurn DEF CopyVolume, appliance
    <3>2. v = w => files'[cmd[c].d][v] = data[v]
      BY <1>0, <2>1, <2>5 DEF CopyVolume, Vectors
    <3>3. v # w => files'[cmd[c].d][v] = files[cmd[c].d][v]
      BY <1>0, <2>1, <2>5 DEF CopyVolume, Vectors
    <3>4. v # w => files[cmd[c].d][v] = data[v]
      BY <2>1, <3>1 DEF Copied, AloneAt
    <3> QED
      BY <2>1, <3>1, <3>2, <3>3, <3>4
  <2> QED
    BY <2>1, <2>2, <2>3, <2>4, <2>5
<1>2. ASSUME Write \/ EditConfiguration \/ UNCHANGED vars PROVE files'[cmd'[b].d][v] = data'[v]
  <2>1. cmd' = cmd /\ files' = files
    BY <1>2 DEF Write, EditConfiguration, vars, copies
  <2>2. running = {}
    BY <2>1 DEF Stopped, AloneAt
  <2>3. data'[v] = data[v]
    BY <1>0, <1>2, <2>2 DEF Write, EditConfiguration, vars, Change
  <2> QED
    BY <2>1, <2>3 DEF Copied, AloneAt
<1> QED
  BY <1>1, <1>2 DEF Next

LEMMA RestoringStep ==
  TypeOK /\ Alone /\ Stopped /\ Todo /\ Restoring /\ [Next]_vars => Restoring'
<1> SUFFICES ASSUME TypeOK, Alone, Stopped, Todo, Restoring, [Next]_vars, NEW b \in Command,
                    \/ AloneAt(b, {"swap", "start"})'
                    \/ AloneAt(b, {"stop"})' /\ cmd'[b].kind = "restore"
             PROVE  /\ files'[cmd'[b].d] = digest'[cmd'[b].d]
                    /\ cmd'[b].pc # "stop" =>
                         \A v \in Volume : v \notin cmd'[b].todo => data'[v] = files'[cmd'[b].d][v]
                    /\ cmd'[b].pc = "swap" /\ cmd'[b].todo # Volume => ~whole'
  BY DEF Restoring, AloneAt
<1> DEFINE Goal == /\ files'[cmd'[b].d] = digest'[cmd'[b].d]
                   /\ cmd'[b].pc # "stop" =>
                        \A v \in Volume : v \notin cmd'[b].todo
                                             => data'[v] = files'[cmd'[b].d][v]
                   /\ cmd'[b].pc = "swap" /\ cmd'[b].todo # Volume => ~whole'
<1>0. /\ Volume \subseteq Part /\ Configuration \notin Volume /\ Extra \notin Volume
      /\ data \in Vectors
  BY ConstantsAssumption DEF Part, TypeOK
<1>1. ASSUME NEW c \in Command, Run(c) PROVE Goal
  <2>1. /\ b = c /\ cmd'[c].pc \in {"stop", "swap", "start"}
        /\ cmd'[c].pc = "stop" => cmd'[c].kind = "restore"
        /\ \/ Begins(c) /\ cmd'[c].pc = "stop"
           \/ /\ Continues(c) /\ cmd[c].alone
              /\ \/ Preflight(c, TRUE) \/ Stop(c, TRUE) \/ SwapConfiguration(c)
                 \/ \E torn \in BOOLEAN : CopyConfiguration(c, torn)
                 \/ \E w \in Volume : CopyVolume(c, w) \/ Swap(c, w)
    BY <1>1, LoneTurn DEF AloneAt
  <2>2. CASE Begins(c)
    BY <2>1, <2>2, BeginTurn
  <2>3. ~Preflight(c, TRUE)
    BY <2>1, Turn DEF Preflight, Todo
  <2>4. /\ \A torn \in BOOLEAN : ~CopyConfiguration(c, torn)
        /\ \A w \in Volume : ~CopyVolume(c, w)
    BY <2>1, Turn, TodoTurn DEF CopyConfiguration, CopyVolume
  <2>5. ASSUME cmd[c].alone, Stop(c, TRUE) PROVE Goal
    <3>1. /\ cmd'[c].pc = "swap" /\ cmd[c].kind = "restore" /\ cmd'[c].d = cmd[c].d
          /\ cmd'[c].todo = Volume /\ cmd[c].pc = "stop"
      BY <2>1, <2>5, Turn DEF Stop, Todo
    <3>2. files[cmd[c].d] = digest[cmd[c].d]
      BY <2>5, <3>1 DEF Restoring, AloneAt
    <3> QED
      BY <2>1, <2>5, <3>1, <3>2 DEF Stop, copies
  <2>6. ASSUME cmd[c].alone, SwapConfiguration(c) PROVE Goal
    <3>1. /\ cmd[c].pc = "swap" /\ cmd'[c].pc = "start" /\ cmd'[c].d = cmd[c].d
          /\ cmd'[c].todo = cmd[c].todo /\ files' = files /\ digest' = digest
      BY <2>6, Turn DEF SwapConfiguration, copies
    <3>2. \A v \in Volume : data'[v] = data[v]
      BY <1>0, <2>6, ConstantsAssumption DEF SwapConfiguration, Overlay, Vectors
    <3> QED
      BY <2>1, <2>6, <3>1, <3>2 DEF Restoring, AloneAt
  <2>7. ASSUME cmd[c].alone, NEW w \in Volume, Swap(c, w) PROVE Goal
    <3>1. /\ cmd[c].pc = "swap" /\ cmd'[c].pc = "swap" /\ cmd'[c].d = cmd[c].d
          /\ cmd'[c].todo = cmd[c].todo \ {w} /\ files' = files /\ digest' = digest /\ ~whole'
      BY <2>7, TodoTurn DEF Swap, copies
    <3>2. \A v \in Volume : data'[v] = IF v = w THEN files[cmd[c].d][v] ELSE data[v]
      BY <1>0, <2>7 DEF Swap, Vectors
    <3> QED
      BY <2>1, <2>7, <3>1, <3>2 DEF Restoring, AloneAt
  <2> QED
    BY <2>1, <2>2, <2>3, <2>4, <2>5, <2>6, <2>7
<1>2. ASSUME Write \/ EditConfiguration \/ UNCHANGED vars PROVE Goal
  <2>1. cmd' = cmd /\ files' = files /\ digest' = digest /\ whole' = whole
    BY <1>2 DEF Write, EditConfiguration, vars, copies
  <2>2. cmd[b].pc # "stop" => running = {}
    BY <2>1 DEF Stopped, AloneAt
  <2>3. cmd[b].pc # "stop" => \A v \in Volume : data'[v] = data[v]
    BY <1>0, <1>2, <2>2 DEF Write, EditConfiguration, vars, Change
  <2> QED
    BY <2>1, <2>3 DEF Restoring, AloneAt
<1> QED
  BY <1>1, <1>2 DEF Next

\* Only making configuration.tgz leads to writing a manifest.
LEMMA NotSealing ==
  ASSUME TypeOK, NEW c \in Command, Continues(c), \A torn \in BOOLEAN : ~CopyConfiguration(c, torn)
  PROVE  cmd'[c].pc # "manifest"
<1>1. ASSUME NEW ok \in BOOLEAN, Preflight(c, ok) PROVE cmd'[c].pc # "manifest"
  BY <1>1, Turn, ExitTurn DEF Preflight, Idle
<1>2. ASSUME NEW ok \in BOOLEAN, Stop(c, ok) PROVE cmd'[c].pc # "manifest"
  BY <1>2, Turn, ExitTurn DEF Stop, Idle
<1>3. SwapConfiguration(c) => cmd'[c].pc # "manifest"
  BY Turn DEF SwapConfiguration
<1>4. \A v \in Volume : CopyVolume(c, v) \/ Swap(c, v) => cmd'[c].pc # "manifest"
  BY TodoTurn DEF CopyVolume, Swap
<1>5. TRUE \in BOOLEAN
  OBVIOUS
<1> QED
  BY <1>1, <1>2, <1>3, <1>4, <1>5, PcTurn

LEMMA SealersStep == TypeOK /\ Sealers /\ [Next]_vars => Sealers'
<1> SUFFICES ASSUME TypeOK, Sealers, [Next]_vars PROVE Sealers'
  OBVIOUS
<1>1. ASSUME NEW c \in Command, Run(c) PROVE Sealers'
  <2>1. CASE Begins(c)
    BY <2>1, BeginTurn DEF Sealers
  <2>2. ASSUME Continues(c), NEW torn \in BOOLEAN, CopyConfiguration(c, torn) PROVE Sealers'
    <3>1. /\ cmd[c].d \notin sealed /\ sealed' = sealed \union {cmd[c].d} /\ manifest' = manifest
          /\ cmd'[c].d = cmd[c].d /\ \A b \in Command \ {c} : cmd'[b] = cmd[b]
      BY <2>2, Turn DEF CopyConfiguration
    <3>2. cmd[c].d \notin manifest
      BY <3>1 DEF TypeOK
    <3> QED
      BY <3>1, <3>2 DEF Sealers
  <2>3. ASSUME Continues(c), \A torn \in BOOLEAN : ~CopyConfiguration(c, torn) PROVE Sealers'
    <3>1. cmd'[c].pc # "manifest"
      BY <2>3, NotSealing
    <3>2. \A b \in Command \ {c} : cmd'[b] = cmd[b]
      BY <2>3, ContinueTurn
    <3>3. /\ sealed \subseteq sealed'
          /\ \/ manifest' = manifest
             \/ cmd[c].pc = "manifest" /\ manifest' = manifest \union {cmd[c].d}
      <4>1. CASE \/ SetEnv(c) \/ ConfigurationFails(c) \/ WriteManifest(c) \/ ManifestFails(c)
                 \/ PullFails(c) \/ SwapConfiguration(c) \/ Kill(c)
        BY <4>1 DEF SetEnv, ConfigurationFails, WriteManifest, ManifestFails, PullFails,
           SwapConfiguration, Kill, copies
      <4>2. ASSUME NEW ok \in BOOLEAN,
                   \/ Renews(c) \/ Preflight(c, ok) \/ Stop(c, ok) \/ Up(c, ok)
                   \/ Upgrade(c, ok) \/ StartRestored(c, ok)
            PROVE  sealed' = sealed /\ manifest' = manifest
        BY <4>2 DEF Renews, Recreate, Preflight, Stop, Up, Upgrade, StartRestored, copies
      <4>3. ASSUME NEW v \in Volume, CopyVolume(c, v) \/ CopyFails(c, v) \/ Swap(c, v)
            PROVE  sealed' = sealed /\ manifest' = manifest
        BY <4>3 DEF CopyVolume, CopyFails, Swap, copies
      <4>4. ASSUME SwapsFail(c) PROVE sealed' = sealed /\ manifest' = manifest
        BY <4>4 DEF SwapsFail, SwapFails, SwapConfigurationFails, copies
      <4> QED
        BY <2>3, <4>1, <4>2, <4>3, <4>4 DEF Continues
    <3> QED
      BY <3>1, <3>2, <3>3 DEF Sealers
  <2> QED
    BY <1>1, <2>1, <2>2, <2>3, RunCases
<1>2. CASE Write \/ EditConfiguration \/ UNCHANGED vars
  BY <1>2 DEF Write, EditConfiguration, vars, Sealers, copies
<1> QED
  BY <1>1, <1>2 DEF Next

LEMMA PendingStep == TypeOK /\ Pending /\ [Next]_vars => Pending'
<1> DEFINE Owing == {"copy", "manifest", "up", "swap", "start"}
<1> SUFFICES ASSUME TypeOK, Pending, [Next]_vars, running' # Writer, ~harmed', whole'
             PROVE  \E b \in Command : cmd'[b].pc \in Owing
  BY DEF Pending
<1>1. ASSUME NEW c \in Command, Run(c) PROVE \E b \in Command : cmd'[b].pc \in Owing
  <2>1. ASSUME \A b \in Command : cmd[b].pc \in Owing => cmd'[b].pc \in Owing,
               running' = running, harmed' = harmed, whole' = whole
        PROVE  \E b \in Command : cmd'[b].pc \in Owing
    BY <2>1 DEF Pending
  <2>2. CASE Begins(c)
    BY <2>1, <2>2, BeginTurn
  <2>3. CASE Continues(c)
    <3>1. \A b \in Command \ {c} : cmd'[b] = cmd[b]
      BY <2>3, ContinueTurn
    <3>2. ASSUME NEW ok \in BOOLEAN, StartWriters(Writer, ok) PROVE FALSE
      BY <3>2 DEF StartWriters, TypeOK
    <3>3. ASSUME NEW ok \in BOOLEAN, Up(c, ok) \/ Upgrade(c, ok) \/ StartRestored(c, ok)
          PROVE  FALSE
      BY <3>2, <3>3 DEF Up, Upgrade, StartRestored
    <3>11. CASE Renews(c)
      <4>1. PICK T \in SUBSET Writer, ok \in BOOLEAN : Recreate(c, T, ok)
        BY <3>11 DEF Renews
      <4>2. ok /\ ~harmed /\ running' = running \union T /\ whole' = whole /\ cmd[c].pc = "renew"
        BY <4>1 DEF Recreate, StartWriters
      <4>3. running # Writer
        BY <4>2
      <4>4. PICK b \in Command : cmd[b].pc \in Owing
        BY <4>2, <4>3 DEF Pending
      <4> QED
        BY <3>1, <4>2, <4>4
    <3>4. ASSUME NEW ok \in BOOLEAN, Preflight(c, ok) \/ CopyConfiguration(c, ok)
          PROVE  \E b \in Command : cmd'[b].pc \in Owing
      <4>1. cmd[c].pc \in Owing => cmd'[c].pc \in Owing
        BY <3>4, Turn DEF Preflight, CopyConfiguration
      <4>2. running' = running /\ harmed' = harmed /\ whole' = whole
        BY <3>4 DEF Preflight, CopyConfiguration, appliance
      <4> QED
        BY <2>1, <3>1, <4>1, <4>2
    <3>5. ASSUME NEW ok \in BOOLEAN, Stop(c, ok)
          PROVE  \E b \in Command : cmd'[b].pc \in Owing
      <4>1. CASE ok
        BY <3>5, <4>1, Turn DEF Stop
      <4>2. CASE ~ok
        <5>1. running' = running /\ harmed' = harmed /\ whole' = whole /\ cmd[c].pc = "stop"
          BY <3>5, <4>2 DEF Stop, StopWriters, TypeOK
        <5> QED
          BY <2>1, <3>1, <5>1
      <4> QED
        BY <4>1, <4>2
    <3>6. CASE SetEnv(c) \/ ConfigurationFails(c) \/ WriteManifest(c) \/ ManifestFails(c)
               \/ PullFails(c)
      <4>1. cmd[c].pc \in Owing => cmd'[c].pc \in Owing
        BY <3>6, Turn DEF SetEnv, ConfigurationFails, WriteManifest, ManifestFails, PullFails
      <4>2. running' = running /\ harmed' = harmed /\ whole' = whole
        BY <3>6 DEF SetEnv, ConfigurationFails, WriteManifest, ManifestFails, PullFails, appliance
      <4> QED
        BY <2>1, <3>1, <4>1, <4>2
    <3>7. CASE SwapConfiguration(c)
      BY <3>7, Turn DEF SwapConfiguration
    <3>8. ~Kill(c)
      BY DEF Kill, appliance
    <3>9. ASSUME NEW v \in Volume, CopyVolume(c, v) \/ CopyFails(c, v)
          PROVE  \E b \in Command : cmd'[b].pc \in Owing
      BY <3>9, Turn, TodoTurn DEF CopyVolume, CopyFails
    <3>10. /\ \A v \in Volume : ~Swap(c, v)
           /\ ~SwapsFail(c)
      BY DEF Swap, SwapsFail, SwapFails, SwapConfigurationFails
    <3> QED
      BY <2>3, <3>3, <3>4, <3>5, <3>6, <3>7, <3>8, <3>9, <3>10, <3>11 DEF Continues
  <2> QED
    BY <1>1, <2>2, <2>3, RunCases
<1>2. CASE Write \/ EditConfiguration \/ UNCHANGED vars
  BY <1>2 DEF Write, EditConfiguration, vars, Pending
<1> QED
  BY <1>1, <1>2 DEF Next

LEMMA CompletedStep == TypeOK /\ Completed /\ [Next]_vars => Completed'
<1> SUFFICES ASSUME TypeOK, Completed, [Next]_vars PROVE Completed'
  OBVIOUS
<1>1. ASSUME NEW c \in Command, Run(c) PROVE Completed'
  <2>1. CASE Begins(c)
    BY <2>1, BeginTurn DEF Completed
  <2>2. CASE Continues(c)
    <3>1. \A b \in Command \ {c} : cmd'[b] = cmd[b]
      BY <2>2, ContinueTurn
    <3> DEFINE Safe == cmd'[c].pc = "pull" \/ (cmd'[c].pc = "up" /\ cmd'[c].ok)
                         => cmd'[c].d \in manifest'
    <3>2. CASE WriteManifest(c)
      <4>1. manifest' = manifest \union {cmd[c].d} /\ cmd'[c].d = cmd[c].d
        BY <3>2, Turn DEF WriteManifest
      <4> QED
        BY <3>1, <4>1 DEF Completed
    <3>3. CASE ~WriteManifest(c)
      <4>1. CASE \/ SetEnv(c) \/ ConfigurationFails(c) \/ ManifestFails(c)
                 \/ PullFails(c) \/ SwapConfiguration(c) \/ Kill(c)
        <5>1. manifest' = manifest
          BY <4>1 DEF SetEnv, ConfigurationFails, ManifestFails, PullFails,
             SwapConfiguration, Kill, copies
        <5>2. Safe
          BY <4>1, Turn, ExitTurn DEF SetEnv, ConfigurationFails, ManifestFails, PullFails,
             SwapConfiguration, Kill, Idle
        <5> QED
          BY <3>1, <5>1, <5>2 DEF Completed
      <4>2. ASSUME NEW ok \in BOOLEAN,
                   \/ Renews(c) \/ Preflight(c, ok) \/ Stop(c, ok)
                   \/ Upgrade(c, ok) \/ StartRestored(c, ok) \/ CopyConfiguration(c, ok)
            PROVE  Completed'
        <5>1. manifest' = manifest
          BY <4>2
             DEF Renews, Recreate, Preflight, Stop, Upgrade, StartRestored, CopyConfiguration, copies
        <5>2. Safe
          BY <4>2, Turn, ExitTurn DEF Renews, Recreate, Preflight, Stop, Upgrade, StartRestored,
             CopyConfiguration, Idle
        <5> QED
          BY <3>1, <5>1, <5>2 DEF Completed
      <4>3. ASSUME NEW ok \in BOOLEAN, Up(c, ok) PROVE Completed'
        <5>1. manifest' = manifest
          BY <4>3 DEF Up, copies
        <5>2. Safe
          BY <4>3, <5>1, Turn, ExitTurn DEF Up, Idle, Completed
        <5> QED
          BY <3>1, <5>1, <5>2 DEF Completed
      <4>4. ASSUME NEW v \in Volume, CopyVolume(c, v) \/ CopyFails(c, v) \/ Swap(c, v)
            PROVE  Completed'
        <5>1. manifest' = manifest
          BY <4>4 DEF CopyVolume, CopyFails, Swap, copies
        <5>2. Safe
          BY <4>4, Turn, TodoTurn DEF CopyVolume, CopyFails, Swap
        <5> QED
          BY <3>1, <5>1, <5>2 DEF Completed
      <4>5. ASSUME SwapsFail(c) PROVE Completed'
        <5>1. manifest' = manifest
          BY <4>5 DEF SwapsFail, SwapFails, SwapConfigurationFails, copies
        <5>2. Safe
          BY <4>5, ExitTurn DEF SwapsFail, SwapFails, SwapConfigurationFails, Idle
        <5> QED
          BY <3>1, <5>1, <5>2 DEF Completed
      <4> QED
        BY <2>2, <3>3, <4>1, <4>2, <4>3, <4>4, <4>5 DEF Continues
    <3> QED
      BY <3>2, <3>3
  <2> QED
    BY <1>1, <2>1, <2>2, RunCases
<1>2. CASE Write \/ EditConfiguration \/ UNCHANGED vars
  BY <1>2 DEF Write, EditConfiguration, vars, Completed, copies
<1> QED
  BY <1>1, <1>2 DEF Next

LEMMA Inductive == Spec => []IInv
<1>1. IInv /\ [Next]_vars => IInv'
  BY TypeStep, AloneStep, StoppedStep, TodoStep, CopiedStep, SealersStep, RestoringStep,
     PendingStep, CompletedStep DEF IInv
<1> QED
  BY InitIInv, <1>1, PTL DEF Spec

-----------------------------------------------------------------------------
\* Every state is one of the types the variables are declared with.
THEOREM TypeCorrect == Spec => []TypeOK
<1>1. IInv => TypeOK
  BY DEF IInv
<1> QED
  BY <1>1, Inductive, PTL

\* A restore that met no other command starts the containers on what the
\* checksums of the manifest it read are of.
THEOREM RestoreVerified == Spec => []RestoredIsVerified
<1>1. IInv => RestoredIsVerified
  <2> SUFFICES ASSUME IInv, NEW c \in Command, cmd[c].pc = "start", cmd[c].alone,
                      NEW v \in Volume
               PROVE  data[v] = digest[cmd[c].d][v]
    BY DEF RestoredIsVerified
  <2>1. v \notin cmd[c].todo
    BY DEF IInv, Todo
  <2> QED
    BY <2>1 DEF IInv, Restoring, AloneAt
<1> QED
  BY <1>1, Inductive, PTL

\* When every command has ended, the containers run, unless docker failed to
\* start or stop them, a command was killed, or a restore did not finish.
THEOREM ServiceBack == Spec => []ServiceIsBack
<1>1. IInv => ServiceIsBack
  BY DEF IInv, Pending, ServiceIsBack, Busy
<1> QED
  BY <1>1, Inductive, PTL

\* upgrade pulls the new release only after its backup is complete.
THEOREM UpgradeCopied == Spec => []UpgradeIsCopied
<1>1. IInv => UpgradeIsCopied
  BY DEF IInv, Completed, UpgradeIsCopied
<1> QED
  BY <1>1, Inductive, PTL

-----------------------------------------------------------------------------
(* Backup implements Copies. *)

Live == IF whole THEN {data} ELSE {}
Held == [d \in Dir |-> IF \E c \in Command : Sealing(c, d) THEN {files[d]} ELSE {}]
Kept == [d \in Dir |-> IF d \in good THEN {digest[d]} ELSE {}]

\* One process at most is sealing, and only when nobody else runs.
LEMMA OneSeals ==
  ASSUME IInv, NEW c \in Command, NEW d \in Dir, Sealing(c, d)
  PROVE  /\ Busy = {c} /\ cmd[c].d = d /\ whole /\ d \in sealed \ manifest
         /\ \A v \in Volume : files[d][v] = data[v]
<1>1. cmd[c].pc = "manifest" /\ cmd[c].d = d /\ cmd[c].alone /\ whole
  BY DEF Sealing
<1>2. Busy = {c}
  BY <1>1 DEF IInv, Alone, Busy
<1>3. d \in sealed \ manifest
  BY <1>1 DEF IInv, Sealers
<1>4. \A v \in Volume : files[d][v] = data[v]
  BY <1>1 DEF IInv, Todo, Copied, AloneAt
<1> QED
  BY <1>1, <1>2, <1>3, <1>4

LEMMA HeldNothing ==
  ASSUME IInv, \A c \in Command, d \in Dir : ~Sealing(c, d)
  PROVE  Held = [d \in Dir |-> {}]
BY DEF Held

\* One copy at most is held: all are forgotten in one step.
LEMMA Forgotten ==
  ASSUME IInv, Held' = [d \in Dir |-> {}]
  PROVE  Held' = Held \/ \E d \in Dir : Held' = [Held EXCEPT ![d] = {}]
<1>1. CASE \A b \in Command, d \in Dir : ~Sealing(b, d)
  BY <1>1, HeldNothing
<1>2. ASSUME NEW b \in Command, NEW d \in Dir, Sealing(b, d)
      PROVE  Held' = [Held EXCEPT ![d] = {}]
  <2>1. \A a \in Command, e \in Dir : Sealing(a, e) => e = d
    <3>1. Busy = {b} /\ cmd[b].d = d
      BY <1>2, OneSeals
    <3>2. \A a \in Command, e \in Dir : Sealing(a, e) => a \in Busy /\ cmd[a].d = e
      BY DEF Sealing, Busy
    <3> QED
      BY <3>1, <3>2
  <2>2. \A e \in Dir : e # d => Held[e] = {}
    BY <2>1 DEF Held
  <2> QED
    BY <2>2 DEF Held
<1> QED
  BY <1>1, <1>2

LEMMA BeginMapped ==
  ASSUME IInv, IInv', NEW c \in Command, Begins(c)
  PROVE  /\ Live' = Live /\ Kept' = Kept
         /\ Held' = Held \/ \E d \in Dir : Held' = [Held EXCEPT ![d] = {}]
<1> USE DEF IInv
<1>1. Live' = Live /\ Kept' = Kept
  <2>1. data' = data /\ whole' = whole /\ digest' = digest /\ good' = good
    BY BeginTurn
  <2> QED
    BY <2>1 DEF Live, Kept
<1>2. \A b \in Command, d \in Dir : ~Sealing(b, d)'
  BY BeginTurn DEF Sealing, Busy
<1>3. Held' = [d \in Dir |-> {}]
  BY <1>2 DEF Held
<1> QED
  BY <1>1, <1>3, Forgotten

\* After a step of c that does not make configuration.tgz nothing is held.
LEMMA NothingHeld ==
  ASSUME IInv, NEW c \in Command, Run(c), Continues(c),
         \A torn \in BOOLEAN : ~CopyConfiguration(c, torn)
  PROVE  Held' = [d \in Dir |-> {}]
<1>1. ASSUME NEW b \in Command, NEW d \in Dir, Sealing(b, d)' PROVE FALSE
  <2>1. b \in Busy' /\ cmd'[b].alone /\ cmd'[b].pc = "manifest"
    BY <1>1 DEF Sealing, Busy
  <2>2. b = c
    BY <2>1, OnlyOne DEF IInv
  <2> QED
    BY <2>1, <2>2, NotSealing DEF IInv
<1> QED
  BY <1>1 DEF Held

\* When a command that is not sealing steps, nothing was held before.
LEMMA HeldBefore ==
  ASSUME IInv, NEW c \in Command, c \in Busy, cmd[c].pc # "manifest"
  PROVE  Held = [d \in Dir |-> {}]
<1>1. ASSUME NEW b \in Command, NEW d \in Dir, Sealing(b, d) PROVE FALSE
  <2>1. Busy = {b} /\ cmd[b].pc = "manifest"
    BY <1>1, OneSeals DEF Sealing
  <2> QED
    BY <2>1
<1> QED
  BY <1>1, HeldNothing

LEMMA SameVector ==
  ASSUME NEW f \in Vectors, NEW g \in Vectors, f[Configuration] = g[Configuration],
         f[Extra] = g[Extra], \A v \in Volume : f[v] = g[v]
  PROVE  f = g
BY DEF Vectors, Part

LEMMA CopyMapped ==
  ASSUME IInv, IInv', NEW c \in Command, NEW torn \in BOOLEAN, Run(c), CopyConfiguration(c, torn)
  PROVE  /\ Live' = Live /\ Kept' = Kept
         /\ Held' = Held \/ \E d \in Dir : Held' = [Held EXCEPT ![d] = Live]
<1>1. Live' = Live /\ Kept' = Kept
  BY DEF CopyConfiguration, Live, Kept, appliance
<1>2. Held = [d \in Dir |-> {}]
  BY HeldBefore DEF CopyConfiguration, Busy
<1>3. CASE \A b \in Command, d \in Dir : ~Sealing(b, d)'
  BY <1>1, <1>2, <1>3 DEF Held
<1>4. ASSUME NEW b \in Command, NEW d \in Dir, Sealing(b, d)'
      PROVE  Held' = [Held EXCEPT ![d] = Live]
  <2>1. b \in Busy' /\ cmd'[b].alone /\ cmd'[b].d = d /\ whole' /\ files'[d][Configuration] # 0
    BY <1>4 DEF Sealing, Busy
  <2>3. b = c /\ cmd'[c].d = cmd[c].d
    BY <2>1, OnlyOne, Turn DEF IInv, CopyConfiguration
  <2>2. /\ \A a \in Command, e \in Dir : Sealing(a, e)' => e = d
        /\ \A v \in Volume : files'[d][v] = data'[v]
    <3>1. ASSUME NEW a \in Command, NEW e \in Dir, Sealing(a, e)' PROVE e = d
      <4>1. a \in Busy' /\ cmd'[a].alone /\ cmd'[a].d = e
        BY <3>1 DEF Sealing, Busy
      <4>2. a = c
        BY <4>1, OnlyOne DEF IInv
      <4> QED
        BY <2>1, <2>3, <4>1, <4>2
    <3>2. cmd'[b].pc = "manifest"
      BY <1>4 DEF Sealing
    <3>3. \A v \in Volume : files'[d][v] = data'[v]
      BY <2>1, <3>2 DEF IInv, Todo, Copied, AloneAt
    <3> QED
      BY <3>1, <3>3
  <2>4. /\ ~torn /\ data' = data /\ whole /\ files'[d][Configuration] = data[Configuration]
        /\ files'[d][Extra] = data[Extra]
    <3>1. /\ files \in [Dir -> Vectors] /\ Configuration \in Part /\ Extra \in Part
          /\ cmd[c].d \in Dir /\ Configuration \notin Volume /\ Extra \notin Volume
      BY ConstantsAssumption DEF IInv, TypeOK, Part, Processes
    <3>2. files'[d] = [p \in Part |-> IF p \in Volume THEN files[d][p]
                                     ELSE IF torn THEN 0 ELSE data[p]]
      BY <2>1, <2>3, <3>1 DEF CopyConfiguration
    <3> QED
      BY <2>1, <2>3, <3>1, <3>2 DEF CopyConfiguration, appliance
  <2>5. files'[d] = data
    <3>1. files'[d] \in Vectors /\ data \in Vectors
      BY DEF IInv, TypeOK
    <3> QED
      BY <2>2, <2>4, <3>1, SameVector
  <2>6. Live = {data}
    BY <2>4 DEF Live
  <2>7. Held' = [e \in Dir |-> IF e = d THEN {files'[d]} ELSE {}]
    BY <1>4, <2>2 DEF Held
  <2> QED
    BY <1>2, <2>5, <2>6, <2>7
<1> QED
  BY <1>1, <1>3, <1>4

LEMMA ManifestMapped ==
  ASSUME IInv, IInv', NEW c \in Command, Run(c), WriteManifest(c)
  PROVE  /\ Live' = Live
         /\ \/ Held' = Held /\ Kept' = Kept
            \/ \E d \in Dir : /\ Held[d] # {}
                              /\ Held' = [Held EXCEPT ![d] = {}]
                              /\ Kept' = [Kept EXCEPT ![d] = Held[d]]
<1> DEFINE d == cmd[c].d
<1>1. /\ cmd[c].pc = "manifest" /\ c \in Busy /\ d \in Dir /\ d \in sealed \ manifest
      /\ files' = files /\ manifest' = manifest \union {d}
      /\ digest' = [digest EXCEPT ![d] = files[d]]
      /\ good' = IF Sealing(c, d) THEN good \union {d} ELSE good
  BY DEF WriteManifest, Busy, IInv, TypeOK, Processes, Sealers, appliance
<1>2. Live' = Live
  BY DEF WriteManifest, Live, appliance
<1>3. Held' = [e \in Dir |-> {}]
  <2>1. Continues(c) /\ \A torn \in BOOLEAN : ~CopyConfiguration(c, torn)
    BY DEF Continues, WriteManifest, CopyConfiguration
  <2> QED
    BY <2>1, NothingHeld
<1>4. d \notin good /\ digest \in [Dir -> Vectors] /\ good \subseteq Dir
  BY <1>1 DEF IInv, TypeOK
<1>5. CASE Sealing(c, d)
  <2>1. \A a \in Command, e \in Dir : Sealing(a, e) => e = d
    <3>1. Busy = {c}
      BY <1>1, <1>5, OneSeals
    <3>2. \A a \in Command, e \in Dir : Sealing(a, e) => a \in Busy /\ cmd[a].d = e
      BY DEF Sealing, Busy
    <3> QED
      BY <3>1, <3>2
  <2>2. Held = [e \in Dir |-> IF e = d THEN {files[d]} ELSE {}]
    BY <1>1, <1>5, <2>1 DEF Held
  <2>3. Kept' = [Kept EXCEPT ![d] = {files[d]}]
    BY <1>1, <1>4, <1>5 DEF Kept
  <2>4. Held[d] = {files[d]} /\ Held' = [Held EXCEPT ![d] = {}]
    BY <1>1, <1>3, <2>2
  <2> QED
    BY <1>1, <1>2, <2>3, <2>4
<1>6. CASE ~Sealing(c, d)
  <2>1. Kept' = Kept
    BY <1>1, <1>4, <1>6 DEF Kept
  <2>2. \A a \in Command, e \in Dir : ~Sealing(a, e)
    <3>1. ASSUME NEW a \in Command, NEW e \in Dir, Sealing(a, e) PROVE FALSE
      <4>1. Busy = {a} /\ cmd[a].d = e
        BY <3>1, OneSeals
      <4> QED
        BY <1>1, <1>6, <3>1, <4>1
    <3> QED
      BY <3>1
  <2> QED
    BY <1>2, <1>3, <2>1, <2>2, HeldNothing
<1> QED
  BY <1>5, <1>6

\* What a restore does to the data: they are mixed, or the copy laid over them.
LEMMA SwapMapped ==
  ASSUME IInv, IInv', NEW c \in Command, Run(c), SwapConfiguration(c)
  PROVE  /\ Held' = Held /\ Kept' = Kept
         /\ \/ Live' = {}
            \/ \E d \in Dir : /\ Live = {}
                              /\ \E v \in Kept[d], w \in Vectors : Live' = {Promise!Over(v, w)}
<1> DEFINE d == cmd[c].d
<1>1. /\ cmd[c].pc = "swap" /\ c \in Busy /\ d \in Dir /\ cmd[c].todo = {}
      /\ data' = Overlay(d)
      /\ whole' = (cmd[c].alone /\ d \in good)
      /\ good' = good /\ digest' = digest
  BY DEF SwapConfiguration, Busy, IInv, TypeOK, Processes, copies
<1>2. Kept' = Kept
  BY <1>1 DEF Kept
<1>3. Held' = Held
  <2>1. Continues(c) /\ \A torn \in BOOLEAN : ~CopyConfiguration(c, torn)
    BY DEF Continues, SwapConfiguration, CopyConfiguration
  <2> QED
    BY <1>1, <2>1, NothingHeld, HeldBefore
<1>4. CASE ~whole'
  BY <1>2, <1>3, <1>4 DEF Live
<1>5. ASSUME whole'
      PROVE  /\ Live = {} /\ Kept[d] = {digest[d]} /\ data \in Vectors
             /\ Live' = {Promise!Over(digest[d], data)}
  <2>1. cmd[c].alone /\ d \in good
    BY <1>1, <1>5
  <2>2. ~whole /\ files[d] = digest[d] /\ \A v \in Volume : data[v] = files[d][v]
    BY <1>1, <2>1, ConstantsAssumption DEF IInv, Restoring, AloneAt
  <2>3. data \in Vectors /\ digest[d] \in Vectors
    BY <1>1 DEF IInv, TypeOK
  <2>4. data' = Promise!Over(digest[d], data)
    <3>1. Configuration # Extra /\ \A v \in Volume : v # Configuration /\ v # Extra
      BY ConstantsAssumption DEF Configuration, Extra
    <3>2. DOMAIN digest[d] = Part /\ Configuration \in Part /\ Extra \in Part
      BY <2>3 DEF Vectors, Part
    <3>3. \A p \in Part :
            Overlay(d)[p] = IF p \in {Extra} /\ digest[d][p] = 0 THEN data[p] ELSE digest[d][p]
      BY <2>2, <2>3, <3>1, <3>2 DEF Overlay, Vectors, Part
    <3>4. Overlay(d) = [p \in Part |-> Overlay(d)[p]]
      BY <2>3 DEF Overlay, Vectors
    <3> QED
      BY <1>1, <3>2, <3>3, <3>4 DEF Promise!Over
  <2> QED
    BY <1>1, <1>5, <2>1, <2>2, <2>3, <2>4 DEF Live, Kept
<1>6. whole' => \E e \in Dir : /\ Live = {}
                             /\ \E v \in Kept[e], w \in Vectors : Live' = {Promise!Over(v, w)}
  BY <1>1, <1>5
<1> QED
  BY <1>2, <1>3, <1>4, <1>6

\* The other steps of a command change what is held or the data, never a copy.
LEMMA OtherMapped ==
  ASSUME IInv, IInv', NEW c \in Command, Run(c), Continues(c),
         ~WriteManifest(c), ~SwapConfiguration(c),
         \A torn \in BOOLEAN : ~CopyConfiguration(c, torn)
  PROVE  /\ Kept' = Kept
         /\ \/ /\ Live' = Live
               /\ Held' = Held \/ \E d \in Dir : Held' = [Held EXCEPT ![d] = {}]
            \/ /\ Held' = Held
               /\ Live' = {} \/ (Live # {} /\ \E v \in Vectors : Live' = {v})
<1>1. Held' = [d \in Dir |-> {}]
  BY NothingHeld
<1>2. Held' = Held \/ \E d \in Dir : Held' = [Held EXCEPT ![d] = {}]
  BY <1>1, Forgotten
<1>3. ASSUME data' = data, whole' = whole, digest' = digest, good' = good
      PROVE  Live' = Live /\ Kept' = Kept
  BY <1>3 DEF Live, Kept
<1>4. CASE SetEnv(c)
  <2>1. whole' = whole /\ digest' = digest /\ good' = good /\ cmd[c].pc = "edit" /\ c \in Busy
    BY <1>4 DEF SetEnv, copies, Busy
  <2>2. Kept' = Kept /\ Held' = Held
    BY <1>1, <2>1, HeldBefore DEF Kept
  <2>3. data' \in Vectors
    BY DEF IInv, TypeOK
  <2>4. Live' = {} \/ (Live # {} /\ Live' = {data'})
    BY <2>1 DEF Live
  <2> QED
    BY <2>2, <2>3, <2>4
<1>5. CASE \/ ConfigurationFails(c) \/ ManifestFails(c) \/ PullFails(c) \/ Kill(c)
  <2>1. data' = data /\ whole' = whole /\ digest' = digest /\ good' = good
    BY <1>5 DEF ConfigurationFails, ManifestFails, PullFails, Kill, appliance, copies
  <2> QED
    BY <1>2, <1>3, <2>1
<1>6. ASSUME NEW ok \in BOOLEAN,
             \/ Renews(c) \/ Preflight(c, ok) \/ Stop(c, ok) \/ Up(c, ok)
             \/ Upgrade(c, ok) \/ StartRestored(c, ok)
      PROVE  Live' = Live /\ Kept' = Kept
  BY <1>3, <1>6
     DEF Renews, Recreate, Preflight, Stop, Up, Upgrade, StartRestored, appliance, copies
<1>7. ASSUME NEW v \in Volume, CopyVolume(c, v) \/ CopyFails(c, v)
      PROVE  Live' = Live /\ Kept' = Kept
  BY <1>3, <1>7 DEF CopyVolume, CopyFails, appliance
<1>8. ASSUME NEW v \in Volume, Swap(c, v)
      PROVE  Kept' = Kept /\ Held' = Held /\ Live' = {}
  <2>1. ~whole' /\ digest' = digest /\ good' = good /\ cmd[c].pc = "swap" /\ c \in Busy
    BY <1>8 DEF Swap, copies, Busy
  <2> QED
    BY <1>1, <2>1, HeldBefore DEF Kept, Live
<1>9. ASSUME SwapsFail(c)
      PROVE  Kept' = Kept /\ Held' = Held /\ Live' = {}
  <2>1. ~whole' /\ digest' = digest /\ good' = good /\ cmd[c].pc = "swap" /\ c \in Busy
    BY <1>9 DEF SwapsFail, SwapFails, SwapConfigurationFails, copies, Busy
  <2> QED
    BY <1>1, <2>1, HeldBefore DEF Kept, Live
<1> QED
  BY <1>2, <1>4, <1>5, <1>6, <1>7, <1>8, <1>9 DEF Continues

\* The appliance's own writes, and the operator's.
LEMMA ChangeMapped ==
  ASSUME IInv, IInv', Write \/ EditConfiguration
  PROVE  /\ Held' = Held /\ Kept' = Kept
         /\ Live' = {} \/ (Live # {} /\ \E v \in Vectors : Live' = {v})
<1>1. /\ files' = files /\ digest' = digest /\ cmd' = cmd /\ whole' = whole /\ good' = good
  BY DEF Write, EditConfiguration, copies
<1>2. Held' = Held /\ Kept' = Kept
  BY <1>1 DEF Held, Kept, Sealing
<1>3. data' \in Vectors
  BY DEF IInv, TypeOK
<1> QED
  BY <1>1, <1>2, <1>3 DEF Live

LEMMA InitMapped == Init => Promise!Init
<1> SUFFICES ASSUME Init PROVE Promise!Init
  OBVIOUS
<1>1. data \in Vectors /\ whole /\ good = {}
  BY InitIInv DEF Init, IInv, TypeOK
<1>2. \A c \in Command, d \in Dir : ~Sealing(c, d)
  BY DEF Init, Sealing, Idle
<1> QED
  BY <1>1, <1>2 DEF Promise!Init

LEMMA StepMapped ==
  ASSUME IInv, IInv', [Next]_vars
  PROVE  [Promise!Next]_<<Live, Held, Kept>>
<1> DEFINE Goal == Promise!Next \/ UNCHANGED <<Live, Held, Kept>>
<1>1. ASSUME Held' = Held, Kept' = Kept,
             Live' = {} \/ (Live # {} /\ \E v \in Vectors : Live' = {v})
      PROVE  Goal
  BY <1>1 DEF Promise!Next, Promise!Change, Promise!Mix, Live, Held, Kept
<1>2. ASSUME Live' = Live, Kept' = Kept,
             Held' = Held \/ \E d \in Dir : Held' = [Held EXCEPT ![d] = {}]
      PROVE  Goal
  BY <1>2 DEF Promise!Next, Promise!Forget, Live, Held, Kept
<1>3. ASSUME NEW c \in Command, Run(c) PROVE Goal
  <2>1. CASE Begins(c)
    BY <1>2, <2>1, BeginMapped
  <2>2. CASE \E torn \in BOOLEAN : CopyConfiguration(c, torn)
    <3>1. /\ Live' = Live /\ Kept' = Kept
          /\ Held' = Held \/ \E d \in Dir : Held' = [Held EXCEPT ![d] = Live]
      BY <1>3, <2>2, CopyMapped
    <3> QED
      BY <3>1 DEF Promise!Next, Promise!Copy, Live, Held, Kept
  <2>3. CASE WriteManifest(c)
    <3>1. /\ Live' = Live
          /\ \/ Held' = Held /\ Kept' = Kept
             \/ \E d \in Dir : /\ Held[d] # {}
                               /\ Held' = [Held EXCEPT ![d] = {}]
                               /\ Kept' = [Kept EXCEPT ![d] = Held[d]]
      BY <1>3, <2>3, ManifestMapped
    <3> QED
      BY <3>1 DEF Promise!Next, Promise!Keep, Live, Held, Kept
  <2>4. CASE SwapConfiguration(c)
    <3>1. /\ Held' = Held /\ Kept' = Kept
          /\ \/ Live' = {}
             \/ \E d \in Dir : /\ Live = {}
                               /\ \E v \in Kept[d], w \in Vectors :
                                    Live' = {Promise!Over(v, w)}
      BY <1>3, <2>4, SwapMapped
    <3> QED
      BY <1>1, <3>1 DEF Promise!Next, Promise!Restore, Live, Held, Kept
  <2>5. CASE /\ Continues(c) /\ ~WriteManifest(c) /\ ~SwapConfiguration(c)
             /\ \A torn \in BOOLEAN : ~CopyConfiguration(c, torn)
    BY <1>1, <1>2, <1>3, <2>5, OtherMapped
  <2> QED
    BY <1>3, <2>1, <2>2, <2>3, <2>4, <2>5, RunCases
<1>4. CASE Write \/ EditConfiguration
  BY <1>1, <1>4, ChangeMapped
<1>5. CASE UNCHANGED vars
  BY <1>5 DEF vars, Live, Held, Kept, Sealing
<1> QED
  BY <1>3, <1>4, <1>5 DEF Next

\* backup and restore, with whatever else runs, fails or is killed, do what
\* Copies promises: they implement it under the mapping of Backup.
THEOREM CopiesKept == Spec => CopiesArePromised
<1>1. IInv /\ IInv' /\ [Next]_vars => [Promise!Next]_<<Live, Held, Kept>>
  BY StepMapped
<1> QED
  BY <1>1, InitMapped, Inductive, PTL
     DEF Spec, CopiesArePromised, Promise!Spec, Live, Held, Kept
=============================================================================
