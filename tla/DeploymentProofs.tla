-------------------------- MODULE DeploymentProofs --------------------------
(***************************************************************************)
(* A machine that runs gcit: the daemons that come up on it exclude one    *)
(* another, install and uninstall keep files, manifest and account         *)
(* consistent, its configuration is validated completely, and the          *)
(* credentials and sources that follow from it are shared as they should   *)
(* be, for any number of processes, outputs, commands, flows, credentials  *)
(* and hosts.                                                              *)
(***************************************************************************)
EXTENDS Deployment, ConfigRules, SourcePoll, SequenceTheorems, TLAPS

-----------------------------------------------------------------------------
(* The daemons. *)

\* Who has come as far as the lock holds it; an inherited listener is never replaced,
\* and only a process without one looks at what the socket path leads to.
BootInv ==
    /\ BootTypeOK
    /\ \A p \in Procs : boot[p] \in HoldsState \cup {"locked"} => lock = p
    /\ activated => sock = "systemd"
    /\ \A p \in Procs : boot[p] \in {"found_stale", "free"} => ~activated
    /\ ReadyIsReachable

LEMMA BootInvInit == BootInit => BootInv
  BY BootAssumption DEF BootInit, BootInv, BootTypeOK, Phases, HoldsState, ReadyIsReachable, Listening

\* A process that is gone, in whatever way, takes only what is its own.
LEMMA GonePreserves ==
  ASSUME BootInv, NEW p \in Procs, NEW to \in {"exited", "failing", "failed"}, Gone(p, to)
  PROVE  BootInv'
  BY BootAssumption DEF BootInv, BootTypeOK, Phases, HoldsState, ReadyIsReachable, Listening, Gone

\* One step of one process, or its end.
LEMMA BootStepPreserves ==
  ASSUME BootInv, NEW p \in Procs, BootStep(p) \/ Kill(p)
  PROVE  BootInv'
<1> USE BootAssumption DEF BootInv, BootTypeOK, Phases, HoldsState, ReadyIsReachable, Listening, To
<1>1. CASE \E to \in {"exited", "failing", "failed"} : Gone(p, to)
  BY <1>1, GonePreserves
<1>2. CASE LoadConfig(p)
  BY <1>1, <1>2 DEF LoadConfig
<1>3. CASE TryLock(p)
  BY <1>1, <1>3 DEF TryLock
<1>4. CASE LoadState(p)
  BY <1>1, <1>4 DEF LoadState
<1>5. CASE SpawnInitialFlows(p)
  BY <1>1, <1>5 DEF SpawnInitialFlows, Fails
<1>6. CASE ~activated /\ ProbeSocket(p)
  BY <1>1, <1>6 DEF ProbeSocket, Fails
<1>7. CASE RemoveStale(p)
  BY <1>7 DEF RemoveStale
<1>8. CASE Bind(p)
  BY <1>1, <1>8 DEF Bind, Fails
<1>9. CASE Inherit(p)
  BY <1>9 DEF Inherit
<1>10. CASE NotifyReady(p)
  BY <1>1, <1>10 DEF NotifyReady, Fails
<1>11. CASE ProcessEnds(p)
  BY <1>1, <1>11 DEF ProcessEnds
<1>12. CASE Kill(p)
  BY <1>1, <1>12 DEF Kill
<1> QED
  BY <1>2, <1>3, <1>4, <1>5, <1>6, <1>7, <1>8, <1>9, <1>10, <1>11, <1>12 DEF BootStep

\* Of any number of processes that start, fail and are killed at any step, one at
\* most works on state.json, and the socket leads to it (run_with_factories,
\* accept_control_socket_from_fds).
THEOREM BootExclusiveCorrect == Spec => []BootIsExclusive
<1>1. Init => BootInv
  BY BootInvInit DEF Init
<1>2. BootInv /\ [Next]_vars => BootInv'
  <2> SUFFICES ASSUME BootInv, [Next]_vars PROVE BootInv'
    OBVIOUS
  <2>1. CASE UNCHANGED bootVars
    BY <2>1 DEF bootVars, BootInv, BootTypeOK, HoldsState, ReadyIsReachable, Listening
  <2>2. ASSUME NEW p \in Procs, DaemonStep(p) PROVE BootInv'
    BY <2>2, BootStepPreserves DEF DaemonStep
  <2>3. ASSUME NEW p \in Procs, DaemonStops(p) PROVE BootInv'
    BY <2>3, GonePreserves DEF DaemonStops
  <2> QED
    BY <2>1, <2>2, <2>3 DEF Next, vars
<1>3. BootInv => BootIsExclusive
  BY DEF BootInv, BootIsExclusive, OneDaemon
<1> QED
  BY <1>1, <1>2, <1>3, PTL DEF Spec

-----------------------------------------------------------------------------
(* Install and uninstall. *)

Uninstalling == op # Absent /\ op.cmd = "uninstall"

\* Who says that the account is gcit's own is right about it.
AccountInv ==
    /\ op # Absent /\ op.cmd = "install" /\ op.created => account = "created"
    /\ manifest # Absent /\ manifest.created => account = "created"
    /\ proposed => account = "created"
    /\ Uninstalling => manifest # Absent

\* An uninstall without --force that has compared the digests meets later edits only.
SpareInv ==
    Uninstalling /\ ~op.force => \A f \in Files : files[f] = Edited => f \in unseen

\* As long as nothing failed, what lies behind the loop is gone or was put back.
RemovedInv ==
    Uninstalling /\ ~op.failed =>
        \A i \in 1 .. op.at - 1 : files[Outputs[i]] = Absent \/ Outputs[i] \in unseen

InstallInv == InstallTypeOK /\ AccountInv /\ SpareInv /\ RemovedInv

LEMMA OutputsAreFiles ==
  /\ Len(Outputs) \in Nat
  /\ \A i \in 1 .. Len(Outputs) : Outputs[i] \in Files
  /\ \A f \in Files : \E i \in 1 .. Len(Outputs) : Outputs[i] = f
  BY InstallAssumption DEF InstallAssumption, Files, ToSet

LEMMA InstallInvInit == InstallInit => InstallInv
<1> SUFFICES ASSUME InstallInit PROVE InstallInv
  OBVIOUS
<1>1. InstallTypeOK
  <2>1. files \in [Files -> Contents \cup {Absent}]
    BY DEF InstallInit
  <2>2. ops \in 0..MaxOps /\ edits \in 0..MaxEdits
    BY InstallAssumption DEF InstallInit, InstallAssumption
  <2>3. unseen \subseteq Files /\ proposed \in BOOLEAN
    BY DEF InstallInit
  <2> QED
    BY <2>1, <2>2, <2>3 DEF InstallInit, InstallTypeOK
<1>2. AccountInv /\ SpareInv /\ RemovedInv
  BY DEF InstallInit, AccountInv, SpareInv, RemovedInv, Uninstalling
<1> QED
  BY <1>1, <1>2 DEF InstallInv

InstallCommand == [cmd : {"install"}, mail : BOOLEAN, rev : 0..MaxRev, text : 0..MaxRev,
                   created : BOOLEAN, at : 0..Len(Outputs) + 1]
UninstallCommand == [cmd : {"uninstall"}, force : BOOLEAN, failed : BOOLEAN,
                     at : 1..Len(Outputs) + 1]

\* What the fields of a running command are.
LEMMA CommandFields ==
  ASSUME InstallTypeOK, op # Absent
  PROVE  /\ op.cmd = "install" => op \in InstallCommand
         /\ op.cmd = "uninstall" => op \in UninstallCommand
         /\ op.cmd \in {"install", "uninstall"}
  BY DEF InstallTypeOK, Command, InstallCommand, UninstallCommand

LEMMA Commands == Command = InstallCommand \cup UninstallCommand
  BY DEF Command, InstallCommand, UninstallCommand

\* The two ways a command's record changes on its way.
LEMMA NextInstallCommand ==
  ASSUME NEW c \in InstallCommand, NEW b \in BOOLEAN, NEW n \in 0..Len(Outputs) + 1
  PROVE  [c EXCEPT !.at = n, !.created = b] \in InstallCommand
  BY DEF InstallCommand

\* One entry of uninstall's loop, field by field.
LEMMA RemoveFields ==
  ASSUME InstallTypeOK, RemoveEntry
  PROVE  /\ op # Absent /\ op \in UninstallCommand /\ op.at \in 1..Len(Outputs)
         /\ op' \in UninstallCommand /\ op'.force = op.force /\ op'.at = op.at + 1
         /\ \/ op'.failed = op.failed /\ files' = [files EXCEPT ![Outputs[op.at]] = Absent]
            \/ op'.failed = TRUE /\ UNCHANGED files
            \/ op'.failed = op.failed /\ UNCHANGED files /\ Outputs[op.at] \in unseen'
         /\ unseen \subseteq unseen' /\ unseen' \subseteq unseen \cup {Outputs[op.at]}
<1>1. op # Absent /\ op \in UninstallCommand /\ op.at \in 1..Len(Outputs)
  BY CommandFields DEF RemoveEntry
<1>2. op.at + 1 \in 1..Len(Outputs) + 1
  BY <1>1, OutputsAreFiles
<1>3. CASE op' = [op EXCEPT !.at = @ + 1] /\ files' = [files EXCEPT ![Outputs[op.at]] = Absent]
  BY <1>1, <1>2, <1>3 DEF UninstallCommand, RemoveEntry
<1>4. CASE op' = [op EXCEPT !.at = @ + 1, !.failed = TRUE] /\ UNCHANGED files
  <2>1. op' \in UninstallCommand
    BY <1>1, <1>2, <1>4 DEF UninstallCommand
  <2>2. op'.force = op.force /\ op'.at = op.at + 1 /\ op'.failed = TRUE
    BY <1>1, <1>4 DEF UninstallCommand
  <2> QED
    BY <1>1, <1>4, <2>1, <2>2 DEF RemoveEntry
<1>5. CASE /\ op' = [op EXCEPT !.at = @ + 1] /\ UNCHANGED files
           /\ unseen' = unseen \cup {Outputs[op.at]}
  BY <1>1, <1>2, <1>5 DEF UninstallCommand
<1> QED
  BY <1>3, <1>4, <1>5 DEF RemoveEntry

LEMMA InstallTypePreserved ==
  ASSUME InstallTypeOK, InstallNext
  PROVE  InstallTypeOK'
<1> USE InstallAssumption, OutputsAreFiles, CommandFields, Commands
    DEF InstallAssumption, InstallTypeOK
<1>1. CASE StartInstall
  <2>1. op' \in InstallCommand
    BY <1>1 DEF StartInstall, InstallCommand
  <2>2. unseen' \subseteq Files /\ proposed' \in BOOLEAN
    BY <1>1 DEF StartInstall
  <2>3. ops' \in 0..MaxOps
    BY <1>1 DEF StartInstall
  <2> QED
    BY <1>1, <2>1, <2>2, <2>3 DEF StartInstall
<1>2. CASE EnsureStaticUser
  <2>1. op \in InstallCommand /\ 1 \in 0..Len(Outputs) + 1
    BY <1>2 DEF Installing, EnsureStaticUser
  <2>2. CASE op' = [op EXCEPT !.at = 1, !.created = ClassifyUseraddExit(account # "none")]
    <3>1. ClassifyUseraddExit(account # "none") \in BOOLEAN
      BY DEF ClassifyUseraddExit
    <3>2. op' \in InstallCommand
      BY <2>1, <2>2, <3>1, NextInstallCommand
    <3> QED
      BY <1>2, <3>2 DEF EnsureStaticUser
  <2>3. CASE op' = [op EXCEPT !.at = 1]
    BY <1>2, <2>1, <2>3 DEF EnsureStaticUser, InstallCommand
  <2> QED
    BY <1>2, <2>2, <2>3 DEF EnsureStaticUser, Stop
<1>3. CASE WriteOutput
  <2>1. op \in InstallCommand /\ op.at \in 1..Len(Outputs)
    BY <1>3 DEF WriteOutput
  <2>2. op' \in InstallCommand \cup {Absent}
    BY SMTT(30), <1>3, <2>1 DEF WriteOutput, Stop, InstallCommand
  <2>3. files' \in [Files -> Contents \cup {Absent}]
    <3>1. op.text \in 0..MaxRev /\ op.rev \in 0..MaxRev
      BY <2>1 DEF InstallCommand
    <3>2. Rendered(Outputs[op.at]) \in Contents
      BY <3>1 DEF Rendered, Contents
    <3>3. Outputs[op.at] \in Files
      BY <2>1
    <3> QED
      BY <1>3, <3>2, <3>3 DEF WriteOutput
  <2> QED
    BY <1>3, <2>2, <2>3 DEF WriteOutput
<1>4. CASE WriteManifest
  BY <1>4 DEF WriteManifest, Installing, Stop, Rendered, Manifest, InstallCommand
<1>5. CASE StartUninstall
  <2>1. op' \in UninstallCommand
    BY <1>5 DEF StartUninstall, UninstallCommand
  <2>2. unseen' \subseteq Files /\ proposed' \in BOOLEAN
    BY <1>5 DEF StartUninstall
  <2>3. ops' \in 0..MaxOps
    BY <1>5 DEF StartUninstall
  <2> QED
    BY <1>5, <2>1, <2>2, <2>3 DEF StartUninstall
<1>6. CASE RemoveEntry
  <2>1. files' \in [Files -> Contents \cup {Absent}]
    BY <1>6, RemoveFields
  <2> QED
    BY <1>6, <2>1, RemoveFields DEF RemoveEntry
<1>7. CASE FinishUninstall
  BY <1>7 DEF FinishUninstall, Stop, AllRemoved, Manifest
<1>8. CASE Interrupt
  BY <1>8 DEF Interrupt, Stop
<1>9. CASE OperatorEdits
  BY <1>9 DEF OperatorEdits, Edited, Contents
<1> QED
  BY <1>1, <1>2, <1>3, <1>4, <1>5, <1>6, <1>7, <1>8, <1>9 DEF InstallNext

LEMMA AccountPreserved ==
  ASSUME InstallTypeOK, AccountInv, InstallNext
  PROVE  AccountInv'
<1> USE InstallAssumption, CommandFields DEF InstallTypeOK, AccountInv, Uninstalling
<1>1. CASE StartInstall
  BY <1>1 DEF StartInstall
<1>2. CASE EnsureStaticUser
  BY <1>2 DEF EnsureStaticUser, Installing, Stop, ClassifyUseraddExit, InstallCommand
<1>3. CASE WriteOutput
  BY <1>3 DEF WriteOutput, Stop, InstallCommand
<1>4. CASE WriteManifest
  BY <1>4 DEF WriteManifest, Installing, Stop
<1>5. CASE StartUninstall
  BY <1>5 DEF StartUninstall
<1>6. CASE RemoveEntry
  BY <1>6, RemoveFields DEF RemoveEntry, UninstallCommand
<1>7. CASE FinishUninstall
  <2>1. manifest # Absent
    BY <1>7 DEF FinishUninstall
  <2>2. proposed' => account = "created"
    BY <1>7, <2>1 DEF FinishUninstall
  <2> QED
    BY <1>7, <2>2 DEF FinishUninstall, Stop
<1>8. CASE Interrupt
  BY <1>8 DEF Interrupt, Stop
<1>9. CASE OperatorEdits
  BY <1>9 DEF OperatorEdits
<1> QED
  BY <1>1, <1>2, <1>3, <1>4, <1>5, <1>6, <1>7, <1>8, <1>9 DEF InstallNext

LEMMA SparePreserved ==
  ASSUME InstallTypeOK, SpareInv, InstallNext
  PROVE  SpareInv'
<1> USE InstallAssumption, OutputsAreFiles, CommandFields
    DEF InstallAssumption, InstallTypeOK, SpareInv, Uninstalling, Edited
<1>1. CASE StartInstall
  BY <1>1 DEF StartInstall
<1>2. CASE EnsureStaticUser
  BY <1>2 DEF EnsureStaticUser, Installing, Stop, InstallCommand
<1>3. CASE WriteOutput
  BY <1>3 DEF WriteOutput, Stop, InstallCommand
<1>4. CASE WriteManifest
  BY <1>4 DEF WriteManifest, Installing, Stop
<1>5. CASE StartUninstall
  BY <1>5 DEF StartUninstall, MayRemove, Modified, Manifest
<1>6. CASE RemoveEntry
  <2> SUFFICES ASSUME ~op'.force, NEW f \in Files, files'[f] = Edited PROVE f \in unseen'
    OBVIOUS
  <2>0. unseen \subseteq unseen'
    BY <1>6, RemoveFields
  <2>1. ~op.force
    BY <1>6, RemoveFields
  <2>2. files[f] = Edited
    <3>1. Outputs[op.at] \in Files
      BY <1>6, RemoveFields
    <3>2. \/ files' = [files EXCEPT ![Outputs[op.at]] = Absent]
          \/ files' = files
      BY <1>6, RemoveFields
    <3> QED
      BY <3>1, <3>2
  <2>3. Uninstalling
    BY <1>6, RemoveFields DEF UninstallCommand
  <2> QED
    BY <2>0, <2>1, <2>2, <2>3
<1>7. CASE FinishUninstall
  BY <1>7 DEF FinishUninstall, Stop
<1>8. CASE Interrupt
  BY <1>8 DEF Interrupt, Stop
<1>9. CASE OperatorEdits
  BY <1>9 DEF OperatorEdits
<1> QED
  BY <1>1, <1>2, <1>3, <1>4, <1>5, <1>6, <1>7, <1>8, <1>9 DEF InstallNext

LEMMA RemovedPreserved ==
  ASSUME InstallTypeOK, RemovedInv, InstallNext
  PROVE  RemovedInv'
<1> USE InstallAssumption, OutputsAreFiles, CommandFields
    DEF InstallAssumption, InstallTypeOK, RemovedInv, Uninstalling
<1>1. CASE StartInstall
  BY <1>1 DEF StartInstall
<1>2. CASE EnsureStaticUser
  BY <1>2 DEF EnsureStaticUser, Installing, Stop, InstallCommand
<1>3. CASE WriteOutput
  BY <1>3 DEF WriteOutput, Stop, InstallCommand
<1>4. CASE WriteManifest
  BY <1>4 DEF WriteManifest, Installing, Stop
<1>5. CASE StartUninstall
  BY <1>5 DEF StartUninstall
<1>6. CASE RemoveEntry
  <2> SUFFICES ASSUME ~op'.failed, NEW i \in 1 .. op'.at - 1
               PROVE  files'[Outputs[i]] = Absent \/ Outputs[i] \in unseen'
    BY <1>6, RemoveFields
  <2>1. op'.at = op.at + 1 /\ op.at \in 1..Len(Outputs)
    BY <1>6, RemoveFields
  <2>2. /\ op'.failed = op.failed /\ unseen \subseteq unseen'
        /\ \/ files' = [files EXCEPT ![Outputs[op.at]] = Absent]
           \/ files' = files /\ Outputs[op.at] \in unseen'
    BY <1>6, RemoveFields
  <2>3. ~op.failed
    BY <2>2
  <2>4. Uninstalling
    BY <1>6, RemoveFields DEF UninstallCommand
  <2>5. \A j \in 1 .. op.at - 1 : files[Outputs[j]] = Absent \/ Outputs[j] \in unseen
    BY <2>3, <2>4
  <2> QED
    BY SMTT(30), <2>1, <2>2, <2>5
<1>7. CASE FinishUninstall
  BY <1>7 DEF FinishUninstall, Stop
<1>8. CASE Interrupt
  BY <1>8 DEF Interrupt, Stop
<1>9. CASE OperatorEdits
  BY <1>9 DEF OperatorEdits, UninstallCommand
<1> QED
  BY <1>1, <1>2, <1>3, <1>4, <1>5, <1>6, <1>7, <1>8, <1>9 DEF InstallNext

\* The four parts together, over every step of the machine.
LEMMA InstallInvariant == Spec => []InstallInv
<1>1. Init => InstallInv
  BY InstallInvInit DEF Init
<1>2. InstallInv /\ [Next]_vars => InstallInv'
  <2> SUFFICES ASSUME InstallInv, [Next]_vars PROVE InstallInv'
    OBVIOUS
  <2>1. CASE InstallNext
    BY <2>1, InstallTypePreserved, AccountPreserved, SparePreserved, RemovedPreserved
    DEF InstallInv
  <2>2. CASE UNCHANGED installVars
    BY <2>2 DEF installVars, InstallInv, InstallTypeOK, AccountInv, SpareInv, RemovedInv,
       Uninstalling
  <2> QED
    BY <2>1, <2>2 DEF Next, vars, DaemonStep, DaemonStops
<1> QED
  BY <1>1, <1>2, PTL DEF Spec

\* Files, manifest and account are consistent after any sequence of commands that
\* fail or are interrupted anywhere, and `userdel` is offered only for an account that
\* an install created (ensure_static_user, write_outputs, uninstall's run).
THEOREM InstallConsistentCorrect == Spec => []InstallIsConsistent
<1>1. InstallInv => InstallIsConsistent
  BY DEF InstallInv, InstallIsConsistent, AccountInv, OnlyOwnAccountProposed
<1> QED
  BY <1>1, InstallInvariant, PTL

\* Uninstall without --force removes no file the operator had edited when it compared
\* the digests (uninstall's run).
THEOREM EditsSparedCorrect == Spec => EditsAreSpared
<1>1. InstallInv /\ [Next]_vars =>
        [\A f \in Files :
           (op # Absent /\ op.cmd = "uninstall" /\ files[f] = Edited /\ files'[f] = Absent
            /\ op' # op) =>
              op.force \/ f \in unseen]_installVars
  BY DEF InstallInv, SpareInv, Uninstalling
<1> QED
  BY <1>1, InstallInvariant, PTL DEF Spec, EditsAreSpared

\* The manifest goes only when every file it names is gone or was put back while the
\* command ran (uninstall's run).
THEOREM LeftoversListedCorrect == Spec => LeftoversStayListed
<1>1. InstallInv /\ [Next]_vars =>
        [(manifest # Absent /\ manifest' = Absent) =>
           \A f \in Files \ unseen : files[f] = Absent]_installVars
  <2> SUFFICES ASSUME InstallInv, InstallNext, manifest # Absent, manifest' = Absent,
                      NEW f \in Files \ unseen
               PROVE  files[f] = Absent
    BY DEF Next, vars, DaemonStep, DaemonStops
  <2>1. FinishUninstall /\ AllRemoved
    <3>1. CASE WriteManifest
      <4>1. op \in InstallCommand
        BY <3>1, CommandFields DEF WriteManifest, Installing, InstallInv
      <4>2. [sha |-> [g \in Files |-> Rendered(g)], required |-> op.mail,
             created |-> op.created] \in Manifest
        BY <4>1 DEF InstallCommand, Manifest, Rendered
      <4> QED
        BY <3>1, <4>2, InstallAssumption DEF WriteManifest, InstallAssumption
    <3> QED
      BY <3>1 DEF InstallNext, StartInstall, EnsureStaticUser, WriteOutput, StartUninstall,
         RemoveEntry, FinishUninstall, Interrupt, OperatorEdits
  <2>2. op.at = Len(Outputs) + 1 /\ Uninstalling /\ ~op.failed
    BY <2>1 DEF FinishUninstall, AllRemoved, Uninstalling
  <2>3. PICK i \in 1 .. Len(Outputs) : Outputs[i] = f
    BY OutputsAreFiles
  <2>4. \A j \in 1 .. op.at - 1 : files[Outputs[j]] = Absent \/ Outputs[j] \in unseen
    BY <2>2 DEF InstallInv, RemovedInv
  <2> QED
    BY <2>2, <2>3, <2>4, OutputsAreFiles
<1> QED
  BY <1>1, InstallInvariant, PTL DEF Spec, LeftoversStayListed

-----------------------------------------------------------------------------
(* The rules of the configuration. *)

\* A file is accepted when no flow has an error, no two flows have one name and no two
\* credentials one variable.
LEMMA AcceptedFlows ==
  ASSUME NEW file \in Texts, Accepted(file)
  PROVE  /\ file # Nobody
         /\ \A i \in DOMAIN file : FlowErrors(file[i]) = {}
         /\ ~DuplicateName(file) /\ ~Collision(file)
<1>1. file # Nobody
  BY DEF Accepted, Load
<1> DEFINE flowErrors == UNION {{<<i, x>> : x \in FlowErrors(file[i])} : i \in DOMAIN file}
           nameErrors == IF DuplicateName(file) THEN {<<0, "flow.name">>} ELSE {}
           idErrors == IF Collision(file) THEN {<<0, "credential_id">>} ELSE {}
<1>2. flowErrors = {} /\ nameErrors = {} /\ idErrors = {}
  <2>1. Validate(file) = {}
    BY <1>1 DEF Accepted, Load
  <2>2. Validate(file) =
          flowErrors \cup (IF file = <<>> THEN {<<0, "flow">>} ELSE {}) \cup nameErrors \cup idErrors
    BY SMT DEF Validate
  <2> HIDE DEF flowErrors, nameErrors, idErrors
  <2> QED BY <2>1, <2>2
<1>3. ASSUME NEW i \in DOMAIN file, NEW x \in FlowErrors(file[i]) PROVE FALSE
  <2>1. <<i, x>> \in {<<i, y>> : y \in FlowErrors(file[i])}
    OBVIOUS
  <2>2. <<i, x>> \in flowErrors
    BY <2>1
  <2> QED BY <1>2, <2>2
<1>4. ~DuplicateName(file) /\ ~Collision(file)
  BY <1>2
<1> QED BY <1>1, <1>3, <1>4

\* What validation leaves of a flow without errors, part by part.
LEMMA FlowParts ==
  ASSUME NEW f, FlowErrors(f) = {}
  PROVE  /\ NameOk(f.name) /\ ActionErrors(f) = {} /\ PollErrors(f.poll) = {}
         /\ \A i \in DOMAIN f.destination : DestinationErrors(f.destination[i]) = {}
  BY DEF FlowErrors

\* The action of an accepted flow dispatches to a repository, with a credential.
LEMMA ActionParts ==
  ASSUME NEW f, ActionErrors(f) = {}
  PROVE  /\ f.kind = "github_workflow_dispatch" /\ f.repo = "owner/repo"
         /\ f.action_cred # Missing /\ IdOk(f.action_cred)
<1>1. f.kind = "github_workflow_dispatch"
  BY DEF ActionErrors
<1>2. f.repo = "owner/repo"
  BY <1>1 DEF ActionErrors, RepoOk
<1>3. f.action_cred # Missing
  BY <1>1 DEF ActionErrors
<1>4. CredentialErrors(f.action_cred, "action.credential_id") = {}
  BY <1>1, <1>3 DEF ActionErrors
<1> QED BY <1>1, <1>2, <1>3, <1>4 DEF CredentialErrors

\* A webhook of an accepted flow has a credential, a mailbox a user one can deliver to.
LEMMA DestinationParts ==
  ASSUME NEW d, DestinationErrors(d) = {}
  PROVE  /\ d.kind = "discord_webhook" => d.cred # Missing /\ IdOk(d.cred)
         /\ d.kind = "local_mail" => UserOk(d.user)
  BY DEF DestinationErrors

\* Intervals and jitter of an accepted flow are in range, the defaults included.
LEMMA CadenceParts ==
  ASSUME NEW file \in Texts \ {Nobody}, NEW i \in DOMAIN file, PollErrors(file[i].poll) = {}
  PROVE  /\ SourceInterval(file[i]) \in Int /\ InRange(SourceInterval(file[i]))
         /\ Jitter(file[i]) \in 0 .. MAX_JITTER
<1> DEFINE p == file[i].poll
<1>1. p \in RawPollOverride
  BY RulesAssumption DEF RawFlow
<1>2. DurationOk(p.interval) /\ JitterOk(p.jitter)
  BY DEF PollErrors
<1>3. DefaultInterval(file[i].url) \in {60, 300}
  BY DEF DefaultInterval
<1>4. SourceInterval(file[i]) \in Int /\ InRange(SourceInterval(file[i]))
  <2>1. CASE p.interval = Missing
    <3>1. SourceInterval(file[i]) = DefaultInterval(file[i].url)
      BY <2>1 DEF SourceInterval
    <3> QED BY <1>3, <3>1 DEF InRange, MIN_INTERVAL, MAX_INTERVAL
  <2>2. CASE p.interval # Missing
    <3>1. p.interval \in Int /\ InRange(p.interval)
      BY <1>1, <1>2, <2>2 DEF RawPollOverride, DurationOk
    <3>2. SourceInterval(file[i]) = p.interval
      BY <2>2 DEF SourceInterval
    <3> QED BY <3>1, <3>2
  <2> QED BY <2>1, <2>2
<1>5. Jitter(file[i]) \in 0 .. MAX_JITTER
  BY <1>1, <1>2 DEF RawPollOverride, JitterOk, Jitter, MAX_JITTER
<1> QED BY <1>4, <1>5

\* The jittered sleep stays between MIN_INTERVAL and one and a half MAX_INTERVAL.
LEMMA JitterInRange ==
  ASSUME NEW b \in Int, InRange(b), NEW j \in 0 .. MAX_JITTER,
         NEW sample \in {-10, -5, 0, 5, 10}
  PROVE  /\ 10 * MIN_INTERVAL <= ApplyJitter(b, j, sample)
         /\ ApplyJitter(b, j, sample) <= 15 * MAX_INTERVAL
<1> USE DEF MIN_INTERVAL, MAX_INTERVAL, MAX_JITTER
<1>1. Clamp(j) = j
  BY DEF Clamp
<1>2. sample * j \in -50 .. 50
  BY Z3
<1> DEFINE m == 100 + sample * j
<1>3. m \in 50 .. 150
  BY <1>2
<1> HIDE DEF m
<1>4. b * m \in Int /\ b * m <= 86400 * 150
  BY <1>3, Z3 DEF InRange
<1>5. (b * m) \div 10 <= 1296000 /\ (b * m) \div 10 \in Int
  BY <1>4
<1>6. ApplyJitter(b, j, sample) =
        IF (b * m) \div 10 < 150 THEN 150 ELSE (b * m) \div 10
  BY <1>1 DEF ApplyJitter, m
<1> QED BY <1>5, <1>6

\* check and start, once done, were done on this file and this host.
RulesInv ==
    /\ text \in Texts /\ host \in Hosts
    /\ phase \in {"written", "checked", "started"}
    /\ phase # "written" => exit = CheckExit(text)
    /\ phase = "started" =>
          /\ Accepted(text)
          /\ trouble = [i \in DOMAIN text |-> IF text[i].enabled THEN Trouble(text[i]) ELSE {}]

LEMMA RulesInvInit == RulesInit => RulesInv
  BY DEF RulesInit, RulesInv

LEMMA RulesInvStep == RulesInv /\ [RulesNext]_ruleVars => RulesInv'
<1> SUFFICES ASSUME RulesInv, [RulesNext]_ruleVars PROVE RulesInv'
  OBVIOUS
<1>1. UNCHANGED <<text, host>>
  BY DEF RulesNext, Check, StartFlows, ruleVars
<1>2. CheckExit(text)' = CheckExit(text)
      /\ (\A i : Trouble(text[i])' = Trouble(text[i])) /\ Accepted(text)' = Accepted(text)
  BY <1>1 DEF CheckExit, SpoolErrors, Trouble, SetupTrouble, ParsesAsWebhook
<1> QED
  BY <1>1, <1>2 DEF RulesInv, RulesNext, Check, StartFlows, ruleVars

\* Of what the daemon demands of a flow, an accepted file leaves open what depends on the
\* host and the things validation does not look at.
LEMMA AcceptedTrouble ==
  ASSUME NEW f, FlowErrors(f) = {}
  PROVE  Trouble(f) \subseteq {"credential", "webhook_url", "source_url", "source_ref",
                               "input_render", "template"}
<1>1. SetupTrouble(f) \subseteq {"credential", "webhook_url"}
  <2>1. ~\E i \in DOMAIN f.destination :
           f.destination[i].kind = "local_mail" /\ ~ValidateUser(f.destination[i].user)
    BY FlowParts, DestinationParts DEF UserOk, ValidateUser
  <2> QED BY <2>1 DEF SetupTrouble
<1>2. PollTrouble(f) \subseteq {"source_url", "source_ref"}
  BY DEF PollTrouble
<1>3. DispatchTrouble(f) \subseteq {"input_render"}
  BY FlowParts, ActionParts DEF DispatchTrouble, SplitRepo
<1>4. NotifyTrouble(f) \subseteq {"template"}
  BY DEF NotifyTrouble
<1> QED BY <1>1, <1>2, <1>3, <1>4 DEF Trouble

\* Validation is complete for any set of files and hosts: an accepted file names each flow
\* once, keeps credentials and their variables apart, sleeps within the bounds, and fails
\* at run time only for the reasons listed (config::load, EffectivePoll::compute,
\* apply_jitter, spawn_flow, poll_one, render_dispatch_inputs, split_repo).
THEOREM AcceptedCorrect == RulesSpec => []AcceptedConfigIsSound
<1>1. RulesInv => AcceptedConfigIsSound
  <2> SUFFICES ASSUME RulesInv, phase = "started"
               PROVE  /\ NamesAreKeys /\ OneVariablePerCredential /\ SleepsInRange
                      /\ \A i \in DOMAIN text :
                            trouble[i] \subseteq {"credential", "webhook_url", "source_url",
                                                  "source_ref", "input_render", "template"}
    BY DEF AcceptedConfigIsSound
  <2>1. /\ text \in Texts /\ text # Nobody
        /\ \A i \in DOMAIN text : FlowErrors(text[i]) = {}
        /\ ~DuplicateName(text) /\ ~Collision(text)
    BY AcceptedFlows DEF RulesInv
  <2>2. NamesAreKeys
    BY <2>1, FlowParts DEF NamesAreKeys, DuplicateName
  <2>3. OneVariablePerCredential
    BY <2>1 DEF OneVariablePerCredential, Collision
  <2>4. SleepsInRange
    BY <2>1, FlowParts, CadenceParts, JitterInRange DEF SleepsInRange
  <2>5. ASSUME NEW i \in DOMAIN text
        PROVE  trouble[i] \subseteq {"credential", "webhook_url", "source_url", "source_ref",
                                     "input_render", "template"}
    <3>1. trouble[i] = IF text[i].enabled THEN Trouble(text[i]) ELSE {}
      BY DEF RulesInv
    <3> QED BY <2>1, <3>1, AcceptedTrouble
  <2> QED BY <2>2, <2>3, <2>4, <2>5
<1> QED
  BY <1>1, RulesInvInit, RulesInvStep, PTL DEF RulesSpec

\* The two walks over the places of a credential differ in two respects.
LEMMA ResolutionsAgree ==
  ASSUME NEW p \in Place, Resolution(p) = "error", CheckResolution(p) = "resolved"
  PROVE  p.env = "binary" \/ "Unreadable" \in {p.dir, p.file}
  BY DEF Place, Probes, Resolution, FromFile, CheckResolution, Probed

\* The credentials an accepted flow needs are among those `gcit check` looks at.
LEMMA NeededIds ==
  ASSUME NEW f, FlowErrors(f) = {}, "credential" \in SetupTrouble(f)
  PROVE  \E id \in Ids(f) : Resolution(host.place[id.stem]) = "error"
<1>1. /\ f.kind = "github_workflow_dispatch" /\ f.action_cred # Missing /\ IdOk(f.action_cred)
      /\ \A i \in DOMAIN f.destination : f.destination[i].kind = "discord_webhook" =>
            f.destination[i].cred # Missing /\ IdOk(f.destination[i].cred)
  BY FlowParts, ActionParts, DestinationParts
<1>2. f.action_cred \in Ids(f)
  BY <1>1 DEF Ids
<1>3. \A i \in DOMAIN f.destination : f.destination[i].kind = "discord_webhook" =>
         f.destination[i].cred \in Ids(f)
  BY <1>1 DEF Ids
<1>4. \/ Resolution(host.place[f.action_cred.stem]) = "error"
      \/ \E i \in DOMAIN f.destination :
            /\ f.destination[i].kind = "discord_webhook"
            /\ Resolution(host.place[f.destination[i].cred.stem]) = "error"
  BY DEF SetupTrouble
<1> QED BY <1>2, <1>3, <1>4

\* After a clean `gcit check` no flow of any file fails for a credential on the same host,
\* unless a variable of its own is not UTF-8 or a file that was only probed cannot be read
\* (cli::check::run, resolve_secret, read_credential_file).
THEOREM CheckCorrect == RulesSpec => []CheckPredictsDaemon
<1>1. RulesInv => CheckPredictsDaemon
  <2> SUFFICES ASSUME RulesInv, phase = "started", exit = "OK", NEW i \in DOMAIN text,
                      "credential" \in trouble[i]
               PROVE  \E id \in Ids(text[i]) :
                         \/ host.place[id.stem].env = "binary"
                         \/ "Unreadable" \in {host.place[id.stem].dir, host.place[id.stem].file}
    BY DEF CheckPredictsDaemon
  <2>1. text \in Texts /\ text # Nobody /\ FlowErrors(text[i]) = {}
    BY AcceptedFlows DEF RulesInv
  <2>2. "credential" \in Trouble(text[i])
    <3>1. trouble[i] = IF text[i].enabled THEN Trouble(text[i]) ELSE {}
      BY DEF RulesInv
    <3> QED BY <3>1
  <2>3. "credential" \in SetupTrouble(text[i])
    BY <2>2 DEF Trouble, PollTrouble, DispatchTrouble, NotifyTrouble
  <2>4. PICK id \in Ids(text[i]) : Resolution(host.place[id.stem]) = "error"
    BY <2>1, <2>3, NeededIds
  <2>5. id \in AllIds(text)
    BY DEF AllIds
  <2>6. host.place[id.stem] \in Place
    BY <2>1, <2>5, HostAssumption DEF RulesInv
  <2>7. CheckResolution(host.place[id.stem]) = "resolved"
    <3> DEFINE found == {CheckResolution(host.place[x.stem]) : x \in Consumed(text)}
    <3>1. CheckResolution(host.place[id.stem]) \in found
      BY <2>5 DEF Consumed
    <3>2. CheckExit(text) = "OK" /\ Accepted(text)
      BY DEF RulesInv
    <3> HIDE DEF found
    <3>3. CheckExit(text) =
            CASE SpoolErrors(text) # {} \/ "error" \in found -> "CONFIG"
              [] SpoolErrors(text) = {} /\ found \subseteq {"resolved"} -> "OK"
              [] OTHER -> IF host.systemd THEN "OK, INFO" ELSE "CONFIG"
      BY <3>2 DEF CheckExit, found
    <3>4. found \subseteq {"resolved"}
      BY <3>2, <3>3
    <3> QED BY <3>1, <3>4
  <2> QED BY <2>4, <2>6, <2>7, ResolutionsAgree
<1> QED
  BY <1>1, RulesInvInit, RulesInvStep, PTL DEF RulesSpec

-----------------------------------------------------------------------------
(* The credential pool. *)

PoolEntry == [cred : Creds, token : 0 .. MaxToken, poller : BOOLEAN]

\* What by_id leads to is the credential's own entry and has a poller; no other entry has;
\* a registered flow holds the entry by_id leads to.
EntryInv ==
    /\ \A c \in Creds : byId[c] # Nobody => entries[byId[c]].cred = c /\ entries[byId[c]].poller
    /\ NoOrphanPoller
    /\ \A f \in Flows : using[f] # Nobody => config[f] # Nobody /\ byId[config[f].action] = using[f]
    /\ \A f \in todo : config[f] # Nobody

\* A secret of the cache and the token of an entry of the pool were read after the
\* credential was last dropped, unless they come from the environment.
FreshInv ==
    /\ \A c \in Creds : fresh[c] <= token[c]
    /\ \A c \in Creds : Resolution(place[c]) = "file" =>
          /\ secrets[c] # Nobody => secrets[c] >= fresh[c]
          /\ byId[c] # Nobody => entries[byId[c]].token >= fresh[c]

PoolInv ==
    /\ PoolTypeOK
    /\ entries \in Seq(PoolEntry) /\ fresh \in [Creds -> 0 .. MaxToken]
    /\ EntryInv /\ FreshInv

\* The invariant gives the property.
LEMMA PoolInvSound == PoolInv => PoolIsSound
<1> SUFFICES ASSUME PoolInv PROVE PoolIsSound
  OBVIOUS
<1> USE DEF PoolInv, PoolTypeOK, EntryInv
<1>1. \A f \in Flows : using[f] # Nobody =>
         /\ config[f].action \in Creds
         /\ byId[config[f].action] = using[f]
  BY PoolAssumption DEF FlowConfig
<1>2. OneEntryPerCredential
  BY <1>1 DEF OneEntryPerCredential
<1>3. LiveEntryIsPolled
  BY <1>1 DEF LiveEntryIsPolled
<1>4. RotatedTokenIsPickedUp
  <2> SUFFICES ASSUME NEW f \in Flows, using[f] # Nobody,
                      Resolution(place[entries[using[f]].cred]) = "file"
               PROVE  entries[using[f]].token >= fresh[entries[using[f]].cred]
    BY DEF RotatedTokenIsPickedUp
  <2>1. /\ entries[using[f]].cred = config[f].action /\ config[f].action \in Creds
        /\ using[f] = byId[config[f].action]
    BY <1>1
  <2> QED BY <2>1 DEF FreshInv
<1> QED BY <1>2, <1>3, <1>4 DEF PoolIsSound

LEMMA PoolInvInit == PoolInit => PoolInv
<1> SUFFICES ASSUME PoolInit PROVE PoolInv
  OBVIOUS
<1>1. PoolTypeOK
  <2>1. unlisted \subseteq Flows \X DOMAIN entries
    BY DEF PoolInit
  <2>2. panicked \subseteq Flows /\ draining \in BOOLEAN
    BY DEF PoolInit
  <2> QED BY <2>1, <2>2, PoolAssumption DEF PoolInit, PoolTypeOK
<1>2. entries \in Seq(PoolEntry) /\ fresh \in [Creds -> 0 .. MaxToken]
  BY PoolAssumption DEF PoolInit
<1>3. EntryInv
  BY DEF PoolInit, EntryInv, NoOrphanPoller
<1>4. FreshInv
  BY DEF PoolInit, FreshInv
<1> QED BY <1>1, <1>2, <1>3, <1>4 DEF PoolInv

\* A secret is resolved to a token, and from a file to one that is not older than the last drop
\* of its credential.
LEMMA ResolvedFresh ==
  ASSUME PoolInv, NEW c \in Creds, NEW t \in 0 .. MaxToken, Resolved(c, t),
         Resolution(place[c]) = "file"
  PROVE  t >= fresh[c]
  BY PoolAssumption DEF PoolInv, PoolTypeOK, FreshInv, Resolved

\* What a flow needs are credentials.
LEMMA NeedsCreds ==
  ASSUME PoolInv, NEW f \in todo
  PROVE  /\ f \in Flows /\ config[f] \in FlowConfig /\ config[f].action \in Creds
         /\ Needs(f) \subseteq Creds
         /\ byId[config[f].action] = Nobody => config[f].action \in Needs(f)
<1>1. f \in Flows /\ config[f] \in FlowConfig /\ config[f].action \in Creds
      /\ config[f].hook \in Creds \cup {Nobody}
  BY PoolAssumption DEF PoolInv, PoolTypeOK, EntryInv, FlowConfig
<1> QED BY <1>1, PoolAssumption DEF Needs

\* A flow is spawned with the entry of its credential, or with a new one.
LEMMA SpawnFlowPool ==
  ASSUME PoolInv, NEW f \in Flows, SpawnFlow(f)
  PROVE  PoolInv'
<1>1. f \in todo /\ todo' = todo \ {f}
      /\ UNCHANGED <<config, place, token, hung, fresh, unlisted, panicked, draining>>
  BY DEF SpawnFlow, exitVars
<1>2. PICK known \in [Needs(f) -> 0 .. MaxToken] :
         /\ \A c \in Needs(f) : Resolved(c, known[c])
         /\ secrets' = [c \in Creds |-> IF c \in Needs(f) THEN known[c] ELSE secrets[c]]
         /\ AcquireGithub(f, known)
  BY DEF SpawnFlow
<1> DEFINE c0 == config[f].action
<1>3. c0 \in Creds /\ Needs(f) \subseteq Creds /\ (byId[c0] = Nobody => c0 \in Needs(f))
  BY <1>1, NeedsCreds
<1>4. /\ secrets' \in [Creds -> {Nobody} \cup 0 .. MaxToken]
      /\ \A c \in Creds : Resolution(place[c]) = "file" /\ secrets'[c] # Nobody =>
            secrets'[c] >= fresh[c]
  <2>1. \A c \in Needs(f) : Resolution(place[c]) = "file" => known[c] >= fresh[c]
    BY <1>2, <1>3, ResolvedFresh
  <2> QED BY <1>2, <1>3, <2>1 DEF PoolInv, PoolTypeOK, FreshInv
<1>5. Len(entries) \in Nat /\ DOMAIN entries = 1 .. Len(entries)
      /\ \A i \in DOMAIN entries : entries[i] \in PoolEntry
  BY LenProperties DEF PoolInv
<1>6. CASE byId[c0] # Nobody
  <2>1. using' = [using EXCEPT ![f] = byId[c0]] /\ UNCHANGED <<entries, byId>>
    BY <1>2, <1>6 DEF AcquireGithub
  <2>2. PoolTypeOK'
    BY <1>1, <1>3, <1>4, <1>6, <2>1 DEF PoolInv, PoolTypeOK
  <2>3. EntryInv'
    BY <1>1, <1>3, <1>6, <2>1 DEF PoolInv, PoolTypeOK, EntryInv, NoOrphanPoller
  <2>4. FreshInv'
    BY <1>1, <1>4, <2>1 DEF PoolInv, FreshInv
  <2> QED BY <1>1, <2>1, <2>2, <2>3, <2>4 DEF PoolInv
<1>7. CASE byId[c0] = Nobody
  <2> DEFINE n == Len(entries) + 1
             e == [cred |-> c0, token |-> known[c0], poller |-> TRUE]
  <2>1. /\ entries' = Append(entries, e) /\ Len(entries) < MaxEntries
        /\ byId' = [byId EXCEPT ![c0] = n]
        /\ using' = [using EXCEPT ![f] = n]
    BY <1>2, <1>7 DEF AcquireGithub
  <2>2. known[c0] \in 0 .. MaxToken /\ e \in PoolEntry
    BY <1>3, <1>7 DEF PoolEntry
  <2>3. /\ entries' \in Seq(PoolEntry) /\ Len(entries') = n /\ DOMAIN entries' = 1 .. n
        /\ entries'[n] = e /\ \A i \in DOMAIN entries : entries'[i] = entries[i] /\ i # n
    <3> HIDE DEF e
    <3> QED BY <2>1, <2>2, <1>5 DEF PoolInv
  <2>4. byId \in [Creds -> {Nobody} \cup DOMAIN entries]
        /\ using \in [Flows -> {Nobody} \cup DOMAIN entries]
    BY DEF PoolInv, PoolTypeOK
  <2>5. n # Nobody
    BY <1>5, PoolAssumption
  <2>6. PoolTypeOK'
    BY <1>1, <1>3, <1>4, <1>5, <2>1, <2>3, <2>4, PoolAssumption DEF PoolInv, PoolTypeOK
  <2>7. /\ \A c \in Creds : c # c0 => byId'[c] = byId[c]
        /\ byId'[c0] = n
        /\ \A g \in Flows : g # f => using'[g] = using[g]
        /\ using'[f] = n
    BY <1>3, <2>1, <2>4
  <2> HIDE DEF n
  <2>8. NoOrphanPoller'
    <3> SUFFICES ASSUME NEW i \in DOMAIN entries', entries'[i].poller
                 PROVE  byId'[entries'[i].cred] = i
      BY DEF NoOrphanPoller
    <3>1. CASE i = n
      BY <3>1, <2>3, <2>7
    <3>2. CASE i # n
      <4>1. i \in DOMAIN entries /\ entries'[i] = entries[i]
        BY <3>2, <2>3, <1>5 DEF n
      <4>2. byId[entries[i].cred] = i /\ entries[i].cred \in Creds
        BY <4>1, <1>5 DEF PoolInv, EntryInv, NoOrphanPoller, PoolEntry
      <4> QED BY <4>1, <4>2, <2>7, <1>7, <1>5, PoolAssumption
    <3> QED BY <3>1, <3>2
  <2>9. EntryInv'
    <3>1. \A c \in Creds : byId'[c] # Nobody => entries'[byId'[c]].cred = c /\ entries'[byId'[c]].poller
      <4> SUFFICES ASSUME NEW c \in Creds, byId'[c] # Nobody
                   PROVE  entries'[byId'[c]].cred = c /\ entries'[byId'[c]].poller
        OBVIOUS
      <4>1. CASE c = c0
        BY <4>1, <2>3, <2>7
      <4>2. CASE c # c0
        <5>1. byId'[c] = byId[c] /\ byId[c] \in DOMAIN entries
          BY <4>2, <2>4, <2>7
        <5> QED BY <5>1, <2>3 DEF PoolInv, EntryInv
      <4> QED BY <4>1, <4>2
    <3>2. \A g \in Flows : using'[g] # Nobody =>
             config[g] # Nobody /\ byId'[config[g].action] = using'[g]
      <4> SUFFICES ASSUME NEW g \in Flows, using'[g] # Nobody
                   PROVE  config[g] # Nobody /\ byId'[config[g].action] = using'[g]
        OBVIOUS
      <4>1. CASE g = f
        BY <4>1, <1>1, <2>7 DEF PoolInv, EntryInv
      <4>2. CASE g # f
        <5>1. config[g] # Nobody /\ byId[config[g].action] = using[g] /\ using[g] # Nobody
          BY <4>2, <2>7 DEF PoolInv, EntryInv
        <5>2. config[g].action \in Creds
          BY <5>1, PoolAssumption DEF PoolInv, PoolTypeOK, FlowConfig
        <5> QED BY <5>1, <5>2, <4>2, <2>7, <1>7
      <4> QED BY <4>1, <4>2
    <3> QED BY <1>1, <2>8, <3>1, <3>2 DEF EntryInv, PoolInv
  <2>10. FreshInv'
    <3>1. Resolution(place[c0]) = "file" => known[c0] >= fresh[c0]
      BY <1>2, <1>3, <1>7, <2>2, ResolvedFresh
    <3> QED BY <1>1, <1>4, <2>3, <2>4, <2>7, <3>1 DEF PoolInv, FreshInv
  <2> QED BY <1>1, <2>3, <2>6, <2>9, <2>10 DEF PoolInv
<1> QED BY <1>6, <1>7

\* A flow that is not spawned leaves at most a secret behind.
LEMMA SpawnFailsPool ==
  ASSUME PoolInv, NEW f \in Flows, SpawnFails(f)
  PROVE  PoolInv'
<1>1. f \in todo /\ todo' = todo \ {f}
      /\ UNCHANGED <<config, place, token, byId, entries, using, fresh, unlisted, panicked, draining>>
  BY DEF SpawnFails, exitVars
<1>2. config[f].action \in Creds /\ config[f].hook \in Creds \cup {Nobody}
  BY <1>1, NeedsCreds DEF FlowConfig
<1>3. hung' \in 0 .. Permits
  <2>1. hung \in 0 .. Permits
    BY DEF PoolInv, PoolTypeOK
  <2>2. \E c \in Creds : ResolveFails(c)
    BY <1>2 DEF SpawnFails
  <2> QED BY <2>1, <2>2, PoolAssumption DEF ResolveFails, ReadHangs, CanRead
<1>4. UNCHANGED secrets
      \/ \E c \in Creds, t \in 0 .. MaxToken :
            Resolved(c, t) /\ secrets' = [secrets EXCEPT ![c] = t]
  BY <1>2 DEF SpawnFails
<1>5. /\ secrets' \in [Creds -> {Nobody} \cup 0 .. MaxToken]
      /\ \A c \in Creds : Resolution(place[c]) = "file" /\ secrets'[c] # Nobody =>
            secrets'[c] >= fresh[c]
  BY <1>4, ResolvedFresh DEF PoolInv, PoolTypeOK, FreshInv
<1>6. PoolTypeOK'
  BY <1>1, <1>3, <1>5 DEF PoolInv, PoolTypeOK
<1>7. EntryInv'
  BY <1>1 DEF PoolInv, EntryInv, NoOrphanPoller
<1>8. FreshInv'
  BY <1>1, <1>5 DEF PoolInv, FreshInv
<1> QED BY <1>1, <1>6, <1>7, <1>8 DEF PoolInv

\* A reload drops what no kept flow uses, and keeps what one uses.
LEMMA ReloadPool ==
  ASSUME PoolInv, Reload
  PROVE  PoolInv'
<1>1. PICK new \in Configs :
         /\ config' = new
         /\ using' = [f \in Flows |-> IF f \in ToKeep(new) THEN using[f] ELSE Nobody]
         /\ unlisted' = unlisted \cup
               {<<f, using[f]>> : f \in {f \in Flows \ ToKeep(new) : using[f] # Nobody}}
         /\ InvalidateExcept(CollectKeptCredentials(new))
         /\ fresh' = [c \in Creds |-> IF c \in CollectKeptCredentials(new) THEN fresh[c]
                                      ELSE token[c]]
         /\ todo' = {f \in Flows : new[f] # Nobody} \ ToKeep(new)
  BY DEF Reload
<1>2. UNCHANGED <<place, token, hung, panicked>> /\ draining' = TRUE
  BY DEF Reload
<1> DEFINE keep == CollectKeptCredentials(new)
<1>3. \A f \in ToKeep(new) :
         /\ f \in Flows /\ new[f] = config[f] /\ new[f] # Nobody /\ using[f] # Nobody
         /\ new[f].action \in Creds /\ new[f].action \in keep
  <2> SUFFICES ASSUME NEW f \in ToKeep(new)
               PROVE  /\ f \in Flows /\ new[f] = config[f] /\ new[f] # Nobody /\ using[f] # Nobody
                      /\ new[f].action \in Creds /\ new[f].action \in keep
    OBVIOUS
  <2>1. f \in Flows /\ new[f] = config[f] /\ new[f] # Nobody /\ using[f] # Nobody
    BY DEF ToKeep
  <2>2. new[f].action \in Creds /\ new[f].action # Nobody
    BY <2>1, PoolAssumption DEF FlowConfig
  <2> QED BY <2>1, <2>2 DEF CollectKeptCredentials
<1> HIDE DEF keep
<1>4. /\ byId' = [c \in Creds |-> IF c \in keep THEN byId[c] ELSE Nobody]
      /\ secrets' = [c \in Creds |-> IF c \in keep THEN secrets[c] ELSE Nobody]
      /\ entries' = [i \in DOMAIN entries |->
           [entries[i] EXCEPT !.poller = @ /\ ~\E c \in Creds \ keep : byId[c] = i]]
      /\ fresh' = [c \in Creds |-> IF c \in keep THEN fresh[c] ELSE token[c]]
  BY <1>1 DEF InvalidateExcept, keep
<1>5. Len(entries) \in Nat /\ DOMAIN entries = 1 .. Len(entries)
      /\ \A i \in DOMAIN entries : entries[i] \in PoolEntry
  BY LenProperties DEF PoolInv
<1>6. /\ DOMAIN entries' = DOMAIN entries
      /\ \A i \in DOMAIN entries :
            /\ entries'[i] \in PoolEntry
            /\ entries'[i].cred = entries[i].cred /\ entries'[i].token = entries[i].token
            /\ entries'[i].poller <=> entries[i].poller /\ ~\E c \in Creds \ keep : byId[c] = i
  BY <1>4, <1>5 DEF PoolEntry
<1>7. entries' \in Seq(PoolEntry) /\ Len(entries') = Len(entries)
  <2>1. entries' \in [1 .. Len(entries) -> PoolEntry]
    BY <1>4, <1>5, <1>6
  <2> QED BY <1>5, <1>6, <2>1, SeqDef, LenProperties
<1>8. PoolTypeOK'
  <2>1. unlisted' \subseteq Flows \X DOMAIN entries'
    BY <1>1, <1>6 DEF PoolInv, PoolTypeOK
  <2> QED BY <1>1, <1>2, <1>4, <1>6, <1>7, <2>1 DEF PoolInv, PoolTypeOK
<1>9. EntryInv'
  <2>1. \A c \in Creds : byId'[c] # Nobody =>
           c \in keep /\ byId'[c] = byId[c] /\ byId[c] \in DOMAIN entries
    BY <1>4 DEF PoolInv, PoolTypeOK
  <2>2. \A c \in Creds : byId'[c] # Nobody => entries'[byId'[c]].cred = c /\ entries'[byId'[c]].poller
    BY <1>6, <2>1 DEF PoolInv, EntryInv
  <2>3. NoOrphanPoller'
    <3> SUFFICES ASSUME NEW i \in DOMAIN entries, entries'[i].poller
                 PROVE  byId'[entries'[i].cred] = i
      BY <1>6 DEF NoOrphanPoller
    <3>1. byId[entries[i].cred] = i /\ entries[i].cred \in Creds
      BY <1>5, <1>6 DEF PoolInv, EntryInv, NoOrphanPoller, PoolEntry
    <3> QED BY <1>4, <1>6, <3>1
  <2>4. \A f \in Flows : using'[f] # Nobody => config'[f] # Nobody /\ byId'[config'[f].action] = using'[f]
    BY <1>1, <1>3, <1>4 DEF PoolInv, EntryInv
  <2> QED BY <1>1, <2>2, <2>3, <2>4 DEF EntryInv
<1>10. FreshInv' /\ fresh' \in [Creds -> 0 .. MaxToken]
  BY <1>2, <1>4, <1>6 DEF PoolInv, PoolTypeOK, FreshInv
<1> QED BY <1>7, <1>8, <1>9, <1>10 DEF PoolInv

\* An exit takes a handle away and leaves the pool alone.
LEMMA ExitPool ==
  ASSUME PoolInv, NEW f \in Flows, FlowExits(f)
  PROVE  PoolInv'
<1>1. UNCHANGED <<config, place, token, secrets, byId, entries, draining, todo, hung, fresh>>
  BY DEF FlowExits
<1>2. PICK others \in SUBSET unlisted : DropHandle(f, others)
  <2>1. CASE \E u \in unlisted : u[1] = f /\ \E others \in {unlisted, unlisted \ {u}} :
                DropHandle(f, others)
    BY <2>1
  <2>2. CASE DropHandle(f, unlisted)
    BY <2>2
  <2> QED BY <2>1, <2>2 DEF FlowExits
<1>3. panicked' \subseteq Flows
  BY DEF FlowExits, PoolInv, PoolTypeOK
<1>4. using' = [using EXCEPT ![f] = Nobody]
      /\ unlisted' = others \cup (IF using[f] = Nobody THEN {} ELSE {<<f, using[f]>>})
  BY <1>2 DEF DropHandle
<1>5. using \in [Flows -> {Nobody} \cup DOMAIN entries]
      /\ unlisted \subseteq Flows \X DOMAIN entries
  BY DEF PoolInv, PoolTypeOK
<1>6. using' \in [Flows -> {Nobody} \cup DOMAIN entries]
      /\ \A g \in Flows : using'[g] # Nobody => using'[g] = using[g]
  BY <1>4, <1>5
<1>7. unlisted' \subseteq Flows \X DOMAIN entries
  BY <1>2, <1>4, <1>5
<1>8. PoolTypeOK'
  BY <1>1, <1>3, <1>6, <1>7 DEF PoolInv, PoolTypeOK
<1>9. EntryInv'
  BY <1>1, <1>6 DEF PoolInv, EntryInv, NoOrphanPoller
<1>10. FreshInv'
  BY <1>1 DEF PoolInv, FreshInv
<1> QED BY <1>1, <1>8, <1>9, <1>10 DEF PoolInv

LEMMA PoolInvStep == PoolInv /\ [PoolNext]_poolVars => PoolInv'
<1> SUFFICES ASSUME PoolInv, [PoolNext]_poolVars PROVE PoolInv'
  OBVIOUS
<1>1. CASE \E f \in Flows : SpawnFlow(f) \/ SpawnFails(f) \/ FlowExits(f)
  BY <1>1, SpawnFlowPool, SpawnFailsPool, ExitPool
<1>2. CASE Reload
  BY <1>2, ReloadPool
<1>3. CASE ReadReturns \/ DrainJoins \/ DrainEnds \/ UNCHANGED poolVars
  <2>1. UNCHANGED <<config, place, token, secrets, byId, entries, using, panicked, todo, fresh>>
    BY <1>3 DEF ReadReturns, DrainJoins, DrainEnds, poolVars, exitVars
  <2>2. hung' \in 0 .. Permits
    BY <1>3, PoolAssumption DEF ReadReturns, DrainJoins, DrainEnds, poolVars, PoolInv, PoolTypeOK
  <2>3. unlisted' \subseteq unlisted /\ draining' \in BOOLEAN
    BY <1>3 DEF ReadReturns, DrainJoins, DrainEnds, poolVars, exitVars, PoolInv, PoolTypeOK
  <2> QED BY <2>1, <2>2, <2>3 DEF PoolInv, PoolTypeOK, EntryInv, NoOrphanPoller, FreshInv
<1>4. CASE \E f \in Flows : RespawnFlow(f)
  <2>1. PICK f \in Flows : RespawnFlow(f)
    BY <1>4
  <2>2. UNCHANGED <<config, place, token, secrets, byId, entries, using, unlisted, draining, hung, fresh>>
        /\ panicked' \subseteq panicked /\ todo' \subseteq {g \in Flows : config[g] # Nobody}
    BY <2>1 DEF RespawnFlow
  <2> QED BY <2>2 DEF PoolInv, PoolTypeOK, EntryInv, NoOrphanPoller, FreshInv
<1>5. CASE Rotate
  <2>1. PICK c \in Creds : token[c] < MaxToken /\ token' = [token EXCEPT ![c] = @ + 1]
    BY <1>5 DEF Rotate
  <2>2. UNCHANGED <<config, place, secrets, byId, entries, using, unlisted, panicked, draining,
                    todo, hung, fresh>>
    BY <1>5 DEF Rotate, exitVars
  <2>3. token' \in [Creds -> 0 .. MaxToken] /\ \A d \in Creds : token'[d] >= token[d]
    BY <2>1, PoolAssumption DEF PoolInv, PoolTypeOK
  <2>4. PoolTypeOK'
    BY <2>2, <2>3 DEF PoolInv, PoolTypeOK
  <2>5. FreshInv'
    BY <2>2, <2>3 DEF PoolInv, PoolTypeOK, FreshInv
  <2> QED BY <2>2, <2>4, <2>5 DEF PoolInv, EntryInv, NoOrphanPoller
<1> QED BY <1>1, <1>2, <1>3, <1>4, <1>5 DEF PoolNext

\* For any flows, credentials and configurations, after any sequence of reloads, drains that
\* time out, late exits, respawns, rotations and failed set-ups: the registered flows with
\* one credential share its entry, which is polled, nothing else is, and no registered flow
\* runs on a token replaced before its credential was last dropped (acquire_github,
\* invalidate_except, resolve_secret, run_reload, handle_flow_exit).
THEOREM PoolCorrect == PoolSpec => []PoolIsSound
  BY PoolInvInit, PoolInvStep, PoolInvSound, PTL DEF PoolSpec

-----------------------------------------------------------------------------
(* The rate bucket and the sources that wait for it. *)

\* Nobody waits for a slot behind the last one that was given away: that is why one
\* interval after the last slot is one interval after every slot.
BehindLast == \A u \in Users : at[u] # Nowhere => left[u] <= slot[at[u]]

BucketInv == BucketTypeOK /\ BehindLast /\ SlotsSpaced

\* The slot acquire() reserves is at least one interval after the last one.
LEMMA TargetSpaced ==
  ASSUME BucketTypeOK, NEW b \in Buckets
  PROVE  Target(b) \in Int /\ Target(b) >= slot[b] + Interval /\ Target(b) >= 0
  BY BucketAssumption DEF BucketTypeOK, Target

LEMMA BucketInvInit == BucketInit => BucketInv
  BY BucketAssumption DEF BucketInit, BucketInv, BucketTypeOK, BehindLast, SlotsSpaced

LEMMA BucketInvStep == BucketInv /\ [BucketNext]_bucketVars => BucketInv'
<1> SUFFICES ASSUME BucketInv, [BucketNext]_bucketVars PROVE BucketInv'
  OBVIOUS
<1> USE BucketAssumption DEF BucketInv, BucketTypeOK
<1>1. ASSUME NEW u \in Users, NEW b \in Buckets, Reserve(u, b) PROVE BucketInv'
  <2>1. BucketTypeOK'
    BY <1>1, TargetSpaced DEF Reserve
  <2>2. BehindLast'
    BY <1>1, TargetSpaced DEF Reserve, BehindLast
  <2>3. SlotsSpaced'
    BY <1>1, TargetSpaced DEF Reserve, BehindLast, SlotsSpaced
  <2> QED
    BY <2>1, <2>2, <2>3
<1>2. ASSUME NEW u \in Users, Woken(u) PROVE BucketInv'
  BY <1>2 DEF Woken, BehindLast, SlotsSpaced
<1>3. ASSUME NEW u \in Users, Abandon(u) PROVE BucketInv'
  BY <1>3 DEF Abandon, BehindLast, SlotsSpaced
<1>4. CASE BucketTick
  <2>1. BucketTypeOK'
    BY <1>4 DEF BucketTick
  <2>2. BehindLast'
    BY <1>4 DEF BucketTick, BehindLast
  <2>3. SlotsSpaced'
    BY <1>4 DEF BucketTick, SlotsSpaced
  <2> QED
    BY <2>1, <2>2, <2>3
<1>5. CASE UNCHANGED bucketVars
  BY <1>5 DEF bucketVars, BehindLast, SlotsSpaced
<1> QED
  BY <1>1, <1>2, <1>3, <1>4, <1>5 DEF BucketNext

\* Calls of acquire() that overlap in any way, are cancelled while they wait and wake
\* late never leave two waiters of a bucket closer than min_interval (RateBucket::acquire).
THEOREM BucketSpaced == BucketSpec => []SlotsSpaced
<1>1. BucketInv => SlotsSpaced
  BY DEF BucketInv
<1> QED
  BY <1>1, BucketInvInit, BucketInvStep, PTL DEF BucketSpec

\* The states a remote ref may be in, and the SHAs a flow may have recorded.
RefStates == UNION {Refs[f] : f \in Users}
Shas == {None} \cup {Own(r) : r \in RefStates}

PollTypeOK ==
    /\ source \in Sources
    /\ remote \in [Users -> RefStates] /\ base \in [Users -> RefStates]
    /\ pushed \in [Users -> Nat] /\ published \in [Users -> Nat]
    /\ cached \in [Users -> Nat] /\ resolved \in [Users -> Nat]
    /\ pc \in [Users -> {"sleep", "gate", "poll", "manifest", "resolve", "gone"}]
    /\ last \in [Users -> Shas] /\ lost \in [Users -> BOOLEAN]

\* A fingerprint in the cache is of a published change, and only of a grokmirror source,
\* the only one that reads a manifest.
FingerprintInv ==
    \A f \in Users :
       /\ cached[f] <= published[f] /\ published[f] <= pushed[f]
       /\ cached[f] # 0 \/ pc[f] = "manifest" => source[f].strategy = "Grokmirror"

GateInv == \A f \in Users : (pc[f] = "gate") = (at[f] # Nowhere)

PollInv ==
    /\ PollTypeOK /\ BucketInv /\ FingerprintInv /\ GateInv
    /\ ShaIsTheRefsOwn /\ CachedMeansResolved

\* Whatever the transport, a SHA that is returned is the ref's own object.
LEMMA AnswersOwn ==
  ASSUME NEW r, NEW ref
  PROVE  /\ \A a \in ApiAnswers :
               GithubPoll(ref, r, a)[1] = "Refreshed" => GithubPoll(ref, r, a)[2] = Own(r)
         /\ \A v2 \in BOOLEAN, e \in LsErrors \cup {"none"} :
               /\ LsRemote(r, v2, e)[1] \in {"Refreshed", "UnbornRef", "transient", "permanent"}
               /\ LsRemote(r, v2, e)[1] = "Refreshed" => LsRemote(r, v2, e)[2] = Own(r)
<1>1. ASSUME NEW a \in ApiAnswers, GithubPoll(ref, r, a)[1] = "Refreshed"
      PROVE  GithubPoll(ref, r, a)[2] = Own(r)
  <2>1. ClassifyStatus(a) # "Refreshed"
    BY DEF ClassifyStatus
  <2> QED BY <1>1, <2>1 DEF GithubPoll
<1>2. ASSUME NEW v2 \in BOOLEAN
      PROVE  /\ FindRef(Advertised(r, v2))[1] \in {"Refreshed", "UnbornRef"}
             /\ FindRef(Advertised(r, v2))[1] = "Refreshed" =>
                   FindRef(Advertised(r, v2))[2] = Own(r)
  BY DEF FindRef, Advertised, Own
<1>3. ASSUME NEW v2 \in BOOLEAN, NEW e \in LsErrors \cup {"none"}
      PROVE  /\ LsRemote(r, v2, e)[1] \in {"Refreshed", "UnbornRef", "transient", "permanent"}
             /\ LsRemote(r, v2, e)[1] = "Refreshed" => LsRemote(r, v2, e)[2] = Own(r)
  <2>1. LsErrorClass(e) \in {"transient", "permanent"}
    BY DEF LsErrorClass
  <2> QED BY <1>2, <2>1 DEF LsRemote
<1> QED BY <1>1, <1>3

\* Every step of a flow is a step of the bucket, or leaves it alone.
LEMMA PollStepsBucket ==
  ASSUME PollTypeOK, PollNext
  PROVE  [BucketNext]_bucketVars
<1>1. ASSUME NEW f \in Users, WakeUp(f) PROVE BucketNext
  BY <1>1, SourceAssumption DEF WakeUp, BucketNext, PollTypeOK
<1> QED
  BY <1>1 DEF PollNext, PassGate, StartPoll, PollGithub, ReadManifest, PollLsRemote, Cancel,
     SpawnAgain, Push, Publish, PollTick, BucketNext

\* The end of a cycle whose answer, if it is a SHA, is the ref's own.
LEMMA EndCycleEffect ==
  ASSUME PollTypeOK, ShaIsTheRefsOwn, NEW f \in Users, NEW result, EndCycle(f, result),
         UNCHANGED remote,
         result[1] = "Refreshed" => result[2] = Own(remote[f])
  PROVE  /\ pc' = [pc EXCEPT ![f] = "sleep"]
         /\ last' \in [Users -> Shas] /\ base' \in [Users -> RefStates]
         /\ ShaIsTheRefsOwn'
         /\ resolved' \in [Users -> Nat]
         /\ \A g \in Users : g # f => resolved'[g] = resolved[g]
         /\ pc[f] # "resolve" => resolved'[f] = resolved[f]
         /\ pc[f] = "resolve" /\ result[1] \in {"Refreshed", "UnbornRef"} =>
               resolved'[f] = pushed[f]
<1>1. pc' = [pc EXCEPT ![f] = "sleep"]
  BY DEF EndCycle
<1>2. \/ UNCHANGED <<last, base>>
      \/ /\ last' = [last EXCEPT ![f] = Own(remote[f])]
         /\ base' = [base EXCEPT ![f] = remote[f]]
  BY DEF EndCycle
<1>3. resolved' = IF pc[f] = "resolve" /\ result[1] \in {"Refreshed", "UnbornRef"}
                  THEN [resolved EXCEPT ![f] = pushed[f]] ELSE resolved
  BY DEF EndCycle
<1>4. last' \in [Users -> Shas] /\ base' \in [Users -> RefStates] /\ ShaIsTheRefsOwn'
  BY <1>2 DEF PollTypeOK, Shas, ShaIsTheRefsOwn
<1> QED
  BY <1>1, <1>3, <1>4 DEF PollTypeOK

LEMMA PollInvInit == PollInit => PollInv
<1> SUFFICES ASSUME PollInit PROVE PollInv
  OBVIOUS
<1>1. BucketInv
  BY BucketInvInit DEF PollInit
<1>2. remote \in [Users -> RefStates]
  BY DEF PollInit, RefStates
<1>3. PollTypeOK
  BY <1>2 DEF PollInit, PollTypeOK, Shas
<1>4. FingerprintInv /\ GateInv /\ ShaIsTheRefsOwn /\ CachedMeansResolved
  BY DEF PollInit, BucketInit, FingerprintInv, GateInv, ShaIsTheRefsOwn, CachedMeansResolved
<1> QED BY <1>1, <1>3, <1>4 DEF PollInv

\* The steps before a request and after a cancellation, and those of the server: what the
\* flow has seen stays, or its executor is new and has cached nothing.
LEMMA QuietStep ==
  ASSUME PollInv, NEW f \in Users,
         WakeUp(f) \/ PassGate(f) \/ Cancel(f) \/ SpawnAgain(f) \/ Push(f) \/ Publish(f)
  PROVE  PollTypeOK' /\ FingerprintInv' /\ GateInv' /\ ShaIsTheRefsOwn' /\ CachedMeansResolved'
<1> USE DEF PollInv
<1>1. CASE WakeUp(f)
  <2>1. source[f].host \in Buckets
    BY SourceAssumption DEF PollTypeOK
  <2> QED
    BY <1>1, <2>1, BucketAssumption DEF WakeUp, Reserve, serverVars, seenVars, PollTypeOK, BucketInv,
       BucketTypeOK, FingerprintInv, GateInv, ShaIsTheRefsOwn, CachedMeansResolved
<1>2. CASE PassGate(f)
  BY <1>2 DEF PassGate, Woken, serverVars, seenVars, PollTypeOK, BucketInv,
     BucketTypeOK, FingerprintInv, GateInv, ShaIsTheRefsOwn, CachedMeansResolved
<1>3. CASE Cancel(f)
  BY <1>3 DEF Cancel, Abandon, bucketVars, serverVars, seenVars, PollTypeOK, BucketInv,
     BucketTypeOK, FingerprintInv, GateInv, ShaIsTheRefsOwn, CachedMeansResolved
<1>4. CASE SpawnAgain(f)
  BY <1>4 DEF SpawnAgain, bucketVars, serverVars, PollTypeOK, BucketInv,
     BucketTypeOK, FingerprintInv, GateInv, ShaIsTheRefsOwn, CachedMeansResolved
<1>5. CASE Push(f)
  <2>1. remote' \in [Users -> RefStates]
    BY <1>5 DEF Push, PollTypeOK, RefStates
  <2>2. pushed' \in [Users -> Nat] /\ \A g \in Users : pushed'[g] >= pushed[g]
    BY <1>5 DEF Push, PollTypeOK
  <2> QED
    BY <1>5, <2>1, <2>2 DEF Push, bucketVars, seenVars, PollTypeOK, FingerprintInv, GateInv,
       ShaIsTheRefsOwn, CachedMeansResolved
<1>6. CASE Publish(f)
  BY <1>6 DEF Publish, bucketVars, seenVars, PollTypeOK, FingerprintInv, GateInv,
     ShaIsTheRefsOwn, CachedMeansResolved
<1> QED BY <1>1, <1>2, <1>3, <1>4, <1>5, <1>6

\* poll_one from its start to its outcome.
LEMMA RequestStep ==
  ASSUME PollInv, NEW f \in Users,
         StartPoll(f) \/ PollGithub(f) \/ ReadManifest(f) \/ PollLsRemote(f)
  PROVE  PollTypeOK' /\ FingerprintInv' /\ GateInv' /\ ShaIsTheRefsOwn' /\ CachedMeansResolved'
<1> USE DEF PollInv
<1>1. UNCHANGED <<bucketVars, source, remote, pushed, published>> /\ pc[f] # "gate"
  BY DEF StartPoll, PollGithub, ReadManifest, PollLsRemote, serverVars
<1>2. ASSUME NEW result, EndCycle(f, result), result[1] # "Refreshed", pc[f] # "resolve",
             UNCHANGED lost, UNCHANGED cached \/ cached' = [cached EXCEPT ![f] = cached[f]],
             pc[f] \in {"poll", "manifest"}
      PROVE  PollTypeOK' /\ FingerprintInv' /\ GateInv' /\ ShaIsTheRefsOwn'
             /\ CachedMeansResolved'
  <2>1. /\ pc' = [pc EXCEPT ![f] = "sleep"]
        /\ last' \in [Users -> Shas] /\ base' \in [Users -> RefStates] /\ ShaIsTheRefsOwn'
        /\ resolved' \in [Users -> Nat] /\ \A g \in Users : resolved'[g] = resolved[g]
    BY <1>1, <1>2, EndCycleEffect
  <2>2. UNCHANGED cached
    BY <1>2 DEF PollTypeOK
  <2> QED
    BY <1>1, <1>2, <2>1, <2>2 DEF PollTypeOK, FingerprintInv, GateInv, CachedMeansResolved, bucketVars
<1>3. CASE StartPoll(f)
  <2>1. CASE source[f].strategy # "LsRemote" /\ ~source[f].path
    <3>1. EndCycle(f, <<"bad url", None>>) /\ UNCHANGED <<cached, lost>> /\ pc[f] = "poll"
      BY <1>3, <2>1 DEF StartPoll
    <3> QED BY <3>1, <1>2
  <2>2. CASE ~(source[f].strategy # "LsRemote" /\ ~source[f].path)
    <3>1. /\ pc[f] = "poll" /\ UNCHANGED <<last, base, resolved, cached, lost>>
          /\ pc' = [pc EXCEPT ![f] =
               IF source[f].strategy = "Grokmirror" THEN "manifest" ELSE "resolve"]
      BY <1>3, <2>2 DEF StartPoll
    <3> QED
      BY <1>1, <3>1 DEF PollTypeOK, FingerprintInv, GateInv, ShaIsTheRefsOwn, CachedMeansResolved,
         bucketVars
  <2> QED BY <2>1, <2>2
<1>4. CASE PollGithub(f)
  <2>1. PICK a \in ApiAnswers : EndCycle(f, GithubPoll(source[f].ref, remote[f], a))
    BY <1>4 DEF PollGithub
  <2> DEFINE result == GithubPoll(source[f].ref, remote[f], a)
  <2>2. result[1] = "Refreshed" => result[2] = Own(remote[f])
    BY AnswersOwn
  <2> HIDE DEF result
  <2>3. /\ pc' = [pc EXCEPT ![f] = "sleep"]
        /\ last' \in [Users -> Shas] /\ base' \in [Users -> RefStates] /\ ShaIsTheRefsOwn'
        /\ resolved' \in [Users -> Nat] /\ \A g \in Users : g # f => resolved'[g] = resolved[g]
    BY <1>1, <2>1, <2>2, EndCycleEffect DEF result
  <2>4. UNCHANGED <<cached, lost>> /\ cached[f] = 0
    BY <1>4 DEF PollGithub, FingerprintInv
  <2> QED
    BY <1>1, <2>3, <2>4 DEF PollTypeOK, FingerprintInv, GateInv, CachedMeansResolved, bucketVars
<1>5. CASE ReadManifest(f)
  <2>1. pc[f] = "manifest"
    BY <1>5 DEF ReadManifest
  <2>2. CASE /\ ~FingerprintUnchanged(f)
             /\ cached' = [cached EXCEPT ![f] = published[f]]
             /\ pc' = [pc EXCEPT ![f] = "resolve"]
             /\ UNCHANGED seenVars
    BY <1>1, <2>1, <2>2 DEF seenVars, PollTypeOK, FingerprintInv, GateInv, ShaIsTheRefsOwn,
       CachedMeansResolved, bucketVars
  <2>3. CASE \E e \in ManifestErrors : EndCycle(f, <<ManifestErrorClass(e), None>>)
                                       /\ UNCHANGED <<cached, lost>>
    <3>1. PICK e \in ManifestErrors : EndCycle(f, <<ManifestErrorClass(e), None>>)
                                      /\ UNCHANGED <<cached, lost>>
      BY <2>3
    <3>2. ManifestErrorClass(e) # "Refreshed"
      BY DEF ManifestErrorClass
    <3> QED BY <3>1, <3>2, <2>1, <1>2
  <2>4. CASE EndCycle(f, <<"UnbornRef", None>>) /\ UNCHANGED <<cached, lost>>
    BY <2>4, <2>1, <1>2
  <2>5. CASE /\ FingerprintUnchanged(f) /\ EndCycle(f, <<"Unchanged", None>>)
             /\ cached' = [cached EXCEPT ![f] = published[f]] /\ UNCHANGED lost
    BY <2>5, <2>1, <1>2 DEF FingerprintUnchanged
  <2> QED BY <1>5, <2>2, <2>3, <2>4, <2>5 DEF ReadManifest
<1>6. CASE PollLsRemote(f)
  <2>1. PICK v2 \in BOOLEAN, e \in LsErrors \cup {"none"} :
           /\ EndCycle(f, LsRemote(remote[f], v2, e))
           /\ lost' = [lost EXCEPT ![f] =
                LsRemote(remote[f], v2, e)[1] \in {"transient", "permanent"}]
    BY <1>6 DEF PollLsRemote
  <2> DEFINE result == LsRemote(remote[f], v2, e)
  <2>2. /\ result[1] \in {"Refreshed", "UnbornRef", "transient", "permanent"}
        /\ result[1] = "Refreshed" => result[2] = Own(remote[f])
    BY AnswersOwn
  <2>3. UNCHANGED cached /\ pc[f] = "resolve"
    BY <1>6 DEF PollLsRemote
  <2> HIDE DEF result
  <2>4. EndCycle(f, result)
        /\ lost' = [lost EXCEPT ![f] = result[1] \in {"transient", "permanent"}]
    BY <2>1 DEF result
  <2>5. /\ pc' = [pc EXCEPT ![f] = "sleep"]
        /\ last' \in [Users -> Shas] /\ base' \in [Users -> RefStates] /\ ShaIsTheRefsOwn'
        /\ resolved' \in [Users -> Nat] /\ \A g \in Users : g # f => resolved'[g] = resolved[g]
        /\ result[1] \in {"Refreshed", "UnbornRef"} => resolved'[f] = pushed[f]
    BY <1>1, <2>2, <2>3, <2>4, EndCycleEffect
  <2>6. lost' \in [Users -> BOOLEAN]
    BY <2>4 DEF PollTypeOK
  <2>7. \A g \in Users : (g # f => lost'[g] = lost[g])
                         /\ (g = f => (lost'[g] <=> result[1] \in {"transient", "permanent"}))
    BY <2>4 DEF PollTypeOK
  <2>8. CachedMeansResolved'
    BY <1>1, <2>2, <2>3, <2>5, <2>7 DEF PollTypeOK, FingerprintInv, CachedMeansResolved
  <2> QED
    BY <1>1, <2>3, <2>5, <2>6, <2>8 DEF PollTypeOK, FingerprintInv, GateInv, bucketVars
<1> QED BY <1>3, <1>4, <1>5, <1>6

LEMMA PollInvStep == PollInv /\ [PollNext]_pollVars => PollInv'
<1> SUFFICES ASSUME PollInv, [PollNext]_pollVars PROVE PollInv'
  OBVIOUS
<1>1. CASE PollNext
  <2>1. BucketInv'
    BY <1>1, PollStepsBucket, BucketInvStep DEF PollInv
  <2>2. CASE PollTick
    BY <2>1, <2>2 DEF PollTick, BucketTick, serverVars, seenVars, PollInv, PollTypeOK,
       FingerprintInv, GateInv, ShaIsTheRefsOwn, CachedMeansResolved
  <2> QED BY <1>1, <2>1, <2>2, QuietStep, RequestStep DEF PollNext, PollInv
<1>2. CASE UNCHANGED pollVars
  BY <1>2 DEF pollVars, bucketVars, PollInv, PollTypeOK, BucketInv, BucketTypeOK, BehindLast,
     SlotsSpaced, FingerprintInv, GateInv, ShaIsTheRefsOwn, CachedMeansResolved
<1> QED BY <1>1, <1>2

\* For any flows, hosts, refs and pushes: slots of a host are spaced, what last_sha holds is
\* comparable across transports and protocol versions, a cached fingerprint is resolved
\* unless the resolve after it failed, and a flow waits exactly while it is at the gate
\* (run_with_executor, poll_one, RateBucket::acquire).
THEOREM SourcesCorrect == PollSpec => []SourcesAreSound
<1>1. PollInv => SourcesAreSound
  BY DEF PollInv, BucketInv, GateInv, SourcesAreSound
<1> QED
  BY <1>1, PollInvInit, PollInvStep, PTL DEF PollSpec

=============================================================================
