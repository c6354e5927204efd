------------------------------ MODULE Install ------------------------------
(***************************************************************************)
(* `gcit install` and `gcit uninstall`: the units and the configuration    *)
(* are written one atomic file after the other, the manifest with their    *)
(* digests last; removal goes by the manifest and drops it last.  Either   *)
(* command may fail or be killed between two files, and the operator edits *)
(* or deletes files at any time.  A digest stands for the contents.        *)
(***************************************************************************)
EXTENDS Integers, Sequences, FiniteSets, SequencesExt

CONSTANTS
    Outputs,  \* the files of build_outputs, in order
    MaxRev,   \* bound: revisions of the configuration the operator feeds in
    MaxOps,   \* bound: commands started
    MaxEdits, \* bound: edits and deletions by the operator
    Absent    \* an absent file, manifest or command

VARIABLES
    files,     \* contents: the revision an output was rendered from, -1 for an edit
    manifest,  \* what .install-manifest.json records
    account,   \* the static user: "none", "created" by useradd, or "foreign"
    op,        \* the command that runs, or Absent
    unseen,    \* files edited since the command compared digests, or whose stat failed
    proposed,  \* uninstall offered `userdel`
    ops,       \* commands so far
    edits      \* edits so far

installVars == <<files, manifest, account, op, unseen, proposed, ops, edits>>

Files == ToSet(Outputs)
Edited == -1
Contents == -1..MaxRev
Manifest == [sha : [Files -> 0..MaxRev], required : BOOLEAN, created : BOOLEAN]
Command == [cmd : {"install"}, mail : BOOLEAN, rev : 0..MaxRev, text : 0..MaxRev,
            created : BOOLEAN, at : 0..Len(Outputs) + 1]
           \cup [cmd : {"uninstall"}, force : BOOLEAN, failed : BOOLEAN,
                 at : 1..Len(Outputs) + 1]

ASSUME InstallAssumption ==
    /\ Outputs \in Seq(STRING) /\ IsInjective(Outputs)
    /\ MaxRev \in Nat /\ MaxOps \in Nat /\ MaxEdits \in Nat
    /\ Absent \notin Int /\ Absent \notin Manifest /\ Absent \notin Command

InstallTypeOK ==
    /\ files \in [Files -> Contents \cup {Absent}]
    /\ manifest \in Manifest \cup {Absent}
    /\ account \in {"none", "created", "foreign"}
    /\ op \in Command \cup {Absent}
    /\ unseen \subseteq Files /\ proposed \in BOOLEAN
    /\ ops \in 0..MaxOps /\ edits \in 0..MaxEdits

InstallInit ==
    /\ files = [f \in Files |-> Absent] /\ manifest = Absent
    /\ account \in {"none", "foreign"}
    /\ op = Absent /\ unseen = {} /\ proposed = FALSE
    /\ ops = 0 /\ edits = 0

-----------------------------------------------------------------------------
(* gcit install. *)

\* refuse_silent_overwrite: any output that exists, unless --force.
MayWrite(force) == force \/ \A f \in Files : files[f] = Absent

\* Up to the operator's `y`.  The units are rendered from the configuration that was
\* loaded, its text is read again and may be newer.
StartInstall ==
    /\ op = Absent /\ ops < MaxOps /\ ops' = ops + 1
    /\ \E force \in BOOLEAN, mail \in BOOLEAN, rev \in 0..MaxRev : \E text \in rev..MaxRev :
          /\ MayWrite(force)
          /\ op' = [cmd |-> "install", mail |-> mail, rev |-> rev, text |-> text,
                    created |-> FALSE, at |-> 0]
    /\ unseen' = {} /\ proposed' = FALSE
    /\ UNCHANGED <<files, manifest, account, edits>>

Installing(n) == op # Absent /\ op.cmd = "install" /\ op.at = n
Stop == op' = Absent

AnyExitIsCreated(taken) == TRUE

\* classify_useradd_exit: 0 when the account is new, 9 when the name is taken.
ClassifyUseraddExit(taken) == ~taken

\* ensure_static_user_if_local_mail.
EnsureStaticUser ==
    /\ Installing(0)
    /\ \/ ~op.mail /\ op' = [op EXCEPT !.at = 1] /\ UNCHANGED account
       \/ /\ op.mail
          /\ account' = IF account = "none" THEN "created" ELSE account
          /\ op' = [op EXCEPT !.at = 1, !.created = ClassifyUseraddExit(account # "none")]
       \/ op.mail /\ Stop /\ UNCHANGED account
    /\ UNCHANGED <<files, manifest, unseen, proposed, ops, edits>>

Rendered(f) == IF f = "config" THEN op.text ELSE op.rev

\* write_outputs, one file.
WriteOutput ==
    /\ op # Absent /\ op.cmd = "install" /\ op.at \in 1..Len(Outputs)
    /\ \/ /\ files' = [files EXCEPT ![Outputs[op.at]] = Rendered(Outputs[op.at])]
          /\ op' = [op EXCEPT !.at = @ + 1]
       \/ Stop /\ UNCHANGED files
    /\ UNCHANGED <<manifest, account, unseen, proposed, ops, edits>>

\* write_outputs, the manifest: digests of what was rendered, not of what is on disk.
WriteManifest ==
    /\ Installing(Len(Outputs) + 1) /\ Stop
    /\ \/ manifest' = [sha |-> [f \in Files |-> Rendered(f)], required |-> op.mail,
                       created |-> op.created]
       \/ UNCHANGED manifest
    /\ UNCHANGED <<files, account, unseen, proposed, ops, edits>>

-----------------------------------------------------------------------------
(* gcit uninstall. *)

Modified == {f \in Files : files[f] # Absent /\ files[f] # manifest.sha[f]}

NoDigests(force, hidden) == TRUE

\* Operator-modified files stop an uninstall without --force; a file whose stat fails
\* counts as gone (exists()).
MayRemove(force, hidden) == force \/ Modified \subseteq hidden

StartUninstall ==
    /\ op = Absent /\ ops < MaxOps /\ ops' = ops + 1
    /\ manifest # Absent
    /\ \E force \in BOOLEAN, hidden \in SUBSET Files :
          /\ MayRemove(force, hidden)
          /\ op' = [cmd |-> "uninstall", force |-> force, failed |-> FALSE, at |-> 1]
          /\ unseen' = hidden
    /\ proposed' = FALSE
    /\ UNCHANGED <<files, manifest, account, edits>>

\* One entry: gone already, removed, skipped because its stat fails, or an error that
\* the loop remembers.
RemoveEntry ==
    /\ op # Absent /\ op.cmd = "uninstall" /\ op.at \in 1..Len(Outputs)
    /\ \/ /\ files' = [files EXCEPT ![Outputs[op.at]] = Absent]
          /\ op' = [op EXCEPT !.at = @ + 1]
          /\ UNCHANGED unseen
       \/ /\ files[Outputs[op.at]] # Absent /\ UNCHANGED files
          /\ op' = [op EXCEPT !.at = @ + 1]
          /\ unseen' = unseen \cup {Outputs[op.at]}
       \/ /\ files[Outputs[op.at]] # Absent /\ UNCHANGED <<files, unseen>>
          /\ op' = [op EXCEPT !.at = @ + 1, !.failed = TRUE]
    /\ UNCHANGED <<manifest, account, proposed, ops, edits>>

AlwaysLast == TRUE

\* Errors keep the manifest for the next attempt.
AllRemoved == ~op.failed

\* The manifest goes last; then the hint about the account is printed.
FinishUninstall ==
    /\ op # Absent /\ op.cmd = "uninstall" /\ op.at = Len(Outputs) + 1 /\ Stop
    /\ \/ /\ AllRemoved /\ manifest' = Absent
          /\ proposed' = (manifest.required /\ manifest.created)
       \/ UNCHANGED <<manifest, proposed>>
    /\ UNCHANGED <<files, account, unseen, ops, edits>>

-----------------------------------------------------------------------------
\* Ctrl-C, SIGKILL or a power cut between two files.
Interrupt == op # Absent /\ Stop /\ UNCHANGED <<files, manifest, account, unseen, proposed, ops, edits>>

\* The operator changes, creates or deletes a file.
OperatorEdits ==
    /\ edits < MaxEdits /\ edits' = edits + 1
    /\ \E f \in Files, c \in {Edited, Absent} :
          files' = [files EXCEPT ![f] = c] /\ unseen' = unseen \cup {f}
    /\ UNCHANGED <<manifest, account, op, proposed, ops>>

InstallNext ==
    \/ StartInstall \/ EnsureStaticUser \/ WriteOutput \/ WriteManifest
    \/ StartUninstall \/ RemoveEntry \/ FinishUninstall
    \/ Interrupt \/ OperatorEdits

InstallSpec == InstallInit /\ [][InstallNext]_installVars

-----------------------------------------------------------------------------
(* Properties. *)

\* Uninstall without --force takes away no edit, whatever failed, was interrupted or
\* installed over before, except one made while it ran or in a file it could not stat.
EditsAreSpared ==
    [][\A f \in Files :
          (op # Absent /\ op.cmd = "uninstall" /\ files[f] = Edited /\ files'[f] = Absent
           /\ op' # op) =>
             op.force \/ f \in unseen]_installVars

\* The manifest outlives the files it names: however often an uninstall fails or is
\* interrupted, what it left behind can be uninstalled by the next one, except files put
\* back while it ran or, since exists() is false of them, files it could not stat.
LeftoversStayListed ==
    [][(manifest # Absent /\ manifest' = Absent) => \A f \in Files \ unseen : files[f] = Absent]_installVars

\* `userdel` is offered only for an account that an install created.
OnlyOwnAccountProposed == proposed => account = "created"

\* Files, manifest and account stay consistent over failed and interrupted commands.
InstallIsConsistent == InstallTypeOK /\ OnlyOwnAccountProposed

\* install.rs: uninstall prints the matching `userdel` reminder for the account that
\* `gcit install` created.
OwnAccountIsRecorded ==
    (manifest # Absent /\ manifest.required /\ account = "created") => manifest.created

=============================================================================
