----------------------------- MODULE Deployment -----------------------------
(***************************************************************************)
(* A machine: `gcit install` and `gcit uninstall` at work on the files     *)
(* that the daemons read when they come up.                                *)
(***************************************************************************)
EXTENDS Install, DaemonBoot

vars == <<installVars, bootVars>>

Init == InstallInit /\ BootInit

TypeOK == InstallTypeOK /\ BootTypeOK

\* `gcit run` fails without a configuration at its place.
DaemonStep(p) ==
    /\ BootStep(p) \/ Kill(p)
    /\ boot'[p] = "configured" => files["config"] # Absent
    /\ UNCHANGED installVars

\* SIGTERM: the daemon goes the way of ControlPlane's shutdown.
DaemonStops(p) == boot[p] = "ready" /\ Gone(p, "exited") /\ UNCHANGED installVars

Next ==
    \/ InstallNext /\ UNCHANGED bootVars
    \/ \E p \in Procs : DaemonStep(p) \/ DaemonStops(p)

Spec == Init /\ [][Next]_vars

=============================================================================
