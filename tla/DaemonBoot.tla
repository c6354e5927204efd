----------------------------- MODULE DaemonBoot -----------------------------
(***************************************************************************)
(* Start-up and exit of `gcit run` processes that share a runtime          *)
(* directory: the configuration, the instance lock, the state file, the    *)
(* first flows, and last the control socket, inherited from systemd or     *)
(* bound after a leftover of an earlier daemon has been probed and         *)
(* removed.  Nothing removes the socket file of a daemon that stops.       *)
(***************************************************************************)
EXTENDS Integers, FiniteSets

CONSTANTS
    Procs,    \* processes that are told to run, each once
    NoProcess \* an absent process

ASSUME BootAssumption == Procs \cap {NoProcess, "stale", "systemd"} = {}

VARIABLES
    activated,  \* systemd passes a listener named "control"
    boot,       \* how far each process has come
    lock,       \* the process that holds gcit.lock
    sock        \* the process whose listener the socket path leads to, "systemd",
                \* "stale" for a file nobody listens on, or NoProcess

bootVars == <<activated, boot, lock, sock>>

Phases == {"off", "configured", "locked", "loaded", "spawned", "found_stale", "free",
           "bound", "ready", "exited", "failing", "failed"}

\* Processes with the state file loaded and flows about to run or running.
HoldsState == {"loaded", "spawned", "found_stale", "free", "bound", "ready"}
Running(p) == boot[p] \notin {"off", "exited", "failed"}
Listening(p) == boot[p] \in {"bound", "ready"}

BootTypeOK ==
    /\ activated \in BOOLEAN
    /\ boot \in [Procs -> Phases]
    /\ lock \in Procs \cup {NoProcess}
    /\ sock \in Procs \cup {NoProcess, "stale", "systemd"}

BootInit ==
    /\ activated \in BOOLEAN
    /\ boot = [p \in Procs |-> "off"]
    /\ lock = NoProcess
    /\ sock \in IF activated THEN {"systemd"} ELSE {NoProcess, "stale"}

\* The process is gone: the kernel drops its lock, the socket file stays.
Gone(p, phase) ==
    /\ boot' = [boot EXCEPT ![p] = phase]
    /\ lock' = IF lock = p THEN NoProcess ELSE lock
    /\ sock' = IF sock = p THEN "stale" ELSE sock
    /\ UNCHANGED activated

\* run_with_factories returns an error after the writer thread was started: lock and
\* listener are dropped, the thread is detached and goes on until the process ends.
Fails(p, from) == boot[p] = from /\ Gone(p, "failing")

ProcessEnds(p) == boot[p] = "failing" /\ Gone(p, "failed")

To(p, from, to) ==
    /\ boot[p] = from /\ boot' = [boot EXCEPT ![p] = to]

\* load_initial_config.
LoadConfig(p) ==
    \/ To(p, "off", "configured") /\ UNCHANGED <<activated, lock, sock>>
    \/ boot[p] = "off" /\ Gone(p, "failed")

LockNotKept(p) ==
    \/ lock = NoProcess /\ To(p, "configured", "locked") /\ UNCHANGED <<activated, lock, sock>>
    \/ lock # NoProcess /\ boot[p] = "configured" /\ Gone(p, "failed")

\* try_write on the lock file, which run_with_factories holds until it returns, or
\* StateError::LockHeld, or an error of the file system.
TryLock(p) ==
    \/ /\ lock = NoProcess /\ To(p, "configured", "locked")
       /\ lock' = p /\ UNCHANGED <<activated, sock>>
    \/ boot[p] = "configured" /\ Gone(p, "failed")

\* setup_state_writer: a file of another schema is refused.
LoadState(p) ==
    \/ To(p, "locked", "loaded") /\ UNCHANGED <<activated, lock, sock>>
    \/ boot[p] = "locked" /\ Gone(p, "failed")

\* build_shared_http_resources may fail; spawn_initial_flows does not.
SpawnInitialFlows(p) ==
    \/ To(p, "loaded", "spawned") /\ UNCHANGED <<activated, lock, sock>>
    \/ Fails(p, "loaded")

\* accept_control_socket_from_fds without an inherited listener: the path is probed
\* with a connection.
ProbeSocket(p) ==
    \/ sock = NoProcess /\ To(p, "spawned", "free") /\ UNCHANGED <<activated, lock, sock>>
    \/ sock = "stale" /\ To(p, "spawned", "found_stale") /\ UNCHANGED <<activated, lock, sock>>
    \/ sock \in Procs /\ Fails(p, "spawned")

\* remove_file takes whatever is at the path by now.
RemoveStale(p) ==
    /\ To(p, "found_stale", "free")
    /\ sock' = NoProcess /\ UNCHANGED <<activated, lock>>

Bind(p) ==
    \/ sock = NoProcess /\ To(p, "free", "bound") /\ sock' = p /\ UNCHANGED <<activated, lock>>
    \/ Fails(p, "free")

Inherit(p) ==
    activated /\ To(p, "spawned", "bound") /\ UNCHANGED <<activated, lock, sock>>

\* The control server, the watchdog and the signal handlers are up, or the last are not.
NotifyReady(p) ==
    \/ To(p, "bound", "ready") /\ UNCHANGED <<activated, lock, sock>>
    \/ Fails(p, "bound")

BootStep(p) ==
    \/ LoadConfig(p) \/ TryLock(p) \/ LoadState(p) \/ SpawnInitialFlows(p)
    \/ ~activated /\ ProbeSocket(p)
    \/ RemoveStale(p) \/ Bind(p) \/ Inherit(p) \/ NotifyReady(p) \/ ProcessEnds(p)

\* kill -9, or a power cut for this process alone.
Kill(p) == Running(p) /\ Gone(p, "exited")

BootNext == \E p \in Procs : BootStep(p) \/ Kill(p)

BootSpec == BootInit /\ [][BootNext]_bootVars

-----------------------------------------------------------------------------
\* Two processes never both work on state.json and post for the same changes; the
\* writer of one whose start-up failed is not counted (see FileHasOneWriter).
OneDaemon == \A p, q \in Procs : boot[p] \in HoldsState /\ boot[q] \in HoldsState => p = q

\* `gcit status` reaches a daemon that says it is ready: a process that comes up at
\* the same time does not take the socket away between probing and binding.
ReadyIsReachable ==
    \A p \in Procs : Listening(p) => sock = IF activated THEN "systemd" ELSE p

\* run.rs: the exclusive flock "prevents a second gcit instance from racing on
\* state.json", also while a daemon whose start-up failed still has its writer.
FileHasOneWriter ==
    \A p, q \in Procs :
       {boot[p], boot[q]} \subseteq HoldsState \cup {"failing"} => p = q

\* Of any number of processes that come up, are killed and come up again, one works
\* on the state, and it is the one clients reach.
BootIsExclusive == BootTypeOK /\ OneDaemon /\ ReadyIsReachable

=============================================================================
