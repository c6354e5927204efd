----------------------------- MODULE Supervisor -----------------------------
(***************************************************************************)
(* The supervisor task (src/flow/supervisor): the flow registry, the       *)
(* JoinSet of poll and dispatcher tasks, reload with its per-flow diff and *)
(* bounded drain, panic respawn with its drain gate, and shutdown.         *)
(*                                                                         *)
(* A generation is one spawn_flow of a flow: a cancellation token and two  *)
(* tasks.  What the tasks do is FlowPipeline's subject; here they run,     *)
(* observe their source, end or panic.  The supervisor is one task: each   *)
(* of its handlers is an action, split where it awaits.                    *)
(***************************************************************************)
EXTENDS Integers, Sequences, FiniteSets

CONSTANTS
  Flows,                 \* flow names
  Urls,                  \* source URLs
  Configs,               \* configurations the operator may write
  RESPAWN_MAX_ATTEMPTS,  \* deferrals of a respawn request (30 in the code)
  U8,                    \* 2^8: pending_exits counts in a u8
  STATE_QUEUE,           \* capacity of the state channel
  DrainTimesOut,         \* whether a reload's drain may hit its 30 s limit
  MaxGenerations, MaxReloads, MaxPanics, MaxObservations,   \* bounds
  NULL

FlowConfig == [enabled: BOOLEAN, url: Urls, rev: Nat]

ASSUME SupervisorAssumption ==
  /\ Configs \subseteq [Flows -> FlowConfig \cup {NULL}]
  /\ {RESPAWN_MAX_ATTEMPTS, MaxGenerations, MaxReloads, MaxPanics, MaxObservations} \subseteq Nat
  /\ {U8, STATE_QUEUE} \subseteq Nat \ {0}
  /\ DrainTimesOut \in BOOLEAN
  /\ NULL \notin Urls /\ NULL \notin FlowConfig /\ NULL \notin Nat

VARIABLES
  spc,           \* where the supervisor task is
  config,        \* the config_watch value
  new_cfg,       \* the configuration a reload is installing
  to_keep,       \* flows the reload leaves alone
  resets,        \* flows whose persisted state the reload still has to drop
  todo,          \* flows still to spawn
  handles,       \* registry.handles: generation of the flow's handle, NULL if none
  respawning,    \* registry.respawning_flows
  pending,       \* registry.pending_exits, NULL for a missing key
  setup_failed,  \* flows whose last spawn_flow failed
  timers,        \* respawn requests, sleeping or queued
  gens,          \* generations ever spawned
  cancelled,     \* generations whose token is cancelled
  running,       \* tasks that run
  exits,         \* tasks that ended and have not been joined
  stateq, mirror,
  reloads, panics, observations

registry == <<handles, respawning, pending>>
joinset == <<running, exits>>
plan == <<new_cfg, to_keep, resets>>
state == <<stateq, mirror>>
bounds == <<reloads, panics, observations>>
vars == <<spc, config, plan, todo, registry, setup_failed, timers, gens, cancelled, joinset,
          state, bounds>>

Roles == {"Poll", "Dispatcher"}
Generation == [flow: Flows, url: Urls, seed: Urls \cup {NULL}]

TypeOK ==
  /\ spc \in {"spawn", "loop", "drain", "emit", "stopping", "stopped"}
  /\ config \in Configs /\ new_cfg \in Configs
  /\ to_keep \subseteq Flows /\ resets \subseteq Flows /\ todo \subseteq Flows
  /\ gens \in Seq(Generation) /\ Len(gens) <= MaxGenerations
  /\ handles \in [Flows -> (DOMAIN gens) \cup {NULL}]
  /\ respawning \subseteq Flows /\ setup_failed \subseteq Flows
  /\ pending \in [Flows -> (0 .. U8 - 1) \cup {NULL}]
  /\ timers \subseteq [flow: Flows, attempts: 0 .. RESPAWN_MAX_ATTEMPTS,
                       cause: (DOMAIN gens) \X Roles]
  /\ cancelled \subseteq DOMAIN gens
  /\ running \subseteq (DOMAIN gens) \X Roles
  /\ exits \subseteq [task: ((DOMAIN gens) \X Roles) \ running, panic: BOOLEAN]
  /\ stateq \in Seq([flow: Flows, url: Urls \cup {NULL}]) /\ Len(stateq) <= STATE_QUEUE
  /\ mirror \in [Flows -> Urls \cup {NULL}]

FlowOf(task) == gens[task[1]].flow

Enabled(cfg, f) == cfg[f] # NULL /\ cfg[f].enabled

\* A process starts: spawn_initial_flows.
Init ==
  /\ spc = "spawn"
  /\ config \in Configs /\ new_cfg = config
  /\ to_keep = {} /\ resets = {}
  /\ todo = {f \in Flows : Enabled(config, f)}
  /\ handles = [f \in Flows |-> NULL] /\ respawning = {} /\ pending = [f \in Flows |-> NULL]
  /\ setup_failed = {} /\ timers = {}
  /\ gens = << >> /\ cancelled = {} /\ running = {} /\ exits = {}
  /\ stateq = << >> /\ mirror = [f \in Flows |-> NULL]
  /\ reloads = 0 /\ panics = 0 /\ observations = 0

-----------------------------------------------------------------------------
(* spawn_flow.                                                             *)

OrZero(n) == IF n = NULL THEN 0 ELSE n

\* Faulty variant: one exit expected per flow.
SpawnedCountsOne(f) ==
  LET g == Len(gens) + 1 IN
  /\ g <= MaxGenerations
  /\ gens' = Append(gens, [flow |-> f, url |-> config[f].url, seed |-> mirror[f]])
  /\ running' = running \cup ({g} \X Roles)
  /\ handles' = [handles EXCEPT ![f] = g]
  /\ pending' = [pending EXCEPT ![f] = (OrZero(@) + 1) % U8]
  /\ setup_failed' = setup_failed \ {f}

\* The pair starts, seeded from the state mirror; two exits are expected of it.
Spawned(f) ==
  LET g == Len(gens) + 1 IN
  /\ g <= MaxGenerations
  /\ gens' = Append(gens, [flow |-> f, url |-> config[f].url, seed |-> mirror[f]])
  /\ running' = running \cup ({g} \X Roles)
  /\ handles' = [handles EXCEPT ![f] = g]
  /\ pending' = [pending EXCEPT ![f] = (OrZero(@) + 2) % U8]
  /\ setup_failed' = setup_failed \ {f}

\* A notifier or a credential cannot be built: record_setup_failure_and_skip.
SetupFails(f) ==
  /\ setup_failed' = setup_failed \cup {f}
  /\ UNCHANGED <<gens, running, handles, pending>>

SpawnFlow(f) == Spawned(f) \/ SetupFails(f)

\* spawn_initial_flows and spawn_new_generation, one flow at a time
SpawnNext ==
  /\ spc = "spawn"
  /\ \E f \in todo :
       /\ SpawnFlow(f)
       /\ respawning' = respawning \ {f}
       /\ todo' = todo \ {f}
  /\ UNCHANGED <<spc, config, plan, timers, cancelled, exits, state, bounds>>

SpawnsDone ==
  /\ spc = "spawn"
  /\ todo = {}
  /\ spc' = "loop"
  /\ UNCHANGED <<config, plan, todo, registry, setup_failed, timers, gens, cancelled, joinset,
                 state, bounds>>

-----------------------------------------------------------------------------
(* The flows' tasks and the state writer.                                  *)

\* A cancelled task returns.  So does a poll task whose dispatcher is gone, and a
\* dispatcher whose trigger senders are: the poll task's and the handle's.
TaskExits(g, r) ==
  /\ <<g, r>> \in running
  /\ \/ g \in cancelled
     \/ r = "Poll" /\ <<g, "Dispatcher">> \notin running
     \/ r = "Dispatcher" /\ <<g, "Poll">> \notin running /\ handles[gens[g].flow] # g
  /\ running' = running \ {<<g, r>>}
  /\ exits' = exits \cup {[task |-> <<g, r>>, panic |-> FALSE]}
  /\ UNCHANGED <<spc, config, plan, todo, registry, setup_failed, timers, gens, cancelled,
                 state, bounds>>

\* catch_unwind turns a panic into a FlowExit.
TaskPanics(g, r) ==
  /\ <<g, r>> \in running
  /\ panics < MaxPanics
  /\ panics' = panics + 1
  /\ running' = running \ {<<g, r>>}
  /\ exits' = exits \cup {[task |-> <<g, r>>, panic |-> TRUE]}
  /\ UNCHANGED <<spc, config, plan, todo, registry, setup_failed, timers, gens, cancelled,
                 state, reloads, observations>>

\* A poll task queues what it saw at its source.
Observe(g) ==
  /\ <<g, "Poll">> \in running
  /\ observations < MaxObservations
  /\ Len(stateq) < STATE_QUEUE
  /\ stateq' = Append(stateq, [flow |-> gens[g].flow, url |-> gens[g].url])
  /\ observations' = observations + 1
  /\ UNCHANGED <<spc, config, plan, todo, registry, setup_failed, timers, gens, cancelled,
                 joinset, mirror, reloads, panics>>

\* The writer applies, persists and shows an update (FlowRemoved has url NULL).
WriterShows ==
  /\ stateq # << >>
  /\ mirror' = [mirror EXCEPT ![Head(stateq).flow] = Head(stateq).url]
  /\ stateq' = Tail(stateq)
  /\ UNCHANGED <<spc, config, plan, todo, registry, setup_failed, timers, gens, cancelled,
                 joinset, bounds>>

-----------------------------------------------------------------------------
(* handle_flow_exit.                                                       *)

ExitObserved(f) ==
  pending' = [pending EXCEPT ![f] = IF OrZero(@) <= 1 THEN NULL ELSE @ - 1]

\* CleanExit: the registry forgets the flow.
CleanExit(e) ==
  LET f == FlowOf(e.task) IN
  /\ ~e.panic
  /\ ExitObserved(f)
  /\ handles' = [handles EXCEPT ![f] = NULL]
  /\ UNCHANGED <<respawning, timers, cancelled>>

\* PanicDuplicate: the sibling's panic already scheduled the respawn.
PanicDuplicate(e) ==
  /\ e.panic
  /\ FlowOf(e.task) \in respawning
  /\ ExitObserved(FlowOf(e.task))
  /\ UNCHANGED <<handles, respawning, timers, cancelled>>

\* PanicFirst: take the respawn slot, stop the sibling, start the 30 s watcher.
PanicFirst(e) ==
  LET f == FlowOf(e.task) IN
  /\ e.panic
  /\ f \notin respawning
  /\ ExitObserved(f)
  /\ respawning' = respawning \cup {f}
  /\ cancelled' = cancelled \cup ({handles[f]} \ {NULL})
  /\ handles' = [handles EXCEPT ![f] = NULL]
  /\ timers' = timers \cup {[flow |-> f, attempts |-> 0, cause |-> e.task]}

HandleFlowExit ==
  /\ spc = "loop"
  /\ \E e \in exits :
       /\ CleanExit(e) \/ PanicDuplicate(e) \/ PanicFirst(e)
       /\ exits' = exits \ {e}
  /\ UNCHANGED <<spc, config, plan, todo, setup_failed, gens, running, state, bounds>>

-----------------------------------------------------------------------------
(* handle_respawn_request.                                                 *)

\* Faulty variant: the deferrals have no budget.
DeferRespawnForever(t) ==
  /\ pending[t.flow] # NULL
  /\ timers' = (timers \ {t}) \cup {[t EXCEPT !.attempts = @ + 1]}
  /\ UNCHANGED <<registry, setup_failed, gens, running>>

\* The drain gate: the old pair still owes exits.
DeferRespawn(t) ==
  /\ pending[t.flow] # NULL
  /\ t.attempts < RESPAWN_MAX_ATTEMPTS
  /\ timers' = (timers \ {t}) \cup {[t EXCEPT !.attempts = @ + 1]}
  /\ UNCHANGED <<registry, setup_failed, gens, running>>

GateOpen(t) == pending[t.flow] = NULL \/ t.attempts >= RESPAWN_MAX_ATTEMPTS

\* Faulty variant: the slot is released only when the flow is spawned.
DropRespawnKeepsSlot(t) ==
  /\ GateOpen(t)
  /\ handles[t.flow] # NULL \/ ~Enabled(config, t.flow)
  /\ timers' = timers \ {t}
  /\ UNCHANGED <<registry, setup_failed, gens, running>>

\* The flow runs again already, or the operator removed or disabled it.
DropRespawn(t) ==
  /\ GateOpen(t)
  /\ handles[t.flow] # NULL \/ ~Enabled(config, t.flow)
  /\ timers' = timers \ {t}
  /\ respawning' = respawning \ {t.flow}
  /\ UNCHANGED <<handles, pending, setup_failed, gens, running>>

DoRespawn(t) ==
  /\ GateOpen(t)
  /\ handles[t.flow] = NULL /\ Enabled(config, t.flow)
  /\ timers' = timers \ {t}
  /\ respawning' = respawning \ {t.flow}
  /\ SpawnFlow(t.flow)

HandleRespawnRequest ==
  /\ spc = "loop"
  /\ \E t \in timers : DeferRespawn(t) \/ DropRespawn(t) \/ DoRespawn(t)
  /\ UNCHANGED <<spc, config, plan, todo, cancelled, exits, state, bounds>>

-----------------------------------------------------------------------------
(* run_reload.                                                             *)

Live(f) == handles[f] # NULL

UrlChanged(cfg, f) == config[f] # NULL /\ config[f].url # cfg[f].url

\* compute_reload_actions
ReloadAction(cfg, f) ==
  CASE cfg[f] = NULL /\ (config[f] # NULL \/ Live(f))                 -> "Remove"
    [] cfg[f] = NULL /\ config[f] = NULL /\ ~Live(f)                  -> "None"
    [] cfg[f] # NULL /\ ~Enabled(cfg, f) /\ Live(f)                   -> "Disable"
    [] cfg[f] # NULL /\ ~Enabled(cfg, f) /\ ~Live(f)                  -> "None"
    [] Enabled(cfg, f) /\ Live(f) /\ cfg[f] = config[f]               -> "Keep"
    [] Enabled(cfg, f) /\ Live(f) /\ cfg[f] # config[f]               -> "Restart"
    [] Enabled(cfg, f) /\ ~Live(f)                                    -> "Spawn"

\* Faulty variant: a disabled flow keeps its handle.
RegistryAfterKeepsDisabled(cfg) ==
  LET Of(a) == {f \in Flows : ReloadAction(cfg, f) \in a} IN
  /\ handles' = [f \in Flows |-> IF f \in Of({"Keep", "Disable"}) THEN handles[f] ELSE NULL]
  /\ cancelled' = cancelled \cup ({handles[f] : f \in Flows \ Of({"Keep"})} \ {NULL})
  /\ respawning' = respawning \ Of({"Remove", "Disable", "Restart"})

\* apply_actions_to_registry: every live flow that is not kept is cancelled.
RegistryAfter(cfg) ==
  LET Of(a) == {f \in Flows : ReloadAction(cfg, f) \in a} IN
  /\ handles' = [f \in Flows |-> IF f \in Of({"Keep"}) THEN handles[f] ELSE NULL]
  /\ cancelled' = cancelled \cup ({handles[f] : f \in Flows \ Of({"Keep"})} \ {NULL})
  /\ respawning' = respawning \ Of({"Remove", "Disable", "Restart"})

\* A reload whose file does not parse changes nothing here.
Reload ==
  /\ spc = "loop"
  /\ reloads < MaxReloads
  /\ reloads' = reloads + 1
  /\ \E cfg \in Configs :
       /\ new_cfg' = cfg
       /\ RegistryAfter(cfg)
       /\ to_keep' = {f \in Flows : ReloadAction(cfg, f) = "Keep"}
       /\ resets' = {f \in Flows : \/ ReloadAction(cfg, f) = "Remove"
                                   \/ /\ ReloadAction(cfg, f) \in {"Disable", "Restart"}
                                      /\ UrlChanged(cfg, f)}
  /\ spc' = "drain"
  /\ UNCHANGED <<config, todo, pending, setup_failed, timers, gens, joinset, state, panics,
                 observations>>

Drained == Cardinality(running) + Cardinality(exits) <= 2 * Cardinality(to_keep)

\* drain_until_kept joins exits without looking at the registry.
DrainJoins ==
  /\ spc = "drain"
  /\ ~Drained
  /\ \E e \in exits : exits' = exits \ {e}
  /\ UNCHANGED <<spc, config, plan, todo, registry, setup_failed, timers, gens, cancelled,
                 running, state, bounds>>

DrainEnds ==
  /\ spc = "drain"
  /\ Drained \/ DrainTimesOut
  /\ spc' = "emit"
  /\ UNCHANGED <<config, plan, todo, registry, setup_failed, timers, gens, cancelled, joinset,
                 state, bounds>>

\* emit_flow_removed: the update is queued, not yet applied.
EmitFlowRemoved ==
  /\ spc = "emit"
  /\ Len(stateq) < STATE_QUEUE
  /\ \E f \in resets :
       /\ stateq' = Append(stateq, [flow |-> f, url |-> NULL])
       /\ resets' = resets \ {f}
  /\ UNCHANGED <<spc, config, new_cfg, to_keep, todo, registry, setup_failed, timers, gens,
                 cancelled, joinset, mirror, bounds>>

InstallConfig ==
  /\ spc = "emit"
  /\ resets = {}
  /\ config' = new_cfg
  /\ todo' = {f \in Flows \ to_keep : Enabled(new_cfg, f)}
  /\ to_keep' = {}
  /\ spc' = "spawn"
  /\ UNCHANGED <<new_cfg, resets, registry, setup_failed, timers, gens, cancelled, joinset, state, bounds>>

-----------------------------------------------------------------------------
(* Shutdown: cancel the root token, join every task.                       *)

\* Faulty variant: only the flows with a handle are cancelled.
ShutdownHandles ==
  /\ spc = "loop"
  /\ spc' = "stopping"
  /\ cancelled' = cancelled \cup ({handles[f] : f \in Flows} \ {NULL})
  /\ timers' = {}
  /\ UNCHANGED <<config, plan, todo, registry, setup_failed, gens, joinset, state, bounds>>

Shutdown ==
  /\ spc = "loop"
  /\ spc' = "stopping"
  /\ cancelled' = DOMAIN gens
  /\ timers' = {}
  /\ UNCHANGED <<config, plan, todo, registry, setup_failed, gens, joinset, state, bounds>>

ShutdownJoins ==
  /\ spc = "stopping"
  /\ \E e \in exits : exits' = exits \ {e}
  /\ UNCHANGED <<spc, config, plan, todo, registry, setup_failed, timers, gens, cancelled,
                 running, state, bounds>>

Stopped ==
  /\ spc = "stopping"
  /\ running = {} /\ exits = {}
  /\ spc' = "stopped"
  /\ UNCHANGED <<config, plan, todo, registry, setup_failed, timers, gens, cancelled, joinset,
                 state, bounds>>

-----------------------------------------------------------------------------
Handlers == SpawnNext \/ SpawnsDone \/ HandleFlowExit \/ HandleRespawnRequest \/ DrainJoins
            \/ DrainEnds \/ EmitFlowRemoved \/ InstallConfig \/ ShutdownJoins \/ Stopped

Next ==
  \/ Handlers \/ Reload \/ Shutdown
  \/ \E g \in DOMAIN gens, r \in Roles : TaskExits(g, r) \/ TaskPanics(g, r)
  \/ \E g \in DOMAIN gens : Observe(g)
  \/ WriterShows

\* The supervisor and the writer run while they can; a cancelled task returns (its
\* awaits are raced with the token, its drains are bounded).
Fairness ==
  /\ WF_vars(Handlers)
  /\ WF_vars(WriterShows)
  /\ \A g \in 1 .. MaxGenerations, r \in Roles :
       WF_vars(g \in cancelled /\ TaskExits(g, r))

Spec == Init /\ [][Next]_vars /\ Fairness

-----------------------------------------------------------------------------
(* Properties.                                                             *)

TasksOf(f) == {x \in running \cup {e.task : e \in exits} : FlowOf(x) = f}

\* The drain gate errs on the safe side: pending_exits never counts fewer exits than
\* the JoinSet still holds for the flow, whatever reloads, panics and drain timeouts
\* came in between, so a gate that opens before its budget is used up means that the
\* old pair is gone (spawn_flow, handle_flow_exit, handle_respawn_request).
PendingCoversTasks == \A f \in Flows : Cardinality(TasksOf(f)) <= OrZero(pending[f])

\* What `gcit trigger` and the next reload find in the registry is the flow's own and
\* has not been cancelled: no handler cancels a token and leaves its handle behind
\* (handle_flow_exit, apply_actions_to_registry, spawn_flow).
HandleIsUncancelled ==
  \A f \in Flows : handles[f] # NULL =>
    /\ gens[handles[f]].flow = f
    /\ handles[f] \in cancelled => spc \in {"stopping", "stopped"}

\* A taken respawn slot always has its watcher: otherwise every later panic of the
\* flow would be dropped as a duplicate (handle_flow_exit, handle_respawn_request,
\* apply_actions_to_registry).
SlotHasWatcher ==
  spc \notin {"stopping", "stopped"} =>
    \A f \in respawning : \E t \in timers : t.flow = f

\* SIGTERM ends the daemon: every task, of whatever generation, is cancelled by the
\* root token and joined (run_with_factories, drain_flows_on_shutdown).
ShutdownCompletes == spc = "stopping" ~> spc = "stopped"

\* architecture.md: "Panicked flow tasks are respawned after a 30-second delay".  In
\* the loop an enabled flow runs both tasks, or an exit waits to be handled, or a
\* respawn is scheduled, or its set-up failed.
EnabledFlowRuns ==
  spc = "loop" =>
    \A f \in Flows : Enabled(config, f) =>
      \/ handles[f] # NULL /\ {handles[f]} \X Roles \subseteq running
      \/ \E e \in exits : FlowOf(e.task) = f
      \/ \E t \in timers : t.flow = f
      \/ f \in setup_failed

\* types.rs: handles is the "live flow's FlowHandle (cancel token + trigger_tx)".  A
\* generation that nobody cancelled is reachable through its flow's handle.
LiveFlowHasHandle ==
  spc = "loop" =>
    \A x \in running : x[1] \notin cancelled =>
      handles[FlowOf(x)] = x[1] \/ \E e \in exits : FlowOf(e.task) = FlowOf(x)

\* reload/apply.rs: FlowRemoved is emitted "so persisted state for the gone-or-stale
\* source does not seed a spurious dispatch on the next poll".
NewSourceStartsFresh ==
  \A g \in DOMAIN gens : gens[g].seed \in {NULL, gens[g].url}
=============================================================================
