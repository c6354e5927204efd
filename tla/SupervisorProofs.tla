-------------------------- MODULE SupervisorProofs --------------------------
(***************************************************************************)
(* The registry, the JoinSet and the respawn slots stay consistent for any *)
(* set of flows and configurations and any number of generations, reloads, *)
(* panics and drain timeouts.                                              *)
(***************************************************************************)
EXTENDS Supervisor, FiniteSetTheorems, TLAPS

-----------------------------------------------------------------------------
(* Types.                                                                  *)

\* TypeOK, and only flows that the configuration enables wait to be spawned.
TypeInv ==
  /\ TypeOK
  /\ \A f \in todo : Enabled(config, f)

\* The facts about the constants that steps need.
LEMMA Sizes ==
  /\ U8 \in Nat \ {0} /\ STATE_QUEUE \in Nat /\ MaxGenerations \in Nat
  /\ RESPAWN_MAX_ATTEMPTS \in Nat
  /\ Configs \subseteq [Flows -> FlowConfig \cup {NULL}]
  /\ NULL \notin Urls /\ NULL \notin FlowConfig /\ NULL \notin Nat
  BY SupervisorAssumption

\* A new generation is a task pair of its own at the end of gens.
LEMMA NewGeneration ==
  ASSUME TypeInv, NEW f \in Flows, Enabled(config, f), Spawned(f)
  PROVE  LET g == Len(gens) + 1 IN
         /\ g \in Nat /\ g \notin DOMAIN gens /\ g <= MaxGenerations
         /\ DOMAIN gens = 1 .. Len(gens) /\ Len(gens) \in Nat
         /\ gens' \in Seq(Generation) /\ Len(gens') = g /\ DOMAIN gens' = DOMAIN gens \cup {g}
         /\ gens'[g].flow = f
         /\ \A h \in DOMAIN gens : gens'[h] = gens[h]
<1>1. gens \in Seq(Generation) /\ config \in Configs /\ mirror \in [Flows -> Urls \cup {NULL}]
  BY DEF TypeInv, TypeOK
<1>2. config[f] \in FlowConfig
  BY <1>1, Sizes DEF Enabled
<1> DEFINE e == [flow |-> f, url |-> config[f].url, seed |-> mirror[f]]
<1>3. e \in Generation /\ e.flow = f
  BY <1>1, <1>2 DEF FlowConfig, Generation
<1>4. gens' = Append(gens, e) /\ Len(gens) + 1 <= MaxGenerations
  BY DEF Spawned
<1> HIDE DEF e
<1> QED BY <1>1, <1>3, <1>4

\* Both outcomes of spawn_flow keep the types.
LEMMA SpawnTypes ==
  ASSUME TypeInv, NEW f \in Flows, Enabled(config, f), SpawnFlow(f),
         UNCHANGED <<config, new_cfg, to_keep, resets, cancelled, exits, state>>,
         spc' = spc, todo' \subseteq todo, respawning' \subseteq respawning, timers' \subseteq timers
  PROVE  TypeInv'
<1> USE Sizes
<1>1. CASE Spawned(f)
  <2> DEFINE g == Len(gens) + 1
  <2>1. /\ g \in Nat /\ g \notin DOMAIN gens /\ g <= MaxGenerations
        /\ gens' \in Seq(Generation) /\ Len(gens') = g /\ DOMAIN gens' = DOMAIN gens \cup {g}
    BY <1>1, NewGeneration
  <2>2. handles' \in [Flows -> (DOMAIN gens') \cup {NULL}]
    BY <1>1, <2>1 DEF Spawned, TypeInv, TypeOK
  <2>3. pending' \in [Flows -> (0 .. U8 - 1) \cup {NULL}]
    <3>1. \A n \in Nat : n % U8 \in 0 .. U8 - 1
      OBVIOUS
    <3>2. OrZero(pending[f]) \in Nat
      BY DEF TypeInv, TypeOK, OrZero
    <3> DEFINE n == (OrZero(pending[f]) + 2) % U8
    <3>3. n \in 0 .. U8 - 1
      BY <3>1, <3>2
    <3>4. pending' = [pending EXCEPT ![f] = n]
      BY <1>1 DEF Spawned
    <3> HIDE DEF n
    <3> QED BY <3>3, <3>4 DEF TypeInv, TypeOK
  <2>4. running' \subseteq (DOMAIN gens') \X Roles
    BY <1>1, <2>1 DEF Spawned, TypeInv, TypeOK
  <2>5. exits' \subseteq [task: ((DOMAIN gens') \X Roles) \ running', panic: BOOLEAN]
    <3> SUFFICES ASSUME NEW e \in exits
                 PROVE  e \in [task: ((DOMAIN gens') \X Roles) \ running', panic: BOOLEAN]
      OBVIOUS
    <3>1. e \in [task: ((DOMAIN gens) \X Roles) \ running, panic: BOOLEAN]
      BY DEF TypeInv, TypeOK
    <3>2. e.task \in ((DOMAIN gens') \X Roles) \ running'
      BY <1>1, <2>1, <3>1 DEF Spawned
    <3> QED BY <3>1, <3>2
  <2>6. timers' \subseteq [flow: Flows, attempts: 0 .. RESPAWN_MAX_ATTEMPTS,
                           cause: (DOMAIN gens') \X Roles]
    BY <2>1 DEF TypeInv, TypeOK
  <2>7. cancelled' \subseteq DOMAIN gens' /\ setup_failed' \subseteq Flows
    BY <1>1, <2>1 DEF Spawned, TypeInv, TypeOK
  <2> QED
    BY <2>1, <2>2, <2>3, <2>4, <2>5, <2>6, <2>7 DEF TypeInv, TypeOK, state, Enabled
<1>2. CASE SetupFails(f)
  BY <1>2 DEF SetupFails, TypeInv, TypeOK, state, Enabled
<1> QED BY <1>1, <1>2 DEF SpawnFlow

\* An exit is that of a task, and a task belongs to a flow.
LEMMA ExitTask ==
  ASSUME TypeInv
  PROVE  /\ \A x \in (DOMAIN gens) \X Roles : x[1] \in DOMAIN gens /\ FlowOf(x) \in Flows
         /\ \A e \in exits : /\ e.task \in (DOMAIN gens) \X Roles /\ e.task \notin running
                             /\ FlowOf(e.task) \in Flows
<1>1. gens \in Seq(Generation)
      /\ exits \subseteq [task: ((DOMAIN gens) \X Roles) \ running, panic: BOOLEAN]
  BY DEF TypeInv, TypeOK
<1>2. \A g \in DOMAIN gens : gens[g].flow \in Flows
  <2>1. \A g \in DOMAIN gens : gens[g] \in Generation
    BY <1>1
  <2> QED BY <2>1 DEF Generation
<1>3. \A x \in (DOMAIN gens) \X Roles : x[1] \in DOMAIN gens
  OBVIOUS
<1>4. \A x \in (DOMAIN gens) \X Roles : FlowOf(x) \in Flows
  BY <1>2, <1>3 DEF FlowOf
<1>5. \A e \in exits : e.task \in (DOMAIN gens) \X Roles /\ e.task \notin running
  BY <1>1
<1> QED BY <1>3, <1>4, <1>5

\* One exit less is expected, never fewer than none.
LEMMA ExitTypes ==
  ASSUME TypeInv, NEW f \in Flows, ExitObserved(f)
  PROVE  /\ pending' \in [Flows -> (0 .. U8 - 1) \cup {NULL}]
         /\ \A h \in Flows \ {f} : pending'[h] = pending[h]
         /\ OrZero(pending'[f]) \in Nat /\ OrZero(pending[f]) \in Nat
         /\ OrZero(pending'[f]) <= OrZero(pending[f])
         /\ OrZero(pending[f]) <= OrZero(pending'[f]) + 1
  BY Sizes DEF ExitObserved, TypeInv, TypeOK, OrZero

\* spawn_initial_flows starts from an empty registry.
LEMMA TypeInvInit == Init => TypeInv
<1> SUFFICES ASSUME Init PROVE TypeInv
  OBVIOUS
<1>1. gens \in Seq(Generation) /\ Len(gens) = 0 /\ DOMAIN gens = {}
      /\ stateq \in Seq([flow: Flows, url: Urls \cup {NULL}]) /\ Len(stateq) = 0
  BY DEF Init
<1> QED
  BY <1>1, Sizes DEF Init, TypeInv, TypeOK

\* Every handler, task and writer step keeps the types.
LEMMA TypeInvStep ==
  ASSUME TypeInv, [Next]_vars
  PROVE  TypeInv'
<1> USE Sizes
<1>1. CASE SpawnNext
  <2>1. PICK f \in todo : SpawnFlow(f) /\ respawning' = respawning \ {f} /\ todo' = todo \ {f}
    BY <1>1 DEF SpawnNext
  <2>2. f \in Flows /\ Enabled(config, f)
    BY DEF TypeInv, TypeOK
  <2> QED BY <1>1, <2>1, <2>2, SpawnTypes DEF SpawnNext, plan
<1>2. CASE SpawnsDone \/ DrainEnds \/ Stopped
  BY <1>2 DEF SpawnsDone, DrainEnds, Stopped, TypeInv, TypeOK, Enabled, plan, registry, joinset, state
<1>3. ASSUME NEW g \in DOMAIN gens, NEW r \in Roles, TaskExits(g, r) \/ TaskPanics(g, r)
      PROVE  TypeInv'
  <2>1. PICK b \in BOOLEAN : exits' = exits \cup {[task |-> <<g, r>>, panic |-> b]}
    BY <1>3 DEF TaskExits, TaskPanics
  <2>2. running' = running \ {<<g, r>>}
    BY <1>3 DEF TaskExits, TaskPanics
  <2>3. exits' \subseteq [task: ((DOMAIN gens) \X Roles) \ running', panic: BOOLEAN]
    <3> SUFFICES ASSUME NEW e \in exits'
                 PROVE  e \in [task: ((DOMAIN gens) \X Roles) \ running', panic: BOOLEAN]
      OBVIOUS
    <3>1. CASE e \in exits
      <4>1. e \in [task: ((DOMAIN gens) \X Roles) \ running, panic: BOOLEAN]
        BY <3>1 DEF TypeInv, TypeOK
      <4> QED BY <2>2, <4>1
    <3>2. CASE e = [task |-> <<g, r>>, panic |-> b]
      BY <2>2, <3>2
    <3> QED BY <2>1, <3>1, <3>2
  <2>4. UNCHANGED <<spc, config, plan, todo, registry, setup_failed, timers, gens, cancelled, state>>
    BY <1>3 DEF TaskExits, TaskPanics
  <2>5. running' \subseteq (DOMAIN gens) \X Roles
    BY <2>2 DEF TypeInv, TypeOK
  <2> QED
    BY <2>3, <2>4, <2>5 DEF TypeInv, TypeOK, Enabled, plan, registry, state
<1>4. ASSUME NEW g \in DOMAIN gens, Observe(g)
      PROVE  TypeInv'
  <2>1. gens[g] \in Generation
    BY DEF TypeInv, TypeOK
  <2> DEFINE u == [flow |-> gens[g].flow, url |-> gens[g].url]
  <2>2. u \in [flow: Flows, url: Urls \cup {NULL}]
    BY <2>1 DEF Generation
  <2>3. stateq' = Append(stateq, u)
    BY <1>4 DEF Observe
  <2> HIDE DEF u
  <2>4. stateq' \in Seq([flow: Flows, url: Urls \cup {NULL}]) /\ Len(stateq') <= STATE_QUEUE
    BY <1>4, <2>2, <2>3 DEF Observe, TypeInv, TypeOK
  <2> QED BY <1>4, <2>4 DEF Observe, TypeInv, TypeOK, Enabled, plan, registry, joinset
<1>5. CASE WriterShows
  <2>1. /\ stateq' \in Seq([flow: Flows, url: Urls \cup {NULL}]) /\ Len(stateq') <= STATE_QUEUE
        /\ Head(stateq) \in [flow: Flows, url: Urls \cup {NULL}]
    <3> DEFINE S == [flow: Flows, url: Urls \cup {NULL}]
    <3>1. stateq \in Seq(S) /\ Len(stateq) <= STATE_QUEUE /\ stateq # << >> /\ stateq' = Tail(stateq)
      BY <1>5 DEF WriterShows, TypeInv, TypeOK
    <3> HIDE DEF S
    <3>2. stateq' \in Seq(S) /\ Len(stateq') <= STATE_QUEUE /\ Head(stateq) \in S
      BY <3>1
    <3> QED BY <3>2 DEF S
  <2>2. mirror' \in [Flows -> Urls \cup {NULL}]
    BY <1>5, <2>1 DEF WriterShows, TypeInv, TypeOK
  <2> QED BY <1>5, <2>1, <2>2 DEF WriterShows, TypeInv, TypeOK, Enabled, plan, registry, joinset
<1>6. CASE HandleFlowExit
  <2>1. PICK e \in exits : (CleanExit(e) \/ PanicDuplicate(e) \/ PanicFirst(e)) /\ exits' = exits \ {e}
    BY <1>6 DEF HandleFlowExit
  <2>2. e.task \in (DOMAIN gens) \X Roles /\ FlowOf(e.task) \in Flows
    BY ExitTask
  <2>3. ExitObserved(FlowOf(e.task))
    BY <2>1 DEF CleanExit, PanicDuplicate, PanicFirst
  <2>4. pending' \in [Flows -> (0 .. U8 - 1) \cup {NULL}]
    BY <2>2, <2>3, ExitTypes
  <2>5. /\ handles' \in [Flows -> (DOMAIN gens) \cup {NULL}]
        /\ respawning' \subseteq Flows /\ cancelled' \subseteq DOMAIN gens
    <3>1. CASE CleanExit(e)
      BY <2>2, <3>1 DEF CleanExit, TypeInv, TypeOK
    <3>2. CASE PanicDuplicate(e)
      BY <3>2 DEF PanicDuplicate, TypeInv, TypeOK
    <3>3. CASE PanicFirst(e)
      BY <2>2, <3>3 DEF PanicFirst, TypeInv, TypeOK
    <3> QED BY <2>1, <3>1, <3>2, <3>3
  <2>6. timers' \subseteq [flow: Flows, attempts: 0 .. RESPAWN_MAX_ATTEMPTS,
                           cause: (DOMAIN gens) \X Roles]
    BY <2>1, <2>2 DEF CleanExit, PanicDuplicate, PanicFirst, TypeInv, TypeOK
  <2> QED
    BY <1>6, <2>1, <2>4, <2>5, <2>6 DEF HandleFlowExit, TypeInv, TypeOK, Enabled, plan, state
<1>7. CASE HandleRespawnRequest
  <2>1. PICK t \in timers : DeferRespawn(t) \/ DropRespawn(t) \/ DoRespawn(t)
    BY <1>7 DEF HandleRespawnRequest
  <2>2. t \in [flow: Flows, attempts: 0 .. RESPAWN_MAX_ATTEMPTS, cause: (DOMAIN gens) \X Roles]
    BY DEF TypeInv, TypeOK
  <2>3. UNCHANGED <<spc, config, plan, todo, cancelled, exits, state>>
    BY <1>7 DEF HandleRespawnRequest
  <2>4. CASE DeferRespawn(t)
    <3> DEFINE t2 == [t EXCEPT !.attempts = @ + 1]
    <3>1. t2 \in [flow: Flows, attempts: 0 .. RESPAWN_MAX_ATTEMPTS, cause: (DOMAIN gens) \X Roles]
      BY <2>2, <2>4 DEF DeferRespawn
    <3>2. timers' = (timers \ {t}) \cup {t2}
      BY <2>4 DEF DeferRespawn
    <3> HIDE DEF t2
    <3> QED
      BY <2>3, <2>4, <3>1, <3>2 DEF DeferRespawn, TypeInv, TypeOK, Enabled, plan, registry, state
  <2>5. CASE DropRespawn(t)
    BY <2>3, <2>5 DEF DropRespawn, TypeInv, TypeOK, Enabled, plan, state
  <2>6. CASE DoRespawn(t)
    BY <2>2, <2>3, <2>6, SpawnTypes DEF DoRespawn, plan
  <2> QED BY <2>1, <2>4, <2>5, <2>6
<1>8. CASE Reload
  <2>1. PICK cfg \in Configs : new_cfg' = cfg /\ RegistryAfter(cfg)
    BY <1>8 DEF Reload
  <2>2. /\ handles' \in [Flows -> (DOMAIN gens) \cup {NULL}]
        /\ respawning' \subseteq Flows /\ cancelled' \subseteq DOMAIN gens
    BY <2>1 DEF RegistryAfter, TypeInv, TypeOK
  <2>3. to_keep' \subseteq Flows /\ resets' \subseteq Flows
    BY <1>8 DEF Reload
  <2> QED
    BY <1>8, <2>1, <2>2, <2>3 DEF Reload, TypeInv, TypeOK, Enabled, joinset, state
<1>9. CASE DrainJoins \/ ShutdownJoins
  <2>1. exits' \subseteq exits
    BY <1>9 DEF DrainJoins, ShutdownJoins
  <2> QED
    BY <1>9, <2>1 DEF DrainJoins, ShutdownJoins, TypeInv, TypeOK, Enabled, plan, registry, state
<1>10. CASE EmitFlowRemoved
  <2>1. PICK f \in resets : stateq' = Append(stateq, [flow |-> f, url |-> NULL])
                           /\ resets' = resets \ {f}
    BY <1>10 DEF EmitFlowRemoved
  <2> DEFINE u == [flow |-> f, url |-> NULL]
  <2>2. u \in [flow: Flows, url: Urls \cup {NULL}]
    BY DEF TypeInv, TypeOK
  <2>3. stateq' = Append(stateq, u)
    BY <2>1
  <2> HIDE DEF u
  <2>4. stateq' \in Seq([flow: Flows, url: Urls \cup {NULL}]) /\ Len(stateq') <= STATE_QUEUE
    BY <1>10, <2>2, <2>3 DEF EmitFlowRemoved, TypeInv, TypeOK
  <2> QED BY <1>10, <2>1, <2>4 DEF EmitFlowRemoved, TypeInv, TypeOK, Enabled, registry, joinset
<1>11. CASE InstallConfig
  BY <1>11 DEF InstallConfig, TypeInv, TypeOK, Enabled, registry, joinset, state
<1>12. CASE Shutdown
  BY <1>12 DEF Shutdown, TypeInv, TypeOK, Enabled, plan, registry, joinset, state
<1>13. CASE UNCHANGED vars
  BY <1>13 DEF vars, TypeInv, TypeOK, Enabled, plan, registry, joinset, state
<1> QED
  BY <1>1, <1>2, <1>3, <1>4, <1>5, <1>6, <1>7, <1>8, <1>9, <1>10, <1>11, <1>12, <1>13
  DEF Next, Handlers

\* The registry names only generations that exist, exits and running tasks are disjoint and
\* the u8 stays a u8, for every set of flows and configurations and any number of reloads
\* and panics (spawn_flow, handle_flow_exit, handle_respawn_request, run_reload).
THEOREM TypeCorrect == Spec => []TypeOK
<1>1. TypeInv => TypeOK
  BY DEF TypeInv
<1> QED
  BY <1>1, TypeInvInit, TypeInvStep, PTL DEF Spec

-----------------------------------------------------------------------------
(* Handles.                                                                *)

\* No handler cancels a token and leaves its handle behind.
LEMMA HandleStep ==
  ASSUME TypeInv, HandleIsUncancelled, [Next]_vars
  PROVE  HandleIsUncancelled'
<1> USE DEF HandleIsUncancelled
<1>0. handles \in [Flows -> (DOMAIN gens) \cup {NULL}] /\ cancelled \subseteq DOMAIN gens
  BY DEF TypeInv, TypeOK
<1>1. ASSUME NEW f \in Flows, Enabled(config, f), SpawnFlow(f), UNCHANGED cancelled,
             spc' = spc
      PROVE  HandleIsUncancelled'
  <2>1. CASE Spawned(f)
    <3> DEFINE g == Len(gens) + 1
    <3>1. /\ g \notin DOMAIN gens /\ gens'[g].flow = f /\ handles' = [handles EXCEPT ![f] = g]
          /\ \A h \in DOMAIN gens : gens'[h] = gens[h]
      BY <1>1, <2>1, NewGeneration DEF Spawned
    <3> HIDE DEF g
    <3> QED BY <1>0, <1>1, <3>1
  <2>2. CASE SetupFails(f)
    BY <1>1, <2>2 DEF SetupFails
  <2> QED BY <1>1, <2>1, <2>2 DEF SpawnFlow
<1>2. CASE SpawnNext
  <2>1. PICK f \in todo : SpawnFlow(f)
    BY <1>2 DEF SpawnNext
  <2>2. f \in Flows /\ Enabled(config, f) /\ UNCHANGED cancelled /\ spc' = spc
    BY <1>2 DEF SpawnNext, TypeInv, TypeOK
  <2> QED BY <1>1, <2>1, <2>2
<1>3. CASE HandleFlowExit
  <2>1. PICK e \in exits : CleanExit(e) \/ PanicDuplicate(e) \/ PanicFirst(e)
    BY <1>3 DEF HandleFlowExit
  <2>2. UNCHANGED <<spc, gens>> /\ FlowOf(e.task) \in Flows
    BY <1>3, ExitTask DEF HandleFlowExit
  <2>3. CASE CleanExit(e)
    BY <1>0, <2>2, <2>3 DEF CleanExit
  <2>4. CASE PanicDuplicate(e)
    BY <2>2, <2>4 DEF PanicDuplicate
  <2>5. CASE PanicFirst(e)
    BY <1>0, <2>2, <2>5 DEF PanicFirst
  <2> QED BY <2>1, <2>3, <2>4, <2>5
<1>4. CASE HandleRespawnRequest
  <2>1. PICK t \in timers : DeferRespawn(t) \/ DropRespawn(t) \/ DoRespawn(t)
    BY <1>4 DEF HandleRespawnRequest
  <2>2. UNCHANGED <<spc, cancelled>> /\ t.flow \in Flows
    BY <1>4 DEF HandleRespawnRequest, TypeInv, TypeOK
  <2>3. CASE DeferRespawn(t) \/ DropRespawn(t)
    BY <2>2, <2>3 DEF DeferRespawn, DropRespawn, registry
  <2>4. CASE DoRespawn(t)
    BY <1>1, <2>2, <2>4 DEF DoRespawn
  <2> QED BY <2>1, <2>3, <2>4
<1>5. CASE Reload
  <2>1. PICK cfg \in Configs : RegistryAfter(cfg)
    BY <1>5 DEF Reload
  <2>2. UNCHANGED gens /\ spc = "loop"
    BY <1>5 DEF Reload
  <2> DEFINE K == {f \in Flows : ReloadAction(cfg, f) \in {"Keep"}}
  <2>3. /\ handles' = [f \in Flows |-> IF f \in K THEN handles[f] ELSE NULL]
        /\ cancelled' = cancelled \cup ({handles[f] : f \in Flows \ K} \ {NULL})
    BY <2>1 DEF RegistryAfter
  <2> HIDE DEF K
  <2> QED BY <1>0, <2>2, <2>3
<1>6. CASE Shutdown
  BY <1>6 DEF Shutdown, registry
<1>7. CASE SpawnsDone \/ DrainEnds \/ Stopped \/ DrainJoins \/ ShutdownJoins \/ EmitFlowRemoved
           \/ InstallConfig
  BY <1>7 DEF SpawnsDone, DrainEnds, Stopped, DrainJoins, ShutdownJoins, EmitFlowRemoved,
     InstallConfig, registry
<1>8. CASE \/ \E g \in DOMAIN gens, r \in Roles : TaskExits(g, r) \/ TaskPanics(g, r)
           \/ \E g \in DOMAIN gens : Observe(g)
           \/ WriterShows \/ UNCHANGED vars
  BY <1>8 DEF TaskExits, TaskPanics, Observe, WriterShows, vars, registry
<1> QED
  BY <1>2, <1>3, <1>4, <1>5, <1>6, <1>7, <1>8 DEF Next, Handlers

\* A handle in the registry is its flow's own and uncancelled until the shutdown
\* (handle_flow_exit, apply_actions_to_registry, spawn_flow): two flows never share a
\* generation, so cancelling one leaves the other's handle alone.
THEOREM HandleCorrect == Spec => []HandleIsUncancelled
<1>1. Init => HandleIsUncancelled
  BY DEF Init, HandleIsUncancelled
<1> QED
  BY <1>1, HandleStep, TypeInvInit, TypeInvStep, PTL DEF Spec

-----------------------------------------------------------------------------
(* Respawn slots.                                                          *)

\* A slot and its watcher are taken and released together.
LEMMA SlotStep ==
  ASSUME TypeInv, SlotHasWatcher, [Next]_vars
  PROVE  SlotHasWatcher'
<1> USE DEF SlotHasWatcher
<1>1. CASE SpawnNext
  BY <1>1 DEF SpawnNext
<1>2. CASE HandleFlowExit
  <2>1. PICK e \in exits : CleanExit(e) \/ PanicDuplicate(e) \/ PanicFirst(e)
    BY <1>2 DEF HandleFlowExit
  <2>2. spc' = spc
    BY <1>2 DEF HandleFlowExit
  <2>3. CASE CleanExit(e) \/ PanicDuplicate(e)
    BY <2>2, <2>3 DEF CleanExit, PanicDuplicate
  <2>4. CASE PanicFirst(e)
    <3> DEFINE t == [flow |-> FlowOf(e.task), attempts |-> 0, cause |-> e.task]
    <3>1. timers' = timers \cup {t} /\ respawning' = respawning \cup {t.flow}
      BY <2>4 DEF PanicFirst
    <3> HIDE DEF t
    <3> QED BY <2>2, <3>1
  <2> QED BY <2>1, <2>3, <2>4
<1>3. CASE HandleRespawnRequest
  <2>1. PICK t \in timers : DeferRespawn(t) \/ DropRespawn(t) \/ DoRespawn(t)
    BY <1>3 DEF HandleRespawnRequest
  <2>2. spc' = spc
    BY <1>3 DEF HandleRespawnRequest
  <2>3. CASE DeferRespawn(t)
    <3> DEFINE t2 == [t EXCEPT !.attempts = @ + 1]
    <3>1. t2.flow = t.flow
      BY DEF TypeInv, TypeOK
    <3>2. timers' = (timers \ {t}) \cup {t2} /\ respawning' = respawning
      BY <2>3 DEF DeferRespawn, registry
    <3> HIDE DEF t2
    <3> QED BY <2>2, <3>1, <3>2
  <2>4. CASE DropRespawn(t) \/ DoRespawn(t)
    BY <2>2, <2>4 DEF DropRespawn, DoRespawn
  <2> QED BY <2>1, <2>3, <2>4
<1>4. CASE Reload
  <2>1. respawning' \subseteq respawning /\ UNCHANGED timers /\ spc = "loop"
    BY <1>4 DEF Reload, RegistryAfter
  <2> QED BY <2>1
<1>5. CASE Shutdown
  BY <1>5 DEF Shutdown
<1>6. CASE SpawnsDone \/ DrainEnds \/ Stopped \/ DrainJoins \/ ShutdownJoins \/ EmitFlowRemoved
           \/ InstallConfig
  BY <1>6 DEF SpawnsDone, DrainEnds, Stopped, DrainJoins, ShutdownJoins, EmitFlowRemoved,
     InstallConfig, registry
<1>7. CASE \/ \E g \in DOMAIN gens, r \in Roles : TaskExits(g, r) \/ TaskPanics(g, r)
           \/ \E g \in DOMAIN gens : Observe(g)
           \/ WriterShows \/ UNCHANGED vars
  BY <1>7 DEF TaskExits, TaskPanics, Observe, WriterShows, vars, registry
<1> QED
  BY <1>1, <1>2, <1>3, <1>4, <1>5, <1>6, <1>7 DEF Next, Handlers

\* A taken respawn slot always has a watcher that will release it (handle_flow_exit,
\* handle_respawn_request, apply_actions_to_registry).
THEOREM SlotCorrect == Spec => []SlotHasWatcher
<1>1. Init => SlotHasWatcher
  BY DEF Init, SlotHasWatcher
<1> QED
  BY <1>1, SlotStep, TypeInvInit, TypeInvStep, PTL DEF Spec

-----------------------------------------------------------------------------
(* The drain gate.                                                         *)

\* A task ends once: its exit is unique.
ExitsUnique == \A d, e \in exits : d.task = e.task => d = e

\* The tasks of every flow are finitely many and all counted, and the counter has not
\* grown past two per generation.
PendingInv ==
  /\ ExitsUnique
  /\ \A f \in Flows : /\ IsFiniteSet(TasksOf(f))
                      /\ Cardinality(TasksOf(f)) <= OrZero(pending[f])
                      /\ OrZero(pending[f]) <= 2 * Len(gens)

\* No tasks and no counters at first.
LEMMA PendingInit == Init => PendingInv
<1> SUFFICES ASSUME Init PROVE PendingInv
  OBVIOUS
<1>1. \A f \in Flows : TasksOf(f) = {}
  BY DEF Init, TasksOf
<1>2. Len(gens) = 0 /\ \A f \in Flows : OrZero(pending[f]) = 0
  BY Sizes DEF Init, OrZero
<1> QED BY <1>1, <1>2, FS_EmptySet DEF PendingInv, ExitsUnique, Init

\* Fewer tasks, the same counters and generations.
LEMMA PendingKept ==
  ASSUME TypeInv, PendingInv, UNCHANGED <<gens, pending>>, ExitsUnique',
         \A f \in Flows : TasksOf(f)' \subseteq TasksOf(f)
  PROVE  PendingInv'
<1> SUFFICES ASSUME NEW f \in Flows
             PROVE  /\ IsFiniteSet(TasksOf(f)')
                    /\ Cardinality(TasksOf(f)') <= OrZero(pending[f])
  BY DEF PendingInv
<1>1. /\ IsFiniteSet(TasksOf(f)) /\ Cardinality(TasksOf(f)) <= OrZero(pending[f])
      /\ TasksOf(f)' \subseteq TasksOf(f)
  BY DEF PendingInv
<1>2. OrZero(pending[f]) \in Nat
  BY Sizes DEF TypeInv, TypeOK, OrZero
<1>3. IsFiniteSet(TasksOf(f)') /\ Cardinality(TasksOf(f)') <= Cardinality(TasksOf(f))
  BY <1>1, FS_Subset
<1>4. Cardinality(TasksOf(f)') \in Nat /\ Cardinality(TasksOf(f)) \in Nat
  BY <1>1, <1>3, FS_CardinalityType
<1> QED BY <1>1, <1>2, <1>3, <1>4

\* spawn_flow adds a pair and counts two exits; the u8 does not wrap.
LEMMA PendingSpawn ==
  ASSUME 2 * MaxGenerations < U8, TypeInv, PendingInv, NEW f \in Flows, Enabled(config, f),
         SpawnFlow(f), UNCHANGED exits
  PROVE  PendingInv'
<1>1. CASE Spawned(f)
  <2>0. PICK g \in Nat : g = Len(gens) + 1
    BY <1>1, NewGeneration
  <2> DEFINE p == <<g, "Poll">>
             d == <<g, "Dispatcher">>
  <2>1. /\ Len(gens) \in Nat /\ g = Len(gens) + 1 /\ g <= MaxGenerations /\ g \notin DOMAIN gens
        /\ Len(gens') = g /\ gens'[g].flow = f
        /\ \A h \in DOMAIN gens : gens'[h] = gens[h]
    BY <1>1, <2>0, NewGeneration
  <2>2. running' = running \cup {p, d}
    BY <1>1, <2>0 DEF Spawned, Roles
  <2>3. \A x \in running \cup {e.task : e \in exits} : FlowOf(x)' = FlowOf(x)
    <3>1. \A x \in running \cup {e.task : e \in exits} : x[1] \in DOMAIN gens
      BY ExitTask DEF TypeInv, TypeOK
    <3> QED BY <2>1, <3>1 DEF FlowOf
  <2>4. FlowOf(p)' = f /\ FlowOf(d)' = f
    BY <2>1 DEF FlowOf
  <2>5. TasksOf(f)' = (TasksOf(f) \cup {p}) \cup {d}
    BY <2>2, <2>3, <2>4 DEF TasksOf
  <2>6. \A h \in Flows \ {f} : TasksOf(h)' = TasksOf(h)
    BY <2>2, <2>3, <2>4 DEF TasksOf
  <2>7. /\ OrZero(pending[f]) \in Nat /\ OrZero(pending[f]) <= 2 * Len(gens)
        /\ OrZero(pending'[f]) = OrZero(pending[f]) + 2
        /\ \A h \in Flows \ {f} : pending'[h] = pending[h]
    <3>1. OrZero(pending[f]) \in Nat /\ OrZero(pending[f]) <= 2 * Len(gens)
      BY Sizes DEF PendingInv, TypeInv, TypeOK, OrZero
    <3> DEFINE n == OrZero(pending[f]) + 2
    <3>2. n \in Nat /\ n < U8
      BY <2>1, <3>1, Sizes
    <3>3. n % U8 = n
      <4> HIDE DEF n
      <4> QED BY <3>2, Sizes
    <3>4. pending' = [pending EXCEPT ![f] = n]
      BY <1>1, <3>3 DEF Spawned
    <3> HIDE DEF n
    <3>5. n # NULL
      BY <3>2, Sizes
    <3>6. pending'[f] = n /\ \A h \in Flows \ {f} : pending'[h] = pending[h]
      BY <3>4 DEF TypeInv, TypeOK
    <3>7. OrZero(pending'[f]) = n
      BY <3>5, <3>6 DEF OrZero
    <3> QED BY <3>1, <3>6, <3>7 DEF n
  <2>8. /\ IsFiniteSet(TasksOf(f)')
        /\ Cardinality(TasksOf(f)') <= OrZero(pending'[f])
    <3>1. IsFiniteSet(TasksOf(f)) /\ Cardinality(TasksOf(f)) <= OrZero(pending[f])
      BY DEF PendingInv
    <3> HIDE DEF p, d
    <3>2. ASSUME NEW S, IsFiniteSet(S), NEW x
          PROVE  /\ IsFiniteSet(S \cup {x}) /\ Cardinality(S) \in Nat
                 /\ Cardinality(S \cup {x}) \in Nat
                 /\ Cardinality(S \cup {x}) <= Cardinality(S) + 1
      <4>1. Cardinality(S) \in Nat
        BY <3>2, FS_CardinalityType
      <4> QED BY <3>2, <4>1, FS_AddElement
    <3> DEFINE S == TasksOf(f)
               T == S \cup {p}
    <3>3. IsFiniteSet(T) /\ Cardinality(S) \in Nat /\ Cardinality(T) <= Cardinality(S) + 1
      BY <3>1, <3>2
    <3> HIDE DEF T
    <3>4. /\ IsFiniteSet(T \cup {d}) /\ Cardinality(T) \in Nat
          /\ Cardinality(T \cup {d}) \in Nat /\ Cardinality(T \cup {d}) <= Cardinality(T) + 1
      BY <3>2, <3>3
    <3>5. TasksOf(f)' = T \cup {d}
      BY <2>5 DEF T
    <3> QED BY <2>7, <3>1, <3>3, <3>4, <3>5
  <2>9. ASSUME NEW h \in Flows
        PROVE  /\ IsFiniteSet(TasksOf(h)') /\ Cardinality(TasksOf(h)') <= OrZero(pending'[h])
               /\ OrZero(pending'[h]) <= 2 * Len(gens')
    <3>1. CASE h = f
      BY <2>1, <2>7, <2>8, <3>1
    <3>2. CASE h # f
      <4>1. /\ IsFiniteSet(TasksOf(h)) /\ Cardinality(TasksOf(h)) <= OrZero(pending[h])
            /\ OrZero(pending[h]) <= 2 * Len(gens) /\ OrZero(pending[h]) \in Nat
        BY Sizes DEF PendingInv, TypeInv, TypeOK, OrZero
      <4>2. TasksOf(h)' = TasksOf(h) /\ pending'[h] = pending[h]
        BY <2>6, <2>7, <3>2
      <4> QED BY <2>1, <4>1, <4>2
    <3> QED BY <3>1, <3>2
  <2> QED BY <2>9 DEF PendingInv, ExitsUnique
<1>2. CASE SetupFails(f)
  <2>1. \A h \in Flows : TasksOf(h)' = TasksOf(h)
    BY <1>2 DEF SetupFails, TasksOf, FlowOf
  <2>2. UNCHANGED <<gens, pending>> /\ ExitsUnique'
    BY <1>2 DEF SetupFails, PendingInv, ExitsUnique
  <2> QED BY <2>1, <2>2, PendingKept
<1> QED BY <1>1, <1>2 DEF SpawnFlow

\* handle_flow_exit discounts one exit and joins one task; drains join without discounting.
LEMMA PendingStep ==
  ASSUME 2 * MaxGenerations < U8, TypeInv, PendingInv, [Next]_vars
  PROVE  PendingInv'
<1>1. CASE SpawnNext
  <2>1. PICK f \in todo : SpawnFlow(f)
    BY <1>1 DEF SpawnNext
  <2>2. f \in Flows /\ Enabled(config, f) /\ UNCHANGED exits
    BY <1>1 DEF SpawnNext, TypeInv, TypeOK
  <2> QED BY <2>1, <2>2, PendingSpawn
<1>2. CASE HandleRespawnRequest
  <2>1. PICK t \in timers : DeferRespawn(t) \/ DropRespawn(t) \/ DoRespawn(t)
    BY <1>2 DEF HandleRespawnRequest
  <2>2. UNCHANGED exits /\ t.flow \in Flows
    BY <1>2 DEF HandleRespawnRequest, TypeInv, TypeOK
  <2>3. CASE DeferRespawn(t) \/ DropRespawn(t)
    <3>1. UNCHANGED <<gens, running, pending>>
      BY <2>3 DEF DeferRespawn, DropRespawn, registry
    <3>2. \A h \in Flows : TasksOf(h)' = TasksOf(h)
      BY <2>2, <3>1 DEF TasksOf, FlowOf
    <3> QED BY <2>2, <3>1, <3>2, PendingKept DEF PendingInv, ExitsUnique
  <2>4. CASE DoRespawn(t)
    BY <2>2, <2>4, PendingSpawn DEF DoRespawn
  <2> QED BY <2>1, <2>3, <2>4
<1>3. CASE HandleFlowExit
  <2>1. PICK e \in exits : (CleanExit(e) \/ PanicDuplicate(e) \/ PanicFirst(e)) /\ exits' = exits \ {e}
    BY <1>3 DEF HandleFlowExit
  <2>2. PICK f \in Flows : f = FlowOf(e.task)
    BY ExitTask
  <2>8. e.task \notin running /\ UNCHANGED <<gens, running>>
    BY <1>3, ExitTask DEF HandleFlowExit
  <2>3. ExitObserved(f)
    BY <2>1, <2>2 DEF CleanExit, PanicDuplicate, PanicFirst
  <2>4. /\ TasksOf(f)' = TasksOf(f) \ {e.task} /\ e.task \in TasksOf(f)
        /\ \A h \in Flows \ {f} : TasksOf(h)' = TasksOf(h)
    <3>1. \A x : FlowOf(x)' = FlowOf(x)
      BY <2>8 DEF FlowOf
    <3>2. {c.task : c \in exits'} = {c.task : c \in exits} \ {e.task}
      BY <2>1 DEF PendingInv, ExitsUnique
    <3> QED BY <2>2, <2>8, <3>1, <3>2 DEF TasksOf
  <2>5. /\ \A h \in Flows \ {f} : pending'[h] = pending[h]
        /\ OrZero(pending'[f]) \in Nat /\ OrZero(pending[f]) \in Nat
        /\ OrZero(pending'[f]) <= OrZero(pending[f])
        /\ OrZero(pending[f]) <= OrZero(pending'[f]) + 1
    BY <2>2, <2>3, ExitTypes
  <2>6. /\ IsFiniteSet(TasksOf(f)')
        /\ Cardinality(TasksOf(f)') <= OrZero(pending'[f])
        /\ OrZero(pending'[f]) <= 2 * Len(gens')
    <3>1. /\ IsFiniteSet(TasksOf(f)) /\ Cardinality(TasksOf(f)) <= OrZero(pending[f])
          /\ OrZero(pending[f]) <= 2 * Len(gens) /\ Len(gens) \in Nat
      BY <2>2 DEF PendingInv, TypeInv, TypeOK
    <3>2. /\ IsFiniteSet(TasksOf(f) \ {e.task}) /\ Cardinality(TasksOf(f)) \in Nat
          /\ Cardinality(TasksOf(f) \ {e.task}) = Cardinality(TasksOf(f)) - 1
      BY <2>4, <3>1, FS_RemoveElement, FS_CardinalityType
    <3> QED BY <2>8, <2>4, <2>5, <3>1, <3>2
  <2>7. \A h \in Flows \ {f} : /\ IsFiniteSet(TasksOf(h)')
                               /\ Cardinality(TasksOf(h)') <= OrZero(pending'[h])
                               /\ OrZero(pending'[h]) <= 2 * Len(gens')
    BY <2>8, <2>4, <2>5 DEF PendingInv
  <2> QED BY <2>1, <2>6, <2>7 DEF PendingInv, ExitsUnique
<1>4. ASSUME NEW g \in DOMAIN gens, NEW r \in Roles, TaskExits(g, r) \/ TaskPanics(g, r)
      PROVE  PendingInv'
  <2> DEFINE x == <<g, r>>
  <2>1. PICK b \in BOOLEAN : exits' = exits \cup {[task |-> x, panic |-> b]}
    BY <1>4 DEF TaskExits, TaskPanics
  <2>2. /\ running' = running \ {x} /\ x \in running /\ UNCHANGED <<gens, pending>>
    BY <1>4 DEF TaskExits, TaskPanics, registry
  <2> HIDE DEF x
  <2>3. \A e \in exits : e.task # x
    BY <2>2, ExitTask
  <2>4. ExitsUnique'
    BY <2>1, <2>3 DEF PendingInv, ExitsUnique
  <2>5. \A h \in Flows : TasksOf(h)' = TasksOf(h)
    <3>1. running' \cup {e.task : e \in exits'} = running \cup {e.task : e \in exits}
      <4>1. {e.task : e \in exits'} = {e.task : e \in exits} \cup {x}
        <5> DEFINE n == [task |-> x, panic |-> b]
        <5>1. n.task = x /\ exits' = exits \cup {n}
          BY <2>1
        <5> HIDE DEF n
        <5> QED BY <5>1
      <4> QED BY <2>2, <4>1
    <3>2. \A y : FlowOf(y)' = FlowOf(y)
      BY <2>2 DEF FlowOf
    <3> QED BY <3>1, <3>2 DEF TasksOf
  <2> QED BY <2>2, <2>4, <2>5, PendingKept
<1>5. CASE DrainJoins \/ ShutdownJoins
  <2>1. exits' \subseteq exits /\ UNCHANGED <<running, gens, pending>>
    BY <1>5 DEF DrainJoins, ShutdownJoins, registry
  <2>2. \A h \in Flows : TasksOf(h)' \subseteq TasksOf(h)
    BY <2>1 DEF TasksOf, FlowOf
  <2> QED BY <2>1, <2>2, PendingKept DEF PendingInv, ExitsUnique
<1>6. CASE \/ SpawnsDone \/ DrainEnds \/ Stopped \/ EmitFlowRemoved \/ InstallConfig
           \/ Reload \/ Shutdown \/ (\E g \in DOMAIN gens : Observe(g)) \/ WriterShows
           \/ UNCHANGED vars
  <2>1. UNCHANGED <<running, exits, gens, pending>>
    BY <1>6 DEF SpawnsDone, DrainEnds, Stopped, EmitFlowRemoved, InstallConfig, Reload, Shutdown,
       Observe, WriterShows, vars, registry, joinset
  <2>2. \A h \in Flows : TasksOf(h)' = TasksOf(h)
    BY <2>1 DEF TasksOf, FlowOf
  <2> QED BY <2>1, <2>2, PendingKept DEF PendingInv, ExitsUnique
<1> QED
  BY <1>1, <1>2, <1>3, <1>4, <1>5, <1>6 DEF Next, Handlers

\* pending_exits never counts fewer exits than the JoinSet still holds for the flow
\* (spawn_flow, handle_flow_exit, drain_until_kept), as long as the daemon has spawned fewer
\* generations than the u8 can count in pairs: drains that join without discounting let the
\* counter drift upwards, and past 255 it wraps.
THEOREM PendingCorrect ==
  ASSUME 2 * MaxGenerations < U8
  PROVE  Spec => []PendingCoversTasks
<1>1. PendingInv => PendingCoversTasks
  BY DEF PendingInv, PendingCoversTasks
<1>2. TypeInv /\ PendingInv /\ [Next]_vars => PendingInv'
  BY PendingStep
<1> QED
  BY <1>1, <1>2, PendingInit, TypeInvInit, TypeInvStep, PTL DEF Spec

\* A respawn that does not wait for its whole budget starts alone: the gate that
\* handle_respawn_request finds open means that the JoinSet holds no task of the flow.
THEOREM OpenGateCorrect ==
  ASSUME 2 * MaxGenerations < U8
  PROVE  Spec => [](\A t \in timers :
                      GateOpen(t) /\ t.attempts < RESPAWN_MAX_ATTEMPTS => TasksOf(t.flow) = {})
<1>1. TypeInv /\ PendingInv =>
        \A t \in timers :
          GateOpen(t) /\ t.attempts < RESPAWN_MAX_ATTEMPTS => TasksOf(t.flow) = {}
  <2> SUFFICES ASSUME TypeInv, PendingInv, NEW t \in timers, GateOpen(t),
                      t.attempts < RESPAWN_MAX_ATTEMPTS
               PROVE  TasksOf(t.flow) = {}
    OBVIOUS
  <2>1. t.flow \in Flows /\ t.attempts \in Nat
    BY Sizes DEF TypeInv, TypeOK
  <2>2. pending[t.flow] = NULL
    BY <2>1, Sizes DEF GateOpen
  <2>3. IsFiniteSet(TasksOf(t.flow)) /\ Cardinality(TasksOf(t.flow)) <= 0
    BY <2>1, <2>2 DEF PendingInv, OrZero
  <2> QED BY <2>3, FS_CardinalityType, FS_EmptySet
<1>2. TypeInv /\ PendingInv /\ [Next]_vars => PendingInv'
  BY PendingStep
<1> QED
  BY <1>1, <1>2, PendingInit, TypeInvInit, TypeInvStep, PTL DEF Spec
=============================================================================
