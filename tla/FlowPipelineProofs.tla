------------------------- MODULE FlowPipelineProofs -------------------------
(***************************************************************************)
(* One flow keeps its promises for any queue sizes, cooldown and number of *)
(* pushes, runs, reloads, kills and manual triggers.                       *)
(***************************************************************************)
EXTENDS FlowPipeline, StateApplyProofs

-----------------------------------------------------------------------------
(* Types.                                                                  *)

\* A dispatch's clock value, if there was one.
Stamp == Opt(0 .. MaxClock)

\* The updates of this flow: it is never removed, and its stamps are clock values.
FlowUpdate ==
  {u \in StateUpdate :
     /\ u.flow = Flow /\ u.type # "FlowRemoved"
     /\ u.type = "PollObservation" => u.last_dispatched_at \in Stamp}

\* What the poll task is about to send.
PendingTyped ==
  /\ ppc \in {"trigger", "send", "sendUnborn"} =>
       pending \in FlowUpdate /\ pending.type \in {"PollObservation", "PollTimestamp"}
  /\ ppc = "trigger" => pending.type = "PollObservation" /\ pending.last_dispatched_at # NULL
  /\ ppc = "sendUnborn" => pending.type = "PollTimestamp"

\* The stamps in memory and in every state are clock values.
StampsTyped ==
  /\ last_dispatched_at \in Stamp
  /\ \A st \in stable \cup {current, view} : Persisted(st).last_dispatched_at \in Stamp

\* TypeOK strengthened to the updates and stamps this flow produces.
TypeInv ==
  /\ TypeOK
  /\ \A i \in DOMAIN stateq : stateq[i] \in FlowUpdate
  /\ PendingTyped /\ StampsTyped
  /\ dpc = "started" => runs > 0

\* What the tasks send are updates of the flow.
LEMMA OwnUpdates ==
  /\ Timestamp \in FlowUpdate /\ Timestamp.type = "PollTimestamp"
  /\ \A s \in Shas, t \in Stamp :
       /\ Observation(s, t) \in FlowUpdate
       /\ Observation(s, t).type = "PollObservation"
       /\ Observation(s, t).last_sha = s /\ Observation(s, t).last_dispatched_at = t
  /\ \A r \in 1 .. MaxRuns :
       /\ RunStarted(r) \in FlowUpdate
       /\ RunStarted(r).type = "RunStarted" /\ RunStarted(r).run_id = r
  /\ \A r \in 1 .. MaxRuns, c \in Conclusions :
       /\ RunFinished(r, c) \in FlowUpdate
       /\ RunFinished(r, c).type = "RunFinished" /\ RunFinished(r, c).run_id = r
<1>1. Flow \in Flows /\ 0 \in Times /\ MaxClock \in Nat /\ COOLDOWN \in Nat
  BY PipelineAssumption
<1>2. ASSUME NEW s \in Shas, NEW t \in Stamp
      PROVE  /\ Observation(s, t) \in FlowUpdate
             /\ Observation(s, t).type = "PollObservation"
             /\ Observation(s, t).last_sha = s /\ Observation(s, t).last_dispatched_at = t
  <2>1. t \in Opt(Times) /\ (IF t = NULL THEN NULL ELSE t + COOLDOWN) \in Opt(Times)
    BY <1>1, PipelineAssumption DEF Stamp, Opt
  <2> QED
    BY <1>1, <2>1 DEF Observation, FlowUpdate, StateUpdate
<1>3. Timestamp \in FlowUpdate /\ Timestamp.type = "PollTimestamp"
  BY <1>1 DEF Timestamp, FlowUpdate, StateUpdate
<1>4. 1 .. MaxRuns \subseteq RunIds
  BY PipelineAssumption
<1>5. \A r \in 1 .. MaxRuns :
       /\ RunStarted(r) \in FlowUpdate
       /\ RunStarted(r).type = "RunStarted" /\ RunStarted(r).run_id = r
  BY <1>1, <1>4 DEF RunStarted, FlowUpdate, StateUpdate
<1>6. \A r \in 1 .. MaxRuns, c \in Conclusions :
       /\ RunFinished(r, c) \in FlowUpdate
       /\ RunFinished(r, c).type = "RunFinished" /\ RunFinished(r, c).run_id = r
  BY <1>1, <1>4 DEF RunFinished, FlowUpdate, StateUpdate
<1> QED
  BY <1>2, <1>3, <1>5, <1>6

\* An update of the flow leaves a typed state with a typed stamp.
LEMMA ApplyOwn ==
  ASSUME NEW st \in State, Persisted(st).last_dispatched_at \in Stamp, NEW u \in FlowUpdate
  PROVE  /\ Apply(st, u) \in State
         /\ Persisted(Apply(st, u)).last_dispatched_at \in Stamp
         /\ u.type = "PollObservation" =>
              /\ Persisted(Apply(st, u)).last_sha = u.last_sha
              /\ Persisted(Apply(st, u)).last_dispatched_at =
                   OrKeep(u.last_dispatched_at, Persisted(st).last_dispatched_at)
              /\ Persisted(Apply(st, u)).active_runs = Persisted(st).active_runs
         /\ u.type # "PollObservation" =>
              /\ Persisted(Apply(st, u)).last_sha = Persisted(st).last_sha
              /\ Persisted(Apply(st, u)).last_dispatched_at = Persisted(st).last_dispatched_at
         /\ u.type = "PollTimestamp" =>
              Persisted(Apply(st, u)).active_runs = Persisted(st).active_runs
<1>1. u \in StateUpdate /\ u.flow = Flow /\ u.type # "FlowRemoved"
  BY DEF FlowUpdate
<1>2. u.type \in {"PollObservation", "PollTimestamp", "RunStarted", "RunFinished"}
  BY <1>1 DEF StateUpdate
<1>3. Apply(st, u) \in State
  BY <1>1, ApplyType
<1>4. CASE u.type = "PollObservation"
  <2>1. u.last_dispatched_at \in Stamp
    BY <1>4 DEF FlowUpdate
  <2> QED BY <1>1, <1>3, <1>4, <2>1, ObservationEffect DEF Persisted, OrKeep
<1>5. CASE u.type # "PollObservation"
  BY <1>1, <1>2, <1>3, <1>5, ObservedKept DEF Persisted
<1> QED BY <1>4, <1>5

\* Taking from and adding to a queue of updates.
LEMMA QueueSteps ==
  ASSUME NEW S, NEW q \in Seq(S)
  PROVE  /\ \A u \in S : /\ Append(q, u) \in Seq(S) /\ Len(Append(q, u)) = Len(q) + 1
                         /\ DOMAIN Append(q, u) = 1 .. Len(q) + 1
                         /\ \A i \in 1 .. Len(q) : Append(q, u)[i] = q[i]
                         /\ Append(q, u)[Len(q) + 1] = u
         /\ q # << >> => /\ Tail(q) \in Seq(S) /\ Len(Tail(q)) = Len(q) - 1
                         /\ Len(q) > 0 /\ Head(q) \in S /\ Head(q) = q[1]
                         /\ DOMAIN Tail(q) = 1 .. Len(q) - 1
                         /\ \A i \in 1 .. Len(q) - 1 : Tail(q)[i] = q[i + 1]
         /\ DOMAIN q = 1 .. Len(q) /\ Len(q) \in Nat
         /\ << >> \in Seq(S) /\ Len(<< >>) = 0 /\ DOMAIN << >> = {}
  OBVIOUS

\* Both tasks start idle over an empty state.
LEMMA TypeInvInit == Init => TypeInv
<1> SUFFICES ASSUME Init PROVE TypeInv
  OBVIOUS
<1>1. DefaultState \in State /\ Persisted(DefaultState) = DefaultFlow
  BY PipelineAssumption DEF DefaultState, State, Persisted, Entry
<1>2. 0 \in 0 .. MaxClock /\ 0 \in 0 .. MaxPushes /\ 0 \in 0 .. 0 /\ 0 \in 0 .. MaxRuns
  BY PipelineAssumption
<1>3. TypeOK
  <2>1. trigq \in Seq(Shas) /\ Len(trigq) <= TRIGGER_QUEUE
        /\ stateq \in Seq(StateUpdate) /\ Len(stateq) <= STATE_QUEUE
    BY PipelineAssumption DEF Init
  <2> QED
    BY <1>1, <1>2, <2>1, PipelineAssumption
    DEF Init, TypeOK, Opt, PollPoints, DispatchPoints
<1>4. PendingTyped /\ StampsTyped
  BY <1>1 DEF Init, PendingTyped, StampsTyped, Stamp, Opt, DefaultFlow
<1> QED
  BY <1>3, <1>4 DEF TypeInv, Init

\* The facts about the constants that steps need.
LEMMA Sizes ==
  /\ MaxClock \in Nat /\ MaxPushes \in Nat /\ MaxRuns \in Nat /\ COOLDOWN \in Nat
  /\ TRIGGER_QUEUE \in Nat /\ STATE_QUEUE \in Nat /\ Flow \in Flows
  /\ 0 .. MaxClock \subseteq Times
  BY PipelineAssumption

\* Every step of the tasks, the supervisor and the writer keeps the types.
LEMMA TypeInvStep ==
  ASSUME TypeInv, [Next]_vars
  PROVE  TypeInv'
<1> USE Sizes
<1>1. CASE Push \/ PublishManifest \/ Tick
  <2>1. /\ head' \in Opt(Shas) /\ pushes' \in 0 .. MaxPushes /\ manifest' \in 0 .. pushes'
        /\ clock' \in 0 .. MaxClock
    <3>1. CASE Push
      BY <3>1 DEF Push, TypeInv, TypeOK
    <3>2. CASE PublishManifest
      BY <3>2 DEF PublishManifest, TypeInv, TypeOK
    <3>3. CASE Tick
      BY <3>3 DEF Tick, TypeInv, TypeOK
    <3> QED BY <1>1, <3>1, <3>2, <3>3
  <2>2. UNCHANGED <<polling, dispatching, trigq, stateq, control, last_error, store, history>>
    BY <1>1 DEF Push, PublishManifest, Tick
  <2> QED
    BY <2>1, <2>2 DEF TypeInv, TypeOK, PendingTyped, StampsTyped,
       polling, dispatching, control, store, history
<1>2. CASE Wake \/ PollFails \/ PollCancelled \/ TriggerChannelClosed
  BY ZenonT(30), <1>2 DEF TypeInv, TypeOK, PendingTyped, StampsTyped, PollPoints, Opt, Wake, PollFails,
     PollCancelled, TriggerChannelClosed, PollUnchanged,
     world, dispatching, control, store
<1>3. CASE FetchManifest \/ RepoNotListed
  <2>1. CASE FetchManifest
    BY <2>1, OwnUpdates DEF TypeInv, TypeOK, PendingTyped, StampsTyped, PollPoints, Opt,
       FlowUpdate, FetchManifest, PollUnchanged, world, dispatching, control, store
  <2>2. CASE RepoNotListed
    BY <2>2, OwnUpdates DEF TypeInv, TypeOK, PendingTyped, StampsTyped, PollPoints, Opt,
       FlowUpdate, RepoNotListed, PollUnchanged, world, dispatching, control, store
  <2> QED
    BY <1>3, <2>1, <2>2
<1>4. CASE Resolve
  <2>1. Decide /\ UNCHANGED <<world, dispatching, control, store, offered, attempted, last_sha,
             last_dispatched_at, last_error_cleared, fingerprint, trigq, stateq, last_error>>
        /\ baselined' \subseteq Shas
    BY <1>4 DEF Resolve, PollUnchanged, TypeInv, TypeOK, Opt
  <2>2. /\ ppc' \in PollPoints /\ pending' \in Opt(StateUpdate)
        /\ PendingTyped'
    <3>1. head \in Opt(Shas) /\ clock \in Stamp /\ NULL \in Stamp /\ clock # NULL
      BY NullAssumption DEF TypeInv, TypeOK, Stamp, Opt
    <3>2. CASE head = NULL
      BY <2>1, <3>2, OwnUpdates DEF Decide, PollPoints, PendingTyped, FlowUpdate, Opt
    <3>3. CASE head # NULL /\ ~IsChange(head)
      BY <2>1, <3>1, <3>3, OwnUpdates DEF Decide, PollPoints, PendingTyped, FlowUpdate, Opt
    <3>4. CASE head # NULL /\ IsChange(head) /\ IsCooledDown(last_dispatched_at, clock)
      BY <2>1, <3>1, <3>4, OwnUpdates DEF Decide, PollPoints, PendingTyped, FlowUpdate, Opt
    <3>5. CASE head # NULL /\ IsChange(head) /\ ~IsCooledDown(last_dispatched_at, clock)
      BY <2>1, <3>1, <3>5, OwnUpdates DEF Decide, PollPoints, PendingTyped, FlowUpdate, Opt
    <3> QED BY <3>2, <3>3, <3>4, <3>5
  <2> QED
    BY <2>1, <2>2 DEF TypeInv, TypeOK, StampsTyped, world, dispatching, control, store
<1>5. CASE SendTrigger
  <2>1. pending.last_sha \in Shas
    BY <1>5 DEF SendTrigger, TypeInv, PendingTyped, FlowUpdate, StateUpdate
  <2>2. trigq' \in Seq(Shas) /\ Len(trigq') <= TRIGGER_QUEUE
    BY <1>5, <2>1, QueueSteps DEF SendTrigger, TypeInv, TypeOK
  <2> QED
    BY <1>5, <2>1, <2>2 DEF SendTrigger, TypeInv, TypeOK, PendingTyped, StampsTyped, PollPoints,
       world, dispatching, control, store
<1>6. CASE SendState
  <2>1. pending \in FlowUpdate /\ pending \in StateUpdate
    BY <1>6 DEF SendState, TypeInv, PendingTyped, FlowUpdate
  <2>2. /\ stateq' \in Seq(StateUpdate) /\ Len(stateq') <= STATE_QUEUE
        /\ \A i \in DOMAIN stateq' : stateq'[i] \in FlowUpdate
    BY <1>6, <2>1, QueueSteps DEF SendState, TypeInv, TypeOK
  <2>3. last_sha' \in Opt(Shas) /\ last_dispatched_at' \in Opt(Times) /\ last_dispatched_at' \in Stamp
    <3>1. CASE pending.type = "PollObservation"
      BY <1>6, <2>1, <3>1
      DEF SendState, TypeInv, TypeOK, StampsTyped, FlowUpdate, StateUpdate, OrKeep, Opt, Stamp
    <3>2. CASE pending.type # "PollObservation"
      BY <1>6, <3>2 DEF SendState, TypeInv, TypeOK, StampsTyped
    <3> QED BY <3>1, <3>2
  <2>4. last_error_cleared' \in BOOLEAN /\ last_error' \in {NULL, "poll", "dispatch"}
    BY <1>6 DEF SendState, TypeInv, TypeOK
  <2> QED
    BY <1>6, <2>2, <2>3, <2>4
    DEF SendState, PollUnchanged, TypeInv, TypeOK, PendingTyped, StampsTyped, PollPoints, Opt,
        world, dispatching, control, store
<1>7. CASE TakeTrigger
  <2>1. trigq' \in Seq(Shas) /\ Len(trigq') <= TRIGGER_QUEUE /\ Head(trigq) \in Shas
    BY <1>7, QueueSteps DEF TakeTrigger, TypeInv, TypeOK
  <2> QED
    BY <1>7, <2>1 DEF TakeTrigger, DispatchUnchanged, TypeInv, TypeOK, PendingTyped, StampsTyped,
       DispatchPoints, world, polling, control, store
<1>8. CASE SeeCancel \/ DispatchFails \/ DispatchSucceeds \/ DrainEmpty
  <2>1. /\ dpc' \in DispatchPoints /\ draining' \in BOOLEAN
        /\ last_error' \in {NULL, "poll", "dispatch"}
        /\ monitors' \subseteq 1 .. runs' /\ runs' \in 0 .. MaxRuns
        /\ dpc' = "started" => runs' > 0
    <3>1. CASE SeeCancel
      BY <3>1 DEF SeeCancel, DispatchUnchanged, TypeInv, TypeOK, DispatchPoints
    <3>2. CASE DispatchFails
      BY <3>2 DEF DispatchFails, AfterTrigger, DispatchUnchanged, TypeInv, TypeOK, DispatchPoints
    <3>3. CASE DispatchSucceeds
      BY <3>3 DEF DispatchSucceeds, DispatchUnchanged, TypeInv, TypeOK, DispatchPoints
    <3>4. CASE DrainEmpty
      BY <3>4 DEF DrainEmpty, DispatchUnchanged, TypeInv, TypeOK, DispatchPoints
    <3> QED BY <1>8, <3>1, <3>2, <3>3, <3>4
  <2>2. UNCHANGED <<world, polling, trigq, stateq, control, store, history>>
    BY <1>8 DEF SeeCancel, DispatchFails, DispatchSucceeds, DrainEmpty, DispatchUnchanged, history
  <2> QED
    BY <2>1, <2>2 DEF TypeInv, TypeOK, PendingTyped, StampsTyped,
       world, polling, control, store, history
<1>9. CASE Exit
  BY <1>9, QueueSteps DEF Exit, DispatchUnchanged, TypeInv, TypeOK, PendingTyped, StampsTyped,
     DispatchPoints, world, polling, control, store
<1>10. CASE EmitRunStarted
  <2>1. runs \in 1 .. MaxRuns
    BY <1>10 DEF EmitRunStarted, TypeInv, TypeOK
  <2>2. RunStarted(runs) \in FlowUpdate /\ RunStarted(runs) \in StateUpdate
    BY <2>1, OwnUpdates DEF FlowUpdate
  <2>3. /\ stateq' \in Seq(StateUpdate) /\ Len(stateq') <= STATE_QUEUE
        /\ \A i \in DOMAIN stateq' : stateq'[i] \in FlowUpdate
    BY <1>10, <2>2, QueueSteps DEF EmitRunStarted, TypeInv, TypeOK
  <2> QED
    BY <1>10, <2>1, <2>3 DEF EmitRunStarted, AfterTrigger, DispatchUnchanged, TypeInv, TypeOK,
       PendingTyped, StampsTyped, DispatchPoints, world, polling, control, store
<1>11. ASSUME NEW r \in 1 .. MaxRuns, MonitorDone(r)
       PROVE  TypeInv'
  <2>1. PICK c \in Conclusions : stateq' = Append(stateq, RunFinished(r, c))
    BY <1>11 DEF MonitorDone
  <2>2. RunFinished(r, c) \in FlowUpdate /\ RunFinished(r, c) \in StateUpdate
    BY OwnUpdates DEF FlowUpdate
  <2>3. /\ stateq' \in Seq(StateUpdate) /\ Len(stateq') <= STATE_QUEUE
        /\ \A i \in DOMAIN stateq' : stateq'[i] \in FlowUpdate
    BY <1>11, <2>1, <2>2, QueueSteps DEF MonitorDone, TypeInv, TypeOK
  <2> QED
    BY <1>11, <2>3 DEF MonitorDone, DispatchUnchanged, TypeInv, TypeOK,
       PendingTyped, StampsTyped, world, polling, control, store
<1>12. ASSUME NEW r \in 1 .. MaxRuns, MonitorGivesUp(r)
       PROVE  TypeInv'
  BY <1>12 DEF MonitorGivesUp, DispatchUnchanged, TypeInv, TypeOK,
     PendingTyped, StampsTyped, world, polling, control, store
<1>13. CASE ManualTrigger
  <2>1. Persisted(view) \in FlowState
    BY EntryType DEF Persisted, TypeInv, TypeOK
  <2>2. Persisted(view).last_sha \in Shas
    BY <1>13, <2>1 DEF ManualTrigger, FlowState, Opt
  <2>3. trigq' \in Seq(Shas) /\ Len(trigq') <= TRIGGER_QUEUE
    BY <1>13, <2>2, QueueSteps DEF ManualTrigger, TypeInv, TypeOK
  <2> QED
    BY <1>13, <2>3 DEF ManualTrigger, TypeInv, TypeOK, PendingTyped, StampsTyped,
       world, polling, dispatching, store, history
<1>14. CASE Cancel
  BY <1>14 DEF Cancel, TypeInv, TypeOK, PendingTyped, StampsTyped,
     world, polling, dispatching, store, history
<1>15. ASSUME Spawn(view), UNCHANGED <<world, runs, stateq, kills, manual, last_error, history>>,
              UNCHANGED <<current, stable, view>>, up' \in BOOLEAN, generations' \in Nat
       PROVE  TypeInv'
  <2>1. Persisted(view) \in FlowState
    BY EntryType DEF Persisted, TypeInv, TypeOK
  <2>2. last_sha' \in Opt(Shas) /\ last_dispatched_at' \in Opt(Times) /\ last_dispatched_at' \in Stamp
    BY <1>15, <2>1 DEF Spawn, FlowState, TypeInv, StampsTyped
  <2>3. trigq' \in Seq(Shas) /\ Len(trigq') <= TRIGGER_QUEUE
    BY <1>15, QueueSteps DEF Spawn
  <2> QED
    BY <1>15, <2>2, <2>3 DEF Spawn, TypeInv, TypeOK, PendingTyped, StampsTyped, PollPoints,
       DispatchPoints, Opt, world, history
<1>16. CASE Respawn
  BY <1>15, <1>16 DEF Respawn, store, TypeInv, TypeOK
<1>17. CASE Boot
  BY <1>15, <1>17 DEF Boot, Store!Start, TypeInv, TypeOK
<1>18. CASE Die
  <2>1. /\ up' = FALSE /\ stable' \subseteq stable /\ current' \in stable /\ view' \in stable
    BY <1>18 DEF Die, Store!Stop
  <2>2. trigq' \in Seq(Shas) /\ Len(trigq') <= TRIGGER_QUEUE
        /\ stateq' \in Seq(StateUpdate) /\ Len(stateq') <= STATE_QUEUE /\ DOMAIN stateq' = {}
    BY <1>18, QueueSteps DEF Die
  <2>3. current' \in State /\ view' \in State /\ stable' \in SUBSET State
    BY <2>1 DEF TypeInv, TypeOK
  <2>4. StampsTyped'
    BY <1>18, <2>1 DEF Die, TypeInv, StampsTyped, Stamp, Opt, Persisted
  <2>5. kills' \in Nat
    BY <1>18 DEF Die, TypeInv, TypeOK
  <2>6. TypeOK'
    BY <1>18, <2>1, <2>2, <2>3, <2>5 DEF Die, TypeInv, TypeOK, PollPoints,
       DispatchPoints, Opt, world, history
  <2>7. PendingTyped' /\ dpc' = "exited"
    BY <1>18 DEF Die, PendingTyped
  <2> QED
    BY <2>2, <2>4, <2>6, <2>7 DEF TypeInv
<1>19. CASE WriterApplies
  <2>1. current' = Apply(current, Head(stateq)) /\ UNCHANGED <<up, stable, view>>
        /\ stateq # << >> /\ stateq' = Tail(stateq)
    BY <1>19 DEF WriterApplies, Store!Step
  <2>2. /\ stateq' \in Seq(StateUpdate) /\ Len(stateq') <= STATE_QUEUE
        /\ \A i \in DOMAIN stateq' : stateq'[i] \in FlowUpdate
        /\ Head(stateq) \in FlowUpdate
    BY <2>1, QueueSteps DEF TypeInv, TypeOK
  <2>3. current' \in State /\ Persisted(current').last_dispatched_at \in Stamp
    BY <2>1, <2>2, ApplyOwn DEF TypeInv, TypeOK, StampsTyped
  <2>4. StampsTyped'
    BY <1>19, <2>1, <2>3 DEF WriterApplies, StoreUnchanged, TypeInv, StampsTyped, polling, Persisted
  <2> QED
    BY <1>19, <2>1, <2>2, <2>3, <2>4 DEF WriterApplies, StoreUnchanged, TypeInv, TypeOK,
       PendingTyped, world, polling, dispatching, control, history
<1>20. CASE WriterAttempts
  BY <1>20 DEF WriterAttempts, Store!Attempt, StoreUnchanged, TypeInv, TypeOK, PendingTyped,
     StampsTyped, world, polling, dispatching, control, history
<1>21. CASE WriterPersists
  BY <1>21 DEF WriterPersists, StoreUnchanged, TypeInv, TypeOK, PendingTyped,
     StampsTyped, world, polling, dispatching, control, history
<1>22. CASE UNCHANGED vars
  BY <1>22 DEF vars, TypeInv, TypeOK, PendingTyped, StampsTyped, world, polling, dispatching,
     control, store, history
<1> QED
  BY <1>1, <1>2, <1>3, <1>4, <1>5, <1>6, <1>7, <1>8, <1>9, <1>10, <1>11, <1>12, <1>13, <1>14,
     <1>16, <1>17, <1>18, <1>19, <1>20, <1>21, <1>22 DEF Next, PollStep, DispatcherStep

\* Every value of the pipeline keeps its type, and both channels their capacity, for any
\* number of pushes, runs, reloads and kills: send_trigger_then_observation and the
\* dispatcher wait for room, and apply returns a State.
THEOREM TypeCorrect == Spec => []TypeOK
<1>1. Init => TypeInv
  BY TypeInvInit
<1>2. TypeInv /\ [Next]_vars => TypeInv'
  BY TypeInvStep
<1>3. TypeInv => TypeOK
  BY DEF TypeInv
<1> QED
  BY <1>1, <1>2, <1>3, PTL DEF Spec

-----------------------------------------------------------------------------
(* What the steps have in common.                                          *)

\* Steps that leave the poll task, the state queue and the store alone.
Quiet ==
  \/ Push \/ PublishManifest \/ Tick
  \/ TakeTrigger \/ SeeCancel \/ DispatchFails \/ DispatchSucceeds \/ DrainEmpty \/ Exit
  \/ \E r \in 1 .. MaxRuns : MonitorGivesUp(r)
  \/ ManualTrigger \/ Cancel
  \/ UNCHANGED vars

\* What Quiet steps leave alone.
LEMMA QuietSteps ==
  ASSUME Quiet
  PROVE  UNCHANGED <<polling, stateq, store, offered, baselined, generations, last_error_cleared>>
<1>1. CASE \/ Push \/ PublishManifest \/ Tick \/ ManualTrigger \/ Cancel \/ UNCHANGED vars
  BY <1>1 DEF Push, PublishManifest, Tick, ManualTrigger, Cancel, vars, control, history, polling
<1>2. CASE \/ TakeTrigger \/ SeeCancel \/ DispatchFails \/ DispatchSucceeds \/ DrainEmpty \/ Exit
           \/ \E r \in 1 .. MaxRuns : MonitorGivesUp(r)
  BY <1>2 DEF TakeTrigger, SeeCancel, DispatchFails, DispatchSucceeds, DrainEmpty, Exit,
     MonitorGivesUp, DispatchUnchanged, control, polling
<1> QED BY <1>1, <1>2 DEF Quiet

\* Poll steps that only change the program point and drop or keep the pending update.
PollQuiet == Wake \/ PollFails \/ PollCancelled \/ TriggerChannelClosed

\* What PollQuiet steps leave alone.
LEMMA PollQuietSteps ==
  ASSUME PollQuiet
  PROVE  /\ UNCHANGED <<last_sha, last_dispatched_at, stateq, store, offered, baselined, generations>>
         /\ ppc' \in {"fetch", "sleep", "exited"}
  BY DEF PollQuiet, Wake, PollFails, PollCancelled, TriggerChannelClosed, PollUnchanged, store, control

\* The next-state relation, sorted by what its steps touch.
LEMMA NextCases ==
  ASSUME [Next]_vars
  PROVE  \/ Quiet \/ PollQuiet \/ FetchManifest \/ RepoNotListed \/ Resolve \/ SendTrigger \/ SendState
         \/ EmitRunStarted \/ (\E r \in 1 .. MaxRuns : MonitorDone(r))
         \/ Respawn \/ Boot \/ Die \/ WriterApplies \/ WriterAttempts \/ WriterPersists
  BY DEF Next, PollStep, DispatcherStep, Quiet, PollQuiet

\* What the dispatcher and the monitors queue says nothing about observations.
LEMMA RunUpdates ==
  ASSUME TypeInv,
         EmitRunStarted \/ \E r \in 1 .. MaxRuns : MonitorDone(r)
  PROVE  /\ \E u \in FlowUpdate : /\ u \in StateUpdate /\ u.type \in {"RunStarted", "RunFinished"}
                                  /\ stateq' = Append(stateq, u)
         /\ UNCHANGED <<polling, store, offered, baselined, generations>>
<1>1. CASE EmitRunStarted
  <2>1. runs \in 1 .. MaxRuns
    BY <1>1, Sizes DEF EmitRunStarted, TypeInv, TypeOK
  <2> QED
    BY <1>1, <2>1, OwnUpdates DEF EmitRunStarted, DispatchUnchanged, control, FlowUpdate
<1>2. ASSUME NEW r \in 1 .. MaxRuns, MonitorDone(r)
      PROVE  /\ \E u \in FlowUpdate : /\ u \in StateUpdate /\ u.type \in {"RunStarted", "RunFinished"}
                                      /\ stateq' = Append(stateq, u)
             /\ UNCHANGED <<polling, store, offered, baselined, generations>>
  BY <1>2, OwnUpdates DEF MonitorDone, DispatchUnchanged, control, FlowUpdate
<1> QED BY <1>1, <1>2

\* The poll task's own update.
LEMMA PollUpdate ==
  ASSUME TypeInv, SendState
  PROVE  /\ pending \in FlowUpdate /\ pending \in StateUpdate
         /\ stateq' = Append(stateq, pending) /\ ppc' = "sleep"
         /\ pending.type = "PollObservation" =>
              /\ ppc = "send"
              /\ last_sha' = pending.last_sha
              /\ last_dispatched_at' = OrKeep(pending.last_dispatched_at, last_dispatched_at)
         /\ pending.type # "PollObservation" => UNCHANGED <<last_sha, last_dispatched_at>>
         /\ UNCHANGED <<store, offered, baselined, generations>>
<1>1. pending \in FlowUpdate /\ pending \in StateUpdate
  BY DEF SendState, TypeInv, PendingTyped, FlowUpdate
<1> QED
  BY <1>1 DEF SendState, PollUnchanged, control, TypeInv, PendingTyped

\* The writer's step.
LEMMA Writes ==
  ASSUME TypeInv, WriterApplies
  PROVE  /\ stateq # << >> /\ up
         /\ Head(stateq) \in FlowUpdate /\ Head(stateq) \in StateUpdate
         /\ current' = Apply(current, Head(stateq)) /\ stateq' = Tail(stateq)
         /\ UNCHANGED <<up, stable, view, polling, dispatching, control, history>>
<1>1. stateq # << >> /\ stateq \in Seq(StateUpdate) /\ \A i \in DOMAIN stateq : stateq[i] \in FlowUpdate
  BY DEF WriterApplies, TypeInv, TypeOK
<1>2. Head(stateq) \in FlowUpdate /\ Head(stateq) \in StateUpdate
  BY <1>1, QueueSteps
<1> QED
  BY <1>1, <1>2 DEF WriterApplies, Store!Step, StoreUnchanged

\* A flow starts from the view.
LEMMA Spawns ==
  ASSUME TypeInv, Respawn \/ Boot
  PROVE  /\ ppc' = "sleep" /\ monitors' = {} /\ dpc' = "select"
         /\ last_sha' = Persisted(view).last_sha
         /\ last_dispatched_at' = Persisted(view).last_dispatched_at
         /\ up'
         /\ Respawn => generations' = generations + 1
         /\ Boot => ~up /\ generations' = generations
         /\ UNCHANGED <<current, stable, view, stateq, runs, offered, baselined>>
  BY DEF Respawn, Boot, Spawn, Store!Start, store, history

\* The tasks and the queue die with the daemon; some attempted write is what is left.
LEMMA Dies ==
  ASSUME TypeInv, Die
  PROVE  /\ ~up' /\ current' = view' /\ current' \in stable /\ stable' \subseteq stable
         /\ ppc' = "exited" /\ dpc' = "exited" /\ monitors' = {}
         /\ stateq' = << >> /\ last_sha' = NULL /\ last_dispatched_at' = NULL
         /\ UNCHANGED <<runs, generations, offered, baselined>>
  BY DEF Die, Store!Stop, history

-----------------------------------------------------------------------------
(* A daemon that is down.                                                  *)

\* Its tasks and its queue are gone, and the next one is shown what it loads.
Down ==
  /\ ~up => /\ stateq = << >> /\ view = current
            /\ ppc = "exited" /\ dpc = "exited" /\ monitors = {}
  /\ generations >= 1

\* The daemon starts up and running.
LEMMA DownInit == Init => Down
  BY DEF Init, Down

\* Only Boot leaves a daemon that is down.
LEMMA DownStep ==
  ASSUME TypeInv, Down, [Next]_vars
  PROVE  Down'
<1>0. generations \in Nat
  BY DEF TypeInv, TypeOK
<1>1. CASE Quiet
  <2>1. CASE Push \/ PublishManifest \/ Tick \/ ManualTrigger \/ Cancel \/ UNCHANGED vars
    BY <2>1 DEF Push, PublishManifest, Tick, ManualTrigger, Cancel, vars, polling, dispatching,
       control, store, Down
  <2>2. CASE TakeTrigger \/ SeeCancel \/ DispatchFails \/ DispatchSucceeds \/ DrainEmpty \/ Exit
             \/ \E r \in 1 .. MaxRuns : MonitorGivesUp(r)
    <3>1. up
      BY <2>2 DEF TakeTrigger, SeeCancel, DispatchFails, DispatchSucceeds, DrainEmpty, Exit,
         MonitorGivesUp, Down
    <3> QED BY <1>1, <3>1, QuietSteps DEF store, Down
  <2> QED BY <1>1, <2>1, <2>2 DEF Quiet
<1>2. CASE PollQuiet
  <2>1. up
    BY <1>2 DEF PollQuiet, Wake, PollFails, PollCancelled, TriggerChannelClosed, Down
  <2> QED BY <1>2, <2>1, PollQuietSteps DEF store, Down
<1>3. CASE FetchManifest \/ RepoNotListed \/ Resolve \/ SendTrigger \/ SendState
  <2>1. up
    BY <1>3 DEF FetchManifest, RepoNotListed, Resolve, SendTrigger, SendState, Down
  <2> QED
    BY <1>3, <2>1 DEF FetchManifest, RepoNotListed, Resolve, SendTrigger, SendState, PollUnchanged, store, control, Down
<1>4. CASE EmitRunStarted \/ \E r \in 1 .. MaxRuns : MonitorDone(r)
  <2>1. up
    BY <1>4 DEF EmitRunStarted, MonitorDone, Down
  <2> QED
    BY <1>4, <2>1 DEF EmitRunStarted, MonitorDone, DispatchUnchanged, store, control, Down
<1>5. CASE Respawn \/ Boot
  BY <1>0, <1>5, Spawns DEF Down
<1>6. CASE Die
  BY <1>6, Dies DEF Down
<1>7. CASE WriterApplies
  BY <1>7, Writes DEF control, Down
<1>8. CASE WriterAttempts \/ WriterPersists
  BY <1>8 DEF WriterAttempts, Store!Attempt, WriterPersists, StoreUnchanged, control, Down
<1> QED
  BY <1>1, <1>2, <1>3, <1>4, <1>5, <1>6, <1>7, <1>8, NextCases

-----------------------------------------------------------------------------
(* Trigger first, observation second.                                      *)

\* What the poll task may treat as handled.
Seen == offered \cup baselined

\* What is on its way into the state has been offered (or is a baseline), too.
OfferInv ==
  /\ ObservedMeansOffered
  /\ last_sha \in Seen \cup {NULL}
  /\ \A i \in DOMAIN stateq : stateq[i].type = "PollObservation" => stateq[i].last_sha \in Seen
  /\ ppc = "send" /\ pending.type = "PollObservation" => pending.last_sha \in Seen

\* SendTrigger comes before SendState in every cycle that fires.
LEMMA OfferInvStep ==
  ASSUME TypeInv, OfferInv, [Next]_vars
  PROVE  OfferInv'
<1> USE DEF Seen, ObservedMeansOffered
<1>0. stateq \in Seq(StateUpdate)
  BY DEF TypeInv, TypeOK
<1>1. CASE Quiet
  BY <1>1, QuietSteps DEF OfferInv, polling, store, Persisted
<1>2. CASE PollQuiet
  BY <1>2, PollQuietSteps DEF OfferInv, store, Persisted
<1>3. CASE FetchManifest \/ RepoNotListed
  BY <1>3, OwnUpdates DEF FetchManifest, RepoNotListed, PollUnchanged, OfferInv, store, Persisted
<1>4. CASE Resolve
  <2>1. /\ Decide /\ UNCHANGED <<store, offered, last_sha, stateq>>
        /\ baselined' = baselined \cup (IF last_sha = NULL /\ head # NULL THEN {head} ELSE {})
    BY <1>4 DEF Resolve, PollUnchanged
  <2>2. ppc' = "send" /\ pending'.type = "PollObservation" => pending'.last_sha \in Seen'
    <3>1. head \in Opt(Shas) /\ NULL \in Stamp
      BY DEF TypeInv, TypeOK, Opt, Stamp
    <3>2. CASE head # NULL /\ ~IsChange(head)
      <4>1. ppc' = "send" /\ pending' = Observation(head, NULL) /\ head \in Shas
        BY <2>1, <3>1, <3>2 DEF Decide, Opt
      <4>2. head \in Seen'
        BY <2>1, <3>2 DEF IsChange, OfferInv
      <4> QED BY <3>1, <4>1, <4>2, OwnUpdates
    <3>3. CASE ~(head # NULL /\ ~IsChange(head))
      BY <2>1, <3>3, OwnUpdates DEF Decide
    <3> QED BY <3>2, <3>3
  <2> QED BY <2>1, <2>2 DEF OfferInv, store, Persisted
<1>5. CASE SendTrigger
  BY <1>5 DEF SendTrigger, OfferInv, store, Persisted
<1>6. CASE SendState
  BY <1>0, <1>6, PollUpdate, QueueSteps DEF OfferInv, store, Persisted
<1>7. CASE EmitRunStarted \/ \E r \in 1 .. MaxRuns : MonitorDone(r)
  BY <1>0, <1>7, RunUpdates, QueueSteps DEF OfferInv, polling, store, Persisted
<1>8. CASE Respawn \/ Boot
  BY <1>8, Spawns DEF OfferInv, Persisted
<1>9. CASE Die
  BY <1>9, Dies DEF OfferInv, Persisted
<1>10. CASE WriterApplies
  <2>1. /\ \A i \in DOMAIN stateq' : stateq'[i].type = "PollObservation" => stateq'[i].last_sha \in Seen
        /\ Head(stateq).type = "PollObservation" => Head(stateq).last_sha \in Seen
    BY <1>0, <1>10, Writes, QueueSteps DEF OfferInv
  <2>2. Persisted(current').last_sha \in Seen \cup {NULL}
    <3>1. current \in State /\ Persisted(current).last_dispatched_at \in Stamp
      BY DEF TypeInv, TypeOK, StampsTyped
    <3> QED BY <1>10, <2>1, <3>1, Writes, ApplyOwn DEF OfferInv
  <2> QED
    BY <1>10, <2>1, <2>2, Writes DEF OfferInv, polling, history, Persisted
<1>11. CASE WriterAttempts \/ WriterPersists
  BY <1>11 DEF WriterAttempts, Store!Attempt, WriterPersists, StoreUnchanged, OfferInv,
     polling, history, Persisted
<1> QED
  BY <1>1, <1>2, <1>3, <1>4, <1>5, <1>6, <1>7, <1>8, <1>9, <1>10, <1>11, NextCases

\* Nothing the daemon holds, shows or could reload has moved past a change the trigger
\* channel did not accept (send_trigger_then_observation), whatever is cancelled, killed or
\* lost on the way: the observation is sent after the trigger, and the writer only applies
\* what was sent.
THEOREM OfferedCorrect == Spec => []ObservedMeansOffered
<1>1. Init => OfferInv
  <2> SUFFICES ASSUME Init PROVE OfferInv
    OBVIOUS
  <2>1. Persisted(DefaultState) = DefaultFlow /\ DefaultFlow.last_sha = NULL
    BY PipelineAssumption DEF DefaultState, Persisted, Entry, DefaultFlow
  <2> QED BY <2>1 DEF Init, OfferInv, ObservedMeansOffered
<1>2. TypeInv /\ OfferInv /\ [Next]_vars => OfferInv'
  BY OfferInvStep
<1>3. OfferInv => ObservedMeansOffered
  BY DEF OfferInv
<1> QED
  BY <1>1, <1>2, <1>3, TypeInvInit, TypeInvStep, PTL DEF Spec

-----------------------------------------------------------------------------
(* The poll loop's memory.                                                 *)

\* An observation, and one that fired a dispatch.
IsSeen(q, i) == q[i].type = "PollObservation"
IsFired(q, i) == IsSeen(q, i) /\ q[i].last_dispatched_at # NULL

\* MemoryMatchesState without its sets.
MemoryInv ==
  up /\ generations = 1 =>
    /\ (\A i \in DOMAIN stateq : ~IsSeen(stateq, i)) => last_sha = Persisted(current).last_sha
    /\ \A i \in DOMAIN stateq :
         IsSeen(stateq, i) /\ (\A j \in DOMAIN stateq : j > i => ~IsSeen(stateq, j))
           => last_sha = stateq[i].last_sha
    /\ (\A i \in DOMAIN stateq : ~IsFired(stateq, i))
         => last_dispatched_at = Persisted(current).last_dispatched_at
    /\ \A i \in DOMAIN stateq :
         IsFired(stateq, i) /\ (\A j \in DOMAIN stateq : j > i => ~IsFired(stateq, j))
           => last_dispatched_at = stateq[i].last_dispatched_at

\* SendState moves the memory and the queue together; the writer moves the queue into the
\* state.
LEMMA MemoryInvStep ==
  ASSUME TypeInv, Down, MemoryInv, [Next]_vars
  PROVE  MemoryInv'
<1> USE DEF IsSeen, IsFired
<1>0. /\ stateq \in Seq(StateUpdate) /\ generations \in Nat
      /\ current \in State /\ Persisted(current).last_dispatched_at \in Stamp
  BY DEF TypeInv, TypeOK, StampsTyped
<1>1. CASE Quiet
  BY <1>1, QuietSteps DEF MemoryInv, polling, store, Persisted
<1>2. CASE PollQuiet
  BY <1>2, PollQuietSteps DEF MemoryInv, store, Persisted
<1>3. CASE FetchManifest \/ RepoNotListed \/ Resolve \/ SendTrigger
  <2>1. UNCHANGED <<last_sha, last_dispatched_at, stateq, store, generations>>
    BY <1>3 DEF FetchManifest, RepoNotListed, Resolve, SendTrigger, PollUnchanged, control
  <2> QED BY <2>1 DEF MemoryInv, store, Persisted
<1>10. ASSUME NEW u \in StateUpdate, u.type # "PollObservation", stateq' = Append(stateq, u),
              UNCHANGED <<last_sha, last_dispatched_at, store, generations>>, up
       PROVE  MemoryInv'
  <2>1. /\ DOMAIN stateq = 1 .. Len(stateq) /\ Len(stateq) \in Nat
        /\ DOMAIN stateq' = 1 .. Len(stateq) + 1
        /\ \A i \in 1 .. Len(stateq) : stateq'[i] = stateq[i]
        /\ stateq'[Len(stateq) + 1] = u
    BY <1>0, <1>10, QueueSteps
  <2>2. /\ \A i \in DOMAIN stateq : i \in DOMAIN stateq' /\ stateq'[i] = stateq[i]
        /\ \A i \in DOMAIN stateq' : IsSeen(stateq', i) => i \in DOMAIN stateq
    BY <1>10, <2>1
  <2> QED BY <1>10, <2>2 DEF MemoryInv, store, Persisted
<1>4. CASE SendState
  <2>1. up
    BY <1>4 DEF SendState, Down
  <2>2. CASE pending.type = "PollObservation"
    BY SMTT(30), <1>0, <1>4, <2>1, <2>2, PollUpdate, QueueSteps DEF MemoryInv, store, Persisted, OrKeep
  <2>3. CASE pending.type # "PollObservation"
    BY <1>4, <1>10, <2>1, <2>3, PollUpdate
  <2> QED BY <2>2, <2>3
<1>5. CASE EmitRunStarted \/ \E r \in 1 .. MaxRuns : MonitorDone(r)
  <2>1. CASE up
    <3>1. PICK u \in FlowUpdate : /\ u \in StateUpdate /\ u.type \in {"RunStarted", "RunFinished"}
                                 /\ stateq' = Append(stateq, u)
      BY <1>5, RunUpdates
    <3>2. UNCHANGED <<last_sha, last_dispatched_at, store, generations>>
      BY <1>5, RunUpdates DEF polling
    <3> QED BY <1>10, <2>1, <3>1, <3>2
  <2>2. CASE ~up
    BY <1>5, <2>2 DEF Down, EmitRunStarted, MonitorDone
  <2> QED BY <2>1, <2>2
<1>6. CASE Respawn \/ Boot
  BY <1>0, <1>6, Spawns, QueueSteps DEF Down, MemoryInv, Persisted
<1>7. CASE Die
  BY <1>7, Dies DEF MemoryInv
<1>8. CASE WriterApplies
  <2>1. SUFFICES ASSUME generations = 1
                 PROVE  MemoryInv'
    BY <1>0, <1>8, Writes DEF MemoryInv, control
  <2>2. stateq # << >> /\ Head(stateq) = stateq[1] /\ DOMAIN stateq = 1 .. Len(stateq)
        /\ Len(stateq) \in Nat /\ Len(stateq) > 0
        /\ DOMAIN stateq' = 1 .. Len(stateq) - 1
        /\ \A i \in 1 .. Len(stateq) - 1 : stateq'[i] = stateq[i + 1]
    BY <1>0, <1>8, Writes, QueueSteps
  <2>3. UNCHANGED <<up, last_sha, last_dispatched_at, generations>> /\ up
    BY <1>8, Writes DEF polling, control
  <2> DEFINE u == Head(stateq)
  <2>4. /\ u \in FlowUpdate /\ current' = Apply(current, u)
        /\ u.type = "PollObservation" =>
             /\ Persisted(current').last_sha = u.last_sha
             /\ Persisted(current').last_dispatched_at =
                   OrKeep(u.last_dispatched_at, Persisted(current).last_dispatched_at)
        /\ u.type # "PollObservation" =>
              /\ Persisted(current').last_sha = Persisted(current).last_sha
              /\ Persisted(current').last_dispatched_at = Persisted(current).last_dispatched_at
    BY <1>0, <1>8, Writes, ApplyOwn
  <2>5. ASSUME \A i \in DOMAIN stateq' : ~IsSeen(stateq', i)
        PROVE  last_sha' = Persisted(current').last_sha
    <3>1. \A j \in DOMAIN stateq : j > 1 => ~IsSeen(stateq, j)
      <4> SUFFICES ASSUME NEW j \in DOMAIN stateq, j > 1 PROVE ~IsSeen(stateq, j)
        OBVIOUS
      <4>1. j - 1 \in DOMAIN stateq' /\ (j - 1) + 1 = j
        BY <2>2
      <4> QED BY <2>2, <2>5, <4>1
    <3>2. 1 \in DOMAIN stateq /\ \A j \in DOMAIN stateq : j = 1 \/ j > 1
      BY <2>2
    <3>3. CASE u.type = "PollObservation"
      BY <2>1, <2>2, <2>3, <2>4, <3>1, <3>2, <3>3 DEF MemoryInv
    <3>4. CASE u.type # "PollObservation"
      BY <2>1, <2>2, <2>3, <2>4, <3>1, <3>2, <3>4 DEF MemoryInv
    <3> QED BY <3>3, <3>4
  <2>6. ASSUME NEW i \in DOMAIN stateq', IsSeen(stateq', i),
               \A j \in DOMAIN stateq' : j > i => ~IsSeen(stateq', j)
        PROVE  last_sha' = stateq'[i].last_sha
    <3>1. i + 1 \in DOMAIN stateq /\ IsSeen(stateq, i + 1) /\ stateq'[i] = stateq[i + 1]
      BY <2>2, <2>6
    <3>2. \A j \in DOMAIN stateq : j > i + 1 => ~IsSeen(stateq, j)
      <4> SUFFICES ASSUME NEW j \in DOMAIN stateq, j > i + 1 PROVE ~IsSeen(stateq, j)
        OBVIOUS
      <4>1. j - 1 \in DOMAIN stateq' /\ j - 1 > i /\ (j - 1) + 1 = j
        BY <2>2
      <4> QED BY <2>2, <2>6, <4>1
    <3> QED BY <2>1, <2>3, <3>1, <3>2 DEF MemoryInv
  <2>7. ASSUME \A i \in DOMAIN stateq' : ~IsFired(stateq', i)
        PROVE  last_dispatched_at' = Persisted(current').last_dispatched_at
    <3>1. \A j \in DOMAIN stateq : j > 1 => ~IsFired(stateq, j)
      <4> SUFFICES ASSUME NEW j \in DOMAIN stateq, j > 1 PROVE ~IsFired(stateq, j)
        OBVIOUS
      <4>1. j - 1 \in DOMAIN stateq' /\ (j - 1) + 1 = j
        BY <2>2
      <4> QED BY <2>2, <2>7, <4>1
    <3>2. 1 \in DOMAIN stateq /\ \A j \in DOMAIN stateq : j = 1 \/ j > 1
      BY <2>2
    <3>3. CASE IsFired(stateq, 1)
      BY <2>1, <2>2, <2>3, <2>4, <3>1, <3>2, <3>3 DEF MemoryInv, OrKeep
    <3>4. CASE ~IsFired(stateq, 1)
      BY <2>1, <2>2, <2>3, <2>4, <3>1, <3>2, <3>4 DEF MemoryInv, OrKeep
    <3> QED BY <3>3, <3>4
  <2>8. ASSUME NEW i \in DOMAIN stateq', IsFired(stateq', i),
               \A j \in DOMAIN stateq' : j > i => ~IsFired(stateq', j)
        PROVE  last_dispatched_at' = stateq'[i].last_dispatched_at
    <3>1. i + 1 \in DOMAIN stateq /\ IsFired(stateq, i + 1) /\ stateq'[i] = stateq[i + 1]
      BY <2>2, <2>8
    <3>2. \A j \in DOMAIN stateq : j > i + 1 => ~IsFired(stateq, j)
      <4> SUFFICES ASSUME NEW j \in DOMAIN stateq, j > i + 1 PROVE ~IsFired(stateq, j)
        OBVIOUS
      <4>1. j - 1 \in DOMAIN stateq' /\ j - 1 > i /\ (j - 1) + 1 = j
        BY <2>2
      <4> QED BY <2>2, <2>8, <4>1
    <3> QED BY <2>1, <2>3, <3>1, <3>2 DEF MemoryInv
  <2> QED BY <2>1, <2>3, <2>5, <2>6, <2>7, <2>8 DEF MemoryInv
<1>9. CASE WriterAttempts \/ WriterPersists
  BY <1>9 DEF WriterAttempts, Store!Attempt, WriterPersists, StoreUnchanged, MemoryInv,
     polling, control, Persisted
<1> QED
  BY <1>1, <1>2, <1>3, <1>4, <1>5, <1>6, <1>7, <1>8, <1>9, NextCases

\* No memory and no state at first.
LEMMA MemoryInvInit == Init => MemoryInv
<1>1. Persisted(DefaultState) = DefaultFlow
      /\ DefaultFlow.last_sha = NULL /\ DefaultFlow.last_dispatched_at = NULL
  BY PipelineAssumption DEF DefaultState, Persisted, Entry, DefaultFlow
<1> QED BY <1>1 DEF Init, MemoryInv

\* The poll loop compares the next observation with what its newest queued update says, or
\* with the state once the writer has caught up (run_with_executor, spawn_flow), in the
\* first daemon and in every one restarted after a crash.
THEOREM MemoryCorrect == Spec => []MemoryMatchesState
<1>1. TypeInv /\ MemoryInv => MemoryMatchesState
  BY DEF TypeInv, TypeOK, MemoryInv, MemoryMatchesState, IsSeen, IsFired
<1> QED
  BY <1>1, MemoryInvInit, MemoryInvStep, DownInit, DownStep, TypeInvInit, TypeInvStep, PTL DEF Spec

-----------------------------------------------------------------------------
(* The cooldown.                                                           *)

\* t is no younger than now
NoLater(t, now) == t = NULL \/ (now # NULL /\ t <= now)

\* No stamp in the pipeline is younger than the one the task remembers, and the task
\* fires only when that one is old enough.
CooldownInv ==
  up /\ generations = 1 =>
    /\ NoLater(Persisted(view).last_dispatched_at, last_dispatched_at)
    /\ NoLater(Persisted(current).last_dispatched_at, last_dispatched_at)
    /\ \A i \in DOMAIN stateq :
         IsSeen(stateq, i) => NoLater(stateq[i].last_dispatched_at, last_dispatched_at)
    /\ ppc \in {"trigger", "send"} /\ pending.type = "PollObservation"
         /\ pending.last_dispatched_at # NULL
           => IsCooledDown(last_dispatched_at, pending.last_dispatched_at)

\* Dispatch stamps are ordered, and an older one has cooled down when a younger one has.
LEMMA StampOrder ==
  /\ \A t \in Stamp : NoLater(t, t)
  /\ \A a, b, c \in Stamp : NoLater(a, b) /\ NoLater(b, c) => NoLater(a, c)
  /\ \A a, b \in Stamp, now \in Stamp \ {NULL} :
       /\ IsCooledDown(b, now) => NoLater(b, now)
       /\ NoLater(a, b) /\ IsCooledDown(b, now) => IsCooledDown(a, now)
<1>1. MaxClock \in Nat /\ COOLDOWN \in Nat /\ NULL \notin 0 .. MaxClock
  BY Sizes, NullAssumption
<1> QED BY <1>1 DEF Stamp, Opt, NoLater, IsCooledDown

\* A stamp enters the pipeline only after is_cooled_down has passed the one before it.
LEMMA CooldownInvStep ==
  ASSUME TypeInv, Down, CooldownInv, [Next]_vars
  PROVE  CooldownInv'
<1> USE DEF IsSeen
<1>0. /\ stateq \in Seq(StateUpdate) /\ generations \in Nat /\ current \in State
      /\ \A i \in DOMAIN stateq : stateq[i] \in FlowUpdate
      /\ last_dispatched_at \in Stamp
      /\ Persisted(current).last_dispatched_at \in Stamp /\ Persisted(view).last_dispatched_at \in Stamp
  BY DEF TypeInv, TypeOK, StampsTyped
<1>1. CASE Quiet
  BY <1>1, QuietSteps DEF CooldownInv, polling, store, Persisted
<1>2. CASE PollQuiet
  BY <1>2, PollQuietSteps DEF CooldownInv, store, Persisted
<1>3. CASE FetchManifest \/ RepoNotListed
  <2>1. CASE FetchManifest
    BY <2>1, OwnUpdates DEF FetchManifest, PollUnchanged, control, CooldownInv, store, Persisted
  <2>2. CASE RepoNotListed
    BY <2>2, OwnUpdates DEF RepoNotListed, PollUnchanged, control, CooldownInv, store, Persisted
  <2> QED
    BY <1>3, <2>1, <2>2
<1>4. CASE Resolve
  <2>1. Decide /\ UNCHANGED <<last_sha, last_dispatched_at, stateq, store, generations>>
    BY <1>4 DEF Resolve, PollUnchanged, control
  <2>2. ppc' \in {"trigger", "send"} /\ pending'.type = "PollObservation"
          /\ pending'.last_dispatched_at # NULL
        => IsCooledDown(last_dispatched_at, pending'.last_dispatched_at)
    <3>1. head \in Opt(Shas) /\ clock \in Stamp /\ NULL \in Stamp
      BY DEF TypeInv, TypeOK, Stamp, Opt
    <3>2. CASE head = NULL \/ (head # NULL /\ IsChange(head) /\ ~IsCooledDown(last_dispatched_at, clock))
      BY <2>1, <3>2, OwnUpdates DEF Decide
    <3>3. CASE head # NULL /\ ~IsChange(head)
      BY <2>1, <3>1, <3>3, OwnUpdates DEF Decide, Opt
    <3>4. CASE head # NULL /\ IsChange(head) /\ IsCooledDown(last_dispatched_at, clock)
      BY <2>1, <3>1, <3>4, OwnUpdates DEF Decide, Opt
    <3> QED BY <3>2, <3>3, <3>4
  <2> QED BY <2>1, <2>2 DEF CooldownInv, store, Persisted, IsCooledDown
<1>5. CASE SendTrigger
  BY <1>5 DEF SendTrigger, CooldownInv, control, store, Persisted, IsCooledDown
<1>6. CASE SendState
  <2>1. SUFFICES ASSUME up, generations = 1 PROVE CooldownInv'
    BY <1>6, PollUpdate DEF CooldownInv, store
  <2>2. /\ DOMAIN stateq = 1 .. Len(stateq) /\ Len(stateq) \in Nat
        /\ DOMAIN stateq' = 1 .. Len(stateq) + 1
        /\ \A i \in 1 .. Len(stateq) : stateq'[i] = stateq[i]
        /\ stateq'[Len(stateq) + 1] = pending
    BY <1>0, <1>6, PollUpdate, QueueSteps
  <2>3. /\ NoLater(last_dispatched_at, last_dispatched_at') /\ last_dispatched_at' \in Stamp
        /\ pending.type = "PollObservation" =>
              NoLater(pending.last_dispatched_at, last_dispatched_at')
    <3>1. CASE pending.type = "PollObservation"
      <4>1. pending.last_dispatched_at \in Stamp /\ ppc = "send"
        BY <1>6, <3>1, PollUpdate DEF FlowUpdate
      <4>2. CASE pending.last_dispatched_at = NULL
        BY <1>0, <1>6, <3>1, <4>1, <4>2, PollUpdate, StampOrder DEF OrKeep, NoLater
      <4>3. CASE pending.last_dispatched_at # NULL
        BY <1>0, <1>6, <2>1, <3>1, <4>1, <4>3, PollUpdate, StampOrder DEF OrKeep, CooldownInv
      <4> QED BY <4>2, <4>3
    <3>2. CASE pending.type # "PollObservation"
      BY <1>0, <1>6, <3>2, PollUpdate, StampOrder
    <3> QED BY <3>1, <3>2
  <2>4. /\ NoLater(Persisted(view).last_dispatched_at, last_dispatched_at')
        /\ NoLater(Persisted(current).last_dispatched_at, last_dispatched_at')
    BY <1>0, <2>1, <2>3, StampOrder DEF CooldownInv
  <2>5. ASSUME NEW i \in DOMAIN stateq', IsSeen(stateq', i)
        PROVE  NoLater(stateq'[i].last_dispatched_at, last_dispatched_at')
    <3>1. CASE i \in 1 .. Len(stateq)
      <4>1. stateq[i] \in FlowUpdate /\ stateq[i].last_dispatched_at \in Stamp
        BY <1>0, <2>2, <2>5, <3>1 DEF FlowUpdate
      <4> QED BY <1>0, <2>1, <2>2, <2>3, <2>5, <3>1, <4>1, StampOrder DEF CooldownInv
    <3>2. CASE i = Len(stateq) + 1
      BY <2>2, <2>3, <2>5, <3>2
    <3> QED BY <2>2, <3>1, <3>2
  <2> QED BY <1>6, <2>4, <2>5, PollUpdate DEF CooldownInv, store, Persisted
<1>7. CASE EmitRunStarted \/ \E r \in 1 .. MaxRuns : MonitorDone(r)
  <2>1. PICK u \in StateUpdate : /\ u.type \in {"RunStarted", "RunFinished"}
                                 /\ stateq' = Append(stateq, u)
    BY <1>7, RunUpdates
  <2>2. \A i \in DOMAIN stateq' : IsSeen(stateq', i) => i \in DOMAIN stateq /\ stateq'[i] = stateq[i]
    BY <1>0, <2>1, QueueSteps
  <2>3. UNCHANGED <<polling, store, generations>>
    BY <1>7, RunUpdates
  <2> QED BY <2>2, <2>3 DEF CooldownInv, polling, store, Persisted, IsCooledDown
<1>8. CASE Respawn \/ Boot
  BY <1>0, <1>8, Spawns, QueueSteps, StampOrder DEF Down, CooldownInv, Persisted
<1>9. CASE Die
  BY <1>9, Dies DEF CooldownInv
<1>10. CASE WriterApplies
  <2>1. SUFFICES ASSUME generations = 1 PROVE CooldownInv'
    BY <1>10, Writes DEF CooldownInv, control
  <2> DEFINE u == Head(stateq)
  <2>2. /\ u \in FlowUpdate /\ u = stateq[1] /\ 1 \in DOMAIN stateq /\ up
        /\ \A i \in DOMAIN stateq' : i + 1 \in DOMAIN stateq /\ stateq'[i] = stateq[i + 1]
        /\ UNCHANGED <<up, view, polling, generations>>
    BY <1>0, <1>10, Writes, QueueSteps DEF control
  <2>3. NoLater(Persisted(current').last_dispatched_at, last_dispatched_at)
    <3>1. u.type = "PollObservation" => NoLater(u.last_dispatched_at, last_dispatched_at)
      BY <2>1, <2>2 DEF CooldownInv
    <3>2. NoLater(Persisted(current).last_dispatched_at, last_dispatched_at)
      BY <2>1, <2>2 DEF CooldownInv
    <3> QED BY <1>0, <1>10, <2>2, <3>1, <3>2, Writes, ApplyOwn DEF OrKeep
  <2> QED BY <2>1, <2>2, <2>3 DEF CooldownInv, polling, Persisted, IsCooledDown
<1>11. CASE WriterAttempts \/ WriterPersists
  BY <1>11 DEF WriterAttempts, Store!Attempt, WriterPersists, StoreUnchanged, CooldownInv,
     polling, control, Persisted, IsCooledDown
<1> QED
  BY <1>1, <1>2, <1>3, <1>4, <1>5, <1>6, <1>7, <1>8, <1>9, <1>10, <1>11, NextCases

\* A flow about to fire honours the cooldown of every dispatch `gcit status` can see
\* (is_cooled_down), across crashes and whatever is still queued, for every cooldown.
THEOREM CooldownCorrect == Spec => []CooldownHonoured
<1>1. Init => CooldownInv
  <2>1. Persisted(DefaultState) = DefaultFlow /\ DefaultFlow.last_dispatched_at = NULL
    BY PipelineAssumption DEF DefaultState, Persisted, Entry, DefaultFlow
  <2> QED BY <2>1 DEF Init, CooldownInv, NoLater
<1>2. TypeInv /\ Down /\ CooldownInv => CooldownHonoured
  <2> SUFFICES ASSUME TypeInv, Down, CooldownInv, generations = 1, ppc = "trigger"
               PROVE  IsCooledDown(Persisted(view).last_dispatched_at, pending.last_dispatched_at)
    BY DEF CooldownHonoured
  <2>1. up /\ pending.type = "PollObservation" /\ pending.last_dispatched_at \in Stamp \ {NULL}
    BY DEF Down, TypeInv, PendingTyped, FlowUpdate
  <2>2. last_dispatched_at \in Stamp /\ Persisted(view).last_dispatched_at \in Stamp
    BY DEF TypeInv, StampsTyped
  <2> QED BY <2>1, <2>2, StampOrder DEF CooldownInv
<1> QED
  BY <1>1, <1>2, CooldownInvStep, DownInit, DownStep, TypeInvInit, TypeInvStep, PTL DEF Spec

-----------------------------------------------------------------------------
(* The error latch.                                                        *)

\* A shown poll failure stays clearable (record_poll_failure, maybe_clear_last_error),
\* whatever the dispatcher records in between.
THEOREM LatchCorrect == Spec => []PollErrorIsClearable
<1>1. Init => PollErrorIsClearable
  BY DEF Init, PollErrorIsClearable
<1>2. ASSUME TypeInv, PollErrorIsClearable, [Next]_vars
      PROVE  PollErrorIsClearable'
  <2> USE DEF PollErrorIsClearable
  <2>1. NULL # "poll"
    BY PipelineAssumption
  <2>2. CASE Push \/ PublishManifest \/ Tick \/ ManualTrigger \/ Cancel \/ UNCHANGED vars
    BY <1>2, <2>2 DEF Push, PublishManifest, Tick, ManualTrigger, Cancel, vars, polling
  <2>3. CASE PollStep \/ PollCancelled
    BY <1>2, <2>1, <2>3 DEF PollStep, Wake, FetchManifest, RepoNotListed, Resolve, PollFails, SendTrigger,
       TriggerChannelClosed, SendState, PollCancelled, PollUnchanged
  <2>4. CASE DispatcherStep \/ \E r \in 1 .. MaxRuns : MonitorDone(r) \/ MonitorGivesUp(r)
    BY <1>2, <2>4 DEF DispatcherStep, TakeTrigger, SeeCancel, DispatchFails, DispatchSucceeds,
       EmitRunStarted, DrainEmpty, Exit, MonitorDone, MonitorGivesUp, DispatchUnchanged, polling
  <2>5. CASE Respawn \/ Die \/ Boot
    BY <1>2, <2>5 DEF Respawn, Die, Boot, Spawn
  <2>6. CASE WriterApplies \/ WriterAttempts \/ WriterPersists
    BY <1>2, <2>6 DEF WriterApplies, WriterAttempts, WriterPersists, StoreUnchanged, polling
  <2> QED BY <1>2, <2>2, <2>3, <2>4, <2>5, <2>6 DEF Next
<1> QED
  BY <1>1, <1>2, TypeInvInit, TypeInvStep, PTL DEF Spec

-----------------------------------------------------------------------------
(* Finished runs.                                                          *)

Finishes(i, r) == stateq[i].type = "RunFinished" /\ stateq[i].run_id = r

\* The run is in the state, or its RunStarted is before position n of the queue.
KnownBefore(n, r) ==
  \/ HasRun(Persisted(current).active_runs, r)
  \/ \E j \in DOMAIN stateq : j < n /\ stateq[j].type = "RunStarted" /\ stateq[j].run_id = r

\* A queued RunFinished comes after the run's RunStarted and is the only one; a watched run
\* is known and not finished; the run being started is not watched yet.
RunInv ==
  /\ \A i \in DOMAIN stateq : stateq[i].type = "RunFinished" =>
       KnownBefore(i, stateq[i].run_id) /\ stateq[i].run_id \in 1 .. runs
  /\ \A i, j \in DOMAIN stateq :
       stateq[i].type = "RunFinished" /\ Finishes(j, stateq[i].run_id) => i = j
  /\ \A r \in monitors :
       KnownBefore(Len(stateq) + 1, r) /\ \A i \in DOMAIN stateq : ~Finishes(i, r)
  /\ dpc = "started" =>
       runs \notin monitors /\ \A i \in DOMAIN stateq : ~Finishes(i, runs)

\* Adding an update keeps every known run known.
LEMMA QueueGrows ==
  ASSUME TypeInv, NEW u \in StateUpdate, stateq' = Append(stateq, u), UNCHANGED current
  PROVE  /\ Len(stateq) \in Nat /\ DOMAIN stateq = 1 .. Len(stateq)
         /\ Len(stateq') = Len(stateq) + 1 /\ DOMAIN stateq' = 1 .. Len(stateq) + 1
         /\ \A i \in DOMAIN stateq : i \in DOMAIN stateq' /\ stateq'[i] = stateq[i]
         /\ stateq'[Len(stateq) + 1] = u
         /\ \A i \in DOMAIN stateq' : i \in DOMAIN stateq \/ i = Len(stateq) + 1
         /\ \A n \in Nat : \A r : KnownBefore(n, r) => KnownBefore(n, r)'
         /\ \A r : KnownBefore(Len(stateq) + 1, r) => KnownBefore(Len(stateq) + 1, r)'
<1>1. stateq \in Seq(StateUpdate)
  BY DEF TypeInv, TypeOK
<1>2. /\ Len(stateq) \in Nat /\ DOMAIN stateq = 1 .. Len(stateq)
      /\ Len(stateq') = Len(stateq) + 1 /\ DOMAIN stateq' = 1 .. Len(stateq) + 1
      /\ \A i \in DOMAIN stateq : i \in DOMAIN stateq' /\ stateq'[i] = stateq[i]
      /\ stateq'[Len(stateq) + 1] = u
      /\ \A i \in DOMAIN stateq' : i \in DOMAIN stateq \/ i = Len(stateq) + 1
  BY <1>1, QueueSteps
<1>3. \A n \in Nat : \A r : KnownBefore(n, r) => KnownBefore(n, r)'
  BY <1>2 DEF KnownBefore, Persisted
<1>4. \A r : KnownBefore(Len(stateq) + 1, r) => KnownBefore(Len(stateq) + 1, r)'
  BY <1>2 DEF KnownBefore, Persisted
<1> QED BY <1>2, <1>3, <1>4

\* A step that keeps the queue and the state, and watches no new run, keeps RunInv.
LEMMA RunInvKept ==
  ASSUME RunInv, UNCHANGED <<stateq, current, runs>>, monitors' \subseteq monitors,
         dpc' = "started" => dpc = "started"
  PROVE  RunInv'
<1>1. \A n, r : KnownBefore(n, r)' <=> KnownBefore(n, r)
  BY DEF KnownBefore, Persisted
<1>2. \A i, r : Finishes(i, r)' <=> Finishes(i, r)
  BY DEF Finishes
<1> QED BY <1>1, <1>2 DEF RunInv

\* Starting, watching and finishing a run keep RunInv; the writer keeps the runs it is not
\* told to finish.
LEMMA RunInvStep ==
  ASSUME TypeInv, RunInv, [Next]_vars
  PROVE  RunInv'
<1>0. /\ stateq \in Seq(StateUpdate) /\ current \in State /\ runs \in Nat
      /\ monitors \subseteq 1 .. runs
      /\ \A i \in DOMAIN stateq : stateq[i] \in FlowUpdate
      /\ Persisted(current).last_dispatched_at \in Stamp
  BY Sizes DEF TypeInv, TypeOK, StampsTyped
<1>1. CASE \/ Push \/ PublishManifest \/ Tick \/ ManualTrigger \/ Cancel \/ UNCHANGED vars
           \/ TakeTrigger \/ SeeCancel \/ DispatchFails \/ DrainEmpty \/ Exit
           \/ \E r \in 1 .. MaxRuns : MonitorGivesUp(r)
  <2>1. UNCHANGED <<stateq, current, runs>> /\ monitors' \subseteq monitors
        /\ (dpc' = "started" => dpc = "started")
    BY <1>1 DEF Push, PublishManifest, Tick, ManualTrigger, Cancel, vars, TakeTrigger, SeeCancel,
       DispatchFails, DrainEmpty, Exit, MonitorGivesUp, AfterTrigger, DispatchUnchanged,
       dispatching, store
  <2> QED BY <2>1, RunInvKept
<1>2. CASE PollQuiet \/ FetchManifest \/ RepoNotListed \/ Resolve \/ SendTrigger
  <2>1. UNCHANGED <<stateq, current, runs, monitors, dpc>>
    BY <1>2 DEF PollQuiet, Wake, PollFails, PollCancelled, TriggerChannelClosed, FetchManifest, RepoNotListed,
       Resolve, SendTrigger, PollUnchanged, dispatching, store
  <2> QED BY <2>1, RunInvKept
<1>3. CASE DispatchSucceeds
  <2>1. /\ UNCHANGED <<stateq, current, monitors>> /\ runs' = runs + 1
    BY <1>3 DEF DispatchSucceeds, DispatchUnchanged, store
  <2>2. \A n, r : KnownBefore(n, r)' <=> KnownBefore(n, r)
    BY <2>1 DEF KnownBefore, Persisted
  <2>3. \A i \in DOMAIN stateq : stateq[i].type = "RunFinished" =>
          stateq[i].run_id \in 1 .. runs' /\ stateq[i].run_id # runs'
    BY <1>0, <2>1 DEF RunInv
  <2> QED BY <1>0, <2>1, <2>2, <2>3 DEF RunInv, Finishes
<1>4. CASE SendState
  <2>1. /\ pending \in StateUpdate /\ stateq' = Append(stateq, pending)
        /\ pending.type # "RunFinished" /\ UNCHANGED <<current, runs, monitors, dpc>>
    BY <1>4, PollUpdate DEF SendState, PollUnchanged, dispatching, store, TypeInv, PendingTyped
  <2> QED BY <1>0, <2>1, QueueGrows DEF RunInv, Finishes
<1>5. CASE EmitRunStarted
  <2> DEFINE u == RunStarted(runs)
  <2>1. runs \in 1 .. MaxRuns
    BY <1>5, Sizes DEF EmitRunStarted, TypeInv, TypeOK
  <2>2. /\ u \in StateUpdate /\ u.type = "RunStarted" /\ u.run_id = runs
        /\ stateq' = Append(stateq, u)
        /\ UNCHANGED <<current, runs>> /\ monitors' = monitors \cup {runs}
        /\ dpc = "started" /\ dpc' # "started"
    BY <1>5, <2>1, OwnUpdates DEF EmitRunStarted, AfterTrigger, DispatchUnchanged, store, FlowUpdate
  <2>3. KnownBefore(Len(stateq) + 1, runs)'
    BY <2>2, QueueGrows DEF KnownBefore
  <2> QED BY <1>0, <2>2, <2>3, QueueGrows DEF RunInv, Finishes
<1>6. ASSUME NEW r \in 1 .. MaxRuns, MonitorDone(r)
      PROVE  RunInv'
  <2>1. PICK c \in Conclusions : stateq' = Append(stateq, RunFinished(r, c))
    BY <1>6 DEF MonitorDone
  <2> DEFINE u == RunFinished(r, c)
  <2>2. /\ u \in StateUpdate /\ u.type = "RunFinished" /\ u.run_id = r
        /\ stateq' = Append(stateq, u)
        /\ UNCHANGED <<current, runs, dpc>> /\ monitors' = monitors \ {r} /\ r \in monitors
    BY <1>6, <2>1, OwnUpdates DEF MonitorDone, DispatchUnchanged, store, FlowUpdate
  <2>3. KnownBefore(Len(stateq) + 1, r) /\ r \in 1 .. runs /\ \A i \in DOMAIN stateq : ~Finishes(i, r)
    BY <1>0, <2>2 DEF RunInv
  <2> HIDE DEF u
  <2>4. \A i \in DOMAIN stateq' : stateq'[i].type = "RunFinished" =>
          KnownBefore(i, stateq[i].run_id)' /\ stateq'[i].run_id \in 1 .. runs'
    <3> SUFFICES ASSUME NEW i \in DOMAIN stateq', stateq'[i].type = "RunFinished"
                 PROVE  KnownBefore(i, stateq[i].run_id)' /\ stateq'[i].run_id \in 1 .. runs'
      OBVIOUS
    <3>1. CASE i \in DOMAIN stateq
      BY <2>2, <3>1, QueueGrows DEF RunInv
    <3>2. CASE i = Len(stateq) + 1
      BY <2>2, <2>3, <3>2, QueueGrows
    <3> QED BY <2>2, <3>1, <3>2, QueueGrows
  <2>5. \A i, j \in DOMAIN stateq' :
          stateq'[i].type = "RunFinished" /\ Finishes(j, stateq[i].run_id)' => i = j
    BY <2>2, <2>3, QueueGrows DEF RunInv, Finishes
  <2>6. \A s \in monitors' :
          KnownBefore(Len(stateq) + 1, s)' /\ \A i \in DOMAIN stateq' : ~Finishes(i, s)'
    BY <2>2, QueueGrows DEF RunInv, Finishes
  <2>7. dpc' = "started" =>
          runs' \notin monitors' /\ \A i \in DOMAIN stateq' : ~Finishes(i, runs)'
    BY <2>2, QueueGrows DEF RunInv, Finishes
  <2> QED BY <2>4, <2>5, <2>6, <2>7 DEF RunInv
<1>7. CASE Respawn \/ Boot
  BY <1>7, Spawns, RunInvKept
<1>8. CASE Die
  BY <1>8, Dies, QueueSteps DEF RunInv
<1>9. CASE WriterApplies
  <2> DEFINE u == Head(stateq)
  <2>1. /\ u \in FlowUpdate /\ u \in StateUpdate /\ u = stateq[1] /\ 1 \in DOMAIN stateq
        /\ Len(stateq) \in Nat /\ DOMAIN stateq = 1 .. Len(stateq) /\ Len(stateq') = Len(stateq) - 1
        /\ \A i \in DOMAIN stateq' :
             i \in Nat /\ i + 1 \in DOMAIN stateq /\ stateq'[i] = stateq[i + 1]
        /\ \A j \in DOMAIN stateq : j > 1 => j - 1 \in DOMAIN stateq' /\ stateq'[j - 1] = stateq[j]
        /\ current' = Apply(current, u)
        /\ UNCHANGED <<dpc, monitors, runs>>
    BY <1>0, <1>9, Writes, QueueSteps DEF dispatching
  <2> HIDE DEF u
  <2>2. ASSUME NEW r, ~(u.type = "RunFinished" /\ u.run_id = r),
               (u.type = "RunStarted" /\ u.run_id = r) \/ HasRun(Persisted(current).active_runs, r)
        PROVE  HasRun(Persisted(current').active_runs, r)
    <3>1. u.flow = Flow /\ u.type \in {"PollObservation", "PollTimestamp", "RunStarted", "RunFinished"}
      BY <2>1 DEF FlowUpdate, StateUpdate
    <3>2. CASE u.type \in {"PollObservation", "PollTimestamp"}
      BY <1>0, <2>1, <2>2, <3>2, ApplyOwn
    <3>3. CASE u.type = "RunStarted"
      BY <1>0, <2>1, <2>2, <3>1, <3>3, StartedEffect DEF Persisted
    <3>4. CASE u.type = "RunFinished"
      BY <1>0, <2>1, <2>2, <3>1, <3>4, FinishedEffect DEF Persisted
    <3> QED BY <3>1, <3>2, <3>3, <3>4
  <2>3. ASSUME NEW n \in Nat, NEW r, KnownBefore(n + 1, r), ~(u.type = "RunFinished" /\ u.run_id = r)
        PROVE  KnownBefore(n, r)'
    <3>1. CASE HasRun(Persisted(current).active_runs, r)
      BY <2>2, <2>3, <3>1 DEF KnownBefore
    <3>2. ASSUME NEW j \in DOMAIN stateq, j < n + 1, stateq[j].type = "RunStarted", stateq[j].run_id = r
          PROVE  KnownBefore(n, r)'
      <4>1. CASE j = 1
        BY <2>1, <2>2, <2>3, <3>2, <4>1 DEF KnownBefore
      <4>2. CASE j > 1
        BY <2>1, <2>3, <3>2, <4>2 DEF KnownBefore
      <4> QED BY <2>1, <4>1, <4>2
    <3> QED BY <2>3, <3>1, <3>2 DEF KnownBefore
  <2>4. \A i \in DOMAIN stateq' : stateq'[i].type = "RunFinished" =>
          KnownBefore(i, stateq[i].run_id)' /\ stateq'[i].run_id \in 1 .. runs'
    <3> SUFFICES ASSUME NEW i \in DOMAIN stateq', stateq'[i].type = "RunFinished"
                 PROVE  KnownBefore(i, stateq[i].run_id)' /\ stateq'[i].run_id \in 1 .. runs'
      OBVIOUS
    <3>1. i \in Nat /\ i + 1 \in DOMAIN stateq /\ stateq'[i] = stateq[i + 1] /\ i + 1 # 1
      BY <2>1
    <3>2. KnownBefore(i + 1, stateq[i + 1].run_id) /\ stateq[i + 1].run_id \in 1 .. runs
      BY <3>1 DEF RunInv
    <3>3. ~(u.type = "RunFinished" /\ u.run_id = stateq[i + 1].run_id)
      BY <2>1, <3>1 DEF RunInv, Finishes
    <3>4. KnownBefore(i, stateq[i].run_id)'
      BY <2>3, <3>1, <3>2, <3>3
    <3> QED BY <2>1, <3>1, <3>2, <3>4
  <2>5. \A i, j \in DOMAIN stateq' :
          stateq'[i].type = "RunFinished" /\ Finishes(j, stateq[i].run_id)' => i = j
    <3> SUFFICES ASSUME NEW i \in DOMAIN stateq', NEW j \in DOMAIN stateq',
                        stateq'[i].type = "RunFinished", Finishes(j, stateq[i].run_id)'
                 PROVE  i = j
      OBVIOUS
    <3>1. i + 1 = j + 1
      BY <2>1 DEF RunInv, Finishes
    <3> QED BY <2>1, <3>1
  <2>6. \A s \in monitors' :
          KnownBefore(Len(stateq) + 1, s)' /\ \A i \in DOMAIN stateq' : ~Finishes(i, s)'
    <3> SUFFICES ASSUME NEW s \in monitors
                 PROVE  KnownBefore(Len(stateq) + 1, s)' /\ \A i \in DOMAIN stateq' : ~Finishes(i, s)'
      BY <2>1
    <3>1. KnownBefore(Len(stateq) + 1, s) /\ \A i \in DOMAIN stateq : ~Finishes(i, s)
      BY DEF RunInv
    <3>2. ~(u.type = "RunFinished" /\ u.run_id = s)
      BY <2>1, <3>1 DEF Finishes
    <3>3. KnownBefore(Len(stateq) + 1, s)'
      BY <2>1, <2>3, <3>1, <3>2
    <3> QED BY <2>1, <3>1, <3>3 DEF Finishes
  <2>7. dpc' = "started" =>
          runs' \notin monitors' /\ \A i \in DOMAIN stateq' : ~Finishes(i, runs)'
    BY <2>1 DEF RunInv, Finishes
  <2> QED BY <2>4, <2>5, <2>6, <2>7 DEF RunInv
<1>10. CASE WriterAttempts \/ WriterPersists
  <2>1. UNCHANGED <<stateq, current, runs, monitors, dpc>>
    BY <1>10 DEF WriterAttempts, Store!Attempt, WriterPersists, StoreUnchanged, dispatching
  <2> QED BY <2>1, RunInvKept
<1> QED
  BY <1>1, <1>2, <1>3, <1>4, <1>5, <1>6, <1>7, <1>8, <1>9, <1>10, NextCases DEF Quiet

\* A RunFinished that reaches the writer finds its run in the state (emit_run_started comes
\* before spawn_run_monitor, one RunFinished per monitor), for any number of runs, reloads
\* and kills.
THEOREM FinishedCorrect == Spec => []FinishedRunIsKnown
<1>1. Init => RunInv
  BY DEF Init, RunInv
<1>2. TypeInv /\ RunInv => FinishedRunIsKnown
  <2> SUFFICES ASSUME TypeInv, RunInv, stateq # << >>, Head(stateq).type = "RunFinished"
               PROVE  HasRun(Persisted(current).active_runs, Head(stateq).run_id)
    BY DEF FinishedRunIsKnown
  <2>1. stateq \in Seq(StateUpdate)
    BY DEF TypeInv, TypeOK
  <2>2. 1 \in DOMAIN stateq /\ Head(stateq) = stateq[1] /\ ~ \E j \in DOMAIN stateq : j < 1
    BY <2>1, QueueSteps
  <2> QED BY <2>2 DEF RunInv, KnownBefore
<1> QED
  BY <1>1, <1>2, RunInvStep, TypeInvInit, TypeInvStep, PTL DEF Spec
-----------------------------------------------------------------------------
(* The flow implements ChangeFeed.                                         *)

\* The dispatcher drains and returns only after the flow was cancelled.
EndInv ==
  /\ draining => cancel
  /\ up /\ dpc \in {"drain", "monitors", "exited"} => cancel

\* Only a spawn and a kill take the cancellation back.
LEMMA EndInvStep ==
  ASSUME TypeInv, Down, EndInv, [Next]_vars
  PROVE  EndInv'
<1>1. CASE UNCHANGED <<dpc, draining, up, cancel>>
  BY <1>1 DEF EndInv
<1>2. CASE TakeTrigger \/ SeeCancel \/ DispatchFails \/ DispatchSucceeds \/ EmitRunStarted
           \/ DrainEmpty \/ Exit
  BY <1>2 DEF EndInv, Down, TakeTrigger, SeeCancel, DispatchFails, DispatchSucceeds, EmitRunStarted,
     DrainEmpty, Exit, AfterTrigger, DispatchUnchanged, control, store
<1>3. CASE Cancel \/ Respawn \/ Boot \/ Die
  BY <1>3 DEF EndInv, Cancel, Respawn, Boot, Die, Spawn, Store!Stop, dispatching, store
<1>4. CASE WriterApplies \/ WriterAttempts \/ WriterPersists
  BY <1>4 DEF EndInv, WriterApplies, WriterAttempts, WriterPersists, Store!Step, Store!Attempt,
     StoreUnchanged, dispatching, control
<1>5. CASE PollStep \/ PollCancelled \/ Push \/ PublishManifest \/ Tick \/ ManualTrigger \/ UNCHANGED vars
  <2>1. UNCHANGED <<dispatching, cancel, store>>
    BY <1>5 DEF PollStep, Wake, FetchManifest, RepoNotListed, Resolve, PollFails, SendTrigger, TriggerChannelClosed,
       SendState, PollCancelled, PollUnchanged, Push, PublishManifest, Tick, ManualTrigger, vars, control
  <2> QED BY <1>1, <2>1 DEF dispatching, store
<1>6. CASE \E r \in 1 .. MaxRuns : MonitorDone(r) \/ MonitorGivesUp(r)
  BY <1>1, <1>6 DEF MonitorDone, MonitorGivesUp, DispatchUnchanged, control, store
<1> QED
  BY <1>2, <1>3, <1>4, <1>5, <1>6 DEF Next, DispatcherStep

\* Something can always be gone on from.
LEMMA KeptNonempty ==
  /\ Persisted(current).last_sha \in Kept /\ Persisted(view).last_sha \in Kept
  /\ Persisted(current).last_dispatched_at \in Stamps
  /\ Persisted(view).last_dispatched_at \in Stamps
  BY DEF Kept, Stamps, Readable

\* What may be gone on from depends on the store and the queue only.
LEMMA KeptSame ==
  ASSUME UNCHANGED <<store, stateq>>
  PROVE  Kept' = Kept /\ Stamps' = Stamps
  BY DEF Kept, Stamps, Readable, Persisted, store

\* An update that is queued adds what it says.
LEMMA KeptQueued ==
  ASSUME TypeInv, NEW u \in StateUpdate, stateq' = Append(stateq, u), UNCHANGED store
  PROVE  /\ u.type # "PollObservation" => Kept' = Kept /\ Stamps' = Stamps
         /\ u.type = "PollObservation" =>
              /\ Kept' = Kept \cup {u.last_sha}
              /\ Stamps' = IF u.last_dispatched_at = NULL THEN Stamps
                           ELSE Stamps \cup {u.last_dispatched_at}
<1>1. stateq \in Seq(StateUpdate)
  BY DEF TypeInv, TypeOK
<1>2. /\ DOMAIN stateq' = DOMAIN stateq \cup {Len(stateq) + 1} /\ Len(stateq) + 1 \notin DOMAIN stateq
      /\ \A i \in DOMAIN stateq : stateq'[i] = stateq[i]
      /\ stateq'[Len(stateq) + 1] = u
  BY <1>1, QueueSteps
<1>3. Readable' = Readable /\ \A st : Persisted(st)' = Persisted(st)
  BY DEF Readable, Persisted, store
<1> DEFINE O == {j \in DOMAIN stateq : stateq[j].type = "PollObservation"}
           F == {j \in DOMAIN stateq : /\ stateq[j].type = "PollObservation"
                                       /\ stateq[j].last_dispatched_at # NULL}
           n == Len(stateq) + 1
<1>4. CASE u.type # "PollObservation"
  <2>1. O' = O /\ F' = F
    BY <1>2, <1>4
  <2> QED BY <1>2, <1>3, <1>4, <2>1 DEF Kept, Stamps
<1>5. CASE u.type = "PollObservation"
  <2>1. O' = O \cup {n} /\ F' = IF u.last_dispatched_at = NULL THEN F ELSE F \cup {n}
    BY <1>2, <1>5
  <2>2. Kept' = Kept \cup {u.last_sha}
    BY <1>2, <1>3, <2>1 DEF Kept
  <2>3. Stamps' = IF u.last_dispatched_at = NULL THEN Stamps ELSE Stamps \cup {u.last_dispatched_at}
    BY <1>2, <1>3, <2>1 DEF Stamps
  <2> QED BY <1>5, <2>2, <2>3
<1> QED BY <1>4, <1>5

\* The writer and a kill only narrow it down.
LEMMA KeptNarrows ==
  ASSUME TypeInv, WriterApplies \/ WriterAttempts \/ WriterPersists \/ Die
  PROVE  Kept' \in (SUBSET Kept) \ {{}} /\ Stamps' \in (SUBSET Stamps) \ {{}}
<1> SUFFICES Kept' \subseteq Kept /\ Stamps' \subseteq Stamps
  <2>1. (Persisted(current).last_sha \in Kept)' /\ (Persisted(current).last_dispatched_at \in Stamps)'
    BY DEF Kept, Stamps, Readable
  <2> QED BY <2>1
<1>1. CASE WriterAttempts \/ WriterPersists
  <2>1. Readable' \subseteq Readable /\ UNCHANGED stateq
    BY <1>1 DEF WriterAttempts, WriterPersists, Store!Attempt, Readable
  <2> QED BY <2>1 DEF Kept, Stamps, Persisted
<1>2. CASE Die
  <2>1. Readable' \subseteq Readable /\ stateq' = << >>
    BY <1>2, Dies DEF Readable
  <2>2. DOMAIN stateq' = {}
    BY <2>1
  <2> QED BY <2>1, <2>2 DEF Kept, Stamps, Persisted
<1>3. CASE WriterApplies
  <2> DEFINE u == Head(stateq)
  <2>1. /\ stateq # << >> /\ u \in FlowUpdate /\ u \in StateUpdate
        /\ current' = Apply(current, u) /\ stateq' = Tail(stateq)
        /\ UNCHANGED <<stable, view>>
    BY <1>3, Writes
  <2>2. stateq \in Seq(StateUpdate) /\ current \in State /\ Persisted(current).last_dispatched_at \in Stamp
    BY DEF TypeInv, TypeOK, StampsTyped
  <2>3. /\ 1 \in DOMAIN stateq /\ stateq[1] = u
        /\ \A i \in DOMAIN stateq' : i + 1 \in DOMAIN stateq /\ stateq'[i] = stateq[i + 1]
    BY <2>1, <2>2, QueueSteps
  <2>4. /\ \A st \in Readable' : st \in Readable \/ st = Apply(current, u)
        /\ current \in Readable /\ \A st : Persisted(st)' = Persisted(st)
    BY <2>1 DEF Readable, Persisted
  <2>5. /\ Persisted(Apply(current, u)).last_sha \in Kept
        /\ Persisted(Apply(current, u)).last_dispatched_at \in Stamps
    <3>1. CASE u.type # "PollObservation"
      BY <2>1, <2>2, <2>4, <3>1, ApplyOwn DEF Kept, Stamps
    <3>2. CASE u.type = "PollObservation"
      <4>1. /\ Persisted(Apply(current, u)).last_sha = stateq[1].last_sha
            /\ Persisted(Apply(current, u)).last_dispatched_at =
                 IF stateq[1].last_dispatched_at # NULL THEN stateq[1].last_dispatched_at
                 ELSE Persisted(current).last_dispatched_at
        BY <2>1, <2>2, <2>3, <3>2, ApplyOwn DEF OrKeep
      <4> QED BY <2>3, <2>4, <3>2, <4>1 DEF Kept, Stamps
    <3> QED BY <3>1, <3>2
  <2>6. Kept' \subseteq Kept
    BY <2>3, <2>4, <2>5 DEF Kept
  <2>7. Stamps' \subseteq Stamps
    BY <2>3, <2>4, <2>5 DEF Stamps
  <2> QED BY <2>6, <2>7
<1> QED BY <1>1, <1>2, <1>3
\* What the steps of the poll task do to the observation in its hands.
LEMMA HandSteps ==
  ASSUME TypeInv
  PROVE  /\ UNCHANGED <<ppc, pending>> => UNCHANGED <<Stage, FoundSha, FoundAt>>
         /\ ppc \notin {"trigger", "send"} => Stage = "look" /\ FoundSha = NULL /\ FoundAt = NULL
         /\ ppc' \notin {"trigger", "send"} => Stage' = "look" /\ FoundSha' = NULL /\ FoundAt' = NULL
         /\ ppc = "trigger" => /\ Stage = "offer"
                               /\ FoundSha = pending.last_sha /\ FoundAt = pending.last_dispatched_at
         /\ ppc' = "trigger" => /\ Stage' = "offer"
                                /\ FoundSha' = pending'.last_sha
                                /\ FoundAt' = pending'.last_dispatched_at
         /\ ppc = "send" /\ pending.type = "PollObservation" =>
              /\ Stage = "remember"
              /\ FoundSha = pending.last_sha /\ FoundAt = pending.last_dispatched_at
         /\ ppc' = "send" /\ pending'.type = "PollObservation" =>
              /\ Stage' = "remember"
              /\ FoundSha' = pending'.last_sha /\ FoundAt' = pending'.last_dispatched_at
         /\ ppc = "send" /\ pending.type # "PollObservation" =>
              Stage = "look" /\ FoundSha = NULL /\ FoundAt = NULL
         /\ ppc' = "send" /\ pending'.type # "PollObservation" =>
              Stage' = "look" /\ FoundSha' = NULL /\ FoundAt' = NULL
  BY DEF Stage, FoundSha, FoundAt

\* A flow's life as ChangeFeed sees it.
LEMMA LifeSteps ==
  /\ UNCHANGED <<up, cancel>> => Life' = Life
  /\ Life \in {"down", "ending", "running"}
  /\ up => Life # "down"
  BY DEF Life

\* Whatever is cancelled, reloaded or killed, the flow's steps are steps of ChangeFeed.
THEOREM Refinement == Spec => ImplementsFeed
<1>1. Init => Feed!Init
  <2> SUFFICES ASSUME Init PROVE Feed!Init
    OBVIOUS
  <2>1. Kept = {NULL} /\ Stamps = {NULL}
    <3>1. Persisted(DefaultState).last_sha = NULL /\ Persisted(DefaultState).last_dispatched_at = NULL
      BY PipelineAssumption DEF DefaultState, Persisted, Entry, DefaultFlow
    <3>2. Readable = {DefaultState} /\ DOMAIN stateq = {}
      BY DEF Init, Readable
    <3> QED BY <3>1, <3>2 DEF Kept, Stamps
  <2> QED BY <2>1 DEF Init, Feed!Init, Stage, FoundSha, FoundAt, Life
<1>2. TypeInv /\ Down /\ EndInv /\ [Next]_vars => [Feed!Next]_(Feed!vars)
  <2> SUFFICES ASSUME TypeInv, Down, EndInv, [Next]_vars
               PROVE  Feed!Next \/ UNCHANGED Feed!vars
    OBVIOUS
  <2> USE DEF Feed!vars, Feed!hand, Feed!Look
  <2>1. CASE Quiet
    <3>0. /\ UNCHANGED <<Stage, FoundSha, FoundAt>> /\ Kept' = Kept /\ Stamps' = Stamps
          /\ UNCHANGED <<last_sha, last_dispatched_at, up>>
      BY <2>1, QuietSteps, KeptSame, HandSteps DEF polling, store
    <3>1. CASE Push \/ Tick
      <4>1. head' \in Shas \cup {NULL} /\ clock' \in {clock, clock + 1}
            /\ UNCHANGED <<cancel, trigq, attempted>>
        BY <3>1 DEF Push, Tick, TypeInv, TypeOK, Opt, control, history
      <4> QED BY <3>0, <4>1, LifeSteps DEF Feed!Next, Feed!Move
    <3>2. CASE PublishManifest \/ SeeCancel \/ DispatchFails \/ DispatchSucceeds \/ DrainEmpty
               \/ UNCHANGED vars \/ \E r \in 1 .. MaxRuns : MonitorGivesUp(r)
      <4>1. UNCHANGED <<head, clock, cancel, trigq, attempted>>
        BY <3>2 DEF PublishManifest, SeeCancel, DispatchFails, DispatchSucceeds, DrainEmpty,
           MonitorGivesUp, DispatchUnchanged, world, control, history, vars
      <4> QED BY <3>0, <4>1, LifeSteps
    <3>3. CASE TakeTrigger
      BY <3>0, <3>3, LifeSteps DEF TakeTrigger, DispatchUnchanged, world, control, Feed!Next, Feed!Try
    <3>4. CASE Exit
      <4>1. Life = "ending"
        BY <3>4 DEF Exit, EndInv, Down, Life
      <4> QED
        BY <3>0, <3>4, <4>1, LifeSteps DEF Exit, DispatchUnchanged, world, control, Feed!Next, Feed!Close
    <3>5. CASE ManualTrigger
      <4>1. Life = "running" /\ Persisted(view).last_sha \in Kept \ {NULL}
        BY <3>5, KeptNonempty DEF ManualTrigger, Life
      <4> QED
        BY <3>0, <3>5, <4>1, LifeSteps DEF ManualTrigger, world, history, Feed!Next, Feed!Repeat
    <3>6. CASE Cancel
      <4>1. Life = "running" /\ Life' = "ending"
        BY <3>6 DEF Cancel, Life, store
      <4> QED
        BY <3>0, <3>6, <4>1 DEF Cancel, world, history, Feed!Next, Feed!Cancel
    <3> QED BY <2>1, <3>1, <3>2, <3>3, <3>4, <3>5, <3>6 DEF Quiet
  <2>2. CASE PollQuiet
    <3>0. /\ Kept' = Kept /\ Stamps' = Stamps /\ Stage' = "look" /\ FoundSha' = NULL /\ FoundAt' = NULL
          /\ UNCHANGED <<last_sha, last_dispatched_at, up>>
      BY <2>2, PollQuietSteps, KeptSame, HandSteps DEF store
    <3>1. UNCHANGED <<head, clock, cancel, trigq, attempted>>
      BY <2>2 DEF PollQuiet, Wake, PollFails, PollCancelled, TriggerChannelClosed, PollUnchanged,
                  world, control
    <3>2. CASE ppc # "trigger"
      <4>1. Stage = "look" /\ FoundSha = NULL /\ FoundAt = NULL
        BY <2>2, <3>2, HandSteps DEF PollQuiet, Wake, PollFails, PollCancelled, TriggerChannelClosed
      <4> QED BY <3>0, <3>1, <4>1, LifeSteps
    <3>3. CASE ppc = "trigger"
      <4>1. Life = "ending"
        BY <2>2, <3>3 DEF PollQuiet, Wake, PollFails, PollCancelled, TriggerChannelClosed, EndInv, Down, Life
      <4>2. Stage = "offer"
        BY <3>3, HandSteps
      <4> QED BY <3>0, <3>1, <4>1, <4>2, LifeSteps DEF Feed!Next, Feed!Abandon
    <3> QED BY <3>2, <3>3
  <2>3. CASE FetchManifest \/ RepoNotListed
    <3>1. /\ Stage = "look" /\ FoundSha = NULL /\ FoundAt = NULL
          /\ Stage' = "look" /\ FoundSha' = NULL /\ FoundAt' = NULL
          /\ UNCHANGED <<head, clock, cancel, up, trigq, attempted, last_sha, last_dispatched_at,
                         store, stateq>>
      BY <2>3, HandSteps, OwnUpdates DEF FetchManifest, RepoNotListed, PollUnchanged, world, control, store
    <3> QED BY <3>1, KeptSame, LifeSteps
  <2>4. CASE Resolve
    <3>0. /\ Decide /\ Stage = "look" /\ FoundSha = NULL /\ FoundAt = NULL /\ up
          /\ UNCHANGED <<head, clock, cancel, up, trigq, attempted, last_sha, last_dispatched_at,
                         store, stateq>>
      BY <2>4, HandSteps DEF Resolve, PollUnchanged, world, control, store, Down
    <3>1. Kept' = Kept /\ Stamps' = Stamps /\ Life' = Life /\ Life # "down"
      BY <3>0, KeptSame, LifeSteps
    <3>2. head \in Opt(Shas) /\ clock \in Stamp /\ NULL \in Stamp /\ clock # NULL
      BY NullAssumption, Sizes DEF TypeInv, TypeOK, Stamp, Opt
    <3>3. CASE head = NULL
      BY <3>0, <3>1, <3>3, HandSteps DEF Decide
    <3>4. CASE head # NULL /\ ~IsChange(head)
      <4>1. Stage' = "remember" /\ FoundSha' = head /\ FoundAt' = NULL
        BY <3>0, <3>2, <3>4, OwnUpdates, HandSteps DEF Decide, Opt
      <4>2. last_sha \in {NULL, head}
        BY <3>4 DEF IsChange
      <4> QED BY <3>0, <3>1, <3>4, <4>1, <4>2 DEF Feed!Next, Feed!Find
    <3>5. CASE head # NULL /\ IsChange(head) /\ IsCooledDown(last_dispatched_at, clock)
      <4>1. Stage' = "offer" /\ FoundSha' = head /\ FoundAt' = clock
        BY <3>0, <3>2, <3>5, OwnUpdates, HandSteps DEF Decide, Opt
      <4>2. last_sha \notin {NULL, head}
        BY <3>5 DEF IsChange
      <4> QED BY <3>0, <3>1, <3>5, <4>1, <4>2 DEF Feed!Next, Feed!Find, IsCooledDown
    <3>6. CASE head # NULL /\ IsChange(head) /\ ~IsCooledDown(last_dispatched_at, clock)
      <4>1. Stage' = "look" /\ FoundSha' = NULL /\ FoundAt' = NULL
        BY <3>0, <3>6, OwnUpdates, HandSteps DEF Decide
      <4> QED BY <3>0, <3>1, <4>1
    <3> QED BY <3>3, <3>4, <3>5, <3>6
  <2>5. CASE SendTrigger
    <3>1. /\ pending.type = "PollObservation" /\ ppc = "trigger" /\ ppc' = "send" /\ pending' = pending
          /\ trigq' = Append(trigq, pending.last_sha)
          /\ UNCHANGED <<head, clock, cancel, up, attempted, last_sha, last_dispatched_at, store, stateq>>
      BY <2>5 DEF SendTrigger, TypeInv, PendingTyped, world, control, store
    <3>2. /\ Stage = "offer" /\ Stage' = "remember" /\ FoundSha = pending.last_sha
          /\ UNCHANGED <<FoundSha, FoundAt>>
      BY <3>1, HandSteps
    <3> QED BY <3>1, <3>2, KeptSame, LifeSteps DEF Feed!Next, Feed!Offer
  <2>6. CASE SendState
    <3>0. /\ Stage' = "look" /\ FoundSha' = NULL /\ FoundAt' = NULL /\ Life' = Life
          /\ UNCHANGED <<head, clock, trigq, attempted>>
      BY <2>6, PollUpdate, HandSteps, LifeSteps DEF SendState, PollUnchanged, world, control, store
    <3>1. CASE pending.type # "PollObservation"
      <4>1. Stage = "look" /\ FoundSha = NULL /\ FoundAt = NULL /\ UNCHANGED <<last_sha, last_dispatched_at>>
        BY <2>6, <3>1, PollUpdate, HandSteps DEF SendState
      <4>2. Kept' = Kept /\ Stamps' = Stamps
        BY <2>6, <3>1, PollUpdate, KeptQueued
      <4> QED BY <3>0, <4>1, <4>2
    <3>2. CASE pending.type = "PollObservation"
      <4>1. /\ ppc = "send" /\ last_sha' = pending.last_sha
            /\ last_dispatched_at' = OrKeep(pending.last_dispatched_at, last_dispatched_at)
            /\ Kept' = Kept \cup {pending.last_sha}
            /\ Stamps' = IF pending.last_dispatched_at = NULL THEN Stamps
                         ELSE Stamps \cup {pending.last_dispatched_at}
        BY <2>6, <3>2, PollUpdate, KeptQueued
      <4>2. Stage = "remember" /\ FoundSha = pending.last_sha /\ FoundAt = pending.last_dispatched_at
        BY <3>2, <4>1, HandSteps
      <4> QED BY <3>0, <4>1, <4>2 DEF Feed!Next, Feed!Remember, OrKeep
    <3> QED BY <3>1, <3>2
  <2>7. CASE EmitRunStarted \/ \E r \in 1 .. MaxRuns : MonitorDone(r)
    <3>1. Kept' = Kept /\ Stamps' = Stamps
      BY <2>7, RunUpdates, KeptQueued
    <3>2. UNCHANGED <<head, clock, cancel, up, trigq, attempted, polling>>
      BY <2>7 DEF EmitRunStarted, MonitorDone, DispatchUnchanged, world, control, store
    <3> QED BY <3>1, <3>2, HandSteps, LifeSteps DEF polling
  <2>8. CASE Respawn \/ Boot
    <3>1. /\ Stage = "look" /\ FoundSha = NULL /\ FoundAt = NULL
          /\ Stage' = "look" /\ FoundSha' = NULL /\ FoundAt' = NULL /\ Life # "running" /\ Life' = "running"
          /\ trigq' = << >> /\ UNCHANGED <<head, clock, attempted, stateq, current, stable, view>>
      BY <2>8, HandSteps DEF Respawn, Boot, Spawn, Store!Start, Down, Life, world, store, history
    <3>2. Kept' = Kept /\ Stamps' = Stamps
      BY <3>1 DEF Kept, Stamps, Readable, Persisted
    <3>3. last_sha' \in Kept /\ last_dispatched_at' \in Stamps
      BY <2>8, Spawns, KeptNonempty
    <3> QED BY <3>1, <3>2, <3>3 DEF Feed!Next, Feed!Resume
  <2>9. CASE Die
    <3>1. /\ Life # "down" /\ Life' = "down" /\ Stage' = "look" /\ FoundSha' = NULL /\ FoundAt' = NULL
          /\ trigq' = << >>
          /\ last_sha' = NULL /\ last_dispatched_at' = NULL /\ UNCHANGED <<head, clock, attempted>>
      BY <2>9, Dies, HandSteps DEF Die, Life, world, history
    <3> QED BY <2>9, <3>1, KeptNarrows DEF Feed!Next, Feed!Kill
  <2>10. CASE WriterApplies \/ WriterAttempts \/ WriterPersists
    <3>1. UNCHANGED <<head, clock, cancel, up, trigq, attempted, polling>>
      BY <2>10 DEF WriterApplies, WriterAttempts, WriterPersists, Store!Step, Store!Attempt,
         StoreUnchanged, world, control, history
    <3>2. UNCHANGED <<Stage, FoundSha, FoundAt, Life, last_sha, last_dispatched_at>>
      BY <3>1, HandSteps, LifeSteps DEF polling
    <3> QED BY <2>10, <3>1, <3>2, KeptNarrows DEF Feed!Next, Feed!Settle
  <2> QED
    BY <2>1, <2>2, <2>3, <2>4, <2>5, <2>6, <2>7, <2>8, <2>9, <2>10, NextCases
<1>3. Init => TypeInv /\ Down /\ EndInv
  BY TypeInvInit, DownInit DEF Init, EndInv
<1>4. TypeInv /\ Down /\ EndInv /\ [Next]_vars => (TypeInv /\ Down /\ EndInv)'
  BY TypeInvStep, DownStep, EndInvStep
<1> QED
  BY <1>1, <1>2, <1>3, <1>4, PTL DEF Spec, ImplementsFeed, Feed!Spec
=============================================================================
