---------------------------- MODULE FlowPipeline ----------------------------
(***************************************************************************)
(* One flow from the upstream ref to the workflow run: the poll task       *)
(* (src/flow/poll), the bounded trigger channel, the dispatcher task with  *)
(* its monitors (src/flow/dispatcher, src/flow/monitor.rs) and the state   *)
(* channel into the writer, over several generations of the two tasks      *)
(* (reload, shutdown) and several daemons (kill and restart).              *)
(*                                                                         *)
(* The writer is the abstract CrashSafeStore, which StateWriter implements.*)
(* Every await of the two tasks is a program point; what a task does       *)
(* between two awaits is one action.  `clock` is the wall clock in steps;  *)
(* it moves only while a cooldown window is open.                          *)
(***************************************************************************)
EXTENDS StateApply

CONSTANTS
  Flow,           \* the flow's name
  Strategy,       \* "LsRemote" (also GithubApi) or "Grokmirror"
  COOLDOWN,       \* effective_poll.cooldown, in clock steps
  TRIGGER_QUEUE,  \* capacity of the trigger channel (8 in the code)
  STATE_QUEUE,    \* capacity of the state channel (256 in the code)
  Base,           \* where the ref points at first
  RemoteFails,    \* whether fetches ever fail, or the mirror ever drops the repository
  MaxPushes, MaxRuns, MaxManual, MaxGenerations, MaxKills, MaxClock   \* bounds

ASSUME PipelineAssumption ==
  /\ Flow \in Flows
  /\ Base \in Shas
  /\ RemoteFails \in BOOLEAN
  /\ Strategy \in {"LsRemote", "Grokmirror"}
  /\ {COOLDOWN, MaxPushes, MaxRuns, MaxManual, MaxGenerations, MaxKills, MaxClock} \subseteq Nat
  /\ {TRIGGER_QUEUE, STATE_QUEUE} \subseteq Nat \ {0}
  /\ 0 .. MaxClock + COOLDOWN \subseteq Times
  /\ 1 .. MaxRuns \subseteq RunIds
  /\ NULL \notin 0 .. MaxPushes /\ NULL \notin {"poll", "dispatch"}

VARIABLES
  (* the world *)
  head,                \* the configured ref upstream, NULL when it does not exist
  pushes,              \* changes of the ref so far
  manifest,            \* the change the published grokmirror manifest reflects
  clock,
  (* the poll task *)
  ppc,
  last_sha, last_dispatched_at,
  last_error_cleared,
  fingerprint,         \* the manifest entry seen last, NULL before the first
  pending,             \* the state update being sent, NULL when there is none
  (* the dispatcher task *)
  dpc,
  draining,            \* the cancellation arm was taken
  monitors,            \* runs with a live monitor
  runs,                \* runs created so far
  (* shared by the tasks and the supervisor *)
  trigq, stateq,
  cancel,
  last_error,          \* the flow's entry of last_errors: NULL, "poll" or "dispatch"
  generations, kills, manual,
  (* the store *)
  up, current, stable, view,
  (* history *)
  offered,             \* shas the trigger channel accepted from the poll task
  baselined,           \* shas adopted as a first observation
  attempted            \* shas handed to handle_trigger

world == <<head, pushes, manifest, clock>>
polling == <<ppc, last_sha, last_dispatched_at, last_error_cleared, fingerprint, pending>>
dispatching == <<dpc, draining, monitors, runs>>
control == <<cancel, generations, kills, manual>>
store == <<up, current, stable, view>>
history == <<offered, baselined, attempted>>
vars == <<world, polling, dispatching, trigq, stateq, control, last_error, store, history>>

Updates == StateUpdate

Store == INSTANCE CrashSafeStore

PollPoints == {"sleep", "fetch", "resolve", "trigger", "send", "sendUnborn", "exited"}
DispatchPoints == {"select", "work", "started", "drain", "monitors", "exited"}

TypeOK ==
  /\ head \in Opt(Shas) /\ pushes \in 0 .. MaxPushes /\ manifest \in 0 .. pushes
  /\ clock \in 0 .. MaxClock
  /\ ppc \in PollPoints
  /\ last_sha \in Opt(Shas) /\ last_dispatched_at \in Opt(Times)
  /\ last_error_cleared \in BOOLEAN
  /\ fingerprint \in Opt(0 .. MaxPushes)
  /\ pending \in Opt(StateUpdate)
  /\ dpc \in DispatchPoints /\ draining \in BOOLEAN
  /\ monitors \subseteq 1 .. runs /\ runs \in 0 .. MaxRuns
  /\ trigq \in Seq(Shas) /\ Len(trigq) <= TRIGGER_QUEUE
  /\ stateq \in Seq(StateUpdate) /\ Len(stateq) <= STATE_QUEUE
  /\ cancel \in BOOLEAN /\ last_error \in {NULL, "poll", "dispatch"}
  /\ generations \in Nat /\ kills \in Nat /\ manual \in Nat
  /\ up \in BOOLEAN /\ current \in State /\ view \in State /\ stable \in SUBSET State
  /\ offered \subseteq Shas /\ baselined \subseteq Shas /\ attempted \subseteq Shas

-----------------------------------------------------------------------------
(* State updates.  last_poll_at is read by `gcit status` only: always 0.   *)

Observation(sha, at) ==
  [type |-> "PollObservation", flow |-> Flow, last_sha |-> sha, last_poll_at |-> 0,
   last_dispatched_at |-> at,
   cooldown_until |-> IF at = NULL THEN NULL ELSE at + COOLDOWN]

Timestamp == [type |-> "PollTimestamp", flow |-> Flow, last_poll_at |-> 0]

RunStarted(r) == [type |-> "RunStarted", flow |-> Flow, run_id |-> r, started_at |-> 0]

RunFinished(r, c) ==
  [type |-> "RunFinished", flow |-> Flow, run_id |-> r, conclusion |-> c, completed_at |-> 0]

\* is_cooled_down, for a clock that does not step back
IsCooledDown(t, now) == t = NULL \/ now - t >= COOLDOWN

\* Faulty variant: a first observation is a change.
IsChangeFromNothing(sha) == last_sha # sha

\* compare_sha: a first observation is a baseline, not a change
IsChange(sha) == last_sha # NULL /\ last_sha # sha

Persisted(st) == Entry(st, Flow)

-----------------------------------------------------------------------------
Init ==
  /\ head = Base /\ pushes = 0 /\ manifest = 0 /\ clock = 0
  /\ ppc = "sleep" /\ last_sha = NULL /\ last_dispatched_at = NULL
  /\ last_error_cleared = FALSE /\ fingerprint = NULL /\ pending = NULL
  /\ dpc = "select" /\ draining = FALSE /\ monitors = {} /\ runs = 0
  /\ trigq = << >> /\ stateq = << >>
  /\ cancel = FALSE /\ last_error = NULL
  /\ generations = 1 /\ kills = 0 /\ manual = 0
  /\ up = TRUE /\ current = DefaultState /\ stable = {DefaultState} /\ view = DefaultState
  /\ offered = {} /\ baselined = {} /\ attempted = {}

-----------------------------------------------------------------------------
(* The world.                                                              *)

\* The ref moves, is deleted or is created.
Push ==
  /\ pushes < MaxPushes
  /\ pushes' = pushes + 1
  /\ \E s \in Opt(Shas) \ {head} : head' = s
  /\ UNCHANGED <<manifest, clock, polling, dispatching, trigq, stateq, control,
                 last_error, store, history>>

\* The mirror's manifest follows the repository with a delay.
PublishManifest ==
  /\ Strategy = "Grokmirror"
  /\ manifest # pushes
  /\ manifest' = pushes
  /\ UNCHANGED <<head, pushes, clock, polling, dispatching, trigq, stateq, control,
                 last_error, store, history>>

Tick ==
  /\ clock < MaxClock
  /\ ~IsCooledDown(last_dispatched_at, clock)
  /\ clock' = clock + 1
  /\ UNCHANGED <<head, pushes, manifest, polling, dispatching, trigq, stateq, control,
                 last_error, store, history>>

-----------------------------------------------------------------------------
(* The poll task: run_with_executor.                                       *)

PollUnchanged(v) ==
  /\ UNCHANGED <<world, dispatching, control, store, offered, attempted>>
  /\ UNCHANGED v

\* The jittered sleep has passed and the rate bucket has let the task through.  A
\* task that starts to sleep or to fetch after the cancellation sees it first.
Wake ==
  /\ ppc = "sleep"
  /\ ~cancel
  /\ ppc' = "fetch"
  /\ PollUnchanged(<<last_sha, last_dispatched_at, last_error_cleared, fingerprint,
                     pending, trigq, stateq, last_error, baselined>>)

\* Faulty variant: a cancelled trigger send is taken for a successful one.
PollCancelledObserves ==
  /\ cancel
  /\ ppc \in {"sleep", "fetch", "resolve", "trigger"}
  /\ ppc' = IF ppc = "trigger" THEN "send" ELSE "exited"
  /\ PollUnchanged(<<last_sha, last_dispatched_at, last_error_cleared, fingerprint,
                     pending, trigq, stateq, last_error, baselined>>)

\* The cancellation arm of the select! around every await but the state sends.
PollCancelled ==
  /\ cancel
  /\ ppc \in {"sleep", "fetch", "resolve", "trigger"}
  /\ ppc' = "exited"
  /\ pending' = NULL
  /\ PollUnchanged(<<last_sha, last_dispatched_at, last_error_cleared, fingerprint,
                     trigq, stateq, last_error, baselined>>)

\* Faulty variant: the latch is not reset.
PollFailsLatched ==
  /\ RemoteFails
  /\ ppc \in {"fetch", "resolve"}
  /\ ppc' = "sleep"
  /\ last_error' = "poll"
  /\ PollUnchanged(<<last_sha, last_dispatched_at, last_error_cleared, fingerprint,
                     pending, trigq, stateq, baselined>>)

\* The network, the manifest or ls-remote fails: record_poll_failure.
PollFails ==
  /\ RemoteFails
  /\ ppc \in {"fetch", "resolve"}
  /\ ppc' = "sleep"
  /\ last_error' = "poll"
  /\ last_error_cleared' = FALSE
  /\ PollUnchanged(<<last_sha, last_dispatched_at, fingerprint, pending, trigq,
                     stateq, baselined>>)

\* poll_one, grokmirror: the fingerprint is remembered before ls-remote runs.
FetchManifest ==
  /\ Strategy = "Grokmirror"
  /\ ppc = "fetch"
  /\ fingerprint' = manifest
  /\ IF fingerprint = manifest
     THEN ppc' = "send" /\ pending' = Timestamp
     ELSE ppc' = "resolve" /\ UNCHANGED pending
  /\ PollUnchanged(<<last_sha, last_dispatched_at, last_error_cleared, trigq, stateq,
                     last_error, baselined>>)

\* The manifest does not list the repository (RepoNotInManifest): as good as an unborn
\* ref, and the fingerprint of an earlier manifest stays.
RepoNotListed ==
  /\ Strategy = "Grokmirror"
  /\ RemoteFails
  /\ ppc = "fetch"
  /\ ppc' = "sendUnborn" /\ pending' = Timestamp
  /\ PollUnchanged(<<last_sha, last_dispatched_at, last_error_cleared, fingerprint, trigq,
                     stateq, last_error, baselined>>)

\* Faulty variant: a suppressed change is recorded as seen.
DecideAdvances ==
  CASE head = NULL -> ppc' = "sendUnborn" /\ pending' = Timestamp
    [] head # NULL /\ IsChange(head) /\ IsCooledDown(last_dispatched_at, clock) ->
         ppc' = "trigger" /\ pending' = Observation(head, clock)
    [] OTHER -> ppc' = "send" /\ pending' = Observation(head, NULL)

\* handle_refreshed and handle_unborn_ref up to their first send
Decide ==
  CASE head = NULL -> ppc' = "sendUnborn" /\ pending' = Timestamp
    [] head # NULL /\ ~IsChange(head) ->
         ppc' = "send" /\ pending' = Observation(head, NULL)
    [] head # NULL /\ IsChange(head) /\ IsCooledDown(last_dispatched_at, clock) ->
         ppc' = "trigger" /\ pending' = Observation(head, clock)
    [] OTHER -> ppc' = "send" /\ pending' = Timestamp

\* The remote answers (ls_remote::poll, github_api::poll).
Resolve ==
  /\ ppc = IF Strategy = "Grokmirror" THEN "resolve" ELSE "fetch"
  /\ Decide
  /\ baselined' = baselined \cup (IF last_sha = NULL /\ head # NULL THEN {head} ELSE {})
  /\ PollUnchanged(<<last_sha, last_dispatched_at, last_error_cleared, fingerprint, trigq,
                     stateq, last_error>>)

\* send_trigger_then_observation: the trigger goes first.
SendTrigger ==
  /\ ppc = "trigger"
  /\ dpc # "exited"
  /\ Len(trigq) < TRIGGER_QUEUE
  /\ trigq' = Append(trigq, pending.last_sha)
  /\ offered' = offered \cup {pending.last_sha}
  /\ ppc' = "send"
  /\ UNCHANGED <<world, last_sha, last_dispatched_at, last_error_cleared, fingerprint, pending,
                 dispatching, stateq, control, last_error, store, baselined, attempted>>

\* The dispatcher is gone: the poll task returns without recording anything.
TriggerChannelClosed ==
  /\ ppc = "trigger"
  /\ dpc = "exited"
  /\ ppc' = "exited"
  /\ pending' = NULL
  /\ PollUnchanged(<<last_sha, last_dispatched_at, last_error_cleared, fingerprint,
                     trigq, stateq, last_error, baselined>>)

\* Faulty variant: the cooldown stamp stays in state.json only.
SendStateForgetsStamp ==
  /\ ppc \in {"send", "sendUnborn"}
  /\ Len(stateq) < STATE_QUEUE
  /\ stateq' = Append(stateq, pending)
  /\ pending' = NULL
  /\ ppc' = "sleep"
  /\ last_sha' = IF pending.type = "PollObservation" THEN pending.last_sha ELSE last_sha
  /\ last_error_cleared' = (ppc = "send")
  /\ last_error' = IF ppc = "sendUnborn" THEN "poll"
                   ELSE IF last_error_cleared THEN last_error ELSE NULL
  /\ PollUnchanged(<<last_dispatched_at, fingerprint, trigq, baselined>>)

\* The state send is not raced with cancel; then memory follows the update, and
\* maybe_clear_last_error or (for an unborn ref) record_last_error runs.
SendState ==
  /\ ppc \in {"send", "sendUnborn"}
  /\ Len(stateq) < STATE_QUEUE
  /\ stateq' = Append(stateq, pending)
  /\ pending' = NULL
  /\ ppc' = "sleep"
  /\ IF pending.type = "PollObservation"
     THEN /\ last_sha' = pending.last_sha
          /\ last_dispatched_at' = OrKeep(pending.last_dispatched_at, last_dispatched_at)
     ELSE UNCHANGED <<last_sha, last_dispatched_at>>
  /\ last_error_cleared' = (ppc = "send")
  /\ last_error' = IF ppc = "sendUnborn" THEN "poll"
                   ELSE IF last_error_cleared THEN last_error ELSE NULL
  /\ PollUnchanged(<<fingerprint, trigq, baselined>>)

-----------------------------------------------------------------------------
(* The dispatcher task: run_with_executor and handle_trigger.              *)

DispatchUnchanged(v) ==
  /\ UNCHANGED <<world, polling, control, store, offered, baselined>>
  /\ UNCHANGED v

AfterTrigger == IF draining THEN "drain" ELSE "select"

\* recv in the loop, or try_recv in drain_pending_triggers
TakeTrigger ==
  /\ dpc \in {"select", "drain"}
  /\ up
  /\ trigq # << >>
  /\ trigq' = Tail(trigq)
  /\ attempted' = attempted \cup {Head(trigq)}
  /\ dpc' = "work"
  /\ DispatchUnchanged(<<draining, monitors, runs, stateq, last_error>>)

SeeCancel ==
  /\ dpc = "select"
  /\ cancel
  /\ dpc' = "drain"
  /\ draining' = TRUE
  /\ DispatchUnchanged(<<monitors, runs, trigq, stateq, last_error, attempted>>)

\* Rendering, the dispatch or the correlation fails: record_last_error.
DispatchFails ==
  /\ dpc = "work"
  /\ dpc' = AfterTrigger
  /\ last_error' = "dispatch"
  /\ DispatchUnchanged(<<draining, monitors, runs, trigq, stateq, attempted>>)

\* Faulty variant: the monitor is spawned before RunStarted is queued.
DispatchSucceedsMonitored ==
  /\ dpc = "work"
  /\ runs < MaxRuns
  /\ runs' = runs + 1
  /\ monitors' = monitors \cup {runs'}
  /\ dpc' = "started"
  /\ DispatchUnchanged(<<draining, trigq, stateq, last_error, attempted>>)

\* The workflow was dispatched and its run found.
DispatchSucceeds ==
  /\ dpc = "work"
  /\ runs < MaxRuns
  /\ runs' = runs + 1
  /\ dpc' = "started"
  /\ DispatchUnchanged(<<draining, monitors, trigq, stateq, last_error, attempted>>)

\* emit_run_started, fan_out_run_start, spawn_run_monitor
EmitRunStarted ==
  /\ dpc = "started"
  /\ Len(stateq) < STATE_QUEUE
  /\ stateq' = Append(stateq, RunStarted(runs))
  /\ monitors' = monitors \cup {runs}
  /\ dpc' = AfterTrigger
  /\ DispatchUnchanged(<<draining, runs, trigq, last_error, attempted>>)

DrainEmpty ==
  /\ dpc = "drain"
  /\ trigq = << >>
  /\ dpc' = "monitors"
  /\ DispatchUnchanged(<<draining, monitors, runs, trigq, stateq, last_error, attempted>>)

\* Faulty variant: wait for every monitor, however long it takes.
ExitWaits ==
  /\ dpc = "monitors"
  /\ monitors = {}
  /\ dpc' = "exited"
  /\ trigq' = << >>
  /\ DispatchUnchanged(<<draining, monitors, runs, stateq, last_error, attempted>>)

\* drain_monitors_with_timeout: all joined, or 30 s have passed; returning drops
\* the JoinSet (which aborts what is left) and the receiver.
Exit ==
  /\ dpc = "monitors"
  /\ dpc' = "exited"
  /\ monitors' = {}
  /\ trigq' = << >>
  /\ DispatchUnchanged(<<draining, runs, stateq, last_error, attempted>>)

\* run_monitor_with_source: the run ended and its notifications were sent
MonitorDone(r) ==
  /\ r \in monitors
  /\ Len(stateq) < STATE_QUEUE
  /\ \E c \in Conclusions : stateq' = Append(stateq, RunFinished(r, c))
  /\ monitors' = monitors \ {r}
  /\ DispatchUnchanged(<<dpc, draining, runs, trigq, last_error, attempted>>)

\* The monitor failed for good, or was cancelled mid-run: no RunFinished.
MonitorGivesUp(r) ==
  /\ r \in monitors
  /\ monitors' = monitors \ {r}
  /\ DispatchUnchanged(<<dpc, draining, runs, trigq, stateq, last_error, attempted>>)

-----------------------------------------------------------------------------
(* The supervisor's side, reduced to what one flow sees of it.             *)

\* run_trigger: `gcit trigger` re-sends the last observed sha.
ManualTrigger ==
  /\ manual < MaxManual
  /\ up /\ ~cancel
  /\ Persisted(view).last_sha # NULL
  /\ Len(trigq) < TRIGGER_QUEUE
  /\ trigq' = Append(trigq, Persisted(view).last_sha)
  /\ manual' = manual + 1
  /\ UNCHANGED <<world, polling, dispatching, stateq, cancel, generations, kills,
                 last_error, store, history>>

\* A reload that changes or removes the flow, or a shutdown.
Cancel ==
  /\ up /\ ~cancel
  /\ cancel' = TRUE
  /\ UNCHANGED <<world, polling, dispatching, trigq, stateq, generations, kills, manual,
                 last_error, store, history>>

\* Faulty variant: a new task starts without the persisted cooldown.
SpawnWithoutStamp(st) ==
  /\ ppc' = "sleep"
  /\ last_sha' = Persisted(st).last_sha
  /\ last_dispatched_at' = NULL
  /\ last_error_cleared' = FALSE /\ fingerprint' = NULL /\ pending' = NULL
  /\ dpc' = "select" /\ draining' = FALSE /\ monitors' = {}
  /\ trigq' = << >>
  /\ cancel' = FALSE

\* spawn_flow: both tasks start from the mirror's entry of the flow.
Spawn(st) ==
  /\ ppc' = "sleep"
  /\ last_sha' = Persisted(st).last_sha
  /\ last_dispatched_at' = Persisted(st).last_dispatched_at
  /\ last_error_cleared' = FALSE /\ fingerprint' = NULL /\ pending' = NULL
  /\ dpc' = "select" /\ draining' = FALSE /\ monitors' = {}
  /\ trigq' = << >>
  /\ cancel' = FALSE

\* The reload has joined both tasks within its 30 s and starts the flow again, from the
\* same source.  Here a flow has one generation at a time: a drain that gives up and goes
\* on beside the old tasks, and the FlowRemoved of a changed URL, are in Supervisor.
Respawn ==
  /\ generations < MaxGenerations
  /\ up /\ cancel /\ ppc = "exited" /\ dpc = "exited"
  /\ generations' = generations + 1
  /\ Spawn(view)
  /\ UNCHANGED <<world, runs, stateq, kills, manual, last_error, store, history>>

\* The daemon ends: killed at any point, or after a shutdown's final write.
Die ==
  /\ up
  /\ kills < MaxKills
  /\ kills' = kills + 1
  /\ Store!Stop
  /\ ppc' = "exited" /\ dpc' = "exited" /\ monitors' = {}
  /\ last_sha' = NULL /\ last_dispatched_at' = NULL /\ last_error_cleared' = FALSE
  /\ fingerprint' = NULL /\ pending' = NULL
  /\ draining' = FALSE
  /\ trigq' = << >> /\ stateq' = << >> /\ last_error' = NULL /\ cancel' = FALSE
  /\ UNCHANGED <<world, runs, generations, manual, history>>

Boot ==
  /\ ~up
  /\ Store!Start
  /\ Spawn(view)
  /\ UNCHANGED <<world, runs, stateq, generations, kills, manual, last_error, history>>

-----------------------------------------------------------------------------
(* The writer, as CrashSafeStore.                                          *)

StoreUnchanged == UNCHANGED <<world, polling, dispatching, trigq, control, last_error, history>>

WriterApplies ==
  /\ stateq # << >>
  /\ Store!Step(Head(stateq))
  /\ stateq' = Tail(stateq)
  /\ StoreUnchanged

\* A write that fails after the rename, or is still to be synced.
WriterAttempts ==
  /\ current \notin stable
  /\ Store!Attempt
  /\ StoreUnchanged /\ UNCHANGED stateq

\* Store!Acknowledge and Store!Show in one: no flow can tell them apart.
WriterPersists ==
  /\ up
  /\ stable # {current} \/ view # current
  /\ stable' = {current}
  /\ view' = current
  /\ StoreUnchanged /\ UNCHANGED <<stateq, up, current>>

-----------------------------------------------------------------------------
PollStep == Wake \/ FetchManifest \/ RepoNotListed \/ Resolve \/ PollFails \/ SendTrigger
            \/ TriggerChannelClosed \/ SendState

DispatcherStep == TakeTrigger \/ SeeCancel \/ DispatchFails \/ DispatchSucceeds
                  \/ EmitRunStarted \/ DrainEmpty \/ Exit

Next ==
  \/ Push \/ PublishManifest \/ Tick
  \/ PollStep \/ PollCancelled
  \/ DispatcherStep
  \/ \E r \in 1 .. MaxRuns : MonitorDone(r) \/ MonitorGivesUp(r)
  \/ ManualTrigger \/ Cancel \/ Respawn \/ Die \/ Boot
  \/ WriterApplies \/ WriterAttempts \/ WriterPersists

\* Tasks and the writer run while they can; execute() returns (ExecuteEnds of
\* GithubDispatch says when); outages of the remote end; time passes; the mirror's
\* manifest is published.  Monitors owe nothing.
Fairness ==
  /\ WF_vars(PollStep) /\ SF_vars(FetchManifest) /\ SF_vars(Resolve) /\ WF_vars(PollCancelled)
  /\ WF_vars(DispatcherStep)
  /\ WF_vars(WriterApplies)
  /\ WF_vars(Tick) /\ WF_vars(PublishManifest)

Spec == Init /\ [][Next]_vars /\ Fairness

-----------------------------------------------------------------------------
(* Properties.                                                             *)

\* Trigger first, observation second (send_trigger_then_observation): whatever is
\* cancelled, killed or lost in between, no state the daemon holds, shows or could
\* reload has moved past a change that the trigger channel did not accept.
ObservedMeansOffered ==
  \A st \in stable \cup {current, view} :
    Persisted(st).last_sha \in offered \cup baselined \cup {NULL}

\* The poll loop's memory and state.json stay in sync (send_trigger_then_observation):
\* what it compares the next observation with is what its newest queued update says,
\* or the state itself once the writer has caught up, also in a daemon restarted after
\* a crash.
MemoryMatchesState ==
  up /\ generations = 1 =>
    LET seen == {i \in DOMAIN stateq : stateq[i].type = "PollObservation"}
        fired == {i \in seen : stateq[i].last_dispatched_at # NULL}
        Last(i, I) == i \in I /\ \A j \in I : j <= i
    IN /\ seen = {} => last_sha = Persisted(current).last_sha
       /\ \A i \in seen : Last(i, seen) => last_sha = stateq[i].last_sha
       /\ fired = {} => last_dispatched_at = Persisted(current).last_dispatched_at
       /\ \A i \in fired : Last(i, fired) => last_dispatched_at = stateq[i].last_dispatched_at

\* The cooldown that state.json shows is honoured: while the poll task is about to
\* fire, no dispatch that `gcit status` can see is younger than the cooldown.  It
\* survives a crash because the stamp is persisted (is_cooled_down, spawn_flow).  A
\* reload seeds the flow from a mirror that may lag behind, so it is left out.
CooldownHonoured ==
  generations = 1 /\ ppc = "trigger" =>
    IsCooledDown(Persisted(view).last_dispatched_at, pending.last_dispatched_at)

\* The latch never hides a poll failure's recovery: while `gcit status` shows
\* git_poll_failed the next good cycle will clear it (record_poll_failure,
\* maybe_clear_last_error), whatever the dispatcher records in between.
PollErrorIsClearable == last_error = "poll" => ~last_error_cleared

\* A finished run is never forgotten: RunFinished reaches the writer after the run's
\* RunStarted (emit_run_started precedes spawn_run_monitor, the channel is FIFO), so
\* apply_run_finished, which ignores runs it does not know, finds it.
FinishedRunIsKnown ==
  stateq # << >> /\ Head(stateq).type = "RunFinished" =>
    HasRun(Persisted(current).active_runs, Head(stateq).run_id)

\* The observation in the poll task's hands, as ChangeFeed sees it.
Stage ==
  CASE ppc = "trigger" -> "offer"
    [] ppc = "send" /\ pending.type = "PollObservation" -> "remember"
    [] OTHER -> "look"
FoundSha == IF Stage = "look" THEN NULL ELSE pending.last_sha
FoundAt == IF Stage = "look" THEN NULL ELSE pending.last_dispatched_at

\* What a reload, a restart or `gcit trigger` may read, now or once the queued updates
\* are applied.
Readable == stable \cup {current, view}
Kept ==
  {Persisted(st).last_sha : st \in Readable}
  \cup {stateq[i].last_sha : i \in {j \in DOMAIN stateq : stateq[j].type = "PollObservation"}}
Stamps ==
  {Persisted(st).last_dispatched_at : st \in Readable}
  \cup {stateq[i].last_dispatched_at :
           i \in {j \in DOMAIN stateq : /\ stateq[j].type = "PollObservation"
                                       /\ stateq[j].last_dispatched_at # NULL}}

Life == IF ~up THEN "down" ELSE IF cancel THEN "ending" ELSE "running"

Feed == INSTANCE ChangeFeed WITH
  ref <- head, time <- clock, life <- Life, known <- last_sha, fired <- last_dispatched_at,
  stage <- Stage, found <- FoundSha, at <- FoundAt,
  queue <- trigq, tried <- attempted, kept <- Kept, stamps <- Stamps

\* The two tasks, their channels and the writer implement ChangeFeed, whatever is
\* cancelled, reloaded or killed: a change is what the ref showed, is offered once and
\* then remembered, waits for the cooldown, is tried in order and is dropped only by a
\* cancellation or a kill (handle_refreshed, send_trigger_then_observation, spawn_flow,
\* drain_pending_triggers).
ImplementsFeed == Feed!Spec

\* A change of the ref that lasts is dispatched (or was the first observation), and
\* stays the baseline: cooldown, failing polls and a full queue only delay it
\* (handle_refreshed; polling.md, Cooldown).  A flow that is not cancelled or killed.
ChangeIsDispatched ==
  \A s \in Shas :
    (<>[](head = s)) /\ [](~cancel /\ kills = 0)
      => <>[](last_sha = s /\ s \in attempted \cup baselined)

\* A cancelled flow ends: both tasks return, also when the trigger queue is full, a
\* monitor is stuck or the state queue has to drain first (drain_pending_triggers,
\* drain_monitors_with_timeout, send_trigger_then_observation).
CancelledFlowEnds == cancel ~> (ppc = "exited" /\ dpc = "exited")

\* dispatcher/loop_.rs: pending triggers are drained on cancel "so they aren't lost
\* forever (state.json already advanced [...])".
AcceptedIsAttempted ==
  up /\ ppc = "exited" /\ dpc = "exited" => offered \subseteq attempted
=============================================================================
