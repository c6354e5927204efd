# gcit: a TLA+ model, its checks and its proofs

gcit is a daemon that polls git refs, dispatches a GitHub Actions workflow when a
ref moves, follows the run and notifies people. This directory models the daemon, its
control socket, its start-up, `gcit check`, `gcit install` and `gcit uninstall` in TLA+,
checks the models with TLC on small instances and proves their safety properties with TLAPS
for every value of the constants. Paths such as `flow/poll/send.rs` are relative to the crate's `src/` directory.

## 1. The system

| component | state | operations | talks to |
|---|---|---|---|
| state model (`state/apply.rs`) | per flow: last sha, poll/dispatch stamps, active and notified runs | `apply` of five update kinds | called by the writer |
| state writer (`state/writer.rs`, `util.rs`, `state/mod.rs`) | state in memory, `dirty`, `state.json`, the mirror | drain a batch, apply, `atomic_write`, update the mirror, final write, load | bounded channel from every flow and the supervisor; mirror read by status and `spawn_flow` |
| poll task (`flow/poll`) | last sha, cooldown stamp, error latch, grokmirror fingerprint | sleep, fetch, compare, trigger, persist | git remote, trigger channel, state channel, `last_errors` |
| git transports (`git/`) | cached fingerprint | GitHub refs API, manifest, ls-remote | git hosts, behind the rate bucket |
| rate bucket (`git/rate_bucket.rs`) | last reserved slot | acquire | shared by flows of a host or a credential |
| dispatcher task (`flow/dispatcher`) | monitors in flight | take a trigger, dispatch and correlate, start a monitor, drain on cancel | GitHub client, state channel |
| GitHub client (`github/`) | rate-limit snapshot and its poller | dispatch with retry, correlation, error classes | GitHub |
| run monitor (`flow/monitor.rs`, `github/monitor.rs`) | jobs already announced | follow the run, fan out, `RunFinished` | GitHub, notifiers, state channel |
| notifiers (`discord/`, `mail/`) | spool file and its lock | run and job completion | Discord, mbox spool shared with a delivery agent |
| supervisor (`flow/supervisor`) | registry (`handles`, `respawning_flows`, `pending_exits`), JoinSet, configuration | spawn, reload, exits and panics, respawn, control commands, shutdown | cancels and joins the tasks; reads the mirror |
| credential pool (`supervisor/credentials.rs`, `config/credential_file.rs`) | cached secrets, one client, bucket and poller per credential, read permits | acquire, read with a deadline, invalidate | files, environment, supervisor |
| control socket (`control/`, `supervisor/control`) | connections, reload gate, command queue | status, trigger, reload | CLI clients, supervisor |
| instance lock and boot (`supervisor/run.rs`, `state/mod.rs`) | `gcit.lock`, the socket file | load, lock, spawn, bind, announce | systemd, other daemons |
| configuration (`config/`, `cli/check.rs`) | none | parse, validate, resolve credentials | files |
| installer (`cli/install.rs`, `cli/uninstall.rs`) | units, configuration, manifest, account | install, uninstall | operator, systemd |
| command line, logging | none | parse arguments, print | - |

What is hard here: every task has cancellation points at its awaits but not at the
state send; a change is first offered to the dispatcher and then persisted, with a
crash possible in between; the mirror lags behind the channel; a reload cancels,
drains with a limit and respawns while old tasks may still run; panics are respawned
after a delay during which the configuration can change; the writer must survive
failing writes, kills and power loss; a POST may be accepted though its answer is lost;
GitHub's run list shifts while it is read; a blocking mail helper outlives the caller that
gave up on it; the supervisor runs control commands one at a time and may wait for a
dispatcher meanwhile; install and uninstall can stop between any two files. `PROJECT.json`
lists these hazards at their lines, each with the properties that would catch it.

## 2. Modules

| module | models | extends / uses |
|---|---|---|
| `StateApply` | `State`, `StateUpdate`, `apply` as pure operators | |
| `CrashSafeStore` | abstract specification of what the writer promises | |
| `StateWriter` | `run_mirrored`, `atomic_write`, `load_or_init`, the channel, kills, power loss | `StateApply`; implements `CrashSafeStore` |
| `ChangeFeed` | abstract specification of what a flow promises about changes of its ref | |
| `FlowPipeline` | one flow end to end: ref, poll task, trigger channel, dispatcher, monitors, reload/shutdown/kill | `StateApply`, `CrashSafeStore` as its store; implements `ChangeFeed` |
| `Supervisor` | registry, JoinSet, reload, drain, panic respawn, shutdown | |
| `GithubErrors` | error kinds and classes, retry policy, rate-limit snapshot, conclusions | |
| `GithubDispatch` | one `execute()`: retry loop, correlation, rate-limit poller, GitHub | `GithubErrors` |
| `MailSpool` | local mail notifiers, their helper threads, the lock, a delivery agent | |
| `RunMonitor` | a run from RunStarted to RunFinished: poller, event channel, fan-out, webhooks | `MailSpool`, `GithubErrors` |
| `CredentialPool` | secrets, shared GitHub resources, slow reads, reloads, token rotation | |
| `ConfigRules` | validation, cadence, `gcit check`, what the daemon demands of an accepted file | `CredentialPool` (its places and resolution) |
| `RateBucket` | slot reservation, late wake-ups, dropped waiters | |
| `SourcePoll` | the poll cycle on the wire side: gate, three transports, fingerprints, errors | `RateBucket` |
| `MessageText` | mbox records and Discord embeds, as algorithms | |
| `ControlPlane` | clients, connections, command queue, the supervisor's loop, shutdown | |
| `DaemonBoot` | `gcit run` processes: configuration, lock, state, flows, socket | |
| `Install` | `gcit install` and `gcit uninstall`, file by file | |
| `Deployment` | the machine on which both happen | `Install`, `DaemonBoot` |
| `StateApplyProofs`, `StateWriterProofs`, `FlowPipelineProofs`, `SupervisorProofs`, `GithubDispatchProofs`, `RunMonitorProofs`, `ControlPlaneProofs` | lemmas and theorems | the module of that name; `RunMonitorProofs` also `MessageText` |
| `DeploymentProofs` | lemmas and theorems about a machine: its daemons, installer, configuration, credentials and sources | `Deployment`, `ConfigRules`, `SourcePoll` |
| `MC...` | small instances for TLC | |

Operators whose comment says "Faulty variant" are used by no specification: each is a
plausible mistake in the operator that follows it, kept to show that the properties would
notice it.

### StateApply and StateWriter
State is a function from flows to an entry or NULL; `Apply` is a CASE over the update
kinds, one operator per `apply_*` method. The writer's program counter names the
stages of `run_mirrored` and, inside a write, those of `atomic_write` (`write`, `sync`,
`rename`, `dirsync`); each can fail (`WriteFails`), be killed (`ProcessEnds`) or lose
power. `disk` is what the file system shows, `images` what a power loss may leave: the
rename is certain only after the directory sync, and renaming data that was not synced
would add an unreadable image. `load_or_init` refuses an unreadable file; only the
operator removes it.

### CrashSafeStore
Current state, states a restart may find, and the view readers see. A restart finds a
state the updates produced and nothing older than the last acknowledged write; the
view moves only to a state that no crash can take back.

### FlowPipeline
Program points are the awaits of the poll task (`sleep`, `fetch`, `resolve` for
ls-remote behind grokmirror, `trigger`, `send`, `sendUnborn`) and of the dispatcher
(`select`, `work`, `started`, `drain`, `monitors`). What lies between two awaits is one
action. The writer is `CrashSafeStore`, with acknowledge and show merged. Two
outcomes of the dispatcher's call to GitHub are kept, failure or a run found: what leads to them is
`GithubDispatch`. `clock` moves only while a
cooldown is open. A new generation starts from the mirror as in `spawn_flow`, and only after the old one has
ended: the module follows one generation at a time. Generations that overlap because a drain gave up after 30 s, and the
FlowRemoved of a changed URL with the mirror's lag behind it, are in `Supervisor`, and what the overlap does to
the shared clients is in `CredentialPool`. Closing
of the state channel under a live task is left out: the writer outlives the tasks.

### ChangeFeed
The same flow without tasks, state channel and writer. A change is what the ref showed when it was compared with the sha the flow
knows; the first sha ever seen is only remembered. A change is offered once and then remembered, and two
offers are a cooldown apart. What was accepted is tried in order and is dropped only once the flow is cancelled or the daemon
killed. `kept` and `stamps` are what a later generation may go on from: everything remembered, until the writer narrows it
down. `FlowPipeline` implements it with `Stage`, `FoundSha` and `FoundAt` read off the poll task's program point and pending update, and
`Kept` and `Stamps` read off the states a restart may find, the mirror and the observations still in the state channel.

### Supervisor
A generation is one `spawn_flow`: a cancellation token and two tasks which run, return
or panic. Each handler of the main loop is one action; `run_reload` is split at its
awaits (drain, FlowRemoved sends, configuration switch, one spawn per flow).
`respawning` and `pending` are the registry's fields, `timers` the sleeping or queued
respawn requests. A configuration gives each flow a URL, `enabled` and a revision that
stands for every other field `flow_config_unchanged` compares. What the writer keeps of
a flow is reduced to the URL its last observation came from.

### GithubErrors and GithubDispatch
Program points of `execute()` are the awaits of `dispatch_with_retry` (`should_defer` gate, bucket,
POST, back-off sleep) and of `correlate` (loop head, one request per page by name, then by head
sha, sleep). A POST is accepted, refused with any class of answer, or lost after GitHub did or did
not accept it. Reading the body of a refusal is a step of its own (`ClassifyAnswer`), which the code puts outside its
time-out; a 429 may come while there is quota. The head-sha scan turns the pages of the listing that GitHub
filters by commit. The snapshot is shared with the `/rate_limit` poller. Times are relative: a sleep
or a reset is the number of ticks left. Other people's runs are listed while gcit turns pages,
so a run can move from one page to the next. `hist` remembers what the properties are about
(failures, accepted posts, the announced reset) and no action reads it. The matches of a scan are
a set of page, index and run: only how many there are, and which one if it is alone, matters.

### MailSpool and RunMonitor
The caller's points are those of the two `select!`s in `on_run_complete_inner` (before the lock:
phase channel, cancellation, deadline; after it: the helper's result), the helper's those of
`write_with_lock`. The helper cannot be cancelled and may fail at each step with any class of io::Error, half way
through a record included. `RunMonitor` runs `monitor_run` (the run, then its jobs page by page with the limits on pages and jobs, one event per poll,
through a bounded channel) beside `run_monitor_with_source` (receive, fan out, RunFinished). GitHub
may add a job to the head of the listing between two pages, and re-run the run while it is watched; an entry that is listed twice stays
twice in the event. `told` remembers, per job and event, how often it was fanned out and whether the listing stood still. The dispatcher may drop the monitor at any await.

### CredentialPool and ConfigRules
An entry of the pool is the client, the bucket and the poller of a credential. `spawn_flow` acquires
step by step (permit, read, deadline, cache, build); a read that outlives its deadline keeps its
permit. `invalidate_except` runs at a reload with the ids of the kept flows, before the drain, which joins the cancelled tasks or gives up
(`DrainJoins`, `DrainEnds`); `unlisted` holds the generations that run on without a handle, which later exits and respawns meet. A file
that passes the probe may still be unreadable. `ConfigRules` takes a
file as records of raw fields, with a few classes of values per field, and gives the errors `config::load`
collects as pairs of position and field, the exit of `gcit check`, and `trouble`: what spawning,
polling, dispatching and notifying refuse in an accepted file.

### RateBucket and SourcePoll
`acquire` reserves a slot and sleeps outside the lock; the sleeper may be dropped, or wakes late and then
corrects the slot. `SourcePoll` runs the poll cycle of several flows over shared buckets. A remote ref is
a commit, an annotated tag before it or not, symbolic or not, absent or unborn; each transport turns it
into the sha the flow compares, or into an error of its class. What the flow does with the sha is `FlowPipeline`.

### MessageText
A line is blank, or the number of `>` before it and whether `From ` follows, which is all that mbox quoting
looks at. `ReadSpool` is the reader it is checked against: a record starts at a `From ` line, its body at the first blank line, and
the k-th start is the one with k starts up to it. Of an embed's texts the size of every code point in bytes is kept, and of each field the set of jobs it tells of; `Post` asks the
validator, which counts bytes (`Validates`, external), and then compares the total in code points. `Validates` may also refuse empty field
texts, as some versions of the library do.

### ControlPlane
One server task per connection (read with a timeout, reload gate, send to the command queue, wait for the
reply), the supervisor's loop with its `select!` arms, `run_trigger` waiting for room in the trigger
queue, SIGHUP, a dispatcher that dies and comes back, and the order of the shutdown: cancel, drain the
flows, wait for the server, exit. A kill and a second start follow from any point. `send_response` has no time-out in the
code; that clients read their answers is assumed, in the fairness only.

### DaemonBoot, Install and Deployment
A process goes through `run_with_factories` in its order and may fail or be killed after each step;
a failing one has dropped the lock while its writer thread still runs (`failing`). `Install` writes
one file per step and the manifest last, and removes by the manifest. Contents are the revision
they were rendered from, or an edit. An uninstall may be unable to examine a file (`Path::exists` takes a stat error for absence): its
digest is not compared and its entry is passed over. `unseen` are the files of which the comparison knew nothing: edited since, or hidden from it. `Deployment` lets a daemon come up only on a configuration that is there.

## 3. Runs

| run | instance | checks | result |
|---|---|---|---|
| `state_writer` | 1 flow, 2 runs, 4 updates, queue and batch 2, history 1 | well-formed state, exact `dirty`, readable file, durable mirror, refinement of `CrashSafeStore`, the writer ends | holds, 0.3 M states |
| `pipeline_crash` | ls-remote, 2 shas and deletion, 2 moves, 1 kill, 1 manual trigger, queues 1, cooldown 1 | no observation without an offer, memory = state.json, cooldown across restart, error latch, refinement of `ChangeFeed` | holds, 0.7 M states |
| `pipeline_reload` | grokmirror, 2 generations, 1 run | RunFinished finds its run; a cancelled flow ends | holds, 0.5 M states |
| `pipeline_live` | ls-remote, 3 shas, failing polls | a lasting change is dispatched | holds, 0.15 M states |
| `supervisor` | 2 flows (edit, URL change, disable, remove, add), 3 generations, 1 reload, 1 panic, drain timeouts | registry agrees with the tasks, shutdown ends | holds, 0.4 M states |
| `github_dispatch` | 1 retry, 3 runs, pages of 1, 2 pages, resets up to 2 ticks, deadlines 2 and 1 | the retry budget; no POST before an announced reset; two runs only after a lost answer; a correlated run is one that was listed and could be the dispatch's own, although the pages shift; no scan after the drain deadline; `execute` returns | holds, 1.0 M states |
| `run_notify` | 1 mailer, 1 webhook, a delivery agent, event queue 1, 1 job, 1 re-run | whole records in the spool and true results, a completed run is finished, a cancelled monitor ends | holds, 0.14 M states |
| `run_jobs` | 1 webhook, 2 jobs and a late one per attempt, pages of 1, cap 2, 1 re-run | a job is told of by one event, once if the listing stood still, RunFinished after every notifier | holds, 2.9 M states |
| `control` | 2 clients, command and trigger queue 1, reload window 1, 2 starts | an answer says what happened; a command is answered; idle clients do not delay a shutdown | holds, 129 k states |
| `shutdown_hangs` | the same | the connections' drain is bounded | violated |
| `deployment` | 2 processes, 2 files, 2 revisions, 3 commands, 1 edit | one daemon works on the state and is the one clients reach; edits survive; leftovers stay listed; `userdel` only for gcit's own account | holds, 3.5 M states (the two processes are symmetric) |
| `configuration` | 2 flows, 2 credentials, 1 permit; interval 2, lateness 1; files of up to 2 flows, every place of a credential; bodies of up to 2 lines | one live, polled entry per credential, fresh after a rotation; `gcit check` predicts the daemon; an accepted file fails at run time for six reasons only; slots spaced, shas comparable, fingerprints resolved; the spool reads back and an embed accounts for every job | holds, 2.6 M states |

`configuration` holds five parts that share no variable; `part`, chosen initially, says which of them moves, so
their states add up instead of multiplying.

### Bounds
Queue capacities and the batch limit are 1 or 2: blocking, back-pressure and a batch of several
updates happen at these sizes, and nothing but the limits depends on them. Two runs and a
history of one reach duplicate, unknown and evicted runs. Two moves of the ref reach
a change, a second change inside the cooldown, and a return to an earlier sha. Three
generations are an old pair, its successor and the pair of another flow; one panic can fall before, during and
after a reload or its drain. That both flows are enabled at once, and that both siblings of a pair panic, is left to
the proofs, which hold for any flows, configurations and panics. RESPAWN_MAX_ATTEMPTS is 1
where only its exhaustion matters. U8 is 256 as in the code; the overflow needs 128 restarts and
is listed as a hazard. Pages of one run let a foreign run push gcit's own to the next page
between two requests, and a third run lets that happen beside a listed run of somebody else; a late job does the same to the job listing, whose cap of two ends
it in the middle; a reset of two ticks outlasts the back-off of one. Two clients fill
a queue of one and wait behind it. Three commands are an install, one that fails
half way, and the one that cleans up; one edit can fall before, between and after their steps. With one
permit a single slow read exhausts them. Field limits of 1 to 3, a total of 8 and texts
that are empty, of two and of four code points make every truncation, both sums and both refusals happen.

### Deadlock
`state_writer` checks deadlock. The others do not: after a shutdown, an end of the run, or with the bounds
used up these systems rightly stop. Waiting that must end is stated as liveness instead.

### Fairness
* The writer is an OS thread and runs whenever it can.
* Poll and dispatcher tasks, and the supervisor, are tokio tasks that run when
  ready. `Resolve` and `FetchManifest` are strongly fair: a remote that answers again
  and again is not unlucky for ever. `work` ends because `execute` returns, under the premises of `ExecuteEnds`.
* A cancelled task returns, because its waits are raced with the token or bounded;
  an uncancelled one owes nothing. In `FlowPipeline` monitors owe nothing: only the 30 s limit ends the drain.
* `GithubDispatch`: weak fairness of the retry loop, of the correlation and of time, whose waits and requests are bounded
  by time-outs. `ClassifyAnswer` has none: the body of a refusal is read outside the time-out. `ExecuteEnds` says that the correlation
  always ends, and that the retries end if the bodies arrive, quota comes back for good and GitHub stops answering
  RateLimited (a 429 with quota left included): the code waits as often as it is told to, outside its budget.
* `RunMonitor`: weak fairness of the two tasks, the callers, the helpers and the webhooks; strong fairness of
  requests that can succeed again and again, of every page of the jobs by itself, and of a cancellation that a `select!` meets again and again.
  The delivery agent may keep the lock for ever.
* `ControlPlane`: strong fairness of each connection and of the supervisor's arms, since `select!` picks
  at random and a bounded tokio channel serves its senders in order; weak fairness of the dispatcher. An answer is taken: the client of a
  connection reads, which `send_response` does not enforce.
* Manual triggers, reloads, shutdowns, pushes, panics, crashes, clients and operators are never forced.

### Claims the code does not keep
Each is a named definition that quotes the comment or the book; `PROJECT.json` has both sides under
"findings". The first is a run of its own (`shutdown_hangs`). The others are re-checked by putting the definition
into the configuration named here, in place of its properties; TLC refutes each within a minute.

| definition | configuration | what happens |
|---|---|---|
| `ShutdownCompletes` (`ControlPlane`) | `ShutdownHangs` | a command queued when the loop ends is neither answered nor refused, and the shutdown waits for its connection |
| `FailedWriteLeavesDestination` | `StateWriter` | `atomic_write` can fail after the rename |
| `ChangeIsDispatched` | `PipelineLive` with `Strategy = "Grokmirror"`, `RemoteFails = FALSE` | the fingerprint is stored in the cycle whose change the cooldown suppresses; the change waits for the next push |
| `AcceptedIsAttempted` | `PipelineCrash` | a trigger accepted after the drain saw an empty queue is dropped although its observation is persisted |
| `EnabledFlowRuns` | `Supervisor` with `Configs <- KeptFlowConfigs`, `RESPAWN_MAX_ATTEMPTS = 30`, `DrainTimesOut = FALSE` | a kept flow that panics during a reload drain is joined there and not respawned |
| `LiveFlowHasHandle` | `Supervisor` with `MaxPanics = 0` | a late exit of an old generation removes the handle of the new one |
| `NewSourceStartsFresh` | `Supervisor` | a URL change restarts the flow from the mirror before FlowRemoved is applied; the same lag lets `CooldownHonoured` fail across a reload (not across a restart) |
| `FileHasOneWriter` | `Deployment` | a daemon whose start fails late drops the lock while its writer still runs |
| `OwnAccountIsRecorded` | `Deployment` | a second `install --force` forgets that it created the account |
| `FallbackOnlyWithoutRunName` | `GithubDispatch` | a workflow that names its runs is also given somebody else's newest run |
| `QuotaIsNotForbidden` | `GithubDispatch` | an exhausted quota in the correlator is a permanent Forbidden |
| `TransientIsRetried` (a PROPERTY) | `RunNotify` | a Transient answer of a notifier is logged and not retried |
| `CancelWinsBeforeLock` (a PROPERTY) | `RunNotify` | the lock is taken between two polls of the `select!`: Cancelled is reported and the mail written |
| `DuplicateMeansTwoRuns` | `GithubDispatch` | one run, read twice because another one shifted the pages, is reported as several runs of that name |
| `JobToldOnce` | `RunJobs` | a job repeated by a page shift passes the filter twice, since ids are inserted after it, and is fanned out twice |
| `EmbedIsValid` | `Configuration` | texts within their own limits exceed the total in bytes; the embed is refused and the run is not told of |
| `CheckMeansResolvable` | `Configuration` | a file that passes the probe cannot be read, or a variable is not UTF-8 |
| `InputsAreCompiled` | `Configuration` | templates of dispatch inputs are first compiled when a flow dispatches |
| `StalledBodyEnds` (a PROPERTY) | `GithubDispatch` | the body of a refusal is read outside the request time-out and without the cancellation |
| `DroppedEntryIsUnused` | `Configuration` | cancelled tasks use a client whose rate-limit poller the reload has stopped, beyond the drain too |
| `GithubRefIsChecked` | `Configuration` | `refs/pull/...` of a GitHub source is accepted and every poll fails |

## 4. Proofs

Every invariant, every action property and both refinements the runs check are also theorems, for every
value of the constants. Each rests on an inductive invariant; what it adds to the property is why the property holds.
The type invariants of `StateWriter` and `FlowPipeline`, the limits of their channels included, are not repeated in the runs.

**`StateApplyProofs`.** For all flows, shas, runs and any cap `Apply` maps typed
states to typed states (`ApplyType`) and well-formed ones to well-formed ones
(`ApplyWellFormed`). The step that needs care is `RunFinished`: the removed index is the
first match, what remains has no duplicate, and the history is cut to its newest
entries (`DropAtType`, `NewestType`, `FirstRunType`, `FinishedEntry`). `ObservationEffect`, `StartedEffect` and
`FinishedEffect` say what an update does to an entry; the pipeline's proofs cite them.

**`StateWriterProofs`**, for any set of updates and any sizes: `TypeCorrect`, `WellFormedCorrect`,
`CleanCorrect`, `ReadableCorrect`, `MirrorCorrect` and `Refinement`
(`Spec => CrashSafeStore`'s specification), from `IInv`:

* `TypeOK`, `CleanMeansPersisted` and `StateWellFormed` themselves;
* `PointInv`, what the program point means: while writing the state is dirty, at `rename`
  the data is synced, after it the file equals memory, at `publish` it is the only image;
* `FileInv`: the file is one of its images, an unreadable image is the only one and only
  of a file that the daemon refused;
* `ImagesWellFormed`: what a power loss may leave is well formed too. Without it a
  restart could load something about which nothing is known.

`PointInv` and `FileInv` are needed because the properties say nothing about the middle of a write.

**`FlowPipelineProofs`**, for any shas, runs, queue sizes, cooldown, reloads and kills:

* `TypeCorrect`; `TypeInv` adds which updates and stamps this flow produces;
* `OfferedCorrect`, from `OfferInv`: every observation that is queued, remembered, pending or persisted has been
  offered. The property alone says nothing of the queue the writer takes from;
* `MemoryCorrect`, from `MemoryInv`, which speaks of queue positions instead of sets: the newest observation in the queue is
  what the task remembers, and a queue without one has been applied. The property is about a flow's first generation in a process: a
  reload seeds the next one from a mirror that may lag;
* `CooldownCorrect`, from `CooldownInv`: no stamp in queue, state or mirror is younger than the one the task
  remembers, and the task fires only when that one is old enough;
* `LatchCorrect`, inductive as it stands;
* `FinishedCorrect`, from `RunInv`: a queued RunFinished has its RunStarted before it or already applied, and nothing between
  them finishes the run; a monitored run is known and unfinished;
* `Refinement` (`Spec` implies `ChangeFeed`'s specification), step by step. Besides the type invariant it needs `EndInv`: the dispatcher drains
  and drops its queue only after the cancellation, which is what keeps a trigger from being lost by anything else. The
  rest is about `Kept` and `Stamps` (`KeptQueued`, `KeptNarrows`): sending an observation adds exactly what the flow now
  remembers, and applying, writing or losing one never adds anything. The lag of the mirror is thus visible as a choice in `Resume`, and
  nothing worse than that choice can happen.

**`SupervisorProofs`**, for any flows, configurations, panics and reloads:

* `TypeCorrect`, `HandleCorrect` (a cancelled generation leaves the registry in the same handler, and no two flows share one),
  `SlotCorrect` (a slot and its watcher come and go together, also when a reload clears the slot);
* `PendingCorrect` and `OpenGateCorrect`: `pending_exits` never counts fewer exits than there are tasks, so a drain gate found open
  before its budget is used up means that the old pair is gone. From `PendingInv`: a task and its exit are counted once,
  and the counter is at most twice the number of generations. Both assume `2 * MaxGenerations < U8`: the counter is a `u8`
  and drains that join without discounting let it drift upwards by up to two per generation; once it passes 255 it wraps and the
  gate can open early. The wrap is listed as a hazard.

**`GithubDispatchProofs`**, for any schedule, deadlines, quota, page size and number of runs:

* `RetryCorrect`, from `BudgetInv` (every counted failure used up a delay; `.adjust()` overrides only rate-limited answers)
  and `HoldoffInv` (an announced reset still to come is spent in the back-off sleep);
* `DuplicateCorrect`, from `DuplicateInv`: while the retry loop runs, only a lost answer can have hidden an accepted post;
* `CorrelationCorrect`, from `CorrelateInv`, which relates what a scan has read to a listing that grows meanwhile (`ScanInv`): a run that
  was read stays listed, perhaps further down. Two matches were read at different places, so one of them was not at the head of the
  listing: there are two runs, one of them of gcit, also when both matches are the same one. That there be two runs of gcit is what the code
  says of the outcome, and is refuted (`DuplicateMeansTwoRuns`);
* `DrainCorrect`, an action property, from `DrainInv`: what is left of the drain and the time since its onset never exceed
  DRAIN_TIMEOUT together, because the onset is captured once.

The type invariant is the long part: `Min` over the candidates of a page, and listings that grow while they are read.

**`RunMonitorProofs`.** `SpoolSoundCorrect`, for any number of notifiers and whatever the
monitor does, from `MailInv`: what each helper has done at each of its points (inside the lock it is the holder, before
the write no byte of it is in the spool, after the sync its record is durable), what a result implies about the helper,
and who may own an unfinished record at the end of the spool: without the last part a half-written record could be
taken for one that another helper is still writing. A helper that never signalled its lock has left no byte, whatever it failed with; one that did may have,
and `Permanent` then only says that nothing more will be written. `ToldInOrderCorrect`, for any jobs, late jobs, page size, caps, re-runs and channel capacity, from `JobInv` (a job that was told
of is remembered in `completed_jobs`), `IdInv` (no id is listed twice), `ListInv` (what was gathered is a prefix of GitHub's listing as long as that
has not moved, and once moved it does not come back: this is what makes an event of a listing that stood still free of repetitions) and `FinishInv` (RunFinished is sent once, by a monitor whose fan-out has been joined).
`MessagesCorrect`, for any subjects, bodies and limits, from `TextInv`: the spool is a
sequence of records whose starts are its only separator lines (`OneSeparator`: quoting and sanitising leave one per record). An appended
record adds one start behind all the others, so the ranks of the earlier starts, and with them the records read so
far, stay what they were (`RankedAppended`, `RecordsAppended`); this takes the place of an induction over the spool. For
an embed, the limits of its parts and that every job is told of in exactly one field are read off truncation and the two ways of filling in its fields
(`CollapsedTells`, `ExpandedTells`). Nothing is claimed of the total: the code checks it before it sends, and the embed may fail the check.

**`ControlPlaneProofs`.** `AnswerCorrect`, for any clients and queue sizes, from `IdleInv`, `ConnInv`, `ToldInv` and `QueueInv`: a queued or running command
belongs to one connection that waits for it, so nothing is done twice, and an answered connection has nothing left in the queue.

**`DeploymentProofs`**, for any number of processes, files, revisions and commands:

* `BootExclusiveCorrect`, from `BootInv`: who has come as far as the lock holds it (this gives
  mutual exclusion), and a listener that systemd passed is never replaced (this gives reachability);
* `InstallConsistentCorrect`, `EditsSparedCorrect` and `LeftoversListedCorrect`, from `InstallInv`:
  whoever records or offers the account as gcit's own is right (`AccountInv`); an uninstall without
  `--force` that has compared the digests can only meet edits made since, or of files hidden from it (`SpareInv`); what lies behind
  its loop is gone, was put back or could not be examined, as long as nothing failed (`RemovedInv`);

and for any set of files, hosts, flows, credentials and sources:

* `AcceptedCorrect` and `CheckCorrect`, from `RulesInv`. The lemmas follow validation part by part (`AcceptedFlows`, `ActionParts`,
  `DestinationParts`, `CadenceParts`, `JitterInRange`); `ResolutionsAgree` compares the two walks over a credential's places
  case by case: they differ in a variable that is not UTF-8 and in a file that can be probed and not read, and nowhere else;
* `PoolCorrect`, from `EntryInv` (what `by_id` leads to is the credential's own entry and has the only poller; a registered flow holds
  it. Generations without a handle appear nowhere in it: nothing can be said of what they hold) and `FreshInv` (cached secrets and pooled tokens were read after the credential was last dropped);
* `BucketSpaced` and `SourcesCorrect`, from `BucketInv` (nobody waits behind
  the last slot given away, so one interval after the last slot is one after every slot), `FingerprintInv` and `AnswersOwn`: whatever transport
  and protocol version answers, a SHA it returns is the ref's own object.

**Assumptions** are the named ASSUMEs: positive sizes, absent values outside the value sets, markers that are
not states, an agent that is not a notifier, a place on every host for every credential a file names. TLC evaluates them in every run. No other
hypothesis is made, but for the counter's in `PendingCorrect` and `OpenGateCorrect`.

**Only model-checked.** All liveness (`ShutdownTerminates`, `CancelledFlowEnds`, `ChangeIsDispatched`, `ShutdownCompletes`,
`ExecuteEnds`, `CompletedRunIsFinished`, `MonitorEnds`, `CommandIsAnswered`, `IdleShutdownCompletes`), which rests on fairness and ENABLED.

## 5. Not modelled, and plan

Not modelled: HTTP, git and D-Bus wire protocols (library code); TOML syntax, line numbers and wording of errors; the wording,
colours and rendering of messages and templates; the text of the systemd units; the notifications
RELOADING, STOPPING and WATCHDOG, which only inform systemd; argument parsing and `validate-template`;
logging. A wall clock that steps back is not modelled; clocks only advance.

A change whose observation is durable but whose trigger was only in memory is lost by a
kill: delivery after acceptance is at most once, and `ChangeFeed` promises no more (`Kill`, `Close`).

Next, in this order:

1. A contract of `GithubDispatch` and one of `RunMonitor`, as small as the use `FlowPipeline` makes of them (an `execute` that fails
   or names a run; a monitor that sends RunFinished or gives up), with the refinements proved.
2. A clock that may step back in `FlowPipeline` and `RateBucket`, with what then remains of the cooldown and of the spacing.
3. Liveness of several flows behind one rate bucket and one pool of read permits.
