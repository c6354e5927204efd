----------------------------- MODULE StateApply -----------------------------
(***************************************************************************)
(* The daemon's persisted state and State::apply (src/state/apply.rs): one *)
(* entry per flow, changed only by the five StateUpdate variants.          *)
(*                                                                         *)
(* A missing BTreeMap entry is NULL, an absent Option is NULL.  Shas,      *)
(* wall-clock times and conclusions are opaque values: apply only stores   *)
(* them.  Run ids are compared, so they are told apart.                    *)
(***************************************************************************)
EXTENDS Naturals, Sequences

CONSTANTS
  Flows,              \* flow names
  Shas,               \* object ids a poll can observe
  Times,              \* wall-clock instants
  RunIds,             \* GitHub run ids
  Conclusions,        \* terminal conclusions of a run
  NOTIFIED_RUNS_CAP,  \* most finished runs remembered per flow (100 in the code)
  NULL                \* an absent Option / map entry

ASSUME CapAssumption == NOTIFIED_RUNS_CAP \in Nat \ {0}

Opt(S) == S \cup {NULL}

RunState ==
  [run_id: RunIds, started_at: Times,
   conclusion: Opt(Conclusions), completed_at: Opt(Times)]

FlowState ==
  [last_sha: Opt(Shas), last_poll_at: Opt(Times),
   last_dispatched_at: Opt(Times), cooldown_until: Opt(Times),
   active_runs: Seq(RunState), notified_runs: Seq(RunState)]

ASSUME NullAssumption ==
  /\ NULL \notin Shas
  /\ NULL \notin Times
  /\ NULL \notin Conclusions
  /\ NULL \notin FlowState

\* State::flows; the schema number never changes once loaded.
State == [Flows -> FlowState \cup {NULL}]

StateUpdate ==
       [type: {"PollObservation"}, flow: Flows, last_sha: Shas, last_poll_at: Times,
        last_dispatched_at: Opt(Times), cooldown_until: Opt(Times)]
  \cup [type: {"PollTimestamp"}, flow: Flows, last_poll_at: Times]
  \cup [type: {"RunStarted"}, flow: Flows, run_id: RunIds, started_at: Times]
  \cup [type: {"RunFinished"}, flow: Flows, run_id: RunIds,
        conclusion: Conclusions, completed_at: Times]
  \cup [type: {"FlowRemoved"}, flow: Flows]

-----------------------------------------------------------------------------
DefaultFlow ==
  [last_sha |-> NULL, last_poll_at |-> NULL,
   last_dispatched_at |-> NULL, cooldown_until |-> NULL,
   active_runs |-> << >>, notified_runs |-> << >>]

DefaultState == [f \in Flows |-> NULL]

\* BTreeMap::entry(flow).or_default()
Entry(st, f) == IF st[f] = NULL THEN DefaultFlow ELSE st[f]

OrKeep(new, old) == IF new = NULL THEN old ELSE new

HasRun(runs, id) == \E i \in DOMAIN runs : runs[i].run_id = id

\* Vec::remove of the first entry whose run_id is id.
FirstRun(runs, id) ==
  CHOOSE i \in DOMAIN runs :
    /\ runs[i].run_id = id
    /\ \A j \in DOMAIN runs : runs[j].run_id = id => i <= j

DropAt(runs, i) ==
  [j \in 1 .. Len(runs) - 1 |-> IF j < i THEN runs[j] ELSE runs[j + 1]]

\* Keep the newest n entries: Vec::drain(..excess).
Newest(runs, n) ==
  IF Len(runs) > n THEN SubSeq(runs, Len(runs) - n + 1, Len(runs)) ELSE runs

-----------------------------------------------------------------------------
ApplyPollObservation(st, u) ==
  LET e == Entry(st, u.flow) IN
  [st EXCEPT ![u.flow] =
     [last_sha |-> u.last_sha,
      last_poll_at |-> u.last_poll_at,
      last_dispatched_at |-> OrKeep(u.last_dispatched_at, e.last_dispatched_at),
      cooldown_until |-> OrKeep(u.cooldown_until, e.cooldown_until),
      active_runs |-> e.active_runs,
      notified_runs |-> e.notified_runs]]

ApplyPollTimestamp(st, u) ==
  [st EXCEPT ![u.flow] = [Entry(st, u.flow) EXCEPT !.last_poll_at = u.last_poll_at]]

\* Faulty variant: append without looking for the run.
ApplyRunStartedTwice(st, u) ==
  [st EXCEPT ![u.flow] =
     [Entry(st, u.flow) EXCEPT !.active_runs =
        Append(@, [run_id |-> u.run_id, started_at |-> u.started_at,
                   conclusion |-> NULL, completed_at |-> NULL])]]

ApplyRunStarted(st, u) ==
  LET e == Entry(st, u.flow)
      run == [run_id |-> u.run_id, started_at |-> u.started_at,
              conclusion |-> NULL, completed_at |-> NULL]
  IN [st EXCEPT ![u.flow] =
        IF HasRun(e.active_runs, u.run_id)
        THEN e
        ELSE [e EXCEPT !.active_runs = Append(@, run)]]

\* Move the run to notified_runs with its conclusion; the oldest ones fall off.
FinishRun(e, u) ==
  LET pos == FirstRun(e.active_runs, u.run_id)
      done == [e.active_runs[pos] EXCEPT !.conclusion = u.conclusion,
                                         !.completed_at = u.completed_at]
  IN [e EXCEPT !.active_runs = DropAt(@, pos),
               !.notified_runs = Newest(Append(@, done), NOTIFIED_RUNS_CAP)]

ApplyRunFinished(st, u) ==
  IF st[u.flow] = NULL \/ ~HasRun(Entry(st, u.flow).active_runs, u.run_id)
  THEN st
  ELSE [st EXCEPT ![u.flow] = FinishRun(Entry(st, u.flow), u)]

ApplyFlowRemoved(st, u) == [st EXCEPT ![u.flow] = NULL]

Apply(st, u) ==
  CASE u.type = "PollObservation" -> ApplyPollObservation(st, u)
    [] u.type = "PollTimestamp"   -> ApplyPollTimestamp(st, u)
    [] u.type = "RunStarted"      -> ApplyRunStarted(st, u)
    [] u.type = "RunFinished"     -> ApplyRunFinished(st, u)
    [] u.type = "FlowRemoved"     -> ApplyFlowRemoved(st, u)

-----------------------------------------------------------------------------
(* What every state reachable by apply satisfies.                          *)

NoDuplicateActive(fs) ==
  \A i, j \in DOMAIN fs.active_runs :
    fs.active_runs[i].run_id = fs.active_runs[j].run_id => i = j

ActiveIsUnfinished(fs) ==
  \A i \in DOMAIN fs.active_runs : fs.active_runs[i].conclusion = NULL

NotifiedIsFinished(fs) ==
  /\ Len(fs.notified_runs) <= NOTIFIED_RUNS_CAP
  /\ \A i \in DOMAIN fs.notified_runs : fs.notified_runs[i].conclusion # NULL

WellFormedFlow(fs) ==
  /\ NoDuplicateActive(fs)
  /\ ActiveIsUnfinished(fs)
  /\ NotifiedIsFinished(fs)

WellFormed(st) == \A f \in Flows : st[f] # NULL => WellFormedFlow(st[f])
=============================================================================
