-------------------------- MODULE StateApplyProofs --------------------------
(***************************************************************************)
(* What State::apply preserves, for any number of flows, runs and any cap. *)
(***************************************************************************)
EXTENDS StateApply, TLAPS, SequenceTheorems, WellFoundedInduction

\* An entry taken from a typed state is a typed FlowState.
LEMMA EntryType ==
  ASSUME NEW st \in State, NEW f \in Flows
  PROVE  Entry(st, f) \in FlowState
BY DEF Entry, State, FlowState, DefaultFlow, Opt

\* Vec::remove (apply_run_finished) drops one entry and keeps the others in order.
LEMMA DropAtType ==
  ASSUME NEW runs \in Seq(RunState), NEW i \in DOMAIN runs
  PROVE  /\ DropAt(runs, i) \in Seq(RunState)
         /\ Len(DropAt(runs, i)) = Len(runs) - 1
         /\ \A j \in 1 .. Len(runs) - 1 :
              DropAt(runs, i)[j] = IF j < i THEN runs[j] ELSE runs[j + 1]
<1>1. Len(runs) \in Nat \ {0} /\ DOMAIN runs = 1 .. Len(runs)
  OBVIOUS
<1>2. \A j \in 1 .. Len(runs) - 1 :
        (IF j < i THEN runs[j] ELSE runs[j + 1]) \in RunState
  BY <1>1
<1> QED
  BY <1>1, <1>2, IsASeq DEF DropAt

\* The cap on notified_runs (apply_run_finished) keeps entries of the sequence, at most n.
LEMMA NewestType ==
  ASSUME NEW runs \in Seq(RunState), NEW n \in Nat
  PROVE  /\ Newest(runs, n) \in Seq(RunState)
         /\ Len(Newest(runs, n)) <= IF Len(runs) < n THEN Len(runs) ELSE n
         /\ \A j \in DOMAIN Newest(runs, n) :
              \E k \in DOMAIN runs : Newest(runs, n)[j] = runs[k]
BY DEF Newest

\* A set of indices that is not empty has a least one.
LEMMA LeastIndex ==
  ASSUME NEW T, T \subseteq Nat, T # {}
  PROVE  \E x \in T : \A y \in T : x <= y
<1> DEFINE R == OpToRel(<, Nat)
<1>1. IsWellFoundedOn(R, Nat)
  BY NatLessThanWellFounded
<1>2. PICK x \in T : \A y \in T : <<y, x>> \notin R
  <2> HIDE DEF R
  <2> QED BY <1>1, WFMin
<1>3. \A y \in T : ~(y < x)
  BY <1>2 DEF OpToRel
<1> QED
  BY <1>3

\* Vec::position finds a run that is there.
LEMMA FirstRunType ==
  ASSUME NEW runs \in Seq(RunState), NEW id, HasRun(runs, id)
  PROVE  FirstRun(runs, id) \in DOMAIN runs /\ runs[FirstRun(runs, id)].run_id = id
<1> DEFINE T == {i \in DOMAIN runs : runs[i].run_id = id}
<1>1. T \subseteq Nat /\ T # {}
  BY DEF HasRun
<1>2. PICK i \in T : \A j \in T : i <= j
  <2> HIDE DEF T
  <2> QED BY <1>1, LeastIndex
<1>3. \E k \in DOMAIN runs :
        /\ runs[k].run_id = id
        /\ \A j \in DOMAIN runs : runs[j].run_id = id => k <= j
  BY <1>2
<1> QED
  BY <1>3 DEF FirstRun

\* apply_run_finished on an entry that has the run: typed, and the finished run
\* moves from active_runs to the end of notified_runs.
LEMMA FinishedEntry ==
  ASSUME NEW e \in FlowState, NEW u,
         u.conclusion \in Conclusions, u.completed_at \in Times,
         HasRun(e.active_runs, u.run_id)
  PROVE  /\ FinishRun(e, u) \in FlowState
         /\ WellFormedFlow(e) => WellFormedFlow(FinishRun(e, u))
<1> DEFINE pos == FirstRun(e.active_runs, u.run_id)
           done == [e.active_runs[pos] EXCEPT !.conclusion = u.conclusion,
                                              !.completed_at = u.completed_at]
           new == FinishRun(e, u)
<1>1. e.active_runs \in Seq(RunState) /\ e.notified_runs \in Seq(RunState)
  BY DEF FlowState
<1>2. pos \in DOMAIN e.active_runs
  BY <1>1, FirstRunType
<1> HIDE DEF pos
<1>3. done \in RunState /\ done.conclusion = u.conclusion
  <2>1. e.active_runs[pos] \in RunState
    BY <1>1, <1>2
  <2> QED
    BY <2>1 DEF RunState, Opt
<1> HIDE DEF done
<1> DEFINE active == DropAt(e.active_runs, pos)
           longer == Append(e.notified_runs, done)
           notified == Newest(longer, NOTIFIED_RUNS_CAP)
<1>4. /\ active \in Seq(RunState)
      /\ Len(active) = Len(e.active_runs) - 1
      /\ \A j \in 1 .. Len(e.active_runs) - 1 :
           active[j] = IF j < pos THEN e.active_runs[j] ELSE e.active_runs[j + 1]
  BY <1>1, <1>2, DropAtType
<1>5. longer \in Seq(RunState)
  BY <1>1, <1>3
<1>6. /\ notified \in Seq(RunState)
      /\ Len(notified) <= NOTIFIED_RUNS_CAP
      /\ \A j \in DOMAIN notified : \E k \in DOMAIN longer : notified[j] = longer[k]
  <2> HIDE DEF longer
  <2>1. NOTIFIED_RUNS_CAP \in Nat
    BY CapAssumption
  <2> QED
    BY <1>5, <2>1, NewestType
<1>7. /\ new.active_runs = active
      /\ new.notified_runs = notified
      /\ new \in FlowState
  <2>1. new = [e EXCEPT !.active_runs = active, !.notified_runs = notified]
    BY DEF FinishRun, pos, done
  <2> HIDE DEF active, notified, new
  <2> QED
    BY <1>4, <1>6, <2>1 DEF FlowState
<1> HIDE DEF new
<1>8. ASSUME WellFormedFlow(e)
      PROVE  WellFormedFlow(new)
  <2>1. NoDuplicateActive(new)
    <3> HIDE DEF active
    <3>1. DOMAIN active = 1 .. Len(e.active_runs) - 1 /\ pos \in 1 .. Len(e.active_runs)
      BY <1>1, <1>2, <1>4
    <3>2. \A i, j \in DOMAIN e.active_runs :
            e.active_runs[i].run_id = e.active_runs[j].run_id => i = j
      BY <1>8 DEF WellFormedFlow, NoDuplicateActive
    <3>3. ASSUME NEW i \in DOMAIN active, NEW j \in DOMAIN active,
                 active[i].run_id = active[j].run_id
          PROVE  i = j
      <4>1. Len(e.active_runs) \in Nat /\ DOMAIN e.active_runs = 1 .. Len(e.active_runs)
        BY <1>1
      <4>2. PICK k \in DOMAIN e.active_runs :
              active[i] = e.active_runs[k] /\ k = IF i < pos THEN i ELSE i + 1
        BY <1>4, <3>1, <4>1
      <4>3. PICK l \in DOMAIN e.active_runs :
              active[j] = e.active_runs[l] /\ l = IF j < pos THEN j ELSE j + 1
        BY <1>4, <3>1, <4>1
      <4>4. k = l
        BY <3>2, <3>3, <4>2, <4>3
      <4> QED
        BY <3>1, <4>1, <4>2, <4>3, <4>4
    <3> QED
      BY <1>7, <3>3 DEF NoDuplicateActive
  <2>2. ActiveIsUnfinished(new)
    <3> HIDE DEF active
    <3>1. \A i \in DOMAIN e.active_runs : e.active_runs[i].conclusion = NULL
      BY <1>8 DEF WellFormedFlow, ActiveIsUnfinished
    <3>2. /\ DOMAIN active = 1 .. Len(e.active_runs) - 1
          /\ Len(e.active_runs) \in Nat
          /\ DOMAIN e.active_runs = 1 .. Len(e.active_runs)
      BY <1>1, <1>4
    <3>3. \A j \in DOMAIN active : \E k \in DOMAIN e.active_runs : active[j] = e.active_runs[k]
      <4> TAKE j \in DOMAIN active
      <4>1. CASE j < pos
        BY <1>2, <1>4, <3>2, <4>1
      <4>2. CASE ~(j < pos)
        <5>1. j + 1 \in DOMAIN e.active_runs /\ active[j] = e.active_runs[j + 1]
          BY <1>2, <1>4, <3>2, <4>2
        <5> QED
          BY <5>1
      <4> QED
        BY <4>1, <4>2
    <3>4. \A j \in DOMAIN active : active[j].conclusion = NULL
      BY <3>1, <3>3
    <3> QED
      BY <1>7, <3>4 DEF ActiveIsUnfinished
  <2>3. NotifiedIsFinished(new)
    <3>1. \A k \in DOMAIN longer : longer[k].conclusion # NULL
      <4>1. \A k \in DOMAIN e.notified_runs : e.notified_runs[k].conclusion # NULL
        BY <1>8 DEF WellFormedFlow, NotifiedIsFinished
      <4>2. u.conclusion # NULL
        BY NullAssumption
      <4> QED
        BY <1>1, <1>3, <4>1, <4>2
    <3> HIDE DEF longer, notified
    <3> QED
      BY <1>6, <1>7, <3>1 DEF NotifiedIsFinished
  <2> QED
    BY <2>1, <2>2, <2>3 DEF WellFormedFlow
<1> QED
  BY <1>7, <1>8 DEF new

\* Every update leaves a typed state.
THEOREM ApplyType ==
  ASSUME NEW st \in State, NEW u \in StateUpdate
  PROVE  Apply(st, u) \in State
<1>1. u.flow \in Flows
  BY DEF StateUpdate
<1> DEFINE e == Entry(st, u.flow)
<1>2. e \in FlowState
  BY <1>1, EntryType
<1> HIDE DEF e
<1>3. CASE u.type = "PollObservation"
  <2>1. /\ u.last_sha \in Shas /\ u.last_poll_at \in Times
        /\ u.last_dispatched_at \in Opt(Times) /\ u.cooldown_until \in Opt(Times)
    BY <1>3 DEF StateUpdate
  <2> QED
    BY <1>1, <1>2, <1>3, <2>1
    DEF Apply, ApplyPollObservation, e, State, FlowState, OrKeep, Opt
<1>4. CASE u.type = "PollTimestamp"
  <2>1. u.last_poll_at \in Times
    BY <1>4 DEF StateUpdate
  <2> QED
    BY <1>1, <1>2, <1>4, <2>1 DEF Apply, ApplyPollTimestamp, e, State, FlowState, Opt
<1>5. CASE u.type = "RunStarted"
  <2> DEFINE run == [run_id |-> u.run_id, started_at |-> u.started_at,
                     conclusion |-> NULL, completed_at |-> NULL]
  <2>1. run \in RunState
    BY <1>5 DEF StateUpdate, RunState, Opt
  <2> HIDE DEF run
  <2>2. [e EXCEPT !.active_runs = Append(@, run)] \in FlowState
    BY <1>2, <2>1 DEF FlowState
  <2> QED
    BY <1>1, <1>2, <1>5, <2>2 DEF Apply, ApplyRunStarted, e, run, State
<1>6. CASE u.type = "RunFinished"
  <2>1. u.run_id \in RunIds /\ u.conclusion \in Conclusions /\ u.completed_at \in Times
    BY <1>6 DEF StateUpdate
  <2>2. CASE st[u.flow] = NULL \/ ~HasRun(e.active_runs, u.run_id)
    BY <1>6, <2>2 DEF Apply, ApplyRunFinished, e
  <2>3. CASE st[u.flow] # NULL /\ HasRun(e.active_runs, u.run_id)
    BY <1>1, <1>2, <1>6, <2>1, <2>3, FinishedEntry DEF Apply, ApplyRunFinished, e, State
  <2> QED
    BY <2>2, <2>3
<1>7. CASE u.type = "FlowRemoved"
  BY <1>1, <1>7 DEF Apply, ApplyFlowRemoved, State
<1> QED
  BY <1>3, <1>4, <1>5, <1>6, <1>7 DEF StateUpdate

\* Every update leaves a well-formed state: a run is active at most once, active
\* runs are unfinished, and the finished runs kept are finished and bounded.
THEOREM ApplyWellFormed ==
  ASSUME NEW st \in State, NEW u \in StateUpdate, WellFormed(st)
  PROVE  WellFormed(Apply(st, u))
<1>1. u.flow \in Flows
  BY DEF StateUpdate
<1> DEFINE e == Entry(st, u.flow)
<1>2. e \in FlowState
  BY <1>1, EntryType
<1>3. WellFormedFlow(e)
  <2>1. WellFormedFlow(DefaultFlow)
    BY CapAssumption
    DEF WellFormedFlow, NoDuplicateActive, ActiveIsUnfinished, NotifiedIsFinished, DefaultFlow
  <2> QED
    BY <1>1, <2>1 DEF WellFormed, Entry
<1> HIDE DEF e
<1>4. ASSUME NEW fs, WellFormedFlow(fs)
      PROVE  WellFormed([st EXCEPT ![u.flow] = fs])
  BY <1>1, <1>4 DEF WellFormed, State
<1>5. CASE u.type = "PollObservation"
  <2> DEFINE fs == [last_sha |-> u.last_sha,
                    last_poll_at |-> u.last_poll_at,
                    last_dispatched_at |-> OrKeep(u.last_dispatched_at, e.last_dispatched_at),
                    cooldown_until |-> OrKeep(u.cooldown_until, e.cooldown_until),
                    active_runs |-> e.active_runs,
                    notified_runs |-> e.notified_runs]
  <2>1. WellFormedFlow(fs)
    BY <1>3 DEF WellFormedFlow, NoDuplicateActive, ActiveIsUnfinished, NotifiedIsFinished
  <2>2. Apply(st, u) = [st EXCEPT ![u.flow] = fs]
    BY <1>5 DEF Apply, ApplyPollObservation, e
  <2> HIDE DEF fs
  <2> QED
    BY <1>4, <2>1, <2>2
<1>6. CASE u.type = "PollTimestamp"
  <2> DEFINE fs == [e EXCEPT !.last_poll_at = u.last_poll_at]
  <2>1. fs.active_runs = e.active_runs /\ fs.notified_runs = e.notified_runs
    BY <1>2 DEF FlowState
  <2>2. Apply(st, u) = [st EXCEPT ![u.flow] = fs]
    BY <1>6 DEF Apply, ApplyPollTimestamp, e
  <2> HIDE DEF fs
  <2>3. WellFormedFlow(fs)
    BY <1>3, <2>1 DEF WellFormedFlow, NoDuplicateActive, ActiveIsUnfinished, NotifiedIsFinished
  <2> QED
    BY <1>4, <2>2, <2>3
<1>7. CASE u.type = "RunStarted"
  <2> DEFINE run == [run_id |-> u.run_id, started_at |-> u.started_at,
                     conclusion |-> NULL, completed_at |-> NULL]
             fs == IF HasRun(e.active_runs, u.run_id)
                   THEN e
                   ELSE [e EXCEPT !.active_runs = Append(@, run)]
  <2>1. Apply(st, u) = [st EXCEPT ![u.flow] = fs]
    BY <1>7 DEF Apply, ApplyRunStarted, e
  <2>2. ASSUME ~HasRun(e.active_runs, u.run_id)
        PROVE  WellFormedFlow([e EXCEPT !.active_runs = Append(@, run)])
    <3> DEFINE new == [e EXCEPT !.active_runs = Append(@, run)]
    <3>1. /\ e.active_runs \in Seq(RunState)
          /\ new.active_runs = Append(e.active_runs, run)
          /\ new.notified_runs = e.notified_runs
      BY <1>2 DEF FlowState
    <3>2. run.run_id = u.run_id /\ run.conclusion = NULL
      OBVIOUS
    <3> HIDE DEF new, run
    <3>3. NoDuplicateActive(new)
      BY <1>3, <2>2, <3>1, <3>2 DEF WellFormedFlow, NoDuplicateActive, HasRun
    <3>4. ActiveIsUnfinished(new)
      BY <1>3, <3>1, <3>2 DEF WellFormedFlow, ActiveIsUnfinished
    <3>5. NotifiedIsFinished(new)
      BY <1>3, <3>1 DEF WellFormedFlow, NotifiedIsFinished
    <3> QED
      BY <3>3, <3>4, <3>5 DEF WellFormedFlow, new
  <2>3. WellFormedFlow(fs)
    BY <1>3, <2>2
  <2> HIDE DEF fs
  <2> QED
    BY <1>4, <2>1, <2>3
<1>8. CASE u.type = "RunFinished"
  <2>1. u.run_id \in RunIds /\ u.conclusion \in Conclusions /\ u.completed_at \in Times
    BY <1>8 DEF StateUpdate
  <2>2. CASE st[u.flow] = NULL \/ ~HasRun(e.active_runs, u.run_id)
    BY <1>8, <2>2 DEF Apply, ApplyRunFinished, e
  <2>3. CASE st[u.flow] # NULL /\ HasRun(e.active_runs, u.run_id)
    <3>1. Apply(st, u) = [st EXCEPT ![u.flow] = FinishRun(e, u)]
      BY <1>8, <2>3 DEF Apply, ApplyRunFinished, e
    <3>2. WellFormedFlow(FinishRun(e, u))
      BY <1>2, <1>3, <2>1, <2>3, FinishedEntry
    <3> QED
      BY <1>4, <3>1, <3>2
  <2> QED
    BY <2>2, <2>3
<1>9. CASE u.type = "FlowRemoved"
  BY <1>1, <1>9 DEF Apply, ApplyFlowRemoved, State, WellFormed
<1> QED
  BY <1>5, <1>6, <1>7, <1>8, <1>9 DEF StateUpdate
-----------------------------------------------------------------------------
(* What an update does to the fields of the flow it names.                 *)

\* A poll observation moves the sha, keeps an earlier dispatch stamp when it brings
\* none, and leaves the runs alone (apply_poll_observation).
LEMMA ObservationEffect ==
  ASSUME NEW st \in State, NEW u \in StateUpdate, u.type = "PollObservation"
  PROVE  LET old == Entry(st, u.flow)
             new == Entry(Apply(st, u), u.flow)
         IN /\ new.last_sha = u.last_sha
            /\ new.last_dispatched_at = OrKeep(u.last_dispatched_at, old.last_dispatched_at)
            /\ new.active_runs = old.active_runs
<1> DEFINE e == Entry(st, u.flow)
<1>1. u.flow \in Flows
  BY DEF StateUpdate
<1>2. e \in FlowState
  BY <1>1, EntryType
<1>3. /\ u.last_sha \in Shas /\ u.last_poll_at \in Times
      /\ u.last_dispatched_at \in Opt(Times) /\ u.cooldown_until \in Opt(Times)
  BY DEF StateUpdate
<1> DEFINE fs == [last_sha |-> u.last_sha,
                  last_poll_at |-> u.last_poll_at,
                  last_dispatched_at |-> OrKeep(u.last_dispatched_at, e.last_dispatched_at),
                  cooldown_until |-> OrKeep(u.cooldown_until, e.cooldown_until),
                  active_runs |-> e.active_runs,
                  notified_runs |-> e.notified_runs]
<1>4. Apply(st, u) = [st EXCEPT ![u.flow] = fs]
  BY DEF Apply, ApplyPollObservation
<1> HIDE DEF e
<1>5. fs \in FlowState
  BY <1>2, <1>3 DEF FlowState, OrKeep, Opt
<1>6. fs # NULL
  BY <1>5, NullAssumption
<1>7. Entry(Apply(st, u), u.flow) = fs
  <2> HIDE DEF fs
  <2> QED BY <1>1, <1>4, <1>6 DEF Entry, State
<1> QED
  BY <1>7 DEF e

\* The other updates of a flow that stays leave its sha and its dispatch stamp alone.
LEMMA ObservedKept ==
  ASSUME NEW st \in State, NEW u \in StateUpdate,
         u.type \in {"PollTimestamp", "RunStarted", "RunFinished"}
  PROVE  LET old == Entry(st, u.flow)
             new == Entry(Apply(st, u), u.flow)
         IN /\ new.last_sha = old.last_sha
            /\ new.last_dispatched_at = old.last_dispatched_at
            /\ u.type = "PollTimestamp" => new.active_runs = old.active_runs
<1> DEFINE e == Entry(st, u.flow)
<1>1. u.flow \in Flows
  BY DEF StateUpdate
<1>2. e \in FlowState
  BY <1>1, EntryType
<1>3. ASSUME NEW fs \in FlowState, Apply(st, u) = [st EXCEPT ![u.flow] = fs]
      PROVE  Entry(Apply(st, u), u.flow) = fs
  BY <1>1, <1>3, NullAssumption DEF Entry, State
<1>4. CASE u.type = "PollTimestamp"
  <2> DEFINE fs == [e EXCEPT !.last_poll_at = u.last_poll_at]
  <2>1. Apply(st, u) = [st EXCEPT ![u.flow] = fs]
    BY <1>4 DEF Apply, ApplyPollTimestamp
  <2>2. u.last_poll_at \in Times
    BY <1>4 DEF StateUpdate
  <2> HIDE DEF e
  <2>3. /\ fs \in FlowState /\ fs.last_sha = e.last_sha
        /\ fs.last_dispatched_at = e.last_dispatched_at /\ fs.active_runs = e.active_runs
    BY <1>2, <2>2 DEF FlowState, Opt
  <2> HIDE DEF fs
  <2> QED BY <1>3, <2>1, <2>3 DEF e
<1>5. CASE u.type = "RunStarted"
  <2> DEFINE run == [run_id |-> u.run_id, started_at |-> u.started_at,
                     conclusion |-> NULL, completed_at |-> NULL]
             fs == IF HasRun(e.active_runs, u.run_id)
                   THEN e
                   ELSE [e EXCEPT !.active_runs = Append(@, run)]
  <2>1. Apply(st, u) = [st EXCEPT ![u.flow] = fs]
    BY <1>5 DEF Apply, ApplyRunStarted
  <2>2. run \in RunState
    BY <1>5 DEF StateUpdate, RunState, Opt
  <2> HIDE DEF e, run
  <2> DEFINE new == [e EXCEPT !.active_runs = Append(@, run)]
  <2>3. new \in FlowState
    <3>1. e.active_runs \in Seq(RunState)
      BY <1>2 DEF FlowState
    <3>2. Append(e.active_runs, run) \in Seq(RunState)
      BY <2>2, <3>1
    <3> QED BY <1>2, <3>2 DEF FlowState
  <2>4. new.last_sha = e.last_sha /\ new.last_dispatched_at = e.last_dispatched_at
    BY <1>2 DEF FlowState
  <2> HIDE DEF new
  <2>5. /\ fs \in FlowState /\ fs.last_sha = e.last_sha
        /\ fs.last_dispatched_at = e.last_dispatched_at
    BY <1>2, <2>3, <2>4 DEF new
  <2> HIDE DEF fs
  <2> QED BY <1>3, <1>5, <2>1, <2>5 DEF e
<1>6. CASE u.type = "RunFinished"
  <2>1. CASE Apply(st, u) = st
    BY <1>6, <2>1
  <2>2. CASE Apply(st, u) # st
    <3>1. HasRun(e.active_runs, u.run_id) /\ Apply(st, u) = [st EXCEPT ![u.flow] = FinishRun(e, u)]
      BY <1>6, <2>2 DEF Apply, ApplyRunFinished
    <3>2. u.run_id \in RunIds /\ u.conclusion \in Conclusions /\ u.completed_at \in Times
      BY <1>6 DEF StateUpdate
    <3> HIDE DEF e
    <3>3. FinishRun(e, u) \in FlowState
      BY <1>2, <3>1, <3>2, FinishedEntry
    <3>4. /\ FinishRun(e, u).last_sha = e.last_sha
          /\ FinishRun(e, u).last_dispatched_at = e.last_dispatched_at
      BY <1>2 DEF FinishRun, FlowState
    <3> QED BY <1>3, <1>6, <3>1, <3>3, <3>4 DEF e
  <2> QED BY <2>1, <2>2
<1> QED
  BY <1>4, <1>5, <1>6

\* RunStarted adds its run and forgets none (apply_run_started).
LEMMA StartedEffect ==
  ASSUME NEW st \in State, NEW u \in StateUpdate, u.type = "RunStarted",
         NEW r, r = u.run_id \/ HasRun(Entry(st, u.flow).active_runs, r)
  PROVE  HasRun(Entry(Apply(st, u), u.flow).active_runs, r)
<1> DEFINE e == Entry(st, u.flow)
           run == [run_id |-> u.run_id, started_at |-> u.started_at,
                   conclusion |-> NULL, completed_at |-> NULL]
           new == [e EXCEPT !.active_runs = Append(@, run)]
<1>1. u.flow \in Flows
  BY DEF StateUpdate
<1>2. e \in FlowState
  BY <1>1, EntryType
<1>3. run \in RunState /\ run.run_id = u.run_id
  BY DEF StateUpdate, RunState, Opt
<1>4. Apply(st, u) = [st EXCEPT ![u.flow] = IF HasRun(e.active_runs, u.run_id) THEN e ELSE new]
  BY DEF Apply, ApplyRunStarted
<1> HIDE DEF e, run
<1>5. new \in FlowState /\ new.active_runs = Append(e.active_runs, run)
  <2>1. new \in FlowState
    <3>1. e.active_runs \in Seq(RunState)
      BY <1>2 DEF FlowState
    <3>2. Append(e.active_runs, run) \in Seq(RunState)
      BY <1>3, <3>1
    <3> QED BY <1>2, <3>2 DEF FlowState
  <2>2. new.active_runs = Append(e.active_runs, run)
    BY <1>2 DEF FlowState
  <2> QED BY <2>1, <2>2
<1> HIDE DEF new
<1>6. Entry(Apply(st, u), u.flow) = IF HasRun(e.active_runs, u.run_id) THEN e ELSE new
  BY <1>1, <1>2, <1>4, <1>5, NullAssumption DEF Entry, State
<1>7. e.active_runs \in Seq(RunState)
  BY <1>2 DEF FlowState
<1>8. HasRun(new.active_runs, r)
  <2> DEFINE l == Append(e.active_runs, run)
             n == Len(e.active_runs)
  <2>1. n \in Nat /\ DOMAIN l = 1 .. n + 1 /\ l[n + 1] = run /\ \A i \in 1 .. n : l[i] = e.active_runs[i]
    BY <1>3, <1>7
  <2>2. CASE r = u.run_id
    <3>1. n + 1 \in DOMAIN l /\ l[n + 1].run_id = r
      BY <1>3, <2>1, <2>2
    <3> QED BY <1>5, <3>1 DEF HasRun
  <2>3. CASE HasRun(e.active_runs, r)
    <3>1. PICK i \in DOMAIN e.active_runs : e.active_runs[i].run_id = r
      BY <2>3 DEF HasRun
    <3>2. i \in DOMAIN l /\ l[i].run_id = r
      BY <1>7, <2>1, <3>1
    <3> QED BY <1>5, <3>2 DEF HasRun
  <2> QED BY <2>2, <2>3 DEF e
<1> QED
  BY <1>6, <1>8 DEF e

\* RunFinished takes away its own run and no other (apply_run_finished).
LEMMA FinishedEffect ==
  ASSUME NEW st \in State, NEW u \in StateUpdate, u.type = "RunFinished",
         NEW r, r # u.run_id, HasRun(Entry(st, u.flow).active_runs, r)
  PROVE  HasRun(Entry(Apply(st, u), u.flow).active_runs, r)
<1> DEFINE e == Entry(st, u.flow)
           a == e.active_runs
           pos == FirstRun(a, u.run_id)
<1>1. u.flow \in Flows /\ u.run_id \in RunIds /\ u.conclusion \in Conclusions
      /\ u.completed_at \in Times
  BY DEF StateUpdate
<1>2. e \in FlowState /\ a \in Seq(RunState)
  BY <1>1, EntryType DEF FlowState
<1>3. CASE Apply(st, u) = st
  BY <1>3
<1>4. CASE Apply(st, u) # st
  <2>1. HasRun(a, u.run_id) /\ Apply(st, u) = [st EXCEPT ![u.flow] = FinishRun(e, u)]
    BY <1>4 DEF Apply, ApplyRunFinished
  <2>2. pos \in DOMAIN a /\ a[pos].run_id = u.run_id
    BY <1>2, <2>1, FirstRunType
  <2>3. FinishRun(e, u) \in FlowState
    BY <1>1, <1>2, <2>1, FinishedEntry
  <2>4. FinishRun(e, u).active_runs = DropAt(a, pos)
    BY <1>2 DEF FinishRun, FlowState
  <2>5. Entry(Apply(st, u), u.flow) = FinishRun(e, u)
    BY <1>1, <2>1, <2>3, NullAssumption DEF Entry, State
  <2>6. PICK i \in DOMAIN a : a[i].run_id = r
    BY DEF HasRun
  <2> HIDE DEF e, a, pos
  <2>7. /\ DOMAIN DropAt(a, pos) = 1 .. Len(a) - 1
        /\ \A j \in 1 .. Len(a) - 1 :
             DropAt(a, pos)[j] = IF j < pos THEN a[j] ELSE a[j + 1]
    BY <1>2, <2>2, DropAtType
  <2>8. Len(a) \in Nat /\ DOMAIN a = 1 .. Len(a)
    BY <1>2
  <2>9. \E j \in 1 .. Len(a) - 1 : DropAt(a, pos)[j] = a[i]
    <3>1. CASE i < pos
      <4>1. i \in 1 .. Len(a) - 1 /\ DropAt(a, pos)[i] = a[i]
        BY <2>2, <2>6, <2>7, <2>8, <3>1
      <4> QED BY <4>1
    <3>2. CASE ~(i < pos)
      <4>1. i # pos
        BY <2>2, <2>6
      <4>2. i - 1 \in 1 .. Len(a) - 1 /\ DropAt(a, pos)[i - 1] = a[i]
        BY <2>2, <2>6, <2>7, <2>8, <3>2, <4>1
      <4> QED BY <4>2
    <3> QED BY <3>1, <3>2
  <2> QED BY <2>4, <2>5, <2>6, <2>7, <2>9 DEF HasRun
<1> QED
  BY <1>3, <1>4
=============================================================================
