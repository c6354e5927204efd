--------------------------- MODULE CrashSafeStore ---------------------------
(***************************************************************************)
(* What the state writer promises to the rest of the daemon, without       *)
(* files, batches or failures: a current state that changes one update at  *)
(* a time, the set of states a restart may come back with, and the view    *)
(* that `gcit status` and a flow's (re)spawn read.                         *)
(*                                                                         *)
(*   - what a restart finds is a state the writer really went through, and *)
(*     once a write is acknowledged it is nothing older than that write;   *)
(*   - the view moves only to a state that no crash can take back.         *)
(***************************************************************************)
CONSTANTS
  Updates,        \* the updates producers send
  DefaultState,   \* the state before any update
  Apply(_, _)     \* the state after an update

VARIABLES
  up,        \* a daemon is running
  current,   \* the state in its memory, or the one the next daemon would load
  stable,    \* states a crash may leave behind
  view       \* the state readers are shown

Init ==
  /\ up = FALSE
  /\ current = DefaultState
  /\ stable = {DefaultState}
  /\ view = DefaultState

Start ==
  /\ ~up
  /\ up' = TRUE
  /\ UNCHANGED <<current, stable, view>>

Step(u) ==
  /\ up
  /\ current' = Apply(current, u)
  /\ UNCHANGED <<up, stable, view>>

\* A write that is not acknowledged yet may or may not survive.
Attempt ==
  /\ up
  /\ stable' = stable \cup {current}
  /\ UNCHANGED <<up, current, view>>

Acknowledge ==
  /\ up
  /\ stable' = {current}
  /\ UNCHANGED <<up, current, view>>

Show ==
  /\ up
  /\ stable = {current}
  /\ view' = current
  /\ UNCHANGED <<up, current, stable>>

\* The process ends, cleanly or not; the next one starts from what it finds.
Stop ==
  /\ up' = FALSE
  /\ stable' \in SUBSET stable
  /\ \E s \in stable' : current' = s /\ view' = s

Next ==
  \/ Start
  \/ \E u \in Updates : Step(u)
  \/ Attempt
  \/ Acknowledge
  \/ Show
  \/ Stop

vars == <<up, current, stable, view>>

Spec == Init /\ [][Next]_vars
=============================================================================
