--------------------------- MODULE MCStateWriter ----------------------------
(* One flow, two runs: enough for duplicated, late and unknown run updates. *)
EXTENDS StateWriter

CONSTANTS f1, sNew, t1, success

MCFlows == {f1}
MCShas == {sNew}
MCTimes == {t1}
MCRunIds == {1, 2}
MCConclusions == {success}

Observation(sha, dispatched) ==
  [type |-> "PollObservation", flow |-> f1, last_sha |-> sha, last_poll_at |-> t1,
   last_dispatched_at |-> dispatched, cooldown_until |-> dispatched]

MCUpdates ==
  {Observation(sNew, t1)}
  \cup {[type |-> "RunStarted", flow |-> f1, run_id |-> r, started_at |-> t1] : r \in MCRunIds}
  \cup {[type |-> "RunFinished", flow |-> f1, run_id |-> r,
         conclusion |-> success, completed_at |-> t1] : r \in MCRunIds}
  \cup {[type |-> "FlowRemoved", flow |-> f1]}
=============================================================================
