--------------------------- MODULE MCFlowPipeline ---------------------------
(* One flow; with two shas the ref can move away, back, and disappear. *)
EXTENDS FlowPipeline

CONSTANTS f1, s0, s1, s2, success

MCFlows == {f1}
MCShas == {s0, s1}
MCShas3 == {s0, s1, s2}
MCTimes == 0 .. MaxClock + COOLDOWN
MCRunIds == 1 .. MaxRuns
MCConclusions == {success}
=============================================================================
