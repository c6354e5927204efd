---------------------------- MODULE MCDeployment ----------------------------
(* Two daemons, a unit and the configuration. *)
EXTENDS Deployment, TLC

CONSTANTS p1, p2

MCProcs == {p1, p2}
\* The daemons are interchangeable: nothing tells p1 from p2.
Symmetry == Permutations(MCProcs)
MCOutputs == <<"service", "config">>
=============================================================================
