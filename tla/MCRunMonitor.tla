---------------------------- MODULE MCRunMonitor ----------------------------
(* A mail notifier, a webhook and a delivery agent, for one run. *)
EXTENDS RunMonitor

CONSTANTS m1, w1

MCMailers == {m1}
MCWebhooks == {w1}
MCListening == {m1, w1}
=============================================================================
