---------------------------- MODULE MCSupervisor ----------------------------
(* Two flows, and the configurations that a reload moves between. *)
EXTENDS Supervisor

CONSTANTS a, b, u1, u2

MCFlows == {a, b}
MCUrls == {u1, u2}

On(url, rev) == [enabled |-> TRUE, url |-> url, rev |-> rev]
Off(url) == [enabled |-> FALSE, url |-> url, rev |-> 0]

Config(ca, cb) == [f \in MCFlows |-> IF f = a THEN ca ELSE cb]

\* a is edited, moved to another URL, disabled or removed, while b is added, kept or
\* removed; both have tasks at a time when a drain reaches its limit.
MCConfigs ==
  {Config(ca, NULL) : ca \in {On(u1, 0), On(u1, 1), On(u2, 0)}}
    \cup {Config(ca, On(u1, 0)) : ca \in {Off(u1), NULL}}

\* For the findings about a kept flow: both are enabled, and b is never edited.
KeptFlowConfigs ==
  {Config(ca, On(u1, 0)) : ca \in {On(u1, 0), On(u1, 1), Off(u1), NULL}}
=============================================================================
