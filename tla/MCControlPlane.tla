--------------------------- MODULE MCControlPlane ---------------------------
(* Two clients of one daemon, which may be started twice. *)
EXTENDS ControlPlane

CONSTANTS c1, c2

MCClients == {c1, c2}
MCAsks == [c \in MCClients |-> IF c = c1 THEN {"trigger", "reload"} ELSE Kinds]
=============================================================================
