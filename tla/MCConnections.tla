--------------------------- MODULE MCConnections ---------------------------
(* Instances of Connections for TLC. *)
EXTENDS Connections

CONSTANTS c1, c2, u1, u2

FirstRows == {[enabled |-> TRUE, url |-> u1, login |-> TRUE]}
=============================================================================
