---------------------------- MODULE MCPrintTracking ----------------------------
(* Instances of PrintTracking for TLC. *)
EXTENDS PrintTracking

CONSTANTS c1, f1, f2

QueueOne == <<f1>>
=============================================================================
