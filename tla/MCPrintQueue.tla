---- MODULE MCPrintQueue ----
(* Instances of PrintQueue for TLC. *)
EXTENDS PrintQueue, TLC

CONSTANTS r1, r2, r3, r4, f1, f2

Symmetry == Permutations(Requests)
QueueOne == <<f1>>
QueueTwo == <<f1, f2>>
=============================
