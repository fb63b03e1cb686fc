------------------------------ MODULE MCInbox ------------------------------
(* Instances of Inbox for TLC. *)
EXTENDS Inbox

CONSTANTS c1, c2, f1

SameFile == <<f1, f1>>
=============================================================================
