----------------------------- MODULE MCAnalyses -----------------------------
(* Instances of Analyses for TLC. *)
EXTENDS Analyses, TLC

CONSTANTS task, w1, w2, f1, f2, none

SameContent2 == <<"a", "a">>
OwnNames == <<f1, f2>>
=============================================================================
