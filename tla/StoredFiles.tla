---------------------------- MODULE StoredFiles ----------------------------
(***************************************************************************)
(* PrintJobController.deleteJob: the row goes first, then the file, if it  *)
(* was asked for and no other job refers to it.                            *)
(***************************************************************************)
EXTENDS InboxState

rest == <<item, staged, log, reason, line, up, torn, late, blanked>>

DeleteJob(c, j) ==
    /\ j \in JobRows
    /\ Begin(c, "deleteJob", "count", job[j].item, j, job[j].filed)
    /\ job' = [job EXCEPT ![j].st = "deleted"]
    /\ UNCHANGED <<stored, rest>>

References(f) == {j \in JobRows : job[j].filed /\ FileOf[job[j].item] = f}

(* With a bug: one reference is taken for that of the deleted job.         *)
CountOffByOne(c) ==
    /\ At(c, "count")
    /\ IF call[c].known /\ Cardinality(References(FileOf[call[c].item])) <= 1
       THEN Goto(c, "erase") ELSE Answered(c)
    /\ UNCHANGED <<job, stored, budget, rest>>
CountReferences(c) ==
    /\ At(c, "count")
    /\ IF call[c].known /\ References(FileOf[call[c].item]) = {}
       THEN Goto(c, "erase") ELSE Answered(c)
    /\ UNCHANGED <<job, stored, budget, rest>>

DeleteFile(c) ==
    /\ At(c, "erase")
    /\ stored' = stored \ {FileOf[call[c].item]}
    /\ Answered(c)
    /\ UNCHANGED <<job, budget, rest>>

=============================================================================
