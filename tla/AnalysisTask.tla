---------------------------- MODULE AnalysisTask ----------------------------
(***************************************************************************)
(* PrintJobAnalysisTask, which runs every 30 seconds over the rows that it *)
(* has read at its start, and PrintJobController.reAnalyzeJob.             *)
(***************************************************************************)
EXTENDS AnalysisState

others == <<bytes, todo, unseen, up, budget, missed>>

(* With a bug: rows that a crash left in ANALYZING are not looked for.     *)
UnanalyzedOnly(j) == job[j].st = "PENDING" /\ job[j].an = "NOT_ANALYZED"
Pending(j) ==
    \/ job[j].st = "PENDING" /\ job[j].an = "NOT_ANALYZED"
    \/ There(j) /\ job[j].an = "ANALYZING"

Run ==
    /\ up
    /\ work[Task] = Idle /\ \A j \in Jobs : todo[j] = NoRow
    /\ \E j \in Jobs : Pending(j)
    /\ todo' = [j \in Jobs |-> IF Pending(j) THEN job[j] ELSE NoRow]
    /\ UNCHANGED <<job, bytes, json, work, unseen, up, budget, late, missed>>

(* The next row of the batch, as it was when the batch was read.           *)
Mark(j) ==
    /\ work[Task] = Idle /\ todo[j] # NoRow
    /\ \A k \in 1 .. j - 1 : todo[k] = NoRow
    /\ Save(j, Mended(todo[j], "ANALYZING"))
    /\ Begin(Task, "task", IF todo[j].file = NoFile THEN "fail" ELSE "look",
             j, todo[j], todo[j].file)
    /\ todo' = [todo EXCEPT ![j] = NoRow]
    /\ UNCHANGED <<bytes, json, unseen, up, budget, missed>>

(* Cached metadata save the analysis.                                      *)
Look ==
    /\ At(Task, "look")
    /\ Goto(Task, IF work[Task].file \notin bytes THEN "fail"
                  ELSE IF work[Task].file \in json THEN "report" ELSE "analyze")
    /\ UNCHANGED <<job, json, late, others>>

Fail ==
    /\ At(Task, "fail")
    /\ Save(work[Task].job, Mended(work[Task].row, "FAILED"))
    /\ Ends(Task)
    /\ UNCHANGED <<json, others>>

(* reAnalyzeJob of a job with a file; without one it starts a download.    *)
ReAnalyze(w, j) ==
    /\ Called /\ Free(w)
    /\ There(j) /\ job[j].file \in bytes
    /\ Begin(w, "reanalyze", "mark", j, job[j], job[j].file)
    /\ UNCHANGED <<job, bytes, json, todo, unseen, up, late, missed>>

MarkAgain(w) ==
    /\ At(w, "mark")
    /\ Save(work[w].job, Mended(work[w].row, "ANALYZING"))
    /\ Goto(w, "analyze")
    /\ UNCHANGED <<json, others>>

AfterError(w) ==
    CASE work[w].op = "task" -> Goto(w, "fail")
      [] work[w].op = "download" -> Goto(w, "blame")
      [] OTHER -> Ends(w)

(* analyzeFile of a file in storage.                                       *)
Analyze(w) ==
    /\ At(w, "analyze")
    /\ \/ /\ work[w].file \in bytes
          /\ Goto(w, IF work[w].op = "reanalyze" THEN "report" ELSE "json")
       \/ AfterError(w)
    /\ UNCHANGED <<job, json, late, others>>

(* saveMetadata does nothing for a file that is gone.                      *)
SaveMetadata(w) ==
    /\ At(w, "json")
    /\ json' = json \union ({work[w].file} \intersect bytes)
    /\ CASE work[w].op = "task" -> Goto(w, "report")
         [] work[w].op = "download" -> Goto(w, "link")
         [] OTHER -> Ends(w)
    /\ UNCHANGED <<job, late, others>>

(* handleFileAnalyzed reads the row again and saves it whole.              *)
Report(w) ==
    /\ At(w, "report")
    /\ IF There(work[w].job)
       THEN work' = [work EXCEPT ![w].at = "save", ![w].row = job[work[w].job]]
       ELSE AfterError(w)
    /\ UNCHANGED <<job, json, late, others>>

SaveAnalyzed(w) ==
    /\ At(w, "save")
    /\ Save(work[w].job, Mended(work[w].row, "ANALYZED"))
    /\ IF work[w].op = "task" THEN Ends(w) ELSE Goto(w, "json")
    /\ UNCHANGED <<json, others>>

=============================================================================
