--------------------------- MODULE FileDownloader ---------------------------
(***************************************************************************)
(* PrintFileDownloaderService: the file of a print that was started at the *)
(* printer is fetched, stored, analysed and linked to its job.             *)
(***************************************************************************)
EXTENDS AnalysisTask

(* reAnalyzeJob of a job without a file.                                   *)
Trigger(w, j) ==
    /\ Called /\ Free(w)
    /\ There(j) /\ job[j].file = NoFile
    /\ Begin(w, "download", "read", j, NoRow, NoFile)
    /\ missed' = missed \ {j}
    /\ UNCHANGED <<job, bytes, json, todo, unseen, up, late>>

(* The observer has read the row of a print that starts.  Only when the    *)
(* thumbnail has been looked up does it ask for a file that is missing.    *)
Observe(w, j) ==
    /\ unseen' = unseen \ {j}
    /\ missed' = missed \ {j}
    /\ IF Unknown(job'[j])
       THEN Free(w) /\ Begin(w, "download", "shown", j, NoRow, NoFile)
       ELSE UNCHANGED work

AskForFile(w) ==
    /\ At(w, "shown")
    /\ Goto(w, "read")
    /\ UNCHANGED <<job, json, late, others>>

(* A job that is gone or has a file by now is left alone.                  *)
ReadJob(w) ==
    /\ At(w, "read")
    /\ LET j == work[w].job IN
       IF There(j) /\ job[j].file = NoFile
       THEN work' = [work EXCEPT ![w].at = "fetch", ![w].row = job[j]]
       ELSE Ends(w)
    /\ UNCHANGED <<job, json, late, others>>

(* The download ends, well or not: it is cut off after 30 seconds without  *)
(* data, and after 15 minutes.                                             *)
Fetch(w) ==
    /\ At(w, "fetch")
    /\ Goto(w, "find") \/ Goto(w, "giveup")
    /\ UNCHANGED <<job, json, late, others>>

(* The path was wrong, a search found the file: the new path is saved.     *)
SavePath(w) ==
    /\ At(w, "fetch")
    /\ Save(work[w].job, work[w].row)
    /\ Goto(w, "find") \/ Goto(w, "giveup")
    /\ UNCHANGED <<json, others>>

GiveUp(w) ==
    /\ At(w, "giveup")
    /\ Save(work[w].job, Mended(work[w].row, "FAILED"))
    /\ Ends(w)
    /\ UNCHANGED <<json, others>>

SameContent(j) == {k \in Jobs : There(k) /\ job[k].file # NoFile /\ Content[k] = Content[j]}

(* findDuplicateByHash: the newest row with this hash lends its file.      *)
UseDuplicate(w, k) ==
    /\ At(w, "find")
    /\ k \in SameContent(work[w].job)
    /\ \A m \in SameContent(work[w].job) : m <= k
    /\ work' = [work EXCEPT
          ![w].file = job[k].file,
          ![w].at = IF job[k].file \in json \intersect bytes THEN "link"
                    ELSE IF job[k].an = "ANALYZED" THEN "json" ELSE "analyze"]
    /\ UNCHANGED <<job, json, late, others>>

(* A new file is analysed before it is stored.                             *)
Parse(w) ==
    /\ At(w, "find")
    /\ SameContent(work[w].job) = {}
    /\ Goto(w, "store") \/ Goto(w, "blame")
    /\ UNCHANGED <<job, json, late, others>>

SaveFile(w) ==
    /\ At(w, "store")
    /\ LET f == IdOf[work[w].job] IN
       /\ bytes' = bytes \union {f}
       /\ work' = [work EXCEPT ![w].file = f, ![w].at = "json"]
    /\ UNCHANGED <<job, json, todo, unseen, up, budget, late, missed>>

Link(w) ==
    /\ At(w, "link")
    /\ Save(work[w].job, [work[w].row EXCEPT !.file = work[w].file, !.an = "ANALYZED"])
    /\ Ends(w)
    /\ UNCHANGED <<json, others>>

(* The outer catch reads the row again to mark it.                         *)
Blame(w) ==
    /\ At(w, "blame")
    /\ LET j == work[w].job IN
       IF There(j) THEN work' = [work EXCEPT ![w].at = "giveup", ![w].row = job[j]]
                   ELSE Ends(w)
    /\ UNCHANGED <<job, json, late, others>>

=============================================================================
