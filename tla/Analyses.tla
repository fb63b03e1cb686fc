------------------------------ MODULE Analyses ------------------------------
(***************************************************************************)
(* The analysis task, downloads and re-analyses together with what else    *)
(* happens to the rows and files meanwhile, and with crashes.              *)
(***************************************************************************)
EXTENDS FileDownloader

New(j) == job[j].st = "none" /\ \A k \in 1 .. j - 1 : job[k].st # "none"

(* from-usb-file: the file is on the printer.                              *)
QueueFromPrinter(j) ==
    /\ Called /\ New(j)
    /\ job' = [job EXCEPT ![j] = [NoRow EXCEPT !.st = "PENDING"]]
    /\ UNCHANGED <<bytes, json, work, todo, unseen, up, late, missed>>

(* from-file: a file of the library that has its metadata.                 *)
FromFile(j, f) ==
    /\ Called /\ New(j)
    /\ f \in {IdOf[k] : k \in {m \in Jobs : Content[m] = Content[j]}} \intersect bytes
    /\ f \in json
    /\ Save(j, [st |-> "PENDING", an |-> "ANALYZED", file |-> f])
    /\ UNCHANGED <<bytes, json, work, todo, unseen, up, missed>>

(* An upload for a printer stores a new file, and its metadata tell what   *)
(* the analysis has found.                                                 *)
Upload(j, an) ==
    /\ Called /\ New(j)
    /\ SameContent(j) = {}
    /\ Save(j, [st |-> "PENDING", an |-> an, file |-> IdOf[j]])
    /\ bytes' = bytes \union {IdOf[j]}
    /\ json' = json \union {IdOf[j]}
    /\ UNCHANGED <<work, todo, unseen, up, missed>>

(* The bytes of an earlier upload are used again; without metadata it must *)
(* be there to be analysed.                                                *)
UploadAgain(j, k, an) ==
    /\ Called /\ New(j)
    /\ k \in SameContent(j) /\ \A m \in SameContent(j) : m <= k
    /\ job[k].an = "ANALYZED" \/ job[k].file \in bytes
    /\ Save(j, [st |-> "PENDING", an |-> an, file |-> job[k].file])
    /\ json' = json \union ({job[k].file} \intersect bytes)
    /\ UNCHANGED <<bytes, work, todo, unseen, up, missed>>

(* handlePrintStarted for a file that is new here.                         *)
StartUnknown(w, j) ==
    /\ Called /\ New(j)
    /\ job' = [job EXCEPT ![j] = [NoRow EXCEPT !.st = "PRINTING"]]
    /\ Observe(w, j)
    /\ UNCHANGED <<bytes, json, todo, up, late>>

(* A print of a file that an earlier job has printed: the new row takes    *)
(* over the state of the analysis, but not the file.                       *)
Reprint(w, j, k) ==
    /\ Called /\ New(j) /\ job[k].st = "COMPLETED" /\ Content[k] = Content[j]
    /\ job' = [job EXCEPT ![j] = [st |-> "PRINTING", an |-> job[k].an, file |-> NoFile]]
    /\ Observe(w, j)
    /\ UNCHANGED <<bytes, json, todo, up, late>>

(* It takes a job over that waits or is being dispatched, or a paused one  *)
(* whose printer was in another state since.                               *)
Adopt(w, j) ==
    /\ Called /\ job[j].st \in {"PENDING", "QUEUED", "PAUSED"}
    /\ job' = [job EXCEPT ![j].st = "PRINTING"]
    /\ Observe(w, j)
    /\ UNCHANGED <<bytes, json, todo, up, late>>

(* A job can be queued whatever its status.                                *)
AddToQueue(j) ==
    /\ Called /\ There(j)
    /\ job' = [job EXCEPT ![j].st = "QUEUED"]
    /\ UNCHANGED <<bytes, json, work, todo, unseen, up, late, missed>>

Complete(j) ==
    /\ Called /\ job[j].st \in {"PRINTING", "PAUSED"}
    /\ job' = [job EXCEPT ![j].st = "COMPLETED"]
    /\ unseen' = unseen \ {j} /\ missed' = missed \ {j}
    /\ UNCHANGED <<bytes, json, work, todo, up, late>>

(* A dispatch saves that its job prints.  The observer has yet to see it,  *)
(* and never does when no poll came between the end of the print before    *)
(* and this one.                                                           *)
StartKnown(j) ==
    /\ Called /\ job[j].st \in {"PENDING", "QUEUED"}
    /\ job' = [job EXCEPT ![j].st = "PRINTING"]
    /\ \/ unseen' = unseen \union {j} /\ missed' = missed \ {j}
       \/ unseen' = unseen \ {j} /\ missed' = missed \union {k \in {j} : Unknown(job'[k])}
    /\ UNCHANGED <<bytes, json, work, todo, up, late>>

(* handlePrintStarted for a job that is PRINTING already.                  *)
SeeStart(w, j) ==
    /\ up /\ j \in unseen /\ job[j].st = "PRINTING"
    /\ UNCHANGED <<job, bytes, json, todo, up, budget, late>>
    /\ Observe(w, j)

(* A first reading of PAUSED takes the place of the start, and what        *)
(* follows it is a resumption.                                             *)
Pause(j) ==
    /\ Called /\ job[j].st = "PRINTING"
    /\ job' = [job EXCEPT ![j].st = "PAUSED"]
    /\ unseen' = unseen \ {j}
    /\ missed' = missed \union {k \in unseen \intersect {j} : Unknown(job[k])}
    /\ UNCHANGED <<bytes, json, work, todo, up, late>>

Resume(j) ==
    /\ Called /\ job[j].st = "PAUSED"
    /\ job' = [job EXCEPT ![j].st = "PRINTING"]
    /\ UNCHANGED <<bytes, json, work, todo, unseen, up, late, missed>>

(* A poll reads BUSY or ATTENTION, or the printer is disabled for a while: *)
(* when PRINTING is read again the print is taken for a new start.         *)
Interrupt(j) ==
    /\ Called /\ job[j].st = "PRINTING"
    /\ unseen' = unseen \union {j} /\ missed' = missed \ {j}
    /\ UNCHANGED <<job, bytes, json, work, todo, up, late>>

(* deleteJob, of the row alone or with its file.  A job that prints has no *)
(* progress, and can be deleted, as long as the observer has not seen it.  *)
Delete(w, j) ==
    /\ Called /\ Free(w)
    /\ There(j) /\ (job[j].st \in {"PRINTING", "PAUSED"} => j \in unseen)
    /\ job' = [job EXCEPT ![j] = Gone]
    /\ \/ UNCHANGED work
       \/ job[j].file # NoFile /\ Begin(w, "delete", "count", j, NoRow, job[j].file)
    /\ UNCHANGED <<bytes, json, todo, unseen, up, late, missed>>

References(f) == {j \in Jobs : There(j) /\ job[j].file = f}

(* With a bug: one reference is taken for that of the deleted job.         *)
CountOffByOne(w) ==
    /\ At(w, "count")
    /\ IF Cardinality(References(work[w].file)) <= 1 THEN Goto(w, "erase") ELSE Ends(w)
    /\ UNCHANGED <<job, json, late, others>>
Count(w) ==
    /\ At(w, "count")
    /\ IF References(work[w].file) = {} THEN Goto(w, "erase") ELSE Ends(w)
    /\ UNCHANGED <<job, json, late, others>>

Erase(w) ==
    /\ At(w, "erase")
    /\ bytes' = bytes \ {work[w].file}
    /\ json' = json \ {work[w].file}
    /\ late' = late \union {f \in {work[w].file} : Held(f)}
    /\ Ends(w)
    /\ UNCHANGED <<job, todo, unseen, up, budget, missed>>

Fetching(j) == \E w \in Workers : work[w].op = "download" /\ work[w].job = j

(* After it the observer is told that the jobs in PRINTING print, so that  *)
(* it sees no start of theirs.                                             *)
Crash ==
    /\ Called
    /\ up' = FALSE
    /\ work' = [w \in Workers |-> Idle]
    /\ todo' = [j \in Jobs |-> NoRow]
    /\ unseen' = {}
    /\ missed' = missed \union {j \in Jobs : Unknown(job[j]) /\ (j \in unseen \/ Fetching(j))}
    /\ UNCHANGED <<job, bytes, json, late>>
Boot ==
    /\ ~ up
    /\ up' = TRUE
    /\ UNCHANGED <<job, bytes, json, work, todo, unseen, budget, late, missed>>

(* A row from before metadata were cached may have a file without them.    *)
Init ==
    /\ \E an \in {"NOT_ANALYZED", "ANALYZED"}, cached \in BOOLEAN :
          /\ cached => an = "ANALYZED"
          /\ job = [j \in Jobs |->
                      IF j = 1 THEN [st |-> "PENDING", an |-> an, file |-> IdOf[1]] ELSE NoRow]
          /\ json = IF cached THEN {IdOf[1]} ELSE {}
    /\ bytes = {IdOf[1]}
    /\ work = [w \in Workers |-> Idle]
    /\ todo = [j \in Jobs |-> NoRow]
    /\ up = TRUE /\ budget = MaxCalls
    /\ late = {} /\ unseen = {} /\ missed = {}

Request(w) ==
    \E j \in Jobs :
       \/ ReAnalyze(w, j) \/ Trigger(w, j) \/ Delete(w, j)
       \/ StartUnknown(w, j) \/ Adopt(w, j)
       \/ \E k \in Jobs : Reprint(w, j, k)

Elsewhere ==
    \E j \in Jobs :
       \/ QueueFromPrinter(j) \/ AddToQueue(j)
       \/ StartKnown(j) \/ Pause(j) \/ Resume(j) \/ Interrupt(j) \/ Complete(j)
       \/ \E f \in Files : FromFile(j, f)
       \/ \E an \in {"NOT_ANALYZED", "ANALYZED"} :
             Upload(j, an) \/ \E k \in Jobs : UploadAgain(j, k, an)

Working(w) == Analyze(w) \/ SaveMetadata(w) \/ Report(w) \/ SaveAnalyzed(w)

TaskStep == Run \/ Look \/ Fail \/ Working(Task) \/ \E j \in Jobs : Mark(j)

HandlerStep(w) ==
    \/ MarkAgain(w) \/ Working(w)
    \/ AskForFile(w) \/ ReadJob(w) \/ Fetch(w) \/ SavePath(w) \/ GiveUp(w)
    \/ Parse(w) \/ SaveFile(w) \/ Link(w) \/ Blame(w)
    \/ \E k \in Jobs : UseDuplicate(w, k)
    \/ Count(w) \/ Erase(w)

ObserverStep == \E w \in Handlers, j \in Jobs : SeeStart(w, j)

Next ==
    \/ TaskStep \/ ObserverStep
    \/ \E w \in Handlers : Request(w) \/ HandlerStep(w)
    \/ Elsewhere \/ Crash \/ Boot

(* The interval fires again and again, database and disk answer, downloads *)
(* have their timeouts, a crashed server is started again, and a printer   *)
(* that prints is polled and answers.                                      *)
Fairness ==
    /\ WF_vars(Boot) /\ WF_vars(TaskStep) /\ WF_vars(ObserverStep)
    /\ \A w \in Handlers : WF_vars(HandlerStep(w))

Spec == Init /\ [][Next]_vars /\ Fairness

----------------------------------------------------------------------------

WorkType == [op : {"none", "task", "reanalyze", "download", "delete"},
             at : {"idle", "mark", "look", "analyze", "json", "report", "save", "fail",
                   "shown", "read", "fetch", "find", "store", "link", "blame", "giveup",
                   "count", "erase"},
             job : Jobs \union {0}, row : Rows, file : Files \union {NoFile}]

TypeOK ==
    /\ job \in [Jobs -> Rows] /\ bytes \subseteq Files /\ json \subseteq Files
    /\ work \in [Workers -> WorkType] /\ todo \in [Jobs -> Rows]
    /\ unseen \subseteq Jobs
    /\ up \in BOOLEAN /\ budget \in 0 .. MaxCalls
    /\ late \subseteq Files \union {NoFile} /\ missed \subseteq Jobs

(* The file that a job names is in storage, unless it was deleted with     *)
(* another job just while somebody was about to name it.                   *)
NamedFilesThere ==
    \A j \in Jobs : There(j) /\ job[j].file \notin late \union {NoFile} => job[j].file \in bytes

Unsettled(j) == job[j].an = "ANALYZING" \/ (Unknown(job[j]) /\ j \notin missed)

(* Every analysis ends: what an error or a crash left in ANALYZING is      *)
(* taken up by a later run of the task, and a print of a file that was     *)
(* unknown here is analysed or marked as failed.  The observer must have   *)
(* seen the print start: not so when the server stopped between the        *)
(* dispatch's save and the next poll, while the observer looked up the     *)
(* thumbnail or during the download; when PAUSED was the first state to be *)
(* read of the print; or when no poll fell between it and the print        *)
(* before.                                                                 *)
AnalysesEnd == \A j \in Jobs : Unsettled(j) ~> ~ Unsettled(j)

(* A job that has got its file keeps it: a second download of the same     *)
(* file does not take it away.                                             *)
LinkKept ==
    [][\A j \in Jobs :
          There(j) /\ There(j)' /\ job[j].file # NoFile => job'[j].file # NoFile]_vars

=============================================================================
