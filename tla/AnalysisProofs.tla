--------------------------- MODULE AnalysisProofs ---------------------------
(***************************************************************************)
(* Proofs about Analyses for any number of jobs, files and handlers: its   *)
(* types, and that a job's file is in storage.                             *)
(*                                                                         *)
(* A row gets its file from whoever saves it, so the inductive invariant   *)
(* follows a file through every hand: the rows, the copies that workers    *)
(* and the task have read, and the files they are about to name.  A file   *)
(* that is about to be erased is named by no row, except a late one.       *)
(***************************************************************************)
EXTENDS Analyses, TLAPS

(* What each step of a worker relies on.                                   *)
Placed ==
    \A w \in Workers :
       /\ work[w].op = "none" => work[w].at = "idle"
       /\ work[w].op = "delete" <=> work[w].at \in {"count", "erase"}
       /\ work[w].at # "idle" => work[w].job \in Jobs

Kept(f) == f \in late \union {NoFile} \/ f \in bytes

RowsKept == \A j \in Jobs : There(j) => Kept(job[j].file)
HandsKept ==
    /\ \A w \in Workers : work[w].op # "delete" => Kept(work[w].row.file) /\ Kept(work[w].file)
    /\ \A j \in Jobs : Kept(todo[j].file)
NobodyNames ==
    \A w \in Workers, j \in Jobs :
       At(w, "erase") /\ There(j) /\ job[j].file = work[w].file =>
          job[j].file \in late \union {NoFile}

FilesInv == RowsKept /\ HandsKept /\ NobodyNames
IInv == TypeOK /\ Placed /\ FilesInv

----------------------------------------------------------------------------

LEMMA RowFacts ==
  /\ NoRow \in Rows /\ Gone \in Rows /\ NoFile \notin Files
  /\ NoRow.file = NoFile /\ Gone.st = "deleted" /\ Gone.file = NoFile
  /\ \A r \in Rows, an \in {"NOT_ANALYZED", "ANALYZING", "ANALYZED", "FAILED"} :
        Mended(r, an) \in Rows /\ Mended(r, an).file = r.file
  BY NamesAssumption DEF NoRow, Gone, Rows, Mended

LEMMA IdleFacts ==
  /\ Idle \in WorkType
  /\ Idle.op = "none" /\ Idle.at = "idle" /\ Idle.row.file = NoFile /\ Idle.file = NoFile
  BY RowFacts DEF Idle, WorkType

LEMMA Spent == TypeOK /\ Called => budget' \in 0 .. MaxCalls
  BY SizesAssumption DEF TypeOK, Called

(* The ways in which a step changes the record of its worker.              *)
LEMMA GotoType ==
  ASSUME TypeOK, NEW w, NEW at \in {"idle", "mark", "look", "analyze", "json", "report", "save",
             "fail", "shown", "read", "fetch", "find", "store", "link", "blame", "giveup", "count",
             "erase"},
         Goto(w, at)
  PROVE  work' \in [Workers -> WorkType]
<1>1. ASSUME w \in Workers PROVE [work[w] EXCEPT !.at = at] \in WorkType
  BY <1>1 DEF TypeOK, WorkType
<1> QED
  BY <1>1 DEF TypeOK, Goto

LEMMA EndsType == ASSUME TypeOK, NEW w, Ends(w) PROVE work' \in [Workers -> WorkType]
  BY IdleFacts DEF TypeOK, Ends

LEMMA BeginType ==
  ASSUME TypeOK, NEW w, NEW op \in {"none", "task", "reanalyze", "download", "delete"},
         NEW at \in {"mark", "look", "fail", "shown", "read", "count"},
         NEW j \in Jobs, NEW r \in Rows, NEW f \in Files \union {NoFile},
         Begin(w, op, at, j, r, f)
  PROVE  work' \in [Workers -> WorkType]
<1>1. [op |-> op, at |-> at, job |-> j, row |-> r, file |-> f] \in WorkType
  BY DEF WorkType
<1> QED
  BY <1>1 DEF TypeOK, Begin

LEMMA SaveType ==
  ASSUME TypeOK, NEW j, NEW r \in Rows, Save(j, r)
  PROVE  job' \in [Jobs -> Rows] /\ late' \subseteq Files \union {NoFile}
  BY DEF TypeOK, Save, Rows

LEMMA InitType == Init => TypeOK
<1> SUFFICES ASSUME Init PROVE TypeOK
  OBVIOUS
<1>1. 1 \in Jobs /\ IdOf[1] \in Files
  BY SizesAssumption DEF Jobs, Files
<1>2. PICK an \in {"NOT_ANALYZED", "ANALYZED"} :
         job = [j \in Jobs |->
                  IF j = 1 THEN [st |-> "PENDING", an |-> an, file |-> IdOf[1]] ELSE NoRow]
  BY DEF Init
<1>3. [st |-> "PENDING", an |-> an, file |-> IdOf[1]] \in Rows
  BY <1>1 DEF Rows
<1>4. job \in [Jobs -> Rows]
  BY <1>2, <1>3, RowFacts
<1>5. json \subseteq Files /\ bytes \subseteq Files
  BY <1>1 DEF Init
<1> QED
  BY <1>4, <1>5, RowFacts, IdleFacts, SizesAssumption DEF Init, TypeOK

(* Whoever has a worker's record in hand has a row in hand.                *)
LEMMA InHand ==
  ASSUME TypeOK, NEW w \in Workers
  PROVE  /\ work[w].row \in Rows /\ work[w].file \in Files \union {NoFile}
         /\ work[w].job \in Jobs \union {0} /\ work[w] \in WorkType
  BY DEF TypeOK, WorkType

LEMMA AfterErrorType ==
  ASSUME TypeOK, NEW w \in Workers, AfterError(w) PROVE work' \in [Workers -> WorkType]
  BY GotoType, EndsType DEF AfterError

LEMMA ReadType ==
  ASSUME TypeOK, NEW w \in Workers, NEW j \in Jobs, NEW at \in {"save", "fetch", "giveup"},
         work' = [work EXCEPT ![w].at = at, ![w].row = job[j]]
  PROVE  work' \in [Workers -> WorkType]
<1>1. job[j] \in Rows /\ [work[w] EXCEPT !.at = at] \in WorkType
  BY InHand DEF TypeOK, WorkType
<1>2. [[work[w] EXCEPT !.at = at] EXCEPT !.row = job[j]] \in WorkType
  BY <1>1 DEF WorkType
<1> QED
  BY <1>2 DEF TypeOK

LEMMA ObserveType ==
  ASSUME TypeOK, NEW w, NEW j \in Jobs, Observe(w, j)
  PROVE  /\ work' \in [Workers -> WorkType]
         /\ unseen' \subseteq Jobs /\ missed' \subseteq Jobs
<1>1. work' \in [Workers -> WorkType]
  BY RowFacts, BeginType DEF Observe, TypeOK
<1> QED
  BY <1>1 DEF Observe, TypeOK

LEMMA StepType == TypeOK /\ Placed /\ [Next]_vars => TypeOK'
<1> SUFFICES ASSUME TypeOK, Placed, [Next]_vars PROVE TypeOK'
  OBVIOUS
<1> USE RowFacts
<1>1. CASE Run
  <2>1. todo' \in [Jobs -> Rows]
    BY <1>1 DEF Run, TypeOK
  <2> QED
    BY <1>1, <2>1 DEF Run, TypeOK
<1>2. ASSUME NEW j \in Jobs, Mark(j) PROVE TypeOK'
  <2>1. todo[j] \in Rows /\ todo[j].file \in Files \union {NoFile}
    BY DEF TypeOK, Rows
  <2>2. job' \in [Jobs -> Rows] /\ late' \subseteq Files \union {NoFile}
    BY <1>2, <2>1, SaveType DEF Mark
  <2>3. work' \in [Workers -> WorkType] /\ todo' \in [Jobs -> Rows]
    BY <1>2, <2>1, BeginType DEF Mark, TypeOK
  <2> QED
    BY <1>2, <2>2, <2>3 DEF Mark, TypeOK
<1>3. CASE Look
  <2>1. work' \in [Workers -> WorkType]
    BY <1>3, GotoType DEF Look
  <2> QED
    BY <1>3, <2>1 DEF Look, others, TypeOK
<1>4. CASE Fail
  <2>1. job' \in [Jobs -> Rows] /\ late' \subseteq Files \union {NoFile}
    BY <1>4, InHand, SaveType DEF Fail, Workers
  <2>2. work' \in [Workers -> WorkType]
    BY <1>4, EndsType DEF Fail
  <2> QED
    BY <1>4, <2>1, <2>2 DEF Fail, others, TypeOK
<1>5. ASSUME NEW w \in Workers, Analyze(w) PROVE TypeOK'
  <2>1. work' \in [Workers -> WorkType]
    BY <1>5, GotoType, AfterErrorType DEF Analyze
  <2> QED
    BY <1>5, <2>1 DEF Analyze, others, TypeOK
<1>6. ASSUME NEW w \in Workers, SaveMetadata(w) PROVE TypeOK'
  <2>1. work' \in [Workers -> WorkType]
    BY <1>6, GotoType, EndsType DEF SaveMetadata
  <2> QED
    BY <1>6, <2>1 DEF SaveMetadata, others, TypeOK
<1>7. ASSUME NEW w \in Workers, Report(w) PROVE TypeOK'
  <2>1. CASE There(work[w].job)
    <3>1. work[w].job \in Jobs
      BY <1>7 DEF Placed, Report, At
    <3>2. work' \in [Workers -> WorkType]
      BY <1>7, <2>1, <3>1, ReadType DEF Report
    <3> QED
      BY <1>7, <3>2 DEF Report, others, TypeOK
  <2>2. CASE ~ There(work[w].job)
    BY <1>7, <2>2, AfterErrorType DEF Report, others, TypeOK
  <2> QED
    BY <2>1, <2>2
<1>8. ASSUME NEW w \in Workers, SaveAnalyzed(w) PROVE TypeOK'
  <2>1. job' \in [Jobs -> Rows] /\ late' \subseteq Files \union {NoFile}
    BY <1>8, InHand, SaveType DEF SaveAnalyzed
  <2>2. work' \in [Workers -> WorkType]
    BY <1>8, GotoType, EndsType DEF SaveAnalyzed
  <2> QED
    BY <1>8, <2>1, <2>2 DEF SaveAnalyzed, others, TypeOK
<1>9. ASSUME NEW w \in Handlers, MarkAgain(w) PROVE TypeOK'
  <2>1. job' \in [Jobs -> Rows] /\ late' \subseteq Files \union {NoFile}
    BY <1>9, InHand, SaveType DEF MarkAgain, Workers
  <2>2. work' \in [Workers -> WorkType]
    BY <1>9, GotoType DEF MarkAgain
  <2> QED
    BY <1>9, <2>1, <2>2 DEF MarkAgain, others, TypeOK
<1>10. ASSUME NEW w \in Handlers, ReadJob(w) PROVE TypeOK'
  <2>1. w \in Workers /\ work[w].job \in Jobs
    BY <1>10 DEF Placed, ReadJob, At, Workers
  <2>2. work' \in [Workers -> WorkType]
    BY <1>10, <2>1, ReadType, EndsType DEF ReadJob
  <2> QED
    BY <1>10, <2>2 DEF ReadJob, others, TypeOK
<1>11. ASSUME NEW w \in Handlers, Fetch(w) PROVE TypeOK'
  <2>1. work' \in [Workers -> WorkType]
    BY <1>11, GotoType DEF Fetch, Workers
  <2> QED
    BY <1>11, <2>1 DEF Fetch, others, TypeOK
<1>12. ASSUME NEW w \in Handlers, SavePath(w) PROVE TypeOK'
  <2>1. job' \in [Jobs -> Rows] /\ late' \subseteq Files \union {NoFile}
    BY <1>12, InHand, SaveType DEF SavePath, Workers
  <2>2. work' \in [Workers -> WorkType]
    BY <1>12, GotoType DEF SavePath
  <2> QED
    BY <1>12, <2>1, <2>2 DEF SavePath, others, TypeOK
<1>13. ASSUME NEW w \in Handlers, GiveUp(w) PROVE TypeOK'
  <2>1. job' \in [Jobs -> Rows] /\ late' \subseteq Files \union {NoFile}
    BY <1>13, InHand, SaveType DEF GiveUp, Workers
  <2>2. work' \in [Workers -> WorkType]
    BY <1>13, EndsType DEF GiveUp
  <2> QED
    BY <1>13, <2>1, <2>2 DEF GiveUp, others, TypeOK
<1>14. ASSUME NEW w \in Handlers, Parse(w) PROVE TypeOK'
  <2>1. work' \in [Workers -> WorkType]
    BY <1>14, GotoType DEF Parse, Workers
  <2> QED
    BY <1>14, <2>1 DEF Parse, others, TypeOK
<1>15. ASSUME NEW w \in Handlers, NEW k \in Jobs, UseDuplicate(w, k) PROVE TypeOK'
  <2>1. w \in Workers /\ job[k].file \in Files \union {NoFile}
    BY DEF TypeOK, Rows, Workers
  <2>2. PICK at \in {"link", "json", "analyze"} :
           work' = [work EXCEPT ![w].file = job[k].file, ![w].at = at]
    BY <1>15 DEF UseDuplicate
  <2>3. [work[w] EXCEPT !.file = job[k].file] \in WorkType
    BY <2>1, InHand DEF WorkType
  <2>4. [[work[w] EXCEPT !.file = job[k].file] EXCEPT !.at = at] \in WorkType
    BY <2>3 DEF WorkType
  <2>5. work' \in [Workers -> WorkType]
    BY <2>2, <2>4 DEF TypeOK
  <2> QED
    BY <1>15, <2>5 DEF UseDuplicate, others, TypeOK
<1>16. ASSUME NEW w \in Handlers, SaveFile(w) PROVE TypeOK'
  <2> DEFINE f == IdOf[work[w].job]
  <2>1. w \in Workers /\ f \in Files
    BY <1>16 DEF Placed, SaveFile, At, Workers, Files
  <2>2. [work[w] EXCEPT !.file = f] \in WorkType
    BY <2>1, InHand DEF WorkType
  <2>3. [[work[w] EXCEPT !.file = f] EXCEPT !.at = "json"] \in WorkType
    BY <2>2 DEF WorkType
  <2>4. work' \in [Workers -> WorkType]
    BY <1>16, <2>3 DEF TypeOK, SaveFile
  <2> QED
    BY <1>16, <2>1, <2>4 DEF SaveFile, TypeOK
<1>17. ASSUME NEW w \in Handlers, Link(w) PROVE TypeOK'
  <2>1. w \in Workers
    BY DEF Workers
  <2>2. [work[w].row EXCEPT !.file = work[w].file, !.an = "ANALYZED"] \in Rows
    <3>1. [work[w].row EXCEPT !.file = work[w].file] \in Rows
      BY <2>1, InHand DEF Rows
    <3>2. [[work[w].row EXCEPT !.file = work[w].file] EXCEPT !.an = "ANALYZED"] \in Rows
      BY <3>1 DEF Rows
    <3> QED
      BY <3>2
  <2>3. job' \in [Jobs -> Rows] /\ late' \subseteq Files \union {NoFile}
    BY <1>17, <2>2, SaveType DEF Link
  <2>4. work' \in [Workers -> WorkType]
    BY <1>17, EndsType DEF Link
  <2> QED
    BY <1>17, <2>3, <2>4 DEF Link, others, TypeOK
<1>18. ASSUME NEW w \in Handlers, Blame(w) PROVE TypeOK'
  <2>1. w \in Workers /\ work[w].job \in Jobs
    BY <1>18 DEF Placed, Blame, At, Workers
  <2>2. work' \in [Workers -> WorkType]
    BY <1>18, <2>1, ReadType, EndsType DEF Blame
  <2> QED
    BY <1>18, <2>2 DEF Blame, others, TypeOK
<1>19. ASSUME NEW w \in Handlers, Count(w) PROVE TypeOK'
  <2>1. work' \in [Workers -> WorkType]
    BY <1>19, GotoType, EndsType DEF Count, Workers
  <2> QED
    BY <1>19, <2>1 DEF Count, others, TypeOK
<1>20. ASSUME NEW w \in Handlers, Erase(w) PROVE TypeOK'
  <2>1. work' \in [Workers -> WorkType]
    BY <1>20, EndsType DEF Erase
  <2>2. work[w].file \in Files \union {NoFile}
    BY InHand DEF Workers
  <2> QED
    BY <1>20, <2>1, <2>2 DEF Erase, TypeOK
<1>21. ASSUME NEW w \in Handlers, NEW j \in Jobs, ReAnalyze(w, j) PROVE TypeOK'
  <2>1. job[j] \in Rows /\ job[j].file \in Files \union {NoFile}
    BY DEF TypeOK, Rows
  <2>2. work' \in [Workers -> WorkType]
    BY <1>21, <2>1, BeginType DEF ReAnalyze
  <2> QED
    BY <1>21, <2>1, <2>2, Spent DEF ReAnalyze, TypeOK
<1>22. ASSUME NEW w \in Handlers, NEW j \in Jobs, Trigger(w, j) PROVE TypeOK'
  <2>1. job[j] \in Rows /\ job[j].file \in Files \union {NoFile}
    BY DEF TypeOK, Rows
  <2>2. work' \in [Workers -> WorkType]
    BY <1>22, <2>1, BeginType DEF Trigger
  <2> QED
    BY <1>22, <2>1, <2>2, Spent DEF Trigger, TypeOK
<1>23. ASSUME NEW w \in Handlers, NEW j \in Jobs, Delete(w, j) PROVE TypeOK'
  <2>1. job[j] \in Rows /\ job[j].file \in Files \union {NoFile}
    BY DEF TypeOK, Rows
  <2>2. work' \in [Workers -> WorkType]
    BY <1>23, <2>1, BeginType DEF Delete, TypeOK
  <2> QED
    BY <1>23, <2>1, <2>2, Spent DEF Delete, TypeOK
<1>24. ASSUME NEW w \in Handlers, NEW j \in Jobs, StartUnknown(w, j) PROVE TypeOK'
  <2>1. job' \in [Jobs -> Rows]
    BY <1>24 DEF StartUnknown, TypeOK, Rows
  <2> QED
    BY <1>24, <2>1, Spent, ObserveType DEF StartUnknown, TypeOK
<1>25. ASSUME NEW w \in Handlers, NEW j \in Jobs, Adopt(w, j) PROVE TypeOK'
  <2>1. job' \in [Jobs -> Rows]
    BY <1>25 DEF Adopt, TypeOK, Rows
  <2> QED
    BY <1>25, <2>1, Spent, ObserveType DEF Adopt, TypeOK
<1>26. ASSUME NEW w \in Handlers, NEW j \in Jobs, NEW k \in Jobs, Reprint(w, j, k)
      PROVE TypeOK'
  <2>1. job' \in [Jobs -> Rows]
    BY <1>26 DEF Reprint, TypeOK, Rows
  <2> QED
    BY <1>26, <2>1, Spent, ObserveType DEF Reprint, TypeOK
<1>27. ASSUME NEW j \in Jobs, QueueFromPrinter(j) PROVE TypeOK'
  <2>1. job' \in [Jobs -> Rows]
    BY <1>27 DEF QueueFromPrinter, TypeOK, Rows
  <2> QED
    BY <1>27, <2>1, Spent DEF QueueFromPrinter, TypeOK
<1>28. ASSUME NEW j \in Jobs,
              AddToQueue(j) \/ Complete(j) \/ StartKnown(j) \/ Pause(j) \/ Resume(j)
      PROVE TypeOK'
  <2>1. job' \in [Jobs -> Rows]
    BY <1>28 DEF AddToQueue, Complete, StartKnown, Pause, Resume, TypeOK, Rows
  <2>2. unseen' \subseteq Jobs /\ missed' \subseteq Jobs
    BY <1>28 DEF AddToQueue, Complete, StartKnown, Pause, Resume, TypeOK
  <2> QED
    BY <1>28, <2>1, <2>2, Spent DEF AddToQueue, Complete, StartKnown, Pause, Resume, TypeOK
<1>29. ASSUME NEW j \in Jobs, NEW an \in {"NOT_ANALYZED", "ANALYZED"}, Upload(j, an)
      PROVE TypeOK'
  <2>1. IdOf[j] \in Files /\ [st |-> "PENDING", an |-> an, file |-> IdOf[j]] \in Rows
    BY DEF Files, Rows
  <2>2. job' \in [Jobs -> Rows] /\ late' \subseteq Files \union {NoFile}
    BY <1>29, <2>1, SaveType DEF Upload
  <2> QED
    BY <1>29, <2>1, <2>2, Spent DEF Upload, TypeOK
<1>30. ASSUME NEW j \in Jobs, NEW f \in Files, FromFile(j, f) PROVE TypeOK'
  <2>1. [st |-> "PENDING", an |-> "ANALYZED", file |-> f] \in Rows
    BY DEF Rows
  <2>2. job' \in [Jobs -> Rows] /\ late' \subseteq Files \union {NoFile}
    BY <1>30, <2>1, SaveType DEF FromFile
  <2> QED
    BY <1>30, <2>2, Spent DEF FromFile, TypeOK
<1>31. ASSUME NEW j \in Jobs, NEW k \in Jobs, NEW an \in {"NOT_ANALYZED", "ANALYZED"},
              UploadAgain(j, k, an)
      PROVE TypeOK'
  <2>1. [st |-> "PENDING", an |-> an, file |-> job[k].file] \in Rows
    BY DEF Rows, TypeOK
  <2>2. job' \in [Jobs -> Rows] /\ late' \subseteq Files \union {NoFile}
    BY <1>31, <2>1, SaveType DEF UploadAgain
  <2> QED
    BY <1>31, <2>2, Spent DEF UploadAgain, TypeOK
<1>32. CASE Crash
  <2>1. unseen' \subseteq Jobs /\ missed' \subseteq Jobs
    BY <1>32 DEF Crash, TypeOK
  <2>2. work' \in [Workers -> WorkType] /\ todo' \in [Jobs -> Rows]
    BY <1>32, IdleFacts DEF Crash
  <2> QED
    BY <1>32, <2>1, <2>2, Spent DEF Crash, TypeOK
<1>33. CASE Boot
  BY <1>33 DEF Boot, TypeOK
<1>34. CASE UNCHANGED vars
  BY <1>34 DEF vars, TypeOK
<1>35. ASSUME NEW w \in Handlers, AskForFile(w) PROVE TypeOK'
  <2>1. work' \in [Workers -> WorkType]
    BY <1>35, GotoType DEF AskForFile
  <2> QED
    BY <1>35, <2>1 DEF AskForFile, others, TypeOK
<1>36. ASSUME NEW w \in Handlers, NEW j \in Jobs, SeeStart(w, j) PROVE TypeOK'
  BY <1>36, ObserveType DEF SeeStart, TypeOK
<1>37. ASSUME NEW j \in Jobs, Interrupt(j) PROVE TypeOK'
  <2>1. unseen' \subseteq Jobs /\ missed' \subseteq Jobs
    BY <1>37 DEF Interrupt, TypeOK
  <2> QED
    BY <1>37, <2>1, Spent DEF Interrupt, TypeOK
<1> QED
  BY <1>1, <1>2, <1>3, <1>4, <1>5, <1>6, <1>7, <1>8, <1>9, <1>10, <1>11,
     <1>12, <1>13, <1>14, <1>15, <1>16, <1>17, <1>18, <1>19, <1>20, <1>21,
     <1>22, <1>23, <1>24, <1>25, <1>26, <1>27, <1>28, <1>29, <1>30, <1>31,
     <1>32, <1>33, <1>34, <1>35, <1>36, <1>37
     DEF Next, TaskStep, ObserverStep, Working, Request, HandlerStep, Elsewhere, Workers

LEMMA EndsPlaced == ASSUME TypeOK, Placed, NEW w, Ends(w) PROVE Placed'
  BY IdleFacts DEF TypeOK, Placed, Ends

LEMMA GotoPlaced ==
  ASSUME TypeOK, Placed, NEW w \in Workers, work[w].at # "idle", NEW at, Goto(w, at),
         work[w].op = "delete" <=> at \in {"count", "erase"}
  PROVE  Placed'
<1>1. work'[w].op = work[w].op /\ work'[w].job = work[w].job /\ work'[w].at = at
  BY DEF TypeOK, WorkType, Goto
<1>2. \A v \in Workers : v # w => work'[v] = work[v]
  BY DEF TypeOK, Goto
<1> QED
  BY <1>1, <1>2 DEF Placed

LEMMA ReadPlaced ==
  ASSUME TypeOK, Placed, NEW w \in Workers, work[w].at \notin {"idle", "count", "erase"},
         NEW at, at \notin {"idle", "count", "erase"}, NEW row,
         work' = [work EXCEPT ![w].at = at, ![w].row = row]
  PROVE  Placed'
<1>1. work'[w].op = work[w].op /\ work'[w].job = work[w].job /\ work'[w].at = at
  BY DEF TypeOK, WorkType
<1>2. \A v \in Workers : v # w => work'[v] = work[v]
  BY DEF TypeOK
<1> QED
  BY <1>1, <1>2 DEF Placed

LEMMA ErrorPlaced ==
  ASSUME TypeOK, Placed, NEW w \in Workers, work[w].at \in {"analyze", "report"}, AfterError(w)
  PROVE  Placed'
  BY EndsPlaced, GotoPlaced DEF AfterError, Placed

LEMMA ObservePlaced ==
  ASSUME TypeOK, Placed, NEW w \in Handlers, NEW j \in Jobs, Observe(w, j) PROVE Placed'
<1>1. CASE UNCHANGED work
  BY <1>1 DEF Placed
<1>2. CASE Begin(w, "download", "shown", j, NoRow, NoFile)
  BY <1>2 DEF TypeOK, Placed, Begin
<1> QED
  BY <1>1, <1>2 DEF Observe

LEMMA StepPlaced == TypeOK /\ Placed /\ [Next]_vars => Placed'
<1> SUFFICES ASSUME TypeOK, Placed, [Next]_vars PROVE Placed'
  OBVIOUS
<1>1. CASE Run
  BY <1>1 DEF TypeOK, Placed, Run
<1>2. ASSUME NEW j \in Jobs, Mark(j) PROVE Placed'
  BY <1>2 DEF TypeOK, Placed, Mark, Begin
<1>3. CASE Look
  BY <1>3, GotoPlaced DEF Look, At, Placed, Workers
<1>4. CASE Fail
  BY <1>4, EndsPlaced DEF Fail
<1>5. ASSUME NEW w \in Workers, Analyze(w) PROVE Placed'
  BY <1>5, GotoPlaced, ErrorPlaced DEF Analyze, At, Placed
<1>6. ASSUME NEW w \in Workers, SaveMetadata(w) PROVE Placed'
  BY <1>6, GotoPlaced, EndsPlaced DEF SaveMetadata, At, Placed
<1>7. ASSUME NEW w \in Workers, Report(w) PROVE Placed'
  BY <1>7, ReadPlaced, ErrorPlaced DEF Report, At
<1>8. ASSUME NEW w \in Workers, SaveAnalyzed(w) PROVE Placed'
  BY <1>8, GotoPlaced, EndsPlaced DEF SaveAnalyzed, At, Placed
<1>9. ASSUME NEW w \in Handlers, MarkAgain(w) PROVE Placed'
  BY <1>9, GotoPlaced DEF MarkAgain, At, Placed, Workers
<1>10. ASSUME NEW w \in Handlers, ReadJob(w) PROVE Placed'
  BY <1>10, ReadPlaced, EndsPlaced DEF ReadJob, At, Workers
<1>11. ASSUME NEW w \in Handlers, Fetch(w) PROVE Placed'
  BY <1>11, GotoPlaced DEF Fetch, At, Placed, Workers
<1>12. ASSUME NEW w \in Handlers, SavePath(w) PROVE Placed'
  BY <1>12, GotoPlaced DEF SavePath, At, Placed, Workers
<1>13. ASSUME NEW w \in Handlers, GiveUp(w) PROVE Placed'
  BY <1>13, EndsPlaced DEF GiveUp
<1>14. ASSUME NEW w \in Handlers, Parse(w) PROVE Placed'
  BY <1>14, GotoPlaced DEF Parse, At, Placed, Workers
<1>15. ASSUME NEW w \in Handlers, SaveFile(w) PROVE Placed'
  BY <1>15 DEF TypeOK, Placed, SaveFile, At
<1>16. ASSUME NEW w \in Handlers, Link(w) PROVE Placed'
  BY <1>16, EndsPlaced DEF Link
<1>17. ASSUME NEW w \in Handlers, Blame(w) PROVE Placed'
  BY <1>17, ReadPlaced, EndsPlaced DEF Blame, At, Workers
<1>18. ASSUME NEW w \in Handlers, Count(w) PROVE Placed'
  BY <1>18, GotoPlaced, EndsPlaced DEF Count, At, Placed, Workers
<1>19. ASSUME NEW w \in Handlers, Erase(w) PROVE Placed'
  BY <1>19, EndsPlaced DEF Erase
<1>20. ASSUME NEW w \in Handlers, NEW k \in Jobs, UseDuplicate(w, k) PROVE
      Placed'
  BY <1>20 DEF TypeOK, Placed, UseDuplicate, At
<1>21. ASSUME NEW w \in Handlers, NEW j \in Jobs, ReAnalyze(w, j) PROVE
      Placed'
  BY <1>21 DEF TypeOK, Placed, ReAnalyze, Begin
<1>22. ASSUME NEW w \in Handlers, NEW j \in Jobs, Trigger(w, j) PROVE Placed'
  BY <1>22 DEF TypeOK, Placed, Trigger, Begin
<1>23. ASSUME NEW w \in Handlers, NEW j \in Jobs, Delete(w, j) PROVE Placed'
  BY <1>23 DEF TypeOK, Placed, Delete, Begin
<1>24. ASSUME NEW w \in Handlers, NEW j \in Jobs, StartUnknown(w, j) PROVE Placed'
  BY <1>24, ObservePlaced DEF StartUnknown
<1>25. ASSUME NEW w \in Handlers, NEW j \in Jobs, Adopt(w, j) PROVE Placed'
  BY <1>25, ObservePlaced DEF Adopt
<1>26. ASSUME NEW w \in Handlers, NEW j \in Jobs, NEW k \in Jobs, Reprint(w, j, k)
      PROVE Placed'
  BY <1>26, ObservePlaced DEF Reprint
<1>27. ASSUME NEW j \in Jobs, QueueFromPrinter(j) PROVE Placed'
  BY <1>27 DEF Placed, QueueFromPrinter
<1>28. ASSUME NEW j \in Jobs,
              AddToQueue(j) \/ Complete(j) \/ StartKnown(j) \/ Pause(j) \/ Resume(j)
      PROVE Placed'
  BY <1>28 DEF Placed, AddToQueue, Complete, StartKnown, Pause, Resume
<1>29. ASSUME NEW j \in Jobs, NEW an \in {"NOT_ANALYZED", "ANALYZED"},
      Upload(j, an) PROVE Placed'
  BY <1>29 DEF Placed, Upload
<1>30. ASSUME NEW j \in Jobs, NEW f \in Files, FromFile(j, f) PROVE Placed'
  BY <1>30 DEF Placed, FromFile
<1>31. ASSUME NEW j \in Jobs, NEW k \in Jobs, NEW an \in {"NOT_ANALYZED", "ANALYZED"},
              UploadAgain(j, k, an)
      PROVE Placed'
  BY <1>31 DEF Placed, UploadAgain
<1>32. CASE Crash
  BY <1>32 DEF Placed, Crash, Idle
<1>33. CASE Boot
  BY <1>33 DEF Placed, Boot
<1>34. CASE UNCHANGED vars
  BY <1>34 DEF Placed, vars
<1>35. ASSUME NEW w \in Handlers, AskForFile(w) PROVE Placed'
  BY <1>35, GotoPlaced DEF AskForFile, At, Placed, Workers
<1>36. ASSUME NEW w \in Handlers, NEW j \in Jobs, SeeStart(w, j) PROVE Placed'
  BY <1>36, ObservePlaced DEF SeeStart
<1>37. ASSUME NEW j \in Jobs, Interrupt(j) PROVE Placed'
  BY <1>37 DEF Placed, Interrupt
<1> QED
  BY <1>1, <1>2, <1>3, <1>4, <1>5, <1>6, <1>7, <1>8, <1>9, <1>10, <1>11,
     <1>12, <1>13, <1>14, <1>15, <1>16, <1>17, <1>18, <1>19, <1>20, <1>21,
     <1>22, <1>23, <1>24, <1>25, <1>26, <1>27, <1>28, <1>29, <1>30, <1>31,
     <1>32, <1>33, <1>34, <1>35, <1>36, <1>37
     DEF Next, TaskStep, ObserverStep, Working, Request, HandlerStep, Elsewhere, Workers

(* A step hands on files that are kept, and nobody begins to erase.        *)
HandsAfter ==
    \A v \in Workers :
       work'[v].op # "delete" =>
          \A f \in {work'[v].row.file, work'[v].file} : Kept(f) \/ f \in bytes'
NoNewEraser ==
    \A v \in Workers : work'[v].at = "erase" =>
       At(v, "erase") /\ work'[v].file = work[v].file

LEMMA BeginHands ==
  ASSUME TypeOK, HandsKept, NEW w \in Workers, NEW op, NEW at, at # "erase", NEW j, NEW r, NEW f,
         Kept(r.file) /\ Kept(f), Begin(w, op, at, j, r, f)
  PROVE  HandsAfter /\ NoNewEraser
<1>1. work'[w] = [op |-> op, at |-> at, job |-> j, row |-> r, file |-> f]
  BY DEF TypeOK, Begin
<1>2. \A v \in Workers : v # w => work'[v] = work[v]
  BY DEF TypeOK, Begin
<1> QED
  BY <1>1, <1>2 DEF HandsKept, HandsAfter, NoNewEraser, At

LEMMA SameHands ==
  ASSUME HandsKept, work' = work PROVE HandsAfter /\ NoNewEraser
  BY DEF HandsKept, HandsAfter, NoNewEraser, At

LEMMA ObserveHands ==
  ASSUME TypeOK, HandsKept, NEW w \in Handlers, NEW j \in Jobs, Observe(w, j)
  PROVE  HandsAfter /\ NoNewEraser
<1>1. w \in Workers /\ Kept(NoRow.file) /\ Kept(NoFile)
  BY RowFacts DEF Workers, Kept
<1> QED
  BY <1>1, BeginHands, SameHands DEF Observe

LEMMA GotoHands ==
  ASSUME TypeOK, HandsKept, NEW w \in Workers, NEW at, at # "erase", Goto(w, at)
  PROVE  HandsAfter /\ NoNewEraser
<1>1. /\ work'[w].op = work[w].op /\ work'[w].at = at
      /\ work'[w].row = work[w].row /\ work'[w].file = work[w].file
  BY DEF TypeOK, WorkType, Goto
<1>2. \A v \in Workers : v # w => work'[v] = work[v]
  BY DEF TypeOK, Goto
<1> QED
  BY <1>1, <1>2 DEF HandsKept, HandsAfter, NoNewEraser, At

LEMMA EndsHands ==
  ASSUME TypeOK, HandsKept, NEW w \in Workers, Ends(w) PROVE HandsAfter /\ NoNewEraser
<1>1. work'[w] = Idle
  BY DEF TypeOK, Ends
<1>2. \A v \in Workers : v # w => work'[v] = work[v]
  BY DEF TypeOK, Ends
<1> QED
  BY <1>1, <1>2, IdleFacts DEF HandsKept, HandsAfter, NoNewEraser, At, Kept

LEMMA ReadHands ==
  ASSUME TypeOK, HandsKept, RowsKept, NEW w \in Workers, NEW at, at # "erase",
         NEW j \in Jobs, There(j), work' = [work EXCEPT ![w].at = at, ![w].row = job[j]]
  PROVE  HandsAfter /\ NoNewEraser
<1>1. /\ work'[w].op = work[w].op /\ work'[w].at = at
      /\ work'[w].row = job[j] /\ work'[w].file = work[w].file
  BY DEF TypeOK, WorkType
<1>2. \A v \in Workers : v # w => work'[v] = work[v]
  BY DEF TypeOK
<1>3. Kept(job[j].file)
  BY DEF RowsKept
<1>4. ASSUME NEW v \in Workers, work'[v].op # "delete"
      PROVE  \A f \in {work'[v].row.file, work'[v].file} : Kept(f)
  <2>1. CASE v = w
    BY <1>1, <1>3, <1>4, <2>1 DEF HandsKept
  <2>2. CASE v # w
    BY <1>2, <1>4, <2>2 DEF HandsKept
  <2> QED
    BY <2>1, <2>2
<1> QED
  BY <1>1, <1>2, <1>4 DEF HandsAfter, NoNewEraser, At

LEMMA FileHands ==
  ASSUME TypeOK, HandsKept, NEW w \in Workers, NEW at, at # "erase", NEW f,
         Kept(f) \/ f \in bytes', work' = [work EXCEPT ![w].file = f, ![w].at = at]
  PROVE  HandsAfter /\ NoNewEraser
<1>1. /\ work'[w].op = work[w].op /\ work'[w].at = at
      /\ work'[w].row = work[w].row /\ work'[w].file = f
  BY DEF TypeOK, WorkType
<1>2. \A v \in Workers : v # w => work'[v] = work[v]
  BY DEF TypeOK
<1>3. ASSUME NEW v \in Workers, work'[v].op # "delete"
      PROVE  \A g \in {work'[v].row.file, work'[v].file} : Kept(g) \/ g \in bytes'
  <2>1. CASE v = w
    BY <1>1, <1>3, <2>1 DEF HandsKept
  <2>2. CASE v # w
    BY <1>2, <1>3, <2>2 DEF HandsKept
  <2> QED
    BY <2>1, <2>2
<1> QED
  BY <1>1, <1>2, <1>3 DEF HandsAfter, NoNewEraser, At

LEMMA ErrorHands ==
  ASSUME TypeOK, HandsKept, NEW w \in Workers, AfterError(w) PROVE HandsAfter /\ NoNewEraser
  BY GotoHands, EndsHands DEF AfterError

(* A step that rewrites one row, or none, and erases nothing.              *)
LEMMA RowStep ==
  ASSUME FilesInv, HandsAfter, NoNewEraser, bytes \subseteq bytes', late \subseteq late',
         \A j \in Jobs : Kept(todo'[j].file),
         \A j \in Jobs : job[j] # job'[j] /\ There(j)' =>
            \/ job'[j].file = NoFile
            \/ There(j) /\ job'[j].file = job[j].file
            \/ /\ Kept(job'[j].file) \/ job'[j].file \in bytes'
               /\ Erasing(job'[j].file) => job'[j].file \in late'
  PROVE  FilesInv'
<1>1. RowsKept'
  BY DEF FilesInv, RowsKept, Kept, There
<1>2. HandsKept'
  BY DEF HandsAfter, HandsKept, Kept
<1>3. NobodyNames'
  BY DEF FilesInv, NobodyNames, NoNewEraser, At, There, Erasing
<1> QED
  BY <1>1, <1>2, <1>3 DEF FilesInv

LEMMA NewRowStep ==
  ASSUME FilesInv, HandsAfter, NoNewEraser, UNCHANGED <<bytes, todo, late>>,
         \A j \in Jobs : job[j] # job'[j] => job'[j].file = NoFile
  PROVE  FilesInv'
<1>1. \A j \in Jobs : Kept(todo'[j].file)
  BY DEF FilesInv, HandsKept
<1> QED
  BY <1>1, RowStep

LEMMA WorkStep ==
  ASSUME FilesInv, HandsAfter, NoNewEraser, UNCHANGED <<job, bytes, todo, late>>
  PROVE  FilesInv'
  BY RowStep DEF FilesInv, HandsKept

LEMMA SaveStep ==
  ASSUME TypeOK, FilesInv, HandsAfter, NoNewEraser, NEW j \in Jobs, NEW r, Save(j, r),
         Kept(r.file) \/ r.file \in bytes', bytes \subseteq bytes',
         \A k \in Jobs : Kept(todo'[k].file)
  PROVE  FilesInv'
<1>1. job'[j] = r /\ \A k \in Jobs : k # j => job'[k] = job[k]
  BY DEF TypeOK, Save
<1>2. late \subseteq late' /\ (Erasing(r.file) => r.file \in late')
  BY DEF Save
<1> QED
  BY <1>1, <1>2, RowStep

LEMMA StepFiles == TypeOK /\ Placed /\ FilesInv /\ [Next]_vars => FilesInv'
<1> SUFFICES ASSUME TypeOK, Placed, FilesInv, [Next]_vars PROVE FilesInv'
  OBVIOUS
<1> USE RowFacts
<1>a. HandsKept /\ RowsKept /\ \A j \in Jobs : Kept(todo[j].file)
  BY DEF FilesInv, HandsKept
<1>b. Kept(NoFile) /\ \A w \in Handlers : w \in Workers
  BY DEF Kept, Workers
<1>c. \A w \in Workers : work[w].op # "delete" => Kept(work[w].row.file) /\ Kept(work[w].file)
  BY <1>a DEF HandsKept
<1>d. \A w \in Workers, an \in {"NOT_ANALYZED", "ANALYZING", "ANALYZED", "FAILED"} :
         work[w].op # "delete" => Kept(Mended(work[w].row, an).file)
  BY <1>c, InHand
<1>1. CASE Run
  <2>1. \A j \in Jobs : Kept(todo'[j].file)
    BY <1>1, <1>a, <1>b DEF Run, RowsKept, Pending, There
  <2> QED
    BY <1>1, <1>a, <2>1, SameHands, RowStep DEF Run
<1>2. ASSUME NEW j \in Jobs, Mark(j) PROVE FilesInv'
  <2>1. Kept(todo[j].file) /\ todo[j] \in Rows
    BY <1>a DEF TypeOK
  <2>2. HandsAfter /\ NoNewEraser
    <3> DEFINE at == IF todo[j].file = NoFile THEN "fail" ELSE "look"
    <3>1. Begin(Task, "task", at, j, todo[j], todo[j].file) /\ at # "erase" /\ Task \in Workers
      BY <1>2 DEF Mark, Workers
    <3> HIDE DEF at
    <3> QED
      BY <2>1, <3>1, <1>a, BeginHands
  <2>3. \A k \in Jobs : Kept(todo'[k].file)
    BY <1>2, <1>a, <1>b DEF Mark, TypeOK
  <2>4. Kept(Mended(todo[j], "ANALYZING").file)
    BY <2>1
  <2> QED
    BY <1>2, <2>2, <2>3, <2>4, SaveStep DEF Mark
<1>3. CASE Look
  BY <1>3, <1>a, GotoHands, WorkStep DEF Look, others, Workers
<1>4. CASE Fail
  <2>1. Task \in Workers /\ work[Task].op # "delete" /\ work[Task].job \in Jobs
    BY <1>4 DEF Placed, Fail, At, Workers
  <2>2. HandsAfter /\ NoNewEraser
    BY <1>4, <1>a, <2>1, EndsHands DEF Fail
  <2> QED
    BY <1>4, <1>a, <1>d, <2>1, <2>2, SaveStep DEF Fail, others
<1>5. ASSUME NEW w \in Workers, Analyze(w) PROVE FilesInv'
  BY <1>5, <1>a, GotoHands, ErrorHands, WorkStep DEF Analyze, others
<1>6. ASSUME NEW w \in Workers, SaveMetadata(w) PROVE FilesInv'
  BY <1>6, <1>a, GotoHands, EndsHands, WorkStep DEF SaveMetadata, others
<1>7. ASSUME NEW w \in Workers, Report(w) PROVE FilesInv'
  <2>1. work[w].job \in Jobs
    BY <1>7 DEF Placed, Report, At
  <2>2. HandsAfter /\ NoNewEraser
    BY <1>7, <1>a, <2>1, ReadHands, ErrorHands DEF Report
  <2> QED
    BY <1>7, <2>2, WorkStep DEF Report, others
<1>8. ASSUME NEW w \in Workers, SaveAnalyzed(w) PROVE FilesInv'
  <2>1. work[w].op # "delete" /\ work[w].job \in Jobs
    BY <1>8 DEF Placed, SaveAnalyzed, At
  <2>2. HandsAfter /\ NoNewEraser
    BY <1>8, <1>a, GotoHands, EndsHands DEF SaveAnalyzed
  <2> QED
    BY <1>8, <1>a, <1>d, <2>1, <2>2, SaveStep DEF SaveAnalyzed, others
<1>9. ASSUME NEW w \in Handlers, MarkAgain(w) PROVE FilesInv'
  <2>1. w \in Workers /\ work[w].op # "delete" /\ work[w].job \in Jobs
    BY <1>9, <1>b DEF Placed, MarkAgain, At
  <2>2. HandsAfter /\ NoNewEraser
    BY <1>9, <1>a, <2>1, GotoHands DEF MarkAgain
  <2> QED
    BY <1>9, <1>a, <1>d, <2>1, <2>2, SaveStep DEF MarkAgain, others
<1>10. ASSUME NEW w \in Handlers, ReadJob(w) PROVE FilesInv'
  <2>1. w \in Workers /\ work[w].job \in Jobs
    BY <1>10, <1>b DEF Placed, ReadJob, At
  <2>2. HandsAfter /\ NoNewEraser
    BY <1>10, <1>a, <2>1, ReadHands, EndsHands DEF ReadJob
  <2> QED
    BY <1>10, <2>2, WorkStep DEF ReadJob, others
<1>11. ASSUME NEW w \in Handlers, Fetch(w) PROVE FilesInv'
  BY <1>11, <1>a, <1>b, GotoHands, WorkStep DEF Fetch, others
<1>12. ASSUME NEW w \in Handlers, SavePath(w) PROVE FilesInv'
  <2>1. w \in Workers /\ work[w].op # "delete" /\ work[w].job \in Jobs
    BY <1>12, <1>b DEF Placed, SavePath, At
  <2>2. HandsAfter /\ NoNewEraser
    BY <1>12, <1>a, <2>1, GotoHands DEF SavePath
  <2> QED
    BY <1>12, <1>a, <1>c, <2>1, <2>2, SaveStep DEF SavePath, others
<1>13. ASSUME NEW w \in Handlers, GiveUp(w) PROVE FilesInv'
  <2>1. w \in Workers /\ work[w].op # "delete" /\ work[w].job \in Jobs
    BY <1>13, <1>b DEF Placed, GiveUp, At
  <2>2. HandsAfter /\ NoNewEraser
    BY <1>13, <1>a, <2>1, EndsHands DEF GiveUp
  <2> QED
    BY <1>13, <1>a, <1>d, <2>1, <2>2, SaveStep DEF GiveUp, others
<1>14. ASSUME NEW w \in Handlers, Parse(w) PROVE FilesInv'
  BY <1>14, <1>a, <1>b, GotoHands, WorkStep DEF Parse, others
<1>15. ASSUME NEW w \in Handlers, NEW k \in Jobs, UseDuplicate(w, k) PROVE FilesInv'
  <2>1. Kept(job[k].file)
    BY <1>15, <1>a DEF UseDuplicate, SameContent, RowsKept
  <2>2. PICK at \in {"link", "json", "analyze"} :
           work' = [work EXCEPT ![w].file = job[k].file, ![w].at = at]
    BY <1>15 DEF UseDuplicate
  <2>3. HandsAfter /\ NoNewEraser
    BY <1>a, <1>b, <2>1, <2>2, FileHands
  <2> QED
    BY <1>15, <2>3, WorkStep DEF UseDuplicate, others
<1>16. ASSUME NEW w \in Handlers, SaveFile(w) PROVE FilesInv'
  <2> DEFINE f == IdOf[work[w].job]
  <2>1. f \in bytes' /\ work' = [work EXCEPT ![w].file = f, ![w].at = "json"]
    BY <1>16 DEF SaveFile
  <2> HIDE DEF f
  <2>2. HandsAfter /\ NoNewEraser
    BY <1>a, <1>b, <2>1, FileHands
  <2> QED
    BY <1>16, <1>a, <2>2, RowStep DEF SaveFile
<1>17. ASSUME NEW w \in Handlers, Link(w) PROVE FilesInv'
  <2>1. w \in Workers /\ work[w].op # "delete" /\ work[w].job \in Jobs
    BY <1>17, <1>b DEF Placed, Link, At
  <2>2. HandsAfter /\ NoNewEraser
    BY <1>17, <1>a, <2>1, EndsHands DEF Link
  <2> DEFINE r == [work[w].row EXCEPT !.file = work[w].file, !.an = "ANALYZED"]
  <2>3. r.file = work[w].file
    BY <2>1, InHand DEF Rows
  <2>4. Kept(r.file)
    BY <1>c, <2>1, <2>3
  <2> QED
    BY <1>17, <1>a, <2>1, <2>2, <2>4, SaveStep DEF Link, others
<1>18. ASSUME NEW w \in Handlers, Blame(w) PROVE FilesInv'
  <2>1. w \in Workers /\ work[w].job \in Jobs
    BY <1>18, <1>b DEF Placed, Blame, At
  <2>2. HandsAfter /\ NoNewEraser
    BY <1>18, <1>a, <2>1, ReadHands, EndsHands DEF Blame
  <2> QED
    BY <1>18, <2>2, WorkStep DEF Blame, others
<1>19. ASSUME NEW w \in Handlers, Count(w) PROVE FilesInv'
  <2>1. CASE References(work[w].file) = {}
    <3>1. w \in Workers /\ work[w].op = "delete"
      BY <1>19, <1>b DEF Placed, Count, At
    <3>2. work'[w].op = "delete" /\ work'[w].file = work[w].file
      BY <1>19, <2>1, <3>1 DEF Count, Goto, TypeOK, WorkType
    <3>3. \A v \in Workers : v # w => work'[v] = work[v]
      BY <1>19, <2>1 DEF Count, Goto, TypeOK
    <3>4. HandsKept' /\ RowsKept'
      BY <1>19, <1>a, <3>2, <3>3 DEF Count, others, HandsKept, RowsKept, Kept, There
    <3>5. NobodyNames'
      BY <1>19, <2>1, <3>2, <3>3 DEF FilesInv, NobodyNames, References, Count, There, At
    <3> QED
      BY <3>4, <3>5 DEF FilesInv
  <2>2. CASE References(work[w].file) # {}
    BY <1>19, <1>a, <1>b, <2>2, EndsHands, WorkStep DEF Count, others
  <2> QED
    BY <2>1, <2>2
<1>20. ASSUME NEW w \in Handlers, Erase(w) PROVE FilesInv'
  <2>1. HandsAfter /\ NoNewEraser /\ late \subseteq late'
    BY <1>20, <1>a, <1>b, EndsHands DEF Erase
  <2>2. \A f : Kept(f) /\ f # work[w].file => Kept(f)'
    BY <1>20 DEF Kept, Erase
  <2>3. work'[w] = Idle /\ \A v \in Workers : v # w => work'[v] = work[v]
    BY <1>20, <1>b DEF Erase, Ends, TypeOK
  <2>4. Held(work[w].file) => work[w].file \in late'
    BY <1>20 DEF Erase
  <2>5. RowsKept'
    BY <1>20, <1>b, <1>a, <2>1, <2>2
       DEF FilesInv, NobodyNames, RowsKept, Kept, There, Erase, At
  <2>6. HandsKept'
    BY <1>20, <1>a, <2>1, <2>2, <2>3, <2>4, IdleFacts DEF HandsKept, Held, Kept, Erase
  <2>7. NobodyNames'
    BY <1>20, <2>1 DEF FilesInv, NobodyNames, NoNewEraser, There, At, Erase
  <2> QED
    BY <2>5, <2>6, <2>7 DEF FilesInv
<1>21. ASSUME NEW w \in Handlers, NEW j \in Jobs, ReAnalyze(w, j) PROVE FilesInv'
  <2>1. Kept(job[j].file)
    BY <1>21, <1>a DEF ReAnalyze, RowsKept
  <2> QED
    BY <1>21, <1>a, <1>b, <2>1, BeginHands, WorkStep DEF ReAnalyze
<1>22. ASSUME NEW w \in Handlers, NEW j \in Jobs, Trigger(w, j) PROVE FilesInv'
  BY <1>22, <1>a, <1>b, BeginHands, WorkStep DEF Trigger
<1>23. ASSUME NEW w \in Handlers, NEW j \in Jobs, Delete(w, j) PROVE FilesInv'
  <2>1. HandsAfter /\ NoNewEraser
    <3> Kept(job[j].file)
      BY <1>23, <1>a DEF Delete, RowsKept
    <3>1. CASE UNCHANGED work
      BY <1>a, <3>1, SameHands
    <3>2. CASE Begin(w, "delete", "count", j, NoRow, job[j].file)
      BY <1>a, <1>b, <3>2, BeginHands
    <3> QED
      BY <1>23, <3>1, <3>2 DEF Delete
  <2> QED
    BY <1>23, <1>a, <2>1, RowStep DEF Delete, There, TypeOK
<1>24. ASSUME NEW w \in Handlers, NEW j \in Jobs, StartUnknown(w, j) PROVE FilesInv'
  <2>1. HandsAfter /\ NoNewEraser
    BY <1>24, <1>a, ObserveHands DEF StartUnknown
  <2>2. \A k \in Jobs : job[k] # job'[k] => job'[k].file = NoFile
    BY <1>24 DEF StartUnknown, TypeOK, NoRow
  <2>3. UNCHANGED <<bytes, todo, late>>
    BY <1>24 DEF StartUnknown
  <2> QED
    BY <2>1, <2>2, <2>3, NewRowStep
<1>25. ASSUME NEW w \in Handlers, NEW j \in Jobs, Adopt(w, j) PROVE FilesInv'
  <2>1. HandsAfter /\ NoNewEraser
    BY <1>25, <1>a, ObserveHands DEF Adopt
  <2>2. \A k \in Jobs : job'[k] # job[k] => job'[k].file = job[k].file /\ There(k)
    BY <1>25 DEF Adopt, TypeOK, Rows, There
  <2> QED
    BY <1>25, <1>a, <2>1, <2>2, RowStep DEF Adopt
<1>26. ASSUME NEW w \in Handlers, NEW j \in Jobs, NEW k \in Jobs, Reprint(w, j, k)
      PROVE FilesInv'
  <2>1. HandsAfter /\ NoNewEraser
    BY <1>26, <1>a, ObserveHands DEF Reprint
  <2>2. \A m \in Jobs : job[m] # job'[m] => job'[m].file = NoFile
    BY <1>26 DEF Reprint, TypeOK
  <2>3. UNCHANGED <<bytes, todo, late>>
    BY <1>26 DEF Reprint
  <2> QED
    BY <2>1, <2>2, <2>3, NewRowStep
<1>27. ASSUME NEW j \in Jobs, QueueFromPrinter(j) PROVE FilesInv'
  <2>1. \A k \in Jobs : job[k] # job'[k] => job'[k].file = NoFile
    BY <1>27 DEF QueueFromPrinter, TypeOK, NoRow
  <2> QED
    BY <1>27, <1>a, <2>1, SameHands, NewRowStep DEF QueueFromPrinter
<1>28. ASSUME NEW j \in Jobs,
              AddToQueue(j) \/ Complete(j) \/ StartKnown(j) \/ Pause(j) \/ Resume(j)
      PROVE FilesInv'
  <2>1. \A k \in Jobs : job'[k] # job[k] => job'[k].file = job[k].file /\ There(k)
    BY <1>28 DEF AddToQueue, Complete, StartKnown, Pause, Resume, TypeOK, Rows, There
  <2>2. UNCHANGED <<bytes, work, todo, late>>
    BY <1>28 DEF AddToQueue, Complete, StartKnown, Pause, Resume
  <2> QED
    BY <1>a, <2>1, <2>2, SameHands, RowStep
<1>29. ASSUME NEW j \in Jobs, NEW an \in {"NOT_ANALYZED", "ANALYZED"}, Upload(j, an)
      PROVE FilesInv'
  <2> DEFINE r == [st |-> "PENDING", an |-> an, file |-> IdOf[j]]
  <2>1. Save(j, r) /\ r.file \in bytes' /\ bytes \subseteq bytes'
    BY <1>29 DEF Upload
  <2> HIDE DEF r
  <2> QED
    BY <1>29, <1>a, <2>1, SameHands, SaveStep DEF Upload
<1>30. ASSUME NEW j \in Jobs, NEW f \in Files, FromFile(j, f) PROVE FilesInv'
  <2> DEFINE r == [st |-> "PENDING", an |-> "ANALYZED", file |-> f]
  <2>1. Save(j, r) /\ r.file \in bytes' /\ bytes \subseteq bytes'
    BY <1>30 DEF FromFile
  <2> HIDE DEF r
  <2> QED
    BY <1>30, <1>a, <2>1, SameHands, SaveStep DEF FromFile
<1>31. ASSUME NEW j \in Jobs, NEW k \in Jobs, NEW an \in {"NOT_ANALYZED", "ANALYZED"},
              UploadAgain(j, k, an)
      PROVE FilesInv'
  <2> DEFINE r == [st |-> "PENDING", an |-> an, file |-> job[k].file]
  <2>1. Save(j, r) /\ Kept(r.file) /\ bytes \subseteq bytes'
    BY <1>31, <1>a DEF UploadAgain, SameContent, RowsKept
  <2> HIDE DEF r
  <2> QED
    BY <1>31, <1>a, <2>1, SameHands, SaveStep DEF UploadAgain
<1>32. CASE Crash
  <2>1. HandsAfter /\ NoNewEraser
    BY <1>32, <1>b, IdleFacts DEF Crash, HandsAfter, NoNewEraser
  <2>2. \A j \in Jobs : Kept(todo'[j].file)
    BY <1>32, <1>b DEF Crash
  <2> QED
    BY <1>32, <2>1, <2>2, RowStep DEF Crash
<1>33. CASE Boot
  BY <1>33, <1>a, SameHands, WorkStep DEF Boot
<1>34. CASE UNCHANGED vars
  BY <1>34, <1>a, SameHands, WorkStep DEF vars
<1>35. ASSUME NEW w \in Handlers, AskForFile(w) PROVE FilesInv'
  BY <1>35, <1>a, <1>b, GotoHands, WorkStep DEF AskForFile, others
<1>36. ASSUME NEW w \in Handlers, NEW j \in Jobs, SeeStart(w, j) PROVE FilesInv'
  BY <1>36, <1>a, ObserveHands, WorkStep DEF SeeStart
<1>37. ASSUME NEW j \in Jobs, Interrupt(j) PROVE FilesInv'
  BY <1>37, <1>a, SameHands, WorkStep DEF Interrupt
<1> QED
  BY <1>1, <1>2, <1>3, <1>4, <1>5, <1>6, <1>7, <1>8, <1>9, <1>10, <1>11,
     <1>12, <1>13, <1>14, <1>15, <1>16, <1>17, <1>18, <1>19, <1>20, <1>21,
     <1>22, <1>23, <1>24, <1>25, <1>26, <1>27, <1>28, <1>29, <1>30, <1>31,
     <1>32, <1>33, <1>34, <1>35, <1>36, <1>37
     DEF Next, TaskStep, ObserverStep, Working, Request, HandlerStep, Elsewhere, Workers

LEMMA InitInv == Init => IInv
<1> SUFFICES ASSUME Init PROVE IInv
  OBVIOUS
<1>1. TypeOK
  BY InitType
<1>2. /\ work = [w \in Workers |-> Idle] /\ todo = [j \in Jobs |-> NoRow]
      /\ bytes = {IdOf[1]}
  BY DEF Init
<1>3. Placed
  BY <1>2, IdleFacts DEF Placed
<1>4. \A j \in Jobs : There(j) => job[j].file = IdOf[1]
  BY RowFacts DEF Init, There, NoRow
<1>5. FilesInv
  BY <1>2, <1>4, RowFacts, IdleFacts DEF FilesInv, RowsKept, HandsKept, NobodyNames, Kept, At
<1> QED
  BY <1>1, <1>3, <1>5 DEF IInv

LEMMA StepInv == IInv /\ [Next]_vars => IInv'
  BY StepType, StepPlaced, StepFiles DEF IInv

----------------------------------------------------------------------------

(* Rows, files and workers keep their types, whatever the task, downloads, *)
(* re-analyses, deletions and crashes do to them.                          *)
THEOREM TypesCorrect == Spec => []TypeOK
<1>1. IInv => TypeOK
  BY DEF IInv
<1> QED
  BY <1>1, InitInv, StepInv, PTL DEF Spec

(* The file that a job names is in storage: neither the deletion of        *)
(* another job of the same file nor a row that is saved back late or that  *)
(* a download links to a duplicate leaves it without, except for a file    *)
(* that was erased while somebody had it in hand.                          *)
THEOREM NamedFilesStay == Spec => []NamedFilesThere
<1>1. IInv => NamedFilesThere
  BY DEF IInv, FilesInv, RowsKept, Kept, NamedFilesThere
<1> QED
  BY <1>1, InitInv, StepInv, PTL DEF Spec

=============================================================================
