--------------------------- MODULE AnalysisState ---------------------------
(***************************************************************************)
(* Print job rows with the state of their analysis, the files in storage   *)
(* and their cached metadata, and whoever works on them for a while: the   *)
(* analysis task, downloads, re-analyses and deletions.                    *)
(***************************************************************************)
EXTENDS Naturals, FiniteSets

CONSTANTS
    Task,        \* PrintJobAnalysisTask.run, of which one runs at a time
    Handlers,    \* downloads and requests that may be under way at a time
    MaxJobs,     \* bound: rows that are ever made
    MaxCalls,    \* bound: requests, started prints and crashes
    Content,     \* what is in the file of a job, as its hash tells
    IdOf,        \* the storage id that saveFile derives for the file of a job
    NoFile

Jobs == 1 .. MaxJobs
Workers == Handlers \union {Task}
Files == {IdOf[j] : j \in Jobs}

ASSUME SizesAssumption == MaxJobs \in Nat \ {0} /\ MaxCalls \in Nat
ASSUME NamesAssumption == Task \notin Handlers /\ NoFile \notin Files

VARIABLES
    job,     \* the rows: status, analysisState and fileStorageId
    bytes,   \* the files in storage
    json,    \* the files with a metadata JSON
    work,    \* what each worker does, and the row that it has read
    todo,    \* the rows that the task has read and not yet begun with
    unseen,  \* prints of which no poll has yet read PRINTING after another state
    up, budget,
    late,    \* ghost: files erased while somebody had them in hand
    missed   \* ghost: prints whose start no poll saw, or whose download broke off

vars == <<job, bytes, json, work, todo, unseen, up, budget, late, missed>>

Rows == [st : {"none", "PENDING", "QUEUED", "PRINTING", "PAUSED", "COMPLETED", "deleted"},
         an : {"NOT_ANALYZED", "ANALYZING", "ANALYZED", "FAILED"},
         file : Files \union {NoFile}]
NoRow == [st |-> "none", an |-> "NOT_ANALYZED", file |-> NoFile]
Gone == [NoRow EXCEPT !.st = "deleted"]

(* A print whose file is neither here nor has been asked for in vain.      *)
Unknown(row) ==
    row.st \in {"PRINTING", "PAUSED"} /\ row.an = "NOT_ANALYZED" /\ row.file = NoFile

There(j) == job[j].st \notin {"none", "deleted"}

(* The row is the copy that the worker has read; file is what it analyses, *)
(* stores or erases.                                                       *)
Idle == [op |-> "none", at |-> "idle", job |-> 0, row |-> NoRow, file |-> NoFile]

At(w, at) == work[w].at = at
Goto(w, at) == work' = [work EXCEPT ![w].at = at]
Ends(w) == work' = [work EXCEPT ![w] = Idle]

Begin(w, op, at, j, row, file) ==
    work' = [work EXCEPT ![w] = [op |-> op, at |-> at, job |-> j,
                                 row |-> row, file |-> file]]

(* The handlers are alike: whoever comes next takes one certain free one.  *)
Free(w) == work[w] = Idle /\ w = CHOOSE v \in Handlers : work[v] = Idle

Called ==
    /\ up /\ budget > 0
    /\ budget' = budget - 1

Held(f) ==
    \/ \E w \in Workers : work[w].op # "delete" /\ f \in {work[w].row.file, work[w].file}
    \/ \E j \in Jobs : todo[j].file = f

Erasing(f) == \E w \in Workers : At(w, "erase") /\ work[w].file = f

(* save(row): every column is written as it was read, and a row that was   *)
(* deleted meanwhile is inserted again.                                    *)
Save(j, row) ==
    /\ job' = [job EXCEPT ![j] = row]
    /\ late' = late \union {f \in {row.file} : Erasing(f)}

(* With a bug: the state of the analysis is taken for that of the job.     *)
MendedStatus(row, an) == [row EXCEPT !.st = an]
Mended(row, an) == [row EXCEPT !.an = an]

=============================================================================
