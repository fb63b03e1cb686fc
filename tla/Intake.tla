------------------------------ MODULE Intake ------------------------------
(***************************************************************************)
(* IntakeService: an upload makes a pending item; archive, dispatch and    *)
(* discard resolve it, one at a time per item (withItemLock).  Promotion   *)
(* moves the staged bytes into File Storage, which cannot be undone; the   *)
(* marker (_promotedFileStorageId) lets a failed dispatch be tried again.  *)
(***************************************************************************)
EXTENDS InboxState

Mutex(i) == INSTANCE FifoMutex WITH Callers <- Calls, line <- line[i]

others == <<log, reason, up, blanked>>

(* createFromUpload saves the row first, as PENDING and without a path.    *)
Upload(c, i) ==
    /\ item[i] = NewItem
    /\ Begin(c, "upload", "stage", i, 0, FALSE)
    /\ item' = [item EXCEPT ![i].st = "PENDING"]
    /\ UNCHANGED <<staged, stored, job, line, torn, late, others>>

Stage(c) ==
    /\ At(c, "stage")
    /\ staged' = staged \union {call[c].item}
    /\ Goto(c, "save")
    /\ UNCHANGED <<item, stored, job, line, budget, torn, late, others>>

(* The analysed item is saved as a whole, its status included.             *)
SaveUpload(c) ==
    /\ At(c, "save")
    /\ item' = [item EXCEPT ![call[c].item] =
                    [st |-> "PENDING", path |-> TRUE, marker |-> FALSE]]
    /\ Answered(c)
    /\ UNCHANGED <<staged, stored, job, line, budget, torn, late, others>>

UploadFails(c) ==
    /\ call[c].op = "upload"
    /\ torn' = torn \union {call[c].item}
    /\ Answered(c)
    /\ UNCHANGED <<item, staged, stored, job, line, budget, late, others>>

----------------------------------------------------------------------------

(* An operator acts on an item: the call gets in line for it.              *)
Resolve(c, op, i) ==
    /\ item[i].st # "none"
    /\ Begin(c, op, "wait", i, 0, FALSE)
    /\ line' = [line EXCEPT ![i] = Append(@, c)]
    /\ UNCHANGED <<item, staged, stored, job, torn, late, others>>

(* With a bug: the operation starts at once, without waiting for its turn. *)
HasNoTurn(c) == call[c].item # 0
HasTurn(c) == Mutex(call[c].item)!Owns(c)

Leaves(c) ==
    /\ line' = [line EXCEPT ![call[c].item] = Tail(@)]
    /\ Answered(c)

(* With a bug: an error breaks the chain of the item's operations.         *)
BreaksChain(c) == Answered(c) /\ UNCHANGED line
(* The chain goes on after an error: its tail has caught it.               *)
Fails(c) == Leaves(c)

Promotable(i) == item[i].path /\ i \in staged

(* getPendingOrThrow, the checks of dispatch and the staged file's check.  *)
Admitted(c) ==
    LET i == call[c].item IN
    /\ item[i].st = "PENDING"
    /\ call[c].op = "dispatch" => ~ InMaintenance
    /\ \/ call[c].op = "discard"
       \/ call[c].op = "dispatch" /\ item[i].marker
       \/ Promotable(i)

Take(c) ==
    LET i == call[c].item IN
    /\ At(c, "wait")
    /\ HasTurn(c)
    /\ Admitted(c)
    /\ \E at \in {"promote", "job", "unlink"} :
          /\ at = "unlink" <=> call[c].op = "discard"
          /\ at = "job" <=> call[c].op = "dispatch" /\ item[i].marker
          /\ call' = [call EXCEPT ![c].at = at, ![c].known = item[i].path]
    /\ UNCHANGED <<item, staged, stored, job, line, budget, torn, late, others>>

(* Also when the file does not fit the printer: only dispatch asks that.   *)
Refuse(c) ==
    /\ At(c, "wait")
    /\ HasTurn(c)
    /\ ~ Admitted(c) \/ call[c].op = "dispatch"
    /\ Fails(c)
    /\ UNCHANGED <<item, staged, stored, job, budget, torn, late, others>>

----------------------------------------------------------------------------

(* saveFile renames the staged file into storage.                          *)
Promote(c) ==
    /\ At(c, "promote")
    /\ call[c].item \in staged
    /\ staged' = staged \ {call[c].item}
    /\ stored' = stored \union {FileOf[call[c].item]}
    /\ Goto(c, "promoted")
    /\ UNCHANGED <<item, job, line, budget, torn, late, others>>

(* saveFile's rename or saveMetadata throws: the bytes are out of reach    *)
(* for the item, or the save of the marker is what failed.                 *)
PromoteFails(c) ==
    /\ \/ At(c, "promote")
       \/ At(c, "promoted")
    /\ torn' = IF At(c, "promoted") THEN torn \union {call[c].item} ELSE torn
    /\ Fails(c)
    /\ UNCHANGED <<item, staged, stored, job, budget, late, others>>

(* With a bug: the promoted file is not recorded on the item.              *)
MarkerForgotten(c) ==
    /\ At(c, "promoted")
    /\ call[c].op = "dispatch"
    /\ Goto(c, "job")
    /\ UNCHANGED <<item, staged, stored, job, line, budget, torn, late, others>>
(* A dispatch that fails later finds the file that it has promoted.        *)
SaveMarker(c) ==
    /\ At(c, "promoted")
    /\ call[c].op = "dispatch"
    /\ item' = [item EXCEPT ![call[c].item].marker = TRUE]
    /\ Goto(c, "job")
    /\ UNCHANGED <<staged, stored, job, line, budget, torn, late, others>>

----------------------------------------------------------------------------

(* createPendingJob; the row names its file only after updateJob.          *)
CreateJob(c) ==
    /\ At(c, "job")
    /\ \E j \in Jobs :
          /\ job[j] = NoJob
          /\ \A k \in 1 .. j - 1 : job[k] # NoJob
          /\ job' = [job EXCEPT ![j] = [st |-> "PENDING", item |-> call[c].item,
                                         filed |-> FALSE]]
          /\ call' = [call EXCEPT ![c].at = "file", ![c].id = j]
    /\ UNCHANGED <<item, staged, stored, line, budget, torn, late, others>>

(* The file is being deleted, or has been, when a job is given it.         *)
FileGoes(f) ==
    \/ f \notin stored
    \/ \E d \in Calls : At(d, "erase") /\ FileOf[call[d].item] = f

(* updateJob inserts the row again if it was deleted meanwhile.            *)
FileJob(c) ==
    /\ At(c, "file")
    /\ job' = [job EXCEPT ![call[c].id] = [st |-> "PENDING", item |-> call[c].item,
                                           filed |-> TRUE]]
    /\ late' = IF FileGoes(FileOf[call[c].item]) THEN late \union {call[c].id}
                                                 ELSE late
    /\ Goto(c, "queue")
    /\ UNCHANGED <<item, staged, stored, line, budget, torn, others>>

(* addToQueue looks the job and the maintenance up again.                  *)
Enqueue(c) ==
    /\ At(c, "queue")
    /\ call[c].id \in JobRows
    /\ ~ InMaintenance
    /\ job' = [job EXCEPT ![call[c].id].st = "QUEUED"]
    /\ Goto(c, "resolve")
    /\ UNCHANGED <<item, staged, stored, line, budget, torn, late, others>>

(* With a bug: the job of the failed dispatch stays.                       *)
OrphanStays(c) ==
    /\ At(c, "job") \/ At(c, "file") \/ At(c, "queue")
    /\ Fails(c)
    /\ UNCHANGED <<item, staged, stored, job, budget, torn, late, others>>
(* A save or addToQueue throws: the job, if it was made, is deleted, and   *)
(* the item stays pending.                                                 *)
DispatchFails(c) ==
    /\ At(c, "job") \/ At(c, "file") \/ At(c, "queue")
    /\ job' = [j \in Jobs |-> IF j = call[c].id THEN [job[j] EXCEPT !.st = "deleted"]
                                                ELSE job[j]]
    /\ Fails(c)
    /\ UNCHANGED <<item, staged, stored, budget, torn, late, others>>

(* discard removes the staged file that the row named when it was read.    *)
Unlink(c) ==
    /\ At(c, "unlink")
    /\ staged' = IF call[c].known THEN staged \ {call[c].item} ELSE staged
    /\ Goto(c, "resolve")
    /\ UNCHANGED <<item, stored, job, line, budget, torn, late, others>>

(* With a bug: the operation is stored as the item's status.               *)
VerdictRaw(op) == op
Verdict(op) ==
    CASE op = "archive" -> "ARCHIVED"
      [] op = "dispatch" -> "DISPATCHED"
      [] op = "discard" -> "DISCARDED"

MarkResolved(c) ==
    /\ At(c, "resolve") \/ (At(c, "promoted") /\ call[c].op = "archive")
    /\ item' = [item EXCEPT ![call[c].item].st = Verdict(call[c].op),
                            ![call[c].item].path = FALSE]
    /\ Leaves(c)
    /\ UNCHANGED <<staged, stored, job, budget, torn, late, others>>

=============================================================================
