----------------------------- MODULE JobControls -----------------------------
(***************************************************************************)
(* Whatever else writes the rows that the poll observer maintains: the     *)
(* controls of PrinterController, the corrections and the deletion of      *)
(* PrintJobController, the dispatch of a queued job, crash and boot.  The  *)
(* queue itself (positions, lock, claim, retries) is PrintQueue.           *)
(***************************************************************************)
EXTENDS TrackingState

observed == <<poll, prev>>
machine == <<printer, holds, calls>>

Begin(c, op, at, j) == call' = [call EXCEPT ![c] = [op |-> op, at |-> at, id |-> j]]
Fresh(c, op) == up /\ op \in Ops /\ call[c] = NoCall /\ Called
At(c, at) == call[c].at = at
Return(c) == call' = [call EXCEPT ![c] = NoCall]

----------------------------------------------------------------------------
(* cancelPrint, pausePrint, resumePrint: the printer first, then the row   *)

Control(c, op, from, to) ==
    /\ Fresh(c, op)
    /\ printer.phase \in from
    /\ printer' = [printer EXCEPT !.phase = to]
    /\ Begin(c, op, "sync", 0)
    /\ UNCHANGED <<job, observed, bg, outdated, up, holds>>

CancelPrint(c) == Control(c, "cancel", MidPrint, "ABORTING")
PausePrint(c) == Control(c, "pause", {"PRINTING"}, "PAUSED")
ResumePrint(c) == Control(c, "resume", {"PAUSED"}, "PRINTING")

ControlVerdict(op) ==
    CASE op = "cancel" -> "cancelled" [] op = "pause" -> "paused" [] op = "resume" -> "resumed"

(* syncJobStatusAfterAction: the row is written without waiting for a poll;*)
(* a cancelled one is put back in the queue next.  That is outdated if the *)
(* print has not been seen yet and the row is an earlier one's.            *)
Sync(c) ==
    /\ At(c, "sync")
    /\ LET verdict == ControlVerdict(call[c].op)
           found == Found(verdict, NoFile)
       IN IF found = {} THEN Return(c) /\ UNCHANGED <<job, outdated>>
          ELSE \E j \in found :
                  /\ outdated' = (job[j].run # printer.run)
                  /\ job' = [job EXCEPT ![j].st = Written(verdict)]
                  /\ IF verdict = "cancelled" THEN Begin(c, "cancel", "requeue", j) ELSE Return(c)
    /\ UNCHANGED <<machine, observed, bg, up>>

(* requeueCancelledJobAtFront: a clone of the row as it was cancelled.     *)
Requeue(c) ==
    /\ At(c, "requeue")
    /\ \E k \in FreeIds(job) :
          job' = [job EXCEPT ![k] = [Blank EXCEPT !.st = "QUEUED", !.run = printer.run,
                                                  !.file = job[call[c].id].file]]
    /\ Return(c)
    /\ UNCHANGED <<machine, observed, bg, outdated, up>>

----------------------------------------------------------------------------
(* PrintJobController: corrections of a status, deletion                   *)

Markable(op) ==
    CASE op = "completed" -> Statuses \ {"absent", "PENDING", "QUEUED"}
      [] op = "failed" -> {"UNKNOWN", "PRINTING", "CANCELLED", "COMPLETED"}
      [] op = "cancelled" -> {"UNKNOWN", "PRINTING", "PAUSED"}
      [] op = "unknown" -> {"PRINTING", "PAUSED"}

Marked(op) ==
    CASE op = "completed" -> "COMPLETED" [] op = "failed" -> "FAILED"
      [] op = "cancelled" -> "CANCELLED" [] op = "unknown" -> "UNKNOWN"

(* The status is checked on one read; markAs... reads again and saves.     *)
MarkCall(c, j) ==
    /\ \E op \in {"completed", "failed", "cancelled", "unknown"} :
          /\ Fresh(c, op)
          /\ job[j].st \in Markable(op)
          /\ Begin(c, op, "mark", j)
    /\ UNCHANGED <<job, printer, holds, observed, bg, outdated, up>>

MarkSave(c) ==
    /\ At(c, "mark")
    /\ job' = [job EXCEPT ![call[c].id].st = IF @ = "deleted" THEN @ ELSE Marked(call[c].op)]
    /\ Return(c)
    /\ UNCHANGED <<machine, observed, bg, outdated, up>>

(* A print that has begun is not deleted; a dispatch in flight is.         *)
DeleteCall(c, j) ==
    /\ Fresh(c, "delete")
    /\ job[j].st \notin {"absent", "deleted", "PAUSED"}
    /\ ~ (job[j].st = "PRINTING" /\ job[j].begun)
    /\ Begin(c, "delete", "remove", j)
    /\ UNCHANGED <<job, printer, holds, observed, bg, outdated, up>>

DeleteRow(c) ==
    /\ At(c, "remove")
    /\ job' = [job EXCEPT ![call[c].id] = Deleted]
    /\ Return(c)
    /\ UNCHANGED <<machine, observed, bg, outdated, up>>

----------------------------------------------------------------------------
(* The dispatch of a queued job                                            *)

(* ensurePrinterIdle has found no busy row; the row becomes STARTING.      *)
Claim(j) ==
    /\ up
    /\ bg = NoDispatch
    /\ job[j].st = "QUEUED"
    /\ InStatus(job, Busy) = {}
    /\ job' = [job EXCEPT ![j].st = "STARTING"]
    /\ bg' = [NoDispatch EXCEPT !.at = "sending", !.id = j, !.file = job[j].file]
    /\ UNCHANGED <<machine, observed, call, outdated, up>>

(* The printer has the file and starts it.                                 *)
Sent ==
    /\ bg.at = "sending"
    /\ Startable
    /\ printer' = Prints(bg.file)
    /\ bg' = [bg EXCEPT !.at = "sent", !.run = printer'.run]
    /\ UNCHANGED <<job, observed, call, outdated, up, holds, calls>>

(* The row, or the old entity if the row is gone, becomes PRINTING, unless *)
(* the observer has promoted it or an operator has corrected it.  That is  *)
(* outdated if the row was deleted, which inserts it again, or if the      *)
(* printer has begun another print by the time its answer comes.           *)
Confirmed ==
    /\ bg.at = "sent"
    /\ \E now \in Stamps(job) :
          job' = [job EXCEPT ![bg.id] =
                     IF @.st \in {"STARTING", "deleted"}
                     THEN [@ EXCEPT !.st = "PRINTING", !.started = now, !.file = bg.file,
                                    !.run = bg.run]
                     ELSE @]
    /\ outdated' = (job[bg.id].st = "deleted" \/ bg.run # printer.run)
    /\ bg' = NoDispatch
    /\ UNCHANGED <<machine, observed, call, up>>

(* The job goes back to the queue, whatever its status is by now: that is  *)
(* outdated if it is another one than STARTING.                            *)
SendFails ==
    /\ bg.at = "sending"
    /\ job' = [job EXCEPT ![bg.id].st = "QUEUED", ![bg.id].file = bg.file]
    /\ outdated' = (job[bg.id].st # "STARTING")
    /\ bg' = NoDispatch
    /\ UNCHANGED <<machine, observed, call, up>>

----------------------------------------------------------------------------
(* Crash and boot                                                          *)

Crash ==
    /\ up
    /\ Called
    /\ up' = FALSE
    /\ poll' = NoPoll
    /\ prev' = "none"
    /\ call' = [c \in Calls |-> NoCall]
    /\ bg' = NoDispatch
    /\ UNCHANGED <<job, printer, holds, outdated>>

(* With a bug: the observer starts with an empty memory.                   *)
NotSeeded == {"none"}

(* seedLastPollState: from an active row; which one comes last is open.    *)
Seeds ==
    LET active == InStatus(job, Active)
    IN IF active = {} THEN {"none"} ELSE {job[j].st : j \in active}

(* resetStrandedDispatches, then the seed, before the first poll.          *)
Boot ==
    /\ ~ up
    /\ up' = TRUE
    /\ job' = [j \in Jobs |-> IF job[j].st = "STARTING"
                              THEN [job[j] EXCEPT !.st = "QUEUED"] ELSE job[j]]
    /\ prev' \in Seeds
    /\ UNCHANGED <<machine, poll, call, bg, outdated>>

=============================================================================
