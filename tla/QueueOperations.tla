-------------------------- MODULE QueueOperations --------------------------
(***************************************************************************)
(* The queue operations of PrintQueueService and the "Cancel print" of the *)
(* printer controller, which puts the cancelled file back at the front.    *)
(* add, front and reorder run under the printer's lock; remove, clear and  *)
(* cancel do not.                                                          *)
(***************************************************************************)
EXTENDS QueueState

----------------------------------------------------------------------------
(* addToQueue(printerId, jobId, position?)                                 *)

(* The call stands in line; op front is the call with position 0.          *)
AddCall(r, op, j) ==
    /\ op \in {"add", "front"}
    /\ Fresh(r, op)
    /\ Begin(r, op, "waiting", j)
    /\ Lock!Arrive(r)
    /\ UNCHANGED <<job, dispatch, observer, world, process>>

(* POST from-file and from-usb-file: a PENDING row of its own is saved,    *)
(* then queued; for a file on the printer it has the usbFilePath.          *)
FileCall(r, f) ==
    /\ Fresh(r, "file")
    /\ \E j \in FreeIds(job) :
          /\ Save(j, PendingRow(f, f \in UsbFiles))
          /\ Begin(r, "add", "waiting", j)
    /\ Lock!Arrive(r)
    /\ UNCHANGED <<dispatch, observer, world, process>>

AddFind(r) ==
    /\ req[r].op \in {"add", "front"}
    /\ Holding(r, "waiting")
    /\ Read(r, "place", req[r].id)
    /\ UNCHANGED <<job, line, dispatch, observer, world, process>>

(* The position: past the last, or 0 after shifting the others.            *)
AddPlace(r) ==
    /\ Holding(r, "place")
    /\ \E p \in IF req[r].op = "front" THEN {0} ELSE NextPositions(job) :
          req' = [req EXCEPT ![r].at = "save",
                             ![r].row = [@ EXCEPT !.st = "QUEUED", !.pos = p]]
    /\ job' = IF req[r].op = "front" THEN Shifted(job, 0) ELSE job
    /\ UNCHANGED <<line, dispatch, observer, world, process>>

AddSave(r) ==
    /\ req[r].op \in {"add", "front"}
    /\ Holding(r, "save")
    /\ Save(req[r].id, req[r].row)
    /\ ReturnUnlocked(r)
    /\ UNCHANGED <<dispatch, observer, world, process>>

(* ensurePrinterNotInMaintenance, isPrinterConnected: another part of the  *)
(* system refuses the call before it has written anything.                 *)
Refused(r) ==
    /\ Holding(r, "place") \/ Holding(r, "claim") \/ Holding(r, "idle")
    /\ ReturnUnlocked(r)
    /\ UNCHANGED <<job, dispatch, observer, world, process>>

----------------------------------------------------------------------------
(* removeFromQueue(jobId), without the lock                                *)

RemoveCall(r, j) ==
    /\ Fresh(r, "remove")
    /\ Begin(r, "remove", "find", j)
    /\ UNCHANGED <<job, line, dispatch, observer, world, process>>

(* A job that is mid-upload is aborted first; the entity keeps the old     *)
(* status unless it was QUEUED.                                            *)
RemovedRow(row) == [row EXCEPT !.pos = NoPos, !.st = IF @ = "QUEUED" THEN "PENDING" ELSE @]

RemoveFind(r) ==
    /\ req[r].op = "remove" /\ req[r].at = "find"
    /\ Read(r, "save", req[r].id)
    /\ IF job[req[r].id].st = "STARTING" THEN AbortDispatch ELSE UNCHANGED bg
    /\ UNCHANGED <<job, line, aborter, observer, world, process>>

RemoveSave(r) ==
    /\ req[r].op = "remove" /\ req[r].at = "save"
    /\ Save(req[r].id, RemovedRow(req[r].row))
    /\ IF req[r].row.pos = NoPos THEN Return(r) ELSE Goto(r, "compact")
    /\ UNCHANGED <<line, dispatch, observer, world, process>>

RemoveCompact(r) ==
    /\ req[r].at = "compact"
    /\ job' = Compacted(job, req[r].row.pos)
    /\ Return(r)
    /\ UNCHANGED <<line, dispatch, observer, world, process>>

----------------------------------------------------------------------------
(* clearQueue(printerId), without the lock                                 *)

ClearCall(r) ==
    /\ Fresh(r, "clear")
    /\ AbortDispatch
    /\ Begin(r, "clear", "scan", 0)
    /\ UNCHANGED <<job, line, aborter, observer, world, process>>

(* The rows of one find, as they are when it answers.                      *)
Snapshot(S) == {[id |-> j, row |-> job[j]] : j \in S}

ClearScan(r) ==
    /\ req[r].at = "scan"
    /\ req' = [req EXCEPT ![r].at = "save", ![r].todo = Snapshot(InStatus(job, {"QUEUED"}))]
    /\ UNCHANGED <<job, line, dispatch, observer, world, process>>

ClearSave(r) ==
    /\ req[r].op = "clear" /\ req[r].at = "save"
    /\ \E e \in req[r].todo :
          /\ Save(e.id, [e.row EXCEPT !.st = "PENDING", !.pos = NoPos])
          /\ req' = [req EXCEPT ![r].todo = @ \ {e}]
    /\ UNCHANGED <<line, dispatch, observer, world, process>>

ClearReturn(r) ==
    /\ req[r].op = "clear" /\ req[r].at = "save"
    /\ req[r].todo = {}
    /\ Return(r)
    /\ UNCHANGED <<job, line, dispatch, observer, world, process>>

----------------------------------------------------------------------------
(* reorderQueue(printerId, jobIds): a query and a save for each id in turn *)

(* The ids a client sends: the queue it was shown, with its first two jobs *)
(* (a STARTING job is still shown) in the other order.                     *)
Shown == {j \in InStatus(job, {"QUEUED", "STARTING"}) : job[j].pos # NoPos}

SwappedOrders == {ids \in Shown \X Shown : job[ids[1]].pos > job[ids[2]].pos}

ReorderCall(r) ==
    /\ Fresh(r, "reorder")
    /\ \E ids \in SwappedOrders :
          req' = [req EXCEPT ![r] = [Unused EXCEPT !.op = "reorder", !.at = "waiting", !.ids = ids]]
    /\ Lock!Arrive(r)
    /\ UNCHANGED <<job, dispatch, observer, world, process>>

ReorderFind(r) ==
    /\ req[r].op = "reorder"
    /\ Holding(r, "waiting")
    /\ req[r].ids # <<>>
    /\ Read(r, "save", Head(req[r].ids))
    /\ UNCHANGED <<job, line, dispatch, observer, world, process>>

ReorderSave(r) ==
    /\ req[r].op = "reorder"
    /\ Holding(r, "save")
    /\ Save(req[r].id, [req[r].row EXCEPT !.pos = req[r].next])
    /\ req' = [req EXCEPT ![r].at = "waiting", ![r].next = @ + 1, ![r].ids = Tail(@)]
    /\ UNCHANGED <<line, dispatch, observer, world, process>>

ReorderReturn(r) ==
    /\ req[r].op = "reorder"
    /\ Holding(r, "waiting")
    /\ req[r].ids = <<>>
    /\ ReturnUnlocked(r)
    /\ UNCHANGED <<job, dispatch, observer, world, process>>

----------------------------------------------------------------------------
(* DELETE dispatch: cancelDispatch, synchronous                            *)

CancelDispatch(r) ==
    /\ Fresh(r, "cancel")
    /\ AbortDispatch
    /\ Return(r)
    /\ UNCHANGED <<job, line, aborter, observer, world, process>>

----------------------------------------------------------------------------
(* POST job/cancel: cancelPrint at the printer, then the row of the active *)
(* job, then its clone at the front of the queue                           *)

StopPrinter(r) ==
    /\ Fresh(r, "stop")
    /\ printer.st = "PRINTING"
    /\ printer' = [printer EXCEPT !.st = "STOPPED", !.by = NoReq]
    /\ Begin(r, "stop", "stopped", 0)
    /\ UNCHANGED <<job, line, dispatch, observer, panel, process>>

(* handlePrintCancelled: with no active row the call ends.                 *)
StopFind(r) ==
    /\ req[r].at = "stopped"
    /\ \/ InStatus(job, Active) = {} /\ Return(r)
       \/ \E j \in ActiveJob(job, NoFile) : Read(r, "save", j)
    /\ UNCHANGED <<job, line, dispatch, observer, world, process>>

StopSave(r) ==
    /\ req[r].op = "stop" /\ req[r].at = "save"
    /\ Save(req[r].id, [req[r].row EXCEPT !.st = "CANCELLED"])
    /\ Goto(r, "clone")
    /\ UNCHANGED <<line, dispatch, observer, world, process>>

(* requeueCancelledJobAtFront: the clone is saved, then added at 0.        *)
StopClone(r) ==
    /\ req[r].at = "clone"
    /\ \E j \in FreeIds(job) :
          /\ Save(j, PendingRow(req[r].row.file, req[r].row.usb))
          /\ Begin(r, "front", "waiting", j)
    /\ Lock!Arrive(r)
    /\ UNCHANGED <<dispatch, observer, world, process>>

============================================================================
