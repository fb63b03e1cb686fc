------------------------------ MODULE Dispatch ------------------------------
(***************************************************************************)
(* The claim of PrintQueueService (pick the next job, check the printer is *)
(* idle, flip the row to STARTING: under the lock) and dispatchInBackground*)
(* (wait, send, write the outcome: outside the lock, nobody awaits it).    *)
(***************************************************************************)
EXTENDS QueueState

----------------------------------------------------------------------------
(* processQueue(printerId) and submitToPrinter(printerId, jobId)           *)

ProcessCall(r) ==
    /\ Fresh(r, "process")
    /\ Begin(r, "process", "waiting", 0)
    /\ Lock!Arrive(r)
    /\ UNCHANGED <<job, dispatch, observer, world, process>>

SubmitCall(r, j) ==
    /\ Fresh(r, "submit")
    /\ Begin(r, "submit", "claim", j)
    /\ Lock!Arrive(r)
    /\ UNCHANGED <<job, dispatch, observer, world, process>>

ProcessPick(r) ==
    /\ req[r].op = "process"
    /\ Holding(r, "waiting")
    /\ \/ /\ NextInQueue(job) = {}
          /\ ReturnUnlocked(r)
       \/ /\ \E j \in NextInQueue(job) : Read(r, "claim", j)
          /\ UNCHANGED line
    /\ UNCHANGED <<job, dispatch, observer, world, process>>

ClaimFind(r) ==
    /\ Holding(r, "claim")
    /\ Read(r, "idle", req[r].id)
    /\ UNCHANGED <<job, line, dispatch, observer, world, process>>

(* ensurePrinterIdle looks at one row only: the busy row started last.     *)
BusyRow == MostRecent(job, InStatus(job, Busy))

(* A PRINTING row under an idle printer is a zombie; a STARTING row never. *)
Zombie(j) == job[j].st # "STARTING" /\ live \in LiveIdleStates

ClaimIdle(r) ==
    /\ Holding(r, "idle")
    /\ \/ /\ InStatus(job, Busy) = {} \/ req[r].id \in BusyRow
          /\ Goto(r, "save")
          /\ UNCHANGED line
       \/ \E j \in BusyRow \ {req[r].id} :
             /\ Zombie(j)
             /\ req' = [req EXCEPT ![r].at = "zombie", ![r].todo = {[id |-> j, row |-> job[j]]}]
             /\ UNCHANGED line
       \/ \E j \in BusyRow \ {req[r].id} :
             /\ ~ Zombie(j)
             /\ ReturnUnlocked(r)
    /\ UNCHANGED <<job, dispatch, observer, world, process>>

ClaimZombie(r) ==
    /\ Holding(r, "zombie")
    /\ \E e \in req[r].todo : Save(e.id, [e.row EXCEPT !.st = "UNKNOWN"])
    /\ req' = [req EXCEPT ![r].at = "save", ![r].todo = {}]
    /\ UNCHANGED <<line, dispatch, observer, world, process>>

(* The row becomes STARTING and the dispatch is launched, not awaited.     *)
ClaimSave(r) ==
    /\ req[r].op \in {"process", "submit"}
    /\ Holding(r, "save")
    /\ Save(req[r].id, [req[r].row EXCEPT !.st = "STARTING"])
    /\ bg' = [bg EXCEPT ![r] = [Settled EXCEPT !.at = "spawned", !.id = req[r].id]]
    /\ ReturnUnlocked(r)
    /\ UNCHANGED <<aborter, observer, world, process>>

----------------------------------------------------------------------------
(* dispatchInBackground: up to the outcome                                 *)

InStage(r, at) == bg[r].at = at
Advance(r, at) == bg' = [bg EXCEPT ![r].at = at]

(* A row that is not STARTING any more is skipped; else the controller of  *)
(* this dispatch takes the place of whatever the map held.                 *)
BgBegin(r) ==
    /\ InStage(r, "spawned")
    /\ IF job[bg[r].id].st = "STARTING"
       THEN bg' = [bg EXCEPT ![r].at = "ready", ![r].row = job[bg[r].id]] /\ aborter' = r
       ELSE bg' = [bg EXCEPT ![r] = Settled] /\ UNCHANGED aborter
    /\ UNCHANGED <<job, api, observer, world, process>>

(* waitForPrinterReady returns when the dispatch was aborted, when there is*)
(* no fresh reading and when the printer is ready, in the same way.        *)
ReadyToSend(r) == bg[r].aborted \/ live = "none" \/ live \in ReadyStates

BgReady(r) ==
    /\ InStage(r, "ready")
    /\ ReadyToSend(r)
    /\ Advance(r, "sending")
    /\ UNCHANGED <<job, api, aborter, observer, world, process>>

(* With a bug: the wait has no deadline.                                   *)
WaitForever(r) == FALSE

(* ... and throws after 90 seconds of another state: a permanent error.    *)
BgWaitTimeout(r) ==
    /\ InStage(r, "ready")
    /\ ~ ReadyToSend(r)
    /\ Advance(r, "failed")
    /\ UNCHANGED <<job, api, aborter, observer, world, process>>

Usb(r) == bg[r].row.usb

(* startPrint carries no signal: an abort does not reach it.  An upload    *)
(* fails as soon as its controller is aborted.                             *)
AbortSeen(r) == bg[r].aborted /\ ~ Usb(r)

(* The printer starts the file: the upload is complete, or the USB command *)
(* has arrived.  A printer that is still stopping takes the command and    *)
(* never prints.                                                           *)
Land(r) ==
    /\ InStage(r, "sending")
    /\ ~ AbortSeen(r)
    /\ printer.st # "PRINTING"
    /\ printer' = IF printer.st = "STOPPED" THEN printer
                  ELSE [st |-> "PRINTING", file |-> bg[r].row.file, by |-> r]
    /\ Advance(r, "landed")
    /\ UNCHANGED <<job, api, aborter, observer, panel, process>>

Answered(r) ==
    /\ InStage(r, "landed")
    /\ ~ AbortSeen(r)
    /\ Advance(r, "sent")
    /\ UNCHANGED <<job, api, aborter, observer, world, process>>

(* A permanent error: the printer refuses (busy, storage full, 4xx), the   *)
(* upload is aborted, or the connection breaks during it: uploadFile wraps *)
(* every error of the transfer in one that is not retried.                 *)
SendFails(r) ==
    /\ InStage(r, "sending") \/ (InStage(r, "landed") /\ ~ Usb(r))
    /\ Advance(r, "failed")
    /\ UNCHANGED <<job, api, aborter, observer, world, process>>

(* A network error that is tried again, aborted or not: of the requests    *)
(* before the transfer (they carry no signal), or of a USB command, whose  *)
(* answer may be lost after the printer has started.                       *)
SendRetried(r) ==
    /\ InStage(r, "sending") \/ (InStage(r, "landed") /\ Usb(r))
    /\ bg' = IF bg[r].tries < Retries
             THEN [bg EXCEPT ![r].at = "ready", ![r].tries = @ + 1]
             ELSE [bg EXCEPT ![r].at = "failed"]
    /\ UNCHANGED <<job, api, aborter, observer, world, process>>

----------------------------------------------------------------------------
(* dispatchInBackground: writing the outcome                               *)

(* The row is read again: the observer may have promoted it.               *)
OkFind(r) ==
    /\ InStage(r, "sent")
    /\ LET row == job[bg[r].id]
       IN bg' = [bg EXCEPT ![r].row = row,
                           ![r].at = IF row.pos = NoPos THEN "written" ELSE "drop"]
    /\ UNCHANGED <<job, api, aborter, observer, world, process>>

OkCompact(r) ==
    /\ InStage(r, "drop")
    /\ job' = Compacted(job, bg[r].row.pos)
    /\ Advance(r, "written")
    /\ UNCHANGED <<api, aborter, observer, world, process>>

(* With a bug: no finally block.                                           *)
SettleKeeping(r) == bg' = [bg EXCEPT ![r] = Settled] /\ UNCHANGED aborter

(* The finally block runs after either save: whatever the map holds goes.  *)
Settle(r) ==
    /\ bg' = [bg EXCEPT ![r] = Settled]
    /\ aborter' = NoReq

OkSave(r) ==
    /\ InStage(r, "written")
    /\ LET row == [bg[r].row EXCEPT !.pos = NoPos]
       IN \/ row.st # "STARTING" /\ Save(bg[r].id, row)
          \/ /\ row.st = "STARTING"
             /\ \E now \in Stamps(job) :
                   Save(bg[r].id, [row EXCEPT !.st = "PRINTING", !.started = now])
    /\ Settle(r)
    /\ UNCHANGED <<api, observer, world, process>>

FailFind(r) ==
    /\ InStage(r, "failed")
    /\ bg' = [bg EXCEPT ![r].at = "undo", ![r].row = job[bg[r].id]]
    /\ UNCHANGED <<job, api, aborter, observer, world, process>>

(* With a bug: the row goes back to QUEUED and loses its slot.             *)
RolledBackOut(row) == [row EXCEPT !.st = "QUEUED", !.pos = NoPos]

(* Back to QUEUED, in its slot, whatever the row has become.               *)
RolledBack(row) == [row EXCEPT !.st = "QUEUED"]

FailSave(r) ==
    /\ InStage(r, "undo")
    /\ Save(bg[r].id, RolledBack(bg[r].row))
    /\ Settle(r)
    /\ UNCHANGED <<api, observer, world, process>>

=============================================================================
