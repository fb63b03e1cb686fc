----------------------------- MODULE PrintQueue -----------------------------
(***************************************************************************)
(* One printer of the farm: the queue operations, the dispatches, the      *)
(* observer and the printer together, and what must hold of them.          *)
(***************************************************************************)
EXTENDS QueueOperations, Dispatch, PrinterObserver

CallStep(r) ==
    \/ \E j \in Present(job) :
          \/ AddCall(r, "add", j)
          \/ AddCall(r, "front", j)
          \/ RemoveCall(r, j)
          \/ SubmitCall(r, j)
    \/ \E f \in Files : FileCall(r, f)
    \/ ProcessCall(r)
    \/ ReorderCall(r)
    \/ ClearCall(r)
    \/ CancelDispatch(r)
    \/ StopPrinter(r)

(* The next step of a call that has begun.                                 *)
RequestStep(r) ==
    \/ AddFind(r) \/ AddPlace(r) \/ AddSave(r) \/ Refused(r)
    \/ RemoveFind(r) \/ RemoveSave(r) \/ RemoveCompact(r)
    \/ ClearScan(r) \/ ClearSave(r) \/ ClearReturn(r)
    \/ ReorderFind(r) \/ ReorderSave(r) \/ ReorderReturn(r)
    \/ StopFind(r) \/ StopSave(r) \/ StopClone(r)
    \/ ProcessPick(r) \/ ClaimFind(r) \/ ClaimIdle(r) \/ ClaimZombie(r) \/ ClaimSave(r)

(* The next step of a background dispatch.                                 *)
BackgroundStep(r) ==
    \/ BgBegin(r) \/ BgReady(r) \/ BgWaitTimeout(r)
    \/ Land(r) \/ Answered(r) \/ SendFails(r) \/ SendRetried(r)
    \/ OkFind(r) \/ OkCompact(r) \/ OkSave(r)
    \/ FailFind(r) \/ FailSave(r)

PrinterStep ==
    \/ PrintEnds
    \/ PrinterRests
    \/ PanelStop
    \/ \E f \in UsbFiles : PanelStart(f)

ObserverStep == PollAnswer \/ PollHandled \/ LiveExpires

Next ==
    \/ \E r \in Requests : CallStep(r) \/ RequestStep(r) \/ BackgroundStep(r)
    \/ PrinterStep
    \/ ObserverStep
    \/ Crash
    \/ Boot

(* Node runs what has been awaited once it is answered; every HTTP call to *)
(* the printer has a timeout; a crashed server is started again.  Nothing  *)
(* is assumed of users, of the printer or of the polls.                    *)
Fairness ==
    /\ \A r \in Requests : WF_vars(RequestStep(r)) /\ WF_vars(BackgroundStep(r))
    /\ WF_vars(Boot)

Spec == Init /\ [][Next]_vars /\ Fairness

----------------------------------------------------------------------------

Running(r) == bg[r].at \notin {"none", "spawned"}

(* The controller in dispatchAbortersByPrinterId belongs to a dispatch     *)
(* that has not settled: a cancel never reaches a dispatch that is over.   *)
AborterIsLive == aborter # NoReq => Running(aborter)

(* A STARTING row is an upload in flight: some dispatch will still write   *)
(* its outcome.  Otherwise the row blocks the printer until a restart.     *)
StartingIsDispatched ==
    up => \A j \in InStatus(job, {"STARTING"}) : \E r \in Requests : bg[r].id = j

(* The printer receives one file at a time.                                *)
OneDispatchInFlight ==
    \A r, s \in Requests : Running(r) /\ Running(s) => r = s

(* The printer belongs to the dispatch that has been claimed for it.       *)
Holder == IF \A r \in Requests : bg[r].at = "none" THEN NoReq
          ELSE CHOOSE r \in Requests : bg[r].at # "none"

Slot == INSTANCE PrinterSlot WITH
            Dispatches <- Requests, NoOne <- NoReq, slot <- Holder, by <- printer.by

(* Claims, dispatches, retries, aborts and crashes keep the promise of     *)
(* PrinterSlot: the printer is given back before it is claimed again, and  *)
(* no dispatch that is over, nor one that never had it, starts a print.    *)
ImplementsSlot == Slot!Spec

(* A job whose dispatch is not over is not in line for another one.        *)
InFlightNotQueued ==
    \A r \in Requests : bg[r].at # "none" => job[bg[r].id].st # "QUEUED"

(* No two jobs in the queue share a position: the queue has one order.     *)
QueuedPositionsDistinct ==
    \A j, k \in InStatus(job, {"QUEUED"}) : job[j].pos = job[k].pos => j = k

(* A queued job has a place in the queue, so "process next" reaches it.    *)
QueuedHasPosition == \A j \in InStatus(job, {"QUEUED"}) : job[j].pos # NoPos

(* A dispatch that was cancelled does not start a print afterwards.        *)
CancelledNeverStarts ==
    [][\A r \in Requests : bg[r].aborted /\ printer'.by = r => printer.by = r]_vars

(* A job that is being dispatched is STARTING for a while only.            *)
DispatchSettles ==
    \A j \in Jobs : job[j].st = "STARTING" ~> job[j].st # "STARTING"

(* Every call returns: no failure leaves the lock to nobody.               *)
CallsReturn == \A r \in Requests : req[r].at # "unused" ~> req[r].at = "done"

=============================================================================
