----------------------------- MODULE QueueState -----------------------------
(***************************************************************************)
(* The state that PrintQueueService, its background dispatches and the     *)
(* poll observer share for one printer.  A step of the server is one       *)
(* awaited call (a query, a save, an HTTP call) together with the          *)
(* synchronous code that follows it: Node switches between handlers only   *)
(* at an await.  A save writes every column of the entity it was given, so *)
(* a request keeps the copy of the row it read.                            *)
(***************************************************************************)
EXTENDS JobTable, Sequences

CONSTANTS
    Requests,   \* API calls; each is made once
    NoReq,      \* no request
    Ops,        \* the operations that the calls of this instance make
    UsbFiles,   \* files on the printer's own storage, started without upload
    Queued0,    \* files of the jobs in the queue at the start, in order
    Retries,    \* retries of a dispatch: RETRY_DELAYS_MS.length
    Observing,  \* whether the poll observer is part of the instance
    MaxCrashes, \* bound on server crashes
    MaxPanel    \* bound on prints started at the printer's own panel

AllOps == {"add", "front", "file", "remove", "clear", "reorder", "process", "submit", "cancel",
           "stop"}

ASSUME NoReqAssumption == NoReq \notin Requests
ASSUME OpsAssumption == Ops \subseteq AllOps
ASSUME UsbAssumption == UsbFiles \subseteq Files
ASSUME QueuedAssumption == Queued0 \in Seq(Files) /\ Len(Queued0) <= MaxJobs
ASSUME ObservingAssumption == Observing \in BOOLEAN
ASSUME BoundsAssumption == Retries \in Nat /\ MaxCrashes \in Nat /\ MaxPanel \in Nat

VARIABLES
    job,        \* the print_job table
    line,       \* callers of withPrinterLock, first come first served
    req,        \* what each API call is doing
    bg,         \* the background dispatch each call has started
    aborter,    \* dispatchAbortersByPrinterId: whose AbortController it holds
    printer,    \* the printer; by is the dispatch whose command it is printing
    obs,        \* the answer of the poll in flight
    live,       \* the last fresh live state, or none
    prev,       \* lastPollState
    up,         \* the server runs
    crashes,    \* crashes so far
    panel       \* panel prints so far

api == <<line, req>>
dispatch == <<bg, aborter>>
observer == <<obs, live, prev>>
world == <<printer, panel>>
process == <<up, crashes>>
vars == <<job, line, req, bg, aborter, printer, obs, live, prev, up, crashes, panel>>

(* The lock of the queue service, at the level of its abstract line: that  *)
(* the promise chain implements it is PrinterLock's ImplementsFifoMutex.   *)
Lock == INSTANCE FifoMutex WITH Callers <- Requests

PrinterStates == {"IDLE", "PRINTING", "FINISHED", "STOPPED"}
LiveIdleStates == {"IDLE", "FINISHED", "STOPPED"}       \* LIVE_IDLE_STATES
ReadyStates == {"IDLE", "FINISHED"}                     \* DISPATCH_READY_STATES

Steps == {"unused", "waiting", "find", "place", "save", "compact", "scan", "claim", "idle",
          "zombie", "stopped", "clone", "done"}

(* row is the entity a call has read, todo the other entities it has still *)
(* to write, ids the jobs it has still to look at and next their counter.  *)
Entity == [id : Jobs, row : Row]

Call == [op : AllOps \cup {"none"}, at : Steps, id : Jobs \cup {0}, row : Row,
         todo : SUBSET Entity, ids : Seq(Jobs), next : Nat]

Unused == [op |-> "none", at |-> "unused", id |-> 0, row |-> Absent,
           todo |-> {}, ids |-> <<>>, next |-> 0]
Done == [Unused EXCEPT !.at = "done"]

(* spawned -> dispatchInBackground called, its first query not answered    *)
(* ready   -> in waitForPrinterReady (or in the delay before a retry)      *)
(* sending -> talking to the printer; landed -> the printer has it all     *)
(* sent, drop, written -> success: re-read, compact, save                  *)
(* failed, undo -> failure: re-read, save                                  *)
Stages == {"none", "spawned", "ready", "sending", "landed", "sent", "drop", "written",
           "failed", "undo"}

Background == [at : Stages, id : Jobs \cup {0}, row : Row, tries : Nat, aborted : BOOLEAN]

Settled == [at |-> "none", id |-> 0, row |-> Absent, tries |-> 0, aborted |-> FALSE]

NoAnswer == [st |-> "none", file |-> NoFile]

(* What the columns of print_job, the maps of the service and the observer *)
(* can hold: no handler writes a status the column does not know, whatever *)
(* stale copies of rows are saved.                                         *)
TypeOK ==
    /\ job \in [Jobs -> Row]
    /\ line \in Seq(Requests)
    /\ req \in [Requests -> Call]
    /\ bg \in [Requests -> Background]
    /\ aborter \in Requests \cup {NoReq}
    /\ printer \in [st : PrinterStates, file : Files \cup {NoFile}, by : Requests \cup {NoReq}]
    /\ obs \in [st : PrinterStates \cup {"none"}, file : Files \cup {NoFile}]
    /\ live \in PrinterStates \cup {"none"}
    /\ prev \in PrinterStates \cup {"none"}
    /\ up \in BOOLEAN
    /\ crashes \in 0..MaxCrashes
    /\ panel \in 0..MaxPanel

(* A running server and an idle printer, with the initial queue.           *)
Init ==
    /\ job = [j \in Jobs |-> IF j <= Len(Queued0)
                THEN [st |-> "QUEUED", pos |-> j - 1, started |-> Never, file |-> Queued0[j],
                      usb |-> Queued0[j] \in UsbFiles]
                ELSE Absent]
    /\ line = <<>>
    /\ req = [r \in Requests |-> Unused]
    /\ bg = [r \in Requests |-> Settled]
    /\ aborter = NoReq
    /\ printer = [st |-> "IDLE", file |-> NoFile, by |-> NoReq]
    /\ obs = NoAnswer
    /\ live = "none"
    /\ prev = "none"
    /\ up = TRUE
    /\ crashes = 0
    /\ panel = 0

----------------------------------------------------------------------------
(* Helpers of the actions                                                  *)

(* printJobRepository.save(entity): every column of the row.               *)
Save(j, row) == job' = [job EXCEPT ![j] = row]

(* An unused API call of operation op begins.                              *)
Fresh(r, op) == up /\ op \in Ops /\ req[r].at = "unused"

Begin(r, op, at, j) == req' = [req EXCEPT ![r] = [Unused EXCEPT !.op = op, !.at = at, !.id = j]]
Goto(r, at) == req' = [req EXCEPT ![r].at = at]
Read(r, at, j) == req' = [req EXCEPT ![r].at = at, ![r].id = j, ![r].row = job[j]]
Return(r) == req' = [req EXCEPT ![r] = Done]

(* With a bug: the sections run without the lock.                          *)
HoldingNothing(r, at) == req[r].at = at

(* The section of r runs: r owns the lock.                                 *)
Holding(r, at) == req[r].at = at /\ Lock!Owns(r)

(* With a bug: a section that ends does not hand the lock on.              *)
ReturnLocked(r) == Return(r) /\ Lock!Owns(r) /\ UNCHANGED line

(* The section of r returns or throws: either way the lock is handed on.   *)
ReturnUnlocked(r) == Return(r) /\ Lock!Leave(r)

(* cancelDispatch: abort the controller the map holds, if any.  The call   *)
(* to the printer that follows is not awaited and frees its transfer slot. *)
AbortDispatch ==
    bg' = IF aborter = NoReq THEN bg ELSE [bg EXCEPT ![aborter].aborted = TRUE]

=============================================================================
