-------------------------- MODULE PrintQueueProofs --------------------------
(***************************************************************************)
(* Proofs about PrintQueue, for any number of jobs, calls, files, retries, *)
(* crashes and panel prints.                                               *)
(*                                                                         *)
(* AborterLive holds of every mix of operations.  Three theorems hold with *)
(* the observer, crashes and panel prints, and exclude the operations that *)
(* TLC shows to break them: NoneStranded (NoOldStatus), NotQueuedTwice     *)
(* (NoRequeue) and EveryJobInLine (KeepsPlaces).  ClaimsExclusive and      *)
(* SlotImplemented need that no poll writes a row under a dispatch         *)
(* (Undisturbed), and OneOrder that no crash comes between the two saves   *)
(* of an outcome either (Serial).                                          *)
(***************************************************************************)
EXTENDS PrintQueueTypes

----------------------------------------------------------------------------
(* The AbortController in the map                                          *)

(* A call starts its dispatch in the step that ends it.                    *)
DispatchAfterCall == \A r \in Requests : bg[r].at # "none" => req[r].at = "done"

AborterInv == DispatchAfterCall /\ AborterIsLive

(* A step that leaves the dispatches at their stages.                      *)
LEMMA AborterKept ==
  ASSUME AborterInv,
         \A r \in Requests : req[r].at = "done" => req'[r].at = "done",
         \A r \in Requests : bg'[r].at = bg[r].at,
         UNCHANGED aborter, aborter \in Requests \cup {NoReq}
  PROVE  AborterInv'
  BY DEF AborterInv, DispatchAfterCall, AborterIsLive, Running

LEMMA AbortKeepsStages ==
  ASSUME TypeInv, UNCHANGED bg \/ AbortDispatch
  PROVE  \A s \in Requests : bg'[s].at = bg[s].at
  BY DEF AbortDispatch, TypeInv, BgInv, RestInv, GoodBackground, Background

LEMMA CallAborter ==
  ASSUME TypeInv, AborterInv, NEW r \in Requests, CallStep(r)
  PROVE  AborterInv'
<1> USE DEF CallStep, AddCall, RemoveCall, SubmitCall, FileCall, ProcessCall, ReorderCall,
        ClearCall, CancelDispatch, StopPrinter
<1>1. \A s \in Requests : req[s].at = "done" => req'[s].at = "done"
  BY DEF Fresh, Begin, Return, TypeInv, ReqInv
<1>2. (UNCHANGED bg \/ AbortDispatch) /\ UNCHANGED aborter
  BY DEF dispatch
<1> QED
  BY <1>1, <1>2, AbortKeepsStages, AborterKept DEF TypeInv, RestInv

LEMMA RequestAborter ==
  ASSUME TypeInv, AborterInv, NEW r \in Requests, RequestStep(r), ~ ClaimSave(r)
  PROVE  AborterInv'
<1> USE DEF RequestStep, AddFind, AddPlace, AddSave, Refused, RemoveFind, RemoveSave, RemoveCompact,
        ClearScan, ClearSave, ClearReturn, ReorderFind, ReorderSave, ReorderReturn, StopFind,
        StopSave, StopClone, ProcessPick, ClaimFind, ClaimIdle, ClaimZombie
<1>1. \A s \in Requests : req[s].at = "done" => req'[s].at = "done"
  BY DEF Holding, Begin, Goto, Read, Return, ReturnUnlocked, TypeInv, ReqInv
<1>2. (UNCHANGED bg \/ AbortDispatch) /\ UNCHANGED aborter
  BY DEF dispatch
<1> QED
  BY <1>1, <1>2, AbortKeepsStages, AborterKept DEF TypeInv, RestInv

LEMMA ClaimSaveAborter ==
  ASSUME TypeInv, AborterInv, NEW r \in Requests, ClaimSave(r)
  PROVE  AborterInv'
<1>1. bg[r].at = "none"
  BY DEF ClaimSave, Holding, AborterInv, DispatchAfterCall
<1>2. req' = [req EXCEPT ![r] = Done] /\ UNCHANGED aborter
  BY DEF ClaimSave, ReturnUnlocked, Return
<1>3. \A s \in Requests : s # r => bg'[s] = bg[s]
  BY DEF ClaimSave, TypeInv, BgInv
<1>4. Done.at = "done"
  BY DEF Done, Unused
<1>5. DispatchAfterCall'
  BY <1>2, <1>3, <1>4 DEF AborterInv, DispatchAfterCall, TypeInv, ReqInv
<1>6. AborterIsLive'
  BY <1>1, <1>2, <1>3 DEF AborterInv, AborterIsLive, Running, TypeInv, RestInv
<1> QED
  BY <1>5, <1>6 DEF AborterInv

(* A dispatch goes on, or its end empties the map.                         *)
LEMMA BackgroundAborter ==
  ASSUME TypeInv, AborterInv, NEW r \in Requests, BackgroundStep(r)
  PROVE  AborterInv'
<1>1. bg[r].at # "none" /\ UNCHANGED req
  BY DEF BackgroundStep, BgBegin, BgReady, BgWaitTimeout, Land, Answered, SendFails,
         SendRetried, OkFind, OkCompact, OkSave, FailFind, FailSave, InStage, api
<1>2. \A s \in Requests : s # r => bg'[s] = bg[s]
  BY DEF BackgroundStep, BgBegin, BgReady, BgWaitTimeout, Land, Answered, SendFails,
         SendRetried, OkFind, OkCompact, OkSave, FailFind, FailSave, Advance, Settle, TypeInv, BgInv
<1>3. DispatchAfterCall'
  BY <1>1, <1>2 DEF AborterInv, DispatchAfterCall
<1>4. CASE BgBegin(r)
  <2>1. CASE job[bg[r].id].st = "STARTING"
    <3>1. aborter' = r /\ bg'[r].at = "ready"
      BY <1>4, <2>1 DEF BgBegin, TypeInv, BgInv, GoodBackground, Background
    <3> QED
      BY <1>3, <3>1 DEF AborterInv, AborterIsLive, Running
  <2>2. CASE job[bg[r].id].st # "STARTING"
    <3>1. UNCHANGED aborter /\ bg[r].at = "spawned"
      BY <1>4, <2>2 DEF BgBegin, InStage
    <3> QED
      BY <1>2, <1>3, <3>1 DEF AborterInv, AborterIsLive, Running, TypeInv, RestInv
  <2> QED
    BY <2>1, <2>2
<1>5. CASE OkSave(r) \/ FailSave(r)
  BY <1>3, <1>5 DEF OkSave, FailSave, Settle, AborterInv, AborterIsLive
<1>6. CASE ~ BgBegin(r) /\ ~ OkSave(r) /\ ~ FailSave(r)
  <2>1. bg'[r].at \notin {"none", "spawned"} /\ UNCHANGED aborter
    BY <1>6 DEF BackgroundStep, BgReady, BgWaitTimeout, Land, Answered, SendFails,
                SendRetried, OkFind, OkCompact, FailFind, Advance, TypeInv, BgInv,
                GoodBackground, Background
  <2> QED
    BY <1>2, <1>3, <2>1 DEF AborterInv, AborterIsLive, Running, TypeInv, RestInv
<1> QED
  BY <1>3, <1>4, <1>5, <1>6 DEF AborterInv

LEMMA AborterStep == TypeInv /\ AborterInv /\ [Next]_vars => AborterInv'
<1> SUFFICES ASSUME TypeInv, AborterInv, [Next]_vars PROVE AborterInv'
  OBVIOUS
<1>1. CASE UNCHANGED vars
  BY <1>1 DEF vars, AborterInv, DispatchAfterCall, AborterIsLive, Running
<1>2. ASSUME PrinterStep \/ ObserverStep \/ Boot PROVE AborterInv'
  <2>1. UNCHANGED <<req, bg, aborter>>
    BY <1>2 DEF PrinterStep, PrintEnds, PrinterRests, PanelStop, PanelStart, ObserverStep,
                PollAnswer, PollHandled, LiveExpires, Boot, api, dispatch
  <2> QED
    BY <2>1, AborterKept DEF TypeInv, RestInv
<1>3. CASE Crash
  BY <1>3, NoReqAssumption DEF Crash, AborterInv, DispatchAfterCall, AborterIsLive, Settled
<1> QED
  BY <1>1, <1>2, <1>3, CallAborter, RequestAborter, ClaimSaveAborter, BackgroundAborter DEF Next

LEMMA AborterInit == Init => AborterInv
  BY DEF Init, AborterInv, DispatchAfterCall, AborterIsLive, Settled

(* Whatever calls are made, the controller a cancel aborts is the one of a *)
(* dispatch that has not settled: dispatchAbortersByPrinterId never keeps  *)
(* a controller that is over.                                              *)
THEOREM AborterLive == Spec => []AborterIsLive
<1>1. TypeInv /\ AborterInv => AborterIsLive
  BY DEF AborterInv
<1> QED
  BY TypeInvariant, AborterInit, AborterStep, <1>1, PTL DEF Spec

USE DEF api, dispatch, observer, world, process

Status(j) == job[j].st
Adding(s) == req[s].op \in {"add", "front"}

(* A step that only passes an abort on leaves each dispatch its stage.     *)
LEMMA AbortKeeps ==
  ASSUME TypeInv, UNCHANGED bg \/ AbortDispatch
  PROVE  \A s \in Requests :
            bg'[s].at = bg[s].at /\ bg'[s].id = bg[s].id /\ bg'[s].row = bg[s].row
  BY DEF AbortDispatch, TypeInv, BgInv, RestInv, GoodBackground, Background

(* What the helpers of the actions make of the call that takes the step.   *)
LEMMA BeginIs ==
  ASSUME TypeInv, NEW r \in Requests, NEW op, NEW at, NEW j, Begin(r, op, at, j)
  PROVE  /\ req'[r].op = op /\ req'[r].at = at /\ req'[r].id = j
         /\ \A s \in Requests \ {r} : req'[s] = req[s]
  BY DEF Begin, Unused, TypeInv, ReqInv

LEMMA GotoIs ==
  ASSUME TypeInv, NEW r \in Requests, NEW at, Goto(r, at)
  PROVE  /\ req'[r].op = req[r].op /\ req'[r].at = at /\ req'[r].id = req[r].id
         /\ req'[r].row = req[r].row /\ req'[r].todo = req[r].todo
         /\ \A s \in Requests \ {r} : req'[s] = req[s]
  BY DEF Goto, TypeInv, ReqInv, GoodCall, Call

LEMMA ReadIs ==
  ASSUME TypeInv, NEW r \in Requests, NEW at, NEW j, Read(r, at, j)
  PROVE  /\ req'[r].op = req[r].op /\ req'[r].at = at /\ req'[r].id = j
         /\ req'[r].row = job[j] /\ req'[r].ids = req[r].ids
         /\ \A s \in Requests \ {r} : req'[s] = req[s]
  BY DEF Read, TypeInv, ReqInv, GoodCall, Call

LEMMA ReturnIs ==
  ASSUME TypeInv, NEW r \in Requests, Return(r)
  PROVE  /\ req'[r].op = "none" /\ req'[r].at = "done"
         /\ \A s \in Requests \ {r} : req'[s] = req[s]
  BY DEF Return, Done, Unused, TypeInv, ReqInv

LEMMA PlaceIs ==
  ASSUME TypeInv, NEW r \in Requests, AddPlace(r)
  PROVE  /\ req'[r].op = req[r].op /\ req'[r].at = "save" /\ req'[r].id = req[r].id
         /\ req'[r].row.st = "QUEUED"
         /\ req'[r].row.pos \in IF req[r].op = "front" THEN {0} ELSE NextPositions(job)
         /\ \A s \in Requests \ {r} : req'[s] = req[s]
<1>1. PICK p \in IF req[r].op = "front" THEN {0} ELSE NextPositions(job) :
        req' = [req EXCEPT ![r].at = "save", ![r].row = [@ EXCEPT !.st = "QUEUED", !.pos = p]]
  BY DEF AddPlace
<1>2. req[r].row \in Row /\ req[r] \in Call /\ req \in [Requests -> Call]
  BY DEF TypeInv, ReqInv, GoodCall, Call
<1>3. req'[r].row.pos = p /\ req'[r].row.st = "QUEUED"
  BY <1>1, <1>2 DEF Call, Row
<1> QED
  BY <1>1, <1>2, <1>3 DEF Call

----------------------------------------------------------------------------
(* No row stays STARTING                                                   *)

(* Nobody saves a row with the status it had when it was read: remove and  *)
(* reorder do, and can bring back the STARTING of a dispatch that is over. *)
NoOldStatus == Ops \cap {"remove", "reorder"} = {}

(* A STARTING row has its dispatch while the server is up.                 *)
StartedInv ==
    up => \A j \in Jobs : Status(j) = "STARTING" =>
                \E s \in Requests : bg[s].at # "none" /\ bg[s].id = j

(* What an addition will save is QUEUED.                                   *)
SavesQueued(s) ==
    /\ req[s].op \notin {"remove", "reorder"}
    /\ Adding(s) => req[s].at \in {"waiting", "place", "save"}
    /\ Adding(s) /\ req[s].at = "save" => req[s].row.st = "QUEUED"

StrandInv == NoOldStatus /\ StartedInv /\ \A s \in Requests : SavesQueued(s)

(* No row becomes STARTING, no dispatch ends.                              *)
LEMMA StartedKept ==
  ASSUME StartedInv, UNCHANGED up,
         \A j \in Jobs : Status(j)' = "STARTING" => Status(j) = "STARTING",
         \A s \in Requests : bg[s].at # "none" => bg'[s].at # "none" /\ bg'[s].id = bg[s].id
  PROVE  StartedInv'
  BY DEF StartedInv

(* A row written with another status is not a new STARTING row.            *)
LEMMA SaveNotStarting ==
  ASSUME TypeInv, NEW k, NEW row, Save(k, row), row.st # "STARTING"
  PROVE  \A j \in Jobs : Status(j)' = "STARTING" => Status(j) = "STARTING"
  BY DEF Save, Status, TypeInv, JobInv, Tables

LEMMA CallStrand ==
  ASSUME TypeInv, StrandInv, NEW r \in Requests, CallStep(r)
  PROVE  StrandInv'
<1>1. (UNCHANGED bg \/ AbortDispatch) /\ UNCHANGED up
  BY DEF CallStep, AddCall, RemoveCall, SubmitCall, FileCall, ProcessCall, ReorderCall,
         ClearCall, CancelDispatch, StopPrinter
<1>2. UNCHANGED job \/ \E j \in Jobs, row \in Row : row.st = "PENDING" /\ Save(j, row)
  <2>1. ASSUME NEW f \in Files, FileCall(r, f)
        PROVE  \E j \in Jobs, row \in Row : row.st = "PENDING" /\ Save(j, row)
    <3>1. (f \in UsbFiles) \in BOOLEAN
      OBVIOUS
    <3> QED
      BY <2>1, <3>1, PendingRowIsRow, FreeIdsAreJobs DEF FileCall
  <2> QED
    BY <2>1 DEF CallStep, AddCall, RemoveCall, SubmitCall, ProcessCall, ReorderCall, ClearCall,
                CancelDispatch, StopPrinter
<1>3. \A j \in Jobs : Status(j)' = "STARTING" => Status(j) = "STARTING"
  BY <1>2, SaveNotStarting DEF Status
<1>4. StartedInv'
  BY <1>1, <1>3, AbortKeeps, StartedKept DEF StrandInv
<1>5. \A s \in Requests \ {r} : req'[s] = req[s]
  BY DEF CallStep, AddCall, RemoveCall, SubmitCall, FileCall, ProcessCall, ReorderCall,
         ClearCall, CancelDispatch, StopPrinter, Begin, Return, TypeInv, ReqInv
<1>6. ~ RemoveCall(r, req[r].id) /\ ~ ReorderCall(r) /\ \A j : ~ RemoveCall(r, j)
  BY DEF RemoveCall, ReorderCall, Fresh, StrandInv, NoOldStatus
<1>7. /\ req'[r].op \notin {"remove", "reorder"}
      /\ req'[r].op \in {"add", "front"} => req'[r].at = "waiting"
  BY <1>6, BeginIs, ReturnIs
     DEF CallStep, AddCall, SubmitCall, FileCall, ProcessCall, ClearCall, CancelDispatch, StopPrinter
<1>8. \A s \in Requests : SavesQueued(s)'
  BY <1>5, <1>7 DEF StrandInv, SavesQueued, Adding
<1> QED
  BY <1>4, <1>8 DEF StrandInv, NoOldStatus

(* Every save of a call writes a status of its own, and none is STARTING.  *)
LEMMA RequestNotStarting ==
  ASSUME TypeInv, StrandInv, NEW r \in Requests, RequestStep(r), ~ ClaimSave(r)
  PROVE  \A j \in Jobs : Status(j)' = "STARTING" => Status(j) = "STARTING"
<1>1. CASE AddPlace(r) \/ RemoveCompact(r)
  <2>1. job \in Tables
    BY DEF TypeInv, JobInv
  <2>2. CASE AddPlace(r)
    BY <2>1, <2>2, ShiftedTable DEF AddPlace, Status
  <2>3. CASE RemoveCompact(r)
    BY <2>1, <2>3, CompactedTable DEF RemoveCompact, Status
  <2> QED
    BY <1>1, <2>2, <2>3
<1>2. CASE AddSave(r)
  BY <1>2, SaveNotStarting DEF AddSave, Holding, Adding, StrandInv, SavesQueued
<1>3. CASE ClearSave(r) \/ StopSave(r) \/ ClaimZombie(r) \/ StopClone(r)
  <2>1. req[r].row \in Row /\ \A e \in req[r].todo : e.row \in Row
    BY CallHasJob DEF TypeInv, Entity
  <2>2. \A row \in Row : /\ [row EXCEPT !.st = "PENDING", !.pos = NoPos].st = "PENDING"
                         /\ [row EXCEPT !.st = "CANCELLED"].st = "CANCELLED"
                         /\ [row EXCEPT !.st = "UNKNOWN"].st = "UNKNOWN"
                         /\ PendingRow(row.file, row.usb).st = "PENDING"
    BY PendingRowIsRow DEF Row
  <2> QED
    BY <1>3, <2>1, <2>2, SaveNotStarting DEF ClearSave, StopSave, ClaimZombie, StopClone
<1>4. ~ RemoveFind(r) /\ ~ RemoveSave(r) /\ ~ ReorderFind(r) /\ ~ ReorderSave(r) /\ ~ ReorderReturn(r)
  BY DEF RemoveFind, RemoveSave, ReorderFind, ReorderSave, ReorderReturn, StrandInv, SavesQueued
<1> QED
  BY <1>1, <1>2, <1>3, <1>4
     DEF RequestStep, AddFind, Refused, ClearScan, ClearReturn, StopFind, ProcessPick, ClaimFind,
         ClaimIdle, Status

LEMMA RequestSaves ==
  ASSUME TypeInv, StrandInv, NEW r \in Requests, RequestStep(r)
  PROVE  \A s \in Requests : SavesQueued(s)'
<1>1. SavesQueued(r) /\ req[r] \in Call /\ req[r].row \in Row
  BY CallHasJob DEF StrandInv, TypeInv, ReqInv, GoodCall
<1>2. ~ RemoveFind(r) /\ ~ RemoveSave(r) /\ ~ ReorderFind(r) /\ ~ ReorderSave(r) /\ ~ ReorderReturn(r)
  BY <1>1 DEF RemoveFind, RemoveSave, ReorderFind, ReorderSave, ReorderReturn, SavesQueued
<1>3. \A s \in Requests \ {r} : req'[s] = req[s]
  BY DEF RequestStep, AddFind, AddPlace, AddSave, Refused, RemoveFind, RemoveSave, RemoveCompact,
         ClearScan, ClearSave, ClearReturn, ReorderFind, ReorderSave, ReorderReturn, StopFind,
         StopSave, StopClone, ProcessPick, ClaimFind, ClaimIdle, ClaimZombie, ClaimSave,
         Begin, Goto, Read, Return, ReturnUnlocked, TypeInv, ReqInv
<1>4. ASSUME Return(r) PROVE SavesQueued(r)'
  BY <1>4, ReturnIs DEF SavesQueued, Adding
<1>5. ASSUME AddPlace(r) PROVE SavesQueued(r)'
  BY <1>1, <1>5, PlaceIs DEF SavesQueued, Adding
<1>6. ASSUME StopClone(r) \/ AddFind(r) PROVE SavesQueued(r)'
  BY <1>1, <1>6, BeginIs, ReadIs DEF StopClone, AddFind, SavesQueued, Adding
<1>7. ASSUME ~ Return(r), ~ AddPlace(r), ~ StopClone(r), ~ AddFind(r) PROVE SavesQueued(r)'
  <2>1. ~ Adding(r)
    BY <1>1, <1>2, <1>7, CallHasJob
       DEF RequestStep, AddSave, Refused, RemoveCompact, ClearScan, ClearSave, ClearReturn, StopFind,
           StopSave, ProcessPick, ClaimFind, ClaimIdle, ClaimZombie, ClaimSave, ReturnUnlocked,
           Holding, SavesQueued, Adding, TypeInv
  <2>2. req'[r].op = req[r].op
    BY <1>1, <1>2, <1>7, GotoIs, ReadIs
       DEF RequestStep, AddSave, Refused, RemoveCompact, ClearScan, ClearSave, ClearReturn, StopFind,
           StopSave, ProcessPick, ClaimFind, ClaimIdle, ClaimZombie, ClaimSave, ReturnUnlocked,
           TypeInv, ReqInv, Call
  <2> QED
    BY <1>1, <2>1, <2>2 DEF SavesQueued, Adding
<1>8. SavesQueued(r)'
  BY <1>4, <1>5, <1>6, <1>7
<1> QED
  BY <1>3, <1>8 DEF StrandInv, SavesQueued, Adding

(* A claim makes the only new STARTING row, and its dispatch with it.      *)
LEMMA RequestStrand ==
  ASSUME TypeInv, AborterInv, StrandInv, NEW r \in Requests, RequestStep(r)
  PROVE  StrandInv'
<1>1. \A s \in Requests : SavesQueued(s)'
  BY RequestSaves
<1>2. CASE ~ ClaimSave(r)
  <2>1. (UNCHANGED bg \/ AbortDispatch) /\ UNCHANGED up
    BY <1>2 DEF RequestStep, AddFind, AddPlace, AddSave, Refused, RemoveFind, RemoveSave,
                RemoveCompact, ClearScan, ClearSave, ClearReturn, ReorderFind, ReorderSave,
                ReorderReturn, StopFind, StopSave, StopClone, ProcessPick, ClaimFind, ClaimIdle,
                ClaimZombie
  <2> QED
    BY <1>1, <1>2, <2>1, RequestNotStarting, AbortKeeps, StartedKept DEF StrandInv, NoOldStatus
<1>3. CASE ClaimSave(r)
  <2>1. PICK k \in Jobs : k = req[r].id
    BY <1>3, CallHasJob DEF ClaimSave, Holding, TypeInv, Carries
  <2>2. bg[r].at = "none"
    BY <1>3 DEF ClaimSave, Holding, AborterInv, DispatchAfterCall
  <2>3. /\ bg'[r].at = "spawned" /\ bg'[r].id = k
        /\ \A s \in Requests \ {r} : bg'[s] = bg[s]
    BY <1>3, <2>1 DEF ClaimSave, Settled, TypeInv, BgInv
  <2>4. \A j \in Jobs : j # k => Status(j)' = Status(j)
    BY <1>3, <2>1 DEF ClaimSave, Save, Status, TypeInv, JobInv, Tables
  <2>5. StartedInv'
    BY <1>3, <2>2, <2>3, <2>4 DEF ClaimSave, StrandInv, StartedInv
  <2> QED
    BY <1>1, <2>5 DEF StrandInv, NoOldStatus
<1> QED
  BY <1>2, <1>3

(* A dispatch ends with a row that is not STARTING any more.               *)
LEMMA BackgroundStrand ==
  ASSUME TypeInv, StrandInv, NEW r \in Requests, BackgroundStep(r)
  PROVE  StrandInv'
<1>0. PICK k \in Jobs : k = bg[r].id
  BY BgHasJob DEF TypeInv, BackgroundStep, BgBegin, BgReady, BgWaitTimeout, Land, Answered, SendFails,
                  SendRetried, OkFind, OkCompact, OkSave, FailFind, FailSave, InStage
<1>1. UNCHANGED <<req, up>> /\ \A s \in Requests : s # r => bg'[s] = bg[s]
  BY DEF BackgroundStep, BgBegin, BgReady, BgWaitTimeout, Land, Answered, SendFails, SendRetried,
         OkFind, OkCompact, OkSave, FailFind, FailSave, Advance, Settle, TypeInv, BgInv
<1>2. \A s \in Requests : SavesQueued(s)'
  BY <1>1 DEF StrandInv, SavesQueued, Adding
<1>3. CASE OkSave(r) \/ FailSave(r)
  <2>1. bg[r].row \in Row
    BY BgHasJob DEF TypeInv
  <2>2. PICK row : row.st # "STARTING" /\ Save(k, row)
    BY <1>0, <1>3, <2>1 DEF OkSave, FailSave, RolledBack, Row
  <2>3. Status(k)' # "STARTING" /\ \A j \in Jobs : j # k => Status(j)' = Status(j)
    BY <2>2 DEF Save, Status, TypeInv, JobInv, Tables
  <2> QED
    BY <1>0, <1>1, <1>2, <2>3 DEF StrandInv, NoOldStatus, StartedInv
<1>4. CASE BgBegin(r) /\ Status(k) # "STARTING"
  <2>1. UNCHANGED job
    BY <1>4 DEF BgBegin
  <2> QED
    BY <1>0, <1>1, <1>2, <1>4, <2>1 DEF StrandInv, NoOldStatus, StartedInv, Status
<1>5. CASE ~ OkSave(r) /\ ~ FailSave(r) /\ (BgBegin(r) => Status(k) = "STARTING")
  <2>1. \A j \in Jobs : Status(j)' = Status(j)
    BY <1>5, CompactedTable
       DEF BackgroundStep, BgBegin, BgReady, BgWaitTimeout, Land, Answered, SendFails,
           SendRetried, OkFind, OkCompact, FailFind, Status, TypeInv, JobInv
  <2>2. bg'[r].at # "none" /\ bg'[r].id = bg[r].id
    BY <1>0, <1>5 DEF BackgroundStep, BgBegin, BgReady, BgWaitTimeout, Land, Answered, SendFails,
                      SendRetried, OkFind, OkCompact, FailFind, Advance, Status, TypeInv, BgInv,
                      GoodBackground, Background
  <2>3. \A s \in Requests : bg[s].at # "none" => bg'[s].at # "none" /\ bg'[s].id = bg[s].id
    BY <1>1, <2>2
  <2> QED
    BY <1>1, <1>2, <2>1, <2>3, StartedKept DEF StrandInv, NoOldStatus
<1> QED
  BY <1>3, <1>4, <1>5

(* What the observer makes of a reading leaves every row alone, or ends or *)
(* prints it.                                                              *)
LEMMA HandledRows ==
  ASSUME TypeInv, PollHandled, NEW j \in Jobs
  PROVE  SeenRow(job, job', j)
<1>1. obs.file \in Files \cup {NoFile} /\ NoFile \in Files \cup {NoFile} /\ job \in Tables
  BY DEF TypeInv, RestInv, JobInv
<1>2. job' \in {job} \cup PrintStarted(job, obs.file) \cup PrintEnded(job, obs.file, "COMPLETED")
                 \cup PrintEnded(job, NoFile, "CANCELLED")
  BY DEF PollHandled, Observed
<1>3. job' \in PrintStarted(job, obs.file) => SeenRow(job, job', j)
  BY <1>1, PrintStartedRows
<1>4. job' \in PrintEnded(job, obs.file, "COMPLETED") => SeenRow(job, job', j)
  BY <1>1, PrintEndedRows
<1>5. job' \in PrintEnded(job, NoFile, "CANCELLED") => SeenRow(job, job', j)
  BY <1>1, PrintEndedRows
<1> QED
  BY <1>2, <1>3, <1>4, <1>5 DEF SeenRow

LEMMA StrandStep == TypeInv /\ AborterInv /\ StrandInv /\ [Next]_vars => StrandInv'
<1> SUFFICES ASSUME TypeInv, AborterInv, StrandInv, [Next]_vars PROVE StrandInv'
  OBVIOUS
<1>1. CASE UNCHANGED vars \/ PrinterStep \/ ObserverStep
  <2>1. UNCHANGED <<req, bg, up>>
    BY <1>1 DEF vars, PrinterStep, PrintEnds, PrinterRests, PanelStop, PanelStart, ObserverStep,
                PollAnswer, PollHandled, LiveExpires
  <2>2. UNCHANGED job \/ PollHandled
    BY <1>1 DEF vars, PrinterStep, PrintEnds, PrinterRests, PanelStop, PanelStart, ObserverStep,
                PollAnswer, LiveExpires
  <2>3. \A j \in Jobs : Status(j)' = "STARTING" => Status(j) = "STARTING"
    BY <2>2, HandledRows DEF SeenRow, Seen, Status
  <2> QED
    BY <2>1, <2>3, StartedKept DEF StrandInv, NoOldStatus, SavesQueued, Adding
<1>2. CASE Crash
  <2>1. \A s \in Requests : req'[s].op = "none"
    BY <1>2 DEF Crash, Done, Unused
  <2> QED
    BY <1>2, <2>1 DEF Crash, StrandInv, NoOldStatus, StartedInv, SavesQueued, Adding
<1>3. CASE Boot
  <2>1. \A j \in Jobs : Status(j)' # "STARTING"
    BY <1>3 DEF Boot, Recovered, Status, TypeInv, JobInv, Tables, Row
  <2> QED
    BY <1>3, <2>1 DEF Boot, StrandInv, NoOldStatus, StartedInv, SavesQueued, Adding
<1> QED
  BY <1>1, <1>2, <1>3, CallStrand, RequestStrand, BackgroundStrand DEF Next

LEMMA StrandInit == NoOldStatus /\ Init => StrandInv
  BY DEF Init, Unused, Absent, Status, StrandInv, StartedInv, SavesQueued, Adding

(* No row stays STARTING without a dispatch that will write its outcome,   *)
(* whatever the observer takes it for and through any number of crashes:   *)
(* of the ten operations only remove and reorder can strand a row.         *)
THEOREM NoneStranded == NoOldStatus /\ Spec => []StartingIsDispatched
<1>1. StrandInv => StartingIsDispatched
  BY DEF StrandInv, StartedInv, StartingIsDispatched, InStatus, Status
<1> QED
  BY TypeInvariant, AborterInit, AborterStep, StrandInit, StrandStep, <1>1, PTL DEF Spec

----------------------------------------------------------------------------
(* A job in flight is not in the queue                                     *)

(* Every way a row gets into the queue begins with a row that is new, that *)
(* was in the queue when it was read under the lock, or is the end of its  *)
(* own dispatch.  Of the ten operations add and front of a job that exists *)
(* and submit do not keep to that.                                         *)
NoRequeue ==
    Ops \subseteq {"process", "cancel", "file", "stop", "clear", "remove", "reorder"}

Claiming(s) == req[s].op = "process" /\ req[s].at \in {"claim", "idle", "zombie", "save"}

(* A reorder that has read a queued row, and will save it as queued.       *)
Sorting(s) == req[s].op = "reorder" /\ req[s].at = "save" /\ req[s].row.st = "QUEUED"

(* The calls that will queue or dispatch the row whose id they carry.      *)
Wanting(s) == Claiming(s) \/ Sorting(s) \/ Adding(s)

InFlight(j) == \E s \in Requests : bg[s].at # "none" /\ bg[s].id = j

(* The statuses no row in flight has.                                      *)
Ashore == {"QUEUED", "absent"}

(* How far the calls of these operations can have come.                    *)
CallKind(s) ==
    \/ req[s].op = "none" /\ req[s].at \in {"unused", "done"}
    \/ req[s].op = "process" /\ req[s].at \in {"waiting", "claim", "idle", "zombie", "save"}
    \/ req[s].op \in {"add", "front"} /\ req[s].at \in {"waiting", "place", "save"}
    \/ req[s].op = "stop" /\ req[s].at \in {"stopped", "save", "clone"}
    \/ req[s].op = "clear" /\ req[s].at \in {"scan", "save"}
    \/ req[s].op = "remove" /\ req[s].at \in {"find", "save", "compact"}
    \/ req[s].op = "reorder" /\ req[s].at \in {"waiting", "save"}

(* The row a call will queue or dispatch exists and is not in flight.      *)
Wanted(s) ==
    /\ Claiming(s) \/ Sorting(s) =>
          Lock!Owns(s) /\ Status(req[s].id) # "absent" /\ ~ InFlight(req[s].id)
    /\ Adding(s) => Status(req[s].id) \notin Ashore /\ ~ InFlight(req[s].id)

(* What a call has read, or is about to read, and will save.               *)
CopyKept(s) ==
    /\ Adding(s) /\ req[s].at = "save" => req[s].row.st = "QUEUED"
    /\ req[s].op = "remove" /\ req[s].at = "find" => Status(req[s].id) # "absent"
    /\ req[s].op \in {"remove", "reorder"} /\ req[s].at = "save" => req[s].row.st # "absent"
    /\ req[s].op = "reorder" => \A i \in 1..Len(req[s].ids) : Status(req[s].ids[i]) # "absent"

(* The row of a dispatch, and the copy it saves at the end.                *)
Sailing(s) ==
    /\ bg[s].at # "none" => Status(bg[s].id) \notin Ashore
    /\ bg[s].at \in {"drop", "written"} => bg[s].row.st \notin Ashore

(* No two calls want the same row, no two dispatches send it.              *)
OneWants == \A s, t \in Requests : Wanting(s) /\ Wanting(t) /\ req[s].id = req[t].id => s = t
OneSends ==
    \A s, t \in Requests :
        bg[s].at # "none" /\ bg[t].at # "none" /\ bg[s].id = bg[t].id => s = t

DownInv == ~ up => \A s \in Requests : req[s].op = "none" /\ bg[s].at = "none"

FlightInv ==
    /\ NoRequeue
    /\ \A s \in Requests : CallKind(s) /\ Wanted(s) /\ CopyKept(s) /\ Sailing(s)
    /\ OneWants /\ OneSends
    /\ DownInv

LEMMA OwnsKept ==
  ASSUME LineInv, NEW s \in Requests, NEW r \in Requests, Lock!Owns(s),
         UNCHANGED line \/ Lock!Arrive(r) \/ (Lock!Leave(r) /\ r # s)
  PROVE  Lock!Owns(s)'
<1>1. CASE Lock!Arrive(r)
  <2>1. line \in Seq(Requests) /\ line # <<>> /\ line' = Append(line, r)
    BY <1>1 DEF LineInv, Lock!Owns, Lock!Arrive
  <2>2. Head(line') = Head(line) /\ line' # <<>>
    BY <2>1
  <2> QED
    BY <2>2 DEF Lock!Owns
<1> QED
  BY <1>1 DEF Lock!Owns, Lock!Leave

LEMMA OneOwner ==
  ASSUME NEW s \in Requests, NEW r \in Requests, Lock!Owns(s), Lock!Owns(r)
  PROVE  s = r
  BY DEF Lock!Owns

LEMMA WantsJob == ASSUME TypeInv, NEW s \in Requests, Wanting(s) PROVE req[s].id \in Jobs
  BY CallHasJob DEF Wanting, Claiming, Sorting, Adding, Carries, TypeInv

(* No row disappears, so what a call knows of existing rows stays true.    *)
LEMMA CopyStays ==
  ASSUME TypeInv, NEW s \in Requests, CopyKept(s), req'[s] = req[s],
         \A j \in Jobs : Status(j)' = "absent" => Status(j) = "absent"
  PROVE  CopyKept(s)'
<1>1. req[s].op = "remove" => req[s].id \in Jobs
  BY CallHasJob DEF Carries, TypeInv
<1>2. \A i \in 1..Len(req[s].ids) : req[s].ids[i] \in Jobs
  BY CallHasJob DEF TypeInv
<1> QED
  BY <1>1, <1>2 DEF CopyKept, Adding

LEMMA FlightUp ==
  ASSUME FlightInv, NEW r \in Requests, req[r].at \notin {"unused", "done"} \/ bg[r].at # "none"
  PROVE  up
  BY DEF FlightInv, CallKind, DownInv

(* Another call s keeps its part when r takes a step: the row it wants is  *)
(* not written, or not with a status of the queue.                         *)
LEMMA OthersWanted ==
  ASSUME TypeInv, FlightInv, NEW r \in Requests, NEW s \in Requests \ {r}, req'[s] = req[s],
         UNCHANGED line \/ Lock!Arrive(r) \/ Lock!Leave(r),
         Wanting(s) => \/ Status(req[s].id)' = Status(req[s].id)
                       \/ Status(req[s].id)' \notin Ashore,
         Wanting(s) /\ InFlight(req[s].id)' => InFlight(req[s].id),
         \A j \in Jobs : Status(j)' = "absent" => Status(j) = "absent"
  PROVE  (CallKind(s) /\ Wanted(s) /\ CopyKept(s))'
<1>1. CallKind(s) /\ Wanted(s) /\ CopyKept(s)
  BY DEF FlightInv
<1>2. Claiming(s) \/ Sorting(s) => Lock!Owns(s)'
  BY <1>1, OwnsKept DEF Wanted, TypeInv
<1>3. /\ Wanting(s)' = Wanting(s) /\ Claiming(s)' = Claiming(s)
      /\ Sorting(s)' = Sorting(s) /\ Adding(s)' = Adding(s)
  BY DEF Wanting, Claiming, Sorting, Adding
<1>4. Wanted(s)'
  BY <1>1, <1>2, <1>3 DEF Wanted, Wanting, Ashore
<1>5. CopyKept(s)'
  BY <1>1, CopyStays
<1> QED
  BY <1>1, <1>4, <1>5 DEF CallKind

(* A step of the call r.                                                   *)
LEMMA CallFlight ==
  ASSUME TypeInv, FlightInv, NEW r \in Requests, up, UNCHANGED up,
         \A s \in Requests \ {r} : req'[s] = req[s],
         UNCHANGED line \/ Lock!Arrive(r) \/ Lock!Leave(r),
         \A s \in Requests \ {r} : Wanting(s) =>
             /\ Status(req[s].id)' = Status(req[s].id) \/ Status(req[s].id)' \notin Ashore
             /\ InFlight(req[s].id)' => InFlight(req[s].id)
             /\ Wanting(r)' => req'[r].id # req[s].id,
         \A j \in Jobs : Status(j)' = "absent" => Status(j) = "absent",
         (CallKind(r) /\ Wanted(r) /\ CopyKept(r))',
         \A s \in Requests : Sailing(s)', OneSends'
  PROVE  FlightInv'
<1>1. \A s \in Requests : (CallKind(s) /\ Wanted(s) /\ CopyKept(s))'
  BY OthersWanted
<1>2. \A s \in Requests \ {r} : Wanting(s)' = Wanting(s)
  BY DEF Wanting, Claiming, Sorting, Adding
<1>3. OneWants'
  BY <1>2 DEF OneWants, FlightInv
<1> QED
  BY <1>1, <1>3 DEF FlightInv, DownInv, NoRequeue

(* A row that is written, but not with a status of the queue.              *)
Mild == \A j \in Jobs : Status(j)' = Status(j) \/ Status(j)' \notin Ashore

LEMMA MildCall ==
  ASSUME TypeInv, FlightInv, NEW r \in Requests, up, UNCHANGED up, Mild,
         \A s \in Requests \ {r} : req'[s] = req[s],
         UNCHANGED line \/ Lock!Arrive(r) \/ Lock!Leave(r),
         \A s \in Requests :
             bg'[s].at = bg[s].at /\ bg'[s].id = bg[s].id /\ bg'[s].row = bg[s].row,
         \A s \in Requests \ {r} : Wanting(s) /\ Wanting(r)' => req'[r].id # req[s].id,
         (CallKind(r) /\ Wanted(r) /\ CopyKept(r))'
  PROVE  FlightInv'
<1>1. \A j \in Jobs : InFlight(j)' <=> InFlight(j)
  BY DEF InFlight
<1>2. \A s \in Requests : Sailing(s)'
  BY BgHasJob DEF FlightInv, Sailing, Mild, TypeInv
<1>3. OneSends'
  BY DEF FlightInv, OneSends
<1> QED
  BY <1>1, <1>2, <1>3, CallFlight, WantsJob DEF Mild, Ashore

(* The call r wants no other row than before.                              *)
LEMMA SameFlight ==
  ASSUME TypeInv, FlightInv, NEW r \in Requests, up, UNCHANGED up, Mild,
         \A s \in Requests \ {r} : req'[s] = req[s],
         UNCHANGED line \/ ((Lock!Arrive(r) \/ Lock!Leave(r)) /\ ~ Wanting(r)'),
         UNCHANGED bg \/ AbortDispatch,
         Claiming(r)' => Claiming(r) /\ req'[r].id = req[r].id,
         Adding(r)' => Adding(r) /\ req'[r].id = req[r].id, ~ Sorting(r)',
         (CallKind(r) /\ CopyKept(r))'
  PROVE  FlightInv'
<1>1. \A s \in Requests : bg'[s].at = bg[s].at /\ bg'[s].id = bg[s].id /\ bg'[s].row = bg[s].row
  BY AbortKeeps
<1>2. \A j \in Jobs : InFlight(j)' <=> InFlight(j)
  BY <1>1 DEF InFlight
<1>3. Wanting(r)' => Wanting(r) /\ req'[r].id = req[r].id /\ req[r].id \in Jobs
  BY WantsJob DEF Wanting
<1>4. Wanted(r)'
  BY <1>2, <1>3 DEF FlightInv, Wanted, Wanting, Mild, Ashore, Lock!Owns
<1>5. \A s \in Requests \ {r} : Wanting(s) /\ Wanting(r)' => req'[r].id # req[s].id
  BY <1>3 DEF FlightInv, OneWants
<1> QED
  BY <1>1, <1>4, <1>5, MildCall

(* A call that returns, having written the table mildly or not at all.     *)
LEMMA ReturnFlight ==
  ASSUME TypeInv, FlightInv, NEW r \in Requests, up, UNCHANGED up, Mild, Return(r),
         UNCHANGED line \/ Lock!Leave(r), UNCHANGED bg \/ AbortDispatch
  PROVE  FlightInv'
<1>1. (CallKind(r) /\ CopyKept(r))' /\ ~ Claiming(r)' /\ ~ Sorting(r)' /\ ~ Adding(r)'
  BY ReturnIs DEF CallKind, CopyKept, Claiming, Sorting, Adding
<1> QED
  BY <1>1, ReturnIs, SameFlight DEF Wanting

LEMMA SaveMild ==
  ASSUME TypeInv, NEW k, NEW row, Save(k, row), row.st \notin Ashore
  PROVE  Mild
  BY DEF Save, Mild, Status, TypeInv, JobInv, Tables

LEMMA SameMild == UNCHANGED job => Mild
  BY DEF Mild, Status

----------------------------------------------------------------------------

(* A row of its own: nobody wants it, no dispatch sends it.                *)
LEMMA FreshFlight ==
  ASSUME TypeInv, FlightInv, NEW r \in Requests, up, UNCHANGED <<up, bg>>,
         NEW j \in FreeIds(job), NEW row \in Row, row.st = "PENDING", Save(j, row),
         Begin(r, "add", "waiting", j) \/ Begin(r, "front", "waiting", j), Lock!Arrive(r)
  PROVE  FlightInv'
<1>1. j \in Jobs /\ Status(j) = "absent" /\ Status(j)' = "PENDING"
  BY DEF FreeIds, Status, Save, TypeInv, JobInv, Tables
<1>2. Mild
  BY SaveMild DEF Ashore
<1>3. /\ req'[r].op \in {"add", "front"} /\ req'[r].at = "waiting" /\ req'[r].id = j
      /\ \A s \in Requests \ {r} : req'[s] = req[s]
  BY BeginIs
<1>4. ~ InFlight(j) /\ \A s \in Requests : Wanting(s) => req[s].id # j
  BY <1>1 DEF FlightInv, Wanted, Wanting, Sailing, InFlight, Ashore
<1>5. ~ InFlight(j)'
  BY <1>4 DEF InFlight
<1>6. (CallKind(r) /\ Wanted(r) /\ CopyKept(r))'
  BY <1>1, <1>3, <1>5 DEF CallKind, Wanted, CopyKept, Claiming, Sorting, Adding, Ashore
<1> QED
  BY <1>2, <1>3, <1>4, <1>6, MildCall

LEMMA CallStepFlight ==
  ASSUME TypeInv, FlightInv, NEW r \in Requests, CallStep(r)
  PROVE  FlightInv'
<1>1. \A op \in Ops : op \in {"process", "cancel", "file", "stop", "clear", "remove", "reorder"}
  BY DEF FlightInv, NoRequeue
<1>2. ASSUME NEW f \in Files, FileCall(r, f) PROVE FlightInv'
  <2>1. (f \in UsbFiles) \in BOOLEAN
    OBVIOUS
  <2>2. PendingRow(f, f \in UsbFiles) \in Row /\ PendingRow(f, f \in UsbFiles).st = "PENDING"
    BY PendingRowIsRow, <2>1
  <2> QED
    BY <1>2, <2>2, FreshFlight DEF FileCall, Fresh
<1>3. ASSUME NEW j \in Present(job), RemoveCall(r, j) PROVE FlightInv'
  <2>1. Status(j) # "absent" /\ UNCHANGED job
    BY <1>3 DEF Present, Status, RemoveCall
  <2>2. /\ req'[r].op = "remove" /\ req'[r].at = "find" /\ req'[r].id = j
        /\ \A s \in Requests \ {r} : req'[s] = req[s]
    BY <1>3, BeginIs DEF RemoveCall
  <2>3. (CallKind(r) /\ CopyKept(r))' /\ ~ Claiming(r)' /\ ~ Sorting(r)' /\ ~ Adding(r)'
    BY <2>1, <2>2 DEF CallKind, CopyKept, Claiming, Sorting, Adding, Status
  <2> QED
    BY <1>3, <2>1, <2>2, <2>3, SameMild, SameFlight DEF RemoveCall, Fresh
<1>4. CASE CancelDispatch(r)
  BY <1>4, SameMild, ReturnFlight DEF CancelDispatch, Fresh
<1>5. CASE ProcessCall(r) \/ ClearCall(r) \/ StopPrinter(r)
  <2>1. PICK op \in {"process", "clear", "stop"}, at \in {"waiting", "scan", "stopped"} :
           /\ Begin(r, op, at, 0)
           /\ <<op, at>> \in {<<"process", "waiting">>, <<"clear", "scan">>, <<"stop", "stopped">>}
    BY <1>5 DEF ProcessCall, ClearCall, StopPrinter
  <2>2. req'[r].op = op /\ req'[r].at = at /\ \A s \in Requests \ {r} : req'[s] = req[s]
    BY <2>1, BeginIs
  <2>3. (CallKind(r) /\ CopyKept(r))' /\ ~ Claiming(r)' /\ ~ Sorting(r)' /\ ~ Adding(r)'
    BY <2>1, <2>2 DEF CallKind, CopyKept, Claiming, Sorting, Adding
  <2>4. up /\ UNCHANGED <<job, up>> /\ (UNCHANGED bg \/ AbortDispatch)
        /\ (UNCHANGED line \/ Lock!Arrive(r))
    BY <1>5 DEF ProcessCall, ClearCall, StopPrinter, Fresh
  <2> QED
    BY <2>2, <2>3, <2>4, SameMild, SameFlight DEF Wanting
<1>6. CASE ReorderCall(r)
  <2>1. PICK ids \in SwappedOrders :
          req' = [req EXCEPT ![r] = [Unused EXCEPT !.op = "reorder", !.at = "waiting", !.ids = ids]]
    BY <1>6 DEF ReorderCall
  <2>2. Len(ids) = 2 /\ ids[1] \in Shown /\ ids[2] \in Shown
    BY DEF SwappedOrders
  <2>3. \A i \in 1..Len(ids) : Status(ids[i]) # "absent"
    BY <2>2 DEF Shown, InStatus, Status
  <2>4. /\ req'[r].op = "reorder" /\ req'[r].at = "waiting" /\ req'[r].ids = ids
        /\ \A s \in Requests \ {r} : req'[s] = req[s]
    BY <2>1 DEF Unused, TypeInv, ReqInv
  <2>5. up /\ UNCHANGED <<job, up, bg>> /\ Lock!Arrive(r)
    BY <1>6 DEF ReorderCall, Fresh
  <2>6. (CallKind(r) /\ CopyKept(r))' /\ ~ Claiming(r)' /\ ~ Sorting(r)' /\ ~ Adding(r)'
    BY <2>3, <2>4, <2>5 DEF CallKind, CopyKept, Claiming, Sorting, Adding, Status
  <2> QED
    BY <2>4, <2>5, <2>6, SameMild, SameFlight DEF Wanting
<1> QED
  BY <1>1, <1>2, <1>3, <1>4, <1>5, <1>6 DEF CallStep, AddCall, SubmitCall, Fresh

(* The steps of calls that write nothing, or nothing with a status of the  *)
(* queue, and want no other row than before.                               *)
LEMMA QuietRequestFlight ==
  ASSUME TypeInv, FlightInv, NEW r \in Requests,
         \/ AddFind(r) \/ Refused(r) \/ RemoveFind(r) \/ ClearScan(r) \/ ClearReturn(r)
         \/ StopFind(r) \/ ClaimFind(r) \/ ClaimIdle(r) \/ ClaimZombie(r)
  PROVE  FlightInv'
<1>1. up /\ CallKind(r) /\ CopyKept(r)
  BY FlightUp DEF FlightInv, AddFind, Refused, RemoveFind, ClearScan, ClearReturn, StopFind, ClaimFind,
                  ClaimIdle, ClaimZombie, Holding
<1>2. UNCHANGED up /\ (UNCHANGED bg \/ AbortDispatch)
  BY DEF AddFind, Refused, RemoveFind, ClearScan, ClearReturn, StopFind, ClaimFind, ClaimIdle, ClaimZombie
<1>3. Mild
  <2>1. CASE ClaimZombie(r)
    <3>1. PICK e \in req[r].todo : Save(e.id, [e.row EXCEPT !.st = "UNKNOWN"])
      BY <2>1 DEF ClaimZombie
    <3>2. [e.row EXCEPT !.st = "UNKNOWN"].st = "UNKNOWN"
      BY CallHasJob DEF TypeInv, Entity, Row
    <3> QED
      BY <3>1, <3>2, SaveMild DEF Ashore
  <2>2. CASE ~ ClaimZombie(r)
    BY <2>2, SameMild DEF AddFind, Refused, RemoveFind, ClearScan, ClearReturn, StopFind, ClaimFind, ClaimIdle
  <2> QED
    BY <2>1, <2>2
<1>4. CASE Return(r) /\ (UNCHANGED line \/ Lock!Leave(r))
  BY <1>1, <1>2, <1>3, <1>4, ReturnFlight
<1>5. ASSUME ~ (Return(r) /\ (UNCHANGED line \/ Lock!Leave(r))) PROVE FlightInv'
  <2>1. UNCHANGED line
    BY <1>5 DEF AddFind, Refused, RemoveFind, ClearScan, ClearReturn, StopFind, ClaimFind, ClaimIdle,
                ClaimZombie, ReturnUnlocked
  <2>2. /\ req'[r].op = req[r].op
        /\ \A s \in Requests \ {r} : req'[s] = req[s]
        /\ Claiming(r)' => Claiming(r) /\ req'[r].id = req[r].id
        /\ Adding(r) => req'[r].id = req[r].id /\ req'[r].at = "place"
        /\ CallKind(r)'
        /\ req'[r].op = "remove" => req'[r].at = "save" /\ req'[r].row = job[req[r].id]
    <3>1. CASE AddFind(r)
      BY <1>1, <3>1, ReadIs DEF AddFind, CallKind, Holding, Adding, Claiming
    <3>5. CASE RemoveFind(r)
      BY <1>1, <3>5, ReadIs DEF RemoveFind, CallKind, Adding, Claiming
    <3>6. CASE StopFind(r)
      BY <1>1, <1>5, <3>6, ReadIs DEF StopFind, CallKind, Adding, Claiming
    <3>7. CASE ClaimFind(r)
      BY <1>1, <3>7, ReadIs DEF ClaimFind, CallKind, Holding, Adding, Claiming
    <3>2. CASE Refused(r) \/ ClearReturn(r)
      BY <1>5, <3>2 DEF Refused, ClearReturn, ReturnUnlocked
    <3>3. CASE ClearScan(r) \/ ClaimZombie(r)
      BY <1>1, <3>3 DEF ClearScan, ClaimZombie, CallKind, Holding, Adding, Claiming, TypeInv, ReqInv,
                        GoodCall, Call
    <3>4. CASE ClaimIdle(r)
      <4>1. CASE Goto(r, "save")
        BY <1>1, <3>4, <4>1, GotoIs DEF ClaimIdle, CallKind, Holding, Adding, Claiming
      <4>2. CASE ~ Goto(r, "save")
        BY <1>1, <1>5, <3>4, <4>2
           DEF ClaimIdle, ReturnUnlocked, CallKind, Holding, Adding, Claiming, TypeInv, ReqInv, GoodCall,
               Call
      <4> QED
        BY <4>1, <4>2
    <3> QED
      BY <3>1, <3>2, <3>3, <3>4, <3>5, <3>6, <3>7
  <2>3. Adding(r)' => Adding(r) /\ req'[r].id = req[r].id /\ req'[r].at = "place"
    BY <2>2 DEF Adding
  <2>4. req[r].op = "remove" => req[r].at = "find"
    BY <1>1 DEF AddFind, Refused, RemoveFind, ClearScan, ClearReturn, StopFind, ClaimFind, ClaimIdle,
                ClaimZombie, Holding, CallKind
  <2>5. req[r].op # "reorder"
    BY <1>1, <1>5 DEF AddFind, Refused, RemoveFind, ClearScan, ClearReturn, StopFind, ClaimFind,
                      ClaimIdle, ClaimZombie, Holding, CallKind
  <2>6. CopyKept(r)' /\ ~ Sorting(r)'
    BY <1>1, <2>2, <2>3, <2>4, <2>5 DEF CopyKept, Sorting, Status
  <2> QED
    BY <1>1, <1>2, <1>3, <2>1, <2>2, <2>3, <2>6, SameFlight
<1> QED
  BY <1>4, <1>5

(* Positions move, statuses stay.                                          *)
LEMMA PlaceFlight ==
  ASSUME TypeInv, FlightInv, NEW r \in Requests, AddPlace(r) \/ RemoveCompact(r)
  PROVE  FlightInv'
<1>1. up /\ CallKind(r) /\ UNCHANGED <<up, bg>>
  BY FlightUp DEF FlightInv, AddPlace, RemoveCompact, Holding
<1>2. Mild
  <2>1. job \in Tables
    BY DEF TypeInv, JobInv
  <2>2. CASE AddPlace(r)
    BY <2>1, <2>2, ShiftedTable DEF AddPlace, Mild, Status
  <2>3. CASE RemoveCompact(r)
    BY <2>1, <2>3, CompactedTable DEF RemoveCompact, Mild, Status
  <2> QED
    BY <2>2, <2>3
<1>3. CASE AddPlace(r)
  <2>1. req[r].op \in {"add", "front"}
    BY <1>1, <1>3 DEF AddPlace, Holding, CallKind
  <2>2. (CallKind(r) /\ CopyKept(r))' /\ ~ Claiming(r)' /\ ~ Sorting(r)' /\ Adding(r)
    BY <1>3, <2>1, PlaceIs DEF CallKind, CopyKept, Claiming, Sorting, Adding
  <2>3. UNCHANGED line
    BY <1>3 DEF AddPlace
  <2> QED
    BY <1>1, <1>2, <1>3, <2>2, <2>3, PlaceIs, SameFlight
<1>4. CASE RemoveCompact(r)
  BY <1>1, <1>2, <1>4, ReturnFlight DEF RemoveCompact
<1> QED
  BY <1>3, <1>4

(* Saves of a status that is none of the queue.                            *)
LEMMA SaveFlight ==
  ASSUME TypeInv, FlightInv, NEW r \in Requests, RemoveSave(r) \/ ClearSave(r) \/ StopSave(r)
  PROVE  FlightInv'
<1>1. up /\ CallKind(r) /\ CopyKept(r) /\ UNCHANGED <<up, line, bg>>
  BY FlightUp DEF FlightInv, RemoveSave, ClearSave, StopSave
<1>2. req[r].row \in Row /\ \A e \in req[r].todo : e.row \in Row
  BY CallHasJob DEF TypeInv, Entity
<1>3. Mild
  <2>1. CASE RemoveSave(r)
    <3>1. RemovedRow(req[r].row).st \notin Ashore
      BY <1>1, <1>2, <2>1 DEF RemoveSave, RemovedRow, CopyKept, Row, Ashore
    <3> QED
      BY <2>1, <3>1, SaveMild DEF RemoveSave
  <2>2. CASE ClearSave(r) \/ StopSave(r)
    <3>1. \A row \in Row : /\ [row EXCEPT !.st = "PENDING", !.pos = NoPos].st \notin Ashore
                           /\ [row EXCEPT !.st = "CANCELLED"].st \notin Ashore
      BY DEF Row, Ashore
    <3> QED
      BY <1>2, <2>2, <3>1, SaveMild DEF ClearSave, StopSave
  <2> QED
    BY <2>1, <2>2
<1>4. CASE Return(r)
  BY <1>1, <1>3, <1>4, ReturnFlight
<1>5. CASE ~ Return(r)
  <2>1. /\ req'[r].op = req[r].op /\ req'[r].op \in {"remove", "clear", "stop"}
        /\ \A s \in Requests \ {r} : req'[s] = req[s]
        /\ CallKind(r)' /\ (req[r].op = "remove" => req'[r].at = "compact")
    <3>1. CASE RemoveSave(r) \/ StopSave(r)
      BY <1>5, <3>1, GotoIs DEF RemoveSave, StopSave, CallKind
    <3>2. CASE ClearSave(r)
      BY <3>2 DEF ClearSave, CallKind, TypeInv, ReqInv, GoodCall, Call
    <3> QED
      BY <3>1, <3>2
  <2>2. CopyKept(r)' /\ ~ Claiming(r)' /\ ~ Sorting(r)' /\ ~ Adding(r)'
    BY <2>1 DEF CopyKept, Claiming, Sorting, Adding
  <2> QED
    BY <1>1, <1>3, <2>1, <2>2, SameFlight
<1> QED
  BY <1>4, <1>5

(* The row k that r queues is wanted by no other call and not in flight.   *)
LEMMA QueueFlight ==
  ASSUME TypeInv, FlightInv, NEW r \in Requests, UNCHANGED <<up, bg>>, Wanting(r),
         NEW k \in Jobs, k = req[r].id, NEW row, Save(k, row), row.st = "QUEUED",
         \A s \in Requests \ {r} : req'[s] = req[s], UNCHANGED line \/ Lock!Leave(r),
         (CallKind(r) /\ CopyKept(r))', ~ Wanting(r)'
  PROVE  FlightInv'
<1>1. up /\ ~ InFlight(k)
  BY FlightUp DEF Wanting, Claiming, Sorting, Adding, FlightInv, Wanted, CallKind
<1>2. Status(k)' = "QUEUED" /\ \A j \in Jobs : j # k => Status(j)' = Status(j)
  BY DEF Save, Status, TypeInv, JobInv, Tables
<1>3. Wanted(r)'
  BY DEF Wanted, Wanting
<1>4. \A s \in Requests \ {r} : Wanting(s) => req[s].id # k /\ req[s].id \in Jobs
  BY WantsJob DEF FlightInv, OneWants
<1>5. \A j \in Jobs : InFlight(j)' <=> InFlight(j)
  BY DEF InFlight
<1>6. \A s \in Requests : Sailing(s)'
  BY <1>1, <1>2, BgHasJob DEF FlightInv, Sailing, InFlight, TypeInv
<1>7. OneSends'
  BY DEF FlightInv, OneSends
<1> QED
  BY <1>1, <1>2, <1>3, <1>4, <1>5, <1>6, <1>7, CallFlight

LEMMA AddSaveFlight ==
  ASSUME TypeInv, FlightInv, NEW r \in Requests, AddSave(r)
  PROVE  FlightInv'
<1>1. Adding(r) /\ req[r].at = "save" /\ Wanting(r)
  BY DEF AddSave, Holding, Adding, Wanting
<1>2. PICK k \in Jobs : k = req[r].id
  BY <1>1, WantsJob
<1>3. Save(k, req[r].row) /\ req[r].row.st = "QUEUED" /\ UNCHANGED <<up, bg>>
  BY <1>1, <1>2 DEF AddSave, FlightInv, CopyKept
<1>4. /\ req'[r].op = "none" /\ req'[r].at = "done" /\ \A s \in Requests \ {r} : req'[s] = req[s]
      /\ Lock!Leave(r)
  BY ReturnIs DEF AddSave, ReturnUnlocked
<1>5. (CallKind(r) /\ CopyKept(r))' /\ ~ Wanting(r)'
  BY <1>4 DEF CallKind, CopyKept, Wanting, Claiming, Sorting, Adding
<1> QED
  BY <1>1, <1>2, <1>3, <1>4, <1>5, QueueFlight

(* A queued row that a reorder reads under the lock is wanted by nobody,   *)
(* and stays so until it is saved; any other row is saved mildly.          *)
LEMMA ReorderFlight ==
  ASSUME TypeInv, FlightInv, NEW r \in Requests,
         ReorderFind(r) \/ ReorderSave(r) \/ ReorderReturn(r)
  PROVE  FlightInv'
<1>1. /\ up /\ UNCHANGED <<up, bg>> /\ req[r].op = "reorder" /\ Lock!Owns(r) /\ CopyKept(r)
      /\ req[r].ids \in Seq(Jobs) /\ req[r].row \in Row
  BY FlightUp, CallHasJob DEF ReorderFind, ReorderSave, ReorderReturn, Holding, FlightInv, TypeInv
<1>2. CASE ReorderFind(r)
  <2>1. PICK k \in Jobs : k = Head(req[r].ids) /\ Status(k) # "absent"
    <3>1. req[r].ids # <<>> /\ Head(req[r].ids) = req[r].ids[1]
      BY <1>2 DEF ReorderFind
    <3>2. 1 \in 1..Len(req[r].ids) /\ req[r].ids[1] \in Jobs
      BY <1>1, <3>1
    <3> QED
      BY <1>1, <3>1, <3>2 DEF CopyKept
  <2>2. /\ req'[r].op = "reorder" /\ req'[r].at = "save" /\ req'[r].id = k
        /\ req'[r].row = job[k] /\ req'[r].ids = req[r].ids
        /\ \A s \in Requests \ {r} : req'[s] = req[s]
    BY <1>1, <1>2, <2>1, ReadIs DEF ReorderFind
  <2>3. UNCHANGED <<job, line>> /\ Mild
    BY <1>2, SameMild DEF ReorderFind
  <2>4. (CallKind(r) /\ CopyKept(r))' /\ ~ Claiming(r)' /\ ~ Adding(r)'
    BY <1>1, <2>1, <2>2, <2>3 DEF CallKind, CopyKept, Claiming, Adding, Status
  <2>5. CASE Status(k) = "QUEUED"
    <3>1. ~ InFlight(k)
      BY <2>5 DEF FlightInv, Sailing, InFlight, Ashore
    <3>2. \A s \in Requests \ {r} : Wanting(s) => req[s].id # k
      BY <1>1, <2>5, OneOwner DEF FlightInv, Wanted, Wanting, Ashore
    <3>3. Wanted(r)'
      BY <1>1, <2>1, <2>2, <2>3, <2>4, <3>1 DEF Wanted, Status, InFlight, Lock!Owns
    <3> QED
      BY <1>1, <2>2, <2>3, <2>4, <3>2, <3>3, MildCall
  <2>6. CASE Status(k) # "QUEUED"
    <3>1. ~ Sorting(r)'
      BY <2>2, <2>6 DEF Sorting, Status
    <3> QED
      BY <1>1, <2>2, <2>3, <2>4, <3>1, SameFlight
  <2> QED
    BY <2>5, <2>6
<1>3. CASE ReorderSave(r)
  <2>1. PICK k \in Jobs : k = req[r].id
    BY <1>3, CallHasJob DEF ReorderSave, Holding, Carries, TypeInv
  <2> DEFINE row == [req[r].row EXCEPT !.pos = req[r].next]
  <2>2. row.st = req[r].row.st /\ row.st # "absent"
    BY <1>1, <1>3 DEF ReorderSave, Holding, CopyKept, Row
  <2>3. Save(k, row) /\ UNCHANGED line
    BY <1>3, <2>1 DEF ReorderSave
  <2> HIDE DEF row
  <2>0. PICK rest \in Seq(Jobs) :
          /\ rest = Tail(req[r].ids)
          /\ \A i \in 1..Len(rest) : rest[i] \in Jobs /\ Status(rest[i]) # "absent"
    <3>1. req[r].ids # <<>>
      BY <1>1, <1>3, CallHasJob DEF ReorderSave, Holding, TypeInv
    <3>2. Tail(req[r].ids) \in Seq(Jobs)
      BY <1>1, <3>1
    <3>3. ASSUME NEW i \in 1..Len(Tail(req[r].ids))
          PROVE  i + 1 \in 1..Len(req[r].ids) /\ Tail(req[r].ids)[i] = req[r].ids[i + 1]
      BY <1>1, <3>1
    <3>4. \A i \in 1..Len(req[r].ids) : req[r].ids[i] \in Jobs /\ Status(req[r].ids[i]) # "absent"
      BY <1>1 DEF CopyKept
    <3> QED
      BY <3>2, <3>3, <3>4
  <2>4. /\ req'[r].op = "reorder" /\ req'[r].at = "waiting" /\ req'[r].ids = rest
        /\ \A s \in Requests \ {r} : req'[s] = req[s]
    BY <1>1, <1>3, <2>0 DEF ReorderSave, TypeInv, ReqInv, GoodCall, Call
  <2>5. \A j \in Jobs : Status(j)' = "absent" => Status(j) = "absent"
    BY <2>2, <2>3 DEF Save, Status, TypeInv, JobInv, Tables
  <2>6. \A i \in 1..Len(rest) : Status(rest[i])' # "absent"
    BY <2>0, <2>5
  <2>7. (CallKind(r) /\ CopyKept(r))' /\ ~ Claiming(r)' /\ ~ Sorting(r)' /\ ~ Adding(r)'
    BY <2>4, <2>6 DEF CallKind, CopyKept, Claiming, Sorting, Adding, Status
  <2>8. CASE row.st = "QUEUED"
    <3>1. Wanting(r)
      BY <1>1, <1>3, <2>2, <2>8 DEF Wanting, Sorting, ReorderSave, Holding
    <3> QED
      BY <1>1, <2>1, <2>3, <2>4, <2>7, <2>8, <3>1, QueueFlight DEF Wanting
  <2>9. CASE row.st # "QUEUED"
    <3>1. Mild
      BY <2>2, <2>3, <2>9, SaveMild DEF Ashore
    <3> QED
      BY <1>1, <2>3, <2>4, <2>7, <3>1, SameFlight
  <2> QED
    BY <2>8, <2>9
<1>4. CASE ReorderReturn(r)
  BY <1>1, <1>4, SameMild, ReturnFlight DEF ReorderReturn, ReturnUnlocked
<1> QED
  BY <1>2, <1>3, <1>4

(* A queued row is wanted by nobody: an addition wants a row that is not,  *)
(* and the lock lets one claim be made at a time.                          *)
LEMMA ProcessPickFlight ==
  ASSUME TypeInv, FlightInv, NEW r \in Requests, ProcessPick(r)
  PROVE  FlightInv'
<1>1. up /\ Lock!Owns(r) /\ req[r].op = "process" /\ UNCHANGED <<job, up, bg>> /\ Mild
  BY FlightUp, SameMild DEF ProcessPick, Holding
<1>2. CASE ReturnUnlocked(r)
  BY <1>1, <1>2, ReturnFlight DEF ReturnUnlocked
<1>3. ASSUME NEW j \in NextInQueue(job), Read(r, "claim", j), UNCHANGED line PROVE FlightInv'
  <2>1. j \in Jobs /\ Status(j) = "QUEUED"
    BY DEF NextInQueue, InStatus, Status
  <2>2. /\ req'[r].op = "process" /\ req'[r].at = "claim" /\ req'[r].id = j
        /\ \A s \in Requests \ {r} : req'[s] = req[s]
    BY <1>1, <1>3, ReadIs
  <2>3. ~ InFlight(j)
    BY <2>1 DEF FlightInv, Sailing, InFlight, Ashore
  <2>4. \A s \in Requests \ {r} : Wanting(s) => req[s].id # j
    BY <1>1, <2>1, OneOwner DEF FlightInv, Wanted, Wanting, Ashore
  <2>5. (CallKind(r) /\ Wanted(r) /\ CopyKept(r))'
    BY <1>1, <1>3, <2>1, <2>2, <2>3
       DEF CallKind, Wanted, CopyKept, Claiming, Sorting, Adding, Status, InFlight, Lock!Owns
  <2> QED
    BY <1>1, <1>3, <2>2, <2>4, <2>5, MildCall
<1> QED
  BY <1>2, <1>3 DEF ProcessPick

(* The claimed row is in flight now, and nobody else wants it.             *)
LEMMA ClaimSaveFlight ==
  ASSUME TypeInv, FlightInv, NEW r \in Requests, ClaimSave(r)
  PROVE  FlightInv'
<1>1. Claiming(r) /\ Wanting(r)
  BY DEF ClaimSave, Holding, Claiming, Wanting, FlightInv, CallKind
<1>2. PICK k \in Jobs : k = req[r].id
  BY <1>1, WantsJob
<1>3. up /\ UNCHANGED up /\ ~ InFlight(k)
  BY <1>1, <1>2, FlightUp DEF ClaimSave, Holding, FlightInv, Wanted
<1>4. Status(k)' = "STARTING" /\ \A j \in Jobs : j # k => Status(j)' = Status(j)
  <2>1. job' = [job EXCEPT ![k] = [req[r].row EXCEPT !.st = "STARTING"]]
    BY <1>2 DEF ClaimSave, Save
  <2>2. job \in [Jobs -> Row] /\ req[r].row \in Row
    BY CallHasJob DEF TypeInv, JobInv, Tables
  <2> QED
    BY <2>1, <2>2 DEF Status, Row
<1>5. /\ req'[r].op = "none" /\ req'[r].at = "done" /\ \A s \in Requests \ {r} : req'[s] = req[s]
      /\ Lock!Leave(r)
  BY ReturnIs DEF ClaimSave, ReturnUnlocked
<1>6. (CallKind(r) /\ Wanted(r) /\ CopyKept(r))' /\ ~ Wanting(r)'
  BY <1>5 DEF CallKind, Wanted, CopyKept, Wanting, Claiming, Sorting, Adding
<1>7. /\ bg'[r].at = "spawned" /\ bg'[r].id = k
      /\ \A s \in Requests \ {r} : bg'[s] = bg[s]
  BY <1>2 DEF ClaimSave, Settled, TypeInv, BgInv
<1>8. \A s \in Requests \ {r} : Wanting(s) => req[s].id # k /\ req[s].id \in Jobs
  BY <1>1, <1>2, WantsJob DEF FlightInv, OneWants
<1>9. \A j \in Jobs : j # k /\ InFlight(j)' => InFlight(j)
  BY <1>7 DEF InFlight
<1>10. \A s \in Requests : Sailing(s)'
  BY <1>4, <1>7, BgHasJob DEF FlightInv, Sailing, Ashore, TypeInv
<1>11. OneSends'
  BY <1>3, <1>7 DEF FlightInv, OneSends, InFlight
<1> QED
  BY <1>3, <1>4, <1>5, <1>6, <1>8, <1>9, <1>10, <1>11, CallFlight

LEMMA RequestStepFlight ==
  ASSUME TypeInv, FlightInv, NEW r \in Requests, RequestStep(r)
  PROVE  FlightInv'
<1>1. CASE StopClone(r)
  <2>1. req[r].row \in Row
    BY CallHasJob DEF TypeInv
  <2>2. /\ PendingRow(req[r].row.file, req[r].row.usb) \in Row
        /\ PendingRow(req[r].row.file, req[r].row.usb).st = "PENDING"
    BY PendingRowIsRow, <2>1 DEF Row
  <2> QED
    BY <1>1, <2>2, FlightUp, FreshFlight DEF StopClone
<1> QED
  BY <1>1, QuietRequestFlight, PlaceFlight, SaveFlight, AddSaveFlight, ReorderFlight,
     ProcessPickFlight, ClaimSaveFlight DEF RequestStep

(* A dispatch goes on, or ends: only the row it sends is written, and goes *)
(* back to the queue when the dispatch is over.                            *)
LEMMA DispatchFlight ==
  ASSUME TypeInv, FlightInv, NEW r \in Requests, UNCHANGED <<req, line, up>>, bg[r].at # "none",
         NEW k \in Jobs, k = bg[r].id,
         \A s \in Requests \ {r} : bg'[s] = bg[s],
         bg'[r].at # "none" => bg'[r].id = bg[r].id,
         bg'[r].at \in {"drop", "written"} => bg'[r].row.st \notin Ashore,
         \A j \in Jobs : j # k => Status(j)' = Status(j),
         Status(k)' \notin Ashore \/ (bg'[r].at = "none" /\ Status(k)' = "QUEUED")
  PROVE  FlightInv'
<1>1. InFlight(k)
  BY DEF InFlight
<1>2. \A j \in Jobs : InFlight(j)' => InFlight(j)
  BY DEF InFlight
<1>3. \A s \in Requests : Wanting(s) => req[s].id \in Jobs /\ req[s].id # k
  BY <1>1, WantsJob DEF FlightInv, Wanted, Wanting
<1>4. ASSUME NEW s \in Requests PROVE (CallKind(s) /\ Wanted(s) /\ CopyKept(s))'
  <2>1. CallKind(s) /\ Wanted(s) /\ CopyKept(s)
    BY DEF FlightInv
  <2>2. Wanted(s)'
    BY <1>1, <1>2, <1>3, <2>1 DEF Wanted, Wanting, Claiming, Sorting, Adding, Lock!Owns
  <2>3. \A j \in Jobs : Status(j)' = "absent" => Status(j) = "absent"
    BY DEF Ashore
  <2>4. CopyKept(s)'
    BY <2>1, <2>3, CopyStays
  <2> QED
    BY <2>1, <2>2, <2>4 DEF CallKind
<1>5. ASSUME NEW s \in Requests PROVE Sailing(s)'
  <2>1. s # r /\ bg[s].at # "none" => bg[s].id # k /\ bg[s].id \in Jobs
    BY <1>1, BgHasJob DEF FlightInv, OneSends, TypeInv
  <2> QED
    BY <1>1, <2>1 DEF FlightInv, Sailing
<1>6. OneWants' /\ OneSends' /\ DownInv'
  BY FlightUp DEF FlightInv, OneWants, OneSends, DownInv, Wanting, Claiming, Sorting, Adding
<1> QED
  BY <1>4, <1>5, <1>6 DEF FlightInv, NoRequeue

LEMMA BackgroundFlight ==
  ASSUME TypeInv, FlightInv, NEW r \in Requests, BackgroundStep(r)
  PROVE  FlightInv'
<1>0. bg[r].at # "none" /\ UNCHANGED <<req, line, up>> /\ \A s \in Requests \ {r} : bg'[s] = bg[s]
  BY DEF BackgroundStep, BgBegin, BgReady, BgWaitTimeout, Land, Answered, SendFails, SendRetried,
         OkFind, OkCompact, OkSave, FailFind, FailSave, InStage, Advance, Settle, TypeInv, BgInv
<1>1. PICK k \in Jobs : k = bg[r].id
  BY <1>0, BgHasJob DEF TypeInv
<1>2. Status(k) \notin Ashore /\ bg[r].row \in Row /\ Sailing(r)
  BY <1>0, <1>1, BgHasJob DEF FlightInv, Sailing, TypeInv
<1>3. CASE OkSave(r) \/ FailSave(r)
  <2>0. Settle(r)
    BY <1>3 DEF OkSave, FailSave
  <2>1. bg'[r].at = "none"
    BY <2>0 DEF Settle, Settled, TypeInv, BgInv
  <2>2. PICK row : Save(k, row) /\ (row.st = "QUEUED" \/ row.st \notin Ashore)
    <3>1. CASE OkSave(r)
      <4>1. [bg[r].row EXCEPT !.pos = NoPos].st \notin Ashore
        BY <1>2, <3>1 DEF OkSave, InStage, Sailing, Row
      <4> DEFINE old == [bg[r].row EXCEPT !.pos = NoPos]
      <4>2. \A now : [old EXCEPT !.st = "PRINTING", !.started = now].st \notin Ashore
        BY <1>2 DEF Row, Ashore
      <4> QED
        BY <1>1, <3>1, <4>1, <4>2 DEF OkSave
    <3>2. CASE FailSave(r)
      <4>1. RolledBack(bg[r].row).st = "QUEUED"
        BY <1>2 DEF RolledBack, Row
      <4> QED
        BY <1>1, <3>2, <4>1 DEF FailSave
    <3> QED
      BY <1>3, <3>1, <3>2
  <2>3. /\ Status(k)' = "QUEUED" \/ Status(k)' \notin Ashore
        /\ \A j \in Jobs : j # k => Status(j)' = Status(j)
    BY <2>2 DEF Save, Status, TypeInv, JobInv, Tables
  <2> QED
    BY <1>0, <1>1, <2>1, <2>3, DispatchFlight
<1>4. CASE ~ OkSave(r) /\ ~ FailSave(r)
  <2>1. \A j \in Jobs : Status(j)' = Status(j)
    BY <1>4, CompactedTable
       DEF BackgroundStep, BgBegin, BgReady, BgWaitTimeout, Land, Answered, SendFails,
           SendRetried, OkFind, OkCompact, FailFind, Status, TypeInv, JobInv
  <2>2. bg'[r].at # "none" => bg'[r].id = bg[r].id
    BY <1>4 DEF BackgroundStep, BgBegin, BgReady, BgWaitTimeout, Land, Answered, SendFails,
                SendRetried, OkFind, OkCompact, FailFind, Advance, Settled, TypeInv, BgInv,
                GoodBackground, Background
  <2>3. CASE OkFind(r) \/ OkCompact(r)
    <3>1. bg'[r].row.st \notin Ashore
      <4>1. CASE OkFind(r)
        <5>1. bg'[r].row = job[k]
          BY <1>1, <4>1 DEF OkFind, TypeInv, BgInv, GoodBackground, Background
        <5> QED
          BY <1>2, <5>1 DEF Status
      <4>2. CASE OkCompact(r)
        <5>1. bg'[r].row = bg[r].row /\ bg[r].at = "drop"
          BY <4>2 DEF OkCompact, InStage, Advance, TypeInv, BgInv, GoodBackground, Background
        <5> QED
          BY <1>2, <5>1 DEF Sailing
      <4> QED
        BY <2>3, <4>1, <4>2
    <3> QED
      BY <1>0, <1>1, <1>2, <2>1, <2>2, <3>1, DispatchFlight
  <2>4. CASE ~ OkFind(r) /\ ~ OkCompact(r)
    <3>1. bg'[r].at \notin {"drop", "written"}
      BY <1>4, <2>4 DEF BackgroundStep, BgBegin, BgReady, BgWaitTimeout, Land, Answered, SendFails,
                        SendRetried, FailFind, Advance, Settled, TypeInv, BgInv, GoodBackground,
                        Background
    <3> QED
      BY <1>0, <1>1, <1>2, <2>1, <2>2, <3>1, DispatchFlight
  <2> QED
    BY <2>3, <2>4
<1> QED
  BY <1>3, <1>4

LEMMA FlightStep == TypeInv /\ FlightInv /\ [Next]_vars => FlightInv'
<1> SUFFICES ASSUME TypeInv, FlightInv, [Next]_vars PROVE FlightInv'
  OBVIOUS
<1>1. CASE UNCHANGED vars \/ PrinterStep \/ ObserverStep
  <2>1. UNCHANGED <<line, req, bg, up>>
    BY <1>1 DEF vars, PrinterStep, PrintEnds, PrinterRests, PanelStop, PanelStart, ObserverStep,
                PollAnswer, PollHandled, LiveExpires
  <2>2. UNCHANGED job \/ PollHandled
    BY <1>1 DEF vars, PrinterStep, PrintEnds, PrinterRests, PanelStop, PanelStart, ObserverStep,
                PollAnswer, LiveExpires
  <2>3. Mild
    BY <2>2, SameMild, HandledRows DEF SeenRow, Seen, Status, Mild, Ashore
  <2>4. ASSUME NEW s \in Requests PROVE (CallKind(s) /\ Wanted(s) /\ CopyKept(s) /\ Sailing(s))'
    <3>1. CallKind(s) /\ Wanted(s) /\ CopyKept(s) /\ Sailing(s)
      BY DEF FlightInv
    <3>2. /\ Wanting(s) => req[s].id \in Jobs
          /\ bg[s].at # "none" => bg[s].id \in Jobs
      BY WantsJob, BgHasJob DEF TypeInv
    <3>3. CallKind(s)' /\ Wanted(s)'
      BY <2>1, <2>3, <3>1, <3>2
         DEF CallKind, Wanted, Wanting, Claiming, Sorting, Adding, InFlight, Mild, Ashore, Lock!Owns
    <3>4. Sailing(s)'
      BY <2>1, <2>3, <3>1, <3>2 DEF Sailing, Mild, Ashore
    <3>5. CopyKept(s)'
      BY <2>1, <2>3, <3>1, CopyStays DEF Mild, Ashore
    <3> QED
      BY <3>3, <3>4, <3>5
  <2> QED
    BY <2>1, <2>4 DEF FlightInv, NoRequeue, OneWants, OneSends, DownInv, Wanting, Claiming, Sorting, Adding
<1>2. CASE Crash
  <2>1. \A s \in Requests :
          req'[s].op = "none" /\ req'[s].at \in {"unused", "done"} /\ bg'[s].at = "none"
    BY <1>2 DEF Crash, Done, Unused, Settled
  <2> QED
    BY <2>1 DEF FlightInv, NoRequeue, CallKind, Wanted, CopyKept, Sailing, OneWants, OneSends,
                DownInv, Wanting, Claiming, Sorting, Adding
<1>3. CASE Boot
  <2>1. \A s \in Requests : /\ req'[s].op = "none" /\ req'[s].at \in {"unused", "done"}
                            /\ bg'[s].at = "none"
    BY <1>3 DEF Boot, FlightInv, DownInv, CallKind
  <2> QED
    BY <2>1 DEF FlightInv, NoRequeue, CallKind, Wanted, CopyKept, Sailing, OneWants, OneSends,
                DownInv, Wanting, Claiming, Sorting, Adding
<1> QED
  BY <1>1, <1>2, <1>3, CallStepFlight, RequestStepFlight, BackgroundFlight DEF Next

LEMMA FlightInit == NoRequeue /\ Init => FlightInv
<1> SUFFICES ASSUME NoRequeue, Init PROVE FlightInv
  OBVIOUS
<1>1. \A s \in Requests : req[s].op = "none" /\ req[s].at = "unused" /\ bg[s].at = "none"
  BY DEF Init, Unused, Settled
<1> QED
  BY <1>1 DEF Init, FlightInv, CallKind, Wanted, CopyKept, Sailing, OneWants, OneSends, DownInv,
              Wanting, Claiming, Sorting, Adding

LEMMA FlightInvariant == NoRequeue /\ Spec => [](TypeInv /\ FlightInv)
  BY TypeInvariant, FlightInit, FlightStep, PTL DEF Spec

(* A job that is being sent is not in the queue for another dispatch,      *)
(* whatever the observer makes of its row, with aborts, cleared queues,    *)
(* removed jobs and crashes in between.                                    *)
THEOREM NotQueuedTwice == NoRequeue /\ Spec => []InFlightNotQueued
<1>1. FlightInv => InFlightNotQueued
  BY DEF FlightInv, Sailing, Ashore, InFlightNotQueued, Status
<1> QED
  BY FlightInvariant, <1>1, PTL

----------------------------------------------------------------------------
(* A place in line for every queued job                                    *)

(* No row leaves the queue but to the printer: a removed or cleared row    *)
(* loses its position while a claim may have read it, and a stop keeps the *)
(* position, or the lack of one, of the row it ends, which a claim may     *)
(* have taken.  Nor does a row from outside come in.                       *)
KeepsPlaces == Ops \subseteq {"process", "cancel", "file", "reorder"}

Pos(j) == job[j].pos
Placed(j) == Pos(j) # NoPos
Places == Nat \cup {NoPos}
Lined == {"QUEUED", "STARTING"}

(* A row in the queue, or on its way to the printer, has a place.          *)
RowPlaced(j) ==
    /\ Pos(j) \in Places
    /\ Status(j) \in Lined \/ InFlight(j) => Placed(j)

(* So have the rows that claims and additions will save; the zombie that a *)
(* claim has read is not the row it claims, and keeps the place it has if  *)
(* a dispatch still has to give it up.                                     *)
CallPlaced(s) ==
    /\ req[s].op \in {"none", "process", "add", "reorder"}
    /\ Claiming(s) => Placed(req[s].id)
    /\ Claiming(s) /\ req[s].at # "claim" => req[s].row.pos \in Nat
    /\ Adding(s) /\ req[s].at = "save" => req[s].row.pos \in Nat
    /\ req[s].at = "zombie" =>
          \A e \in req[s].todo : /\ e.id # req[s].id /\ e.row.pos \in Places
                                 /\ InFlight(e.id) => e.row.pos # NoPos

DispatchPlaced(s) == bg[s].at \in {"drop", "undo"} => bg[s].row.pos \in Nat

PlaceInv ==
    /\ KeepsPlaces
    /\ \A j \in Jobs : RowPlaced(j)
    /\ \A s \in Requests : CallPlaced(s) /\ DispatchPlaced(s)

LEMMA CallPlace ==
  ASSUME PlaceInv, NEW r \in Requests,
         \A s \in Requests \ {r} : req'[s] = req[s],
         \A j \in Jobs : RowPlaced(j)',
         \A s \in Requests \ {r} : Claiming(s) => Placed(req[s].id)',
         \A s \in Requests \ {r} : \A j : req[s].at = "zombie" /\ InFlight(j)' => InFlight(j),
         \A s \in Requests : DispatchPlaced(s)',
         CallPlaced(r)'
  PROVE  PlaceInv'
<1>1. ASSUME NEW s \in Requests \ {r} PROVE CallPlaced(s)'
  <2>1. CallPlaced(s)
    BY DEF PlaceInv
  <2>2. Claiming(s)' => Placed(req[s].id)'
    BY DEF Claiming
  <2>3. \A e \in req[s].todo : req[s].at = "zombie" /\ InFlight(e.id)' => e.row.pos # NoPos
    BY <2>1 DEF CallPlaced
  <2> QED
    BY <2>1, <2>2, <2>3 DEF CallPlaced, Claiming, Adding
<1> QED
  BY <1>1 DEF PlaceInv, KeepsPlaces

(* The table and the dispatches stay as they are.                          *)
LEMMA QuietPlace ==
  ASSUME TypeInv, PlaceInv, NEW r \in Requests, UNCHANGED job, UNCHANGED bg \/ AbortDispatch,
         \A s \in Requests \ {r} : req'[s] = req[s], CallPlaced(r)'
  PROVE  PlaceInv'
<1>1. \A s \in Requests : bg'[s].at = bg[s].at /\ bg'[s].id = bg[s].id /\ bg'[s].row = bg[s].row
  BY AbortKeeps
<1>2. \A j : InFlight(j)' <=> InFlight(j)
  BY <1>1 DEF InFlight
<1>3. \A j \in Jobs : RowPlaced(j)'
  BY <1>2 DEF PlaceInv, RowPlaced, Pos, Placed, Status
<1>4. \A s \in Requests : DispatchPlaced(s)'
  BY <1>1 DEF PlaceInv, DispatchPlaced
<1>5. \A s \in Requests \ {r} : Claiming(s) => Placed(req[s].id)'
  BY DEF PlaceInv, CallPlaced, Placed, Pos
<1> QED
  BY <1>2, <1>3, <1>4, <1>5, CallPlace

LEMMA ReturnPlace ==
  ASSUME TypeInv, PlaceInv, NEW r \in Requests, UNCHANGED job, UNCHANGED bg \/ AbortDispatch, Return(r)
  PROVE  PlaceInv'
<1>1. CallPlaced(r)'
  BY ReturnIs DEF CallPlaced, Claiming, Adding
<1> QED
  BY <1>1, ReturnIs, QuietPlace

LEMMA CallStepPlace ==
  ASSUME TypeInv, FlightInv, PlaceInv, NEW r \in Requests, CallStep(r)
  PROVE  PlaceInv'
<1>1. \A op \in Ops : op \in {"process", "cancel", "file", "reorder"}
  BY DEF PlaceInv, KeepsPlaces
<1>2. CASE ProcessCall(r)
  <2>1. CallPlaced(r)'
    BY <1>2, BeginIs DEF ProcessCall, CallPlaced, Claiming, Adding
  <2> QED
    BY <1>2, <2>1, BeginIs, QuietPlace DEF ProcessCall
<1>3. CASE CancelDispatch(r)
  BY <1>3, ReturnPlace DEF CancelDispatch
<1>4. ASSUME NEW f \in Files, FileCall(r, f) PROVE PlaceInv'
  <2>1. PICK k \in FreeIds(job) : /\ Save(k, PendingRow(f, f \in UsbFiles))
                                  /\ Begin(r, "add", "waiting", k)
    BY <1>4 DEF FileCall
  <2>2. k \in Jobs /\ Status(k) = "absent" /\ UNCHANGED bg
    BY <1>4 DEF FreeIds, Status, FileCall
  <2>3. PendingRow(f, f \in UsbFiles).st = "PENDING" /\ PendingRow(f, f \in UsbFiles).pos = NoPos
    BY DEF PendingRow, Absent
  <2>4. /\ Status(k)' = "PENDING" /\ Pos(k)' = NoPos
        /\ \A j \in Jobs : j # k => job'[j] = job[j]
    BY <2>1, <2>2, <2>3 DEF Save, Status, Pos, TypeInv, JobInv, Tables
  <2>5. ~ InFlight(k) /\ \A s \in Requests : Claiming(s) => req[s].id # k
    BY <2>2 DEF FlightInv, Wanted, Sailing, InFlight, Ashore
  <2>6. \A j : InFlight(j)' <=> InFlight(j)
    BY <2>2 DEF InFlight
  <2>7. \A j \in Jobs : RowPlaced(j)'
    BY <2>4, <2>5, <2>6 DEF PlaceInv, RowPlaced, Placed, Pos, Status, Lined, Places
  <2>8. \A s \in Requests \ {r} : Claiming(s) => Placed(req[s].id)'
    <3> SUFFICES ASSUME NEW s \in Requests \ {r}, Claiming(s) PROVE job'[req[s].id].pos # NoPos
      BY <2>1, BeginIs DEF Placed, Pos
    <3>1. req[s].id \in Jobs
      BY WantsJob DEF Wanting
    <3> QED
      BY <2>4, <2>5, <3>1 DEF PlaceInv, CallPlaced, Placed, Pos
  <2>9. \A s \in Requests : DispatchPlaced(s)'
    BY <2>2 DEF PlaceInv, DispatchPlaced
  <2>10. CallPlaced(r)' /\ \A s \in Requests \ {r} : req'[s] = req[s]
    BY <2>1, BeginIs DEF CallPlaced, Claiming, Adding
  <2> QED
    BY <2>6, <2>7, <2>8, <2>9, <2>10, CallPlace
<1>5. CASE ReorderCall(r)
  <2>1. /\ req'[r].op = "reorder" /\ req'[r].at = "waiting"
        /\ \A s \in Requests \ {r} : req'[s] = req[s]
        /\ UNCHANGED <<job, bg>>
    BY <1>5 DEF ReorderCall, Unused, TypeInv, ReqInv
  <2>2. CallPlaced(r)'
    BY <2>1 DEF CallPlaced, Claiming, Adding
  <2> QED
    BY <2>1, <2>2, QuietPlace
<1> QED
  BY <1>1, <1>2, <1>3, <1>4, <1>5
     DEF CallStep, AddCall, RemoveCall, SubmitCall, ClearCall, StopPrinter, Fresh

(* The owner of the lock writes row k, and keeps it in line or the row is  *)
(* neither in line nor on its way.                                         *)
LEMMA OwnerPlace ==
  ASSUME TypeInv, FlightInv, PlaceInv, NEW r \in Requests, Lock!Owns(r),
         \A s \in Requests \ {r} : req'[s] = req[s],
         NEW k \in Jobs, NEW row, Save(k, row), row.pos \in Places,
         row.st \in Lined \/ InFlight(k)' => row.pos # NoPos,
         \A j \in Jobs \ {k} : InFlight(j)' => InFlight(j),
         \A s \in Requests : DispatchPlaced(s)',
         CallPlaced(r)'
  PROVE  PlaceInv'
<1>1. /\ Status(k)' = row.st /\ Pos(k)' = row.pos
      /\ \A j \in Jobs : j # k => job'[j] = job[j]
  BY DEF Save, Status, Pos, TypeInv, JobInv, Tables
<1>2. \A j \in Jobs : RowPlaced(j)'
  BY <1>1 DEF PlaceInv, RowPlaced, Placed, Pos, Status
<1>3. \A s \in Requests \ {r} : ~ Claiming(s) /\ req[s].at # "zombie"
  BY OneOwner DEF FlightInv, Wanted, CallKind, Claiming
<1> QED
  BY <1>2, <1>3, CallPlace

LEMMA AddSavePlace ==
  ASSUME TypeInv, FlightInv, PlaceInv, NEW r \in Requests, AddSave(r)
  PROVE  PlaceInv'
<1>1. Adding(r) /\ req[r].at = "save" /\ Lock!Owns(r) /\ req[r].row.pos \in Nat
  BY DEF AddSave, Holding, Adding, PlaceInv, CallPlaced
<1>2. PICK k \in Jobs : k = req[r].id
  BY <1>1, WantsJob DEF Wanting
<1>3. Save(k, req[r].row) /\ UNCHANGED bg
  BY <1>2 DEF AddSave
<1>4. CallPlaced(r)' /\ \A s \in Requests \ {r} : req'[s] = req[s]
  BY ReturnIs DEF AddSave, ReturnUnlocked, CallPlaced, Claiming, Adding
<1>5. \A j : InFlight(j)' <=> InFlight(j)
  BY <1>3 DEF InFlight
<1>6. \A s \in Requests : DispatchPlaced(s)'
  BY <1>3 DEF PlaceInv, DispatchPlaced
<1>7. req[r].row.pos \in Places /\ req[r].row.pos # NoPos
  BY <1>1 DEF Places, NoPos
<1> QED
  BY <1>1, <1>3, <1>4, <1>5, <1>6, <1>7, OwnerPlace

(* A reordered row has a place, whatever its status was when it was read.  *)
LEMMA ReorderPlace ==
  ASSUME TypeInv, FlightInv, PlaceInv, NEW r \in Requests,
         ReorderFind(r) \/ ReorderSave(r) \/ ReorderReturn(r)
  PROVE  PlaceInv'
<1>1. CASE ReorderFind(r)
  <2>1. /\ req'[r].op = "reorder" /\ req'[r].at = "save"
        /\ \A s \in Requests \ {r} : req'[s] = req[s]
        /\ UNCHANGED <<job, bg>>
    BY <1>1, ReadIs DEF ReorderFind
  <2>2. CallPlaced(r)'
    BY <2>1 DEF CallPlaced, Claiming, Adding
  <2> QED
    BY <2>1, <2>2, QuietPlace
<1>2. CASE ReorderSave(r)
  <2>1. PICK k \in Jobs : k = req[r].id
    BY <1>2, CallHasJob DEF ReorderSave, Holding, Carries, TypeInv
  <2>2. PICK row : Save(k, row) /\ row.pos \in Nat
    <3>1. [req[r].row EXCEPT !.pos = req[r].next].pos \in Nat
      BY CallHasJob DEF TypeInv, Row
    <3> QED
      BY <1>2, <2>1, <3>1 DEF ReorderSave
  <2>3. /\ req'[r].op = "reorder" /\ req'[r].at = "waiting"
        /\ \A s \in Requests \ {r} : req'[s] = req[s]
        /\ Lock!Owns(r) /\ UNCHANGED bg
    BY <1>2 DEF ReorderSave, Holding, TypeInv, ReqInv, GoodCall, Call
  <2>4. CallPlaced(r)'
    BY <2>3 DEF CallPlaced, Claiming, Adding
  <2>5. \A j : InFlight(j)' <=> InFlight(j)
    BY <2>3 DEF InFlight
  <2>6. \A s \in Requests : DispatchPlaced(s)'
    BY <2>3 DEF PlaceInv, DispatchPlaced
  <2>7. row.pos \in Places /\ row.pos # NoPos
    BY <2>2 DEF Places, NoPos
  <2> QED
    BY <2>2, <2>3, <2>4, <2>5, <2>6, <2>7, OwnerPlace
<1>3. CASE ReorderReturn(r)
  BY <1>3, ReturnPlace DEF ReorderReturn, ReturnUnlocked
<1> QED
  BY <1>1, <1>2, <1>3

LEMMA ClaimSavePlace ==
  ASSUME TypeInv, FlightInv, PlaceInv, NEW r \in Requests, ClaimSave(r)
  PROVE  PlaceInv'
<1>1. Claiming(r) /\ req[r].at = "save" /\ Lock!Owns(r)
  BY DEF ClaimSave, Holding, Claiming, FlightInv, CallKind
<1>2. PICK k \in Jobs : k = req[r].id
  BY <1>1, WantsJob DEF Wanting
<1>3. req[r].row.pos \in Nat /\ req[r].row \in Row
  BY <1>1, CallHasJob DEF PlaceInv, CallPlaced, TypeInv
<1> DEFINE row == [req[r].row EXCEPT !.st = "STARTING"]
<1>4. row.pos \in Places /\ row.pos # NoPos
  BY <1>3 DEF Row, Places, NoPos
<1>5. Save(k, row)
  BY <1>2 DEF ClaimSave
<1>6. CallPlaced(r)' /\ \A s \in Requests \ {r} : req'[s] = req[s]
  BY ReturnIs DEF ClaimSave, ReturnUnlocked, CallPlaced, Claiming, Adding
<1>7. /\ bg'[r].at = "spawned" /\ bg'[r].id = k
      /\ \A s \in Requests \ {r} : bg'[s] = bg[s]
  BY <1>2 DEF ClaimSave, Settled, TypeInv, BgInv
<1>8. \A j \in Jobs \ {k} : InFlight(j)' => InFlight(j)
  BY <1>7 DEF InFlight
<1>9. \A s \in Requests : DispatchPlaced(s)'
  BY <1>7 DEF PlaceInv, DispatchPlaced
<1> HIDE DEF row
<1> QED
  BY <1>1, <1>4, <1>5, <1>6, <1>8, <1>9, OwnerPlace

(* The zombie gets back the place it had.                                  *)
LEMMA ClaimZombiePlace ==
  ASSUME TypeInv, FlightInv, PlaceInv, NEW r \in Requests, ClaimZombie(r)
  PROVE  PlaceInv'
<1>1. /\ Claiming(r) /\ req[r].at = "zombie" /\ Lock!Owns(r) /\ UNCHANGED bg
      /\ req[r].row.pos \in Nat
  BY DEF ClaimZombie, Holding, Claiming, FlightInv, CallKind, PlaceInv, CallPlaced
<1>2. PICK e \in req[r].todo : Save(e.id, [e.row EXCEPT !.st = "UNKNOWN"])
  BY DEF ClaimZombie
<1>3. e.id \in Jobs /\ e.row \in Row
  BY CallHasJob DEF TypeInv, Entity
<1>4. /\ e.id # req[r].id /\ e.row.pos \in Places
      /\ InFlight(e.id) => e.row.pos # NoPos
  BY <1>1, <1>2 DEF PlaceInv, CallPlaced
<1> DEFINE row == [e.row EXCEPT !.st = "UNKNOWN"]
<1>5. row.pos = e.row.pos /\ row.st = "UNKNOWN" /\ Save(e.id, row)
  BY <1>2, <1>3 DEF Row
<1>6. \A j : InFlight(j)' <=> InFlight(j)
  BY <1>1 DEF InFlight
<1>7. \A s \in Requests : DispatchPlaced(s)'
  BY <1>1 DEF PlaceInv, DispatchPlaced
<1>8. /\ req'[r].op = req[r].op /\ req'[r].at = "save" /\ req'[r].id = req[r].id
      /\ req'[r].row = req[r].row
      /\ \A s \in Requests \ {r} : req'[s] = req[s]
  BY DEF ClaimZombie, TypeInv, ReqInv, GoodCall, Call
<1>9. CallPlaced(r)'
  <2>1. req[r].id \in Jobs /\ Placed(req[r].id)
    BY <1>1, WantsJob DEF Wanting, PlaceInv, CallPlaced
  <2>2. job'[req[r].id] = job[req[r].id]
    BY <1>2, <1>4, <2>1 DEF Save, TypeInv, JobInv, Tables
  <2> QED
    BY <1>1, <1>8, <2>1, <2>2 DEF CallPlaced, Claiming, Adding, Placed, Pos
<1> HIDE DEF row
<1>10. row.pos \in Places /\ (row.st \in Lined \/ InFlight(e.id)' => row.pos # NoPos)
  BY <1>4, <1>5, <1>6 DEF Lined
<1> QED
  BY <1>1, <1>3, <1>5, <1>6, <1>7, <1>8, <1>9, <1>10, OwnerPlace

(* Steps of a claim or an addition that write nothing.                     *)
LEMMA QuietRequestPlace ==
  ASSUME TypeInv, FlightInv, PlaceInv, NEW r \in Requests,
         \/ AddFind(r) \/ AddPlace(r) \/ Refused(r)
         \/ ProcessPick(r) \/ ClaimFind(r) \/ ClaimIdle(r)
  PROVE  PlaceInv'
<1>1. CallPlaced(r) /\ CallKind(r)
  BY DEF PlaceInv, FlightInv
<1>2. UNCHANGED <<job, bg>>
  BY <1>1 DEF AddFind, AddPlace, Refused, ProcessPick, ClaimFind, ClaimIdle, CallPlaced
<1>3. CASE Return(r)
  BY <1>2, <1>3, ReturnPlace
<1>4. CASE AddFind(r)
  <2>1. CallPlaced(r)'
    BY <1>1, <1>4, ReadIs DEF AddFind, CallPlaced, Claiming, Adding
  <2> QED
    BY <1>2, <1>4, <2>1, ReadIs, QuietPlace DEF AddFind
<1>5. CASE AddPlace(r)
  <2>1. req[r].op = "add"
    BY <1>1, <1>5 DEF AddPlace, Holding, CallPlaced, CallKind
  <2>2. NextPositions(job) \subseteq Nat
    BY DEF NextPositions, PlaceInv, RowPlaced, Pos, Places, NoPos
  <2>3. CallPlaced(r)'
    BY <1>5, <2>1, <2>2, PlaceIs DEF CallPlaced, Claiming, Adding
  <2> QED
    BY <1>2, <1>5, <2>3, PlaceIs, QuietPlace
<1>6. ASSUME NEW j \in NextInQueue(job), Read(r, "claim", j), ProcessPick(r) PROVE PlaceInv'
  <2>1. j \in Jobs /\ Placed(j)
    BY DEF NextInQueue, InStatus, Placed, Pos
  <2>2. req[r].op = "process"
    BY <1>6 DEF ProcessPick
  <2>3. CallPlaced(r)'
    BY <1>2, <1>6, <2>1, <2>2, ReadIs DEF CallPlaced, Claiming, Adding, Placed, Pos
  <2> QED
    BY <1>2, <1>6, <2>3, ReadIs, QuietPlace
<1>7. CASE ClaimFind(r)
  <2>1. Claiming(r) /\ req[r].id \in Jobs /\ Placed(req[r].id) /\ req[r].op = "process"
    BY <1>1, <1>7, WantsJob DEF ClaimFind, Holding, Claiming, Wanting, CallKind, CallPlaced
  <2>2. job[req[r].id].pos \in Nat
    BY <2>1 DEF PlaceInv, RowPlaced, Placed, Pos, Places
  <2>3. CallPlaced(r)'
    BY <1>2, <1>7, <2>1, <2>2, ReadIs DEF ClaimFind, CallPlaced, Claiming, Adding, Placed, Pos
  <2> QED
    BY <1>2, <1>7, <2>3, ReadIs, QuietPlace DEF ClaimFind
<1>8. CASE ClaimIdle(r) /\ Goto(r, "save")
  <2>1. req[r].op = "process" /\ req[r].at = "idle" /\ Claiming(r)
    BY <1>1, <1>8 DEF ClaimIdle, Holding, Claiming, CallKind
  <2>2. CallPlaced(r)'
    BY <1>1, <1>2, <1>8, <2>1, GotoIs DEF CallPlaced, Claiming, Adding, Placed, Pos
  <2> QED
    BY <1>2, <1>8, <2>2, GotoIs, QuietPlace
<1>9. ASSUME NEW j \in BusyRow \ {req[r].id}, ClaimIdle(r),
             req' = [req EXCEPT ![r].at = "zombie", ![r].todo = {[id |-> j, row |-> job[j]]}]
      PROVE  PlaceInv'
  <2>1. req[r].op = "process" /\ req[r].at = "idle" /\ Claiming(r)
    BY <1>1, <1>9 DEF ClaimIdle, Holding, Claiming, CallKind
  <2>2. j \in Jobs
    BY MostRecentSubset DEF BusyRow, InStatus
  <2>3. /\ req'[r].op = req[r].op /\ req'[r].at = "zombie" /\ req'[r].id = req[r].id
        /\ req'[r].row = req[r].row /\ req'[r].todo = {[id |-> j, row |-> job[j]]}
        /\ \A s \in Requests \ {r} : req'[s] = req[s]
    BY <1>9 DEF TypeInv, ReqInv, GoodCall, Call
  <2>4. InFlight(j)' <=> InFlight(j)
    BY <1>2 DEF InFlight
  <2>5. job[j].pos \in Places /\ (InFlight(j) => job[j].pos # NoPos)
    BY <2>2 DEF PlaceInv, RowPlaced, Placed, Pos
  <2>6. \A e \in req'[r].todo : /\ e.id # req'[r].id /\ e.row.pos \in Places
                                /\ InFlight(e.id)' => e.row.pos # NoPos
    BY <1>9, <2>3, <2>4, <2>5
  <2>7. Claiming(r)' /\ ~ Adding(r)' /\ Placed(req[r].id)'
    BY <1>1, <1>2, <2>1, <2>3 DEF CallPlaced, Claiming, Adding, Placed, Pos
  <2>8. CallPlaced(r)'
    BY <1>1, <2>1, <2>3, <2>6, <2>7 DEF CallPlaced, Placed, Pos
  <2> QED
    BY <1>2, <2>3, <2>8, QuietPlace
<1> QED
  BY <1>3, <1>4, <1>5, <1>6, <1>7, <1>8, <1>9 DEF Refused, ProcessPick, ClaimIdle, ReturnUnlocked

LEMMA RequestStepPlace ==
  ASSUME TypeInv, FlightInv, PlaceInv, NEW r \in Requests, RequestStep(r)
  PROVE  PlaceInv'
<1>1. req[r].op \in {"none", "process", "add", "reorder"} /\ CallKind(r)
  BY DEF PlaceInv, CallPlaced, FlightInv
<1>2. ~ RemoveFind(r) /\ ~ RemoveSave(r) /\ ~ RemoveCompact(r)
  BY <1>1 DEF RemoveFind, RemoveSave, RemoveCompact, CallKind
<1>3. ~ ClearScan(r) /\ ~ ClearSave(r) /\ ~ ClearReturn(r)
  BY <1>1 DEF ClearScan, ClearSave, ClearReturn, CallKind
<1>4. ~ StopFind(r) /\ ~ StopSave(r) /\ ~ StopClone(r)
  BY <1>1 DEF StopFind, StopSave, StopClone, CallKind
<1> QED
  BY <1>2, <1>3, <1>4, QuietRequestPlace, AddSavePlace, ReorderPlace, ClaimSavePlace,
     ClaimZombiePlace DEF RequestStep

(* A step of the dispatch r that writes no row, or its own when it is over.*)
LEMMA DispatchPlace ==
  ASSUME TypeInv, FlightInv, PlaceInv, NEW r \in Requests, UNCHANGED req,
         NEW k \in Jobs, k = bg[r].id, bg[r].at # "none",
         \A s \in Requests \ {r} : bg'[s] = bg[s],
         bg'[r].at # "none" => bg'[r].id = bg[r].id,
         DispatchPlaced(r)',
         \A j \in Jobs \ {k} : Pos(j)' = Pos(j) /\ Status(j)' = Status(j),
         \/ Pos(k)' = Pos(k) /\ Status(k)' = Status(k)
         \/ bg'[r].at = "none" /\ Pos(k)' \in Places /\ (Status(k)' \in Lined => Placed(k)')
  PROVE  PlaceInv'
<1>1. \A j : InFlight(j)' => InFlight(j)
  BY DEF InFlight
<1>2. bg'[r].at = "none" => ~ InFlight(k)'
  BY DEF InFlight, FlightInv, OneSends
<1>3. \A j \in Jobs : RowPlaced(j)'
  BY <1>1, <1>2 DEF PlaceInv, RowPlaced, Placed
<1>4. \A s \in Requests : DispatchPlaced(s)'
  BY DEF PlaceInv, DispatchPlaced
<1>5. ASSUME NEW s \in Requests, Claiming(s) PROVE Placed(req[s].id)'
  <2>1. req[s].id \in Jobs /\ req[s].id # k /\ Placed(req[s].id)
    BY <1>5, WantsJob DEF Wanting, FlightInv, Wanted, InFlight, PlaceInv, CallPlaced
  <2> QED
    BY <2>1 DEF Placed, Pos
<1>6. CallPlaced(r)'
  <2>1. CallPlaced(r)
    BY DEF PlaceInv
  <2>2. Claiming(r)' => Placed(req[r].id)'
    BY <1>5 DEF Claiming
  <2>3. \A e \in req[r].todo : req[r].at = "zombie" /\ InFlight(e.id)' => e.row.pos # NoPos
    BY <1>1, <2>1 DEF CallPlaced
  <2> QED
    BY <2>1, <2>2, <2>3 DEF CallPlaced, Claiming, Adding
<1> QED
  BY <1>1, <1>3, <1>4, <1>5, <1>6, CallPlace

(* The gap that is closed is above nobody's first place: whoever has a     *)
(* place keeps one.                                                        *)
LEMMA CompactPlace ==
  ASSUME TypeInv, PlaceInv, NEW r \in Requests, OkCompact(r)
  PROVE  PlaceInv'
<1>1. bg[r].row.pos \in Nat /\ job \in Tables /\ UNCHANGED req /\ job' = Compacted(job, bg[r].row.pos)
  BY DEF OkCompact, InStage, PlaceInv, DispatchPlaced, TypeInv, JobInv
<1>2. \A s \in Requests : bg'[s].at # "none" <=> bg[s].at # "none"
  BY DEF OkCompact, InStage, Advance, TypeInv, BgInv, GoodBackground, Background
<1>3. \A s \in Requests : bg'[s].id = bg[s].id /\ bg'[s].row = bg[s].row
  BY DEF OkCompact, Advance, TypeInv, BgInv, GoodBackground, Background
<1>4. \A j : InFlight(j)' <=> InFlight(j)
  BY <1>2, <1>3 DEF InFlight
<1>5. ASSUME NEW j \in Jobs
      PROVE  Status(j)' = Status(j) /\ Pos(j)' \in Places /\ (Placed(j) => Placed(j)')
  <2>1. Status(j)' = Status(j)
    BY <1>1, CompactedTable DEF Status
  <2>2. Pos(j) \in Places /\ job[j] \in Row
    BY <1>1 DEF PlaceInv, RowPlaced, Tables
  <2>3. Pos(j)' = IF Pos(j) # NoPos /\ Pos(j) > bg[r].row.pos THEN Pos(j) - 1 ELSE Pos(j)
    BY <1>1, <2>2 DEF Compacted, Pos, Row
  <2>4. Pos(j)' \in Places /\ (Pos(j) # NoPos => Pos(j)' # NoPos)
    BY <1>1, <2>2, <2>3 DEF Places, NoPos
  <2> QED
    BY <2>1, <2>4 DEF Placed
<1>6. \A j \in Jobs : RowPlaced(j)'
  BY <1>4, <1>5 DEF PlaceInv, RowPlaced
<1>7. bg'[r].at = "written" /\ \A s \in Requests \ {r} : bg'[s] = bg[s]
  BY DEF OkCompact, Advance, TypeInv, BgInv, GoodBackground, Background
<1>8. \A s \in Requests : DispatchPlaced(s)'
  BY <1>7 DEF PlaceInv, DispatchPlaced
<1>9. ASSUME NEW s \in Requests, Claiming(s) PROVE Placed(req[s].id)'
  <2>1. req[s].id \in Jobs /\ Placed(req[s].id)
    BY <1>9, WantsJob DEF Wanting, PlaceInv, CallPlaced
  <2> QED
    BY <1>1, <1>5, <2>1 DEF Placed, Pos
<1>10. CallPlaced(r)'
  <2>1. CallPlaced(r)
    BY DEF PlaceInv
  <2>2. Claiming(r)' => Placed(req[r].id)'
    BY <1>1, <1>9 DEF Claiming
  <2> QED
    BY <1>1, <1>4, <2>1, <2>2 DEF CallPlaced, Claiming, Adding
<1> QED
  BY <1>1, <1>4, <1>6, <1>8, <1>9, <1>10, CallPlace

LEMMA BackgroundPlace ==
  ASSUME TypeInv, FlightInv, PlaceInv, NEW r \in Requests, BackgroundStep(r)
  PROVE  PlaceInv'
<1>0. bg[r].at # "none" /\ UNCHANGED req /\ \A s \in Requests \ {r} : bg'[s] = bg[s]
  BY DEF BackgroundStep, BgBegin, BgReady, BgWaitTimeout, Land, Answered, SendFails, SendRetried,
         OkFind, OkCompact, OkSave, FailFind, FailSave, InStage, Advance, Settle, TypeInv, BgInv
<1>1. PICK k \in Jobs : k = bg[r].id
  BY <1>0, BgHasJob DEF TypeInv
<1>2. /\ Pos(k) \in Nat /\ bg[r].row \in Row /\ Sailing(r) /\ DispatchPlaced(r)
  <2>1. InFlight(k)
    BY <1>0, <1>1 DEF InFlight
  <2> QED
    BY <1>1, <2>1, BgHasJob DEF PlaceInv, RowPlaced, Placed, Places, FlightInv, TypeInv
<1>3. CASE OkSave(r) \/ FailSave(r)
  <2>0. Settle(r)
    BY <1>3 DEF OkSave, FailSave
  <2>1. bg'[r].at = "none"
    BY <2>0 DEF Settle, Settled, TypeInv, BgInv
  <2>2. PICK row : /\ Save(k, row) /\ row.pos \in Places
                   /\ row.st \in Lined => row.pos # NoPos
    <3>1. CASE OkSave(r)
      <4> DEFINE old == [bg[r].row EXCEPT !.pos = NoPos]
      <4>1. old.pos = NoPos /\ old.st = bg[r].row.st /\ old.st # "QUEUED"
        BY <1>2, <3>1 DEF OkSave, InStage, Sailing, Ashore, Row
      <4>2. \A now : /\ [old EXCEPT !.st = "PRINTING", !.started = now].st = "PRINTING"
                     /\ [old EXCEPT !.st = "PRINTING", !.started = now].pos = NoPos
        BY <1>2 DEF Row
      <4>3. \/ old.st # "STARTING" /\ Save(k, old)
            \/ \E now : Save(k, [old EXCEPT !.st = "PRINTING", !.started = now])
        BY <1>1, <3>1 DEF OkSave
      <4> HIDE DEF old
      <4> QED
        BY <4>1, <4>2, <4>3 DEF Lined, Places
    <3>2. CASE FailSave(r)
      <4>1. RolledBack(bg[r].row).pos \in Nat
        BY <1>2, <3>2 DEF FailSave, InStage, DispatchPlaced, RolledBack, Row
      <4> QED
        BY <1>1, <3>2, <4>1 DEF FailSave, Places, NoPos
    <3> QED
      BY <1>3, <3>1, <3>2
  <2>3. /\ Pos(k)' = row.pos /\ Status(k)' = row.st
        /\ \A j \in Jobs \ {k} : Pos(j)' = Pos(j) /\ Status(j)' = Status(j)
    BY <2>2 DEF Save, Status, Pos, TypeInv, JobInv, Tables
  <2>4. DispatchPlaced(r)'
    BY <2>1 DEF DispatchPlaced
  <2>5. Status(k)' \in Lined => Placed(k)'
    BY <2>2, <2>3 DEF Placed
  <2> QED
    BY <1>0, <1>1, <2>1, <2>2, <2>3, <2>4, <2>5, DispatchPlace
<1>4. CASE ~ OkSave(r) /\ ~ FailSave(r) /\ ~ OkCompact(r)
  <2>1. UNCHANGED job
    BY <1>4 DEF BackgroundStep, BgBegin, BgReady, BgWaitTimeout, Land, Answered, SendFails,
                SendRetried, OkFind, FailFind
  <2>2. bg'[r].at # "none" => bg'[r].id = bg[r].id
    BY <1>4 DEF BackgroundStep, BgBegin, BgReady, BgWaitTimeout, Land, Answered, SendFails,
                SendRetried, OkFind, FailFind, Advance, Settled, TypeInv, BgInv,
                GoodBackground, Background
  <2>3. DispatchPlaced(r)'
    <3>1. CASE OkFind(r) \/ FailFind(r)
      <4>1. bg'[r].row = job[k]
        BY <1>1, <3>1 DEF OkFind, FailFind, TypeInv, BgInv, GoodBackground, Background
      <4> QED
        BY <1>2, <4>1 DEF DispatchPlaced, Pos
    <3>2. CASE ~ OkFind(r) /\ ~ FailFind(r)
      <4>1. bg'[r].at \notin {"drop", "undo"}
        BY <1>4, <3>2 DEF BackgroundStep, BgBegin, BgReady, BgWaitTimeout, Land, Answered, SendFails,
                          SendRetried, Advance, Settled, TypeInv, BgInv, GoodBackground, Background
      <4> QED
        BY <4>1 DEF DispatchPlaced
    <3> QED
      BY <3>1, <3>2
  <2>4. \A j \in Jobs : Pos(j)' = Pos(j) /\ Status(j)' = Status(j)
    BY <2>1 DEF Pos, Status
  <2> QED
    BY <1>0, <1>1, <2>2, <2>3, <2>4, DispatchPlace
<1> QED
  BY <1>3, <1>4, CompactPlace

LEMMA PlaceStep == TypeInv /\ FlightInv /\ PlaceInv /\ [Next]_vars => PlaceInv'
<1> SUFFICES ASSUME TypeInv, FlightInv, PlaceInv, [Next]_vars PROVE PlaceInv'
  OBVIOUS
<1>1. CASE UNCHANGED vars \/ PrinterStep \/ ObserverStep
  <2>1. UNCHANGED <<req, bg>>
    BY <1>1 DEF vars, PrinterStep, PrintEnds, PrinterRests, PanelStop, PanelStart, ObserverStep,
                PollAnswer, PollHandled, LiveExpires
  <2>2. UNCHANGED job \/ PollHandled
    BY <1>1 DEF vars, PrinterStep, PrintEnds, PrinterRests, PanelStop, PanelStart, ObserverStep,
                PollAnswer, LiveExpires
  <2>3. \A j \in Jobs : Pos(j)' = Pos(j) /\ (Status(j)' \in Lined => Status(j)' = Status(j))
    BY <2>2, HandledRows DEF SeenRow, Seen, Status, Pos, Lined
  <2>4. \A j : InFlight(j)' <=> InFlight(j)
    BY <2>1 DEF InFlight
  <2>5. \A j \in Jobs : RowPlaced(j)'
    BY <2>3, <2>4 DEF PlaceInv, RowPlaced, Placed
  <2>6. ASSUME NEW s \in Requests PROVE CallPlaced(s)' /\ DispatchPlaced(s)'
    <3>1. CallPlaced(s) /\ DispatchPlaced(s)
      BY DEF PlaceInv
    <3>2. Claiming(s) => req[s].id \in Jobs
      BY WantsJob DEF Wanting
    <3>3. Claiming(s)' => Placed(req[s].id)'
      BY <2>1, <2>3, <3>1, <3>2 DEF CallPlaced, Claiming, Placed, Pos
    <3> QED
      BY <2>1, <2>4, <3>1, <3>3 DEF CallPlaced, DispatchPlaced, Claiming, Adding
  <2> QED
    BY <2>5, <2>6 DEF PlaceInv, KeepsPlaces
<1>2. CASE Crash
  <2>1. \A s \in Requests : /\ req'[s].op = "none" /\ req'[s].at \in {"unused", "done"}
                            /\ bg'[s].at = "none"
    BY <1>2 DEF Crash, Done, Unused, Settled
  <2>2. \A j \in Jobs : RowPlaced(j)'
    BY <1>2, <2>1 DEF Crash, PlaceInv, RowPlaced, Placed, Pos, Status, InFlight
  <2> QED
    BY <2>1, <2>2 DEF PlaceInv, KeepsPlaces, CallPlaced, DispatchPlaced, Claiming, Adding
<1>3. CASE Boot
  <2>1. \A s \in Requests : /\ req'[s].op = "none" /\ req'[s].at \in {"unused", "done"}
                            /\ bg'[s].at = "none"
    BY <1>3 DEF Boot, FlightInv, DownInv, CallKind
  <2>2. \A j \in Jobs : /\ Pos(j)' = Pos(j)
                        /\ Status(j)' \in Lined => Status(j) \in Lined
    BY <1>3 DEF Boot, Recovered, Pos, Status, Lined, TypeInv, JobInv, Tables, Row
  <2>3. \A j \in Jobs : RowPlaced(j)'
    BY <2>1, <2>2 DEF PlaceInv, RowPlaced, Placed, InFlight
  <2> QED
    BY <2>1, <2>3 DEF PlaceInv, KeepsPlaces, CallPlaced, DispatchPlaced, Claiming, Adding
<1> QED
  BY <1>1, <1>2, <1>3, CallStepPlace, RequestStepPlace, BackgroundPlace DEF Next

LEMMA PlaceInit == KeepsPlaces /\ Init => PlaceInv
<1> SUFFICES ASSUME KeepsPlaces, Init PROVE PlaceInv
  OBVIOUS
<1>1. \A s \in Requests : req[s].op = "none" /\ req[s].at = "unused" /\ bg[s].at = "none"
  BY DEF Init, Unused, Settled
<1>2. \A j \in Jobs : \/ Pos(j) = NoPos /\ Status(j) = "absent"
                      \/ Pos(j) = j - 1
  BY DEF Init, Pos, Status, Absent
<1>3. \A j \in Jobs : RowPlaced(j)
  BY <1>1, <1>2 DEF RowPlaced, Placed, InFlight, Places, Lined, NoPos, Jobs
<1> QED
  BY <1>1, <1>3 DEF PlaceInv, CallPlaced, DispatchPlaced, Claiming, Adding

(* A queued job has a place, so "process next" reaches it: also after a    *)
(* failed dispatch, whatever the observer made of its row meanwhile, and   *)
(* after any number of crashes.                                            *)
THEOREM EveryJobInLine == KeepsPlaces /\ Spec => []QueuedHasPosition
<1>1. KeepsPlaces => NoRequeue
  BY DEF KeepsPlaces, NoRequeue
<1>2. PlaceInv => QueuedHasPosition
  BY DEF PlaceInv, RowPlaced, Placed, Pos, Status, Lined, QueuedHasPosition, InStatus
<1> QED
  BY FlightInvariant, PlaceInit, PlaceStep, <1>1, <1>2, PTL DEF Spec

----------------------------------------------------------------------------
(* One dispatch at a time                                                  *)

(* The dispatch is undisturbed: the only calls are those that claim a job, *)
(* queue a new file, cancel a dispatch, stop a print or reorder the queue, *)
(* and no poll promotes a row under a dispatch that has not answered.      *)
Undisturbed == Ops \subseteq {"process", "cancel", "file", "stop", "reorder"} /\ Observing = FALSE

(* The statuses of a row that no dispatch has had.                         *)
Unsent == {"absent", "PENDING", "QUEUED"}

(* How far the calls of these operations can have come.                    *)
CallShape(s) ==
    \/ req[s].op = "none" /\ req[s].at \in {"unused", "done"}
    \/ req[s].op = "process" /\ req[s].at \in {"waiting", "claim", "idle", "save"}
    \/ req[s].op \in {"add", "front"} /\ req[s].at \in {"waiting", "place", "save"}
    \/ req[s].op = "stop" /\ req[s].at \in {"stopped", "save", "clone"}
    \/ req[s].op = "reorder" /\ req[s].at \in {"waiting", "save"}

(* A stop has read a row that no dispatch will touch again.                *)
StopRow(s) ==
    req[s].op = "stop" /\ req[s].at = "save" =>
        Status(req[s].id) \notin Unsent /\ ~ InFlight(req[s].id)

(* A reorder writes back the status it has read.  Only the end of a        *)
(* dispatch and a stop write the row in between: the status is then stale, *)
(* but the row is in nobody's hands.                                       *)
SortRow(s) ==
    req[s].op = "reorder" /\ req[s].at = "save" =>
        /\ Lock!Owns(s) /\ Status(req[s].id) # "absent"
        /\ \/ Status(req[s].id) = req[s].row.st
           \/ /\ req[s].row.st \notin Unsent /\ Status(req[s].id) # "PENDING"
              /\ ~ InFlight(req[s].id)

(* What a call knows of the row it will write: its claim is checked under  *)
(* the lock, and nobody else writes a row that is QUEUED, or PENDING.      *)
CallRow(s) ==
    /\ Claiming(s) => Lock!Owns(s) /\ Status(req[s].id) = "QUEUED"
    /\ Claiming(s) /\ req[s].at = "save" => \A j \in Jobs : Status(j) \notin Busy
    /\ Adding(s) => Status(req[s].id) = "PENDING"
    /\ Adding(s) /\ req[s].at = "save" => req[s].row.st = "QUEUED"
    /\ StopRow(s) /\ SortRow(s)

CallsInv == \A s \in Requests : CallShape(s) /\ CallRow(s)

(* A dispatch in flight has a STARTING row, also as it has read it, and    *)
(* there is at most one.                                                   *)
DispatchInv ==
    /\ \A s \in Requests : bg[s].at # "none" => Status(bg[s].id) = "STARTING"
    /\ \A s \in Requests : bg[s].at = "written" => bg[s].row.st = "STARTING"
    /\ \A s \in Requests : bg[s].at = "drop" => bg[s].row.st = "STARTING"
    /\ \A s, t \in Requests : bg[s].at # "none" /\ bg[t].at # "none" => s = t

ExclusiveInv ==
    /\ Undisturbed
    /\ CallsInv
    /\ DispatchInv
    /\ DownInv
    /\ live = "none" /\ obs = NoAnswer

(* Another call s keeps its part of the invariant when r takes a step.     *)
LEMMA OtherCall ==
  ASSUME TypeInv, CallsInv, NEW r \in Requests, NEW s \in Requests, s # r, req'[s] = req[s],
         UNCHANGED line \/ Lock!Arrive(r) \/ Lock!Leave(r),
         \A j \in Jobs : \/ Status(j)' = Status(j)
                         \/ /\ Claiming(s) => Status(j) # "QUEUED"
                            /\ Claiming(s) /\ req[s].at = "save" => Status(j)' \notin Busy
                            /\ Adding(s) => Status(j) # "PENDING" \/ j # req[s].id,
         StopRow(s)', SortRow(s)'
  PROVE  (CallShape(s) /\ CallRow(s))'
<1>1. CallShape(s) /\ CallRow(s)
  BY DEF CallsInv
<1>2. CallShape(s)'
  BY <1>1 DEF CallShape
<1>3. Claiming(s) => Lock!Owns(s)'
  BY <1>1, OwnsKept DEF CallRow, TypeInv
<1>4. Claiming(s) \/ Adding(s) => req[s].id \in Jobs
  BY CallHasJob DEF TypeInv, Carries, Claiming, Adding
<1> QED
  BY <1>1, <1>2, <1>3, <1>4 DEF CallRow, Claiming, Adding

(* What the step of r may do to the rows of other calls.                   *)
Harmless(r) ==
    \A s \in Requests \ {r} :
        /\ \A j \in Jobs :
              \/ Status(j)' = Status(j)
              \/ /\ Claiming(s) => Status(j) # "QUEUED"
                 /\ Claiming(s) /\ req[s].at = "save" => Status(j)' \notin Busy
                 /\ Adding(s) => Status(j) # "PENDING" \/ j # req[s].id
        /\ StopRow(s)' /\ SortRow(s)'

(* The rows of a stop and of a reorder, in a step that leaves the row      *)
(* alone, or writes it as one that was sent.                               *)
LEMMA RowsKept ==
  ASSUME TypeInv, NEW r \in Requests, NEW s \in Requests \ {r}, StopRow(s), SortRow(s),
         req'[s] = req[s], UNCHANGED line \/ Lock!Arrive(r) \/ Lock!Leave(r),
         NEW k \in Jobs, \A j \in Jobs : j # k => Status(j)' = Status(j),
         \/ Status(k)' = Status(k)
         \/ Status(k)' \notin Unsent /\ ~ InFlight(k) /\ Status(k) \notin {"PENDING", "QUEUED"}
         \/ Status(k) \in Unsent /\ (~ Lock!Owns(s) \/ Status(k) = "absent"),
         \A j \in Jobs : InFlight(j)' => InFlight(j)
  PROVE  StopRow(s)' /\ SortRow(s)'
<1>1. req[s].op \in {"stop", "reorder"} /\ req[s].at = "save" => req[s].id \in Jobs
  BY CallHasJob DEF TypeInv, Carries
<1>2. Lock!Owns(s) => Lock!Owns(s)'
  BY OwnsKept DEF TypeInv
<1>3. StopRow(s)'
  BY <1>1 DEF StopRow, Unsent
<1>4. SortRow(s)'
  BY <1>1, <1>2 DEF SortRow, Unsent
<1> QED
  BY <1>3, <1>4

LEMMA CallExclusive ==
  ASSUME TypeInv, ExclusiveInv, NEW r \in Requests, up,
         \A s \in Requests \ {r} : req'[s] = req[s],
         UNCHANGED line \/ Lock!Arrive(r) \/ Lock!Leave(r),
         Harmless(r), (CallShape(r) /\ CallRow(r))', DispatchInv',
         UNCHANGED <<up, live, obs>>
  PROVE  ExclusiveInv'
<1>1. CallsInv'
  BY OtherCall DEF CallsInv, ExclusiveInv, Harmless
<1>2. DownInv'
  BY DEF DownInv
<1> QED
  BY <1>1, <1>2 DEF ExclusiveInv, Undisturbed

(* Only r's own call changes; the statuses and the dispatches do not.      *)
LEMMA QuietCall ==
  ASSUME TypeInv, ExclusiveInv, NEW r \in Requests, up,
         \A s \in Requests \ {r} : req'[s] = req[s],
         UNCHANGED line \/ Lock!Arrive(r) \/ Lock!Leave(r),
         \A j \in Jobs : Status(j)' = Status(j),
         \A s \in Requests :
             bg'[s].at = bg[s].at /\ bg'[s].id = bg[s].id /\ bg'[s].row = bg[s].row,
         (CallShape(r) /\ CallRow(r))',
         UNCHANGED <<up, live, obs>>
  PROVE  ExclusiveInv'
<1>1. \A j \in Jobs : InFlight(j)' => InFlight(j)
  BY DEF InFlight
<1>2. ASSUME NEW s \in Requests \ {r} PROVE StopRow(s)' /\ SortRow(s)'
  <2>1. StopRow(s) /\ SortRow(s)
    BY DEF ExclusiveInv, CallsInv, CallRow
  <2>2. req[s].op \in {"stop", "reorder"} /\ req[s].at = "save" => req[s].id \in Jobs
    BY CallHasJob DEF TypeInv, Carries
  <2>3. Lock!Owns(s) => Lock!Owns(s)'
    BY OwnsKept DEF TypeInv
  <2> QED
    BY <1>1, <2>1, <2>2, <2>3 DEF StopRow, SortRow
<1>3. Harmless(r)
  BY <1>2 DEF Harmless
<1>4. DispatchInv'
  BY DEF ExclusiveInv, DispatchInv, TypeInv, BgInv, GoodBackground
<1> QED
  BY <1>3, <1>4, CallExclusive

LEMMA ProcessCallExclusive ==
  ASSUME TypeInv, ExclusiveInv, NEW r \in Requests, ProcessCall(r)
  PROVE  ExclusiveInv'
<1>1. req'[r].op = "process" /\ req'[r].at = "waiting"
  BY DEF ProcessCall, Begin, Unused, TypeInv, ReqInv
<1>2. (CallShape(r) /\ CallRow(r))'
  BY <1>1 DEF CallShape, CallRow, StopRow, SortRow, Claiming, Adding
<1> QED
  BY <1>2, QuietCall DEF ProcessCall, Begin, Fresh, TypeInv, ReqInv, Status

LEMMA ReorderCallExclusive ==
  ASSUME TypeInv, ExclusiveInv, NEW r \in Requests, ReorderCall(r)
  PROVE  ExclusiveInv'
<1>1. req'[r].op = "reorder" /\ req'[r].at = "waiting"
  BY DEF ReorderCall, Unused, TypeInv, ReqInv
<1>2. (CallShape(r) /\ CallRow(r))'
  BY <1>1 DEF CallShape, CallRow, StopRow, SortRow, Claiming, Adding
<1> QED
  BY <1>2, QuietCall DEF ReorderCall, Fresh, TypeInv, ReqInv, Status

(* A call that returns.                                                    *)
LEMMA ReturnExclusive ==
  ASSUME TypeInv, ExclusiveInv, NEW r \in Requests, up, Return(r),
         UNCHANGED line \/ Lock!Leave(r),
         \A s \in Requests :
             bg'[s].at = bg[s].at /\ bg'[s].id = bg[s].id /\ bg'[s].row = bg[s].row,
         UNCHANGED <<job, up, live, obs>>
  PROVE  ExclusiveInv'
<1>1. req' = [req EXCEPT ![r] = Done] /\ Done.op = "none" /\ Done.at = "done"
  BY DEF Return, Done, Unused
<1>2. req'[r] = Done /\ \A s \in Requests \ {r} : req'[s] = req[s]
  BY <1>1 DEF TypeInv, ReqInv
<1>3. (CallShape(r) /\ CallRow(r))'
  BY <1>1, <1>2 DEF CallShape, CallRow, StopRow, SortRow, Claiming, Adding
<1> QED
  BY <1>2, <1>3, QuietCall DEF Status

LEMMA CancelExclusive ==
  ASSUME TypeInv, ExclusiveInv, NEW r \in Requests, CancelDispatch(r)
  PROVE  ExclusiveInv'
  BY AbortKeeps, ReturnExclusive DEF CancelDispatch, Fresh

LEMMA StopPrinterExclusive ==
  ASSUME TypeInv, ExclusiveInv, NEW r \in Requests, StopPrinter(r)
  PROVE  ExclusiveInv'
<1>1. req'[r].op = "stop" /\ req'[r].at = "stopped"
  BY DEF StopPrinter, Begin, Unused, TypeInv, ReqInv
<1>2. (CallShape(r) /\ CallRow(r))'
  BY <1>1 DEF CallShape, CallRow, StopRow, SortRow, Claiming, Adding
<1> QED
  BY <1>2, QuietCall DEF StopPrinter, Begin, Fresh, TypeInv, ReqInv, Status

(* A new row is none of the rows that calls and dispatches refer to.       *)
LEMMA FreshRow ==
  ASSUME TypeInv, ExclusiveInv, NEW r \in Requests, up, NEW j \in FreeIds(job), NEW row \in Row,
         row.st = "PENDING", Save(j, row),
         Begin(r, "add", "waiting", j) \/ Begin(r, "front", "waiting", j),
         Lock!Arrive(r), UNCHANGED <<dispatch, observer, up>>
  PROVE  ExclusiveInv'
<1>1. j \in Jobs /\ Status(j) = "absent" /\ Status(j)' = "PENDING"
  BY DEF FreeIds, Status, Save, TypeInv, JobInv, Tables
<1>2. \A k \in Jobs : k # j => Status(k)' = Status(k)
  BY DEF Save, Status, TypeInv, JobInv, Tables
<1>3. /\ \A s \in Requests \ {r} : req'[s] = req[s]
      /\ req'[r].op \in {"add", "front"} /\ req'[r].at = "waiting" /\ req'[r].id = j
  BY DEF Begin, Unused, TypeInv, ReqInv
<1>4. (CallShape(r) /\ CallRow(r))'
  BY <1>1, <1>3 DEF CallShape, CallRow, StopRow, SortRow, Claiming, Adding
<1>5. ASSUME NEW s \in Requests \ {r} PROVE StopRow(s)' /\ SortRow(s)'
  <2>1. \A k \in Jobs : InFlight(k)' => InFlight(k)
    BY DEF InFlight
  <2>2. StopRow(s) /\ SortRow(s)
    BY DEF ExclusiveInv, CallsInv, CallRow
  <2> QED
    BY <1>1, <1>2, <1>3, <2>1, <2>2, RowsKept DEF Unsent
<1>6. Harmless(r)
  BY <1>1, <1>2, <1>5 DEF Harmless, Busy
<1>7. DispatchInv'
  BY <1>1, <1>2, BgHasJob DEF ExclusiveInv, DispatchInv, TypeInv
<1> QED
  BY <1>3, <1>4, <1>6, <1>7, CallExclusive

LEMMA FileCallExclusive ==
  ASSUME TypeInv, ExclusiveInv, NEW r \in Requests, NEW f \in Files, FileCall(r, f)
  PROVE  ExclusiveInv'
<1>1. (f \in UsbFiles) \in BOOLEAN
  OBVIOUS
<1>2. PendingRow(f, f \in UsbFiles) \in Row /\ PendingRow(f, f \in UsbFiles).st = "PENDING"
  BY PendingRowIsRow, <1>1
<1> QED
  BY <1>2, FreshRow DEF FileCall, Fresh

LEMMA StopCloneExclusive ==
  ASSUME TypeInv, ExclusiveInv, NEW r \in Requests, up, StopClone(r)
  PROVE  ExclusiveInv'
<1> DEFINE row == PendingRow(req[r].row.file, req[r].row.usb)
<1>1. req[r].row \in Row
  BY CallHasJob DEF TypeInv
<1>2. row \in Row /\ row.st = "PENDING"
  BY PendingRowIsRow, <1>1 DEF Row
<1> QED
  BY <1>2, FreshRow DEF StopClone

LEMMA CallUp ==
  ASSUME ExclusiveInv, NEW r \in Requests, req[r].at \notin {"unused", "done"}
  PROVE  up /\ req[r].op \in {"process", "add", "front", "stop", "reorder"}
  BY DEF ExclusiveInv, CallsInv, CallShape, DownInv

LEMMA AddFindExclusive ==
  ASSUME TypeInv, ExclusiveInv, NEW r \in Requests, AddFind(r)
  PROVE  ExclusiveInv'
<1>1. up
  BY CallUp DEF AddFind, Holding
<1>2. /\ req'[r].op = req[r].op /\ req'[r].at = "place" /\ req'[r].id = req[r].id
      /\ \A s \in Requests \ {r} : req'[s] = req[s]
  BY DEF AddFind, Read, TypeInv, ReqInv, GoodCall, Call
<1>3. Adding(r) /\ Status(req[r].id) = "PENDING" /\ UNCHANGED job
  BY DEF AddFind, Adding, ExclusiveInv, CallsInv, CallRow
<1>4. (CallShape(r) /\ CallRow(r))'
  BY <1>2, <1>3 DEF CallShape, CallRow, StopRow, SortRow, Claiming, Adding, Status
<1> QED
  BY <1>1, <1>2, <1>3, <1>4, QuietCall DEF AddFind, Status

LEMMA AddPlaceExclusive ==
  ASSUME TypeInv, ExclusiveInv, NEW r \in Requests, AddPlace(r)
  PROVE  ExclusiveInv'
<1>1. up /\ Adding(r)
  BY CallUp DEF AddPlace, Holding, ExclusiveInv, CallsInv, CallShape, Adding
<1>2. /\ req'[r].op = req[r].op /\ req'[r].at = "save" /\ req'[r].id = req[r].id
      /\ req'[r].row.st = "QUEUED"
      /\ \A s \in Requests \ {r} : req'[s] = req[s]
  <2>1. PICK p : req' = [req EXCEPT ![r].at = "save",
                                    ![r].row = [@ EXCEPT !.st = "QUEUED", !.pos = p]]
    BY DEF AddPlace
  <2>2. req[r].row \in Row /\ req[r] \in Call /\ req \in [Requests -> Call]
    BY DEF TypeInv, ReqInv, GoodCall, Call
  <2> QED
    BY <2>1, <2>2 DEF Call, Row
<1>3. \A j \in Jobs : Status(j)' = Status(j)
  BY ShiftedTable DEF AddPlace, Status, TypeInv, JobInv
<1>4. job'[req[r].id].st = "PENDING"
  BY <1>1, <1>3, CallHasJob DEF ExclusiveInv, CallsInv, CallRow, TypeInv, Carries, Adding, Status
<1>5. (CallShape(r) /\ CallRow(r))'
  BY <1>1, <1>2, <1>4 DEF CallShape, CallRow, StopRow, SortRow, Claiming, Adding, Status
<1> QED
  BY <1>1, <1>2, <1>3, <1>5, QuietCall DEF AddPlace

(* The row of an add is PENDING until the add itself writes it.            *)
LEMMA AddSaveExclusive ==
  ASSUME TypeInv, FlightInv, ExclusiveInv, NEW r \in Requests, AddSave(r)
  PROVE  ExclusiveInv'
<1>0. PICK k \in Jobs : k = req[r].id
  BY CallHasJob DEF AddSave, TypeInv, Carries
<1>1. /\ up /\ Adding(r) /\ Lock!Owns(r) /\ Status(k) = "PENDING"
      /\ req[r].row.st = "QUEUED"
  BY <1>0, CallUp DEF AddSave, Holding, ExclusiveInv, CallsInv, CallRow, Adding
<1>2. /\ req'[r].op = "none" /\ req'[r].at = "done"
      /\ \A s \in Requests \ {r} : req'[s] = req[s]
  BY DEF AddSave, ReturnUnlocked, Return, Done, Unused, TypeInv, ReqInv
<1>3. Status(k)' = "QUEUED" /\ \A j \in Jobs : j # k => Status(j)' = Status(j)
  BY <1>0, <1>1 DEF AddSave, Save, Status, TypeInv, JobInv, Tables
<1>4. (CallShape(r) /\ CallRow(r))'
  BY <1>2 DEF CallShape, CallRow, StopRow, SortRow, Claiming, Adding
<1>5. Harmless(r)
  <2>1. ASSUME NEW s \in Requests \ {r} PROVE ~ Claiming(s)
    BY <1>1, OneOwner DEF ExclusiveInv, CallsInv, CallRow
  <2>2. ASSUME NEW s \in Requests \ {r} PROVE Adding(s) => req[s].id # k
    BY <1>0, <1>1 DEF FlightInv, OneWants, Wanting
  <2>3. ASSUME NEW s \in Requests \ {r} PROVE StopRow(s)' /\ SortRow(s)'
    <3>1. \A j \in Jobs : InFlight(j)' => InFlight(j)
      BY DEF AddSave, InFlight
    <3>2. StopRow(s) /\ SortRow(s) /\ ~ Lock!Owns(s)
      BY <1>1, OneOwner DEF ExclusiveInv, CallsInv, CallRow
    <3> QED
      BY <1>1, <1>2, <1>3, <3>1, <3>2, RowsKept DEF Unsent, AddSave, ReturnUnlocked
  <2> QED
    BY <1>1, <1>3, <2>1, <2>2, <2>3 DEF Harmless
<1>6. DispatchInv'
  BY <1>1, <1>3, BgHasJob DEF AddSave, ExclusiveInv, DispatchInv, TypeInv
<1> QED
  BY <1>1, <1>2, <1>4, <1>5, <1>6, CallExclusive DEF AddSave, ReturnUnlocked

LEMMA RefusedExclusive ==
  ASSUME TypeInv, ExclusiveInv, NEW r \in Requests, Refused(r)
  PROVE  ExclusiveInv'
<1>1. up
  BY CallUp DEF Refused, Holding
<1> QED
  BY <1>1, ReturnExclusive DEF Refused, ReturnUnlocked

LEMMA StopFindExclusive ==
  ASSUME TypeInv, ExclusiveInv, NEW r \in Requests, StopFind(r)
  PROVE  ExclusiveInv'
<1>1. up /\ req[r].op = "stop"
  BY CallUp DEF StopFind, ExclusiveInv, CallsInv, CallShape
<1>2. CASE Return(r)
  BY <1>1, <1>2, ReturnExclusive DEF StopFind
<1>3. ASSUME NEW j \in ActiveJob(job, NoFile), Read(r, "save", j) PROVE ExclusiveInv'
  <2>1. j \in Jobs /\ Status(j) \notin Unsent /\ ~ InFlight(j)
    BY ActiveJobIsActive
       DEF InStatus, Active, Unsent, Status, InFlight, ExclusiveInv, DispatchInv
  <2>2. /\ req'[r].op = "stop" /\ req'[r].at = "save" /\ req'[r].id = j
        /\ \A s \in Requests \ {r} : req'[s] = req[s]
    BY <1>1, <1>3 DEF Read, TypeInv, ReqInv, GoodCall, Call
  <2>3. (CallShape(r) /\ CallRow(r))'
    BY <2>1, <2>2
       DEF StopFind, CallShape, CallRow, StopRow, SortRow, InFlight, Claiming, Adding, Status
  <2> QED
    BY <1>1, <2>2, <2>3, QuietCall DEF StopFind, Status
<1> QED
  BY <1>2, <1>3 DEF StopFind

LEMMA StopSaveExclusive ==
  ASSUME TypeInv, ExclusiveInv, NEW r \in Requests, StopSave(r)
  PROVE  ExclusiveInv'
<1>0. PICK k \in Jobs : k = req[r].id
  BY CallHasJob DEF StopSave, TypeInv, Carries
<1>1. up /\ Status(k) \notin Unsent /\ ~ InFlight(k)
  BY <1>0, CallUp DEF StopSave, ExclusiveInv, CallsInv, CallRow, StopRow
<1>2. /\ req'[r].op = "stop" /\ req'[r].at = "clone"
      /\ \A s \in Requests \ {r} : req'[s] = req[s]
  BY DEF StopSave, Goto, TypeInv, ReqInv, GoodCall, Call
<1>3. Status(k)' = "CANCELLED" /\ \A j \in Jobs : j # k => Status(j)' = Status(j)
  <2>1. job' = [job EXCEPT ![k] = [req[r].row EXCEPT !.st = "CANCELLED"]]
    BY <1>0 DEF StopSave, Save
  <2>2. job \in [Jobs -> Row] /\ req[r].row \in Row
    BY CallHasJob DEF TypeInv, JobInv, Tables
  <2> QED
    BY <1>1, <2>1, <2>2 DEF Status, Row
<1>4. (CallShape(r) /\ CallRow(r))'
  BY <1>2 DEF CallShape, CallRow, StopRow, SortRow, Claiming, Adding
<1>5. ASSUME NEW s \in Requests \ {r} PROVE StopRow(s)' /\ SortRow(s)'
  <2>1. \A j \in Jobs : InFlight(j)' => InFlight(j)
    BY DEF StopSave, InFlight
  <2>2. StopRow(s) /\ SortRow(s)
    BY DEF ExclusiveInv, CallsInv, CallRow
  <2> QED
    BY <1>1, <1>2, <1>3, <2>1, <2>2, RowsKept DEF Unsent, StopSave
<1>6. Harmless(r)
  BY <1>1, <1>3, <1>5 DEF Harmless, Unsent, Busy
<1>7. DispatchInv'
  BY <1>1, <1>3, BgHasJob DEF StopSave, InFlight, ExclusiveInv, DispatchInv, TypeInv
<1> QED
  BY <1>1, <1>2, <1>4, <1>6, <1>7, CallExclusive DEF StopSave

(* A reorder reads a row under the lock, so that nobody queues it.         *)
LEMMA ReorderFindExclusive ==
  ASSUME TypeInv, FlightInv, ExclusiveInv, NEW r \in Requests, ReorderFind(r)
  PROVE  ExclusiveInv'
<1>1. up /\ Lock!Owns(r) /\ req[r].op = "reorder"
  BY CallUp DEF ReorderFind, Holding
<1>2. PICK k \in Jobs : k = Head(req[r].ids) /\ Status(k) # "absent"
  <2>1. req[r].ids \in Seq(Jobs) /\ req[r].ids # <<>>
    BY CallHasJob DEF ReorderFind, TypeInv
  <2>2. 1 \in 1..Len(req[r].ids) /\ Head(req[r].ids) = req[r].ids[1] /\ req[r].ids[1] \in Jobs
    BY <2>1
  <2> QED
    BY <1>1, <2>2 DEF FlightInv, CopyKept
<1>3. /\ req'[r].op = "reorder" /\ req'[r].at = "save" /\ req'[r].id = k
      /\ req'[r].row.st = Status(k)
      /\ \A s \in Requests \ {r} : req'[s] = req[s]
  BY <1>1, <1>2, ReadIs DEF ReorderFind, Status
<1>4. (CallShape(r) /\ CallRow(r))'
  BY <1>1, <1>2, <1>3
     DEF ReorderFind, CallShape, CallRow, StopRow, SortRow, Claiming, Adding, Status, Lock!Owns
<1> QED
  BY <1>1, <1>3, <1>4, QuietCall DEF ReorderFind, Status

(* The status that is written back is that of the row, or stale: then the  *)
(* row is in nobody's hands.                                               *)
LEMMA ReorderSaveExclusive ==
  ASSUME TypeInv, FlightInv, ExclusiveInv, NEW r \in Requests, ReorderSave(r)
  PROVE  ExclusiveInv'
<1>0. PICK k \in Jobs : k = req[r].id
  BY CallHasJob DEF ReorderSave, Holding, Carries, TypeInv
<1>1. /\ up /\ Lock!Owns(r) /\ req[r].op = "reorder" /\ req[r].at = "save"
      /\ Status(k) # "absent" /\ SortRow(r)
  BY <1>0, CallUp DEF ReorderSave, Holding, ExclusiveInv, CallsInv, CallRow, SortRow
<1>2. /\ req'[r].op = "reorder" /\ req'[r].at = "waiting"
      /\ \A s \in Requests \ {r} : req'[s] = req[s]
  BY DEF ReorderSave, TypeInv, ReqInv, GoodCall, Call
<1>3. Status(k)' = req[r].row.st /\ \A j \in Jobs : j # k => Status(j)' = Status(j)
  <2>1. job' = [job EXCEPT ![k] = [req[r].row EXCEPT !.pos = req[r].next]]
    BY <1>0 DEF ReorderSave, Save
  <2>2. job \in [Jobs -> Row] /\ req[r].row \in Row
    BY CallHasJob DEF TypeInv, JobInv, Tables
  <2> QED
    BY <2>1, <2>2 DEF Status, Row
<1>4. (CallShape(r) /\ CallRow(r))'
  BY <1>2 DEF CallShape, CallRow, StopRow, SortRow, Claiming, Adding
<1>5. \/ Status(k)' = Status(k)
      \/ Status(k)' \notin Unsent /\ Status(k) # "PENDING" /\ ~ InFlight(k)
  BY <1>0, <1>1, <1>3 DEF SortRow
<1>6. ASSUME NEW s \in Requests \ {r}
      PROVE  ~ Claiming(s) /\ StopRow(s)' /\ SortRow(s)'
  <2>1. ~ Lock!Owns(s) /\ CallRow(s)
    BY <1>1, OneOwner DEF ExclusiveInv, CallsInv
  <2>2. ~ Claiming(s) /\ StopRow(s) /\ SortRow(s)
    BY <2>1 DEF CallRow
  <2>3. \A j \in Jobs : InFlight(j)' => InFlight(j)
    BY DEF ReorderSave, InFlight
  <2> QED
    BY <1>1, <1>2, <1>3, <1>5, <2>1, <2>2, <2>3, RowsKept DEF Unsent, ReorderSave
<1>7. Harmless(r)
  BY <1>3, <1>5, <1>6 DEF Harmless
<1>8. DispatchInv'
  BY <1>3, <1>5, BgHasJob DEF ReorderSave, InFlight, ExclusiveInv, DispatchInv, TypeInv
<1> QED
  BY <1>1, <1>2, <1>4, <1>7, <1>8, CallExclusive DEF ReorderSave

LEMMA ProcessPickExclusive ==
  ASSUME TypeInv, ExclusiveInv, NEW r \in Requests, ProcessPick(r)
  PROVE  ExclusiveInv'
<1>1. up /\ Lock!Owns(r) /\ req[r].op = "process"
  BY CallUp DEF ProcessPick, Holding
<1>2. CASE ReturnUnlocked(r)
  BY <1>1, <1>2, ReturnExclusive DEF ProcessPick, ReturnUnlocked
<1>3. ASSUME NEW j \in NextInQueue(job), Read(r, "claim", j), UNCHANGED line PROVE ExclusiveInv'
  <2>1. j \in Jobs /\ Status(j) = "QUEUED"
    BY DEF NextInQueue, InStatus, Status
  <2>2. /\ req'[r].op = "process" /\ req'[r].at = "claim" /\ req'[r].id = j
        /\ \A s \in Requests \ {r} : req'[s] = req[s]
    BY <1>1, <1>3 DEF Read, TypeInv, ReqInv, GoodCall, Call
  <2>3. (CallShape(r) /\ CallRow(r))'
    BY <1>1, <1>3, <2>1, <2>2
       DEF ProcessPick, CallShape, CallRow, StopRow, SortRow, Claiming, Adding, Status, Lock!Owns
  <2> QED
    BY <1>1, <1>3, <2>2, <2>3, QuietCall DEF ProcessPick, Status
<1> QED
  BY <1>2, <1>3 DEF ProcessPick

LEMMA ClaimFindExclusive ==
  ASSUME TypeInv, ExclusiveInv, NEW r \in Requests, ClaimFind(r)
  PROVE  ExclusiveInv'
<1>1. up /\ Claiming(r) /\ Lock!Owns(r) /\ Status(req[r].id) = "QUEUED"
  BY CallUp DEF ClaimFind, Holding, Claiming, ExclusiveInv, CallsInv, CallShape, CallRow
<1>2. /\ req'[r].op = "process" /\ req'[r].at = "idle" /\ req'[r].id = req[r].id
      /\ \A s \in Requests \ {r} : req'[s] = req[s]
  BY <1>1 DEF ClaimFind, Claiming, Read, TypeInv, ReqInv, GoodCall, Call
<1>3. (CallShape(r) /\ CallRow(r))'
  BY <1>1, <1>2
     DEF ClaimFind, CallShape, CallRow, StopRow, SortRow, Claiming, Adding, Status, Lock!Owns
<1> QED
  BY <1>1, <1>2, <1>3, QuietCall DEF ClaimFind, Status

(* The claim goes on only when no row is busy: the row it found is QUEUED, *)
(* so it is not the busy row itself; and no row is a zombie without polls. *)
LEMMA ClaimIdleExclusive ==
  ASSUME TypeInv, ExclusiveInv, NEW r \in Requests, ClaimIdle(r)
  PROVE  ExclusiveInv'
<1>1. up /\ Claiming(r) /\ Lock!Owns(r) /\ Status(req[r].id) = "QUEUED" /\ live = "none"
  BY CallUp DEF ClaimIdle, Holding, Claiming, ExclusiveInv, CallsInv, CallShape, CallRow
<1>2. CASE ReturnUnlocked(r)
  BY <1>1, <1>2, ReturnExclusive DEF ClaimIdle, ReturnUnlocked
<1>3. \A j \in BusyRow : ~ Zombie(j) /\ Status(j) \in Busy
  BY <1>1, MostRecentSubset DEF Zombie, LiveIdleStates, BusyRow, InStatus, Status
<1>4. CASE InStatus(job, Busy) = {} /\ Goto(r, "save") /\ UNCHANGED line
  <2>1. /\ req'[r].op = "process" /\ req'[r].at = "save" /\ req'[r].id = req[r].id
        /\ \A s \in Requests \ {r} : req'[s] = req[s]
    BY <1>1, <1>4 DEF Goto, Claiming, TypeInv, ReqInv, GoodCall, Call
  <2>2. \A j \in Jobs : Status(j) \notin Busy
    BY <1>4 DEF InStatus, Status
  <2>3. (CallShape(r) /\ CallRow(r))'
    BY <1>1, <1>4, <2>1, <2>2
       DEF ClaimIdle, CallShape, CallRow, StopRow, SortRow, Claiming, Adding, Status, Lock!Owns
  <2> QED
    BY <1>1, <1>4, <2>1, <2>3, QuietCall DEF ClaimIdle, Status
<1>5. req[r].id \notin BusyRow
  BY <1>1, <1>3 DEF Busy
<1> QED
  BY <1>2, <1>3, <1>4, <1>5 DEF ClaimIdle

(* The new dispatch is the only one: no row was STARTING.                  *)
LEMMA ClaimSaveExclusive ==
  ASSUME TypeInv, ExclusiveInv, NEW r \in Requests, ClaimSave(r)
  PROVE  ExclusiveInv'
<1>0. PICK k \in Jobs : k = req[r].id
  BY CallHasJob DEF ClaimSave, Holding, TypeInv, Carries
<1>1. /\ up /\ Claiming(r) /\ Lock!Owns(r) /\ Status(k) = "QUEUED"
      /\ \A j \in Jobs : Status(j) \notin Busy
  BY <1>0, CallUp DEF ClaimSave, Holding, Claiming, ExclusiveInv, CallsInv, CallShape, CallRow
<1>2. /\ req'[r].op = "none" /\ req'[r].at = "done"
      /\ \A s \in Requests \ {r} : req'[s] = req[s]
  BY DEF ClaimSave, ReturnUnlocked, Return, Done, Unused, TypeInv, ReqInv
<1>3. Status(k)' = "STARTING" /\ \A j \in Jobs : j # k => Status(j)' = Status(j)
  <2>1. job' = [job EXCEPT ![k] = [req[r].row EXCEPT !.st = "STARTING"]]
    BY <1>0 DEF ClaimSave, Save
  <2>2. job \in [Jobs -> Row] /\ req[r].row \in Row
    BY CallHasJob DEF TypeInv, JobInv, Tables
  <2> QED
    BY <1>1, <2>1, <2>2 DEF Status, Row
<1>4. (CallShape(r) /\ CallRow(r))'
  BY <1>2 DEF CallShape, CallRow, StopRow, SortRow, Claiming, Adding
<1>5. Harmless(r)
  <2>1. ASSUME NEW s \in Requests \ {r} PROVE ~ Claiming(s)
    BY <1>1, OneOwner DEF ExclusiveInv, CallsInv, CallRow
  <2>2. ASSUME NEW s \in Requests \ {r} PROVE StopRow(s)' /\ SortRow(s)'
    <3>1. StopRow(s) /\ SortRow(s) /\ ~ Lock!Owns(s)
      BY <1>1, OneOwner DEF ExclusiveInv, CallsInv, CallRow
    <3>2. StopRow(s)'
      BY <1>0, <1>1, <1>2, <1>3, <3>1, CallHasJob
         DEF StopRow, InFlight, ClaimSave, Settled, Carries, Unsent, TypeInv, BgInv
    <3>3. SortRow(s)'
      BY <1>2, <3>1 DEF SortRow
    <3> QED
      BY <3>2, <3>3
  <2> QED
    BY <1>1, <1>3, <2>1, <2>2 DEF Harmless
<1>6. DispatchInv'
  <2>1. \A s \in Requests : bg[s].at = "none"
    BY <1>1, BgHasJob DEF ExclusiveInv, DispatchInv, TypeInv, Busy
  <2>2. \A s \in Requests : s # r => bg'[s].at = "none"
    BY <2>1 DEF ClaimSave, TypeInv, BgInv
  <2>3. bg'[r].id = k /\ bg'[r].at = "spawned"
    BY <1>0 DEF ClaimSave, Settled, TypeInv, BgInv
  <2> QED
    BY <1>3, <2>2, <2>3 DEF DispatchInv
<1> QED
  BY <1>1, <1>2, <1>4, <1>5, <1>6, CallExclusive DEF ClaimSave, ReturnUnlocked

----------------------------------------------------------------------------
(* The dispatch, the printer, crash and boot                               *)

(* Nothing changes that the invariant is about, except the stage or the    *)
(* end of a dispatch.                                                      *)
LEMMA QuietStep ==
  ASSUME TypeInv, ExclusiveInv,
         \A j \in Jobs : Status(j)' = Status(j),
         \A s \in Requests : bg[s].at = bg'[s].at \/ (bg[s].at # "none" /\ bg'[s].at # "none"),
         \A s \in Requests : bg'[s].id = bg[s].id,
         \A s \in Requests : bg'[s].at \in {"drop", "written"} => bg'[s].row.st = "STARTING",
         UNCHANGED <<line, req, up, live, obs>>
  PROVE  ExclusiveInv'
<1>1. \A s \in Requests : (CallShape(s) /\ CallRow(s))'
  <2> TAKE s \in Requests
  <2>1. CallShape(s) /\ CallRow(s)
    BY DEF ExclusiveInv, CallsInv
  <2>2. Claiming(s) \/ Adding(s) \/ (req[s].op \in {"stop", "reorder"} /\ req[s].at = "save")
          => req[s].id \in Jobs
    BY CallHasJob DEF TypeInv, Carries, Claiming, Adding
  <2>3. \A j \in Jobs : InFlight(j)' => InFlight(j)
    BY DEF InFlight
  <2>4. StopRow(s)' /\ SortRow(s)'
    BY <2>1, <2>2, <2>3 DEF CallRow, StopRow, SortRow, Lock!Owns
  <2> QED
    BY <2>1, <2>2, <2>4 DEF CallShape, CallRow, Claiming, Adding, Lock!Owns
<1>2. DownInv'
  BY DEF ExclusiveInv, DownInv
<1>3. DispatchInv'
  BY BgHasJob DEF ExclusiveInv, DispatchInv, TypeInv
<1> QED
  BY <1>1, <1>2, <1>3 DEF ExclusiveInv, CallsInv, Undisturbed

(* The outcome of the only dispatch is written: no row is STARTING then.   *)
LEMMA OutcomeExclusive ==
  ASSUME TypeInv, ExclusiveInv, NEW r \in Requests, bg[r].at # "none",
         NEW row, row.st \notin {"STARTING", "PENDING", "absent"}, Save(bg[r].id, row), Settle(r),
         UNCHANGED <<api, observer, process>>
  PROVE  ExclusiveInv'
<1>0. PICK k \in Jobs : k = bg[r].id
  BY BgHasJob DEF TypeInv
<1>1. /\ Status(k) = "STARTING" /\ Status(k)' \notin {"STARTING", "PENDING", "absent"}
      /\ \A j \in Jobs : j # k => Status(j)' = Status(j)
  BY <1>0 DEF Save, Status, ExclusiveInv, DispatchInv, TypeInv, JobInv, Tables
<1>2. \A s \in Requests : bg'[s].at = "none"
  BY DEF Settle, Settled, ExclusiveInv, DispatchInv, TypeInv, BgInv
<1>3. \A s \in Requests : (CallShape(s) /\ CallRow(s))'
  <2> TAKE s \in Requests
  <2>1. CallShape(s) /\ CallRow(s)
    BY DEF ExclusiveInv, CallsInv
  <2>2. Claiming(s) \/ Adding(s) \/ (req[s].op \in {"stop", "reorder"} /\ req[s].at = "save")
          => req[s].id \in Jobs
    BY CallHasJob DEF TypeInv, Carries, Claiming, Adding
  <2>3. ~ (Claiming(s) /\ req[s].at = "save")
    BY <1>1, <2>1 DEF CallRow, Busy
  <2>4. InFlight(k) /\ \A j \in Jobs : ~ InFlight(j)'
    BY <1>0, <1>2 DEF InFlight
  <2>5. StopRow(s)' /\ SortRow(s)'
    BY <1>1, <2>1, <2>2, <2>4 DEF CallRow, StopRow, SortRow, Unsent, Lock!Owns
  <2> QED
    BY <1>1, <2>1, <2>2, <2>3, <2>5 DEF CallShape, CallRow, Claiming, Adding, Lock!Owns
<1>4. DownInv' /\ DispatchInv'
  BY <1>2 DEF ExclusiveInv, DownInv, DispatchInv
<1> QED
  BY <1>3, <1>4 DEF ExclusiveInv, CallsInv, Undisturbed

LEMMA BackgroundExclusive ==
  ASSUME TypeInv, ExclusiveInv, NEW r \in Requests, BackgroundStep(r)
  PROVE  ExclusiveInv'
<1>1. CASE OkSave(r)
  <2>1. bg[r].row \in Row
    BY BgHasJob DEF TypeInv
  <2>2. bg[r].row.st = "STARTING" /\ bg[r].at # "none"
    BY <1>1 DEF OkSave, InStage, ExclusiveInv, DispatchInv
  <2>3. [bg[r].row EXCEPT !.pos = NoPos].st = "STARTING"
    BY <2>1, <2>2 DEF Row
  <2>4. PICK now \in Stamps(job) :
          Save(bg[r].id, [[bg[r].row EXCEPT !.pos = NoPos] EXCEPT !.st = "PRINTING",
                                                                   !.started = now])
    BY <1>1, <2>3 DEF OkSave
  <2> DEFINE row == [[bg[r].row EXCEPT !.pos = NoPos] EXCEPT !.st = "PRINTING", !.started = now]
  <2>5. row.st = "PRINTING"
    BY <2>1 DEF Row
  <2>6. Save(bg[r].id, row)
    BY <2>4
  <2> HIDE DEF row
  <2> QED
    BY <1>1, <2>2, <2>5, <2>6, OutcomeExclusive DEF OkSave
<1>2. CASE FailSave(r)
  <2>1. bg[r].row \in Row
    BY BgHasJob DEF TypeInv
  <2>2. RolledBack(bg[r].row).st = "QUEUED"
    BY <2>1 DEF RolledBack, Row
  <2>3. PICK row : row.st \notin {"STARTING", "PENDING", "absent"} /\ Save(bg[r].id, row)
    BY <1>2, <2>2 DEF FailSave
  <2> QED
    BY <1>2, <2>3, OutcomeExclusive DEF FailSave, InStage
<1>3. CASE ~ OkSave(r) /\ ~ FailSave(r)
  <2>1. UNCHANGED <<line, req, up, live, obs>>
    BY <1>3 DEF BackgroundStep, BgBegin, BgReady, BgWaitTimeout, Land, Answered, SendFails,
                SendRetried, OkFind, OkCompact, FailFind
  <2>2. \A j \in Jobs : Status(j)' = Status(j)
    BY <1>3, CompactedTable
       DEF BackgroundStep, BgBegin, BgReady, BgWaitTimeout, Land, Answered, SendFails,
           SendRetried, OkFind, OkCompact, FailFind, Status, TypeInv, JobInv
  <2>3. bg[r].at # "none" /\ \A s \in Requests : s # r => bg'[s] = bg[s]
    BY <1>3 DEF BackgroundStep, BgBegin, BgReady, BgWaitTimeout, Land, Answered, SendFails,
                SendRetried, OkFind, OkCompact, FailFind, InStage, Advance, TypeInv, BgInv
  <2>4. BgBegin(r) => job[bg[r].id].st = "STARTING"
    BY <2>3 DEF ExclusiveInv, DispatchInv, Status
  <2>5. bg'[r].at # "none" /\ bg'[r].id = bg[r].id
    BY <1>3, <2>4 DEF BackgroundStep, BgBegin, BgReady, BgWaitTimeout, Land, Answered, SendFails,
                      SendRetried, OkFind, OkCompact, FailFind, Advance, TypeInv, BgInv,
                      GoodBackground, Background
  <2>6. bg'[r].at \in {"drop", "written"} => bg'[r].row.st = "STARTING"
    BY <1>3, <2>3, <2>4
       DEF BackgroundStep, BgBegin, BgReady, BgWaitTimeout, Land, Answered, SendFails, SendRetried,
           OkFind, OkCompact, FailFind, InStage, Advance, ExclusiveInv, DispatchInv, Status,
           TypeInv, BgInv, GoodBackground, Background
  <2>7. \A s \in Requests : bg'[s].at \in {"drop", "written"} => bg'[s].row.st = "STARTING"
    BY <2>3, <2>6 DEF ExclusiveInv, DispatchInv
  <2> QED
    BY <2>1, <2>2, <2>3, <2>5, <2>7, QuietStep
<1> QED
  BY <1>1, <1>2, <1>3

LEMMA CallStepExclusive ==
  ASSUME TypeInv, ExclusiveInv, NEW r \in Requests, CallStep(r)
  PROVE  ExclusiveInv'
<1>1. \A op \in Ops : op \in {"process", "cancel", "file", "stop", "reorder"}
  BY DEF ExclusiveInv, Undisturbed
<1>2. \/ ProcessCall(r) \/ CancelDispatch(r) \/ StopPrinter(r) \/ ReorderCall(r)
      \/ \E f \in Files : FileCall(r, f)
  BY <1>1 DEF CallStep, AddCall, RemoveCall, SubmitCall, ClearCall, Fresh
<1> QED
  BY <1>2, ProcessCallExclusive, CancelExclusive, StopPrinterExclusive, ReorderCallExclusive,
     FileCallExclusive

LEMMA RequestStepExclusive ==
  ASSUME TypeInv, FlightInv, ExclusiveInv, NEW r \in Requests, RequestStep(r)
  PROVE  ExclusiveInv'
<1>1. CallShape(r)
  BY DEF ExclusiveInv, CallsInv
<1>2. \/ AddFind(r) \/ AddPlace(r) \/ AddSave(r) \/ Refused(r)
      \/ StopFind(r) \/ StopSave(r) \/ StopClone(r)
      \/ ReorderFind(r) \/ ReorderSave(r) \/ ReorderReturn(r)
      \/ ProcessPick(r) \/ ClaimFind(r) \/ ClaimIdle(r) \/ ClaimSave(r)
  BY <1>1 DEF RequestStep, RemoveFind, RemoveSave, RemoveCompact, ClearScan, ClearSave,
              ClearReturn, ClaimZombie, Holding, CallShape
<1>3. StopClone(r) => up
  BY CallUp DEF StopClone
<1>4. ReorderReturn(r) => ExclusiveInv'
  BY CallUp, ReturnExclusive DEF ReorderReturn, Holding, ReturnUnlocked
<1> QED
  BY <1>2, <1>3, <1>4, AddFindExclusive, AddPlaceExclusive, AddSaveExclusive, RefusedExclusive,
     StopFindExclusive, StopSaveExclusive, StopCloneExclusive,
     ReorderFindExclusive, ReorderSaveExclusive, ProcessPickExclusive,
     ClaimFindExclusive, ClaimIdleExclusive, ClaimSaveExclusive

LEMMA CrashExclusive == ASSUME TypeInv, ExclusiveInv, Crash PROVE ExclusiveInv'
<1>1. \A s \in Requests :
        req'[s].op = "none" /\ req'[s].at \in {"unused", "done"} /\ bg'[s].at = "none"
  BY DEF Crash, Done, Unused, Settled
<1>2. CallsInv' /\ DispatchInv' /\ DownInv'
  BY <1>1 DEF Crash, CallsInv, CallShape, CallRow, StopRow, SortRow, Claiming, Adding,
              DispatchInv, DownInv
<1> QED
  BY <1>2 DEF Crash, ExclusiveInv, Undisturbed

LEMMA BootExclusive == ASSUME TypeInv, ExclusiveInv, Boot PROVE ExclusiveInv'
<1>1. \A s \in Requests : req'[s].op = "none" /\ req'[s].at = req[s].at /\ bg'[s].at = "none"
  BY DEF Boot, ExclusiveInv, DownInv
<1>2. \A s \in Requests : req[s].at \in {"unused", "done"}
  BY DEF Boot, ExclusiveInv, DownInv, CallsInv, CallShape
<1>3. CallsInv' /\ DispatchInv' /\ DownInv'
  BY <1>1, <1>2 DEF CallsInv, CallShape, CallRow, StopRow, SortRow, Claiming, Adding,
                    DispatchInv, DownInv
<1> QED
  BY <1>3 DEF Boot, ExclusiveInv, Undisturbed

LEMMA ExclusiveStep == TypeInv /\ FlightInv /\ ExclusiveInv /\ [Next]_vars => ExclusiveInv'
<1> SUFFICES ASSUME TypeInv, FlightInv, ExclusiveInv, [Next]_vars PROVE ExclusiveInv'
  OBVIOUS
<1>1. ASSUME UNCHANGED vars \/ PrinterStep PROVE ExclusiveInv'
  <2>1. UNCHANGED <<job, line, req, bg, up, live, obs>>
    BY <1>1 DEF vars, PrinterStep, PrintEnds, PrinterRests, PanelStop, PanelStart
  <2>2. \A s \in Requests : bg[s].at \in {"drop", "written"} => bg[s].row.st = "STARTING"
    BY DEF ExclusiveInv, DispatchInv
  <2> QED
    BY <2>1, <2>2, QuietStep DEF Status
<1>2. ~ ObserverStep
  BY DEF ObserverStep, PollAnswer, PollHandled, LiveExpires, ExclusiveInv, Undisturbed
<1> QED
  BY <1>1, <1>2, CallStepExclusive, RequestStepExclusive, BackgroundExclusive, CrashExclusive,
     BootExclusive DEF Next

LEMMA ExclusiveInit == Undisturbed /\ Init => ExclusiveInv
<1> SUFFICES ASSUME Undisturbed, Init PROVE ExclusiveInv
  OBVIOUS
<1>1. \A s \in Requests : req[s].op = "none" /\ req[s].at = "unused" /\ bg[s].at = "none"
  BY DEF Init, Unused, Settled
<1> QED
  BY <1>1 DEF Init, ExclusiveInv, CallsInv, CallShape, CallRow, StopRow, SortRow, Claiming,
              Adding, DispatchInv, DownInv

LEMMA ExclusiveInvariant == Undisturbed /\ Spec => [](TypeInv /\ ExclusiveInv)
<1>1. Undisturbed => NoRequeue
  BY DEF Undisturbed, NoRequeue
<1> QED
  BY FlightInvariant, ExclusiveInit, ExclusiveStep, <1>1, PTL DEF Spec

(* The printer is sent one file at a time: under the lock, a claim finds   *)
(* the printer idle only when no other dispatch is between its begin and   *)
(* its outcome.                                                            *)
THEOREM ClaimsExclusive == Undisturbed /\ Spec => []OneDispatchInFlight
<1>1. ExclusiveInv => OneDispatchInFlight
  BY DEF ExclusiveInv, DispatchInv, OneDispatchInFlight, Running
<1> QED
  BY ExclusiveInvariant, <1>1, PTL

----------------------------------------------------------------------------
(* PrinterSlot                                                             *)

(* The holder is the dispatch that is under way: there is at most one.     *)
LEMMA HolderIs ==
  ASSUME DispatchInv, NEW r \in Requests, bg[r].at # "none"
  PROVE  Holder = r
<1>1. \A s \in Requests : bg[s].at # "none" => s = r
  BY DEF DispatchInv
<1> QED
  BY <1>1 DEF Holder

LEMMA HolderNext ==
  ASSUME NEW r \in Requests, bg'[r].at # "none",
         \A s \in Requests : bg'[s].at # "none" => s = r
  PROVE  Holder' = r
  BY DEF Holder

LEMMA NobodyHolds ==
  /\ (\A s \in Requests : bg[s].at = "none") => Holder = NoReq
  /\ (\A s \in Requests : bg'[s].at = "none") => Holder' = NoReq
  BY DEF Holder

LEMMA HolderKept ==
  ASSUME DispatchInv, \A s \in Requests : bg'[s].at = bg[s].at
  PROVE  Holder' = Holder
<1>1. CASE \E s \in Requests : bg[s].at # "none"
  <2>1. PICK s \in Requests : bg[s].at # "none"
    BY <1>1
  <2>2. \A t \in Requests : bg'[t].at # "none" => t = s
    BY <2>1 DEF DispatchInv
  <2> QED
    BY <2>1, <2>2, HolderIs, HolderNext
<1> QED
  BY <1>1, NobodyHolds

(* A call leaves the printer with its holder; a stop ends the print.       *)
LEMMA CallSlot ==
  ASSUME TypeInv, ExclusiveInv, NEW r \in Requests, CallStep(r)
  PROVE  Slot!Ends \/ UNCHANGED <<Holder, printer.by>>
<1>1. (UNCHANGED bg \/ AbortDispatch) /\ (StopPrinter(r) \/ UNCHANGED printer)
  BY DEF CallStep, AddCall, RemoveCall, SubmitCall, FileCall, ProcessCall, ReorderCall,
         ClearCall, CancelDispatch, StopPrinter
<1>2. Holder' = Holder
  BY <1>1, AbortKeepsStages, HolderKept DEF ExclusiveInv
<1>3. StopPrinter(r) => printer'.by = NoReq
  BY DEF StopPrinter, TypeInv, RestInv
<1> QED
  BY <1>1, <1>2, <1>3 DEF Slot!Ends

LEMMA RequestSlot ==
  ASSUME TypeInv, ExclusiveInv, NEW r \in Requests, RequestStep(r), ~ ClaimSave(r)
  PROVE  UNCHANGED <<Holder, printer.by>>
<1>1. (UNCHANGED bg \/ AbortDispatch) /\ UNCHANGED printer
  BY DEF RequestStep, AddFind, AddPlace, AddSave, Refused, RemoveFind, RemoveSave, RemoveCompact,
         ClearScan, ClearSave, ClearReturn, ReorderFind, ReorderSave, ReorderReturn, StopFind,
         StopSave, StopClone, ProcessPick, ClaimFind, ClaimIdle, ClaimZombie
<1> QED
  BY <1>1, AbortKeepsStages, HolderKept DEF ExclusiveInv

(* A claim takes the printer, which no dispatch has.                       *)
LEMMA ClaimTakes ==
  ASSUME TypeInv, ExclusiveInv, NEW r \in Requests, ClaimSave(r)
  PROVE  Slot!Take(r)
<1>1. bg' = [bg EXCEPT ![r] = [Settled EXCEPT !.at = "spawned", !.id = req[r].id]]
  BY DEF ClaimSave
<1>2. Claiming(r) /\ req[r].at = "save"
  BY CallUp DEF ClaimSave, Holding, Claiming, ExclusiveInv, CallsInv, CallShape
<1>3. \A s \in Requests : bg[s].at = "none"
  BY <1>2, BgHasJob DEF ExclusiveInv, CallsInv, CallRow, DispatchInv, TypeInv, Busy
<1>4. bg'[r].at # "none" /\ \A s \in Requests : s # r => bg'[s].at = "none"
  BY <1>1, <1>3 DEF Settled, TypeInv, BgInv
<1>5. Holder = NoReq
  BY <1>3, NobodyHolds
<1>6. Holder' = r
  BY <1>4, HolderNext
<1>7. UNCHANGED printer
  BY DEF ClaimSave
<1> QED
  BY <1>5, <1>6, <1>7 DEF Slot!Take

(* A dispatch starts a print while it has the printer, or gives it back.   *)
LEMMA BackgroundSlot ==
  ASSUME TypeInv, ExclusiveInv, NEW r \in Requests, BackgroundStep(r)
  PROVE  Slot!Start(r) \/ Slot!GiveBack \/ UNCHANGED <<Holder, printer.by>>
<1>1. bg[r].at # "none" /\ \A s \in Requests : s # r => bg'[s] = bg[s]
  BY DEF BackgroundStep, BgBegin, BgReady, BgWaitTimeout, Land, Answered, SendFails, SendRetried,
         OkFind, OkCompact, OkSave, FailFind, FailSave, Settle, InStage, Advance, TypeInv, BgInv
<1>2. Holder = r /\ \A s \in Requests : bg'[s].at # "none" => s = r
  BY <1>1, HolderIs DEF ExclusiveInv, DispatchInv
<1>3. Holder' = r \/ Holder' = NoReq
  BY <1>2, HolderNext, NobodyHolds
<1>4. CASE Land(r)
  <2>1. bg'[r].at = "landed"
    BY <1>4 DEF Land, Advance, TypeInv, BgInv, GoodBackground, Background
  <2>2. Holder' = r
    BY <1>2, <2>1, HolderNext
  <2>3. printer'.by = r \/ UNCHANGED printer
    BY <1>4 DEF Land
  <2> QED
    BY <1>2, <2>2, <2>3 DEF Slot!Start
<1>5. CASE ~ Land(r)
  <2>1. UNCHANGED printer
    BY <1>5 DEF BackgroundStep, BgBegin, BgReady, BgWaitTimeout, Answered, SendFails, SendRetried,
                OkFind, OkCompact, OkSave, FailFind, FailSave
  <2> QED
    BY <1>2, <1>3, <2>1 DEF Slot!GiveBack
<1> QED
  BY <1>4, <1>5

(* What the printer does by itself ends the print of a dispatch.           *)
LEMMA PrinterSlotStep ==
  ASSUME TypeInv, ExclusiveInv, PrinterStep
  PROVE  Slot!Ends
<1>1. UNCHANGED bg
  BY DEF PrinterStep, PrintEnds, PrinterRests, PanelStop, PanelStart
<1>2. Holder' = Holder
  BY <1>1, HolderKept DEF ExclusiveInv
<1>3. printer \in [st : PrinterStates, file : Files \cup {NoFile}, by : Requests \cup {NoReq}]
  BY DEF TypeInv, RestInv
<1>4. CASE PrintEnds
  BY <1>2, <1>3, <1>4 DEF PrintEnds, Slot!Ends
<1>5. CASE PrinterRests
  BY <1>2, <1>3, <1>5 DEF PrinterRests, Slot!Ends
<1>6. CASE PanelStop
  BY <1>2, <1>3, <1>6 DEF PanelStop, Slot!Ends
<1>7. ASSUME NEW f \in UsbFiles, PanelStart(f) PROVE Slot!Ends
  BY <1>2, <1>7 DEF PanelStart, Slot!Ends
<1> QED
  BY <1>4, <1>5, <1>6, <1>7 DEF PrinterStep

LEMMA SlotStep ==
  ASSUME TypeInv, ExclusiveInv, [Next]_vars
  PROVE  [Slot!Next]_<<Holder, printer.by>>
<1>1. ASSUME NEW r \in Requests, CallStep(r) \/ RequestStep(r) \/ BackgroundStep(r)
      PROVE  [Slot!Next]_<<Holder, printer.by>>
  BY <1>1, CallSlot, RequestSlot, ClaimTakes, BackgroundSlot DEF Slot!Next
<1>2. CASE PrinterStep
  BY <1>2, PrinterSlotStep DEF Slot!Next
<1>3. CASE Crash
  <2>1. \A s \in Requests : bg'[s].at = "none"
    BY <1>3 DEF Crash, Settled
  <2>2. UNCHANGED printer
    BY <1>3 DEF Crash
  <2> QED
    BY <2>1, <2>2, NobodyHolds DEF Slot!Next, Slot!GiveBack
<1>4. CASE UNCHANGED vars \/ ObserverStep \/ Boot
  <2>1. UNCHANGED <<bg, printer>>
    BY <1>4 DEF vars, ObserverStep, PollAnswer, PollHandled, LiveExpires, Boot
  <2> QED
    BY <2>1, HolderKept DEF ExclusiveInv
<1> QED
  BY <1>1, <1>2, <1>3, <1>4 DEF Next

LEMMA SlotInit == Init => Slot!Init
  BY NobodyHolds DEF Init, Slot!Init, Settled

(* The queue keeps the promise of PrinterSlot to its printer: claims come  *)
(* one after the other, and only the dispatch that has the printer starts  *)
(* a print on it, whatever is retried, aborted, lost or cut off.           *)
THEOREM SlotImplemented == Undisturbed /\ Spec => ImplementsSlot
<1>1. Undisturbed /\ Spec => [](TypeInv /\ ExclusiveInv)
  BY ExclusiveInvariant
<1> QED
  BY <1>1, SlotInit, SlotStep, PTL DEF Spec, ImplementsSlot, Slot!Spec

----------------------------------------------------------------------------
(* The order of the queue                                                  *)

(* The calls that claim, append and cancel; additions at the front and     *)
(* crashes meet the unlocked save of an outcome, and TLC shows how they    *)
(* break the order.                                                        *)
Serial ==
    /\ Ops \subseteq {"process", "cancel", "file"}
    /\ Observing = FALSE
    /\ MaxCrashes = 0

(* The compaction has closed the gap of a row that is still to be saved.   *)
Leaving(j) == \E s \in Requests : bg[s].at = "written" /\ bg[s].id = j

HasPlace(j) == Pos(j) # NoPos /\ ~ Leaving(j)

SlotsInv ==
    /\ \A j \in Jobs : Pos(j) \in Nat \cup {NoPos}
    /\ \A j \in Jobs : Status(j) \in {"QUEUED", "STARTING"} => Pos(j) # NoPos
    /\ \A j, k \in Jobs : HasPlace(j) /\ HasPlace(k) /\ Pos(j) = Pos(k) => j = k

(* A dispatch has been answered: the printer has a PRINTING row, or will.  *)
Taken == (\E j \in Jobs : Status(j) = "PRINTING") \/ (\E s \in Requests : bg[s].at = "written")

(* The position an addition has chosen stays above all others: only the    *)
(* owner of the lock hands out positions.                                  *)
AddSlot(s) ==
    Adding(s) /\ req[s].at = "save" =>
        Lock!Owns(s) /\ req[s].row.pos \in Nat /\ \A j \in Jobs : Pos(j) < req[s].row.pos

(* The copy of a claim has the position of its row, unless the printer was *)
(* busy when it was made: the claim will then be refused.                  *)
ClaimSlot(s) ==
    Claiming(s) /\ req[s].at \in {"idle", "save"} =>
        req[s].row.pos = Pos(req[s].id) \/ Taken

(* The copy of a dispatch has the position of its row.                     *)
DispatchSlot(s) ==
    /\ bg[s].at \in {"drop", "undo"} => bg[s].row.pos = Pos(bg[s].id)
    /\ bg[s].at \in {"drop", "written"} => bg[s].row.st = "STARTING"

CopiesInv == \A s \in Requests : AddSlot(s) /\ ClaimSlot(s) /\ DispatchSlot(s)

OrderInv ==
    /\ Serial
    /\ up
    /\ \A s \in Requests : req[s].op \notin {"stop", "front", "reorder"}
    /\ SlotsInv
    /\ CopiesInv

----------------------------------------------------------------------------
(* Steps that leave the table alone                                        *)

(* The dispatch does not change, or closes no gap.                         *)
BgQuiet(s) ==
    \/ bg'[s].at = bg[s].at /\ bg'[s].id = bg[s].id /\ bg'[s].row = bg[s].row
    \/ bg[s].at # "written" /\ bg'[s].at # "written" /\ DispatchSlot(s)'

LEMMA SerialUndisturbed == Serial => Undisturbed
  BY DEF Serial, Undisturbed

LEMMA QuietOrder ==
  ASSUME TypeInv, OrderInv, NEW r \in Requests, UNCHANGED <<job, up>>,
         \A s \in Requests : BgQuiet(s),
         \A s \in Requests \ {r} : req'[s] = req[s],
         UNCHANGED line \/ Lock!Arrive(r) \/ Lock!Leave(r),
         req'[r].op \notin {"stop", "front", "reorder"}, AddSlot(r)', ClaimSlot(r)'
  PROVE  OrderInv'
<1>1. \A s \in Requests : bg'[s].at = "written" <=> bg[s].at = "written"
  BY DEF BgQuiet
<1>2. \A s \in Requests : bg[s].at = "written" => bg'[s].id = bg[s].id
  BY DEF BgQuiet
<1>3. SlotsInv'
  BY <1>1, <1>2 DEF OrderInv, SlotsInv, HasPlace, Pos, Leaving, Status
<1>4. ASSUME NEW s \in Requests PROVE (AddSlot(s) /\ ClaimSlot(s) /\ DispatchSlot(s))'
  <2>1. AddSlot(s) /\ ClaimSlot(s) /\ DispatchSlot(s)
    BY DEF OrderInv, CopiesInv
  <2>2. DispatchSlot(s)'
    BY <2>1 DEF DispatchSlot, BgQuiet, Pos
  <2>3. CASE s = r
    BY <2>2, <2>3
  <2>4. CASE s # r
    <3>1. AddSlot(s)'
      BY <2>1, <2>4, OwnsKept DEF AddSlot, Adding, Pos, TypeInv
    <3>2. ClaimSlot(s)'
      BY <1>1, <2>1, <2>4 DEF ClaimSlot, Claiming, Pos, Taken, Status
    <3> QED
      BY <2>2, <3>1, <3>2
  <2> QED
    BY <2>3, <2>4
<1> QED
  BY <1>3, <1>4 DEF OrderInv, CopiesInv, Serial

(* A call that returns, and one that takes a step without a copy to save.  *)
LEMMA CallOrder ==
  ASSUME TypeInv, OrderInv, NEW r \in Requests, UNCHANGED <<job, up>>,
         UNCHANGED bg \/ AbortDispatch,
         \A s \in Requests \ {r} : req'[s] = req[s],
         UNCHANGED line \/ Lock!Arrive(r) \/ Lock!Leave(r),
         req'[r].op \notin {"stop", "front", "reorder"}, req'[r].at \notin {"idle", "save"}
  PROVE  OrderInv'
<1>1. \A s \in Requests : BgQuiet(s)
  BY DEF BgQuiet, AbortDispatch, TypeInv, BgInv, RestInv, GoodBackground, Background
<1> QED
  BY <1>1, QuietOrder DEF AddSlot, ClaimSlot

LEMMA ReturnOrder ==
  ASSUME TypeInv, OrderInv, NEW r \in Requests, UNCHANGED <<job, up>>,
         UNCHANGED bg \/ AbortDispatch, Return(r), UNCHANGED line \/ Lock!Leave(r)
  PROVE  OrderInv'
<1>1. /\ req'[r].op = "none" /\ req'[r].at = "done"
      /\ \A s \in Requests \ {r} : req'[s] = req[s]
  BY DEF Return, Done, Unused, TypeInv, ReqInv
<1> QED
  BY <1>1, CallOrder

LEMMA ProcessCallOrder ==
  ASSUME TypeInv, OrderInv, NEW r \in Requests, ProcessCall(r)
  PROVE  OrderInv'
<1>1. /\ req'[r].op = "process" /\ req'[r].at = "waiting"
      /\ \A s \in Requests \ {r} : req'[s] = req[s]
  BY DEF ProcessCall, Begin, Unused, TypeInv, ReqInv
<1> QED
  BY <1>1, CallOrder DEF ProcessCall

LEMMA AddFindOrder ==
  ASSUME TypeInv, OrderInv, NEW r \in Requests, AddFind(r)
  PROVE  OrderInv'
<1>1. /\ req'[r].op = req[r].op /\ req'[r].at = "place"
      /\ \A s \in Requests \ {r} : req'[s] = req[s]
  BY DEF AddFind, Read, TypeInv, ReqInv, GoodCall, Call
<1> QED
  BY <1>1, CallOrder DEF AddFind, OrderInv

LEMMA ProcessPickOrder ==
  ASSUME TypeInv, OrderInv, NEW r \in Requests, ProcessPick(r)
  PROVE  OrderInv'
<1>1. CASE ReturnUnlocked(r)
  BY <1>1, ReturnOrder DEF ProcessPick, ReturnUnlocked
<1>2. ASSUME NEW j \in NextInQueue(job), Read(r, "claim", j), UNCHANGED line PROVE OrderInv'
  <2>1. req[r].op = "process"
    BY DEF ProcessPick
  <2>2. /\ req'[r].op = req[r].op /\ req'[r].at = "claim"
        /\ \A s \in Requests \ {r} : req'[s] = req[s]
    BY <1>2 DEF Read, TypeInv, ReqInv, GoodCall, Call
  <2> QED
    BY <1>2, <2>1, <2>2, CallOrder DEF ProcessPick
<1> QED
  BY <1>1, <1>2 DEF ProcessPick

(* The claim reads its row: the copy has the position.                     *)
LEMMA ClaimFindOrder ==
  ASSUME TypeInv, OrderInv, NEW r \in Requests, ClaimFind(r)
  PROVE  OrderInv'
<1>1. /\ req'[r].op = req[r].op /\ req'[r].at = "idle" /\ req'[r].id = req[r].id
      /\ req'[r].row = job[req[r].id]
      /\ \A s \in Requests \ {r} : req'[s] = req[s]
  BY DEF ClaimFind, Read, TypeInv, ReqInv, GoodCall, Call
<1>2. AddSlot(r)' /\ ClaimSlot(r)'
  BY <1>1 DEF ClaimFind, AddSlot, ClaimSlot, Pos
<1> QED
  BY <1>1, <1>2, QuietOrder DEF ClaimFind, OrderInv, BgQuiet

LEMMA ClaimIdleOrder ==
  ASSUME TypeInv, ExclusiveInv, OrderInv, NEW r \in Requests, ClaimIdle(r)
  PROVE  OrderInv'
<1>1. CASE ReturnUnlocked(r)
  BY <1>1, ReturnOrder DEF ClaimIdle, ReturnUnlocked
<1>2. \A j \in BusyRow : ~ Zombie(j)
  BY DEF Zombie, LiveIdleStates, ExclusiveInv
<1>3. CASE Goto(r, "save") /\ UNCHANGED line
  <2>1. /\ req'[r].op = req[r].op /\ req'[r].at = "save" /\ req'[r].id = req[r].id
        /\ req'[r].row = req[r].row
        /\ \A s \in Requests \ {r} : req'[s] = req[s]
    BY <1>3 DEF Goto, TypeInv, ReqInv, GoodCall, Call
  <2>2. req[r].op = "process" /\ req[r].at = "idle"
    BY DEF ClaimIdle, Holding, ExclusiveInv, CallsInv, CallShape
  <2>3. AddSlot(r)' /\ ClaimSlot(r)'
    BY <2>1, <2>2 DEF ClaimIdle, OrderInv, CopiesInv, AddSlot, ClaimSlot, Adding, Claiming, Pos,
                      Taken, Status
  <2> QED
    BY <1>3, <2>1, <2>2, <2>3, QuietOrder DEF ClaimIdle, BgQuiet
<1> QED
  BY <1>1, <1>2, <1>3 DEF ClaimIdle

(* The new position is above every other.                                  *)
LEMMA AddPlaceOrder ==
  ASSUME TypeInv, ExclusiveInv, OrderInv, NEW r \in Requests, AddPlace(r)
  PROVE  OrderInv'
<1>1. UNCHANGED job /\ req[r].op # "front"
  BY DEF AddPlace, OrderInv
<1>2. PICK p \in NextPositions(job) :
         req' = [req EXCEPT ![r].at = "save", ![r].row = [@ EXCEPT !.st = "QUEUED", !.pos = p]]
  BY <1>1 DEF AddPlace
<1>3. p \in Nat /\ \A j \in Jobs : Pos(j) < p
  BY DEF NextPositions, OrderInv, SlotsInv, Pos, NoPos, TypeInv, JobInv, Tables, Row
<1>4. /\ req'[r].op = req[r].op /\ req'[r].at = "save" /\ req'[r].row.pos = p
      /\ \A s \in Requests \ {r} : req'[s] = req[s]
  BY <1>2, CallHasJob DEF TypeInv, ReqInv, GoodCall, Call, Row
<1>5. req[r].op \in {"add", "front"}
  BY DEF AddPlace, Holding, ExclusiveInv, CallsInv, CallShape
<1>6. AddSlot(r)' /\ ClaimSlot(r)'
  BY <1>1, <1>3, <1>4, <1>5 DEF AddPlace, Holding, AddSlot, ClaimSlot, Claiming, Pos, Lock!Owns
<1> QED
  BY <1>1, <1>4, <1>6, QuietOrder DEF AddPlace, OrderInv, BgQuiet

----------------------------------------------------------------------------
(* Steps that write a row                                                  *)

(* Row k gets a position that no other row in line has.                    *)
LEMMA RowOrder ==
  ASSUME TypeInv, OrderInv, NEW k \in Jobs, NEW row, Save(k, row),
         row.pos \in Nat \cup {NoPos},
         row.st \in {"QUEUED", "STARTING"} => row.pos # NoPos,
         \A j \in Jobs \ {k} : HasPlace(j) /\ row.pos # NoPos => Pos(j) # row.pos,
         \A j \in Jobs \ {k} : Leaving(j)' <=> Leaving(j)
  PROVE  SlotsInv'
<1>1. Pos(k)' = row.pos /\ Status(k)' = row.st
  BY DEF Save, Pos, Status, TypeInv, JobInv, Tables
<1>2. \A j \in Jobs \ {k} : Pos(j)' = Pos(j) /\ Status(j)' = Status(j)
  BY DEF Save, Pos, Status, TypeInv, JobInv, Tables
<1>3. \A j \in Jobs \ {k} : HasPlace(j)' <=> HasPlace(j)
  BY <1>2 DEF HasPlace
<1>4. HasPlace(k)' => row.pos # NoPos
  BY <1>1 DEF HasPlace
<1> QED
  BY <1>1, <1>2, <1>3, <1>4 DEF OrderInv, SlotsInv

(* Only one dispatch is under way, and its row is STARTING.                *)
LEMMA OnlyDispatch ==
  ASSUME TypeInv, ExclusiveInv, NEW r \in Requests, bg[r].at # "none"
  PROVE  /\ bg[r].id \in Jobs /\ Status(bg[r].id) = "STARTING"
         /\ \A s \in Requests \ {r} : bg[s].at = "none"
  BY BgHasJob DEF ExclusiveInv, DispatchInv, TypeInv

(* Nobody but the owner of the lock has chosen a position or a job.        *)
LEMMA OnlyOwner ==
  ASSUME ExclusiveInv, OrderInv, NEW r \in Requests, Lock!Owns(r), NEW s \in Requests \ {r}
  PROVE  ~ Claiming(s) /\ ~ (Adding(s) /\ req[s].at = "save")
  BY OneOwner DEF ExclusiveInv, CallsInv, CallRow, OrderInv, CopiesInv, AddSlot

LEMMA FileCallOrder ==
  ASSUME TypeInv, ExclusiveInv, OrderInv, NEW r \in Requests, NEW f \in Files, FileCall(r, f)
  PROVE  OrderInv'
<1>1. PICK k \in FreeIds(job) : /\ Save(k, PendingRow(f, f \in UsbFiles))
                                /\ Begin(r, "add", "waiting", k)
  BY DEF FileCall
<1>2. k \in Jobs /\ Status(k) = "absent"
  BY DEF FreeIds, Status
<1> DEFINE row == PendingRow(f, f \in UsbFiles)
<1>3. row.st = "PENDING" /\ row.pos = NoPos
  BY DEF PendingRow, Absent
<1>4. /\ req'[r].op = "add" /\ req'[r].at = "waiting"
      /\ \A s \in Requests \ {r} : req'[s] = req[s]
  BY <1>1 DEF Begin, Unused, TypeInv, ReqInv
<1>5. UNCHANGED <<bg, up>> /\ Lock!Arrive(r)
  BY DEF FileCall
<1>6. /\ Pos(k)' = NoPos
      /\ \A j \in Jobs \ {k} : Pos(j)' = Pos(j) /\ Status(j)' = Status(j)
  BY <1>1, <1>2, <1>3 DEF Save, Pos, Status, TypeInv, JobInv, Tables
<1>7. SlotsInv'
  BY <1>1, <1>2, <1>3, <1>5, RowOrder DEF Leaving
<1>8. ASSUME NEW s \in Requests PROVE (AddSlot(s) /\ ClaimSlot(s) /\ DispatchSlot(s))'
  <2>1. AddSlot(s) /\ ClaimSlot(s) /\ DispatchSlot(s)
    BY DEF OrderInv, CopiesInv
  <2>2. AddSlot(s)'
    BY <1>4, <1>5, <1>6, <2>1, OwnsKept DEF AddSlot, Adding, NoPos, TypeInv
  <2>3. ClaimSlot(s)'
    <3>1. Claiming(s) => req[s].id \in Jobs \ {k}
      BY <1>2, CallHasJob DEF ExclusiveInv, CallsInv, CallRow, Carries, Claiming, TypeInv
    <3>2. Taken => Taken'
      BY <1>2, <1>5, <1>6 DEF Taken
    <3> QED
      BY <1>4, <1>6, <2>1, <3>1, <3>2 DEF ClaimSlot, Claiming
  <2>4. DispatchSlot(s)'
    BY <1>2, <1>5, <1>6, <2>1, OnlyDispatch DEF DispatchSlot
  <2> QED
    BY <2>2, <2>3, <2>4
<1> QED
  BY <1>4, <1>5, <1>7, <1>8 DEF OrderInv, CopiesInv, Serial

LEMMA AddSaveOrder ==
  ASSUME TypeInv, ExclusiveInv, OrderInv, NEW r \in Requests, AddSave(r)
  PROVE  OrderInv'
<1>0. PICK k \in Jobs : k = req[r].id
  BY CallHasJob DEF AddSave, TypeInv, Carries
<1>1. /\ Adding(r) /\ Lock!Owns(r) /\ Status(k) = "PENDING" /\ req[r].row.st = "QUEUED"
      /\ req[r].row.pos \in Nat /\ \A j \in Jobs : Pos(j) < req[r].row.pos
  BY <1>0 DEF AddSave, Holding, ExclusiveInv, CallsInv, CallRow, Adding, OrderInv, CopiesInv,
              AddSlot
<1>2. /\ req'[r].op = "none" /\ req'[r].at = "done"
      /\ \A s \in Requests \ {r} : req'[s] = req[s]
  BY DEF AddSave, ReturnUnlocked, Return, Done, Unused, TypeInv, ReqInv
<1>3. UNCHANGED <<bg, up>> /\ Save(k, req[r].row)
  BY <1>0 DEF AddSave
<1>4. \A j \in Jobs \ {k} : Pos(j)' = Pos(j)
  BY <1>3 DEF Save, Pos, TypeInv, JobInv, Tables
<1>5. SlotsInv'
  <2>1. \A j \in Jobs : Pos(j) # req[r].row.pos
    BY <1>1 DEF OrderInv, SlotsInv, NoPos
  <2> QED
    BY <1>1, <1>3, <2>1, RowOrder DEF Leaving, NoPos
<1>6. ASSUME NEW s \in Requests PROVE (AddSlot(s) /\ ClaimSlot(s) /\ DispatchSlot(s))'
  <2>1. AddSlot(s)' /\ ClaimSlot(s)'
    BY <1>1, <1>2, OnlyOwner DEF AddSlot, ClaimSlot, Adding, Claiming
  <2>2. DispatchSlot(s)'
    BY <1>1, <1>3, <1>4, OnlyDispatch DEF DispatchSlot, OrderInv, CopiesInv
  <2> QED
    BY <2>1, <2>2
<1> QED
  BY <1>2, <1>3, <1>5, <1>6 DEF OrderInv, CopiesInv, Serial

LEMMA RefusedOrder ==
  ASSUME TypeInv, OrderInv, NEW r \in Requests, Refused(r)
  PROVE  OrderInv'
  BY ReturnOrder DEF Refused, ReturnUnlocked

(* No row is busy, so no gap was closed since the claim read its row: the  *)
(* copy still has the position.                                            *)
LEMMA ClaimSaveOrder ==
  ASSUME TypeInv, ExclusiveInv, OrderInv, NEW r \in Requests, ClaimSave(r)
  PROVE  OrderInv'
<1>0. PICK k \in Jobs : k = req[r].id
  BY CallHasJob DEF ClaimSave, Holding, TypeInv, Carries
<1>1. /\ Claiming(r) /\ req[r].at = "save" /\ Lock!Owns(r) /\ Status(k) = "QUEUED"
      /\ \A j \in Jobs : Status(j) \notin Busy
  BY <1>0 DEF ClaimSave, Holding, Claiming, ExclusiveInv, CallsInv, CallShape, CallRow
<1>2. \A s \in Requests : bg[s].at = "none"
  BY <1>1, OnlyDispatch DEF Busy
<1>3. ~ Taken
  BY <1>1, <1>2 DEF Taken, Busy
<1>4. req[r].row.pos = Pos(k) /\ Pos(k) # NoPos
  BY <1>0, <1>1, <1>3 DEF OrderInv, CopiesInv, ClaimSlot, SlotsInv
<1> DEFINE row == [req[r].row EXCEPT !.st = "STARTING"]
<1>5. Save(k, row) /\ UNCHANGED up
  BY <1>0 DEF ClaimSave
<1>6. row.pos = Pos(k) /\ row.st = "STARTING"
  BY <1>4, CallHasJob DEF Row, TypeInv
<1>7. \A s \in Requests : bg'[s].at \in {"none", "spawned"}
  BY <1>2 DEF ClaimSave, Settled, TypeInv, BgInv
<1>8. /\ req'[r].op = "none" /\ req'[r].at = "done"
      /\ \A s \in Requests \ {r} : req'[s] = req[s]
  BY DEF ClaimSave, ReturnUnlocked, Return, Done, Unused, TypeInv, ReqInv
<1>9. SlotsInv'
  <2>1. HasPlace(k)
    BY <1>2, <1>4 DEF HasPlace, Leaving
  <2>2. \A j \in Jobs \ {k} : HasPlace(j) => Pos(j) # Pos(k)
    BY <2>1 DEF OrderInv, SlotsInv
  <2>3. Pos(k) \in Nat \cup {NoPos} /\ \A j \in Jobs : ~ Leaving(j)' /\ ~ Leaving(j)
    BY <1>2, <1>7 DEF OrderInv, SlotsInv, Leaving
  <2> HIDE DEF row
  <2> QED
    BY <1>4, <1>5, <1>6, <2>2, <2>3, RowOrder
<1>10. CopiesInv'
  BY <1>1, <1>7, <1>8, OnlyOwner DEF CopiesInv, AddSlot, ClaimSlot, DispatchSlot, Adding, Claiming
<1> QED
  BY <1>5, <1>8, <1>9, <1>10 DEF OrderInv, Serial
----------------------------------------------------------------------------
(* The dispatch                                                            *)

(* A dispatch that only goes on.                                           *)
LEMMA BackgroundQuiet ==
  ASSUME TypeInv, OrderInv, NEW r \in Requests, UNCHANGED <<job, up, api>>,
         \A s \in Requests \ {r} : bg'[s] = bg[s],
         bg[r].at # "written", bg'[r].at # "written", DispatchSlot(r)'
  PROVE  OrderInv'
<1>1. \A s \in Requests : BgQuiet(s)
  BY DEF BgQuiet
<1>2. AddSlot(r) /\ ClaimSlot(r)
  BY DEF OrderInv, CopiesInv
<1>3. Taken => Taken'
  BY DEF Taken, Status
<1>4. AddSlot(r)' /\ ClaimSlot(r)'
  BY <1>2, <1>3 DEF AddSlot, ClaimSlot, Adding, Claiming, Pos, Lock!Owns
<1> QED
  BY <1>1, <1>4, QuietOrder DEF OrderInv

(* The gap of the row is closed, and nobody else is about to save.         *)
LEMMA OkCompactOrder ==
  ASSUME TypeInv, ExclusiveInv, OrderInv, NEW r \in Requests, OkCompact(r)
  PROVE  OrderInv'
<1>0. bg[r].at = "drop"
  BY DEF OkCompact, InStage
<1>1. PICK k \in Jobs : k = bg[r].id
  BY <1>0, OnlyDispatch
<1>2. Status(k) = "STARTING" /\ \A s \in Requests \ {r} : bg[s].at = "none"
  BY <1>0, <1>1, OnlyDispatch
<1> DEFINE p == Pos(k)
<1>3. p \in Nat /\ bg[r].row.pos = p /\ bg[r].row.st = "STARTING"
  BY <1>0, <1>1, <1>2 DEF OrderInv, SlotsInv, CopiesInv, DispatchSlot
<1>4. job' = Compacted(job, p) /\ UNCHANGED <<line, req, up>>
  BY <1>3 DEF OkCompact
<1>5. \A j \in Jobs : /\ Status(j)' = Status(j)
                       /\ Pos(j)' = IF Pos(j) > p THEN Pos(j) - 1 ELSE Pos(j)
  BY <1>3, <1>4 DEF Compacted, Pos, Status, NoPos, TypeInv, JobInv, Tables, Row
<1>6. /\ bg'[r].at = "written" /\ bg'[r].id = k /\ bg'[r].row.st = "STARTING"
      /\ \A s \in Requests \ {r} : bg'[s] = bg[s]
  BY <1>1, <1>3 DEF OkCompact, Advance, TypeInv, BgInv, GoodBackground, Background
<1>7. \A j \in Jobs : ~ Leaving(j) /\ (Leaving(j)' <=> j = k)
  BY <1>0, <1>2, <1>6 DEF Leaving
<1>8. \A j \in Jobs : Pos(j) \in Nat \cup {NoPos}
  BY DEF OrderInv, SlotsInv
<1>9. SlotsInv'
  <2>1. \A j \in Jobs : Pos(j)' \in Nat \cup {NoPos} /\ (Pos(j)' = NoPos <=> Pos(j) = NoPos)
    BY <1>3, <1>5, <1>8 DEF NoPos
  <2>2. \A j \in Jobs : Status(j)' \in {"QUEUED", "STARTING"} => Pos(j)' # NoPos
    BY <1>5, <2>1 DEF OrderInv, SlotsInv
  <2>3. ASSUME NEW j \in Jobs, NEW l \in Jobs, HasPlace(j)', HasPlace(l)', Pos(j)' = Pos(l)'
        PROVE  j = l
    <3>1. j # k /\ l # k /\ HasPlace(j) /\ HasPlace(l) /\ HasPlace(k)
      BY <1>3, <1>7, <2>1, <2>3 DEF HasPlace, NoPos
    <3>2. Pos(j) # p /\ Pos(l) # p
      BY <3>1 DEF OrderInv, SlotsInv
    <3>3. Pos(j) \in Nat /\ Pos(l) \in Nat
      BY <1>8, <3>1 DEF HasPlace
    <3>4. Pos(j) = Pos(l)
      BY <1>3, <1>5, <2>3, <3>2, <3>3
    <3> QED
      BY <3>1, <3>4 DEF OrderInv, SlotsInv
  <2> QED
    BY <2>1, <2>2, <2>3 DEF SlotsInv
<1>10. ASSUME NEW s \in Requests PROVE (AddSlot(s) /\ ClaimSlot(s) /\ DispatchSlot(s))'
  <2>1. AddSlot(s)
    BY DEF OrderInv, CopiesInv
  <2>2. AddSlot(s)'
    BY <1>3, <1>4, <1>5, <1>8, <2>1 DEF AddSlot, Adding, Lock!Owns, NoPos
  <2>3. ClaimSlot(s)'
    BY <1>6 DEF ClaimSlot, Taken
  <2>4. DispatchSlot(s)'
    BY <1>2, <1>6 DEF DispatchSlot
  <2> QED
    BY <2>2, <2>3, <2>4
<1> QED
  BY <1>4, <1>9, <1>10 DEF OrderInv, CopiesInv, Serial

(* The row is PRINTING and out of the line.                                *)
LEMMA OkSaveOrder ==
  ASSUME TypeInv, ExclusiveInv, OrderInv, NEW r \in Requests, OkSave(r)
  PROVE  OrderInv'
<1>0. bg[r].at = "written"
  BY DEF OkSave, InStage
<1>1. PICK k \in Jobs : k = bg[r].id
  BY <1>0, OnlyDispatch
<1>2. Status(k) = "STARTING" /\ \A s \in Requests \ {r} : bg[s].at = "none"
  BY <1>0, <1>1, OnlyDispatch
<1>3. PICK row : Save(k, row) /\ row.st = "PRINTING" /\ row.pos = NoPos
  <2>1. bg[r].row \in Row /\ bg[r].row.st = "STARTING"
    BY <1>0, BgHasJob DEF OrderInv, CopiesInv, DispatchSlot, TypeInv
  <2>2. [bg[r].row EXCEPT !.pos = NoPos].st = "STARTING"
    BY <2>1 DEF Row
  <2>3. PICK now \in Stamps(job) :
           Save(k, [[bg[r].row EXCEPT !.pos = NoPos] EXCEPT !.st = "PRINTING", !.started = now])
    BY <1>1, <2>2 DEF OkSave
  <2> DEFINE row == [[bg[r].row EXCEPT !.pos = NoPos] EXCEPT !.st = "PRINTING", !.started = now]
  <2>4. row.st = "PRINTING" /\ row.pos = NoPos
    BY <2>1 DEF Row
  <2> HIDE DEF row
  <2>5. Save(k, row)
    BY <2>3 DEF row
  <2> QED
    BY <2>4, <2>5
<1>4. UNCHANGED <<line, req, up>> /\ \A s \in Requests : bg'[s].at = "none"
  BY <1>2 DEF OkSave, Settle, Settled, TypeInv, BgInv
<1>5. /\ Pos(k)' = NoPos /\ Status(k)' = "PRINTING"
      /\ \A j \in Jobs \ {k} : Pos(j)' = Pos(j)
  BY <1>3 DEF Save, Pos, Status, TypeInv, JobInv, Tables
<1>6. SlotsInv'
  <2>1. \A j \in Jobs \ {k} : ~ Leaving(j) /\ ~ Leaving(j)'
    BY <1>1, <1>2, <1>4 DEF Leaving
  <2> QED
    BY <1>3, <2>1, RowOrder
<1>7. CopiesInv'
  <2>1. Taken'
    BY <1>5 DEF Taken
  <2>2. \A s \in Requests : AddSlot(s)'
    BY <1>4, <1>5 DEF OrderInv, CopiesInv, AddSlot, Adding, Lock!Owns, NoPos
  <2> QED
    BY <1>4, <2>1, <2>2 DEF CopiesInv, ClaimSlot, DispatchSlot
<1> QED
  BY <1>4, <1>6, <1>7 DEF OrderInv, Serial

(* The row is back in its slot.                                            *)
LEMMA FailSaveOrder ==
  ASSUME TypeInv, ExclusiveInv, OrderInv, NEW r \in Requests, FailSave(r)
  PROVE  OrderInv'
<1>0. bg[r].at = "undo"
  BY DEF FailSave, InStage
<1>1. PICK k \in Jobs : k = bg[r].id
  BY <1>0, OnlyDispatch
<1>2. Status(k) = "STARTING" /\ \A s \in Requests \ {r} : bg[s].at = "none"
  BY <1>0, <1>1, OnlyDispatch
<1>3. PICK row : Save(k, row) /\ row.st = "QUEUED" /\ row.pos = Pos(k)
  <2>1. bg[r].row \in Row /\ bg[r].row.pos = Pos(k)
    BY <1>0, <1>1, BgHasJob DEF OrderInv, CopiesInv, DispatchSlot, TypeInv
  <2> QED
    BY <1>1, <2>1 DEF FailSave, RolledBack, Row
<1>4. UNCHANGED <<line, req, up>> /\ \A s \in Requests : bg'[s].at = "none"
  BY <1>2 DEF FailSave, Settle, Settled, TypeInv, BgInv
<1>5. /\ \A j \in Jobs : Pos(j)' = Pos(j)
      /\ \A j \in Jobs \ {k} : Status(j)' = Status(j)
  BY <1>3 DEF Save, Pos, Status, TypeInv, JobInv, Tables
<1>6. SlotsInv'
  <2>1. \A j \in Jobs : ~ Leaving(j) /\ ~ Leaving(j)'
    BY <1>0, <1>2, <1>4 DEF Leaving
  <2>2. Pos(k) # NoPos /\ Pos(k) \in Nat \cup {NoPos} /\ HasPlace(k)
    BY <1>2, <2>1 DEF OrderInv, SlotsInv, HasPlace
  <2>3. \A j \in Jobs \ {k} : HasPlace(j) => Pos(j) # Pos(k)
    BY <2>2 DEF OrderInv, SlotsInv
  <2> QED
    BY <1>3, <2>1, <2>2, <2>3, RowOrder
<1>7. ASSUME NEW s \in Requests PROVE (AddSlot(s) /\ ClaimSlot(s) /\ DispatchSlot(s))'
  <2>1. AddSlot(s) /\ ClaimSlot(s)
    BY DEF OrderInv, CopiesInv
  <2>2. Taken => Taken'
    BY <1>0, <1>2, <1>5 DEF Taken
  <2>3. Claiming(s) => req[s].id \in Jobs
    BY CallHasJob DEF Carries, Claiming, TypeInv
  <2>4. AddSlot(s)' /\ ClaimSlot(s)'
    BY <1>4, <1>5, <2>1, <2>2, <2>3 DEF AddSlot, ClaimSlot, Adding, Claiming, Lock!Owns
  <2> QED
    BY <1>4, <2>4 DEF DispatchSlot
<1> QED
  BY <1>4, <1>6, <1>7 DEF OrderInv, CopiesInv, Serial

LEMMA BackgroundOrder ==
  ASSUME TypeInv, ExclusiveInv, OrderInv, NEW r \in Requests, BackgroundStep(r)
  PROVE  OrderInv'
<1>1. CASE OkFind(r) \/ FailFind(r)
  <2>1. bg[r].at \in {"sent", "failed"} /\ UNCHANGED <<job, up, api>>
    BY <1>1 DEF OkFind, FailFind, InStage
  <2>2. PICK k \in Jobs : k = bg[r].id /\ Status(k) = "STARTING"
    BY <2>1, OnlyDispatch
  <2>3. Pos(k) # NoPos
    BY <2>2 DEF OrderInv, SlotsInv
  <2>4. /\ bg'[r].at \in {"drop", "undo"} /\ bg'[r].id = k /\ bg'[r].row = job[k]
        /\ \A s \in Requests \ {r} : bg'[s] = bg[s]
    BY <1>1, <2>2, <2>3 DEF OkFind, FailFind, Pos, TypeInv, BgInv, GoodBackground, Background
  <2>5. DispatchSlot(r)'
    BY <2>1, <2>2, <2>4 DEF DispatchSlot, Pos, Status
  <2> QED
    BY <2>1, <2>4, <2>5, BackgroundQuiet
<1>2. CASE \/ BgBegin(r) \/ BgReady(r) \/ BgWaitTimeout(r)
           \/ Land(r) \/ Answered(r) \/ SendFails(r) \/ SendRetried(r)
  <2>1. /\ bg[r].at \in {"spawned", "ready", "sending", "landed"} /\ UNCHANGED <<job, up, api>>
        /\ \A s \in Requests \ {r} : bg'[s] = bg[s]
    BY <1>2 DEF BgBegin, BgReady, BgWaitTimeout, Land, Answered, SendFails, SendRetried, InStage,
                Advance, TypeInv, BgInv
  <2>2. bg'[r].at \notin {"drop", "written", "undo"}
    BY <1>2 DEF BgBegin, BgReady, BgWaitTimeout, Land, Answered, SendFails, SendRetried, Settled,
                Advance, TypeInv, BgInv, GoodBackground, Background
  <2> QED
    BY <2>1, <2>2, BackgroundQuiet DEF DispatchSlot
<1> QED
  BY <1>1, <1>2, OkCompactOrder, OkSaveOrder, FailSaveOrder DEF BackgroundStep

----------------------------------------------------------------------------

LEMMA CallStepOrder ==
  ASSUME TypeInv, ExclusiveInv, OrderInv, NEW r \in Requests, CallStep(r)
  PROVE  OrderInv'
<1>1. \A op \in Ops : op \in {"process", "cancel", "file"}
  BY DEF OrderInv, Serial
<1>2. ProcessCall(r) \/ CancelDispatch(r) \/ \E f \in Files : FileCall(r, f)
  BY <1>1 DEF CallStep, AddCall, RemoveCall, SubmitCall, ReorderCall, ClearCall, StopPrinter, Fresh
<1>3. CancelDispatch(r) => OrderInv'
  BY ReturnOrder DEF CancelDispatch
<1> QED
  BY <1>2, <1>3, ProcessCallOrder, FileCallOrder

LEMMA RequestStepOrder ==
  ASSUME TypeInv, ExclusiveInv, OrderInv, NEW r \in Requests, RequestStep(r)
  PROVE  OrderInv'
<1>1. CallShape(r) /\ req[r].op \notin {"stop", "reorder"}
  BY DEF ExclusiveInv, CallsInv, OrderInv
<1>2. \/ AddFind(r) \/ AddPlace(r) \/ AddSave(r) \/ Refused(r)
      \/ ProcessPick(r) \/ ClaimFind(r) \/ ClaimIdle(r) \/ ClaimSave(r)
  BY <1>1 DEF RequestStep, RemoveFind, RemoveSave, RemoveCompact, ClearScan, ClearSave,
              ClearReturn, ReorderFind, ReorderSave, ReorderReturn, ClaimZombie, StopFind,
              StopSave, StopClone, Holding, CallShape
<1> QED
  BY <1>2, AddFindOrder, AddPlaceOrder, AddSaveOrder, RefusedOrder, ProcessPickOrder,
     ClaimFindOrder, ClaimIdleOrder, ClaimSaveOrder

LEMMA OrderStep == TypeInv /\ ExclusiveInv /\ OrderInv /\ [Next]_vars => OrderInv'
<1> SUFFICES ASSUME TypeInv, ExclusiveInv, OrderInv, [Next]_vars PROVE OrderInv'
  OBVIOUS
<1>1. ASSUME UNCHANGED vars \/ PrinterStep PROVE OrderInv'
  <2>1. UNCHANGED <<job, line, req, bg, up>>
    BY <1>1 DEF vars, PrinterStep, PrintEnds, PrinterRests, PanelStop, PanelStart
  <2> QED
    BY <2>1 DEF OrderInv, Serial, SlotsInv, HasPlace, Pos, Leaving, Status, CopiesInv, AddSlot,
                ClaimSlot, DispatchSlot, Adding, Claiming, Taken, Lock!Owns
<1>2. ~ ObserverStep
  BY DEF ObserverStep, PollAnswer, PollHandled, LiveExpires, ExclusiveInv, Undisturbed
<1>3. ~ Crash /\ ~ Boot
  BY DEF Crash, Boot, OrderInv, Serial, TypeInv, RestInv
<1> QED
  BY <1>1, <1>2, <1>3, CallStepOrder, RequestStepOrder, BackgroundOrder DEF Next

LEMMA OrderInit == Serial /\ Init => OrderInv
<1> SUFFICES ASSUME Serial, Init PROVE OrderInv
  OBVIOUS
<1>1. \A s \in Requests : req[s].op = "none" /\ req[s].at = "unused" /\ bg[s].at = "none"
  BY DEF Init, Unused, Settled
<1>2. \A j \in Jobs : \/ Pos(j) = NoPos /\ Status(j) = "absent"
                      \/ Pos(j) = j - 1
  BY DEF Init, Pos, Status, Absent
<1>3. SlotsInv
  BY <1>2 DEF SlotsInv, HasPlace, NoPos, Jobs
<1>4. CopiesInv
  BY <1>1 DEF CopiesInv, AddSlot, ClaimSlot, DispatchSlot, Adding, Claiming
<1> QED
  BY <1>1, <1>3, <1>4 DEF OrderInv, Init

LEMMA OrderInvariant == Serial /\ Spec => [](TypeInv /\ ExclusiveInv /\ OrderInv)
  BY SerialUndisturbed, ExclusiveInvariant, OrderInit, OrderStep, PTL DEF Spec

(* Under the lock positions are handed out once, and the unlocked outcome  *)
(* of a dispatch closes its gap without making two rows meet.              *)
THEOREM OneOrder == Serial /\ Spec => []QueuedPositionsDistinct
<1>1. TypeInv /\ ExclusiveInv /\ OrderInv => QueuedPositionsDistinct
  <2> SUFFICES ASSUME TypeInv, ExclusiveInv, OrderInv,
                      NEW j \in Jobs, NEW k \in Jobs,
                      Status(j) = "QUEUED", Status(k) = "QUEUED", Pos(j) = Pos(k)
               PROVE  j = k
    BY DEF QueuedPositionsDistinct, InStatus, Status, Pos
  <2>1. ~ Leaving(j) /\ ~ Leaving(k)
    BY DEF Leaving, ExclusiveInv, DispatchInv
  <2> QED
    BY <2>1 DEF OrderInv, SlotsInv, HasPlace
<1> QED
  BY <1>1, OrderInvariant, PTL

=============================================================================
