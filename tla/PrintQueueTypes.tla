--------------------------- MODULE PrintQueueTypes ---------------------------
(***************************************************************************)
(* Type correctness of PrintQueue, for any number of jobs, calls, files,   *)
(* retries, crashes and panel prints.                                      *)
(*                                                                         *)
(* TypeOK is not inductive: a call between two awaits writes the row whose *)
(* id it carries, and that the id is the id of a job depends on how far    *)
(* the call has come.  GoodCall and GoodBackground are the records a call  *)
(* and a dispatch can really hold; each helper of the actions is shown to  *)
(* preserve them once, and the lemma of an action cites the helpers.       *)
(***************************************************************************)
EXTENDS PrintQueue, JobTableLemmas, SequenceTheorems

(* A call that has a row, or is past the query that finds one, carries its *)
(* id; only clear, which writes many rows, carries none.                   *)
Carries(c) ==
    \/ c.op \in {"add", "front", "remove", "submit"}
    \/ c.at \in {"place", "claim", "idle", "zombie", "compact"}
    \/ c.at = "save" /\ c.op # "clear"

(* Clear alone scans; a reorder that has read a row has ids left to go.    *)
GoodCall == {c \in Call : /\ Carries(c) => c.id \in Jobs
                          /\ c.at = "scan" => c.op = "clear"
                          /\ c.op = "reorder" =>
                                c.at = "waiting" \/ (c.at = "save" /\ c.ids # <<>>)}
GoodBackground == {b \in Background : b.at # "none" => b.id \in Jobs}

(* The invariant, in one part for each group of variables.                 *)
ReqInv == req \in [Requests -> GoodCall]
BgInv == bg \in [Requests -> GoodBackground]
LineInv == line \in Seq(Requests)
JobInv == job \in Tables

RestInv ==
    /\ aborter \in Requests \cup {NoReq}
    /\ printer \in [st : PrinterStates, file : Files \cup {NoFile}, by : Requests \cup {NoReq}]
    /\ obs \in [st : PrinterStates \cup {"none"}, file : Files \cup {NoFile}]
    /\ live \in PrinterStates \cup {"none"}
    /\ prev \in PrinterStates \cup {"none"}
    /\ up \in BOOLEAN
    /\ crashes \in 0..MaxCrashes
    /\ panel \in 0..MaxPanel

TypeInv == JobInv /\ LineInv /\ ReqInv /\ BgInv /\ RestInv

----------------------------------------------------------------------------
(* The helpers of the actions                                              *)

LEMMA NoPosInt == NoPos \in Int
  BY DEF NoPos

LEMMA SaveTable == ASSUME JobInv, NEW j \in Jobs, NEW row \in Row, Save(j, row) PROVE JobInv'
  BY DEF JobInv, Save, Tables

LEMMA ArriveLine == ASSUME LineInv, NEW r \in Requests, Lock!Arrive(r) PROVE LineInv'
  BY DEF LineInv, Lock!Arrive

LEMMA LeaveLine == ASSUME LineInv, NEW r \in Requests, Lock!Leave(r) PROVE LineInv'
  BY DEF LineInv, Lock!Leave, Lock!Owns

LEMMA UnusedCall == Unused \in Call
<1>1. <<>> \in Seq(Jobs) /\ {} \in SUBSET Entity
  OBVIOUS
<1> QED
  BY <1>1, AbsentRow DEF Unused, Call, Steps

LEMMA UnusedGood == Unused \in GoodCall /\ Done \in GoodCall
<1>1. Unused.op = "none" /\ Unused.at = "unused" /\ "done" \in Steps
  BY DEF Unused, Steps
<1>2. Done \in Call /\ Done.op = "none" /\ Done.at = "done"
  BY UnusedCall, <1>1 DEF Done, Call
<1> QED
  BY <1>1, <1>2, UnusedCall DEF GoodCall, Carries

LEMMA SettledGood == Settled \in GoodBackground
  BY AbsentRow DEF Settled, GoodBackground, Background, Stages

LEMMA ReturnReq == ASSUME ReqInv, NEW r \in Requests, Return(r) PROVE ReqInv'
  BY UnusedGood DEF ReqInv, Return

LEMMA BeginReq ==
  ASSUME ReqInv, NEW r \in Requests, NEW op \in AllOps \ {"reorder"},
         NEW at \in Steps \ {"scan"}, NEW j \in Jobs \cup {0}, Begin(r, op, at, j),
         \/ j \in Jobs
         \/ op \notin {"add", "front", "remove", "submit"} /\ at \in {"waiting", "stopped"}
  PROVE  ReqInv'
<1> DEFINE c == [Unused EXCEPT !.op = op, !.at = at, !.id = j]
<1>1. req' = [req EXCEPT ![r] = c]
  BY DEF Begin
<1>2. c = [Unused EXCEPT !.op = op, !.at = at, !.id = j]
  OBVIOUS
<1> HIDE DEF c
<1>3. c \in Call /\ c.op = op /\ c.at = at /\ c.id = j
  <2>1. op \in AllOps \cup {"none"} /\ at \in Steps /\ j \in Jobs \cup {0} /\ Unused \in Call
    BY UnusedCall
  <2> QED
    BY <1>2, <2>1 DEF Call
<1>4. c \in GoodCall
  BY <1>3 DEF GoodCall, Carries
<1> QED
  BY <1>1, <1>4 DEF ReqInv

LEMMA GotoReq ==
  ASSUME ReqInv, NEW r \in Requests, NEW at \in Steps \ {"scan"}, Goto(r, at),
         Carries([req[r] EXCEPT !.at = at]) => req[r].id \in Jobs,
         req[r].op = "reorder" => at = "save" /\ req[r].ids # <<>>
  PROVE  ReqInv'
<1>1. [req[r] EXCEPT !.at = at] \in GoodCall
  BY DEF GoodCall, Call, ReqInv
<1>2. req' = [req EXCEPT ![r] = [req[r] EXCEPT !.at = at]]
  BY DEF Goto
<1> QED
  BY <1>1, <1>2 DEF ReqInv

LEMMA ReadReq ==
  ASSUME ReqInv, JobInv, NEW r \in Requests, NEW at \in Steps \ {"scan"}, NEW j \in Jobs,
         Read(r, at, j),
         req[r].op = "reorder" => at = "save" /\ req[r].ids # <<>>
  PROVE  ReqInv'
<1>1. [req[r] EXCEPT !.at = at, !.id = j, !.row = job[j]] \in GoodCall
  BY DEF GoodCall, Call, ReqInv, JobInv, Tables, Carries
<1>2. req' = [req EXCEPT ![r] = [req[r] EXCEPT !.at = at, !.id = j, !.row = job[j]]]
  BY DEF Read
<1> QED
  BY <1>1, <1>2 DEF ReqInv

LEMMA AdvanceBg ==
  ASSUME BgInv, NEW r \in Requests, NEW at \in Stages \ {"none"}, Advance(r, at), bg[r].at # "none"
  PROVE  BgInv'
<1>1. [bg[r] EXCEPT !.at = at] \in GoodBackground
  BY DEF GoodBackground, Background, BgInv
<1>2. bg' = [bg EXCEPT ![r] = [bg[r] EXCEPT !.at = at]]
  BY DEF Advance
<1> QED
  BY <1>1, <1>2 DEF BgInv

LEMMA AbortBg == ASSUME BgInv, aborter \in Requests \cup {NoReq}, AbortDispatch PROVE BgInv'
<1>1. \A r \in Requests : [bg[r] EXCEPT !.aborted = TRUE] \in GoodBackground
  BY DEF GoodBackground, Background, BgInv
<1> QED
  BY <1>1 DEF BgInv, AbortDispatch

LEMMA Unchanged ==
  /\ JobInv /\ UNCHANGED job => JobInv'
  /\ LineInv /\ UNCHANGED line => LineInv'
  /\ ReqInv /\ UNCHANGED req => ReqInv'
  /\ BgInv /\ UNCHANGED bg => BgInv'
  /\ RestInv /\ UNCHANGED <<aborter, observer, world, process>> => RestInv'
  BY DEF JobInv, LineInv, ReqInv, BgInv, RestInv, observer, world, process

LEMMA CallHasJob ==
  ASSUME ReqInv, NEW r \in Requests
  PROVE  /\ Carries(req[r]) => req[r].id \in Jobs
         /\ req[r].at = "scan" => req[r].op = "clear"
         /\ req[r].op = "reorder" =>
               req[r].at = "waiting" \/ (req[r].at = "save" /\ req[r].ids # <<>>)
         /\ req[r].row \in Row
         /\ req[r].todo \subseteq Entity
         /\ req[r].next \in Nat
         /\ req[r].ids \in Seq(Jobs)
  BY DEF ReqInv, GoodCall, Call

LEMMA BgHasJob ==
  ASSUME BgInv, NEW r \in Requests
  PROVE  /\ bg[r].at # "none" => bg[r].id \in Jobs
         /\ bg[r].row \in Row
         /\ bg[r].tries \in Nat
  BY DEF BgInv, GoodBackground, Background

----------------------------------------------------------------------------
(* The operations of the queue                                             *)

USE DEF TypeInv, api, dispatch, observer, world, process

LEMMA AddCallType ==
  ASSUME TypeInv, NEW r \in Requests, NEW op \in {"add", "front"}, NEW j \in Jobs, AddCall(r, op, j)
  PROVE  TypeInv'
  BY Unchanged, BeginReq, ArriveLine DEF AddCall, Steps, AllOps

LEMMA FileCallType ==
  ASSUME TypeInv, NEW r \in Requests, NEW f \in Files, FileCall(r, f)
  PROVE  TypeInv'
<1>1. (f \in UsbFiles) \in BOOLEAN
  OBVIOUS
<1>2. PendingRow(f, f \in UsbFiles) \in Row
  BY PendingRowIsRow, <1>1
<1> QED
  BY Unchanged, BeginReq, ArriveLine, SaveTable, FreeIdsAreJobs, <1>2 DEF FileCall, Steps, AllOps

LEMMA AddFindType ==
  ASSUME TypeInv, NEW r \in Requests, AddFind(r)
  PROVE  TypeInv'
  BY Unchanged, ReadReq, CallHasJob DEF AddFind, Steps, Carries

LEMMA AddPlaceType ==
  ASSUME TypeInv, NEW r \in Requests, AddPlace(r)
  PROVE  TypeInv'
<1>1. ReqInv'
  <2>1. PICK p \in Int :
          req' = [req EXCEPT ![r].at = "save", ![r].row = [@ EXCEPT !.st = "QUEUED", !.pos = p]]
    <3>1. {0} \subseteq Int /\ NextPositions(job) \subseteq Int
      BY PositionsAreInt DEF JobInv
    <3>2. PICK p \in IF req[r].op = "front" THEN {0} ELSE NextPositions(job) :
            req' = [req EXCEPT ![r].at = "save", ![r].row = [@ EXCEPT !.st = "QUEUED", !.pos = p]]
      BY DEF AddPlace
    <3> QED
      BY <3>1, <3>2
  <2>2. [req[r] EXCEPT !.at = "save", !.row = [req[r].row EXCEPT !.st = "QUEUED", !.pos = p]]
          \in GoodCall
    <3>1. [req[r].row EXCEPT !.st = "QUEUED", !.pos = p] \in Row
      BY CallHasJob DEF Row, Statuses
    <3>2. Carries(req[r]) /\ req[r].op # "reorder"
      BY CallHasJob DEF AddPlace, Holding, Carries
    <3> QED
      BY <3>1, <3>2 DEF ReqInv, GoodCall, Call, Steps
  <2> QED
    BY <2>1, <2>2 DEF ReqInv
<1>2. JobInv'
  BY ShiftedTable DEF JobInv, AddPlace
<1> QED
  BY Unchanged, CallHasJob, <1>1, <1>2 DEF AddPlace, Steps, Holding

LEMMA AddSaveType ==
  ASSUME TypeInv, NEW r \in Requests, AddSave(r)
  PROVE  TypeInv'
  BY Unchanged, SaveTable, ReturnReq, LeaveLine, CallHasJob DEF AddSave, Carries, ReturnUnlocked

LEMMA RefusedType ==
  ASSUME TypeInv, NEW r \in Requests, Refused(r)
  PROVE  TypeInv'
  BY Unchanged, ReturnReq, LeaveLine DEF Refused, ReturnUnlocked

LEMMA RemoveCallType ==
  ASSUME TypeInv, NEW r \in Requests, NEW j \in Jobs, RemoveCall(r, j)
  PROVE  TypeInv'
  BY Unchanged, BeginReq DEF RemoveCall, Steps, AllOps

LEMMA RemoveFindType ==
  ASSUME TypeInv, NEW r \in Requests, RemoveFind(r)
  PROVE  TypeInv'
  BY Unchanged, ReadReq, CallHasJob, AbortBg DEF RemoveFind, Steps, Carries, RestInv

LEMMA RemoveSaveType ==
  ASSUME TypeInv, NEW r \in Requests, RemoveSave(r)
  PROVE  TypeInv'
<1>1. RemovedRow(req[r].row) \in Row
  <2>1. (IF req[r].row.st = "QUEUED" THEN "PENDING" ELSE req[r].row.st) \in Statuses
    BY CallHasJob DEF Row, Statuses
  <2>2. ASSUME NEW row \in Row, NEW st \in Statuses
        PROVE  [row EXCEPT !.pos = NoPos, !.st = st] \in Row
    BY NoPosInt DEF Row
  <2> QED
    BY <2>1, <2>2, CallHasJob DEF RemovedRow
<1> QED
  BY Unchanged, SaveTable, ReturnReq, GotoReq, CallHasJob, <1>1 DEF RemoveSave, Carries, Steps

LEMMA RemoveCompactType ==
  ASSUME TypeInv, NEW r \in Requests, RemoveCompact(r)
  PROVE  TypeInv'
  BY Unchanged, ReturnReq, CompactedTable DEF RemoveCompact, JobInv

LEMMA ClearCallType ==
  ASSUME TypeInv, NEW r \in Requests, ClearCall(r)
  PROVE  TypeInv'
<1>1. ReqInv'
  <2>1. [Unused EXCEPT !.op = "clear", !.at = "scan", !.id = 0] \in GoodCall
    BY UnusedCall DEF GoodCall, Call, AllOps, Steps, Carries
  <2> QED
    BY <2>1 DEF ReqInv, ClearCall, Begin
<1> QED
  BY Unchanged, AbortBg, <1>1 DEF ClearCall, RestInv

LEMMA ClearScanType ==
  ASSUME TypeInv, NEW r \in Requests, ClearScan(r)
  PROVE  TypeInv'
<1>1. ReqInv'
  <2>1. Snapshot(InStatus(job, {"QUEUED"})) \subseteq Entity
    BY InStatusJobs DEF Snapshot, Entity, JobInv, Tables
  <2>2. req[r].op = "clear"
    BY CallHasJob DEF ClearScan
  <2>3. [req[r] EXCEPT !.at = "save", !.todo = Snapshot(InStatus(job, {"QUEUED"}))] \in GoodCall
    BY <2>1, <2>2 DEF ReqInv, GoodCall, Call, Steps, Carries
  <2> QED
    BY <2>3 DEF ReqInv, ClearScan
<1> QED
  BY Unchanged, <1>1 DEF ClearScan

LEMMA ClearSaveType ==
  ASSUME TypeInv, NEW r \in Requests, ClearSave(r)
  PROVE  TypeInv'
<1>1. PICK e \in req[r].todo :
        /\ Save(e.id, [e.row EXCEPT !.st = "PENDING", !.pos = NoPos])
        /\ req' = [req EXCEPT ![r].todo = @ \ {e}]
  BY DEF ClearSave
<1>2. e.id \in Jobs /\ [e.row EXCEPT !.st = "PENDING", !.pos = NoPos] \in Row
  <2>1. e.id \in Jobs /\ e.row \in Row
    BY CallHasJob DEF Entity
  <2>2. ASSUME NEW row \in Row
        PROVE  [row EXCEPT !.st = "PENDING", !.pos = NoPos] \in Row
    BY NoPosInt DEF Row, Statuses
  <2> QED
    BY <2>1, <2>2
<1>3. JobInv'
  BY <1>1, <1>2, SaveTable
<1>4. ReqInv'
  <2>1. [req[r] EXCEPT !.todo = @ \ {e}] \in GoodCall
    <3>1. req[r].todo \ {e} \in SUBSET Entity
      BY CallHasJob
    <3>2. ASSUME NEW c \in GoodCall, NEW rows \in SUBSET Entity
          PROVE  [c EXCEPT !.todo = rows] \in GoodCall
      <4>1. [c EXCEPT !.todo = rows] \in Call
        BY DEF GoodCall, Call
      <4> QED
        BY <4>1 DEF GoodCall, Call, Carries
    <3>3. req[r] \in GoodCall
      BY DEF ReqInv
    <3> QED
      BY <3>1, <3>2, <3>3
  <2> QED
    BY <1>1, <2>1 DEF ReqInv
<1> QED
  BY Unchanged, <1>3, <1>4 DEF ClearSave

LEMMA ClearReturnType ==
  ASSUME TypeInv, NEW r \in Requests, ClearReturn(r)
  PROVE  TypeInv'
  BY Unchanged, ReturnReq DEF ClearReturn

LEMMA ReorderCallType ==
  ASSUME TypeInv, NEW r \in Requests, ReorderCall(r)
  PROVE  TypeInv'
<1>1. ReqInv'
  <2>1. PICK ids \in SwappedOrders :
          req' = [req EXCEPT ![r] = [Unused EXCEPT !.op = "reorder", !.at = "waiting", !.ids = ids]]
    BY DEF ReorderCall
  <2>2. ids \in Seq(Jobs)
    <3>1. ids \in Jobs \X Jobs
      BY InStatusJobs DEF SwappedOrders, Shown
    <3>2. ids = <<ids[1], ids[2]>> /\ ids[1] \in Jobs /\ ids[2] \in Jobs
      BY <3>1
    <3>3. \A a, b \in Jobs : <<a, b>> \in Seq(Jobs)
      OBVIOUS
    <3> QED
      BY <3>2, <3>3
  <2>3. [Unused EXCEPT !.op = "reorder", !.at = "waiting", !.ids = ids] \in GoodCall
    BY <2>2, UnusedCall DEF GoodCall, Call, AllOps, Steps, Carries
  <2> QED
    BY <2>1, <2>3 DEF ReqInv
<1> QED
  BY Unchanged, ArriveLine, <1>1 DEF ReorderCall

LEMMA ReorderFindType ==
  ASSUME TypeInv, NEW r \in Requests, ReorderFind(r)
  PROVE  TypeInv'
<1>1. Head(req[r].ids) \in Jobs
  BY CallHasJob DEF ReorderFind
<1> QED
  BY Unchanged, ReadReq, <1>1 DEF ReorderFind, Steps

LEMMA ReorderSaveType ==
  ASSUME TypeInv, NEW r \in Requests, ReorderSave(r)
  PROVE  TypeInv'
<1>1. req[r].id \in Jobs
  BY CallHasJob DEF ReorderSave, Holding, Carries
<1>2. [req[r].row EXCEPT !.pos = req[r].next] \in Row
  BY CallHasJob DEF Row
<1>3. ReqInv'
  <2>1. req[r].ids # <<>> /\ req[r].ids \in Seq(Jobs)
    BY CallHasJob DEF ReorderSave, Holding
  <2>4. Tail(req[r].ids) \in Seq(Jobs)
    BY <2>1
  <2>3. req[r].next + 1 \in Nat
    BY CallHasJob
  <2>2. [req[r] EXCEPT !.at = "waiting", !.next = @ + 1, !.ids = Tail(@)] \in GoodCall
    BY <1>1, <2>3, <2>4 DEF ReqInv, GoodCall, Call, Steps, Carries
  <2> QED
    BY <2>2 DEF ReqInv, ReorderSave
<1> QED
  BY Unchanged, SaveTable, <1>1, <1>2, <1>3 DEF ReorderSave

LEMMA ReorderReturnType ==
  ASSUME TypeInv, NEW r \in Requests, ReorderReturn(r)
  PROVE  TypeInv'
  BY Unchanged, ReturnReq, LeaveLine DEF ReorderReturn, ReturnUnlocked

LEMMA CancelDispatchType ==
  ASSUME TypeInv, NEW r \in Requests, CancelDispatch(r)
  PROVE  TypeInv'
  BY Unchanged, ReturnReq, AbortBg DEF CancelDispatch, RestInv

LEMMA StopPrinterType ==
  ASSUME TypeInv, NEW r \in Requests, StopPrinter(r)
  PROVE  TypeInv'
<1>1. RestInv'
  BY DEF StopPrinter, RestInv, PrinterStates
<1> QED
  BY Unchanged, BeginReq, <1>1 DEF StopPrinter, Steps, AllOps

LEMMA StopFindType ==
  ASSUME TypeInv, NEW r \in Requests, StopFind(r)
  PROVE  TypeInv'
<1>1. ActiveJob(job, NoFile) \subseteq Jobs
  BY ActiveJobIsActive, InStatusJobs
<1> QED
  BY Unchanged, ReadReq, ReturnReq, CallHasJob, <1>1 DEF StopFind, Steps

LEMMA StopSaveType ==
  ASSUME TypeInv, NEW r \in Requests, StopSave(r)
  PROVE  TypeInv'
<1>1. [req[r].row EXCEPT !.st = "CANCELLED"] \in Row
  BY CallHasJob DEF Row, Statuses
<1> QED
  BY Unchanged, SaveTable, GotoReq, CallHasJob, <1>1 DEF StopSave, Steps, Carries

LEMMA StopCloneType ==
  ASSUME TypeInv, NEW r \in Requests, StopClone(r)
  PROVE  TypeInv'
<1>1. req[r].row \in Row
  BY CallHasJob
<1>2. PendingRow(req[r].row.file, req[r].row.usb) \in Row
  BY PendingRowIsRow, <1>1 DEF Row
<1> QED
  BY Unchanged, BeginReq, ArriveLine, SaveTable, FreeIdsAreJobs, <1>2 DEF StopClone, Steps, AllOps

----------------------------------------------------------------------------
(* The claim and the dispatch                                              *)

LEMMA ProcessCallType ==
  ASSUME TypeInv, NEW r \in Requests, ProcessCall(r)
  PROVE  TypeInv'
  BY Unchanged, BeginReq, ArriveLine DEF ProcessCall, Steps, AllOps

LEMMA SubmitCallType ==
  ASSUME TypeInv, NEW r \in Requests, NEW j \in Jobs, SubmitCall(r, j)
  PROVE  TypeInv'
  BY Unchanged, BeginReq, ArriveLine DEF SubmitCall, Steps, AllOps

LEMMA ProcessPickType ==
  ASSUME TypeInv, NEW r \in Requests, ProcessPick(r)
  PROVE  TypeInv'
<1>1. NextInQueue(job) \subseteq Jobs
  BY InStatusJobs DEF NextInQueue
<1> QED
  BY Unchanged, ReadReq, ReturnReq, LeaveLine, <1>1 DEF ProcessPick, Steps, ReturnUnlocked

LEMMA ClaimFindType ==
  ASSUME TypeInv, NEW r \in Requests, ClaimFind(r)
  PROVE  TypeInv'
  BY Unchanged, ReadReq, CallHasJob DEF ClaimFind, Steps, Carries, Holding

LEMMA ClaimIdleType ==
  ASSUME TypeInv, NEW r \in Requests, ClaimIdle(r)
  PROVE  TypeInv'
<1>1. ASSUME NEW j \in BusyRow,
             req' = [req EXCEPT ![r].at = "zombie", ![r].todo = {[id |-> j, row |-> job[j]]}],
             req[r].at = "idle"
      PROVE  ReqInv'
  <2>1. {[id |-> j, row |-> job[j]]} \subseteq Entity
    BY MostRecentSubset, InStatusJobs DEF BusyRow, Entity, JobInv, Tables
  <2>2. [req[r] EXCEPT !.at = "zombie", !.todo = {[id |-> j, row |-> job[j]]}] \in GoodCall
    BY <1>1, <2>1, CallHasJob DEF ReqInv, GoodCall, Call, Steps, Carries
  <2> QED
    BY <1>1, <2>2 DEF ReqInv
<1>2. req[r].at = "idle" => req[r].id \in Jobs
  BY CallHasJob DEF Carries
<1> QED
  BY Unchanged, GotoReq, CallHasJob, LeaveLine, ReturnReq, <1>1, <1>2
     DEF ClaimIdle, Steps, Holding, ReturnUnlocked

LEMMA ClaimZombieType ==
  ASSUME TypeInv, NEW r \in Requests, ClaimZombie(r)
  PROVE  TypeInv'
<1>1. JobInv'
  <2>1. \A e \in req[r].todo : e.id \in Jobs /\ [e.row EXCEPT !.st = "UNKNOWN"] \in Row
    BY CallHasJob DEF Entity, Row, Statuses
  <2> QED
    BY <2>1, SaveTable DEF ClaimZombie
<1>2. ReqInv'
  <2>1. [req[r] EXCEPT !.at = "save", !.todo = {}] \in GoodCall
    BY CallHasJob DEF ReqInv, GoodCall, Call, Steps, Carries, ClaimZombie, Holding
  <2> QED
    BY <2>1 DEF ReqInv, ClaimZombie
<1> QED
  BY Unchanged, <1>1, <1>2 DEF ClaimZombie

LEMMA ClaimSaveType ==
  ASSUME TypeInv, NEW r \in Requests, ClaimSave(r)
  PROVE  TypeInv'
<1>1. req[r].id \in Jobs
  BY CallHasJob DEF ClaimSave, Holding, Carries
<1>2. [req[r].row EXCEPT !.st = "STARTING"] \in Row
  BY CallHasJob DEF Row, Statuses
<1>3. BgInv'
  <2>1. [Settled EXCEPT !.at = "spawned", !.id = req[r].id] \in GoodBackground
    BY <1>1, AbsentRow DEF Settled, GoodBackground, Background, Stages
  <2> QED
    BY <2>1 DEF BgInv, ClaimSave
<1> QED
  BY Unchanged, ReturnReq, LeaveLine, SaveTable, <1>1, <1>2, <1>3 DEF ClaimSave, ReturnUnlocked

LEMMA BgBeginType ==
  ASSUME TypeInv, NEW r \in Requests, BgBegin(r)
  PROVE  TypeInv'
<1>1. BgInv'
  <2>1. bg[r].id \in Jobs
    BY BgHasJob DEF BgBegin, InStage
  <2>2. [bg[r] EXCEPT !.at = "ready", !.row = job[bg[r].id]] \in GoodBackground
    BY <2>1 DEF BgInv, GoodBackground, Background, Stages, JobInv, Tables
  <2> QED
    BY <2>2, SettledGood DEF BgInv, BgBegin
<1>2. RestInv'
  BY DEF BgBegin, RestInv
<1> QED
  BY Unchanged, <1>1, <1>2 DEF BgBegin

LEMMA BgReadyType ==
  ASSUME TypeInv, NEW r \in Requests, BgReady(r)
  PROVE  TypeInv'
  BY Unchanged, AdvanceBg DEF BgReady, InStage, Stages

LEMMA BgWaitTimeoutType ==
  ASSUME TypeInv, NEW r \in Requests, BgWaitTimeout(r)
  PROVE  TypeInv'
  BY Unchanged, AdvanceBg DEF BgWaitTimeout, InStage, Stages

LEMMA AnsweredType ==
  ASSUME TypeInv, NEW r \in Requests, Answered(r)
  PROVE  TypeInv'
  BY Unchanged, AdvanceBg DEF Answered, InStage, Stages

LEMMA SendFailsType ==
  ASSUME TypeInv, NEW r \in Requests, SendFails(r)
  PROVE  TypeInv'
  BY Unchanged, AdvanceBg DEF SendFails, InStage, Stages

LEMMA LandType ==
  ASSUME TypeInv, NEW r \in Requests, Land(r)
  PROVE  TypeInv'
<1>1. RestInv'
  BY BgHasJob DEF Land, RestInv, PrinterStates, Row
<1> QED
  BY Unchanged, AdvanceBg, <1>1 DEF Land, InStage, Stages

LEMMA SendRetriedType ==
  ASSUME TypeInv, NEW r \in Requests, SendRetried(r)
  PROVE  TypeInv'
<1>1. BgInv'
  <2>1. [bg[r] EXCEPT !.at = "ready", !.tries = @ + 1] \in GoodBackground
    <3>1. bg[r].tries + 1 \in Nat /\ bg[r].id \in Jobs
      BY BgHasJob DEF SendRetried, InStage
    <3> QED
      BY <3>1 DEF BgInv, GoodBackground, Background, Stages
  <2>2. [bg[r] EXCEPT !.at = "failed"] \in GoodBackground
    BY BgHasJob DEF BgInv, GoodBackground, Background, Stages, SendRetried, InStage
  <2> QED
    BY <2>1, <2>2 DEF BgInv, SendRetried
<1> QED
  BY Unchanged, <1>1 DEF SendRetried

LEMMA OkFindType ==
  ASSUME TypeInv, NEW r \in Requests, OkFind(r)
  PROVE  TypeInv'
<1>1. BgInv'
  <2>1. bg[r].id \in Jobs
    BY BgHasJob DEF OkFind, InStage
  <2>2. \A at \in {"written", "drop"} :
          [bg[r] EXCEPT !.row = job[bg[r].id], !.at = at] \in GoodBackground
    BY <2>1 DEF BgInv, GoodBackground, Background, Stages, JobInv, Tables
  <2> QED
    BY <2>2 DEF BgInv, OkFind
<1> QED
  BY Unchanged, <1>1 DEF OkFind

LEMMA OkCompactType ==
  ASSUME TypeInv, NEW r \in Requests, OkCompact(r)
  PROVE  TypeInv'
  BY Unchanged, AdvanceBg, CompactedTable DEF OkCompact, JobInv, InStage, Stages

LEMMA SettleType ==
  ASSUME TypeInv, NEW r \in Requests, Settle(r), UNCHANGED <<observer, world, process>>
  PROVE  BgInv' /\ RestInv'
  BY SettledGood DEF BgInv, RestInv, Settle

LEMMA OkSaveType ==
  ASSUME TypeInv, NEW r \in Requests, OkSave(r)
  PROVE  TypeInv'
<1>1. bg[r].id \in Jobs
  BY BgHasJob DEF OkSave, InStage
<1>2. [bg[r].row EXCEPT !.pos = NoPos] \in Row
  BY BgHasJob DEF Row, NoPos
<1>3. \A now \in Stamps(job) :
        [[bg[r].row EXCEPT !.pos = NoPos] EXCEPT !.st = "PRINTING", !.started = now] \in Row
  BY <1>2, StampsAreTimes DEF Row, Statuses, JobInv
<1> QED
  BY Unchanged, SettleType, SaveTable, <1>1, <1>2, <1>3 DEF OkSave

LEMMA FailFindType ==
  ASSUME TypeInv, NEW r \in Requests, FailFind(r)
  PROVE  TypeInv'
<1>1. BgInv'
  <2>1. bg[r].id \in Jobs
    BY BgHasJob DEF FailFind, InStage
  <2>2. [bg[r] EXCEPT !.at = "undo", !.row = job[bg[r].id]] \in GoodBackground
    BY <2>1 DEF BgInv, GoodBackground, Background, Stages, JobInv, Tables
  <2> QED
    BY <2>2 DEF BgInv, FailFind
<1> QED
  BY Unchanged, <1>1 DEF FailFind

LEMMA FailSaveType ==
  ASSUME TypeInv, NEW r \in Requests, FailSave(r)
  PROVE  TypeInv'
<1>1. bg[r].id \in Jobs
  BY BgHasJob DEF FailSave, InStage
<1>2. RolledBack(bg[r].row) \in Row
  BY BgHasJob DEF RolledBack, Row, Statuses
<1> QED
  BY Unchanged, SettleType, SaveTable, <1>1, <1>2 DEF FailSave

----------------------------------------------------------------------------
(* The printer, the observer, crash and boot                               *)

LEMMA PrinterStepType == ASSUME TypeInv, PrinterStep PROVE TypeInv'
<1>1. RestInv'
  <2> USE DEF RestInv, PrinterStates
  <2>1. ASSUME PrintEnds PROVE RestInv'
    BY <2>1 DEF PrintEnds
  <2>4. ASSUME PrinterRests PROVE RestInv'
    BY <2>4 DEF PrinterRests
  <2>2. ASSUME PanelStop PROVE RestInv'
    <3>1. panel' \in 0..MaxPanel
      BY <2>2, BoundsAssumption DEF PanelStop
    <3> QED
      BY <2>2, <3>1 DEF PanelStop
  <2>3. ASSUME NEW f \in UsbFiles, PanelStart(f) PROVE RestInv'
    <3>1. panel' \in 0..MaxPanel /\ f \in Files
      BY <2>3, BoundsAssumption, UsbAssumption DEF PanelStart
    <3> QED
      BY <2>3, <3>1 DEF PanelStart
  <2> QED
    BY <2>1, <2>2, <2>3, <2>4 DEF PrinterStep
<1> QED
  BY Unchanged, <1>1 DEF PrinterStep, PrintEnds, PrinterRests, PanelStop, PanelStart

LEMMA ObservedTable == ASSUME TypeInv PROVE Observed \subseteq Tables
<1>1. job \in Tables /\ obs.file \in Files \cup {NoFile}
  BY DEF TypeInv, JobInv, RestInv
<1>2. /\ PrintStarted(job, obs.file) \subseteq Tables
      /\ PrintEnded(job, obs.file, "COMPLETED") \subseteq Tables
      /\ PrintEnded(job, NoFile, "CANCELLED") \subseteq Tables
  BY <1>1, PrintStartedTable, PrintEndedTable DEF Statuses
<1> QED
  BY <1>1, <1>2 DEF Observed

LEMMA ObserverStepType == ASSUME TypeInv, ObserverStep PROVE TypeInv'
<1>1. CASE PollAnswer
  <2>1. RestInv'
    BY <1>1 DEF PollAnswer, RestInv
  <2> QED
    BY Unchanged, <1>1, <2>1 DEF PollAnswer
<1>2. CASE PollHandled
  <2>1. JobInv'
    BY <1>2, ObservedTable DEF PollHandled, JobInv
  <2>2. RestInv'
    BY <1>2 DEF PollHandled, RestInv, NoAnswer
  <2> QED
    BY Unchanged, <1>2, <2>1, <2>2 DEF PollHandled
<1>3. CASE LiveExpires
  <2>1. RestInv'
    BY <1>3 DEF LiveExpires, RestInv
  <2> QED
    BY Unchanged, <1>3, <2>1 DEF LiveExpires
<1> QED
  BY <1>1, <1>2, <1>3 DEF ObserverStep

LEMMA CrashType == ASSUME TypeInv, Crash PROVE TypeInv'
<1>1. JobInv' /\ LineInv'
  BY DEF Crash, JobInv, LineInv
<1>2. ReqInv' /\ BgInv'
  BY UnusedGood, SettledGood DEF Crash, ReqInv, BgInv
<1>3. RestInv'
  <2>1. crashes' \in 0..MaxCrashes
    BY BoundsAssumption DEF Crash, RestInv
  <2>2. /\ aborter' = NoReq /\ obs' = NoAnswer /\ live' = "none" /\ prev' = "none"
        /\ up' \in BOOLEAN
        /\ UNCHANGED <<printer, panel>>
    BY DEF Crash, world
  <2> QED
    BY <2>1, <2>2 DEF RestInv, NoAnswer
<1> QED
  BY <1>1, <1>2, <1>3

LEMMA BootType == ASSUME TypeInv, Boot PROVE TypeInv'
<1>1. JobInv'
  <2>1. ASSUME NEW j \in Jobs PROVE [job[j] EXCEPT !.st = "QUEUED"] \in Row
    BY DEF JobInv, Tables, Row, Statuses
  <2> QED
    BY <2>1 DEF Boot, Recovered, JobInv, Tables
<1>2. RestInv'
  <2>1. prev' \in PrinterStates \cup {"none"} /\ up' \in BOOLEAN
    BY DEF Boot, PrinterStates
  <2>2. UNCHANGED <<aborter, printer, obs, live, crashes, panel>>
    BY DEF Boot
  <2> QED
    BY <2>1, <2>2 DEF RestInv
<1> QED
  BY Unchanged, <1>1, <1>2 DEF Boot

----------------------------------------------------------------------------
(* The theorem                                                             *)

LEMMA InitType == Init => TypeInv
<1> SUFFICES ASSUME Init PROVE TypeInv
  OBVIOUS
<1>1. JobInv
  <2>1. ASSUME NEW j \in Jobs, j <= Len(Queued0)
        PROVE  [st |-> "QUEUED", pos |-> j - 1, started |-> Never, file |-> Queued0[j],
                usb |-> Queued0[j] \in UsbFiles] \in Row
    BY <2>1, QueuedAssumption DEF Row, Statuses, Jobs, Never
  <2> QED
    BY <2>1, AbsentRow DEF Init, JobInv, Tables
<1>2. ReqInv /\ BgInv
  BY UnusedGood, SettledGood DEF Init, ReqInv, BgInv
<1>3. LineInv
  BY DEF Init, LineInv
<1>4. RestInv
  BY BoundsAssumption DEF Init, RestInv, PrinterStates, NoAnswer
<1> QED
  BY <1>1, <1>2, <1>3, <1>4 DEF TypeInv

LEMMA StepType == TypeInv /\ [Next]_vars => TypeInv'
<1> SUFFICES ASSUME TypeInv, [Next]_vars PROVE TypeInv'
  OBVIOUS
<1>1. ASSUME NEW r \in Requests, CallStep(r) PROVE TypeInv'
  <2>1. Present(job) \subseteq Jobs
    BY DEF Present
  <2> QED
    BY <1>1, <2>1, AddCallType, RemoveCallType, SubmitCallType, FileCallType, ProcessCallType,
       ReorderCallType, ClearCallType, CancelDispatchType, StopPrinterType DEF CallStep
<1>2. ASSUME NEW r \in Requests, RequestStep(r) PROVE TypeInv'
  BY <1>2, AddFindType, AddPlaceType, AddSaveType, RefusedType, RemoveFindType, RemoveSaveType,
     RemoveCompactType, ClearScanType, ClearSaveType, ClearReturnType, ReorderFindType,
     ReorderSaveType, ReorderReturnType, StopFindType, StopSaveType, StopCloneType,
     ProcessPickType, ClaimFindType, ClaimIdleType, ClaimZombieType, ClaimSaveType
     DEF RequestStep
<1>3. ASSUME NEW r \in Requests, BackgroundStep(r) PROVE TypeInv'
  BY <1>3, BgBeginType, BgReadyType, BgWaitTimeoutType, LandType, AnsweredType, SendFailsType,
     SendRetriedType, OkFindType, OkCompactType, OkSaveType, FailFindType, FailSaveType
     DEF BackgroundStep
<1>4. CASE UNCHANGED vars
  BY <1>4, Unchanged DEF vars, TypeInv, observer, world, process
<1> QED
  BY <1>1, <1>2, <1>3, <1>4, PrinterStepType, ObserverStepType, CrashType, BootType DEF Next

LEMMA TypeInvImplies == TypeInv => TypeOK
  BY DEF TypeInv, TypeOK, JobInv, LineInv, ReqInv, BgInv, RestInv, GoodCall, GoodBackground, Tables

LEMMA TypeInvariant == Spec => []TypeInv
  BY InitType, StepType, PTL DEF Spec

(* Every variable keeps its type, whatever calls are made in whatever      *)
(* order, with any number of jobs, calls, retries and crashes.                    *)
THEOREM TypeCorrect == Spec => []TypeOK
  BY TypeInvariant, TypeInvImplies, PTL

=============================================================================
