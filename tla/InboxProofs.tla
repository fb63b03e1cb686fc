---------------------------- MODULE InboxProofs ----------------------------
(***************************************************************************)
(* Proofs about Inbox for any number of items, jobs, logs and calls: its   *)
(* types and the lock of an item; that an item is resolved once and        *)
(* survives its failed dispatches, so that it keeps its bytes and gets one *)
(* job; then of what the inbox shares: the maintenance of the printer and  *)
(* the files of the queued jobs.                                           *)
(*                                                                         *)
(* TypeOK is not inductive: the line of an item is only known to be not    *)
(* empty when a call leaves it because a call that is past "wait" stands   *)
(* at its head.  Locked says so, and that the item is pending until then.  *)
(* PendingHasBytes speaks of items at rest.  Its inductive form adds what  *)
(* the calls at work rely on: a promotion finds its file, what follows it  *)
(* finds the marker, and an upload that has not ended is not dispatched.   *)
(* OneJobPerItem holds because a job of a pending item has a dispatch that *)
(* is still making it, and one call at a time is at work on an item.       *)
(* The last two invariants follow the steps between two saves: who is      *)
(* about to set or to remove what, and which file is about to be erased.   *)
(***************************************************************************)
EXTENDS Inbox, SequenceTheorems, FiniteSetTheorems, TLAPS

Resolving == {"archive", "dispatch", "discard"}
PastWait(c) == call[c].op \in Resolving /\ call[c].at # "wait"

(* The steps that an operation takes, and what it works on.                *)
CallOK(k) ==
    /\ k.op = "none" => k.at = "idle"
    /\ k.op = "upload" => k.at \in {"stage", "save"}
    /\ k.op = "archive" => k.at \in {"wait", "promote", "promoted"}
    /\ k.op = "dispatch" => k.at \in {"wait", "promote", "promoted", "job", "file",
                                      "queue", "resolve"}
    /\ k.op = "discard" => k.at \in {"wait", "unlink", "resolve"}
    /\ k.op = "deleteJob" => k.at \in {"count", "erase"}
    /\ k.op = "create" => k.at \in {"insert", "reason"}
    /\ k.op = "complete" => k.at \in {"complete", "clear"}
    /\ k.op = "delete" => k.at \in {"clear", "remove"}
    /\ k.op \in IntakeOps \union {"deleteJob"} => k.item \in Items
    /\ k.at \in {"file", "queue"} => k.id \in Jobs
    /\ k.at \in {"reason", "complete", "clear", "remove"} => k.id \in Logs

WellFormed ==
    /\ \A c \in Calls : CallOK(call[c])
    /\ \A j \in JobRows : job[j].item \in Items
    /\ \A i \in Items : item[i].st = "none" => item[i] = NewItem

(* A call that is past "wait" stands at the head of the line of its item,  *)
(* and nobody has resolved the item meanwhile.                             *)
Locked ==
    \A c \in Calls : PastWait(c) =>
       /\ line[call[c].item] # <<>>
       /\ Head(line[call[c].item]) = c
       /\ item[call[c].item].st = "PENDING"

LEMMA InitTypes == Init => TypeOK /\ WellFormed /\ Locked
<1> SUFFICES ASSUME Init PROVE TypeOK /\ WellFormed /\ Locked
  OBVIOUS
<1> USE DEF Init
<1>1. item \in [Items -> ItemType]
  BY DEF ItemType, NewItem, Statuses
<1>2. job \in [Jobs -> JobType]
  BY DEF JobType, NoJob
<1>3. call \in [Calls -> CallType]
  BY DEF CallType, Idle
<1>0. line \in [Items -> Seq(Calls)] /\ log \in [Logs -> LogStates]
  BY DEF LogStates
<1>7. budget \in 0 .. MaxCalls
  BY SizesAssumption
<1>4. TypeOK
  BY <1>0, <1>1, <1>2, <1>3, <1>7, UploadedAssumption DEF TypeOK
<1>5. WellFormed
  BY DEF WellFormed, CallOK, Idle, IntakeOps, JobRows, NoJob, NewItem
<1>6. Locked
  BY DEF Locked, PastWait, Resolving, Idle
<1> QED
  BY <1>4, <1>5, <1>6

(* What the three ways to move a call on do to it.                         *)
LEMMA BeginType ==
  ASSUME TypeOK, NEW c \in Calls, NEW op \in IntakeOps \union LogOps \union {"deleteJob"},
         NEW at \in Steps, NEW i \in Items \union {0},
         NEW id \in Jobs \union Logs \union {0}, NEW known \in BOOLEAN,
         Begin(c, op, at, i, id, known)
  PROVE  call' \in [Calls -> CallType] /\ budget' \in 0 .. MaxCalls
<1> DEFINE r == [op |-> op, at |-> at, item |-> i, id |-> id, known |-> known]
<1>1. r \in CallType
  BY DEF CallType
<1>2. call' = [call EXCEPT ![c] = r]
  BY DEF Begin
<1>3. budget' \in 0 .. MaxCalls
  BY SizesAssumption DEF Begin, TypeOK
<1> QED
  BY <1>1, <1>2, <1>3 DEF TypeOK

LEMMA GotoType ==
  ASSUME TypeOK, NEW c \in Calls, NEW at \in Steps, Goto(c, at)
  PROVE  call' \in [Calls -> CallType]
<1>1. [call[c] EXCEPT !.at = at] \in CallType
  BY DEF TypeOK, CallType
<1> QED
  BY <1>1 DEF TypeOK, Goto

LEMMA GotoIdType ==
  ASSUME TypeOK, NEW c \in Calls, NEW at \in Steps, NEW id \in Jobs \union Logs,
         call' = [call EXCEPT ![c].at = at, ![c].id = id]
  PROVE  call' \in [Calls -> CallType]
<1>1. [call[c] EXCEPT !.at = at] \in CallType
  BY DEF TypeOK, CallType
<1>2. [[call[c] EXCEPT !.at = at] EXCEPT !.id = id] \in CallType
  BY <1>1 DEF CallType
<1> QED
  BY <1>2 DEF TypeOK

LEMMA AnsweredType ==
  ASSUME TypeOK, NEW c \in Calls, Answered(c)
  PROVE  call' \in [Calls -> CallType]
  BY DEF TypeOK, Answered, Idle, CallType

(* Tail shortens a line that is not empty.                                 *)
LEMMA LeavesType ==
  ASSUME TypeOK, NEW c \in Calls, call[c].item \in Items, line[call[c].item] # <<>>, Leaves(c)
  PROVE  line' \in [Items -> Seq(Calls)] /\ call' \in [Calls -> CallType]
<1>1. line[call[c].item] \in Seq(Calls)
  BY DEF TypeOK
<1>2. Tail(line[call[c].item]) \in Seq(Calls)
  BY <1>1, HeadTailProperties
<1>3. line' = [line EXCEPT ![call[c].item] = Tail(line[call[c].item])]
  BY DEF Leaves
<1> QED
  BY <1>2, <1>3, AnsweredType DEF TypeOK, Leaves

(* A call that leaves its item stands in the line of the item.             *)
LEMMA InLineType ==
  ASSUME TypeOK, WellFormed, Locked, NEW c \in Calls,
         PastWait(c) \/ (call[c].op \in Resolving /\ HasTurn(c))
  PROVE  call[c].item \in Items /\ line[call[c].item] # <<>>
  BY
     DEF WellFormed, CallOK, Locked, PastWait, Resolving, IntakeOps, HasTurn,
         Mutex!Owns

(* The operation of a call follows from its step.                          *)
LEMMA StepOfCall ==
  ASSUME TypeOK, WellFormed, NEW c \in Calls
  PROVE  /\ At(c, "wait") => call[c].op \in Resolving
         /\ At(c, "stage") \/ At(c, "save") => call[c].op = "upload"
         /\ At(c, "promote") \/ At(c, "promoted") => call[c].op \in {"archive", "dispatch"}
         /\ At(c, "job") \/ At(c, "file") \/ At(c, "queue") => call[c].op = "dispatch"
         /\ At(c, "unlink") => call[c].op = "discard"
         /\ At(c, "resolve") => call[c].op \in {"dispatch", "discard"}
         /\ At(c, "count") \/ At(c, "erase") => call[c].op = "deleteJob"
         /\ At(c, "insert") \/ At(c, "reason") => call[c].op = "create"
         /\ At(c, "complete") => call[c].op = "complete"
         /\ At(c, "clear") => call[c].op \in {"complete", "delete"}
         /\ At(c, "remove") => call[c].op = "delete"
  BY DEF TypeOK, CallType, WellFormed, CallOK, At, IntakeOps, LogOps, Resolving

LEMMA StepType == TypeOK /\ WellFormed /\ Locked /\ [Next]_vars => TypeOK'
<1> SUFFICES ASSUME TypeOK, WellFormed, Locked, [Next]_vars PROVE TypeOK'
  OBVIOUS
<1>1. ASSUME NEW c \in Calls, NEW i \in Items, Upload(c, i) PROVE TypeOK'
  <2>1. call' \in [Calls -> CallType] /\ budget' \in 0 .. MaxCalls
    BY <1>1, BeginType DEF Upload, Steps, IntakeOps, LogOps
  <2>2. item' \in [Items -> ItemType]
    BY <1>1 DEF TypeOK, Upload, ItemType, Statuses
  <2> QED
    BY <1>1, <2>1, <2>2 DEF TypeOK, Upload, others
<1>2. ASSUME NEW c \in Calls, Stage(c) PROVE TypeOK'
  <2>1. call' \in [Calls -> CallType]
    BY <1>2, GotoType DEF Stage, Steps
  <2>2. staged' \subseteq Items
    BY <1>2, StepOfCall DEF TypeOK, Stage, WellFormed, CallOK, IntakeOps
  <2> QED
    BY <1>2, <2>1, <2>2
       DEF TypeOK, Stage, others, At, WellFormed, CallOK, IntakeOps
<1>3. ASSUME NEW c \in Calls, SaveUpload(c) PROVE TypeOK'
  <2>1. call' \in [Calls -> CallType]
    BY <1>3, AnsweredType DEF SaveUpload
  <2>2. call[c].item \in Items
    BY <1>3, StepOfCall DEF SaveUpload, WellFormed, CallOK, IntakeOps
  <2>3. item' \in [Items -> ItemType]
    BY <1>3, <2>2 DEF TypeOK, SaveUpload, ItemType, Statuses
  <2> QED
    BY <1>3, <2>1, <2>2, <2>3 DEF TypeOK, SaveUpload, others
<1>4. ASSUME NEW c \in Calls, UploadFails(c) PROVE TypeOK'
  <2>1. call' \in [Calls -> CallType]
    BY <1>4, AnsweredType DEF UploadFails
  <2>2. call[c].item \in Items
    BY <1>4, StepOfCall DEF UploadFails, WellFormed, CallOK, IntakeOps
  <2> QED
    BY <1>4, <2>1, <2>2 DEF TypeOK, UploadFails, others
<1>5. ASSUME NEW c \in Calls, NEW op \in IntakeOps \ {"upload"},
             NEW i \in Items, Resolve(c, op, i)
      PROVE TypeOK'
  <2>1. call' \in [Calls -> CallType] /\ budget' \in 0 .. MaxCalls
    BY <1>5, BeginType DEF Resolve, Steps, IntakeOps, LogOps
  <2>2. line' \in [Items -> Seq(Calls)]
    BY <1>5, AppendProperties DEF TypeOK, Resolve
  <2> QED
    BY <1>5, <2>1, <2>2 DEF TypeOK, Resolve, others
<1>6. ASSUME NEW c \in Calls, Take(c) PROVE TypeOK'
  <2>1. item[call[c].item].path \in BOOLEAN
    BY <1>6, StepOfCall
       DEF Take, TypeOK, ItemType, WellFormed, CallOK, Resolving, IntakeOps
  <2>2. PICK at \in Steps : call' = [call EXCEPT ![c].at = at, ![c].known = item[call[c].item].path]
    BY <1>6 DEF Take, Steps
  <2>3. [call[c] EXCEPT !.at = at] \in CallType
    BY DEF TypeOK, CallType
  <2>4. [[call[c] EXCEPT !.at = at] EXCEPT !.known = item[call[c].item].path] \in CallType
    BY <2>1, <2>3 DEF CallType
  <2>5. call' \in [Calls -> CallType]
    BY <2>2, <2>4 DEF TypeOK
  <2> QED
    BY <1>6, <2>5 DEF TypeOK, Take, others
<1>7. ASSUME NEW c \in Calls, Refuse(c) PROVE TypeOK'
  <2>1. call' \in [Calls -> CallType] /\ line' \in [Items -> Seq(Calls)]
    BY <1>7, InLineType, LeavesType, StepOfCall
       DEF Refuse, Fails, PastWait, Resolving, At
  <2> QED
    BY <1>7, <2>1 DEF TypeOK, Refuse, others, Fails, Leaves
<1>8. ASSUME NEW c \in Calls, Promote(c) PROVE TypeOK'
  <2>1. call' \in [Calls -> CallType]
    BY <1>8, GotoType DEF Promote, Steps
  <2> QED
    BY <1>8, <2>1
       DEF TypeOK, Promote, others, Files, WellFormed, CallOK, At, IntakeOps
<1>9. ASSUME NEW c \in Calls, PromoteFails(c) PROVE TypeOK'
  <2>1. call' \in [Calls -> CallType] /\ line' \in [Items -> Seq(Calls)]
    BY <1>9, InLineType, LeavesType, StepOfCall
       DEF PromoteFails, Fails, PastWait, Resolving, At
  <2>2. call[c].item \in Items
    BY <1>9, StepOfCall DEF PromoteFails, WellFormed, CallOK, IntakeOps
  <2> QED
    BY <1>9, <2>1, <2>2 DEF TypeOK, PromoteFails, others, Fails, Leaves
<1>10. ASSUME NEW c \in Calls, SaveMarker(c) PROVE TypeOK'
  <2>1. call' \in [Calls -> CallType]
    BY <1>10, GotoType DEF SaveMarker, Steps
  <2>2. item' \in [Items -> ItemType]
    BY <1>10 DEF TypeOK, SaveMarker, ItemType
  <2> QED
    BY <1>10, <2>1, <2>2 DEF TypeOK, SaveMarker, others
<1>11. ASSUME NEW c \in Calls, CreateJob(c) PROVE TypeOK'
  <2>1. call[c].item \in Items
    BY <1>11, StepOfCall DEF CreateJob, WellFormed, CallOK, IntakeOps
  <2>2. call' \in [Calls -> CallType]
    BY <1>11, GotoIdType DEF CreateJob, Steps
  <2>3. job' \in [Jobs -> JobType]
    BY <1>11, <2>1 DEF CreateJob, TypeOK, JobType
  <2> QED
    BY <1>11, <2>2, <2>3 DEF TypeOK, CreateJob, others
<1>12. ASSUME NEW c \in Calls, FileJob(c) PROVE TypeOK'
  <2>1. call' \in [Calls -> CallType]
    BY <1>12, GotoType DEF FileJob, Steps
  <2>2. call[c].item \in Items
    BY <1>12, StepOfCall DEF FileJob, WellFormed, CallOK, IntakeOps
  <2>3. job' \in [Jobs -> JobType]
    BY <1>12, <2>2 DEF TypeOK, FileJob, JobType
  <2> QED
    BY <1>12, <2>1, <2>2, <2>3
       DEF TypeOK, FileJob, others, At, WellFormed, CallOK, IntakeOps
<1>13. ASSUME NEW c \in Calls, Enqueue(c) PROVE TypeOK'
  <2>1. call' \in [Calls -> CallType]
    BY <1>13, GotoType DEF Enqueue, Steps
  <2>2. job' \in [Jobs -> JobType]
    BY <1>13 DEF TypeOK, Enqueue, JobType
  <2> QED
    BY <1>13, <2>1, <2>2 DEF TypeOK, Enqueue, others
<1>14. ASSUME NEW c \in Calls, DispatchFails(c) PROVE TypeOK'
  <2>1. call' \in [Calls -> CallType] /\ line' \in [Items -> Seq(Calls)]
    BY <1>14, InLineType, LeavesType, StepOfCall
       DEF DispatchFails, Fails, PastWait, Resolving, At
  <2>2. job' \in [Jobs -> JobType]
    BY <1>14 DEF TypeOK, DispatchFails, JobType
  <2> QED
    BY <1>14, <2>1, <2>2 DEF TypeOK, DispatchFails, others, Fails, Leaves
<1>15. ASSUME NEW c \in Calls, Unlink(c) PROVE TypeOK'
  <2>1. call' \in [Calls -> CallType]
    BY <1>15, GotoType DEF Unlink, Steps
  <2> QED
    BY <1>15, <2>1 DEF TypeOK, Unlink, others
<1>16. ASSUME NEW c \in Calls, MarkResolved(c) PROVE TypeOK'
  <2>1. call' \in [Calls -> CallType] /\ line' \in [Items -> Seq(Calls)]
    BY <1>16, InLineType, LeavesType, StepOfCall
       DEF MarkResolved, Fails, PastWait, Resolving, At
  <2>2. Verdict(call[c].op) \in Statuses
    BY <1>16, StepOfCall
       DEF TypeOK, MarkResolved, At, Statuses, Resolved, Verdict
  <2>3. item' \in [Items -> ItemType]
    BY <1>16, <2>2 DEF TypeOK, MarkResolved, ItemType
  <2> QED
    BY <1>16, <2>1, <2>2, <2>3 DEF TypeOK, MarkResolved, others, Fails, Leaves
<1>17. ASSUME NEW c \in Calls, NEW j \in Jobs, DeleteJob(c, j) PROVE TypeOK'
  <2>1. job[j].item \in Items \union {0} /\ job[j].filed \in BOOLEAN
    BY <1>17 DEF TypeOK, JobType
  <2>2. call' \in [Calls -> CallType] /\ budget' \in 0 .. MaxCalls
    BY <1>17, <2>1, BeginType DEF DeleteJob, Steps, IntakeOps, LogOps
  <2>3. job' \in [Jobs -> JobType]
    BY <1>17 DEF TypeOK, DeleteJob, JobType, JobRows
  <2> QED
    BY <1>17, <2>1, <2>2, <2>3 DEF TypeOK, DeleteJob, rest
<1>18. ASSUME NEW c \in Calls, CountReferences(c) PROVE TypeOK'
  <2>1. call' \in [Calls -> CallType]
    BY <1>18, GotoType, AnsweredType DEF CountReferences, Steps
  <2> QED
    BY <1>18, <2>1 DEF TypeOK, CountReferences, rest
<1>19. ASSUME NEW c \in Calls, DeleteFile(c) PROVE TypeOK'
  <2>1. call' \in [Calls -> CallType]
    BY <1>19, AnsweredType DEF DeleteFile
  <2> QED
    BY <1>19, <2>1 DEF TypeOK, DeleteFile, rest
<1>20. ASSUME NEW c \in Calls, CreateLog(c) PROVE TypeOK'
  <2>1. call' \in [Calls -> CallType] /\ budget' \in 0 .. MaxCalls
    BY <1>20, BeginType DEF CreateLog, Steps, IntakeOps, LogOps
  <2> QED
    BY <1>20, <2>1 DEF TypeOK, CreateLog, inbox
<1>21. ASSUME NEW c \in Calls, InsertLog(c) PROVE TypeOK'
  <2>1. call' \in [Calls -> CallType]
    BY <1>21, AnsweredType, GotoIdType DEF InsertLog, Steps
  <2>2. log' \in [Logs -> LogStates]
    BY <1>21 DEF InsertLog, TypeOK, LogStates
  <2> QED
    BY <1>21, <2>1, <2>2 DEF TypeOK, InsertLog, inbox
<1>22. ASSUME NEW c \in Calls, SetReason(c) PROVE TypeOK'
  <2>1. call' \in [Calls -> CallType]
    BY <1>22, AnsweredType DEF SetReason
  <2> QED
    BY <1>22, <2>1 DEF TypeOK, SetReason, inbox
<1>23. ASSUME NEW c \in Calls, NEW l \in Logs, CompleteLog(c, l) PROVE TypeOK'
  <2>1. call' \in [Calls -> CallType] /\ budget' \in 0 .. MaxCalls
    BY <1>23, BeginType DEF CompleteLog, Steps, IntakeOps, LogOps
  <2> QED
    BY <1>23, <2>1 DEF TypeOK, CompleteLog, inbox
<1>24. ASSUME NEW c \in Calls, SaveCompleted(c) PROVE TypeOK'
  <2>1. call' \in [Calls -> CallType]
    BY <1>24, GotoType DEF SaveCompleted, Steps
  <2>2. log' \in [Logs -> LogStates]
    BY <1>24 DEF TypeOK, SaveCompleted, LogStates
  <2> QED
    BY <1>24, <2>1, <2>2 DEF TypeOK, SaveCompleted, inbox
<1>25. ASSUME NEW c \in Calls, NEW l \in Logs, DeleteLog(c, l) PROVE TypeOK'
  <2>1. call' \in [Calls -> CallType] /\ budget' \in 0 .. MaxCalls
    BY <1>25, BeginType DEF DeleteLog, Steps, IntakeOps, LogOps
  <2> QED
    BY <1>25, <2>1 DEF TypeOK, DeleteLog, inbox
<1>26. ASSUME NEW c \in Calls, ClearReason(c) PROVE TypeOK'
  <2>1. call' \in [Calls -> CallType]
    BY <1>26, GotoType, AnsweredType DEF ClearReason, Steps
  <2> QED
    BY <1>26, <2>1 DEF TypeOK, ClearReason, inbox
<1>27. ASSUME NEW c \in Calls, RemoveLog(c) PROVE TypeOK'
  <2>1. call' \in [Calls -> CallType]
    BY <1>27, AnsweredType DEF RemoveLog
  <2>2. log' \in [Logs -> LogStates]
    BY <1>27 DEF TypeOK, RemoveLog, LogStates
  <2> QED
    BY <1>27, <2>1, <2>2 DEF TypeOK, RemoveLog, inbox
<1>28. CASE Crash
  <2>1. call' \in [Calls -> CallType]
    BY <1>28 DEF Crash, CallType, Idle
  <2>2. line' \in [Items -> Seq(Calls)]
    BY <1>28 DEF Crash
  <2>3. budget' \in 0 .. MaxCalls
    BY <1>28, SizesAssumption DEF TypeOK, Crash
  <2>4. torn' \subseteq Items
    BY <1>28 DEF TypeOK, Crash, WellFormed, CallOK, IntakeOps
  <2> QED
    BY <1>28, <2>1, <2>2, <2>3, <2>4 DEF TypeOK, Crash
<1>29. CASE Boot
  BY <1>29 DEF TypeOK, Boot, InMaintenance
<1>30. CASE UNCHANGED vars
  BY <1>30 DEF TypeOK, vars
<1>31. CASE OverrideReason
  <2>1. up' = up /\ budget' = budget - 1 /\ budget > 0
    BY <1>31 DEF OverrideReason, inbox
  <2>2. reason' \in BOOLEAN /\ blanked' \in BOOLEAN
    BY <1>31, Zenon DEF OverrideReason
  <2> QED
    BY <1>31, <2>1, <2>2, SizesAssumption DEF TypeOK, OverrideReason, inbox
<1> QED
  BY <1>1, <1>2, <1>3, <1>4, <1>5, <1>6, <1>7, <1>8, <1>9, <1>10, <1>11, <1>12,
     <1>13, <1>14, <1>15, <1>16, <1>17, <1>18, <1>19, <1>20, <1>21, <1>22,
     <1>23, <1>24, <1>25, <1>26, <1>27, <1>28, <1>29, <1>30, <1>31
     DEF Next, Request, CallStep, IntakeStep, DeletionStep, LogStep

(* A step of a call follows its operation's order.                         *)
LEMMA StepWellFormed == TypeOK /\ WellFormed /\ Locked /\ [Next]_vars => WellFormed'
<1> SUFFICES ASSUME TypeOK, WellFormed, Locked, [Next]_vars PROVE WellFormed'
  OBVIOUS
<1> USE
  DEF Begin, At, Goto, Answered, others, rest, inbox, JobRows, Idle, NoJob,
    NewItem
<1>1. ASSUME NEW c \in Calls, NEW i \in Items, Upload(c, i) PROVE WellFormed'
  BY <1>1
     DEF Upload, TypeOK, WellFormed, CallOK, CallType, JobType, ItemType,
         IntakeOps
<1>2. ASSUME NEW c \in Calls, Stage(c) PROVE WellFormed'
  BY <1>2
     DEF Stage, TypeOK, WellFormed, CallOK, CallType, JobType, ItemType,
         IntakeOps
<1>3. ASSUME NEW c \in Calls, SaveUpload(c) PROVE WellFormed'
  BY <1>3
     DEF SaveUpload, TypeOK, WellFormed, CallOK, CallType, JobType, ItemType,
         IntakeOps
<1>4. ASSUME NEW c \in Calls, UploadFails(c) PROVE WellFormed'
  BY <1>4
     DEF UploadFails, TypeOK, WellFormed, CallOK, CallType, JobType, ItemType,
         IntakeOps
<1>5. ASSUME NEW c \in Calls, NEW op \in IntakeOps \ {"upload"},
             NEW i \in Items, Resolve(c, op, i)
      PROVE WellFormed'
  BY <1>5
     DEF Resolve, TypeOK, WellFormed, CallOK, CallType, JobType, ItemType,
         IntakeOps
<1>6. ASSUME NEW c \in Calls, Take(c) PROVE WellFormed'
  <2>1. \A d \in Calls : d # c => call'[d] = call[d]
    BY <1>6 DEF Take, TypeOK
  <2>2. CallOK(call'[c])
    BY <1>6, StepOfCall
       DEF Take, TypeOK, WellFormed, CallOK, CallType, IntakeOps, Resolving
  <2>3. \A j \in JobRows' : job'[j].item \in Items
    BY <1>6, StepOfCall DEF Take, TypeOK, WellFormed, CallOK, JobType, IntakeOps
  <2>4. \A i \in Items : item'[i].st = "none" => item'[i] = NewItem
    BY <1>6 DEF Take, WellFormed
  <2> QED
    BY <2>1, <2>2, <2>3, <2>4 DEF WellFormed, CallOK
<1>7. ASSUME NEW c \in Calls, Refuse(c) PROVE WellFormed'
  BY <1>7
     DEF Refuse, TypeOK, WellFormed, CallOK, CallType, JobType, ItemType,
         IntakeOps, Fails, Leaves
<1>8. ASSUME NEW c \in Calls, Promote(c) PROVE WellFormed'
  BY <1>8
     DEF Promote, TypeOK, WellFormed, CallOK, CallType, JobType, ItemType,
         IntakeOps
<1>9. ASSUME NEW c \in Calls, PromoteFails(c) PROVE WellFormed'
  BY <1>9
     DEF PromoteFails, TypeOK, WellFormed, CallOK, CallType, JobType, ItemType,
         IntakeOps, Fails, Leaves
<1>10. ASSUME NEW c \in Calls, SaveMarker(c) PROVE WellFormed'
  <2>1. \A d \in Calls : d # c => call'[d] = call[d]
    BY <1>10 DEF SaveMarker, TypeOK
  <2>2. CallOK(call'[c])
    BY <1>10, StepOfCall
       DEF SaveMarker, TypeOK, WellFormed, CallOK, CallType, IntakeOps,
           Resolving
  <2>3. \A j \in JobRows' : job'[j].item \in Items
    BY <1>10, StepOfCall
       DEF SaveMarker, TypeOK, WellFormed, CallOK, JobType, IntakeOps
  <2>4. item[call[c].item].st # "none"
    BY <1>10, StepOfCall DEF SaveMarker, Locked, PastWait, Resolving
  <2>5. \A i \in Items : item'[i].st = "none" => item'[i] = NewItem
    BY <1>10, <2>4 DEF SaveMarker, TypeOK, WellFormed, ItemType
  <2> QED
    BY <2>1, <2>2, <2>3, <2>5 DEF WellFormed, CallOK
<1>11. ASSUME NEW c \in Calls, CreateJob(c) PROVE WellFormed'
  <2>1. \A d \in Calls : d # c => call'[d] = call[d]
    BY <1>11 DEF CreateJob, TypeOK
  <2>2. CallOK(call'[c])
    BY <1>11, StepOfCall
       DEF CreateJob, TypeOK, WellFormed, CallOK, CallType, IntakeOps, Resolving
  <2>3. \A j \in JobRows' : job'[j].item \in Items
    BY <1>11, StepOfCall
       DEF CreateJob, TypeOK, WellFormed, CallOK, JobType, IntakeOps
  <2>4. \A i \in Items : item'[i].st = "none" => item'[i] = NewItem
    BY <1>11 DEF CreateJob, WellFormed
  <2> QED
    BY <2>1, <2>2, <2>3, <2>4 DEF WellFormed, CallOK
<1>12. ASSUME NEW c \in Calls, FileJob(c) PROVE WellFormed'
  <2>1. \A d \in Calls : d # c => call'[d] = call[d]
    BY <1>12 DEF FileJob, TypeOK
  <2>2. CallOK(call'[c])
    BY <1>12, StepOfCall
       DEF FileJob, TypeOK, WellFormed, CallOK, CallType, IntakeOps, Resolving
  <2>3. \A j \in JobRows' : job'[j].item \in Items
    BY <1>12, StepOfCall
       DEF FileJob, TypeOK, WellFormed, CallOK, JobType, IntakeOps
  <2>4. \A i \in Items : item'[i].st = "none" => item'[i] = NewItem
    BY <1>12 DEF FileJob, WellFormed
  <2> QED
    BY <2>1, <2>2, <2>3, <2>4 DEF WellFormed, CallOK
<1>13. ASSUME NEW c \in Calls, Enqueue(c) PROVE WellFormed'
  <2>1. \A d \in Calls : d # c => call'[d] = call[d]
    BY <1>13 DEF Enqueue, TypeOK
  <2>2. CallOK(call'[c])
    BY <1>13, StepOfCall
       DEF Enqueue, TypeOK, WellFormed, CallOK, CallType, IntakeOps, Resolving
  <2>3. \A j \in JobRows' : job'[j].item \in Items
    BY <1>13, StepOfCall
       DEF Enqueue, TypeOK, WellFormed, CallOK, JobType, IntakeOps
  <2>4. \A i \in Items : item'[i].st = "none" => item'[i] = NewItem
    BY <1>13 DEF Enqueue, WellFormed
  <2> QED
    BY <2>1, <2>2, <2>3, <2>4 DEF WellFormed, CallOK
<1>14. ASSUME NEW c \in Calls, DispatchFails(c) PROVE WellFormed'
  BY <1>14
     DEF DispatchFails, TypeOK, WellFormed, CallOK, CallType, JobType, ItemType,
         IntakeOps, Fails, Leaves
<1>15. ASSUME NEW c \in Calls, Unlink(c) PROVE WellFormed'
  BY <1>15
     DEF Unlink, TypeOK, WellFormed, CallOK, CallType, JobType, ItemType,
         IntakeOps
<1>16. ASSUME NEW c \in Calls, MarkResolved(c) PROVE WellFormed'
  <2>1. \A d \in Calls : d # c => call'[d] = call[d]
    BY <1>16 DEF MarkResolved, TypeOK, Fails, Leaves
  <2>2. CallOK(call'[c])
    BY <1>16, StepOfCall
       DEF MarkResolved, TypeOK, WellFormed, CallOK, CallType, IntakeOps,
           Resolving, Fails, Leaves
  <2>3. \A j \in JobRows' : job'[j].item \in Items
    BY <1>16, StepOfCall
       DEF MarkResolved, TypeOK, WellFormed, CallOK, JobType, IntakeOps, Fails,
           Leaves
  <2>4. Verdict(call[c].op) # "none"
    BY <1>16, StepOfCall DEF MarkResolved, Verdict
  <2>5. \A i \in Items : item'[i].st = "none" => item'[i] = NewItem
    BY <1>16, <2>4 DEF MarkResolved, TypeOK, WellFormed, ItemType
  <2> QED
    BY <2>1, <2>2, <2>3, <2>5 DEF WellFormed, CallOK
<1>17. ASSUME NEW c \in Calls, NEW j \in Jobs, DeleteJob(c, j) PROVE WellFormed'
  BY <1>17
     DEF DeleteJob, TypeOK, WellFormed, CallOK, CallType, JobType, ItemType,
         IntakeOps
<1>18. ASSUME NEW c \in Calls, CountReferences(c) PROVE WellFormed'
  <2>1. \A d \in Calls : d # c => call'[d] = call[d]
    BY <1>18 DEF CountReferences, TypeOK
  <2>2. CallOK(call'[c])
    BY <1>18, StepOfCall
       DEF CountReferences, TypeOK, WellFormed, CallOK, CallType, IntakeOps,
           Resolving
  <2>3. \A j \in JobRows' : job'[j].item \in Items
    BY <1>18, StepOfCall
       DEF CountReferences, TypeOK, WellFormed, CallOK, JobType, IntakeOps
  <2>4. \A i \in Items : item'[i].st = "none" => item'[i] = NewItem
    BY <1>18 DEF CountReferences, WellFormed
  <2> QED
    BY <2>1, <2>2, <2>3, <2>4 DEF WellFormed, CallOK
<1>19. ASSUME NEW c \in Calls, DeleteFile(c) PROVE WellFormed'
  BY <1>19
     DEF DeleteFile, TypeOK, WellFormed, CallOK, CallType, JobType, ItemType,
         IntakeOps
<1>20. ASSUME NEW c \in Calls, CreateLog(c) PROVE WellFormed'
  BY <1>20
     DEF CreateLog, TypeOK, WellFormed, CallOK, CallType, JobType, ItemType,
         IntakeOps
<1>21. ASSUME NEW c \in Calls, InsertLog(c) PROVE WellFormed'
  <2>1. \A d \in Calls : d # c => call'[d] = call[d]
    BY <1>21 DEF InsertLog, TypeOK
  <2>2. CallOK(call'[c])
    BY <1>21, StepOfCall
       DEF InsertLog, TypeOK, WellFormed, CallOK, CallType, IntakeOps, Resolving
  <2>3. \A j \in JobRows' : job'[j].item \in Items
    BY <1>21, StepOfCall
       DEF InsertLog, TypeOK, WellFormed, CallOK, JobType, IntakeOps
  <2>4. \A i \in Items : item'[i].st = "none" => item'[i] = NewItem
    BY <1>21 DEF InsertLog, WellFormed
  <2> QED
    BY <2>1, <2>2, <2>3, <2>4 DEF WellFormed, CallOK
<1>22. ASSUME NEW c \in Calls, SetReason(c) PROVE WellFormed'
  BY <1>22
     DEF SetReason, TypeOK, WellFormed, CallOK, CallType, JobType, ItemType,
         IntakeOps
<1>23. ASSUME NEW c \in Calls, NEW l \in Logs, CompleteLog(c, l)
       PROVE WellFormed'
  BY <1>23
     DEF CompleteLog, TypeOK, WellFormed, CallOK, CallType, JobType, ItemType,
         IntakeOps, Active
<1>24. ASSUME NEW c \in Calls, SaveCompleted(c) PROVE WellFormed'
  BY <1>24
     DEF SaveCompleted, TypeOK, WellFormed, CallOK, CallType, JobType, ItemType,
         IntakeOps
<1>25. ASSUME NEW c \in Calls, NEW l \in Logs, DeleteLog(c, l) PROVE WellFormed'
  BY <1>25
     DEF DeleteLog, TypeOK, WellFormed, CallOK, CallType, JobType, ItemType,
         IntakeOps
<1>26. ASSUME NEW c \in Calls, ClearReason(c) PROVE WellFormed'
  <2>1. \A d \in Calls : d # c => call'[d] = call[d]
    BY <1>26 DEF ClearReason, TypeOK
  <2>2. CallOK(call'[c])
    BY <1>26, StepOfCall
       DEF ClearReason, TypeOK, WellFormed, CallOK, CallType, IntakeOps,
           Resolving
  <2>3. \A j \in JobRows' : job'[j].item \in Items
    BY <1>26, StepOfCall
       DEF ClearReason, TypeOK, WellFormed, CallOK, JobType, IntakeOps
  <2>4. \A i \in Items : item'[i].st = "none" => item'[i] = NewItem
    BY <1>26 DEF ClearReason, WellFormed
  <2> QED
    BY <2>1, <2>2, <2>3, <2>4 DEF WellFormed, CallOK
<1>27. ASSUME NEW c \in Calls, RemoveLog(c) PROVE WellFormed'
  BY <1>27
     DEF RemoveLog, TypeOK, WellFormed, CallOK, CallType, JobType, ItemType,
         IntakeOps
<1>28. CASE Crash
  BY <1>28
     DEF Crash, TypeOK, WellFormed, CallOK, CallType, JobType, ItemType,
         IntakeOps
<1>29. CASE Boot
  BY <1>29
     DEF Boot, TypeOK, WellFormed, CallOK, CallType, JobType, ItemType,
         IntakeOps
<1>30. CASE UNCHANGED vars
  BY <1>30 DEF vars, TypeOK, WellFormed, CallOK
<1>31. CASE OverrideReason
  BY <1>31 DEF OverrideReason, inbox, TypeOK, WellFormed, CallOK, CallType,
              JobType, ItemType, IntakeOps
<1> QED
  BY <1>1, <1>2, <1>3, <1>4, <1>5, <1>6, <1>7, <1>8, <1>9, <1>10, <1>11, <1>12,
     <1>13, <1>14, <1>15, <1>16, <1>17, <1>18, <1>19, <1>20, <1>21, <1>22,
     <1>23, <1>24, <1>25, <1>26, <1>27, <1>28, <1>29, <1>30, <1>31
     DEF Next, Request, CallStep, IntakeStep, DeletionStep, LogStep

(* When a call leaves, those past "wait" work on other items.              *)
LEMMA LeavesOthers ==
  ASSUME TypeOK, WellFormed, Locked, NEW c \in Calls,
         PastWait(c) \/ (call[c].op \in Resolving /\ HasTurn(c)), Leaves(c)
  PROVE  \A d \in Calls : PastWait(d)' =>
            /\ PastWait(d) /\ call'[d] = call[d]
            /\ call[d].item # call[c].item
            /\ line'[call[d].item] = line[call[d].item]
<1>1. Head(line[call[c].item]) = c
  BY DEF Locked, HasTurn, Mutex!Owns
<1>2. call' = [call EXCEPT ![c] = Idle]
  BY DEF Leaves, Answered
<1>3. ASSUME NEW d \in Calls, PastWait(d)'
      PROVE  d # c /\ call'[d] = call[d] /\ PastWait(d)
  BY <1>2, <1>3 DEF TypeOK, PastWait, Idle, Resolving
<1>4. ASSUME NEW d \in Calls, PastWait(d), d # c
      PROVE  call[d].item # call[c].item /\ call[d].item \in Items
  BY <1>1, <1>4 DEF Locked, PastWait, WellFormed, CallOK, IntakeOps, Resolving
<1> QED
  BY <1>3, <1>4 DEF TypeOK, Leaves

(* A step gives nobody the lock but Take, and Take only the head.          *)
LEMMA StepLocked == TypeOK /\ WellFormed /\ Locked /\ [Next]_vars => Locked'
<1> SUFFICES ASSUME TypeOK, WellFormed, Locked, [Next]_vars PROVE Locked'
  OBVIOUS
<1> USE DEF Begin, At, Goto, Answered, others, rest, inbox, Idle, NewItem
<1>1. ASSUME NEW c \in Calls, NEW i \in Items, Upload(c, i) PROVE Locked'
  BY <1>1 DEF Upload, TypeOK, Locked, PastWait, Resolving
<1>2. ASSUME NEW c \in Calls, Stage(c) PROVE Locked'
  BY <1>2 DEF Stage, TypeOK, Locked, PastWait, Resolving
<1>3. ASSUME NEW c \in Calls, SaveUpload(c) PROVE Locked'
  BY <1>3 DEF SaveUpload, TypeOK, Locked, PastWait, Resolving
<1>4. ASSUME NEW c \in Calls, UploadFails(c) PROVE Locked'
  BY <1>4 DEF UploadFails, TypeOK, Locked, PastWait, Resolving
<1>5. ASSUME NEW c \in Calls, NEW op \in IntakeOps \ {"upload"},
             NEW i \in Items, Resolve(c, op, i)
      PROVE Locked'
  <2>1. \A d \in Calls : PastWait(d)' => PastWait(d) /\ call'[d] = call[d]
    BY <1>5 DEF Resolve, TypeOK, PastWait
  <2>2. ASSUME NEW k \in Items, line[k] # <<>>
        PROVE line'[k] # <<>> /\ Head(line'[k]) = Head(line[k])
    <3>1. line[i] \in Seq(Calls) /\ line[k] \in Seq(Calls)
      BY <2>2 DEF TypeOK
    <3>2. line'[k] = IF k = i THEN Append(line[i], c) ELSE line[k]
      BY <1>5, <2>2 DEF Resolve, TypeOK
    <3>3. Append(line[i], c) # <<>> /\ Head(Append(line[i], c)) = IF line[i] = <<>> THEN c ELSE Head(line[i])
      BY <3>1, AppendProperties, HeadTailAppend
    <3> QED
      BY <2>2, <3>2, <3>3
  <2>3. \A d \in Calls : PastWait(d) => call[d].item \in Items
    BY DEF WellFormed, CallOK, PastWait, Resolving, IntakeOps
  <2> QED
    BY <1>5, <2>1, <2>2, <2>3 DEF Resolve, Locked
<1>6. ASSUME NEW c \in Calls, Take(c) PROVE Locked'
  <2>1. line[call[c].item] # <<>> /\ Head(line[call[c].item]) = c /\ item[call[c].item].st = "PENDING"
    BY <1>6 DEF Take, HasTurn, Mutex!Owns, Admitted
  <2>2. \A d \in Calls : call'[d].item = call[d].item /\ (d # c => call'[d] = call[d])
    BY <1>6 DEF Take, TypeOK, CallType
  <2> QED
    BY <1>6, <2>1, <2>2 DEF Take, Locked, PastWait
<1>7. ASSUME NEW c \in Calls, Refuse(c) PROVE Locked'
  <2>1. PastWait(c) \/ (call[c].op \in Resolving /\ HasTurn(c))
    BY <1>7, StepOfCall DEF Refuse, PastWait, Resolving
  <2>2. Leaves(c)
    BY <1>7 DEF Refuse, Fails
  <2>3. \A d \in Calls : PastWait(d)' => PastWait(d) /\ call[d].item # call[c].item
    BY <1>7, <2>1, <2>2, LeavesOthers
  <2>4. \A d \in Calls : PastWait(d)' => PastWait(d) /\ item'[call[d].item] = item[call[d].item]
    BY <1>7, <2>3 DEF Refuse
  <2> QED
    BY <2>1, <2>2, <2>4, LeavesOthers DEF Locked
<1>8. ASSUME NEW c \in Calls, Promote(c) PROVE Locked'
  <2>1. PastWait(c)
    BY <1>8, StepOfCall DEF Promote, PastWait, Resolving
  <2>2. \A d \in Calls : call'[d].item = call[d].item /\ (d # c => call'[d] = call[d])
    BY <1>8 DEF Promote, TypeOK, CallType
  <2>3. \A d \in Calls : PastWait(d)' => PastWait(d)
    BY <2>1, <2>2 DEF PastWait
  <2>4. \A k \in Items : item'[k].st = item[k].st
    BY <1>8 DEF Promote, TypeOK, ItemType
  <2>5. \A d \in Calls : PastWait(d) => call[d].item \in Items
    BY DEF WellFormed, CallOK, PastWait, Resolving, IntakeOps
  <2> QED
    BY <1>8, <2>2, <2>3, <2>4, <2>5 DEF Promote, Locked
<1>9. ASSUME NEW c \in Calls, PromoteFails(c) PROVE Locked'
  <2>1. PastWait(c) \/ (call[c].op \in Resolving /\ HasTurn(c))
    BY <1>9, StepOfCall DEF PromoteFails, PastWait, Resolving
  <2>2. Leaves(c)
    BY <1>9 DEF PromoteFails, Fails
  <2>3. \A d \in Calls : PastWait(d)' => PastWait(d) /\ call[d].item # call[c].item
    BY <1>9, <2>1, <2>2, LeavesOthers
  <2>4. \A d \in Calls : PastWait(d)' => PastWait(d) /\ item'[call[d].item] = item[call[d].item]
    BY <1>9, <2>3 DEF PromoteFails
  <2> QED
    BY <2>1, <2>2, <2>4, LeavesOthers DEF Locked
<1>10. ASSUME NEW c \in Calls, SaveMarker(c) PROVE Locked'
  <2>1. PastWait(c)
    BY <1>10, StepOfCall DEF SaveMarker, PastWait, Resolving
  <2>2. \A d \in Calls : call'[d].item = call[d].item /\ (d # c => call'[d] = call[d])
    BY <1>10 DEF SaveMarker, TypeOK, CallType
  <2>3. \A d \in Calls : PastWait(d)' => PastWait(d)
    BY <2>1, <2>2 DEF PastWait
  <2>4. \A k \in Items : item'[k].st = item[k].st
    BY <1>10 DEF SaveMarker, TypeOK, ItemType
  <2>5. \A d \in Calls : PastWait(d) => call[d].item \in Items
    BY DEF WellFormed, CallOK, PastWait, Resolving, IntakeOps
  <2> QED
    BY <1>10, <2>2, <2>3, <2>4, <2>5 DEF SaveMarker, Locked
<1>11. ASSUME NEW c \in Calls, CreateJob(c) PROVE Locked'
  <2>1. PastWait(c)
    BY <1>11, StepOfCall DEF CreateJob, PastWait, Resolving
  <2>2. \A d \in Calls : call'[d].item = call[d].item /\ (d # c => call'[d] = call[d])
    BY <1>11 DEF CreateJob, TypeOK, CallType
  <2>3. \A d \in Calls : PastWait(d)' => PastWait(d)
    BY <2>1, <2>2 DEF PastWait
  <2>4. \A k \in Items : item'[k].st = item[k].st
    BY <1>11 DEF CreateJob, TypeOK, ItemType
  <2>5. \A d \in Calls : PastWait(d) => call[d].item \in Items
    BY DEF WellFormed, CallOK, PastWait, Resolving, IntakeOps
  <2> QED
    BY <1>11, <2>2, <2>3, <2>4, <2>5 DEF CreateJob, Locked
<1>12. ASSUME NEW c \in Calls, FileJob(c) PROVE Locked'
  <2>1. PastWait(c)
    BY <1>12, StepOfCall DEF FileJob, PastWait, Resolving
  <2>2. \A d \in Calls : call'[d].item = call[d].item /\ (d # c => call'[d] = call[d])
    BY <1>12 DEF FileJob, TypeOK, CallType
  <2>3. \A d \in Calls : PastWait(d)' => PastWait(d)
    BY <2>1, <2>2 DEF PastWait
  <2>4. \A k \in Items : item'[k].st = item[k].st
    BY <1>12 DEF FileJob, TypeOK, ItemType
  <2>5. \A d \in Calls : PastWait(d) => call[d].item \in Items
    BY DEF WellFormed, CallOK, PastWait, Resolving, IntakeOps
  <2> QED
    BY <1>12, <2>2, <2>3, <2>4, <2>5 DEF FileJob, Locked
<1>13. ASSUME NEW c \in Calls, Enqueue(c) PROVE Locked'
  <2>1. PastWait(c)
    BY <1>13, StepOfCall DEF Enqueue, PastWait, Resolving
  <2>2. \A d \in Calls : call'[d].item = call[d].item /\ (d # c => call'[d] = call[d])
    BY <1>13 DEF Enqueue, TypeOK, CallType
  <2>3. \A d \in Calls : PastWait(d)' => PastWait(d)
    BY <2>1, <2>2 DEF PastWait
  <2>4. \A k \in Items : item'[k].st = item[k].st
    BY <1>13 DEF Enqueue, TypeOK, ItemType
  <2>5. \A d \in Calls : PastWait(d) => call[d].item \in Items
    BY DEF WellFormed, CallOK, PastWait, Resolving, IntakeOps
  <2> QED
    BY <1>13, <2>2, <2>3, <2>4, <2>5 DEF Enqueue, Locked
<1>14. ASSUME NEW c \in Calls, DispatchFails(c) PROVE Locked'
  <2>1. PastWait(c) \/ (call[c].op \in Resolving /\ HasTurn(c))
    BY <1>14, StepOfCall DEF DispatchFails, PastWait, Resolving
  <2>2. Leaves(c)
    BY <1>14 DEF DispatchFails, Fails
  <2>3. \A d \in Calls : PastWait(d)' => PastWait(d) /\ call[d].item # call[c].item
    BY <1>14, <2>1, <2>2, LeavesOthers
  <2>4. \A d \in Calls : PastWait(d)' => PastWait(d) /\ item'[call[d].item] = item[call[d].item]
    BY <1>14, <2>3 DEF DispatchFails
  <2> QED
    BY <2>1, <2>2, <2>4, LeavesOthers DEF Locked
<1>15. ASSUME NEW c \in Calls, Unlink(c) PROVE Locked'
  <2>1. PastWait(c)
    BY <1>15, StepOfCall DEF Unlink, PastWait, Resolving
  <2>2. \A d \in Calls : call'[d].item = call[d].item /\ (d # c => call'[d] = call[d])
    BY <1>15 DEF Unlink, TypeOK, CallType
  <2>3. \A d \in Calls : PastWait(d)' => PastWait(d)
    BY <2>1, <2>2 DEF PastWait
  <2>4. \A k \in Items : item'[k].st = item[k].st
    BY <1>15 DEF Unlink, TypeOK, ItemType
  <2>5. \A d \in Calls : PastWait(d) => call[d].item \in Items
    BY DEF WellFormed, CallOK, PastWait, Resolving, IntakeOps
  <2> QED
    BY <1>15, <2>2, <2>3, <2>4, <2>5 DEF Unlink, Locked
<1>16. ASSUME NEW c \in Calls, MarkResolved(c) PROVE Locked'
  <2>1. PastWait(c) \/ (call[c].op \in Resolving /\ HasTurn(c))
    BY <1>16, StepOfCall DEF MarkResolved, PastWait, Resolving
  <2>2. Leaves(c)
    BY <1>16 DEF MarkResolved, Fails
  <2>3. \A d \in Calls : PastWait(d)' => PastWait(d) /\ call[d].item # call[c].item
    BY <1>16, <2>1, <2>2, LeavesOthers
  <2>4. \A d \in Calls : PastWait(d)' => PastWait(d) /\ item'[call[d].item] = item[call[d].item]
    BY <1>16, <2>3
       DEF MarkResolved, TypeOK, WellFormed, CallOK, PastWait, Resolving,
           IntakeOps
  <2> QED
    BY <2>1, <2>2, <2>4, LeavesOthers DEF Locked
<1>17. ASSUME NEW c \in Calls, NEW j \in Jobs, DeleteJob(c, j) PROVE Locked'
  BY <1>17 DEF DeleteJob, TypeOK, Locked, PastWait, Resolving
<1>18. ASSUME NEW c \in Calls, CountReferences(c) PROVE Locked'
  <2>1. call[c].op \notin Resolving
    BY <1>18, StepOfCall DEF CountReferences, Resolving
  <2>2. call'[c].op \in {call[c].op, "none"}
    BY <1>18 DEF CountReferences, TypeOK, CallType
  <2>3. \A d \in Calls : PastWait(d)' => d # c
    BY <2>1, <2>2 DEF PastWait, Resolving
  <2>4. \A d \in Calls : d # c => call'[d] = call[d]
    BY <1>18 DEF CountReferences, TypeOK
  <2> QED
    BY <1>18, <2>3, <2>4 DEF CountReferences, Locked, PastWait
<1>19. ASSUME NEW c \in Calls, DeleteFile(c) PROVE Locked'
  BY <1>19 DEF DeleteFile, TypeOK, Locked, PastWait, Resolving
<1>20. ASSUME NEW c \in Calls, CreateLog(c) PROVE Locked'
  BY <1>20 DEF CreateLog, TypeOK, Locked, PastWait, Resolving
<1>21. ASSUME NEW c \in Calls, InsertLog(c) PROVE Locked'
  <2>1. call[c].op \notin Resolving
    BY <1>21, StepOfCall DEF InsertLog, Resolving
  <2>2. call'[c].op \in {call[c].op, "none"}
    BY <1>21 DEF InsertLog, TypeOK, CallType
  <2>3. \A d \in Calls : PastWait(d)' => d # c
    BY <2>1, <2>2 DEF PastWait, Resolving
  <2>4. \A d \in Calls : d # c => call'[d] = call[d]
    BY <1>21 DEF InsertLog, TypeOK
  <2> QED
    BY <1>21, <2>3, <2>4 DEF InsertLog, Locked, PastWait
<1>22. ASSUME NEW c \in Calls, SetReason(c) PROVE Locked'
  BY <1>22 DEF SetReason, TypeOK, Locked, PastWait, Resolving
<1>23. ASSUME NEW c \in Calls, NEW l \in Logs, CompleteLog(c, l) PROVE Locked'
  BY <1>23 DEF CompleteLog, TypeOK, Locked, PastWait, Resolving
<1>24. ASSUME NEW c \in Calls, SaveCompleted(c) PROVE Locked'
  BY <1>24 DEF SaveCompleted, TypeOK, Locked, PastWait, Resolving
<1>25. ASSUME NEW c \in Calls, NEW l \in Logs, DeleteLog(c, l) PROVE Locked'
  BY <1>25 DEF DeleteLog, TypeOK, Locked, PastWait, Resolving
<1>26. ASSUME NEW c \in Calls, ClearReason(c) PROVE Locked'
  <2>1. call[c].op \notin Resolving
    BY <1>26, StepOfCall DEF ClearReason, Resolving
  <2>2. call'[c].op \in {call[c].op, "none"}
    BY <1>26 DEF ClearReason, TypeOK, CallType
  <2>3. \A d \in Calls : PastWait(d)' => d # c
    BY <2>1, <2>2 DEF PastWait, Resolving
  <2>4. \A d \in Calls : d # c => call'[d] = call[d]
    BY <1>26 DEF ClearReason, TypeOK
  <2> QED
    BY <1>26, <2>3, <2>4 DEF ClearReason, Locked, PastWait
<1>27. ASSUME NEW c \in Calls, RemoveLog(c) PROVE Locked'
  BY <1>27 DEF RemoveLog, TypeOK, Locked, PastWait, Resolving
<1>28. CASE Crash
  BY <1>28 DEF Crash, TypeOK, Locked, PastWait, Resolving
<1>29. CASE Boot
  BY <1>29 DEF Boot, TypeOK, Locked, PastWait, Resolving
<1>30. CASE UNCHANGED vars
  BY <1>30 DEF vars, Locked, PastWait
<1>31. CASE OverrideReason
  BY <1>31 DEF OverrideReason, inbox, TypeOK, Locked, PastWait, Resolving
<1> QED
  BY <1>1, <1>2, <1>3, <1>4, <1>5, <1>6, <1>7, <1>8, <1>9, <1>10, <1>11, <1>12,
     <1>13, <1>14, <1>15, <1>16, <1>17, <1>18, <1>19, <1>20, <1>21, <1>22,
     <1>23, <1>24, <1>25, <1>26, <1>27, <1>28, <1>29, <1>30, <1>31
     DEF Next, Request, CallStep, IntakeStep, DeletionStep, LogStep

----------------------------------------------------------------------------

TypedAndLocked == TypeOK /\ WellFormed /\ Locked

(* The types, the order of every operation's steps and the lock of every   *)
(* item hold throughout.                                                   *)
THEOREM TypesAndLock == Spec => []TypedAndLocked
<1>1. Init => TypedAndLocked
  BY InitTypes DEF TypedAndLocked
<1>2. TypedAndLocked /\ [Next]_vars => TypedAndLocked'
  BY StepType, StepWellFormed, StepLocked DEF TypedAndLocked
<1> QED
  BY <1>1, <1>2, PTL DEF Spec

(* Type correctness of the inbox.                                          *)
THEOREM InboxTypeCorrect == Spec => []TypeOK
<1>1. TypedAndLocked => TypeOK
  BY DEF TypedAndLocked
<1> QED
  BY <1>1, TypesAndLock, PTL

(* What ResolvedOnce says of a step.                                       *)
ResolutionStands ==
    \A i \in Items :
       item[i].st \in Resolved =>
          \/ item'[i].st = item[i].st
          \/ \E c \in Calls : call[c].op = "upload" /\ call[c].item = i

(* The four actions that write items: only the end of an upload can find   *)
(* the item resolved.                                                      *)
LEMMA ResolutionStep == TypedAndLocked /\ [Next]_vars => ResolutionStands
<1> SUFFICES ASSUME TypeOK, WellFormed, Locked, [Next]_vars PROVE ResolutionStands
  BY DEF TypedAndLocked
<1> USE DEF ResolutionStands
<1>1. ASSUME NEW c \in Calls, NEW i \in Items, Upload(c, i)
      PROVE ResolutionStands
  BY <1>1 DEF Upload, TypeOK, ItemType, NewItem, Resolved
<1>2. ASSUME NEW c \in Calls, Stage(c) PROVE ResolutionStands
  BY <1>2 DEF Stage, others
<1>3. ASSUME NEW c \in Calls, SaveUpload(c) PROVE ResolutionStands
  BY <1>3, StepOfCall DEF SaveUpload, TypeOK
<1>4. ASSUME NEW c \in Calls, UploadFails(c) PROVE ResolutionStands
  BY <1>4 DEF UploadFails, others
<1>5. ASSUME NEW c \in Calls, NEW op \in IntakeOps \ {"upload"},
             NEW i \in Items, Resolve(c, op, i)
      PROVE ResolutionStands
  BY <1>5 DEF Resolve, others
<1>6. ASSUME NEW c \in Calls, Take(c) PROVE ResolutionStands
  BY <1>6 DEF Take, others
<1>7. ASSUME NEW c \in Calls, Refuse(c) PROVE ResolutionStands
  BY <1>7 DEF Refuse, others
<1>8. ASSUME NEW c \in Calls, Promote(c) PROVE ResolutionStands
  BY <1>8 DEF Promote, others
<1>9. ASSUME NEW c \in Calls, PromoteFails(c) PROVE ResolutionStands
  BY <1>9 DEF PromoteFails, others
<1>10. ASSUME NEW c \in Calls, SaveMarker(c) PROVE ResolutionStands
  BY <1>10 DEF SaveMarker, TypeOK, ItemType
<1>11. ASSUME NEW c \in Calls, CreateJob(c) PROVE ResolutionStands
  BY <1>11 DEF CreateJob, others
<1>12. ASSUME NEW c \in Calls, FileJob(c) PROVE ResolutionStands
  BY <1>12 DEF FileJob, others
<1>13. ASSUME NEW c \in Calls, Enqueue(c) PROVE ResolutionStands
  BY <1>13 DEF Enqueue, others
<1>14. ASSUME NEW c \in Calls, DispatchFails(c) PROVE ResolutionStands
  BY <1>14 DEF DispatchFails, others
<1>15. ASSUME NEW c \in Calls, Unlink(c) PROVE ResolutionStands
  BY <1>15 DEF Unlink, others
<1>16. ASSUME NEW c \in Calls, MarkResolved(c) PROVE ResolutionStands
  <2>1. item[call[c].item].st = "PENDING"
    BY <1>16, StepOfCall DEF MarkResolved, Locked, PastWait, Resolving, At
  <2> QED
    BY <1>16, <2>1 DEF MarkResolved, TypeOK, Resolved
<1>17. ASSUME NEW c \in Calls, NEW j \in Jobs, DeleteJob(c, j)
       PROVE ResolutionStands
  BY <1>17 DEF DeleteJob, rest
<1>18. ASSUME NEW c \in Calls, CountReferences(c) PROVE ResolutionStands
  BY <1>18 DEF CountReferences, rest
<1>19. ASSUME NEW c \in Calls, DeleteFile(c) PROVE ResolutionStands
  BY <1>19 DEF DeleteFile, rest
<1>20. ASSUME NEW c \in Calls, CreateLog(c) PROVE ResolutionStands
  BY <1>20 DEF CreateLog, inbox
<1>21. ASSUME NEW c \in Calls, InsertLog(c) PROVE ResolutionStands
  BY <1>21 DEF InsertLog, inbox
<1>22. ASSUME NEW c \in Calls, SetReason(c) PROVE ResolutionStands
  BY <1>22 DEF SetReason, inbox
<1>23. ASSUME NEW c \in Calls, NEW l \in Logs, CompleteLog(c, l)
       PROVE ResolutionStands
  BY <1>23 DEF CompleteLog, inbox
<1>24. ASSUME NEW c \in Calls, SaveCompleted(c) PROVE ResolutionStands
  BY <1>24 DEF SaveCompleted, inbox
<1>25. ASSUME NEW c \in Calls, NEW l \in Logs, DeleteLog(c, l)
       PROVE ResolutionStands
  BY <1>25 DEF DeleteLog, inbox
<1>26. ASSUME NEW c \in Calls, ClearReason(c) PROVE ResolutionStands
  BY <1>26 DEF ClearReason, inbox
<1>27. ASSUME NEW c \in Calls, RemoveLog(c) PROVE ResolutionStands
  BY <1>27 DEF RemoveLog, inbox
<1>28. CASE Crash
  BY <1>28 DEF Crash
<1>29. CASE Boot
  BY <1>29 DEF Boot
<1>30. CASE UNCHANGED vars
  BY <1>30 DEF vars
<1>31. CASE OverrideReason
  BY <1>31 DEF OverrideReason, inbox
<1> QED
  BY <1>1, <1>2, <1>3, <1>4, <1>5, <1>6, <1>7, <1>8, <1>9, <1>10, <1>11, <1>12,
     <1>13, <1>14, <1>15, <1>16, <1>17, <1>18, <1>19, <1>20, <1>21, <1>22,
     <1>23, <1>24, <1>25, <1>26, <1>27, <1>28, <1>29, <1>30, <1>31
     DEF Next, Request, CallStep, IntakeStep, DeletionStep, LogStep

(* Every item is resolved once, with any number of operators.              *)
THEOREM ItemsResolvedOnce == Spec => ResolvedOnce
<1>1. TypedAndLocked /\ [Next]_vars => [ResolutionStands]_vars
  BY ResolutionStep
<1> QED
  BY <1>1, TypesAndLock, PTL DEF Spec, ResolvedOnce, ResolutionStands

----------------------------------------------------------------------------
(* An item keeps its bytes and gets one job.                               *)

(* A step of a call that works on no item.                                 *)
Elsewhere(c) ==
    \/ \E j \in Jobs : DeleteJob(c, j)
    \/ CreateLog(c)
    \/ \E l \in Logs : CompleteLog(c, l) \/ DeleteLog(c, l)
    \/ DeletionStep(c)
    \/ LogStep(c)

LEMMA ElsewhereStep ==
  ASSUME TypeOK, WellFormed, NEW c \in Calls, Elsewhere(c)
  PROVE  /\ \A d \in Calls : d # c => call'[d] = call[d]
         /\ call[c].op \notin IntakeOps /\ call'[c].op \notin IntakeOps
         /\ call'[c].at \notin {"promote", "job", "file", "queue", "resolve"}
         /\ item' = item /\ staged' = staged /\ torn' = torn
         /\ \A k \in JobRows' : k \in JobRows /\ job'[k] = job[k]
<1> DEFINE Framed ==
             /\ \A d \in Calls : d # c => call'[d] = call[d]
             /\ call[c].op \notin IntakeOps /\ call'[c].op \notin IntakeOps
             /\ call'[c].at \notin {"promote", "job", "file", "queue", "resolve"}
             /\ item' = item /\ staged' = staged /\ torn' = torn
             /\ \A k \in JobRows' : k \in JobRows /\ job'[k] = job[k]
<1> SUFFICES Framed
  OBVIOUS
<1> USE StepOfCall
  DEF Begin, Goto, Answered, Idle, IntakeOps, TypeOK, CallType, JobRows
<1>1. ASSUME NEW j \in Jobs, DeleteJob(c, j) PROVE Framed
  BY <1>1 DEF DeleteJob, rest
<1>2. CASE CountReferences(c)
  BY <1>2 DEF CountReferences, rest
<1>3. CASE DeleteFile(c)
  BY <1>3 DEF DeleteFile, rest
<1>4. CASE CreateLog(c)
  BY <1>4 DEF CreateLog, inbox
<1>5. CASE InsertLog(c)
  BY <1>5 DEF InsertLog, inbox
<1>6. CASE SetReason(c)
  BY <1>6 DEF SetReason, inbox
<1>7. ASSUME NEW l \in Logs, CompleteLog(c, l) PROVE Framed
  BY <1>7 DEF CompleteLog, inbox
<1>8. CASE SaveCompleted(c)
  BY <1>8 DEF SaveCompleted, inbox
<1>9. ASSUME NEW l \in Logs, DeleteLog(c, l) PROVE Framed
  BY <1>9 DEF DeleteLog, inbox
<1>10. CASE ClearReason(c)
  BY <1>10 DEF ClearReason, inbox
<1>11. CASE RemoveLog(c)
  BY <1>11 DEF RemoveLog, inbox
<1> QED
  BY <1>1, <1>2, <1>3, <1>4, <1>5, <1>6, <1>7, <1>8, <1>9, <1>10, <1>11
     DEF Elsewhere, DeletionStep, LogStep

(* Until an upload ends its row names no file, so that it can only be      *)
(* discarded, and the discard finds nothing to unlink.                     *)
Uploads ==
    \A c \in Calls : call[c].op = "upload" =>
       /\ item[call[c].item].st \in {"PENDING", "DISCARDED"}
       /\ ~ item[call[c].item].path /\ ~ item[call[c].item].marker
       /\ call[c].at = "save" => call[c].item \in staged
       /\ \A d \in Calls : call[d].op = "upload" /\ call[d].item = call[c].item => d = c
       /\ \A d \in Calls : PastWait(d) /\ call[d].item = call[c].item
                           => call[d].op = "discard" /\ ~ call[d].known

(* A promotion finds its file, and what follows it finds the marker.       *)
Promotions ==
    \A c \in Calls :
       /\ call[c].at = "promote" => Promotable(call[c].item)
       /\ call[c].at \in {"job", "file", "queue"} => item[call[c].item].marker
       /\ call[c].at = "resolve" /\ call[c].op = "dispatch" => item[call[c].item].marker

BytesInv == Uploads /\ Promotions /\ PendingHasBytes

LEMMA InitBytes == Init => BytesInv
  BY
     DEF Init, BytesInv, Uploads, Promotions, PendingHasBytes, Promotable, Idle,
         NewItem, IntakeOps

(* One call at a time is past "wait" on an item.                           *)
LEMMA OwnerIsUnique ==
  ASSUME Locked, NEW c \in Calls, NEW d \in Calls, PastWait(c), PastWait(d),
         call[c].item = call[d].item
  PROVE  c = d
  BY DEF Locked

(* A call is at work on an item from its turn until its answer.            *)
AtWork(c) == call[c].op \in IntakeOps /\ call[c].at # "wait"

(* A step of a call on an item leaves the other items as they are.         *)
LEMMA OtherItemsWait ==
  ASSUME TypeOK, PendingHasBytes, NEW c \in Calls, NEW k \in Items,
         \A d \in Calls : d # c => call'[d] = call[d],
         AtWork(c) => call[c].item = k,
         \A i \in Items : i # k => item'[i] = item[i] /\ (i \in staged => i \in staged'),
         torn \subseteq torn',
         \/ k \in torn'
         \/ item'[k].st # "PENDING"
         \/ item'[k].marker \/ Promotable(k)'
         \/ AtWork(c)' /\ call'[c].item = k
  PROVE  PendingHasBytes'
<1> SUFFICES ASSUME NEW i \in Items \ torn', item'[i].st = "PENDING",
                    \A d \in Calls : ~ (AtWork(d)' /\ call'[d].item = i)
             PROVE  item'[i].marker \/ Promotable(i)'
  BY DEF PendingHasBytes, AtWork
<1>1. CASE i = k
  BY <1>1
<1>2. CASE i # k
  <2>1. \A d \in Calls : ~ (AtWork(d) /\ call[d].item = i)
    BY <1>2 DEF AtWork
  <2>2. item[i].marker \/ Promotable(i)
    BY <1>2, <2>1 DEF PendingHasBytes, AtWork
  <2> QED
    BY <1>2, <2>2 DEF Promotable
<1> QED
  BY <1>1, <1>2

LEMMA ItemOfCall ==
  ASSUME WellFormed, NEW c \in Calls, call[c].op \in IntakeOps
  PROVE  call[c].item \in Items
  BY DEF WellFormed, CallOK

(* A resolution ends its call and changes the state and the path of its    *)
(* item.                                                                   *)
LEMMA ResolutionShape ==
  ASSUME TypeOK, WellFormed, NEW c \in Calls, MarkResolved(c)
  PROVE  /\ call[c].item \in Items /\ PastWait(c)
         /\ call'[c].op \notin IntakeOps /\ call'[c].at = "idle"
         /\ \A d \in Calls : d # c => call'[d] = call[d]
         /\ item'[call[c].item].st = Verdict(call[c].op)
         /\ ~ item'[call[c].item].path
         /\ item'[call[c].item].marker = item[call[c].item].marker
         /\ \A i \in Items : i # call[c].item => item'[i] = item[i]
         /\ staged' = staged
<1>1. call[c].op \in Resolving /\ call[c].at \in {"resolve", "promoted"}
  BY StepOfCall DEF MarkResolved, At, Resolving
<1>2. call[c].item \in Items
  BY <1>1, ItemOfCall DEF Resolving, IntakeOps
<1>3. /\ call'[c].op \notin IntakeOps /\ call'[c].at = "idle"
      /\ \A d \in Calls : d # c => call'[d] = call[d]
  BY DEF MarkResolved, Leaves, Answered, Idle, TypeOK, IntakeOps
<1>4. /\ item'[call[c].item].st = Verdict(call[c].op)
      /\ ~ item'[call[c].item].path
      /\ item'[call[c].item].marker = item[call[c].item].marker
      /\ \A i \in Items : i # call[c].item => item'[i] = item[i]
      /\ staged' = staged
  BY <1>2 DEF MarkResolved, TypeOK, ItemType
<1> QED
  BY <1>1, <1>2, <1>3, <1>4 DEF PastWait

LEMMA StepUploads == TypedAndLocked /\ BytesInv /\ [Next]_vars => Uploads'
<1> SUFFICES ASSUME TypeOK, WellFormed, Locked, Uploads, Promotions, PendingHasBytes, [Next]_vars
             PROVE  Uploads'
  BY DEF TypedAndLocked, BytesInv
<1>1. ASSUME NEW c \in Calls, NEW i \in Items, Upload(c, i) PROVE Uploads'
  <2>1. item[i].st = "none" /\ call[c] = Idle
    BY <1>1 DEF Upload, Begin, NewItem
  <2>2. \A d \in Calls : (call[d].op = "upload" \/ PastWait(d)) => call[d].item # i
    BY <2>1 DEF Uploads, Locked
  <2>3. item'[i].st = "PENDING" /\ ~ item'[i].path /\ ~ item'[i].marker
    BY <1>1 DEF Upload, NewItem, TypeOK, ItemType
  <2>4. \A k \in Items : k # i => item'[k] = item[k]
    BY <1>1 DEF Upload, TypeOK
  <2>5. call'[c].op = "upload" /\ call'[c].at = "stage" /\ call'[c].item = i
    BY <1>1 DEF Upload, Begin, TypeOK
  <2>6. \A d \in Calls : d # c => call'[d] = call[d]
    BY <1>1 DEF Upload, Begin, TypeOK
  <2>7. \A d \in Calls : call[d].op = "upload" => call[d].item \in Items
    BY ItemOfCall DEF IntakeOps
  <2>8. staged' = staged
    BY <1>1 DEF Upload
  <2> QED
    BY <2>2, <2>3, <2>4, <2>5, <2>6, <2>7, <2>8 DEF Uploads, PastWait, Resolving
<1>2. ASSUME NEW c \in Calls, Stage(c) PROVE Uploads'
  BY <1>2, StepOfCall, OwnerIsUnique, ItemOfCall
     DEF Stage, others, Begin, Goto, Answered, Idle, Fails, Leaves, Uploads, At,
         PastWait, Resolving, IntakeOps, TypeOK, CallType, ItemType, Locked,
         Admitted, Verdict
<1>3. ASSUME NEW c \in Calls, SaveUpload(c) PROVE Uploads'
  BY <1>3, StepOfCall, OwnerIsUnique, ItemOfCall
     DEF SaveUpload, others, Begin, Goto, Answered, Idle, Fails, Leaves,
         Uploads, At, PastWait, Resolving, IntakeOps, TypeOK, CallType,
         ItemType, Locked, Admitted, Verdict
<1>4. ASSUME NEW c \in Calls, UploadFails(c) PROVE Uploads'
  BY <1>4, StepOfCall, OwnerIsUnique, ItemOfCall
     DEF UploadFails, others, Begin, Goto, Answered, Idle, Fails, Leaves,
         Uploads, At, PastWait, Resolving, IntakeOps, TypeOK, CallType,
         ItemType, Locked, Admitted, Verdict
<1>5. ASSUME NEW c \in Calls, NEW op \in IntakeOps \ {"upload"},
             NEW i \in Items, Resolve(c, op, i)
      PROVE Uploads'
  <2>1. \A d \in Calls : d # c => call'[d] = call[d]
    BY <1>5 DEF Resolve, Begin, TypeOK
  <2>2. call[c] = Idle /\ call'[c].op # "upload" /\ call'[c].at = "wait"
    BY <1>5 DEF Resolve, Begin, TypeOK
  <2>3. item' = item /\ staged' = staged /\ torn' = torn
    BY <1>5 DEF Resolve, others
  <2> QED
    BY <2>1, <2>2, <2>3 DEF Uploads, PastWait, Promotable, Idle, IntakeOps
<1>6. ASSUME NEW c \in Calls, Take(c) PROVE Uploads'
  <2>1. \A d \in Calls : d # c => call'[d] = call[d]
    BY <1>6 DEF Take, TypeOK
  <2>2. call'[c].op = call[c].op /\ call'[c].item = call[c].item /\ call[c].op # "upload"
        /\ call'[c].known = item[call[c].item].path
    BY <1>6, StepOfCall DEF Take, TypeOK, CallType, Resolving
  <2>3. ASSUME NEW d \in Calls, call[d].op = "upload", call[d].item = call[c].item
        PROVE  call[c].op = "discard" /\ ~ call'[c].known
    BY <1>6, <2>2, <2>3, StepOfCall DEF Take, Uploads, Admitted, Promotable
  <2>4. item' = item /\ staged' = staged
    BY <1>6 DEF Take
  <2> QED
    BY <2>1, <2>2, <2>3, <2>4 DEF Uploads, PastWait, Resolving
<1>7. ASSUME NEW c \in Calls, Refuse(c) PROVE Uploads'
  BY <1>7, StepOfCall, OwnerIsUnique, ItemOfCall
     DEF Refuse, others, Begin, Goto, Answered, Idle, Fails, Leaves, Uploads,
         At, PastWait, Resolving, IntakeOps, TypeOK, CallType, ItemType, Locked,
         Admitted, Verdict
<1>8. ASSUME NEW c \in Calls, Promote(c) PROVE Uploads'
  BY <1>8, StepOfCall, OwnerIsUnique, ItemOfCall
     DEF Promote, others, Begin, Goto, Answered, Idle, Fails, Leaves, Uploads,
         At, PastWait, Resolving, IntakeOps, TypeOK, CallType, ItemType, Locked,
         Admitted, Verdict
<1>9. ASSUME NEW c \in Calls, PromoteFails(c) PROVE Uploads'
  BY <1>9, StepOfCall, OwnerIsUnique, ItemOfCall
     DEF PromoteFails, others, Begin, Goto, Answered, Idle, Fails, Leaves,
         Uploads, At, PastWait, Resolving, IntakeOps, TypeOK, CallType,
         ItemType, Locked, Admitted, Verdict
<1>10. ASSUME NEW c \in Calls, SaveMarker(c) PROVE Uploads'
  BY <1>10, StepOfCall, OwnerIsUnique, ItemOfCall
     DEF SaveMarker, others, Begin, Goto, Answered, Idle, Fails, Leaves,
         Uploads, At, PastWait, Resolving, IntakeOps, TypeOK, CallType,
         ItemType, Locked, Admitted, Verdict
<1>11. ASSUME NEW c \in Calls, CreateJob(c) PROVE Uploads'
  BY <1>11, StepOfCall, OwnerIsUnique, ItemOfCall
     DEF CreateJob, others, Begin, Goto, Answered, Idle, Fails, Leaves, Uploads,
         At, PastWait, Resolving, IntakeOps, TypeOK, CallType, ItemType, Locked,
         Admitted, Verdict
<1>12. ASSUME NEW c \in Calls, FileJob(c) PROVE Uploads'
  BY <1>12, StepOfCall, OwnerIsUnique, ItemOfCall
     DEF FileJob, others, Begin, Goto, Answered, Idle, Fails, Leaves, Uploads,
         At, PastWait, Resolving, IntakeOps, TypeOK, CallType, ItemType, Locked,
         Admitted, Verdict
<1>13. ASSUME NEW c \in Calls, Enqueue(c) PROVE Uploads'
  BY <1>13, StepOfCall, OwnerIsUnique, ItemOfCall
     DEF Enqueue, others, Begin, Goto, Answered, Idle, Fails, Leaves, Uploads,
         At, PastWait, Resolving, IntakeOps, TypeOK, CallType, ItemType, Locked,
         Admitted, Verdict
<1>14. ASSUME NEW c \in Calls, DispatchFails(c) PROVE Uploads'
  BY <1>14, StepOfCall, OwnerIsUnique, ItemOfCall
     DEF DispatchFails, others, Begin, Goto, Answered, Idle, Fails, Leaves,
         Uploads, At, PastWait, Resolving, IntakeOps, TypeOK, CallType,
         ItemType, Locked, Admitted, Verdict
<1>15. ASSUME NEW c \in Calls, Unlink(c) PROVE Uploads'
  BY <1>15, StepOfCall, OwnerIsUnique, ItemOfCall
     DEF Unlink, others, Begin, Goto, Answered, Idle, Fails, Leaves, Uploads,
         At, PastWait, Resolving, IntakeOps, TypeOK, CallType, ItemType, Locked,
         Admitted, Verdict
<1>16. ASSUME NEW c \in Calls, MarkResolved(c) PROVE Uploads'
  <2>1. ASSUME NEW d \in Calls, call[d].op = "upload", call[d].item = call[c].item
        PROVE  item'[call[d].item].st = "DISCARDED"
    BY <1>16, <2>1, ResolutionShape DEF Uploads, Verdict
  <2>2. \A d \in Calls : call[d].op = "upload" => call[d].item \in Items
    BY ItemOfCall DEF IntakeOps
  <2>3. ~ PastWait(c)' /\ call'[c].op # "upload"
    BY <1>16, ResolutionShape DEF PastWait, Resolving, IntakeOps
  <2> QED
    BY <1>16, <2>1, <2>2, <2>3, ResolutionShape DEF Uploads, PastWait
<1>17. CASE Crash
  BY <1>17 DEF Crash, Uploads, Idle, IntakeOps, PastWait, Resolving, TypeOK
<1>18. CASE Boot
  BY <1>18 DEF Boot, Uploads, PastWait
<1>19. ASSUME NEW c \in Calls, Elsewhere(c) PROVE Uploads'
  BY <1>19, ElsewhereStep DEF Uploads, PastWait, Resolving, IntakeOps
<1>20. CASE UNCHANGED vars
  BY <1>20 DEF vars, Uploads, PastWait
<1>21. CASE OverrideReason
  BY <1>21 DEF OverrideReason, inbox, Uploads, PastWait
<1> QED
  BY <1>1, <1>2, <1>3, <1>4, <1>5, <1>6, <1>7, <1>8, <1>9, <1>10, <1>11, <1>12,
     <1>13, <1>14, <1>15, <1>16, <1>17, <1>18, <1>19, <1>20, <1>21
     DEF Next, Request, CallStep, IntakeStep, DeletionStep, LogStep, Elsewhere

LEMMA StepPromotions == TypedAndLocked /\ BytesInv /\ [Next]_vars => Promotions'
<1> SUFFICES ASSUME TypeOK, WellFormed, Locked, Uploads, Promotions, PendingHasBytes, [Next]_vars
             PROVE  Promotions'
  BY DEF TypedAndLocked, BytesInv
<1>1. ASSUME NEW c \in Calls, NEW i \in Items, Upload(c, i) PROVE Promotions'
  BY <1>1, StepOfCall, OwnerIsUnique, ItemOfCall
     DEF Upload, others, Begin, Goto, Answered, Idle, Fails, Leaves, Promotions,
         Promotable, Uploads, At, PastWait, Resolving, IntakeOps, TypeOK,
         CallType, ItemType, Locked, Admitted, Verdict
<1>2. ASSUME NEW c \in Calls, Stage(c) PROVE Promotions'
  BY <1>2, StepOfCall, OwnerIsUnique, ItemOfCall
     DEF Stage, others, Begin, Goto, Answered, Idle, Fails, Leaves, Promotions,
         Promotable, Uploads, At, PastWait, Resolving, IntakeOps, TypeOK,
         CallType, ItemType, Locked, Admitted, Verdict
<1>3. ASSUME NEW c \in Calls, SaveUpload(c) PROVE Promotions'
  BY <1>3, StepOfCall, OwnerIsUnique, ItemOfCall
     DEF SaveUpload, others, Begin, Goto, Answered, Idle, Fails, Leaves,
         Promotions, Promotable, Uploads, At, PastWait, Resolving, IntakeOps,
         TypeOK, CallType, ItemType, Locked, Admitted, Verdict
<1>4. ASSUME NEW c \in Calls, UploadFails(c) PROVE Promotions'
  BY <1>4, StepOfCall, OwnerIsUnique, ItemOfCall
     DEF UploadFails, others, Begin, Goto, Answered, Idle, Fails, Leaves,
         Promotions, Promotable, Uploads, At, PastWait, Resolving, IntakeOps,
         TypeOK, CallType, ItemType, Locked, Admitted, Verdict
<1>5. ASSUME NEW c \in Calls, NEW op \in IntakeOps \ {"upload"},
             NEW i \in Items, Resolve(c, op, i)
      PROVE Promotions'
  BY <1>5, StepOfCall, OwnerIsUnique, ItemOfCall
     DEF Resolve, others, Begin, Goto, Answered, Idle, Fails, Leaves,
         Promotions, Promotable, Uploads, At, PastWait, Resolving, IntakeOps,
         TypeOK, CallType, ItemType, Locked, Admitted, Verdict
<1>6. ASSUME NEW c \in Calls, Take(c) PROVE Promotions'
  BY <1>6, StepOfCall, OwnerIsUnique, ItemOfCall
     DEF Take, others, Begin, Goto, Answered, Idle, Fails, Leaves, Promotions,
         Promotable, Uploads, At, PastWait, Resolving, IntakeOps, TypeOK,
         CallType, ItemType, Locked, Admitted, Verdict
<1>7. ASSUME NEW c \in Calls, Refuse(c) PROVE Promotions'
  BY <1>7, StepOfCall, OwnerIsUnique, ItemOfCall
     DEF Refuse, others, Begin, Goto, Answered, Idle, Fails, Leaves, Promotions,
         Promotable, Uploads, At, PastWait, Resolving, IntakeOps, TypeOK,
         CallType, ItemType, Locked, Admitted, Verdict
<1>8. ASSUME NEW c \in Calls, Promote(c) PROVE Promotions'
  BY <1>8, StepOfCall, OwnerIsUnique, ItemOfCall
     DEF Promote, others, Begin, Goto, Answered, Idle, Fails, Leaves,
         Promotions, Promotable, Uploads, At, PastWait, Resolving, IntakeOps,
         TypeOK, CallType, ItemType, Locked, Admitted, Verdict
<1>9. ASSUME NEW c \in Calls, PromoteFails(c) PROVE Promotions'
  BY <1>9, StepOfCall, OwnerIsUnique, ItemOfCall
     DEF PromoteFails, others, Begin, Goto, Answered, Idle, Fails, Leaves,
         Promotions, Promotable, Uploads, At, PastWait, Resolving, IntakeOps,
         TypeOK, CallType, ItemType, Locked, Admitted, Verdict
<1>10. ASSUME NEW c \in Calls, SaveMarker(c) PROVE Promotions'
  BY <1>10, StepOfCall, OwnerIsUnique, ItemOfCall
     DEF SaveMarker, others, Begin, Goto, Answered, Idle, Fails, Leaves,
         Promotions, Promotable, Uploads, At, PastWait, Resolving, IntakeOps,
         TypeOK, CallType, ItemType, Locked, Admitted, Verdict
<1>11. ASSUME NEW c \in Calls, CreateJob(c) PROVE Promotions'
  BY <1>11, StepOfCall, OwnerIsUnique, ItemOfCall
     DEF CreateJob, others, Begin, Goto, Answered, Idle, Fails, Leaves,
         Promotions, Promotable, Uploads, At, PastWait, Resolving, IntakeOps,
         TypeOK, CallType, ItemType, Locked, Admitted, Verdict
<1>12. ASSUME NEW c \in Calls, FileJob(c) PROVE Promotions'
  BY <1>12, StepOfCall, OwnerIsUnique, ItemOfCall
     DEF FileJob, others, Begin, Goto, Answered, Idle, Fails, Leaves,
         Promotions, Promotable, Uploads, At, PastWait, Resolving, IntakeOps,
         TypeOK, CallType, ItemType, Locked, Admitted, Verdict
<1>13. ASSUME NEW c \in Calls, Enqueue(c) PROVE Promotions'
  BY <1>13, StepOfCall, OwnerIsUnique, ItemOfCall
     DEF Enqueue, others, Begin, Goto, Answered, Idle, Fails, Leaves,
         Promotions, Promotable, Uploads, At, PastWait, Resolving, IntakeOps,
         TypeOK, CallType, ItemType, Locked, Admitted, Verdict
<1>14. ASSUME NEW c \in Calls, DispatchFails(c) PROVE Promotions'
  BY <1>14, StepOfCall, OwnerIsUnique, ItemOfCall
     DEF DispatchFails, others, Begin, Goto, Answered, Idle, Fails, Leaves,
         Promotions, Promotable, Uploads, At, PastWait, Resolving, IntakeOps,
         TypeOK, CallType, ItemType, Locked, Admitted, Verdict
<1>15. ASSUME NEW c \in Calls, Unlink(c) PROVE Promotions'
  BY <1>15, StepOfCall, OwnerIsUnique, ItemOfCall
     DEF Unlink, others, Begin, Goto, Answered, Idle, Fails, Leaves, Promotions,
         Promotable, Uploads, At, PastWait, Resolving, IntakeOps, TypeOK,
         CallType, ItemType, Locked, Admitted, Verdict
<1>16. ASSUME NEW c \in Calls, MarkResolved(c) PROVE Promotions'
  <2>1. ASSUME NEW d \in Calls, d # c, call[d].at \in {"promote", "job", "file", "queue", "resolve"}
        PROVE  call[d].item \in Items /\ call[d].item # call[c].item
    <3>1. PastWait(d) /\ call[d].item \in Items
      BY <2>1, StepOfCall, ItemOfCall DEF PastWait, Resolving, IntakeOps, At
    <3> QED
      BY <1>16, <2>1, <3>1, ResolutionShape, OwnerIsUnique
  <2> QED
    BY <1>16, <2>1, ResolutionShape DEF Promotions, Promotable
<1>17. CASE Crash
  BY <1>17
     DEF Crash, Promotions, Promotable, Uploads, Idle, IntakeOps, PastWait,
         Resolving, TypeOK
<1>18. CASE Boot
  BY <1>18 DEF Boot, Promotions, Promotable, Uploads, PastWait
<1>19. ASSUME NEW c \in Calls, Elsewhere(c) PROVE Promotions'
  BY <1>19, ElsewhereStep DEF Promotions, Promotable
<1>20. CASE UNCHANGED vars
  BY <1>20 DEF vars, Promotions, Promotable, Uploads, PastWait
<1>21. CASE OverrideReason
  BY <1>21 DEF OverrideReason, inbox, Promotions, Promotable, Uploads,
              PastWait
<1> QED
  BY <1>1, <1>2, <1>3, <1>4, <1>5, <1>6, <1>7, <1>8, <1>9, <1>10, <1>11, <1>12,
     <1>13, <1>14, <1>15, <1>16, <1>17, <1>18, <1>19, <1>20, <1>21
     DEF Next, Request, CallStep, IntakeStep, DeletionStep, LogStep, Elsewhere

LEMMA StepPendingHasBytes == TypedAndLocked /\ BytesInv /\ [Next]_vars => PendingHasBytes'
<1> SUFFICES ASSUME TypeOK, WellFormed, Locked, Uploads, Promotions, PendingHasBytes, [Next]_vars
             PROVE  PendingHasBytes'
  BY DEF TypedAndLocked, BytesInv
<1>1. ASSUME NEW c \in Calls, NEW i \in Items, Upload(c, i)
      PROVE PendingHasBytes'
  <2>1. call[c] = Idle /\ call'[c].item = i /\ AtWork(c)'
    BY <1>1 DEF Upload, Begin, AtWork, IntakeOps, TypeOK
  <2>2. \A d \in Calls : d # c => call'[d] = call[d]
    BY <1>1 DEF Upload, Begin, TypeOK
  <2>3. \A k \in Items : k # i => item'[k] = item[k]
    BY <1>1 DEF Upload, TypeOK
  <2> QED
    BY <1>1, <2>1, <2>2, <2>3, OtherItemsWait
       DEF Upload, AtWork, Idle, IntakeOps
<1>2. ASSUME NEW c \in Calls, Stage(c) PROVE PendingHasBytes'
  <2>1. call[c].op \in IntakeOps /\ call[c].item \in Items
    BY <1>2, StepOfCall, ItemOfCall DEF Stage, IntakeOps, Resolving
  <2>2. \A d \in Calls : d # c => call'[d] = call[d]
    BY <1>2 DEF Stage, Goto, TypeOK
  <2>3. \A i \in Items : i # call[c].item => item'[i] = item[i] /\ (i \in staged => i \in staged')
    BY <1>2, <2>1 DEF Stage, TypeOK
  <2>4. AtWork(c)' /\ call'[c].item = call[c].item
    BY <1>2, <2>1
       DEF Stage, Goto, At, AtWork, TypeOK, CallType, ItemType, Promotions,
           Uploads, Promotable
  <2>5. torn \subseteq torn'
    BY <1>2 DEF Stage, others
  <2> QED
    BY <2>1, <2>2, <2>3, <2>4, <2>5, OtherItemsWait DEF AtWork
<1>3. ASSUME NEW c \in Calls, SaveUpload(c) PROVE PendingHasBytes'
  <2>1. PICK k \in Items : k = call[c].item
    BY <1>3, StepOfCall, ItemOfCall DEF SaveUpload, IntakeOps
  <2>2. \A d \in Calls : d # c => call'[d] = call[d]
    BY <1>3 DEF SaveUpload, Answered, Fails, Leaves, TypeOK
  <2>3. \A i \in Items : i # k => item'[i] = item[i] /\ (i \in staged => i \in staged')
    BY <1>3, <2>1 DEF SaveUpload, TypeOK
  <2>4. Promotable(k)'
    BY <1>3, <2>1, StepOfCall
       DEF SaveUpload, At, TypeOK, Promotions, Uploads, Promotable
  <2>5. torn \subseteq torn'
    BY <1>3 DEF SaveUpload, others
  <2> QED
    BY <2>1, <2>2, <2>3, <2>4, <2>5, OtherItemsWait DEF AtWork
<1>4. ASSUME NEW c \in Calls, UploadFails(c) PROVE PendingHasBytes'
  <2>1. call[c].op \in IntakeOps /\ call[c].item \in Items
    BY <1>4, StepOfCall, ItemOfCall DEF UploadFails, IntakeOps, Resolving
  <2>2. \A d \in Calls : d # c => call'[d] = call[d]
    BY <1>4 DEF UploadFails, Answered, Fails, Leaves, TypeOK
  <2>3. \A i \in Items : i # call[c].item => item'[i] = item[i] /\ (i \in staged => i \in staged')
    BY <1>4, <2>1 DEF UploadFails, TypeOK
  <2>4. call[c].item \in torn'
    BY <1>4, <2>1
       DEF UploadFails, Answered, Fails, Leaves, At, AtWork, TypeOK, CallType,
           ItemType, Promotions, Uploads, Promotable
  <2>5. torn \subseteq torn'
    BY <1>4 DEF UploadFails, others
  <2> QED
    BY <2>1, <2>2, <2>3, <2>4, <2>5, OtherItemsWait DEF AtWork
<1>5. ASSUME NEW c \in Calls, NEW op \in IntakeOps \ {"upload"},
             NEW i \in Items, Resolve(c, op, i)
      PROVE PendingHasBytes'
  <2>1. \A d \in Calls : d # c => call'[d] = call[d]
    BY <1>5 DEF Resolve, Begin, TypeOK
  <2>2. call[c] = Idle /\ call'[c].op # "upload" /\ call'[c].at = "wait"
    BY <1>5 DEF Resolve, Begin, TypeOK
  <2>3. item' = item /\ staged' = staged /\ torn' = torn
    BY <1>5 DEF Resolve, others
  <2> QED
    BY <2>1, <2>2, <2>3
       DEF PendingHasBytes, PastWait, Promotable, Idle, IntakeOps
<1>6. ASSUME NEW c \in Calls, Take(c) PROVE PendingHasBytes'
  <2>1. call[c].op \in IntakeOps /\ call[c].item \in Items
    BY <1>6, StepOfCall, ItemOfCall DEF Take, IntakeOps, Resolving
  <2>2. \A d \in Calls : d # c => call'[d] = call[d]
    BY <1>6 DEF Take, Goto, TypeOK
  <2>3. \A i \in Items : i # call[c].item => item'[i] = item[i] /\ (i \in staged => i \in staged')
    BY <1>6, <2>1 DEF Take, TypeOK
  <2>4. AtWork(c)' /\ call'[c].item = call[c].item
    BY <1>6, <2>1
       DEF Take, Goto, At, AtWork, TypeOK, CallType, ItemType, Promotions,
           Uploads, Promotable
  <2>5. torn \subseteq torn'
    BY <1>6 DEF Take, others
  <2> QED
    BY <2>1, <2>2, <2>3, <2>4, <2>5, OtherItemsWait DEF AtWork
<1>7. ASSUME NEW c \in Calls, Refuse(c) PROVE PendingHasBytes'
  <2>1. \A d \in Calls : d # c => call'[d] = call[d]
    BY <1>7 DEF Refuse, Fails, Leaves, Answered, TypeOK
  <2>2. call[c].at = "wait" /\ item' = item /\ staged' = staged /\ torn' = torn
    BY <1>7 DEF Refuse, At, others
  <2> QED
    BY <2>1, <2>2 DEF PendingHasBytes, Promotable
<1>8. ASSUME NEW c \in Calls, Promote(c) PROVE PendingHasBytes'
  <2>1. call[c].op \in IntakeOps /\ call[c].item \in Items
    BY <1>8, StepOfCall, ItemOfCall DEF Promote, IntakeOps, Resolving
  <2>2. \A d \in Calls : d # c => call'[d] = call[d]
    BY <1>8 DEF Promote, Goto, TypeOK
  <2>3. \A i \in Items : i # call[c].item => item'[i] = item[i] /\ (i \in staged => i \in staged')
    BY <1>8, <2>1 DEF Promote, TypeOK
  <2>4. AtWork(c)' /\ call'[c].item = call[c].item
    BY <1>8, <2>1
       DEF Promote, Goto, At, AtWork, TypeOK, CallType, ItemType, Promotions,
           Uploads, Promotable
  <2>5. torn \subseteq torn'
    BY <1>8 DEF Promote, others
  <2> QED
    BY <2>1, <2>2, <2>3, <2>4, <2>5, OtherItemsWait DEF AtWork
<1>9. ASSUME NEW c \in Calls, PromoteFails(c) PROVE PendingHasBytes'
  <2>1. PICK k \in Items : k = call[c].item
    BY <1>9, StepOfCall, ItemOfCall DEF PromoteFails, IntakeOps
  <2>2. \A d \in Calls : d # c => call'[d] = call[d]
    BY <1>9 DEF PromoteFails, Answered, Fails, Leaves, TypeOK
  <2>3. \A i \in Items : i # k => item'[i] = item[i] /\ (i \in staged => i \in staged')
    BY <1>9, <2>1 DEF PromoteFails, TypeOK
  <2>4. k \in torn' \/ Promotable(k)'
    BY <1>9, <2>1, StepOfCall
       DEF PromoteFails, At, TypeOK, Promotions, Uploads, Promotable
  <2>5. torn \subseteq torn'
    BY <1>9 DEF PromoteFails, others
  <2> QED
    BY <2>1, <2>2, <2>3, <2>4, <2>5, OtherItemsWait DEF AtWork
<1>10. ASSUME NEW c \in Calls, SaveMarker(c) PROVE PendingHasBytes'
  <2>1. call[c].op \in IntakeOps /\ call[c].item \in Items
    BY <1>10, StepOfCall, ItemOfCall DEF SaveMarker, IntakeOps, Resolving
  <2>2. \A d \in Calls : d # c => call'[d] = call[d]
    BY <1>10 DEF SaveMarker, Goto, TypeOK
  <2>3. \A i \in Items : i # call[c].item => item'[i] = item[i] /\ (i \in staged => i \in staged')
    BY <1>10, <2>1 DEF SaveMarker, TypeOK
  <2>4. AtWork(c)' /\ call'[c].item = call[c].item
    BY <1>10, <2>1
       DEF SaveMarker, Goto, At, AtWork, TypeOK, CallType, ItemType, Promotions,
           Uploads, Promotable
  <2>5. torn \subseteq torn'
    BY <1>10 DEF SaveMarker, others
  <2> QED
    BY <2>1, <2>2, <2>3, <2>4, <2>5, OtherItemsWait DEF AtWork
<1>11. ASSUME NEW c \in Calls, CreateJob(c) PROVE PendingHasBytes'
  <2>1. call[c].op \in IntakeOps /\ call[c].item \in Items
    BY <1>11, StepOfCall, ItemOfCall DEF CreateJob, IntakeOps, Resolving
  <2>2. \A d \in Calls : d # c => call'[d] = call[d]
    BY <1>11 DEF CreateJob, Goto, TypeOK
  <2>3. \A i \in Items : i # call[c].item => item'[i] = item[i] /\ (i \in staged => i \in staged')
    BY <1>11, <2>1 DEF CreateJob, TypeOK
  <2>4. AtWork(c)' /\ call'[c].item = call[c].item
    BY <1>11, <2>1
       DEF CreateJob, Goto, At, AtWork, TypeOK, CallType, ItemType, Promotions,
           Uploads, Promotable
  <2>5. torn \subseteq torn'
    BY <1>11 DEF CreateJob, others
  <2> QED
    BY <2>1, <2>2, <2>3, <2>4, <2>5, OtherItemsWait DEF AtWork
<1>12. ASSUME NEW c \in Calls, FileJob(c) PROVE PendingHasBytes'
  <2>1. call[c].op \in IntakeOps /\ call[c].item \in Items
    BY <1>12, StepOfCall, ItemOfCall DEF FileJob, IntakeOps, Resolving
  <2>2. \A d \in Calls : d # c => call'[d] = call[d]
    BY <1>12 DEF FileJob, Goto, TypeOK
  <2>3. \A i \in Items : i # call[c].item => item'[i] = item[i] /\ (i \in staged => i \in staged')
    BY <1>12, <2>1 DEF FileJob, TypeOK
  <2>4. AtWork(c)' /\ call'[c].item = call[c].item
    BY <1>12, <2>1
       DEF FileJob, Goto, At, AtWork, TypeOK, CallType, ItemType, Promotions,
           Uploads, Promotable
  <2>5. torn \subseteq torn'
    BY <1>12 DEF FileJob, others
  <2> QED
    BY <2>1, <2>2, <2>3, <2>4, <2>5, OtherItemsWait DEF AtWork
<1>13. ASSUME NEW c \in Calls, Enqueue(c) PROVE PendingHasBytes'
  <2>1. call[c].op \in IntakeOps /\ call[c].item \in Items
    BY <1>13, StepOfCall, ItemOfCall DEF Enqueue, IntakeOps, Resolving
  <2>2. \A d \in Calls : d # c => call'[d] = call[d]
    BY <1>13 DEF Enqueue, Goto, TypeOK
  <2>3. \A i \in Items : i # call[c].item => item'[i] = item[i] /\ (i \in staged => i \in staged')
    BY <1>13, <2>1 DEF Enqueue, TypeOK
  <2>4. AtWork(c)' /\ call'[c].item = call[c].item
    BY <1>13, <2>1
       DEF Enqueue, Goto, At, AtWork, TypeOK, CallType, ItemType, Promotions,
           Uploads, Promotable
  <2>5. torn \subseteq torn'
    BY <1>13 DEF Enqueue, others
  <2> QED
    BY <2>1, <2>2, <2>3, <2>4, <2>5, OtherItemsWait DEF AtWork
<1>14. ASSUME NEW c \in Calls, DispatchFails(c) PROVE PendingHasBytes'
  <2>1. call[c].op \in IntakeOps /\ call[c].item \in Items
    BY <1>14, StepOfCall, ItemOfCall DEF DispatchFails, IntakeOps, Resolving
  <2>2. \A d \in Calls : d # c => call'[d] = call[d]
    BY <1>14 DEF DispatchFails, Answered, Fails, Leaves, TypeOK
  <2>3. \A i \in Items : i # call[c].item => item'[i] = item[i] /\ (i \in staged => i \in staged')
    BY <1>14, <2>1 DEF DispatchFails, TypeOK
  <2>4. item'[call[c].item].marker
    BY <1>14, <2>1
       DEF DispatchFails, Answered, Fails, Leaves, At, AtWork, TypeOK, CallType,
           ItemType, Promotions, Uploads, Promotable
  <2>5. torn \subseteq torn'
    BY <1>14 DEF DispatchFails, others
  <2> QED
    BY <2>1, <2>2, <2>3, <2>4, <2>5, OtherItemsWait DEF AtWork
<1>15. ASSUME NEW c \in Calls, Unlink(c) PROVE PendingHasBytes'
  <2>1. call[c].op \in IntakeOps /\ call[c].item \in Items
    BY <1>15, StepOfCall, ItemOfCall DEF Unlink, IntakeOps, Resolving
  <2>2. \A d \in Calls : d # c => call'[d] = call[d]
    BY <1>15 DEF Unlink, Goto, TypeOK
  <2>3. \A i \in Items : i # call[c].item => item'[i] = item[i] /\ (i \in staged => i \in staged')
    BY <1>15, <2>1 DEF Unlink, TypeOK
  <2>4. AtWork(c)' /\ call'[c].item = call[c].item
    BY <1>15, <2>1
       DEF Unlink, Goto, At, AtWork, TypeOK, CallType, ItemType, Promotions,
           Uploads, Promotable
  <2>5. torn \subseteq torn'
    BY <1>15 DEF Unlink, others
  <2> QED
    BY <2>1, <2>2, <2>3, <2>4, <2>5, OtherItemsWait DEF AtWork
<1>16. ASSUME NEW c \in Calls, MarkResolved(c) PROVE PendingHasBytes'
  <2>1. call[c].op \in IntakeOps /\ call[c].item \in Items
    BY <1>16, StepOfCall, ItemOfCall DEF MarkResolved, IntakeOps, Resolving
  <2>2. \A d \in Calls : d # c => call'[d] = call[d]
    BY <1>16 DEF MarkResolved, Answered, Fails, Leaves, TypeOK
  <2>3. \A i \in Items : i # call[c].item => item'[i] = item[i] /\ (i \in staged => i \in staged')
    BY <1>16, <2>1 DEF MarkResolved, TypeOK
  <2>4. item'[call[c].item].st # "PENDING"
    BY <1>16, <2>1, StepOfCall
       DEF MarkResolved, Answered, Fails, Leaves, At, AtWork, TypeOK, CallType,
           ItemType, Promotions, Uploads, Promotable, Verdict
  <2>5. torn \subseteq torn'
    BY <1>16 DEF MarkResolved, others
  <2> QED
    BY <2>1, <2>2, <2>3, <2>4, <2>5, OtherItemsWait DEF AtWork
<1>17. CASE Crash
  BY <1>17
     DEF Crash, PendingHasBytes, Promotable, Uploads, Promotions, Idle,
         IntakeOps, PastWait, Resolving, TypeOK
<1>18. CASE Boot
  BY <1>18 DEF Boot, PendingHasBytes, Promotable, Uploads, Promotions, PastWait
<1>19. ASSUME NEW c \in Calls, Elsewhere(c) PROVE PendingHasBytes'
  BY <1>19, ElsewhereStep DEF PendingHasBytes, Promotable
<1>20. CASE UNCHANGED vars
  BY <1>20 DEF vars, PendingHasBytes, Promotable, Uploads, Promotions, PastWait
<1>21. CASE OverrideReason
  BY <1>21 DEF OverrideReason, inbox, PendingHasBytes, Promotable, Uploads,
              Promotions, PastWait
<1> QED
  BY <1>1, <1>2, <1>3, <1>4, <1>5, <1>6, <1>7, <1>8, <1>9, <1>10, <1>11, <1>12,
     <1>13, <1>14, <1>15, <1>16, <1>17, <1>18, <1>19, <1>20, <1>21
     DEF Next, Request, CallStep, IntakeStep, DeletionStep, LogStep, Elsewhere

(* A pending item keeps its bytes, for any number of operators, uploads,   *)
(* failures and crashes.                                                   *)
THEOREM PendingItemsHaveBytes == Spec => []PendingHasBytes
<1>1. Init => BytesInv
  BY InitBytes
<1>2. TypedAndLocked /\ BytesInv /\ [Next]_vars => BytesInv'
  BY StepUploads, StepPromotions, StepPendingHasBytes DEF BytesInv
<1>3. BytesInv => PendingHasBytes
  BY DEF BytesInv
<1> QED
  BY <1>1, <1>2, <1>3, TypesAndLock, PTL DEF Spec

LEMMA BytesAlways == Spec => []BytesInv
<1>1. TypedAndLocked /\ BytesInv /\ [Next]_vars => BytesInv'
  BY StepUploads, StepPromotions, StepPendingHasBytes DEF BytesInv
<1> QED
  BY <1>1, InitBytes, TypesAndLock, PTL DEF Spec

----------------------------------------------------------------------------

(* The dispatch that has made a job and has not resolved its item yet.     *)
Makes(c, j) ==
    /\ call[c].op = "dispatch"
    /\ call[c].at \in {"file", "queue", "resolve"}
    /\ call[c].id = j
    /\ call[c].item = job[j].item

(* While the item of a job is pending, the dispatch that made the job is   *)
(* still under way, and there is one of those: a second job has no maker.  *)
JobsMade ==
    \A j \in JobRows :
       /\ item[job[j].item].marker
       /\ \/ job[j].item \in torn
          \/ item[job[j].item].st # "PENDING"
          \/ \E c \in Calls : Makes(c, j)

JobsSingle ==
    \A j, k \in JobRows : job[j].item = job[k].item /\ job[j].item \notin torn => j = k

JobsInv == JobsMade /\ JobsSingle

LEMMA InitJobs == Init => JobsInv
  BY DEF Init, JobsInv, JobsMade, JobsSingle, JobRows, NoJob

(* The jobs of an item at which a dispatch is at work are its own.         *)
LEMMA OwnJobOnly ==
  ASSUME TypeOK, WellFormed, Locked, JobsMade, NEW c \in Calls, PastWait(c),
         NEW j \in JobRows, job[j].item = call[c].item
  PROVE  call[c].item \in torn \/ Makes(c, j)
<1>1. item[job[j].item].st = "PENDING"
  BY DEF Locked
<1>2. CASE \E d \in Calls : Makes(d, j)
  <2>1. PICK d \in Calls : Makes(d, j)
    BY <1>2
  <2>2. PastWait(d) /\ call[d].item = call[c].item
    BY <2>1 DEF Makes, PastWait, Resolving
  <2> QED
    BY <2>1, <2>2, OwnerIsUnique
<1> QED
  BY <1>1, <1>2 DEF JobsMade

LEMMA StepJobsMade == TypedAndLocked /\ BytesInv /\ JobsInv /\ [Next]_vars => JobsMade'
<1> SUFFICES ASSUME TypeOK, WellFormed, Locked, Uploads, Promotions, JobsMade, JobsSingle, [Next]_vars
             PROVE  JobsMade'
  BY DEF TypedAndLocked, BytesInv, JobsInv
<1>1. ASSUME NEW c \in Calls, NEW i \in Items, Upload(c, i) PROVE JobsMade'
  <2>1. \A j \in JobRows : job[j].item # i
    BY <1>1 DEF Upload, JobsMade, NewItem
  <2>2. \A d \in Calls : d # c => call'[d] = call[d]
    BY <1>1 DEF Upload, Begin, TypeOK
  <2>3. job' = job /\ torn' = torn /\ \A k \in Items : k # i => item'[k] = item[k]
    BY <1>1 DEF Upload, TypeOK
  <2>4. \A k \in JobRows : job[k].item \in Items /\ ~ Makes(c, k)
    BY <1>1 DEF Upload, Begin, Idle, Makes, WellFormed
  <2> QED
    BY <2>1, <2>2, <2>3, <2>4 DEF JobsMade, JobRows, Makes
<1>2. ASSUME NEW c \in Calls, Stage(c) PROVE JobsMade'
  <2>1. \A d \in Calls : d # c => call'[d] = call[d]
    BY <1>2 DEF Stage, Begin, Goto, Answered, TypeOK
  <2>2. \A k \in Jobs : ~ Makes(c, k)
    BY <1>2, StepOfCall
       DEF Stage, Makes, Begin, Idle, At, WellFormed, CallOK, Resolving
  <2>3. job' = job
    BY <1>2 DEF Stage
  <2>4. \A i \in Items : item'[i].st = item[i].st /\ (item[i].marker => item'[i].marker)
    BY <1>2 DEF Stage
  <2>5. torn \subseteq torn'
    BY <1>2 DEF Stage, others
  <2>6. \A k \in JobRows : job[k].item \in Items
    BY DEF WellFormed
  <2> QED
    BY <2>1, <2>2, <2>3, <2>4, <2>5, <2>6 DEF JobsMade, JobRows, Makes
<1>3. ASSUME NEW c \in Calls, SaveUpload(c) PROVE JobsMade'
  <2>1. \A j \in JobRows : job[j].item # call[c].item
    BY <1>3, StepOfCall DEF SaveUpload, JobsMade, Uploads
  <2>2. \A d \in Calls : d # c => call'[d] = call[d]
    BY <1>3 DEF SaveUpload, Answered, TypeOK
  <2>3. job' = job /\ torn' = torn /\ \A k \in Items : k # call[c].item => item'[k] = item[k]
    BY <1>3 DEF SaveUpload, TypeOK
  <2>4. \A k \in JobRows : job[k].item \in Items /\ ~ Makes(c, k)
    BY <1>3, StepOfCall DEF SaveUpload, Makes, WellFormed
  <2> QED
    BY <2>1, <2>2, <2>3, <2>4 DEF JobsMade, JobRows, Makes
<1>4. ASSUME NEW c \in Calls, UploadFails(c) PROVE JobsMade'
  <2>1. \A d \in Calls : d # c => call'[d] = call[d]
    BY <1>4 DEF UploadFails, Begin, Goto, Answered, TypeOK
  <2>2. \A k \in Jobs : ~ Makes(c, k)
    BY <1>4, StepOfCall
       DEF UploadFails, Makes, Begin, Idle, At, WellFormed, CallOK, Resolving
  <2>3. job' = job
    BY <1>4 DEF UploadFails
  <2>4. \A i \in Items : item'[i].st = item[i].st /\ (item[i].marker => item'[i].marker)
    BY <1>4 DEF UploadFails
  <2>5. torn \subseteq torn'
    BY <1>4 DEF UploadFails, others
  <2>6. \A k \in JobRows : job[k].item \in Items
    BY DEF WellFormed
  <2> QED
    BY <2>1, <2>2, <2>3, <2>4, <2>5, <2>6 DEF JobsMade, JobRows, Makes
<1>5. ASSUME NEW c \in Calls, NEW op \in IntakeOps \ {"upload"},
             NEW i \in Items, Resolve(c, op, i)
      PROVE JobsMade'
  <2>1. \A d \in Calls : d # c => call'[d] = call[d]
    BY <1>5 DEF Resolve, Begin, Goto, Answered, TypeOK
  <2>2. \A k \in Jobs : ~ Makes(c, k)
    BY <1>5, StepOfCall
       DEF Resolve, Makes, Begin, Idle, At, WellFormed, CallOK, Resolving
  <2>3. job' = job
    BY <1>5 DEF Resolve
  <2>4. \A m \in Items : item'[m].st = item[m].st /\ (item[m].marker => item'[m].marker)
    BY <1>5 DEF Resolve
  <2>5. torn \subseteq torn'
    BY <1>5 DEF Resolve, others
  <2>6. \A k \in JobRows : job[k].item \in Items
    BY DEF WellFormed
  <2> QED
    BY <2>1, <2>2, <2>3, <2>4, <2>5, <2>6 DEF JobsMade, JobRows, Makes
<1>6. ASSUME NEW c \in Calls, Take(c) PROVE JobsMade'
  <2>1. \A d \in Calls : d # c => call'[d] = call[d]
    BY <1>6 DEF Take, Begin, Goto, Answered, TypeOK
  <2>2. \A k \in Jobs : ~ Makes(c, k)
    BY <1>6, StepOfCall
       DEF Take, Makes, Begin, Idle, At, WellFormed, CallOK, Resolving
  <2>3. job' = job
    BY <1>6 DEF Take
  <2>4. \A i \in Items : item'[i].st = item[i].st /\ (item[i].marker => item'[i].marker)
    BY <1>6 DEF Take
  <2>5. torn \subseteq torn'
    BY <1>6 DEF Take, others
  <2>6. \A k \in JobRows : job[k].item \in Items
    BY DEF WellFormed
  <2> QED
    BY <2>1, <2>2, <2>3, <2>4, <2>5, <2>6 DEF JobsMade, JobRows, Makes
<1>7. ASSUME NEW c \in Calls, Refuse(c) PROVE JobsMade'
  <2>1. \A d \in Calls : d # c => call'[d] = call[d]
    BY <1>7 DEF Refuse, Begin, Goto, Answered, TypeOK, Fails, Leaves
  <2>2. \A k \in Jobs : ~ Makes(c, k)
    BY <1>7, StepOfCall
       DEF Refuse, Makes, Begin, Idle, At, WellFormed, CallOK, Resolving
  <2>3. job' = job
    BY <1>7 DEF Refuse
  <2>4. \A i \in Items : item'[i].st = item[i].st /\ (item[i].marker => item'[i].marker)
    BY <1>7 DEF Refuse
  <2>5. torn \subseteq torn'
    BY <1>7 DEF Refuse, others
  <2>6. \A k \in JobRows : job[k].item \in Items
    BY DEF WellFormed
  <2> QED
    BY <2>1, <2>2, <2>3, <2>4, <2>5, <2>6 DEF JobsMade, JobRows, Makes
<1>8. ASSUME NEW c \in Calls, Promote(c) PROVE JobsMade'
  <2>1. \A d \in Calls : d # c => call'[d] = call[d]
    BY <1>8 DEF Promote, Begin, Goto, Answered, TypeOK
  <2>2. \A k \in Jobs : ~ Makes(c, k)
    BY <1>8, StepOfCall
       DEF Promote, Makes, Begin, Idle, At, WellFormed, CallOK, Resolving
  <2>3. job' = job
    BY <1>8 DEF Promote
  <2>4. \A i \in Items : item'[i].st = item[i].st /\ (item[i].marker => item'[i].marker)
    BY <1>8 DEF Promote
  <2>5. torn \subseteq torn'
    BY <1>8 DEF Promote, others
  <2>6. \A k \in JobRows : job[k].item \in Items
    BY DEF WellFormed
  <2> QED
    BY <2>1, <2>2, <2>3, <2>4, <2>5, <2>6 DEF JobsMade, JobRows, Makes
<1>9. ASSUME NEW c \in Calls, PromoteFails(c) PROVE JobsMade'
  <2>1. \A d \in Calls : d # c => call'[d] = call[d]
    BY <1>9 DEF PromoteFails, Begin, Goto, Answered, TypeOK, Fails, Leaves
  <2>2. \A k \in Jobs : ~ Makes(c, k)
    BY <1>9, StepOfCall
       DEF PromoteFails, Makes, Begin, Idle, At, WellFormed, CallOK, Resolving
  <2>3. job' = job
    BY <1>9 DEF PromoteFails
  <2>4. \A i \in Items : item'[i].st = item[i].st /\ (item[i].marker => item'[i].marker)
    BY <1>9 DEF PromoteFails
  <2>5. torn \subseteq torn'
    BY <1>9 DEF PromoteFails, others
  <2>6. \A k \in JobRows : job[k].item \in Items
    BY DEF WellFormed
  <2> QED
    BY <2>1, <2>2, <2>3, <2>4, <2>5, <2>6 DEF JobsMade, JobRows, Makes
<1>10. ASSUME NEW c \in Calls, SaveMarker(c) PROVE JobsMade'
  <2>1. \A d \in Calls : d # c => call'[d] = call[d]
    BY <1>10 DEF SaveMarker, Begin, Goto, Answered, TypeOK
  <2>2. \A k \in Jobs : ~ Makes(c, k)
    BY <1>10, StepOfCall
       DEF SaveMarker, Makes, Begin, Idle, At, WellFormed, CallOK, Resolving
  <2>3. job' = job
    BY <1>10 DEF SaveMarker
  <2>4. \A i \in Items : item'[i].st = item[i].st /\ (item[i].marker => item'[i].marker)
    BY <1>10 DEF SaveMarker, TypeOK, ItemType
  <2>5. torn \subseteq torn'
    BY <1>10 DEF SaveMarker, others
  <2>6. \A k \in JobRows : job[k].item \in Items
    BY DEF WellFormed
  <2> QED
    BY <2>1, <2>2, <2>3, <2>4, <2>5, <2>6 DEF JobsMade, JobRows, Makes
<1>11. ASSUME NEW c \in Calls, CreateJob(c) PROVE JobsMade'
  <2>1. PICK j \in Jobs : /\ job' = [job EXCEPT ![j] = [st |-> "PENDING", item |-> call[c].item, filed |-> FALSE]]
                         /\ call' = [call EXCEPT ![c].at = "file", ![c].id = j]
    BY <1>11 DEF CreateJob
  <2>2. PastWait(c) /\ call[c].op = "dispatch" /\ item[call[c].item].marker
    BY <1>11, StepOfCall DEF CreateJob, At, PastWait, Resolving, Promotions
  <2>3. \A k \in JobRows : job[k].item = call[c].item => call[c].item \in torn
    BY <1>11, <2>2, OwnJobOnly DEF CreateJob, At, Makes
  <2>4. \A k \in JobRows : ~ Makes(c, k)
    BY <1>11 DEF CreateJob, At, Makes
  <2>5. /\ \A d \in Calls : d # c => call'[d] = call[d]
        /\ call'[c].op = "dispatch" /\ call'[c].at = "file" /\ call'[c].id = j
        /\ call'[c].item = call[c].item
    BY <2>1, <2>2 DEF TypeOK, CallType
  <2>6. job'[j].item = call[c].item /\ \A k \in Jobs : k # j => job'[k] = job[k]
    BY <2>1 DEF TypeOK
  <2>7. item' = item /\ torn' = torn
    BY <1>11 DEF CreateJob
  <2> QED
    BY <2>2, <2>3, <2>4, <2>5, <2>6, <2>7 DEF JobsMade, JobRows, Makes
<1>12. ASSUME NEW c \in Calls, FileJob(c) PROVE JobsMade'
  <2>1. PICK j \in Jobs : j = call[c].id
    BY <1>12 DEF FileJob, At, WellFormed, CallOK
  <2>2. PastWait(c) /\ call[c].op = "dispatch" /\ item[call[c].item].marker
    BY <1>12, StepOfCall DEF FileJob, At, PastWait, Resolving, Promotions
  <2>3. \A k \in JobRows : job[k].item = call[c].item => call[c].item \in torn \/ k = j
    BY <2>1, <2>2, OwnJobOnly DEF Makes
  <2>4. /\ \A d \in Calls : d # c => call'[d] = call[d]
        /\ call'[c].op = "dispatch" /\ call'[c].at = "queue" /\ call'[c].id = j
        /\ call'[c].item = call[c].item
    BY <1>12, <2>1, <2>2 DEF FileJob, Goto, TypeOK, CallType
  <2>5. job'[j].item = call[c].item /\ \A k \in Jobs : k # j => job'[k] = job[k]
    BY <1>12, <2>1 DEF FileJob, TypeOK
  <2>6. item' = item /\ torn' = torn
    BY <1>12 DEF FileJob
  <2> QED
    BY <2>1, <2>2, <2>3, <2>4, <2>5, <2>6 DEF JobsMade, JobRows, Makes
<1>13. ASSUME NEW c \in Calls, Enqueue(c) PROVE JobsMade'
  <2>1. call[c].op = "dispatch"
    BY <1>13, StepOfCall DEF Enqueue
  <2>2. /\ \A d \in Calls : d # c => call'[d] = call[d]
        /\ call'[c].op = "dispatch" /\ call'[c].at = "resolve" /\ call'[c].id = call[c].id
        /\ call'[c].item = call[c].item
    BY <1>13, <2>1 DEF Enqueue, Goto, TypeOK, CallType
  <2>3. JobRows' = JobRows /\ \A k \in Jobs : job'[k].item = job[k].item
    BY <1>13 DEF Enqueue, JobRows, TypeOK, JobType
  <2>4. item' = item /\ torn' = torn
    BY <1>13 DEF Enqueue
  <2> QED
    BY <2>2, <2>3, <2>4 DEF JobsMade, JobRows, Makes
<1>14. ASSUME NEW c \in Calls, DispatchFails(c) PROVE JobsMade'
  <2>1. PastWait(c)
    BY <1>14, StepOfCall DEF DispatchFails, At, PastWait, Resolving
  <2>2. \A k \in JobRows' : k \in JobRows /\ k # call[c].id /\ job'[k] = job[k]
    BY <1>14 DEF DispatchFails, JobRows, TypeOK, JobType
  <2>3. \A k \in JobRows' : job[k].item = call[c].item => call[c].item \in torn
    BY <2>1, <2>2, OwnJobOnly DEF Makes
  <2>4. \A d \in Calls : d # c => call'[d] = call[d]
    BY <1>14 DEF DispatchFails, Fails, Leaves, Answered, TypeOK
  <2>5. item' = item /\ torn' = torn
    BY <1>14 DEF DispatchFails
  <2> QED
    BY <2>2, <2>3, <2>4, <2>5 DEF JobsMade, JobRows, Makes
<1>15. ASSUME NEW c \in Calls, Unlink(c) PROVE JobsMade'
  <2>1. \A d \in Calls : d # c => call'[d] = call[d]
    BY <1>15 DEF Unlink, Begin, Goto, Answered, TypeOK
  <2>2. \A k \in Jobs : ~ Makes(c, k)
    BY <1>15, StepOfCall
       DEF Unlink, Makes, Begin, Idle, At, WellFormed, CallOK, Resolving
  <2>3. job' = job
    BY <1>15 DEF Unlink
  <2>4. \A i \in Items : item'[i].st = item[i].st /\ (item[i].marker => item'[i].marker)
    BY <1>15 DEF Unlink
  <2>5. torn \subseteq torn'
    BY <1>15 DEF Unlink, others
  <2>6. \A k \in JobRows : job[k].item \in Items
    BY DEF WellFormed
  <2> QED
    BY <2>1, <2>2, <2>3, <2>4, <2>5, <2>6 DEF JobsMade, JobRows, Makes
<1>16. ASSUME NEW c \in Calls, MarkResolved(c) PROVE JobsMade'
  <2>1. Verdict(call[c].op) # "PENDING" /\ call[c].op \in IntakeOps
    BY <1>16, StepOfCall DEF MarkResolved, Verdict, IntakeOps
  <2>2. \A d \in Calls : d # c => call'[d] = call[d]
    BY <1>16 DEF MarkResolved, Leaves, Answered, TypeOK
  <2>3. \A k \in Items : /\ item'[k].marker = item[k].marker
                        /\ IF k = call[c].item THEN item'[k].st # "PENDING" ELSE item'[k] = item[k]
    BY <1>16, <2>1 DEF MarkResolved, TypeOK, ItemType
  <2>4. job' = job /\ torn' = torn
    BY <1>16 DEF MarkResolved
  <2>5. \A k \in JobRows : job[k].item \in Items
    BY DEF WellFormed
  <2> QED
    BY <2>2, <2>3, <2>4, <2>5 DEF JobsMade, JobRows, Makes
<1>17. CASE Crash
  <2>1. job' = job /\ item' = item
    BY <1>17 DEF Crash
  <2>2. \A c \in Calls, j \in JobRows : Makes(c, j) => job[j].item \in torn'
    BY <1>17 DEF Crash, Makes, IntakeOps
  <2>3. torn \subseteq torn'
    BY <1>17 DEF Crash
  <2> QED
    BY <2>1, <2>2, <2>3 DEF JobsMade, JobRows
<1>18. CASE Boot
  BY <1>18 DEF Boot, JobsMade, JobRows, Makes
<1>19. ASSUME NEW c \in Calls, Elsewhere(c) PROVE JobsMade'
  BY <1>19, ElsewhereStep DEF JobsMade, Makes, IntakeOps
<1>20. CASE UNCHANGED vars
  BY <1>20 DEF vars, JobsMade, JobRows, Makes
<1>21. CASE OverrideReason
  BY <1>21 DEF OverrideReason, inbox, JobsMade, JobRows, Makes
<1> QED
  BY <1>1, <1>2, <1>3, <1>4, <1>5, <1>6, <1>7, <1>8, <1>9, <1>10, <1>11, <1>12,
     <1>13, <1>14, <1>15, <1>16, <1>17, <1>18, <1>19, <1>20, <1>21
     DEF Next, Request, CallStep, IntakeStep, DeletionStep, LogStep, Elsewhere

LEMMA StepJobsSingle == TypedAndLocked /\ BytesInv /\ JobsInv /\ [Next]_vars => JobsSingle'
<1> SUFFICES ASSUME TypeOK, WellFormed, Locked, Uploads, Promotions, JobsMade, JobsSingle, [Next]_vars
             PROVE  JobsSingle'
  BY DEF TypedAndLocked, BytesInv, JobsInv
<1>1. ASSUME NEW c \in Calls, NEW i \in Items, Upload(c, i) PROVE JobsSingle'
  <2>1. \A j \in JobRows : job[j].item # i
    BY <1>1 DEF Upload, JobsMade, NewItem
  <2>2. \A d \in Calls : d # c => call'[d] = call[d]
    BY <1>1 DEF Upload, Begin, TypeOK
  <2>3. job' = job /\ torn' = torn /\ \A k \in Items : k # i => item'[k] = item[k]
    BY <1>1 DEF Upload, TypeOK
  <2>4. \A k \in JobRows : job[k].item \in Items /\ ~ Makes(c, k)
    BY <1>1 DEF Upload, Begin, Idle, Makes, WellFormed
  <2> QED
    BY <2>1, <2>2, <2>3, <2>4 DEF JobsSingle, JobRows, Makes
<1>2. ASSUME NEW c \in Calls, Stage(c) PROVE JobsSingle'
  <2>1. \A d \in Calls : d # c => call'[d] = call[d]
    BY <1>2 DEF Stage, Begin, Goto, Answered, TypeOK
  <2>2. \A k \in Jobs : ~ Makes(c, k)
    BY <1>2, StepOfCall
       DEF Stage, Makes, Begin, Idle, At, WellFormed, CallOK, Resolving
  <2>3. job' = job
    BY <1>2 DEF Stage
  <2>4. \A i \in Items : item'[i].st = item[i].st /\ (item[i].marker => item'[i].marker)
    BY <1>2 DEF Stage
  <2>5. torn \subseteq torn'
    BY <1>2 DEF Stage, others
  <2>6. \A k \in JobRows : job[k].item \in Items
    BY DEF WellFormed
  <2> QED
    BY <2>1, <2>2, <2>3, <2>4, <2>5, <2>6 DEF JobsSingle, JobRows, Makes
<1>3. ASSUME NEW c \in Calls, SaveUpload(c) PROVE JobsSingle'
  <2>1. \A j \in JobRows : job[j].item # call[c].item
    BY <1>3, StepOfCall DEF SaveUpload, JobsMade, Uploads
  <2>2. \A d \in Calls : d # c => call'[d] = call[d]
    BY <1>3 DEF SaveUpload, Answered, TypeOK
  <2>3. job' = job /\ torn' = torn /\ \A k \in Items : k # call[c].item => item'[k] = item[k]
    BY <1>3 DEF SaveUpload, TypeOK
  <2>4. \A k \in JobRows : job[k].item \in Items /\ ~ Makes(c, k)
    BY <1>3, StepOfCall DEF SaveUpload, Makes, WellFormed
  <2> QED
    BY <2>1, <2>2, <2>3, <2>4 DEF JobsSingle, JobRows, Makes
<1>4. ASSUME NEW c \in Calls, UploadFails(c) PROVE JobsSingle'
  <2>1. \A d \in Calls : d # c => call'[d] = call[d]
    BY <1>4 DEF UploadFails, Begin, Goto, Answered, TypeOK
  <2>2. \A k \in Jobs : ~ Makes(c, k)
    BY <1>4, StepOfCall
       DEF UploadFails, Makes, Begin, Idle, At, WellFormed, CallOK, Resolving
  <2>3. job' = job
    BY <1>4 DEF UploadFails
  <2>4. \A i \in Items : item'[i].st = item[i].st /\ (item[i].marker => item'[i].marker)
    BY <1>4 DEF UploadFails
  <2>5. torn \subseteq torn'
    BY <1>4 DEF UploadFails, others
  <2>6. \A k \in JobRows : job[k].item \in Items
    BY DEF WellFormed
  <2> QED
    BY <2>1, <2>2, <2>3, <2>4, <2>5, <2>6 DEF JobsSingle, JobRows, Makes
<1>5. ASSUME NEW c \in Calls, NEW op \in IntakeOps \ {"upload"},
             NEW i \in Items, Resolve(c, op, i)
      PROVE JobsSingle'
  <2>1. \A d \in Calls : d # c => call'[d] = call[d]
    BY <1>5 DEF Resolve, Begin, Goto, Answered, TypeOK
  <2>2. \A k \in Jobs : ~ Makes(c, k)
    BY <1>5, StepOfCall
       DEF Resolve, Makes, Begin, Idle, At, WellFormed, CallOK, Resolving
  <2>3. job' = job
    BY <1>5 DEF Resolve
  <2>4. \A m \in Items : item'[m].st = item[m].st /\ (item[m].marker => item'[m].marker)
    BY <1>5 DEF Resolve
  <2>5. torn \subseteq torn'
    BY <1>5 DEF Resolve, others
  <2>6. \A k \in JobRows : job[k].item \in Items
    BY DEF WellFormed
  <2> QED
    BY <2>1, <2>2, <2>3, <2>4, <2>5, <2>6 DEF JobsSingle, JobRows, Makes
<1>6. ASSUME NEW c \in Calls, Take(c) PROVE JobsSingle'
  <2>1. \A d \in Calls : d # c => call'[d] = call[d]
    BY <1>6 DEF Take, Begin, Goto, Answered, TypeOK
  <2>2. \A k \in Jobs : ~ Makes(c, k)
    BY <1>6, StepOfCall
       DEF Take, Makes, Begin, Idle, At, WellFormed, CallOK, Resolving
  <2>3. job' = job
    BY <1>6 DEF Take
  <2>4. \A i \in Items : item'[i].st = item[i].st /\ (item[i].marker => item'[i].marker)
    BY <1>6 DEF Take
  <2>5. torn \subseteq torn'
    BY <1>6 DEF Take, others
  <2>6. \A k \in JobRows : job[k].item \in Items
    BY DEF WellFormed
  <2> QED
    BY <2>1, <2>2, <2>3, <2>4, <2>5, <2>6 DEF JobsSingle, JobRows, Makes
<1>7. ASSUME NEW c \in Calls, Refuse(c) PROVE JobsSingle'
  <2>1. \A d \in Calls : d # c => call'[d] = call[d]
    BY <1>7 DEF Refuse, Begin, Goto, Answered, TypeOK, Fails, Leaves
  <2>2. \A k \in Jobs : ~ Makes(c, k)
    BY <1>7, StepOfCall
       DEF Refuse, Makes, Begin, Idle, At, WellFormed, CallOK, Resolving
  <2>3. job' = job
    BY <1>7 DEF Refuse
  <2>4. \A i \in Items : item'[i].st = item[i].st /\ (item[i].marker => item'[i].marker)
    BY <1>7 DEF Refuse
  <2>5. torn \subseteq torn'
    BY <1>7 DEF Refuse, others
  <2>6. \A k \in JobRows : job[k].item \in Items
    BY DEF WellFormed
  <2> QED
    BY <2>1, <2>2, <2>3, <2>4, <2>5, <2>6 DEF JobsSingle, JobRows, Makes
<1>8. ASSUME NEW c \in Calls, Promote(c) PROVE JobsSingle'
  <2>1. \A d \in Calls : d # c => call'[d] = call[d]
    BY <1>8 DEF Promote, Begin, Goto, Answered, TypeOK
  <2>2. \A k \in Jobs : ~ Makes(c, k)
    BY <1>8, StepOfCall
       DEF Promote, Makes, Begin, Idle, At, WellFormed, CallOK, Resolving
  <2>3. job' = job
    BY <1>8 DEF Promote
  <2>4. \A i \in Items : item'[i].st = item[i].st /\ (item[i].marker => item'[i].marker)
    BY <1>8 DEF Promote
  <2>5. torn \subseteq torn'
    BY <1>8 DEF Promote, others
  <2>6. \A k \in JobRows : job[k].item \in Items
    BY DEF WellFormed
  <2> QED
    BY <2>1, <2>2, <2>3, <2>4, <2>5, <2>6 DEF JobsSingle, JobRows, Makes
<1>9. ASSUME NEW c \in Calls, PromoteFails(c) PROVE JobsSingle'
  <2>1. \A d \in Calls : d # c => call'[d] = call[d]
    BY <1>9 DEF PromoteFails, Begin, Goto, Answered, TypeOK, Fails, Leaves
  <2>2. \A k \in Jobs : ~ Makes(c, k)
    BY <1>9, StepOfCall
       DEF PromoteFails, Makes, Begin, Idle, At, WellFormed, CallOK, Resolving
  <2>3. job' = job
    BY <1>9 DEF PromoteFails
  <2>4. \A i \in Items : item'[i].st = item[i].st /\ (item[i].marker => item'[i].marker)
    BY <1>9 DEF PromoteFails
  <2>5. torn \subseteq torn'
    BY <1>9 DEF PromoteFails, others
  <2>6. \A k \in JobRows : job[k].item \in Items
    BY DEF WellFormed
  <2> QED
    BY <2>1, <2>2, <2>3, <2>4, <2>5, <2>6 DEF JobsSingle, JobRows, Makes
<1>10. ASSUME NEW c \in Calls, SaveMarker(c) PROVE JobsSingle'
  <2>1. \A d \in Calls : d # c => call'[d] = call[d]
    BY <1>10 DEF SaveMarker, Begin, Goto, Answered, TypeOK
  <2>2. \A k \in Jobs : ~ Makes(c, k)
    BY <1>10, StepOfCall
       DEF SaveMarker, Makes, Begin, Idle, At, WellFormed, CallOK, Resolving
  <2>3. job' = job
    BY <1>10 DEF SaveMarker
  <2>4. \A i \in Items : item'[i].st = item[i].st /\ (item[i].marker => item'[i].marker)
    BY <1>10 DEF SaveMarker, TypeOK, ItemType
  <2>5. torn \subseteq torn'
    BY <1>10 DEF SaveMarker, others
  <2>6. \A k \in JobRows : job[k].item \in Items
    BY DEF WellFormed
  <2> QED
    BY <2>1, <2>2, <2>3, <2>4, <2>5, <2>6 DEF JobsSingle, JobRows, Makes
<1>11. ASSUME NEW c \in Calls, CreateJob(c) PROVE JobsSingle'
  <2>1. PICK j \in Jobs : /\ job' = [job EXCEPT ![j] = [st |-> "PENDING", item |-> call[c].item, filed |-> FALSE]]
                         /\ call' = [call EXCEPT ![c].at = "file", ![c].id = j]
    BY <1>11 DEF CreateJob
  <2>2. PastWait(c) /\ call[c].op = "dispatch" /\ item[call[c].item].marker
    BY <1>11, StepOfCall DEF CreateJob, At, PastWait, Resolving, Promotions
  <2>3. \A k \in JobRows : job[k].item = call[c].item => call[c].item \in torn
    BY <1>11, <2>2, OwnJobOnly DEF CreateJob, At, Makes
  <2>4. \A k \in JobRows : ~ Makes(c, k)
    BY <1>11 DEF CreateJob, At, Makes
  <2>5. /\ \A d \in Calls : d # c => call'[d] = call[d]
        /\ call'[c].op = "dispatch" /\ call'[c].at = "file" /\ call'[c].id = j
        /\ call'[c].item = call[c].item
    BY <2>1, <2>2 DEF TypeOK, CallType
  <2>6. job'[j].item = call[c].item /\ \A k \in Jobs : k # j => job'[k] = job[k]
    BY <2>1 DEF TypeOK
  <2>7. item' = item /\ torn' = torn
    BY <1>11 DEF CreateJob
  <2> QED
    BY <2>2, <2>3, <2>4, <2>5, <2>6, <2>7 DEF JobsSingle, JobRows, Makes
<1>12. ASSUME NEW c \in Calls, FileJob(c) PROVE JobsSingle'
  <2>1. PICK j \in Jobs : j = call[c].id
    BY <1>12 DEF FileJob, At, WellFormed, CallOK
  <2>2. PastWait(c) /\ call[c].op = "dispatch" /\ item[call[c].item].marker
    BY <1>12, StepOfCall DEF FileJob, At, PastWait, Resolving, Promotions
  <2>3. \A k \in JobRows : job[k].item = call[c].item => call[c].item \in torn \/ k = j
    BY <2>1, <2>2, OwnJobOnly DEF Makes
  <2>4. /\ \A d \in Calls : d # c => call'[d] = call[d]
        /\ call'[c].op = "dispatch" /\ call'[c].at = "queue" /\ call'[c].id = j
        /\ call'[c].item = call[c].item
    BY <1>12, <2>1, <2>2 DEF FileJob, Goto, TypeOK, CallType
  <2>5. job'[j].item = call[c].item /\ \A k \in Jobs : k # j => job'[k] = job[k]
    BY <1>12, <2>1 DEF FileJob, TypeOK
  <2>6. item' = item /\ torn' = torn
    BY <1>12 DEF FileJob
  <2> QED
    BY <2>1, <2>2, <2>3, <2>4, <2>5, <2>6 DEF JobsSingle, JobRows, Makes
<1>13. ASSUME NEW c \in Calls, Enqueue(c) PROVE JobsSingle'
  <2>1. call[c].op = "dispatch"
    BY <1>13, StepOfCall DEF Enqueue
  <2>2. /\ \A d \in Calls : d # c => call'[d] = call[d]
        /\ call'[c].op = "dispatch" /\ call'[c].at = "resolve" /\ call'[c].id = call[c].id
        /\ call'[c].item = call[c].item
    BY <1>13, <2>1 DEF Enqueue, Goto, TypeOK, CallType
  <2>3. JobRows' = JobRows /\ \A k \in Jobs : job'[k].item = job[k].item
    BY <1>13 DEF Enqueue, JobRows, TypeOK, JobType
  <2>4. item' = item /\ torn' = torn
    BY <1>13 DEF Enqueue
  <2> QED
    BY <2>2, <2>3, <2>4 DEF JobsSingle, JobRows, Makes
<1>14. ASSUME NEW c \in Calls, DispatchFails(c) PROVE JobsSingle'
  <2>1. PastWait(c)
    BY <1>14, StepOfCall DEF DispatchFails, At, PastWait, Resolving
  <2>2. \A k \in JobRows' : k \in JobRows /\ k # call[c].id /\ job'[k] = job[k]
    BY <1>14 DEF DispatchFails, JobRows, TypeOK, JobType
  <2>3. \A k \in JobRows' : job[k].item = call[c].item => call[c].item \in torn
    BY <2>1, <2>2, OwnJobOnly DEF Makes
  <2>4. \A d \in Calls : d # c => call'[d] = call[d]
    BY <1>14 DEF DispatchFails, Fails, Leaves, Answered, TypeOK
  <2>5. item' = item /\ torn' = torn
    BY <1>14 DEF DispatchFails
  <2> QED
    BY <2>2, <2>3, <2>4, <2>5 DEF JobsSingle, JobRows, Makes
<1>15. ASSUME NEW c \in Calls, Unlink(c) PROVE JobsSingle'
  <2>1. \A d \in Calls : d # c => call'[d] = call[d]
    BY <1>15 DEF Unlink, Begin, Goto, Answered, TypeOK
  <2>2. \A k \in Jobs : ~ Makes(c, k)
    BY <1>15, StepOfCall
       DEF Unlink, Makes, Begin, Idle, At, WellFormed, CallOK, Resolving
  <2>3. job' = job
    BY <1>15 DEF Unlink
  <2>4. \A i \in Items : item'[i].st = item[i].st /\ (item[i].marker => item'[i].marker)
    BY <1>15 DEF Unlink
  <2>5. torn \subseteq torn'
    BY <1>15 DEF Unlink, others
  <2>6. \A k \in JobRows : job[k].item \in Items
    BY DEF WellFormed
  <2> QED
    BY <2>1, <2>2, <2>3, <2>4, <2>5, <2>6 DEF JobsSingle, JobRows, Makes
<1>16. ASSUME NEW c \in Calls, MarkResolved(c) PROVE JobsSingle'
  <2>1. Verdict(call[c].op) # "PENDING" /\ call[c].op \in IntakeOps
    BY <1>16, StepOfCall DEF MarkResolved, Verdict, IntakeOps
  <2>2. \A d \in Calls : d # c => call'[d] = call[d]
    BY <1>16 DEF MarkResolved, Leaves, Answered, TypeOK
  <2>3. \A k \in Items : /\ item'[k].marker = item[k].marker
                        /\ IF k = call[c].item THEN item'[k].st # "PENDING" ELSE item'[k] = item[k]
    BY <1>16, <2>1 DEF MarkResolved, TypeOK, ItemType
  <2>4. job' = job /\ torn' = torn
    BY <1>16 DEF MarkResolved
  <2>5. \A k \in JobRows : job[k].item \in Items
    BY DEF WellFormed
  <2> QED
    BY <2>2, <2>3, <2>4, <2>5 DEF JobsSingle, JobRows, Makes
<1>17. CASE Crash
  <2>1. job' = job /\ item' = item
    BY <1>17 DEF Crash
  <2>2. \A c \in Calls, j \in JobRows : Makes(c, j) => job[j].item \in torn'
    BY <1>17 DEF Crash, Makes, IntakeOps
  <2>3. torn \subseteq torn'
    BY <1>17 DEF Crash
  <2> QED
    BY <2>1, <2>2, <2>3 DEF JobsSingle, JobRows
<1>18. CASE Boot
  BY <1>18 DEF Boot, JobsSingle, JobRows, Makes
<1>19. ASSUME NEW c \in Calls, Elsewhere(c) PROVE JobsSingle'
  BY <1>19, ElsewhereStep DEF JobsSingle, Makes, IntakeOps
<1>20. CASE UNCHANGED vars
  BY <1>20 DEF vars, JobsSingle, JobRows, Makes
<1>21. CASE OverrideReason
  BY <1>21 DEF OverrideReason, inbox, JobsSingle, JobRows, Makes
<1> QED
  BY <1>1, <1>2, <1>3, <1>4, <1>5, <1>6, <1>7, <1>8, <1>9, <1>10, <1>11, <1>12,
     <1>13, <1>14, <1>15, <1>16, <1>17, <1>18, <1>19, <1>20, <1>21
     DEF Next, Request, CallStep, IntakeStep, DeletionStep, LogStep, Elsewhere

(* A dispatch leaves at most one job of an item, however often it fails    *)
(* and is tried again.                                                     *)
THEOREM OneJobForAnItem == Spec => []OneJobPerItem
<1>1. TypedAndLocked /\ BytesInv /\ JobsInv /\ [Next]_vars => JobsInv'
  BY StepJobsMade, StepJobsSingle DEF JobsInv
<1>2. JobsInv => OneJobPerItem
  <2> SUFFICES ASSUME JobsSingle, NEW i \in Items \ torn
               PROVE  Cardinality({j \in JobRows : job[j].item = i}) <= 1
    BY DEF JobsInv, OneJobPerItem
  <2>1. CASE {j \in JobRows : job[j].item = i} = {}
    BY <2>1, FS_EmptySet
  <2>2. CASE {j \in JobRows : job[j].item = i} # {}
    <3>1. PICK k \in JobRows : job[k].item = i
      BY <2>2
    <3>2. {j \in JobRows : job[j].item = i} = {k}
      BY <3>1 DEF JobsSingle
    <3>3. Cardinality({k}) = 1
      BY FS_Singleton
    <3>4. Cardinality({j \in JobRows : job[j].item = i}) = 1
      BY <3>2, <3>3, Zenon
    <3> QED
      BY <3>4, SMT
  <2> QED
    BY <2>1, <2>2
<1> QED
  BY <1>1, <1>2, InitJobs, BytesAlways, TypesAndLock, PTL DEF Spec

----------------------------------------------------------------------------
(* Maintenance, and the files of the queue                                 *)

(* The reason of an active log is set, will be set by the call that makes  *)
(* the log, or was cleared by the call that is about to remove it.         *)
Accounted(l) ==
    \/ reason
    \/ \E c \in Calls : /\ call[c].id = l
                        /\ \/ call[c].op = "create" /\ call[c].at = "reason"
                           \/ call[c].op = "delete" /\ call[c].at = "remove"

ReasonsAccounted == up /\ ~ blanked => \A l \in Active : Accounted(l)

(* A completed log is not active any more, and no log is made twice.       *)
LogsMade ==
    \A c \in Calls :
       /\ call[c].at \in {"complete", "clear", "remove"} => log[call[c].id] # "none"
       /\ call[c].op = "complete" /\ call[c].at = "clear" => log[call[c].id] # "active"

ReasonInv == ReasonsAccounted /\ LogsMade

(* A step of a call that is not about a log.                               *)
NoLogStep(c) ==
    \/ \E i \in Items : Upload(c, i) \/ \E op \in IntakeOps \ {"upload"} : Resolve(c, op, i)
    \/ \E j \in Jobs : DeleteJob(c, j)
    \/ IntakeStep(c)
    \/ DeletionStep(c)

LEMMA NoLogFrame ==
  ASSUME TypeOK, WellFormed, NEW c \in Calls, NoLogStep(c)
  PROVE  /\ \A d \in Calls : d # c => call'[d] = call[d]
         /\ {call[c].at, call'[c].at} \cap {"reason", "complete", "clear", "remove"} = {}
         /\ log' = log /\ reason' = reason /\ blanked' = blanked /\ up' = up
<1> DEFINE Framed ==
             /\ \A d \in Calls : d # c => call'[d] = call[d]
             /\ {call[c].at, call'[c].at} \cap {"reason", "complete", "clear", "remove"} = {}
             /\ log' = log /\ reason' = reason /\ blanked' = blanked /\ up' = up
<1> SUFFICES Framed
  OBVIOUS
<1> USE StepOfCall
  DEF At, Begin, Goto, Answered, Idle, Fails, Leaves, TypeOK, CallType
<1>1. ASSUME NEW i \in Items, Upload(c, i) PROVE Framed
  BY <1>1 DEF Upload, others
<1>2. CASE Stage(c)
  BY <1>2 DEF Stage, others
<1>3. CASE SaveUpload(c)
  BY <1>3 DEF SaveUpload, others
<1>4. CASE UploadFails(c)
  BY <1>4 DEF UploadFails, others, WellFormed, CallOK
<1>5. ASSUME NEW op \in IntakeOps \ {"upload"}, NEW i \in Items,
             Resolve(c, op, i)
      PROVE Framed
  BY <1>5 DEF Resolve, others
<1>6. CASE Take(c)
  BY <1>6 DEF Take, others
<1>7. CASE Refuse(c)
  BY <1>7 DEF Refuse, others
<1>8. CASE Promote(c)
  BY <1>8 DEF Promote, others
<1>9. CASE PromoteFails(c)
  BY <1>9 DEF PromoteFails, others
<1>10. CASE SaveMarker(c)
  BY <1>10 DEF SaveMarker, others
<1>11. CASE CreateJob(c)
  BY <1>11 DEF CreateJob, others
<1>12. CASE FileJob(c)
  BY <1>12 DEF FileJob, others
<1>13. CASE Enqueue(c)
  BY <1>13 DEF Enqueue, others
<1>14. CASE DispatchFails(c)
  BY <1>14 DEF DispatchFails, others
<1>15. CASE Unlink(c)
  BY <1>15 DEF Unlink, others
<1>16. CASE MarkResolved(c)
  BY <1>16 DEF MarkResolved, others
<1>17. ASSUME NEW j \in Jobs, DeleteJob(c, j) PROVE Framed
  BY <1>17 DEF DeleteJob, rest
<1>18. CASE CountReferences(c)
  BY <1>18 DEF CountReferences, rest
<1>19. CASE DeleteFile(c)
  BY <1>19 DEF DeleteFile, rest
<1> QED
  BY <1>1, <1>2, <1>3, <1>4, <1>5, <1>6, <1>7, <1>8, <1>9, <1>10, <1>11, <1>12,
     <1>13, <1>14, <1>15, <1>16, <1>17, <1>18, <1>19
     DEF NoLogStep, IntakeStep, DeletionStep

LEMMA InitReason == Init => ReasonInv
  BY DEF Init, ReasonInv, ReasonsAccounted, LogsMade, Accounted, Active, Idle

LEMMA StepReasons == TypedAndLocked /\ ReasonInv /\ [Next]_vars => ReasonsAccounted'
<1> SUFFICES ASSUME TypeOK, WellFormed, Locked, ReasonsAccounted, LogsMade, [Next]_vars
             PROVE  ReasonsAccounted'
  BY DEF TypedAndLocked, ReasonInv
<1> USE DEF Active, Accounted
<1>1. ASSUME NEW c \in Calls, CreateLog(c) PROVE ReasonsAccounted'
  BY <1>1
     DEF CreateLog, inbox, ReasonsAccounted, LogsMade, Begin, Goto, Answered,
         At, Idle, TypeOK, LogStates, CallType, WellFormed, CallOK,
         InMaintenance
<1>2. ASSUME NEW c \in Calls, InsertLog(c) PROVE ReasonsAccounted'
  <2>1. up' = up /\ blanked' = blanked /\ reason' = reason /\ At(c, "insert")
    BY <1>2 DEF InsertLog, inbox
  <2>2. \A d \in Calls : d # c => call'[d] = call[d]
    BY <1>2 DEF InsertLog, Answered, TypeOK
  <2>3. CASE InMaintenance
    BY <1>2, <2>1, <2>2, <2>3 DEF InsertLog, At, ReasonsAccounted
  <2>4. CASE ~ InMaintenance
    <3>1. PICK l \in Logs : log' = [log EXCEPT ![l] = "active"]
                           /\ call' = [call EXCEPT ![c].at = "reason", ![c].id = l]
      BY <1>2, <2>4 DEF InsertLog
    <3>2. call'[c].id = l /\ call'[c].at = "reason" /\ call'[c].op = "create"
      BY <2>1, <3>1, StepOfCall DEF TypeOK, CallType
    <3>3. \A k \in Logs : log'[k] = "active" => k = l
      BY <2>4, <3>1 DEF InMaintenance, TypeOK
    <3> QED
      BY <3>2, <3>3 DEF ReasonsAccounted
  <2> QED
    BY <2>3, <2>4
<1>3. ASSUME NEW c \in Calls, SetReason(c) PROVE ReasonsAccounted'
  BY <1>3
     DEF SetReason, inbox, ReasonsAccounted, LogsMade, Begin, Goto, Answered,
         At, Idle, TypeOK, LogStates, CallType, WellFormed, CallOK,
         InMaintenance
<1>4. ASSUME NEW c \in Calls, NEW l \in Logs, CompleteLog(c, l)
      PROVE ReasonsAccounted'
  BY <1>4
     DEF CompleteLog, inbox, ReasonsAccounted, LogsMade, Begin, Goto, Answered,
         At, Idle, TypeOK, LogStates, CallType, WellFormed, CallOK,
         InMaintenance
<1>5. ASSUME NEW c \in Calls, SaveCompleted(c) PROVE ReasonsAccounted'
  BY <1>5
     DEF SaveCompleted, inbox, ReasonsAccounted, LogsMade, Begin, Goto,
         Answered, At, Idle, TypeOK, LogStates, CallType, WellFormed, CallOK,
         InMaintenance
<1>6. ASSUME NEW c \in Calls, NEW l \in Logs, DeleteLog(c, l)
      PROVE ReasonsAccounted'
  BY <1>6
     DEF DeleteLog, inbox, ReasonsAccounted, LogsMade, Begin, Goto, Answered,
         At, Idle, TypeOK, LogStates, CallType, WellFormed, CallOK,
         InMaintenance
<1>7. ASSUME NEW c \in Calls, ClearReason(c) PROVE ReasonsAccounted'
  <2>1. /\ up' = up /\ log' = log /\ At(c, "clear")
        /\ blanked' = (blanked \/ Active \ {call[c].id} # {})
    BY <1>7 DEF ClearReason, inbox
  <2>2. CASE call[c].op = "complete"
    <3>1. log[call[c].id] # "active"
      BY <2>1, <2>2 DEF At, LogsMade
    <3> QED
      BY <2>1, <3>1 DEF ReasonsAccounted
  <2>3. CASE call[c].op = "delete"
    <3>1. call'[c].id = call[c].id /\ call'[c].at = "remove" /\ call'[c].op = "delete"
      BY <1>7, <2>3 DEF ClearReason, Goto, TypeOK, CallType
    <3>2. ~ blanked' => \A l \in Active : l = call[c].id
      BY <2>1
    <3> QED
      BY <2>1, <3>1, <3>2 DEF ReasonsAccounted
  <2> QED
    BY <2>1, <2>2, <2>3, StepOfCall
<1>8. ASSUME NEW c \in Calls, RemoveLog(c) PROVE ReasonsAccounted'
  BY <1>8
     DEF RemoveLog, inbox, ReasonsAccounted, LogsMade, Begin, Goto, Answered,
         At, Idle, TypeOK, LogStates, CallType, WellFormed, CallOK,
         InMaintenance
<1>9. CASE Crash
  BY <1>9 DEF Crash, ReasonsAccounted
<1>10. CASE Boot
  BY <1>10 DEF Boot, ReasonsAccounted, InMaintenance
<1>11. ASSUME NEW c \in Calls, NoLogStep(c) PROVE ReasonsAccounted'
  <2>1. Active' = Active /\ up' = up /\ blanked' = blanked /\ reason' = reason
    BY <1>11, NoLogFrame DEF Active
  <2>2. \A d \in Calls : call[d].at \in {"reason", "remove"} => call'[d] = call[d]
    BY <1>11, NoLogFrame
  <2> QED
    BY <2>1, <2>2 DEF ReasonsAccounted, Accounted
<1>12. CASE UNCHANGED vars
  BY <1>12 DEF vars, ReasonsAccounted
<1>13. CASE OverrideReason
  BY <1>13 DEF OverrideReason, inbox, ReasonsAccounted, InMaintenance
<1> QED
  BY <1>1, <1>2, <1>3, <1>4, <1>5, <1>6, <1>7, <1>8, <1>9, <1>10, <1>11, <1>12, <1>13
     DEF Next, Request, CallStep, IntakeStep, DeletionStep, LogStep, NoLogStep

LEMMA StepLogsMade == TypedAndLocked /\ ReasonInv /\ [Next]_vars => LogsMade'
<1> SUFFICES ASSUME TypeOK, WellFormed, Locked, LogsMade, [Next]_vars PROVE LogsMade'
  BY DEF TypedAndLocked, ReasonInv
<1>1. ASSUME NEW c \in Calls, CreateLog(c) PROVE LogsMade'
  BY <1>1
     DEF CreateLog, inbox, LogsMade, Active, Begin, Goto, Answered, At, Idle,
         TypeOK, LogStates, CallType, WellFormed, CallOK, InMaintenance
<1>2. ASSUME NEW c \in Calls, InsertLog(c) PROVE LogsMade'
  BY <1>2
     DEF InsertLog, inbox, LogsMade, Active, Begin, Goto, Answered, At, Idle,
         TypeOK, LogStates, CallType, WellFormed, CallOK, InMaintenance
<1>3. ASSUME NEW c \in Calls, SetReason(c) PROVE LogsMade'
  BY <1>3
     DEF SetReason, inbox, LogsMade, Active, Begin, Goto, Answered, At, Idle,
         TypeOK, LogStates, CallType, WellFormed, CallOK, InMaintenance
<1>4. ASSUME NEW c \in Calls, NEW l \in Logs, CompleteLog(c, l) PROVE LogsMade'
  BY <1>4
     DEF CompleteLog, inbox, LogsMade, Active, Begin, Goto, Answered, At, Idle,
         TypeOK, LogStates, CallType, WellFormed, CallOK, InMaintenance
<1>5. ASSUME NEW c \in Calls, SaveCompleted(c) PROVE LogsMade'
  BY <1>5
     DEF SaveCompleted, inbox, LogsMade, Active, Begin, Goto, Answered, At,
         Idle, TypeOK, LogStates, CallType, WellFormed, CallOK, InMaintenance
<1>6. ASSUME NEW c \in Calls, NEW l \in Logs, DeleteLog(c, l) PROVE LogsMade'
  BY <1>6
     DEF DeleteLog, inbox, LogsMade, Active, Begin, Goto, Answered, At, Idle,
         TypeOK, LogStates, CallType, WellFormed, CallOK, InMaintenance
<1>7. ASSUME NEW c \in Calls, ClearReason(c) PROVE LogsMade'
  <2>1. At(c, "clear") /\ log' = log
    BY <1>7 DEF ClearReason
  <2>2. \A d \in Calls : d # c => call'[d] = call[d]
    BY <1>7 DEF ClearReason, Goto, Answered, TypeOK
  <2>3. call'[c].at = "idle" \/ (call'[c].at = "remove" /\ call'[c].id = call[c].id)
    BY <1>7 DEF ClearReason, Goto, Answered, Idle, TypeOK, CallType
  <2> QED
    BY <2>1, <2>2, <2>3 DEF LogsMade, At
<1>8. ASSUME NEW c \in Calls, RemoveLog(c) PROVE LogsMade'
  BY <1>8
     DEF RemoveLog, inbox, LogsMade, Active, Begin, Goto, Answered, At, Idle,
         TypeOK, LogStates, CallType, WellFormed, CallOK, InMaintenance
<1>9. CASE Crash
  BY <1>9 DEF Crash, LogsMade, Idle
<1>10. CASE Boot
  BY <1>10 DEF Boot, LogsMade
<1>11. ASSUME NEW c \in Calls, NoLogStep(c) PROVE LogsMade'
  BY <1>11, NoLogFrame DEF LogsMade
<1>12. CASE UNCHANGED vars
  BY <1>12 DEF vars, LogsMade
<1>13. CASE OverrideReason
  BY <1>13 DEF OverrideReason, inbox, LogsMade
<1> QED
  BY <1>1, <1>2, <1>3, <1>4, <1>5, <1>6, <1>7, <1>8, <1>9, <1>10, <1>11, <1>12, <1>13
     DEF Next, Request, CallStep, IntakeStep, DeletionStep, LogStep, NoLogStep

(* A printer with an active maintenance log shows it, for any number of    *)
(* logs, calls and crashes, unless the reason was cleared by hand or by    *)
(* the end of another log, and until one is set again.                     *)
THEOREM MaintenanceIsShown == Spec => []MaintenanceShown
<1>1. Init => ReasonInv
  BY InitReason
<1>2. TypedAndLocked /\ ReasonInv /\ [Next]_vars => ReasonInv'
  BY StepReasons, StepLogsMade DEF ReasonInv
<1>3. ReasonInv => MaintenanceShown
  BY DEF ReasonInv, ReasonsAccounted, Accounted, MaintenanceShown, LogOps
<1> QED
  BY <1>1, <1>2, <1>3, TypesAndLock, PTL DEF Spec

----------------------------------------------------------------------------

(* A job that was given a file in time has it, and no deletion is about to *)
(* erase that file.                                                        *)
FilesThere ==
    \A j \in JobRows \ late : job[j].filed =>
       /\ FileOf[job[j].item] \in stored
       /\ \A c \in Calls : call[c].at = "erase"
                           => FileOf[call[c].item] # FileOf[job[j].item]

(* No job is queued before it has its file.                                *)
FiledFirst ==
    /\ \A j \in Jobs : job[j].st = "QUEUED" => job[j].filed
    /\ \A c \in Calls : call[c].at = "queue" => job[call[c].id].filed

FilesInv == FilesThere /\ FiledFirst

LEMMA InitFiles == Init => FilesInv
  BY DEF Init, FilesInv, FilesThere, FiledFirst, JobRows, NoJob, Idle

(* A step of a call that leaves the jobs and the stored files alone.       *)
NoFileStep(c) ==
    \/ \E i \in Items : Upload(c, i) \/ \E op \in IntakeOps \ {"upload"} : Resolve(c, op, i)
    \/ Stage(c) \/ SaveUpload(c) \/ UploadFails(c) \/ Take(c) \/ Refuse(c)
    \/ PromoteFails(c) \/ SaveMarker(c) \/ Unlink(c) \/ MarkResolved(c)
    \/ CreateLog(c) \/ \E l \in Logs : CompleteLog(c, l) \/ DeleteLog(c, l)
    \/ LogStep(c)

LEMMA NoFileFrame ==
  ASSUME TypeOK, NEW c \in Calls, NoFileStep(c)
  PROVE  /\ \A d \in Calls : d # c => call'[d] = call[d]
         /\ call'[c].at \notin {"erase", "queue"}
         /\ job' = job /\ stored' = stored /\ late' = late
<1> DEFINE Framed ==
             /\ \A d \in Calls : d # c => call'[d] = call[d]
             /\ call'[c].at \notin {"erase", "queue"}
             /\ job' = job /\ stored' = stored /\ late' = late
<1> SUFFICES Framed
  OBVIOUS
<1> USE DEF Begin, Goto, Answered, Idle, Fails, Leaves, TypeOK, CallType
<1>1. ASSUME NEW i \in Items, Upload(c, i) PROVE Framed
  BY <1>1 DEF Upload
<1>2. CASE Stage(c)
  BY <1>2 DEF Stage
<1>3. CASE SaveUpload(c)
  BY <1>3 DEF SaveUpload
<1>4. CASE UploadFails(c)
  BY <1>4 DEF UploadFails
<1>5. ASSUME NEW op \in IntakeOps \ {"upload"}, NEW i \in Items,
             Resolve(c, op, i)
      PROVE Framed
  BY <1>5 DEF Resolve
<1>6. CASE Take(c)
  BY <1>6 DEF Take
<1>7. CASE Refuse(c)
  BY <1>7 DEF Refuse
<1>8. CASE PromoteFails(c)
  BY <1>8 DEF PromoteFails
<1>9. CASE SaveMarker(c)
  BY <1>9 DEF SaveMarker
<1>10. CASE Unlink(c)
  BY <1>10 DEF Unlink
<1>11. CASE MarkResolved(c)
  BY <1>11 DEF MarkResolved
<1>12. CASE CreateLog(c)
  BY <1>12 DEF CreateLog, inbox
<1>13. CASE InsertLog(c)
  BY <1>13 DEF InsertLog, inbox
<1>14. CASE SetReason(c)
  BY <1>14 DEF SetReason, inbox
<1>15. ASSUME NEW l \in Logs, CompleteLog(c, l) PROVE Framed
  BY <1>15 DEF CompleteLog, inbox
<1>16. CASE SaveCompleted(c)
  BY <1>16 DEF SaveCompleted, inbox
<1>17. ASSUME NEW l \in Logs, DeleteLog(c, l) PROVE Framed
  BY <1>17 DEF DeleteLog, inbox
<1>18. CASE ClearReason(c)
  BY <1>18 DEF ClearReason, inbox
<1>19. CASE RemoveLog(c)
  BY <1>19 DEF RemoveLog, inbox
<1> QED
  BY <1>1, <1>2, <1>3, <1>4, <1>5, <1>6, <1>7, <1>8, <1>9, <1>10, <1>11, <1>12,
     <1>13, <1>14, <1>15, <1>16, <1>17, <1>18, <1>19
     DEF NoFileStep, LogStep

LEMMA StepFilesThere == TypedAndLocked /\ FilesInv /\ [Next]_vars => FilesThere'
<1> SUFFICES ASSUME TypeOK, WellFormed, Locked, FilesThere, FiledFirst, [Next]_vars PROVE FilesThere'
  BY DEF TypedAndLocked, FilesInv
<1>1. ASSUME NEW c \in Calls, Promote(c) PROVE FilesThere'
  <2>1. \A d \in Calls : d # c => call'[d] = call[d]
    BY <1>1 DEF Promote, Goto, TypeOK
  <2>2. call'[c].at = "promoted"
    BY <1>1 DEF Promote, Goto, TypeOK, CallType
  <2>3. job' = job /\ late' = late /\ At(c, "promote")
    BY <1>1 DEF Promote, rest
  <2>4. stored \subseteq stored'
    BY <1>1 DEF Promote
  <2> QED
    BY <2>1, <2>2, <2>3, <2>4 DEF FilesThere, JobRows, References, At
<1>2. ASSUME NEW c \in Calls, CreateJob(c) PROVE FilesThere'
  <2>1. \A d \in Calls : d # c => call'[d] = call[d]
    BY <1>2 DEF CreateJob, TypeOK
  <2>2. call'[c].at = "file"
    BY <1>2 DEF CreateJob, TypeOK, CallType
  <2>3. PICK j \in Jobs : /\ job[j] = NoJob
                         /\ job' = [job EXCEPT ![j] = [st |-> "PENDING", item |-> call[c].item, filed |-> FALSE]]
    BY <1>2 DEF CreateJob
  <2>4. ~ job'[j].filed /\ job'[j].st = "PENDING" /\ ~ job[j].filed /\ \A k \in Jobs : k # j => job'[k] = job[k]
    BY <2>3 DEF NoJob, TypeOK
  <2>5. stored' = stored /\ late' = late
    BY <1>2 DEF CreateJob
  <2>6. \A d \in Calls : call[d].at = "queue" => call[d].id \in Jobs
    BY DEF WellFormed, CallOK
  <2> QED
    BY <2>1, <2>2, <2>4, <2>5, <2>6 DEF FilesThere, JobRows
<1>3. ASSUME NEW c \in Calls, FileJob(c) PROVE FilesThere'
  <2>1. \A d \in Calls : d # c => call'[d] = call[d]
    BY <1>3 DEF FileJob, Goto, TypeOK
  <2>2. call'[c].at = "queue" /\ call'[c].id = call[c].id
    BY <1>3 DEF FileJob, Goto, TypeOK, CallType
  <2>3. call[c].id \in Jobs
    BY <1>3 DEF FileJob, At, WellFormed, CallOK
  <2>4. stored' = stored /\ late \subseteq late'
        /\ (call[c].id \notin late' => ~ FileGoes(FileOf[call[c].item]))
    BY <1>3 DEF FileJob
  <2>5. job'[call[c].id].filed /\ job'[call[c].id].item = call[c].item
        /\ job'[call[c].id].st = "PENDING" /\ \A k \in Jobs : k # call[c].id => job'[k] = job[k]
    BY <1>3, <2>3 DEF FileJob, TypeOK
  <2> QED
    BY <2>1, <2>2, <2>3, <2>4, <2>5
       DEF FilesThere, JobRows, FileGoes, At, WellFormed, CallOK
<1>4. ASSUME NEW c \in Calls, Enqueue(c) PROVE FilesThere'
  <2>1. \A d \in Calls : d # c => call'[d] = call[d]
    BY <1>4 DEF Enqueue, Goto, TypeOK
  <2>2. call'[c].at = "resolve"
    BY <1>4 DEF Enqueue, Goto, TypeOK, CallType
  <2>3. JobRows' = JobRows /\ stored' = stored /\ late' = late
    BY <1>4 DEF Enqueue, JobRows, TypeOK, JobType
  <2>4. \A k \in JobRows : job'[k].item = job[k].item /\ job'[k].filed = job[k].filed
    BY <1>4 DEF Enqueue, JobRows, TypeOK, JobType
  <2>5. \A d \in Calls : call'[d].at = "erase" => call'[d] = call[d]
    BY <2>1, <2>2
  <2> QED
    BY <2>3, <2>4, <2>5 DEF FilesThere
<1>5. ASSUME NEW c \in Calls, DispatchFails(c) PROVE FilesThere'
  <2>1. \A d \in Calls : d # c => call'[d] = call[d]
    BY <1>5 DEF DispatchFails, Fails, Leaves, Answered, Idle, TypeOK
  <2>2. call'[c].at = "idle"
    BY <1>5 DEF DispatchFails, Fails, Leaves, Answered, Idle, TypeOK, CallType
  <2>3. stored' = stored /\ late' = late
        /\ \A k \in Jobs : /\ job'[k].item = job[k].item /\ job'[k].filed = job[k].filed
                          /\ job'[k].st \in {job[k].st, "deleted"}
    BY <1>5 DEF DispatchFails, rest, TypeOK, JobType
  <2>4. \A d \in Calls : call[d].at = "queue" => call[d].id \in Jobs
    BY DEF WellFormed, CallOK
  <2> QED
    BY <2>1, <2>2, <2>3, <2>4 DEF FilesThere, JobRows
<1>6. ASSUME NEW c \in Calls, NEW j \in Jobs, DeleteJob(c, j) PROVE FilesThere'
  <2>1. \A d \in Calls : d # c => call'[d] = call[d]
    BY <1>6 DEF DeleteJob, Begin, TypeOK
  <2>2. call'[c].at = "count"
    BY <1>6 DEF DeleteJob, Begin, TypeOK, CallType
  <2>3. stored' = stored /\ late' = late
        /\ \A k \in Jobs : /\ job'[k].item = job[k].item /\ job'[k].filed = job[k].filed
                          /\ job'[k].st \in {job[k].st, "deleted"}
    BY <1>6 DEF DeleteJob, rest, TypeOK, JobType
  <2>4. \A d \in Calls : call[d].at = "queue" => call[d].id \in Jobs
    BY DEF WellFormed, CallOK
  <2> QED
    BY <2>1, <2>2, <2>3, <2>4 DEF FilesThere, JobRows
<1>7. ASSUME NEW c \in Calls, CountReferences(c) PROVE FilesThere'
  <2>1. \A d \in Calls : d # c => call'[d] = call[d]
    BY <1>7 DEF CountReferences, Goto, Answered, Idle, TypeOK
  <2>2. \/ call'[c].at = "idle"
        \/ /\ call'[c].at = "erase"
           /\ call'[c].item = call[c].item
           /\ References(FileOf[call[c].item]) = {}
    <3>1. CASE call[c].known /\ References(FileOf[call[c].item]) = {}
      BY <1>7, <3>1 DEF CountReferences, Goto, TypeOK, CallType
    <3>2. CASE ~ (call[c].known /\ References(FileOf[call[c].item]) = {})
      BY <1>7, <3>2 DEF CountReferences, Answered, Idle, TypeOK
    <3> QED
      BY <3>1, <3>2
  <2>3. job' = job /\ late' = late /\ At(c, "count")
    BY <1>7 DEF CountReferences, rest
  <2>4. stored' = stored
    BY <1>7 DEF CountReferences
  <2> QED
    BY <2>1, <2>2, <2>3, <2>4 DEF FilesThere, JobRows, References, At
<1>8. ASSUME NEW c \in Calls, DeleteFile(c) PROVE FilesThere'
  <2>1. \A d \in Calls : d # c => call'[d] = call[d]
    BY <1>8 DEF DeleteFile, Answered, Idle, TypeOK
  <2>2. call'[c].at = "idle"
    BY <1>8 DEF DeleteFile, Answered, Idle, TypeOK, CallType
  <2>3. job' = job /\ late' = late /\ At(c, "erase")
    BY <1>8 DEF DeleteFile, rest
  <2>4. stored' = stored \ {FileOf[call[c].item]}
    BY <1>8 DEF DeleteFile
  <2> QED
    BY <2>1, <2>2, <2>3, <2>4 DEF FilesThere, JobRows, References, At
<1>9. CASE Crash
  BY <1>9 DEF Crash, FilesThere, JobRows, Idle
<1>10. CASE Boot
  BY <1>10 DEF Boot, FilesThere, JobRows
<1>11. ASSUME NEW c \in Calls, NoFileStep(c) PROVE FilesThere'
  BY <1>11, NoFileFrame DEF FilesThere, JobRows
<1>12. CASE UNCHANGED vars
  BY <1>12 DEF vars, FilesThere, JobRows
<1>13. CASE OverrideReason
  BY <1>13 DEF OverrideReason, inbox, FilesThere, JobRows
<1> QED
  BY <1>1, <1>2, <1>3, <1>4, <1>5, <1>6, <1>7, <1>8, <1>9, <1>10, <1>11, <1>12, <1>13
     DEF Next, Request, CallStep, IntakeStep, DeletionStep, LogStep, NoFileStep

LEMMA StepFiledFirst == TypedAndLocked /\ FilesInv /\ [Next]_vars => FiledFirst'
<1> SUFFICES ASSUME TypeOK, WellFormed, Locked, FilesThere, FiledFirst, [Next]_vars PROVE FiledFirst'
  BY DEF TypedAndLocked, FilesInv
<1>1. ASSUME NEW c \in Calls, Promote(c) PROVE FiledFirst'
  <2>1. \A d \in Calls : d # c => call'[d] = call[d]
    BY <1>1 DEF Promote, Goto, TypeOK
  <2>2. call'[c].at = "promoted"
    BY <1>1 DEF Promote, Goto, TypeOK, CallType
  <2>3. job' = job /\ late' = late /\ At(c, "promote")
    BY <1>1 DEF Promote, rest
  <2>4. stored \subseteq stored'
    BY <1>1 DEF Promote
  <2> QED
    BY <2>1, <2>2, <2>3, <2>4 DEF FiledFirst, JobRows, References, At
<1>2. ASSUME NEW c \in Calls, CreateJob(c) PROVE FiledFirst'
  <2>1. \A d \in Calls : d # c => call'[d] = call[d]
    BY <1>2 DEF CreateJob, TypeOK
  <2>2. call'[c].at = "file"
    BY <1>2 DEF CreateJob, TypeOK, CallType
  <2>3. PICK j \in Jobs : /\ job[j] = NoJob
                         /\ job' = [job EXCEPT ![j] = [st |-> "PENDING", item |-> call[c].item, filed |-> FALSE]]
    BY <1>2 DEF CreateJob
  <2>4. ~ job'[j].filed /\ job'[j].st = "PENDING" /\ ~ job[j].filed /\ \A k \in Jobs : k # j => job'[k] = job[k]
    BY <2>3 DEF NoJob, TypeOK
  <2>5. stored' = stored /\ late' = late
    BY <1>2 DEF CreateJob
  <2>6. \A d \in Calls : call[d].at = "queue" => call[d].id \in Jobs
    BY DEF WellFormed, CallOK
  <2> QED
    BY <2>1, <2>2, <2>4, <2>5, <2>6 DEF FiledFirst, JobRows
<1>3. ASSUME NEW c \in Calls, FileJob(c) PROVE FiledFirst'
  <2>1. \A d \in Calls : d # c => call'[d] = call[d]
    BY <1>3 DEF FileJob, Goto, TypeOK
  <2>2. call'[c].at = "queue" /\ call'[c].id = call[c].id
    BY <1>3 DEF FileJob, Goto, TypeOK, CallType
  <2>3. call[c].id \in Jobs
    BY <1>3 DEF FileJob, At, WellFormed, CallOK
  <2>4. stored' = stored /\ late \subseteq late'
        /\ (call[c].id \notin late' => ~ FileGoes(FileOf[call[c].item]))
    BY <1>3 DEF FileJob
  <2>5. job'[call[c].id].filed /\ job'[call[c].id].item = call[c].item
        /\ job'[call[c].id].st = "PENDING" /\ \A k \in Jobs : k # call[c].id => job'[k] = job[k]
    BY <1>3, <2>3 DEF FileJob, TypeOK
  <2> QED
    BY <2>1, <2>2, <2>3, <2>4, <2>5
       DEF FiledFirst, JobRows, FileGoes, At, WellFormed, CallOK
<1>4. ASSUME NEW c \in Calls, Enqueue(c) PROVE FiledFirst'
  <2>1. \A d \in Calls : d # c => call'[d] = call[d]
    BY <1>4 DEF Enqueue, Goto, TypeOK
  <2>2. call'[c].at = "resolve"
    BY <1>4 DEF Enqueue, Goto, TypeOK, CallType
  <2>3. job[call[c].id].filed
    BY <1>4 DEF Enqueue, At, FiledFirst
  <2>4. \A k \in Jobs : /\ job'[k].filed = job[k].filed
                        /\ k # call[c].id => job'[k] = job[k]
    BY <1>4 DEF Enqueue, TypeOK, JobType
  <2>5. \A d \in Calls : call[d].at = "queue" => call[d].id \in Jobs
    BY DEF WellFormed, CallOK
  <2> QED
    BY <2>1, <2>2, <2>3, <2>4, <2>5 DEF FiledFirst
<1>5. ASSUME NEW c \in Calls, DispatchFails(c) PROVE FiledFirst'
  <2>1. \A d \in Calls : d # c => call'[d] = call[d]
    BY <1>5 DEF DispatchFails, Fails, Leaves, Answered, Idle, TypeOK
  <2>2. call'[c].at = "idle"
    BY <1>5 DEF DispatchFails, Fails, Leaves, Answered, Idle, TypeOK, CallType
  <2>3. stored' = stored /\ late' = late
        /\ \A k \in Jobs : /\ job'[k].item = job[k].item /\ job'[k].filed = job[k].filed
                          /\ job'[k].st \in {job[k].st, "deleted"}
    BY <1>5 DEF DispatchFails, rest, TypeOK, JobType
  <2>4. \A d \in Calls : call[d].at = "queue" => call[d].id \in Jobs
    BY DEF WellFormed, CallOK
  <2> QED
    BY <2>1, <2>2, <2>3, <2>4 DEF FiledFirst, JobRows
<1>6. ASSUME NEW c \in Calls, NEW j \in Jobs, DeleteJob(c, j) PROVE FiledFirst'
  <2>1. \A d \in Calls : d # c => call'[d] = call[d]
    BY <1>6 DEF DeleteJob, Begin, TypeOK
  <2>2. call'[c].at = "count"
    BY <1>6 DEF DeleteJob, Begin, TypeOK, CallType
  <2>3. stored' = stored /\ late' = late
        /\ \A k \in Jobs : /\ job'[k].item = job[k].item /\ job'[k].filed = job[k].filed
                          /\ job'[k].st \in {job[k].st, "deleted"}
    BY <1>6 DEF DeleteJob, rest, TypeOK, JobType
  <2>4. \A d \in Calls : call[d].at = "queue" => call[d].id \in Jobs
    BY DEF WellFormed, CallOK
  <2> QED
    BY <2>1, <2>2, <2>3, <2>4 DEF FiledFirst, JobRows
<1>7. ASSUME NEW c \in Calls, CountReferences(c) PROVE FiledFirst'
  <2>1. \A d \in Calls : d # c => call'[d] = call[d]
    BY <1>7 DEF CountReferences, Goto, Answered, Idle, TypeOK
  <2>2. \/ call'[c].at = "idle"
        \/ /\ call'[c].at = "erase"
           /\ call'[c].item = call[c].item
           /\ References(FileOf[call[c].item]) = {}
    <3>1. CASE call[c].known /\ References(FileOf[call[c].item]) = {}
      BY <1>7, <3>1 DEF CountReferences, Goto, TypeOK, CallType
    <3>2. CASE ~ (call[c].known /\ References(FileOf[call[c].item]) = {})
      BY <1>7, <3>2 DEF CountReferences, Answered, Idle, TypeOK
    <3> QED
      BY <3>1, <3>2
  <2>3. job' = job /\ late' = late /\ At(c, "count")
    BY <1>7 DEF CountReferences, rest
  <2>4. stored' = stored
    BY <1>7 DEF CountReferences
  <2> QED
    BY <2>1, <2>2, <2>3, <2>4 DEF FiledFirst, JobRows, References, At
<1>8. ASSUME NEW c \in Calls, DeleteFile(c) PROVE FiledFirst'
  <2>1. \A d \in Calls : d # c => call'[d] = call[d]
    BY <1>8 DEF DeleteFile, Answered, Idle, TypeOK
  <2>2. call'[c].at = "idle"
    BY <1>8 DEF DeleteFile, Answered, Idle, TypeOK, CallType
  <2>3. job' = job /\ late' = late /\ At(c, "erase")
    BY <1>8 DEF DeleteFile, rest
  <2>4. stored' = stored \ {FileOf[call[c].item]}
    BY <1>8 DEF DeleteFile
  <2> QED
    BY <2>1, <2>2, <2>3, <2>4 DEF FiledFirst, JobRows, References, At
<1>9. CASE Crash
  BY <1>9 DEF Crash, FiledFirst, JobRows, Idle
<1>10. CASE Boot
  BY <1>10 DEF Boot, FiledFirst, JobRows
<1>11. ASSUME NEW c \in Calls, NoFileStep(c) PROVE FiledFirst'
  BY <1>11, NoFileFrame DEF FiledFirst, JobRows
<1>12. CASE UNCHANGED vars
  BY <1>12 DEF vars, FiledFirst, JobRows
<1>13. CASE OverrideReason
  BY <1>13 DEF OverrideReason, inbox, FiledFirst, JobRows
<1> QED
  BY <1>1, <1>2, <1>3, <1>4, <1>5, <1>6, <1>7, <1>8, <1>9, <1>10, <1>11, <1>12, <1>13
     DEF Next, Request, CallStep, IntakeStep, DeletionStep, LogStep, NoFileStep

(* Deletions leave the files of the queued jobs, however many jobs share   *)
(* a file, unless the job was given it while it was being deleted.         *)
THEOREM QueuedJobsKeepFiles == Spec => []QueuedFilesKept
<1>1. TypedAndLocked /\ FilesInv /\ [Next]_vars => FilesInv'
  BY StepFilesThere, StepFiledFirst DEF FilesInv
<1>2. FilesInv => QueuedFilesKept
  BY DEF FilesInv, FilesThere, FiledFirst, QueuedFilesKept, JobRows
<1> QED
  BY <1>1, <1>2, InitFiles, TypesAndLock, PTL DEF Spec

=============================================================================
