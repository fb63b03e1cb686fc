------------------------------- MODULE Inbox -------------------------------
(***************************************************************************)
(* The intake inbox with what it shares: the print jobs and files that a   *)
(* dispatch makes and a deletion removes, and the maintenance of the       *)
(* printer that a dispatch must respect, with crashes of the server.       *)
(***************************************************************************)
EXTENDS Intake, StoredFiles, Maintenance

(* Whatever was under way is lost; what was saved stays.                   *)
Crash ==
    /\ up
    /\ budget > 0
    /\ up' = FALSE
    /\ budget' = budget - 1
    /\ call' = [c \in Calls |-> Idle]
    /\ line' = [i \in Items |-> <<>>]
    /\ torn' = torn \union {call[c].item : c \in {d \in Calls : call[d].op \in IntakeOps}}
    /\ UNCHANGED <<item, staged, stored, job, log, reason, late, blanked>>

Request(c) ==
    \/ \E i \in Items : Upload(c, i) \/ \E op \in IntakeOps \ {"upload"} : Resolve(c, op, i)
    \/ \E j \in Jobs : DeleteJob(c, j)
    \/ CreateLog(c)
    \/ \E l \in Logs : CompleteLog(c, l) \/ DeleteLog(c, l)

IntakeStep(c) ==
    \/ Stage(c) \/ SaveUpload(c) \/ UploadFails(c)
    \/ Take(c) \/ Refuse(c)
    \/ Promote(c) \/ PromoteFails(c) \/ SaveMarker(c)
    \/ CreateJob(c) \/ FileJob(c) \/ Enqueue(c) \/ DispatchFails(c)
    \/ Unlink(c) \/ MarkResolved(c)

DeletionStep(c) == CountReferences(c) \/ DeleteFile(c)

LogStep(c) ==
    \/ InsertLog(c) \/ SetReason(c)
    \/ SaveCompleted(c) \/ ClearReason(c) \/ RemoveLog(c)

CallStep(c) == IntakeStep(c) \/ DeletionStep(c) \/ LogStep(c)

Next ==
    \/ \E c \in Calls : Request(c) \/ CallStep(c)
    \/ OverrideReason
    \/ Crash
    \/ Boot

(* The database and the disk answer every call; a crashed server is        *)
(* started again.  Nobody has to make a call.                              *)
Fairness == WF_vars(Boot) /\ \A c \in Calls : WF_vars(CallStep(c))

Spec == Init /\ [][Next]_vars /\ Fairness

----------------------------------------------------------------------------

ItemType == [st : Statuses, path : BOOLEAN, marker : BOOLEAN]
JobType == [st : {"none", "PENDING", "QUEUED", "deleted"}, item : Items \union {0},
            filed : BOOLEAN]
CallType == [op : IntakeOps \union LogOps \union {"none", "deleteJob"},
             at : Steps \union {"idle"}, item : Items \union {0},
             id : Jobs \union Logs \union {0}, known : BOOLEAN]

TypeOK ==
    /\ item \in [Items -> ItemType] /\ staged \subseteq Items /\ stored \subseteq Files
    /\ job \in [Jobs -> JobType]
    /\ log \in [Logs -> LogStates] /\ reason \in BOOLEAN
    /\ line \in [Items -> Seq(Calls)] /\ call \in [Calls -> CallType]
    /\ up \in BOOLEAN /\ budget \in 0 .. MaxCalls
    /\ torn \subseteq Items /\ late \subseteq Jobs /\ blanked \in BOOLEAN

(* An item is resolved once: whatever two operators press, the first       *)
(* resolution stands.  Only an item whose upload is still under way comes  *)
(* back: createFromUpload then saves it as pending again.                  *)
ResolvedOnce ==
    [][\A i \in Items :
          item[i].st \in Resolved =>
             \/ item'[i].st = item[i].st
             \/ \E c \in Calls : call[c].op = "upload" /\ call[c].item = i]_vars

(* A dispatch that fails and is tried again leaves one job, not two.       *)
OneJobPerItem ==
    \A i \in Items \ torn : Cardinality({j \in JobRows : job[j].item = i}) <= 1

(* An item waits for its operator with bytes to print: staged, or promoted *)
(* by a dispatch that failed afterwards.                                   *)
PendingHasBytes ==
    \A i \in Items \ torn :
       /\ item[i].st = "PENDING"
       /\ \A c \in Calls : call[c].op \in IntakeOps /\ call[c].item = i
                           => call[c].at = "wait"
       => item[i].marker \/ Promotable(i)

(* Deleting one job and its file leaves the files of the queued jobs, also *)
(* those of jobs made from another upload of the same file.                *)
QueuedFilesKept ==
    \A j \in Jobs \ late : job[j].st = "QUEUED" => FileOf[job[j].item] \in stored

(* A printer with an active maintenance log shows a reason while the log   *)
(* is not just being created or deleted, unless somebody cleared the       *)
(* reason by hand, or the end of another log cleared it, and none has been *)
(* set since; a boot sets one, whatever was broken off by a crash.         *)
MaintenanceShown ==
    up /\ ~ blanked =>
       \A l \in Active :
          \/ reason
          \/ \E c \in Calls : call[c].op \in LogOps /\ call[c].id = l

(* Every call is answered: an error does not block those who wait behind.  *)
CallsAnswered == \A c \in Calls : call[c] # Idle ~> call[c] = Idle

=============================================================================
