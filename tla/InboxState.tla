---------------------------- MODULE InboxState ----------------------------
(***************************************************************************)
(* What the intake inbox, the print jobs made from it, the files in        *)
(* storage and the maintenance logs of one printer keep in the database    *)
(* and on disk, and the API calls that are under way.                      *)
(***************************************************************************)
EXTENDS Naturals, Sequences, FiniteSets

CONSTANTS
    Calls,       \* the API calls that may be under way at the same time
    MaxItems, MaxJobs, MaxLogs,   \* bounds: rows that are ever made
    MaxCalls,    \* bound: calls that are ever made, and crashes
    FileOf,      \* the storage id of an item: its content, name and folder
    Uploaded     \* the items that are in the inbox from the start

Items == 1 .. MaxItems
Jobs == 1 .. MaxJobs
Logs == 1 .. MaxLogs
Files == {FileOf[i] : i \in Items}

ASSUME SizesAssumption ==
    MaxItems \in Nat /\ MaxJobs \in Nat /\ MaxLogs \in Nat /\ MaxCalls \in Nat
ASSUME UploadedAssumption == Uploaded \subseteq Items

VARIABLES
    item,      \* intake rows: status, whether stagingPath and the marker are set
    staged,    \* the items whose bytes are in the staging directory
    stored,    \* the files in File Storage
    job,       \* print job rows made from items
    log,       \* maintenance log rows of the printer
    reason,    \* whether the printer row has a disabledReason
    line,      \* withItemLock: the calls in line for each item
    call,      \* the calls under way
    up,        \* the server runs
    budget,    \* calls and crashes that may still happen
    torn,      \* ghost: items whose upload, promotion or resolution broke off
    late,      \* ghost: jobs that were given a file that was being deleted
    blanked    \* ghost: the reason of an active log was cleared, by hand or by
               \* the end of another log, and has not been set since

vars == <<item, staged, stored, job, log, reason, line, call, up, budget,
          torn, late, blanked>>

Resolved == {"ARCHIVED", "DISPATCHED", "DISCARDED"}
Statuses == {"none", "PENDING"} \union Resolved
NewItem == [st |-> "none", path |-> FALSE, marker |-> FALSE]

NoJob == [st |-> "none", item |-> 0, filed |-> FALSE]
JobRows == {j \in Jobs : job[j].st \in {"PENDING", "QUEUED"}}

LogStates == {"none", "active", "completed", "deleted"}
Active == {l \in Logs : log[l] = "active"}
InMaintenance == Active # {}

IntakeOps == {"upload", "archive", "dispatch", "discard"}
LogOps == {"create", "complete", "delete"}
Steps == {"wait", "stage", "save", "promote", "promoted", "job", "file", "queue",
          "unlink", "resolve", "count", "erase", "insert", "reason", "complete",
          "clear", "remove"}

(* A call's operation, its next step, the item and the job or log it works *)
(* on, and whether the row that it has read names a file.                  *)
Idle == [op |-> "none", at |-> "idle", item |-> 0, id |-> 0, known |-> FALSE]

Begin(c, op, at, i, id, known) ==
    /\ up
    /\ budget > 0
    /\ call[c] = Idle
    /\ call' = [call EXCEPT ![c] = [op |-> op, at |-> at, item |-> i,
                                    id |-> id, known |-> known]]
    /\ budget' = budget - 1

At(c, at) == call[c].at = at
Goto(c, at) == call' = [call EXCEPT ![c].at = at]
Answered(c) == call' = [call EXCEPT ![c] = Idle]

Init ==
    /\ item = [i \in Items |->
                  IF i \in Uploaded THEN [NewItem EXCEPT !.st = "PENDING", !.path = TRUE]
                                    ELSE NewItem]
    /\ staged = Uploaded
    /\ stored = {}
    /\ job = [j \in Jobs |-> NoJob]
    /\ log = [l \in Logs |-> "none"]
    /\ reason = FALSE
    /\ line = [i \in Items |-> <<>>]
    /\ call = [c \in Calls |-> Idle]
    /\ up = TRUE
    /\ budget = MaxCalls
    /\ torn = {}
    /\ late = {}
    /\ blanked = FALSE

=============================================================================
