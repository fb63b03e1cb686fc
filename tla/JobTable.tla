------------------------------ MODULE JobTable ------------------------------
(***************************************************************************)
(* The print_job rows of one printer and the queries and updates that the  *)
(* services run on them.  A table is a function from job ids to rows; the  *)
(* operators are pure, so that modules with different interleavings share  *)
(* them.  A row keeps the columns control depends on: status,              *)
(* queuePosition, startedAt, the file, and whether usbFilePath is set: the *)
(* dispatch then starts the file on the printer instead of uploading it.   *)
(***************************************************************************)
EXTENDS Integers, FiniteSets

CONSTANTS
    MaxJobs,    \* bound on the rows ever created; ids are handed out in order
    Files,      \* the files a job can print
    NoFile      \* no file

ASSUME MaxJobsAssumption == MaxJobs \in Nat \ {0}
ASSUME NoFileAssumption == NoFile \notin Files

Jobs == 1..MaxJobs

Statuses == {"absent", "PENDING", "QUEUED", "STARTING", "PRINTING", "PAUSED",
             "COMPLETED", "FAILED", "CANCELLED", "UNKNOWN"}

NoPos == -1     \* queuePosition NULL: below every position, so MAX ?? -1 is Max
Never == 0      \* startedAt NULL: SQLite sorts it last in descending order

Row == [st : Statuses, pos : Int, started : Nat, file : Files \cup {NoFile}, usb : BOOLEAN]

Absent == [st |-> "absent", pos |-> NoPos, started |-> Never, file |-> NoFile, usb |-> FALSE]

(* createPendingJob and the save that follows it: a row for a file, which  *)
(* has a usbFilePath when the file is on the printer.                      *)
PendingRow(f, usb) == [Absent EXCEPT !.st = "PENDING", !.file = f, !.usb = usb]

Present(T) == {j \in Jobs : T[j].st # "absent"}
InStatus(T, S) == {j \in Jobs : T[j].st \in S}

Active == {"PRINTING", "PAUSED"}             \* the printer works on the job
BusyPrinting == Active                       \* with a bug: an upload does not count
Busy == {"PRINTING", "PAUSED", "STARTING"}   \* what ensurePrinterIdle looks for

(* ORDER BY startedAt DESC LIMIT 1, and the same for createdAt (ids are in *)
(* the order of creation): the rows that can come first.  SQL leaves the   *)
(* order of ties open.                                                     *)
MostRecent(T, S) == {j \in S : \A k \in S : T[k].started <= T[j].started}
Newest(S) == {j \in S : \A k \in S : k <= j}

(* new Date(): only its order with the other stamps matters.               *)
Stamps(T) == {T[j].started + 1 : j \in MostRecent(T, Jobs)}

(* The id of the next inserted row; none when the bound is reached.        *)
FreeIds(T) == {j \in Jobs : T[j].st = "absent" /\ \A k \in 1..(j - 1) : T[k].st # "absent"}

----------------------------------------------------------------------------
(* Queue positions                                                         *)

(* With a bug: the maximum is taken over the QUEUED rows only.             *)
NextAmongQueued(T) ==
    LET queued == InStatus(T, {"QUEUED"})
    IN IF queued = {} THEN {0}
       ELSE {T[j].pos + 1 : j \in {k \in queued : \A l \in queued : T[l].pos <= T[k].pos}}

(* The next free position, MAX(queuePosition) + 1 or 0: the maximum is     *)
(* taken over every row of the printer, whatever its status.               *)
NextPositions(T) ==
    {T[j].pos + 1 : j \in {k \in Jobs : \A l \in Jobs : T[l].pos <= T[k].pos}}

Shifted(T, from) ==
    [j \in Jobs |-> IF T[j].pos # NoPos /\ T[j].pos >= from
                    THEN [T[j] EXCEPT !.pos = @ + 1] ELSE T[j]]

Compacted(T, removed) ==
    [j \in Jobs |-> IF T[j].pos # NoPos /\ T[j].pos > removed
                    THEN [T[j] EXCEPT !.pos = @ - 1] ELSE T[j]]

(* The rows the queue view can return first: lowest position, QUEUED.      *)
NextInQueue(T) ==
    LET queued == {j \in InStatus(T, {"QUEUED"}) : T[j].pos # NoPos}
    IN {j \in queued : \A k \in queued : T[j].pos <= T[k].pos}

----------------------------------------------------------------------------
(* What the poll observer does to the table                                *)

(* findActiveJob: the active row of that file, else the latest one.        *)
ActiveJob(T, f) ==
    LET active == InStatus(T, Active)
        named == {j \in active : T[j].file = f}
    IN MostRecent(T, IF named # {} THEN named ELSE active)

(* The rows handlePrintStarted may take for a print of f: a PENDING row of *)
(* the file, the single STARTING row whatever its file (several: by name), *)
(* the newest row of the file.                                             *)
TakenFor(T, f) ==
    LET pending == {j \in InStatus(T, {"PENDING"}) : T[j].file = f}
        starting == InStatus(T, {"STARTING"})
        adopted == IF Cardinality(starting) = 1 THEN starting
                   ELSE MostRecent(T, {j \in starting : T[j].file = f})
        known == {j \in Present(T) : T[j].file = f}
    IN IF pending # {} THEN Newest(pending)
       ELSE IF adopted # {} THEN adopted
       ELSE Newest(known)

(* A finished row is not taken again: the print gets a row of its own.     *)
Finished == {"COMPLETED", "FAILED", "CANCELLED"}

(* handlePrintStarted for a poll that reports a print of f: the tables it  *)
(* can leave.  A PRINTING row of another file becomes UNKNOWN;             *)
(* the row taken gets the path the printer reports as its usbFilePath.     *)
PrintStarted(T, f) ==
    LET StartedIn(U, j) ==
            {[U EXCEPT ![j] = [st |-> "PRINTING", pos |-> U[j].pos, started |-> now,
                               file |-> IF U[j].st = "absent" THEN f ELSE U[j].file,
                               usb |-> TRUE]] : now \in Stamps(U)}
        Taking(U) ==
            LET taken == {j \in TakenFor(U, f) : U[j].st \notin Finished}
            IN UNION {StartedIn(U, j) : j \in IF taken # {} THEN taken ELSE FreeIds(U)}
        printing == MostRecent(T, InStatus(T, {"PRINTING"}))
    IN IF printing = {} THEN Taking(T)
       ELSE UNION {IF T[e].file = f THEN {T}
                   ELSE Taking([T EXCEPT ![e].st = "UNKNOWN"]) : e \in printing}

(* With a bug: the link state of the printer is written as the status.     *)
PrintEndedRaw(T, f, st) ==
    {[T EXCEPT ![j].st = IF st = "COMPLETED" THEN "FINISHED" ELSE "STOPPED"] : j \in ActiveJob(T, f)}

(* handlePrintCompleted, handlePrintCancelled, ...: the active row ends.   *)
PrintEnded(T, f, st) ==
    IF InStatus(T, Active) = {} THEN {T}
    ELSE {[T EXCEPT ![j].st = st] : j \in ActiveJob(T, f)}

============================================================================
