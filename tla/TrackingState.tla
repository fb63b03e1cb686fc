---------------------------- MODULE TrackingState ----------------------------
(***************************************************************************)
(* Everything that tells the server what a printer is doing: the printer,  *)
(* the poll in flight, the rows of its jobs, and the calls of operators    *)
(* and of the dispatch that write the same rows.  A handler reads a row    *)
(* and saves it in one step here; PrintQueue has those steps apart.        *)
(***************************************************************************)
EXTENDS JobTable, PrusaLinkPoll, Sequences

CONSTANTS
    Calls,       \* the API calls that may be under way at once
    Ops,         \* the operations they make
    PanelFiles,  \* the files that are started at the printer's panel
    Queued0,     \* files of the jobs in the queue at the start
    StatusFails, \* whether the read of /api/v1/status may fail
    MaxPrints,   \* bound on the prints that begin
    MaxHolds,    \* bound on the pauses, holds and stops at the printer
    MaxCalls     \* bound on API calls and crashes, together

AllOps == {"cancel", "pause", "resume", "completed", "failed", "cancelled", "unknown",
           "delete"}

ASSUME OpsAssumption == Ops \subseteq AllOps /\ PanelFiles \subseteq Files
ASSUME QueuedAssumption == Queued0 \in Seq(Files) /\ Len(Queued0) <= MaxJobs
ASSUME BoundsAssumption ==
    MaxPrints \in Nat /\ MaxHolds \in Nat /\ MaxCalls \in Nat /\ StatusFails \in BOOLEAN

VARIABLES
    job,        \* the print_job table
    printer,    \* phase, loaded file, and which of the prints it is
    poll,       \* the poll in flight and what its handler has read
    prev,       \* lastPollState
    call,       \* what each API call is doing
    bg,         \* the dispatch in progress
    outdated,   \* a row was written from a reading that no longer held
    up,
    holds, calls

server == <<job, poll, prev, call, bg, outdated, up, calls>>
vars == <<job, printer, poll, prev, call, bg, outdated, up, holds, calls>>

(* begun: progress is set, so the observer has seen the print; run: which  *)
(* print of the printer the row was marked for (kept for the properties).  *)
TrackedRow == [st : Statuses \cup {"deleted"}, started : Nat, file : Files \cup {NoFile},
               begun : BOOLEAN, run : Nat]

Blank == [st |-> "absent", started |-> Never, file |-> NoFile, begun |-> FALSE, run |-> 0]
Deleted == [Blank EXCEPT !.st = "deleted"]     \* ids are not handed out again

(* status -> this read is still to come; message -> all have answered.     *)
PollSteps == {"none", "status", "message"}

NoPoll == [at |-> "none", text |-> "OPERATIONAL", link |-> NoLink, file |-> NoFile, since |-> 0,
           said |-> Normalized("OPERATIONAL", NoLink)]

NoCall == [op |-> "none", at |-> "none", id |-> 0]
NoDispatch == [at |-> "none", id |-> 0, file |-> NoFile, run |-> 0]

(* The types of the columns, of the copies that handlers hold, and of the  *)
(* observer's memory, whatever order the handlers run in.                  *)
TypeOK ==
    /\ job \in [Jobs -> TrackedRow]
    /\ printer \in [phase : Phases, file : Files \cup {NoFile}, run : 0..MaxPrints]
    /\ poll.at \in PollSteps /\ poll.since \in 0..MaxPrints
    /\ poll.said.base \in Bases /\ poll.text \in Bases /\ poll.file \in Files \cup {NoFile}
    /\ prev \in Bases \cup {"none"}
    /\ \A c \in Calls : /\ call[c].id \in Jobs \cup {0}
                        /\ call[c].op \in AllOps \cup {"none"}
    /\ bg.id \in Jobs \cup {0} /\ bg.file \in Files \cup {NoFile} /\ bg.run \in 0..MaxPrints

(* A running server, an idle printer, the initial queue.                   *)
Init ==
    /\ job = [j \in Jobs |-> IF j <= Len(Queued0)
                             THEN [Blank EXCEPT !.st = "QUEUED", !.file = Queued0[j]] ELSE Blank]
    /\ printer = [phase |-> "IDLE", file |-> NoFile, run |-> 0]
    /\ poll = NoPoll
    /\ prev = "none"
    /\ call = [c \in Calls |-> NoCall]
    /\ bg = NoDispatch
    /\ outdated = FALSE
    /\ up = TRUE
    /\ holds = 0
    /\ calls = 0

Held == holds < MaxHolds /\ holds' = holds + 1
Called == calls < MaxCalls /\ calls' = calls + 1

(* An error has to be acknowledged before a print can begin.               *)
Startable == printer.phase \in AtRest \ {"ERROR"} /\ printer.run < MaxPrints

Prints(f) == [phase |-> "PRINTING", file |-> f, run |-> printer.run + 1]

----------------------------------------------------------------------------
(* The rows a verdict on the printer ends or changes: the handler's query. *)
Found(verdict, file) ==
    CASE verdict = "resumed" -> MostRecent(job, InStatus(job, {"PAUSED"}))
      [] verdict = "paused" -> MostRecent(job, InStatus(job, {"PRINTING"}))
      [] verdict = "cancelled" -> ActiveJob(job, NoFile)
      [] OTHER -> ActiveJob(job, file)

(* With a bug: the state of the printer is written as the status.          *)
WrittenRaw(verdict) ==
    CASE verdict = "resumed" -> "PRINTING"
      [] verdict = "paused" -> "PAUSED"
      [] verdict = "cancelled" -> "STOPPED"
      [] verdict = "failed" -> "ERROR"
      [] OTHER -> "FINISHED"

(* The status that the handler of a verdict writes.                        *)
Written(verdict) ==
    CASE verdict = "resumed" -> "PRINTING"
      [] verdict = "paused" -> "PAUSED"
      [] verdict = "cancelled" -> "CANCELLED"
      [] verdict = "failed" -> "FAILED"
      [] OTHER -> "COMPLETED"

=============================================================================
