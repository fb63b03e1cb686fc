------------------------- MODULE PrintTrackingProofs -------------------------
(***************************************************************************)
(* Proofs about PrintTracking for both firmwares and any number of jobs,   *)
(* prints, holds, calls and crashes: types, the history of the rows, and   *)
(* that the observer closes no row of a print that is still going on.      *)
(*                                                                         *)
(* The last one is not inductive.  PrintInv relates what the poll, the     *)
(* rows and the dispatch know of the printer's last print to the printer:  *)
(* its file, and that a printer which has come to rest rests.              *)
(***************************************************************************)
EXTENDS PrintTracking, JobTableLemmas

(* The calls of operators: a step that writes a row has the row's id.      *)
GoodCall ==
    {c \in [op : AllOps \cup {"none"}, at : {"none", "sync", "requeue", "mark", "remove"},
            id : Jobs \cup {0}] :
        /\ c.at = "sync" => c.op \in {"cancel", "pause", "resume"}
        /\ c.at = "mark" => c.op \in {"completed", "failed", "cancelled", "unknown"}
        /\ c.at \in {"requeue", "mark", "remove"} => c.id \in Jobs}

Polls == [at : PollSteps, text : Bases, link : DeviceStates \cup {NoLink},
          file : Files \cup {NoFile}, since : 0..MaxPrints,
          said : [base : Bases, cancelling : BOOLEAN, error : BOOLEAN]]

Dispatches == [at : {"none", "sending", "sent"}, id : Jobs \cup {0}, file : Files \cup {NoFile},
               run : 0..MaxPrints]

Printers == [phase : Phases, file : Files \cup {NoFile}, run : 0..MaxPrints]

TrackedTables == [Jobs -> TrackedRow]

TypeInv ==
    /\ job \in TrackedTables
    /\ printer \in Printers
    /\ poll \in Polls
    /\ prev \in Bases \cup {"none"}
    /\ call \in [Calls -> GoodCall]
    /\ bg \in Dispatches /\ (bg.at # "none" => bg.id \in Jobs)
    /\ outdated \in BOOLEAN /\ up \in BOOLEAN

(* The printer works on its last print.                                    *)
Working == printer.phase \in MidPrint

(* Nobody knows of a print that has not begun.                             *)
RunsInv ==
    /\ \A j \in Jobs : job[j].run <= printer.run
    /\ poll.since <= printer.run
    /\ bg.run <= printer.run
    /\ Working => printer.run # 0

(* A STARTING row is that of the dispatch, and a new row has no file yet.  *)
RowsInv ==
    /\ up => \A j \in InStatus(job, {"STARTING"}) :
                bg.at # "none" /\ bg.id = j /\ job[j].file = bg.file
    /\ \A j \in Jobs : job[j].st = "absent" => job[j].file = NoFile

(* What is known of the print that the printer works on names its file.    *)
FileInv ==
    Working =>
        /\ poll.at # "none" /\ poll.since = printer.run => poll.file = printer.file
        /\ bg.at # "none" /\ bg.run = printer.run => bg.file = printer.file
        /\ \A j \in InStatus(job, Active) :
              job[j].run = printer.run => job[j].file = printer.file

(* A printer that has come to rest rests until its next print: an answer   *)
(* that says so is true when its handler runs, if no print has begun.      *)
RestInv ==
    /\ poll.at = "status" /\ poll.since = printer.run
         => (poll.text \in AtRest \/ poll.link \in AtRest => printer.phase \in AtRest)
    /\ poll.at = "message" /\ poll.since = printer.run
         => (poll.said.base \in AtRest => printer.phase \in AtRest)
    /\ poll.said.cancelling => poll.said.base = "STOPPED"
    /\ poll.said.error => poll.said.base \in {"ERROR", "ATTENTION"}

(* A server that is down has no poll and no dispatch.                      *)
DownInv == ~ up => poll.at = "none" /\ bg.at = "none"

PrintInv == RunsInv /\ RowsInv /\ FileInv /\ RestInv /\ DownInv

Inv == TypeInv /\ (~ outdated => PrintInv)

----------------------------------------------------------------------------
(* The operators on the table                                              *)

LEMMA BlankRow == Blank \in TrackedRow /\ Deleted \in TrackedRow
  BY DEF Blank, Deleted, TrackedRow, Statuses, Never

LEMMA RowStatus ==
  ASSUME NEW T \in TrackedTables, NEW j \in Jobs, NEW st \in Statuses
  PROVE  [T EXCEPT ![j].st = st] \in TrackedTables
  BY DEF TrackedTables, TrackedRow

LEMMA RowWritten ==
  ASSUME NEW T \in TrackedTables, NEW j \in Jobs, NEW row \in TrackedRow
  PROVE  [T EXCEPT ![j] = row] \in TrackedTables
  BY DEF TrackedTables

LEMMA TrackedStamps == ASSUME NEW T \in TrackedTables PROVE Stamps(T) \subseteq Nat
  BY DEF Stamps, MostRecent, TrackedTables, TrackedRow

LEMMA WrittenStatus == ASSUME NEW v PROVE Written(v) \in Statuses
  BY DEF Written, Statuses

LEMMA FoundActive == ASSUME NEW v, NEW f PROVE Found(v, f) \subseteq InStatus(job, Active)
<1>1. \A S : MostRecent(job, S) \subseteq S
  BY MostRecentSubset
<1>2. InStatus(job, {"PAUSED"}) \subseteq InStatus(job, Active)
  BY DEF InStatus, Active
<1>3. InStatus(job, {"PRINTING"}) \subseteq InStatus(job, Active)
  BY DEF InStatus, Active
<1>4. \A g : ActiveJob(job, g) \subseteq InStatus(job, Active)
  BY ActiveJobIsActive
<1> QED
  BY <1>1, <1>2, <1>3, <1>4 DEF Found

(* The rows a print of f may take have that file, or none that is known.   *)
LEMMA TakenRows ==
  ASSUME NEW T, NEW f, NEW j \in TakenFor(T, f)
  PROVE  j \in Jobs /\ (T[j].file = f \/ T[j].st = "STARTING")
<1>1. \A S : MostRecent(T, S) \subseteq S
  BY MostRecentSubset
<1>2. \A S : Newest(S) \subseteq S
  BY DEF Newest
<1> QED
  BY <1>1, <1>2 DEF TakenFor, InStatus, Present

----------------------------------------------------------------------------
(* What a message does to the table                                        *)

Same(j) == job'[j].st = job[j].st /\ job'[j].run = job[j].run /\ job'[j].file = job[j].file

(* The row of another file is closed by a print that begins.               *)
Closed(j) ==
    /\ Verdict = "started" /\ job[j].st = "PRINTING" /\ job[j].file # poll.file
    /\ job'[j].st = "UNKNOWN" /\ job'[j].run = job[j].run /\ job'[j].file = job[j].file

(* The print that begins takes the row.                                    *)
TakenRow(T, j, f) ==
    /\ T[j].st \notin Finished
    /\ T[j].file = f \/ T[j].st \in {"STARTING", "absent"}

NewRow(T, U, j, f) ==
    /\ U[j].st = "PRINTING" /\ U[j].run = poll.since
    /\ U[j].file = IF T[j].file = NoFile THEN f ELSE T[j].file

Adopted(j) ==
    Verdict = "started" /\ TakenRow(job, j, poll.file) /\ NewRow(job, job', j, poll.file)

(* The row of the print gets the status of the verdict.                    *)
Updated(j) ==
    /\ Verdict \notin {"none", "started"} /\ job[j].st \in Active
    /\ job'[j].st = Written(Verdict) /\ job'[j].run = job[j].run /\ job'[j].file = job[j].file

LEMMA ProgressedTable ==
  ASSUME NEW T \in TrackedTables, NEW f, NEW U \in Progressed(T, f)
  PROVE  /\ U \in TrackedTables
         /\ \A j \in Jobs : U[j].st = T[j].st /\ U[j].run = T[j].run /\ U[j].file = T[j].file
<1>1. MostRecent(T, InStatus(T, {"PRINTING"})) \subseteq Jobs
  BY MostRecentSubset, InStatusJobs
<1>2. U = T \/ \E k \in Jobs : U = [T EXCEPT ![k].begun = TRUE]
  BY <1>1 DEF Progressed
<1>3. ASSUME NEW k \in Jobs, U = [T EXCEPT ![k].begun = TRUE]
      PROVE  /\ U \in TrackedTables
             /\ \A j \in Jobs : /\ U[j].st = T[j].st /\ U[j].run = T[j].run
                               /\ U[j].file = T[j].file
  BY <1>3 DEF TrackedTables, TrackedRow
<1> QED
  BY <1>2, <1>3

LEMMA StartedAsTable ==
  ASSUME NEW T \in TrackedTables, NEW f \in Files, poll.since \in Nat, NEW U \in StartedAs(T, f)
  PROVE  /\ U \in TrackedTables
         /\ \E k \in Jobs : /\ TakenRow(T, k, f) /\ NewRow(T, U, k, f)
                            /\ \A j \in Jobs \ {k} : U[j] = T[j]
<1> DEFINE row(j, now) == [st |-> "PRINTING", started |-> now, begun |-> TRUE, run |-> poll.since,
                           file |-> IF T[j].file = NoFile THEN f ELSE T[j].file]
           taken == {j \in TakenFor(T, f) : T[j].st \notin Finished}
<1>0. StartedAs(T, f) = {[T EXCEPT ![j] = row(j, now)] :
                            j \in IF taken # {} THEN taken ELSE FreeIds(T), now \in Stamps(T)}
  BY DEF StartedAs
<1>1. PICK k \in IF taken # {} THEN taken ELSE FreeIds(T), now \in Stamps(T) :
         U = [T EXCEPT ![k] = row(k, now)]
  BY <1>0
<1>2. k \in Jobs /\ TakenRow(T, k, f)
  BY <1>1, TakenRows DEF TakenRow, FreeIds, Finished
<1>3. row(k, now) \in TrackedRow
  <2>1. now \in Nat /\ T[k].file \in Files \cup {NoFile}
    BY <1>2, TrackedStamps DEF TrackedTables, TrackedRow
  <2> QED
    BY <2>1 DEF TrackedRow, Statuses
<1>4. /\ row(k, now).st = "PRINTING" /\ row(k, now).run = poll.since
      /\ row(k, now).file = IF T[k].file = NoFile THEN f ELSE T[k].file
  OBVIOUS
<1> HIDE DEF row
<1>5. U \in TrackedTables /\ U[k] = row(k, now) /\ \A j \in Jobs \ {k} : U[j] = T[j]
  BY <1>1, <1>2, <1>3, RowWritten DEF TrackedTables
<1> QED
  BY <1>2, <1>4, <1>5 DEF NewRow

(* handlePrintStarted: a row of another file may be closed first; it is    *)
(* not the one that is taken.                                              *)
LEMMA StartedTable ==
  ASSUME TypeInv, poll.file # NoFile, NEW U \in Started(poll.file), Verdict = "started"
  PROVE  /\ U \in TrackedTables
         /\ \A j \in Jobs :
               \/ U[j] = job[j]
               \/ /\ job[j].st = "PRINTING" /\ job[j].file # poll.file
                  /\ U[j] = [job[j] EXCEPT !.st = "UNKNOWN"]
               \/ TakenRow(job, j, poll.file) /\ NewRow(job, U, j, poll.file)
<1> DEFINE f == poll.file
           printing == MostRecent(job, InStatus(job, {"PRINTING"}))
<1>1. f \in Files /\ poll.since \in Nat /\ job \in TrackedTables
  BY DEF TypeInv, Polls
<1>2. CASE U \in StartedAs(job, f)
  BY <1>1, <1>2, StartedAsTable
<1>3. CASE U = job
  BY <1>1, <1>3
<1>4. ASSUME NEW e \in printing, job[e].file # f, U \in StartedAs(Superseded(job, e), f)
      PROVE  /\ U \in TrackedTables
             /\ \A j \in Jobs :
                   \/ U[j] = job[j]
                   \/ /\ job[j].st = "PRINTING" /\ job[j].file # f
                      /\ U[j] = [job[j] EXCEPT !.st = "UNKNOWN"]
                   \/ TakenRow(job, j, f) /\ NewRow(job, U, j, f)
  <2> DEFINE T == Superseded(job, e)
  <2>1. e \in Jobs /\ job[e].st = "PRINTING"
    BY MostRecentSubset DEF InStatus
  <2>2. /\ T \in TrackedTables /\ T[e] = [job[e] EXCEPT !.st = "UNKNOWN"]
        /\ \A j \in Jobs \ {e} : T[j] = job[j]
    BY <1>1, <2>1, RowStatus DEF Superseded, TrackedTables, Statuses
  <2>3. T[e].st = "UNKNOWN" /\ T[e].file = job[e].file
    BY <1>1, <2>1, <2>2 DEF TrackedTables, TrackedRow
  <2> HIDE DEF T
  <2>4. U \in StartedAs(T, f)
    BY <1>4 DEF T
  <2>5. PICK k \in Jobs : /\ TakenRow(T, k, f) /\ NewRow(T, U, k, f)
                          /\ \A j \in Jobs \ {k} : U[j] = T[j]
    BY <1>1, <2>2, <2>4, StartedAsTable
  <2>6. k # e
    BY <1>4, <2>3, <2>5 DEF TakenRow
  <2>7. TakenRow(job, k, f) /\ NewRow(job, U, k, f)
    BY <2>2, <2>5, <2>6 DEF TakenRow, NewRow
  <2>8. U \in TrackedTables
    BY <1>1, <2>2, <2>4, StartedAsTable
  <2> QED
    BY <1>4, <2>1, <2>2, <2>5, <2>6, <2>7, <2>8
<1>5. \/ U \in StartedAs(job, f) \/ U = job
      \/ \E e \in printing : job[e].file # f /\ U \in StartedAs(Superseded(job, e), f)
  BY DEF Started
<1> QED
  BY <1>2, <1>3, <1>4, <1>5

LEMMA BranchBase ==
  ASSUME TypeInv
  PROVE  /\ Verdict \in {"none", "started", "resumed", "paused", "completed", "cancelled", "failed"}
         /\ Branch(poll.said, poll.file)[2] \in Bases
         /\ Verdict = "started" => poll.file # NoFile
  BY DEF Verdict, Branch, TypeInv, Polls, Bases, DeviceStates

LEMMA MessageTable ==
  ASSUME TypeInv, Message
  PROVE  /\ job' \in TrackedTables
         /\ \A j \in Jobs : Same(j) \/ Closed(j) \/ Adopted(j) \/ Updated(j)
<1>1. PICK T \in CASE Verdict = "none" -> {job}
                    [] Verdict = "started" -> Started(poll.file)
                    [] OTHER -> Wrote(Verdict, poll.file) : job' \in Progressed(T, poll.file)
  BY DEF Message
<1> DEFINE Kept(j) == T[j].st = job[j].st /\ T[j].run = job[j].run /\ T[j].file = job[j].file
<1>2. CASE Verdict = "started"
  <2>1. T \in Started(poll.file) /\ poll.file # NoFile
    BY <1>1, <1>2, BranchBase
  <2>2. T \in TrackedTables
    BY <1>2, <2>1, StartedTable
  <2>3. /\ job' \in TrackedTables
        /\ \A j \in Jobs : /\ job'[j].st = T[j].st /\ job'[j].run = T[j].run
                          /\ job'[j].file = T[j].file
    BY <1>1, <2>2, ProgressedTable
  <2>4. ASSUME NEW j \in Jobs PROVE Same(j) \/ Closed(j) \/ Adopted(j)
    <3>1. CASE T[j] = job[j]
      BY <2>3, <3>1 DEF Same
    <3>2. CASE /\ job[j].st = "PRINTING" /\ job[j].file # poll.file
               /\ T[j] = [job[j] EXCEPT !.st = "UNKNOWN"]
      BY <1>2, <2>3, <3>2 DEF Closed, TypeInv, TrackedTables, TrackedRow
    <3>3. CASE TakenRow(job, j, poll.file) /\ NewRow(job, T, j, poll.file)
      BY <1>2, <2>3, <3>3 DEF Adopted, NewRow
    <3> QED
      BY <1>2, <2>1, <3>1, <3>2, <3>3, StartedTable
  <2> QED
    BY <2>3, <2>4
<1>3. CASE Verdict # "started"
  <2>1. \/ T = job
        \/ /\ Verdict # "none"
           /\ \E k \in InStatus(job, Active) : T = [job EXCEPT ![k].st = Written(Verdict)]
    BY <1>1, <1>3, FoundActive DEF Wrote
  <2>2. T \in TrackedTables
    BY <2>1, RowStatus, WrittenStatus, InStatusJobs DEF TypeInv
  <2>3. /\ job' \in TrackedTables
        /\ \A j \in Jobs : /\ job'[j].st = T[j].st /\ job'[j].run = T[j].run
                          /\ job'[j].file = T[j].file
    BY <1>1, <2>2, ProgressedTable
  <2>4. ASSUME NEW k \in InStatus(job, Active), T = [job EXCEPT ![k].st = Written(Verdict)],
               Verdict # "none", NEW j \in Jobs
        PROVE  Same(j) \/ Updated(j)
    BY <1>3, <2>3, <2>4 DEF Same, Updated, InStatus, TypeInv, TrackedTables, TrackedRow
  <2> QED
    BY <2>1, <2>3, <2>4 DEF Same
<1> QED
  BY <1>2, <1>3

----------------------------------------------------------------------------
(* Types                                                                   *)

LEMMA PhaseFacts ==
  /\ \A p \in Phases : /\ Label(p) \in Bases /\ LinkState(p) \in DeviceStates \cup {NoLink}
                       /\ DeviceState(p) \in DeviceStates
  /\ \A text \in Bases, link \in DeviceStates \cup {NoLink} :
        Normalized(text, link) \in [base : Bases, cancelling : BOOLEAN, error : BOOLEAN]
<1>1. \A p \in Phases : DeviceState(p) \in DeviceStates
  BY DEF Phases, DeviceState, DeviceStates
<1>2. \A p \in Phases : Label(p) \in Bases /\ LinkState(p) \in DeviceStates \cup {NoLink}
  BY <1>1 DEF Label, LinkState, Bases
<1>3. \A text \in Bases, link \in DeviceStates \cup {NoLink} :
         Normalized(text, link) \in [base : Bases, cancelling : BOOLEAN, error : BOOLEAN]
  BY DEF Normalized, Bases
<1> QED
  BY <1>1, <1>2, <1>3

LEMMA IdleRecords == NoPoll \in Polls /\ NoCall \in GoodCall /\ NoDispatch \in Dispatches
<1>1. NoPoll \in Polls
  <2>1. Normalized("OPERATIONAL", NoLink) \in [base : Bases, cancelling : BOOLEAN, error : BOOLEAN]
    BY PhaseFacts DEF Bases
  <2> QED
    BY <2>1, BoundsAssumption DEF NoPoll, Polls, PollSteps, Bases
<1>2. NoCall \in GoodCall
  BY DEF NoCall, GoodCall
<1>3. NoDispatch \in Dispatches
  BY BoundsAssumption DEF NoDispatch, Dispatches
<1> QED
  BY <1>1, <1>2, <1>3

LEMMA PrinterTypes == ASSUME TypeInv, PrinterStep PROVE TypeInv'
<1>1. SUFFICES printer' \in Printers /\ UNCHANGED server
  BY <1>1 DEF TypeInv, server
<1>2. ASSUME NEW f \in PanelFiles, PanelStart(f) PROVE printer' \in Printers /\ UNCHANGED server
  BY <1>2, OpsAssumption, BoundsAssumption
     DEF PanelStart, Startable, Prints, Printers, TypeInv, Phases, DeviceStates
<1>3. CASE PrintFinishes
  BY <1>3 DEF PrintFinishes, Printers, TypeInv, Phases, DeviceStates
<1>4. CASE PrintAborted
  BY <1>4 DEF PrintAborted, Printers, TypeInv, Phases, DeviceStates
<1>5. CASE Acknowledged
  BY <1>5 DEF Acknowledged, Printers, TypeInv, Phases, DeviceStates
<1>6. CASE Interrupted
  BY <1>6 DEF Interrupted, Interruptions, Printers, TypeInv, Phases, DeviceStates
<1>7. CASE Recovers
  <2>1. PICK i \in Recoveries : printer' = [printer EXCEPT !.phase = i[2],
                                                !.file = IF i[2] = "IDLE" THEN NoFile ELSE @]
    BY <1>7 DEF Recovers
  <2>2. i[2] \in Phases
    BY DEF Recoveries, Phases, DeviceStates
  <2> QED
    BY <1>7, <2>1, <2>2 DEF Recovers, Printers, TypeInv
<1> QED
  BY <1>2, <1>3, <1>4, <1>5, <1>6, <1>7 DEF PrinterStep

LEMMA PollTypes == ASSUME TypeInv, PollStep PROVE TypeInv'
<1>1. CASE ReadPrinter
  <2>1. poll' \in Polls
    <3>1. /\ printer.run \in 0..MaxPrints /\ printer.file \in Files \cup {NoFile}
          /\ Label(printer.phase) \in Bases
          /\ LinkState(printer.phase) \in DeviceStates \cup {NoLink}
      BY PhaseFacts DEF TypeInv, Printers
    <3> QED
      BY <1>1, <3>1, IdleRecords DEF ReadPrinter, Polls, PollSteps
  <2> QED
    BY <1>1, <2>1 DEF ReadPrinter, memory, TypeInv
<1>2. CASE ReadStatus
  <2>1. PICK link \in DeviceStates \cup {NoLink} :
           poll' = [NoPoll EXCEPT !.at = "message", !.since = poll.since, !.file = poll.file,
                                  !.said = Normalized(poll.text, link)]
    <3>1. poll.link \in DeviceStates \cup {NoLink} /\ DeviceState(printer.phase) \in DeviceStates
      BY PhaseFacts DEF TypeInv, Polls, Printers
    <3> QED
      BY <1>2, <3>1 DEF ReadStatus
  <2>2. poll' \in Polls
    <3>1. /\ Normalized(poll.text, link) \in [base : Bases, cancelling : BOOLEAN, error : BOOLEAN]
          /\ poll.since \in 0..MaxPrints /\ poll.file \in Files \cup {NoFile}
      BY PhaseFacts DEF TypeInv, Polls
    <3> QED
      BY <2>1, <3>1, IdleRecords DEF Polls, PollSteps
  <2> QED
    BY <1>2, <2>2 DEF ReadStatus, memory, TypeInv
<1>3. CASE Message
  <2>1. job' \in TrackedTables
    BY <1>3, MessageTable
  <2>2. prev' \in Bases \cup {"none"}
    BY <1>3, BranchBase DEF Message, TypeInv
  <2>3. poll' \in Polls /\ outdated' \in BOOLEAN
    BY <1>3, IdleRecords DEF Message
  <2> QED
    BY <1>3, <2>1, <2>2, <2>3 DEF Message, TypeInv
<1> QED
  BY <1>1, <1>2, <1>3 DEF PollStep

LEMMA CallTypes == ASSUME TypeInv, NEW c \in Calls, CallStep(c) PROVE TypeInv'
<1> USE DEF TypeInv
<1>1. ASSUME NEW op \in AllOps, NEW at \in {"sync", "requeue", "mark", "remove"},
             NEW j \in Jobs \cup {0}, Begin(c, op, at, j),
             at = "sync" => op \in {"cancel", "pause", "resume"},
             at = "mark" => op \in {"completed", "failed", "cancelled", "unknown"},
             at # "sync" => j \in Jobs
      PROVE  call' \in [Calls -> GoodCall]
  <2>1. [op |-> op, at |-> at, id |-> j] \in GoodCall
    BY <1>1 DEF GoodCall
  <2> QED
    BY <1>1, <2>1 DEF Begin
<1>2. ASSUME Return(c) PROVE call' \in [Calls -> GoodCall]
  BY <1>2, IdleRecords DEF Return
<1>3. ASSUME NEW op \in {"cancel", "pause", "resume"}, NEW from, NEW to \in Phases,
             Control(c, op, from, to)
      PROVE  TypeInv'
  <2>1. call' \in [Calls -> GoodCall]
    BY <1>1, <1>3 DEF Control, AllOps
  <2>2. printer' \in Printers
    BY <1>3 DEF Control, Printers
  <2> QED
    BY <1>3, <2>1, <2>2 DEF Control, observed
<1>4. CASE CancelPrint(c) \/ PausePrint(c) \/ ResumePrint(c)
  BY <1>3, <1>4 DEF CancelPrint, PausePrint, ResumePrint, Phases, DeviceStates
<1>5. CASE Sync(c)
  <2>1. CASE job' = job /\ Return(c) /\ UNCHANGED outdated
    BY <1>2, <1>5, <2>1 DEF Sync, machine, observed
  <2>2. ASSUME NEW v, NEW j \in Found(v, NoFile), job' = [job EXCEPT ![j].st = Written(v)],
               outdated' = (job[j].run # printer.run),
               Begin(c, "cancel", "requeue", j) \/ Return(c)
        PROVE  TypeInv'
    <3>1. j \in Jobs
      BY <2>2, FoundActive, InStatusJobs
    <3>2. call' \in [Calls -> GoodCall]
      BY <1>1, <1>2, <2>2, <3>1 DEF AllOps
    <3>3. job' \in TrackedTables
      BY <2>2, <3>1, RowStatus, WrittenStatus
    <3> QED
      BY <1>5, <2>2, <3>2, <3>3 DEF Sync, machine, observed
  <2> QED
    BY <1>5, <2>1, <2>2 DEF Sync
<1>6. CASE Requeue(c)
  <2>1. call[c].id \in Jobs /\ job[call[c].id].file \in Files \cup {NoFile}
    BY <1>6 DEF Requeue, At, GoodCall, TrackedTables, TrackedRow
  <2>2. printer.run \in Nat
    BY BoundsAssumption DEF Printers
  <2>3. [Blank EXCEPT !.st = "QUEUED", !.run = printer.run, !.file = job[call[c].id].file]
           \in TrackedRow
    BY <2>1, <2>2, BlankRow DEF TrackedRow, Statuses
  <2>4. PICK k \in FreeIds(job) :
           job' = [job EXCEPT ![k] = [Blank EXCEPT !.st = "QUEUED", !.run = printer.run,
                                                   !.file = job[call[c].id].file]]
    BY <1>6 DEF Requeue
  <2>5. job' \in TrackedTables
    BY <2>3, <2>4, FreeIdsAreJobs, RowWritten
  <2> QED
    BY <1>2, <1>6, <2>5 DEF Requeue, machine, observed
<1>7. ASSUME NEW j \in Jobs, MarkCall(c, j) PROVE TypeInv'
  <2>1. PICK op \in {"completed", "failed", "cancelled", "unknown"} : Begin(c, op, "mark", j)
    BY <1>7 DEF MarkCall
  <2>2. call' \in [Calls -> GoodCall]
    BY <1>1, <2>1 DEF AllOps
  <2> QED
    BY <1>7, <2>2 DEF MarkCall, observed
<1>8. ASSUME NEW j \in Jobs, DeleteCall(c, j) PROVE TypeInv'
  <2>1. call' \in [Calls -> GoodCall]
    BY <1>1, <1>8 DEF DeleteCall, AllOps
  <2> QED
    BY <1>8, <2>1 DEF DeleteCall, observed
<1>9. CASE MarkSave(c)
  <2>1. call[c].id \in Jobs
    BY <1>9 DEF MarkSave, At, GoodCall
  <2>2. job[call[c].id].st = "deleted" \/ Marked(call[c].op) \in Statuses
    BY <1>9 DEF MarkSave, At, GoodCall, Marked, Statuses
  <2>3. job' \in TrackedTables
    BY <1>9, <2>1, <2>2 DEF MarkSave, TrackedTables, TrackedRow
  <2> QED
    BY <1>2, <1>9, <2>3 DEF MarkSave, machine, observed
<1>10. CASE DeleteRow(c)
  <2>1. job' \in TrackedTables
    BY <1>10, BlankRow, RowWritten DEF DeleteRow, At, GoodCall
  <2> QED
    BY <1>2, <1>10, <2>1 DEF DeleteRow, machine, observed
<1> QED
  BY <1>4, <1>5, <1>6, <1>7, <1>8, <1>9, <1>10 DEF CallStep

LEMMA DispatchTypes == ASSUME TypeInv, DispatchStep PROVE TypeInv'
<1> USE DEF TypeInv
<1>1. ASSUME NEW j \in Jobs, Claim(j) PROVE TypeInv'
  <2>1. job' \in TrackedTables
    BY <1>1, RowStatus DEF Claim, Statuses
  <2>2. bg' \in Dispatches /\ bg'.id = j
    <3>1. job[j].file \in Files \cup {NoFile}
      BY DEF TrackedTables, TrackedRow
    <3> QED
      BY <1>1, <3>1, IdleRecords DEF Claim, Dispatches, NoDispatch
  <2> QED
    BY <1>1, <2>1, <2>2 DEF Claim, machine, observed
<1>2. CASE Sent
  <2>1. printer' \in Printers
    BY <1>2, BoundsAssumption
       DEF Sent, Startable, Prints, Printers, Dispatches, Phases, DeviceStates
  <2>2. bg' \in Dispatches /\ bg'.id = bg.id
    <3>1. printer'.run \in 0..MaxPrints
      BY <2>1 DEF Printers
    <3> QED
      BY <1>2, <3>1 DEF Sent, Dispatches
  <2> QED
    BY <1>2, <2>1, <2>2 DEF Sent, observed
<1>3. CASE Confirmed
  <2>1. bg.id \in Jobs
    BY <1>3 DEF Confirmed
  <2>2. PICK now \in Stamps(job) :
           job' = [job EXCEPT ![bg.id] = IF @.st \in {"STARTING", "deleted"}
                     THEN [@ EXCEPT !.st = "PRINTING", !.started = now, !.file = bg.file,
                                    !.run = bg.run]
                     ELSE @]
    BY <1>3 DEF Confirmed
  <2>3. now \in Nat /\ bg.file \in Files \cup {NoFile} /\ bg.run \in Nat
    BY TrackedStamps, BoundsAssumption DEF Dispatches
  <2>4. job' \in TrackedTables
    BY <2>1, <2>2, <2>3 DEF TrackedTables, TrackedRow, Statuses
  <2> QED
    BY <1>3, <2>4, IdleRecords DEF Confirmed, NoDispatch, machine, observed
<1>4. CASE SendFails
  <2>1. bg.id \in Jobs /\ bg.file \in Files \cup {NoFile}
    BY <1>4 DEF SendFails, Dispatches
  <2>2. job' \in TrackedTables
    BY <1>4, <2>1 DEF SendFails, TrackedTables, TrackedRow, Statuses
  <2> QED
    BY <1>4, <2>2, IdleRecords DEF SendFails, NoDispatch, machine, observed
<1> QED
  BY <1>1, <1>2, <1>3, <1>4 DEF DispatchStep

LEMMA CrashTypes == ASSUME TypeInv, Crash \/ Boot PROVE TypeInv'
<1> USE DEF TypeInv
<1>1. CASE Crash
  BY <1>1, IdleRecords DEF Crash, NoDispatch
<1>2. CASE Boot
  <2>1. job' \in TrackedTables
    BY <1>2 DEF Boot, TrackedTables, TrackedRow, Statuses
  <2>2. prev' \in Bases \cup {"none"}
    BY <1>2 DEF Boot, Seeds, InStatus, Active, Bases, DeviceStates
  <2> QED
    BY <1>2, <2>1, <2>2 DEF Boot, machine
<1> QED
  BY <1>1, <1>2

LEMMA TypesInitially == Init => TypeInv
<1> SUFFICES ASSUME Init PROVE TypeInv
  OBVIOUS
<1>1. job \in TrackedTables
  <2>1. \A j \in Jobs : j <= Len(Queued0) => Queued0[j] \in Files
    BY QueuedAssumption, MaxJobsAssumption DEF Jobs
  <2> QED
    BY <2>1, BlankRow DEF Init, TrackedTables, TrackedRow, Statuses
<1>2. printer \in Printers
  <2>1. 0 \in 0..MaxPrints /\ "IDLE" \in Phases
    BY BoundsAssumption DEF Phases, DeviceStates
  <2> QED
    BY <2>1 DEF Init, Printers
<1>3. call \in [Calls -> GoodCall]
  BY IdleRecords DEF Init
<1> QED
  BY <1>1, <1>2, <1>3, IdleRecords DEF Init, TypeInv, NoDispatch

LEMMA TypesKept == TypeInv /\ [Next]_vars => TypeInv'
<1> SUFFICES ASSUME TypeInv, [Next]_vars PROVE TypeInv'
  OBVIOUS
<1>1. CASE UNCHANGED vars
  BY <1>1 DEF TypeInv, vars
<1>2. CASE Next
  BY <1>2, PrinterTypes, PollTypes, CallTypes, DispatchTypes, CrashTypes DEF Next
<1> QED
  BY <1>1, <1>2

(* The tables, the readings and the observer's memory have their types.    *)
THEOREM TrackingTypeCorrect == Spec => []TypeOK
<1>1. TypeInv => TypeOK
  BY DEF TypeInv, TypeOK, TrackedTables, Printers, Polls, Dispatches, GoodCall
<1> QED
  BY <1>1, TypesInitially, TypesKept, PTL DEF Spec

----------------------------------------------------------------------------
(* What the other steps do to a row                                        *)

(* An operator's correction, or the answer to a control, keeps its print.  *)
Corrected(j) ==
    /\ job[j].st \in Active /\ job'[j].st \notin {"STARTING", "absent"}
    /\ job'[j].run = job[j].run /\ job'[j].file = job[j].file

(* The row is no print's any more, or that of none yet.                    *)
Parked(j) ==
    /\ job'[j].st \notin Active \cup {"STARTING", "absent"}
    /\ job'[j].run \in {job[j].run, printer.run, 0}

LEMMA CallRows ==
  ASSUME TypeInv, NEW c \in Calls, CallStep(c)
  PROVE  \A j \in Jobs : Same(j) \/ Corrected(j) \/ Parked(j)
<1> USE DEF TypeInv
<1>1. CASE job' = job
  BY <1>1 DEF Same
<1>2. ASSUME NEW v, NEW j \in Found(v, NoFile), job' = [job EXCEPT ![j].st = Written(v)]
      PROVE  \A k \in Jobs : Same(k) \/ Corrected(k)
  <2>1. j \in Jobs /\ job[j].st \in Active /\ Written(v) \notin {"STARTING", "absent"}
    BY <1>2, FoundActive DEF InStatus, Written
  <2> QED
    BY <1>2, <2>1 DEF Same, Corrected, TrackedTables, TrackedRow
<1>3. CASE Sync(c)
  BY <1>1, <1>2, <1>3 DEF Sync
<1>4. CASE Requeue(c)
  <2>1. PICK k \in FreeIds(job) :
           job' = [job EXCEPT ![k] = [Blank EXCEPT !.st = "QUEUED", !.run = printer.run,
                                                   !.file = job[call[c].id].file]]
    BY <1>4 DEF Requeue
  <2> QED
    BY <2>1, FreeIdsAreJobs DEF Same, Parked, Active, Blank, TrackedTables
<1>5. CASE MarkSave(c)
  <2>1. call[c].id \in Jobs
    BY <1>5 DEF MarkSave, At, GoodCall
  <2>2. Marked(call[c].op) \notin Active \cup {"STARTING", "absent"}
    BY <1>5 DEF MarkSave, At, GoodCall, Marked, Active
  <2> QED
    BY <1>5, <2>1, <2>2 DEF MarkSave, Same, Parked, TrackedTables, TrackedRow
<1>6. CASE DeleteRow(c)
  <2>1. call[c].id \in Jobs
    BY <1>6 DEF DeleteRow, At, GoodCall
  <2> QED
    BY <1>6, <2>1 DEF DeleteRow, Same, Parked, Deleted, Blank, Active, TrackedTables
<1> QED
  BY <1>1, <1>3, <1>4, <1>5, <1>6
     DEF CallStep, CancelPrint, PausePrint, ResumePrint, Control, MarkCall, DeleteCall

(* The dispatched print is on the row, unless another step has been there. *)
Begun(j) ==
    /\ j = bg.id /\ job[j].st \in {"STARTING", "deleted"}
    /\ job'[j].st = "PRINTING" /\ job'[j].run = bg.run /\ job'[j].file = bg.file

LEMMA DispatchRows ==
  ASSUME TypeInv, Confirmed \/ SendFails
  PROVE  /\ bg.id \in Jobs /\ bg.at # "none" /\ bg' = NoDispatch
         /\ \A j \in Jobs :
               (Same(j) /\ (j = bg.id => job[j].st # "STARTING")) \/ Parked(j) \/ Begun(j)
<1> USE DEF TypeInv
<1>1. bg.id \in Jobs /\ bg.at # "none" /\ bg' = NoDispatch
  BY DEF Confirmed, SendFails
<1>2. CASE Confirmed
  <2>1. CASE job[bg.id].st \in {"STARTING", "deleted"}
    <3>1. PICK now : job' = [job EXCEPT ![bg.id] =
                               [@ EXCEPT !.st = "PRINTING", !.started = now, !.file = bg.file,
                                         !.run = bg.run]]
      BY <1>2, <2>1 DEF Confirmed
    <3>2. \A j \in Jobs \ {bg.id} : job'[j] = job[j]
      BY <3>1 DEF TrackedTables
    <3>3. Begun(bg.id)
      BY <1>1, <2>1, <3>1 DEF Begun, TrackedTables, TrackedRow
    <3> QED
      BY <1>1, <3>2, <3>3 DEF Same
  <2>2. CASE job[bg.id].st \notin {"STARTING", "deleted"}
    <3>1. job' = [job EXCEPT ![bg.id] = @]
      BY <1>2, <2>2 DEF Confirmed
    <3> QED
      BY <1>1, <2>2, <3>1 DEF Same, TrackedTables
  <2> QED
    BY <1>1, <2>1, <2>2
<1>3. CASE SendFails
  <2>1. job' = [job EXCEPT ![bg.id].st = "QUEUED", ![bg.id].file = bg.file]
    BY <1>3 DEF SendFails
  <2>2. \A j \in Jobs \ {bg.id} : job'[j] = job[j]
    BY <2>1 DEF TrackedTables
  <2>3. Parked(bg.id)
    BY <1>1, <2>1 DEF Parked, Active, TrackedTables, TrackedRow
  <2> QED
    BY <1>1, <2>2, <2>3 DEF Same
<1> QED
  BY <1>1, <1>2, <1>3

(* A finished row is active again after no step: the observer gives the    *)
(* print another row, and the calls and the dispatch look at the status.   *)
THEOREM FinishedRowsStay == Spec => HistoryStays
<1> DEFINE Stays ==
      \A j \in Jobs : job[j].st \in {"COMPLETED", "FAILED", "CANCELLED"} => job'[j].st \notin Active
<1>1. ASSUME TypeInv, [Next]_vars PROVE Stays
  <2>1. CASE job' = job
    BY <2>1 DEF Active
  <2>2. CASE Message
    BY <1>1, <2>2, MessageTable DEF Same, Closed, Adopted, TakenRow, Updated, Active, Finished
  <2>3. ASSUME NEW c \in Calls, CallStep(c) PROVE Stays
    BY <1>1, <2>3, CallRows DEF Same, Corrected, Parked, Active
  <2>4. ASSUME NEW j \in Jobs, Claim(j) PROVE Stays
    BY <1>1, <2>4 DEF Claim, TypeInv, TrackedTables, TrackedRow, Active
  <2>5. CASE Confirmed \/ SendFails
    BY <1>1, <2>5, DispatchRows DEF Same, Parked, Begun, Active
  <2>6. CASE Boot
    BY <1>1, <2>6 DEF Boot, TypeInv, TrackedTables, TrackedRow, Active
  <2>7. CASE PrinterStep \/ ReadPrinter \/ ReadStatus \/ Sent \/ Crash
    BY <2>1, <2>7 DEF PrinterStep, PanelStart, PrintFinishes, PrintAborted, Acknowledged,
                      Interrupted, Recovers, server, ReadPrinter, ReadStatus, Sent, Crash
  <2>8. CASE UNCHANGED vars
    BY <2>1, <2>8 DEF vars
  <2> QED
    BY <1>1, <2>2, <2>3, <2>4, <2>5, <2>6, <2>7, <2>8 DEF Next, PollStep, DispatchStep
<1>2. TypeInv /\ [Next]_vars => [Stays]_vars
  BY <1>1
<1> QED
  BY <1>2, TypesInitially, TypesKept, PTL DEF Spec, HistoryStays

----------------------------------------------------------------------------
(* What is known of the printer's print stays true                         *)

LEMMA NothingRead ==
  /\ NoPoll.at = "none" /\ NoPoll.since = 0
  /\ ~ NoPoll.said.cancelling /\ ~ NoPoll.said.error
  /\ NoDispatch.at = "none" /\ NoDispatch.run = 0
<1>1. ~ Normalized("OPERATIONAL", NoLink).cancelling /\ ~ Normalized("OPERATIONAL", NoLink).error
  BY DEF Normalized, NoLink
<1> QED
  BY <1>1 DEF NoPoll, NoDispatch

LEMMA RunTypes ==
  ASSUME TypeInv
  PROVE  /\ printer.run \in Nat /\ poll.since \in Nat /\ bg.run \in Nat
         /\ \A j \in Jobs : job[j].run \in Nat
  BY BoundsAssumption DEF TypeInv, Printers, Polls, Dispatches, TrackedTables, TrackedRow

(* The printer goes on with the same print, or comes to rest.              *)
LEMMA SamePrint ==
  ASSUME TypeInv, PrintInv, UNCHANGED <<job, poll, bg, up>>, printer'.run = printer.run,
         Working' => Working /\ printer'.file = printer.file,
         printer.phase \in AtRest => printer'.phase \in AtRest
  PROVE  PrintInv'
<1>1. RunsInv' /\ RowsInv' /\ DownInv'
  BY DEF PrintInv, RunsInv, RowsInv, DownInv, InStatus
<1>2. FileInv'
  BY DEF PrintInv, FileInv, InStatus
<1>3. RestInv'
  BY DEF PrintInv, RestInv
<1> QED
  BY <1>1, <1>2, <1>3 DEF PrintInv

(* A print begins, and nothing that is known is about it but its dispatch. *)
LEMMA NextPrint ==
  ASSUME TypeInv, PrintInv, NEW f, printer' = Prints(f), UNCHANGED <<job, poll, up>>,
         bg' = bg \/ (bg.at = "sending" /\ f = bg.file /\ bg' = [bg EXCEPT !.at = "sent",
                                                                           !.run = printer'.run])
  PROVE  PrintInv'
<1>1. printer'.run = printer.run + 1 /\ printer'.file = f
  BY DEF Prints
<1>2. bg'.id = bg.id /\ bg'.file = bg.file /\ (bg'.at = "none" <=> bg.at = "none")
  BY DEF TypeInv, Dispatches
<1>3. \/ bg'.run = bg.run
      \/ bg'.run = printer'.run /\ bg.file = printer'.file
  BY <1>1 DEF TypeInv, Dispatches
<1>4. \A j \in Jobs : job[j].run <= printer.run
  BY DEF PrintInv, RunsInv
<1>5. RunsInv'
  BY <1>1, <1>3, <1>4, RunTypes DEF PrintInv, RunsInv
<1>6. RowsInv' /\ DownInv'
  BY <1>2 DEF PrintInv, RowsInv, DownInv, InStatus
<1>7. poll'.since # printer'.run /\ \A j \in Jobs : job'[j].run # printer'.run
  BY <1>1, <1>4, RunTypes DEF PrintInv, RunsInv
<1>8. bg.run # printer'.run
  BY <1>1, RunTypes DEF PrintInv, RunsInv
<1>9. FileInv'
  BY <1>2, <1>3, <1>7, <1>8 DEF FileInv, InStatus
<1>10. RestInv'
  BY <1>7 DEF PrintInv, RestInv
<1> QED
  BY <1>5, <1>6, <1>9, <1>10 DEF PrintInv

LEMMA PrinterKeeps == ASSUME TypeInv, PrintInv, PrinterStep PROVE PrintInv'
<1> USE DEF Working, MidPrint, AtRest
<1>1. UNCHANGED <<job, poll, bg, up>>
  BY DEF PrinterStep, PanelStart, PrintFinishes, PrintAborted, Acknowledged, Interrupted,
         Recovers, server
<1>2. ASSUME NEW f \in PanelFiles, PanelStart(f) PROVE PrintInv'
  BY <1>1, <1>2, NextPrint DEF PanelStart, server
<1>3. CASE PrintFinishes \/ PrintAborted \/ Acknowledged
  <2>1. printer'.run = printer.run /\ printer'.phase \in {"FINISHED", "READY", "STOPPED", "IDLE"}
    BY <1>3 DEF PrintFinishes, PrintAborted, Acknowledged, TypeInv, Printers
  <2> QED
    BY <1>1, <2>1, SamePrint
<1>4. CASE Interrupted
  <2>1. PICK i \in Interruptions :
           printer.phase = i[1] /\ printer' = [printer EXCEPT !.phase = i[2]]
    BY <1>4 DEF Interrupted
  <2>2. i[1] \in MidPrint
    BY DEF Interruptions
  <2>3. printer'.run = printer.run /\ printer'.file = printer.file
    BY <2>1 DEF TypeInv, Printers
  <2> QED
    BY <1>1, <2>1, <2>2, <2>3, SamePrint
<1>5. CASE Recovers
  <2>1. PICK i \in Recoveries :
           /\ printer.phase = i[1]
           /\ printer' = [printer EXCEPT !.phase = i[2],
                                         !.file = IF i[2] = "IDLE" THEN NoFile ELSE @]
    BY <1>5 DEF Recovers
  <2>2. i[1] \in MidPrint
    BY DEF Recoveries
  <2>3. /\ printer'.run = printer.run
        /\ printer'.phase # "IDLE" => printer'.file = printer.file
    BY <2>1 DEF TypeInv, Printers
  <2> QED
    BY <1>1, <2>1, <2>2, <2>3, SamePrint
<1> QED
  BY <1>2, <1>3, <1>4, <1>5 DEF PrinterStep

(* A label that says the printer rests is read while it does.              *)
LEMMA RestIsRead ==
  /\ \A p \in Phases : Label(p) \in AtRest \/ LinkState(p) \in AtRest \/ DeviceState(p) \in AtRest
                       => p \in AtRest
  /\ \A text \in Bases, link \in DeviceStates \cup {NoLink} :
        LET said == Normalized(text, link)
        IN /\ said.base \in AtRest => link \in AtRest \/ text \in AtRest
           /\ said.cancelling => said.base = "STOPPED"
           /\ said.error => said.base \in {"ERROR", "ATTENTION"}
<1>1. \A p \in Phases : DeviceState(p) \in AtRest => p \in AtRest
  BY DEF DeviceState, AtRest
<1>2. \A p \in Phases : Label(p) \in AtRest \/ LinkState(p) \in AtRest => p \in AtRest
  BY <1>1 DEF Label, LinkState, NoLink, AtRest
<1>3. ASSUME NEW text \in Bases, NEW link \in DeviceStates \cup {NoLink}
      PROVE  LET said == Normalized(text, link)
             IN /\ said.base \in AtRest => link \in AtRest \/ text \in AtRest
                /\ said.cancelling => said.base = "STOPPED"
                /\ said.error => said.base \in {"ERROR", "ATTENTION"}
  BY DEF Normalized, DeviceStates, NoLink
<1> QED
  BY <1>1, <1>2, <1>3

LEMMA ReadKeeps == ASSUME TypeInv, PrintInv, ReadPrinter \/ ReadStatus PROVE PrintInv'
<1>1. UNCHANGED <<job, printer, bg, up>>
  BY DEF ReadPrinter, ReadStatus, memory
<1>2. \/ poll'.since = printer.run /\ poll'.file = printer.file
      \/ poll'.since = poll.since /\ poll'.file = poll.file /\ poll.at = "status"
  BY DEF ReadPrinter, ReadStatus, NoPoll
<1>3. RowsInv' /\ FileInv' /\ RunsInv'
  <2>1. RunsInv'
    BY <1>1, <1>2, RunTypes DEF PrintInv, RunsInv, Working
  <2>2. FileInv'
    BY <1>1, <1>2 DEF PrintInv, FileInv, Working, InStatus
  <2> QED
    BY <1>1, <2>1, <2>2 DEF PrintInv, RowsInv, InStatus
<1>4. DownInv'
  <2>1. up
    BY DEF ReadPrinter, ReadStatus, PrintInv, DownInv
  <2> QED
    BY <1>1, <2>1 DEF DownInv
<1>5. RestInv'
  <2>1. CASE ReadPrinter
    <3>1. /\ poll'.at = "status" /\ poll'.text = Label(printer.phase)
          /\ poll'.link = LinkState(printer.phase)
          /\ poll'.said = Normalized("OPERATIONAL", NoLink)
      BY <2>1 DEF ReadPrinter, NoPoll
    <3>2. printer.phase \in Phases /\ "OPERATIONAL" \in Bases
      BY DEF TypeInv, Printers, Bases
    <3> QED
      BY <1>1, <3>1, <3>2, RestIsRead DEF RestInv
  <2>2. CASE ReadStatus
    <3>1. PICK link \in {poll.link, DeviceState(printer.phase)} :
             poll' = [NoPoll EXCEPT !.at = "message", !.since = poll.since, !.file = poll.file,
                                    !.said = Normalized(poll.text, link)]
      BY <2>2 DEF ReadStatus
    <3>2. /\ poll'.at = "message" /\ poll'.since = poll.since
          /\ poll'.said = Normalized(poll.text, link)
      BY <3>1 DEF NoPoll
    <3>3. /\ poll.text \in Bases /\ link \in DeviceStates \cup {NoLink}
          /\ printer.phase \in Phases
      BY PhaseFacts DEF TypeInv, Polls, Printers
    <3>4. poll.since = printer.run /\ (poll.text \in AtRest \/ link \in AtRest)
            => printer.phase \in AtRest
      <4>1. poll.since = printer.run /\ (poll.text \in AtRest \/ poll.link \in AtRest)
              => printer.phase \in AtRest
        BY <2>2 DEF ReadStatus, PrintInv, RestInv
      <4>2. DeviceState(printer.phase) \in AtRest => printer.phase \in AtRest
        BY <3>3, RestIsRead
      <4> QED
        BY <3>1, <4>1, <4>2
    <3> QED
      BY <1>1, <3>2, <3>3, <3>4, RestIsRead DEF RestInv
  <2> QED
    BY <2>1, <2>2
<1> QED
  BY <1>3, <1>4, <1>5 DEF PrintInv

(* A row that is worked on is one that was, of the same print, or one that *)
(* the step gives the printer's print with its file.                       *)
Known(j) ==
    /\ job'[j].run <= printer.run
    /\ job'[j].st \notin {"STARTING", "absent"}
    /\ Working /\ job'[j].st \in Active /\ job'[j].run = printer.run
         => job'[j].file = printer.file

(* A step of the server that keeps or ends the poll; the dispatch may be   *)
(* done with its row.                                                      *)
LEMMA RowsKeep ==
  ASSUME TypeInv, PrintInv, UNCHANGED <<printer, up>>, poll' \in {poll, NoPoll},
         \/ bg' = bg
         \/ /\ bg' = NoDispatch
            /\ \A j \in Jobs : job'[j].st # "STARTING",
         \A j \in Jobs : Same(j) \/ Known(j)
  PROVE  PrintInv'
<1>1. RunsInv'
  BY NothingRead, RunTypes DEF PrintInv, RunsInv, Same, Known, Working
<1>2. RowsInv'
  BY DEF PrintInv, RowsInv, Same, Known, InStatus
<1>3. FileInv'
  BY NothingRead DEF PrintInv, FileInv, Same, Known, InStatus, Working
<1>4. RestInv' /\ DownInv'
  BY NothingRead DEF PrintInv, RestInv, DownInv
<1> QED
  BY <1>1, <1>2, <1>3, <1>4 DEF PrintInv

LEMMA MessageKeeps == ASSUME TypeInv, PrintInv, Message, ~ outdated' PROVE PrintInv'
<1>1. UNCHANGED <<printer, up, bg>> /\ poll' = NoPoll /\ poll.at = "message"
  BY DEF Message
<1>2. up
  BY <1>1 DEF PrintInv, DownInv
<1>3. ASSUME NEW j \in Jobs PROVE Same(j) \/ Known(j)
  <2>1. CASE Closed(j)
    BY <2>1 DEF Closed, Known, PrintInv, RunsInv, Active
  <2>2. CASE Adopted(j)
    <3>1. job'[j].st = "PRINTING" /\ job'[j].run = poll.since /\ poll.since <= printer.run
      BY <2>2 DEF Adopted, NewRow, PrintInv, RunsInv
    <3>2. ASSUME Working, poll.since = printer.run PROVE job'[j].file = printer.file
      <4>1. poll.file = printer.file
        BY <1>1, <3>2 DEF PrintInv, FileInv
      <4>2. job[j].st = "STARTING" => job[j].file = printer.file
        <5>1. SUFFICES ASSUME job[j].st = "STARTING" PROVE job[j].file = printer.file
          OBVIOUS
        <5>2. bg.run = printer.run
          BY <3>1, <5>1 DEF Message, Misadopted
        <5>3. bg.at # "none" /\ job[j].file = bg.file
          BY <1>2, <5>1 DEF PrintInv, RowsInv, InStatus
        <5> QED
          BY <3>2, <5>2, <5>3 DEF PrintInv, FileInv
      <4>3. job[j].st = "absent" => job[j].file = NoFile
        BY DEF PrintInv, RowsInv
      <4> QED
        BY <2>2, <4>1, <4>2, <4>3 DEF Adopted, NewRow, TakenRow
    <3> QED
      BY <3>1, <3>2 DEF Known
  <2>3. CASE Updated(j)
    <3>1. Working /\ job[j].run = printer.run => job[j].file = printer.file
      BY <2>3 DEF Updated, PrintInv, FileInv, InStatus
    <3> QED
      BY <2>3, <3>1 DEF Updated, Known, Written, PrintInv, RunsInv
  <2> QED
    BY <2>1, <2>2, <2>3, MessageTable
<1> QED
  BY <1>1, <1>3, RowsKeep

LEMMA CallsLeave ==
  ASSUME NEW c \in Calls, CallStep(c) PROVE UNCHANGED <<up, poll, bg>>
  BY DEF CallStep, CancelPrint, PausePrint, ResumePrint, Control, Sync, Requeue, MarkCall,
         MarkSave, DeleteCall, DeleteRow, observed, machine

LEMMA CorrectedIsKnown ==
  ASSUME TypeInv, PrintInv, NEW j \in Jobs, Corrected(j) \/ Parked(j)
  PROVE  Known(j)
<1>1. job[j].run <= printer.run /\ 0 <= printer.run /\ printer.run <= printer.run
  BY RunTypes DEF PrintInv, RunsInv
<1>2. CASE Corrected(j)
  BY <1>1, <1>2 DEF Corrected, Known, PrintInv, FileInv, InStatus
<1>3. CASE Parked(j)
  BY <1>1, <1>3 DEF Parked, Known
<1> QED
  BY <1>2, <1>3

LEMMA CallKeeps == ASSUME TypeInv, PrintInv, NEW c \in Calls, CallStep(c) PROVE PrintInv'
<1>1. UNCHANGED <<up, poll, bg>>
  BY CallsLeave
<1>2. CASE printer' = printer
  BY <1>1, <1>2, CallRows, CorrectedIsKnown, RowsKeep
<1>3. ASSUME NEW op, NEW from \in SUBSET MidPrint, NEW to, Control(c, op, from, to)
      PROVE  PrintInv'
  <2>1. /\ printer'.run = printer.run /\ printer'.file = printer.file /\ job' = job
        /\ printer.phase \in MidPrint
    BY <1>3 DEF Control, TypeInv, Printers
  <2> QED
    BY <1>1, <2>1, SamePrint DEF Working, MidPrint, AtRest
<1> QED
  BY <1>2, <1>3 DEF CallStep, CancelPrint, PausePrint, ResumePrint, Sync, Requeue, MarkCall,
                    MarkSave, DeleteCall, DeleteRow, machine, MidPrint

LEMMA ClaimKeeps == ASSUME TypeInv, PrintInv, NEW j \in Jobs, Claim(j) PROVE PrintInv'
<1>1. UNCHANGED <<printer, poll, up>> /\ up
  BY DEF Claim, machine, observed
<1>2. /\ job' = [job EXCEPT ![j].st = "STARTING"] /\ job[j].st = "QUEUED"
      /\ \A k \in Jobs : job[k].st # "STARTING"
  BY DEF Claim, InStatus, Busy
<1>3. bg'.at = "sending" /\ bg'.id = j /\ bg'.file = job[j].file /\ bg'.run = 0
  BY DEF Claim, NoDispatch
<1>4. /\ job'[j].st = "STARTING" /\ job'[j].file = job[j].file /\ job'[j].run = job[j].run
      /\ \A k \in Jobs \ {j} : job'[k] = job[k]
  BY <1>2 DEF TypeInv, TrackedTables, TrackedRow
<1>5. RunsInv'
  BY <1>1, <1>3, <1>4, RunTypes DEF PrintInv, RunsInv, Working
<1>6. RowsInv'
  BY <1>1, <1>2, <1>3, <1>4 DEF PrintInv, RowsInv, InStatus
<1>7. FileInv'
  <2>1. Working => printer.run # 0
    BY DEF PrintInv, RunsInv
  <2> QED
    BY <1>1, <1>3, <1>4, <2>1 DEF PrintInv, FileInv, InStatus, Working, Active
<1>8. RestInv' /\ DownInv'
  BY <1>1, <1>3 DEF PrintInv, RestInv, DownInv
<1> QED
  BY <1>5, <1>6, <1>7, <1>8 DEF PrintInv

LEMMA DispatchKeeps == ASSUME TypeInv, PrintInv, DispatchStep, ~ outdated' PROVE PrintInv'
<1>1. CASE Sent
  <2>1. printer' = Prints(bg.file) /\ UNCHANGED <<job, poll, up>> /\ bg.at = "sending"
    BY <1>1 DEF Sent, observed
  <2> QED
    BY <1>1, <2>1, NextPrint DEF Sent
<1>2. CASE Confirmed \/ SendFails
  <2>1. /\ UNCHANGED <<printer, poll, up>> /\ bg' = NoDispatch /\ bg.at # "none" /\ bg.id \in Jobs
        /\ up
    BY <1>2, DispatchRows DEF Confirmed, SendFails, machine, observed, PrintInv, DownInv
  <2>2. ASSUME NEW j \in Jobs, Begun(j) PROVE Known(j)
    <3>1. bg.run = printer.run \/ SendFails
      BY <1>2 DEF Confirmed
    <3>2. Confirmed
      BY <1>2, <2>1, <2>2 DEF Begun, SendFails, TypeInv, TrackedTables, TrackedRow
    <3>3. bg.run = printer.run
      BY <3>2 DEF Confirmed
    <3> QED
      BY <2>1, <2>2, <3>3, RunTypes DEF Begun, Known, PrintInv, FileInv
  <2>3. \A j \in Jobs : Same(j) \/ Known(j)
    BY <1>2, <2>2, DispatchRows, CorrectedIsKnown
  <2>4. \A j \in Jobs : job'[j].st # "STARTING"
    <3>1. \A j \in Jobs : job[j].st = "STARTING" => j = bg.id
      BY <2>1 DEF PrintInv, RowsInv, InStatus
    <3> QED
      BY <1>2, <3>1, DispatchRows DEF Same, Parked, Begun
  <2> QED
    BY <2>1, <2>3, <2>4, RowsKeep
<1> QED
  BY <1>1, <1>2, ClaimKeeps DEF DispatchStep

LEMMA CrashKeeps == ASSUME TypeInv, PrintInv, Crash \/ Boot PROVE PrintInv'
<1>1. CASE Crash
  <2>1. /\ UNCHANGED <<job, printer>> /\ ~ up' /\ poll' = NoPoll /\ bg' = NoDispatch
    BY <1>1 DEF Crash
  <2>2. RunsInv'
    BY <2>1, NothingRead, RunTypes DEF PrintInv, RunsInv, Working
  <2>3. FileInv'
    BY <2>1, NothingRead DEF PrintInv, FileInv, Working, InStatus
  <2> QED
    BY <2>1, <2>2, <2>3, NothingRead DEF PrintInv, RowsInv, RestInv, DownInv
<1>2. CASE Boot
  <2>1. UNCHANGED <<printer, poll, bg>> /\ ~ up
    BY <1>2 DEF Boot, machine
  <2>2. \A j \in Jobs : /\ job'[j].run = job[j].run /\ job'[j].file = job[j].file
                        /\ job'[j].st # "STARTING"
                        /\ job'[j].st \in Active \cup {"absent"} => job'[j].st = job[j].st
    BY <1>2 DEF Boot, TypeInv, TrackedTables, TrackedRow, Active
  <2>3. RunsInv' /\ RowsInv'
    BY <2>1, <2>2 DEF PrintInv, RunsInv, RowsInv, InStatus, Working
  <2>4. FileInv'
    BY <2>1, <2>2 DEF PrintInv, FileInv, InStatus, Working
  <2>5. RestInv' /\ DownInv'
    BY <2>1 DEF PrintInv, RestInv, DownInv
  <2> QED
    BY <2>3, <2>4, <2>5 DEF PrintInv
<1> QED
  BY <1>1, <1>2

LEMMA KnownInitially == Init => Inv
<1> SUFFICES ASSUME Init PROVE PrintInv
  BY TypesInitially DEF Inv
<1>1. /\ ~ Working /\ printer.run = 0 /\ poll = NoPoll /\ bg = NoDispatch
  BY DEF Init, Working, MidPrint
<1>2. \A j \in Jobs : /\ job[j].run = 0 /\ job[j].st \in {"QUEUED", "absent"}
                      /\ job[j].st = "absent" => job[j].file = NoFile
  BY DEF Init, Blank
<1> QED
  BY <1>1, <1>2, NothingRead DEF PrintInv, RunsInv, RowsInv, FileInv, RestInv, DownInv, InStatus

LEMMA KnownKept == Inv /\ [Next]_vars => Inv'
<1> SUFFICES ASSUME Inv, [Next]_vars PROVE Inv'
  OBVIOUS
<1>1. CASE UNCHANGED vars
  BY <1>1, TypesKept DEF Inv, PrintInv, RunsInv, RowsInv, FileInv, RestInv, DownInv, vars, Working,
                         InStatus
<1>2. CASE Next
  <2>1. SUFFICES ASSUME ~ outdated' PROVE PrintInv'
    BY TypesKept DEF Inv
  <2> QED
    BY <1>2, <2>1, PrinterKeeps, ReadKeeps, MessageKeeps, CallKeeps, DispatchKeeps, CrashKeeps
       DEF Inv, Next, PollStep
<1> QED
  BY <1>1, <1>2

----------------------------------------------------------------------------

(* What closes a row is true of the printer.                               *)
LEMMA ClosersRest ==
  ASSUME TypeInv, PrintInv, poll.at = "message", poll.since = printer.run,
         Verdict \in {"completed", "cancelled", "failed"}
  PROVE  printer.phase \in AtRest
<1>1. poll.said.base \in Bases
  BY DEF TypeInv, Polls
<1>2. poll.said.base \in {"FINISHED", "READY", "IDLE", "STOPPED", "ERROR"}
  BY <1>1 DEF Verdict, Branch, Ended, Cancelling, PrintInv, RestInv, Bases, DeviceStates
<1> QED
  BY <1>2 DEF PrintInv, RestInv, AtRest

(* The observer closes no row of the print the printer is working on: a    *)
(* reading that says it is over is true, and a start names its own file.   *)
THEOREM NoPrintClosedEarly == Spec => NoEarlyClose
<1> DEFINE Keeps ==
      Message /\ ~ outdated' =>
        \A j \in Jobs : /\ job[j].st \in Active /\ job'[j].st \notin Active
                        /\ job[j].run = printer.run
                        => printer.phase \notin MidPrint
<1>1. ASSUME Inv, [Next]_vars PROVE Keeps
  <2> SUFFICES ASSUME Message, ~ outdated', NEW j \in Jobs, job[j].st \in Active,
                      job'[j].st \notin Active, job[j].run = printer.run, Working
               PROVE  FALSE
    BY DEF Working
  <2>1. PrintInv /\ TypeInv
    <3>1. ~ outdated
      BY <1>1 DEF Next, Message, vars, NoPoll
    <3> QED
      BY <1>1, <3>1 DEF Inv
  <2>2. poll.at = "message" /\ poll.since = printer.run
    BY DEF Message
  <2>3. CASE Closed(j)
    BY <2>1, <2>2, <2>3 DEF Closed, PrintInv, FileInv, InStatus
  <2>4. CASE Updated(j)
    <3>1. Verdict \in {"completed", "cancelled", "failed"}
      BY <2>1, <2>4, BranchBase DEF Updated, Written, Active
    <3> QED
      BY <2>1, <2>2, <3>1, ClosersRest DEF Working, MidPrint, AtRest
  <2> QED
    BY <2>1, <2>3, <2>4, MessageTable DEF Same, Adopted, NewRow, Active
<1>2. Inv /\ [Next]_vars => [Keeps]_vars
  BY <1>1
<1> QED
  BY <1>2, KnownInitially, KnownKept, PTL DEF Spec, NoEarlyClose

=============================================================================
