---------------------------- MODULE PollObserver ----------------------------
(***************************************************************************)
(* One printer and the poll that watches it: the three reads of            *)
(* PrusaLinkHttpPollingAdapter.pollOnce, and the handler of its message,   *)
(* PrinterEventsCache.onPrusaLinkPollMessage, which calls one of the       *)
(* PrintJobService handlers and then updates the progress.  pollInFlight   *)
(* lets one poll run at a time, and it lasts until the handler has         *)
(* returned.  A poll whose first or second read fails changes nothing, so  *)
(* it is not modelled.                                                     *)
(***************************************************************************)
EXTENDS TrackingState

memory == <<prev, call, bg, up, holds, calls>>

----------------------------------------------------------------------------
(* The printer, seen from src/ through its answers only                    *)

PanelStart(f) ==
    /\ Startable
    /\ printer' = Prints(f)
    /\ UNCHANGED <<server, holds>>

(* FINISHED, or READY at once; the job may be gone from the answers.       *)
PrintFinishes ==
    /\ printer.phase = "PRINTING"
    /\ \/ \E f \in {printer.file, NoFile} :
             printer' = [printer EXCEPT !.phase = "FINISHED", !.file = f]
       \/ printer' = [printer EXCEPT !.phase = "READY", !.file = NoFile]
    /\ UNCHANGED <<server, holds>>

PrintAborted ==
    /\ printer.phase = "ABORTING"
    /\ \E phase \in {"STOPPED", "READY"} : printer' = [printer EXCEPT !.phase = phase]
    /\ UNCHANGED <<server, holds>>

Acknowledged ==
    /\ printer.phase \in {"FINISHED", "STOPPED", "READY", "ERROR"}
    /\ printer' = [printer EXCEPT !.phase = "IDLE", !.file = NoFile]
    /\ UNCHANGED <<server, holds>>

(* A pause, a prompt, a recovery, an error; stopping at the panel.         *)
Interruptions ==
    {<<"PRINTING", "PAUSED">>, <<"PRINTING", "BUSY">>, <<"PRINTING", "ATTENTION">>,
     <<"PRINTING", "ABORTING">>, <<"PRINTING", "ERROR">>, <<"PAUSED", "ATTENTION">>,
     <<"PAUSED", "ABORTING">>}

(* A print that was held up goes on, or ends without a FINISHED.           *)
Recoveries ==
    {<<"PAUSED", "PRINTING">>, <<"BUSY", "PRINTING">>, <<"ATTENTION", "PRINTING">>,
     <<"BUSY", "IDLE">>, <<"ATTENTION", "IDLE">>}

Interrupted ==
    /\ Held
    /\ \E i \in Interruptions :
          /\ printer.phase = i[1]
          /\ printer' = [printer EXCEPT !.phase = i[2]]
    /\ UNCHANGED server

Recovers ==
    /\ \E i \in Recoveries :
          /\ printer.phase = i[1]
          /\ printer' = [printer EXCEPT !.phase = i[2],
                                        !.file = IF i[2] = "IDLE" THEN NoFile ELSE @]
    /\ UNCHANGED <<server, holds>>

----------------------------------------------------------------------------
(* pollOnce: the reads follow each other                                   *)

(* /api/printer and /api/v1/job, one step here: see the README.            *)
ReadPrinter ==
    /\ up
    /\ poll.at = "none"
    /\ poll' = [NoPoll EXCEPT !.at = "status", !.since = printer.run, !.file = printer.file,
                              !.text = Label(printer.phase), !.link = LinkState(printer.phase)]
    /\ UNCHANGED <<job, printer, outdated, memory>>

(* getStatus().catch(() => null): without it a Buddy has its label only.   *)
ReadStatus ==
    /\ poll.at = "status"
    /\ \E answered \in {TRUE} \cup (IF StatusFails THEN {FALSE} ELSE {}) :
          LET link == IF poll.link = NoLink /\ answered THEN DeviceState(printer.phase)
                      ELSE poll.link
          IN poll' = [NoPoll EXCEPT !.at = "message", !.since = poll.since, !.file = poll.file,
                                    !.said = Normalized(poll.text, link)]
    /\ UNCHANGED <<job, printer, outdated, memory>>

----------------------------------------------------------------------------
(* onPrusaLinkPollMessage                                                  *)

(* With a bug: BUSY counts as idle.                                        *)
EndedOrBusy(base) == base \in {"READY", "IDLE", "BUSY"}

(* isIdle: the print is genuinely over.                                    *)
Ended(base) == base \in {"READY", "IDLE"}

(* The previous states after which an idle printer has ended a print.      *)
Ongoing == {"PRINTING", "PAUSED", "ATTENTION", "BUSY"}

Cancelling(said) == said.base \in {"STOPPED", "CANCELLING"} \/ said.cancelling

(* The branch a message takes: <<verdict, next lastPollState>>; a message  *)
(* that is no edge has the verdict "none".                                 *)
Branch(said, file) ==
    LET edge(verdict, known) == IF prev \in known THEN "none" ELSE verdict
    IN CASE said.base = "PRINTING" /\ file # NoFile ->
                <<edge(IF prev = "PAUSED" THEN "resumed" ELSE "started", {"PRINTING"}), "PRINTING">>
         [] said.base = "PAUSED" /\ file # NoFile -> <<edge("paused", {"PAUSED"}), "PAUSED">>
         [] said.base = "FINISHED" -> <<edge("completed", {"FINISHED"}), "FINISHED">>
         [] Cancelling(said) -> <<edge("cancelled", {"STOPPED", "CANCELLING"}), said.base>>
         [] (said.base = "ERROR" \/ said.error) /\ said.base # "ATTENTION" ->
                <<edge("failed", {"ERROR"}), "ERROR">>
         [] OTHER -> <<IF Ended(said.base) /\ prev \in Ongoing THEN "completed" ELSE "none",
                       said.base>>

Verdict == Branch(poll.said, poll.file)[1]

(* With a bug: the newest row of the file is taken though it is finished.  *)
RestartedAs(T, f) ==
    LET taken == TakenFor(T, f)
        row(j, now) == [st |-> "PRINTING", started |-> now, begun |-> TRUE, run |-> poll.since,
                        file |-> IF T[j].file = NoFile THEN f ELSE T[j].file]
    IN {[T EXCEPT ![j] = row(j, now)] :
            j \in IF taken # {} THEN taken ELSE FreeIds(T), now \in Stamps(T)}

(* handlePrintStarted: an active row of the same file is the print; one of *)
(* another file is closed; then the print takes a row or gets its own.     *)
Superseded(T, e) == [T EXCEPT ![e].st = "UNKNOWN"]

StartedAs(T, f) ==
    LET taken == {j \in TakenFor(T, f) : T[j].st \notin Finished}
        row(j, now) == [st |-> "PRINTING", started |-> now, begun |-> TRUE, run |-> poll.since,
                        file |-> IF T[j].file = NoFile THEN f ELSE T[j].file]
    IN {[T EXCEPT ![j] = row(j, now)] :
            j \in IF taken # {} THEN taken ELSE FreeIds(T), now \in Stamps(T)}

Started(f) ==
    LET printing == MostRecent(job, InStatus(job, {"PRINTING"}))
    IN IF printing = {} THEN StartedAs(job, f)
       ELSE UNION {IF job[e].file = f THEN {job} ELSE StartedAs(Superseded(job, e), f) :
                   e \in printing}

(* The handler of any other verdict writes the row that it finds.          *)
Wrote(verdict, f) ==
    LET found == Found(verdict, f)
    IN IF found = {} THEN {job} ELSE {[job EXCEPT ![j].st = Written(verdict)] : j \in found}

(* The print takes the row of a dispatch that has not reached the printer. *)
Misadopted ==
    \E j \in Jobs : job[j].st = "STARTING" /\ job'[j].st = "PRINTING" /\ bg.run # printer.run

(* handlePrintProgress, after the transition, if the message names a file. *)
Progressed(T, f) ==
    LET printing == MostRecent(T, InStatus(T, {"PRINTING"}))
    IN IF f = NoFile \/ printing = {} THEN {T}
       ELSE {[T EXCEPT ![j].begun = TRUE] : j \in printing}

(* onPrusaLinkPollMessage: the transition, lastPollState, the progress.  A *)
(* message that changes the table is outdated if the printer has begun     *)
(* another print since the poll began.                                     *)
Message ==
    /\ poll.at = "message"
    /\ \E T \in CASE Verdict = "none" -> {job}
                   [] Verdict = "started" -> Started(poll.file)
                   [] OTHER -> Wrote(Verdict, poll.file) :
          job' \in Progressed(T, poll.file)
    /\ prev' = IF Verdict = "none" /\ Cancelling(poll.said) THEN prev
               ELSE Branch(poll.said, poll.file)[2]
    /\ outdated' = (Misadopted \/ (job' # job /\ printer.run # poll.since))
    /\ poll' = NoPoll
    /\ UNCHANGED <<printer, call, bg, up, holds, calls>>

=============================================================================
