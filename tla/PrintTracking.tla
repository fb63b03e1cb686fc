---------------------------- MODULE PrintTracking ----------------------------
(***************************************************************************)
(* The rows of one printer's prints, written by the poll observer, by the  *)
(* operators' calls and by the dispatch, none of which takes a lock.  The  *)
(* saves of whole rows can overwrite each other; "outdated" records that   *)
(* one did, and the properties say what holds until then.                  *)
(***************************************************************************)
EXTENDS PollObserver, JobControls

PrinterStep ==
    \/ \E f \in PanelFiles : PanelStart(f)
    \/ PrintFinishes
    \/ PrintAborted
    \/ Acknowledged
    \/ Interrupted
    \/ Recovers

PollStep == ReadPrinter \/ ReadStatus \/ Message

CallStep(c) ==
    \/ CancelPrint(c) \/ PausePrint(c) \/ ResumePrint(c) \/ Sync(c) \/ Requeue(c)
    \/ \E j \in Jobs : MarkCall(c, j) \/ DeleteCall(c, j)
    \/ MarkSave(c)
    \/ DeleteRow(c)

DispatchStep ==
    \/ \E j \in Jobs : Claim(j)
    \/ Sent
    \/ Confirmed
    \/ SendFails

(* Once a save was outdated nothing more is claimed of the rows.           *)
Next ==
    /\ ~ outdated
    /\ \/ PrinterStep
       \/ PollStep
       \/ \E c \in Calls : CallStep(c)
       \/ DispatchStep
       \/ Crash
       \/ Boot

(* The poller ticks every few seconds, and its requests have timeouts; a   *)
(* crashed server is started again.  Nothing is assumed of the printer, of *)
(* the operators or of the dispatch.                                       *)
Fairness == WF_vars(~ outdated /\ PollStep) /\ WF_vars(Boot)

Spec == Init /\ [][Next]_vars /\ Fairness

----------------------------------------------------------------------------

(* The observer never ends the row of the print that the printer is still  *)
(* working on: no hold, prompt, recovery or renamed label looks like an    *)
(* end to it, and no start of the print closes the print's own row.        *)
NoEarlyClose ==
    [][Message /\ ~ outdated' =>
         \A j \in Jobs :
            /\ job[j].st \in Active /\ job'[j].st \notin Active
            /\ job[j].run = printer.run
            => printer.phase \notin MidPrint]_vars

(* A row that was once a finished print never becomes an active one: a     *)
(* re-print gets a row of its own, and history stays.                      *)
HistoryStays ==
    [][\A j \in Jobs : job[j].st \in {"COMPLETED", "FAILED", "CANCELLED"}
                       => job'[j].st \notin Active]_vars

(* The printer is at rest and the row of its last print is PRINTING.       *)
Unclosed ==
    printer.phase \in AtRest
    /\ \E j \in InStatus(job, {"PRINTING"}) : job[j].run = printer.run

(* A print that the observer last saw under way is closed when the printer *)
(* comes to rest, whatever the way it ended and even if the server crashes *)
(* first: its row does not stay PRINTING and block the printer.            *)
SeenPrintsClose == Unclosed /\ prev \in MidPrint ~> ~ Unclosed \/ outdated

(* The job that "Cancel print" has put back is started by the operator,    *)
(* not by the print that was just cancelled.                               *)
RequeuedKept ==
    [][\A j \in Jobs : job[j].st = "QUEUED" /\ job'[j].st = "PRINTING"
                       => job'[j].run > job[j].run]_vars

=============================================================================
