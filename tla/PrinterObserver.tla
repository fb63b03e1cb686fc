-------------------------- MODULE PrinterObserver --------------------------
(***************************************************************************)
(* The printer, the poll observer (PrinterEventsCache) that reads its      *)
(* state, and crash and boot of the server.  One poll is in flight at a    *)
(* time; its answer may be old when the observer acts on it, and the       *)
(* observer's queries on one answer are taken here as one step.            *)
(***************************************************************************)
EXTENDS QueueState

----------------------------------------------------------------------------
(* The printer, seen from src/ only through its HTTP answers               *)

PrintEnds ==
    /\ printer.st = "PRINTING"
    /\ printer' = [printer EXCEPT !.st = "FINISHED", !.by = NoReq]
    /\ UNCHANGED <<job, api, dispatch, observer, process, panel>>

(* The operator acknowledges, or the stop sequence ends.                   *)
PrinterRests ==
    /\ printer.st \in {"FINISHED", "STOPPED"}
    /\ printer' = [st |-> "IDLE", file |-> NoFile, by |-> NoReq]
    /\ UNCHANGED <<job, api, dispatch, observer, process, panel>>

(* Stopped, or a file of its own started, at the printer's panel.          *)
PanelStop ==
    /\ panel < MaxPanel
    /\ printer.st = "PRINTING"
    /\ printer' = [printer EXCEPT !.st = "STOPPED", !.by = NoReq]
    /\ panel' = panel + 1
    /\ UNCHANGED <<job, api, dispatch, observer, process>>

PanelStart(f) ==
    /\ panel < MaxPanel
    /\ printer.st \in {"IDLE", "FINISHED"}
    /\ printer' = [st |-> "PRINTING", file |-> f, by |-> NoReq]
    /\ panel' = panel + 1
    /\ UNCHANGED <<job, api, dispatch, observer, process>>

----------------------------------------------------------------------------
(* The poll                                                                *)

(* pollOnce: /status answered.  A FINISHED answer may lack the job.        *)
PollAnswer ==
    /\ up /\ Observing
    /\ obs = NoAnswer
    /\ \E f \in {printer.file} \cup (IF printer.st = "FINISHED" THEN {NoFile} ELSE {}) :
          obs' = [st |-> printer.st, file |-> f]
    /\ UNCHANGED <<job, api, dispatch, live, prev, world, process>>

(* What onPrusaLinkPollMessage can make of the table: a transition only on *)
(* an edge; idle after PRINTING is a terminal edge that was missed.        *)
Observed ==
    CASE obs.st = prev -> {job}
      [] obs.st = "PRINTING" /\ prev # "PRINTING" -> PrintStarted(job, obs.file)
      [] obs.st = "FINISHED" /\ prev # "FINISHED" -> PrintEnded(job, obs.file, "COMPLETED")
      [] obs.st = "STOPPED" /\ prev # "STOPPED" -> PrintEnded(job, NoFile, "CANCELLED")
      [] obs.st = "IDLE" /\ prev = "PRINTING" -> PrintEnded(job, obs.file, "COMPLETED")
      [] OTHER -> {job}

(* setEvent first: the reading is live while the transition is written.    *)
PollHandled ==
    /\ obs # NoAnswer
    /\ live' = obs.st
    /\ prev' = obs.st
    /\ job' \in Observed
    /\ obs' = NoAnswer
    /\ UNCHANGED <<api, dispatch, world, process>>

(* No poll has succeeded for LIVE_STATE_MAX_AGE_MS.                        *)
LiveExpires ==
    /\ live # "none"
    /\ live' = "none"
    /\ UNCHANGED <<job, api, dispatch, obs, prev, world, process>>

----------------------------------------------------------------------------
(* Crash and boot                                                          *)

(* Everything in memory is gone; the table and the printer stay.           *)
Crash ==
    /\ up
    /\ crashes < MaxCrashes
    /\ up' = FALSE
    /\ crashes' = crashes + 1
    /\ line' = <<>>
    /\ req' = [r \in Requests |-> IF req[r].at = "unused" THEN Unused ELSE Done]
    /\ bg' = [r \in Requests |-> Settled]
    /\ aborter' = NoReq
    /\ obs' = NoAnswer
    /\ live' = "none"
    /\ prev' = "none"
    /\ UNCHANGED <<job, world>>

(* With a bug: the boot task leaves the rows alone.                        *)
NothingRecovered == job

(* resetStrandedDispatches: a STARTING row is an upload that was cut off.  *)
Recovered == [j \in Jobs |-> IF job[j].st = "STARTING"
                             THEN [job[j] EXCEPT !.st = "QUEUED"] ELSE job[j]]

(* The boot task, before it listens: then seedLastPollState.               *)
Boot ==
    /\ ~ up
    /\ up' = TRUE
    /\ job' = Recovered
    /\ prev' = IF InStatus(job, {"PRINTING"}) # {} THEN "PRINTING" ELSE "none"
    /\ UNCHANGED <<api, dispatch, obs, live, world, crashes>>

=============================================================================
