---------------------------- MODULE Maintenance ----------------------------
(***************************************************************************)
(* PrinterMaintenanceLogService for one printer: the logs are the truth,   *)
(* the printer's disabledReason is written after them, and by hand, and    *)
(* mends at boot.                                                          *)
(***************************************************************************)
EXTENDS InboxState

inbox == <<item, staged, stored, job, line, up, torn, late>>

(* create looks for an active log before it inserts one.                   *)
CreateLog(c) ==
    /\ ~ InMaintenance
    /\ Begin(c, "create", "insert", 0, 0, FALSE)
    /\ UNCHANGED <<log, reason, blanked, inbox>>

(* The unique index lets one active log in.                                *)
InsertLog(c) ==
    /\ At(c, "insert")
    /\ IF InMaintenance
       THEN Answered(c) /\ UNCHANGED log
       ELSE \E l \in Logs :
              /\ log[l] = "none"
              /\ \A k \in 1 .. l - 1 : log[k] # "none"
              /\ log' = [log EXCEPT ![l] = "active"]
              /\ call' = [call EXCEPT ![c].at = "reason", ![c].id = l]
    /\ UNCHANGED <<reason, budget, blanked, inbox>>

SetReason(c) ==
    /\ At(c, "reason")
    /\ reason' = TRUE /\ blanked' = FALSE
    /\ Answered(c)
    /\ UNCHANGED <<log, budget, inbox>>

CompleteLog(c, l) ==
    /\ l \in Active
    /\ Begin(c, "complete", "complete", 0, l, FALSE)
    /\ UNCHANGED <<log, reason, blanked, inbox>>

(* The save inserts the row again if it was deleted meanwhile.             *)
SaveCompleted(c) ==
    /\ At(c, "complete")
    /\ log' = [log EXCEPT ![call[c].id] = "completed"]
    /\ Goto(c, "clear")
    /\ UNCHANGED <<reason, budget, blanked, inbox>>

DeleteLog(c, l) ==
    /\ log[l] \in {"active", "completed"}
    /\ Begin(c, "delete", IF log[l] = "active" THEN "clear" ELSE "remove", 0, l, FALSE)
    /\ UNCHANGED <<log, reason, blanked, inbox>>

(* The reason is cleared whichever log it was set for by now.              *)
ClearReason(c) ==
    /\ At(c, "clear")
    /\ reason' = FALSE
    /\ blanked' = (blanked \/ Active \ {call[c].id} # {})
    /\ IF call[c].op = "complete" THEN Answered(c) ELSE Goto(c, "remove")
    /\ UNCHANGED <<log, budget, inbox>>

RemoveLog(c) ==
    /\ At(c, "remove")
    /\ log' = [log EXCEPT ![call[c].id] = "deleted"]
    /\ Answered(c)
    /\ UNCHANGED <<reason, budget, blanked, inbox>>

(* updateDisabledReason by hand, which also a PATCH of the printer does:   *)
(* a reason is given or cleared, and no log is asked.                      *)
OverrideReason ==
    /\ up
    /\ budget > 0 /\ budget' = budget - 1
    /\ reason' = ~ reason
    /\ blanked' = (reason /\ InMaintenance)
    /\ UNCHANGED <<log, call, inbox>>

(* With a bug: the server starts with the reasons as they are.             *)
BootOnly ==
    /\ ~ up
    /\ up' = TRUE
    /\ blanked' = FALSE
    /\ UNCHANGED <<item, staged, stored, job, log, reason, line, call, budget,
                   torn, late>>
(* reconcileActiveDisabledReasons runs before the server listens: an empty *)
(* reason is filled from the active log, one given by hand is left.        *)
Boot ==
    /\ ~ up
    /\ up' = TRUE
    /\ reason' = (reason \/ InMaintenance) /\ blanked' = FALSE
    /\ UNCHANGED <<item, staged, stored, job, log, line, call, budget, torn,
                   late>>

=============================================================================
