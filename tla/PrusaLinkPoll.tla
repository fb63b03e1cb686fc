---------------------------- MODULE PrusaLinkPoll ----------------------------
(***************************************************************************)
(* What a poll makes of a printer's state.  The phases of a print are      *)
(* those of the Buddy firmware, as the simulator in the repository states  *)
(* them; each poll reads /api/printer, /api/v1/job and /api/v1/status one  *)
(* after the other, and normalizePrusaLinkPoll merges the three answers.   *)
(***************************************************************************)

CONSTANT Firmware   \* "buddy" (XL, MK4) or "einsy" (MK3, MK2.5)

ASSUME FirmwareAssumption == Firmware \in {"buddy", "einsy"}

(* The states of the API that the handlers distinguish.                    *)
DeviceStates == {"IDLE", "READY", "PRINTING", "BUSY", "ATTENTION", "PAUSED", "FINISHED",
                 "STOPPED", "ERROR"}

(* ABORTING is the stop sequence, the Aborting_ states of the firmware.    *)
Phases == DeviceStates \cup {"ABORTING"}

(* A print is under way; nothing is under way.                             *)
MidPrint == {"PRINTING", "BUSY", "ATTENTION", "PAUSED"}
AtRest == {"IDLE", "READY", "FINISHED", "STOPPED", "ERROR"}

(* getPrintState: the stop sequence still reads PRINTING.                  *)
DeviceState(phase) == IF phase = "ABORTING" THEN "PRINTING" ELSE phase

(* state.text of /api/printer: the live state on the Einsy shim, a label   *)
(* that only knows printing from not printing on the Buddy.                *)
Label(phase) ==
    IF Firmware = "einsy" \/ DeviceState(phase) = "PRINTING" THEN DeviceState(phase)
    ELSE "OPERATIONAL"

(* state.flags.link_state of /api/printer: the Einsy shim only.            *)
NoLink == "none"
LinkState(phase) == IF Firmware = "einsy" THEN DeviceState(phase) ELSE NoLink

Bases == DeviceStates \cup {"OPERATIONAL"}

(* The base state and the flags the observer looks at.  The text stays the *)
(* label when the live state is PRINTING or unknown; the reason that       *)
(* follows "ATTENTION" is left out here, as the observer strips it.        *)
Normalized(text, link) ==
    [base |-> IF link \in {NoLink, "PRINTING"} THEN text ELSE link,
     cancelling |-> link \in {"STOPPED", "CANCELLING"},
     error |-> link \in {"ERROR", "ATTENTION"}]

=============================================================================
