---------------------------- MODULE PrinterSlot ----------------------------
(***************************************************************************)
(* What the claims and dispatches of a queue promise to its printer: one   *)
(* dispatch at a time has the printer, from its claim to its outcome; it   *)
(* is given back before another one takes it; and what the server starts   *)
(* on the printer is started by the dispatch that has it, never by one     *)
(* that is over.                                                           *)
(*                                                                         *)
(* PrintQueue is shown to implement this module.                           *)
(***************************************************************************)
CONSTANTS Dispatches, NoOne

VARIABLES
    slot,   \* the dispatch that has the printer, or NoOne
    by      \* the dispatch whose print is on the printer, or NoOne

Init == slot = NoOne /\ by = NoOne

Take(d) ==
    /\ slot = NoOne
    /\ slot' = d
    /\ UNCHANGED by

Start(d) ==
    /\ slot = d
    /\ by' = d
    /\ UNCHANGED slot

(* Whatever became of the print: done, failed, aborted or crashed.         *)
GiveBack ==
    /\ slot' = NoOne
    /\ UNCHANGED by

(* The print ends, is stopped, or makes room for one of the printer's own. *)
Ends ==
    /\ by' = NoOne
    /\ UNCHANGED slot

Next == GiveBack \/ Ends \/ \E d \in Dispatches : Take(d) \/ Start(d)

Spec == Init /\ [][Next]_<<slot, by>>

=============================================================================
