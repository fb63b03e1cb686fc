---------------------------- MODULE FirmwareCache ----------------------------
(***************************************************************************)
(* PrinterFirmwareCache: the printer is asked for its model when somebody  *)
(* needs it, the answer is kept for an hour, a failure for 30 seconds, and *)
(* callers share a question that is under way.                             *)
(***************************************************************************)
EXTENDS ConnectionState

(* With a bug: the question under way is not kept.                         *)
AskAlone(f) ==
    /\ up /\ cached # NoRow /\ entry.at = "none"
    /\ fetch[f] = NoFetch /\ \A g \in 1 .. f - 1 : fetch[g] # NoFetch
    /\ fetch' = [fetch EXCEPT ![f] = [at |-> "reading", row |-> cached, late |-> FALSE]]
    /\ UNCHANGED <<database, cached, sockets, memory, entry, call, up, budget, overlap>>
(* getOrFetch with neither an answer nor a question in the entry.          *)
Ask(f) ==
    /\ up /\ cached # NoRow /\ entry.at = "none"
    /\ fetch[f] = NoFetch /\ \A g \in 1 .. f - 1 : fetch[g] # NoFetch
    /\ fetch' = [fetch EXCEPT ![f] = [at |-> "reading", row |-> cached, late |-> FALSE]]
    /\ entry' = [NoEntry EXCEPT !.at = "fetching"]
    /\ UNCHANGED <<database, cached, sockets, memory, call, up, budget, overlap>>

(* The answer, or its failure, replaces the entry, whatever the entry is   *)
(* by now.                                                                 *)
Told(f) ==
    /\ fetch[f].at = "reading"
    /\ entry' \in {[fetch[f] EXCEPT !.at = "fresh"], [NoEntry EXCEPT !.at = "failed"]}
    /\ fetch' = [fetch EXCEPT ![f] = NoFetch]
    /\ UNCHANGED <<database, cached, sockets, memory, call, up, budget, overlap>>

(* The hour or the 30 seconds are over.  Every question of before is, too: *)
(* it is given up after 2.5 seconds.                                       *)
Expire ==
    /\ up /\ entry.at \in {"fresh", "failed"}
    /\ \A f \in Fetches : fetch[f] = NoFetch
    /\ entry' = NoEntry
    /\ UNCHANGED <<database, cached, sockets, memory, fetch, call, up, budget, overlap>>

(* Which row it was that a late question was about makes no difference.    *)
Overtaken(f) ==
    IF f.at = "none" THEN NoFetch ELSE [f EXCEPT !.row = NoRow, !.late = TRUE]

(* With a bug: only a deletion drops the entry.                            *)
NotInvalidated == UNCHANGED <<entry, fetch>>
(* handlePrinterChanged, handlePrintersDeleted.  A question under way goes *)
(* on, and is too late from now on.                                        *)
Invalidate ==
    /\ entry' = NoEntry
    /\ fetch' = [f \in Fetches |-> Overtaken(fetch[f])]

FirmwareStep == Expire \/ \E f \in Fetches : Ask(f) \/ Told(f)

=============================================================================
