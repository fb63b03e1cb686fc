----------------------------- MODULE FifoMutex -----------------------------
(***************************************************************************)
(* What PrintQueueService.withPrinterLock and IntakeService.withItemLock   *)
(* promise to their callers: callers stand in one line per key, in the     *)
(* order in which they called; the head of the line owns the lock; only    *)
(* the owner leaves, and every owner eventually does.                      *)
(*                                                                         *)
(* PrinterLock is shown to implement this module.  PrintQueue uses the     *)
(* actions of this module for the sections it runs under the lock.         *)
(***************************************************************************)
EXTENDS Sequences

CONSTANT Callers

VARIABLE line   \* the callers that hold or await the lock, oldest first

InLine(c) == \E i \in DOMAIN line : line[i] = c

Owns(c) == line # <<>> /\ Head(line) = c

Init == line = <<>>

Arrive(c) ==
    /\ ~ InLine(c)
    /\ line' = Append(line, c)

Leave(c) ==
    /\ Owns(c)
    /\ line' = Tail(line)

Next == \E c \in Callers : Arrive(c) \/ Leave(c)

Spec == Init /\ [][Next]_line /\ \A c \in Callers : WF_line(Leave(c))

============================================================================
