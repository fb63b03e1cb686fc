---------------------------- MODULE PrinterLock ----------------------------
(***************************************************************************)
(* PrintQueueService.withPrinterLock: the mutex built from a chain of      *)
(* promises kept in one Map entry per printer (IntakeService.withItemLock  *)
(* is the same code keyed by intake item).  One key is modelled: entries   *)
(* of different keys never touch each other.                               *)
(*                                                                         *)
(*   const prev = map.get(id) ?? Promise.resolve();                        *)
(*   const run  = prev.then(fn, fn);                                       *)
(*   const tail = run.catch(() => {});                                     *)
(*   map.set(id, tail);                                                    *)
(*   tail.finally(() => { if (map.get(id) === tail) map.delete(id); });    *)
(*                                                                         *)
(* A caller is identified with the tail promise of its current call.  The  *)
(* callbacks of a settled promise run in later microtasks, so the start of *)
(* the next section and the finally callback are steps of their own, and a *)
(* new call may come between them.                                         *)
(***************************************************************************)
EXTENDS Naturals, Sequences, FiniteSets

CONSTANTS
    Callers,    \* concurrent callers of the lock for one printer
    None        \* no promise: an empty Map entry, or a settled predecessor

ASSUME NoneIsNoCaller == None \notin Callers

VARIABLES
    pc,         \* what each caller is doing
    prev,       \* the unsettled tail each caller's section waits for, or None
    entry       \* the Map entry: the last tail in line, or None

vars == <<pc, prev, entry>>

(* idle    -> not in a call, or its promise and finally callback are done  *)
(* waiting -> fn is registered on prev; running -> fn is executing         *)
(* settled -> tail has settled, its finally callback is still queued       *)
States == {"idle", "waiting", "running", "settled"}

(* What the promise chain can hold: a section waits for one promise of a   *)
(* caller at most, and the Map entry is the tail of one.                   *)
TypeOK ==
    /\ pc \in [Callers -> States]
    /\ prev \in [Callers -> Callers \cup {None}]
    /\ entry \in Callers \cup {None}

(* The tail of c has not settled yet.                                      *)
Pending(c) == pc[c] \in {"waiting", "running"}

Init ==
    /\ pc = [c \in Callers |-> "idle"]
    /\ prev = [c \in Callers |-> None]
    /\ entry = None

----------------------------------------------------------------------------

(* With a bug: the entry is read but a fresh promise is waited for.        *)
NoPredecessor == None

(* With a bug: everybody waits for the section that runs, not for the last *)
(* in line (the map is set only when it has no entry).                     *)
PredecessorFirst ==
    LET first == {c \in Callers : Pending(c) /\ prev[c] = None}
    IN IF first = {} THEN None ELSE CHOOSE c \in first : TRUE

(* A predecessor that has settled already delays nobody.                   *)
Predecessor == IF entry # None /\ Pending(entry) THEN entry ELSE None

(* withPrinterLock(id, fn), up to its return: synchronous code.            *)
Call(c) ==
    /\ pc[c] = "idle"
    /\ pc' = [pc EXCEPT ![c] = "waiting"]
    /\ prev' = [prev EXCEPT ![c] = Predecessor]
    /\ entry' = c

(* prev.then(fn, fn): the reaction that starts the section.                *)
Run(c) ==
    /\ pc[c] = "waiting"
    /\ prev[c] = None
    /\ pc' = [pc EXCEPT ![c] = "running"]
    /\ UNCHANGED <<prev, entry>>

(* The section of c returns or throws: run.catch makes its tail resolve    *)
(* either way, which releases whoever registered on it.                    *)
ReleasedBy(c) == {d \in Callers : prev[d] = c}

Settle(c) ==
    /\ pc[c] = "running"
    /\ pc' = [pc EXCEPT ![c] = "settled"]
    /\ prev' = [d \in Callers |-> IF d \in ReleasedBy(c) THEN None ELSE prev[d]]
    /\ UNCHANGED entry

(* With a bug: the entry is removed without comparing it with the tail.    *)
EntryAlwaysRemoved(c) == None

(* With a bug: the Map entry is never removed.                             *)
EntryStays(c) == entry

(* The finally callback: the last in line removes the Map entry.           *)
EntryAfter(c) == IF entry = c THEN None ELSE entry

Cleanup(c) ==
    /\ pc[c] = "settled"
    /\ pc' = [pc EXCEPT ![c] = "idle"]
    /\ entry' = EntryAfter(c)
    /\ UNCHANGED prev

Next ==
    \E c \in Callers :
        \/ Call(c)
        \/ Run(c)
        \/ Settle(c)
        \/ Cleanup(c)

(* Promise reactions always run, and the sections themselves (a few        *)
(* database calls) end: the upload they start is not awaited in them.      *)
Fairness ==
    \A c \in Callers :
        /\ WF_vars(Run(c))
        /\ WF_vars(Settle(c))
        /\ WF_vars(Cleanup(c))

Spec == Init /\ [][Next]_vars /\ Fairness

----------------------------------------------------------------------------

(* At most one section runs at a time: the claim "pick, check idle, flip   *)
(* to STARTING" of one caller never interleaves with another's.            *)
MutualExclusion ==
    \A c, d \in Callers : pc[c] = "running" /\ pc[d] = "running" => c = d

(* The chain behind mutual exclusion, stated without following it: the     *)
(* pending callers form one list that ends in the Map entry, and only its  *)
(* first element waits for nobody.                                         *)
ChainInv ==
    /\ \A c \in Callers : pc[c] = "running" => prev[c] = None
    /\ \A c \in Callers : prev[c] # None => pc[c] = "waiting" /\ Pending(prev[c])
    /\ \A c, d \in Callers : prev[c] = prev[d] /\ prev[c] # None => c = d
    /\ \A c \in Callers : prev[c] # None => prev[c] # entry
    /\ \A c, d \in Callers :
          Pending(c) /\ Pending(d) /\ prev[c] = None /\ prev[d] = None => c = d
    /\ (entry = None \/ ~ Pending(entry)) =>
          \A c \in Callers : Pending(c) => prev[c] # None

(* The map does not grow without bound: with no call pending and every     *)
(* callback run, the entry is gone.                                        *)
NoLeak == (\A c \in Callers : pc[c] = "idle") => entry = None

----------------------------------------------------------------------------

(* The line of the abstract lock, read off the chain: the caller that      *)
(* waits for nobody first, then each next to the one it waits for.         *)
Place[c \in Callers] ==
    IF ~ Pending(c) THEN 0
    ELSE IF prev[c] = None THEN 1
    ELSE Place[prev[c]] + 1

LineLength == Cardinality({Place[c] : c \in {d \in Callers : Pending(d)}})

Line == [i \in 1..LineLength |-> CHOOSE c \in Callers : Place[c] = i]

Fifo == INSTANCE FifoMutex WITH line <- Line

(* Callers are served in the order in which they called, whether sections  *)
(* succeed or fail.                                                        *)
ServedInOrder == Fifo!Init /\ [][Fifo!Next]_Line

(* ... and each of them is served.                                         *)
ImplementsFifoMutex == Fifo!Spec

============================================================================
