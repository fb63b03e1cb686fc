------------------------- MODULE PrinterLockProofs -------------------------
(***************************************************************************)
(* Proofs about PrinterLock for any set of callers, of any size.           *)
(*                                                                         *)
(* MutualExclusion is not inductive: a caller is kept out by its place in  *)
(* the chain of promises, not by a flag.  ChainInv describes the chain     *)
(* locally (who points at whom, and that nobody points at the Map entry),  *)
(* so that every step can be checked without following the chain.         *)
(***************************************************************************)
EXTENDS PrinterLock, FiniteSetTheorems, WellFoundedInduction, SequenceTheorems, TLAPS

LEMMA InitType == Init => TypeOK
  BY DEF Init, TypeOK, States

LEMMA StepType == TypeOK /\ [Next]_vars => TypeOK'
<1> SUFFICES ASSUME TypeOK, [Next]_vars PROVE TypeOK'
  OBVIOUS
<1> USE DEF TypeOK, States
<1>1. ASSUME NEW c \in Callers, Call(c) PROVE TypeOK'
  BY <1>1 DEF Call, Predecessor
<1>2. ASSUME NEW c \in Callers, Run(c) PROVE TypeOK'
  BY <1>2 DEF Run
<1>3. ASSUME NEW c \in Callers, Settle(c) PROVE TypeOK'
  BY <1>3 DEF Settle
<1>4. ASSUME NEW c \in Callers, Cleanup(c) PROVE TypeOK'
  BY <1>4 DEF Cleanup, EntryAfter
<1>5. CASE UNCHANGED vars
  BY <1>5 DEF vars
<1> QED
  BY <1>1, <1>2, <1>3, <1>4, <1>5 DEF Next

(* Type correctness of the lock for every set of callers.                  *)
THEOREM TypeCorrect == Spec => []TypeOK
  BY InitType, StepType, PTL DEF Spec

----------------------------------------------------------------------------

LEMMA InitChain == Init => ChainInv
  BY DEF Init, ChainInv, Pending

LEMMA CallChain ==
  ASSUME TypeOK, ChainInv, NEW c \in Callers, Call(c)
  PROVE  ChainInv'
<1> USE NoneIsNoCaller DEF TypeOK, ChainInv, Call, Predecessor, Pending
<1>1. \A d \in Callers : d # c => pc'[d] = pc[d] /\ prev'[d] = prev[d]
  OBVIOUS
<1>2. \A d \in Callers : prev[d] # c
  OBVIOUS
<1>3. pc'[c] = "waiting" /\ prev'[c] = Predecessor /\ entry' = c
  OBVIOUS
<1>4. \A d \in Callers : pc'[d] = "running" => prev'[d] = None
  BY <1>1, <1>3
<1>5. \A d \in Callers : prev'[d] # None => pc'[d] = "waiting" /\ Pending(prev[d])' /\ prev'[d] # entry'
  BY <1>1, <1>2, <1>3
<1>6. \A d, e \in Callers : prev'[d] = prev'[e] /\ prev'[d] # None => d = e
  BY <1>1, <1>3
<1>7. \A d, e \in Callers :
        Pending(d)' /\ Pending(e)' /\ prev'[d] = None /\ prev'[e] = None => d = e
  BY <1>1, <1>3
<1> QED
  BY <1>1, <1>3, <1>4, <1>5, <1>6, <1>7

LEMMA RunChain ==
  ASSUME TypeOK, ChainInv, NEW c \in Callers, Run(c)
  PROVE  ChainInv'
  BY NoneIsNoCaller DEF TypeOK, ChainInv, Run, Pending

LEMMA SettleChain ==
  ASSUME TypeOK, ChainInv, NEW c \in Callers, Settle(c)
  PROVE  ChainInv'
  BY NoneIsNoCaller DEF TypeOK, ChainInv, Settle, ReleasedBy, Pending

LEMMA CleanupChain ==
  ASSUME TypeOK, ChainInv, NEW c \in Callers, Cleanup(c)
  PROVE  ChainInv'
  BY NoneIsNoCaller DEF TypeOK, ChainInv, Cleanup, EntryAfter, Pending

LEMMA StepChain == TypeOK /\ ChainInv /\ [Next]_vars => ChainInv'
<1> SUFFICES ASSUME TypeOK, ChainInv, [Next]_vars PROVE ChainInv'
  OBVIOUS
<1>1. CASE UNCHANGED vars
  BY <1>1 DEF vars, ChainInv, Pending
<1> QED
  BY <1>1, CallChain, RunChain, SettleChain, CleanupChain DEF Next

(* The chain of promises keeps its shape for every set of callers.         *)
THEOREM ChainIsInvariant == Spec => []ChainInv
<1>1. Init => TypeOK /\ ChainInv
  BY InitType, InitChain
<1>2. (TypeOK /\ ChainInv) /\ [Next]_vars => (TypeOK /\ ChainInv)'
  BY StepType, StepChain
<1> QED
  BY <1>1, <1>2, PTL DEF Spec

(* withPrinterLock never runs two sections of one printer at a time, for   *)
(* any number of callers and whether or not sections throw.                *)
THEOREM LockExclusive == Spec => []MutualExclusion
<1>1. ChainInv => MutualExclusion
  BY DEF ChainInv, MutualExclusion, Pending
<1> QED
  BY <1>1, ChainIsInvariant, PTL

(* The Map entry does not outlive the calls: the invariant NoLeak needs.   *)
EntryInUse == entry # None => pc[entry] # "idle"

LEMMA StepEntry == TypeOK /\ EntryInUse /\ [Next]_vars => EntryInUse'
<1> SUFFICES ASSUME TypeOK, EntryInUse, [Next]_vars PROVE EntryInUse'
  OBVIOUS
<1> USE NoneIsNoCaller DEF TypeOK, EntryInUse
<1>1. ASSUME NEW c \in Callers, Call(c) PROVE EntryInUse'
  BY <1>1 DEF Call
<1>2. ASSUME NEW c \in Callers, Run(c) PROVE EntryInUse'
  BY <1>2 DEF Run
<1>3. ASSUME NEW c \in Callers, Settle(c) PROVE EntryInUse'
  BY <1>3 DEF Settle
<1>4. ASSUME NEW c \in Callers, Cleanup(c) PROVE EntryInUse'
  BY <1>4 DEF Cleanup, EntryAfter
<1>5. CASE UNCHANGED vars
  BY <1>5 DEF vars
<1> QED
  BY <1>1, <1>2, <1>3, <1>4, <1>5 DEF Next

(* The per-printer entry is removed once the last caller has left, so the  *)
(* Map holds entries of printers in use only.                              *)
THEOREM EntryRemoved == Spec => []NoLeak
<1>1. Init => EntryInUse
  BY DEF Init, EntryInUse
<1>2. TypeOK /\ EntryInUse => NoLeak
  BY DEF TypeOK, EntryInUse, NoLeak
<1> QED
  BY <1>1, <1>2, StepEntry, TypeCorrect, PTL DEF Spec

----------------------------------------------------------------------------
(* First come, first served                                                *)

(* Induction over places in line, as the provers can use it: a set of      *)
(* naturals has a least element, since intervals 0..n are well-founded.    *)
LEMMA LeastNatural ==
  ASSUME NEW S \in SUBSET Nat, S # {}
  PROVE  \E n \in S : \A m \in S : n <= m
<1> DEFINE Upto(n) == 0..n
           Intervals == {Upto(n) : n \in S}
           Below == StrictSubsetOrdering(Nat)
           Finite == FiniteSubsetsOf(Nat)
<1>1. IsWellFoundedOn(Below, Finite)
  BY FS_StrictSubsetOrderingWellFounded
<1>2. Intervals \subseteq Finite /\ Intervals # {}
  <2>1. \A n \in S : Upto(n) \in SUBSET Nat /\ IsFiniteSet(Upto(n))
    BY FS_Interval
  <2> QED
    BY <2>1 DEF FiniteSubsetsOf
<1> HIDE DEF Intervals, Below, Finite
<1>3. \E x \in Intervals : \A y \in Intervals : <<y, x>> \notin Below
  BY <1>1, <1>2, WFMin
<1>4. PICK n \in S : \A y \in Intervals : <<y, Upto(n)>> \notin Below
  BY <1>3 DEF Intervals
<1>5. ASSUME NEW m \in S, m < n PROVE FALSE
  <2>1. Upto(m) \subseteq Upto(n) /\ n \in Upto(n) /\ n \notin Upto(m)
    BY <1>5
  <2>2. Upto(m) \in Intervals
    BY <1>5 DEF Intervals
  <2>3. Upto(m) \in SUBSET Nat /\ Upto(n) \in SUBSET Nat
    BY <1>5
  <2> HIDE DEF Upto
  <2> QED
    BY <1>4, <2>1, <2>2, <2>3 DEF Below, StrictSubsetOrdering
<1>6. \A m \in S : n <= m
  BY <1>5
<1> QED
  BY <1>6

(* o lists the pending callers along the chain, and the Map entry is the   *)
(* last of them.                                                           *)
IsLine(o) ==
    /\ o \in Seq(Callers)
    /\ \A i, k \in 1..Len(o) : o[i] = o[k] => i = k
    /\ \A c \in Callers : Pending(c) <=> \E i \in 1..Len(o) : o[i] = c
    /\ \A i \in 1..Len(o) : prev[o[i]] = IF i = 1 THEN None ELSE o[i - 1]
    /\ Len(o) # 0 => entry = o[Len(o)]

LineInv == \E o \in Seq(Callers) : IsLine(o)

(* The recursion along the chain is well defined when the chain is a list. *)
LEMMA PlaceIsDefined ==
  ASSUME TypeOK, NEW o, IsLine(o)
  PROVE  Place = [c \in Callers |-> IF ~ Pending(c) THEN 0
                                    ELSE IF prev[c] = None THEN 1
                                    ELSE Place[prev[c]] + 1]
<1> DEFINE At(c) == CHOOSE i \in 1..Len(o) : o[i] = c
           f == [c \in Callers |-> IF ~ Pending(c) THEN 0 ELSE At(c)]
           Step(g) == [c \in Callers |-> IF ~ Pending(c) THEN 0
                                         ELSE IF prev[c] = None THEN 1 ELSE g[prev[c]] + 1]
<1>1. \A i \in 1..Len(o) : o[i] \in Callers /\ Pending(o[i]) /\ At(o[i]) = i
  BY DEF IsLine
<1>2. \A i \in 1..Len(o) : f[o[i]] = i
  BY <1>1
<1> HIDE DEF At
<1>3. ASSUME NEW c \in Callers, Pending(c) PROVE f[c] = Step(f)[c]
  <2>1. PICK i \in 1..Len(o) : o[i] = c
    BY <1>3 DEF IsLine
  <2>2. CASE i = 1
    <3>1. prev[c] = None
      BY <2>1, <2>2 DEF IsLine
    <3> QED
      BY <1>2, <1>3, <2>1, <2>2, <3>1
  <2>3. CASE i # 1
    <3>1. i - 1 \in 1..Len(o) /\ prev[c] = o[i - 1] /\ prev[c] # None
      BY <1>1, <2>1, <2>3, NoneIsNoCaller DEF IsLine
    <3>2. f[prev[c]] = i - 1 /\ f[c] = i
      BY <1>2, <2>1, <3>1
    <3>3. Step(f)[c] = f[prev[c]] + 1
      BY <1>3, <3>1
    <3> QED
      BY <3>2, <3>3
  <2> QED
    BY <2>2, <2>3
<1>4. f = Step(f)
  <2>1. \A c \in Callers : f[c] = Step(f)[c]
    BY <1>3
  <2> QED
    BY <2>1
<1> HIDE DEF f
<1>5. Place = CHOOSE g : g = Step(g)
  BY DEF Place
<1> QED
  BY <1>4, <1>5

LEMMA PlaceInLine ==
  ASSUME TypeOK, NEW o, IsLine(o)
  PROVE  /\ \A i \in 1..Len(o) : Place[o[i]] = i
         /\ \A c \in Callers : ~ Pending(c) => Place[c] = 0
<1>1. \A c \in Callers : Place[c] = IF ~ Pending(c) THEN 0
                                    ELSE IF prev[c] = None THEN 1
                                    ELSE Place[prev[c]] + 1
  BY PlaceIsDefined
<1>2. \A i \in 1..Len(o) : o[i] \in Callers /\ Pending(o[i])
  BY DEF IsLine
<1> DEFINE Wrong == {i \in 1..Len(o) : Place[o[i]] # i}
<1>3. ASSUME Wrong # {} PROVE FALSE
  <2>0. Wrong \in SUBSET Nat
    BY DEF IsLine
  <2>1. PICK n \in Wrong : \A m \in Wrong : n <= m
    <3> HIDE DEF Wrong
    <3> QED
      BY <1>3, <2>0, LeastNatural
  <2>2. n \in 1..Len(o) /\ Place[o[n]] # n
    BY <2>1
  <2>3. n # 1
    BY <1>1, <1>2, <2>2 DEF IsLine
  <2>4. n - 1 \in 1..Len(o) /\ n - 1 \notin Wrong
    BY <2>1, <2>2, <2>3 DEF IsLine
  <2>5. Place[o[n - 1]] = n - 1
    BY <2>4
  <2>6. prev[o[n]] = o[n - 1] /\ prev[o[n]] # None
    BY <1>2, <2>2, <2>3, <2>4, NoneIsNoCaller DEF IsLine
  <2> QED
    BY <1>1, <1>2, <2>2, <2>5, <2>6
<1> QED
  BY <1>1, <1>3

LEMMA IntervalSize == ASSUME NEW n \in Nat PROVE Cardinality(1..n) = n
<1>1. 1 \in Int /\ n \in Int
  OBVIOUS
<1>2. Cardinality(1..n) = IF 1 > n THEN 0 ELSE n - 1 + 1
  BY <1>1, FS_Interval, Zenon
<1> QED
  BY <1>2

LEMMA LineIs ==
  ASSUME TypeOK, NEW o, IsLine(o)
  PROVE  Line = o
<1>1. /\ \A i \in 1..Len(o) : Place[o[i]] = i
      /\ \A c \in Callers : ~ Pending(c) => Place[c] = 0
  BY PlaceInLine
<1>2. o \in Seq(Callers) /\ Len(o) \in Nat
  BY DEF IsLine
<1>3. {Place[c] : c \in {d \in Callers : Pending(d)}} = 1..Len(o)
  <2>1. \A i \in 1..Len(o) : o[i] \in {d \in Callers : Pending(d)}
    BY DEF IsLine
  <2>2. \A c \in {d \in Callers : Pending(d)} : Place[c] \in 1..Len(o)
    BY <1>1 DEF IsLine
  <2> QED
    BY <1>1, <2>1, <2>2
<1>4. LineLength = Len(o)
  <2>1. Cardinality(1..Len(o)) = Len(o)
    BY <1>2, IntervalSize
  <2> QED
    BY <1>3, <2>1 DEF LineLength
<1>5. ASSUME NEW i \in 1..Len(o)
      PROVE  (CHOOSE c \in Callers : Place[c] = i) = o[i]
  <2>1. o[i] \in Callers /\ Place[o[i]] = i
    BY <1>1 DEF IsLine
  <2>2. ASSUME NEW c \in Callers, Place[c] = i PROVE c = o[i]
    <3>1. Pending(c)
      BY <1>1, <2>2
    <3>2. PICK k \in 1..Len(o) : o[k] = c
      BY <3>1 DEF IsLine
    <3> QED
      BY <1>1, <2>2, <3>2
  <2> QED
    BY <2>1, <2>2
<1>6. Line = [i \in 1..Len(o) |-> o[i]]
  BY <1>4, <1>5 DEF Line
<1> QED
  BY <1>2, <1>6

LEMMA LineIsNext == (\A o : TypeOK /\ IsLine(o) => Line = o)'
<1>1. \A o : TypeOK /\ IsLine(o) => Line = o
  BY LineIs
<1> QED
  BY <1>1, PTL

LEMMA LineInit == Init => LineInv /\ Fifo!Init
<1> SUFFICES ASSUME Init PROVE LineInv /\ Fifo!Init
  OBVIOUS
<1>1. IsLine(<<>>)
  BY DEF Init, IsLine, Pending
<1>2. Line = <<>>
  BY <1>1, InitType, LineIs
<1> QED
  <2>1. <<>> \in Seq(Callers)
    OBVIOUS
  <2> QED
    BY <1>1, <1>2, <2>1 DEF LineInv, Fifo!Init

(* The call goes to the end of the line, behind the Map entry.             *)
LEMMA CallLine ==
  ASSUME TypeOK, NEW o, IsLine(o), NEW c \in Callers, Call(c)
  PROVE  IsLine(Append(o, c))' /\ (\A i \in 1..Len(o) : o[i] # c)
<1>1. o \in Seq(Callers) /\ Len(o) \in Nat /\ ~ Pending(c)
  BY DEF IsLine, Call, Pending
<1>2. \A i \in 1..Len(o) : o[i] \in Callers /\ o[i] # c
  BY <1>1 DEF IsLine
<1>3. /\ \A d \in Callers : d # c => pc'[d] = pc[d] /\ prev'[d] = prev[d]
      /\ pc'[c] = "waiting" /\ prev'[c] = Predecessor /\ entry' = c
  BY DEF Call, TypeOK
<1>4. Predecessor = IF Len(o) = 0 THEN None ELSE o[Len(o)]
  <2>1. CASE Len(o) = 0
    <3>1. \A d \in Callers : ~ Pending(d)
      BY <2>1 DEF IsLine
    <3> QED
      BY <2>1, <3>1 DEF Predecessor, TypeOK
  <2>2. CASE Len(o) # 0
    <3>1. entry = o[Len(o)] /\ Len(o) \in 1..Len(o)
      BY <1>1, <2>2 DEF IsLine
    <3>2. Pending(entry) /\ entry # None
      BY <1>2, <3>1, NoneIsNoCaller DEF IsLine
    <3> QED
      BY <2>2, <3>1, <3>2 DEF Predecessor
  <2> QED
    BY <2>1, <2>2
<1> DEFINE p == Append(o, c)
<1>5. /\ p \in Seq(Callers) /\ Len(p) = Len(o) + 1 /\ p[Len(p)] = c
      /\ \A i \in 1..Len(o) : p[i] = o[i]
  BY <1>1
<1> HIDE DEF p
<1>6. \A d \in Callers : Pending(d)' <=> Pending(d) \/ d = c
  BY <1>3 DEF Pending
<1>7. \A i, k \in 1..Len(p) : p[i] = p[k] => i = k
  BY <1>1, <1>2, <1>5 DEF IsLine
<1>8. \A d \in Callers : Pending(d)' <=> \E i \in 1..Len(p) : p[i] = d
  <2> TAKE d \in Callers
  <2>1. ASSUME Pending(d)' PROVE \E i \in 1..Len(p) : p[i] = d
    <3>1. CASE d = c
      BY <1>1, <1>5, <3>1
    <3>2. CASE Pending(d)
      <4>1. PICK i \in 1..Len(o) : o[i] = d
        BY <3>2 DEF IsLine
      <4> QED
        BY <1>1, <1>5, <4>1
    <3> QED
      BY <1>6, <2>1, <3>1, <3>2
  <2>2. ASSUME NEW i \in 1..Len(p), p[i] = d PROVE Pending(d)'
    <3>1. CASE i = Len(p)
      BY <1>5, <1>6, <2>2, <3>1
    <3>2. CASE i # Len(p)
      <4>1. i \in 1..Len(o) /\ o[i] = d
        BY <1>1, <1>5, <2>2, <3>2
      <4> QED
        BY <1>6, <4>1 DEF IsLine
    <3> QED
      BY <3>1, <3>2
  <2> QED
    BY <2>1, <2>2
<1>9. \A i \in 1..Len(p) : prev'[p[i]] = IF i = 1 THEN None ELSE p[i - 1]
  <2> TAKE i \in 1..Len(p)
  <2>1. CASE i = Len(p)
    BY <1>1, <1>3, <1>4, <1>5, <2>1
  <2>2. CASE i # Len(p)
    <3>1. i \in 1..Len(o) /\ p[i] = o[i] /\ (i # 1 => p[i - 1] = o[i - 1])
      BY <1>1, <1>5, <2>2
    <3>2. prev'[o[i]] = prev[o[i]]
      BY <1>2, <1>3, <3>1
    <3> QED
      BY <3>1, <3>2 DEF IsLine
  <2> QED
    BY <2>1, <2>2
<1> QED
  BY <1>2, <1>3, <1>5, <1>7, <1>8, <1>9 DEF IsLine, p

(* The head of the line is the caller that waits for nobody.               *)
LEMMA HeadRuns ==
  ASSUME TypeOK, ChainInv, NEW o, IsLine(o), NEW c \in Callers, pc[c] = "running"
  PROVE  Len(o) # 0 /\ o[1] = c
<1>1. PICK i \in 1..Len(o) : o[i] = c
  BY DEF IsLine, Pending
<1>2. prev[c] = None
  BY DEF ChainInv
<1>3. CASE i # 1
  <2>1. i - 1 \in 1..Len(o) /\ prev[c] = o[i - 1]
    BY <1>1, <1>3 DEF IsLine
  <2>2. o[i - 1] \in Callers
    BY <2>1 DEF IsLine
  <2> QED
    BY <1>2, <2>1, <2>2, NoneIsNoCaller
<1> QED
  BY <1>1, <1>3 DEF IsLine

LEMMA SettleLine ==
  ASSUME TypeOK, ChainInv, NEW o, IsLine(o), NEW c \in Callers, Settle(c)
  PROVE  IsLine(Tail(o))' /\ o # <<>> /\ Head(o) = c
<1>0. \A i, k \in 1..Len(o) : o[i] = o[k] => i = k
  BY DEF IsLine
<1>1. o \in Seq(Callers) /\ Len(o) \in Nat /\ Len(o) # 0 /\ o[1] = c
  <2>1. Len(o) # 0 /\ o[1] = c
    BY HeadRuns DEF Settle
  <2> QED
    BY <2>1 DEF IsLine
<1>2. /\ \A d \in Callers : d # c => pc'[d] = pc[d]
      /\ pc'[c] = "settled" /\ UNCHANGED entry
      /\ \A d \in Callers : prev'[d] = IF prev[d] = c THEN None ELSE prev[d]
  BY DEF Settle, ReleasedBy, TypeOK
<1> DEFINE p == Tail(o)
<1>3. /\ p \in Seq(Callers) /\ Len(p) = Len(o) - 1
      /\ \A i \in 1..Len(p) : p[i] = o[i + 1] /\ i + 1 \in 1..Len(o)
  BY <1>1
<1> HIDE DEF p
<1>4. \A i \in 1..Len(o) : o[i] \in Callers
  BY <1>1
<1>5. \A i, k \in 1..Len(p) : p[i] = p[k] => i = k
  <2> SUFFICES ASSUME NEW i \in 1..Len(p), NEW k \in 1..Len(p), p[i] = p[k] PROVE i = k
    OBVIOUS
  <2>1. /\ o[i + 1] = o[k + 1]
        /\ i + 1 \in 1..Len(o) /\ k + 1 \in 1..Len(o)
    BY <1>3
  <2>2. i + 1 = k + 1
    BY <1>0, <2>1
  <2>3. i \in Int /\ k \in Int
    BY <1>1, <1>3
  <2> QED
    BY <2>2, <2>3
<1>6. \A d \in Callers : Pending(d)' <=> Pending(d) /\ d # c
  BY <1>2 DEF Pending
<1>7. \A d \in Callers : Pending(d)' <=> \E i \in 1..Len(p) : p[i] = d
  <2> TAKE d \in Callers
  <2>1. ASSUME Pending(d)' PROVE \E i \in 1..Len(p) : p[i] = d
    <3>1. PICK k \in 1..Len(o) : o[k] = d
      BY <1>6, <2>1 DEF IsLine
    <3>2. k # 1
      BY <1>1, <1>6, <2>1, <3>1
    <3>3. k - 1 \in 1..Len(p) /\ p[k - 1] = d
      BY <1>1, <1>3, <3>1, <3>2
    <3> QED
      BY <3>3
  <2>2. ASSUME NEW i \in 1..Len(p), p[i] = d PROVE Pending(d)'
    <3>1. i + 1 \in 1..Len(o) /\ o[i + 1] = d /\ i + 1 # 1
      BY <1>1, <1>3, <2>2
    <3>2. 1 \in 1..Len(o) /\ o[1] = c
      BY <1>1
    <3>3. d # c
      BY <1>0, <3>1, <3>2
    <3> QED
      BY <1>6, <3>1, <3>3 DEF IsLine
  <2> QED
    BY <2>1, <2>2
<1>8. \A i \in 1..Len(p) : prev'[p[i]] = IF i = 1 THEN None ELSE p[i - 1]
  <2> TAKE i \in 1..Len(p)
  <2>1. p[i] = o[i + 1] /\ i + 1 \in 1..Len(o) /\ prev[p[i]] = o[i] /\ i \in 1..Len(o)
    BY <1>1, <1>3 DEF IsLine
  <2>2. prev'[p[i]] = IF o[i] = c THEN None ELSE o[i]
    BY <1>2, <1>4, <2>1
  <2>3. o[i] = c <=> i = 1
    <3>1. 1 \in 1..Len(o) /\ o[1] = c
      BY <1>1
    <3> QED
      BY <1>0, <2>1, <3>1
  <2>4. i # 1 => p[i - 1] = o[i]
    <3> SUFFICES ASSUME i # 1 PROVE p[i - 1] = o[i]
      OBVIOUS
    <3>1. i - 1 \in 1..Len(p) /\ (i - 1) + 1 = i
      BY <1>1, <1>3
    <3> QED
      BY <1>3, <3>1
  <2> QED
    BY <2>2, <2>3, <2>4
<1>9. Len(p) # 0 => entry' = p[Len(p)]
  BY <1>1, <1>2, <1>3 DEF IsLine
<1>10. o # <<>> /\ Head(o) = c
  BY <1>1
<1>11. IsLine(p)'
  BY <1>3, <1>5, <1>7, <1>8, <1>9 DEF IsLine
<1> QED
  BY <1>10, <1>11 DEF p

(* A step that starts a section or cleans up leaves the line as it is.     *)
LEMMA QuietLine ==
  ASSUME TypeOK, NEW o, IsLine(o), NEW c \in Callers, Run(c) \/ Cleanup(c)
  PROVE  IsLine(o)'
<1>1. \A d \in Callers : Pending(d)' <=> Pending(d)
  BY DEF Run, Cleanup, Pending, TypeOK
<1>2. UNCHANGED prev
  BY DEF Run, Cleanup
<1>3. Len(o) # 0 => entry' = entry
  <2> SUFFICES ASSUME Len(o) # 0, Cleanup(c) PROVE entry' = entry
    BY DEF Run
  <2>1. Pending(o[Len(o)]) /\ entry = o[Len(o)]
    BY DEF IsLine
  <2>2. entry # c
    BY <2>1 DEF Cleanup, Pending
  <2> QED
    BY <2>2 DEF Cleanup, EntryAfter
<1> QED
  BY <1>1, <1>2, <1>3 DEF IsLine

LEMMA LineStep ==
  ASSUME TypeOK, ChainInv, LineInv, [Next]_vars
  PROVE  LineInv' /\ [Fifo!Next]_Line
<1>1. PICK o \in Seq(Callers) : IsLine(o)
  BY DEF LineInv
<1>2. Line = o /\ TypeOK'
  BY <1>1, LineIs, StepType
<1>3. ASSUME NEW c \in Callers, Call(c) PROVE LineInv' /\ [Fifo!Next]_Line
  <2>1. IsLine(Append(o, c))' /\ \A i \in 1..Len(o) : o[i] # c
    BY <1>1, <1>3, CallLine
  <2>2. Line' = Append(o, c)
    BY <1>2, <2>1, LineIsNext
  <2>3. Fifo!Arrive(c)
    BY <1>1, <1>2, <2>1, <2>2 DEF Fifo!Arrive, Fifo!InLine
  <2>4. Append(o, c) \in Seq(Callers)
    BY <1>1
  <2> QED
    BY <2>1, <2>3, <2>4 DEF LineInv, Fifo!Next
<1>4. ASSUME NEW c \in Callers, Settle(c) PROVE LineInv' /\ [Fifo!Next]_Line
  <2>1. IsLine(Tail(o))' /\ o # <<>> /\ Head(o) = c
    BY <1>1, <1>4, SettleLine
  <2>2. Line' = Tail(o)
    BY <1>2, <2>1, LineIsNext
  <2>3. Fifo!Leave(c)
    BY <1>2, <2>1, <2>2 DEF Fifo!Leave, Fifo!Owns
  <2>4. Tail(o) \in Seq(Callers)
    BY <1>1, <2>1
  <2> QED
    BY <2>1, <2>3, <2>4 DEF LineInv, Fifo!Next
<1>5. ASSUME NEW c \in Callers, Run(c) \/ Cleanup(c) PROVE LineInv' /\ [Fifo!Next]_Line
  <2>1. IsLine(o)'
    BY <1>1, <1>5, QuietLine
  <2>2. Line' = o
    BY <1>2, <2>1, LineIsNext
  <2> QED
    BY <1>1, <1>2, <2>1, <2>2 DEF LineInv
<1>6. CASE UNCHANGED vars
  <2>1. IsLine(o)'
    BY <1>1, <1>6 DEF vars, IsLine, Pending
  <2>2. Line' = o
    BY <1>2, <2>1, LineIsNext
  <2> QED
    BY <1>1, <1>2, <2>1, <2>2 DEF LineInv
<1> QED
  BY <1>3, <1>4, <1>5, <1>6 DEF Next

(* withPrinterLock implements the first-come-first-served lock: callers    *)
(* own it one after the other, in the order in which they called, whether  *)
(* sections succeed or throw and however late the callbacks run.           *)
THEOREM LockServesInOrder == Spec => ServedInOrder
<1>1. Init => LineInv /\ Fifo!Init
  BY LineInit
<1>2. TypeOK /\ ChainInv /\ LineInv /\ [Next]_vars => LineInv' /\ [Fifo!Next]_Line
  BY LineStep
<1> QED
  BY <1>1, <1>2, TypeCorrect, ChainIsInvariant, PTL DEF Spec, ServedInOrder

============================================================================
