-------------------------- MODULE JobTableLemmas --------------------------
(***************************************************************************)
(* What the operators of JobTable return, for every table.                 *)
(***************************************************************************)
EXTENDS JobTable, TLAPS

Tables == [Jobs -> Row]

LEMMA AbsentRow == Absent \in Row
  BY DEF Absent, Row, Statuses, NoPos, Never

LEMMA PendingRowIsRow ==
  ASSUME NEW f \in Files \cup {NoFile}, NEW usb \in BOOLEAN
  PROVE  PendingRow(f, usb) \in Row /\ PendingRow(f, usb).st = "PENDING"
  BY AbsentRow DEF PendingRow, Row, Statuses

LEMMA FreeIdsAreJobs == ASSUME NEW T PROVE FreeIds(T) \subseteq Jobs
  BY DEF FreeIds

LEMMA InStatusJobs == ASSUME NEW T, NEW S PROVE InStatus(T, S) \subseteq Jobs
  BY DEF InStatus

LEMMA MostRecentSubset == ASSUME NEW T, NEW S PROVE MostRecent(T, S) \subseteq S
  BY DEF MostRecent

LEMMA StampsAreTimes ==
  ASSUME NEW T \in Tables PROVE Stamps(T) \subseteq Nat
  BY DEF Stamps, MostRecent, Tables, Row

LEMMA PositionsAreInt ==
  ASSUME NEW T \in Tables PROVE NextPositions(T) \subseteq Int
  BY DEF NextPositions, Tables, Row

(* Shifting and closing a gap move positions and touch nothing else.       *)
LEMMA ShiftedTable ==
  ASSUME NEW T \in Tables, NEW p
  PROVE  /\ Shifted(T, p) \in Tables
         /\ \A j \in Jobs : Shifted(T, p)[j].st = T[j].st
  BY DEF Shifted, Tables, Row

LEMMA CompactedTable ==
  ASSUME NEW T \in Tables, NEW p
  PROVE  /\ Compacted(T, p) \in Tables
         /\ \A j \in Jobs : Compacted(T, p)[j].st = T[j].st
  BY DEF Compacted, Tables, Row

LEMMA ActiveJobIsActive ==
  ASSUME NEW T, NEW f
  PROVE  ActiveJob(T, f) \subseteq InStatus(T, Active)
  BY MostRecentSubset DEF ActiveJob

LEMMA PrintEndedTable ==
  ASSUME NEW T \in Tables, NEW f, NEW st \in Statuses
  PROVE  PrintEnded(T, f, st) \subseteq Tables
<1>1. ActiveJob(T, f) \subseteq Jobs
  BY ActiveJobIsActive, InStatusJobs
<1>2. \A j \in Jobs : [T EXCEPT ![j].st = st] \in Tables
  BY DEF Tables, Row
<1> QED
  BY <1>1, <1>2 DEF PrintEnded

(* The row a reported print takes is a row of the table or a new one.      *)
LEMMA TakenIsJob == ASSUME NEW T, NEW f PROVE TakenFor(T, f) \subseteq Jobs
  BY MostRecentSubset, InStatusJobs DEF TakenFor, Newest, Present

LEMMA PrintStartedTable ==
  ASSUME NEW T \in Tables, NEW f \in Files \cup {NoFile}
  PROVE  PrintStarted(T, f) \subseteq Tables
<1> DEFINE StartedIn(U, j) ==
             {[U EXCEPT ![j] = [st |-> "PRINTING", pos |-> U[j].pos, started |-> now,
                                file |-> IF U[j].st = "absent" THEN f ELSE U[j].file,
                                usb |-> TRUE]] : now \in Stamps(U)}
           Taking(U) ==
             LET taken == {j \in TakenFor(U, f) : U[j].st \notin Finished}
             IN UNION {StartedIn(U, j) : j \in IF taken # {} THEN taken ELSE FreeIds(U)}
<1>1. \A U \in Tables, j \in Jobs : StartedIn(U, j) \subseteq Tables
<2> TAKE U \in Tables, j \in Jobs
<2>1. /\ U[j] \in Row
      /\ Stamps(U) \subseteq Nat
  BY StampsAreTimes DEF Tables
<2>2. ASSUME NEW now \in Stamps(U), NEW g \in Files \cup {NoFile}
      PROVE  [st |-> "PRINTING", pos |-> U[j].pos, started |-> now, file |-> g, usb |-> TRUE] \in Row
  BY <2>1 DEF Row, Statuses
<2>3. (IF U[j].st = "absent" THEN f ELSE U[j].file) \in Files \cup {NoFile}
  BY <2>1 DEF Row
<2>4. \A row \in Row : [U EXCEPT ![j] = row] \in Tables
  BY DEF Tables
<2> QED
  BY <2>2, <2>3, <2>4
<1>2. \A U \in Tables : Taking(U) \subseteq Tables
  BY <1>1, TakenIsJob, FreeIdsAreJobs
<1>3. \A e \in MostRecent(T, InStatus(T, {"PRINTING"})) : [T EXCEPT ![e].st = "UNKNOWN"] \in Tables
  BY MostRecentSubset, InStatusJobs DEF Tables, Row, Statuses
<1> HIDE DEF StartedIn
<1>4. \A e \in MostRecent(T, InStatus(T, {"PRINTING"})) :
         Taking([T EXCEPT ![e].st = "UNKNOWN"]) \subseteq Tables
  BY <1>2, <1>3
<1> DEFINE running == MostRecent(T, InStatus(T, {"PRINTING"}))
           Outcome(e) == IF T[e].file = f THEN {T} ELSE Taking([T EXCEPT ![e].st = "UNKNOWN"])
<1>5. PrintStarted(T, f) = IF running = {} THEN Taking(T) ELSE UNION {Outcome(e) : e \in running}
  BY DEF PrintStarted, StartedIn
<1> HIDE DEF Taking
<1>6. ASSUME NEW e \in running PROVE Outcome(e) \subseteq Tables
  BY <1>4
<1>7. Taking(T) \subseteq Tables
  BY <1>2
<1> HIDE DEF Outcome, running
<1> QED
  BY <1>5, <1>6, <1>7

(* The statuses the observer writes: none that waits for a dispatch.       *)
Seen == {"PRINTING", "UNKNOWN", "COMPLETED", "CANCELLED"}

(* A row that a reported transition has left alone, or written.            *)
SeenRow(T, U, j) == U[j] = T[j] \/ (U[j].st \in Seen /\ U[j].pos = T[j].pos)

(* Whatever file and row a transition is taken for, it moves no position.  *)
LEMMA PrintEndedRows ==
  ASSUME NEW T \in Tables, NEW f, NEW st \in {"COMPLETED", "CANCELLED"},
         NEW U \in PrintEnded(T, f, st), NEW j \in Jobs
  PROVE  SeenRow(T, U, j)
  BY ActiveJobIsActive, InStatusJobs DEF PrintEnded, SeenRow, Seen, Tables, Row

LEMMA PrintStartedRows ==
  ASSUME NEW T \in Tables, NEW f \in Files \cup {NoFile},
         NEW U \in PrintStarted(T, f), NEW j \in Jobs
  PROVE  SeenRow(T, U, j)
<1> DEFINE StartedIn(V, k) ==
             {[V EXCEPT ![k] = [st |-> "PRINTING", pos |-> V[k].pos, started |-> now,
                                file |-> IF V[k].st = "absent" THEN f ELSE V[k].file,
                                usb |-> TRUE]] : now \in Stamps(V)}
           Taking(V) ==
             LET taken == {k \in TakenFor(V, f) : V[k].st \notin Finished}
             IN UNION {StartedIn(V, k) : k \in IF taken # {} THEN taken ELSE FreeIds(V)}
<1>1. ASSUME NEW V \in Tables, NEW k \in Jobs, NEW W \in StartedIn(V, k)
      PROVE  W[j] = V[j] \/ (W[j].st = "PRINTING" /\ W[j].pos = V[j].pos)
  BY DEF Tables
<1> HIDE DEF StartedIn
<1>2. ASSUME NEW V \in Tables, NEW W \in Taking(V)
      PROVE  W[j] = V[j] \/ (W[j].st = "PRINTING" /\ W[j].pos = V[j].pos)
<2>1. PICK k \in Jobs : W \in StartedIn(V, k)
  BY TakenIsJob, FreeIdsAreJobs
<2> QED
  BY <1>1, <2>1
<1> DEFINE running == MostRecent(T, InStatus(T, {"PRINTING"}))
           Closed(e) == [T EXCEPT ![e].st = "UNKNOWN"]
<1>3. ASSUME NEW e \in running
      PROVE  /\ Closed(e) \in Tables
             /\ Closed(e)[j] = T[j] \/ (Closed(e)[j].st = "UNKNOWN" /\ Closed(e)[j].pos = T[j].pos)
  BY MostRecentSubset, InStatusJobs DEF Tables, Row, Statuses
<1>4. U \in Taking(T) \/ U = T \/ \E e \in running : U \in Taking(Closed(e))
  BY DEF PrintStarted, StartedIn
<1> HIDE DEF Taking, Closed, running
<1>5. CASE U \in Taking(T) \/ U = T
  BY <1>2, <1>5 DEF SeenRow, Seen
<1>6. ASSUME NEW e \in running, U \in Taking(Closed(e)) PROVE SeenRow(T, U, j)
  BY <1>2, <1>3, <1>6 DEF SeenRow, Seen
<1> QED
  BY <1>4, <1>5, <1>6

============================================================================
