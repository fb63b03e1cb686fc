---------------------------- MODULE Connections ----------------------------
(***************************************************************************)
(* A printer's record, its polling adapter and the caches that follow the  *)
(* record, with crashes of the server.  What the readings do to print jobs *)
(* is PrintTracking's.                                                     *)
(***************************************************************************)
EXTENDS PrinterRecords

Crash ==
    /\ Spend
    /\ up' = FALSE
    /\ cached' = NoRow
    /\ adapter' = [a \in Adapters |-> NewAdapter] /\ store' = 0
    /\ poll' = [p \in Polls |-> NoPoll]
    /\ live' = FALSE /\ last' = "none"
    /\ entry' = NoEntry /\ fetch' = [f \in Fetches |-> NoFetch]
    /\ call' = [c \in Calls |-> NoCall]
    /\ UNCHANGED <<database, overlap>>

(* loadPrinterSockets for the enabled printers, then seedLastPollState for *)
(* whichever printers have an active job.  The server listens afterwards.  *)
Boot ==
    /\ ~ up
    /\ up' = TRUE
    /\ cached' = row
    /\ Register(row)
    /\ last' \in IF life = "there" THEN {"none", "seeded"} ELSE {"none"}
    /\ overlap' = FALSE /\ nulled' = FALSE
    /\ UNCHANGED <<life, row, live, firmware, call, budget>>

Request ==
    \/ \E r \in Rows : Create(r)
    \/ \E c \in Calls : Import(c) \/ Update(c)
    \/ Delete \/ Refresh

Next ==
    \/ Request \/ \E c \in Calls : CallStep(c)
    \/ Reconnect \/ PollStep \/ FirmwareStep
    \/ Crash \/ Boot

(* The database answers, the reconnect task and the intervals run, the     *)
(* requests of a poll and the files of its handler come to an end, and a   *)
(* crashed server is started again.  No printer has to answer.             *)
Fairness ==
    /\ \A c \in Calls : WF_vars(CallStep(c))
    /\ WF_vars(Reconnect) /\ WF_vars(PollStep) /\ WF_vars(Boot)

Spec == Init /\ [][Next]_vars /\ Fairness

----------------------------------------------------------------------------

(* No call is writing the row, and none wrote it across another.           *)
Settled == up /\ ~ Writing /\ ~ overlap

(* An interval runs only for the adapter that the store knows: nothing     *)
(* keeps polling a printer that was disabled, deleted or given a new one,  *)
(* whatever reconnects, polls and announcements were under way.            *)
OnePoller == \A a \in Adapters : adapter[a].ticking => a = store

(* The row as the process was last told of it.                             *)
Announced == [row EXCEPT !.login = @ /\ ~ nulled]

(* Once the calls are over, the process has the row as the database has it:*)
(* the cache equals it, and an adapter with the row's address and login    *)
(* exists exactly for an enabled printer, also after a crash or a          *)
(* deletion.  Only a login that the last update was to clear is gone from  *)
(* the cache and the adapter and still in the row, until the next update   *)
(* or boot brings it back.                                                 *)
RowFollowed ==
    Settled =>
      /\ cached = Announced
      /\ store # 0 <=> row.enabled
      /\ store # 0 => adapter[store].url = row.url /\ adapter[store].login = Announced.login

(* A disabled or deleted printer has no live snapshot, and the observer    *)
(* remembers nothing of it but what a handler that was already running, or *)
(* the boot task, has put there since.                                     *)
DisabledIsForgotten ==
    Settled /\ ~ row.enabled => ~ live /\ last # "polled"

(* Two handlers of readings never run at once for a printer, so the        *)
(* observer's reading and writing of lastPollState is not interleaved,     *)
(* except with a handler that outlived the disabling of the printer.       *)
HandlersApart ==
    \A p, q \in Polls :
       poll[p].at = "handling" /\ poll[q].at = "handling" /\ p # q
       => poll[p].stray \/ poll[q].stray

(* A model that is kept was told by the printer as it is now configured,   *)
(* unless the question was already under way when that changed.            *)
ModelIsCurrent == Settled /\ entry.at = "fresh" /\ ~ entry.late => entry.row = Announced

(* Callers share one question: two are under way only if the printer was   *)
(* changed after the first.                                                *)
OneQuestion ==
    \A f, g \in Fetches :
       fetch[f].at = "reading" /\ fetch[g].at = "reading" /\ f # g
       => fetch[f].late \/ fetch[g].late

(* The row is polled as it stands.                                         *)
Polled == \E p \in Polls : poll[p].at = "reading" /\ poll[p].url = row.url

(* An enabled printer is polled, at the address its row then has, again    *)
(* and again, whatever updates, refreshes, failing polls and restarts came *)
(* before: no poll and no reconnect blocks the next one.                   *)
PollsResume == row.enabled /\ ~ overlap ~> Polled \/ ~ row.enabled \/ overlap

=============================================================================
