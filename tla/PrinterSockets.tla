--------------------------- MODULE PrinterSockets ---------------------------
(***************************************************************************)
(* PrinterSocketStore and PrusaLinkHttpPollingAdapter: adapters are made,  *)
(* closed and dropped as the printer's row is announced, the reconnect     *)
(* task opens them again, and each polls on its own interval.  The reads   *)
(* of a poll and its handler are real waits: anything may be announced     *)
(* meanwhile.                                                              *)
(***************************************************************************)
EXTENDS ConnectionState

Stopped(a) == [a EXCEPT !.ticking = FALSE]
Closed(a, r) == [a EXCEPT !.ticking = FALSE, !.url = r.url, !.login = r.login]
Made(r) == Closed(NewAdapter, r)

(* An adapter that nothing refers to any more.                             *)
Gone(a) == a # store /\ ~ adapter[a].ticking /\ \A p \in Polls : poll[p].of # a

Outlived(p) == IF p.at = "handling" THEN [p EXCEPT !.stray = TRUE] ELSE p

(* With a bug: the interval of a dropped adapter is not cleared.           *)
DroppedRunning(a) == [a EXCEPT !.emits = FALSE]
(* deleteSocket: the adapter is silenced, closed and forgotten.  A handler *)
(* of its last reading goes on; its credentials are not used again.        *)
Dropped(a) == [a EXCEPT !.emits = FALSE, !.ticking = FALSE, !.url = 0, !.login = FALSE]

Unregister ==
    /\ adapter' = [a \in Adapters |-> IF a = store THEN Dropped(adapter[a]) ELSE adapter[a]]
    /\ store' = 0
    /\ poll' = [p \in Polls |-> Outlived(poll[p])]

(* With a bug: an adapter that is there keeps its credentials.             *)
RegisterOnce(r) ==
    IF ~ r.enabled THEN Unregister
    ELSE \/ /\ store # 0
            /\ adapter' = [adapter EXCEPT ![store] = Stopped(@)]
            /\ UNCHANGED <<store, poll>>
         \/ /\ store = 0
            /\ \E a \in Adapters :
                 /\ Gone(a) /\ \A b \in 1 .. a - 1 : ~ Gone(b)
                 /\ adapter' = [adapter EXCEPT ![a] = Made(r)]
                 /\ store' = a
            /\ UNCHANGED poll
(* createOrUpdateSocket: close the printer's adapter or make one, and give *)
(* it the credentials.  The reconnect task opens it.                       *)
Register(r) ==
    IF ~ r.enabled THEN Unregister
    ELSE \/ /\ store # 0
            /\ adapter' = [adapter EXCEPT ![store] = Closed(@, r)]
            /\ UNCHANGED <<store, poll>>
         \/ /\ store = 0
            /\ \E a \in Adapters :
                 /\ Gone(a) /\ \A b \in 1 .. a - 1 : ~ Gone(b)
                 /\ adapter' = [adapter EXCEPT ![a] = Made(r)]
                 /\ store' = a
            /\ UNCHANGED poll

(* With a bug: opening an adapter starts it afresh.                        *)
ReconnectAfresh ==
    /\ up /\ store # 0 /\ ~ adapter[store].ticking
    /\ adapter' = [adapter EXCEPT ![store].ticking = TRUE, ![store].busy = FALSE]
    /\ UNCHANGED <<database, cached, store, poll, memory, firmware, call, up, budget,
                   overlap>>
(* PrinterWebsocketTask, every two seconds: adapters without an interval   *)
(* are opened.  A poll that is still in flight stays so.                   *)
Reconnect ==
    /\ up /\ store # 0 /\ ~ adapter[store].ticking
    /\ adapter' = [adapter EXCEPT ![store].ticking = TRUE]
    /\ UNCHANGED <<database, cached, store, poll, memory, firmware, call, up, budget,
                   overlap>>

(* refresh-socket closes the adapter and drops the live snapshot,          *)
(* batchConnectSocket only closes it.                                      *)
Refresh ==
    /\ Spend /\ store # 0
    /\ adapter' = [adapter EXCEPT ![store] = Stopped(@)]
    /\ live' \in {live, FALSE}
    /\ UNCHANGED <<database, cached, store, poll, last, firmware, call, up, overlap>>

----------------------------------------------------------------------------
(* One poll                                                                *)

(* The interval fires.  It is skipped while the adapter's last poll is in  *)
(* flight; the credentials are taken now.                                  *)
Tick(a, p) ==
    /\ up /\ adapter[a].ticking /\ ~ adapter[a].busy
    /\ poll[p] = NoPoll /\ \A q \in 1 .. p - 1 : poll[q] # NoPoll
    /\ adapter' = [adapter EXCEPT ![a].busy = TRUE]
    /\ poll' = [poll EXCEPT ![p] = [of |-> a, at |-> "reading", url |-> adapter[a].url,
                                    stray |-> FALSE]]
    /\ UNCHANGED <<database, cached, store, memory, firmware, call, up, budget, overlap>>

Over(p) ==
    /\ poll' = [poll EXCEPT ![p] = NoPoll]
    /\ adapter' = [adapter EXCEPT ![poll[p].of].busy = FALSE]

(* The reads have answered: the snapshot is kept and the handler starts,   *)
(* unless the adapter was silenced meanwhile.                              *)
Answers(p) ==
    /\ poll[p].at = "reading"
    /\ IF adapter[poll[p].of].emits
       THEN /\ poll' = [poll EXCEPT ![p].at = "handling"]
            /\ live' = TRUE
            /\ UNCHANGED adapter
       ELSE Over(p) /\ UNCHANGED live
    /\ UNCHANGED <<database, cached, store, last, firmware, call, up, budget, overlap>>

(* With a bug: only an answer ends a poll.                                 *)
FailsForGood(p) ==
    /\ poll[p].at = "reading"
    /\ poll' = [poll EXCEPT ![p] = NoPoll]
    /\ UNCHANGED <<database, cached, adapter, store, memory, firmware, call, up, budget,
                   overlap>>
(* A read has failed or timed out.                                         *)
Fails(p) ==
    /\ poll[p].at = "reading"
    /\ Over(p)
    /\ UNCHANGED <<database, cached, store, memory, firmware, call, up, budget, overlap>>

(* The handler has written its rows and read its files: it records the     *)
(* state it saw, whatever was announced meanwhile, unless it threw.        *)
Handled(p) ==
    /\ poll[p].at = "handling"
    /\ Over(p)
    /\ last' \in {last, IF poll[p].stray THEN "leftover" ELSE "polled"}
    /\ UNCHANGED <<database, cached, store, live, firmware, call, up, budget, overlap>>

PollStep ==
    \/ \E a \in Adapters, p \in Polls : Tick(a, p)
    \/ \E p \in Polls : Answers(p) \/ Fails(p) \/ Handled(p)

=============================================================================
