-------------------------- MODULE ConnectionProofs --------------------------
(***************************************************************************)
(* Proofs about a printer's connection, for any number of calls, adapters, *)
(* polls, questions and crashes: one interval at a time, handlers apart,   *)
(* a process that follows the printer's row, and caches that forget.       *)
(***************************************************************************)
EXTENDS Connections, TLAPS

(* A call that has merged a row holds one, and every step has its call.    *)
GoodCall(c) ==
    /\ call[c].op = "none" <=> call[c].at = "none"
    /\ call[c].at \in {"get", "save"} => call[c].op = "update"
    /\ call[c].at = "insert" => call[c].op = "import"
    /\ call[c].at \in {"save", "emit"} => call[c].row \in Rows

RowThere == IF life = "there" THEN row \in Rows ELSE row = NoRow

(* Nothing is under way in a server that is down.                          *)
DownInv ==
    ~ up => /\ \A c \in Calls : call[c] = NoCall
            /\ \A p \in Polls : poll[p] = NoPoll
            /\ \A a \in Adapters : adapter[a] = NewAdapter
            /\ store = 0 /\ entry = NoEntry
            /\ \A f \in Fetches : fetch[f] = NoFetch
            /\ live = FALSE /\ last = "none"

TypeInv == TypeOK /\ (\A c \in Calls : GoodCall(c)) /\ RowThere /\ DownInv

----------------------------------------------------------------------------
(* Types                                                                   *)

LEMMA MergedIsRow == ASSUME NEW r \in Rows, NEW patch \in Patches PROVE Merged(r, patch) \in Rows
<1>1. /\ DOMAIN r = {"enabled", "url", "login"}
      /\ r.enabled \in BOOLEAN /\ r.url \in Urls /\ r.login \in BOOLEAN
  BY DEF Rows
<1>2. Merged(r, patch) = [enabled |-> IF "enabled" \in DOMAIN patch THEN patch["enabled"]
                                      ELSE r["enabled"],
                          url |-> IF "url" \in DOMAIN patch THEN patch["url"] ELSE r["url"],
                          login |-> IF "login" \in DOMAIN patch THEN patch["login"]
                                    ELSE r["login"]]
  BY <1>1 DEF Merged
<1>3. CASE patch \in [enabled : BOOLEAN]
  BY <1>1, <1>2, <1>3 DEF Rows
<1>4. CASE patch \in [url : Urls]
  BY <1>1, <1>2, <1>4 DEF Rows
<1>5. CASE patch \in [login : BOOLEAN]
  BY <1>1, <1>2, <1>5 DEF Rows
<1>6. CASE patch = [name |-> TRUE]
  BY <1>1, <1>2, <1>6 DEF Rows
<1> QED
  BY <1>3, <1>4, <1>5, <1>6 DEF Patches

(* What the database keeps of a row, and what is announced of it.          *)
LEMMA WrittenIsRow ==
  ASSUME TypeOK, NEW r \in Rows, row \in Rows, row' = Written(r), nulled' = (row' # r)
  PROVE  row' \in Rows /\ nulled' \in BOOLEAN /\ Announced' = r
<1>1. /\ row' = [r EXCEPT !.login = r.login \/ row.login]
      /\ r.login \in BOOLEAN /\ row.login \in BOOLEAN
  BY DEF Written, Rows
<1>2. row' \in Rows
  BY <1>1 DEF Rows
<1>3. CASE row' = r
  BY <1>3 DEF Announced, Rows
<1>4. CASE row' # r
  <2>1. r.login = FALSE /\ row' = [r EXCEPT !.login = TRUE]
    BY <1>1, <1>4 DEF Rows
  <2>2. Announced' = [row' EXCEPT !.login = FALSE]
    BY <1>4 DEF Announced
  <2> QED
    BY <1>2, <1>4, <2>1, <2>2 DEF Rows
<1> QED
  BY <1>2, <1>3, <1>4

LEMMA LoginKept ==
  ASSUME NEW r \in Rows \cup {NoRow}
  PROVE  /\ r.login = TRUE \/ r.login = FALSE
         /\ r.login = TRUE => [r EXCEPT !.login = TRUE] = r
         /\ r.login = FALSE => [r EXCEPT !.login = FALSE] = r
<1>1. r \in [enabled : BOOLEAN, url : Urls \cup {0}, login : BOOLEAN]
  <2>1. CASE r \in Rows
    BY <2>1 DEF Rows
  <2>2. CASE r = NoRow
    BY <2>2 DEF NoRow
  <2> QED
    BY <2>1, <2>2
<1> QED
  BY <1>1

LEMMA AnnouncedShape ==
  ASSUME TypeOK
  PROVE  /\ Announced.enabled = row.enabled /\ Announced.url = row.url
         /\ ~ nulled \/ row = NoRow => Announced = row
         /\ Announced \in Rows \cup {NoRow}
<1>1. CASE row \in Rows
  <2>1. NoRow \notin Rows
    BY BoundsAssumption DEF NoRow, Rows
  <2>2. CASE nulled
    <3>1. Announced = [row EXCEPT !.login = FALSE]
      BY <2>2 DEF Announced
    <3> QED
      BY <1>1, <2>1, <2>2, <3>1 DEF Rows
  <2>3. CASE ~ nulled
    <3>1. Announced = row
      BY <1>1, <2>3 DEF Announced, Rows
    <3> QED
      BY <1>1, <3>1
  <2> QED
    BY <2>2, <2>3
<1>2. CASE row = NoRow
  <2>1. row.login = FALSE
    BY <1>2 DEF NoRow
  <2>2. Announced = [row EXCEPT !.login = FALSE]
    BY <2>1 DEF Announced
  <2>3. Announced = row
    BY <1>2, <2>1, <2>2, LoginKept
  <2> QED
    BY <1>2, <2>3
<1> QED
  BY <1>1, <1>2 DEF TypeOK

LEMMA AdapterShapes ==
  ASSUME NEW a \in Adapter, NEW r \in Rows
  PROVE  /\ Stopped(a) \in Adapter /\ ~ Stopped(a).ticking /\ Stopped(a).busy = a.busy
         /\ Stopped(a).emits = a.emits
         /\ Closed(a, r) \in Adapter /\ ~ Closed(a, r).ticking /\ Closed(a, r).busy = a.busy
         /\ Closed(a, r).emits = a.emits
         /\ Closed(a, r).url = r.url /\ Closed(a, r).login = r.login
         /\ Made(r) \in Adapter /\ ~ Made(r).ticking
         /\ Made(r).url = r.url /\ Made(r).login = r.login
BY DEF Adapter, Stopped, Closed, Made, NewAdapter, Rows

LEMMA DroppedShape ==
  ASSUME NEW a \in Adapter
  PROVE  /\ Stopped(a) \in Adapter
         /\ Dropped(a) \in Adapter /\ ~ Dropped(a).ticking /\ ~ Dropped(a).emits
         /\ Dropped(a).busy = a.busy
         /\ NewAdapter \in Adapter /\ ~ NewAdapter.ticking
BY DEF Adapter, Stopped, Dropped, NewAdapter

LEMMA PollShapes ==
  ASSUME NEW p \in Poll
  PROVE  /\ Outlived(p) \in Poll /\ Outlived(p).of = p.of /\ Outlived(p).at = p.at
         /\ p.at = "handling" => Outlived(p).stray
         /\ NoPoll \in Poll /\ NoPoll.of = 0 /\ NoPoll.at = "none"
BY DEF Poll, Outlived, NoPoll

LEMMA FetchShapes ==
  ASSUME NEW f \in Fetch
  PROVE  /\ Overtaken(f) \in Fetch /\ Overtaken(f).at = f.at
         /\ f.at # "none" => Overtaken(f).late
         /\ NoFetch \in Fetch /\ NoFetch.at = "none"
         /\ NoEntry \in Entry /\ NoEntry.at = "none"
BY DEF Fetch, Entry, Overtaken, NoFetch, NoEntry

(* What a registration leaves of adapters and polls.                       *)
LEMMA UnregisterTypes ==
  ASSUME TypeOK, Unregister
  PROVE  /\ adapter' \in [Adapters -> Adapter] /\ store' = 0
         /\ poll' \in [Polls -> Poll]
<1> USE DEF TypeOK, Unregister
<1>1. \A a \in Adapters : Dropped(adapter[a]) \in Adapter
  BY DroppedShape
<1>2. \A p \in Polls : Outlived(poll[p]) \in Poll
  BY PollShapes
<1> QED
  BY <1>1, <1>2

LEMMA RegisterTypes ==
  ASSUME TypeOK, NEW r \in Rows \cup {NoRow}, Register(r)
  PROVE  /\ adapter' \in [Adapters -> Adapter] /\ store' \in Adapters \cup {0}
         /\ poll' \in [Polls -> Poll]
<1>1. CASE Unregister
  BY <1>1, UnregisterTypes
<1>2. CASE r.enabled
  <2>1. r \in Rows
    BY <1>2 DEF NoRow
  <2>2. \A a \in Adapters : Closed(adapter[a], r) \in Adapter /\ Made(r) \in Adapter
    BY <2>1, AdapterShapes DEF TypeOK
  <2> QED
    BY <1>2, <2>2 DEF Register, TypeOK
<1> QED
  BY <1>1, <1>2 DEF Register

LEMMA InvalidateTypes ==
  ASSUME TypeOK, Invalidate
  PROVE  entry' \in Entry /\ fetch' \in [Fetches -> Fetch]
BY FetchShapes DEF TypeOK, Invalidate, Entry, NoEntry

LEMMA TypesInitially == Init => TypeInv
<1> SUFFICES ASSUME Init PROVE TypeInv
  OBVIOUS
<1>1. /\ adapter \in [Adapters -> Adapter] /\ poll \in [Polls -> Poll]
      /\ entry \in Entry /\ fetch \in [Fetches -> Fetch]
  BY DEF Init, Poll, NoPoll, Fetch, NoFetch, Entry, NoEntry, Adapter, NewAdapter
<1>2. call \in [Calls -> Call] /\ \A c \in Calls : GoodCall(c)
  BY DEF Init, NoCall, NoRow, Call, GoodCall
<1>3. RowThere /\ row \in Rows \cup {NoRow}
  BY RowsAssumption DEF Init, RowThere
<1> QED
  BY <1>1, <1>2, <1>3, BoundsAssumption DEF Init, TypeInv, TypeOK, DownInv

(* Calls, polls and questions after one of them has changed.               *)
LEMMA BeginTypes ==
  ASSUME TypeInv, NEW c \in Calls, NEW op, NEW at, Begin(c, op, at),
         \/ op = "update" /\ at = "get"
         \/ op = "import" /\ at = "insert"
  PROVE  TypeInv'
<1>1. /\ call' = [call EXCEPT ![c] = [op |-> op, at |-> at, row |-> NoRow]]
      /\ up /\ up' /\ budget' = budget - 1 /\ budget > 0
      /\ UNCHANGED <<life, row, nulled, cached, adapter, store, poll, live, last, entry, fetch>>
  BY DEF Begin, Spend, database, sockets, memory, firmware
<1>2. call' \in [Calls -> Call]
  BY <1>1 DEF TypeInv, TypeOK, Call
<1>3. \A d \in Calls : GoodCall(d)'
  BY <1>1 DEF TypeInv, TypeOK, GoodCall, Call
<1>4. overlap' \in BOOLEAN
  BY DEF Begin
<1> QED
  BY <1>1, <1>2, <1>3, <1>4 DEF TypeInv, TypeOK, RowThere, DownInv

LEMMA AnsweredTypes ==
  ASSUME TypeInv, NEW c \in Calls, Answered(c)
  PROVE  call' \in [Calls -> Call] /\ \A d \in Calls : GoodCall(d)'
BY DEF TypeInv, TypeOK, Answered, NoCall, NoRow, Call, GoodCall

LEMMA OverTypes ==
  ASSUME TypeInv, NEW p \in Polls, Over(p)
  PROVE  poll' \in [Polls -> Poll] /\ adapter' \in [Adapters -> Adapter]
BY DEF TypeInv, TypeOK, Over, NoPoll, Poll, Adapter

(* Steps of the printer's record.                                          *)
LEMMA RecordTypes ==
  ASSUME TypeInv, Request \/ \E c \in Calls : CallStep(c)
  PROVE  TypeInv'
<1> USE DEF TypeInv
<1>1. ASSUME NEW r \in Rows, Create(r) PROVE TypeInv'
  <2>1. /\ UNCHANGED <<live, last, call, up, overlap>> /\ up /\ cached' = r /\ row' = r
        /\ life' = "there" /\ nulled' \in BOOLEAN /\ Register(r) /\ Invalidate
        /\ budget' = budget - 1 /\ budget > 0
    BY <1>1 DEF Create, Created, Spend, memory
  <2> QED
    BY <2>1, RegisterTypes, InvalidateTypes DEF TypeOK, RowThere, DownInv, GoodCall
<1>2. ASSUME NEW c \in Calls, Import(c) \/ Update(c) PROVE TypeInv'
  BY <1>2, BeginTypes DEF Import, Update
<1>3. CASE Delete
  <2>1. /\ UNCHANGED <<call, up>> /\ up /\ cached' = NoRow /\ row' = NoRow /\ nulled' \in BOOLEAN
        /\ life' = "deleted" /\ Unregister /\ Invalidate /\ live' = FALSE /\ last' = "none"
        /\ budget' = budget - 1 /\ budget > 0 /\ overlap' \in BOOLEAN
    BY <1>3 DEF Delete, Purged, Forget, Spend, TypeOK
  <2>2. /\ adapter' \in [Adapters -> Adapter] /\ store' = 0 /\ poll' \in [Polls -> Poll]
        /\ entry' \in Entry /\ fetch' \in [Fetches -> Fetch]
    BY <2>1, UnregisterTypes, InvalidateTypes
  <2>3. up' \in BOOLEAN /\ live' \in BOOLEAN
    BY <2>1, Zenon DEF TypeOK
  <2>4. TypeOK'
    BY <2>1, <2>2, <2>3 DEF TypeOK
  <2>5. \A c \in Calls : GoodCall(c)'
    BY <2>1 DEF GoodCall
  <2> QED
    BY <2>1, <2>4, <2>5 DEF RowThere, DownInv
<1>4. CASE Refresh
  <2>1. /\ UNCHANGED <<life, row, nulled, cached, store, poll, last, entry, fetch, call, up,
                       overlap>>
        /\ adapter' = [adapter EXCEPT ![store] = Stopped(@)] /\ store # 0 /\ up
        /\ live' \in BOOLEAN /\ budget' = budget - 1 /\ budget > 0
    BY <1>4 DEF Refresh, Spend, database, firmware, TypeOK
  <2>2. Stopped(adapter[store]) \in Adapter
    BY <2>1, DroppedShape DEF TypeOK
  <2> QED
    BY <2>1, <2>2 DEF TypeOK, RowThere, DownInv, GoodCall
<1>5. ASSUME NEW c \in Calls, Insert(c) PROVE TypeInv'
  <2>1. /\ UNCHANGED <<cached, adapter, store, poll, live, last, entry, fetch, up, budget,
                       overlap>>
        /\ call[c].at = "insert"
    BY <1>5 DEF Insert, sockets, memory, firmware
  <2>2. up
    BY <2>1 DEF DownInv, NoCall
  <2>3. CASE life = "new"
    <3>1. PICK r \in Rows : /\ life' = "there" /\ row' = r /\ nulled' \in BOOLEAN
                            /\ call' = [call EXCEPT ![c].at = "emit", ![c].row = r]
      BY <1>5, <2>3 DEF Insert
    <3>2. call'[c].op = "import" /\ call'[c].at = "emit" /\ call'[c].row = r
          /\ call' \in [Calls -> Call] /\ \A d \in Calls \ {c} : call'[d] = call[d]
      BY <2>1, <3>1 DEF TypeOK, Call, GoodCall
    <3>3. \A d \in Calls : GoodCall(d)'
      BY <3>2 DEF GoodCall
    <3> QED
      BY <2>1, <2>2, <3>1, <3>2, <3>3 DEF TypeOK, RowThere, DownInv
  <2>4. CASE life # "new"
    <3>1. Answered(c) /\ UNCHANGED <<life, row, nulled>>
      BY <1>5, <2>4 DEF Insert, database
    <3> QED
      BY <2>1, <2>2, <3>1, AnsweredTypes DEF TypeOK, RowThere, DownInv
  <2> QED
    BY <2>3, <2>4
<1>6. ASSUME NEW c \in Calls, AnnounceImport(c) PROVE TypeInv'
  <2>1. /\ UNCHANGED <<life, row, nulled, live, last, entry, fetch, up, budget, overlap>>
        /\ cached' = call[c].row /\ Register(call[c].row) /\ Answered(c)
        /\ call[c].row \in Rows /\ up
    BY <1>6 DEF AnnounceImport, Created, memory, database, firmware, GoodCall, DownInv, NoCall
  <2> QED
    BY <2>1, RegisterTypes, AnsweredTypes DEF TypeOK, RowThere, DownInv
<1>7. ASSUME NEW c \in Calls, ReadRow(c) PROVE TypeInv'
  <2>1. /\ UNCHANGED <<life, row, nulled, cached, adapter, store, poll, live, last, entry,
                       fetch, up, budget, overlap>>
        /\ call[c].at = "get"
    BY <1>7 DEF ReadRow, database, sockets, memory, firmware
  <2>2. up
    BY <2>1 DEF DownInv, NoCall
  <2>3. CASE life = "there"
    <3>1. PICK patch \in Patches :
            call' = [call EXCEPT ![c].at = "save", ![c].row = Merged(row, patch)]
      BY <1>7, <2>3 DEF ReadRow
    <3>2. Merged(row, patch) \in Rows
      BY <2>3, MergedIsRow DEF RowThere
    <3>3. call'[c].op = "update" /\ call'[c].at = "save" /\ call'[c].row = Merged(row, patch)
          /\ call' \in [Calls -> Call] /\ \A d \in Calls \ {c} : call'[d] = call[d]
      BY <2>1, <3>1, <3>2 DEF TypeOK, Call, GoodCall
    <3>4. \A d \in Calls : GoodCall(d)'
      BY <3>2, <3>3 DEF GoodCall
    <3> QED
      BY <2>1, <2>2, <3>3, <3>4 DEF TypeOK, RowThere, DownInv
  <2>4. CASE life # "there"
    <3>1. Answered(c)
      BY <1>7, <2>4 DEF ReadRow
    <3> QED
      BY <2>1, <2>2, <3>1, AnsweredTypes DEF TypeOK, RowThere, DownInv
  <2> QED
    BY <2>3, <2>4
<1>8. ASSUME NEW c \in Calls, SaveRow(c) PROVE TypeInv'
  <2>1. /\ UNCHANGED <<life, cached, adapter, store, poll, live, last, entry, fetch, up,
                       budget, overlap>>
        /\ call[c].at = "save" /\ call' = [call EXCEPT ![c].at = "emit"]
    BY <1>8 DEF SaveRow, sockets, memory, firmware
  <2>2. up /\ call[c].row \in Rows /\ call[c].op = "update"
    BY <2>1 DEF DownInv, NoCall, GoodCall
  <2>5. RowThere' /\ row' \in Rows \cup {NoRow} /\ nulled' \in BOOLEAN
    <3>1. CASE life = "there"
      <4>1. row' = Written(call[c].row) /\ nulled' = (row' # call[c].row) /\ row \in Rows
        BY <1>8, <3>1 DEF SaveRow, RowThere
      <4> QED
        BY <2>1, <2>2, <3>1, <4>1, WrittenIsRow DEF RowThere
    <3>2. CASE life # "there"
      <4>1. UNCHANGED <<row, nulled>>
        BY <1>8, <3>2 DEF SaveRow
      <4> QED
        BY <2>1, <3>2, <4>1 DEF RowThere, TypeOK
    <3> QED
      BY <3>1, <3>2
  <2>3. call'[c].op = "update" /\ call'[c].at = "emit" /\ call'[c].row = call[c].row
        /\ call' \in [Calls -> Call] /\ \A d \in Calls \ {c} : call'[d] = call[d]
    BY <2>1, <2>2 DEF TypeOK, Call
  <2>4. \A d \in Calls : GoodCall(d)'
    BY <2>2, <2>3 DEF GoodCall
  <2> QED
    BY <2>1, <2>2, <2>3, <2>4, <2>5 DEF TypeOK, DownInv
<1>9. ASSUME NEW c \in Calls, AnnounceUpdate(c) PROVE TypeInv'
  <2>1. /\ UNCHANGED <<life, row, nulled, up, budget, overlap>> /\ Answered(c)
        /\ call[c].row \in Rows /\ up
    BY <1>9 DEF AnnounceUpdate, database, GoodCall, DownInv, NoCall
  <2>2. CASE life = "there"
    <3>1. /\ cached' = call[c].row /\ Register(call[c].row) /\ Invalidate
          /\ live' \in BOOLEAN /\ last' \in {last, "none"}
      BY <1>9, <2>2 DEF AnnounceUpdate, Updated, Forget, memory, TypeOK
    <3> QED
      BY <2>1, <3>1, RegisterTypes, InvalidateTypes, AnsweredTypes DEF TypeOK, RowThere, DownInv
  <2>3. CASE life # "there"
    <3>1. UNCHANGED <<cached, adapter, store, poll, live, last, entry, fetch>>
      BY <1>9, <2>3 DEF AnnounceUpdate, sockets, memory, firmware
    <3> QED
      BY <2>1, <3>1, AnsweredTypes DEF TypeOK, RowThere, DownInv
  <2> QED
    BY <2>2, <2>3
<1> QED
  BY <1>1, <1>2, <1>3, <1>4, <1>5, <1>6, <1>7, <1>8, <1>9 DEF Request, CallStep

(* Steps of polls, questions, the task and the server.                     *)
LEMMA ProcessTypes ==
  ASSUME TypeInv, Reconnect \/ PollStep \/ FirmwareStep \/ Crash \/ Boot
  PROVE  TypeInv'
<1> USE DEF TypeInv
<1>1. CASE Reconnect
  <2>1. /\ UNCHANGED <<life, row, nulled, cached, store, poll, live, last, entry, fetch, call, up,
                       budget, overlap>>
        /\ adapter' = [adapter EXCEPT ![store].ticking = TRUE] /\ up
    BY <1>1 DEF Reconnect, database, memory, firmware
  <2>2. adapter' \in [Adapters -> Adapter]
    BY <2>1 DEF TypeOK, Adapter
  <2> QED
    BY <2>1, <2>2 DEF TypeOK, RowThere, DownInv, GoodCall
<1>2. ASSUME NEW a \in Adapters, NEW p \in Polls, Tick(a, p) PROVE TypeInv'
  <2>1. /\ UNCHANGED <<life, row, nulled, cached, store, live, last, entry, fetch, call, up, budget,
                       overlap>>
        /\ adapter' = [adapter EXCEPT ![a].busy = TRUE] /\ up
        /\ poll' = [poll EXCEPT ![p] = [of |-> a, at |-> "reading", url |-> adapter[a].url,
                                        stray |-> FALSE]]
    BY <1>2 DEF Tick, database, memory, firmware
  <2>2. adapter' \in [Adapters -> Adapter] /\ poll' \in [Polls -> Poll]
    BY <2>1 DEF TypeOK, Adapter, Poll
  <2> QED
    BY <2>1, <2>2 DEF TypeOK, RowThere, DownInv, GoodCall
<1>3. ASSUME NEW p \in Polls, Answers(p) \/ Fails(p) \/ Handled(p) PROVE TypeInv'
  <2>1. /\ UNCHANGED <<life, row, nulled, cached, store, entry, fetch, call, up, budget, overlap>>
        /\ live' \in {live, TRUE} /\ last' \in {last, "leftover", "polled"}
        /\ poll[p].at # "none"
    BY <1>3 DEF Answers, Fails, Handled, database, memory, firmware
  <2>2. up
    BY <2>1 DEF DownInv, NoPoll
  <2>3. adapter' \in [Adapters -> Adapter] /\ poll' \in [Polls -> Poll]
    <3>1. CASE Over(p)
      BY <3>1, OverTypes
    <3>2. CASE poll' = [poll EXCEPT ![p].at = "handling"] /\ UNCHANGED adapter
      BY <3>2 DEF TypeOK, Poll
    <3> QED
      BY <1>3, <3>1, <3>2 DEF Answers, Fails, Handled
  <2> QED
    BY <2>1, <2>2, <2>3 DEF TypeOK, RowThere, DownInv, GoodCall
<1>4. CASE FirmwareStep
  <2>1. /\ UNCHANGED <<life, row, nulled, cached, adapter, store, poll, live, last, call, up,
                       budget, overlap>>
    BY <1>4 DEF FirmwareStep, Expire, Ask, Told, database, sockets, memory
  <2>2. CASE Expire
    BY <2>1, <2>2 DEF Expire, TypeOK, Entry, NoEntry, NoRow, RowThere, DownInv, GoodCall
  <2>3. ASSUME NEW f \in Fetches, Ask(f) PROVE TypeInv'
    <3>1. /\ up /\ entry' = [at |-> "fetching", row |-> NoRow, late |-> FALSE]
          /\ fetch' = [fetch EXCEPT ![f] = [at |-> "reading", row |-> cached, late |-> FALSE]]
      BY <2>3 DEF Ask, NoEntry
    <3>2. fetch' \in [Fetches -> Fetch] /\ entry' \in Entry
      BY <3>1 DEF TypeOK, Fetch, Entry
    <3> QED
      BY <2>1, <3>1, <3>2 DEF TypeOK, RowThere, DownInv, GoodCall
  <2>4. ASSUME NEW f \in Fetches, Told(f) PROVE TypeInv'
    <3>1. /\ entry' \in {[fetch[f] EXCEPT !.at = "fresh"], [NoEntry EXCEPT !.at = "failed"]}
          /\ fetch' = [fetch EXCEPT ![f] = NoFetch] /\ fetch[f].at = "reading"
      BY <2>4 DEF Told
    <3>2. up
      BY <3>1 DEF DownInv, NoFetch
    <3>3. fetch' \in [Fetches -> Fetch] /\ entry' \in Entry
      BY <3>1 DEF TypeOK, Fetch, Entry, NoFetch, NoEntry, NoRow
    <3> QED
      BY <2>1, <3>2, <3>3 DEF TypeOK, RowThere, DownInv, GoodCall
  <2> QED
    BY <1>4, <2>2, <2>3, <2>4 DEF FirmwareStep
<1>5. CASE Crash
  <2>1. /\ call' \in [Calls -> Call] /\ \A c \in Calls : GoodCall(c)'
    BY <1>5 DEF Crash, NoCall, NoRow, Call, GoodCall
  <2>2. /\ adapter' \in [Adapters -> Adapter] /\ poll' \in [Polls -> Poll]
        /\ entry' \in Entry /\ fetch' \in [Fetches -> Fetch]
    BY <1>5 DEF Crash, Poll, NoPoll, Fetch, NoFetch, Entry, NoEntry, Adapter, NewAdapter
  <2>3. /\ UNCHANGED <<life, row, nulled, overlap>> /\ up' = FALSE /\ cached' = NoRow /\ store' = 0
        /\ live' = FALSE /\ last' = "none" /\ budget' = budget - 1 /\ budget > 0
    BY <1>5 DEF Crash, Spend, database
  <2>4. up' \in BOOLEAN /\ live' \in BOOLEAN
    BY <2>3, Zenon
  <2>5. TypeOK'
    BY <2>1, <2>2, <2>3, <2>4 DEF TypeOK
  <2>6. RowThere'
    BY <2>3 DEF RowThere
  <2>7. DownInv'
    BY <1>5 DEF Crash, DownInv
  <2> QED
    BY <2>1, <2>5, <2>6, <2>7
<1>6. CASE Boot
  <2>1. /\ UNCHANGED <<life, row, live, entry, fetch, call, budget>> /\ up' = TRUE
        /\ overlap' = FALSE /\ nulled' \in BOOLEAN
        /\ cached' = row /\ Register(row) /\ last' \in {"none", "seeded"}
    BY <1>6 DEF Boot, firmware
  <2>2. /\ adapter' \in [Adapters -> Adapter] /\ store' \in Adapters \cup {0}
        /\ poll' \in [Polls -> Poll]
    BY <2>1, RegisterTypes DEF TypeOK
  <2>3. up' \in BOOLEAN /\ overlap' \in BOOLEAN
    BY <2>1, Zenon
  <2>4. TypeOK'
    BY <2>1, <2>2, <2>3 DEF TypeOK
  <2>5. \A c \in Calls : GoodCall(c)'
    BY <2>1 DEF GoodCall
  <2> QED
    BY <2>1, <2>4, <2>5 DEF RowThere, DownInv
<1> QED
  BY <1>1, <1>2, <1>3, <1>4, <1>5, <1>6 DEF PollStep

LEMMA TypesKept == TypeInv /\ [Next]_vars => TypeInv'
<1>1. CASE UNCHANGED vars
  BY <1>1 DEF vars, TypeInv, TypeOK, GoodCall, RowThere, DownInv, database, sockets, memory,
              firmware
<1> QED
  BY <1>1, RecordTypes, ProcessTypes DEF Next

(* Rows, caches, adapters, polls and calls keep their types.               *)
THEOREM ConnectionTypeCorrect == Spec => []TypeOK
<1>1. TypeInv => TypeOK
  BY DEF TypeInv
<1> QED
  BY <1>1, TypesInitially, TypesKept, PTL DEF Spec

----------------------------------------------------------------------------
(* Adapters and polls                                                      *)

(* A poll keeps its adapter busy, no two share one, and what is not the    *)
(* store's adapter neither ticks nor emits.                                *)
SocketInv ==
    /\ OnePoller
    /\ \A p \in Polls : poll[p].at = "none" <=> poll[p].of = 0
    /\ \A p \in Polls : poll[p].of # 0 => adapter[poll[p].of].busy
    /\ \A p, q \in Polls : p # q /\ poll[p].of # 0 => poll[p].of # poll[q].of
    /\ \A p \in Polls : poll[p].of # 0 /\ poll[p].of # store => ~ adapter[poll[p].of].emits
    /\ \A p \in Polls : poll[p].at = "handling" /\ ~ poll[p].stray => poll[p].of = store

LEMMA UnregisterKeepsSockets ==
  ASSUME TypeOK, SocketInv, Unregister
  PROVE  SocketInv'
<1>1. \A a \in Adapters : /\ adapter'[a].busy = adapter[a].busy
                          /\ a = store => ~ adapter'[a].ticking /\ ~ adapter'[a].emits
                          /\ a # store => adapter'[a] = adapter[a]
  BY DroppedShape DEF Unregister, TypeOK
<1>2. \A p \in Polls : /\ poll'[p].of = poll[p].of /\ poll'[p].at = poll[p].at
                       /\ poll[p].at = "handling" => poll'[p].stray
  BY PollShapes DEF Unregister, TypeOK
<1>3. store' = 0 /\ \A p \in Polls : poll[p].of \in Adapters \cup {0}
  BY DEF Unregister, TypeOK, Poll
<1> QED
  BY <1>1, <1>2, <1>3 DEF SocketInv, OnePoller

LEMMA RegisterKeepsSockets ==
  ASSUME TypeOK, SocketInv, NEW r \in Rows \cup {NoRow}, Register(r)
  PROVE  /\ SocketInv'
         /\ store' # 0 <=> r.enabled
         /\ store' # 0 => adapter'[store'].url = r.url /\ adapter'[store'].login = r.login
<1>0. \A p \in Polls : poll[p].of \in Adapters \cup {0}
  BY DEF TypeOK, Poll
<1>1. CASE ~ r.enabled
  <2>1. Unregister
    BY <1>1 DEF Register
  <2> QED
    BY <1>1, <2>1, UnregisterKeepsSockets DEF Unregister
<1>2. CASE r.enabled /\ store # 0
  <2>1. /\ adapter' = [adapter EXCEPT ![store] = Closed(@, r)] /\ UNCHANGED <<store, poll>>
    BY <1>2 DEF Register
  <2>2. r \in Rows
    BY <1>2 DEF NoRow
  <2>3. /\ adapter'[store].busy = adapter[store].busy
        /\ adapter'[store].url = r.url /\ adapter'[store].login = r.login
        /\ adapter'[store].emits = adapter[store].emits
        /\ \A a \in Adapters : a # store => adapter'[a] = adapter[a]
    <3>1. adapter[store] \in Adapter /\ adapter'[store] = Closed(adapter[store], r)
      BY <1>2, <2>1 DEF TypeOK
    <3>2. \A a \in Adapters : a # store => adapter'[a] = adapter[a]
      BY <2>1 DEF TypeOK
    <3> QED
      BY <2>2, <3>1, <3>2, AdapterShapes
  <2> QED
    BY <1>0, <1>2, <2>1, <2>3 DEF SocketInv, OnePoller, TypeOK
<1>3. CASE r.enabled /\ store = 0
  <2>1. PICK a \in Adapters : /\ Gone(a) /\ adapter' = [adapter EXCEPT ![a] = Made(r)]
                              /\ store' = a /\ UNCHANGED poll
    BY <1>3 DEF Register
  <2>2. r \in Rows
    BY <1>3 DEF NoRow
  <2>3. /\ ~ adapter'[a].ticking /\ adapter'[a].url = r.url /\ adapter'[a].login = r.login
        /\ \A b \in Adapters : b # a => adapter'[b] = adapter[b]
    BY <2>1, <2>2, AdapterShapes DEF TypeOK
  <2>4. \A p \in Polls : poll[p].of # a
    BY <2>1 DEF Gone
  <2>5. 0 \notin Adapters
    BY DEF Adapters
  <2> QED
    BY <1>0, <1>3, <2>1, <2>3, <2>4, <2>5 DEF SocketInv, OnePoller
<1> QED
  BY <1>1, <1>2, <1>3

LEMMA StoppedKeepsSockets ==
  ASSUME TypeOK, SocketInv, store # 0, UNCHANGED <<store, poll>>,
         NEW b, adapter' = [adapter EXCEPT ![store] = b],
         b.busy = adapter[store].busy, b.emits = adapter[store].emits
  PROVE  SocketInv'
<1>1. adapter'[store] = b /\ \A a \in Adapters : a # store => adapter'[a] = adapter[a]
  BY DEF TypeOK
<1> QED
  BY <1>1 DEF SocketInv, OnePoller, TypeOK, Poll

LEMMA PollsKeepSockets ==
  ASSUME TypeOK, SocketInv, PollStep
  PROVE  SocketInv'
<1>0. /\ \A p \in Polls : poll[p].of \in Adapters \cup {0}
      /\ 0 \notin Adapters /\ UNCHANGED store
  BY DEF TypeOK, Poll, Adapters, PollStep, Tick, Answers, Fails, Handled
<1>1. ASSUME NEW a \in Adapters, NEW p \in Polls, Tick(a, p) PROVE SocketInv'
  <2>1. /\ adapter' = [adapter EXCEPT ![a].busy = TRUE] /\ ~ adapter[a].busy
        /\ adapter[a].ticking /\ poll[p] = NoPoll
        /\ poll' = [poll EXCEPT ![p] = [of |-> a, at |-> "reading", url |-> adapter[a].url,
                                        stray |-> FALSE]]
    BY <1>1 DEF Tick
  <2>2. /\ adapter'[a].busy /\ adapter'[a].ticking /\ adapter'[a].emits = adapter[a].emits
        /\ \A b \in Adapters : b # a => adapter'[b] = adapter[b]
    BY <2>1 DEF TypeOK, Adapter
  <2>3. /\ poll'[p].of = a /\ poll'[p].at = "reading"
        /\ \A q \in Polls : q # p => poll'[q] = poll[q]
    BY <2>1 DEF TypeOK
  <2>4. a = store /\ \A q \in Polls : poll[q].of # a
    BY <1>0, <2>1 DEF SocketInv, OnePoller
  <2> QED
    BY <1>0, <2>2, <2>3, <2>4 DEF SocketInv, OnePoller
<1>2. ASSUME NEW p \in Polls, poll[p].at # "none", Over(p) PROVE SocketInv'
  <2>1. poll[p].of \in Adapters
    BY <1>0, <1>2 DEF SocketInv
  <2>2. /\ poll'[p].of = 0 /\ poll'[p].at = "none"
        /\ \A q \in Polls : q # p => poll'[q] = poll[q]
    BY <1>2 DEF Over, NoPoll, TypeOK
  <2>3. \A b \in Adapters : /\ adapter'[b].emits = adapter[b].emits
                            /\ adapter'[b].ticking = adapter[b].ticking
                            /\ b # poll[p].of => adapter'[b] = adapter[b]
    BY <1>2, <2>1 DEF Over, TypeOK, Adapter
  <2>4. \A q \in Polls : q # p /\ poll[q].of # 0 => poll[q].of # poll[p].of
    BY <2>1 DEF SocketInv
  <2> QED
    BY <1>0, <2>1, <2>2, <2>3, <2>4 DEF SocketInv, OnePoller
<1>3. ASSUME NEW p \in Polls, poll[p].at = "reading", adapter[poll[p].of].emits,
             poll' = [poll EXCEPT ![p].at = "handling"], UNCHANGED adapter
      PROVE  SocketInv'
  <2>1. /\ poll'[p].of = poll[p].of /\ poll'[p].at = "handling"
        /\ \A q \in Polls : q # p => poll'[q] = poll[q]
    BY <1>3 DEF TypeOK, Poll
  <2>2. poll[p].of = store /\ poll[p].of # 0
    BY <1>3 DEF SocketInv
  <2> QED
    BY <1>0, <1>3, <2>1, <2>2 DEF SocketInv, OnePoller
<1> QED
  BY <1>1, <1>2, <1>3 DEF PollStep, Answers, Fails, Handled

LEMMA SocketsKept == TypeInv /\ SocketInv /\ [Next]_vars => SocketInv'
<1> SUFFICES ASSUME TypeInv, SocketInv, [Next]_vars PROVE SocketInv'
  OBVIOUS
<1> TypeOK
  BY DEF TypeInv
<1>1. ASSUME UNCHANGED sockets PROVE SocketInv'
  BY <1>1 DEF SocketInv, OnePoller, sockets
<1>2. ASSUME NEW r \in Rows \cup {NoRow}, Register(r) PROVE SocketInv'
  BY <1>2, RegisterKeepsSockets
<1>3. CASE Request
  <2>1. CASE Refresh
    <3>1. /\ adapter' = [adapter EXCEPT ![store] = Stopped(adapter[store])]
          /\ store # 0 /\ UNCHANGED <<store, poll>>
      BY <2>1 DEF Refresh
    <3>2. /\ Stopped(adapter[store]).busy = adapter[store].busy
          /\ Stopped(adapter[store]).emits = adapter[store].emits
      BY DEF Stopped, TypeOK, Adapter
    <3> QED
      BY <3>1, <3>2, StoppedKeepsSockets
  <2>2. CASE Delete
    BY <2>2, UnregisterKeepsSockets DEF Delete, Purged
  <2>3. ASSUME NEW r \in Rows, Create(r) PROVE SocketInv'
    BY <1>2, <2>3 DEF Create, Created
  <2>4. ASSUME NEW c \in Calls, Import(c) \/ Update(c) PROVE SocketInv'
    BY <1>1, <2>4 DEF Import, Update, Begin
  <2> QED
    BY <1>3, <2>1, <2>2, <2>3, <2>4 DEF Request
<1>4. ASSUME NEW c \in Calls, CallStep(c) PROVE SocketInv'
  <2>1. CASE AnnounceImport(c) \/ AnnounceUpdate(c)
    <3>1. call[c].row \in Rows
      BY <2>1 DEF TypeInv, GoodCall, AnnounceImport, AnnounceUpdate
    <3> QED
      BY <1>1, <1>2, <2>1, <3>1 DEF AnnounceImport, Created, AnnounceUpdate, Updated
  <2>2. CASE Insert(c) \/ ReadRow(c) \/ SaveRow(c)
    BY <1>1, <2>2 DEF Insert, ReadRow, SaveRow
  <2> QED
    BY <1>4, <2>1, <2>2 DEF CallStep
<1>5. CASE Reconnect
  <2>1. /\ adapter' = [adapter EXCEPT ![store].ticking = TRUE] /\ store # 0
        /\ UNCHANGED <<store, poll>> /\ store \in Adapters
    BY <1>5 DEF Reconnect, TypeOK
  <2>2. /\ adapter'[store].busy = adapter[store].busy
        /\ adapter'[store].emits = adapter[store].emits
        /\ \A a \in Adapters : a # store => adapter'[a] = adapter[a]
    BY <2>1 DEF TypeOK, Adapter
  <2> QED
    BY <2>1, <2>2 DEF SocketInv, OnePoller, TypeOK, Poll
<1>6. CASE PollStep
  BY <1>6, PollsKeepSockets
<1>7. CASE FirmwareStep
  BY <1>1, <1>7 DEF FirmwareStep, Expire, Ask, Told
<1>8. CASE Crash
  BY <1>8 DEF Crash, SocketInv, OnePoller, NewAdapter, NoPoll
<1>9. CASE Boot
  BY <1>2, <1>9 DEF Boot, TypeOK
<1>10. CASE UNCHANGED vars
  BY <1>1, <1>10 DEF vars
<1> QED
  BY <1>3, <1>4, <1>5, <1>6, <1>7, <1>8, <1>9, <1>10 DEF Next

LEMMA SocketsAlways == Spec => [](TypeInv /\ SocketInv)
<1>1. Init => SocketInv
  BY DEF Init, SocketInv, OnePoller, NewAdapter, NoPoll
<1> QED
  BY <1>1, TypesInitially, TypesKept, SocketsKept, PTL DEF Spec

(* Nothing polls a printer on behalf of an adapter the store has dropped.  *)
THEOREM OnePollerAlways == Spec => []OnePoller
<1>1. SocketInv => OnePoller
  BY DEF SocketInv
<1> QED
  BY <1>1, SocketsAlways, PTL

(* Handlers of readings run one at a time, but for those that outlived the *)
(* disabling of their printer.                                             *)
THEOREM HandlersApartAlways == Spec => []HandlersApart
<1>1. TypeInv /\ SocketInv => HandlersApart
  BY DEF TypeInv, TypeOK, Poll, SocketInv, HandlersApart
<1> QED
  BY <1>1, SocketsAlways, PTL

----------------------------------------------------------------------------
(* What follows the printer's row                                          *)

Busy(c) == call[c].op # "none"

(* Without calls across each other, one call is under way; an import finds *)
(* nothing of its printer, and an update announces the row it had merged.  *)
CallsFollow ==
    /\ \A c, d \in Calls : Busy(c) /\ Busy(d) => c = d
    /\ \A c \in Calls : call[c].op = "import" =>
         /\ cached = NoRow /\ store = 0
         /\ call[c].at = "insert" => life = "new"
         /\ call[c].at = "emit" => life = "there" /\ Announced = call[c].row
    /\ \A c \in Calls : call[c].op = "update" =>
         /\ life # "new"
         /\ call[c].at = "emit" /\ life = "there" => Announced = call[c].row

(* The process has the row, unless a call is about to announce it.         *)
Agree ==
    /\ cached = Announced
    /\ store # 0 <=> row.enabled
    /\ store # 0 => adapter[store].url = row.url /\ adapter[store].login = Announced.login

RowFollows == (\A c \in Calls : call[c].at # "emit" \/ life # "there") => Agree

MemoryFollows == store = 0 => ~ live /\ last # "polled"

ModelFollows ==
    /\ entry.at = "fresh" /\ ~ entry.late => entry.row = cached /\ cached # NoRow
    /\ \A f \in Fetches :
         fetch[f].at = "reading" /\ ~ fetch[f].late => fetch[f].row = cached /\ cached # NoRow

Followed == CallsFollow /\ RowFollows /\ MemoryFollows /\ ModelFollows
FollowInv == up /\ ~ overlap => Followed

(* An answered call, and one that moves a step on.                         *)
LEMMA AnsweredCall ==
  ASSUME TypeOK, NEW c \in Calls, Answered(c)
  PROVE  /\ call'[c].op = "none" /\ call'[c].at = "none"
         /\ \A d \in Calls : d # c => call'[d] = call[d]
BY DEF TypeOK, Call, Answered, NoCall

(* After the only call has been answered there is none.                    *)
LEMMA AnsweredFollows ==
  ASSUME TypeOK, NEW c \in Calls, Answered(c), \A d \in Calls : d # c => ~ Busy(d)
  PROVE  CallsFollow'
<1>1. \A d \in Calls : call'[d].op = "none"
  BY AnsweredCall DEF Busy
<1> QED
  BY <1>1 DEF CallsFollow, Busy

LEMMA CallMoves ==
  ASSUME TypeOK, NEW c \in Calls
  PROVE  /\ \A r \in Rows : call' = [call EXCEPT ![c].at = "emit", ![c].row = r]
              => /\ call'[c].op = call[c].op /\ call'[c].at = "emit" /\ call'[c].row = r
                 /\ \A d \in Calls : d # c => call'[d] = call[d]
         /\ \A r \in Rows : call' = [call EXCEPT ![c].at = "save", ![c].row = r]
              => /\ call'[c].op = call[c].op /\ call'[c].at = "save" /\ call'[c].row = r
                 /\ \A d \in Calls : d # c => call'[d] = call[d]
         /\ call' = [call EXCEPT ![c].at = "emit"]
              => /\ call'[c].op = call[c].op /\ call'[c].at = "emit"
                 /\ call'[c].row = call[c].row
                 /\ \A d \in Calls : d # c => call'[d] = call[d]
BY DEF TypeOK, Call, Answered, NoCall

(* After an announcement nothing older is fresh.                           *)
LEMMA InvalidatedModel ==
  ASSUME TypeOK, Invalidate
  PROVE  ModelFollows'
BY FetchShapes DEF TypeOK, Invalidate, ModelFollows, NoEntry

(* Without a call to announce, a printer that is not there is unknown.     *)
LEMMA AbsentIsUnknown ==
  ASSUME TypeInv, RowFollows, life # "there"
  PROVE  cached = NoRow /\ store = 0
BY AnnouncedShape DEF TypeInv, RowFollows, RowThere, Agree, NoRow

LEMMA RecordsFollow ==
  ASSUME TypeInv, SocketInv, FollowInv, Request \/ \E c \in Calls : CallStep(c)
  PROVE  FollowInv'
<1> SUFFICES ASSUME up', ~ overlap' PROVE Followed'
  BY DEF FollowInv
<1> TypeOK /\ RowThere /\ \A c \in Calls : GoodCall(c)
  BY DEF TypeInv
<1>0. UNCHANGED <<row, nulled>> => UNCHANGED Announced
  BY DEF Announced
<1> USE DEF Followed
<1>1. ASSUME NEW r \in Rows, Create(r) PROVE Followed'
  <2>1. /\ UNCHANGED <<live, last, call, up, overlap>> /\ cached' = r /\ row' = r
        /\ life = "new" /\ Register(r) /\ Invalidate /\ Announced' = r
        /\ \A c \in Calls : call[c].op # "import"
    BY <1>1 DEF Create, Created, memory, Importing, Announced, Rows
  <2>2. Followed /\ store = 0 /\ \A c \in Calls : call[c].op # "update"
    BY <2>1, AbsentIsUnknown DEF FollowInv, CallsFollow
  <2>3. CallsFollow'
    BY <2>1, <2>2 DEF CallsFollow, Busy
  <2>4. Agree'
    BY <2>1, RegisterKeepsSockets DEF Agree
  <2>5. MemoryFollows'
    BY <2>1, <2>2 DEF MemoryFollows
  <2> QED
    BY <2>1, <2>3, <2>4, <2>5, InvalidatedModel DEF RowFollows
<1>2. ASSUME NEW c \in Calls, Import(c) \/ Update(c) PROVE Followed'
  <2>1. /\ UNCHANGED <<life, row, Announced, cached, adapter, store, live, last, entry, fetch,
                       up>>
        /\ ~ overlap /\ \A d \in Calls : ~ Busy(d)
    BY <1>2, <1>0 DEF Import, Update, Begin, database, sockets, memory, firmware, Writing, Busy
  <2>2. /\ \A d \in Calls : d # c => call'[d] = call[d]
        /\ \/ call'[c].op = "import" /\ call'[c].at = "insert" /\ life = "new"
           \/ call'[c].op = "update" /\ call'[c].at = "get" /\ life = "there"
    <3>1. CASE Import(c)
      BY <3>1 DEF Import, Begin, TypeOK
    <3>2. CASE Update(c)
      BY <3>2 DEF Update, Begin, TypeOK
    <3> QED
      BY <1>2, <3>1, <3>2
  <2>3. Followed /\ Agree
    BY <2>1 DEF FollowInv, RowFollows, Busy, GoodCall
  <2>4. life = "new" => cached = NoRow /\ store = 0
    BY <2>3, AbsentIsUnknown
  <2>5. CallsFollow'
    BY <2>1, <2>2, <2>4 DEF CallsFollow, Busy
  <2>6. Agree' /\ MemoryFollows' /\ ModelFollows'
    BY <2>1, <2>3 DEF Agree, MemoryFollows, ModelFollows
  <2> QED
    BY <2>5, <2>6 DEF RowFollows
<1>3. CASE Delete
  <2>1. /\ UNCHANGED call /\ cached' = NoRow /\ row' = NoRow /\ store' = 0 /\ ~ overlap
        /\ life' = "deleted" /\ Invalidate /\ live' = FALSE /\ last' = "none" /\ up
        /\ \A c \in Calls : call[c].op # "import"
    BY <1>3 DEF Delete, Purged, Forget, Unregister, Spend, Importing
  <2>a. Announced' = NoRow
    <3>1. row'.login = FALSE
      BY <2>1 DEF NoRow
    <3>2. Announced' = [row' EXCEPT !.login = FALSE]
      BY <3>1 DEF Announced
    <3> QED
      BY <2>1, <3>2 DEF NoRow
  <2>2. CallsFollow'
    BY <2>1 DEF FollowInv, CallsFollow, Busy
  <2>3. Agree' /\ MemoryFollows'
    BY <2>1, <2>a DEF Agree, NoRow, MemoryFollows
  <2> QED
    BY <2>1, <2>2, <2>3, InvalidatedModel DEF RowFollows
<1>4. CASE Refresh
  <2>1. /\ UNCHANGED <<life, row, Announced, cached, store, last, entry, fetch, call, up, overlap>>
        /\ adapter' = [adapter EXCEPT ![store] = Stopped(adapter[store])] /\ store # 0
    BY <1>4, <1>0 DEF Refresh, database, firmware
  <2>2. adapter'[store].url = adapter[store].url /\ adapter'[store].login = adapter[store].login
    BY <2>1, AdapterShapes DEF TypeOK, Stopped, Adapter
  <2>3. Followed
    BY <2>1 DEF FollowInv
  <2>4. Agree => Agree'
    BY <2>1, <2>2 DEF Agree
  <2> QED
    BY <2>1, <2>3, <2>4 DEF CallsFollow, Busy, RowFollows, MemoryFollows, ModelFollows
<1>5. ASSUME NEW c \in Calls, Insert(c) PROVE Followed'
  <2>1. /\ UNCHANGED <<cached, adapter, store, live, last, entry, fetch, up, overlap>>
        /\ call[c].at = "insert" /\ call[c].op = "import"
    BY <1>5 DEF Insert, sockets, memory, firmware, GoodCall
  <2>2. Followed /\ life = "new" /\ \A d \in Calls : d # c => ~ Busy(d)
    BY <2>1 DEF FollowInv, CallsFollow, Busy
  <2>3. PICK r \in Rows : /\ life' = "there" /\ row' = r /\ Announced' = r
                          /\ call' = [call EXCEPT ![c].at = "emit", ![c].row = r]
    BY <1>5, <2>2 DEF Insert, Announced, Rows
  <2>4. /\ call'[c].op = "import" /\ call'[c].at = "emit" /\ call'[c].row = r
        /\ \A d \in Calls : d # c => call'[d] = call[d]
    BY <2>1, <2>3, CallMoves
  <2>5. CallsFollow'
    <3>1. cached' = NoRow /\ store' = 0
      BY <2>1, <2>2 DEF CallsFollow
    <3>2. \A d \in Calls : d # c => call'[d].op = "none"
      BY <2>2, <2>4 DEF Busy
    <3> QED
      BY <2>3, <2>4, <3>1, <3>2 DEF CallsFollow, Busy
  <2> QED
    BY <2>1, <2>2, <2>3, <2>4, <2>5 DEF RowFollows, MemoryFollows, ModelFollows
<1>6. ASSUME NEW c \in Calls, AnnounceImport(c) PROVE Followed'
  <2>1. /\ UNCHANGED <<life, row, Announced, live, last, entry, fetch, up, overlap>> /\ Answered(c)
        /\ cached' = call[c].row /\ Register(call[c].row) /\ call[c].row \in Rows
        /\ call[c].op = "import" /\ call[c].at = "emit"
    BY <1>6, <1>0 DEF AnnounceImport, Created, memory, database, firmware, GoodCall
  <2>2. /\ Followed /\ cached = NoRow /\ store = 0 /\ Announced = call[c].row
        /\ \A d \in Calls : d # c => ~ Busy(d)
    BY <2>1 DEF FollowInv, CallsFollow, Busy
  <2>3. CallsFollow'
    BY <2>1, <2>2, AnsweredFollows
  <2>4. Agree'
    BY <2>1, <2>2, RegisterKeepsSockets, AnnouncedShape DEF Agree
  <2>5. MemoryFollows' /\ ModelFollows'
    BY <2>1, <2>2 DEF MemoryFollows, ModelFollows
  <2> QED
    BY <2>3, <2>4, <2>5 DEF RowFollows
<1>7. ASSUME NEW c \in Calls, ReadRow(c) PROVE Followed'
  <2>1. /\ UNCHANGED <<life, row, Announced, cached, adapter, store, live, last, entry, fetch, up,
                       overlap>>
        /\ call[c].at = "get" /\ call[c].op = "update"
    BY <1>7, <1>0 DEF ReadRow, database, sockets, memory, firmware, GoodCall
  <2>2. /\ \A d \in Calls : d # c => call'[d] = call[d]
        /\ \/ call'[c].op = "update" /\ call'[c].at = "save"
           \/ call'[c].op = "none" /\ call'[c].at = "none"
    <3>1. \A patch \in Patches : life = "there" => Merged(row, patch) \in Rows
      BY MergedIsRow DEF RowThere
    <3> QED
      BY <1>7, <2>1, <3>1, CallMoves, AnsweredCall DEF ReadRow
  <2>3. Followed
    BY <2>1 DEF FollowInv
  <2>4. CallsFollow'
    BY <2>1, <2>2, <2>3 DEF CallsFollow, Busy
  <2>5. RowFollows'
    BY <2>1, <2>2, <2>3 DEF RowFollows, Agree
  <2> QED
    BY <2>1, <2>3, <2>4, <2>5 DEF MemoryFollows, ModelFollows
<1>8. ASSUME NEW c \in Calls, SaveRow(c) PROVE Followed'
  <2>1. /\ UNCHANGED <<life, cached, adapter, store, live, last, entry, fetch, up, overlap>>
        /\ call[c].at = "save" /\ call[c].op = "update"
        /\ call[c].row \in Rows /\ call' = [call EXCEPT ![c].at = "emit"]
    BY <1>8 DEF SaveRow, sockets, memory, firmware, GoodCall
  <2>a. IF life = "there" THEN Announced' = call[c].row ELSE UNCHANGED <<row, Announced>>
    <3>1. CASE life = "there"
      <4>1. row' = Written(call[c].row) /\ nulled' = (row' # call[c].row) /\ row \in Rows
        BY <1>8, <3>1 DEF SaveRow, RowThere
      <4> QED
        BY <2>1, <3>1, <4>1, WrittenIsRow
    <3>2. CASE life # "there"
      BY <1>8, <3>2 DEF SaveRow, Announced
    <3> QED
      BY <3>1, <3>2
  <2>2. /\ call'[c].op = "update" /\ call'[c].at = "emit" /\ call'[c].row = call[c].row
        /\ \A d \in Calls : d # c => call'[d] = call[d]
    BY <2>1, CallMoves
  <2>3. Followed /\ \A d \in Calls : d # c => ~ Busy(d)
    BY <2>1 DEF FollowInv, CallsFollow, Busy
  <2>4. CallsFollow'
    BY <2>1, <2>a, <2>2, <2>3 DEF CallsFollow, Busy
  <2>5. RowFollows'
    BY <2>1, <2>a, <2>2, <2>3 DEF RowFollows, Agree
  <2> QED
    BY <2>1, <2>3, <2>4, <2>5 DEF MemoryFollows, ModelFollows
<1>9. ASSUME NEW c \in Calls, AnnounceUpdate(c) PROVE Followed'
  <2>1. /\ UNCHANGED <<life, row, Announced, up, overlap>> /\ Answered(c) /\ call[c].row \in Rows
        /\ call[c].op = "update" /\ call[c].at = "emit"
    BY <1>9, <1>0 DEF AnnounceUpdate, database, GoodCall
  <2>2. Followed /\ \A d \in Calls : d # c => ~ Busy(d)
    BY <2>1 DEF FollowInv, CallsFollow, Busy
  <2>3. CASE life = "there"
    <3>1. /\ cached' = call[c].row /\ Register(call[c].row) /\ Invalidate
          /\ call[c].row.enabled => UNCHANGED <<live, last>>
          /\ ~ call[c].row.enabled => live' = FALSE /\ last' = "none"
      BY <1>9, <2>3 DEF AnnounceUpdate, Updated, Forget, memory
    <3>2. Announced = call[c].row
      BY <2>1, <2>2, <2>3 DEF CallsFollow
    <3>3. CallsFollow'
      BY <2>1, <2>2, AnsweredFollows
    <3>4. /\ store' # 0 <=> call[c].row.enabled
          /\ store' # 0 => /\ adapter'[store'].url = call[c].row.url
                           /\ adapter'[store'].login = call[c].row.login
      BY <2>1, <3>1, RegisterKeepsSockets
    <3>5. Agree' /\ MemoryFollows'
      BY <2>1, <3>1, <3>2, <3>4, AnnouncedShape DEF Agree, MemoryFollows
    <3> QED
      BY <3>1, <3>3, <3>5, InvalidatedModel DEF RowFollows
  <2>4. CASE life # "there"
    <3>1. UNCHANGED <<cached, adapter, store, live, last, entry, fetch>>
      BY <1>9, <2>4 DEF AnnounceUpdate, sockets, memory, firmware
    <3>2. CallsFollow'
      BY <2>1, <2>2, AnsweredFollows
    <3>3. RowFollows'
      BY <2>1, <2>2, <2>4, <3>1 DEF RowFollows, Agree
    <3> QED
      BY <2>2, <3>1, <3>2, <3>3 DEF MemoryFollows, ModelFollows
  <2> QED
    BY <2>3, <2>4
<1> QED
  BY <1>1, <1>2, <1>3, <1>4, <1>5, <1>6, <1>7, <1>8, <1>9 DEF Request, CallStep

LEMMA ProcessFollows ==
  ASSUME TypeInv, SocketInv, FollowInv, Reconnect \/ PollStep \/ FirmwareStep \/ Crash \/ Boot
  PROVE  FollowInv'
<1> SUFFICES ASSUME up', ~ overlap' PROVE Followed'
  BY DEF FollowInv
<1> TypeOK /\ RowThere /\ \A c \in Calls : GoodCall(c)
  BY DEF TypeInv
<1>0. UNCHANGED <<row, nulled>> => UNCHANGED Announced
  BY DEF Announced
<1> USE DEF Followed
<1>1. CASE Reconnect
  <2>1. /\ UNCHANGED <<life, row, Announced, cached, store, live, last, entry, fetch, call, up,
                       overlap>>
        /\ adapter' = [adapter EXCEPT ![store].ticking = TRUE]
    BY <1>1, <1>0 DEF Reconnect, database, memory, firmware
  <2>2. \A a \in Adapters : /\ adapter'[a].url = adapter[a].url
                            /\ adapter'[a].login = adapter[a].login
    BY <2>1 DEF TypeOK, Adapter
  <2>3. Followed /\ (Agree => Agree')
    BY <2>1, <2>2 DEF FollowInv, Agree, TypeOK
  <2> QED
    BY <2>1, <2>3 DEF CallsFollow, Busy, RowFollows, MemoryFollows, ModelFollows
<1>2. CASE PollStep
  <2>1. UNCHANGED <<life, row, Announced, cached, store, entry, fetch, call, up, overlap>>
    BY <1>2, <1>0 DEF PollStep, Tick, Answers, Fails, Handled, database, firmware
  <2>2. \A a \in Adapters : /\ adapter'[a].url = adapter[a].url
                            /\ adapter'[a].login = adapter[a].login
    <3>1. ASSUME NEW x, NEW b \in BOOLEAN, adapter' = [adapter EXCEPT ![x].busy = b],
                 NEW a \in Adapters
          PROVE  adapter'[a].url = adapter[a].url /\ adapter'[a].login = adapter[a].login
      BY <3>1 DEF TypeOK, Adapter
    <3> QED
      BY <1>2, <3>1 DEF PollStep, Tick, Answers, Fails, Handled, Over
  <2>3. Followed /\ (Agree => Agree')
    BY <2>1, <2>2 DEF FollowInv, Agree, TypeOK
  <2>4. MemoryFollows'
    <3>1. CASE store # 0
      BY <2>1, <3>1 DEF MemoryFollows
    <3>2. CASE store = 0
      <4>1. \A p \in Polls : /\ poll[p].at = "reading" => ~ adapter[poll[p].of].emits
                             /\ poll[p].at = "handling" => poll[p].stray
        BY <3>2 DEF SocketInv, TypeOK, Poll
      <4>2. UNCHANGED live /\ last' \in {last, "leftover"}
        BY <1>2, <4>1 DEF PollStep, Tick, Answers, Fails, Handled, memory
      <4> QED
        BY <2>3, <3>2, <4>2 DEF MemoryFollows
    <3> QED
      BY <3>1, <3>2
  <2> QED
    BY <2>1, <2>3, <2>4 DEF CallsFollow, Busy, RowFollows, ModelFollows
<1>3. CASE FirmwareStep
  <2>1. UNCHANGED <<life, row, Announced, cached, adapter, store, live, last, call, up, overlap>>
    BY <1>3, <1>0 DEF FirmwareStep, Expire, Ask, Told, database, sockets, memory
  <2>2. Followed
    BY <2>1 DEF FollowInv
  <2>3. ModelFollows'
    <3>1. CASE Expire
      BY <2>1, <2>2, <3>1 DEF Expire, ModelFollows, NoEntry
    <3>2. ASSUME NEW f \in Fetches, Ask(f) PROVE ModelFollows'
      <4>1. /\ cached # NoRow /\ entry' = [NoEntry EXCEPT !.at = "fetching"]
            /\ fetch' = [fetch EXCEPT ![f] = [at |-> "reading", row |-> cached, late |-> FALSE]]
        BY <3>2 DEF Ask
      <4>2. /\ entry'.at = "fetching" /\ fetch'[f].row = cached
            /\ \A g \in Fetches : g # f => fetch'[g] = fetch[g]
        BY <4>1 DEF TypeOK, NoEntry
      <4> QED
        BY <2>1, <2>2, <4>1, <4>2 DEF ModelFollows
    <3>3. ASSUME NEW f \in Fetches, Told(f) PROVE ModelFollows'
      <4>1. /\ entry' \in {[fetch[f] EXCEPT !.at = "fresh"],
                            [NoEntry EXCEPT !.at = "failed"]}
            /\ fetch' = [fetch EXCEPT ![f] = NoFetch] /\ fetch[f].at = "reading"
        BY <3>3 DEF Told
      <4>2. /\ entry'.at = "fresh" => entry'.row = fetch[f].row /\ entry'.late = fetch[f].late
            /\ fetch'[f].at = "none" /\ \A g \in Fetches : g # f => fetch'[g] = fetch[g]
        BY <4>1 DEF TypeOK, Fetch, NoFetch, NoEntry
      <4> QED
        BY <2>1, <2>2, <4>1, <4>2 DEF ModelFollows
    <3> QED
      BY <1>3, <3>1, <3>2, <3>3 DEF FirmwareStep
  <2> QED
    BY <2>1, <2>2, <2>3 DEF CallsFollow, Busy, RowFollows, Agree, MemoryFollows
<1>4. CASE Crash
  BY <1>4 DEF Crash
<1>5. CASE Boot
  <2>1. /\ ~ up /\ UNCHANGED <<row, live, entry, fetch, call>> /\ cached' = row
        /\ Register(row) /\ last' \in {"none", "seeded"} /\ nulled' = FALSE
    BY <1>5 DEF Boot, firmware
  <2>a. row \in Rows \cup {NoRow} /\ TypeOK'
    BY <1>5, ProcessTypes DEF TypeInv, TypeOK
  <2>b. Announced' = row
    <3>1. CASE row.login = TRUE
      <4>1. Announced' = [row EXCEPT !.login = TRUE]
        BY <2>1, <3>1 DEF Announced
      <4> QED
        BY <2>a, <3>1, <4>1, LoginKept
    <3>2. CASE row.login = FALSE
      <4>1. Announced' = [row EXCEPT !.login = FALSE]
        BY <2>1, <3>2 DEF Announced
      <4> QED
        BY <2>a, <3>2, <4>1, LoginKept
    <3> QED
      BY <2>a, <3>1, <3>2, LoginKept
  <2>2. /\ \A c \in Calls : call'[c].op = "none" /\ call'[c].at = "none"
        /\ ~ live' /\ entry'.at = "none" /\ \A f \in Fetches : fetch'[f].at = "none"
    BY <2>1 DEF TypeInv, DownInv, NoCall, NoEntry, NoFetch
  <2>3. Agree'
    BY <2>1, <2>a, <2>b, RegisterKeepsSockets DEF Agree
  <2> QED
    BY <2>1, <2>2, <2>3 DEF CallsFollow, Busy, RowFollows, MemoryFollows, ModelFollows
<1> QED
  BY <1>1, <1>2, <1>3, <1>4, <1>5

LEMMA FollowAlways == Spec => [](TypeInv /\ FollowInv)
<1>1. Init => FollowInv
  BY DEF Init, FollowInv
<1>2. TypeInv /\ SocketInv /\ FollowInv /\ [Next]_vars => FollowInv'
  <2> SUFFICES ASSUME TypeInv, SocketInv, FollowInv, [Next]_vars PROVE FollowInv'
    OBVIOUS
  <2>1. CASE UNCHANGED vars
    BY <2>1 DEF vars, database, sockets, memory, firmware, FollowInv, Announced, Followed,
                CallsFollow, Busy, RowFollows, Agree, MemoryFollows, ModelFollows
  <2> QED
    BY <2>1, RecordsFollow, ProcessFollows DEF Next
<1> QED
  BY <1>1, <1>2, SocketsAlways, PTL DEF Spec

(* With no call under way, all that follows the row follows it.            *)
LEMMA SettledAgrees ==
  ASSUME TypeInv, FollowInv, Settled
  PROVE  Followed /\ Agree
BY DEF TypeInv, GoodCall, FollowInv, Settled, Writing, Followed, RowFollows

(* The cache and the adapter are those of the row in the database, but for *)
(* a login that was to be cleared and that the row has kept.               *)
THEOREM RowFollowedAlways == Spec => []RowFollowed
<1>1. TypeInv /\ FollowInv => RowFollowed
  BY SettledAgrees DEF RowFollowed, Agree
<1> QED
  BY <1>1, FollowAlways, PTL

(* Nothing of a disabled or deleted printer is kept.                       *)
THEOREM DisabledForgotten == Spec => []DisabledIsForgotten
<1>1. TypeInv /\ FollowInv => DisabledIsForgotten
  BY SettledAgrees DEF DisabledIsForgotten, Agree, Followed, MemoryFollows
<1> QED
  BY <1>1, FollowAlways, PTL

(* The model that is kept was told by the printer as it is configured.     *)
THEOREM ModelCurrent == Spec => []ModelIsCurrent
<1>1. TypeInv /\ FollowInv => ModelIsCurrent
  BY SettledAgrees DEF ModelIsCurrent, Agree, Followed, ModelFollows
<1> QED
  BY <1>1, FollowAlways, PTL

----------------------------------------------------------------------------
(* Questions for the model                                                 *)

QuestionInv ==
    /\ OneQuestion
    /\ \A f \in Fetches : fetch[f].at = "reading" /\ ~ fetch[f].late => entry.at # "none"

LEMMA QuestionsKept == TypeInv /\ QuestionInv /\ [Next]_vars => QuestionInv'
<1> SUFFICES ASSUME TypeInv, QuestionInv, [Next]_vars PROVE QuestionInv'
  OBVIOUS
<1> USE DEF QuestionInv, OneQuestion
<1> TypeOK
  BY DEF TypeInv
<1>1. ASSUME UNCHANGED firmware PROVE QuestionInv'
  BY <1>1 DEF firmware
<1>2. ASSUME Invalidate PROVE QuestionInv'
  BY <1>2, FetchShapes DEF Invalidate, TypeOK
<1>3. ASSUME NEW f \in Fetches, Ask(f) PROVE QuestionInv'
  <2>1. /\ entry.at = "none" /\ entry' = [NoEntry EXCEPT !.at = "fetching"]
        /\ fetch' = [fetch EXCEPT ![f] = [at |-> "reading", row |-> cached, late |-> FALSE]]
    BY <1>3 DEF Ask
  <2>2. /\ entry'.at = "fetching" /\ \A g \in Fetches : g # f => fetch'[g] = fetch[g]
    BY <2>1 DEF TypeOK, NoEntry
  <2> QED
    BY <2>1, <2>2
<1>4. ASSUME NEW f \in Fetches, Told(f) PROVE QuestionInv'
  <2>1. /\ entry' \in {[fetch[f] EXCEPT !.at = "fresh"], [NoEntry EXCEPT !.at = "failed"]}
        /\ fetch' = [fetch EXCEPT ![f] = NoFetch]
    BY <1>4 DEF Told
  <2>2. /\ entry'.at # "none" /\ fetch'[f].at = "none"
        /\ \A g \in Fetches : g # f => fetch'[g] = fetch[g]
    BY <2>1 DEF TypeOK, Fetch, NoFetch, NoEntry
  <2> QED
    BY <2>2
<1>5. CASE Expire
  BY <1>5 DEF Expire, NoFetch
<1>6. CASE Crash
  BY <1>6 DEF Crash, NoFetch
<1>7. CASE Request
  BY <1>1, <1>2, <1>7 DEF Request, Create, Created, Import, Update, Begin, Delete, Purged, Refresh
<1>8. ASSUME NEW c \in Calls, CallStep(c) PROVE QuestionInv'
  BY <1>1, <1>2, <1>8 DEF CallStep, Insert, AnnounceImport, ReadRow, SaveRow, AnnounceUpdate,
                          Updated
<1>9. CASE Reconnect \/ PollStep \/ Boot
  BY <1>1, <1>9 DEF Reconnect, PollStep, Tick, Answers, Fails, Handled, Boot
<1>10. CASE UNCHANGED vars
  BY <1>1, <1>10 DEF vars
<1> QED
  BY <1>3, <1>4, <1>5, <1>6, <1>7, <1>8, <1>9, <1>10 DEF Next, FirmwareStep

(* Callers share one question for the model, unless the printer changed.   *)
THEOREM OneQuestionAlways == Spec => []OneQuestion
<1>1. Init => QuestionInv
  BY DEF Init, QuestionInv, OneQuestion, NoFetch
<1>2. QuestionInv => OneQuestion
  BY DEF QuestionInv
<1>3. Spec => []TypeInv
  BY TypesInitially, TypesKept, PTL DEF Spec
<1> QED
  BY <1>1, <1>2, <1>3, QuestionsKept, PTL DEF Spec

=============================================================================
