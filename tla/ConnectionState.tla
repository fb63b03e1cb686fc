-------------------------- MODULE ConnectionState --------------------------
(***************************************************************************)
(* One printer's record and everything the process derives from it: the    *)
(* PrinterCache, the polling adapters of PrinterSocketStore, the memory of *)
(* PrinterEventsCache, and the model that PrinterFirmwareCache has asked   *)
(* the printer for.  login tells whether the row has a username and a      *)
(* password; other ones stand for another address.                         *)
(***************************************************************************)
EXTENDS Naturals, FiniteSets

CONSTANTS
    Calls,       \* API calls that may be under way at once
    Urls,        \* addresses the printer may be given
    Rows0,       \* rows the printer may have when the server first starts
    MaxAdapters, \* bound on the adapters alive at once
    MaxPolls,    \* bound on the polls in flight at once
    MaxFetches,  \* bound on the questions for the model in flight at once
    MaxCalls     \* bound on calls, reconnects and crashes, together

ASSUME BoundsAssumption ==
    /\ MaxAdapters \in Nat /\ MaxPolls \in Nat /\ MaxFetches \in Nat /\ MaxCalls \in Nat
    /\ 0 \notin Urls

Adapters == 1 .. MaxAdapters
Polls == 1 .. MaxPolls
Fetches == 1 .. MaxFetches

VARIABLES
    life,     \* of the printer's row: ids are not handed out twice
    row,      \* the printer table: what the row says
    nulled,   \* ghost: the last update was to clear the login, and the row has kept it
    cached,   \* PrinterCache: the row as last announced, or NoRow
    adapter,  \* the adapters
    store,    \* printerSocketAdaptersById: the printer's adapter, or 0
    poll,     \* the polls in flight, each with the address it reads
    live,     \* PrinterEventsCache holds a live snapshot
    last,     \* lastPollState, by who set it
    entry,    \* PrinterFirmwareCache
    fetch,    \* its questions in flight
    call,     \* the calls of PrinterService, with the row they have merged
    up, budget,
    overlap   \* two calls wrote the row or announced it across each other

database == <<life, row, nulled>>
sockets == <<adapter, store, poll>>
memory == <<live, last>>
firmware == <<entry, fetch>>
vars == <<database, cached, sockets, memory, firmware, call, up, budget, overlap>>

Rows == [enabled : BOOLEAN, url : Urls, login : BOOLEAN]
ASSUME RowsAssumption == Rows0 \subseteq Rows

NoRow == [enabled |-> FALSE, url |-> 0, login |-> FALSE]

(* emits: eventEmittingAllowed; busy: pollInFlight.                        *)
NewAdapter == [url |-> 0, login |-> FALSE, ticking |-> FALSE, emits |-> TRUE, busy |-> FALSE]
NoPoll == [of |-> 0, at |-> "none", url |-> 0, stray |-> FALSE]
NoEntry == [at |-> "none", row |-> NoRow, late |-> FALSE]
NoFetch == [at |-> "none", row |-> NoRow, late |-> FALSE]
NoCall == [op |-> "none", at |-> "none", row |-> NoRow]

Adapter == [url : Urls \cup {0}, login : BOOLEAN, ticking : BOOLEAN, emits : BOOLEAN,
            busy : BOOLEAN]
Poll == [of : Adapters \cup {0}, at : {"none", "reading", "handling"}, url : Urls \cup {0},
         stray : BOOLEAN]
Entry == [at : {"none", "fetching", "fresh", "failed"}, row : Rows \cup {NoRow}, late : BOOLEAN]
Fetch == [at : {"none", "reading"}, row : Rows \cup {NoRow}, late : BOOLEAN]
Call == [op : {"none", "update", "import"}, at : {"none", "get", "save", "insert", "emit"},
         row : Rows \cup {NoRow}]

(* The types of the table, the copies and the caches.                      *)
TypeOK ==
    /\ life \in {"new", "there", "deleted"} /\ row \in Rows \cup {NoRow} /\ nulled \in BOOLEAN
    /\ cached \in Rows \cup {NoRow}
    /\ adapter \in [Adapters -> Adapter] /\ store \in Adapters \cup {0}
    /\ poll \in [Polls -> Poll]
    /\ live \in BOOLEAN /\ last \in {"none", "polled", "seeded", "leftover"}
    /\ entry \in Entry /\ fetch \in [Fetches -> Fetch]
    /\ call \in [Calls -> Call]
    /\ up \in BOOLEAN /\ budget \in Nat /\ overlap \in BOOLEAN

(* The server is about to start, with the printer in the table or not yet. *)
Init ==
    /\ \/ life = "new" /\ row = NoRow
       \/ life = "there" /\ row \in Rows0
    /\ nulled = FALSE
    /\ cached = NoRow
    /\ adapter = [a \in Adapters |-> NewAdapter] /\ store = 0
    /\ poll = [p \in Polls |-> NoPoll]
    /\ live = FALSE /\ last = "none"
    /\ entry = NoEntry /\ fetch = [f \in Fetches |-> NoFetch]
    /\ call = [c \in Calls |-> NoCall]
    /\ up = FALSE /\ budget = MaxCalls /\ overlap = FALSE

Spend == up /\ budget > 0 /\ budget' = budget - 1

=============================================================================
