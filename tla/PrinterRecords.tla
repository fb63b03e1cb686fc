--------------------------- MODULE PrinterRecords ---------------------------
(***************************************************************************)
(* PrinterService: calls that write the printer's row and announce it.     *)
(* Everything the process derives from the row follows the announcement.   *)
(***************************************************************************)
EXTENDS PrinterSockets, FirmwareCache

Writing == \E c \in Calls : call[c].op # "none"
Importing == \E c \in Calls : call[c].op = "import"

(* What one call hands to repository.update: one field, or another column. *)
Patches == [enabled : BOOLEAN] \cup [url : Urls] \cup [login : BOOLEAN] \cup {[name |-> TRUE]}

(* With a bug: fields that the caller leaves out are lost.                 *)
MergedOnly(r, patch) == [f \in DOMAIN r \cap DOMAIN patch |-> patch[f]]
(* Object.assign of the patch to the row that was read.                    *)
Merged(r, patch) ==
    [f \in DOMAIN r |-> IF f \in DOMAIN patch THEN patch[f] ELSE r[f]]

(* A username or password that is null goes into the write as undefined,   *)
(* and the column is left as it is.                                        *)
Written(r) == [r EXCEPT !.login = @ \/ row.login]

(* With a bug: the snapshot goes, the observer's memory stays.             *)
ForgetSnapshot == live' = FALSE /\ UNCHANGED last
(* Nothing that was read from the printer is kept.                         *)
Forget == live' = FALSE /\ last' = "none"

(* printerUpdated: the caches, the sockets and the observer hear of it.    *)
Updated(r) ==
    /\ cached' = r
    /\ Register(r)
    /\ IF r.enabled THEN UNCHANGED memory ELSE Forget
    /\ Invalidate

(* printerCreated; an import announces with batchPrinterCreated, to which  *)
(* PrinterFirmwareCache does not listen.                                   *)
Created(r) ==
    /\ cached' = r
    /\ Register(r)
    /\ UNCHANGED memory

(* printersDeleted.                                                        *)
Purged ==
    /\ cached' = NoRow
    /\ Unregister
    /\ Forget
    /\ Invalidate

----------------------------------------------------------------------------

Begin(c, op, at) ==
    /\ Spend
    /\ call[c] = NoCall
    /\ call' = [call EXCEPT ![c] = [op |-> op, at |-> at, row |-> NoRow]]
    /\ overlap' = (overlap \/ Writing)
    /\ UNCHANGED <<database, cached, sockets, memory, firmware, up>>

Answered(c) == call' = [call EXCEPT ![c] = NoCall]

(* create: the row is saved and announced.                                 *)
Create(r) ==
    /\ Spend /\ life = "new" /\ ~ Importing
    /\ life' = "there" /\ row' = r /\ nulled' = FALSE
    /\ Created(r)
    /\ Invalidate
    /\ UNCHANGED <<call, up, overlap>>

(* batchImport: every row of the import is saved before they are announced *)
(* together.                                                               *)
Import(c) == life = "new" /\ Begin(c, "import", "insert")

Insert(c) ==
    /\ call[c].at = "insert"
    /\ IF life = "new"
       THEN \E r \in Rows :
              /\ life' = "there" /\ row' = r /\ nulled' = FALSE
              /\ call' = [call EXCEPT ![c].at = "emit", ![c].row = r]
       ELSE Answered(c) /\ UNCHANGED database
    /\ UNCHANGED <<cached, sockets, memory, firmware, up, budget, overlap>>

AnnounceImport(c) ==
    /\ call[c].op = "import" /\ call[c].at = "emit"
    /\ Created(call[c].row)
    /\ Answered(c)
    /\ UNCHANGED <<database, firmware, up, budget, overlap>>

(* update: the row is read, merged and validated, written but for a login  *)
(* that is cleared, and announced as it was merged if it is still there.   *)
Update(c) == life = "there" /\ Begin(c, "update", "get")

ReadRow(c) ==
    /\ call[c].at = "get"
    /\ IF life = "there"
       THEN \E patch \in Patches :
              call' = [call EXCEPT ![c].at = "save", ![c].row = Merged(row, patch)]
       ELSE Answered(c)
    /\ UNCHANGED <<database, cached, sockets, memory, firmware, up, budget, overlap>>

SaveRow(c) ==
    /\ call[c].at = "save"
    /\ IF life = "there"
       THEN row' = Written(call[c].row) /\ nulled' = (row' # call[c].row)
       ELSE UNCHANGED <<row, nulled>>
    /\ call' = [call EXCEPT ![c].at = "emit"]
    /\ UNCHANGED <<life, cached, sockets, memory, firmware, up, budget, overlap>>

AnnounceUpdate(c) ==
    /\ call[c].op = "update" /\ call[c].at = "emit"
    /\ IF life = "there" THEN Updated(call[c].row)
                         ELSE UNCHANGED <<cached, sockets, memory, firmware>>
    /\ Answered(c)
    /\ UNCHANGED <<database, up, budget, overlap>>

(* delete: the row goes and is announced gone.                             *)
Delete ==
    /\ Spend /\ life = "there"
    /\ life' = "deleted" /\ row' = NoRow /\ nulled' = FALSE
    /\ Purged
    /\ overlap' = (overlap \/ Importing)
    /\ UNCHANGED <<call, up>>

CallStep(c) ==
    Insert(c) \/ AnnounceImport(c) \/ ReadRow(c) \/ SaveRow(c) \/ AnnounceUpdate(c)

=============================================================================
