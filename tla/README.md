# TLA+ models of the FDM printer server

The repository is a server (`src/server`, TypeScript on Node) and a web client
(`src/client`) for a farm of 3D printers that speak the PrusaLink HTTP protocol.
The server keeps a queue of print jobs per printer, sends the next file to a
printer when an operator asks for it, and follows what the printers do by polling
them. Files reach the queue through an inbox, and printers can be taken out of service
for maintenance. It runs in one process over one SQLite database. There is no parallelism in
it, but every `await` lets another handler run, the printers act on their own, and
a job's row is written by six parties: queue calls, background dispatches, the
poll observer, the boot task, the printer controls and the corrections of operators.
The analysis of files and their download from the printers write it too. That is what is
modelled, in five groups of modules: the **queue**, the **tracking** of prints, the
**inbox** with maintenance, the **connection** of a printer with the caches that follow its
record, and the **analysis** of files. The first two share the pure operators on rows; the
queue and the inbox share the lock.

Paths below are relative to `src/server/src`; `print-queue.service.ts` is in
`services/`, `print-job.service.ts` in `services/orm/`, `printer-events.cache.ts`
in `state/`.

## Inventory

| Part | State | Operations | Talks to | What is hard, and what must hold |
|---|---|---|---|---|
| Print queue (`print-queue.service.ts`) | rows of `print_job`; `dispatchLockByPrinterId`, `dispatchAbortersByPrinterId` | add, remove, reorder, clear, process next, submit, cancel dispatch, re-queue a cancelled file, reset at boot | database, PrusaLink client, live state of the poll observer, maintenance log | the lock covers the claim but not the dispatch, nor remove, clear and the outcome; whole rows are saved that were read earlier. One dispatch per printer; no STARTING row without a dispatch; one order of the queue; no job printed twice |
| Dispatch lock (`withPrinterLock`) | a `Map` from printer to the last promise of a chain | call | its callers | callbacks of settled promises run later; sections throw. Mutual exclusion, order, no leak |
| Background dispatch (`dispatchInBackground`) | STARTING row, AbortController, number of tries | wait for the printer, send, retry, write the outcome | PrusaLink client, observer through the row | nobody awaits it; it may be aborted at any await; the answer of the printer may be lost. It ends, with one outcome |
| Poll adapter and observer (`prusa-link-http-polling.adapter.ts`, `normalize-poll.ts`, `printer-events.cache.ts`, `print-job.service.ts`) | last poll state per printer, last live payload | one handler per poll: started, paused, resumed, completed, cancelled, failed, progress | rows of `print_job` | three reads make one poll and one of them may fail; answers are old when handled; edges are missed; labels depend on the firmware. The row follows the print: not closed early, closed in the end, and history is not reused |
| Printer controls (`printer.controller.ts`) | - | pause, resume, cancel with re-queue | PrusaLink client, rows, queue | the printer is told first, the row is found afterwards, the poll runs in between |
| Boot (`tasks/boot.task.ts`) | - | reset STARTING rows, heal maintenance, seed the poll state | database | what the process kept in memory is gone, the printers went on |
| Intake (`intake.service.ts`) | inbox items, staged files, per-item lock | upload, archive, dispatch, discard | file storage, jobs, queue | the file is moved before the database knows, every step can fail, two operators press at once. An item is resolved once, keeps its bytes until then, and retries leave one job |
| Job records (`print-job.service.ts`, `print-job.controller.ts`) | `print_job` | set-completed/failed/cancelled/unknown, delete with or without the file, re-analyse | file storage | whole-row saves against the observer's; a file goes when no other job refers to it |
| Analysis task, downloader (`tasks/print-job-analysis.task.ts`, `print-file-downloader.service.ts`) | analysis columns and files of rows; a batch of rows in memory | a run over the batch, re-analyse, download | storage, printers, observer | rows read before minutes of work are saved whole after it; files are deleted and the server stops meanwhile. Every analysis ends; the file that a job names is in storage; a job keeps its file |
| Maintenance log (`printer-maintenance-log.service.ts`) | logs, `printer.disabledReason` | create, complete, delete, reconcile at boot | printer service, queue, intake | check-then-insert; the log and the reason are saved one after the other and must agree, and operators write the reason too |
| Printer records (`printer.service.ts`) | rows of `printer` | create, update, import, delete; each announces by an event | caches, connections, observer | an update reads, merges, writes and announces a whole row, and what it announces is not always what it wrote; the table and all copies must agree afterwards |
| Printer connections (`printer-socket.store.ts`, `prusa-link-http-polling.adapter.ts`) | a `Map` of adapters; interval, credentials, `pollInFlight`, `eventEmittingAllowed` of each | make, close, drop, reopen every two seconds, poll | observer | polls and handlers are in flight when their adapter is closed or dropped. One adapter polls, with the row's address; handlers do not overlap; polling resumes |
| Firmware cache (`printer-firmware.cache.ts`) | model, age, question in flight | look up or ask, drop | printer, inbox | a late answer fills the entry of a printer that has changed; callers share one question |
| File storage | files by content id, folders | save, delete, move | jobs that refer to them | deletion against new references |
| Task manager, other caches, Socket.IO, authentication, YAML, releases, parsers, settings, floors, cameras, client | see `PROJECT.json` | | | not modelled, or later |

## Modules

```
FifoMutex    <--implements--  PrinterLock  <--  PrinterLockProofs
PrinterSlot  <--implements--  PrintQueue
    ^
    | Lock == INSTANCE
JobTable <-- QueueState <-- QueueOperations --+
  ^  ^            ^------- Dispatch ----------+--> PrintQueue <-- MCPrintQueue
  |  |            ^------- PrinterObserver ---+        ^
  | JobTableLemmas <---------------------- PrintQueueTypes <-- PrintQueueProofs
  |       ^------------------------- PrintTrackingProofs
  |                                          v
  +-- TrackingState <-- PollObserver --+-> PrintTracking <-- MCPrintTracking
          ^    ^------ JobControls ----+
     PrusaLinkPoll

FifoMutex
    ^
    | Mutex(i) == INSTANCE, one per item
InboxState <-- Intake -------+
    ^--------- StoredFiles --+--> Inbox <-- MCInbox
    ^--------- Maintenance --+      ^
                               InboxProofs

ConnectionState <-- PrinterSockets --+--> PrinterRecords --> Connections <-- MCConnections
           ^------- FirmwareCache ---+                            ^
                                                          ConnectionProofs

AnalysisState <-- AnalysisTask <-- FileDownloader <-- Analyses <-- MCAnalyses
                                                         ^
                                                   AnalysisProofs
```

An arrow points to the module that is extended, or on to the one that composes.

* **FifoMutex**: what a per-key lock promises. A line of callers, its head owns the
  lock, only the owner leaves, every owner leaves in the end.
* **PrinterSlot**: what claims and dispatches promise to the printer. One dispatch at a
  time has it; it is given back before another one takes it; a print of the server is
  started by the dispatch that has the printer.
* **PrinterLock**: `withPrinterLock` (`print-queue.service.ts:482-494`;
  `IntakeService.withItemLock` is the same code). The promises of the chain are the
  callers; `entry` is the Map entry. `Call` is the synchronous part, `Run`, `Settle`
  and `Cleanup` are the reaction, the settlement of the section (returned or thrown) and
  the `finally` callback, each a step of its own, so that calls come in between.
* **JobTable**: the rows of one printer and the pure operators on them: queue
  positions (`getMaxQueuePosition`, `shiftQueuePositions`, `compactQueuePositions`),
  the queries with their `ORDER BY` (ties are left open), and `handlePrintStarted`,
  `handlePrintCompleted`, `handlePrintCancelled` as operators from a table to the
  tables they can leave. Created rows, retries and stamps are bounded by `MaxJobs`,
  `Retries` and the number of actions.
* **QueueState**: the shared variables, the initial state and the helpers. `req[r]` is
  an API call with the copy of the row it has read, `bg[r]` the background dispatch it
  launched, `aborter` whose AbortController the map holds, `line` the lock.
* **QueueOperations**: `addToQueue` (alone, at the front, or for a file from the
  storage or from the printer), `removeFromQueue`, `clearQueue`, `reorderQueue`,
  `cancelDispatch`, and `POST job/cancel` with `requeueCancelledJobAtFront`.
* **Dispatch**: `processQueue`, `submitToPrinter`, `ensurePrinterIdle` (with the zombie
  row it closes), the flip to STARTING, and `dispatchInBackground` up to its `finally`.
* **PrinterObserver**: a printer that only starts, finishes and stops, one poll in flight, `onPrusaLinkPollMessage`, the
  expiry of the live state, crash, and boot (`resetStrandedDispatches`,
  `seedLastPollState`).
* **PrintQueue**: all of them together, `Spec`, the properties, and `Slot`, the mapping to
  PrinterSlot: the holder is the dispatch whose background work is not over.
* **MCPrintQueue**: values of the constants for TLC.

Tracking, the whole life of a print as the polls see it:

* **PrusaLinkPoll**: the phases of a print, the label and the link state that each
  firmware reports for them, and `normalizePrusaLinkPoll` (`normalize-poll.ts`). The phases
  are those of `prusa-buddy-simulator.ts`, with the `Aborting_` states as `ABORTING`,
  which still reads PRINTING.
* **TrackingState**: the variables, `Found` (the row a handler looks for) and `Written`
  (the status it writes). `job[j].run` and `printer.run` say which print of the printer a
  row stands for; nothing but the properties and `outdated` depends on them.
* **PollObserver**: the printer with its pauses, prompts, recoveries and errors; the reads
  of one poll; `Branch`, the decision of `onPrusaLinkPollMessage`; `Started` and `Wrote`,
  the handlers of `PrintJobService`; `Message`, all of it with the progress.
* **JobControls**: `job/pause`, `job/resume`, `job/cancel` with `syncJobStatusAfterAction` and
  the re-queue; the four corrections, the deletion; the dispatch reduced to what it
  does to its row (`Claim`, `Sent`, `Confirmed`, `SendFails`); crash and boot.
* **PrintTracking**: all of them, `Spec` and the properties. **MCPrintTracking**: values.

The inbox, with what it shares:

* **InboxState**: items, staged and stored files, jobs made from items, maintenance logs,
  the printer's reason and the calls. Two items may have one storage id (`FileOf`): ids
  are made from content, name and folder.
* **Intake**: `createFromUpload` and, under `withItemLock`, `archiveItem`, `dispatchItem` and
  `discardItem`, step by step with the failure of every step; the promotion of a file, its
  marker, `createPendingJob`, the update with the file, `addToQueue`, the deletion of the
  orphaned job. `withItemLock` is the code of `withPrinterLock`, so the line of an item is
  an instance of FifoMutex, which PrinterLock is shown to implement.
* **StoredFiles**: the deletion of a job with its file, after a count of the other
  jobs of the file.
* **Maintenance**: `create`, `complete`, `delete`, `reconcileActiveDisabledReasons`, and
  the reason given or cleared by hand (`updateDisabledReason`; a PATCH of the printer does
  the same).
* **Inbox**: all of them with crashes, `Spec` and the properties. **MCInbox**: values.

The connection of a printer:

* **ConnectionState**: the printer's row, the cached copy, the adapters with their
  intervals, the polls and questions in flight, and the observer's memory with who set it.
  A printer's id is used once (`life`), so a deleted one does not come back; an adapter
  that nothing refers to any more is free to stand for a new one. `login` says whether the
  row has a username and a password.
* **PrinterSockets**: `createOrUpdateSocket` and `deleteSocket` of the store, the reconnect
  task, `refresh-socket` and `batchConnectSocket`, and `pollOnce`: tick, reads, handler.
* **FirmwareCache**: `getOrFetch` with its shared question, answer, failure and expiry.
* **PrinterRecords**: `create`, `batchImport`, `update`, `delete` of PrinterService and what
  each event does to caches, sockets and memory. `update` writes `Written(r)` and announces
  `r`: a username or password that is null goes into the write as undefined, and the
  column stays (`printer.service.ts:92-93`).
* **Connections**: all of them with crash and boot (`loadPrinterSockets`, then
  `seedLastPollState`), `Spec` and the properties. **MCConnections**: values.

The analysis of files:

* **AnalysisState**: rows with their status, the state of their analysis and the file they
  name; `bytes` and `json`, the files and metadata in storage; `unseen`, the prints of which
  no poll has read PRINTING yet; `work[w]`, what the task or
  a handler does, with the row it has read. `Save` is `Repository.save`: it writes the
  whole row, and inserts one that was deleted meanwhile.
* **AnalysisTask**: `PrintJobAnalysisTask.run`, which reads its batch once (`todo`) and
  goes through it, `reAnalyzeJob` of a job with a file, and `handleFileAnalyzed`.
* **FileDownloader**: `Observe`, what the observer does on the edge to PRINTING, the request
  for the file after the look-up of the thumbnail, and `handleFileDownloadRequest`: the check for a file, the download, the
  corrected path, the duplicate by hash, storage, metadata, the link, and both error paths.
* **Analyses**: both with what else moves rows and files - jobs from the printer's storage,
  from the library and from uploads, prints that start or start again, pauses, completion,
  the deletion of a job with its file - and with crash and boot; `Spec` and the properties.
  A dispatch that saves PRINTING (`StartKnown`) and the observer's edge on a later poll
  (`SeeStart`) are steps apart; the server may stop between them, the print be paused before
  its first poll, or no poll fall between it and the print before. Boot seeds PRINTING, so
  that no edge follows.
  **MCAnalyses**: values.

A step is one awaited call together with the synchronous code after it, since Node
changes between handlers only at an `await`. Waits for a printer, a timer or a file are real
ones, during which anything may happen. A query of the database is answered in the same
turn (better-sqlite3 is synchronous), so two handlers come between each other's queries
only when they are started or woken together, as the repository's own tests of the
dispatch race start them, or when a query and a real wait alternate; the models take every
await as a change-over, as the code's comments and its locks do, which
includes these orders. Some await points are merged, all of them between queries that are
answered in the same turn and with nothing but microtasks between them: the queries of
`addToQueue` in `Enqueue` (`print-queue.service.ts:185-202`; a deletion between them would
insert the row again), the check, set-up and opening of an adapter in `Reconnect`
(`printer-socket.store.ts:105-111`), `setEvent` with the start of its handler in `Answers`,
and in Analyses the query and the save of what the observer, the queue and the uploads do to
a row. A save is a step of its own and writes
every column from the entity read before, as `Repository.save` does here. The boot
task is one step because the server listens only after it (`server.host.ts:32-40`).
PrintTracking is coarser in two places, to leave room for the printer's behaviour: a
handler's query and its save are one step, since PrintQueue already takes them apart; and
the first two reads of a poll are one step, so that only the read of the status, which
the Buddy firmware's state comes from and which may fail, is apart from them.
A definition marked "With a bug" is a plausible mistake in the definition below it; no
specification uses it, and it documents which mistake a property would catch.

## Runs

| Run | Instance | Shows |
|---|---|---|
| `lock` | 4 callers, calls without end | `MutualExclusion`, `ChainInv`, `NoLeak`, and that `PrinterLock` implements `FifoMutex`: callers are served in order, and every one is served |
| `claims` | 4 calls among process, cancel, from-file/from-usb-file; 1 retry; no observer; symmetric | `OneDispatchInFlight`, `QueuedPositionsDistinct`, and that `PrintQueue` implements `PrinterSlot` |
| `observed` | 2 calls among process, cancel dispatch, from-file; observer; 2 queued jobs, 3 rows; 1 crash; no retry | `TypeOK`, `StartingIsDispatched`, `InFlightNotQueued`, `QueuedHasPosition`, `DispatchSettles` |
| `operations` | any 2 of the 10 operations, 2 queued jobs, 1 print from the panel | `AborterIsLive`, `CallsReturn` |
| `tracking` | Einsy firmware; 1 queued job and a print from the panel, 1 hold, failing status reads; 1 call among pause, resume, cancel, two corrections and delete, or 1 crash; 4 rows | `TypeOK`, `NoEarlyClose`, `HistoryStays`, `SeenPrintsClose` |
| `inbox` | 2 uploads of the same content, one in the inbox already; 2 calls at once, 5 calls and crashes in all; 5 jobs, 3 logs | `TypeOK`, `OneJobPerItem`, `PendingHasBytes`, `QueuedFilesKept`, `MaintenanceShown`, `ResolvedOnce`, `CallsAnswered` |
| `connections` | a printer that exists or not, 2 addresses; 2 calls at once, 3 calls, refreshes and crashes in all; 3 adapters, 2 polls and 2 questions in flight | `TypeOK`, `OnePoller`, `RowFollowed`, `DisabledIsForgotten`, `HandlersApart`, `ModelIsCurrent`, `OneQuestion`, `PollsResume` |
| `analyses` | 2 jobs of the same content, one there already; 2 handlers beside the task; 3 requests, started prints and crashes in all | `TypeOK`, `NamedFilesThere`, `AnalysesEnd` |
| `cancelled_start` | process, cancel, a file on the printer | violates `CancelledNeverStarts` |
| `double_submit` | submit twice | violates `OneDispatchInFlight` |
| `requeue_taken` | Buddy firmware; 1 queued job, 1 cancel | violates `RequeuedKept` |
| `lost_link` | 2 handlers, 4 calls | violates `LinkKept` |

**Bounds.** Every operation works on one printer and its rows, and keys of the lock and
of the aborter map never meet, so one printer is enough. A race of this code needs two
calls and the dispatch of one of them; `claims` has four calls so that a second claim
meets a dispatch that retries, an abort and an addition at once. Two files tell apart
"the same file" from "another file" and an upload from a start on the printer. Four
rows let the queue hold two, the clone of a cancelled job and a row the observer
creates, three either of the last two; where the bound is reached, steps that insert a row
are disabled, which the `operations` run never needs for its calls to return. One retry of
two (`RETRY_DELAYS_MS`) has a first and a last try; `observed` has the last try only, which
leaves room for its liveness property, for which the symmetry of calls is not sound. One crash is followed by a boot on any
table the run reaches. All runs but `lock` set `CHECK_DEADLOCK FALSE`: calls and prints are bounded, so a
behaviour may end.

In `tracking` two prints are the least that tells a print from the next one, one hold gives
every phase once (a hold is what brings a print to PAUSED, BUSY, ATTENTION, ABORTING or
ERROR; recovering from it is free), and a fourth row is left for the clone of a
cancelled job or the row that the observer creates. A crash counts as a call; one call
suffices because the hazards of this code pair one writer with the observer. In `inbox` a
race needs two calls at once, and the longest story that matters takes five: a dispatch
that fails, a second one of the same item, a deletion with the file, the upload of the
same content and its dispatch; three logs let a log begin while another one ends.
The properties of the inbox hold with more items, jobs and calls: see the proofs.

In `connections` two addresses tell an old row from a new one. The longest stories take
three calls: disable, enable and change, or two updates with a crash. Three adapters let one be
in use while two dropped ones still have a poll; two polls and two questions are what it
takes for them to meet. Where no adapter, poll or question is free the step is disabled;
the proofs have no bound on any of them.

In `analyses` two jobs of the same content are what it takes to share a file, and two
handlers beside the task let two downloads, or a download and a deletion, cross. Three calls
make the stories that matter: a started print, a re-analysis and a deletion or a crash in
the middle of both. The task takes ten rows at a time (`take: 10`), more than there are. Two
passes of the same row by the task and a re-analysis need no further call. The proof has
no bound on jobs, files, handlers and calls.

**What is excused.** Some saves of this code are known to go wrong, and the model marks
them with variables that no handler reads. `outdated` (tracking): a row was
written from a reading that no longer held - a poll that is handled when the
printer has begun another print, a STARTING row that is adopted for a print from the
panel, a control that finds the row of an earlier print, an outcome of a dispatch
that is saved over a deletion or a correction. The behaviour ends there, so the
properties speak of everything up to that save and say which saves they are. `torn`
(inbox): an upload, promotion or resolution broke off between its effect on the disk or
the queue and the row that records it, for which the code has no recovery. `late`: a
job was given a file that was being deleted. `blanked`: the reason of
an active log was cleared, by hand or by the end of another log, and has not been set
since. `overlap` (connections): two calls were under way for the printer at
once, or it was deleted while it was being imported, so that the writes and the
announcements may come in different orders; the next boot reads the table again and ends
it. `late`, there too: the printer was changed while it was being asked for its model.
`nulled`: the last update was to clear the login and the row has kept it, so that the
copies, which must have the row as `Announced`, lack it until the next update or boot.
`late` (analyses): a file was erased while somebody had it, or a row that names it, in
hand, or it was named between the count of its jobs and the unlink. `missed`
(analyses): nobody will ask for the file of a print, because the server stopped between the
save of PRINTING and the first poll that reads it, during the look-up of the thumbnail or
during the download, because PAUSED was the first state read of the print, or because no
poll fell between it and the print before; no code begins it again, unless an operator
asks for the analysis.
Each of them is a hazard in `PROJECT.json`, at its line.

**Profiles.** The properties hold for some mixes of operations and not for others, and
`Ops` says which. The four violation runs are the smallest mixes that break them, each
with the comment or test it contradicts in `PROJECT.json`. More limits were found
the same way and have no run of their own: when the answer to the last start command is
lost, the job goes back to the queue while the printer prints it
(`print-queue.service.ts:833`), which the server cannot know; `handleFileAnalyzed` takes a
status back that changed after it read the row (`print-job.service.ts:193`), and so does a
download, after minutes; `StartingIsDispatched` fails with `reorder` or `remove` among
the calls, which may save a STARTING row after its dispatch has settled
(`print-queue.service.ts:368`); `SeenPrintsClose` holds for the Einsy firmware,
whose link state comes with `/api/printer`, and not for the Buddy firmware when the
status read of a poll fails, which leaves the neutral label OPERATIONAL as last state
(`normalize-poll.ts:66`); `QueuedHasPosition` fails when a job outside
the queue is submitted and its dispatch fails (`print-queue.service.ts:829-833`
makes it QUEUED with a null position), and also with a cancel print beside the observer:
the observer takes the new row of a from-file call for the print on the printer, the cancel
reads that row, the call queues it, a claim makes it STARTING, the cancel saves what it has
read as CANCELLED without a position, and the dispatch that then fails queues the row as it
is. `QueuedPositionsDistinct` fails when an addition at the front, as also a cancel print
makes it, meets the unlocked save of an outcome (`:814-824`), when a crash falls between the
compaction and that save, between the saves of a reorder, and, with the observer, when a
claim that has read its row before the compaction goes on because the row of the print
counts as a zombie. `OneDispatchInFlight` is checked without the observer by TLC
and proved without it: if the answer to an upload outlives the print, the
observer completes the row and the next claim starts while the first dispatch still waits
for that answer. With `remove`, `clear`, or `add` of a job that is there it fails too, because
each of them takes a STARTING row away from the idle check. The theorems on the queue
name in their hypothesis the operations that may run; TLC has a counterexample for each of
the others (see Proofs).

**Fairness.** Queue: weak fairness of the next step of each call, of each dispatch and of
`Boot`. Promise reactions always run; every request to the printer has a timeout
(`services/prusa-link/prusa-link.api.ts:668` for uploads), and
`waitForPrinterReady` gives up after 90 seconds; the service is restarted after a crash
(`Restart=on-failure` in the repository's README). Nothing is assumed of users, of the
printer or of the polls. Tracking: weak fairness of the next step of the poll, which an
interval starts every few seconds and whose requests have timeouts, and of `Boot`; nothing
of the printer, the operators or the dispatch, so a print may last for ever. Inbox: weak
fairness of the next step of each call (database and disk answer) and of `Boot`; a call in
line gets its turn because those before it finish. Connections: weak fairness of the next
step of each call, of the reconnect task and of the polls (both are timers, requests have
timeouts, the handler's files and rows answer), and of `Boot`. No printer has to answer:
a poll may always fail, and no question for the model has to be asked. Analyses: weak
fairness of the next step of the task (an interval of 30 seconds, of which one run is under
way at a time), of each handler (a download is cut off after 30 seconds without data and
after 15 minutes; storage and parser answer or throw), of the observer's look at a print that
began (polls come every few seconds; of a printer that does not answer nothing is promised,
and the server may stop before it), and of `Boot`.

## Proofs

TLAPS proves, for every value of the constants that satisfies the named assumptions:

* `PrinterLockProofs`: `TypeCorrect`, `ChainIsInvariant`, `LockExclusive`,
  `EntryRemoved`, `LockServesInOrder`. Mutual exclusion is not inductive: a second caller
  could be started by a chain that forks. `ChainInv` is: pending callers form one chain
  without forks, the Map entry is its end, and only one pending caller waits for nobody.
  `NoLeak` needs that a Map entry is always somebody's unfinished callback (`EntryInUse`).
  `LockServesInOrder` is the safety part of `ImplementsFifoMutex`, which TLC checks whole. The
  refinement mapping reads the line off the chain; `LineInv` says that this line is the
  pending callers, each once, each waiting for the one before it, and a step of the chain
  appends to it, takes its head off or leaves it alone. That every pending caller has a
  place rests on a least counterexample (`LeastNatural`), not on an induction theorem.
* `JobTableLemmas`: what the table operators return and preserve.
* `PrintQueueTypes`: `TypeCorrect`. `TypeOK` is not inductive, because a call writes back
  the row and the id it holds: `TypeInv` adds that a call in a step that needs a job has
  one (`GoodCall`) and a dispatch in progress too (`GoodBackground`). It holds for all ten
  operations, with observer and crashes.
* `PrintQueueProofs`, for any number of calls, jobs, retries, crashes and panel prints.
  `AborterLive` holds for all ten operations. The other theorems leave out the operations,
  observer and crashes for which TLC finds a counterexample, and no others:

  | Theorem | Hypothesis | Operations | Observer | Crashes |
  |---|---|---|---|---|
  | `NoneStranded` | `NoOldStatus` | all but remove, reorder | yes | yes |
  | `NotQueuedTwice` | `NoRequeue` | all but add, add at the front, submit | yes | yes |
  | `EveryJobInLine` | `KeepsPlaces` | process, cancel dispatch, from-file, reorder | yes | yes |
  | `ClaimsExclusive`, `SlotImplemented` | `Undisturbed` | process, cancel dispatch, from-file, cancel print, reorder | no | yes |
  | `OneOrder` | `Serial` | process, cancel dispatch, from-file | no | no |

  (Cancel print is left out of `EveryJobInLine` only because of the observer; what breaks
  the others is in "Profiles".)

  `NoneStranded`: a row is STARTING only while a dispatch has it. `StrandInv` says what keeps
  a save from bringing STARTING back: an addition saves QUEUED whatever it read, every other
  save of these operations and of the observer writes a status of its own, the claim spawns
  its dispatch in the step that writes STARTING, and a crash, which ends the dispatches, is
  followed by the recovery at boot. Remove and reorder write back the status they have read.

  `NotQueuedTwice`: `FlightInv` follows the calls that will queue or dispatch a row
  (`Wanting`): a claim and a reorder of a queued row hold the lock and their row is not in
  flight, an addition has a row that no other call wants, and a dispatch has its row for
  itself (`OneSends`). With that every way into the queue begins with a row that nobody
  sends, or is the end of its own dispatch.

  `EveryJobInLine`: `PlaceInv` adds the positions in every copy that will be saved - of a
  claim, an addition, a dispatch, a recovery - because a row that is STARTING must keep the
  position with which a failure will queue it again; it uses `FlightInv` to know that
  nobody else writes that row.

  `ClaimsExclusive` (one dispatch at a time) and `SlotImplemented` (every step of Spec is
  one of PrinterSlot or leaves it alone, so no dispatch that is over starts a print) rest
  on `ExclusiveInv`, beside `FlightInv`: a dispatch that has not settled has a STARTING
  row, so it counts as busy; a claim that has passed the idle check holds the lock, and no
  dispatch is in progress; a cancel print and a reorder write rows that no dispatch has, or
  write back the status that the row has (`StopRow`, `SortRow`). A reorder can still save an
  old STARTING over a row whose dispatch has ended: the queue then waits until the next boot, as the
  limit of `StartingIsDispatched` above says, but no second dispatch begins. The lock enters
  through `Lock!Owns`: two calls past `waiting` are the same call.

  `OneOrder`: no two QUEUED rows share a position. The
  invariant is that every row but one has a slot of its own: the exception is the row whose
  gap `compactQueuePositions` has closed and whose dispatch is about to clear its position,
  and while there is such a row no claim passes. What a call has read of a position under the lock
  still holds when it saves.
* `PrintTrackingProofs`, for both firmwares and every mix of calls: `TrackingTypeCorrect`;
  `FinishedRowsStay` (a step never takes a row that has ended for another print, whatever
  stale saves came before); `NoPrintClosedEarly`, up to the first stale save (`outdated`).
  For the last, `PrintInv` says what the parties may know: no row, poll or dispatch knows
  of a print that has not begun; a STARTING row is the dispatch's; what is known of the
  current print names its file; and a print that has been seen at rest rests.
* `InboxProofs`: `TypesAndLock` (types, the data each step of a call relies on, and that a
  call past "wait" is the head of its item's line), hence `InboxTypeCorrect` and
  `ItemsResolvedOnce`. Then `PendingItemsHaveBytes` and `OneJobForAnItem`, whose inductive forms
  `BytesInv` and `JobsInv` follow one dispatch through its failures: a promotion finds its
  staged file, the steps after it find the marker, and a job of a pending item
  belongs to the dispatch that is making it. `MaintenanceIsShown` (every active log is
  shown, or its reason is about to be written or healed, or it was cleared by hand or by the
  end of another log and none was set since) and `QueuedJobsKeepFiles` (who
  counts a file's jobs is still the last to have counted, or is marked `late`).
* `ConnectionProofs`, for any number of calls, addresses, adapters, polls, questions and
  crashes: `ConnectionTypeCorrect`; from `SocketInv` (a poll keeps its adapter busy, no two
  share one, and only the store's adapter ticks and emits) `OnePollerAlways` and
  `HandlersApartAlways`; from `FollowInv` (one call at a time, an update announces the row it has
  merged, which is the row it wrote but for a login that should have gone, an import finds
  nothing of its printer; otherwise cache, adapter and the row as `Announced` agree)
  `RowFollowedAlways`, `DisabledForgotten` and `ModelCurrent`; and `OneQuestionAlways`.
* `AnalysisProofs`: `TypesCorrect` and `NamedFilesStay`. That a named file is there is not
  inductive: a row may come back from a worker that read it long ago, and a deletion may
  be about to unlink. `FilesInv` says of every copy in a worker's or the task's hands what
  the property says of the rows (`HandsKept`), and of a deletion past its count that nobody
  names its file but those marked `late` (`NobodyNames`); `Placed` gives each worker the
  operation and data that its step relies on.

Only model-checked: liveness (`DispatchSettles`, `CallsReturn`, `SeenPrintsClose`,
`CallsAnswered`, `PollsResume`, `AnalysesEnd`, and that every caller of the lock is served,
in `ImplementsFifoMutex`), which needs fairness and ENABLED. Every other property of a
passing run is stated by a theorem.

## Abstractions and what is not modelled

* Times are choices: the 90 s wait, the 120 s age of the live state and retry delays
  may end whenever they can. `startedAt` keeps its order only.
* A job is its status, position, start order, file, and whether `usbFilePath` is set.
  File names of the firmware (8.3) are not: a poll reports the file itself.
* `Refused` stands for the maintenance and connection checks, which may refuse
  a call at any time they are made.
* PrinterObserver, next to the queue's own steps, takes the observer's queries on one
  answer as one step and has neither pauses, prompts nor progress; PollObserver has
  them. The clean-up of the temporary folder on the printer and the fallback search of
  folders are not modelled.
* `SendFails` is final for a transfer in progress because `uploadFile` wraps every such
  error (`prusa-link.api.ts:752-818`) in one that `isTransientDispatchError` does not
  recognise; `SendRetried` covers the requests before the transfer and `startPrint`.
* Inbox: an item is its state, its staged and stored bytes and its job. `Refuse` stands for
  the compatibility checks, which may refuse any dispatch. `markResolved` and the deletion
  of an orphaned job may fail; the code only logs the latter. Folders,
  thumbnails, metadata files and what the file browser deletes are not modelled:
  no job is looked at there. The printer's row passes its validation: an update that throws
  would leave a log without its reason until the next boot.
* Tracking: of a printer's screen only the phases of `prusa-buddy-simulator.ts`; of a row
  only its status, file, start order and print. The saves of the analysis task, of
  re-analysis and of the file downloader are modelled in Analyses, not beside the polls.
* Analyses: the newest of several duplicates is the job with the highest number; COMPLETED
  stands for every status a row ends in; the task takes all rows of its query, which are
  fewer than its limit. Uploads, jobs from files, and what observer and queue do to a row are
  one step each. Thumbnails, errors of the database, the search for a file on the printer
  (it succeeds or fails), a printer that is not in the cache, and deletions in the file
  browser, which look at no job, are left out.
* Connections: one printer, since nothing is shared between two but the loop that goes over
  them. An address stands for URL and API key and tells one pair of username and
  password from another; `login` is that there is one; there is one printer type; the other
  columns of the row are one column (`name`) that a patch may touch. A patch touches one of
  these fields; the dialog that edits a printer sends several at once, which is left
  out to keep the run small. A failed question for the model
  keeps nothing but that it failed. `socketState` and `apiState`,
  which only clients see and `isPrinterConnected` reads, and the thumbnail cache
  are left out. `create` and `delete` are one query and their announcement.
* Parsers, authentication, users, settings, floors, cameras, YAML, releases, task
  manager, Socket.IO and the client: data formats, single-table CRUD or pure I/O.

## Plan

Done: the lock; the queue with its dispatches; the tracking of prints; the inbox with
deletions and maintenance; connections with the caches that follow the printer's row; the
analysis and download of files; and the safety proofs above. Left, in this order:

1. `isPrinterConnected` and the `socketState` it reads while a poll is opening, in
   Connections, and then as the guard of a claim instead of a choice.
2. Deletion of jobs in PrintQueue, where a dispatch may still hold one.
3. Compatibility of a file with the printer's model as a pure operator, with the firmware
   cache as its input (`null` fails open), and job statistics.
4. Proofs: what holds of the positions when crashes, cancel print and the observer are
   there too (a queued row shares its position with one row at most), found with TLC first.
