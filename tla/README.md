# LogComparator: specifications, model checking and proofs

LogComparator reads the audit and Tango logs of a payment switch, groups them
into transactions, checks the ISO, SPDH and EMV messages of each, and lists,
opens, compares and exports them in a web interface.  Many browser sessions
share one process, one parser and several caches, while the log files grow under
it, locally or on a remote server.  This directory holds TLA+ modules of the
parts where that can go wrong, TLC configurations that check them, and TLAPS
proofs of the most important facts for every size of the system.

Contents: [1 The system](#1-the-system), [2 Modules](#2-modules),
[3 Runs](#3-runs), [4 Fairness](#4-fairness), [5 Proofs](#5-proofs),
[6 What is left out](#6-what-is-left-out),
[7 Disagreements](#7-disagreements-of-code-and-text), [8 Plan](#8-plan).
Line numbers are of the files under `src/`; in a module's comments, of the file
its header names.

## 1. The system

| Component (source) | State it keeps | Operations | Hard behaviour | Correct when |
| --- | --- | --- | --- | --- |
| Bank loading service (`web_services.py` 24-66, 238-411, 432-447) | `CORE_LOCK`, `foreground_requests`, `FOREGROUND_PENDING`, `SCAN_CACHE`, `LOADED_CACHE` | `load_logs`, `_load_logs`, `prepare_bank_results`, `export_logs`, `foreground_request` | sessions and jobs race for one lock; files change between a stat and a read; results are cached under a signature; jobs are interrupted at checkpoints | rows are at least as new as the files were when they were asked for; sessions come before jobs; both end |
| Local preparation (`LocalAuditJob`, 215-235) | a thread, a cancel event, a done event | prepare the other banks of the day | gives way to sessions, tries again, ends | ends with every bank tried |
| Parser caches (`log_core.py` 1194-1242, 1325-1390, 1459-1485) | `AUDIT_BLOCK_LOCATION_CACHE`, `AUDIT_BLOCK_TEXT_CACHE`, `FILE_TEXT_CACHE` | scan; read blocks again for an export | a file grows while it is scanned; an index outlives the file it was made from | an export has what the list and its own summary showed |
| Parse pipeline (`log_core.py` 1393-1485) | a pool of processes, a window of pending batches | split audits into batches, parse in parallel, add in order | order, bounded window, workers that die, cancellation | the same result as a sequential scan, or none |
| Transactions (`log_core.py` 82-335, 849-1059) | one `Transaction` per UID | `add`, `resolve_missing_uid`, `select_*` | one UID in several files and batches; order of merging | a row does not depend on the order of its audits |
| Text scanners (`log_core.py` 1247-1323, 1491-1523; `web_app.py` 123-142; `transaction_view.js`) | none | find blocks, search Tango lines, page a log | pieces that end within a line or a character | the same as read in one piece |
| Block parsers (`log_core.py` 34-118, 353-836) | none | `parse_block` for the export, `parse_block_for_list` for the list | two parsers of the same text | a row says what its log says |
| Exports (`log_core.py` 1008-1018, 1660-2007; `export_logs`, `publish_exports`) | output files | select blocks and Tango lines, write them | names collide; copies replace one another | each transaction has a file of its own with exactly its blocks |
| Source names (`log_core.py` 2088-2322; `remote_logs.py` 201-264; `web_services.py` 83-102, 195-247) | none | list, offer, load and watch the files of a day and bank | five places take names apart | what is offered is loaded, and watched |
| Workspace of a session (`web_app.py` 378-700, 910-1096, 1351-1356) | loaded rows, selected bank, pending bank, source folders, day, watcher, job, table | select a bank, import, live update, timers | handlers interleave at every `await`; a request arrives while another runs | table, label, folders, job and selection belong together; what waits is served |
| Previews and comparisons (`web_app.py` 123-264, 701-743) | `PREVIEW_SOURCES`, `PREVIEW_TASKS`, `PREVIEW_DOWNLOADS`, `PREVIEW_SAVES`, `COMPARISONS` | open, page, download, save, compare | bounded tables with different eviction orders that refer to one another | links show what the session shows; a preview is made once and again after a failure, a comparison again only after an error was answered |
| Remote listing and import (`web_app.py` 976-1096; `remote_logs.py` 82-242) | the dialog, one connection, the host key that was seen | list, retry, pick a day and a bank, import | timeouts at every layer; another host answers the address; double clicks | files of one host only; no login repeated after a refusal; a way on |
| Remote mirrors (`remote_logs.py` 296-311, 414-679) | mirrored files, stamps, staging files | mirror continuously or once | partial transfers, rotation, coarse times, reconnects, cancellation | the parser sees a start of one content, and in the end all of it |
| Archives in memory (`source_memory.py`; `_read_archive`) | groups of decompressed files | publish, snapshot, stat, open | an archive is replaced while it is read | all members are of one version |
| Checks (`iso_checks`, `spdh_checks`, `emv_checks`, `transaction_checks`, `tango_checks`, `diagnostic_common`) | none | values and EMV tags of messages, findings of transactions | rules over many messages with absent or repeated identifiers; dumps cut short; fields written several times | order plays no part; errors are proved; doubtful values are not compared |
| Filters, diffs, reports | none | table rows, HTML | | |
| Release, certificates, TLS, launcher, containers (`create_release.py`, `create_https_certificate.py`, `web_tls.py`, `main.py`, `*.ps1`, `compose*.yaml`) | files, tags | start, build, release | order of side effects | |
| Browser assets (`logcomparator_ui/`) | page state | column sizing, tabs, paging | | |

How they interact.  A session's handler runs on the asyncio loop and awaits
`load_logs` or `export_logs` in a worker thread; those take `CORE_LOCK` and run
the parser, which reads the files through the parser caches and scans large
audits in a pool of processes.  A background job calls the same loading code in
its own thread and gives way to sessions through `FOREGROUND_PENDING`.  A watcher
thread mirrors remote files and sets an event that a 0.25 s timer of the session
turns into a live load.  Links, previews and comparisons are served by HTTP
requests outside any session and share tokens with it.

## 2. Modules

Each component has one module; `MC...` modules give the constants their values,
`...Inv` modules hold inductive invariants, `..._proofs` modules the proofs.

| Module | Component | Refines / uses |
| --- | --- | --- |
| `LogSources` | source files, stamps and signatures | |
| `LogQuery` | what a load promises: rows no older than the files were at the call | `LogSources` |
| `LoadService`, `LoadServiceInv` | loading service and its background jobs | `LogSources`; implements `LogQuery` |
| `BlockIndex`, `BlockIndexInv` | parser caches of audit blocks | |
| `SequentialScan` | what a scan promises: blocks added in order, all or nothing | |
| `ParsePipeline`, `ParsePipelineInv` | parallel scan | implements `SequentialScan` |
| `Workspace` | one session | abstracts the loading service (`Load`), mirrors (`WatcherMirrors`, `JobReads`) |
| `WebStores` | what the stores of all sessions have in common: sessions, limits, the newest entries that fit | |
| `PreviewStore`, `ComparisonStore` | previews and comparisons of all sessions | `WebStores` |
| `RemoteListing` | import dialog and its connection | |
| `RemoteReaders` | the threads that read remote sources: watchers and jobs | |
| `FileMirror`, `ArchiveMirror` | mirrored files and archives | `RemoteReaders` |
| `OriginalChecks`, `MessagePairs`, `SourceText`, `TransactionRows`, `BlockParsers` | pure algorithms, as operators | |
| `LogAnalysis` | the logs these are applied to | composes the five above |
| `EmvTags`, `MessageFields`, `SourceNames`, `ExportFiles` | pure algorithms, as operators | |
| `FieldAnalysis` | logs of fields, names and exported blocks | extends `LogAnalysis` by the four above |
| `LoadService_proofs`, `RemoteListing_proofs`, `Workspace_proofs` | theorems of one module (section 5) | extend it, or its `Inv` |
| `Loading_proofs` | theorems of `LogQuery`, `ParsePipeline` and `BlockIndex` | extends the three |
| `RemoteMirrors_proofs`, `WebStores_proofs` | theorems of two modules each | extend the pair that shares `RemoteReaders` or `WebStores` |
| `FoldLemmas` | what a `FoldLeft` computes, for any operator; least and greatest numbers, induction | |
| `Analysis_proofs` | theorems of `LogAnalysis` and `FieldAnalysis` | extends `FieldAnalysis`; `FoldLemmas` with the operators that are folded |

**LogSources, LogQuery, LoadService.**  A file's content is a version that grows;
rows, scans and signatures are stamps, the version of each file they are from.
`LogQuery` has a session ask for a bank and get an answer that is of versions
between the call and the answer.  `LoadService` has one program counter per
session and job, and one step per access to shared state: the signature and the
lookup under it (`Ask`, `NextBank`, `LookupHit`, `LookupMiss`), the count of
foreground requests (`Enter`, `Exit`), the wait for `CORE_LOCK` (`Acquire`; `Gate`
and `TryLock` for jobs), listing (`ListFiles`), the second signature and lookup
(`SignHit`, `SignMiss`), the scan key (`KeyHit`, `KeyMiss`), the read of each file
(`ReadAudit`, `ReadTango`), storing (`StoreScan`, `Publish`), a job that gives way at
a checkpoint, a ready result in its hand included (`Interrupt`, `SignHitInterrupted`,
`Retry`), and an error anywhere (`Raise`).  Reading a
file takes the version it has then; other files may have changed since.  All stats of one signature are one step: they are microseconds
apart, while reads take seconds.  A file in `LateFiles` may appear during the run.
A thread's local variables are forgotten when its call ends.  Decompression of a
`.gz` is a read.  A job interrupted before the first batch of a scan cannot be
told from one interrupted within it.

**BlockIndex.**  An audit is the sequence of the UIDs of its blocks, knowledge of
it a prefix length.  A scan reads the audits one by one and leaves its index under
the stamps the audits have *afterwards* (`StoreLocations`); an export looks up twice,
for its summary and its text, in the location cache, then the text cache, then by
reading again.  `scans` is history: every scan that finished, whose rows a session
may still show.

**ParsePipeline.**  The caller reads blocks into batches that end at files or at a
limit, submits them, and waits for the oldest when two per worker are under way.
A batch is cut by bytes in the code, so its number of blocks is a choice.  Workers
start batches in order (one more than there are processes, as the standard
library queues it), finish them in any order, raise, or die; the caller may be
interrupted.  `TakeError`, `Interrupt` and `SubmitRaises` cancel what has not
started and wait for the rest.

**Workspace.**  Steps are what stands between two awaits.  `perform` refuses while
`busy`; an operation is a record in `op` with the phase it awaits (download, sign,
load, start of the job).  Setting the bank selector starts `change_bank` as a task
of its own, so `changes` counts those not yet run.  `poll_progress` and `live_tick`
are timers; the job and the watcher are threads.  A source folder is the local
one or the mirror of an import.

**WebStores, PreviewStore, ComparisonStore.**  The tables are sequences in the order of
eviction; `Newest` drops what exceeds a limit.  Loaded logs are numbered, and `address` says which address each was
given: the key of a task is `id(loaded)`.  A task is a generation in a thread;
`waiting` are the requests that await it; `saves` counts how often its copy was
started.  Comparisons have tokens shared by all sessions.  Each task of an entry is a
generation of its own, with the requests that await it; those of a failed one wake one
by one (`Wakes`) and each takes the task from the entry, whichever that is by then
(`AnswerError`).

**RemoteListing.**  The address is answered by a host that may change; every listed
name carries the host it was listed on, which the program does not see, so that
mixing hosts shows.  The connection goes through its layers (TCP, SSH,
authentication, sudo, SFTP, listing); each step may succeed, be refused, or lose the
connection.  An error is the set of its causes, one for each address that was tried,
and `ClassesOf` says of which exception classes a cause is: `IsTransient` sorts them by
class as `is_transient_ssh_error` does, while `RetriesAreSafe` names the refusals (a
refused login is an `SSHException`, too).  The dialog's
loop sleeps and tries again, the user clicks *Retry listing*, picks a day and a
bank, cancels or imports; an import reads over new connections with the host key
that was learnt.

**RemoteReaders, FileMirror, ArchiveMirror.**  Watchers read in passes, jobs once; a
read may be lost, and a stop may be set, at any time (`RemoteReaders`).  A byte is the pair of the content it was written
for and its position.  The server appends, rotates (a new content under the path,
the old one still open) or truncates, while a reader is in a pass only if
`RewritesInRead`.  A reader stats, opens, compares both ends with the local file, copies or starts anew, reads chunk
by chunk, and puts its staging file in place; the connection may be lost at any
step, and a stop is noticed between chunks.  The archive is read member by member
between two stats and published as one group.

**OriginalChecks, MessagePairs, SourceText, TransactionRows, BlockParsers** are the
algorithms as operators: the search for the original of a reversal and what is found
of it; the pairing of responses with requests; block scanners, Tango search and paging
in chunks; the row of a transaction from its blocks; and what the two block parsers
read out of one block.  Fields hold small numbers or `None`; texts are sequences of
the few bytes the code tells apart, blocks sequences of lines.  `LogAnalysis` lets a
log grow entry by entry, so that every log of a family up to its limit is a state, and
checks the results against reference definitions.  That order plays no part is stated by
reordering the log by every bijection of its places (`Reordered`), and the messages of a
transaction by swapping neighbours, since each order of them is a log, too.

**EmvTags, MessageFields, SourceNames, ExportFiles** are the same for one message and
for file names.  `EmvTags` reads TLV objects byte by byte, with templates, long tags and
long lengths, and gathers tags from dumps and from named fields by their precedence; a
recursive function follows the templates (`Objects`).  `MessageFields`
chooses the value of each key among the ways it is written and checks the widths of data
elements.  In `SourceNames` a name is a record of what the code asks of it (family,
process code, days, days that stand alone, suffix).  `ExportFiles` gives transactions
their files, orders the blocks in them, and looks a file up again as `export_logs`
does.  Letting the log grow field by field turns "does a field that comes later change
what was read" into an action property (`ValuesSettle`).

## 3. Runs

A run checks its properties in every reachable state or behaviour of its instance.
All are expected to pass; what the text says and the code does not do is in section 7.

| Run (module) | Distinct states | Bounds | Properties | Shows |
| --- | --- | --- | --- | --- |
| `load` (`MCLoadService`) | 284,762 | one session, one job, two banks sharing the PTMS audit, one Tango log, 2 versions per file, 1 scan and 2 results cached, 3 rows in all | `ServiceInv` (typing, lock, count of requests, stamps), `CachesFresh`, refinement `ImplementsLogQuery` | no cache or interruption shows in what a session gets |
| `load_sessions` (`MCLoadService`) | 159,848 | two sessions, one job that prepares two banks, one audit, which does not change | action property `JobsGiveWay`, liveness `PreparationEnds`, `RequestsEnd` | as long as any session has a request, a job in the parser only leaves it; left alone, it ends; a session's request ends, once no other wants the parser |
| `index_safety` (`MCBlockIndex`) | 47,180 | 2 audits of up to 2 and 1 blocks, 2 UIDs, symmetry | `ExportComplete`, `IndexInv` | whichever cache answers, an export has what the list showed |
| `ws_safety` (`MCWorkspace`) | 1,505,900 | 2 banks, 2 days, 2 remote imports, 2 waiting `change_bank` | `WorkspaceInv` (`TypeOK`, `JobOfLoaded`, `OneSource`, `LabelOfRows`, and what proves them: `FoldersExist`, `OperationHasSource`, `SourceOfLoaded`, `LabelOfSelected`), `FollowsSelector` (`RowsOfSelectedBank`, `PendingIsSelected`) | table, label, folders, job and selection belong together |
| `ws_settle` (`MCWorkspace`) | 51,356 | 2 banks, one local import, files grow once | `PendingSettles`, `LiveCatchesUp` | a waiting bank is served; live update misses no change |
| `preview_safety` (`MCPreviewStore`) | 122,075 | 2 sessions, 1 UID, 2 options, 2 addresses, limits of 1 | `PreviewInv` (`TypeOK`, `LinkIsLoaded`, `SavesWithDownloads`, `LinksAreOwn`, `OneTaskPerKey`), `PreviewsReused` (`CopiedOnce`, `ReusedWhileUnchanged`), action property `FailureTriedAgain` | tables with different eviction agree |
| `compare` (`MCComparisonStore`) | 933,141 | 2 sessions, 2 loads, limit of 2 tokens, 3 made, 4 requests | `ComparisonInv` (`ComparisonTypeOK`, `MadeOnceMoreThanFailed`, `ErrorsAreFailures`, `KeepsNewest`, `LinkOfKey`), `ComparisonOfSelection`, action property `MadeStays` | a link compares what is selected; a comparison is made again only for an error; made and undisturbed, it stays |
| `parse_pipeline` (`MCParsePipeline`) | 27,102 | 10 blocks in 2 files, batches of at most 2, 1 or 2 workers | `PipelineInv` (typing, order, bound, no worker left), refinement `ScansInOrder`, liveness `ScanEnds` | the parallel scan is a sequential one |
| `mirror` (`MCFileMirror`) | 127,071 | 1 watcher, 2 contents of up to 3 bytes, ends and chunks of 1, 2 seconds, 1 lost connection | `MirrorInv` (`TypeOK`, `LocalIsSnapshot`, `WrittenInOrder`, `LocalIsPast`, `PassInv`), action property `NothingLost` (`Forward`, `SkippedIsCurrent`), liveness `Follows`, `StopEnds` | the local file is a start of one content and catches up |
| `archive` (`MCArchiveMirror`) | 21,128 | watcher and job, 2 members, 3 versions, 1 failure | `ArchiveInv` (`ArchiveTypeOK`, `SnapshotIsVersion`, `ReadSinceStamp`, `PublishesStamp`), liveness `ArchiveFollows` | what is in memory is one version |
| `listing` (`MCRemoteListing`) | 376,976 | 2 hosts, 2 banks, 2 days, 5 files of which a host has up to 3, 1 change of host, 2 clicks, 3 attempts | `ListingInv` (`TypeOK`, `OneServer`, `BankHasAudits`, `CanGoOn`, `TaskInv`, `ListedInv`, `RequestInv`, `AttemptsInv`), `RetriesAreSafe`, liveness `ListingEnds` | one host, bounded retries, a way on |
| `analysis` (`MCLogAnalysis`) | 150,083 | 14 families of logs, see below | `AnalysisInv` (`TypeOK`, `SharedExactly`, `ReversalsAreLocal`), `OrderFree` (`OriginalsOrderFree`, `PairsOrderFree`, `RowOrderFree`), `FindingsAreProved` (`MismatchIsProved`, `ErrorsAreProved`), `ChunksAreSeamless` (`TangoLinesFound`, `PageIsLog`), `ExportsMatch` (`ExportedIsListed`, `ExportsApart`), `BlocksSaySame` (`ParsersAgree`, `BytesLeftOut`), `EmvReadWhole` (`TlvReadWhole`, `TagsAsGiven`, `EmvIsProved`), `SourcesAgree`, action properties `FindingsStay`, `ValuesSettle` | order, repeats and pieces play no part; errors are proved; list and export, offer and load, dump and tags agree |

Why the bounds are enough to see what the properties are about:

- **load, load_sessions.** The two banks share an audit, so each can find the other's
  scan; one session and one job suffice for every race of a foreground and a background
  call in `load`; in `load_sessions` two sessions overlap, so that the first or the last
  to end may leave the event wrong, and the job has a bank to go on with; two versions make "older" and "newer"; the scans of different stamps evict one
  another, and the results of both banks just fit (that results are evicted, too, is
  covered by the proofs).  So are any number of sessions, jobs, files and versions, and
  files that appear late.
- **index_safety.** Two audits, of which one may have grown between the two
  look-ups; two UIDs so that a selection can be part of a cached one.  Symmetric in
  the UIDs: nothing names one of them.
- **ws_safety, ws_settle.** Two banks, one with an audit that comes late; two days,
  so that midnight passes; two imports, so that one replaces the other; two waiting
  `change_bank` calls, so that they overtake an operation.  In `ws_safety` imports are
  remote and files do not grow (`LocalDays = {}`, `MaxContent = 0`); `ws_settle` is
  about a local import of files that do grow.
- **preview_safety, compare.** Limits of one or two with two
  sessions make every table overflow; two addresses for two loads let an address be
  used again.  The limits of the code are larger, the rules the same.  Four requests are
  two that wait for a failed task, one that begins the next, and one that begins another
  beside it when a late answer has forgotten that.
- **parse_pipeline.** Ten blocks in batches of at most two are more than the window
  of four batches holds; two files; with one worker and with two.
- **mirror.** Two contents are one rotation or truncation; three bytes with ends and chunks of one
  give an unequal middle; times of whole seconds repeat; one lost connection.
- **archive.** Two members are needed for a mixed snapshot, three versions for a
  change during the read that follows a change; a watcher and a job race.
- **listing.** Two hosts, one change of host, up to three files on a host, two clicks, and
  the code's three attempts.
- **analysis.** Linked transactions up to three (a reversal and two candidates),
  transactions of up to four messages (two requests and two responses), five pieces
  of an audit, seven bytes of a Tango log and five of a page with chunks of three,
  three blocks of a row; four pieces of a block, whose header has six lines instead of
  forty, so that values come after its end; three TLV objects, templates among them, cut
  at every byte; three EMV fields; three numbered or named fields; two names of source
  files with every copy and date form; three exported blocks and every selection of
  their transactions.  Each family has entries whose fields agree, differ and are
  absent.  Three of a kind show a value, its rival and what comes after the doubt.

`CHECK_DEADLOCK FALSE` stands where the modelled program may really come to an end:
a scan that is done, readers that have stopped, a dialog that is closed, a log that
is full.

## 4. Fairness

Safety runs assume none.  Liveness assumes weak fairness of each thread's own next
step, never of the environment (the user, the server, the growth of files):

- `LoadService`: every session and job goes on when it can.  `threading.Lock` is not
  fair, so a session might lose every race against other sessions: `RequestsEnd` has
  the premise that from some time on no other session has a request; jobs give way.
  `PreparationEnds` has the premise that no session has one.
- `ParsePipeline`: the caller, the start of queued batches and the parsing of a
  batch; not the death of a process nor an interruption.
- `Workspace`: tasks, timers, awaited operations, job and watcher; strong fairness of
  the steps `Sign` and `Load`, which may fail and are tried again: a read that is
  tried for ever succeeds in the end.  Properties have the premise `Undisturbed`
  (the user stops clicking, the connection holds).
- `FileMirror`, `ArchiveMirror`: every reader, since remote reads time out (15 s and
  30 s); lost connections are bounded.
- `RemoteListing`: the listing thread, whose layers have deadlines (TCP 10 s, SSH and
  sudo 60 s, a timer that closes the channel), and the event loop.

## 5. Proofs

TLAPS checks the following for every value of the constants that the assumptions
allow: any sets of files, banks, sessions, jobs, audits and UIDs, any numbers of
versions, blocks and workers, any number of bytes in a mirror, of hosts, banks,
attempts, sessions, tokens, links, days, imports and changes of the selector.  What
only bounds the state space of a run (`MaxChanges`, `MaxLoads` and the like) is any
number, too.

| Theorem | What it says |
| --- | --- |
| `Loading_proofs!RowsNeverGoBack` | A session that loads a bank again never gets older rows (of the abstract service). |
| `LoadService_proofs!ServiceInvariant` | `ServiceInv` is an invariant. |
| `TypeCorrect`, `OneParser`, `JobsLeaveTheParser`, `NothingStale` | Its consequences: `TypeOK`; `CORE_LOCK` is owned exactly by the thread in the parser; `JobsGiveWay`: while any session has a request, a job in the parser only leaves it; nothing cached is older than the stamp it is filed under. |
| `Implementation` | `LoadService` implements `LogQuery`. With it, `RowsNeverGoBack` holds of the real service. |
| `Loading_proofs!CachesAnswerEnough`, `ExportsAreComplete` | `IndexInv` is an invariant; an exported log has every message its row and its summary were made from. |
| `Loading_proofs!Invariance`, `OnlyCompleteIsPublished`, `MemoryIsBounded`, `NoWorkerIsLeft` | `PipelineInv` is an invariant; partial scans leave nothing; at most two batches per worker are held; an ended scan has no busy worker. |
| `ImplementsSequentialScan` | The parallel scan implements the sequential one. |
| `RemoteMirrors_proofs!MirrorInvariant` | `MirrorInv`: the local copy is the start of one content of the server. Of one reader, and files that are not rewritten while they are read. |
| `MirrorLosesNothing` | The same: a file that is skipped is current, a pass only takes the local copy forward (`NothingLost`). |
| `ArchiveInvariant` | `ArchiveInv`, of any readers: the members in memory are all of one version. |
| `RemoteListing_proofs!ListingInvariant`, `ListingRetriesAreSafe` | `ListingInv`: an import reads one host and finds its bank, the user has a way on; `RetriesAreSafe`: retries within their number, one login in each. |
| `WebStores_proofs!ComparisonInvariant`, `ComparisonsStay`, `ComparisonsAreOfSelection` | `ComparisonInv`: the tokens kept are the newest, a comparison is made again only after an answered error; `MadeStays`: made, and awaited under no other task, it stays; a link compares what is selected. |
| `PreviewInvariant`, `PreviewsAreReused`, `FailuresAreTriedAgain` | `PreviewInv`: links, tasks, tokens and copies agree within their limits; a copy is started once and what is reused is current; a task that failed is not waited for. |
| `Workspace_proofs!SessionFollowsSelector`, `JobsAreOfLoaded` | `FollowsSelector` and `JobOfLoaded`, of local and remote imports and of files that grow. |
| `WorkspaceInvariant` | `WorkspaceInv`, of a session that imports from a server only. |
| `Analysis_proofs!LogIsTyped`, `AnalysisInvariant` | `TypeOK` and `AnalysisInv`: those transactions are marked that have an RRN in common with another, and a reversal is a completed local one only with one local original before it. |
| `FindingsProved`, `FindingsRemain` | `FindingsAreProved` and `FindingsStay`: an error stands on exactly one original, or on a response that no request fits; doubts stay when the log grows. |
| `OrderDoesNotMatter` | `OrderFree`: neither the findings nor the columns of rows that are modelled (section 6) depend on the order in which audits, blocks and messages are read, if a row has one operation (`OneOperation`). |
| `ValuesAreSettled` | `ValuesSettle`: a value of a message gives way only to one that is written in a better way, or to a doubt. |
| `ListedIsLoadedAndWatched` | `SourcesAgree`: what is listed for a day and a bank is loaded for them, once, and its changes are reported. |
| `FoldLemmas!FoldSteps` | The `FoldLeft` of the community modules is the last of the results after 0, 1, 2... elements, for any operator. |

Assumptions are on constants only, named in the modules that declare them, and TLC
evaluates each: `SourcesAssumption` (a Tango log is no audit, there is a bank),
`NoAnswerAssumption`, `ServiceAssumption` (sessions and jobs are different threads,
finitely many sessions, limits of at least one), `IndexAssumption`,
`PipelineAssumption`, `ReadersAssumption` (no watcher is a job), `MirrorAssumption`,
`ArchiveAssumption`, `ListingAssumption`, `StoresAssumption` and `PreviewAssumption`
(limits of at least one), `ComparisonAssumption`, `WorkspaceAssumption` and
`NothingAssumption` ("nothing" is no logs, job or watcher), `EntriesAssumption` (a
transaction, a block has what the checks and rows read of it; `NoTime` is a number),
`TextAssumption` (chunks are not empty), and `FieldsAssumption` (names of source files
are records as `IsSourceFile` says, whose process is no bank's unless the name begins
with `audit.OPN`, as all `BANK_AUDIT_CODES` do; the time of a message is one of the
data elements that are checked twice).

Three theorems have premises besides, each true of the run that checks the property:

- `OneReader` and `~RewritesInRead` of the file mirror.  Two readers of one mirrored
  file may repeat bytes, and a file truncated in place during a read gives parts of two
  contents (section 7): without either premise the theorem is false.
- `LocalDays = {}` of `WorkspaceInv`: no local import.  One sets day and folders before
  its load (section 7), after which `OneSource` and `LabelOfRows` fail.  `FollowsSelector` and `JobOfLoaded` hold nevertheless,
  and their theorems have no premise.

*LoadService.*  `CachesFresh` alone is not inductive: a cached entry is as good as
the locals of the call that stored it.  `ServiceInv` orders, for every thread in a
call, the stamps it holds - asked, signature, scan key, what was read, the present -
and says which files each covers in which phase (`AskedInv`, `SignatureInv`,
`ListedInv`, `SeenInv`); the caches hold only entries with that order (`CachesInv`);
the lock's owner and the count of requests are exactly the threads in the phases
concerned.  The count is a cardinality, hence the finite set of sessions.  The
refinement takes `asking` to be the sessions from their call to their result.  A
file that appears between listing and signature may be left out of the rows
(`NoOlder`): this is what the code does, see section 7.

*BlockIndex.*  A stale index is filed under a stamp newer than what it knows.  It
does no harm because a later scan replaces it, unless nobody scans: then no list
shows the newer blocks either.  `IndexInv` says so: whatever the caches answer at
the present stamps covers every *finished scan* (`AnswersCover`); audits read since
an operation began are read beyond every scan finished before.

*ParsePipeline.*  The futures under way hold the blocks that follow those added,
contiguous up to what was read (`Contiguous`), and no more than the batches can hold
(`Held`).  From the first follows the refinement, from the second the bound.

*FileMirror.*  That the local copy is the start of one content is not inductive: a
reader compares, and copies, before it writes.  `PassInv` says of each phase what the
reader has in hand - the file it opened is a start of a content no older than the local
copy (`SourceOf`), and so is its staging file, which goes on where the local copy ends
(`StagesStart`).  The server's files are starts of contents in order (`WrittenInOrder`),
so a file of the same name that is longer and equal at both ends continues the copy.

*ArchiveMirror.*  What was read is between the stamp and the present version
(`ReadSinceStamp`); if the second stamp equals the first, both ends of the interval are
one version, which is what is published (`PublishesStamp`).

*RemoteListing.*  What was found is of the host whose key the candidate connection has
accepted (`TaskInv`), what is shown of the host whose key the dialog keeps
(`ListedInv`), and a request takes both (`RequestInv`), so that its reads are refused by
any other host.  Attempts and logins are counted along with the phase
(`AttemptsInv`).  `ListingInv` and `RetriesAreSafe` lean on each other and are proved
together.

*ComparisonStore.*  `ComparisonOfSelection` needs that key and link change together
(`LinkOfKey`) and that the logs are part of the key.  That the generations are no more
than the errors and the one kept (`MadeOnceMoreThanFailed`) needs that a new one begins
only where the entry has none, and that only an answered error leaves it without: not
that one runs at a time, which is false.  A settled comparison stays because the only
requests that could forget it are those that wait for another, failed task.

*PreviewStore.*  A live update writes its link's entry anew; that it touches no other
session's needs links that are never shared (`LinksAreOwn`).  That a task found under a
key is of the logs shown needs that a key says which address its logs had
(`OneTaskPerKey`), and that addresses differ.  Tokens are numbers that only grow, so
that what leaves one table leaves the other.

*Workspace.*  `FollowsSelector` is inductive with the types: each way an operation ends
runs the same `Finish`, which shows the bank that waits, or leaves a call of
`change_bank` behind, and each handler in between clears the list or counts a call.
That a job is of what is loaded needs what an operation knows while it waits: a job
that is not stopped is of the folder about to be loaded (`OperationHasSource`).  The
rest follows from where an operation takes its folder and day from
(`SourceOfLoaded`), and from a label that names the selected bank also while no rows
are shown (`LabelOfSelected`).

*LogQuery.*  What a session holds is no newer than the files; while it waits for the
same bank, no newer than `asked`.

*LogAnalysis.*  The state is the log, and what is claimed is about functions of it, so
the invariant is `TypeOK` and the work is in the functions.  Those that walk over
messages or blocks (`Share`, `Added`) are folds: for each, what is known of the result
after k elements is shown to hold after k + 1 (`RowBy` for a row: times, banks, MTIs and
flows so far), and `FoldLemmas` makes it hold at the end.  `FoldLemmas` has the operator
as a constant and is instantiated, which a theorem with an operator as a parameter could
not be; its induction is over a set of numbers, from the well-founded order of `Nat`.
Findings depend on the set of candidates and what they say, not on where they are: an
original is known by its place, and a bijection of places takes candidates to candidates.
An element that is chosen in between (the first of several) is shown to be the only one,
or one whose values the others share.  The phases of a row are an order of flows by time;
the rank of a flow, the number of those before it, is the same in every order if times
differ, and an order is determined by its ranks.

*FieldAnalysis.*  What a key has as its value is what is said of it in the best way.  A
field added says it better than all others (what was said is replaced), as well as the
best (it is one more that is said), or worse (nothing changes): `SaidOneMore`, from which
`ValuesSettle` follows.  Of the copies of a file `UniqueSources` keeps exactly one
(`OneOfAKey`): two that are kept have one key, hence are both compressed, hence in the
same way, hence are one.

Only model-checked:

- liveness (`RequestsEnd`, `PreparationEnds`, `ScanEnds`, `Follows`, `StopEnds`,
  `ArchiveFollows`, `ListingEnds`, `PendingSettles`, `LiveCatchesUp`): fairness and
  `ENABLED` are out of reach of the prover;
- `ExportsMatch`, `BlocksSaySame`, `EmvReadWhole`, `ChunksAreSeamless`: they are about
  texts that are selected from (`SelectSeq`, of which the provers know nothing), about
  functions joined with `@@` (nor that), or about recursive functions over a text
  (`Collected`, `Shown`, `Objects`), for which no fold stands.

## 6. What is left out

Of modelled components:

- *Loading*: the call without a date, which only fills it in; deletion of a file
  during a load shows only as an error; `download_audits` and `BackgroundAudits`,
  which the web interface no longer calls (`web_app` imports `read_remote_files` under
  the former name).
- *Parser caches*: `FILE_TEXT_CACHE` (link logons) and the untargeted export of the
  command line, which use no block cache.  None of the caches is ever evicted.
- *Blocks*: texts are numbers; dates are valid; only the lines and names that one of
  the parsers asks for.
- *Names*: folders that are validated as a whole, decompression, copies
  (`validate_local_log_folder` has no caller).
- *Exports*: the text of summaries and diagrams; clearing of earlier outputs.
- *Workspace*: an invalid time range; the thread of the local `SourceWatcher`, whose
  event only comes before a poll that `live_tick` makes anyway; deletion of the session; liveness
  of remote sources and of audits that come late; the PTMS audit is there every day.
- *Previews*: reads of chunks and downloads change nothing; a request to save starts
  no copy by itself.
- *Comparisons*: cancelled requests; comparisons that keep old logs alive.
- *Mirrors*: the 256-byte ends of different logs differ; both are compared in one
  step; the size of the local file is taken before it is opened; one reader in the
  run.
- *Archives*: one archive whose versions differ in size or time; its removal; memory
  snapshots that shadow files on disk; `_extract_local_archive`; the switch at midnight.
- *Remote listing*: one dialog; one read stands for a connection of a batch; a host
  key is always accepted when there is none to compare (`auto_accept_host`), so
  `UnknownHostKey` never arises; the settings of a session do not change; one cause
  stands for the exceptions of a layer (`Losses`).
- *Analysis*: bitmaps, DE90 taken apart, the formats of SPDH fields, missing response
  codes; the table of names that stand for EMV tags; descriptions of operations; columns
  and colours of rows; more than one Tango source per search; masked digits, whose rule
  is in section 7.  `OrderFree` says
  nothing of what a row takes from the first message it reads (RRN, terminal, amount,
  response code), and a row's operation is free of order only if its requests have one
  Tango MTI, or none and one preferred: `select_iso_mti` takes the first it reads
  (`OneOperation`).  What `is_request` reads of a flow or a message type is a choice
  beside its phase.  With a
  link logon among the targets, list and export agree only on audits in which a date
  follows every separator (`ExportedIsListed`, a part of `ExportsMatch`; log_core.py 1298-1314).

Not modelled at all: filters and reports, configuration, command line, UAT downloads
of the earlier interface, release, certificates, start-up, deployment, layout in the
browser, with the reasons in `PROJECT.json`.  Some more that were looked at:

- *Two readers of one mirrored file* (`remote_logs.py` 443): with a job beside the
  watcher the state space of `FileMirror` is beyond what a run should take, and the
  properties fail as section 7 says.
- *Deletion of a session* (`web_app.py` 1351), *historical archives*
  (`_extract_local_archive`), *close_workspace* (1109, without a caller).
- *Release tags*: by reading, a tag left behind by an interrupted push makes
  `git fetch --tags` (`create_release.py` 64) fail for good once another clone has
  published the same version.
- Clearing earlier outputs by `{uid}*.log` (`log_core.py` 1691) also removes those of a
  UID that begins with another; the web interface exports only to fresh folders.

## 7. Disagreements of code and text

Met while modelling; where a property is affected, its premise says so:

- `web_app.py` 704: a comparison whose token others have pushed out answers "This
  comparison has expired. Compare the transactions again." (237); *Compare*, used again
  with the rows still selected, opens the same expired page, since `update_actions`
  keeps the link while its key is the same.
- `web_app.py` 953-960: live update "is turned off after each new import" (README.md
  94).  A local import sets folders and day before its load, and only a load that
  succeeds turns live update off (673).  If it is refused or fails, the next live update
  reads the new source (604-605) with live update on; the session is taken for remote
  or local as it was before (643-648).
- `web_app.py` 532-536: live update "updates the list for the selected bank as its
  source files change" (README.md 95).  `change_bank` makes the watcher for the bank
  turned to (539), also when that has to wait for its audit; when the user goes back to
  the bank that is loaded, it leaves the watcher at the other, whose audits it then
  mirrors (`remote_logs.py` 497).  The same happens when `perform` shows the bank in its
  `finally` (513-520), and after a live load of the bank turned to.
- `web_services.py` 346: a file created between listing and signature is in the
  signature and not in the rows, against "including rotation, replacement and new
  audit files" (239).  `NoOlder` excepts `LateFiles`.
- `web_app.py` 953-954: a local import sets day and folders before its load.  If that
  is refused or fails, the label names the new day over the rows of the old ("Selected
  date shows the loaded day and bank", README.md 79).  A live update that was under way
  sets the audit folder back when it ends, and not the log folder (653).  `LabelOfRows`
  is checked for remote imports.
- `web_app.py` 263: a request that waited for a comparison that failed forgets the task
  of the entry when it wakes, also one that a newer request has begun; the next request
  begins another beside it, against "must reuse comparison"
  (`testing/test_web_interface.py` 571, of a comparison that succeeds).
  `MadeOnceMoreThanFailed` counts it, `MadeStays` waits for the last of them.
- `web_app.py` 540: a bank with transactions in the shared PTMS audit only is prepared
  in the background and then refused, against README.md 85.
- `web_app.py` 418, 543: with a remote bank waiting, `poll_progress` restarts the
  watcher every 0.2 s.  `PendingSettles` is checked for local sources.
- `web_app.py` 147: tasks are kept under `id(loaded)`, an address that can be used
  again, against "reused while their source and options stay unchanged" (README.md
  199).  `ReusedWhileUnchanged` assumes addresses differ.
- `remote_logs.py` 457: a log that is truncated in place while it is read is published
  as parts of two contents, against "publish only complete, bounded snapshots" (297):
  `MirrorInv` fails with `RewritesInRead = TRUE`.
- `remote_logs.py` 443, 568, 679: a watcher and a job on one file may repeat bytes
  (`Jobs` not empty in `FileMirror`).
- `remote_logs.py` 367: a job may publish an older archive after the watcher, which
  does not read again before the archive changes.  `ArchiveFollows` is about
  versions seen after the job.
- `web_services.py` 444: the file of an exported transaction is looked up by its cleaned
  UID and not by the name `build_filenames` gave it (`log_core.py` 1008-1018): of two
  UIDs cleaned to one name both show the first one's file, and if they differ in
  capitals the export fails.  A name made different by an index is not looked up again
  (1014): a UID that is `a_3` itself may get the file of the second `a`, from block 3 on.
  `ExportsApart` excepts both.
- `iso_checks.py` 57: "Masked or opaque audit values cannot establish wire length", yet
  DE4, 7, 11, 49 and 90 are checked again without that exception (133-137).
  `ValuesSettle` excepts those (`CheckedNumbers`).
- `emv_checks.py` 108: a container that is not dumped as hex, `DE55: asc<...>`, is taken
  for the EMV tag DE55, since its name is two hexadecimal bytes.
- `emv_checks.py` 168: a common online tag is called missing, too, when two names give
  it different values (`EmvIsProved` says so).
- `log_core.py` 2107: the part of a truncated `.gz` that could be read passes for the
  file, against "publish a complete gzip extraction" (`web_services.py` 251).
- `remote_logs.py` 236: `.tgz` audits of a server are listed, those of a folder are not
  (`log_core.py` 2311): `SourcesAgree` excepts them.
- `web_app.py` 466-488: with an invalid time range `refresh` leaves the table as it is,
  under the label of what was loaded meanwhile.
- `log_core.py` 702: the two parsers differ on plain names and dates after the 40th
  line, since one counts the raw data, and on several dates of which some have no
  stamp: premises of `ParsersAgree`.
- `log_core.py` 1484: the index of a scan may be filed under stamps newer than what
  it knows; `BlockIndex` shows that exports are complete nonetheless.

## 8. Plan

Done: all components above except those listed as not modelled; proofs of every safety
property of the state machines (loading service, parser caches, pipeline, mirrors,
dialog, stores of the web interface, workspace), and of those of the analyses that are
about sets and folds.

Next, in this order:

1. The four properties of texts that are only model-checked, with the selections written
   as folds: first the names of exported files (`FileNames`), then the parsers of blocks,
   Tango lines chunk by chunk, and the values of EMV tags, for which `Objects` has to be
   shown to end.
2. A weaker premise than `LocalDays = {}`: local imports that are neither refused nor
   fail, with `LabelOfRows` stated between loads, checked and proved.
3. Composition: `Workspace` with the promise of `LogQuery` in place of its `Load`.
4. Deletion of a session, several archives that share a member, clearing of outputs,
   correlation of blocks without UID, the tagging loop of releases.
