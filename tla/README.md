# TLA+ models of the SFTP/FTP sync extension

The extension transfers files between VS Code workspaces and SFTP/FTP servers.
Its risky part is not the protocol but what happens around it: many transfers at
once over one connection, retries, cancellation from several places, windows that
share files on disk, events that arrive late, and the *upload conflict*, which a
person, an editor agent (through an MCP server) and the rest of a batch may all try
to decide while either file keeps changing. These modules model that part; TLC
checks small instances, TLAPS proves what holds for every instance.

Run inside this directory: `tlc -config <run>.cfg <module>` (PROJECT.json says which
module a run has) and `tlapm <module>_proofs.tla`.

## The system

All of the extension runs in one extension host per window (a single event loop, so a
step ends where the code awaits); windows share the disk and the editor's storage; the
MCP server is a process of its own that talks to the window through files.

| Component (src/src/) | State | Operations | Hard part | Makes it correct | Module |
| --- | --- | --- | --- | --- | --- |
| core/scheduler, core/fileService, core/transferOperation | queue, pending count, list of schedulers, item table | add, run, task done, next, idle, stop | completions, stops and cancels in any order | slots = tasks in flight ≤ limit; no item lost; result truthful | TransferScheduler |
| fileHandlers/transfer (index, transfer), helper/retry | coroutine of a command, tasks, attempt | collect, run, retry, settle | cancel during discovery, retry with the same items | ends once, success only if all was transferred | TransferScheduler |
| transfer.ts (sync) | listings of both sides | compare, remove, create, transfer | a sync cut short and run again | both trees end as the options say | SyncPlan |
| core/transferTask | temporary file, streams, `_cancelled` | run, stage, commit, cancel | late cancel, crash, shared names | target is old or new, success is true | TransferTask, FileReplacement |
| modules/activity | groups, operations, items | begin, enter, discover, cancel, settle, prune | joins and cancels at any await | the view tells the truth | ActivityGroups |
| conflictBridge, conflictCheck | session record, held paths, menus | capture, revalidate, accept, submit, report, dispose | five actors, every await of a revalidation | decisions apply to reviewed versions; terminal is final | UploadConflict |
| remoteBaseline, conflict detection | bounded store of baselines, chain of writes | detect, record, evict | late writes, eviction | an unseen remote change is a conflict | RemoteBaselines |
| conflictStateStore | records, leases, snapshots | write, reserve, finalize, reconcile, retain, clear | windows that interleave and die | what is being reviewed is kept; the budget holds | ConflictStateStore, JsonReplacement, LegacyImport |
| mcp/server, conflictContract | request and response files | submit, acknowledge, upload, cancel, wait | 15 s timeout racing the poll | each request answered once | UploadConflict |
| mcp/uploadBridge, uploadRunner | seen names, serial queue, job files | scan, process, dispose, wait | restart, cancel during the upload | the answer is what happened | UploadBridge |
| watcher, suppression, activity monitor | queues, suppression, download claims | event, drain, claim, release | events outliving their cause | own writes are not uploaded, edits are | WatcherClaims |
| serviceManager, config, trie | services, active profile, watchers | load, save, switch, dispose | reload while reading | a path belongs to the nearest configuration in force | ServiceRegistry |
| core/remoteFs | table of cached connections | getFs, invalid, end | callbacks of older connections | one connection; waiting is served | RemoteFsCache |
| remote-client | chain of SSH clients, host keys | connect, verify, end | failure or end amid the chain | nothing left open; only verified hosts | RemoteClients |
| commandUploadChangedFiles, rename, remove, drag and drop | the server's tree | upload, rename, delete | order of dependent changes | changes arrive; moves lose nothing | RemoteChanges |
| remoteExplorer | roots, items, listings | list, refresh, reveal, purge | slow listings | the tree shows the connection in force | RemoteExplorer |
| core/backup | backup files | copy, prune, restore | pruning beside copying | what is replaced was backed up and kept | BackupVersions |
| modules/secrets | editor's secrets | migrate, store, delete | windows migrating at once | a secret is not lost | CredentialMigration |
| UI, errors, hooks, MCP registration, fs adapters | – | – | – | presentation, text and single calls | – |

How they interact: a command's handler collects tasks into a scheduler of the file
service, inside an activity group whose cancellation stops the scheduler and
cancels the tasks. Before an upload is added its handler compares the remote file with
the baseline and may find a conflict; it captures a record through the state store and
polls for a decision (menu, request files, batch decision, group cancel). An accepted
overwrite returns to the handler, which queues the task; the task replaces its target,
with a backup before and a baseline after, and its end is reported back to the record.
Downloads claim their paths and conflicts hold theirs, which keeps the watcher and the
save handler off them. All of it runs over the cached connection of the endpoint.

PROJECT.json lists every component with its sources and how far it is modelled, and
under "hazards" each place in the code that is hard to test, with the properties that
watch it.

## Modules

| Module | Models | Status |
| --- | --- | --- |
| TransferBatch | abstract: what one operation promises its caller | implemented by TransferScheduler (checked, proved) |
| TransferScheduler | schedulers of a file service, item tables, handlers, retry, all cancellations | checked, proved |
| FileReplacement | abstract: what transferring one file promises about its target | implemented by TransferTask (checked, proved) |
| TransferTask | tasks of one target, on the file systems below | checked, proved |
| UploadConflict | one conflict from capture to terminal record, with all its actors | checked, proved |
| ConflictStateStore | windows sharing the conflict store | checked, proved |
| JsonReplacement | one report's replacement and repair, file by file | checked, proved |
| LegacyImport | import of an earlier release's records | checked, proved |
| CredentialMigration | migration of an old password | checked, proved |
| BackupVersions | backups of a directory's files | checked, proved |
| RemoteBaselines | detection of others' changes | checked, proved |
| SyncPlan | what a sync does to two trees | checked, proved |
| WatcherClaims | one watched path | checked, safety proved |
| UploadBridge | upload requests of an agent | checked, safety proved |
| ServiceRegistry | services, profiles, watchers of nested folders | checked, proved |
| RemoteFsCache | the cached connection of one endpoint | checked, proved |
| RemoteClients | one chain of SSH clients and the host-key file | checked, proved |
| ActivityGroups | groups, operations and their children | checked, proved |
| RemoteChanges | Upload Changed Files and drops of the explorer | checked, proved |
| RemoteExplorer | the explorer's tree | checked, proved |
| *_proofs | the theorems about TransferScheduler, UploadConflict, RemoteFsCache, TransferTask, ConflictStateStore, about the watcher, the bridge and the services (FileTransfer_proofs), and about reports, imports, passwords, backups and baselines (SharedState_proofs), and about chains of SSH clients, activity groups, the explorer, drops and Upload Changed Files (Endpoint_proofs) | proved |
| MC* | instances for TLC; MCTransferScheduler, MCSharedState, MCFileTransfer and MCRemoteFsCache hold several parts that share no state, of which a behaviour moves one | |

### TransferScheduler and TransferBatch

`Op` are handler invocations, each in an activity group of its own with at most one
live scheduler. Variables carry the names of the fields they stand for: `queue`,
`pendingCount`, `isStopped`, `firstError`, `schedulers`, `pendingTransferTasks`,
`status` (the item table), `cancelRequested`; `phase` is where the coroutine stands,
`discovery` how far `transferFile` got with each file, `live` the tasks whose
promise is open. An action is one synchronous stretch: `DoneThenNext` is
`onTaskDone`, `finish`, and the start of the next task together, because no await
lies between. The three `DoneThen...` actions are the cases of `_next()`.

The queue is first-in first-out since no caller passes a priority, and `pause()`
has no caller. `Scan` reproduces `Array.forEach` over an array from which `stop()`
removes elements: it skips the successor of what it removes. The command that calls
`cancelTransferTasks` cancels all groups first, which hides that.

`TransferBatch` says what the rest of the program relies on: item statuses move
only forward within an attempt, a cancelled operation begins nothing, the result
comes once, with no item open, and success means every item was transferred.
`ImplementsBatch` says that every step of TransferScheduler is a step of it or a
stutter.

### TransferTask and FileReplacement

Tasks of one target, each with its own source; `way` is how the code replaces the
target: a download (staged under a name of its own, renamed), an upload in place, by a
temporary name with unlink and rename, or with an atomic rename. Contents are the task
whose source it is, `Old`, none or damaged; `open` follows a descriptor through renames,
since uploads with a temporary name share it (`target.new`). The file is opened before
the stream exists and the stream listened to only later, which is why `Cancel` means
three different things. A crash stops everything where it is.
`FileReplacement` allows: replacing the target by a task's whole content once, never
after it was stopped; a gap where the old file must go first; damage where writing goes
in place or two uploads share a name. `KeepsPromise` is the refinement.

### SyncPlan

One sync from listing to the last transfer on two trees, for every combination of the
options that decide (direction, both, update, delete, skipCreate, ignoreExisting,
keeping times). Entries have a kind, a time and a size; the last transfer may be cut off
(`BreakOff`), the sync fail and be started again. The reference `Model` says from the
trees found first what must be where; `SyncConverges` compares. The folder that is synced
is given by `Parent` and, for each path, all the folders `Above` it; a folder removed,
passed over or not comparable is that for everything below it, however deep.

### UploadConflict

The coroutine (`pc`) runs capture, the decision loop, revalidation (called with a
`caller`, like the function), candidate preparation, acceptance, and the upload. Its
steps end at each await that another actor can get between: hash of the local file,
stat of the remote, download, writes of the record. The other actors are the person
(`OpenMenu`, `OpenDiff`, `Choose`), the agent (`PostAny`, `Withdraw`: the 15 s
timeout), edits of both files, cancellation and disposal. A hash is the content it
was taken of. `stamp` stands for the remote's modification second and size; every
remote write changes it (equal metadata of two writes within a second is listed as
a hazard, not modelled). `ExactTime` is false for servers that report no times: then
a revalidation always downloads. `Batch` adds the Overwrite All path. `stored` is the
status on disk, which differs from `rec.status` after the report of the upload,
because that one edits a copy read from disk.

`saw` fields are history: what the menu or the agent's reading showed when the
decision was made. ReviewedVersions compares them with what the revalidation read.
It says nothing of the local content where a person chooses while an agent takes part:
`ChoiceIsCurrent` would, and the code breaks it (StaleChoice, below).

### ConflictStateStore, JsonReplacement, LegacyImport

The operations of a window's store form a chain (`serial`): one is at work, and its file
operations interleave with those of other windows. Conflicts move through the stages of
the bridge (capturing, pending, ended) and snapshots through reservation, copy and
finalisation. `Heartbeat`, `Look`, `Reread` and `Rewrite` are the steps in which one
window judges another's lease and orphans its records; `Choose`, `Remove` those of
retention and clearing. Time is a bounded counter, a window may die at any step. A
report is one write here; JsonReplacement has what atomicWriteJson makes of it
(a temporary file that is created, then complete, then renamed; the put-aside file where a
rename does not replace) with crashes and the repair that other windows make, which lists
temporary files before it reads, promotes and removes them. LegacyImport copies old records one after the
other and removes the old root at the end.

### RemoteBaselines, BackupVersions, CredentialMigration

RemoteBaselines: uploads and downloads of two files through `beforeFileTransfer` and
`afterFileTransfer`; the store holds at most `MaxEntries`, and which ones go beyond that
is any (their age is by the wall clock), its writes wait in a chain, and other clients
change files at any time. `unseen` is history: what others
changed outside a transfer and nobody has seen. BackupVersions: uploads, deletions of a
directory and restores, each backing up first and pruning after every copy, with the
selection of `selectBackupsToKeep` as operators; `EvenSpread` (an assumption TLC
evaluates) checks `selectEvenly` against what it promises. CredentialMigration: windows
that migrate one legacy value, each with its own chain of promises, while storage calls
fail, windows reload with other settings and the user saves or deletes.

### WatcherClaims, UploadBridge, ServiceRegistry

WatcherClaims: one path, its watcher, upload and delete queues with their debounce, the
table of claims with the version a download committed, the suppressions of saves and
renames. The operating system's events are late and merged. UploadBridge: requests and
result files on disk, the bridge's memory, the runner, and the tools that poll; the
process may end at any step. ServiceRegistry: the trie with its prefix search and
pruning, loads that run while others are read, profiles and watchers, on nested folders.

### RemoteFsCache and RemoteClients

One endpoint (one cache identity). `table` is its entry of `fsTable`; `isValid`,
`pending` and `fs` are the fields of each KeepAliveRemoteFs ever made for it, which is
named by the first connection it made. Several objects can live at once, since removal
(`Remove`: a service is disposed, or any operation retries) leaves the old one reachable
from the callbacks of its connections. The three outcomes of `getFs` are `GetCached`,
`GetPending` and `GetFresh`, each synchronous up to its return. `Connects` and `Fails`
settle a connection; `Event` is an end, close or error callback, which invalidates the
object that made the connection (`owner`) and ends what that object holds *now*.
`EndedBy` says that `end()` was called; the socket closes in a later `Drop`, which the
server or the network may cause as well. Connecting may wait for a password or a host
key, so a connection that was ended before its socket existed can still be established.
`Usable` has the SFTP client's `isClosed`: true until the client is ready.

RemoteClients is the inside of one such connection: a chain of clients, each tunnelled
through the one before, with password, key and host-key questions, sockets that drop at
any time, `end()`, answers that come after the attempt failed, and another window
writing the file of host keys.

### ActivityGroups, RemoteChanges, RemoteExplorer

ActivityGroups: operations of a command or of the background (which share a group for a
second), their children with conflicts and failures, and what the store does with
groups: join, cancel, settle, finish, prune, clear. RemoteChanges: paths are sequences
of names and the server's tree a function; jobs (upload, rename, delete) interleave
request by request, `ensureDir` included, in the phases of Upload Changed Files or one
after the other in a drop, whose list `planMoves` computes. RemoteExplorer: services
(saved configurations), profiles, roots built on demand, items, listings under way and
refreshes; `credit` is history: how often a folder was expanded or refreshed, less how
often it was read.

## Runs

| Run | Instance | Shows |
| --- | --- | --- |
| MCTransferScheduler, operation | 1 operation, 3 files, limit 2, 2 attempts | type, counters, item table, what a cancellation reaches, refinement of TransferBatch, and with fairness that a started batch and a cancelled operation end |
| – sync | three paths, each in the one before it, 3 times, 2 sizes | trees end as the options say |
| MCUploadConflict | 2 contents, 1 change, 2 requests, 1 menu | decisions apply to reviewed versions, candidates, held paths, terminal records |
| MCConflictBatch | 2 contents, no changes, 1 request, 1 menu, batch, no times | truth of the status, requests answered, the wait ends |
| MCRemoteFsCache, cache | 2 callers, 3 connections, 3 events | one connection at most is not ended, callers wait for open promises |
| – activity | 2 operations sharing a file, 1 ended group kept | groups tell the truth about the work |
| – changes | 3 files of a repository, 1 unexplained failure; a tree of 6 entries | changed files arrive, moves lose nothing |
| – clients | chain of 3, 2 attempts, 2 keys | failed attempts leave nothing open, only verified hosts |
| – explorer | 3 paths, 3 profiles of which 2 fit, one of them active at first, 2 changes, 1 refresh | the tree shows the connection in force and does not list in a loop |
| MCSharedState, store | 2 windows with a conflict each, sizes 1 and 2, budget 1, 1 inactive record, 1 tick | reviewed records are kept, the budget holds |
| – json | writer and 2 windows, 3 versions; not beyond the first crossing | a readable report is never lost, an acknowledged one never undone |
| – import | 2 windows, 2 records; not beyond the first overlap | no record is lost |
| – secrets | 2 windows, 2 endpoints | no password is lost |
| – backups | 2 files, 3 backups, limit 2 | what is replaced is among the backups |
| – baselines | 2 files, 2 transfers, 3 versions, store of 1 | others' changes are not overwritten unseen |
| MCFileTransfer, task | 2 tasks | KeepsPromise: refinement of FileReplacement |
| – watcher | 1 edit; 2 downloads, or 1 and a watcher made anew | no echo; an edit is uploaded |
| – bridge | 2 jobs, 1 file | answers are true, accepted jobs end |
| – registry | 2 workspaces, nested, 2 profiles, 2 saves | look-ups and watchers follow the configurations |
| BatchCancelUnread | as the batch run, no request | fails: see below |
| EndedUnfinished | 1 menu | fails: see below |
| StaleChoice | 3 changes, 1 request, 2 menus; no cancel or disposal, local changes only while a choice waits | fails: see below |
| ReplacedUnrecoverable | 1 change, 1 request, 1 menu | fails: see below |
| ReconnectEnded | 3 connections | fails: see below |
| LiveConflictOrphaned | 2 windows, both conflicts of one | fails: see below |

Bounds. Three files with a limit of two are the smallest instance in which a
completion finds the queue nonempty, empty with others running, and empty with
nothing running; two attempts give one retry, and the code treats all retries alike.
Two contents tell "same" from "changed"; one change placed at every point of the
coroutine meets every await; two requests give a candidate and its upload, or two
competing decisions; one menu gives a choice that goes stale. Three connections let an
object meet the callbacks of an older one of its own and of one of a removed object;
three events are `end` and `close` of one and one of another. A chain of three clients
has a first, a middle and a last; two attempts meet an answer to the first during the
second. Two operations on a shared file are a file in two groups or twice in one.
Two windows are an owner and an observer (three for JSON files: an owner and two that
repair). A budget of 1 with sizes 1 and 2 has snapshots that fit, that do not, and that
fit only alone; a store of one baseline evicts at the second file. Two tasks of a target
race for its temporary name; two downloads and an edit give a claim that is replaced and
one that is stale. Three times are older, equal and newer; a transfer's own time is
`Now`, newer than all. Nesting two workspaces with folders below and beside them gives
every relation between two prefixes. Symmetry (contents; window with its conflict) is
used only in runs without liveness.

Fairness. `FairSpec` of TransferScheduler: the handler's coroutine goes on, a task's
I/O ends (clients have timeouts and report closed connections), and collecting is
fair only once the group is cancelled, since a conflict may wait for a person for
ever while a cancel ends that wait. `FairSpec` of UploadConflict: only the coroutine
is fair (its timer fires, its I/O ends); person, agent and others need never act.
WatcherClaims: the operating system reports a change, the debounce timer fires, the
dispatch and a download's commit go on; downloads need not start, nobody need edit.
UploadBridge: the worker of the queue goes on while the process lives (a conflict that
waits for a person excuses it). In MCFileTransfer these actions are never enabled in
behaviours of another part, so the fairness of one part asks nothing of another.

Runs that stop: every operation, or the conflict, may have ended, and bounds may be used
up, hence `CHECK_DEADLOCK FALSE`.

### Six disagreements with the documentation

- *BatchCancelUnread.* `acceptBatchOverwrite` neither reads a waiting choice nor
  closes the menu of its file. A Cancel upload picked there before the upload starts
  is not read, though README.md promises it leaves the remote file unchanged.
- *EndedUnfinished.* An error inside a decision, or a queued task dropped after the
  record was marked, ends the transfer with the record `pending` or `uploading`. The
  agents' instructions wait for a terminal status that then never comes.
- *StaleChoice.* While the remote file is missing, a revalidation compares the local
  file with the hash the agent acknowledges. A changed local file is then no change: the
  record takes its hash and keeps its revision. An Overwrite chosen before, for another
  local content, is accepted for that revision once the remote file is back, though
  README.md promises that a change on either side refreshes the conflict.
- *ReplacedUnrecoverable.* The recovery snapshot is taken once. If the local file is
  edited afterwards and the agent submits for the edited file, what is replaced is
  in no snapshot, though the test calls submitted text recoverable.
- *ReconnectEnded.* `invalid` is bound to the cache object, not to the connection that
  reports. When `getFs` finds its connection closed and connects anew, an event still
  to come from the old socket ends the new connection; the changelog promises that the
  extension reconnects instead of failing.
- *LiveConflictOrphaned.* A window's record is written before its lease. Another window
  that lists or clears in between finds a record without a live owner and orphans it
  while it is being reviewed; Clear Conflict State tells the user that active decisions
  in any window are preserved. `LiveConflictKept` is what does hold: a conflict first
  recorded under its window's lease is kept.

### Exceptions the properties name

A property that holds only with an exception says so in its text; each exception is a
behaviour of the code that a run produces without it:

- JsonReplacement: where renames do not replace, two windows moving the files of one
  directory around each other can lose the report. A window that listed a directory before
  another created its temporary file there leaves it alone, but one that listed it while
  the file was being written removes it even after it is complete: the first report of a
  conflict can be lost that way, and a later write finds its source gone and puts the
  acknowledged report aside for a moment (`crossed`).
- LegacyImport: two windows importing at once can lose a record (`overlapped`): one
  deletes what the other has imported while the old root goes.
- BackupVersions: with `versions` = 1 the oldest backup is kept, so what a replacement
  has just backed up is pruned (docs/troubleshooting.md and a comment expect the newest).
- SyncPlan: an upload in place that was cut off is the newer file for the next two-way
  sync; with ignoreExisting a folder that exists is skipped whole, so one that an
  interrupted sync left incomplete stays so.
- TransferTask: two uploads that use a temporary name share it and may publish a partial
  file; a download cancelled between the stream's creation and put's listener waits for
  ever (`stuck`).
- RemoteChanges: a name whose deletion is staged and that is there again untracked is
  uploaded and then deleted (`reused`).
- ServiceRegistry: a load that fails (the active profile is unknown to the service being
  disposed) leaves the workspace's services until it is saved again (`broken`).
- WatcherClaims: a claim released with its watcher lets the download's own change be
  uploaded (`released`).

Further behaviours met while modelling, in no property because nothing in the repository
promises otherwise: migrating can overwrite a password saved at that moment; queued
deletions are not looked up again before they are dispatched; two concurrent uploads into
a missing nested folder race in `ensureDir`, and the loser fails; after a failed upload
chain `rmdir` goes on deleting what it had begun; the host-key file is loaded, changed and
saved without a lock, so entries of two windows can be lost; a client whose `end()` was
called during a question connects all the same; while a saved configuration waits for the
credential migration, the explorer may list through the service that was disposed; two
listings of one folder where the older fails mark it failed.

## Proofs

TransferScheduler_proofs proves, for any `Op` and `File`, any `Concurrency` and
`MaxAttempts` in `Nat \ {0}` (the two named assumptions; `Op` and `File` need not even
be finite, as the tasks in flight are bounded by the counter):

- TypeCorrect: `Spec => []TypeOK`
- ConcurrencyBounded: `Spec => []ConcurrencyBound`
- NothingStranded: `Spec => []NoTaskStranded`
- CancellationReaches: `Spec => []CancelReachesEveryTask`

None of these is inductive alone: that the count stays right when a task ends needs
that no task is queued twice or queued while in flight, which needs that a file is
added only once per attempt, which ties the queue to the item table and both to the
coroutine's phase. `IInv` is `TypeOK` and, for each operation, `OpInv`: attempts left,
the count, the items matching queue and flight, the queue without repetition, what
each phase excludes, that what is queued or running was discovered in this attempt,
and that a cancelled operation is empty or cancelled. A step touches one operation
(`Frame` and `Same` carry the others) except Cancel All, which is split into what
`DrainStep` says of the stopped and what stays the same of the rest. One lemma per
action, then `InvariantStep`, `Invariance`, and the four theorems by PTL.

BatchImplemented, `Spec => ImplementsBatch`, maps each step of TransferScheduler to one
of TransferBatch. What a caller can see of an operation are the statuses of its items,
whether it was cancelled, and how it ended (`Reported`); a step that leaves these alone
is a stutter, whatever happens to queues and counters (`SameReport`), and one that
changes them changes those of one operation (`Moves`), except Cancel All. The invariant
is needed twice: a task that ends was in flight in this attempt, and a handler that
reports success has no item that failed.

SyncsConverge, `MCSpec => []SyncConverges`, is about the plan of a sync: for folders of any
depth and width (finite or not), any times and sizes, and every combination of options
(`SyncAssumption`: every path is reached from the folder that is synced, `Above` is what
lies between, and what is written is newer than what was found). `SyncInv` says of each
path that it is as it was found on both sides, or as `Model` says and the same on both, or
a file that was cut off (`Sound`); of each transfer that its source is what both sides
should have (`Right`); and of each path that is not yet as it should be that what is
to be compared, copied or transferred leads to it (`Awaited`). The case that is easily
forgotten is a file newer than the folder of that name, with transfers into that folder
collected beside it: they wait behind a transfer that fails, so that such a sync never ends
well. A sync that starts again meets trees half way between the old and the new; that
its decisions are then the same is what `Like`, which compares all but the times, is for:
the copy of a newer file is never older than its source. With ignoreExisting this
fails from the first failure on, and `Lost` says that nothing is claimed then.

UploadConflict_proofs proves, for any `Content` and any bounds, with and without
`ExactTime` and `Batch` (the two named assumptions: the bounds are naturals, and `None`
and `Missing` are no contents):

- TypeCorrect: `Spec => []TypeOK`
- StatusTruth: `Spec => []StatusTellsTruth`
- CandidateUploads: `Spec => []AgentUploadsItsCandidate`
- DecisionsReviewed: `Spec => []ReviewedVersions`
- OpenIsHeld and TerminalRecordStays, and for a file transferred by itself (`~Batch`)
  SingleIsHeld: `Spec => []ActiveIsHeld` and SingleIsFinal: `Spec => TerminalIsFinal`

`IInv` has nine parts: `TypeOK` and what types it leaves open (`ProtocolTypeOK`); what
each place of the coroutine implies of the record, the probe and the caller
(`CaptureInv`), of the status in memory, on disk and of the transfer (`StatusInv`), of
menu and choice (`MenuInv`), and of candidate and recovery snapshot (`CandidateInv`); and
three about history: whoever decides has seen the record of the revision they name
(`DecidersSeen`), so the remote content at acceptance is the one they saw (`SeenInv`), and
so is the local content where nobody else may have changed the record's hash
(`LocalInv`). None of the properties is inductive without the others: that a decision is
current needs that a revision names one pair of contents, which holds because each write
of the record that changes one of the two adds a revision, with the one exception that
StaleChoice shows. Ten groups of actions, and for each one lemma per part.

The two theorems with `~Batch` need it. An Overwrite All accepts a conflict without
closing the menu of its file; Open Diff picked there after the upload's report writes the
record as pending again, so a terminal record is opened and, as its path is free by then,
an open one is not held. TLC finds both within seconds when `Batch` is TRUE. The general
theorems exclude just the records that a batch decision accepted (`BatchDecided`).

ConflictStateStore_proofs proves, for any windows, finitely many conflicts, any sizes, policy
and times (`StoreAssumption`):

- LiveConflictsKept: `Spec => []LiveConflictKept`
- TypeCorrect: `Spec => []TypeOK`
- BudgetHolds: `Spec => []SnapshotBudget`

LiveConflictsKept: an operation that is about to remove or to orphan a conflict has a
conflict that was recorded and is not held (`OpFit`), and a held one's report is active in
its directory under its window's lease (`ReportFits`). BudgetHolds: what counts is not what
is kept but what is taken, a copy that was allowed and not yet moved to its place included
(`Taken`), and each window's counter is what its conflicts under way reserved; so the check
before a copy is allowed, which adds up everything on disk and the other reservations,
bounds everything that any window may still keep. A sum over a finite set is a recursive
function of the community modules. That it exists, and that any element can be counted
last, are inductions over subsets; `SubsetInduction` states these for a set of subsets
instead of a predicate, from the least number of a set of numbers, so that it can be cited.

FileTransfer_proofs is about the parts of MCFileTransfer and so about the definitions
that its run checks. For any downloads and edits of a path, any number of watchers, any
files and jobs (`WriterAssumption`: the values that name writers are distinct and are
not one of the two marks used beside them, downloads are finitely many, the bound is a
number), any workspaces, profiles, paths and documents (`RegistryAssumption`: a path is a
sequence of names, those looked up are finitely many, configurations name folders that are
looked up, and no two of them the same):

- EchoesSuppressed: `MCSpec => []NoEcho`
- AnswersTrue: `MCSpec => []ReportsTruth`
- ConfigFollowed: `MCSpec => []RegistryFollowsConfig`
- FileTyped: `MCSpec => []FileTypeOK`

EchoesSuppressed: the claims that have not resolved stand in line, each found the one
before it, and the last is in the table (`InLine`); so a download writes only when every
claim before its own has resolved, and what it wrote is in the file only under a claim
that will tell it (`Covered`); and what the drain read is what the claim it awaited tells,
as long as that is in the table (`ReadUnderClaim`). AnswersTrue: a job is in the queue
once, from its request to its terminal result (`Queued`); what was transferred is reported
as uploaded or about to be (`Accounted`); and what a result on disk or told to the agent
says of a file is so (`ResultsTrue`). ConfigFollowed: a service is at the folder its
configuration names, and the nodes on the way to it are in the trie (`Fitting`), so that
pruning for one service takes no node another needs; what is loaded is there and what is
there is loaded (`LoadedFits`), so that the longest prefix with a service is the nearest
folder in force; and a folder is watched as its service and the profile want it (`InOrder`),
or its workspace's last loading failed and it has the watcher of a replaced service (`Odd`).
A loading or a deactivation disposes of services and creates others one after the other in
one step, each of which may switch the profile of all or fail and end the rest. What one
does is a lemma on any registry (`CreateFits`, `DisposeFits`); that it holds after all of
them (`AllCreatedFit`, `AllDisposedFit`) is shown from the first position at which it would
not (`FromStepToStep`). A workspace whose first loading failed is sound only because its
folders had no service before, which is why `Loose` leaves out the workspaces still to be
read first. FileTyped takes the types from these invariants and from TransferTask's; a
queue without repetition is no longer than there are jobs.

SharedState_proofs is about five parts of MCSharedState, each with its own invariant, for
any windows, versions, records, endpoints, files, contents, transfers and limits
(`SharedAssumption`: the writer is not among the other windows, there is a version, at
least one recent backup is kept, the value for "nothing" is no content, versions and the
store's size are numbers, and files are finitely many):

- VersionsStay: `MCSpec => []AcknowledgedStays`
- ReportsKept: `MCSpec => NeverLost`
- NoRecordLost: `MCSpec => []LegacyKept`
- NoCredentialLost: `MCSpec => []CredentialKept`
- ReplacedIsCopied: `MCSpec => BackupKept`
- OverwrittenSeen: `MCSpec => RemoteEditSeen`
- StateTyped: `MCSpec => []StateTypeOK`

VersionsStay and ReportsKept share `ReportInv`: what the temporary files can hold, the
writer's only the version after the acknowledged one (`Contents`); that a window which
tidies up or found a report has one, and one that will remove its list either has a report
or listed nothing readable (`Guarded`); and that where renames replace no earlier version
is left behind for anybody to promote (`InPlace`). Without the last a repair after a crash
could promote an old version over none. NoRecordLost: importing windows take turns, and
what an import has dealt with is imported (`DealtWith`). NoCredentialLost: a migration
about to delete has an endpoint that holds a value (`DeletesLast`). ReplacedIsCopied: each
file an operation is about to touch is missing, known to others' change, waiting for its
copy, or copied (`CopiedFirst`), and with two versions or more thinning out keeps the
backup just made (`NewestChosen`), wherever it stands among oldest, confirmed and evenly
chosen ones. OverwrittenSeen: a version that nobody has seen is not what the local file has,
and neither the store nor a record that waits to be written has it, and a transfer of its
file has come no further than asking (`Unrecorded`); so the comparison finds a conflict
whatever was evicted. StateTyped takes the types from these invariants, from those of
ConflictStateStore, and from `Bounded`: the store of baselines is within its limit, since
the entry just written can always be among those kept (`NewestFit`).

Endpoint_proofs is about the parts of MCRemoteFsCache, for any chain, keys, folders,
profiles, operations, files and bounds (`EndpointAssumption`: an operation's files are
files, operations are finitely many, a chain has a client, the value for "no key" is no
key, every path but the root lies in a folder, and bounds are numbers), and for any
trees, repositories, names and contents (`ChangesAssumption`: what is in a folder of a
tree has that folder, no file of a repository is a folder of another, contents 0 and 1
are contents):

- ChainsAreSound: `MCSpec => []ChainIsSound`
- TreesAreHonest: `MCSpec => []TreeIsHonest`
- GroupsAreHonest: `MCSpec => []GroupsTellTruth`
- DropsLoseNothing: `MCSpec => []MovesKeepEverything`
- ChangesArrive: `MCSpec => []ChangedFilesArrive`
- EndpointTyped: `MCSpec => []EndpointTypeOK`

ChainsAreSound: a client that connects or is connected is the last or in the list that a
failure ends (`Reached`); and who may write the file of host keys, in this window or
another, writes trusted keys only, once a question that is open is answered
(`KeysVouched`). TreesAreHonest: the roots are of the service and profile in force
(`RootsInForce`), items and listings under way are of the roots unless these were made
since (`OfTheRoots`), and what the editor is about to ask for and will be read, as no
failure of it is remembered, was paid for by an expansion or a refresh (`Paid`). GroupsAreHonest: a group counts the operations in
it (`Counted`), whose places say what their children can be doing (`ChildrenFit`); what
is in use is listed, and there is a new group for every operation that has not begun
(`InList`); what is shown as running runs (`RunningRuns`), so that a group nobody is in
and without conflicts rests; a group that ended or went is quiet (`Resting`), one whose
operations are over ended unless a conflict is left (`OverEnds`), and in a cancelled one
nothing waits and whoever still collects is stopped (`Obeyed`). The end of an operation
cancels, leaves and finishes in one step, and passes through groups in which `OverEnds`
fails for its own group: the invariant is an operator on any groups, and each phase a
lemma (`CancelPhase`, `LeavePhase`, `FinishPhase`) that other actions use as well.
DropsLoseNothing: the folder a drop goes to stays where it is, as no move takes it or a
folder above it, the moves are made one after another, and each goes to a place that is
free or is refused, so what is on the server is what was there under old and new names
(`MoveKeeps`). ChangesArrive: the list of jobs fits the changes when the command
begins (`JobsFit`) and each job and each failure later fits that list (`PlanFits`), what
is on the server stands on folders at every step of `ensureDir` (`Grounded`), and each
file is told by what the job that cares for it has made of it so far (`FilesTold`);
deletions come after the uploads and renames whose places they could take.
EndpointTyped: the types alone are not inductive: a failure ends the clients in a list
that has each at most once and in order (`InLine`), items are of services there were
(`OfServices`), no content is made up (`ChangesTyped`), the counts of a group stay
within the number of operations, as only who is in it is counted, and what operations
failed of and who was stopped is typed beside it (`Blamed`).

Every invariant and action property that a passing run checks is stated by a theorem.
Model-checked only: the liveness properties, which are outside TLAPS' reach here, as is
ENABLED, and the disagreements, which TLC refutes. `MaxMigrations` in CredentialMigration
stays a number: it bounds the queue of one window only.

## Plan

1. The FTP client: its queue of requests, its states before the login and `isClosed`,
   in RemoteFsCache; callers of several operations whose retries do the removing.
2. UploadConflict composed with TransferTask's replacement and with ConflictStateStore.

## Not modelled, and why

Protocol clients (other than the chain of SSH connections), listing and stat of the file
systems, presentation, hooks and redaction are I/O, views or text; their outcomes
(success, failure, closed) are the nondeterministic results of the actions that call
them. Connection health and the history of finished rows only display. Validation of
configuration fields, ignore rules and presets are pure computations on data. In the
modelled components: `limitOpenFilesOnRemote` (it delays opens), removal of stale
artifacts by age and the size of JSON files in the state store, local recovery snapshots
(same reservation as remote ones), the cancellation of a single item by the queue's view
in ActivityGroups (it is in TransferScheduler), two configurations of one folder (the
last wins), the explorer's filter and previews. File contents are model values. Wording
and logging are left out.
