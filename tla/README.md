# Vault Rooms: TLA+ models, checks and proofs

Vault Rooms shares folders of an Obsidian vault between people. A *relay* (a
Node process, or the same code embedded in the desktop plugin) keeps rooms,
files, permissions and live-editing documents; a *plugin* mounts rooms into a
vault and synchronises them over HTTP and a WebSocket. This directory models
the parts of it whose correctness depends on the order in which things happen:
what is persisted when, what another request may do during an `await`, what a
crash leaves behind.

Paths below are relative to `src/`; `relay/` stands for
`apps/relay-server/src/` and `plugin/` for `apps/obsidian-plugin/src/`.

## 1. Inventory

### The relay

| Part | State | Operations | Talks to |
|---|---|---|---|
| Database `relay/db/sqlJsAdapter.ts`, `plugin/obsidianSqlJsDb.ts` | in-memory sql.js image, the file on disk, a flush timer, the chain of exports, the queues of exclusive access and of `durable()` | `prepare`/`transaction` (schedule a flush), `flush`, `durable` (flush, snapshot, apply, flush, restore), `withExclusiveAccess`, `startInQueueTurn`, `close` | the disk, directly or through `dataAdapterFileReplace.ts` |
| File rows `relay/db/repositories/fileRepository.ts` | `files`, `file_versions`, operation receipts, storage usage | write, delete, rename, create, materialize, history pruning, legacy migration, backfill | the database |
| Rooms, teams, invites, devices `relayRepository.ts` | their rows, the audit log | create/delete room, lane switch, epoch bump, invites, memberships, tokens | the database |
| CRDT log `crdtRepository.ts` | `crdt_updates`, `crdt_snapshots` | append, list, snapshot, purge | the database |
| Blob store `relay/storage/fsBlobStore.ts`, `plugin/dataAdapterBlobStore.ts` | one file per content hash | put, get, delete, list | the disk |
| Content write service `relay/storage/contentWriteService.ts` | a queue of promises (`withBlobAccess`) | write, materialize, read, delete, collect orphaned keys, migrate legacy content, sweep | blob store, file rows |
| Storage maintenance `relay/services/storageMaintenance.ts` | the current phase and its timer | backfill, migration, sweep, in batches | content write service |
| CRDT document manager `relay/sync/crdtDocManager.ts` | cache of Yjs documents with debounce timers, the rooms being retired, the writes under way | load, sync, apply update, compact, materialize, seed, retire a room, evict | CRDT log, content write service |
| Sync server `relay/sync/syncServer.ts` | per-connection state | authentication, subscriptions, file writes and deletes, CRDT messages, presence | everything above |
| Connection registry, presence, policy | connections and their subscriptions; presence entries and hue leases; access rules | broadcast, revalidate, claim and clear presence, evaluate a rule | sockets, database |
| Identity, rotation, TLS enforcement `relay/security/` | the server's key pairs, rotation records, the enforcement flag | rotate, verify, enforce | identity store, connections |
| Routes, assembly, configuration, rate limiter | request counters | HTTP handlers | everything above |

### The plugin

| Part | State | Operations |
|---|---|---|
| Whole-file sync: `syncClient.ts`, `pushCoordinator.ts`, `fileWatcher.ts`, `vaultAdapter.ts` | per-file `{serverVersion, serverSha256, localSha256, dirty}`, debounce timers, per-path push chains | push, delete, rename, apply a remote change, conflict copies, initial sync |
| CRDT sessions: `crdtSession.ts`, `crdtDocStore.ts`, `crdtReconcile.ts`, `crdtEditorBinding.ts` | Yjs documents by path and epoch, persisted state, handshake progress | open, sync, reconcile with the disk, persist, rename, resync |
| Operation journal `crdtOperationJournal.ts` | queued creates and renames of the room's notes | record, replay against the relay's receipts, convert to the whole-file lane |
| WebSocket client `syncWsClient.ts` | connection state, subscriptions, backoff | connect, authenticate, subscribe, reconnect |
| Mounts and servers `controllers/`, `main.ts` | mounted rooms, connections | mount, unmount, refresh |
| File replacement `dataAdapterFileReplace.ts` | a file and its siblings `.tmp` and `.replace-backup` | recover, replace, create |
| Embedded relay `embeddedRelayApp.ts`, `serverManager.ts` | the hosted server | start, stop |
| Views, modals, settings, LAN discovery, API client, transport | | user interface and network I/O |

### What is hard here

* **Two stores with different delays.** Blobs are written and deleted at once;
  the metadata that refers to them reaches the disk up to a debounce later. The
  order *put, commit, persist, delete* is what keeps a crash from reopening
  metadata that points at nothing.
* **Handlers that await.** JavaScript is single-threaded, but every `await` lets
  another handler run: a key is read before the bytes are, a note's text before
  the lane is switched, a timer fires before its write gets its turn.
* **Three nested queues.** A holder of the blob queue waits for exclusive
  database access, and that for exports under way; `durable()` meanwhile makes
  every other mutation throw.
* **Two lanes for one note.** A note is either a whole file with versions or a
  document with an update log; switching a room between the lanes must lose
  nothing either way, and nothing late from one lane may land in the other.
* **Lives of a path.** A note is deleted and recreated, and its document has a
  new epoch each time; messages, timers and materializations of an old epoch
  still arrive.
* **Failure halfway.** An append, a flush, a blob write or an adapter rename may
  fail between two steps that belong together.

`PROJECT.json` lists each hazard at the line where it bites, with the properties
that would catch it.

## 2. Modules

| Module | Models | Role |
|---|---|---|
| `ContentStore` | content write service, blob stores, database image and its flushes, storage maintenance | specification |
| `ContentStore_proofs` | | theorems about it |
| `CrdtDocs` | CRDT document manager, update log, lane switch, the sync server's document handlers | specification |
| `CrdtDocs_proofs` | | theorems about it |
| `FileRows` | `fileRepository.ts` with the file operations of the repositories and routes that use it: versions, marks of deleted names, epochs, quarantine, renames, the migration to portable names | specification |
| `FileRows_proofs` | | theorems about it and VersionedFiles, and the refinement |
| `VersionedFiles` | what whole-file devices rely on: one version counter per name | abstract specification |
| `RelayDb` | `obsidianSqlJsDb.ts` in full, and the synchronous flush of `sqlJsAdapter.ts`: flush timer, retries, exports, `durable()`, exclusive access, `close` | specification |
| `FileReplace` | `dataAdapterFileReplace.ts`: recover and replace | specification |
| `AtomicFile` | what callers of a replacement rely on | abstract specification |
| `Upgrade` | the schema migrations of rooms, members and rules from every older release | specification |
| `LegacyBackup` | a v0.1 database, its backup and its recovery, on both hosts | specification |
| `Access` | members, teams, rules, invites, tokens, revocation; connections and subscriptions | specification |
| `Access_proofs` | | theorems about it |
| `Presence` | carets: the relay's registry and the devices' sessions, with both directions of each connection | specification |
| `Hues` | `presenceRegistry.ts`: colours and their leases | specification |
| `RateLimiter` | `rateLimiter.ts` | specification |
| `Hues_proofs` | | theorems about both |
| `HostSecurity` | `serverManager.ts`, `embeddedRelayApp.ts`, the identity file: start, stop, the move to TLS, rotation | specification |
| `SavedServer` | `ServerConnectionManager.ts` and the relay routes it asks: one saved connection | specification |
| `Connection` | `syncWsClient.ts` and the connect, retire and stop code of `main.ts` | specification |
| `Recovery_proofs` | | theorems about RelayDb, Connection, SavedServer and HostSecurity |
| `SyncLane` | the whole-file lane of one device: watcher, push chain, remote changes, snapshots, against the relay | specification |
| `SyncLane_proofs` | | theorems about it |
| `NoteJournal` | `crdtOperationJournal.ts` with its callers and the relay's receipts | specification |
| `NoteSession` | `crdtSession.ts`, `crdtReconcile.ts`: the text of one note between file, cache, editor and relay | specification |
| `DocStore` | `crdtDocStore.ts`: the cached documents of a note and the queue to them | specification |
| `NoteText_proofs` | | theorems about FileReplace, with its refinement of AtomicFile, and DocStore |
| `MCContentStore`, `MCCrdtDocs`, `MCSyncLane`, `MCFileRows`, `MCSavedServer` | | instances for TLC |
| `MCRooms`, `MCRelay`, `MCRecovery`, `MCNotes`, `MCNoteText` | | instances of several modules for TLC |

The last five join modules that answer one question of the system but share no
variable. A variable `part` says which module a behaviour is about; the others rest.
That is a disjoint union and not a composition: it checks each module exactly as a
run of its own would. Modules do interact where one *contains* what it needs of the
other (below, "contains"): `CrdtDocs` the blob queue, `NoteJournal` the receipts,
`DocStore` the states that `FileReplace` leaves a file in, `Presence` the handshake
of `NoteSession`, `SavedServer` the host's side of `HostSecurity`.

The specifications use one action per *turn of the event loop*: the code
between two awaits runs without interruption and is one step, and every await is
a point where any other action may come. A definition whose comment begins
"Mutant:" is not part of any specification: it is a version of the definition
after it, broken the way a plausible bug would break it, kept to show that the
properties notice.

### 2.1 ContentStore

Variables and what they stand for:

| Variable | Code |
|---|---|
| `mem` | the sql.js image: per row, is it live, still legacy (`raw_size_bytes` null), its current content, and the set of (content, inline or blob) its versions hold |
| `disk` | the image a restart would open |
| `blobs` | keys present in the blob store; a key *is* its content's hash, so contents stand for keys |
| `saving` | an export between `sqlDb.export()` and the end of its write; the desktop chain runs one at a time |
| `durable` | a `durable()` between apply and last flush, with its snapshot |
| `op` | the holder of `withBlobAccess`, at the await it is suspended at |
| `jobs` | keys handed to `collectOrphanedBlobKeys` calls that wait for the queue |
| `phase` | where storage maintenance is |
| `abandoned` | history: keys whose collection failed, or that a crash orphaned |

The actions follow `contentWriteService.ts`: `Put` then `Commit` or `Reject` for a
write or a materialization, `DeleteFile`, `ReadFile` then `GetBlob`; `Collect` is the
decision at the head of `collect()`, and `CollectExport`, `CollectSaved`,
`CollectSaveFails`, `DeleteBlob`, `DeleteBlobFails` its awaits. Room deletion, note
creation and renames run outside the blob queue (`Direct`, `Durable`), maintenance
as batches, the flush timer and a crash at any point.

What is abstracted: a row's path, room and version number (they are FileRows'); two rows of the same content under different versions are one pair; each
legacy reference takes the queue of its own while the code handles a batch per turn,
which allows more interleavings; the synchronous flush of the standalone relay is a
case of the asynchronous one; several pending `durable()` calls run one at a time.
The maintenance phase named `sweep` in the code, an SQL update that touches no
reference, is not a phase of the model.

### 2.2 CrdtDocs

One room's notes. A document's text is a number of updates modulo `TextCount`: an
update changes the text, enough updates bring an old text back, and a lost update
shows. `rows` holds the `files` row (live, epoch, whole-file content) with the
`crdt_snapshots` and `crdt_updates` rows of the current epoch; older epochs have
none, since every epoch bump purges them. `cache` is the manager's cache, by note
and epoch; a document in it may have a debounce `timer`, or be `waiting`: its timer
fired and its turn in the database queue has not come. `queue` is the blob queue as
far as materializations are concerned. `switch` has one entry per concurrent request
to change the room's lane, with what it has read so far. `ghost` is history: the text
each note should have.

The clients' actions are whole handlers (`ApplyUpdate`, `Handshake`, `CreateDoc`,
`DeleteAsked`/`DeleteCommits`/`DeleteEvicts`, `Subscribe`/`MaterializeNow`,
`WriteFile`). `Retire`, `RetireLands`, `Lands`/`LandOn`, `SwitchOff`, `SwitchSaved`
are `retireRoom` around the switch; `EnableStarts`, `ReadSeed`, `SwitchOn`,
`SeedsOutdated` turn live editing on. `Failures` selects which operations may
fail: an append, a landing, the flush of the switch, and restarts.

What is abstracted: other rooms appear only as the pressure they put on the shared
cache (`Evict` takes any document without a timer, `kept` says whether a document
just loaded survives its own load). A handler begins only when no `durable()` is
pending, as `startInQueueTurn` arranges for the embedded relay. A restart keeps the
database: how far the disk lags behind is ContentStore's subject. `crdt_create`'s two
turns are one step. Renames, presence, access rules and quarantined paths are not in
this module. The switch that fails leaves cached documents of the epoch it took
back; `CacheMatchesLog` shows they are inert.

### 2.3 FileRows and VersionedFiles

`rows` is the `files` table, by id, each row with the contents its `file_versions`
store; `enabled` the room's lane. A *name* is a portable key: paths that differ only
in case share it, and before the migration several files could. `seen` is one
whole-file device's memory of one fetch (version and content), `held` one CRDT device's
cached document, remembered by name and epoch as the plugin's store does.

Every action is one transaction: `CreateFile`, `UpdateFile`
(`writeFile`), `DeleteFile`, `DeleteNote`, `Rename` and `RepairName` (with the mark they
leave and the deleted row they clear), `CreateCrdt`, `Materialize`, `Enable` and
`Disable`. The initial states are what `migratePortablePaths` makes of every old table
within the bounds. Deleted versions, history and blobs are ContentStore's.

`VersionedFiles` is the promise: a content changes only together with a higher
version, whatever operation is behind it, and a name in use is never paused again. It
reads a name as the highest version of its rows, with the content of its live file, or
`Paused` while its files overlap.

### 2.4 FileReplace and AtomicFile

`target`, `temp`, `backup` are the file and its siblings; `pc` is the next adapter
call of the replacement or load under way. The adapter's rename refuses to
overwrite. Existence checks change nothing and callers of one file take turns
(`flush` chains, `withRoomAccess`, one identity at a time), so a check and the call
it guards are one step; a crash may come between any two. `RenamesLie` lets a rename
be reported failed although it happened; a run with it covers the runs without. `reliable` becomes true, once and between two calls, when nothing
fails any more: it is the hypothesis of the liveness property.

`AtomicFile` is the promise: the content changes at one point, a successful call has
committed, a failed one has not. The refinement mapping reads the file as its next
opener will find it: the target, or the backup when there is no target.

### 2.5 SyncLane

One file on one device. `track` is its entry in `room.files`: the version and text it
is based on (`text` is `None` when `serverSha256` is null), `dirty`, and `deleted`
(`localDeleted`). Two chains run side by side, each one handler at a time. The push
chain has `timer` (the debounce), `pushes` (what waits) and `push`, the push under way
at its await: `StartChange`, `Compare`, `RelayWrites`, `AnswerArrives`, or
`ConflictArrives`, `Overwrite`, `NoteConflict`; `StartDelete`, `RelayDeletes`. The
other handles the relay's messages in `inbox`, at `apply`: `HandleChange` for a change
or deletion, `HandleSnapshot` with `Fetch` and `FetchArrives`, then `ApplyWrites` and
`ApplyNotes`. Every write of the device's own comes back as a vault event (`Echo`),
which marks the entry like a user's. The relay takes, conflicts or refuses as
`fileRepository.ts` does; what the others do is any sequence of accepted writes and
deletions. A request or its answer may be lost at any await, the socket may close,
Obsidian may be restarted, until `calm`.

What is abstracted: a hash stands for its text, and texts are numbered, so no two
users write the same one. The settings are taken to be saved with every change of an
entry. An event is delivered before the device's next write of its own. `owner_wins`,
renames, paused paths and terminal errors are left out.

### 2.6 RelayDb

`mem` and `disk` are sets of numbered changes. `saves` is the desktop's chain of
exports, in the order they were called, each with the image it took; `durables` the
calls of `durable()` with the step each is at and its snapshot; `waiting` and `holding`
the queue of `withExclusiveAccess`. `host` chooses the adapter: on a standalone relay a
flush is one step. `TimerFires`, `CallDurable`, `DurableStarts`, `Operate`, `SaveSucceeds` and four ways
for a save to fail (by whose it is: the timer's, a durable's first or second, another's)
follow `obsidianSqlJsDb.ts` await by await; `AskAccess`, `LookAgain`, `AccessStarts`,
`AccessEnds` are exclusive access with its re-check of pending durables; `Close`,
`CloseSaves`, `CloseEnds` and `Crash` end the process. Changes are numbered because the
properties compare images; what a change is belongs to the other modules.

### 2.7 Upgrade and LegacyBackup

An `Upgrade` image has the owners, members, rules, rooms (or v0.1 "shares") and migration
marks. `Open` runs all migrations in order, as the adapters do at each opening, `OpenCore`
runs them again on the open image, as the relay's core does, `Save` keeps the result, `Stop`
drops what was not saved, `AddRule` is what an owner does in between. The initial states are
all old databases within the bounds that the older releases' own rules allow.

`LegacyBackup` has the files beside each other: the database, `.bak-v1`, `.invalid` and
`.pre-v01-restore`, and a process that recovers, backs up, opens and saves, each a step
after which it may die; `Restore*` is the user's restore, `OldRelease` a return to an
older version. A copy that overwrites the database in place may be cut off and leave it
torn (`db.ts:84`, `:94`): `cut` marks such behaviours and exempts them from `RecoveredFirst`.

### 2.8 Access

One room of one relay, its owner and another person, with a team, an invite and rules.
A request is one transaction and one action, except an invite's creation, which takes
its turn in the queue of durable operations after it was checked: `AskTeamInvite` and
`AskRoomInvite`, then `CreateInvite`. `Revalidate` is what the registry does after every
change of rules, members or tokens. `Allowed` is the policy evaluation, by subject,
pattern and effect; rules are kept oldest first, since of equal ones the newest counts.
`unsettled` remembers users admitted to a team, by a member or an invite: the code
revalidates nothing there, and the next change does it.

### 2.9 Presence, Hues, RateLimiter

`Presence` has a note, two devices and three connections; `up` and `down` are each
connection's frames in order, and a device may believe in a connection (`link`) that the
relay has not yet lost, or the other way round. `OpenSession`, `MoveCaret`, `TimerFires`,
`DetachView` and the `Read*` actions are the plugin's side; `Take*`, `Rename`,
`DeleteCommits`/`DeleteSettles`, `Deny`, `Grant`, `RelayCloses` the relay's. A deletion's
carets go a turn after its transaction. `DbQueue` lets a frame that waits for the
database outlive its connection.

`Hues` knows of each connection whether it is open (`sockets`), closed while frames of it
waited (`queued`), and has the room among its subscriptions (`subscribed`): the close
handler (`Close`) releases the leases and leaves the subscriptions as they were. On the
embedded relay (`embedded`) every frame waits for a turn of the database queue, so a
connection that has closed may still subscribe, announce a caret or leave (`Handles`).
The module follows `presenceRegistry.ts` with 3 slots and a stride of 2 in place of
360,000 and 137,508: wherever the stride leads, the probes go on slot by slot, and with
three users they have to find the last slot. `RateLimiter` keeps ages in place of
times. Its table of tracked keys holds two, so that evictions occur.

### 2.10 HostSecurity, SavedServer, Connection

`HostSecurity`: `disk` is what a restart finds (state, owner, chain of identities), `apps`
the relay apps of the process with their listeners, `manager` the fields of
`EmbeddedRelayServer`, `call` the owner's operations under way. Each operation (start,
stop, enable, enforce, rotate, restore) is a sequence of awaits, `Listens`, `Saves`,
`Commits`, `Closes`..., each of which may fail, with the roll-back the code then does, or
be the last before a crash.

`SavedServer` numbers identities in the order of rotations, so a record is a number and a
chain of signatures the interval between two; `server` and `device` are the relay's side,
`conn` the saved connection, and `mig`, `acc`, `move`, `req`, `rec` the requests under way,
each holding the connection it started from. Two of these may overlap (`MaxPending`): two
recoveries, or any of them with a migration, an invite, a change of address or a request,
or two of those of different kinds. `lost` and `raced` exempt an answer
that never arrives and an invite accepted over a connection that has changed (the code
puts the older one back).

`Connection`: `sock` has every `RoomSyncSocket` with its probe, hello, timer and close
state; `calls` are the runs of `connectSyncSocket` between two awaits, with the
generation each began in; `dev` and `saved` the relay and the token. A pinned WebSocket's
`error` and `close` are one step, an acknowledgement that times out counts as a fault, and
stopping the host is one step.

### 2.11 NoteJournal

`ops` is the journal, `cas` what the whole-file lane has to do at each path, `saved` both as
in `data.json`. A document is known by the note it holds, so that `docs` (the relay) and
`disk` (the vault) can be compared; `receipts` tells, by identifier, where an operation
ended. `Create`, `Rename` and `Delete` record and reduce; `TakeHead`, `LooksFor`, `Send`,
`RelayAnswers`, `AckedLive`, `RefusedLive`, `Reconciled`, `Ends` are the replay, an await each;
`Convert` hands over to the whole-file lane once live editing is off. `Disconnect`,
`Dispose`, `SwitchOff` and `Crash` come at any await. `excused` are notes whose operations
the code does lose sight of, in the ways section 4 lists; the properties speak of the
others.

### 2.12 NoteSession

A text is made of words and each is typed once; a document is a set of inserted and a set
of deleted items, and documents merge by union, which is what the properties need of Yjs.
The file has no items: `Reconciled` gives what `crdtReconcile.ts` makes of a file and a
document. `sess`, `synced`, `shake`, `bound`, `persist`, `materialize` are the session's own
flags and timers, `rec` the two runs of `reconcileAgainstDisk` (the handshake's and the
watcher's) at their awaits, `toRelay` and `toDevice` the connection. Users type in the
editor or, with Obsidian elsewhere, in the file; a peer types at the relay; the process may
crash and the connection drop at any point. Words that the session manager loses sight of
(section 4) are `excused`, with the words typed beside them.

Left out: epochs and `resyncAtEpoch`, renames of an open session, colliding and
quarantined paths, the fallback after `MAX_RECONCILE_ATTEMPTS`, updates that Yjs buffers
until the ones before them come.

### 2.13 DocStore

`files` has, per path and epoch, the copy and the one moved aside while it is replaced.
`queue` are the uses of the room's copies: `Load`, `Save`, `Retire` (the last save of a
session), `RenameRuns`, `DeleteEpoch`, `DeleteRoom`. A failing use fails the one queued
behind it (`spoiled`, `Skip`), and a last save that failed is `retained` and retried first.
`owed` is history: the last edit whose save was acknowledged; `Demand` adds what a session
held that retires. A rename strays (`strayed`) that finds only the copy moved aside, that
finds a file at its new place, which the adapter does not overwrite, or that fails with the
use before it.

## 3. Runs

| Run | Instance | Distinct states | Shows |
|---|---|---|---|
| `content_maintenance` | 1 file, 2 contents, legacy rows | 117,605 | the inductive invariant `IInv`, `NoDanglingReference`, `ReadFindsBlob`, `NoSilentLeak`, `TombstonesHoldNoBlobs`, `SweepIsComplete`, `BlobQueueDrains` |
| `crdt_faults` | 1 note, 2 updates per epoch, 1 epoch change, all failures | 431,763 | `CacheIsExact`, `AcceptedSurvives`, `MaterializedIsATextOfTheNote`, `MaterializedNeverGoesBack` |
| `sync_device` | 2 new texts, 3 versions, 1 waiting push and message | 539,800 | `EntryIsExact`, `EditsSurvive`, `EditsSettle` |
| `rooms` | FileRows: 3 paths (two spell one name), 4 ids, 2 contents, 4 versions, 1 epoch change; CrdtDocs: 2 notes, failing landings and flushes | 84,322 | `SeenAndStoredAreExact`, `NamesAreExact`, `ImplementsVersionedFiles`; `AcceptedSurvives`, `RetireEnds` |
| `relay` | Access: 2 people, a team, an invite, 2 rules; FileRows: 3 paths, 3 epochs, no renames; Upgrade: 2 people, 2 teams, 2 rooms; LegacyBackup: 4 images | 559,935 | `RevocationTakesEffect`, `SubscribersAllowed`, `GrantTakesEffect`; `StaleStateIsolated`; `UpgradesKeepAll` |
| `recovery` | FileReplace: 3 images, misreported renames; RelayDb: 3 changes, 2 durables, 2 requests, 1 retry; HostSecurity: 8 operations, 3 faults, 4 identities; SavedServer: 3 identities, 2 tokens, 2 recoveries, 2 requests under way together; Connection: 2 sockets, 3 connects, 2 faults | 555,747 | `ReplacementsSucceed`; `PromisesAreKept`, `AllAreServed`; `OneIdentity`; `SavedTokenIsHonoured`, `CatchesUp`; `OneSocket`, `Reconnects` |
| `notes` | Presence: 2 devices, 3 connections, 2 documents, 2 moves, 1 event; Hues: 4 connections of 3 users, 3 slots, 4 arrivals; RateLimiter: 3 senders; NoteJournal: 2 notes, 4 identifiers, 2 events | 1,029,925 | `CaretsAgreeWithTheRelay`; `ColoursAreTheirOwn`; `LimitsAreKept`; `NotesAreWhereTheyAre` |
| `note_text` | FileReplace: 3 images, misreported renames; NoteSession: 2 words, 2 events, 2 messages on their way; DocStore: 2 paths, 2 epochs, 2 edits, 3 events | 1,501,423 | `ImplementsAtomicFile`; `NothingIsLostOrDoubled`, `AllHaveTheText`; `LoadsSeeAll` |
| `crdt_retire_twice` | 1 note, 2 concurrent requests | violation | `AcceptedSurvives` |
| `rows_stale` | as the FileRows of `relay`, with renames onto the name of the cached note | violation | `StaleStateIsolated` |
| `sync_overlap` | as `sync_device`, the user also saving during a push | violation | `EditsSurvive` |
| `saved_server` | as the SavedServer of `recovery` | violation | `NoFalseAlarm` |

A module's type invariant is a conjunct of one of its checked properties
(`CacheIsExact`, `EntryIsExact`, `PromisesAreKept`, ...) and never a property of its own.
Such a conjunction joins what only together says one thing; its comment names the parts,
and the modules define and explain each.

**Why these bounds.** In ContentStore the legacy rows need one file, whose history holds
both contents; files interact only through shared contents, and the proof covers any
number of them. In CrdtDocs two updates are the least for a compaction to cover some and
leave others, for a timer to fire between two, and, with `TextCount = 2`, for a text
to return to an earlier value; one epoch change is enough for anything late from the
previous life. Two notes matter for the one
place where notes are handled in a loop, `landRoomDocuments`; one update of each is
enough there (`rooms`). The blob queue's bound
(`MaxQueue`) limits only the materializations that timers and subscribers put in it.
In FileRows two spellings and
another name are the least for files to overlap, to be renamed apart, and for a name
to be renamed onto another's mark and back; the fourth id is the mark of a rename, and
versions up to 4 allow a file from before the migration three changes. In FileReplace nothing compares more than the old image and the new one; the third
makes a stale backup older than both distinguishable.

In SyncLane two new texts make a conflict (one each), a correction during an upload
(both the user's) and a chain of two remote changes; the last version is the
device's. `Overlaps` names the chains in
the middle of which the user may save. With none he saves when no push waits or runs
and no announced text is being written (a fetch under way does not stop him):
`sync_device` shows the lane right as far as it goes. `sync_overlap` lets him save
during a push. `EditsSettle` lets a refused edit rest: a create of an existing file or
an update of a deleted one is refused for ever, and stays marked dirty on the device.

In Access every rule is about the guest: the owner may do everything, so a second guest
would only add rules that do not apply to the first. Two rules let one be superseded and
one stay. In RelayDb two durables overlap in every way one can with the next; the third
change is the ordinary one between them. In HostSecurity the owner starts one operation at a time (two, see `OneServer` in section 4), and eight
of them reach a rotation after each state of the migration. In SavedServer three identities are the least for a recovery to be
overtaken by a rotation; each request replaces the connection by what it read before its
awaits, so what they do to each other shows with two under way (`MaxPending = 2`), and the
proof covers any number. In Connection two sockets are the old and the new. In Presence
two documents let each device open the note once, or one device twice; with three (1.1
million states of Presence alone) the properties hold too. In NoteJournal two notes
can swap names through a third path; two events let a crash meet a lost answer, and with three (1.75
million states) the properties hold too. In NoteSession the note begins with a word and a second
is typed by the user, in the file or by a peer; with all words excused the properties say
nothing more, and the exploration stops (`SomeWordIsFollowed`).

**Deadlock** is checked in `content_maintenance` and `crdt_faults`, where a crash, a
request or a restart is always possible. Elsewhere bounded counters run out, or, in
SyncLane once `calm`, everything is done.

**Fairness.** A safety property assumes none. `ContentStore!Fairness`: an I/O call ends
(weak fairness of its completion), and the queues are first come, first served, so
what waits for exclusive access, for the export chain or for the blob queue gets its
turn although others use it again and again (strong fairness of those steps). Nothing
is assumed of clients, timers or maintenance. `CrdtDocs!Fairness` is the same for the
blob queue's head and for the database turn of a fired timer; each request to switch the
lane goes on from the await it is at. `RelayDb!Fairness`: an export and a durable
operation go on, whoever has looked looks again, and a holder lets go; that a save ever
succeeds is not assumed. `SyncLane!FairSpec` is weak fairness of the watcher, the
timer, the socket and each chain: a chain has one step enabled at a time, so none of
its steps is favoured. `Connection!FairSpec`: timers fire, awaits end, and an outage
ends; faults are bounded, which is the property's "once faults end". `SavedServer`: a failed
request starts a recovery again and again, as the retries of the plugin do.
`FileReplace`: a call under way takes its next step. A crash is never
required and never forbidden, except after `reliable` in the one property that says
so. What always ends and begins again is stated as `[]<>`: the queue is idle again and again,
no durable operation is left over for ever, a room does not retire for ever, a replacement
ends (and, once `reliable`, has succeeded).

**Bounds in the models.** `MaxSeq` (updates per epoch), `MaxEpoch` (epochs per note)
and `MaxQueue` in CrdtDocs are guards that stop the counters; `MaxSeedAttempts` is the
code's constant 3, taken as 2. The constants named `Max...` of the other modules are
guards of the same kind, and each module names what they bound; `MaxUses`, `MaxRequests`,
`MaxTrackedKeys` and `MaxRetries` are limits of the code itself, taken small.

## 4. Where the code does not do what its comments say

Runs that expect a violation:

* `crdt_retire_twice`. `retireRoom` promises to take a room off the live-editing lane
  without losing an edit. Its `retiringRooms` is a set: of two concurrent requests, the
  one that fails to land a note takes the room out of the set while the other is still
  landing. An update accepted then, to a note the other has passed, is lost when it
  switches the room. With one request at a time (every other run) the promise holds.
* `rows_stale`. A live document is admitted by its path and epoch, and `schema.ts` says
  of the epoch that it isolates stale state. A rename keeps the epoch of the row it
  moves, whatever epochs its new path has had.
  A device that was away while its note was deleted and another note, of the same
  epoch, renamed to its path comes back with the deleted note's document and merges it
  into the other: the run's trace, which renames notes onto that one name only. With any
  target of renames there is a second way: the note itself is renamed away, the mark it
  leaves begins at epoch 0, and a create revives the mark at the epoch the device has.
  Without renames (`relay`) stale state stays isolated.
* `sync_overlap`. `README.md` and the room dialog promise that a losing write is never
  lost, but kept as a conflict copy. `pushLocalChange` replaces the file's entry by a
  clean one when its answer arrives, although the user may have saved a newer text
  during the request. Until that text's own debounce ends, a remote change finds
  nothing dirty and overwrites it without a copy. The same window exists while a
  conflict is settled: the copy holds what was read before the request.
* `saved_server`. `SECURITY.md` promises that a planned rotation is accepted when the
  client can verify a chain from the identity it has pinned. `deriveRotatedServer` walks
  the relay's records from the first, and a device that joined, or was pinned anew, after
  a rotation has not applied the earlier ones: the walk stops at the first of them and the
  "different server" alarm rings, although the last record's signature verifies.

Found by hand with the properties named, which stay in the modules and are checked by no
run; the checked properties exempt exactly these cases:

* LRU pressure (CrdtDocs). `evictLruIfOverCapacity` says that it never silently drops an
  update that has not reached `files`. It runs inside `load`, before the update being
  applied has a timer; when every other cached document has one, the document just
  loaded is evicted by its own load and its timer then writes nothing. The edit is in the
  log (`AcceptedSurvives` holds), but the whole-file content stays behind until the note
  is next edited, subscribed to, or its room leaves the lane.
* `Connection!NeverFalselyRevoked` (`syncWsClient.ts:263`): a socket that was reconnecting
  while the relay exchanged the token says hello with the old one, and the server is
  marked revoked. `SavedServer!RevokedIsReal` is the same for a request
  (`markServerRevoked`).
* `Connection!ConnectedHasSessions` (`main.ts:2107`): a call that retires the sessions may
  end after a newer one that keeps them.
* `HostSecurity!OneServer` (`serverManager.ts:104`): two starts under way together
  run two servers on one database.
* `Presence!ClosedShowNothing`, with `DbQueue = TRUE` (`syncServer.ts:110`): a caret that
  waits for the database is set after its connection was closed and cleaned up.
* `Hues!ClosedHoldNothing`, if `embedded` (`syncServer.ts:110`, `:120`): the same caret, or a
  subscription that waited, leases a colour to the closed connection. Its subscriptions are
  still there (`presenceService.ts:57`), so no revalidation returns the lease; only
  `removeRoom` does. Meanwhile the user keeps the colour and the slot is taken.
  `ColoursAreTheirOwn` claims it for the standalone relay only; on the embedded one it claims
  that such a connection closed with frames waiting.
* `RelayDb!FailedIsUndone`: a durable operation whose last save is reported failed is
  undone in memory, but an export called after it and begun before may have written it.
* `NoteJournal!DeletesKeepOthers` (`crdtOperationJournal.ts:96`): deleting a note that was
  renamed reduces into the operation of another note that once had the name.
* `NoteSession!PeersTextIsKept` (`crdtSession.ts:856`): a peer's word that arrives while the
  reconciliation waits for its file write is compared with the old file and deleted for
  everyone.

Exempted by history variables, without a property of their own. NoteJournal (`excused`): an
open that fails by `dispose` is taken for a refusal, though the relay may have done it; the
local rejection of an answered create; operations not saved before a crash. NoteSession
(`excused`): `dispose` cancels a file write that is due; the flush after a first handshake
overwrites an offline edit of the file of a document adopted without a cache; a
reconciliation of the watcher, a state kept before the first handshake, a cache behind the
file at a crash, or a replayed receipt insert a word a second time; a retry of the
reconciliation with an editor bound; binding replaces an editor's unsaved text.
DocStore (`strayed`): `rename` and `deleteEpoch` do not recover the file first, and a rename to
a place that is taken, or behind a use that fails, leaves the copy where nobody looks.
SavedServer (`lost`, `raced`), RelayDb (`forgotten`: a save that fails after it took over
the timer's work leaves nobody to save it), LegacyBackup (`cut`).

## 5. Proofs

`ContentStore_proofs` proves, for any sets of files and contents and any legacy
database, that `IInv` is inductive and implies `TypeOK`, `NoDanglingReference`,
`ReadFindsBlob`, `NoSilentLeak` and `TombstonesHoldNoBlobs`, and, with `SweepInv` beside it,
`SweepIsComplete`. The assumptions are the
module's own: the sentinel `None` is not a content or a file, and a legacy row refers
to no blob, its current content being among its versions.

`NoDanglingReference` alone is not inductive: that deleting a key is safe depends on
what the collection has already achieved. `CollectInv` says it at each await: keys
under collection are unreferenced in memory; once the export has begun, also in the
image being written; once it has ended, also on disk; and what is about to be read is
never among them. For this to survive `durable()`, whose failure brings an older image
back, `SlotsInv` states that a pending durable operation has touched no blob
reference, which in turn needs `RowsInv`: tombstones hold no blobs and legacy rows
only inline versions. Each action's lemma then disturbs few conjuncts; lemmas about
`Insert`, `Drop`, `Migrated` and `Backfilled` say what each transaction does to the
set of references. `SweepInv` is what makes the end of a sweep an end: while its last batch
is under collection, every orphan is one of the batch's keys or owed by a collection
still queued.

`CrdtDocs_proofs` proves that `IInv` holds of every behaviour in which requests to change
the room's lane do not overlap (`Spec /\ []OneAtATime => []IInv`), for any number of notes,
updates, epochs and switchers and any choice of `Failures`, and from it `CacheIsExact`
(`CacheExact`), `AcceptedSurvives` (`EditsSurvive`), `MaterializedIsATextOfTheNote`
(`ContentIsOfTheNote`) and `MaterializedNeverGoesBack` (`NeverGoesBack`). The hypothesis
`OneAtATime` is needed: `crdt_retire_twice` is the counterexample without it, and with one
switcher, as in `crdt_faults`, every behaviour satisfies it. The properties are far from
inductive. What a landing may write depends on where the request is (`PhasesInv`), what it
has read (`ReadsInv`), and which text the log, the snapshot and the whole-file content are,
as numbers of the note's history (`TextsInv`): while a room can be on the lane, also by the
rollback of a switch under way (`Old`, `OldOn`), the log has every accepted update; while it
can be off, the whole-file content has. `DocsInv` says the same of each cached document, a
stale one included, since its timer still fires; `QueueInv`, `ListingsInv` and `LandInv`
follow a materialization from the timer through the blob queue to `files`, and say that it
is of the current epoch or comes to nothing. Each action has a lemma with a step per
conjunct that it disturbs; lemmas about `TextOf`, `DurableText` and `NextSeq` say what an
append, a compaction and a load do to a text.

`FileRows_proofs` proves, for any paths, names, contents, ids and number of versions, that
`IInv` is inductive (`Invariance`), that FileRows implements VersionedFiles
(`Implements`), and from both `NamesAreExact` (`NamesStayExact`) and
`SeenAndStoredAreExact` (`SeenAndStoredStayExact`). The invariant is a conjunct per row
(its stored versions end with its own) and a conjunct per name: the quarantine flags are
set exactly while files overlap, and a file alone in its name is above every mark there.
The last is what makes the version counter of a name a maximum over its rows, and so what lets a
rename onto an old mark, or the repair of a collision, raise it. `StepOK` says of a step that
every name is `Alike` or has some row above all it had (`Renewed`); each transaction's lemma shows
it for the names it touches and `Alike` for the others, and the refinement reads the
abstract step off it. `SeenIsExact` is then not proved again: it is `SeenStaysExact`
of the abstraction, instantiated with the refinement mapping. The migration's result
is the initial state, so the proofs hold of whatever table `migratePortablePaths` makes. The
assumption is that `None` is none of the other values.

`SeenStaysExact`: for any names and contents, whatever
is done under the rule of `Advances`, a device that remembers a version holds its
content when the name still has that version, which is what makes the version check
of `writeFile` a compare-and-set. The proof keeps `Remembered` along every change: the
counter passes what was remembered only together with the content.

`CachedStaysIsolated` is of the device with a cached document: while nobody renames
(`RenameTargets = {}`), name and epoch admit it only to the note the document is of.
`StaleStateIsolated` compares with rows yet to come. `HeldOK` says that the file the
document is of tops its name: the others there are marks of lower versions, which `getFile`
never returns and so nothing revives; its epoch never goes back, and moves on when it is
deleted. `Steady` is what each transaction does to such a row. A rename breaks it, bringing
a row of any epoch to the name: that is `rows_stale`. `Access_proofs`, in
`StaleStaysIsolated`, instantiates the theorem with the FileRows of `relay`; the lemmas
`Same...` unfold the two instances to the same formulas.

`Recovery_proofs` proves, of RelayDb, for any number of changes, durable operations, requests
and retries, that `IInv` is inductive (`Invariance`) and that `PromisesAreKept` holds
(`PromisesKept`): `DurableOutcomes`, `UnsavedIsOwed`, `ClosedIsSaved` and
`FileNeverGoesBack`. The assumption is that `None` is neither an outcome nor an image.
`DurableOutcomes` compares what a caller was told with the file, and is not inductive: the
file of tomorrow is the image that the first save of the chain took some steps ago.
`OutcomesInv` says of each change whether it is in memory, in that image and in the file.
For the image to be what it must when the save ends, `SavesInv` says whose saves the chain
holds, at most one of a durable operation and one of `close`, and that only the first has
its image; `DurablesInv`, that while the first operation's save runs nothing has been
changed, since every other writer is refused or waits, so that the image before it lacks
exactly one change, the operation's own (`OwnIs`). `OwedInv` says who saves what is not in
the image being written either, without which the end of a save could leave a change to nobody;
`ClosingInv`, that nothing changes once `close` has waited. Lemmas about the chain say who
has a save in it when one is added at the end (`Join`), leaves and lets the next one export
(`Pop`), or does both at once (`SaveAgain`).

Of Connection it proves `OneSocketAlive`: for any number of sockets, connects and faults, however
connects, retirements, stops, migrations and rotations overlap, at most the socket that `main.ts`
holds is alive, and no CRDT request waits on a WebSocket that is gone. The hypothesis is
that `None` is neither a socket nor the name of a step. The
property needs two more conjuncts. `CallsOK`: each generation has one run of `connectSyncSocket`,
and that of the current one goes on to make a socket only when the old one is gone. `SocksOK`: a
socket that is not `main.ts`'s is closed, and a closed one has neither WebSocket nor timer nor
probe, so that no late callback brings it back.

Of SavedServer it proves that the saved token is honoured and that tokens of TLS stay on TLS
(`TokenHonoured`), and that the alarm is real (`AlarmsAreReal`), for any number of
identities, tokens, recoveries, requests under way and faults. The hypothesis
`AccountApart`: `None` is neither a connection nor a step, there is an identity, the bounds
are naturals. `TokensInv` says what each copy of a connection, which a migration, an invite
and a request carry across their awaits, may hold of the tokens handed out: none later than
the device's, one of TLS only if the copy uses TLS.
`TokenIsSomewhere` names the three places of the token that the relay accepts. What makes it
inductive is that a candidate is carried to the settings whole, and that an answer with a
new token is always the last one given. `AlarmsAreReal` needs `ChainsInv` (the records
applied are those up to the pin, and nobody knows of a rotation to come: `ChainOf`) and
`QuietInv` (only a pinned connection is being recovered, and only a pinned one has an
alarm). The one step that raises the alarm is then compared with the records: those from the
pin to what was probed are all there, unless the connection is `Late`.

Of HostSecurity it proves `OneIdentity`, `PresentedIsSaved` (`HostedIdentity`) and the two
action properties `NeverBackToPlain` and `OnlyTheOwnerEnforces` (`HostedState`), for any
number of operations, failures, crashes and identities. The hypothesis `HostApart`: the
owner has one operation under way at a time (`OneServer` is the counterexample without it),
`None` is none of the names, and `MaxIds` is a natural number. The properties speak of the
rest between two operations. `HostInv` therefore says for each operation what its last step
has left in the three places, one predicate each (`Starting`, `Stopping`, `Enabling`,
`Enforcing`, `Rotating`), the last with a case for each of the file, the listener and the
rollback; `HostAtRest` is what remains when none is under way. The lemma of an action leads
from one of these to the next; failures end in `Down`, rotations in `RotateEnds`, whichever
of the two identities wins. `StateMoves` lists how one step may change the durable state of
a server with an owner: not at all, by a migration, by the owner's enforcement, or forwards
when a standalone relay starts.

`NoteText_proofs` proves, of FileReplace, that `IInv` is inductive (`Invariance`) and
that it implements AtomicFile (`Refinement`), for any images and either value
of `RenamesLie`. The invariant's `PlacesInv` says what is where: the temporary is
complete when promoted, nothing is in its way, a backup beside a missing target is the
old image. Each action is matched with the abstract step it takes: `Promote` commits,
`Cleanup` succeeds, `Restore` fails, `Crash` dies, and the others change nothing
visible.

Of DocStore it proves that a load finds everything a retired session held and everything a
save was acknowledged for (`LoadsFindAll`), for any paths, epochs, edits, failures and
crashes. The hypothesis is that `None` is neither a number nor a use. `LoadsSeeAll` speaks of
the moment of a load; `IInv` says why a load yet to come will find the copy. `QueueLeadsToNote`:
each use in the queue begins where the one before it ends, and the last ends at the note, so
that `Copy`, what the *first* use will find, is what the note's load will find once the uses
have run (`NothingOwedIsMissing`). A use of an older epoch would break that chain;
`StaleOwesNothing` says that nothing is owed then. `SavesAdvance` orders the saves that wait: a
later one never brings an older edit back. `RetirementIsKept` follows the last save of a
session to the queue or to `failedRetirement`, with nothing but loads behind it. The attempt
corrected the model twice. History asked for what a crash had
taken before it was saved; with three edits the invariant then failed.
And a rename overwrote a file at its new place, which the adapter refuses to do (a case of
`crdtDocStore.test.ts:43`).

`AllLoadsFindAll`, `OneSocketEverywhere`, `TokenHonouredEverywhere`, `OneIdentityEverywhere`
and, below, `StaleStaysIsolated` carry such results over to the specifications the runs
check (`MCSpec`), in which the other modules' steps leave the state alone.

`SyncLane_proofs` proves, for any texts, number of versions and queues, that what the relay
does not have is marked dirty at every moment (`EntryStaysExact`) and that no text is
overwritten that neither the relay nor a conflict copy has (`WorkSurvives`: an action
property), if the user does not save in the middle of a chain. That hypothesis, `Overlaps =
{}`, is the condition of `sync_device`, and `sync_overlap` is the counterexample without it.
`IInv` (`Invariance`) says at each await of the two chains what the handler still knows
(`PushHolds`, `ApplyHolds`): the text of a push is what is on disk, or the relay has had
whatever is there (`Kept`); before a conflict or an announcement overwrites, that or a
conflict copy has it.

`Hues_proofs` proves `ColoursAreTheirOwn` (`OwnColours`) for any connections, users, stride
and circle, on both relays: `HuesAreTheirOwn`, `HueIsKept` and `SomeSlotIsFound`, and on the
standalone one `ClosedHoldNothing`, which the embedded one breaks (section 4). The assumption is
`HuesAssumption`: the numbers are naturals, the circle has a slot, there are finitely many
connections, and `None` is neither a user nor a slot. The shapes of the variables and
`HuesAreTheirOwn` need each other: a new slot is nobody else's only because `used` is
exactly what the leases say, and a lease may end with its last connection only because
`conns` is exactly who holds it. `SocketsInv` says that a closed connection whose frames may
still run is on the embedded relay: with it, who holds a lease is open or one of those, and
on the standalone relay open. `AllocatesFree` shows that the first free probe, the
least element of a set of naturals, is a free slot of the circle; that there is one is a
count. As many probes as there are slots are all different (`ProbesDiffer`), and while
another user has no colour fewer slots than that are taken (`FewInUse`: each by a user of
its own, of whom a connection is there), so not every probe is (`ProbesSuffice`).

It also proves `LimitsAreKept` (`LimitsKept`), for any keys, limits, windows and numbers of
tracked keys, none of them zero. `LimiterInv` relates each counter to the requests of its key
that were granted within the window: the last of them are those it counted (`CountsLast`),
and before those came no more than a predecessor could grant, all older than the counter
(`FewBefore`), unless the predecessor was evicted. `InOrder`: the counters are in the order
they started in, which is why pruning from the front alone leaves none that has expired
(`PruneKeeps`). A window gone by takes what came before with it (`OlderCounts`).

`Access_proofs` proves, for any users, devices, teams, invites, paths, patterns and numbers
of rules and uses, that `IInv` is inductive (`Invariance`) and implies `RevocationTakesEffect`
(`RevocationsTakeEffect`) and `SubscribersAllowed` (`SubscribersStayAllowed`), and that a
grant takes effect (`GrantsTakeEffect`). The assumptions are that the owner is a user, users
are neither teams nor devices, and one pattern covers the whole room. The properties need
two more conjuncts. `SocketsInv`: only enrolled devices that are not being recovered have a
connection; without it, taking a recovered device back, which closes nothing, could leave
an open one. `RulesInv`: no rule is about a team that does not exist yet; without it,
creating a team could put its owner under a denial that nobody revalidates. The policy
only asks which rules there are, so the proofs read the list of rules as a set
(`AllowedIs`). `SupersedeIs`, `WithRuleIs` and `WithGrantIs` say what a request makes of that
set, and two lemmas carry most of the proof. `GrantTakesNothing`: no grant takes from anybody
what it gives, so an invite, which revalidates nothing, need not. `GivesItsWorth`: what
remains of the denials of a grant's own subject and pattern withholds nothing of it. `Only`
stands where the code filters a list: the prover knows nothing of `SelectSeq`, and of `Only`
it is proved that it keeps exactly the chosen rules (`OnlyKeeps`), from the existence of an
ascending enumeration of any set of indices (`SomeEnumeration`).

Of Upgrade and LegacyBackup it proves `UpgradesKeepAll` (`UpgradesLoseNothing`), for any users,
teams, rooms, mount names, images and numbers of rules. It assumes that somebody uses the
server and that `None` is no image or file. `UpgradeInv` tells, beside the first image found,
what each image since is: that image as it was (`Raw`, what older releases could leave), or an
`Upgraded` one. Two lemmas carry the proof: `OpensAsUpgraded`, by which the first opening
gives everyone the rules they had (`RulesAsBefore`: the rules written out are those about a user,
`ExpandedAre`, and none is left out, `ExpandedAll`), and `AgainTheSame`, by which a further
opening changes nothing. Rules made by hand are told from inherited ones by their numbers
(`ByHand`): a stop may drop such a rule from memory but never lets another take its number.
`BackupInv` tells what is where at each point at which the process may die: before an open
v0.1 database is saved over, the backup beside it equals it (`StageInv`), and what was upgraded
stays beside the database or among the files put aside (`UpgradedKept`).

Only model-checked: Presence, NoteJournal and NoteSession, and all liveness: TLAPS has no rule
for fairness or ENABLED here. What a delete makes of NoteJournal's sequence of operations is a
fold over it (`Reduced`), of which only induction over the sequence could tell more.

## 6. What is not modelled, and the plan

Proofs: `CaretsAgreeWithTheRelay` of Presence, for any number of connections, and
`NothingIsLostOrDoubled` of NoteSession.

The model:

1. `SyncLane`: renames, mounting (`reconcileLocalEdits`, the listing), paused and colliding
   paths, what a conflict and an announcement do to each other's entry (an older
   text may be left under a newer version, `syncClient.ts:645`), and a crash of the relay that forgets versions it
   has announced (`sqlJsAdapter.ts:185`).
2. `NoteSession`: epochs, renames of an open session, the fallback of the reconciliation.
3. `HostSecurity` with two calls at a time, once the code excludes them.
4. Storage quotas and usage; `createDataAdapterFile`.
5. The pure algorithms (portable paths, the quarantine migration) as operators checked
   against reference definitions.

Left out for good: cryptography (its results are inputs), user interface, wording,
settings, LAN discovery, HTTP parsing and validation, listings and the audit log,
configuration and wiring, and the message types of the shared package.
