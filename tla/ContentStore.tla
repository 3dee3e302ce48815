---------------------------- MODULE ContentStore ----------------------------
(***************************************************************************)
(* The relay's content storage: file metadata in a sql.js database whose   *)
(* in-memory image reaches the disk on a delay, and file bytes in a        *)
(* content-addressed blob store that is written and deleted directly.      *)
(* contentWriteService.ts orders the two so that a crash never reopens     *)
(* metadata that points at a blob which no longer exists.                  *)
(*                                                                         *)
(* One action per turn of the event loop: everything between two awaits of *)
(* the code is one step, every await is a point where another actor runs.  *)
(***************************************************************************)
EXTENDS Naturals, FiniteSets

CONSTANTS
    Files,      \* slots for rows of the `files` table
    Contents,   \* file contents; a blob's key is its content's hash
    Empty,      \* the content of a note created for live editing
    None,       \* absence of a content or of a file
    LegacyRows, \* rows a database from before the blob store may hold
    StartPhase  \* where a new process starts maintenance; "over": it schedules none

ASSUME ContentsAssumption == Empty \in Contents /\ None \notin Contents /\ None \notin Files

Stores  == {"inline", "blob"}
Version == Contents \X Stores
Phases  == {"backfill", "migration", "blobStoreSweep", "over"}

(***************************************************************************)
(* A database image, as far as references go.  `vers` holds the distinct   *)
(* <<content, store>> pairs of a file's file_versions rows, so copying a   *)
(* row under a new version number leaves it alone; `cur` is the content of *)
(* the newest row; `legacy` says raw_size_bytes is still null.  A file     *)
(* that does not exist and a tombstone are the same here: not live.        *)
(***************************************************************************)
FileRow == [live : BOOLEAN, legacy : BOOLEAN,
            cur : Contents \cup {None}, vers : SUBSET Version]
Image   == [Files -> FileRow]

DeadRow == [live |-> FALSE, legacy |-> FALSE, cur |-> None, vers |-> {}]
LiveRow(c, s) == [live |-> TRUE, legacy |-> FALSE, cur |-> c, vers |-> {<<c, s>>}]

ASSUME LegacyAssumption ==
    \A r \in LegacyRows :
        /\ r \in FileRow /\ r.legacy
        /\ \A v \in r.vers : v[2] = "inline"
        /\ r.live <=> r.cur # None
        /\ r.live => <<r.cur, "inline">> \in r.vers

ASSUME StartAssumption == StartPhase \in {"backfill", "over"}

\* Mutant: the version rows are returned where their keys are meant.
BlobKeysAsRows(row) == {v \in row.vers : v[2] = "blob"}

BlobKeys(row) == {c \in Contents : <<c, "blob">> \in row.vers}
Refs(img)     == UNION {BlobKeys(img[f]) : f \in Files}

VARIABLES
    mem,        \* the in-memory database image
    disk,       \* the image a restart would open
    blobs,      \* contents present in the blob store
    saving,     \* exports being written: [busy, owner, img]
    durable,    \* a durable() operation between apply and its last flush: [busy, snap]
    op,         \* the operation that holds the blob queue (withBlobAccess)
    jobs,       \* keys of collectOrphanedBlobKeys calls waiting for the blob queue
    phase,      \* where startup maintenance has got to; "over": complete or given up
    abandoned   \* history: keys whose collection failed or died with the process

vars == <<mem, disk, blobs, saving, durable, op, jobs, phase, abandoned>>

Operation == [pc : {"idle", "commit", "flush", "export", "delete", "get"},
              kind : {"none", "write", "materialize", "migrate", "sweep"},
              keys : SUBSET Contents, last : BOOLEAN,
              file : Files \cup {None}, content : Contents \cup {None}]

Idle == [pc |-> "idle", kind |-> "none",
         keys |-> {}, last |-> FALSE, file |-> None, content |-> None]
NoSave    == [busy |-> FALSE, owner |-> "none", img |-> [f \in Files |-> DeadRow]]
NoDurable == [busy |-> FALSE, snap |-> [f \in Files |-> DeadRow]]
Save(who) == [busy |-> TRUE, owner |-> who, img |-> mem]

TypeOK ==
    /\ mem \in Image
    /\ disk \in Image
    /\ blobs \in SUBSET Contents
    /\ saving \in [busy : BOOLEAN, owner : {"none", "timer", "collect"}, img : Image]
    /\ durable \in [busy : BOOLEAN, snap : Image]
    /\ op \in Operation
    /\ op.pc = "commit" => op.file \in Files /\ op.content \in Contents
    /\ jobs \in SUBSET Contents
    /\ phase \in Phases
    /\ abandoned \in SUBSET Contents

(***************************************************************************)
(* Transactions, as the images they produce.                               *)
(***************************************************************************)
\* A new current version; pruneSupersededVersions drops every older row.
Insert(img, f, c, s) == [img EXCEPT ![f] = LiveRow(c, s)]

\* Mutant: a tombstone keeps the versions the file had.
DropKeepsVersions(img, fs) ==
    [f \in Files |-> IF f \in fs THEN [img[f] EXCEPT !.live = FALSE] ELSE img[f]]

\* Rows whose versions are all deleted: tombstones, or a deleted room's files.
Drop(img, fs) == [f \in Files |-> IF f \in fs THEN DeadRow ELSE img[f]]

\* One legacy version row moved to the blob store.  Another row of the same
\* content (a rename copied it) may still be inline: `others`.
Migrated(img, f, c, others) ==
    LET inline == IF others THEN {} ELSE {<<c, "inline">>}
    IN  [img EXCEPT ![f].vers = (@ \ inline) \cup {<<c, "blob">>}]

\* backfillOneFile: raw size recorded, history pruned to the newest version.
Backfilled(img, f) ==
    LET row == img[f]
    IN  [img EXCEPT ![f] = IF row.live
                           THEN [live |-> TRUE, legacy |-> FALSE, cur |-> row.cur,
                                 vers |-> {v \in row.vers : v[1] = row.cur}]
                           ELSE DeadRow]

\* Mutant: the dropped references are not made durable before the blobs go.
CollectWithoutFlush(keys, img, o) ==
    LET unreferenced == keys \ Refs(img)
    IN  IF unreferenced = {}
        THEN IF o.content = None THEN Idle ELSE [o EXCEPT !.pc = "get", !.keys = {}]
        ELSE [o EXCEPT !.pc = "delete", !.keys = unreferenced]

\* collect(): nothing to do unless some key is unreferenced in memory.
Collect(keys, img, o) ==
    LET unreferenced == keys \ Refs(img)
    IN  IF unreferenced = {}
        THEN IF o.content = None THEN Idle ELSE [o EXCEPT !.pc = "get", !.keys = {}]
        ELSE [o EXCEPT !.pc = "flush", !.keys = unreferenced]

\* What the operation does once collect() has returned or given up.
AfterCollect(o) == IF o.content = None THEN Idle ELSE [o EXCEPT !.pc = "get", !.keys = {}]

-----------------------------------------------------------------------------
(***************************************************************************)
(* Operations that run inside the blob queue.  The queue is a mutex, so at *)
(* most one is under way; which request comes next is any.                 *)
(***************************************************************************)
\* A whole-file write, or the materialization of a live document: the bytes
\* are put first, then the metadata waits for exclusive database access.
Put(f, c, k) ==
    /\ op.pc = "idle"
    /\ blobs' = blobs \cup {c}
    /\ op' = [Idle EXCEPT !.pc = "commit", !.kind = k, !.file = f, !.content = c]
    /\ UNCHANGED <<mem, disk, saving, durable, jobs, phase, abandoned>>

\* Mutant: the keys the write superseded are not collected.
CommitKeepsSuperseded ==
    /\ op.pc = "commit" /\ op.kind \in {"write", "materialize"}
    /\ ~durable.busy
    /\ op.kind = "materialize" => mem[op.file].live
    /\ mem' = Insert(mem, op.file, op.content, "blob")
    /\ op' = Idle
    /\ abandoned' = abandoned \ {op.content}
    /\ UNCHANGED <<disk, blobs, saving, durable, jobs, phase>>

\* repo.writeFile or repo.materializeCrdtContent commits.
Commit ==
    /\ op.pc = "commit" /\ op.kind \in {"write", "materialize"}
    /\ ~durable.busy
    /\ op.kind = "materialize" => mem[op.file].live
    /\ mem' = Insert(mem, op.file, op.content, "blob")
    /\ op' = Collect(BlobKeys(mem[op.file]), mem', [op EXCEPT !.content = None])
    /\ abandoned' = abandoned \ {op.content}
    /\ UNCHANGED <<disk, blobs, saving, durable, jobs, phase>>

\* The transaction throws, or declines to materialize: the new blob is
\* collected unless something references it.  A version conflict the caller
\* may read then fetches the server's own copy, chosen before the collect.
Reject(conflict) ==
    /\ op.pc = "commit" /\ op.kind \in {"write", "materialize"}
    /\ ~durable.busy
    /\ conflict => op.kind = "write" /\ mem[op.file].live
    /\ LET row    == mem[op.file]
            server == IF conflict /\ <<row.cur, "blob">> \in row.vers THEN row.cur ELSE None
        IN  op' = Collect({op.content}, mem, [op EXCEPT !.content = server])
    /\ UNCHANGED <<mem, disk, blobs, saving, durable, jobs, phase, abandoned>>

\* deleteFile: tombstone, then collection of what only this file held.
DeleteFile(f) ==
    /\ op.pc = "idle"
    /\ ~durable.busy
    /\ mem[f].live
    /\ mem' = Drop(mem, {f})
    /\ op' = Collect(BlobKeys(mem[f]), mem', Idle)
    /\ UNCHANGED <<disk, blobs, saving, durable, jobs, phase, abandoned>>

\* readFileContent finds the key in the metadata, then awaits the bytes.
ReadFile(f) ==
    /\ op.pc = "idle"
    /\ mem[f].live /\ <<mem[f].cur, "blob">> \in mem[f].vers
    /\ op' = [Idle EXCEPT !.pc = "get", !.content = mem[f].cur]
    /\ UNCHANGED <<mem, disk, blobs, saving, durable, jobs, phase, abandoned>>

\* blobStore.get returns; "Missing referenced blob" if it found nothing.
GetBlob ==
    /\ op.pc = "get"
    /\ op' = Idle
    /\ UNCHANGED <<mem, disk, blobs, saving, durable, jobs, phase, abandoned>>

\* A collectOrphanedBlobKeys call, for some of the keys queued, gets its turn.
RunJob(keys) ==
    /\ op.pc = "idle"
    /\ keys # {}
    /\ jobs' = jobs \ keys
    /\ op' = Collect(keys, mem, Idle)
    /\ UNCHANGED <<mem, disk, blobs, saving, durable, phase, abandoned>>

-----------------------------------------------------------------------------
(***************************************************************************)
(* collect(): persist the image that dropped the references, then delete.  *)
(***************************************************************************)
\* repo.flush() gets its turn after any export already under way.
CollectExport ==
    /\ op.pc = "flush"
    /\ ~saving.busy
    /\ saving' = Save("collect")
    /\ op' = [op EXCEPT !.pc = "export"]
    /\ UNCHANGED <<mem, disk, blobs, durable, jobs, phase, abandoned>>

CollectSaved ==
    /\ op.pc = "export"
    /\ disk' = saving.img
    /\ saving' = NoSave
    /\ op' = [op EXCEPT !.pc = "delete"]
    /\ UNCHANGED <<mem, blobs, durable, jobs, phase, abandoned>>

\* The sweep's collect throws and maintenance stops until the next startup.
GiveUp ==
    /\ op' = AfterCollect(op)
    /\ phase' = IF op.kind = "sweep" THEN "over" ELSE phase

\* A failed flush keeps the blobs.
CollectSaveFails ==
    /\ op.pc = "export"
    /\ saving' = NoSave
    /\ abandoned' = abandoned \cup op.keys
    /\ GiveUp
    /\ UNCHANGED <<mem, disk, blobs, durable, jobs>>

\* Mutant: the blob queue is not released after the last key.
KeyDoneHoldsQueue(k) ==
    /\ op' = [op EXCEPT !.keys = @ \ {k}]
    /\ UNCHANGED phase

\* One key handled; after the last one the operation goes on.
KeyDone(k) ==
    IF op.keys # {k}
    THEN op' = [op EXCEPT !.keys = @ \ {k}] /\ UNCHANGED phase
    ELSE /\ op' = AfterCollect(op)
         /\ phase' = IF op.kind = "sweep" /\ op.last THEN "over" ELSE phase

\* The reference is checked again before the blob goes.
DeleteBlob(k) ==
    /\ op.pc = "delete" /\ k \in op.keys
    /\ blobs' = IF k \in Refs(mem) THEN blobs ELSE blobs \ {k}
    /\ abandoned' = abandoned \ {k}
    /\ KeyDone(k)
    /\ UNCHANGED <<mem, disk, saving, durable, jobs>>

DeleteBlobFails(k) ==
    /\ op.pc = "delete" /\ k \in op.keys
    /\ IF op.kind # "sweep"
       THEN KeyDone(k) /\ abandoned' = abandoned \cup {k}
       ELSE GiveUp /\ abandoned' = abandoned \cup op.keys
    /\ UNCHANGED <<mem, disk, blobs, saving, durable, jobs>>

-----------------------------------------------------------------------------
(***************************************************************************)
(* Mutations outside the blob queue.  While a durable() operation is       *)
(* pending they throw (assertWritable), so they change nothing.            *)
(***************************************************************************)
\* DELETE /api/rooms/:roomId, `fs` being the room's files.
DeleteRoom(fs) ==
    /\ ~durable.busy
    /\ mem' = Drop(mem, fs)
    /\ jobs' = jobs \cup UNION {BlobKeys(mem[f]) : f \in fs}
    /\ UNCHANGED <<disk, blobs, saving, durable, op, phase, abandoned>>

\* crdt_create: a note starts as an empty inline version.
CreateCrdt(f) ==
    /\ ~durable.busy
    /\ ~mem[f].live
    /\ mem' = Insert(mem, f, Empty, "inline")
    /\ UNCHANGED <<disk, blobs, saving, durable, op, jobs, phase, abandoned>>

\* A rename onto the path of tombstone `t` clears the tombstone's versions;
\* the caller listed their keys beforehand.  The moved file keeps its own.
RenameOver(t) ==
    /\ ~durable.busy
    /\ ~mem[t].live
    /\ mem' = Drop(mem, {t})
    /\ jobs' = jobs \cup BlobKeys(mem[t])
    /\ UNCHANGED <<disk, blobs, saving, durable, op, phase, abandoned>>

-----------------------------------------------------------------------------
(***************************************************************************)
(* durable(): flush, snapshot, apply, flush, and restore the snapshot if   *)
(* the last flush fails.  No other mutation runs from the call on, so the  *)
(* first flush and the apply are one step; another flush may come between  *)
(* the apply and the last one.                                             *)
(***************************************************************************)
DurableApply(img) ==
    /\ ~durable.busy /\ ~saving.busy
    /\ disk' = mem
    /\ durable' = [busy |-> TRUE, snap |-> mem]
    /\ mem' = img
    /\ UNCHANGED <<blobs, saving, op, jobs, phase, abandoned>>

DurableCreateCrdt(f)  == ~mem[f].live /\ DurableApply(Insert(mem, f, Empty, "inline"))
DurableRenameOver(t)  == ~mem[t].live /\ DurableApply(Drop(mem, {t}))

\* The keys of the replaced tombstone, listed before the operation.
DurableDropped == {c \in Contents : \E f \in Files :
                      ~durable.snap[f].live /\ <<c, "blob">> \in durable.snap[f].vers}

DurableSaved ==
    /\ durable.busy /\ ~saving.busy
    /\ disk' = mem
    /\ durable' = NoDurable
    /\ jobs' = jobs \cup DurableDropped
    /\ UNCHANGED <<mem, blobs, saving, op, phase, abandoned>>

DurableFails ==
    /\ durable.busy /\ ~saving.busy
    /\ mem' = durable.snap
    /\ durable' = NoDurable
    /\ UNCHANGED <<disk, blobs, saving, op, jobs, phase, abandoned>>

-----------------------------------------------------------------------------
(***************************************************************************)
(* The delayed flush, startup maintenance, and the end of the process.     *)
(***************************************************************************)
TimerExport ==
    /\ ~saving.busy /\ disk # mem
    /\ saving' = Save("timer")
    /\ UNCHANGED <<mem, disk, blobs, durable, op, jobs, phase, abandoned>>

TimerSaveEnds(ok) ==
    /\ saving.owner = "timer"
    /\ disk' = IF ok THEN saving.img ELSE disk
    /\ saving' = NoSave
    /\ UNCHANGED <<mem, blobs, durable, op, jobs, phase, abandoned>>

BackfillFile(f) ==
    /\ phase = "backfill" /\ ~durable.busy
    /\ mem[f].legacy
    /\ mem' = Backfilled(mem, f)
    /\ UNCHANGED <<disk, blobs, saving, durable, op, jobs, phase, abandoned>>

BackfillDone ==
    /\ phase = "backfill" /\ ~durable.busy
    /\ \A f \in Files : ~mem[f].legacy
    /\ phase' = "migration"
    /\ UNCHANGED <<mem, disk, blobs, saving, durable, op, jobs, abandoned>>

\* A version row still inline is copied to the blob store first...
MigratePut(f, c) ==
    /\ phase = "migration" /\ op.pc = "idle"
    /\ <<c, "inline">> \in mem[f].vers
    /\ Put(f, c, "migrate")

\* ...and repointed if it is still there when the database is free.
MigrateCommit(others) ==
    /\ op.pc = "commit" /\ op.kind = "migrate"
    /\ ~durable.busy
    /\ <<op.content, "inline">> \in mem[op.file].vers
    /\ mem' = Migrated(mem, op.file, op.content, others)
    /\ op' = Idle
    /\ abandoned' = abandoned \ {op.content}
    /\ UNCHANGED <<disk, blobs, saving, durable, jobs, phase>>

\* Mutant: the copy made for a version that has gone is left behind.
MigrateStaleKeepsBlob ==
    /\ op.pc = "commit" /\ op.kind = "migrate"
    /\ ~durable.busy
    /\ <<op.content, "inline">> \notin mem[op.file].vers
    /\ op' = Idle
    /\ UNCHANGED <<mem, disk, blobs, saving, durable, jobs, phase, abandoned>>

MigrateStale ==
    /\ op.pc = "commit" /\ op.kind = "migrate"
    /\ ~durable.busy
    /\ <<op.content, "inline">> \notin mem[op.file].vers
    /\ op' = Collect({op.content}, mem, [op EXCEPT !.content = None])
    /\ UNCHANGED <<mem, disk, blobs, saving, durable, jobs, phase, abandoned>>

MigrationDone ==
    /\ phase = "migration" /\ op.pc = "idle" /\ ~durable.busy
    /\ \A f \in Files, c \in Contents : <<c, "inline">> \notin mem[f].vers
    /\ phase' = "blobStoreSweep"
    /\ UNCHANGED <<mem, disk, blobs, saving, durable, op, jobs, abandoned>>

\* Mutant: any batch ends the sweep.
SweepOnce(batch) ==
    /\ phase = "blobStoreSweep" /\ op.pc = "idle"
    /\ LET orphans == blobs \ Refs(mem)
       IN  /\ batch \subseteq orphans
           /\ batch = {} => orphans = {}
           /\ op' = Collect(batch, mem, [Idle EXCEPT !.kind = "sweep", !.last = TRUE])
           /\ phase' = IF orphans = {} THEN "over" ELSE phase
    /\ UNCHANGED <<mem, disk, blobs, saving, durable, jobs, abandoned>>

\* One batch of the orphan sweep; it is the last if it holds every orphan.
Sweep(batch) ==
    /\ phase = "blobStoreSweep" /\ op.pc = "idle"
    /\ LET orphans == blobs \ Refs(mem)
       IN  /\ batch \subseteq orphans
           /\ batch = {} => orphans = {}
           /\ op' = Collect(batch, mem, [Idle EXCEPT !.kind = "sweep", !.last = (batch = orphans)])
           /\ phase' = IF orphans = {} THEN "over" ELSE phase
    /\ UNCHANGED <<mem, disk, blobs, saving, durable, jobs, abandoned>>

\* A batch throws: maintenance stops until the next startup.
MaintenanceFails ==
    /\ phase \in {"backfill", "migration", "blobStoreSweep"} /\ op.pc = "idle"
    /\ phase' = "over"
    /\ UNCHANGED <<mem, disk, blobs, saving, durable, op, jobs, abandoned>>

\* The process dies at any point and opens the last complete image.
Crash ==
    /\ mem' = disk
    /\ saving' = NoSave /\ durable' = NoDurable
    /\ op' = Idle /\ jobs' = {} /\ phase' = StartPhase
    /\ abandoned' = blobs \ Refs(disk)
    /\ UNCHANGED <<disk, blobs>>

Init ==
    /\ mem \in [Files -> {DeadRow} \cup LegacyRows]
    /\ disk = mem
    /\ blobs = {}
    /\ saving = NoSave /\ durable = NoDurable
    /\ op = Idle /\ jobs = {} /\ phase = StartPhase /\ abandoned = {}

BlobQueue ==
    \/ \E f \in Files, c \in Contents, k \in {"write", "materialize"} : Put(f, c, k)
    \/ Commit
    \/ \E conflict \in BOOLEAN : Reject(conflict)
    \/ \E f \in Files : DeleteFile(f) \/ ReadFile(f)
    \/ GetBlob
    \/ \E keys \in SUBSET jobs : RunJob(keys)
    \/ CollectExport \/ CollectSaved \/ CollectSaveFails
    \/ \E k \in op.keys : DeleteBlob(k) \/ DeleteBlobFails(k)

Direct ==
    \/ \E fs \in SUBSET Files : DeleteRoom(fs)
    \/ \E f \in Files : CreateCrdt(f) \/ RenameOver(f)

Durable ==
    \/ \E f \in Files : DurableCreateCrdt(f) \/ DurableRenameOver(f)
    \/ DurableSaved \/ DurableFails

Flush == TimerExport \/ \E ok \in BOOLEAN : TimerSaveEnds(ok)

Maintenance ==
    \/ \E f \in Files : BackfillFile(f)
    \/ BackfillDone
    \/ \E f \in Files, c \in Contents : MigratePut(f, c)
    \/ \E others \in BOOLEAN : MigrateCommit(others)
    \/ MigrateStale \/ MigrationDone
    \/ \E batch \in SUBSET blobs : Sweep(batch)
    \/ MaintenanceFails

Next == BlobQueue \/ Direct \/ Durable \/ Flush \/ Maintenance \/ Crash

Spec == Init /\ [][Next]_vars

(***************************************************************************)
(* Every await is on a promise that settles: an I/O call ends, and the     *)
(* three queues (blob access, exclusive database access, exports) are      *)
(* first come, first served, so what waits in one gets its turn however    *)
(* often others use it: strong fairness.                                   *)
(***************************************************************************)
CommitTurn ==
    \/ Commit \/ MigrateStale
    \/ \E b \in BOOLEAN : Reject(b) \/ MigrateCommit(b)

Fairness ==
    /\ SF_vars(CommitTurn)
    /\ SF_vars(CollectExport)
    /\ SF_vars(DurableSaved \/ DurableFails)
    /\ WF_vars(CollectSaved \/ CollectSaveFails)
    /\ WF_vars(\E k \in op.keys : DeleteBlob(k) \/ DeleteBlobFails(k))
    /\ WF_vars(GetBlob)
    /\ WF_vars(\E ok \in BOOLEAN : TimerSaveEnds(ok))
    /\ \A c \in Contents : SF_vars(\E keys \in SUBSET jobs : c \in keys /\ RunJob(keys))

FairSpec == Spec /\ Fairness

-----------------------------------------------------------------------------
\* No image the relay holds, is writing, or could reopen after a crash points
\* at a blob that is gone: collect() persists before it deletes.
NoDanglingReference ==
    Refs(mem) \cup Refs(disk) \cup Refs(saving.img) \cup Refs(durable.snap) \subseteq blobs

\* A read, or a conflict answer, never ends in "Missing referenced blob",
\* whatever ran between finding the key and fetching the bytes.
ReadFindsBlob == op.pc = "get" => op.content \in blobs

\* Every unreferenced blob is the upload of a write yet to commit, or is owed
\* to the collection under way or queued, unless its collection failed or the
\* process died.
NoSilentLeak ==
    LET uploaded == IF op.pc = "commit" THEN {op.content} ELSE {}
    IN  blobs \ Refs(mem) \subseteq uploaded \cup op.keys \cup jobs \cup abandoned

\* When the sweep's last batch succeeds, every orphan left belongs to a
\* queued call: maintenance does not end early because of what ran meanwhile.
SweepIsComplete ==
    [][(\E k \in op.keys : DeleteBlob(k)) /\ phase' # phase
          => blobs' \ Refs(mem') \subseteq jobs']_vars

\* A tombstone's versions are always inline, in every image: dropping one (a
\* rename onto its path) never orphans a blob that nobody would collect.
TombstonesHoldNoBlobs ==
    \A img \in {mem, disk, saving.img, durable.snap}, f \in Files :
        ~img[f].live => BlobKeys(img[f]) = {}

\* The operation that holds the blob queue always lets it go, though it waits
\* for the database and the database for exports; a queued collection runs.
BlobQueueDrains ==
    /\ []<>(op.pc = "idle")
    /\ \A c \in Contents : []<>(c \notin jobs)


(***************************************************************************)
(* The inductive invariant behind the safety properties: what the protocol *)
(* of collect() maintains at each of its awaits, and what the rows of a    *)
(* legacy database may look like at each phase of maintenance.             *)
(***************************************************************************)
Images == {mem, disk, saving.img, durable.snap}

\* Blob versions appear on live rows that are past their backfill only.
RowOK(row) ==
    /\ row.legacy => BlobKeys(row) = {}
    /\ ~row.live /\ ~row.legacy => row.vers = {}

RowsInv ==
    /\ \A img \in Images, f \in Files : RowOK(img[f])
    /\ phase \in {"migration", "blobStoreSweep"} =>
          \A f \in Files : ~mem[f].legacy /\ ~durable.snap[f].legacy
    /\ op.kind = "migrate" => phase = "migration"

\* An idle slot holds nothing; a pending durable() operation has not touched
\* a blob reference, so undoing it brings none back.
SlotsInv ==
    /\ op.pc = "idle" => op = Idle
    /\ ~saving.busy => saving = NoSave
    /\ saving.owner = "timer" => saving.busy
    /\ op.pc # "export" => saving.owner # "collect"
    /\ ~durable.busy => durable = NoDurable
    /\ durable.busy => Refs(durable.snap) = Refs(mem)

\* The keys under collection are gone from memory first, then from the image
\* being exported, then from the disk; what is to be read is not among them.
CollectInv ==
    /\ op.pc \in {"commit", "get"} => op.content \in blobs /\ op.keys = {}
    /\ op.content # None => op.content \in blobs \ op.keys
    /\ op.keys \cap Refs(mem) = {}
    /\ op.pc = "export" => /\ saving.busy /\ saving.owner = "collect"
                           /\ op.keys \cap Refs(saving.img) = {}
    /\ op.pc = "delete" => op.keys \cap (Refs(disk) \cup Refs(saving.img)) = {}

IInv ==
    /\ TypeOK /\ RowsInv /\ SlotsInv /\ CollectInv
    /\ NoDanglingReference /\ NoSilentLeak

=============================================================================
