------------------------- MODULE ContentStore_proofs -------------------------
(***************************************************************************)
(* Proofs about ContentStore for any number of files and contents: type    *)
(* correctness, then the inductive invariant IInv and what follows from    *)
(* it.  First what the transactions do to an image's references, next what *)
(* a step does, action by action.                                          *)
(***************************************************************************)
EXTENDS ContentStore, TLAPS

-----------------------------------------------------------------------------
(***************************************************************************)
(* Transactions and references.                                            *)
(***************************************************************************)
\* A content is referenced if some row of the image holds a blob version of it.
LEMMA RefsMember ==
    ASSUME NEW img, NEW c
    PROVE  c \in Refs(img) <=> c \in Contents /\ \E f \in Files : <<c, "blob">> \in img[f].vers
BY DEF Refs, BlobKeys

LEMMA RefsType == ASSUME NEW img PROVE Refs(img) \in SUBSET Contents
BY DEF Refs, BlobKeys

LEMMA NoRefsInDeadImage == Refs([f \in Files |-> DeadRow]) = {}
BY DEF Refs, BlobKeys, DeadRow

LEMMA RowTypes ==
    /\ DeadRow \in FileRow
    /\ \A c \in Contents, s \in Stores : LiveRow(c, s) \in FileRow
BY DEF DeadRow, LiveRow, FileRow, Version

LEMMA InsertType ==
    ASSUME NEW img \in Image, NEW f \in Files, NEW c \in Contents, NEW s \in Stores
    PROVE  Insert(img, f, c, s) \in Image
BY RowTypes DEF Image, Insert

LEMMA DropType ==
    ASSUME NEW img \in Image, NEW fs
    PROVE  Drop(img, fs) \in Image
BY RowTypes DEF Image, Drop

LEMMA MigratedType ==
    ASSUME NEW img \in Image, NEW f \in Files, NEW c \in Contents, NEW others \in BOOLEAN
    PROVE  Migrated(img, f, c, others) \in Image
BY DEF Image, Migrated, FileRow, Version, Stores

LEMMA BackfilledType ==
    ASSUME NEW img \in Image, NEW f \in Files
    PROVE  Backfilled(img, f) \in Image
BY RowTypes DEF Image, Backfilled, FileRow

\* A write adds the key it stored and loses at most those of the row it replaces.
LEMMA InsertRefs ==
    ASSUME NEW img \in Image, NEW f \in Files, NEW c \in Contents
    PROVE  /\ Refs(Insert(img, f, c, "blob")) \subseteq Refs(img) \cup {c}
           /\ c \in Refs(Insert(img, f, c, "blob"))
           /\ Refs(img) \subseteq Refs(Insert(img, f, c, "blob")) \cup BlobKeys(img[f])
           /\ Refs(Insert(img, f, c, "inline")) \subseteq Refs(img)
           /\ Refs(img) \subseteq Refs(Insert(img, f, c, "inline")) \cup BlobKeys(img[f])
<1>1. \A s : \A g \in Files : Insert(img, f, c, s)[g] = IF g = f THEN LiveRow(c, s) ELSE img[g]
  BY DEF Insert, Image
<1>2. BlobKeys(LiveRow(c, "blob")) = {c} /\ BlobKeys(LiveRow(c, "inline")) = {}
  BY DEF BlobKeys, LiveRow
<1> QED BY <1>1, <1>2 DEF Refs

LEMMA DropRefs ==
    ASSUME NEW img \in Image, NEW fs \in SUBSET Files
    PROVE  /\ Refs(Drop(img, fs)) \subseteq Refs(img)
           /\ Refs(img) \subseteq Refs(Drop(img, fs)) \cup UNION {BlobKeys(img[f]) : f \in fs}
BY DEF Refs, BlobKeys, Drop, DeadRow, Image, FileRow

LEMMA MigratedRefs ==
    ASSUME NEW img \in Image, NEW f \in Files, NEW c \in Contents, NEW others \in BOOLEAN
    PROVE  Refs(Migrated(img, f, c, others)) = Refs(img) \cup {c}
BY DEF Refs, BlobKeys, Migrated, Image, FileRow

\* A row from before the blob store loses only inline versions.
LEMMA BackfilledRefs ==
    ASSUME NEW img \in Image, NEW f \in Files, BlobKeys(img[f]) = {}
    PROVE  Refs(Backfilled(img, f)) = Refs(img)
<1>1. \A g \in Files \ {f} : Backfilled(img, f)[g] = img[g]
  BY DEF Backfilled, Image
<1>2. Backfilled(img, f)[f].vers \subseteq img[f].vers
  BY DEF Backfilled, DeadRow, Image, FileRow
<1>3. BlobKeys(Backfilled(img, f)[f]) = {}
  BY <1>2 DEF BlobKeys
<1> QED BY <1>1, <1>3 DEF Refs

-----------------------------------------------------------------------------
(***************************************************************************)
(* What collect() and the operation after it do to the queue's state.      *)
(***************************************************************************)
LEMMA IdleFacts ==
    /\ Idle \in Operation
    /\ Idle.pc = "idle" /\ Idle.kind = "none"
    /\ Idle.keys = {} /\ Idle.content = None
BY DEF Idle, Operation

LEMMA SlotTypes ==
    /\ NoSave \in [busy : BOOLEAN, owner : {"none", "timer", "collect"}, img : Image]
    /\ NoDurable \in [busy : BOOLEAN, snap : Image]
    /\ NoSave.busy = FALSE /\ NoSave.owner = "none" /\ NoSave.img = [f \in Files |-> DeadRow]
    /\ NoDurable.busy = FALSE /\ NoDurable.snap = [f \in Files |-> DeadRow]
BY RowTypes DEF NoSave, NoDurable, Image

\* What is left of operation `o`, as `r`, once collect() has begun or ended: it
\* owes the keys `keys`, and the content to be read is kept.
GoesOn(r, keys, o) ==
    /\ r \in Operation
    /\ r.keys = keys
    /\ r.content = o.content
    /\ r.pc \in {"idle", "get", "flush"}
    /\ r.pc = "idle" => r = Idle
    /\ r.pc = "get" => o.content # None /\ keys = {}
    /\ r.kind = "migrate" => o.kind = "migrate"

LEMMA CollectResult ==
    ASSUME NEW keys \in SUBSET Contents, NEW img, NEW o \in Operation
    PROVE  GoesOn(Collect(keys, img, o), keys \ Refs(img), o)
<1> DEFINE get   == [o EXCEPT !.pc = "get", !.keys = {}]
           flush == [o EXCEPT !.pc = "flush", !.keys = keys \ Refs(img)]
<1>1. /\ get \in Operation /\ get.pc = "get" /\ get.keys = {}
      /\ get.content = o.content /\ get.kind = o.kind
  BY DEF Operation
<1>2. /\ flush \in Operation /\ flush.pc = "flush" /\ flush.keys = keys \ Refs(img)
      /\ flush.content = o.content /\ flush.kind = o.kind
  BY DEF Operation
<1> HIDE DEF get, flush
<1>3. CASE keys \ Refs(img) = {} /\ o.content = None
  <2>1. Collect(keys, img, o) = Idle
    BY <1>3 DEF Collect
  <2> QED BY <1>3, <2>1, IdleFacts DEF GoesOn
<1>4. CASE keys \ Refs(img) = {} /\ o.content # None
  <2>1. Collect(keys, img, o) = get
    BY <1>4 DEF Collect, get
  <2> QED BY <1>1, <1>4, <2>1 DEF GoesOn
<1>5. CASE keys \ Refs(img) # {}
  <2>1. Collect(keys, img, o) = flush
    BY <1>5 DEF Collect, flush
  <2> QED BY <1>2, <1>5, <2>1 DEF GoesOn
<1> QED BY <1>3, <1>4, <1>5

LEMMA AfterCollectResult ==
    ASSUME NEW o \in Operation
    PROVE  GoesOn(AfterCollect(o), {}, o)
<1> DEFINE get == [o EXCEPT !.pc = "get", !.keys = {}]
<1>1. /\ get \in Operation /\ get.pc = "get" /\ get.keys = {}
      /\ get.content = o.content /\ get.kind = o.kind
  BY DEF Operation
<1> HIDE DEF get
<1>2. CASE o.content = None
  BY <1>2, IdleFacts DEF AfterCollect, GoesOn
<1>3. CASE o.content # None
  <2>1. AfterCollect(o) = get
    BY <1>3 DEF AfterCollect, get
  <2> QED BY <1>1, <1>3, <2>1 DEF GoesOn
<1> QED BY <1>2, <1>3

-----------------------------------------------------------------------------
(***************************************************************************)
(* The inductive step, one lemma per action.  Steps that leave the images  *)
(* alone and only move the queue's operation on share the next lemma.      *)
(***************************************************************************)
\* What collect() or its end leaves behind keeps the invariant if the content
\* to be read is there and no orphan is forgotten.
LEMMA OperationMovesOn ==
    ASSUME IInv, NEW o, GoesOn(op', op'.keys, o),
           o.kind = "migrate" => op.kind = "migrate" /\ phase' = phase,
           o.content # None => o.content \in blobs' \ op'.keys,
           op'.keys \cap Refs(mem) = {},
           saving' = IF op.pc = "export" THEN NoSave ELSE saving,
           blobs' \subseteq blobs, Refs(mem) \cup Refs(disk) \cup Refs(saving'.img) \subseteq blobs',
           abandoned' \in SUBSET Contents, jobs' \subseteq jobs,
           phase' \in Phases, phase' \in {"migration", "blobStoreSweep"} => phase' = phase,
           blobs' \ Refs(mem) \subseteq op'.keys \cup jobs' \cup abandoned',
           UNCHANGED <<mem, disk, durable>>
    PROVE  IInv'
<1> USE DEF IInv, GoesOn
<1>s. /\ saving'.busy => saving' = saving
      /\ saving' = saving \/ saving' = NoSave
  BY SlotTypes
<1>1. TypeOK'
  BY <1>s, SlotTypes DEF TypeOK
<1>2. RowsInv'
  <2>1. \A f \in Files : RowOK(NoSave.img[f])
    BY SlotTypes DEF RowOK, DeadRow, BlobKeys
  <2> QED BY <1>s, <2>1 DEF RowsInv, Images
<1>3. SlotsInv'
  <2>1. saving'.owner # "collect"
    BY SlotTypes DEF SlotsInv
  <2> QED BY <1>s, <2>1, SlotTypes DEF SlotsInv
<1>4. CollectInv'
  BY DEF CollectInv
<1>5. NoDanglingReference' /\ NoSilentLeak'
  <2>1. Refs(durable.snap) \subseteq Refs(mem)
    BY SlotTypes, NoRefsInDeadImage DEF SlotsInv
  <2> QED BY <2>1 DEF NoDanglingReference, NoSilentLeak
<1> QED BY <1>1, <1>2, <1>3, <1>4, <1>5

\* The same for an operation that calls collect() on an image left as it was.
LEMMA CollectBegins ==
    ASSUME IInv, NEW keys \in SUBSET Contents, NEW o \in Operation,
           op' = Collect(keys, mem, o), op.pc # "export",
           o.kind = "migrate" => op.kind = "migrate" /\ phase' = phase,
           o.content # None => o.content \in Refs(mem),
           phase' \in Phases, phase' \in {"migration", "blobStoreSweep"} => phase' = phase,
           blobs \ Refs(mem) \subseteq keys \cup jobs' \cup abandoned, jobs' \subseteq jobs,
           UNCHANGED <<mem, disk, blobs, saving, durable, abandoned>>
    PROVE  IInv'
<1> USE DEF IInv
<1>1. GoesOn(op', keys \ Refs(mem), o)
  BY CollectResult
<1>2. op'.keys = keys \ Refs(mem)
  BY <1>1 DEF GoesOn
<1>3. Refs(mem) \cup Refs(disk) \cup Refs(saving'.img) \subseteq blobs'
  BY DEF NoDanglingReference
<1>4. abandoned' \in SUBSET Contents
  BY DEF TypeOK
<1> QED BY <1>1, <1>2, <1>3, <1>4, OperationMovesOn

LEMMA PutStep ==
    ASSUME IInv, NEW f \in Files, NEW c \in Contents, NEW k \in {"write", "materialize", "migrate"},
           k = "migrate" => phase = "migration", Put(f, c, k)
    PROVE  IInv'
<1> USE DEF IInv
<1>op. op' = [Idle EXCEPT !.pc = "commit", !.kind = k, !.file = f, !.content = c]
  BY DEF Put
<1>t. op' \in Operation
  BY <1>op DEF Idle, Operation
<1>o. /\ op'.pc = "commit" /\ op'.kind = k /\ op'.file = f /\ op'.content = c
      /\ op'.keys = {}
  BY <1>op DEF Idle
<1>u. /\ blobs' = blobs \cup {c} /\ op = Idle /\ op.keys = {} /\ op.content = None
      /\ UNCHANGED <<mem, disk, saving, durable, jobs, phase, abandoned>>
  BY IdleFacts DEF Put, SlotsInv
<1>1. TypeOK'
  BY <1>t, <1>o, <1>u DEF TypeOK
<1>2. RowsInv'
  BY <1>o, <1>u DEF RowsInv, Images
<1>3. SlotsInv'
  BY <1>o, <1>u DEF SlotsInv, Idle
<1>4. CollectInv'
  <2>1. Refs(mem') = Refs(mem) /\ c # None
    BY <1>u, ContentsAssumption
  <2> QED BY <1>o, <1>u, <2>1 DEF CollectInv
<1>5. NoDanglingReference' /\ NoSilentLeak'
  <2>1. None \notin blobs
    BY ContentsAssumption DEF TypeOK
  <2> QED BY <1>o, <1>u, <2>1 DEF NoDanglingReference, NoSilentLeak
<1> QED BY <1>1, <1>2, <1>3, <1>4, <1>5

LEMMA RejectStep ==
    ASSUME IInv, NEW conflict \in BOOLEAN, Reject(conflict)
    PROVE  IInv'
<1> USE DEF IInv
<1> DEFINE row    == mem[op.file]
           server == IF conflict /\ <<row.cur, "blob">> \in row.vers THEN row.cur ELSE None
           o      == [op EXCEPT !.content = server]
<1>1. /\ op' = Collect({op.content}, mem, o) /\ op.kind # "migrate" /\ op.pc = "commit"
      /\ op.file \in Files /\ op.content \in Contents /\ op.keys = {}
      /\ UNCHANGED <<mem, disk, blobs, saving, durable, jobs, phase, abandoned>>
  BY DEF Reject, TypeOK, CollectInv
<1>2. server # None => server \in Refs(mem)
  <2>1. row.cur \in Contents \cup {None}
    BY <1>1 DEF TypeOK, Image, FileRow
  <2> QED BY <1>1, <2>1, RefsMember
<1>3. o \in Operation /\ o.content = server /\ o.kind = op.kind
  BY <1>2, RefsType DEF TypeOK, Operation
<1> HIDE DEF o, server
<1>4. blobs \ Refs(mem) \subseteq {op.content} \cup jobs' \cup abandoned
  BY <1>1 DEF NoSilentLeak
<1>5. {op.content} \in SUBSET Contents /\ phase' \in Phases
  BY <1>1 DEF TypeOK
<1> QED BY <1>1, <1>2, <1>3, <1>4, <1>5, CollectBegins

LEMMA MigrateStaleStep == ASSUME IInv, MigrateStale PROVE IInv'
<1> USE DEF IInv
<1> DEFINE o == [op EXCEPT !.content = None]
<1>1. /\ op' = Collect({op.content}, mem, o) /\ op.pc = "commit" /\ op.content \in Contents
      /\ op.keys = {}
      /\ UNCHANGED <<mem, disk, blobs, saving, durable, jobs, phase, abandoned>>
  BY DEF MigrateStale, TypeOK, CollectInv
<1>2. o \in Operation /\ o.content = None /\ o.kind = op.kind
  BY DEF TypeOK, Operation
<1> HIDE DEF o
<1>3. blobs \ Refs(mem) \subseteq {op.content} \cup jobs' \cup abandoned
  BY <1>1 DEF NoSilentLeak
<1>4. {op.content} \in SUBSET Contents /\ phase' \in Phases
  BY <1>1 DEF TypeOK
<1> QED BY <1>1, <1>2, <1>3, <1>4, CollectBegins

LEMMA RunJobStep == ASSUME IInv, NEW keys \in SUBSET jobs, RunJob(keys) PROVE IInv'
<1> USE DEF IInv
<1>1. /\ op' = Collect(keys, mem, Idle) /\ op.pc = "idle" /\ op.keys = {} /\ op.content = None
      /\ jobs' = jobs \ keys /\ keys \in SUBSET Contents /\ phase' \in Phases
      /\ UNCHANGED <<mem, disk, blobs, saving, durable, phase, abandoned>>
  BY IdleFacts DEF RunJob, SlotsInv, TypeOK
<1>2. blobs \ Refs(mem) \subseteq keys \cup jobs' \cup abandoned
  <2>1. None \notin blobs
    BY ContentsAssumption DEF TypeOK
  <2> QED BY <1>1, <2>1 DEF NoSilentLeak
<1> QED BY <1>1, <1>2, IdleFacts, CollectBegins

LEMMA SweepStep == ASSUME IInv, NEW batch \in SUBSET blobs, Sweep(batch) PROVE IInv'
<1> USE DEF IInv
<1> DEFINE orphans == blobs \ Refs(mem)
           o == [Idle EXCEPT !.kind = "sweep", !.last = (batch = orphans)]
<1>1. /\ op' = Collect(batch, mem, o) /\ op.pc = "idle" /\ op.keys = {} /\ op.content = None
      /\ batch \in SUBSET Contents
      /\ phase' = (IF orphans = {} THEN "over" ELSE phase) /\ phase' \in Phases
      /\ UNCHANGED <<mem, disk, blobs, saving, durable, jobs, abandoned>>
  BY IdleFacts DEF Sweep, SlotsInv, TypeOK, Phases
<1>2. o \in Operation /\ o.kind = "sweep" /\ o.content = None
  BY DEF Idle, Operation
<1> HIDE DEF o
<1>3. blobs \ Refs(mem) \subseteq batch \cup jobs' \cup abandoned
  <2>1. None \notin blobs
    BY ContentsAssumption DEF TypeOK
  <2> QED BY <1>1, <2>1 DEF NoSilentLeak
<1> QED BY <1>1, <1>2, <1>3, CollectBegins

LEMMA GetBlobStep == ASSUME IInv, GetBlob PROVE IInv'
<1> USE DEF IInv
<1>1. /\ op' = Idle /\ op.pc = "get" /\ op.keys = {}
      /\ UNCHANGED <<mem, disk, blobs, saving, durable, jobs, phase, abandoned>>
  BY DEF GetBlob, CollectInv
<1>2. blobs \ Refs(mem) \subseteq jobs \cup abandoned
  BY <1>1 DEF NoSilentLeak
<1>3. Refs(mem) \cup Refs(disk) \cup Refs(saving.img) \subseteq blobs
  BY DEF NoDanglingReference
<1>4. abandoned \in SUBSET Contents /\ phase \in Phases
  BY DEF TypeOK
<1>5. GoesOn(op', {}, Idle) /\ op'.keys = {}
  BY <1>1, IdleFacts DEF GoesOn
<1> QED BY <1>1, <1>2, <1>3, <1>4, <1>5, IdleFacts, OperationMovesOn

LEMMA ReadFileStep == ASSUME IInv, NEW f \in Files, ReadFile(f) PROVE IInv'
<1> USE DEF IInv
<1> DEFINE c == mem[f].cur
<1>1. /\ op' = [Idle EXCEPT !.pc = "get", !.content = c] /\ op.pc = "idle"
      /\ UNCHANGED <<mem, disk, blobs, saving, durable, jobs, phase, abandoned>>
  BY DEF ReadFile
<1>2. c \in Refs(mem) /\ c \in Contents /\ c # None
  <2>1. c \in Contents \cup {None}
    BY DEF TypeOK, Image, FileRow
  <2>2. mem[f].vers \subseteq Version /\ <<c, "blob">> \in mem[f].vers
    BY DEF ReadFile, TypeOK, Image, FileRow
  <2>3. c \in Contents
    BY <2>2 DEF Version
  <2> QED BY <2>2, <2>3, RefsMember, ContentsAssumption
<1> DEFINE o == [Idle EXCEPT !.content = c]
<1>3. o.content = c /\ o.kind = "none"
  BY DEF Idle
<1>4. op'.keys = {} /\ GoesOn(op', {}, o)
  <2>1. op' \in Operation
    BY <1>1, <1>2 DEF Idle, Operation
  <2>2. op'.keys = {} /\ op'.content = c /\ op'.pc = "get" /\ op'.kind = "none"
    BY <1>1 DEF Idle
  <2> QED BY <1>2, <1>3, <2>1, <2>2 DEF GoesOn
<1> HIDE DEF o, c
<1>5. blobs \ Refs(mem) \subseteq jobs \cup abandoned
  BY <1>1, IdleFacts DEF NoSilentLeak, SlotsInv
<1>6. Refs(mem) \cup Refs(disk) \cup Refs(saving.img) \subseteq blobs
  BY DEF NoDanglingReference
<1>7. abandoned \in SUBSET Contents /\ phase \in Phases
  BY DEF TypeOK
<1> QED BY <1>1, <1>2, <1>3, <1>4, <1>5, <1>6, <1>7, OperationMovesOn

LEMMA CollectExportStep == ASSUME IInv, CollectExport PROVE IInv'
<1> USE DEF IInv
<1>1. /\ op' = [op EXCEPT !.pc = "export"] /\ op.pc = "flush" /\ saving.busy = FALSE
      /\ saving' = Save("collect")
      /\ UNCHANGED <<mem, disk, blobs, durable, jobs, phase, abandoned>>
  BY DEF CollectExport, TypeOK
<1>2. /\ op' \in Operation /\ op'.pc = "export" /\ op'.keys = op.keys
      /\ op'.content = op.content /\ op'.kind = op.kind
  BY <1>1 DEF TypeOK, Operation
<1>3. saving'.busy = TRUE /\ saving'.owner = "collect" /\ saving'.img = mem
  BY <1>1 DEF Save
<1>4. TypeOK'
  <2>1. saving' \in [busy : BOOLEAN, owner : {"none", "timer", "collect"}, img : Image]
    BY <1>1 DEF TypeOK, Save
  <2> QED BY <1>1, <1>2, <2>1 DEF TypeOK
<1>5. RowsInv'
  BY <1>1, <1>2, <1>3 DEF RowsInv, Images
<1>6. SlotsInv'
  BY <1>1, <1>2, <1>3 DEF SlotsInv
<1>7. CollectInv'
  BY <1>1, <1>2, <1>3 DEF CollectInv
<1>8. NoDanglingReference' /\ NoSilentLeak'
  BY <1>1, <1>2, <1>3 DEF NoDanglingReference, NoSilentLeak
<1> QED BY <1>4, <1>5, <1>6, <1>7, <1>8

LEMMA CollectSavedStep == ASSUME IInv, CollectSaved PROVE IInv'
<1> USE DEF IInv
<1>1. /\ op' = [op EXCEPT !.pc = "delete"] /\ op.pc = "export"
      /\ saving' = NoSave /\ disk' = saving.img
      /\ UNCHANGED <<mem, blobs, durable, jobs, phase, abandoned>>
  BY DEF CollectSaved
<1>2. /\ op' \in Operation /\ op'.pc = "delete" /\ op'.keys = op.keys
      /\ op'.content = op.content /\ op'.kind = op.kind
  BY <1>1 DEF TypeOK, Operation
<1>3. TypeOK'
  BY <1>1, <1>2, SlotTypes DEF TypeOK
<1>4. RowsInv'
  <2>1. \A f \in Files : RowOK(NoSave.img[f])
    BY SlotTypes DEF RowOK, DeadRow, BlobKeys
  <2> QED BY <1>1, <1>2, <2>1 DEF RowsInv, Images
<1>5. SlotsInv'
  BY <1>1, <1>2, SlotTypes DEF SlotsInv
<1>6. CollectInv'
  BY <1>1, <1>2, SlotTypes, NoRefsInDeadImage DEF CollectInv
<1>7. NoDanglingReference' /\ NoSilentLeak'
  BY <1>1, <1>2, SlotTypes, NoRefsInDeadImage DEF NoDanglingReference, NoSilentLeak
<1> QED BY <1>3, <1>4, <1>5, <1>6, <1>7

LEMMA CollectSaveFailsStep == ASSUME IInv, CollectSaveFails PROVE IInv'
<1> USE DEF IInv
<1>1. /\ op' = AfterCollect(op) /\ op.pc = "export" /\ saving' = NoSave
      /\ abandoned' = abandoned \cup op.keys
      /\ phase' = (IF op.kind = "sweep" THEN "over" ELSE phase)
      /\ UNCHANGED <<mem, disk, blobs, durable, jobs>>
  BY DEF CollectSaveFails, GiveUp
<1>2. GoesOn(op', {}, op) /\ op'.keys = {}
  <2>1. GoesOn(op', {}, op)
    BY <1>1, AfterCollectResult DEF TypeOK
  <2> QED BY <2>1 DEF GoesOn
<1>3. blobs \ Refs(mem) \subseteq jobs \cup abandoned'
  BY <1>1 DEF NoSilentLeak
<1>4. Refs(mem) \cup Refs(disk) \cup Refs(saving'.img) \subseteq blobs
  BY <1>1, SlotTypes, NoRefsInDeadImage DEF NoDanglingReference
<1>5. abandoned' \in SUBSET Contents /\ phase' \in Phases
  BY <1>1 DEF TypeOK, Operation, Phases
<1>6. op.content # None => op.content \in blobs
  BY DEF CollectInv
<1> QED BY <1>1, <1>2, <1>3, <1>4, <1>5, <1>6, OperationMovesOn

\* A key is neither in memory nor on disk nor in an export when its blob goes.
LEMMA DeleteStep ==
    ASSUME IInv, NEW k \in op.keys, DeleteBlob(k) \/ DeleteBlobFails(k)
    PROVE  IInv'
<1> USE DEF IInv
<1>1. /\ op.pc = "delete" /\ k \in Contents /\ blobs' \in {blobs, blobs \ {k}}
      /\ UNCHANGED <<mem, disk, saving, durable, jobs>>
      /\ phase' = phase \/ (phase' = "over" /\ op.kind = "sweep")
      /\ abandoned' \in SUBSET Contents /\ phase' \in Phases
  BY DEF DeleteBlob, DeleteBlobFails, KeyDone, GiveUp, TypeOK, Operation, Phases
<1>2. k \notin Refs(mem) \cup Refs(disk) \cup Refs(saving.img) \cup Refs(durable.snap)
  BY <1>1, SlotTypes, NoRefsInDeadImage DEF CollectInv, SlotsInv
<1>3. Refs(mem) \cup Refs(disk) \cup Refs(saving.img) \cup Refs(durable.snap) \subseteq blobs'
  BY <1>1, <1>2 DEF NoDanglingReference
<1>4. blobs' \ Refs(mem) \subseteq (op.keys \ {k}) \cup jobs \cup abandoned'
  BY <1>1, <1>2 DEF DeleteBlob, DeleteBlobFails, NoSilentLeak
<1>5. CASE op' = AfterCollect(op) /\ (op.keys = {k} \/ op.keys \subseteq abandoned')
  <2>1. GoesOn(op', {}, op)
    BY <1>5, AfterCollectResult DEF TypeOK
  <2>2. op'.keys = {} /\ blobs' \ Refs(mem) \subseteq jobs \cup abandoned'
    BY <1>4, <1>5, <2>1 DEF GoesOn
  <2>3. op.content # None => op.content \in blobs'
    BY <1>1 DEF CollectInv
  <2> QED BY <1>1, <1>3, <2>1, <2>2, <2>3, OperationMovesOn
<1>6. CASE op' = [op EXCEPT !.keys = @ \ {k}] /\ phase' = phase
  <2>1. /\ op' \in Operation /\ op'.pc = "delete" /\ op'.keys = op.keys \ {k}
        /\ op'.content = op.content /\ op'.kind = op.kind
    BY <1>1, <1>6 DEF TypeOK, Operation
  <2>2. TypeOK'
    BY <1>1, <2>1 DEF TypeOK
  <2>3. RowsInv'
    BY <1>1, <1>6, <2>1 DEF RowsInv, Images
  <2>4. SlotsInv'
    BY <1>1, <2>1 DEF SlotsInv
  <2>5. CollectInv'
    BY <1>1, <2>1 DEF CollectInv
  <2>6. NoDanglingReference' /\ NoSilentLeak'
    BY <1>1, <1>3, <1>4, <2>1 DEF NoDanglingReference, NoSilentLeak
  <2> QED BY <2>2, <2>3, <2>4, <2>5, <2>6
<1>7. \/ op' = AfterCollect(op) /\ (op.keys = {k} \/ op.keys \subseteq abandoned')
      \/ op' = [op EXCEPT !.keys = @ \ {k}] /\ phase' = phase
  BY DEF DeleteBlob, DeleteBlobFails, KeyDone, GiveUp
<1> QED BY <1>5, <1>6, <1>7

-----------------------------------------------------------------------------
(***************************************************************************)
(* Steps of the queue's operation that change the database.                *)
(***************************************************************************)
\* The rows a transaction of the current phase may leave.
RowsKept == \A f \in Files : RowOK(mem'[f]) /\ (mem'[f].legacy => mem[f].legacy)

\* A commit: the image changes, what it drops is collected or still referenced.
LEMMA CommitBegins ==
    ASSUME IInv, NEW keys \in SUBSET Contents, NEW o \in Operation,
           op' = Collect(keys, mem', o), op.pc \in {"idle", "commit"},
           o.content = None, o.kind # "migrate", ~durable.busy,
           mem' \in Image, RowsKept,
           Refs(mem') \subseteq blobs, blobs \ Refs(mem') \subseteq keys \cup jobs \cup abandoned',
           abandoned' \in SUBSET Contents,
           UNCHANGED <<disk, blobs, saving, durable, jobs, phase>>
    PROVE  IInv'
<1> USE DEF IInv
<1>1. GoesOn(op', keys \ Refs(mem'), o)
  BY CollectResult
<1>2. /\ op' \in Operation /\ op'.keys = keys \ Refs(mem') /\ op'.content = None
      /\ op'.pc \in {"idle", "flush"} /\ op'.kind # "migrate"
  BY <1>1 DEF GoesOn
<1>i. op'.pc = "idle" => op' = Idle
  BY <1>1 DEF GoesOn
<1>p. op'.pc \notin {"commit", "get", "export", "delete"}
  BY <1>2
<1>3. TypeOK'
  BY <1>2, <1>p DEF TypeOK
<1>4. RowsInv'
  BY <1>2 DEF RowsInv, Images, RowsKept
<1>5. SlotsInv'
  BY <1>2, <1>i DEF SlotsInv
<1>6. CollectInv'
  BY <1>2, <1>p DEF CollectInv
<1>7. NoDanglingReference' /\ NoSilentLeak'
  BY <1>2 DEF NoDanglingReference, NoSilentLeak
<1> QED BY <1>3, <1>4, <1>5, <1>6, <1>7

LEMMA LiveRowOK == \A c, s : RowOK(LiveRow(c, s)) /\ LiveRow(c, s).legacy = FALSE
BY DEF RowOK, LiveRow

LEMMA DeadRowOK == RowOK(DeadRow) /\ DeadRow.legacy = FALSE /\ BlobKeys(DeadRow) = {}
BY DEF RowOK, DeadRow, BlobKeys

LEMMA CommitStep == ASSUME IInv, Commit PROVE IInv'
<1> USE DEF IInv
<1> DEFINE f == op.file
           c == op.content
           o == [op EXCEPT !.content = None]
<1>1. /\ op.pc = "commit" /\ op.kind # "migrate" /\ ~durable.busy /\ f \in Files /\ c \in Contents
      /\ mem' = Insert(mem, f, c, "blob") /\ op' = Collect(BlobKeys(mem[f]), mem', o)
      /\ op.keys = {} /\ c \in blobs /\ abandoned' = abandoned \ {c}
      /\ UNCHANGED <<disk, blobs, saving, durable, jobs, phase>>
  BY DEF Commit, TypeOK, CollectInv
<1>2. o \in Operation /\ o.content = None /\ o.kind = op.kind
  BY DEF TypeOK, Operation
<1> HIDE DEF o
<1>3. mem \in Image /\ mem' \in Image
  BY <1>1, InsertType DEF TypeOK, Stores
<1>4. /\ Refs(mem') \subseteq Refs(mem) \cup {c} /\ c \in Refs(mem')
      /\ Refs(mem) \subseteq Refs(mem') \cup BlobKeys(mem[f])
  BY <1>1, <1>3, InsertRefs
<1>5. \A g \in Files : mem'[g] = IF g = f THEN LiveRow(c, "blob") ELSE mem[g]
  BY <1>1, <1>3 DEF Insert, Image
<1>6. RowsKept
  BY <1>5, LiveRowOK DEF RowsInv, Images, RowsKept
<1>7. Refs(mem') \subseteq blobs
  BY <1>1, <1>4 DEF NoDanglingReference
<1>8. blobs \ Refs(mem') \subseteq BlobKeys(mem[f]) \cup jobs \cup abandoned'
  BY <1>1, <1>4 DEF NoSilentLeak
<1>9. BlobKeys(mem[f]) \in SUBSET Contents /\ abandoned' \in SUBSET Contents
  BY <1>1 DEF BlobKeys, TypeOK
<1> QED BY <1>1, <1>2, <1>3, <1>6, <1>7, <1>8, <1>9, CommitBegins

LEMMA DeleteFileStep == ASSUME IInv, NEW f \in Files, DeleteFile(f) PROVE IInv'
<1> USE DEF IInv
<1>1. /\ op.pc = "idle" /\ op = Idle /\ op.keys = {} /\ ~durable.busy
      /\ mem' = Drop(mem, {f}) /\ op' = Collect(BlobKeys(mem[f]), mem', Idle)
      /\ UNCHANGED <<disk, blobs, saving, durable, jobs, phase, abandoned>>
  BY IdleFacts DEF DeleteFile, SlotsInv
<1>2. mem \in Image /\ mem' \in Image /\ {f} \in SUBSET Files
  BY <1>1, DropType DEF TypeOK
<1>3. Refs(mem') \subseteq Refs(mem) /\ Refs(mem) \subseteq Refs(mem') \cup BlobKeys(mem[f])
  BY <1>1, <1>2, DropRefs
<1>4. \A g \in Files : mem'[g] = IF g = f THEN DeadRow ELSE mem[g]
  BY <1>1 DEF Drop
<1>5. RowsKept
  BY <1>4, DeadRowOK DEF RowsInv, Images, RowsKept
<1>6. Refs(mem') \subseteq blobs
  BY <1>3 DEF NoDanglingReference
<1>7. blobs \ Refs(mem') \subseteq BlobKeys(mem[f]) \cup jobs \cup abandoned'
  BY <1>1, <1>3 DEF NoSilentLeak
<1>8. BlobKeys(mem[f]) \in SUBSET Contents /\ abandoned' \in SUBSET Contents
  BY <1>1 DEF BlobKeys, TypeOK
<1> QED BY <1>1, <1>2, <1>5, <1>6, <1>7, <1>8, IdleFacts, CommitBegins

LEMMA MigrateCommitStep == ASSUME IInv, NEW others \in BOOLEAN, MigrateCommit(others) PROVE IInv'
<1> USE DEF IInv
<1> DEFINE f == op.file
           c == op.content
<1>1. /\ op.pc = "commit" /\ op.kind = "migrate" /\ ~durable.busy /\ f \in Files /\ c \in Contents
      /\ mem' = Migrated(mem, f, c, others) /\ op' = Idle /\ <<c, "inline">> \in mem[f].vers
      /\ op.keys = {} /\ c \in blobs /\ abandoned' = abandoned \ {c} /\ phase = "migration"
      /\ UNCHANGED <<disk, blobs, saving, durable, jobs, phase>>
  BY DEF MigrateCommit, TypeOK, CollectInv, RowsInv
<1>2. mem \in Image /\ mem' \in Image
  BY <1>1, MigratedType DEF TypeOK
<1>3. Refs(mem') = Refs(mem) \cup {c}
  BY <1>1, <1>2, MigratedRefs
<1>4. \A g \in Files : /\ mem'[g].legacy = mem[g].legacy /\ mem'[g].live = mem[g].live
                       /\ g # f => mem'[g] = mem[g]
  BY <1>1, <1>2 DEF Migrated, Image, FileRow
<1>5. mem[f].legacy = FALSE /\ mem[f].live = TRUE
  BY <1>1, <1>2 DEF RowsInv, Images, RowOK, Image, FileRow
<1>6. \A g \in Files : RowOK(mem'[g]) /\ ~mem'[g].legacy
  BY <1>1, <1>4, <1>5 DEF RowsInv, Images, RowOK
<1>7. TypeOK'
  BY <1>1, <1>2, IdleFacts DEF TypeOK
<1>8. RowsInv'
  BY <1>1, <1>6, IdleFacts DEF RowsInv, Images
<1>9. SlotsInv'
  BY <1>1, IdleFacts DEF SlotsInv
<1>10. CollectInv'
  BY <1>1, IdleFacts DEF CollectInv
<1>11. NoDanglingReference' /\ NoSilentLeak'
  BY <1>1, <1>3, IdleFacts DEF NoDanglingReference, NoSilentLeak
<1> QED BY <1>7, <1>8, <1>9, <1>10, <1>11

-----------------------------------------------------------------------------
(***************************************************************************)
(* Mutations outside the queue, durable operations, flushes, maintenance.  *)
(***************************************************************************)
\* A transaction that runs beside the queue's operation drops references only.
LEMMA ImageShrinks ==
    ASSUME IInv, mem' \in Image, RowsKept, ~durable.busy,
           Refs(mem') \subseteq Refs(mem), Refs(mem) \subseteq Refs(mem') \cup jobs',
           jobs \subseteq jobs', jobs' \in SUBSET Contents,
           UNCHANGED <<disk, blobs, saving, durable, op, phase, abandoned>>
    PROVE  IInv'
<1> USE DEF IInv
<1>1. TypeOK'
  BY DEF TypeOK
<1>2. RowsInv'
  BY DEF RowsInv, Images, RowsKept
<1>3. SlotsInv'
  BY DEF SlotsInv
<1>4. CollectInv'
  BY DEF CollectInv
<1>5. NoDanglingReference' /\ NoSilentLeak'
  BY DEF NoDanglingReference, NoSilentLeak
<1> QED BY <1>1, <1>2, <1>3, <1>4, <1>5

LEMMA DropKeepsRows ==
    ASSUME RowsInv, NEW fs, mem' = Drop(mem, fs)
    PROVE  RowsKept
BY DeadRowOK DEF RowsInv, Images, RowsKept, Drop

LEMMA DeleteRoomStep == ASSUME IInv, NEW fs \in SUBSET Files, DeleteRoom(fs) PROVE IInv'
<1> USE DEF IInv
<1>1. mem \in Image /\ mem' \in Image /\ mem' = Drop(mem, fs)
  BY DropType DEF DeleteRoom, TypeOK
<1>2. /\ jobs' = jobs \cup UNION {BlobKeys(mem[f]) : f \in fs} /\ ~durable.busy
      /\ UNCHANGED <<disk, blobs, saving, durable, op, phase, abandoned>>
  BY DEF DeleteRoom
<1>3. jobs' \in SUBSET Contents
  BY <1>2 DEF BlobKeys, TypeOK
<1>4. RowsKept
  BY <1>1, DropKeepsRows
<1> QED BY <1>1, <1>2, <1>3, <1>4, DropRefs, ImageShrinks

LEMMA DeadRowHoldsNoBlob ==
    ASSUME RowsInv, NEW f \in Files, ~mem[f].live
    PROVE  BlobKeys(mem[f]) = {}
BY DEF RowsInv, Images, RowOK, BlobKeys

\* Creating a note, or renaming over a tombstone, moves no reference.
LEMMA RewriteDeadRow ==
    ASSUME IInv, NEW f \in Files, ~mem[f].live, NEW img,
           img = Insert(mem, f, Empty, "inline") \/ img = Drop(mem, {f})
    PROVE  /\ img \in Image /\ Refs(img) = Refs(mem)
           /\ \A g \in Files : RowOK(img[g]) /\ (img[g].legacy => mem[g].legacy)
<1> USE DEF IInv
<1>1. mem \in Image /\ Empty \in Contents /\ {f} \in SUBSET Files /\ "inline" \in Stores
  BY ContentsAssumption DEF TypeOK, Stores
<1>2. BlobKeys(mem[f]) = {}
  BY DeadRowHoldsNoBlob
<1>3. CASE img = Insert(mem, f, Empty, "inline")
  <2>1. img \in Image
    BY <1>1, <1>3, InsertType
  <2>2. Refs(img) = Refs(mem)
    <3>1. Refs(img) \subseteq Refs(mem) /\ Refs(mem) \subseteq Refs(img) \cup BlobKeys(mem[f])
      BY <1>1, <1>3, InsertRefs
    <3> QED BY <1>2, <3>1
  <2>3. \A g \in Files : img[g] = IF g = f THEN LiveRow(Empty, "inline") ELSE mem[g]
    BY <1>1, <1>3 DEF Insert, Image
  <2> QED BY <2>1, <2>2, <2>3, LiveRowOK DEF RowsInv, Images
<1>4. CASE img = Drop(mem, {f})
  <2>1. img \in Image
    BY <1>1, <1>4, DropType
  <2>2. Refs(img) = Refs(mem)
    <3>1. UNION {BlobKeys(mem[g]) : g \in {f}} = {}
      BY <1>2
    <3>2. /\ Refs(img) \subseteq Refs(mem)
          /\ Refs(mem) \subseteq Refs(img) \cup UNION {BlobKeys(mem[g]) : g \in {f}}
      BY <1>1, <1>4, DropRefs
    <3> QED BY <3>1, <3>2
  <2>3. \A g \in Files : img[g] = IF g = f THEN DeadRow ELSE mem[g]
    BY <1>4 DEF Drop
  <2> QED BY <2>1, <2>2, <2>3, DeadRowOK DEF RowsInv, Images
<1> QED BY <1>3, <1>4

LEMMA CreateOrRenameStep ==
    ASSUME IInv, NEW f \in Files, CreateCrdt(f) \/ RenameOver(f)
    PROVE  IInv'
<1> USE DEF IInv
<1>1. /\ ~durable.busy /\ ~mem[f].live
      /\ mem' = Insert(mem, f, Empty, "inline") \/ mem' = Drop(mem, {f})
      /\ jobs' = jobs \/ jobs' = jobs \cup BlobKeys(mem[f])
      /\ UNCHANGED <<disk, blobs, saving, durable, op, phase, abandoned>>
  BY DEF CreateCrdt, RenameOver
<1>2. mem' \in Image /\ Refs(mem') = Refs(mem) /\ RowsKept
  BY <1>1, RewriteDeadRow DEF RowsKept
<1>3. jobs \subseteq jobs' /\ jobs' \in SUBSET Contents
  BY <1>1 DEF TypeOK, BlobKeys
<1> QED BY <1>1, <1>2, <1>3, ImageShrinks

LEMMA BackfillFileStep == ASSUME IInv, NEW f \in Files, BackfillFile(f) PROVE IInv'
<1> USE DEF IInv
<1>1. /\ ~durable.busy /\ mem[f].legacy /\ mem' = Backfilled(mem, f) /\ mem \in Image
      /\ UNCHANGED <<disk, blobs, saving, durable, op, jobs, phase, abandoned>>
  BY DEF BackfillFile, TypeOK
<1>2. BlobKeys(mem[f]) = {}
  BY <1>1 DEF RowsInv, Images, RowOK
<1>3. mem' \in Image /\ Refs(mem') = Refs(mem)
  BY <1>1, <1>2, BackfilledType, BackfilledRefs
<1>4. RowsKept
  <2>1. \A g \in Files \ {f} : mem'[g] = mem[g]
    BY <1>1 DEF Backfilled, Image
  <2>2. mem'[f].vers \subseteq mem[f].vers /\ mem'[f].legacy = FALSE
    BY <1>1 DEF Backfilled, DeadRow, Image, FileRow
  <2>3. ~mem'[f].live => mem'[f].vers = {}
    BY <1>1 DEF Backfilled, DeadRow, Image
  <2> QED BY <2>1, <2>2, <2>3 DEF RowsInv, Images, RowOK, RowsKept
<1>5. jobs' \in SUBSET Contents
  BY <1>1 DEF TypeOK
<1> QED BY <1>1, <1>3, <1>4, <1>5, ImageShrinks

\* The snapshot a durable operation keeps has the references memory has.
LEMMA DurableStartStep ==
    ASSUME IInv, NEW f \in Files, DurableCreateCrdt(f) \/ DurableRenameOver(f)
    PROVE  IInv'
<1> USE DEF IInv
<1>1. /\ ~durable.busy /\ ~saving.busy /\ ~mem[f].live /\ disk' = mem
      /\ mem' = Insert(mem, f, Empty, "inline") \/ mem' = Drop(mem, {f})
      /\ durable' = [busy |-> TRUE, snap |-> mem]
      /\ UNCHANGED <<blobs, saving, op, jobs, phase, abandoned>>
  BY DEF DurableCreateCrdt, DurableRenameOver, DurableApply
<1>2. mem' \in Image /\ Refs(mem') = Refs(mem) /\ RowsKept
  BY <1>1, RewriteDeadRow DEF RowsKept
<1>3. durable'.busy = TRUE /\ durable'.snap = mem
  BY <1>1
<1>4. TypeOK'
  BY <1>1, <1>2 DEF TypeOK
<1>5. RowsInv'
  BY <1>1, <1>2, <1>3 DEF RowsInv, Images, RowsKept
<1>6. SlotsInv'
  BY <1>1, <1>2, <1>3 DEF SlotsInv
<1>7. CollectInv'
  BY <1>1, <1>2 DEF CollectInv
<1>8. NoDanglingReference' /\ NoSilentLeak'
  BY <1>1, <1>2, <1>3 DEF NoDanglingReference, NoSilentLeak
<1> QED BY <1>4, <1>5, <1>6, <1>7, <1>8

LEMMA DurableEndStep == ASSUME IInv, DurableSaved \/ DurableFails PROVE IInv'
<1> USE DEF IInv
<1>1. /\ durable.busy /\ ~saving.busy /\ durable' = NoDurable
      /\ \/ disk' = mem /\ mem' = mem
         \/ disk' = disk /\ mem' = durable.snap
      /\ jobs' = jobs \/ jobs' = jobs \cup DurableDropped
      /\ UNCHANGED <<blobs, saving, op, phase, abandoned>>
  BY DEF DurableSaved, DurableFails
<1>2. Refs(mem') = Refs(mem) /\ op.pc # "export"
  BY <1>1 DEF SlotsInv, CollectInv
<1>3. jobs \subseteq jobs' /\ jobs' \in SUBSET Contents
  BY <1>1 DEF DurableDropped, TypeOK
<1>4. TypeOK'
  BY <1>1, <1>3, SlotTypes DEF TypeOK
<1>5. RowsInv'
  <2>1. \A f \in Files : RowOK(NoDurable.snap[f]) /\ ~NoDurable.snap[f].legacy
    BY SlotTypes DEF RowOK, DeadRow, BlobKeys
  <2> QED BY <1>1, <2>1 DEF RowsInv, Images
<1>6. SlotsInv'
  BY <1>1, SlotTypes DEF SlotsInv
<1>7. CollectInv'
  BY <1>1, <1>2 DEF CollectInv
<1>8. NoDanglingReference' /\ NoSilentLeak'
  BY <1>1, <1>2, <1>3, SlotTypes, NoRefsInDeadImage DEF NoDanglingReference, NoSilentLeak
<1> QED BY <1>4, <1>5, <1>6, <1>7, <1>8

LEMMA FlushStep == ASSUME IInv, Flush PROVE IInv'
<1> USE DEF IInv
<1>1. CASE TimerExport
  <2>1. /\ ~saving.busy /\ saving' = Save("timer")
        /\ UNCHANGED <<mem, disk, blobs, durable, op, jobs, phase, abandoned>>
    BY <1>1 DEF TimerExport
  <2>2. saving'.busy = TRUE /\ saving'.owner = "timer" /\ saving'.img = mem
    BY <2>1 DEF Save
  <2>3. TypeOK'
    <3>1. saving' \in [busy : BOOLEAN, owner : {"none", "timer", "collect"}, img : Image]
      BY <2>1 DEF Save, TypeOK
    <3> QED BY <2>1, <3>1 DEF TypeOK
  <2>4. RowsInv'
    BY <2>1, <2>2 DEF RowsInv, Images
  <2>5. SlotsInv'
    BY <2>1, <2>2 DEF SlotsInv
  <2>6. CollectInv'
    BY <2>1, <2>2 DEF CollectInv
  <2>7. NoDanglingReference' /\ NoSilentLeak'
    BY <2>1, <2>2 DEF NoDanglingReference, NoSilentLeak
  <2> QED BY <2>3, <2>4, <2>5, <2>6, <2>7
<1>2. CASE \E ok \in BOOLEAN : TimerSaveEnds(ok)
  <2>1. /\ saving.owner = "timer" /\ saving' = NoSave /\ disk' \in {disk, saving.img}
        /\ UNCHANGED <<mem, blobs, durable, op, jobs, phase, abandoned>>
    BY <1>2 DEF TimerSaveEnds
  <2>2. op.pc # "export"
    BY <2>1 DEF CollectInv
  <2>3. TypeOK'
    BY <2>1, SlotTypes DEF TypeOK
  <2>4. RowsInv'
    <3>1. \A f \in Files : RowOK(NoSave.img[f])
      BY SlotTypes DEF RowOK, DeadRow, BlobKeys
    <3> QED BY <2>1, <3>1 DEF RowsInv, Images
  <2>5. SlotsInv'
    BY <2>1, SlotTypes DEF SlotsInv
  <2>6. CollectInv'
    BY <2>1, <2>2, SlotTypes, NoRefsInDeadImage DEF CollectInv
  <2>7. NoDanglingReference' /\ NoSilentLeak'
    BY <2>1, SlotTypes, NoRefsInDeadImage DEF NoDanglingReference, NoSilentLeak
  <2> QED BY <2>3, <2>4, <2>5, <2>6, <2>7
<1> QED BY <1>1, <1>2 DEF Flush

LEMMA PhaseStep == ASSUME IInv, BackfillDone \/ MigrationDone \/ MaintenanceFails PROVE IInv'
<1> USE DEF IInv
<1>1. /\ phase' \in Phases /\ UNCHANGED <<mem, disk, blobs, saving, durable, op, jobs, abandoned>>
      /\ op.kind = "migrate" => op.pc # "idle"
  BY IdleFacts DEF BackfillDone, MigrationDone, MaintenanceFails, Phases, SlotsInv
<1>2. phase' \in {"migration", "blobStoreSweep"} =>
         \A f \in Files : ~mem[f].legacy /\ ~durable.snap[f].legacy
  <2>1. \A f \in Files : ~NoDurable.snap[f].legacy
    BY SlotTypes DEF DeadRow
  <2> QED BY <2>1 DEF BackfillDone, MigrationDone, MaintenanceFails, RowsInv, SlotsInv
<1>3. op.kind = "migrate" => phase' = phase
  BY <1>1 DEF BackfillDone, MigrationDone, MaintenanceFails, RowsInv
<1>4. RowsInv'
  BY <1>1, <1>2, <1>3 DEF RowsInv, Images
<1>5. TypeOK' /\ SlotsInv' /\ CollectInv'
  BY <1>1 DEF TypeOK, SlotsInv, CollectInv
<1>6. NoDanglingReference' /\ NoSilentLeak'
  BY <1>1 DEF NoDanglingReference, NoSilentLeak
<1> QED BY <1>4, <1>5, <1>6

\* The image a restart opens points only at blobs that are there.
LEMMA CrashStep == ASSUME IInv, Crash PROVE IInv'
<1> USE DEF IInv
<1>1. /\ mem' = disk /\ disk' = disk /\ blobs' = blobs /\ saving' = NoSave /\ durable' = NoDurable
      /\ op' = Idle /\ jobs' = {} /\ phase' = StartPhase /\ abandoned' = blobs \ Refs(disk)
  BY DEF Crash
<1>2. TypeOK'
  BY <1>1, IdleFacts, SlotTypes, StartAssumption DEF TypeOK, Phases
<1>3. RowsInv'
  <2>1. \A f \in Files : RowOK(NoSave.img[f]) /\ RowOK(NoDurable.snap[f])
    BY SlotTypes DEF RowOK, DeadRow, BlobKeys
  <2> QED BY <1>1, <2>1, IdleFacts, StartAssumption DEF RowsInv, Images
<1>4. SlotsInv' /\ CollectInv'
  BY <1>1, IdleFacts, SlotTypes DEF SlotsInv, CollectInv
<1>5. NoDanglingReference' /\ NoSilentLeak'
  BY <1>1, SlotTypes, NoRefsInDeadImage DEF NoDanglingReference, NoSilentLeak
<1> QED BY <1>2, <1>3, <1>4, <1>5

-----------------------------------------------------------------------------
(***************************************************************************)
(* The theorems.                                                           *)
(***************************************************************************)
LEMMA InitInv == Init => IInv
<1> SUFFICES ASSUME Init PROVE IInv
  OBVIOUS
<1>1. /\ mem \in [Files -> {DeadRow} \cup LegacyRows] /\ disk = mem /\ blobs = {}
      /\ saving = NoSave /\ durable = NoDurable /\ op = Idle /\ jobs = {} /\ abandoned = {}
      /\ phase = StartPhase
  BY DEF Init
<1>2. mem \in Image
  BY <1>1, RowTypes, LegacyAssumption DEF Image
<1>3. \A f \in Files : RowOK(mem[f]) /\ BlobKeys(mem[f]) = {}
  <2> SUFFICES ASSUME NEW f \in Files PROVE RowOK(mem[f]) /\ BlobKeys(mem[f]) = {}
    OBVIOUS
  <2>1. CASE mem[f] = DeadRow
    BY <2>1, DeadRowOK
  <2>2. CASE mem[f] \in LegacyRows
    BY <2>2, LegacyAssumption DEF RowOK, BlobKeys
  <2> QED BY <1>1, <2>1, <2>2
<1>4. TypeOK
  BY <1>1, <1>2, IdleFacts, SlotTypes, StartAssumption DEF TypeOK, Phases
<1>5. RowsInv
  <2>1. \A f \in Files : RowOK(NoSave.img[f]) /\ RowOK(NoDurable.snap[f])
    BY SlotTypes DEF RowOK, DeadRow, BlobKeys
  <2> QED BY <1>1, <1>3, <2>1, IdleFacts, StartAssumption DEF RowsInv, Images
<1>6. SlotsInv /\ CollectInv
  BY <1>1, IdleFacts, SlotTypes DEF SlotsInv, CollectInv
<1>7. NoDanglingReference /\ NoSilentLeak
  <2>1. Refs(mem) = {}
    BY <1>3 DEF Refs
  <2> QED BY <1>1, <2>1, SlotTypes, NoRefsInDeadImage DEF NoDanglingReference, NoSilentLeak
<1> QED BY <1>4, <1>5, <1>6, <1>7 DEF IInv

LEMMA NextInv == IInv /\ [Next]_vars => IInv'
<1> SUFFICES ASSUME IInv, [Next]_vars PROVE IInv'
  OBVIOUS
<1>1. CASE BlobQueue
  <2>1. ASSUME NEW f \in Files, NEW c \in Contents, NEW k \in {"write", "materialize"}, Put(f, c, k)
        PROVE  IInv'
    BY <2>1, PutStep
  <2>2. ASSUME NEW f \in Files, DeleteFile(f) \/ ReadFile(f) PROVE IInv'
    BY <2>2, DeleteFileStep, ReadFileStep
  <2>3. ASSUME NEW conflict \in BOOLEAN, Reject(conflict) PROVE IInv'
    BY <2>3, RejectStep
  <2>4. ASSUME NEW keys \in SUBSET jobs, RunJob(keys) PROVE IInv'
    BY <2>4, RunJobStep
  <2>5. ASSUME NEW k \in op.keys, DeleteBlob(k) \/ DeleteBlobFails(k) PROVE IInv'
    BY <2>5, DeleteStep
  <2> QED BY <1>1, <2>1, <2>2, <2>3, <2>4, <2>5, CommitStep, GetBlobStep, CollectExportStep,
             CollectSavedStep, CollectSaveFailsStep DEF BlobQueue
<1>2. CASE Direct
  BY <1>2, DeleteRoomStep, CreateOrRenameStep DEF Direct
<1>3. CASE Durable
  BY <1>3, DurableStartStep, DurableEndStep DEF Durable
<1>4. CASE Flush
  BY <1>4, FlushStep
<1>5. CASE Maintenance
  <2>1. ASSUME NEW f \in Files, NEW c \in Contents, MigratePut(f, c) PROVE IInv'
    BY <2>1, PutStep DEF MigratePut
  <2>2. ASSUME NEW f \in Files, BackfillFile(f) PROVE IInv'
    BY <2>2, BackfillFileStep
  <2>3. ASSUME NEW others \in BOOLEAN, MigrateCommit(others) PROVE IInv'
    BY <2>3, MigrateCommitStep
  <2>4. ASSUME NEW batch \in SUBSET blobs, Sweep(batch) PROVE IInv'
    BY <2>4, SweepStep
  <2> QED BY <1>5, <2>1, <2>2, <2>3, <2>4, MigrateStaleStep, PhaseStep DEF Maintenance
<1>6. CASE Crash
  BY <1>6, CrashStep
<1>7. CASE UNCHANGED vars
  BY <1>7 DEF vars, IInv, TypeOK, RowsInv, Images, SlotsInv, CollectInv,
              NoDanglingReference, NoSilentLeak
<1> QED BY <1>1, <1>2, <1>3, <1>4, <1>5, <1>6, <1>7 DEF Next

\* The invariant of the protocol holds throughout, for any number of files,
\* contents and legacy rows, whatever fails and whenever the process dies.
THEOREM Invariance == Spec => []IInv
BY InitInv, NextInv, PTL DEF Spec

\* Every variable keeps its type.
THEOREM TypeCorrect == Spec => []TypeOK
<1>1. IInv => TypeOK
  BY DEF IInv
<1> QED BY <1>1, Invariance, PTL

\* A crash at any point reopens a database whose blobs are all there.
THEOREM CrashConsistent == Spec => []NoDanglingReference
<1>1. IInv => NoDanglingReference
  BY DEF IInv
<1> QED BY <1>1, Invariance, PTL

\* The content a read or a conflict answer is about to fetch is in the store.
THEOREM ReadsSucceed == Spec => []ReadFindsBlob
<1>1. IInv => ReadFindsBlob
  BY DEF IInv, CollectInv, ReadFindsBlob
<1> QED BY <1>1, Invariance, PTL

\* No operation forgets a blob it has orphaned.
THEOREM LeaksAreOwed == Spec => []NoSilentLeak
<1>1. IInv => NoSilentLeak
  BY DEF IInv
<1> QED BY <1>1, Invariance, PTL

\* Dropping a tombstone never orphans a blob.
THEOREM TombstonesAreEmpty == Spec => []TombstonesHoldNoBlobs
<1>1. IInv => TombstonesHoldNoBlobs
  BY DEF IInv, RowsInv, RowOK, Images, TombstonesHoldNoBlobs, BlobKeys
<1> QED BY <1>1, Invariance, PTL

-----------------------------------------------------------------------------
(***************************************************************************)
(* The last batch of the sweep leaves no orphan that nobody owes.          *)
(***************************************************************************)
\* While the last batch is under collection, an orphan is among its keys or was
\* queued by an operation that ran beside it.
SweepInv ==
    op.kind = "sweep" => /\ op.pc \in {"flush", "export", "delete"} /\ op.content = None
                         /\ op.last => blobs \ Refs(mem) \subseteq op.keys \cup jobs

\* What one step may do: the promise of SweepIsComplete.
SweepStepOK ==
    (\E k \in op.keys : DeleteBlob(k)) /\ phase' # phase => blobs' \ Refs(mem') \subseteq jobs'

LEMMA CollectKind ==
    ASSUME NEW keys, NEW img, NEW o \in Operation
    PROVE  Collect(keys, img, o).kind \in {"none", o.kind}
BY DEF Collect, Idle, Operation

\* Another operation of the queue begins, or the queue is let go.
LEMMA OtherOperation ==
    ASSUME op'.kind # "sweep"
    PROVE  SweepInv'
BY DEF SweepInv

LEMMA CollectOther ==
    ASSUME NEW keys, NEW img, NEW o \in Operation, o.kind # "sweep", op' = Collect(keys, img, o)
    PROVE  SweepInv'
BY CollectKind, OtherOperation

\* A transaction beside the collection queues what it orphans.
LEMMA BesideSweep ==
    ASSUME SweepInv, UNCHANGED <<op, blobs>>, jobs \subseteq jobs',
           Refs(mem) \subseteq Refs(mem') \cup jobs'
    PROVE  SweepInv'
BY DEF SweepInv

LEMMA SweepBatchStep ==
    ASSUME IInv, NEW batch \in SUBSET blobs, Sweep(batch)
    PROVE  SweepInv'
<1> DEFINE o == [Idle EXCEPT !.kind = "sweep", !.last = (batch = blobs \ Refs(mem))]
           f == [o EXCEPT !.pc = "flush", !.keys = batch \ Refs(mem)]
<1>1. /\ o.kind = "sweep" /\ o.content = None
      /\ o.last <=> batch = blobs \ Refs(mem)
    BY DEF Idle
<1>2. /\ f.pc = "flush" /\ f.kind = "sweep" /\ f.keys = batch \ Refs(mem) /\ f.content = None
      /\ f.last = o.last
    BY DEF Idle
<1>3. op' = Collect(batch, mem, o) /\ UNCHANGED <<mem, blobs, jobs>>
    BY DEF Sweep
<1> HIDE DEF o, f
<1>4. CASE batch \ Refs(mem) = {}
  <2>1. op' = Idle
      BY <1>1, <1>3, <1>4 DEF Collect
  <2> QED BY <2>1, IdleFacts, OtherOperation
<1>5. CASE batch \ Refs(mem) # {}
  <2>1. op' = f
      BY <1>3, <1>5 DEF Collect, f
  <2> QED BY <1>1, <1>2, <1>3, <2>1 DEF SweepInv
<1> QED BY <1>4, <1>5

\* An await of the collection passes, or a key is handled.
LEMMA CollectionGoesOn ==
    ASSUME IInv, SweepInv, CollectExport \/ CollectSaved \/ CollectSaveFails
    PROVE  SweepInv'
<1> USE DEF IInv
<1>0. op \in Operation
    BY DEF TypeOK
<1>1. CASE CollectExport \/ CollectSaved
  <2>1. \/ op' = [op EXCEPT !.pc = "export"]
        \/ op' = [op EXCEPT !.pc = "delete"]
      BY <1>1 DEF CollectExport, CollectSaved
  <2>2. /\ op'.pc \in {"export", "delete"} /\ op'.kind = op.kind /\ op'.keys = op.keys
        /\ op'.content = op.content /\ op'.last = op.last
      BY <1>0, <2>1 DEF Operation
  <2>3. UNCHANGED <<mem, blobs, jobs>>
      BY <1>1 DEF CollectExport, CollectSaved
  <2> QED BY <2>2, <2>3 DEF SweepInv
<1>2. CASE CollectSaveFails
  <2>1. op' = AfterCollect(op)
      BY <1>2 DEF CollectSaveFails, GiveUp
  <2> QED BY <1>0, <2>1 DEF AfterCollect, SweepInv, Idle, Operation
<1> QED BY <1>1, <1>2

LEMMA KeyHandled ==
    ASSUME IInv, SweepInv, NEW k \in op.keys, DeleteBlob(k) \/ DeleteBlobFails(k)
    PROVE  SweepInv' /\ SweepStepOK
<1> USE DEF IInv
<1>0. op \in Operation /\ op.pc = "delete" /\ UNCHANGED <<mem, jobs>>
    BY DEF TypeOK, DeleteBlob, DeleteBlobFails
<1>a. op' = AfterCollect(op) => op'.kind # "sweep"
    BY <1>0 DEF AfterCollect, SweepInv, Idle, Operation
<1>b. op.keys \cap Refs(mem) = {}
    BY DEF CollectInv
<1>1. SweepInv'
  <2>1. CASE op' = AfterCollect(op)
      BY <1>a, <2>1, OtherOperation
  <2>2. CASE op' # AfterCollect(op)
    <3>1. op' = [op EXCEPT !.keys = @ \ {k}]
        BY <2>2 DEF DeleteBlob, DeleteBlobFails, KeyDone, GiveUp
    <3>2. /\ op'.pc = op.pc /\ op'.kind = op.kind /\ op'.keys = op.keys \ {k}
          /\ op'.content = op.content /\ op'.last = op.last
        BY <1>0, <3>1 DEF Operation
    <3>3. op.kind = "sweep" => blobs' = blobs \ {k}
        BY <1>b, <2>2 DEF DeleteBlob, DeleteBlobFails, GiveUp
    <3> QED BY <1>0, <3>2, <3>3 DEF SweepInv
  <2> QED BY <2>1, <2>2
<1>2. SweepStepOK
  <2> SUFFICES ASSUME NEW j \in op.keys, DeleteBlob(j), phase' # phase
               PROVE  blobs' \ Refs(mem') \subseteq jobs'
      BY DEF SweepStepOK
  <2>1. op.kind = "sweep" /\ op.last /\ op.keys = {j}
      BY DEF DeleteBlob, KeyDone
  <2>2. blobs' = blobs \ {j}
      BY <1>b DEF DeleteBlob
  <2> QED BY <1>0, <2>1, <2>2 DEF SweepInv
<1> QED BY <1>1, <1>2

LEMMA SweepNext ==
    ASSUME IInv, SweepInv, [Next]_vars
    PROVE  SweepInv' /\ (Next => SweepStepOK)
<1> USE DEF IInv
<1>0. op \in Operation /\ mem \in Image /\ Idle.kind # "sweep" /\ Idle \in Operation
    BY IdleFacts DEF TypeOK
<1>a. op.pc \in {"idle", "commit", "get"} => op.kind # "sweep"
    BY DEF SweepInv
<1>1. CASE \E k \in op.keys : DeleteBlob(k) \/ DeleteBlobFails(k)
    BY <1>1, KeyHandled
<1>2. CASE ~ \E k \in op.keys : DeleteBlob(k) \/ DeleteBlobFails(k)
  <2>0. SweepStepOK
      BY <1>2 DEF SweepStepOK
  <2>1. ASSUME NEW f \in Files, NEW c \in Contents, NEW k \in {"write", "materialize", "migrate"}, Put(f, c, k)
        PROVE  SweepInv'
    <3>1. op'.kind = k
        BY <1>0, <2>1 DEF Put, Idle
    <3> QED BY <3>1, OtherOperation
  <2>2. ASSUME Commit PROVE SweepInv'
    <3>1. op' = Collect(BlobKeys(mem[op.file]), mem', [op EXCEPT !.content = None])
        BY <2>2 DEF Commit
    <3>2. [op EXCEPT !.content = None] \in Operation /\ [op EXCEPT !.content = None].kind # "sweep"
        BY <1>0, <2>2 DEF Commit, Operation
    <3> QED BY <3>1, <3>2, CollectOther
  <2>3. ASSUME NEW conflict \in BOOLEAN, Reject(conflict) PROVE SweepInv'
    <3>1. PICK s \in Contents \cup {None} : op' = Collect({op.content}, mem, [op EXCEPT !.content = s])
        BY <1>0, <2>3 DEF Reject, Operation, TypeOK, Image, FileRow
    <3>2. [op EXCEPT !.content = s] \in Operation /\ [op EXCEPT !.content = s].kind # "sweep"
        BY <1>0, <2>3 DEF Reject, Operation
    <3> QED BY <3>1, <3>2, CollectOther
  <2>4. ASSUME NEW f \in Files, DeleteFile(f) PROVE SweepInv'
      BY <1>0, <2>4, CollectOther DEF DeleteFile
  <2>5. ASSUME NEW f \in Files, ReadFile(f) PROVE SweepInv'
    <3>1. op'.kind = "none"
        BY <2>5 DEF ReadFile, Idle
    <3> QED BY <3>1, OtherOperation
  <2>6. ASSUME GetBlob PROVE SweepInv'
      BY <1>0, <2>6, OtherOperation DEF GetBlob
  <2>7. ASSUME NEW keys \in SUBSET jobs, RunJob(keys) PROVE SweepInv'
      BY <1>0, <2>7, CollectOther DEF RunJob
  <2>8. ASSUME CollectExport \/ CollectSaved \/ CollectSaveFails PROVE SweepInv'
      BY <2>8, CollectionGoesOn
  <2>9. ASSUME BlobQueue PROVE SweepInv'
    <3>1. \A f \in Files, c \in Contents, k \in {"write", "materialize"} : Put(f, c, k) => SweepInv'
        BY <2>1
    <3> QED BY <1>2, <2>9, <3>1, <2>2, <2>3, <2>4, <2>5, <2>6, <2>7, <2>8 DEF BlobQueue
  <2>10. ASSUME NEW fs \in SUBSET Files, DeleteRoom(fs) PROVE SweepInv'
    <3>1. /\ mem' = Drop(mem, fs) /\ jobs' = jobs \cup UNION {BlobKeys(mem[f]) : f \in fs}
          /\ UNCHANGED <<op, blobs>>
        BY <2>10 DEF DeleteRoom
    <3> QED BY <1>0, <3>1, DropRefs, BesideSweep
  <2>11. ASSUME NEW f \in Files, CreateCrdt(f) \/ RenameOver(f) PROVE SweepInv'
    <3>1. /\ ~mem[f].live
          /\ mem' = Insert(mem, f, Empty, "inline") \/ mem' = Drop(mem, {f})
          /\ jobs \subseteq jobs' /\ UNCHANGED <<op, blobs>>
        BY <2>11 DEF CreateCrdt, RenameOver
    <3>2. Refs(mem') = Refs(mem)
        BY <2>11, <3>1, RewriteDeadRow DEF CreateCrdt, RenameOver
    <3> QED BY <3>1, <3>2, BesideSweep
  <2>12. ASSUME Direct PROVE SweepInv'
      BY <2>12, <2>10, <2>11 DEF Direct
  <2>13. ASSUME NEW f \in Files, DurableCreateCrdt(f) \/ DurableRenameOver(f) PROVE SweepInv'
    <3>1. /\ ~mem[f].live
          /\ mem' = Insert(mem, f, Empty, "inline") \/ mem' = Drop(mem, {f})
          /\ UNCHANGED <<op, blobs, jobs>>
        BY <2>13 DEF DurableCreateCrdt, DurableRenameOver, DurableApply
    <3>2. Refs(mem') = Refs(mem)
        BY <2>13, <3>1, RewriteDeadRow DEF DurableCreateCrdt, DurableRenameOver
    <3> QED BY <3>1, <3>2, BesideSweep
  <2>14. ASSUME DurableSaved \/ DurableFails PROVE SweepInv'
    <3>1. durable.busy /\ mem' \in {mem, durable.snap} /\ jobs \subseteq jobs' /\ UNCHANGED <<op, blobs>>
        BY <2>14 DEF DurableSaved, DurableFails
    <3>2. Refs(mem') = Refs(mem)
        BY <3>1 DEF SlotsInv
    <3> QED BY <3>1, <3>2, BesideSweep
  <2>15. ASSUME Durable PROVE SweepInv'
      BY <2>15, <2>13, <2>14 DEF Durable
  <2>16. ASSUME Flush PROVE SweepInv'
    <3>1. UNCHANGED <<mem, op, blobs, jobs>>
        BY <2>16 DEF Flush, TimerExport, TimerSaveEnds
    <3>2. Refs(mem) \subseteq Refs(mem')
        BY <3>1
    <3> QED BY <3>1, <3>2, BesideSweep
  <2>17. ASSUME NEW f \in Files, BackfillFile(f) PROVE SweepInv'
    <3>1. mem[f].legacy /\ mem' = Backfilled(mem, f) /\ UNCHANGED <<op, blobs, jobs>>
        BY <2>17 DEF BackfillFile
    <3>2. BlobKeys(mem[f]) = {}
        BY <3>1 DEF RowsInv, Images, RowOK
    <3>3. Refs(mem') = Refs(mem)
        BY <1>0, <3>1, <3>2, BackfilledRefs
    <3> QED BY <3>1, <3>3, BesideSweep
  <2>18. ASSUME NEW f \in Files, NEW c \in Contents, MigratePut(f, c) PROVE SweepInv'
      BY <2>1, <2>18 DEF MigratePut
  <2>19. ASSUME NEW others \in BOOLEAN, MigrateCommit(others) PROVE SweepInv'
      BY <1>0, <2>19, OtherOperation DEF MigrateCommit
  <2>20. ASSUME MigrateStale PROVE SweepInv'
    <3>1. op' = Collect({op.content}, mem, [op EXCEPT !.content = None])
        BY <2>20 DEF MigrateStale
    <3>2. [op EXCEPT !.content = None] \in Operation /\ [op EXCEPT !.content = None].kind # "sweep"
        BY <1>0, <2>20 DEF MigrateStale, Operation
    <3> QED BY <3>1, <3>2, CollectOther
  <2>21. ASSUME NEW batch \in SUBSET blobs, Sweep(batch) PROVE SweepInv'
      BY <2>21, SweepBatchStep
  <2>22. ASSUME BackfillDone \/ MigrationDone \/ MaintenanceFails PROVE SweepInv'
    <3>1. UNCHANGED <<mem, op, blobs, jobs>>
        BY <2>22 DEF BackfillDone, MigrationDone, MaintenanceFails
    <3>2. Refs(mem) \subseteq Refs(mem')
        BY <3>1
    <3> QED BY <3>1, <3>2, BesideSweep
  <2>23. ASSUME Maintenance PROVE SweepInv'
      BY <2>23, <2>17, <2>18, <2>19, <2>20, <2>21, <2>22 DEF Maintenance
  <2>24. ASSUME Crash PROVE SweepInv'
      BY <1>0, <2>24, OtherOperation DEF Crash
  <2>25. ASSUME UNCHANGED vars PROVE SweepInv'
    <3>1. UNCHANGED <<mem, op, blobs, jobs>>
        BY <2>25 DEF vars
    <3>2. Refs(mem) \subseteq Refs(mem')
        BY <3>1
    <3> QED BY <3>1, <3>2, BesideSweep
  <2> QED BY <2>0, <2>9, <2>12, <2>15, <2>16, <2>23, <2>24, <2>25 DEF Next
<1> QED BY <1>1, <1>2

\* Maintenance ends only when nothing is left but what a queued call owes: the sweep's last
\* batch saw every orphan, and what was orphaned meanwhile was queued.
THEOREM SweepsAreComplete == Spec => SweepIsComplete
<1>1. Init => SweepInv
    BY IdleFacts DEF Init, SweepInv
<1>2. IInv /\ SweepInv /\ [Next]_vars => SweepInv'
    BY SweepNext
<1>3. Spec => []SweepInv
    BY <1>1, <1>2, Invariance, PTL DEF Spec
<1>4. IInv /\ SweepInv /\ [Next]_vars =>
         [(\E k \in op.keys : DeleteBlob(k)) /\ phase' # phase
             => blobs' \ Refs(mem') \subseteq jobs']_vars
    BY SweepNext DEF SweepStepOK
<1> QED BY <1>3, <1>4, Invariance, PTL DEF Spec, SweepIsComplete

=============================================================================
