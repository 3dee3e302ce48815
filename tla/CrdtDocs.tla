------------------------------ MODULE CrdtDocs ------------------------------
(***************************************************************************)
(* The live-editing documents of one room on the relay: crdtDocManager.ts  *)
(* with the durable update log of crdtRepository.ts, the whole-file rows   *)
(* it materializes into, and the switch of the room between the two lanes  *)
(* (room.routes.ts).                                                       *)
(*                                                                         *)
(* A document's text is abstracted to the number of updates it holds,      *)
(* modulo TextCount: an update changes the text, some number of updates    *)
(* brings an earlier text back, and losing an update shows.                *)
(*                                                                         *)
(* One action per turn of the event loop.  The server's other rooms share  *)
(* the document cache: their loads evict this room's documents at will.    *)
(***************************************************************************)
EXTENDS Naturals, Sequences, FiniteSets, FiniteSetsExt

CONSTANTS
    FileCount,       \* rows of the room, numbered in listing order
    TextCount,       \* distinct texts
    MaxSeq,          \* bound: updates per document epoch
    MaxEpoch,        \* bound: epochs per row
    MaxQueue,        \* bound: materializations queued by timers and subscribers
    Switchers,       \* concurrent requests to turn live editing on or off
    MaxSeedAttempts, \* reads of the seed text before turning it on gives up
    Failures,        \* what may go wrong
    None             \* no document, no snapshot, no request

ASSUME CountsAssumption ==
    /\ FileCount \in Nat \ {0} /\ TextCount \in Nat \ {0}
    /\ MaxSeq \in Nat /\ MaxEpoch \in Nat /\ MaxQueue \in Nat
    /\ MaxSeedAttempts \in Nat \ {0}
ASSUME FailuresAssumption == Failures \subseteq {"append", "land", "durable", "restart"}
ASSUME NoneAssumption     == None \notin Switchers /\ None \notin Nat

Files  == 1 .. FileCount
Texts  == 0 .. TextCount - 1
Epochs == 0 .. MaxEpoch

VARIABLES
    on,        \* rooms.crdt_enabled
    rows,      \* files, crdt_snapshots and crdt_updates rows, current epoch
    cache,     \* CrdtDocManager.cache, by file and epoch
    queue,     \* landText calls in the blob queue, first come, first served
    retiring,  \* the room is in retiringRooms
    switch,    \* requests to change the room's lane
    durable,   \* the durable() operation between its apply and its last flush
    deleting,  \* a file_delete between its turns
    listings,  \* epochs at which subscribers under way may have listed a row
    ghost      \* history: what each file's text should be

vars == <<on, rows, cache, queue, retiring, switch, durable, deleting, listings, ghost>>

Row    == [live : BOOLEAN, epoch : Epochs, mat : Texts,
           snap : Texts \cup {None}, upTo : 0 .. MaxSeq, log : SUBSET (1 .. MaxSeq)]
\* `waiting`: its timer fired and waits for the database; `awaited` names the
\* retireRoom calls waiting for that, `cancelled` those that cancelled its timer.
Doc    == [text : Texts, seq : 0 .. MaxSeq, timer : BOOLEAN, waiting : BOOLEAN,
           awaited : SUBSET Switchers, cancelled : SUBSET Switchers]
Landing == [file : Files, epoch : Epochs, text : Texts, n : Nat,
            by : Switchers \cup {None}, awaited : SUBSET Switchers]
Listed == [epoch : Epochs, mat : Texts, fresh : BOOLEAN]
Switch == [pc : {"idle", "settle", "land", "off", "offFlush", "seed", "on", "onFlush"},
           todo : SUBSET Files, listed : SUBSET Files,
           seen : [Files -> Listed], attempt : 0 .. MaxSeedAttempts]
\* The file's text is `base` plus `count` updates; the whole-file content is
\* the text after `landed` of them.
Ghost  == [base : Texts, count : Nat, landed : Nat]

Unlisted == [f \in Files |-> [epoch |-> 0, mat |-> 0, fresh |-> FALSE]]
NoSwitch == [pc |-> "idle", todo |-> {}, listed |-> {}, seen |-> Unlisted, attempt |-> 0]
NoDocs   == [f \in Files |-> [e \in Epochs |-> None]]
Untouched == [f \in Files |-> [base |-> 0, count |-> 0, landed |-> 0]]

TypeOK ==
    /\ on \in BOOLEAN
    /\ rows \in [Files -> Row]
    /\ cache \in [Files -> [Epochs -> Doc \cup {None}]]
    /\ queue \in Seq(Landing)
    /\ retiring \in BOOLEAN
    /\ switch \in [Switchers -> Switch]
    /\ durable.busy \in BOOLEAN /\ durable.on \in BOOLEAN /\ durable.rows \in [Files -> Row]
    /\ deleting \in [pc : {"none", "asked", "deleted"}, file : Files, epoch : Epochs]
    /\ listings \in [Files -> SUBSET Epochs]
    /\ ghost \in [Files -> Ghost]

Plus(t, n) == (t + n) % TextCount

(***************************************************************************)
(* The durable document: a snapshot and the updates after it.              *)
(***************************************************************************)
\* Mutant: a new sequence number counts the remaining updates only.
NextSeqOfLog(row) == 1 + (IF row.log = {} THEN 0 ELSE Max(row.log))

NextSeq(row) == 1 + Max(row.log \cup {row.upTo})

Replayed(row) == {s \in row.log : s > row.upTo}

HasDurableState(row) == row.snap # None \/ row.log # {}

DurableText(row) == Plus(IF row.snap = None THEN 0 ELSE row.snap, Cardinality(Replayed(row)))

NewDoc(text, seq) == [text |-> text, seq |-> seq, timer |-> FALSE, waiting |-> FALSE,
                      awaited |-> {}, cancelled |-> {}]

\* reconstruct(): a superseded epoch's rows are purged, so it is empty.
Reconstructed(f, e) ==
    LET row == rows[f]
    IN  IF e = row.epoch THEN NewDoc(DurableText(row), Max(Replayed(row) \cup {row.upTo}))
                         ELSE NewDoc(0, 0)

Loaded(f, e) == IF cache[f][e] = None THEN Reconstructed(f, e) ELSE cache[f][e]

\* A document just loaded may be the one that LRU pressure evicts, when
\* every other cached document is pinned by a timer: `kept` is FALSE.
Keep(f, e, doc, kept) == cache' = [cache EXCEPT ![f][e] = IF kept THEN doc ELSE None]
MayDrop(f, e, kept)   == ~kept => cache[f][e] = None

\* Every change of a row's content moves files.version, which a request
\* turning live editing on compares with what it read.
Moved(sw, f) == [s \in Switchers |-> [sw[s] EXCEPT !.seen[f].fresh = FALSE]]

Land(f, e, text, by, awaited) ==
    [file |-> f, epoch |-> e, text |-> text, n |-> ghost[f].count, by |-> by, awaited |-> awaited]

HasRoom == Len(queue) < MaxQueue

-----------------------------------------------------------------------------
(***************************************************************************)
(* Clients' messages.                                                      *)
(***************************************************************************)
\* compact(): one snapshot replaces the updates it covers.
Compacted(row, doc) ==
    [row EXCEPT !.snap = doc.text, !.upTo = doc.seq, !.log = {s \in @ : s > doc.seq}]

\* applyUpdate: in memory, then in the log, sometimes compacted, and a
\* materialization is scheduled.
ApplyUpdate(f, kept, compacts) ==
    LET e   == rows[f].epoch
        seq == NextSeq(rows[f])
        doc == [Loaded(f, e) EXCEPT !.text = Plus(@, 1), !.seq = seq, !.timer = TRUE]
        row == [rows[f] EXCEPT !.log = @ \cup {seq}]
    IN  /\ on /\ rows[f].live /\ ~retiring /\ ~durable.busy
        /\ seq <= MaxSeq
        /\ MayDrop(f, e, kept)
        /\ rows' = [rows EXCEPT ![f] = IF compacts THEN Compacted(row, doc) ELSE row]
        /\ Keep(f, e, doc, kept)
        /\ ghost' = [ghost EXCEPT ![f].count = @ + 1]
        /\ UNCHANGED <<on, queue, retiring, switch, durable, deleting, listings>>

\* Mutant: the document that failed to persist stays in the cache.
AppendFailsKeepsDoc(f) ==
    LET e == rows[f].epoch
    IN  /\ "append" \in Failures
        /\ on /\ rows[f].live /\ ~retiring /\ ~durable.busy
        /\ cache' = [cache EXCEPT ![f][e] = [Loaded(f, e) EXCEPT !.text = Plus(@, 1)]]
        /\ UNCHANGED <<on, rows, queue, retiring, switch, durable, deleting, ghost, listings>>

\* The append throws: the document is dropped, timer or not.
AppendFails(f) ==
    LET e == rows[f].epoch
    IN  /\ "append" \in Failures
        /\ on /\ rows[f].live /\ ~retiring /\ ~durable.busy
        /\ cache' = [cache EXCEPT ![f][e] = None]
        /\ UNCHANGED <<on, rows, queue, retiring, switch, durable, deleting, ghost, listings>>

\* crdt_sync_step1 loads the document to answer it.
Handshake(f, kept) ==
    LET e == rows[f].epoch
    IN  /\ on /\ rows[f].live /\ ~durable.busy
        /\ MayDrop(f, e, kept)
        /\ Keep(f, e, Loaded(f, e), kept)
        /\ UNCHANGED <<on, rows, queue, retiring, switch, durable, deleting, ghost, listings>>

\* subscribe_room lists the room's rows, once; other handlers run while it
\* goes through them.
Subscribe(f) ==
    /\ on /\ rows[f].live /\ ~durable.busy
    /\ listings' = [listings EXCEPT ![f] = @ \cup {rows[f].epoch}]
    /\ UNCHANGED <<on, rows, cache, queue, retiring, switch, durable, deleting, ghost>>

\* A subscriber, having listed the row and read some content, has the document
\* materialized unless that content was its text.
MaterializeNow(f, e, kept, differs) ==
    LET doc     == Loaded(f, e)
        landing == differs /\ kept
    IN  /\ e \in listings[f]
        /\ landing => HasRoom
        /\ MayDrop(f, e, kept)
        /\ Keep(f, e, IF differs THEN [doc EXCEPT !.timer = FALSE] ELSE doc, kept)
        /\ queue' = IF landing THEN Append(queue, Land(f, e, doc.text, None, {})) ELSE queue
        /\ UNCHANGED <<on, rows, retiring, switch, durable, deleting, ghost, listings>>

\* crdt_create revives the row, at the epoch its deletion left, as an empty
\* document.
CreateDoc(f, kept) ==
    LET e == rows[f].epoch
    IN  /\ on /\ ~rows[f].live /\ ~durable.busy
        /\ rows' = [rows EXCEPT ![f] = [@ EXCEPT !.live = TRUE, !.mat = 0,
                                                 !.snap = 0, !.upTo = 0, !.log = {}]]
        /\ Keep(f, e, NewDoc(0, 0), kept)
        /\ ghost' = [ghost EXCEPT ![f] = [base |-> 0, count |-> 0, landed |-> 0]]
        /\ switch' = Moved(switch, f)
        /\ UNCHANGED <<on, queue, retiring, durable, deleting, listings>>

\* A whole-file write, checked again as it commits.
WriteFile(f, text) ==
    /\ ~on /\ ~durable.busy
    /\ rows[f].live \/ rows[f].epoch < MaxEpoch
    /\ rows' = [rows EXCEPT ![f] = [@ EXCEPT !.live = TRUE, !.mat = text]]
    /\ ghost' = [ghost EXCEPT ![f] = [base |-> text, count |-> 0, landed |-> 0]]
    /\ switch' = Moved(switch, f)
    /\ UNCHANGED <<on, cache, queue, retiring, durable, deleting, listings>>

\* file_delete notes the row's epoch (a tombstone's too), waits for the blob queue and the
\* database, and when that is over drops the cached document of that epoch.
DeleteAsked(f) ==
    /\ deleting.pc = "none" /\ ~durable.busy
    /\ rows[f].epoch < MaxEpoch
    /\ deleting' = [pc |-> "asked", file |-> f, epoch |-> rows[f].epoch]
    /\ UNCHANGED <<on, rows, cache, queue, retiring, switch, durable, ghost, listings>>

\* deleteFile: tombstone, next epoch, the old one's rows purged.
DeleteCommits ==
    LET f == deleting.file
    IN  /\ deleting.pc = "asked" /\ ~durable.busy
        /\ rows[f].epoch < MaxEpoch
        /\ rows' = [rows EXCEPT ![f] = [live |-> FALSE, epoch |-> @.epoch + 1, mat |-> 0,
                                        snap |-> None, upTo |-> 0, log |-> {}]]
        /\ deleting' = [deleting EXCEPT !.pc = "deleted"]
        /\ switch' = Moved(switch, f)
        /\ ghost' = [ghost EXCEPT ![f] = [base |-> 0, count |-> 0, landed |-> 0]]
        /\ UNCHANGED <<on, cache, queue, retiring, durable, listings>>

NoDelete == [pc |-> "none", file |-> 1, epoch |-> 0]

\* The delete is refused: a version conflict, or another delete was first.
DeleteRejected ==
    /\ deleting.pc = "asked"
    /\ deleting' = NoDelete
    /\ UNCHANGED <<on, rows, cache, queue, retiring, switch, durable, ghost, listings>>

DeleteEvicts ==
    /\ deleting.pc = "deleted"
    /\ cache' = [cache EXCEPT ![deleting.file][deleting.epoch] = None]
    /\ deleting' = NoDelete
    /\ UNCHANGED <<on, rows, queue, retiring, switch, durable, ghost, listings>>

-----------------------------------------------------------------------------
(***************************************************************************)
(* Materialization: the debounce timer, the turn the embedded relay waits  *)
(* for in the database queue, and the write in the blob queue.             *)
(***************************************************************************)
TimerFires(f, e) ==
    /\ cache[f][e] # None /\ cache[f][e].timer
    /\ cache' = [cache EXCEPT ![f][e].timer = FALSE, ![f][e].waiting = TRUE]
    /\ UNCHANGED <<on, rows, queue, retiring, switch, durable, deleting, ghost, listings>>

\* Mutant: the write does not queue behind those before it.
MaterializeJumpsQueue(f, e) ==
    LET doc == cache[f][e]
    IN  /\ doc # None /\ doc.waiting /\ ~durable.busy /\ HasRoom
        /\ cache' = [cache EXCEPT ![f][e] = [@ EXCEPT !.waiting = FALSE, !.awaited = {}]]
        /\ queue' = <<Land(f, e, doc.text, None, doc.awaited)>> \o queue
        /\ UNCHANGED <<on, rows, retiring, switch, durable, deleting, ghost, listings>>

\* writeMaterialized: nothing is done for a document evicted meanwhile (its
\* entry, and with it `waiting`, is gone).
Materialize(f, e) ==
    LET doc == cache[f][e]
    IN  /\ doc # None /\ doc.waiting /\ ~durable.busy /\ HasRoom
        /\ cache' = [cache EXCEPT ![f][e] = [@ EXCEPT !.waiting = FALSE, !.awaited = {}]]
        /\ queue' = Append(queue, Land(f, e, doc.text, None, doc.awaited))
        /\ UNCHANGED <<on, rows, retiring, switch, durable, deleting, ghost, listings>>

\* Mutant: a superseded epoch's text is written too.
AcceptsAnyEpoch(w) == on /\ rows[w.file].live

\* Mutant: a room that has left the live-editing lane is not noticed.
AcceptsWhenOff(w) == rows[w.file].live /\ rows[w.file].epoch = w.epoch

\* materializeCrdtContent declines a deleted file, a superseded epoch and a
\* room that is not live-edited.
Accepts(w) == on /\ rows[w.file].live /\ rows[w.file].epoch = w.epoch

\* Mutant: the room is switched once one document has been written.
LandOnFirst(s, sw, rest) ==
    LET e(f) == sw[s].seen[f].epoch
        left == {f \in sw[s].todo : Loaded(f, e(f)).text # sw[s].seen[f].mat}
    IN  IF left = {}
        THEN switch' = [sw EXCEPT ![s].pc = "off"] /\ queue' = rest
        ELSE /\ switch' = [sw EXCEPT ![s].pc = "land", ![s].todo = {}]
             /\ queue' = Append(rest, Land(Min(left), e(Min(left)),
                                           Loaded(Min(left), e(Min(left))).text, s, {}))

\* landRoomDocuments, from one await to the next: the first file left whose
\* durable text differs from the content it was listed with is written; with
\* none left the room is switched.  `sw` and `rest` are the requests and the
\* queue so far.
LandOn(s, sw, rest) ==
    LET differs(f) == /\ Loaded(f, sw[s].seen[f].epoch).text # sw[s].seen[f].mat
                      /\ \/ cache[f][sw[s].seen[f].epoch] # None
                         \/ sw[s].seen[f].epoch = rows[f].epoch /\ HasDurableState(rows[f])
        left == {f \in sw[s].todo : differs(f)}
    IN  IF left = {}
        THEN /\ switch' = [sw EXCEPT ![s].pc = "off", ![s].todo = {}]
             /\ queue' = rest
        ELSE LET f == Min(left)
                 e == sw[s].seen[f].epoch
             IN  /\ switch' = [sw EXCEPT ![s].pc = "land",
                                         ![s].todo = {g \in @ : g > f}]
                 /\ queue' = Append(rest, Land(f, e, Loaded(f, e).text, s, {}))

\* The write at the head of the queue commits, or is declined.
Lands ==
    LET w  == Head(queue)
        f  == w.file
        sw == IF Accepts(w) THEN Moved(switch, f) ELSE switch
    IN  /\ queue # <<>> /\ ~durable.busy
        /\ IF Accepts(w)
           THEN /\ rows' = [rows EXCEPT ![f].mat = w.text]
                /\ ghost' = [ghost EXCEPT ![f].landed = w.n]
           ELSE UNCHANGED <<rows, ghost>>
        /\ IF w.by = None
           THEN switch' = sw /\ queue' = Tail(queue)
           ELSE LandOn(w.by, sw, Tail(queue))
        /\ UNCHANGED <<on, cache, retiring, durable, deleting, listings>>

\* retireRoom gives up: the room stays live, the timers it cancelled run again
\* for the documents still cached.
Rescheduled(s) ==
    [f \in Files |-> [e \in Epochs |->
        LET doc == cache[f][e]
        IN  IF doc # None /\ s \in doc.cancelled
            THEN [doc EXCEPT !.timer = TRUE, !.cancelled = @ \ {s}] ELSE doc]]

\* Mutant: only a successful switch ends the retirement.
LandFailsStillRetiring ==
    LET w == Head(queue)
    IN  /\ "land" \in Failures /\ queue # <<>>
        /\ queue' = Tail(queue)
        /\ IF w.by = None
           THEN UNCHANGED <<cache, switch>>
           ELSE /\ cache' = Rescheduled(w.by)
                /\ switch' = [switch EXCEPT ![w.by] = NoSwitch]
        /\ UNCHANGED <<on, rows, retiring, durable, deleting, ghost, listings>>

\* The write fails (the blob store, or the database).
LandFails ==
    LET w == Head(queue)
    IN  /\ "land" \in Failures /\ queue # <<>>
        /\ queue' = Tail(queue)
        /\ IF w.by = None
           THEN UNCHANGED <<cache, switch, retiring>>
           ELSE /\ cache' = Rescheduled(w.by)
                /\ switch' = [switch EXCEPT ![w.by] = NoSwitch]
                /\ retiring' = FALSE
        /\ UNCHANGED <<on, rows, durable, deleting, ghost, listings>>

\* evictIdle, and evictLruIfOverCapacity for another room's load: any document
\* without a pending timer may go.
Evict(f, e) ==
    /\ cache[f][e] # None /\ ~cache[f][e].timer
    /\ cache' = [cache EXCEPT ![f][e] = None]
    /\ UNCHANGED <<on, rows, queue, retiring, switch, durable, deleting, ghost, listings>>

-----------------------------------------------------------------------------
(***************************************************************************)
(* Turning live editing off: retireRoom around the mode switch.            *)
(***************************************************************************)
\* Mutant: materializations under way are not waited for.
RetireAwaitsNothing(s) ==
    /\ on /\ ~durable.busy /\ switch[s].pc = "idle"
    /\ retiring' = TRUE
    /\ cache' = [f \in Files |-> [e \in Epochs |->
           LET doc == cache[f][e]
           IN  IF doc # None /\ doc.timer
               THEN [doc EXCEPT !.timer = FALSE, !.cancelled = @ \cup {s}] ELSE doc]]
    /\ switch' = [switch EXCEPT ![s].pc = "settle"]
    /\ UNCHANGED <<on, rows, queue, durable, deleting, ghost, listings>>

\* The room's timers are cancelled; the materializations that have started
\* (not the landings of another retireRoom) are to be waited for.
Retire(s) ==
    /\ on /\ ~durable.busy /\ switch[s].pc = "idle"
    /\ retiring' = TRUE
    /\ cache' = [f \in Files |-> [e \in Epochs |->
           LET doc == cache[f][e]
           IN  IF doc = None THEN None
               ELSE [doc EXCEPT !.timer = FALSE,
                                !.cancelled = IF doc.timer THEN @ \cup {s} ELSE @,
                                !.awaited = IF doc.waiting THEN @ \cup {s} ELSE @]]]
    /\ queue' = [i \in DOMAIN queue |->
           IF queue[i].by = None THEN [queue[i] EXCEPT !.awaited = @ \cup {s}] ELSE queue[i]]
    /\ switch' = [switch EXCEPT ![s].pc = "settle"]
    /\ UNCHANGED <<on, rows, durable, deleting, ghost, listings>>

Settled(s) ==
    /\ \A f \in Files, e \in Epochs : cache[f][e] # None => s \notin cache[f][e].awaited
    /\ \A i \in DOMAIN queue : s \notin queue[i].awaited

Live == {f \in Files : rows[f].live}

\* landRoomDocuments lists the rows and lands the first.
RetireLands(s) ==
    /\ switch[s].pc = "settle" /\ Settled(s)
    /\ LandOn(s, [switch EXCEPT ![s].todo = Live,
                                ![s].seen = [f \in Files |-> [epoch |-> rows[f].epoch,
                                                              mat |-> rows[f].mat, fresh |-> FALSE]]],
              queue)
    /\ UNCHANGED <<on, rows, cache, retiring, durable, deleting, ghost, listings>>

\* The switch gets the database, and its durable() operation is applied; the
\* room may have been switched off by another request.
SwitchOff(s) ==
    /\ switch[s].pc = "off" /\ ~durable.busy
    /\ durable' = [busy |-> TRUE, on |-> on, rows |-> rows]
    /\ on' = FALSE
    /\ switch' = [switch EXCEPT ![s].pc = "offFlush"]
    /\ UNCHANGED <<rows, cache, queue, retiring, deleting, ghost, listings>>

NotDurable == [busy |-> FALSE, on |-> FALSE, rows |-> [f \in Files |->
    [live |-> FALSE, epoch |-> 0, mat |-> 0, snap |-> None, upTo |-> 0, log |-> {}]]]

-----------------------------------------------------------------------------
(***************************************************************************)
(* Turning it on: read each note's text, then seed a document from it if   *)
(* nothing has moved.                                                      *)
(***************************************************************************)
Enable(s, attempt) ==
    /\ \A f \in Live : rows[f].epoch < MaxEpoch
    /\ switch' = [switch EXCEPT ![s] =
           [NoSwitch EXCEPT !.pc = IF Live = {} THEN "on" ELSE "seed",
                            !.todo = Live, !.listed = Live, !.attempt = attempt]]

EnableStarts(s) ==
    /\ ~on /\ ~durable.busy /\ switch[s].pc = "idle"
    /\ Enable(s, 1)
    /\ UNCHANGED <<on, rows, cache, queue, retiring, durable, deleting, ghost, listings>>

\* Mutant: a deleted note is read, as no content.
ReadSeedOfTombstone(s, f) ==
    /\ switch[s].pc = "seed" /\ f \in switch[s].todo
    /\ switch' = [switch EXCEPT
         ![s].todo = @ \ {f},
         ![s].seen[f] = [epoch |-> 0, mat |-> IF rows[f].live THEN rows[f].mat ELSE None,
                         fresh |-> TRUE],
         ![s].pc = IF switch[s].todo = {f} THEN "on" ELSE @]
    /\ UNCHANGED <<on, rows, cache, queue, retiring, durable, deleting, ghost, listings>>

\* readFileContent's turn in the blob queue; it throws for a deleted note.
ReadSeed(s, f) ==
    /\ switch[s].pc = "seed" /\ f \in switch[s].todo
    /\ switch' =
         IF ~rows[f].live THEN [switch EXCEPT ![s] = NoSwitch]
         ELSE [switch EXCEPT ![s].todo = @ \ {f},
                             ![s].seen[f] = [epoch |-> 0, mat |-> rows[f].mat, fresh |-> TRUE],
                             ![s].pc = IF switch[s].todo = {f} THEN "on" ELSE @]
    /\ UNCHANGED <<on, rows, cache, queue, retiring, durable, deleting, ghost, listings>>

\* Mutant: the notes are not compared with what was read.
SeedsAlwaysCurrent(s) == TRUE

SeedsAreCurrent(s) ==
    /\ Live = switch[s].listed
    /\ \A f \in Live : switch[s].seen[f].fresh

\* Each note begins a new epoch as a snapshot of the text read; the old
\* epoch's rows are purged and the new document is cached.
SwitchOn(s) ==
    LET seeded == switch[s].listed
        text(f) == switch[s].seen[f].mat
    IN  /\ switch[s].pc = "on" /\ ~durable.busy
        /\ on \/ SeedsAreCurrent(s)
        /\ durable' = [busy |-> TRUE, on |-> on, rows |-> rows]
        /\ IF on THEN UNCHANGED <<on, rows, cache>>
           ELSE /\ on' = TRUE
                /\ rows' = [f \in Files |->
                     IF f \in seeded
                     THEN [rows[f] EXCEPT !.epoch = @ + 1, !.snap = text(f),
                                          !.upTo = 0, !.log = {}]
                     ELSE rows[f]]
                /\ cache' = [f \in Files |->
                     IF f \in seeded
                     THEN [cache[f] EXCEPT ![rows[f].epoch + 1] = NewDoc(text(f), 0)]
                     ELSE cache[f]]
        /\ switch' = [switch EXCEPT ![s].pc = "onFlush"]
        /\ UNCHANGED <<queue, retiring, deleting, ghost, listings>>

\* SeedsOutdated: read again, or give up.
SeedsOutdated(s) ==
    /\ switch[s].pc = "on" /\ ~durable.busy
    /\ ~on /\ ~SeedsAreCurrent(s)
    /\ IF switch[s].attempt = MaxSeedAttempts
       THEN switch' = [switch EXCEPT ![s] = NoSwitch]
       ELSE Enable(s, switch[s].attempt + 1)
    /\ UNCHANGED <<on, rows, cache, queue, retiring, durable, deleting, ghost, listings>>

-----------------------------------------------------------------------------
(***************************************************************************)
(* The last flush of the switch.                                           *)
(***************************************************************************)
\* Once the room is off, its documents and timers go and updates are no longer
\* rejected on account of this request.
SwitchSaved(s) ==
    /\ switch[s].pc \in {"offFlush", "onFlush"}
    /\ durable' = NotDurable
    /\ switch' = [switch EXCEPT ![s] = NoSwitch]
    /\ IF switch[s].pc = "offFlush"
       THEN cache' = NoDocs /\ retiring' = FALSE
       ELSE UNCHANGED <<cache, retiring>>
    /\ UNCHANGED <<on, rows, queue, deleting, ghost, listings>>

\* The flush fails and the database is restored; the cache is not.
SwitchFails(s) ==
    /\ "durable" \in Failures
    /\ switch[s].pc \in {"offFlush", "onFlush"}
    /\ on' = durable.on
    /\ rows' = durable.rows
    /\ durable' = NotDurable
    /\ switch' = [switch EXCEPT ![s] = NoSwitch]
    /\ retiring' = IF switch[s].pc = "offFlush" THEN FALSE ELSE retiring
    /\ UNCHANGED <<cache, queue, deleting, ghost, listings>>

\* The process stops and starts again; a switch under way is kept or not.
Restart(applied) ==
    /\ "restart" \in Failures
    /\ IF durable.busy /\ ~applied
       THEN on' = durable.on /\ rows' = durable.rows
       ELSE UNCHANGED <<on, rows>>
    /\ cache' = NoDocs /\ queue' = <<>> /\ retiring' = FALSE
    /\ switch' = [s \in Switchers |-> NoSwitch]
    /\ durable' = NotDurable /\ deleting' = NoDelete
    /\ listings' = [f \in Files |-> {}]
    /\ UNCHANGED ghost

Init ==
    /\ on = FALSE
    /\ rows = NotDurable.rows
    /\ cache = NoDocs /\ queue = <<>> /\ retiring = FALSE
    /\ switch = [s \in Switchers |-> NoSwitch]
    /\ durable = NotDurable /\ deleting = NoDelete
    /\ listings = [f \in Files |-> {}]
    /\ ghost = Untouched

Clients ==
    \/ \E f \in Files, kept \in BOOLEAN :
          \/ \E compacts \in BOOLEAN : ApplyUpdate(f, kept, compacts)
          \/ Handshake(f, kept)
          \/ CreateDoc(f, kept)
          \/ \E e \in Epochs, differs \in BOOLEAN : MaterializeNow(f, e, kept, differs)
    \/ \E f \in Files : AppendFails(f) \/ Subscribe(f) \/ DeleteAsked(f) \/ \E t \in Texts : WriteFile(f, t)
    \/ DeleteCommits \/ DeleteRejected \/ DeleteEvicts

Documents ==
    \/ \E f \in Files, e \in Epochs : TimerFires(f, e) \/ Materialize(f, e) \/ Evict(f, e)
    \/ Lands \/ LandFails

Switching ==
    \E s \in Switchers :
        \/ Retire(s) \/ RetireLands(s) \/ SwitchOff(s)
        \/ EnableStarts(s) \/ (\E f \in Files : ReadSeed(s, f)) \/ SwitchOn(s) \/ SeedsOutdated(s)
        \/ SwitchSaved(s) \/ SwitchFails(s)

Next == Clients \/ Documents \/ Switching \/ \E applied \in BOOLEAN : Restart(applied)

Spec == Init /\ [][Next]_vars

\* Promises settle and a request to leave the lane goes on.
RequestGoesOn(s) == RetireLands(s) \/ SwitchOff(s) \/ SwitchSaved(s) \/ SwitchFails(s)

(***************************************************************************)
(* Promises settle and the blob queue is first come, first served.  Nothing*)
(* is assumed of clients, timers or restarts.                              *)
(***************************************************************************)
Fairness ==
    /\ WF_vars(Lands \/ LandFails)
    /\ \A f \in Files, e \in Epochs : SF_vars(Materialize(f, e))
    /\ \A s \in Switchers : WF_vars(RequestGoesOn(s))

FairSpec == Spec /\ Fairness

-----------------------------------------------------------------------------
TextOf(f, n) == Plus(ghost[f].base, n)

\* A cached document of a note's current epoch is what its durable log says:
\* never ahead of it, never behind, whatever failed, was restored or evicted.
CacheMatchesLog ==
    on /\ ~durable.busy => \A f \in Live :
        LET doc == cache[f][rows[f].epoch]
        IN  doc # None => doc.text = DurableText(rows[f]) /\ doc.seq + 1 = NextSeq(rows[f])

\* A cached document holds what the log would give it.
CacheIsExact == TypeOK /\ CacheMatchesLog

\* No accepted edit is lost: while the room is live-edited the log holds them
\* all, and once it is not the whole-file content does.
AcceptedSurvives ==
    \A f \in Live :
        IF on THEN DurableText(rows[f]) = TextOf(f, ghost[f].count)
              ELSE rows[f].mat = TextOf(f, ghost[f].count)

\* The whole-file content of a live-edited note is a text that note had, not
\* that of an earlier note at its path or of an earlier life of the room.
MaterializedIsATextOfTheNote ==
    on => \A f \in Live : /\ ghost[f].landed <= ghost[f].count
                          /\ rows[f].mat = TextOf(f, ghost[f].landed)

\* Materializations reach `files` in the order their texts were taken: a late
\* one never overwrites what a newer one wrote.
MaterializedNeverGoesBack ==
    [][\A f \in Files : ghost'[f].count = ghost[f].count
                         => ghost'[f].landed >= ghost[f].landed]_vars

\* A request that rejects the room's updates ends, and they are taken again.
RetireEnds == []<>~retiring
=============================================================================
