----------------------------- MODULE NoteSession -----------------------------
(***************************************************************************)
(* The text of one live note on one device (crdtSession.ts): the session's *)
(* document between the file in the vault, the state kept in the           *)
(* documents' cache, an editor, and the relay, where other devices change  *)
(* the same text.                                                          *)
(*                                                                         *)
(* A text is made of words, each typed once, by somebody.  In a document a *)
(* word is an item that is inserted, then perhaps deleted; documents merge *)
(* by union.  A file has no items: whoever compares it with a document     *)
(* (crdtReconcile.ts) makes new ones.  One epoch, one name.                *)
(***************************************************************************)
EXTENDS Naturals, Sequences, FiniteSets

CONSTANTS
  Words,
  First,       \* the word the note begins with
  MaxEvents,   \* bound: what nobody ordered (Happens)
  MaxQueue,    \* bound: the relay's messages on their way
  None

VARIABLES
  relay,       \* the relay's document, or None
  disk,        \* the file: how often it has each word
  cache,       \* the state crdtDocStore.ts keeps, or None
  sess,        \* "none", "asked" (crdt_create), "opening" or "open"
  doc,         \* the session's document
  created,     \* the relay says that it made the document for this device
  synced,      \* initialSync
  shake,       \* has this connection's handshake been answered
  bound,       \* boundToEditor
  fresh,       \* the journal still protects the note it creates
  persist, materialize,  \* the timers
  rec,         \* reconcileAgainstDisk, for the handshake and for the watcher
  event,       \* the watcher has something to tell
  late,        \* updates that came while the session was opening
  up, toRelay, toDevice, \* the connection
  ext,         \* words changed in the file alone
  typed, erased, \* words that users have typed and erased so far
  made,        \* items made of words of the file so far
  events,
  excused      \* history: words that the session manager has lost sight of

vars == <<relay, disk, cache, sess, doc, created, synced, shake, bound, fresh, persist, materialize, rec,
          event, late, up, toRelay, toDevice, ext, typed, erased, made, events, excused>>
users == <<typed, erased, events>>
wire == <<up, toRelay, toDevice>>
timers == <<persist, materialize>>
opened == <<sess, created, synced, shake, bound, fresh>>

Empty == [ins |-> {}, del |-> {}]
Item(w, n) == [w |-> w, n |-> n]
Merge(a, b) == [ins |-> a.ins \cup b.ins, del |-> a.del \cup b.del]
Visible(d) == d.ins \ d.del
Text(d) == [w \in Words |-> Cardinality({x \in Visible(d) : x.w = w})]
Words0(text, d) == {w \in Words : text[w] # Text(d)[w]}

Init ==
  LET it == [ins |-> {Item(First, 0)}, del |-> {}]
      file == [w \in Words |-> IF w = First THEN 1 ELSE 0] IN
  /\ \/ relay = None /\ cache = None /\ fresh = TRUE
     \/ relay = it /\ cache \in {None, it} /\ fresh = FALSE
  /\ disk = file
  /\ sess = "none" /\ doc = Empty /\ created = FALSE /\ synced = FALSE /\ shake = FALSE /\ bound = FALSE
  /\ persist = FALSE /\ materialize = FALSE
  /\ rec = [x \in {"sync", "watch"} |-> "idle"]
  /\ event = TRUE /\ late = Empty
  /\ up = TRUE /\ toRelay = <<>> /\ toDevice = <<>>
  /\ ext = {} /\ typed = {First} /\ erased = {} /\ made = [w \in Words |-> 0]
  /\ events = 0 /\ excused = {}

Happens == events < MaxEvents /\ events' = events + 1
Sent(m) == IF up THEN Append(toRelay, m) ELSE toRelay
Message(type, d) == [type |-> type, doc |-> d]

-----------------------------------------------------------------------------
(* Comparing the file with a document. *)

NewItems(d, text) ==
  {Item(n[1], made[n[1]] + n[2]) : n \in
     {p \in Words \X (1..4) : Text(d)[p[1]] + p[2] <= text[p[1]]}}

\* reconcileYTextWithDiskText.
Reconciled(d, text) ==
  [ins |-> d.ins \cup NewItems(d, text),
   del |-> d.del \cup UNION {CHOOSE s \in SUBSET {x \in Visible(d) : x.w = w} :
                               Cardinality(s) = Text(d)[w] - text[w]
                             : w \in {w \in Words : text[w] < Text(d)[w]}}]

Counted(d, text) == [w \in Words |-> made[w] + Cardinality({x \in NewItems(d, text) : x.w = w})]

\* A change of the document makes a read under way look again (session.revision).
Revised(r) == [x \in DOMAIN r |-> IF r[x] = "reading" THEN "stale" ELSE r[x]]

\* The file is written: what was changed in it alone is gone.
WriteFile ==
  /\ disk' = Text(doc) /\ ext' = {} /\ excused' = excused \cup ext
  /\ event' = (event \/ disk' # disk)

\* Differences that are not somebody's change of the file: an adopted document is empty before
\* its first handshake, and a bound editor's file may be old.
Blind(x, d) ==
  CASE x = "watch" /\ ~synced -> Words0(disk, d) \cup ext
    [] rec[x] = "stale" /\ bound -> Words0(disk, d) \ ext
    [] OTHER -> {}

\* reconcileAgainstDisk: a write of the file that is due is done first (flushMaterialize), and
\* waited for.
Begins(x, r, d, due) ==
  /\ materialize' = FALSE
  /\ IF due /\ ~bound
       THEN /\ rec' = [r EXCEPT ![x] = "writing"]
            /\ disk' = Text(d) /\ ext' = {} /\ excused' = excused \cup ext
            /\ event' = (event \/ disk' # disk)
       ELSE /\ rec' = [r EXCEPT ![x] = "reading"]
            /\ excused' = excused \cup Blind(x, d) /\ UNCHANGED <<disk, ext, event>>

-----------------------------------------------------------------------------
(* Users. *)

\* An editor that is bound is the document.
Type(w) ==
  /\ bound /\ w \notin typed /\ typed' = typed \cup {w}
  /\ doc' = [doc EXCEPT !.ins = @ \cup {Item(w, 0)}]
  /\ toRelay' = Sent(Message("update", [ins |-> {Item(w, 0)}, del |-> {}]))
  /\ persist' = TRUE /\ rec' = Revised(rec)
  /\ UNCHANGED <<relay, disk, cache, opened, materialize, event, late, up, toDevice, ext, erased, made,
                 events, excused>>

Erase(w) ==
  /\ Happens /\ bound /\ erased' = erased \cup {w}
  /\ LET gone == {x \in Visible(doc) : x.w = w} IN
     /\ gone # {} /\ doc' = [doc EXCEPT !.del = @ \cup gone]
     /\ toRelay' = Sent(Message("update", [ins |-> {}, del |-> gone]))
  /\ persist' = TRUE /\ rec' = Revised(rec)
  /\ UNCHANGED <<relay, disk, cache, opened, materialize, event, late, up, toDevice, ext, typed, made, excused>>

\* Another program, or an editor that is not bound, changes the file.
WriteOnDisk(w) ==
  /\ ~bound /\ w \notin typed /\ typed' = typed \cup {w}
  /\ disk' = [disk EXCEPT ![w] = 1] /\ ext' = ext \cup {w} /\ event' = TRUE
  /\ UNCHANGED <<relay, cache, opened, doc, timers, rec, late, wire, erased, made, events, excused>>

EraseOnDisk(w) ==
  /\ Happens /\ ~bound /\ disk[w] > 0 /\ erased' = erased \cup {w}
  /\ disk' = [disk EXCEPT ![w] = 0] /\ ext' = ext \cup {w} /\ event' = TRUE
  /\ UNCHANGED <<relay, cache, opened, doc, timers, rec, late, wire, typed, made, excused>>

\* Other devices, at the relay; it tells this one.
PeerChanges(d) ==
  /\ relay # None /\ Len(toDevice) < MaxQueue
  /\ relay' = Merge(relay, d)
  /\ toDevice' = IF up THEN Append(toDevice, Message("remote", d)) ELSE toDevice
  /\ UNCHANGED <<disk, cache, opened, doc, timers, rec, event, late, up, toRelay, ext, made, excused>>

PeerTypes(w) ==
  /\ w \notin typed /\ typed' = typed \cup {w} /\ UNCHANGED <<erased, events>>
  /\ PeerChanges([ins |-> {Item(w, 0)}, del |-> {}])

PeerErases(w) ==
  /\ Happens /\ erased' = erased \cup {w} /\ UNCHANGED typed
  /\ relay # None
  /\ LET gone == {x \in Visible(relay) : x.w = w} IN
     gone # {} /\ PeerChanges([ins |-> {}, del |-> gone])

-----------------------------------------------------------------------------
(* Opening the session. *)

\* ensureSession; the journal's create has an identifier and asks even for a known note.
StartOpen ==
  /\ sess = "none" /\ late' = Empty
  /\ IF fresh
       THEN up /\ sess' = "asked" /\ toRelay' = Sent(Message("create", Empty))
       ELSE sess' = "opening" /\ UNCHANGED toRelay
  /\ created' = FALSE
  /\ UNCHANGED <<relay, disk, cache, synced, shake, bound, fresh, doc, timers, rec, up, toDevice, ext,
                 users, made, excused>>

\* The user looks at the note.
OpenForEditor == Happens /\ UNCHANGED <<typed, erased>> /\ ~fresh /\ sess = "none" /\ sess' = "opening" /\ late' = Empty
  /\ created' = FALSE
  /\ UNCHANGED <<relay, disk, cache, synced, shake, bound, fresh, doc, timers, rec, event, wire, ext, made, excused>>

\* Mutant: whatever is on disk goes into a document without a kept state.
SeededMutAdopted == [ins |-> NewItems(Empty, disk), del |-> {}]

\* openSession: only a document made for this device's request begins with its file.
Seeded == IF created THEN [ins |-> NewItems(Empty, disk), del |-> {}] ELSE Empty

FinishOpen ==
  /\ sess = "opening" /\ sess' = "open" /\ synced' = FALSE /\ shake' = FALSE
  /\ LET start == IF cache # None THEN Reconciled(cache, disk) ELSE Seeded IN
     /\ doc' = Merge(start, late)
     /\ made' = IF cache # None THEN Counted(cache, disk)
                ELSE IF start # Empty THEN Counted(Empty, disk) ELSE made
     /\ ext' = IF cache # None \/ created THEN {} ELSE ext
  /\ late' = Empty
  /\ persist' = (late # Empty) /\ materialize' = (late # Empty)
  /\ toRelay' = Sent(Message("step1", Empty))
  /\ UNCHANGED <<relay, disk, cache, created, bound, fresh, rec, event, up, toDevice, users, excused>>

\* The watcher: an open session that no editor is bound to compares itself with the file.
WatcherTells ==
  /\ event
  /\ \/ sess = "none" /\ StartOpen /\ event' = FALSE
     \/ /\ sess = "open" /\ ~bound /\ ~fresh /\ rec["watch"] = "idle"
        /\ Begins("watch", rec, doc, materialize)
        /\ UNCHANGED <<relay, cache, opened, doc, persist, late, wire, users, made>>
     \/ /\ sess # "none" /\ (sess = "open" => bound \/ fresh \/ rec["watch"] # "idle") /\ event' = FALSE
        /\ UNCHANGED <<relay, disk, cache, opened, doc, timers, rec, late, wire, ext, users, made, excused>>

\* crdtEditorBinding.ts: the editor shows the document, not what the file had besides.
Bind ==
  /\ sess = "open" /\ synced /\ ~bound /\ ~fresh /\ bound' = TRUE
  /\ ext' = {} /\ excused' = excused \cup ext
  /\ UNCHANGED <<relay, disk, cache, sess, doc, created, synced, shake, fresh, timers, rec, event, late, wire,
                 users, made>>

\* Obsidian writes the editor's text, when it likes and when the view closes.
AutoSaves ==
  /\ bound /\ disk # Text(doc) /\ WriteFile
  /\ UNCHANGED <<relay, cache, opened, doc, timers, rec, late, wire, users, made>>

Unbind ==
  /\ bound /\ bound' = FALSE /\ WriteFile
  /\ UNCHANGED <<relay, cache, sess, doc, created, synced, shake, fresh, timers, rec, late, wire, users, made>>

-----------------------------------------------------------------------------
(* Timers, and the comparison with the file. *)

\* An adopted document has only part of the note before its first handshake; once it is
\* kept, the next session knows no better.
HasPart == ~synced /\ ~created /\ cache = None

PersistTimer ==
  /\ persist /\ persist' = FALSE /\ cache' = doc
  /\ excused' = excused \cup IF HasPart THEN Words ELSE {}
  /\ UNCHANGED <<relay, disk, opened, doc, materialize, rec, event, late, wire, ext, users, made>>

MaterializeTimer ==
  /\ materialize /\ materialize' = FALSE
  /\ IF bound THEN UNCHANGED <<disk, ext, excused, event>> ELSE WriteFile
  /\ UNCHANGED <<relay, cache, opened, doc, persist, rec, late, wire, users, made>>

\* The write that flushMaterialize waited for is done, and the read begins with the revision
\* the document has by now: what it took in meanwhile will be missed in the file.
Written(x) ==
  /\ rec[x] = "writing" /\ rec' = [rec EXCEPT ![x] = "reading"]
  /\ excused' = excused \cup (Words0(disk, doc) \ ext)
  /\ UNCHANGED <<relay, disk, cache, opened, doc, timers, event, late, wire, ext, users, made>>

\* The document has changed during the read: once more, even if an editor is bound by now.
ReadAgain(x) ==
  /\ rec[x] = "stale" /\ Begins(x, rec, doc, materialize)
  /\ UNCHANGED <<relay, cache, opened, doc, persist, late, wire, users, made>>

\* Mutant: what was read is used although the document has changed since.
MayUseMutAlways(x) == rec[x] \in {"reading", "stale"}

MayUse(x) == rec[x] = "reading"

EndRead(x) ==
  /\ MayUse(x)
  /\ rec' = [Revised(rec) EXCEPT ![x] = "idle"]
  /\ LET now == Reconciled(doc, disk) IN
     /\ doc' = now /\ made' = Counted(doc, disk) /\ ext' = {}
     /\ persist' = (persist \/ now # doc)
     /\ toRelay' = IF now = doc THEN toRelay
                   ELSE Sent(Message("update", [ins |-> now.ins \ doc.ins, del |-> now.del \ doc.del]))
  /\ IF x = "sync" THEN synced' = TRUE /\ fresh' = FALSE ELSE UNCHANGED <<synced, fresh>>
  /\ UNCHANGED <<relay, disk, cache, sess, created, shake, bound, materialize, event, late, up, toDevice,
                 users, excused>>

-----------------------------------------------------------------------------
(* Messages. *)

\* Every change of the document sets the timers.
Due(d) == materialize \/ (Merge(doc, d) # doc /\ ~bound)
Received(d) == doc' = Merge(doc, d) /\ persist' = (persist \/ doc' # doc)
File == <<disk, ext, excused, event>>

\* Mutant: a bound editor's document is compared with the file, too.
ComparesMutBound == TRUE

Compares == ~bound

RelayReads ==
  /\ toRelay # <<>> /\ Len(toDevice) < MaxQueue
  /\ LET m == Head(toRelay) IN
     /\ toRelay' = Tail(toRelay)
     /\ relay' = IF m.type = "create" THEN IF relay = None THEN Empty ELSE relay
                 ELSE Merge(relay, m.doc)
     /\ toDevice' = CASE m.type = "create" -> Append(toDevice, Message("created", Empty))
                      [] m.type = "step1" -> toDevice \o <<Message("step2", relay), Message("step1", Empty)>>
                      [] OTHER -> toDevice
  /\ UNCHANGED <<disk, cache, opened, doc, timers, rec, event, late, up, ext, users, made, excused>>

ReadStep2(d) ==
  /\ Received(d) /\ shake' = TRUE
  /\ IF Compares
       THEN Begins("sync", Revised(rec), Merge(doc, d), Due(d)) /\ UNCHANGED <<synced, fresh>>
       ELSE /\ rec' = Revised(rec) /\ materialize' = Due(d) /\ synced' = TRUE /\ fresh' = FALSE
            /\ UNCHANGED File
  /\ UNCHANGED <<sess, created, toRelay, late>>

\* An update for a note without a session opens one, and is merged when it is open.
ReadRemote(d) ==
  /\ IF sess = "open"
       THEN /\ Received(d) /\ rec' = (IF doc' = doc THEN rec ELSE Revised(rec)) /\ materialize' = Due(d)
            /\ UNCHANGED <<sess, created, late>>
       ELSE /\ IF sess = "none" /\ ~fresh THEN sess' = "opening" /\ created' = FALSE /\ late' = d
               ELSE late' = Merge(late, d) /\ UNCHANGED <<sess, created>>
            /\ UNCHANGED <<doc, timers, rec>>
  /\ UNCHANGED <<shake, synced, fresh, toRelay, File>>

DeviceReads ==
  /\ toDevice # <<>> /\ toDevice' = Tail(toDevice)
  /\ LET m == Head(toDevice) IN
     \/ /\ m.type = "created" /\ sess' = "opening" /\ created' = TRUE
        /\ UNCHANGED <<doc, timers, rec, shake, synced, fresh, toRelay, late, File>>
     \/ m.type = "step2" /\ ReadStep2(m.doc)
     \/ /\ m.type = "step1" /\ toRelay' = Sent(Message("step2", doc))
        /\ UNCHANGED <<sess, created, doc, timers, rec, shake, synced, fresh, late, File>>
     \/ m.type = "remote" /\ ReadRemote(m.doc)
  /\ UNCHANGED <<relay, cache, bound, up, users, made>>

\* Mutant: what waits for an answer goes on waiting.
DisconnectMutWaits ==
  /\ Happens /\ UNCHANGED <<typed, erased>>
  /\ up /\ up' = FALSE /\ toRelay' = <<>> /\ toDevice' = <<>> /\ shake' = FALSE
  /\ UNCHANGED <<relay, disk, cache, sess, doc, created, synced, bound, fresh, timers, rec, event, late, ext,
                 made, excused>>

\* onDisconnected: a create that waits for its answer fails, and is tried again.
Disconnect ==
  /\ Happens /\ UNCHANGED <<typed, erased>>
  /\ up /\ up' = FALSE /\ toRelay' = <<>> /\ toDevice' = <<>> /\ shake' = FALSE
  /\ IF sess = "asked" THEN sess' = "none" /\ event' = TRUE ELSE UNCHANGED <<sess, event>>
  /\ UNCHANGED <<relay, disk, cache, doc, created, synced, bound, fresh, timers, rec, late, ext, made, excused>>

\* Mutant: only sessions that have not had their first handshake get another.
ConnectMutFirst ==
  /\ ~up /\ up' = TRUE
  /\ toRelay' = IF sess = "open" /\ ~fresh /\ ~synced THEN <<Message("step1", Empty)>> ELSE <<>>
  /\ shake' = synced
  /\ UNCHANGED <<relay, disk, cache, sess, doc, created, synced, bound, fresh, timers, rec, event, late,
                 toDevice, ext, users, made, excused>>

\* onConnected.
Connect ==
  /\ ~up /\ up' = TRUE
  /\ toRelay' = IF sess = "open" /\ ~fresh THEN <<Message("step1", Empty)>> ELSE <<>>
  /\ UNCHANGED <<relay, disk, cache, opened, doc, timers, rec, event, late, toDevice, ext, users, made, excused>>

\* What the file, the kept state and the relay do not agree on when a session ends, the next
\* one takes for changes made in the meantime.
Unsettled(kept) ==
  IF kept # None THEN Words0(disk', kept) \ ext'
  ELSE IF relay = None THEN {}
  ELSE IF fresh THEN {x.w : x \in relay.ins} ELSE Words0(disk', relay) \ ext'

Ended ==
  /\ sess' = "none" /\ doc' = Empty /\ created' = FALSE /\ synced' = FALSE /\ shake' = FALSE /\ bound' = FALSE
  /\ persist' = FALSE /\ materialize' = FALSE /\ rec' = [x \in DOMAIN rec |-> "idle"]
  /\ late' = Empty /\ up' = FALSE /\ toRelay' = <<>> /\ toDevice' = <<>>

\* dispose: the document is kept, a write of the file that is due is not done.
Dispose ==
  /\ Happens /\ UNCHANGED <<typed, erased>> /\ sess = "open" /\ Ended
  /\ cache' = doc
  /\ IF bound THEN disk' = Text(doc) /\ ext' = {} ELSE UNCHANGED <<disk, ext>>
  /\ excused' = excused \cup Unsettled(doc) \cup (ext \ ext')
                \cup IF HasPart THEN Words ELSE {}
  /\ event' = (event \/ fresh)
  /\ UNCHANGED <<relay, fresh, made>>

\* What the document alone knew.
Unkept ==
  (Words0(disk, doc) \ ext)
    \cup IF cache = None THEN {} ELSE {x.w : x \in (doc.ins \ cache.ins) \cup (doc.del \ cache.del)}

Crash ==
  /\ Happens /\ UNCHANGED <<typed, erased>> /\ Ended
  /\ UNCHANGED <<disk, ext, cache, relay, fresh, made>>
  /\ excused' = excused \cup Unsettled(cache) \cup (IF sess = "open" THEN Unkept ELSE {})
  /\ event' = (event \/ fresh)

Users ==
  \E w \in Words : \/ Type(w) \/ Erase(w) \/ WriteOnDisk(w) \/ EraseOnDisk(w)
                   \/ PeerTypes(w) \/ PeerErases(w)
Device ==
  \/ WatcherTells \/ OpenForEditor \/ FinishOpen \/ Bind \/ AutoSaves \/ Unbind
  \/ PersistTimer \/ MaterializeTimer
  \/ \E x \in DOMAIN rec : Written(x) \/ ReadAgain(x) \/ EndRead(x)

Next == Users \/ Device \/ RelayReads \/ DeviceReads \/ Disconnect \/ Connect \/ Dispose \/ Crash

Spec == Init /\ [][Next]_vars

\* Bound: once every word is excused the properties say nothing more.
SomeWordIsFollowed == excused # Words

-----------------------------------------------------------------------------
IsDoc(d) == \A x \in d.ins \cup d.del : x.w \in Words /\ x.n <= made[x.w]

TypeOK ==
  /\ relay # None => \A x \in relay.ins : x.w \in typed
  /\ cache # None => IsDoc(cache)
  /\ IsDoc(doc) /\ (sess # "open" => doc = Empty /\ ~bound /\ ~persist /\ ~materialize)
  /\ \A w \in Words : disk[w] \in 0..4
  /\ sess \in {"none", "asked", "opening", "open"} /\ (sess = "asked" => fresh /\ up)
  /\ \A x \in DOMAIN rec : rec[x] \in {"idle", "writing", "reading", "stale"}
  /\ (bound => synced) /\ ext \subseteq typed

\* The device deletes for everyone only what a user has erased.
NothingElseIsErased ==
  \A d \in {doc} \cup ({relay, cache} \ {None}) : \A x \in d.del : x.w \in erased \cup excused

\* No word of the file is inserted a second time, whatever was seeded, kept or answered.
NothingIsDoubled ==
  \A d \in {doc} \cup ({relay, cache} \ {None}) : \A w \in Words \ excused : Text(d)[w] <= 1

\* What another device has typed is deleted only by somebody who erases it.  (Violated: a word
\* that arrives while reconcileAgainstDisk waits for flushMaterialize is compared with the old
\* file and deleted for everyone.)
PeersTextIsKept == \A x \in doc.del : x.n = 0 => x.w \in erased

Quiet ==
  /\ up /\ toRelay = <<>> /\ toDevice = <<>> /\ ~event /\ sess = "open" /\ synced /\ shake
  /\ ~persist /\ ~materialize /\ \A x \in DOMAIN rec : rec[x] = "idle"
  /\ bound => disk = Text(doc)

\* When nothing is under way, the file, the document, what is kept of it and the relay
\* have the same text: what was typed, and not erased, by whomever and wherever.
AllHaveTheText ==
  Quiet => \A w \in Words \ excused :
             LET n == IF w \in typed \ erased THEN 1 ELSE 0 IN
             disk[w] = n /\ Text(doc)[w] = n /\ Text(relay)[w] = n
=============================================================================
