------------------------------ MODULE Presence ------------------------------
(***************************************************************************)
(* Live cursors in one note of a live-editing room.  The relay keeps the   *)
(* caret of every connection that announced one and forwards changes; each *)
(* device keeps the carets it heard of beside the note's session.  Both    *)
(* directions of a connection are ordered; a device may lose its network   *)
(* long before the relay notices.  A note's session exchanges its state    *)
(* with the relay (step1, step2) before it announces a caret.              *)
(***************************************************************************)
EXTENDS Naturals, SequencesExt

CONSTANTS
  Devices, Conns,   \* devices, and the connections they may open
  Paths, Positions, \* where the note may be, and a caret in it
  DbQueue,          \* does a frame wait for the turn of a database queue (embedded relay)
  MaxDocs, MaxEvents, MaxMoves, \* bounds: Y.Docs, things that happen, moves of a caret
  None

VARIABLES
  note,      \* the note's row: path, epoch, not deleted
  deleting,  \* deletions that are committed and whose carets are not yet removed
  readers,   \* devices whose user may read the note
  conn,      \* per connection: its device (None: not yet opened), its relay end, its subscription
  carets,    \* the registry: [conn, path, epoch, key, at]
  up, down,  \* per connection: frames to the relay, frames to the device
  link,      \* per device: the connection it believes it has
  session,   \* per device: the note's session
  docs,      \* Y.Docs made, each with a client id of its own
  missed,    \* history: connections of which a caret was dropped by the limiter
  events, moves

vars == <<note, deleting, readers, conn, carets, up, down, link, session, docs, missed,
          events, moves>>

Caret == [conn: Conns, path: Paths, epoch: 1..MaxEvents + 1, key: 1..MaxDocs, at: Positions]

Init ==
  /\ note = [path |-> CHOOSE p \in Paths : TRUE, epoch |-> 1, live |-> TRUE]
  /\ deleting = {} /\ readers = Devices
  /\ conn = [c \in Conns |-> [dev |-> None, open |-> FALSE, member |-> FALSE]]
  /\ carets = {}
  /\ up = [c \in Conns |-> <<>>] /\ down = [c \in Conns |-> <<>>]
  /\ link = [d \in Devices |-> None] /\ session = [d \in Devices |-> None]
  /\ docs = 0 /\ missed = {} /\ events = 0 /\ moves = 0

Happens == events < MaxEvents /\ events' = events + 1

-----------------------------------------------------------------------------
(* What the relay sends. *)

\* A connection whose device is still there: frames to the others are lost.
Attached(c) == conn[c].open /\ link[conn[c].dev] = c

Hears(c) == Attached(c) /\ conn[c].member /\ conn[c].dev \in readers

Peer(e, at) == [m |-> "peer", path |-> e.path, epoch |-> e.epoch, key |-> e.key, at |-> at]

\* q after removals of the carets E were fanned out, each to everyone but its owner.
Retracted(q, E) ==
  [c \in Conns |->
     IF Hears(c) THEN q[c] \o SetToSeq({Peer(e, None) : e \in {e \in E : e.conn # c}})
                 ELSE q[c]]

To(q, c, frame) == IF Attached(c) THEN [q EXCEPT ![c] = Append(@, frame)] ELSE q

FanOut(q, e) == [c \in Conns |-> IF Hears(c) /\ c # e.conn THEN Append(q[c], Peer(e, e.at)) ELSE q[c]]

-----------------------------------------------------------------------------
(* The device's session of the note. *)

Frame(s, at) == [m |-> "set", path |-> s.path, epoch |-> s.epoch, key |-> s.key, at |-> at]

\* A step of the session's caret: the session after it and the frames it sends.
Retract(s) ==
  [s |-> [s EXCEPT !.sent = None, !.timer = FALSE],
   out |-> IF s.sent # None /\ s.ready THEN <<Frame(s, None)>> ELSE <<>>]

\* A steady selection is not announced again, and a frame no socket took not counted.
PublishLatest(d, s) ==
  CASE ~s.ready -> [s |-> s, out |-> <<>>]
    [] s.ready /\ s.sel = None -> Retract(s)
    [] s.ready /\ s.sel # None /\ (s.sent = s.sel \/ link[d] = None) -> [s |-> s, out |-> <<>>]
    [] OTHER -> [s |-> [s EXCEPT !.sent = s.sel], out |-> <<Frame(s, s.sel)>>]

Silenced(s) == [s EXCEPT !.ready = FALSE, !.sent = None, !.remote = {}]

Step1(s) == [m |-> "step1", path |-> s.path, epoch |-> s.epoch]

\* The device's session becomes s and it sends out, if it has a connection.
Become(d, s, out) ==
  /\ session' = [session EXCEPT ![d] = s]
  /\ up' = IF link[d] = None THEN up ELSE [up EXCEPT ![link[d]] = @ \o out]

\* A session opens for a note the device has heard of, at the epoch it heard.
OpenSession(d) ==
  /\ link[d] # None /\ session[d] = None /\ note.live /\ d \in readers /\ docs < MaxDocs
  /\ \A k \in DOMAIN down[link[d]] : down[link[d]][k].m \notin {"gone", "renamed"}
  /\ docs' = docs + 1
  /\ LET s == [path |-> note.path, epoch |-> note.epoch, key |-> docs + 1, ready |-> FALSE,
               busy |-> FALSE, sel |-> None, timer |-> FALSE, sent |-> None, remote |-> {}]
     IN Become(d, s, <<Step1(s)>>)
  /\ UNCHANGED <<note, deleting, readers, conn, carets, down, link, missed, events, moves>>

\* The caret moves, or leaves the note; it is announced when the timer fires.
MoveCaret(d, at) ==
  /\ moves < MaxMoves /\ moves' = moves + 1
  /\ session[d] # None
  /\ session' = [session EXCEPT ![d].sel = at, ![d].timer = TRUE]
  /\ UNCHANGED <<note, deleting, readers, conn, carets, up, down, link, docs, missed, events>>

TimerFires(d) ==
  /\ session[d] # None /\ session[d].timer
  /\ LET p == PublishLatest(d, [session[d] EXCEPT !.timer = FALSE]) IN Become(d, p.s, p.out)
  /\ UNCHANGED <<note, deleting, readers, conn, carets, down, link, docs, missed, events, moves>>

\* A pane closes: the last one takes the caret along, else another pane's is shown.
DetachView(d, at) ==
  /\ moves < MaxMoves /\ moves' = moves + 1
  /\ session[d] # None /\ session[d].sel # None
  /\ LET s == [session[d] EXCEPT !.sel = at]
         p == IF at = None THEN Retract(s) ELSE PublishLatest(d, s)
     IN Become(d, p.s, p.out)
  /\ UNCHANGED <<note, deleting, readers, conn, carets, down, link, docs, missed, events>>

-----------------------------------------------------------------------------
(* The device reads a frame.  It reads one at a time: while a step2 waits for the
   disk (busy) the next one waits too, but the connection may go. *)

Next1(d) == Head(down[link[d]])

Reads(d, kind) ==
  /\ link[d] # None /\ down[link[d]] # <<>> /\ Next1(d).m = kind
  /\ session[d] # None => ~session[d].busy
  /\ down' = [down EXCEPT ![link[d]] = Tail(@)]
  /\ UNCHANGED <<note, deleting, readers, conn, carets, link, docs, missed, events, moves>>

Ignores == UNCHANGED <<session, up>>

\* The handshake is through: from now on the caret may be announced.
Ready(d, s) ==
  IF s.ready THEN [s |-> s, out |-> <<>>] ELSE PublishLatest(d, [s EXCEPT !.ready = TRUE])

ReadStep2(d) ==
  /\ Reads(d, "step2")
  /\ IF session[d] # None /\ session[d].epoch = Next1(d).epoch
       THEN \/ LET p == Ready(d, session[d]) IN Become(d, p.s, p.out)
            \/ /\ session[d].sel = None \* no editor yet: the merge is reconciled with the disk
               /\ Become(d, [session[d] EXCEPT !.busy = TRUE], <<>>)
       ELSE Ignores

\* The reconciliation ends, whatever has become of the connection.
Reconciled(d) ==
  /\ session[d] # None /\ session[d].busy
  /\ LET p == Ready(d, [session[d] EXCEPT !.busy = FALSE]) IN Become(d, p.s, p.out)
  /\ UNCHANGED <<note, deleting, readers, conn, carets, down, link, docs, missed, events, moves>>

InSession(d) ==
  /\ session[d] # None /\ session[d].path = Next1(d).path /\ session[d].epoch = Next1(d).epoch

\* The carets in C replace those under the same client ids; one's own is not kept.
Heard(s, C) ==
  [s EXCEPT !.remote = {r \in @ : \A c \in C : c.key # r.key} \cup {c \in C : c.key # s.key}]

ReadSnapshot(d) ==
  /\ Reads(d, "snapshot")
  /\ IF InSession(d) THEN Become(d, Heard(session[d], Next1(d).states), <<>>) ELSE Ignores

ReadPeer(d) ==
  /\ Reads(d, "peer")
  /\ LET f == Next1(d) IN
     IF ~InSession(d) THEN Ignores
     ELSE IF f.at = None
       THEN Become(d, [session[d] EXCEPT !.remote = {r \in @ : r.key # f.key}], <<>>)
       ELSE Become(d, Heard(session[d], {[key |-> f.key, at |-> f.at]}), <<>>)

ReadRejected(d) ==
  /\ Reads(d, "rejected")
  /\ IF session[d] # None /\ session[d].path = Next1(d).path
       THEN Become(d, Silenced(session[d]), <<>>) ELSE Ignores

\* The note moved: the session goes along and exchanges its state again.
ReadRenamed(d) ==
  /\ Reads(d, "renamed")
  /\ IF session[d] # None /\ session[d].path = Next1(d).old
       THEN LET s == [Silenced(session[d]) EXCEPT !.path = Next1(d).path, !.timer = FALSE]
            IN Become(d, s, <<Step1(s)>>)
       ELSE Ignores

\* The note is gone or another one is in its place: the session ends.
ReadGone(d) ==
  /\ Reads(d, "gone")
  /\ IF session[d] # None /\ session[d].path = Next1(d).path
       THEN Become(d, None, Retract(session[d]).out) ELSE Ignores

-----------------------------------------------------------------------------
(* The relay reads a frame. *)

Takes(c, kind) ==
  /\ up[c] # <<>> /\ Head(up[c]).m = kind
  /\ up' = [up EXCEPT ![c] = Tail(@)]
  /\ UNCHANGED <<note, deleting, readers, link, session, docs, moves>>

NoEvent == UNCHANGED <<missed, events>>

\* hello and subscribe_room; onConnected sent the handshakes after them.
TakeJoin(c) ==
  /\ Takes(c, "join")
  /\ conn' = [conn EXCEPT ![c].member = conn[c].dev \in readers]
  /\ NoEvent
  /\ UNCHANGED <<carets, down>>

TakeStep1(c) ==
  /\ Takes(c, "step1")
  /\ LET f == Head(up[c]) IN
     down' = IF ~conn[c].member \/ conn[c].dev \notin readers THEN down
             ELSE IF note.live /\ f.path = note.path /\ f.epoch = note.epoch
               THEN To(down, c, [m |-> "step2", epoch |-> f.epoch])
               ELSE To(down, c, [m |-> "gone", path |-> f.path])
  /\ NoEvent
  /\ UNCHANGED <<conn, carets>>

Rejected(path) == [m |-> "rejected", path |-> path]

\* Removing needs no look at the note, but the client id of what is to be removed.
TakeRemoval(c) ==
  /\ Takes(c, "set") /\ Head(up[c]).at = None
  /\ LET f == Head(up[c])
         E == {e \in carets : /\ e.conn = c /\ e.path = f.path /\ e.epoch = f.epoch
                              /\ e.key = f.key /\ conn[c].member}
     IN /\ carets' = carets \ E
        /\ down' = IF conn[c].member THEN Retracted(down, E) ELSE To(down, c, Rejected(f.path))
  /\ NoEvent
  /\ UNCHANGED conn

\* The budget of the connection is spent on other notes: the frame is dropped.
TakeThrottled(c) ==
  /\ Takes(c, "set") /\ Head(up[c]).at # None /\ conn[c].member
  /\ Happens /\ missed' = missed \cup {c}
  /\ UNCHANGED <<conn, carets, down>>

SameNote(e, f) == e.path = f.path /\ e.epoch = f.epoch

\* The first caret of a connection is answered with those of the others.
\* Mutant: without looking whether it is the first.
AnswerMutNever(c, f, others) == down

Answer(c, f, others) ==
  IF \E e \in carets : e.conn = c /\ SameNote(e, f) THEN down
    ELSE To(down, c, [m |-> "snapshot", path |-> f.path, epoch |-> f.epoch,
                      states |-> {[key |-> e.key, at |-> e.at] : e \in others}])

\* Mutant: a caret that left the note is set like any other.
TakeSetMutNull(c) ==
  /\ Takes(c, "set")
  /\ LET f == Head(up[c])
         new == [conn |-> c, path |-> f.path, epoch |-> f.epoch, key |-> f.key, at |-> f.at]
         others == {e \in carets : e.conn # c /\ SameNote(e, f)}
         replaced == {e \in carets : e.conn = c /\ SameNote(e, f)}
         may == /\ conn[c].member /\ conn[c].dev \in readers
                /\ note.live /\ f.path = note.path /\ f.epoch = note.epoch
                /\ \A e \in others : e.key # f.key
     IN IF may
          THEN /\ carets' = (carets \ replaced) \cup {new}
               /\ down' = FanOut(Retracted(Answer(c, f, others), {e \in replaced : e.key # f.key}), new)
          ELSE /\ down' = To(down, c, Rejected(f.path)) /\ UNCHANGED carets
  /\ NoEvent
  /\ UNCHANGED conn

TakeSet(c) ==
  /\ Takes(c, "set") /\ Head(up[c]).at # None
  /\ LET f == Head(up[c])
         new == [conn |-> c, path |-> f.path, epoch |-> f.epoch, key |-> f.key, at |-> f.at]
         others == {e \in carets : e.conn # c /\ SameNote(e, f)}
         replaced == {e \in carets : e.conn = c /\ SameNote(e, f)}
         may == /\ conn[c].member /\ conn[c].dev \in readers
                /\ note.live /\ f.path = note.path /\ f.epoch = note.epoch
                /\ \A e \in others : e.key # f.key
     IN IF may
          THEN /\ carets' = (carets \ replaced) \cup {new}
               /\ down' = FanOut(Retracted(Answer(c, f, others), {e \in replaced : e.key # f.key}), new)
          ELSE /\ down' = To(down, c, Rejected(f.path)) /\ UNCHANGED carets
  /\ NoEvent
  /\ UNCHANGED conn

-----------------------------------------------------------------------------
(* What else happens to the note, its readers and the connections. *)

Broadcast(q, frame) == [c \in Conns |-> IF Hears(c) THEN Append(q[c], frame) ELSE q[c]]

Rename(p) ==
  /\ Happens /\ note.live /\ p # note.path
  /\ note' = [note EXCEPT !.path = p]
  /\ LET E == {e \in carets : e.path = note.path /\ e.epoch = note.epoch}
     IN /\ carets' = carets \ E
        /\ down' = Broadcast(Retracted(down, E), [m |-> "renamed", old |-> note.path, path |-> p])
  /\ UNCHANGED <<deleting, readers, conn, up, link, session, docs, missed, moves>>

\* A deletion commits; its blobs are collected before its carets go.
DeleteCommits ==
  /\ Happens /\ note.live
  /\ note' = [note EXCEPT !.live = FALSE, !.epoch = @ + 1]
  /\ deleting' = deleting \cup {[path |-> note.path, epoch |-> note.epoch]}
  /\ UNCHANGED <<readers, conn, carets, up, down, link, session, docs, missed, moves>>

\* Mutant: the epoch is read after the deletion bumped it.
DeleteSettlesMutEpoch(n) ==
  /\ n \in deleting
  /\ deleting' = deleting \ {n}
  /\ LET E == {e \in carets : SameNote(e, note)}
     IN /\ carets' = carets \ E
        /\ down' = Broadcast(Retracted(down, E), [m |-> "gone", path |-> n.path])
  /\ UNCHANGED <<note, readers, conn, up, link, session, docs, missed, events, moves>>

DeleteSettles(n) ==
  /\ n \in deleting
  /\ deleting' = deleting \ {n}
  /\ LET E == {e \in carets : SameNote(e, n)}
     IN /\ carets' = carets \ E
        /\ down' = Broadcast(Retracted(down, E), [m |-> "gone", path |-> n.path])
  /\ UNCHANGED <<note, readers, conn, up, link, session, docs, missed, events, moves>>

Recreate ==
  /\ ~note.live
  /\ note' = [note EXCEPT !.live = TRUE]
  /\ UNCHANGED <<deleting, readers, conn, carets, up, down, link, session, docs, missed, events, moves>>

\* Reading is withdrawn from a device's user, and given back: the sweep drops what
\* is no longer allowed and tells its owner.
Deny(d) ==
  /\ Happens /\ d \in readers
  /\ readers' = readers \ {d}
  /\ LET E == {e \in carets : conn[e.conn].dev = d}
         told == [c \in Conns |-> IF \E e \in E : e.conn = c /\ Attached(c)
                    THEN down[c] \o SetToSeq({Rejected(e.path) : e \in {e \in E : e.conn = c}})
                    ELSE down[c]]
     IN /\ carets' = carets \ E
        /\ down' = [c \in Conns |-> IF Hears(c) /\ conn[c].dev # d
                      THEN told[c] \o SetToSeq({Peer(e, None) : e \in E}) ELSE told[c]]
  /\ UNCHANGED <<note, deleting, conn, up, link, session, docs, missed, moves>>

Grant(d) ==
  /\ d \notin readers
  /\ readers' = readers \cup {d}
  /\ UNCHANGED <<note, deleting, conn, carets, up, down, link, session, docs, missed, events, moves>>

Connect(d, c) ==
  /\ link[d] = None /\ conn[c].dev = None
  /\ \A b \in Conns : conn[b].dev = None => b >= c
  /\ link' = [link EXCEPT ![d] = c]
  /\ conn' = [conn EXCEPT ![c] = [dev |-> d, open |-> TRUE, member |-> FALSE]]
  /\ up' = [up EXCEPT ![c] = <<[m |-> "join"]>> \o
              (IF session[d] = None THEN <<>> ELSE <<Step1(session[d])>>)]
  /\ UNCHANGED <<note, deleting, readers, carets, down, session, docs, missed, events, moves>>

\* The device notices that its connection is gone; the relay notices by itself.
Drop(d) ==
  /\ Happens /\ link[d] # None
  /\ down' = [down EXCEPT ![link[d]] = <<>>]
  /\ link' = [link EXCEPT ![d] = None]
  /\ session' = IF session[d] = None THEN session
                ELSE [session EXCEPT ![d] = [Silenced(@) EXCEPT !.timer = FALSE]]
  /\ UNCHANGED <<note, deleting, readers, conn, carets, up, docs, missed, moves>>

\* Frames that wait for the database queue are still read after the close.
RelayCloses(c) ==
  /\ conn[c].open /\ ~Attached(c)
  /\ conn' = [conn EXCEPT ![c].open = FALSE]
  /\ up' = IF DbQueue THEN up ELSE [up EXCEPT ![c] = <<>>]
  /\ LET E == {e \in carets : e.conn = c}
     IN carets' = carets \ E /\ down' = Retracted(down, E)
  /\ UNCHANGED <<note, deleting, readers, link, session, docs, missed, events, moves>>

Next ==
  \/ \E d \in Devices :
       \/ OpenSession(d) \/ TimerFires(d) \/ Reconciled(d)
       \/ \E at \in Positions \cup {None} : MoveCaret(d, at) \/ DetachView(d, at)
       \/ ReadStep2(d) \/ ReadSnapshot(d) \/ ReadPeer(d) \/ ReadRejected(d)
       \/ ReadRenamed(d) \/ ReadGone(d)
       \/ Deny(d) \/ Grant(d) \/ Drop(d)
       \/ \E c \in Conns : Connect(d, c)
  \/ \E c \in Conns :
       \/ TakeJoin(c) \/ TakeStep1(c) \/ TakeRemoval(c) \/ TakeThrottled(c) \/ TakeSet(c)
       \/ RelayCloses(c)
  \/ \E p \in Paths : Rename(p)
  \/ DeleteCommits \/ Recreate
  \/ \E n \in deleting : DeleteSettles(n)

Spec == Init /\ [][Next]_vars

-----------------------------------------------------------------------------
(* The types of the variables. *)
TypeOK ==
  /\ note \in [path: Paths, epoch: 1..MaxEvents + 1, live: BOOLEAN]
  /\ carets \subseteq Caret
  /\ link \in [Devices -> Conns \cup {None}] /\ docs \in 0..MaxDocs
  /\ \A d \in Devices : session[d] # None => /\ session[d].sel \in Positions \cup {None}
                                            /\ session[d].sent \in Positions \cup {None}

\* Every caret the relay shows is that of an open connection that listens to the
\* room, of a user who may read the note, in the note as it is now: renames,
\* deletions, withdrawn access and lost connections each took theirs along.  (The
\* carets of a deleted note go once its blobs are collected.)
CaretsAreCurrent ==
  \A e \in carets :
    /\ conn[e.conn].open /\ conn[e.conn].member /\ conn[e.conn].dev \in readers
    /\ \/ note.live /\ e.path = note.path /\ e.epoch = note.epoch
       \/ [path |-> e.path, epoch |-> e.epoch] \in deleting

\* Nothing is in flight and nobody waits.
Quiet ==
  /\ deleting = {} /\ \A c \in Conns : up[c] = <<>> /\ down[c] = <<>> /\ (conn[c].open => Attached(c))
  /\ \A d \in Devices : session[d] # None => ~session[d].timer /\ ~session[d].busy

\* When all is quiet, a device that has announced its caret is shown where it is,
\* and shows exactly the carets of the others.
CaretsAgree ==
  Quiet => \A c \in Conns :
    LET d == conn[c].dev IN
    (Attached(c) /\ c \notin missed /\ session[d] # None /\ session[d].sent # None) =>
      LET s == session[d] IN
      /\ {[key |-> e.key, at |-> e.at] : e \in {e \in carets : e.conn = c}}
           = {[key |-> s.key, at |-> s.sent]}
      /\ s.remote = {[key |-> e.key, at |-> e.at] : e \in {e \in carets : e.conn # c}}

\* The close of a connection takes its carets along for good: "Forced-close paths
\* rely on this canonical cleanup hook."
ClosedShowNothing == \A e \in carets : conn[e.conn].open
=============================================================================
