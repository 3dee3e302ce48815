----------------------------- MODULE NoteJournal -----------------------------
(***************************************************************************)
(* One device's journal of the notes created and renamed in a room         *)
(* (crdtOperationJournal.ts) between the vault's watcher (main.ts), the    *)
(* session manager that asks the relay (crdtSession.ts) and the whole-file *)
(* lane that takes over deletes and, once live editing is off, the rest.   *)
(*                                                                         *)
(* An operation is tried under one identifier until its answer is known;   *)
(* the relay keeps a receipt per identifier.  A document is known by the   *)
(* note it holds.  The device's requests go one after the other.           *)
(***************************************************************************)
EXTENDS Naturals, Sequences, SequencesExt, FiniteSets

CONSTANTS
  Paths, Spares,              \* names users choose, and those the relay makes up
  MaxNotes, MaxIds, MaxEvents, \* bounds: notes, operation identifiers, events (Happens)
  Foreign,                    \* a note of another device
  Push, None

VARIABLES
  disk,      \* the vault: the note at each path
  ops,       \* pendingCrdtOperations, with the note each is about
  cas,       \* what the whole-file lane still has to do at each path: push, or delete a note
  saved,     \* ops and cas as in data.json
  ids, notes, \* identifiers and notes so far
  wake,      \* a replay is scheduled
  at, cur, res, \* the replay: where it is, its operation, and the path it looks for or was told
  up,        \* connected, and the room's snapshot has been applied
  live,      \* is live editing on
  session,   \* per path: its document's session and first handshake
  docs,      \* the relay: the note whose live document each path holds
  receipts,  \* the relay: the path each identifier's operation ended at
  net,       \* the device's request or the relay's answer
  events,
  excused    \* history: notes the journal has lost sight of

vars == <<disk, ops, cas, saved, ids, notes, wake, at, cur, res, up, live, session, docs,
          receipts, net, events, excused>>
local == <<disk, ops, cas, ids, notes, wake, at, cur, res, excused>>
relay == <<docs, receipts>>

Places == Paths \cup Spares
Quiet == [state |-> "none", id |-> 0, path |-> None]
NoOp == [id |-> 0, kind |-> "create", old |-> None, path |-> None, attempted |-> FALSE,
         deleteAfterAck |-> FALSE, note |-> None]

Init ==
  /\ disk = [p \in Places |-> None] /\ ops = <<>> /\ cas = [p \in Places |-> None]
  /\ saved = [ops |-> ops, cas |-> cas]
  /\ ids = 0 /\ notes = 0 /\ wake = FALSE /\ at = "idle" /\ cur = NoOp /\ res = None
  /\ up = TRUE /\ live = TRUE
  /\ session = [p \in Places |-> "none"]
  /\ docs = [p \in Places |-> None] /\ receipts = [i \in 1..MaxIds |-> None]
  /\ net = Quiet /\ events = 0 /\ excused = {}

Happens == events < MaxEvents /\ events' = events + 1

\* The last of the operations on p that is not to be deleted.
LastAt(s, p) == {i \in DOMAIN s : /\ s[i].path = p /\ ~s[i].deleteAfterAck
                                  /\ \A j \in i+1..Len(s) : s[j].path # p \/ s[j].deleteAfterAck}
IndexOf(s, id) == {i \in DOMAIN s : s[i].id = id}
Follows(s, i, p) == {j \in i+1..Len(s) : s[j].kind = "rename" /\ s[j].old = p}
Protected(p) == \E i \in DOMAIN ops : ops[i].path = p \/ ops[i].old = p

NewOp(kind, old, p, note) ==
  [id |-> ids + 1, kind |-> kind, old |-> old, path |-> p, attempted |-> FALSE,
   deleteAfterAck |-> FALSE, note |-> note]

-----------------------------------------------------------------------------
(* The user, through the watcher. *)

Free(p) == disk[p] = None /\ cas[p] = None

\* The journal knows notes by their paths: a note n that takes a name which an operation
\* of another note still holds is mixed up with it.
Mixed(p, n) ==
  LET others == {ops[i].note : i \in {i \in DOMAIN ops : \/ ops[i].old = p
                                                         \/ ops[i].path = p /\ ~ops[i].deleteAfterAck}} \ {n}
  IN IF others = {} THEN excused ELSE excused \cup others \cup {n}

\* The lane has one order per path: an order about another note is forgotten.  And an
\* operation that is being handed to it is so with the name its note had.
Overwritten(p) ==
  IF live THEN {}
  ELSE ({cas[p]} \ {Push, None, disk[p]}) \cup (IF at \in {"idle", "next"} THEN {} ELSE {disk[p]} \cap {cur.note})

\* recordCreate: a path that an operation already names gets no second one.
Create(p) ==
  /\ notes < MaxNotes /\ ids < MaxIds /\ Free(p)
  /\ notes' = notes + 1 /\ disk' = [disk EXCEPT ![p] = notes']
  /\ IF live
       THEN /\ wake' = TRUE /\ UNCHANGED cas
            /\ IF LastAt(ops, p) = {}
                 THEN ops' = Append(ops, NewOp("create", None, p, notes')) /\ ids' = ids + 1
                 ELSE UNCHANGED <<ops, ids>>
       ELSE cas' = [cas EXCEPT ![p] = Push] /\ UNCHANGED <<ops, ids, wake>>
  /\ excused' = Mixed(p, notes')
  /\ UNCHANGED <<saved, at, cur, res, up, live, session, relay, net, events>>

\* Mutant: an operation that was tried is changed as well.
RenamedMutTried(p, q) ==
  IF LastAt(ops, p) # {}
    THEN [i \in DOMAIN ops |-> IF i \in LastAt(ops, p) THEN [ops[i] EXCEPT !.path = q] ELSE ops[i]]
    ELSE Append(ops, NewOp("rename", p, q, disk[p]))

\* recordRename: an operation that was never tried takes the new name.
Renamed(p, q) ==
  IF \E i \in LastAt(ops, p) : ~ops[i].attempted
    THEN [i \in DOMAIN ops |-> IF i \in LastAt(ops, p) THEN [ops[i] EXCEPT !.path = q] ELSE ops[i]]
    ELSE Append(ops, NewOp("rename", p, q, disk[p]))

Rename(p, q) ==
  /\ Happens /\ ids < MaxIds /\ disk[p] # None /\ Free(q)
  /\ disk' = [disk EXCEPT ![q] = disk[p], ![p] = None]
  /\ IF live
       THEN ops' = Renamed(p, q) /\ wake' = TRUE /\ UNCHANGED cas
       ELSE cas' = [cas EXCEPT ![p] = disk[p], ![q] = Push] /\ UNCHANGED <<ops, wake>>
  /\ ids' = ids + 1 /\ excused' = Mixed(q, disk[p]) \cup Overwritten(p)
  /\ UNCHANGED <<notes, saved, at, cur, res, up, live, session, relay, net>>

\* recordDelete: what was never tried goes, and with a rename the deleting goes on under the
\* name before it; what was tried is deleted when its answer is known.
ReducedOnce(r) ==
  LET last == LastAt(r.ops, r.path) IN
  IF r.handled \/ last = {} THEN r
  ELSE LET i == CHOOSE i \in last : TRUE
           o == r.ops[i] IN
    [ops |-> IF o.attempted THEN [r.ops EXCEPT ![i].deleteAfterAck = TRUE] ELSE RemoveAt(r.ops, i),
     handled |-> o.attempted \/ o.kind = "create",
     path |-> IF o.attempted \/ o.kind = "create" THEN r.path ELSE o.old]

\* Each time an operation goes or is marked, so there are no more times than operations.
Reduced(s, p) ==
  FoldLeft(LAMBDA r, o : ReducedOnce(r), [ops |-> s, handled |-> FALSE, path |-> p], s)

\* A replay goes on with the operation it has looked up, whether or not it was taken
\* back, and does not look again at what is to be deleted once it has its answer.
Overtaken(r) ==
  \/ at = "exists" /\ ~cur.attempted /\ IndexOf(ops, cur.id) # {} /\ IndexOf(r.ops, cur.id) = {}
  \/ /\ at \in {"reconciling", "ending"}
     /\ \E i \in IndexOf(r.ops, cur.id) : r.ops[i].deleteAfterAck /\ ~ops[i].deleteAfterAck

\* Going back from a name to the one before, it may come upon another note's operation.
Mistaken(r, n) ==
  {ops[i].note : i \in {i \in DOMAIN ops : ops[i].note # n /\ \A j \in DOMAIN r.ops : r.ops[j] # ops[i]}}

Delete(p) ==
  /\ Happens /\ disk[p] # None
  /\ disk' = [disk EXCEPT ![p] = None]
  /\ IF live
       THEN LET r == Reduced(ops, p) IN
            /\ ops' = r.ops /\ wake' = TRUE
            /\ cas' = IF r.handled THEN cas ELSE [cas EXCEPT ![r.path] = disk[p]]
            /\ session' = IF r.handled THEN session ELSE [session EXCEPT ![r.path] = "none"]
            /\ excused' = IF Overtaken(r) \/ Mistaken(r, disk[p]) # {}
                            THEN excused \cup {disk[p]} \cup Mistaken(r, disk[p]) ELSE excused
       ELSE /\ cas' = [cas EXCEPT ![p] = disk[p]] /\ excused' = excused \cup Overwritten(p)
            /\ UNCHANGED <<ops, wake, session>>
  /\ UNCHANGED <<ids, notes, saved, at, cur, res, up, live, relay, net>>

-----------------------------------------------------------------------------
(* The replay of the first operation. *)

\* finalIntentForHead: where the note is by now; None: it is to be deleted.
FinalPath(s, p) ==
  FoldLeft(LAMBDA q, o : IF o.kind # "rename" \/ o.old # q THEN q
                         ELSE IF o.deleteAfterAck THEN None ELSE o.path, p, s)

\* A replay starts, or goes on with the next operation.
TakeHead ==
  /\ (at = "idle" /\ wake) \/ at = "next"
  /\ wake' = (at = "next" /\ wake)
  /\ IF ops = <<>> \/ ~up
       THEN at' = "idle" /\ UNCHANGED <<cur, res>>
       ELSE /\ at' = IF live THEN "exists" ELSE "looks"
            /\ cur' = ops[1]
            /\ res' = IF ops[1].deleteAfterAck THEN None ELSE FinalPath(Tail(ops), ops[1].path)
  /\ UNCHANGED <<disk, ops, cas, saved, ids, notes, up, live, session, relay, net, events, excused>>

\* Without live editing an operation that was never tried needs no answer.
LooksFor ==
  /\ at \in {"exists", "looks"}
  /\ IF res # None /\ disk[res] = None
       THEN at' = "idle" /\ UNCHANGED <<ops, cur, res>>
       ELSE LET known == IndexOf(ops, cur.id)
                now == IF known = {} THEN cur ELSE ops[CHOOSE i \in known : TRUE] IN
            /\ cur' = IF at = "exists" THEN [now EXCEPT !.attempted = TRUE] ELSE now
            /\ ops' = [i \in DOMAIN ops |-> IF i \in known THEN cur' ELSE ops[i]]
            /\ at' = IF at = "exists" THEN "saving" ELSE IF cur'.attempted THEN "resolving" ELSE "converting"
            /\ res' = None
  /\ UNCHANGED <<disk, cas, saved, ids, notes, wake, up, live, session, relay, net, events, excused>>

SavedAsTried ==
  \/ IndexOf(ops, cur.id) = {}
  \/ \E i \in IndexOf(saved.ops, cur.id) : saved.ops[i].attempted

Send ==
  /\ (at = "saving" /\ SavedAsTried /\ live) \/ at = "resolving"
  /\ IF up
       THEN net' = [state |-> "asked", id |-> cur.id, path |-> None] /\ at' = "sent"
       ELSE at' = "idle" /\ UNCHANGED net
  /\ UNCHANGED <<disk, ops, cas, saved, ids, notes, wake, cur, res, up, live, session, relay, events, excused>>

\* Mutant: the relay looks at the room before it looks for the receipt.
RelayAnswersMutReceipt ==
  /\ net.state = "asked"
  /\ \E to \in (IF docs[cur.path] = None THEN {cur.path} ELSE {s \in Spares : docs[s] = None}) :
       CASE cur.kind = "create" ->
              /\ docs' = [docs EXCEPT ![to] = cur.note]
              /\ receipts' = [receipts EXCEPT ![cur.id] = to]
              /\ net' = [net EXCEPT !.state = "told", !.path = to]
         [] OTHER ->
              IF docs[cur.old] = None
                THEN net' = [net EXCEPT !.state = "refused"] /\ UNCHANGED <<docs, receipts>>
                ELSE /\ docs' = [docs EXCEPT ![to] = docs[cur.old], ![cur.old] = None]
                     /\ receipts' = [receipts EXCEPT ![cur.id] = to]
                     /\ net' = [net EXCEPT !.state = "told", !.path = to]
  /\ UNCHANGED <<local, saved, up, live, session, events>>

\* The relay (fileRepository.ts): a receipt is the answer; a name that is taken is not
\* given again.
RelayAnswers ==
  /\ net.state = "asked"
  /\ \/ /\ receipts[cur.id] # None
        /\ net' = [net EXCEPT !.state = "told", !.path = receipts[cur.id]]
        /\ UNCHANGED relay
     \/ /\ receipts[cur.id] = None /\ (~live \/ (cur.kind = "rename" /\ docs[cur.old] = None))
        /\ net' = [net EXCEPT !.state = "refused"] /\ UNCHANGED relay
     \/ /\ receipts[cur.id] = None /\ live /\ (cur.kind = "rename" => docs[cur.old] # None)
        /\ \E to \in (IF docs[cur.path] = None THEN {cur.path} ELSE {s \in Spares : docs[s] = None}) :
             /\ docs' = IF cur.kind = "create" THEN [docs EXCEPT ![to] = cur.note]
                        ELSE [docs EXCEPT ![to] = docs[cur.old], ![cur.old] = None]
             /\ receipts' = [receipts EXCEPT ![cur.id] = to]
             /\ net' = [net EXCEPT !.state = "told", !.path = to]
  /\ UNCHANGED <<local, saved, up, live, session, events>>

\* renameDiskFile; it does nothing if there is no such file or the name is taken.
DiskMoved(p, q) ==
  IF p = q \/ disk[p] = None \/ disk[q] # None THEN disk ELSE [disk EXCEPT ![q] = disk[p], ![p] = None]

Marked(s) == \E i \in IndexOf(s, cur.id) : s[i].deleteAfterAck
HasFollower == \E i \in IndexOf(ops, cur.id) : Follows(ops, i, cur.path) # {}

\* The session the answer leaves at the path: opened, or moved with its document.
Opened(p) == IF session[p] = "none" THEN "asked" ELSE session[p]
Sessions(p) ==
  IF cur.kind = "create" THEN [session EXCEPT ![p] = Opened(p)]
  ELSE [session EXCEPT ![cur.old] = "none",
                       ![p] = CASE session[cur.old] = "synced" -> "synced"
                                [] session[cur.old] \in {"asked", "lost"} -> "asked"
                                [] OTHER -> session[p]]

AckedLive ==
  /\ at = "sent" /\ net.state = "told" /\ live
  /\ net' = Quiet /\ res' = net.path
  /\ disk' = DiskMoved(cur.path, net.path)
  /\ at' = IF Marked(ops) THEN "deleting" ELSE IF HasFollower THEN "ending" ELSE "reconciling"
  /\ session' = IF at' = "reconciling"
                  THEN [Sessions(net.path) EXCEPT ![net.path] = IF @ = "none" THEN "asked" ELSE @]
                  ELSE Sessions(net.path)
  /\ UNCHANGED <<ops, cas, saved, ids, notes, wake, cur, up, live, relay, events, excused>>

\* The operation can be changed again, and gets a new identifier.
GivenBack ==
  /\ ids < MaxIds /\ ids' = ids + 1
  /\ ops' = [i \in DOMAIN ops |-> IF ops[i].id = cur.id
                                    THEN [ops[i] EXCEPT !.attempted = FALSE, !.id = ids'] ELSE ops[i]]

RefusedLive ==
  /\ at = "sent" /\ net.state = "refused" /\ live
  /\ net' = Quiet /\ GivenBack /\ at' = "idle"
  /\ UNCHANGED <<disk, cas, saved, notes, wake, cur, res, up, live, session, relay, events, excused>>

\* Live editing was switched off before the request: the session manager refuses it.
NotSent ==
  /\ at = "saving" /\ SavedAsTried /\ ~live /\ at' = "idle"
  /\ IF cur.kind = "rename" THEN GivenBack ELSE UNCHANGED <<ops, ids>>
  /\ UNCHANGED <<disk, cas, saved, notes, wake, cur, res, up, live, session, relay, net, events, excused>>

\* Without live editing the name may have a new note, whose order it is from now on.
Displaced(orders) ==
  IF live THEN excused
  ELSE LET changed == {p \in Places : orders[p] # cas[p]} IN
       excused \cup (UNION {{disk[p], cas[p]} : p \in changed} \ {Push, None, cur.note})

\* queueJournalResolvedDelete.
DeleteResolved ==
  /\ at = "deleting"
  /\ IF up
       THEN /\ cas' = [cas EXCEPT ![res] = cur.note] /\ session' = [session EXCEPT ![res] = "none"]
            /\ at' = "ending" /\ excused' = Displaced(cas')
       ELSE at' = "idle" /\ UNCHANGED <<cas, session, excused>>
  /\ UNCHANGED <<disk, ops, saved, ids, notes, wake, cur, res, up, live, relay, net, events>>

\* reconcilePath waits for the session's first handshake, or for its end.
Reconciled ==
  /\ at = "reconciling" /\ session[res] \in {"synced", "none"}
  /\ at' = "ending"
  /\ UNCHANGED <<disk, ops, cas, saved, ids, notes, wake, cur, res, up, live, session, relay, net,
                 events, excused>>

\* Mutant: the operations that follow keep the name that was asked for.
RebasedMutNot(s, i) == s

\* rebaseUnattemptedFollowers: the first one starts where the relay has put the note.
Rebased(s, i) ==
  LET next == {j \in Follows(s, i, cur.path) : ~s[j].attempted} IN
  IF res = cur.path \/ next = {} THEN s
  ELSE [s EXCEPT ![CHOOSE j \in next : \A k \in next : j <= k].old = res]

Ends ==
  /\ at = "ending"
  /\ ops' = IF IndexOf(ops, cur.id) = {} THEN ops
            ELSE LET i == CHOOSE i \in IndexOf(ops, cur.id) : TRUE IN RemoveAt(Rebased(ops, i), i)
  /\ at' = "next"
  /\ UNCHANGED <<disk, cas, saved, ids, notes, wake, cur, res, up, live, session, relay, net, events, excused>>

-----------------------------------------------------------------------------
(* Once live editing is off, the operations go to the whole-file lane. *)

\* The answer of an operation that was tried tells whether it was done.
AnsweredOff ==
  /\ at = "sent" /\ net.state \in {"told", "refused"} /\ ~live
  /\ net' = Quiet /\ res' = net.path /\ at' = "converting"
  /\ UNCHANGED <<disk, ops, cas, saved, ids, notes, wake, cur, up, live, session, relay, events, excused>>

\* Mutant: a rename whose note was never created stays a rename.
HandedOnMutKind(j) ==
  CASE res # None -> [ops EXCEPT ![j].old = res]
    [] OTHER -> [ops EXCEPT ![j].old = cur.old]

\* The rename that follows stands for both.
HandedOn(j) ==
  CASE res # None -> [ops EXCEPT ![j].old = res]
    [] res = None /\ cur.kind = "rename" -> [ops EXCEPT ![j].old = cur.old]
    [] OTHER -> [ops EXCEPT ![j].kind = "create", ![j].old = None]

\* convertToCas.
Converted ==
  CASE res # None -> [cas EXCEPT ![res] = IF cur.deleteAfterAck THEN cur.note ELSE Push]
    [] res = None /\ cur.kind = "create" -> IF cur.deleteAfterAck THEN cas ELSE [cas EXCEPT ![cur.path] = Push]
    [] OTHER ->
         LET gone == IF docs[cur.old] # None THEN [cas EXCEPT ![cur.old] = cur.note] ELSE cas
         IN IF cur.deleteAfterAck THEN gone ELSE [gone EXCEPT ![cur.path] = Push]

Convert ==
  /\ at = "converting" /\ ~live
  /\ LET next == Follows(ops, 1, cur.path) IN
     IF ~up \/ (next # {} /\ \E j \in next : ops[j].attempted)
       THEN at' = "idle" /\ UNCHANGED <<ops, cas, disk, excused>>
       ELSE /\ IF next # {}
                 THEN ops' = Tail(HandedOn(CHOOSE j \in next : \A k \in next : j <= k))
                      /\ UNCHANGED <<cas, disk, excused>>
                 ELSE /\ ops' = Tail(ops) /\ cas' = Converted /\ excused' = Displaced(cas')
                      /\ disk' = IF res # None THEN DiskMoved(cur.path, res) ELSE disk
            /\ at' = "next"
  /\ UNCHANGED <<saved, ids, notes, wake, cur, res, up, live, session, relay, net, events>>

-----------------------------------------------------------------------------
(* The whole-file lane, the connection, other devices, crashes. *)

CasDeletes(p) ==
  /\ up /\ cas[p] \in 1..notes /\ cas' = [cas EXCEPT ![p] = None]
  /\ docs' = [docs EXCEPT ![p] = IF @ = cas[p] THEN None ELSE @]
  /\ UNCHANGED <<disk, ops, saved, ids, notes, wake, at, cur, res, up, live, session, receipts, net,
                 events, excused>>

\* The file of a name is written over; a note that meets another device's there becomes
\* a conflict's copy, which is not followed here.
CasPushes(p) ==
  /\ up /\ cas[p] = Push /\ cas' = [cas EXCEPT ![p] = None]
  /\ IF disk[p] # None /\ docs[p] # Foreign
       THEN docs' = [docs EXCEPT ![p] = disk[p]] /\ UNCHANGED excused
       ELSE excused' = (excused \cup {disk[p]}) \ {None} /\ UNCHANGED docs
  /\ UNCHANGED <<disk, ops, saved, ids, notes, wake, at, cur, res, up, live, session, receipts, net, events>>

HandshakeAnswered(p) ==
  /\ up /\ session[p] = "asked" /\ session' = [session EXCEPT ![p] = "synced"]
  /\ UNCHANGED <<local, saved, up, live, relay, net, events>>

Save ==
  /\ saved # [ops |-> ops, cas |-> cas] /\ saved' = [ops |-> ops, cas |-> cas]
  /\ UNCHANGED <<local, up, live, session, relay, net, events>>

\* onDisconnected: the request in flight fails, its outcome unknown.
Disconnect ==
  /\ Happens /\ up /\ up' = FALSE /\ net' = Quiet
  /\ session' = [p \in Places |-> IF session[p] = "asked" THEN "lost" ELSE session[p]]
  /\ at' = IF at = "sent" THEN "idle" ELSE at
  /\ UNCHANGED <<disk, ops, cas, saved, ids, notes, wake, cur, res, live, relay, excused>>

\* onConnected, and the snapshot that makes the room ready again.
Connect ==
  /\ ~up /\ up' = TRUE /\ wake' = TRUE
  /\ session' = [p \in Places |-> IF session[p] = "lost" /\ ~Protected(p) THEN "asked" ELSE session[p]]
  /\ UNCHANGED <<disk, ops, cas, saved, ids, notes, at, cur, res, live, relay, net, events, excused>>

\* The session manager retires, for another connection: an open under way fails like a
\* refused one, whatever has become of the request.
Dispose ==
  /\ Happens /\ up /\ up' = FALSE /\ net' = Quiet
  /\ session' = [p \in Places |-> "none"]
  /\ IF at = "sent" /\ cur.kind = "create" /\ live
       THEN /\ GivenBack
            /\ excused' = IF receipts[cur.id] # None THEN excused \cup {cur.note} ELSE excused
       ELSE UNCHANGED <<ops, ids, excused>>
  /\ at' = IF at = "sent" THEN "idle" ELSE at
  /\ UNCHANGED <<disk, cas, saved, notes, wake, cur, res, live, relay>>

\* Live editing is switched off: disposeRoom, and a new snapshot.
SwitchOff ==
  /\ Happens /\ up /\ live /\ live' = FALSE
  /\ session' = [p \in Places |-> "none"] /\ net' = Quiet
  /\ IF at = "sent"
       THEN /\ GivenBack /\ at' = "idle"
            /\ excused' = IF receipts[cur.id] # None THEN excused \cup {cur.note} ELSE excused
       ELSE UNCHANGED <<ops, ids, at, excused>>
  /\ wake' = TRUE
  /\ UNCHANGED <<disk, cas, saved, notes, cur, res, up, relay>>

\* Another device takes a name while a note of that name waits here.
PeerCreates(p) ==
  /\ Happens /\ live /\ docs[p] = None /\ \E i \in DOMAIN ops : ops[i].path = p
  /\ docs' = [docs EXCEPT ![p] = Foreign]
  /\ UNCHANGED <<local, saved, up, live, session, receipts, net>>

PeerDeletes(p) ==
  /\ Happens /\ docs[p] \in 1..notes
  /\ docs' = [docs EXCEPT ![p] = None] /\ excused' = excused \cup {docs[p]}
  /\ UNCHANGED <<disk, ops, cas, saved, ids, notes, wake, at, cur, res, up, live, session, receipts, net>>

\* What was not saved is forgotten, and with it what the notes' operations stand for.
Crash ==
  /\ Happens
  /\ ops' = saved.ops /\ cas' = saved.cas
  /\ excused' = IF saved = [ops |-> ops, cas |-> cas] THEN excused ELSE 1..notes
  /\ up' = FALSE /\ net' = Quiet /\ session' = [p \in Places |-> "none"]
  /\ at' = "idle" /\ wake' = FALSE
  /\ UNCHANGED <<disk, saved, ids, notes, cur, res, live, relay>>

Users == \E p \in Paths : Create(p) \/ Delete(p) \/ \E q \in Paths \ {p} : Rename(p, q)
Replay == TakeHead \/ LooksFor \/ Send \/ NotSent \/ AckedLive \/ RefusedLive \/ DeleteResolved \/ Reconciled
          \/ Ends \/ AnsweredOff \/ Convert
Lane == \E p \in Places : CasDeletes(p) \/ CasPushes(p) \/ HandshakeAnswered(p)

Next ==
  \/ Users \/ Replay \/ RelayAnswers \/ Lane
  \/ Save \/ Disconnect \/ Connect \/ Dispose \/ SwitchOff \/ Crash
  \/ \E p \in Paths : PeerCreates(p) \/ PeerDeletes(p)

Spec == Init /\ [][Next]_vars

-----------------------------------------------------------------------------
TypeOK ==
  /\ \A p \in Places : /\ disk[p] \in 1..notes \cup {None}
                        /\ docs[p] \in 1..notes \cup {Foreign, None}
                        /\ cas[p] \in 1..notes \cup {Push, None}
                        /\ session[p] \in {"none", "asked", "lost", "synced"}
  /\ \A i \in DOMAIN ops : /\ ops[i].id \in 1..ids /\ ops[i].path \in Places /\ ops[i].note \in 1..notes
                           /\ (ops[i].kind = "rename") = (ops[i].old # None)
                           /\ \A j \in DOMAIN ops : ops[i].id = ops[j].id => i = j
  /\ at \in {"idle", "next", "exists", "looks", "saving", "resolving", "sent", "reconciling",
             "deleting", "ending", "converting"}
  /\ net.state \in {"none", "asked", "told", "refused"} /\ (net.state # "none" => at = "sent")

Settled == up /\ ops = <<>> /\ at \in {"idle", "next"} /\ \A p \in Places : cas[p] = None

\* When the journal has nothing left to do, every note of this device's is one document
\* at the relay, at the path where it is here, and what was deleted is gone.
NotesAreWhereTheyAre ==
  Settled => \A n \in 1..notes \ excused :
               {p \in Places : docs[p] = n} = {p \in Places : disk[p] = n}

\* No answer that is lost, retried or given to another name makes a note two documents.
OneDocument ==
  live => \A n \in 1..notes \ excused : Cardinality({p \in Places : docs[p] = n}) <= 1

\* What was tried under an identifier is never changed: the relay knows it by its
\* identifier, and would answer for another operation.
TriedIsFixed ==
  [][\A i \in DOMAIN ops : \A j \in IndexOf(ops', ops[i].id) :
       ops[i].attempted /\ ops'[j].attempted =>
         <<ops[i].kind, ops[i].old, ops[i].path>> = <<ops'[j].kind, ops'[j].old, ops'[j].path>>]_vars

\* "Continue reducing into the preceding operation in this lineage": a note that is
\* deleted takes no other note's operation with it.
DeletesKeepOthers ==
  [][\A p \in Paths : disk[p] # None /\ (\A q \in Places : disk'[q] # disk[p]) =>
       \A i \in DOMAIN ops : ops[i].note # disk[p] => \E j \in DOMAIN ops' : ops'[j].id = ops[i].id]_vars

=============================================================================
