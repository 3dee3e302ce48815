------------------------------- MODULE SyncLane -------------------------------
(***************************************************************************)
(* One device that syncs one file as a whole (syncClient.ts,               *)
(* pushCoordinator.ts, syncWsClient.ts), and the relay.  Two chains run    *)
(* side by side on the device, each one handler at a time: pushes of the   *)
(* user's work, and what the relay announces.  Of the other devices only   *)
(* what the relay accepts from them is seen.                               *)
(*                                                                         *)
(* Texts are numbered as they are written; a hash stands for its text.  The*)
(* settings are saved with every change of an entry, so `track` survives   *)
(* restarts.                                                               *)
(***************************************************************************)
EXTENDS Naturals, Sequences, SequencesExt

CONSTANTS
    None,        \* no text, no entry, no timer
    MaxText,     \* bound: texts written
    MaxVersion,  \* bound: versions, the last one left to the device
    MaxQueue,    \* bound: pushes that wait, messages that wait
    Overlaps     \* bound: chains of the device the user may save in the middle of

ASSUME SyncLaneAssumption ==
    /\ MaxText \in Nat \ {0} /\ MaxVersion \in Nat \ {0} /\ MaxQueue \in Nat
    /\ Overlaps \subseteq {"push", "apply"}

VARIABLES
    relay,   \* the file at the relay
    disk,    \* the text in the vault
    copies,  \* texts in conflict copies
    track,   \* the entry in room.files
    timer,   \* what the debounce timer will push
    pushes,  \* the pushes that wait in pushChains
    push,    \* the push under way, at its await
    events,  \* the vault event of the device's own write, to be delivered
    online,  \* the socket: off, connected, subscribed
    inbox,   \* messages of the relay, to be handled
    apply,   \* the message under way, at its await
    calm,    \* nothing fails any more
    written, \* history: texts written so far
    taken    \* history: texts the relay has accepted

local == <<disk, copies, track>>
pushing == <<timer, pushes, push>>
remote == <<online, inbox, apply>>
history == <<written, taken>>
vars == <<relay, local, pushing, events, remote, calm, history>>

Texts == 1 .. MaxText
MaybeText == Texts \cup {None}
Versions == 0 .. MaxVersion

Entry == [version : Versions, text : MaybeText, dirty : BOOLEAN, deleted : BOOLEAN]
Push == [step : {"idle", "read", "sent", "accepted", "conflict", "overwrite", "note",
                 "deleting", "deleted"},
         text : MaybeText, version : Versions, theirs : MaybeText]
Message == [kind : {"change", "snapshot"}, version : Versions, text : MaybeText]
Apply == [step : {"idle", "fetch", "fetched", "write", "note"}, kind : {"change", "snapshot"},
          version : Versions, text : MaybeText]

ASSUME NoneIsApart == None \notin Texts \cup Entry \cup {"change", "delete"}

TypeOK ==
    /\ relay \in [version : Versions, text : MaybeText]
    /\ disk \in MaybeText /\ copies \subseteq Texts
    /\ track \in Entry \cup {None}
    /\ timer \in {"change", "delete", None}
    /\ pushes \in Seq({"change", "delete"}) /\ Len(pushes) <= MaxQueue
    /\ push \in Push
    /\ events \in {"change", "delete", None}
    /\ online \in {"off", "connected", "subscribed"}
    /\ inbox \in Seq(Message) /\ Len(inbox) <= MaxQueue
    /\ apply \in Apply
    /\ calm \in BOOLEAN
    /\ written \in 0 .. MaxText /\ taken \subseteq Texts

-----------------------------------------------------------------------------
NoPush == [step |-> "idle", text |-> None, version |-> 0, theirs |-> None]
NoApply == [step |-> "idle", kind |-> "change", version |-> 0, text |-> None]

\* Mutant: the entry runs a version ahead.
CleanAhead(v, t) == [version |-> v + 1, text |-> t, dirty |-> FALSE, deleted |-> FALSE]

Clean(v, t) == [version |-> v, text |-> t, dirty |-> FALSE, deleted |-> FALSE]

\* serverSha256 is not null: the entry is based on a file at the relay.
Synced == track # None /\ track.text # None

\* Mutant: an entry is marked when its timer fires, not at once.
LocalEditLate ==
    /\ track' = IF track = None THEN [Clean(0, None) EXCEPT !.dirty = TRUE] ELSE track
    /\ timer' = "change"

\* handleLocalEdit.
LocalEdit ==
    /\ track' = IF track = None THEN [Clean(0, None) EXCEPT !.dirty = TRUE]
                ELSE [track EXCEPT !.dirty = TRUE, !.deleted = FALSE]
    /\ timer' = "change"

\* handleLocalDelete: what the relay never had is forgotten.
LocalDelete ==
    IF Synced THEN track' = [track EXCEPT !.deleted = TRUE] /\ timer' = "delete"
    ELSE track' = None /\ timer' = None

\* Mutant: nothing is pushed again.
NoRetry(e) == UNCHANGED pushes

\* retryPending, for the entry e.
Retry(e) ==
    LET more == IF e = None THEN <<>>
                ELSE IF e.deleted THEN <<"delete">> ELSE IF e.dirty THEN <<"change">> ELSE <<>>
    IN  Len(pushes \o more) <= MaxQueue /\ pushes' = pushes \o more

\* The other device's write or deletion is announced to a subscribed device.
Announce(t) ==
    IF online = "subscribed"
    THEN /\ Len(inbox) < MaxQueue
         /\ inbox' = Append(inbox, [kind |-> "change", version |-> relay.version + 1, text |-> t])
    ELSE UNCHANGED inbox

-----------------------------------------------------------------------------
(* The user, and the others.                                               *)

\* The others, and deletions, leave room for what the device still pushes.
RoomLeft == relay.version + 1 < MaxVersion

NewText(t) == t = written + 1 /\ written' = t

\* Events come in order: the watcher hears of a save after what came before it.
MayEdit ==
    /\ events = None
    /\ (push = NoPush /\ pushes = <<>>) \/ "push" \in Overlaps
    /\ apply.step \in {"idle", "fetch", "fetched"} \/ "apply" \in Overlaps

\* The user saves a new text; the watcher notices.
Edit ==
    /\ MayEdit
    /\ \E t \in Texts : NewText(t) /\ disk' = t
    /\ LocalEdit
    /\ UNCHANGED <<relay, copies, pushes, push, events, remote, calm, taken>>

\* The user deletes the file.
Delete ==
    /\ MayEdit /\ RoomLeft
    /\ disk # None /\ disk' = None
    /\ LocalDelete
    /\ UNCHANGED <<relay, copies, pushes, push, events, remote, calm, history>>

\* Another device writes a text based on the current version.
OthersWrite ==
    /\ RoomLeft
    /\ \E t \in Texts :
          /\ NewText(t)
          /\ relay' = [version |-> relay.version + 1, text |-> t]
          /\ taken' = taken \cup {t}
          /\ Announce(t)
    /\ UNCHANGED <<local, pushing, events, online, apply, calm>>

\* Another device deletes the file.
OthersDelete ==
    /\ RoomLeft
    /\ relay.text # None
    /\ relay' = [version |-> relay.version + 1, text |-> None]
    /\ Announce(None)
    /\ UNCHANGED <<local, pushing, events, online, apply, calm, history>>

\* The watcher hears of a write of the device's own.
Echo ==
    /\ events # None /\ events' = None
    /\ IF events = "change" THEN LocalEdit ELSE LocalDelete
    /\ UNCHANGED <<relay, disk, copies, pushes, push, remote, calm, history>>

-----------------------------------------------------------------------------
(* Pushes: pushLocalChange and pushLocalDelete, await by await.            *)

TimerFires ==
    /\ timer # None /\ timer' = None
    /\ Len(pushes) < MaxQueue /\ pushes' = Append(pushes, timer)
    /\ UNCHANGED <<relay, local, push, events, remote, calm, history>>

PushIdle == push = NoPush /\ pushes # <<>> /\ pushes' = Tail(pushes)

\* A change: the file may be gone, or is read, and the entry with it.
StartChange ==
    /\ PushIdle /\ Head(pushes) = "change"
    /\ push' = IF disk = None THEN NoPush
               ELSE [step |-> "read", text |-> disk,
                     version |-> IF Synced THEN track.version ELSE 0,
                     theirs |-> IF Synced THEN track.text ELSE None]
    /\ UNCHANGED <<relay, local, timer, events, remote, calm, history>>

\* A deletion: the entry may be gone, or the file is back.
StartDelete ==
    /\ PushIdle /\ Head(pushes) = "delete"
    /\ CASE ~ Synced -> track' = None /\ UNCHANGED push
         [] Synced /\ disk # None -> track' = [track EXCEPT !.deleted = FALSE] /\ UNCHANGED push
         [] OTHER -> /\ push' = [NoPush EXCEPT !.step = "deleting", !.version = track.version]
                     /\ UNCHANGED track
    /\ UNCHANGED <<relay, disk, copies, timer, events, remote, calm, history>>

\* What was read is the relay's already, or is sent with the version it is
\* based on.
Compare ==
    /\ push.step = "read"
    /\ IF push.theirs = push.text
       THEN track' = Clean(push.version, push.text) /\ push' = NoPush
       ELSE push' = [push EXCEPT !.step = "sent", !.theirs = None] /\ UNCHANGED track
    /\ UNCHANGED <<relay, disk, copies, timer, pushes, events, remote, calm, history>>

\* A write with base version v is taken: 0 creates.
Takes(v) == IF v = 0 THEN relay.text = None ELSE relay.text # None /\ v = relay.version

\* The relay's writeFile: takes it, sends back its own text, or refuses.
RelayWrites ==
    /\ push.step = "sent"
    /\ IF Takes(push.version)
       THEN /\ relay.version < MaxVersion
            /\ relay' = [version |-> relay.version + 1, text |-> push.text]
            /\ taken' = taken \cup {push.text}
            /\ push' = [push EXCEPT !.step = "accepted", !.version = relay.version + 1]
       ELSE /\ push' = IF push.version # 0 /\ relay.text # None
                       THEN [push EXCEPT !.step = "conflict", !.version = relay.version,
                                         !.theirs = relay.text]
                       ELSE NoPush
            /\ UNCHANGED <<relay, taken>>
    /\ UNCHANGED <<local, timer, pushes, events, remote, calm, written>>

\* The relay's deleteFile.
RelayDeletes ==
    /\ push.step = "deleting"
    /\ IF push.version = relay.version
       THEN /\ relay.version < MaxVersion
            /\ relay' = [version |-> relay.version + 1, text |-> None]
            /\ push' = [push EXCEPT !.step = "deleted"]
       ELSE push' = NoPush /\ UNCHANGED relay
    /\ UNCHANGED <<local, timer, pushes, events, remote, calm, history>>

\* The request succeeded.
AnswerArrives ==
    /\ push.step \in {"accepted", "deleted"}
    /\ track' = IF push.step = "accepted" THEN Clean(push.version, push.text) ELSE None
    /\ push' = NoPush
    /\ UNCHANGED <<relay, disk, copies, timer, pushes, events, remote, calm, history>>

\* Mutant: nothing is copied.
CopiesLoser == UNCHANGED copies

\* What was pushed is kept in a conflict copy.
KeepsLoser == copies' = copies \cup {push.text}

\* The write lost: the text is copied,
ConflictArrives ==
    /\ push.step = "conflict"
    /\ KeepsLoser
    /\ push' = [push EXCEPT !.step = "overwrite"]
    /\ UNCHANGED <<relay, disk, track, timer, pushes, events, remote, calm, history>>

\* the file becomes the relay's,
Overwrite ==
    /\ push.step = "overwrite"
    /\ events = None
    /\ disk' = push.theirs /\ events' = "change"
    /\ push' = [push EXCEPT !.step = "note"]
    /\ UNCHANGED <<relay, copies, track, timer, pushes, remote, calm, history>>

\* and the entry follows.
NoteConflict ==
    /\ push.step = "note"
    /\ track' = Clean(push.version, push.theirs)
    /\ push' = NoPush
    /\ UNCHANGED <<relay, disk, copies, timer, pushes, events, remote, calm, history>>

\* A request, or its answer, is lost.
PushFails ==
    /\ ~ calm
    /\ push.step \in {"sent", "deleting", "accepted", "conflict", "deleted"}
    /\ push' = NoPush
    /\ UNCHANGED <<relay, local, timer, pushes, events, remote, calm, history>>

-----------------------------------------------------------------------------
(* The socket, and what the relay announces.                               *)

\* hello_ok: what is pending is pushed, the room is asked for.
Connect ==
    /\ online = "off" /\ online' = "connected"
    /\ Retry(track)
    /\ UNCHANGED <<relay, local, timer, push, events, inbox, apply, calm, history>>

\* The relay has subscribed the device and answers with the room's files.
Subscribe ==
    /\ online = "connected" /\ online' = "subscribed"
    /\ Len(inbox) < MaxQueue
    /\ inbox' = Append(inbox, [kind |-> "snapshot", version |-> relay.version, text |-> relay.text])
    /\ UNCHANGED <<relay, local, pushing, events, apply, calm, history>>

\* Messages that had arrived are handled still.
Disconnect ==
    /\ ~ calm
    /\ online # "off" /\ online' = "off"
    /\ \E n \in 0 .. Len(inbox) : inbox' = SubSeq(inbox, 1, n)
    /\ UNCHANGED <<relay, local, pushing, events, apply, calm, history>>

\* Obsidian is closed and opened again.
Restart ==
    /\ ~ calm
    /\ timer' = None /\ pushes' = <<>> /\ push' = NoPush
    /\ events' = None /\ online' = "off" /\ inbox' = <<>> /\ apply' = NoApply
    /\ UNCHANGED <<relay, local, calm, history>>

\* The connection is about to come back for good.
BecomesCalm ==
    /\ online = "off" /\ ~ calm /\ calm' = TRUE
    /\ UNCHANGED <<relay, local, pushing, events, remote, history>>

\* Unpushed work is kept in a conflict copy.
KeepsLocal == copies' = IF track # None /\ track.dirty /\ disk # None THEN copies \cup {disk} ELSE copies

\* applyRemoteChange or applyRemoteDelete begins, unless it is old news.
Take(kind, v, t) ==
    IF track # None /\ (v < track.version \/ (kind = "change" /\ v = track.version))
    THEN /\ apply' = NoApply /\ UNCHANGED copies
         /\ IF kind = "snapshot" THEN Retry(track) ELSE UNCHANGED pushes
    ELSE /\ KeepsLocal
         /\ apply' = [step |-> "write", kind |-> kind, version |-> v, text |-> t]
         /\ UNCHANGED pushes

TakeMessage(m) == apply = NoApply /\ inbox # <<>> /\ Head(inbox) = m /\ inbox' = Tail(inbox)

HandleChange ==
    \E m \in ToSet(inbox) :
       /\ TakeMessage(m) /\ m.kind = "change"
       /\ Take("change", m.version, m.text)
       /\ UNCHANGED <<relay, disk, track, timer, push, events, online, calm, history>>

NothingPending == track = None \/ ~ (track.dirty \/ track.deleted)

\* reconcileSnapshot: pending work is left to its push.
HandleSnapshot ==
    \E m \in ToSet(inbox) :
       /\ TakeMessage(m) /\ m.kind = "snapshot"
       /\ CASE NothingPending /\ m.text = None /\ Synced -> Take("snapshot", m.version, None)
            [] /\ NothingPending /\ m.text # None
               /\ track = None \/ track.version # m.version \/ track.text # m.text
                 -> /\ apply' = [NoApply EXCEPT !.step = "fetch", !.kind = "snapshot"]
                    /\ UNCHANGED <<copies, pushes>>
            [] OTHER -> Retry(track) /\ UNCHANGED <<copies, apply>>
       /\ UNCHANGED <<relay, disk, track, timer, push, events, online, calm, history>>

\* The relay's answer to the fetch; a file deleted meanwhile is not found.
Fetch ==
    /\ apply.step = "fetch"
    /\ IF relay.text = None
       THEN apply' = NoApply /\ Retry(track)
       ELSE /\ apply' = [apply EXCEPT !.step = "fetched", !.version = relay.version,
                                      !.text = relay.text]
            /\ UNCHANGED pushes
    /\ UNCHANGED <<relay, local, timer, push, events, online, inbox, calm, history>>

FetchFails ==
    /\ ~ calm
    /\ apply.step \in {"fetch", "fetched"}
    /\ apply' = NoApply /\ Retry(track)
    /\ UNCHANGED <<relay, local, timer, push, events, online, inbox, calm, history>>

FetchArrives ==
    /\ apply.step = "fetched"
    /\ Take("snapshot", apply.version, apply.text)
    /\ UNCHANGED <<relay, disk, track, timer, push, events, online, inbox, calm, history>>

\* The vault is written,
ApplyWrites ==
    /\ apply.step = "write"
    /\ events = None
    /\ disk' = apply.text
    /\ events' = CASE apply.text # None -> "change"
                   [] apply.text = None /\ disk # None -> "delete"
                   [] OTHER -> None
    /\ apply' = [apply EXCEPT !.step = "note"]
    /\ UNCHANGED <<relay, copies, track, pushing, online, inbox, calm, history>>

\* and the entry follows; a snapshot done with, what is pending is pushed.
ApplyNotes ==
    /\ apply.step = "note"
    /\ track' = Clean(apply.version, apply.text)
    /\ apply' = NoApply
    /\ IF apply.kind = "snapshot" THEN Retry(track') ELSE UNCHANGED pushes
    /\ UNCHANGED <<relay, disk, copies, timer, push, events, online, inbox, calm, history>>

-----------------------------------------------------------------------------
\* The file was never there, or both sides have its first version.
Init ==
    /\ \/ relay = [version |-> 0, text |-> None] /\ disk = None /\ track = None
          /\ written = 1 /\ taken = {}
       \/ relay = [version |-> 1, text |-> 1] /\ disk = 1 /\ track = Clean(1, 1)
          /\ written = 1 /\ taken = {1}
    /\ copies = {}
    /\ timer = None /\ pushes = <<>> /\ push = NoPush
    /\ events = None
    /\ online = "off" /\ inbox = <<>> /\ apply = NoApply
    /\ calm = FALSE

PushChain ==
    \/ StartChange \/ StartDelete \/ Compare \/ RelayWrites \/ RelayDeletes
    \/ AnswerArrives \/ ConflictArrives \/ Overwrite \/ NoteConflict

ApplyChain ==
    \/ HandleChange \/ HandleSnapshot \/ Fetch \/ FetchArrives \/ ApplyWrites \/ ApplyNotes

Next ==
    \/ Edit \/ Delete \/ OthersWrite \/ OthersDelete
    \/ Echo \/ TimerFires \/ PushChain
    \/ Connect \/ Subscribe \/ ApplyChain
    \/ PushFails \/ FetchFails \/ Disconnect \/ Restart \/ BecomesCalm

Spec == Init /\ [][Next]_vars

\* The event loop and the relay serve each chain; one step of a chain is
\* enabled at a time.  The user, the others and failures owe nothing.
FairSpec ==
    /\ Spec
    /\ WF_vars(Echo) /\ WF_vars(TimerFires) /\ WF_vars(PushChain)
    /\ WF_vars(Connect \/ Subscribe) /\ WF_vars(ApplyChain)

-----------------------------------------------------------------------------
\* Work of the user is never overwritten by sync unless the relay has had it
\* or a conflict copy keeps it (README: "first save wins", "rather than losing
\* it").
EditsSurvive ==
    [][Edit \/ Delete \/ disk' = disk \/ disk = None \/ disk \in taken \cup copies']_vars

\* What the relay has not had is marked dirty, whatever the pushes and the
\* announcements that end meanwhile write into the entry.
EditsTracked ==
    disk # None /\ disk \notin taken => track # None /\ track.dirty

\* The entry of a file tells what is owed for it.
EntryIsExact == TypeOK /\ EditsTracked

Unsettled == disk # None /\ disk \notin taken \cup copies

\* The relay refuses what the device has: FILE_EXISTS or FILE_DELETED.
Refused == IF Synced THEN relay.text = None ELSE relay.text # None

\* Once the connection is back for good, a saved text reaches the relay or a
\* conflict copy, unless it is deleted, or refused.
EditsSettle ==
    []<>(calm => ~ Unsettled \/ Refused \/ relay.version = MaxVersion)

=============================================================================
