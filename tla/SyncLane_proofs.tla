---------------------------- MODULE SyncLane_proofs ----------------------------
(***************************************************************************)
(* Why whole-file sync loses no edit, when none falls into the middle of   *)
(* one of its own chains (Overlaps = {}; with an overlap it may, and the   *)
(* model checker shows how).                                               *)
(***************************************************************************)
EXTENDS SyncLane, TLAPS

\* The relay has had the text.
Had(t) == t = None \/ t \in taken

\* Sync may do what it likes with what is in the vault.
Kept == Had(disk)

Deletes(s) == \E i \in DOMAIN s : s[i] = "delete"

AllHad(s) == \A i \in DOMAIN s : Had(s[i].text)

\* Whatever sync could write into the vault, the relay has had.
TextsKnown ==
    /\ Had(relay.text) /\ Had(push.theirs) /\ Had(apply.text)
    /\ track # None => Had(track.text)
    /\ AllHad(inbox)

\* A deletion is owed, and an event of the device's own is on its way, only
\* while nothing in the vault is owed.
MarksHold ==
    /\ EditsTracked
    /\ track # None /\ track.deleted => Kept
    /\ timer = "delete" \/ Deletes(pushes) \/ events # None => Kept

\* What a push read is what is in the vault, or nothing there is owed; before
\* the vault is overwritten the text is copied.
PushHolds ==
    /\ push.step \in {"read", "sent", "conflict"} =>
          push.text # None /\ (disk = push.text \/ Kept)
    /\ push.step = "overwrite" => Kept \/ disk \in copies
    /\ push.step \in {"accepted", "note", "deleting", "deleted"} => Kept
    /\ push.step = "accepted" => Had(push.text)

ApplyHolds ==
    /\ apply.step = "write" => Kept \/ disk \in copies
    /\ apply.step = "note" => Kept

IInv == TypeOK /\ TextsKnown /\ MarksHold /\ PushHolds /\ ApplyHolds

-----------------------------------------------------------------------------
(* Sequences.                                                              *)

Kinds == {"change", "delete"}

LEMMA AppendDeletes ==
    ASSUME NEW s \in Seq(Kinds), NEW x \in Kinds
    PROVE  /\ Append(s, x) \in Seq(Kinds) /\ Len(Append(s, x)) = Len(s) + 1
           /\ Deletes(Append(s, x)) => Deletes(s) \/ x = "delete"
<1> DEFINE a == Append(s, x)
<1>1. a \in Seq(Kinds) /\ Len(a) = Len(s) + 1
    OBVIOUS
<1>2. ASSUME NEW i \in DOMAIN a
      PROVE  a[i] = x \/ (i \in DOMAIN s /\ a[i] = s[i])
    BY <1>2
<1> QED BY <1>1, <1>2 DEF Deletes

LEMMA ConcatDeletes ==
    ASSUME NEW s \in Seq(Kinds), NEW m \in Seq(Kinds)
    PROVE  /\ s \o m \in Seq(Kinds)
           /\ Deletes(s \o m) => Deletes(s) \/ Deletes(m)
<1> DEFINE c == s \o m
<1>1. c \in Seq(Kinds) /\ Len(c) = Len(s) + Len(m)
    OBVIOUS
<1>2. ASSUME NEW i \in DOMAIN c
      PROVE  \/ i \in DOMAIN s /\ c[i] = s[i]
             \/ (i - Len(s)) \in DOMAIN m /\ c[i] = m[i - Len(s)]
    BY <1>2
<1> QED BY <1>1, <1>2 DEF Deletes

LEMMA TailDeletes ==
    ASSUME NEW s \in Seq(Kinds), s # <<>>
    PROVE  /\ Tail(s) \in Seq(Kinds) /\ Len(Tail(s)) <= Len(s)
           /\ Deletes(Tail(s)) => Deletes(s)
           /\ Head(s) = "delete" => Deletes(s)
<1> DEFINE q == Tail(s)
<1>1. q \in Seq(Kinds) /\ Len(q) = Len(s) - 1 /\ Len(s) \in Nat \ {0}
    OBVIOUS
<1>2. ASSUME NEW i \in DOMAIN q
      PROVE  i + 1 \in DOMAIN s /\ q[i] = s[i + 1]
    BY <1>1, <1>2
<1>3. Head(s) = s[1] /\ 1 \in DOMAIN s
    BY <1>1
<1> QED BY <1>1, <1>2, <1>3 DEF Deletes

LEMMA EmptyDeletes == <<>> \in Seq(Kinds) /\ Len(<<>>) = 0 /\ ~ Deletes(<<>>)
<1>1. <<>> \in Seq(Kinds) /\ Len(<<>>) = 0
    OBVIOUS
<1> QED BY <1>1 DEF Deletes

LEMMA OneDeletes ==
    ASSUME NEW x \in Kinds
    PROVE  <<x>> \in Seq(Kinds) /\ (Deletes(<<x>>) => x = "delete")
<1>1. <<x>> \in Seq(Kinds) /\ DOMAIN <<x>> = {1} /\ <<x>>[1] = x
    OBVIOUS
<1> QED BY <1>1 DEF Deletes

\* The inbox keeps its type, and what holds of its texts, when a message comes,
LEMMA InboxAppend ==
    ASSUME NEW s \in Seq(Message), NEW m \in Message, AllHad(s), Had(m.text)
    PROVE  /\ Append(s, m) \in Seq(Message) /\ Len(Append(s, m)) = Len(s) + 1
           /\ AllHad(Append(s, m))
<1> DEFINE a == Append(s, m)
<1>1. a \in Seq(Message) /\ Len(a) = Len(s) + 1
    OBVIOUS
<1>2. ASSUME NEW i \in DOMAIN a
      PROVE  a[i] = m \/ (i \in DOMAIN s /\ a[i] = s[i])
    BY <1>2
<1> QED BY <1>1, <1>2 DEF AllHad

\* is taken,
LEMMA InboxTail ==
    ASSUME NEW s \in Seq(Message), s # <<>>, AllHad(s)
    PROVE  /\ Tail(s) \in Seq(Message) /\ Len(Tail(s)) <= Len(s) /\ AllHad(Tail(s))
           /\ Head(s) \in Message /\ Had(Head(s).text)
<1> DEFINE q == Tail(s)
<1>1. q \in Seq(Message) /\ Len(q) = Len(s) - 1 /\ Len(s) \in Nat \ {0}
    OBVIOUS
<1>2. ASSUME NEW i \in DOMAIN q
      PROVE  i + 1 \in DOMAIN s /\ q[i] = s[i + 1]
    BY <1>1, <1>2
<1>3. Head(s) = s[1] /\ 1 \in DOMAIN s
    BY <1>1
<1>4. Head(s) \in Message
    BY <1>1
<1> QED BY <1>1, <1>2, <1>3, <1>4 DEF AllHad

\* or is lost with the socket.
LEMMA InboxPrefix ==
    ASSUME NEW s \in Seq(Message), NEW n \in 0 .. Len(s), AllHad(s)
    PROVE  /\ SubSeq(s, 1, n) \in Seq(Message) /\ Len(SubSeq(s, 1, n)) <= Len(s)
           /\ AllHad(SubSeq(s, 1, n))
<1> DEFINE q == SubSeq(s, 1, n)
<1>1. q \in Seq(Message) /\ Len(q) = n /\ n <= Len(s)
    OBVIOUS
<1>2. ASSUME NEW i \in DOMAIN q
      PROVE  i \in DOMAIN s /\ q[i] = s[i]
    BY <1>1, <1>2
<1> QED BY <1>1, <1>2 DEF AllHad

-----------------------------------------------------------------------------
(* What several steps do.                                                  *)

LEMMA CleanType ==
    ASSUME NEW v \in Versions, NEW t \in MaybeText
    PROVE  /\ Clean(v, t) \in Entry /\ Clean(v, t).text = t
           /\ ~ Clean(v, t).dirty /\ ~ Clean(v, t).deleted
BY DEF Clean, Entry

LEMMA NoneTypes ==
    /\ 0 \in Versions /\ 1 \in Versions /\ 1 \in Texts /\ None \in MaybeText
    /\ NoPush \in Push /\ NoApply \in Apply
    /\ None \notin Texts /\ None \notin Entry /\ None \notin Kinds
<1>1. 0 \in Versions /\ 1 \in Versions /\ 1 \in Texts /\ None \in MaybeText
    BY SyncLaneAssumption DEF Versions, Texts, MaybeText
<1>2. NoPush \in Push /\ NoApply \in Apply
    BY <1>1 DEF NoPush, NoApply, Push, Apply
<1> QED BY <1>1, <1>2, NoneIsApart DEF Kinds

\* The texts that wait for the device stay known, and the relay forgets none.
LEMMA InboxStays ==
    ASSUME AllHad(inbox), taken \subseteq taken', inbox' = inbox
    PROVE  AllHad(inbox)'
BY DEF AllHad, Had

\* A deletion is pushed again only if one was waiting, or is marked.
LEMMA RetryOK ==
    ASSUME TypeOK, NEW e \in Entry \cup {None}, Retry(e)
    PROVE  /\ pushes' \in Seq(Kinds) /\ Len(pushes') <= MaxQueue
           /\ Deletes(pushes') => Deletes(pushes) \/ (e # None /\ e.deleted)
<1> DEFINE more == IF e = None THEN <<>>
                   ELSE IF e.deleted THEN <<"delete">> ELSE IF e.dirty THEN <<"change">> ELSE <<>>
<1>1. pushes \in Seq(Kinds)
    BY DEF TypeOK, Kinds
<1>2. pushes' = pushes \o more /\ Len(pushes') <= MaxQueue
    BY DEF Retry
<1>3. more \in Seq(Kinds) /\ (Deletes(more) => e # None /\ e.deleted)
    <2>1. "delete" \in Kinds /\ "change" \in Kinds /\ "delete" # "change"
        BY DEF Kinds
    <2> QED BY <2>1, EmptyDeletes, OneDeletes
<1> HIDE DEF more
<1> QED BY <1>1, <1>2, <1>3, ConcatDeletes

\* The user's edit, or an event of the device's own, is marked.
LEMMA LocalEditOK ==
    ASSUME TypeOK, LocalEdit
    PROVE  /\ track' \in Entry /\ track'.dirty /\ ~ track'.deleted
           /\ track'.text = IF track = None THEN None ELSE track.text
           /\ timer' = "change"
<1>1. CASE track = None
    <2> DEFINE c == Clean(0, None)
    <2>1. c \in Entry /\ c.text = None
        BY CleanType, NoneTypes
    <2>2. track' = [c EXCEPT !.dirty = TRUE] /\ timer' = "change"
        BY <1>1 DEF LocalEdit
    <2>3. ~ c.deleted
        BY CleanType, NoneTypes
    <2> HIDE DEF c
    <2> QED BY <1>1, <2>1, <2>2, <2>3 DEF Entry
<1>2. CASE track # None
    <2>1. track \in Entry
        BY <1>2 DEF TypeOK
    <2>2. track' = [track EXCEPT !.dirty = TRUE, !.deleted = FALSE] /\ timer' = "change"
        BY <1>2 DEF LocalEdit
    <2> QED BY <1>2, <2>1, <2>2 DEF Entry
<1> QED BY <1>1, <1>2

LEMMA LocalDeleteOK ==
    ASSUME TypeOK, LocalDelete
    PROVE  /\ timer' \in {"delete", None}
           /\ track' \in Entry \cup {None}
           /\ track' # None => track # None /\ track'.text = track.text
<1>1. CASE Synced
    <2>1. track \in Entry /\ track # None
        BY <1>1 DEF TypeOK, Synced
    <2>2. track' = [track EXCEPT !.deleted = TRUE] /\ timer' = "delete"
        BY <1>1 DEF LocalDelete
    <2> QED BY <2>1, <2>2 DEF Entry
<1>2. CASE ~ Synced
    BY <1>2 DEF LocalDelete
<1> QED BY <1>1, <1>2

\* Before sync writes into the vault, what is owed there is copied.
LEMMA TakeOK ==
    ASSUME IInv, NEW kind \in {"change", "snapshot"}, NEW v \in Versions, NEW t \in MaybeText,
           Had(t), Take(kind, v, t)
    PROVE  /\ apply' \in Apply /\ Had(apply'.text) /\ apply'.step \in {"idle", "write"}
           /\ copies \subseteq copies' /\ copies' \subseteq Texts
           /\ apply'.step = "write" => Kept \/ disk \in copies'
           /\ pushes' \in Seq(Kinds) /\ Len(pushes') <= MaxQueue
           /\ Deletes(pushes') => Kept
<1>1. /\ pushes \in Seq(Kinds) /\ Len(pushes) <= MaxQueue /\ (Deletes(pushes) => Kept)
      /\ track \in Entry \cup {None} /\ copies \subseteq Texts /\ disk \in MaybeText
      /\ track # None /\ track.deleted => Kept
      /\ EditsTracked
    BY DEF IInv, TypeOK, MarksHold, Kinds
<1>2. Retry(track) => /\ pushes' \in Seq(Kinds) /\ Len(pushes') <= MaxQueue
                      /\ Deletes(pushes') => Kept
    BY <1>1, RetryOK DEF IInv
<1>3. KeepsLocal => /\ copies \subseteq copies' /\ copies' \subseteq Texts
                    /\ Kept \/ disk \in copies'
    BY <1>1, NoneTypes DEF KeepsLocal, MaybeText, EditsTracked, Kept, Had
<1>4. CASE track # None /\ (v < track.version \/ (kind = "change" /\ v = track.version))
    <2>1. apply' = NoApply /\ copies' = copies /\ (Retry(track) \/ pushes' = pushes)
        BY <1>4 DEF Take
    <2>2. NoApply.text = None /\ NoApply.step = "idle" /\ NoApply \in Apply
        BY NoneTypes DEF NoApply
    <2>3. "idle" # "write" /\ Had(None)
        BY DEF Had
    <2> QED BY <1>1, <1>2, <2>1, <2>2, <2>3
<1>5. CASE ~ (track # None /\ (v < track.version \/ (kind = "change" /\ v = track.version)))
    <2> DEFINE w == [step |-> "write", kind |-> kind, version |-> v, text |-> t]
    <2>1. apply' = w /\ KeepsLocal /\ pushes' = pushes
        BY <1>5 DEF Take
    <2>2. w \in Apply /\ w.text = t /\ w.step = "write"
        BY DEF Apply
    <2> HIDE DEF w
    <2> QED BY <1>1, <1>3, <2>1, <2>2
<1> QED BY <1>4, <1>5

-----------------------------------------------------------------------------
(* The user, and the others.                                               *)

\* A type and what it says of the parts, for the steps below.
LEMMA Types ==
    ASSUME TypeOK
    PROVE  /\ relay.version \in Versions /\ relay.text \in MaybeText
           /\ track # None => /\ track \in Entry /\ track.version \in Versions
                              /\ track.text \in MaybeText
           /\ push.version \in Versions /\ push.text \in MaybeText
           /\ push.theirs \in MaybeText
           /\ apply.version \in Versions /\ apply.text \in MaybeText
           /\ apply.kind \in {"change", "snapshot"}
           /\ pushes \in Seq(Kinds) /\ Len(pushes) <= MaxQueue
           /\ Versions \subseteq Nat /\ MaxVersion \in Nat
BY SyncLaneAssumption DEF TypeOK, Entry, Push, Apply, Kinds, Versions

\* Nothing the device does itself changes what it may overwrite.
LEMMA KeptStays ==
    ASSUME disk' = disk, taken \subseteq taken'
    PROVE  Kept => Kept'
BY DEF Kept, Had

\* An edit falls into no chain, so all it must do is to be marked.
LEMMA EditKeeps ==
    ASSUME IInv, Overlaps = {}, Edit
    PROVE  IInv'
<1>1. /\ UNCHANGED <<relay, copies, pushes, push, events, online, inbox, apply, calm, taken>>
      /\ events = None /\ push = NoPush /\ pushes = <<>>
      /\ apply.step \in {"idle", "fetch", "fetched"}
    BY DEF Edit, MayEdit, remote
<1>2. PICK t \in Texts : NewText(t) /\ disk' = t
    BY DEF Edit
<1>3. /\ track' \in Entry /\ track'.dirty /\ ~ track'.deleted
      /\ track'.text = IF track = None THEN None ELSE track.text
      /\ timer' = "change" /\ track' # None
    BY LocalEditOK, NoneTypes DEF Edit, IInv
<1>4. TypeOK'
    BY <1>1, <1>2, <1>3 DEF IInv, TypeOK, NewText, MaybeText, Texts
<1>5. TextsKnown'
    BY <1>1, <1>3, InboxStays DEF IInv, TextsKnown, Had
<1>6. MarksHold'
    BY <1>1, <1>3, EmptyDeletes DEF MarksHold, EditsTracked
<1>7. PushHolds'
    BY <1>1 DEF PushHolds, NoPush
<1>8. ApplyHolds'
    BY <1>1 DEF ApplyHolds
<1> QED BY <1>4, <1>5, <1>6, <1>7, <1>8 DEF IInv

LEMMA DeleteKeeps ==
    ASSUME IInv, Overlaps = {}, Delete
    PROVE  IInv'
<1>1. /\ UNCHANGED <<relay, copies, pushes, push, events, online, inbox, apply, calm, written, taken>>
      /\ disk' = None
    BY DEF Delete, remote, history
<1>2. /\ timer' \in {"delete", None} /\ track' \in Entry \cup {None}
      /\ track' # None => track # None /\ track'.text = track.text
    BY LocalDeleteOK DEF Delete, IInv
<1>3. Kept'
    BY <1>1 DEF Kept, Had
<1>4. TypeOK'
    BY <1>1, <1>2 DEF IInv, TypeOK, MaybeText
<1>5. TextsKnown'
    BY <1>1, <1>2, InboxStays DEF IInv, TextsKnown, Had
<1>6. MarksHold'
    BY <1>1, <1>3 DEF MarksHold, EditsTracked
<1>7. PushHolds' /\ ApplyHolds'
    BY <1>1, <1>3 DEF IInv, PushHolds, ApplyHolds, Had
<1> QED BY <1>4, <1>5, <1>6, <1>7 DEF IInv

\* What the relay accepts from others it has had, and only that is announced.
LEMMA AnnounceOK ==
    ASSUME IInv, RoomLeft, NEW t \in MaybeText, t = None \/ t \in taken',
           taken \subseteq taken', Announce(t)
    PROVE  /\ inbox' \in Seq(Message) /\ Len(inbox') <= MaxQueue
           /\ AllHad(inbox)'
<1>1. /\ inbox \in Seq(Message) /\ Len(inbox) <= MaxQueue /\ AllHad(inbox)
      /\ relay.version + 1 \in Versions
    BY Types DEF IInv, TypeOK, TextsKnown, RoomLeft, Versions
<1>2. CASE online = "subscribed"
    <2> DEFINE m == [kind |-> "change", version |-> relay.version + 1, text |-> t]
    <2>1. m \in Message /\ m.text = t
        BY <1>1 DEF Message
    <2>2. inbox' = Append(inbox, m) /\ Len(inbox) < MaxQueue
        BY <1>2 DEF Announce
    <2> HIDE DEF m
    <2> DEFINE a == Append(inbox, m)
    <2>3. a \in Seq(Message) /\ Len(a) = Len(inbox) + 1
        BY <1>1, <2>1
    <2>4. ASSUME NEW i \in DOMAIN a
          PROVE  a[i] = m \/ (i \in DOMAIN inbox /\ a[i] = inbox[i])
        BY <1>1, <2>1, <2>4
    <2> HIDE DEF a
    <2>5. inbox' = a
        BY <2>2 DEF a
    <2>6. Len(inbox') <= MaxQueue
        BY <1>1, <2>2, <2>3, <2>5, SyncLaneAssumption
    <2> QED BY <1>1, <2>1, <2>3, <2>4, <2>5, <2>6 DEF AllHad, Had
<1>3. CASE online # "subscribed"
    BY <1>1, <1>3, InboxStays DEF Announce
<1> QED BY <1>2, <1>3

LEMMA OthersWriteKeeps ==
    ASSUME IInv, OthersWrite
    PROVE  IInv'
<1>1. UNCHANGED <<disk, copies, track, timer, pushes, push, events, online, apply, calm>>
    BY DEF OthersWrite, local, pushing
<1>2. PICK t \in Texts : /\ NewText(t) /\ Announce(t)
                         /\ relay' = [version |-> relay.version + 1, text |-> t]
                         /\ taken' = taken \cup {t}
    BY DEF OthersWrite
<1>3. relay.version + 1 \in Versions /\ RoomLeft
    BY Types DEF IInv, OthersWrite, RoomLeft, Versions
<1>4. /\ inbox' \in Seq(Message) /\ Len(inbox') <= MaxQueue /\ AllHad(inbox)'
    BY <1>2, <1>3, AnnounceOK DEF MaybeText
<1>5. TypeOK'
    BY <1>1, <1>2, <1>3, <1>4 DEF IInv, TypeOK, NewText, MaybeText, Texts
<1>6. TextsKnown'
    BY <1>1, <1>2, <1>4 DEF IInv, TextsKnown, Had
<1>7. Kept => Kept'
    BY <1>1, <1>2, KeptStays
<1>8. MarksHold' /\ PushHolds' /\ ApplyHolds'
    BY <1>1, <1>2, <1>7 DEF IInv, MarksHold, PushHolds, ApplyHolds, EditsTracked, Had
<1> QED BY <1>5, <1>6, <1>8 DEF IInv

LEMMA OthersDeleteKeeps ==
    ASSUME IInv, OthersDelete
    PROVE  IInv'
<1>1. UNCHANGED <<disk, copies, track, timer, pushes, push, events, online, apply, calm, written, taken>>
    BY DEF OthersDelete, local, pushing, history
<1>2. relay' = [version |-> relay.version + 1, text |-> None] /\ RoomLeft /\ Announce(None)
    BY DEF OthersDelete
<1>3. relay.version + 1 \in Versions
    BY <1>2, Types DEF IInv, RoomLeft, Versions
<1>4. /\ inbox' \in Seq(Message) /\ Len(inbox') <= MaxQueue /\ AllHad(inbox)'
    BY <1>1, <1>2, AnnounceOK, NoneTypes
<1>5. TypeOK'
    BY <1>1, <1>2, <1>3, <1>4, NoneTypes DEF IInv, TypeOK
<1>6. TextsKnown'
    BY <1>1, <1>2, <1>4 DEF IInv, TextsKnown, Had
<1>7. Kept => Kept'
    BY <1>1, KeptStays
<1>8. MarksHold' /\ PushHolds' /\ ApplyHolds'
    BY <1>1, <1>7 DEF IInv, MarksHold, PushHolds, ApplyHolds, EditsTracked, Had
<1> QED BY <1>5, <1>6, <1>8 DEF IInv

\* The event of a write of the device's own finds nothing owed in the vault.
LEMMA EchoKeeps ==
    ASSUME IInv, Echo
    PROVE  IInv'
<1>1. /\ UNCHANGED <<relay, disk, copies, pushes, push, online, inbox, apply, calm, written, taken>>
      /\ events # None /\ events' = None /\ (LocalEdit \/ LocalDelete)
    BY DEF Echo, remote, history
<1>2. /\ timer' \in {"change", "delete", None} /\ track' \in Entry \cup {None}
      /\ track' # None => Had(track'.text)
    BY <1>1, LocalEditOK, LocalDeleteOK DEF IInv, TextsKnown, Had
<1>3. Kept /\ Kept'
    BY <1>1, KeptStays DEF IInv, MarksHold
<1>4. TypeOK'
    BY <1>1, <1>2 DEF IInv, TypeOK
<1>5. TextsKnown'
    BY <1>1, <1>2, InboxStays DEF IInv, TextsKnown, Had
<1>6. MarksHold'
    BY <1>3 DEF MarksHold, EditsTracked, Kept, Had
<1>7. PushHolds' /\ ApplyHolds'
    BY <1>1, <1>3 DEF IInv, PushHolds, ApplyHolds, Had
<1> QED BY <1>4, <1>5, <1>6, <1>7 DEF IInv

-----------------------------------------------------------------------------
(* Pushes.                                                                 *)

LEMMA TimerFiresKeeps ==
    ASSUME IInv, TimerFires
    PROVE  IInv'
<1>1. /\ UNCHANGED <<relay, disk, copies, track, push, events, online, inbox, apply, calm, written, taken>>
      /\ timer # None /\ timer' = None
      /\ Len(pushes) < MaxQueue /\ pushes' = Append(pushes, timer)
    BY DEF TimerFires, local, remote, history
<1>2. timer \in Kinds
    BY <1>1 DEF IInv, TypeOK, Kinds
<1>3. /\ pushes' \in Seq(Kinds) /\ Len(pushes') <= MaxQueue
      /\ Deletes(pushes') => Kept
    <2>1. /\ pushes' \in Seq(Kinds) /\ Len(pushes') = Len(pushes) + 1
          /\ Deletes(pushes') => Deletes(pushes) \/ timer = "delete"
        BY <1>1, <1>2, Types, AppendDeletes DEF IInv
    <2> QED BY <1>1, <2>1, Types, SyncLaneAssumption DEF IInv, MarksHold
<1>4. TypeOK'
    BY <1>1, <1>3 DEF IInv, TypeOK, Kinds
<1>5. TextsKnown'
    BY <1>1, InboxStays DEF IInv, TextsKnown, Had
<1>6. Kept => Kept'
    BY <1>1, KeptStays
<1>7. MarksHold'
    BY <1>1, <1>3, <1>6, NoneTypes DEF IInv, MarksHold, EditsTracked, Kinds
<1>8. PushHolds' /\ ApplyHolds'
    BY <1>1, <1>6 DEF IInv, PushHolds, ApplyHolds, Had
<1> QED BY <1>4, <1>5, <1>7, <1>8 DEF IInv

LEMMA StartChangeKeeps ==
    ASSUME IInv, StartChange
    PROVE  IInv'
<1>1. /\ UNCHANGED <<relay, disk, copies, track, timer, events, online, inbox, apply, calm, written, taken>>
      /\ pushes # <<>> /\ pushes' = Tail(pushes)
    BY DEF StartChange, PushIdle, local, remote, history
<1>2. /\ pushes' \in Seq(Kinds) /\ Len(pushes') <= MaxQueue
      /\ Deletes(pushes') => Kept
    BY <1>1, Types, TailDeletes, SyncLaneAssumption DEF IInv, MarksHold
<1>3. /\ push' \in Push /\ Had(push'.theirs)
      /\ push'.step \in {"idle", "read"}
      /\ push'.step = "read" => push'.text # None /\ push'.text = disk
    <2>1. CASE disk = None
        BY <2>1, NoneTypes DEF StartChange, NoPush, Had
    <2>2. CASE disk # None
        <3> DEFINE r == [step |-> "read", text |-> disk,
                         version |-> IF Synced THEN track.version ELSE 0,
                         theirs |-> IF Synced THEN track.text ELSE None]
        <3>1. push' = r
            BY <2>2 DEF StartChange
        <3>2. r \in Push
            BY Types, NoneTypes DEF IInv, TypeOK, Push, Synced
        <3>3. Had(r.theirs)
            BY DEF IInv, TextsKnown, Synced, Had
        <3> QED BY <2>2, <3>1, <3>2, <3>3
    <2> QED BY <2>1, <2>2
<1>4. TypeOK'
    BY <1>1, <1>2, <1>3 DEF IInv, TypeOK, Kinds
<1>5. TextsKnown'
    BY <1>1, <1>3, InboxStays DEF IInv, TextsKnown, Had
<1>6. Kept => Kept'
    BY <1>1, KeptStays
<1>7. MarksHold'
    BY <1>1, <1>2, <1>6 DEF IInv, MarksHold, EditsTracked
<1>8. PushHolds' /\ ApplyHolds'
    BY <1>1, <1>3, <1>6 DEF IInv, PushHolds, ApplyHolds
<1> QED BY <1>4, <1>5, <1>7, <1>8 DEF IInv

LEMMA StartDeleteKeeps ==
    ASSUME IInv, StartDelete
    PROVE  IInv'
<1>1. /\ UNCHANGED <<relay, disk, copies, timer, events, online, inbox, apply, calm, written, taken>>
      /\ pushes # <<>> /\ pushes' = Tail(pushes) /\ Head(pushes) = "delete" /\ push = NoPush
    BY DEF StartDelete, PushIdle, remote, history
<1>2. /\ pushes' \in Seq(Kinds) /\ Len(pushes') <= MaxQueue
      /\ Deletes(pushes)
    BY <1>1, Types, TailDeletes, SyncLaneAssumption DEF IInv
<1>3. Kept /\ Kept'
    BY <1>1, <1>2, KeptStays DEF IInv, MarksHold
<1>4. /\ push' \in Push /\ push'.theirs = None /\ push'.step \in {"idle", "deleting"}
      /\ track' \in Entry \cup {None}
      /\ track' # None => track # None /\ track'.text = track.text
    <2>1. NoPush \in Push /\ NoPush.theirs = None /\ NoPush.step = "idle"
        BY NoneTypes DEF NoPush
    <2>2. CASE ~ Synced
        BY <1>1, <2>1, <2>2 DEF StartDelete
    <2>3. CASE Synced /\ disk # None
        <3>1. track' = [track EXCEPT !.deleted = FALSE] /\ push' = push
            BY <2>3 DEF StartDelete
        <3>2. track \in Entry /\ track # None
            BY <2>3, Types DEF IInv, Synced
        <3> QED BY <1>1, <2>1, <3>1, <3>2 DEF Entry
    <2>4. CASE Synced /\ disk = None
        <3>1. push' = [NoPush EXCEPT !.step = "deleting", !.version = track.version] /\ track' = track
            BY <2>4 DEF StartDelete
        <3>2. track \in Entry /\ track.version \in Versions
            BY <2>4, Types DEF IInv, Synced
        <3> QED BY <2>1, <3>1, <3>2 DEF Push
    <2> QED BY <2>2, <2>3, <2>4
<1>5. TypeOK'
    BY <1>1, <1>2, <1>4 DEF IInv, TypeOK, Kinds
<1>6. TextsKnown'
    BY <1>1, <1>4, InboxStays DEF IInv, TextsKnown, Had
<1>7. MarksHold'
    BY <1>3 DEF MarksHold, EditsTracked, Kept, Had
<1>8. PushHolds' /\ ApplyHolds'
    BY <1>1, <1>3, <1>4 DEF IInv, PushHolds, ApplyHolds
<1> QED BY <1>5, <1>6, <1>7, <1>8 DEF IInv

\* The entry becomes clean only when the relay has had what is in the vault.
LEMMA CleanKeeps ==
    ASSUME IInv, NEW v \in Versions, NEW t \in MaybeText, Had(t),
           UNCHANGED <<disk, timer, events, taken>>, Deletes(pushes') => Deletes(pushes), Kept,
           track' = Clean(v, t) \/ track' = None
    PROVE  /\ track' \in Entry \cup {None} /\ (track' # None => Had(track'.text))
           /\ MarksHold'
<1>1. Kept'
    BY KeptStays
<1>2. MarksHold'
    BY <1>1, CleanType DEF MarksHold, EditsTracked, Kept, Had
<1> QED BY <1>2, CleanType DEF Had

LEMMA CompareKeeps ==
    ASSUME IInv, Compare
    PROVE  IInv'
<1>1. /\ UNCHANGED <<relay, disk, copies, timer, pushes, events, online, inbox, apply, calm, written, taken>>
      /\ push.step = "read"
    BY DEF Compare, remote, history
<1>2. Kept => Kept'
    BY <1>1, KeptStays
<1>3. /\ push \in Push /\ push.version \in Versions /\ push.text \in MaybeText
      /\ push.text # None /\ (disk = push.text \/ Kept)
    BY <1>1, Types DEF IInv, TypeOK, PushHolds
<1>4. CASE push.theirs = push.text
    <2>1. track' = Clean(push.version, push.text) /\ push' = NoPush
        BY <1>4 DEF Compare
    <2>2. Had(push.text) /\ Kept
        BY <1>3, <1>4 DEF IInv, TextsKnown, Kept
    <2>3. track' \in Entry \cup {None} /\ (track' # None => Had(track'.text)) /\ MarksHold'
        BY <1>1, <1>3, <2>1, <2>2, CleanKeeps
    <2>4. TypeOK'
        BY <1>1, <2>1, <2>3, NoneTypes DEF IInv, TypeOK
    <2>5. TextsKnown'
        BY <1>1, <2>1, <2>3, InboxStays DEF IInv, TextsKnown, Had, NoPush
    <2>6. PushHolds' /\ ApplyHolds'
        BY <1>1, <1>2, <2>1 DEF IInv, PushHolds, ApplyHolds, NoPush
    <2> QED BY <2>3, <2>4, <2>5, <2>6 DEF IInv
<1>5. CASE push.theirs # push.text
    <2>1. push' = [push EXCEPT !.step = "sent", !.theirs = None] /\ track' = track
        BY <1>5 DEF Compare
    <2>2. push' \in Push /\ push'.step = "sent" /\ push'.theirs = None /\ push'.text = push.text
        BY <1>3, <2>1, NoneTypes DEF Push
    <2>3. TypeOK'
        BY <1>1, <2>1, <2>2 DEF IInv, TypeOK
    <2>4. TextsKnown'
        BY <1>1, <2>1, <2>2, InboxStays DEF IInv, TextsKnown, Had
    <2>5. MarksHold'
        BY <1>1, <1>2, <2>1 DEF IInv, MarksHold, EditsTracked
    <2>6. PushHolds' /\ ApplyHolds'
        BY <1>1, <1>2, <1>3, <2>2 DEF IInv, PushHolds, ApplyHolds
    <2> QED BY <2>3, <2>4, <2>5, <2>6 DEF IInv
<1> QED BY <1>4, <1>5

\* A text the relay takes it has had from then on; one it refuses stays what it
\* was, and the text it sends back it has had.
LEMMA RelayWritesKeeps ==
    ASSUME IInv, RelayWrites
    PROVE  IInv'
<1>1. /\ UNCHANGED <<disk, copies, track, timer, pushes, events, online, inbox, apply, calm, written>>
      /\ push.step = "sent"
    BY DEF RelayWrites, local, remote
<1>2. /\ push \in Push /\ push.version \in Versions /\ push.text \in Texts
      /\ disk = push.text \/ Kept
      /\ relay.version \in Nat /\ relay.version \in Versions /\ relay.text \in MaybeText
    BY <1>1, Types DEF IInv, TypeOK, PushHolds, MaybeText
<1>3. taken \subseteq taken'
    BY DEF RelayWrites
<1>4. Kept => Kept'
    BY <1>1, <1>3, KeptStays
<1>5. MarksHold'
    BY <1>1, <1>3, <1>4 DEF IInv, MarksHold, EditsTracked
<1>6. ApplyHolds'
    BY <1>1, <1>4 DEF IInv, ApplyHolds
<1>7. CASE Takes(push.version)
    <2>1. /\ relay.version < MaxVersion
          /\ relay' = [version |-> relay.version + 1, text |-> push.text]
          /\ taken' = taken \cup {push.text}
          /\ push' = [push EXCEPT !.step = "accepted", !.version = relay.version + 1]
        BY <1>7 DEF RelayWrites
    <2>2. relay.version + 1 \in Versions
        BY <1>2, <2>1, SyncLaneAssumption DEF Versions
    <2>3. /\ push' \in Push /\ push'.step = "accepted" /\ push'.theirs = push.theirs
          /\ push'.text = push.text
        BY <1>2, <2>1, <2>2 DEF Push
    <2>4. Kept'
        BY <1>1, <1>2, <1>4, <2>1 DEF Kept, Had
    <2>5. TypeOK'
        BY <1>1, <1>2, <2>1, <2>2, <2>3 DEF IInv, TypeOK, MaybeText
    <2>6. TextsKnown'
        BY <1>1, <1>3, <2>1, <2>3, InboxStays DEF IInv, TextsKnown, Had
    <2>7. PushHolds'
        BY <2>1, <2>3, <2>4 DEF PushHolds, Had
    <2> QED BY <1>5, <1>6, <2>5, <2>6, <2>7 DEF IInv
<1>8. CASE ~ Takes(push.version)
    <2>1. /\ UNCHANGED <<relay, taken>>
          /\ \/ push' = NoPush
             \/ push' = [push EXCEPT !.step = "conflict", !.version = relay.version,
                                     !.theirs = relay.text]
        BY <1>8 DEF RelayWrites
    <2>2. /\ push' \in Push /\ push'.step \in {"idle", "conflict"} /\ Had(push'.theirs)
          /\ push'.step = "conflict" => push'.text = push.text
        <3>1. CASE push' = NoPush
            BY <3>1, NoneTypes DEF NoPush, Had
        <3>2. CASE push' = [push EXCEPT !.step = "conflict", !.version = relay.version,
                                        !.theirs = relay.text]
            BY <1>2, <3>2 DEF Push, IInv, TextsKnown
        <3> QED BY <2>1, <3>1, <3>2
    <2>3. TypeOK'
        BY <1>1, <2>1, <2>2 DEF IInv, TypeOK
    <2>4. TextsKnown'
        BY <1>1, <2>1, <2>2, InboxStays DEF IInv, TextsKnown, Had
    <2>5. PushHolds'
        BY <1>1, <1>2, <1>4, <2>2, NoneTypes DEF PushHolds
    <2> QED BY <1>5, <1>6, <2>3, <2>4, <2>5 DEF IInv
<1> QED BY <1>7, <1>8

LEMMA RelayDeletesKeeps ==
    ASSUME IInv, RelayDeletes
    PROVE  IInv'
<1>1. /\ UNCHANGED <<disk, copies, track, timer, pushes, events, online, inbox, apply, calm, written, taken>>
      /\ push.step = "deleting"
    BY DEF RelayDeletes, local, remote, history
<1>2. Kept /\ Kept'
    BY <1>1, KeptStays DEF IInv, PushHolds
<1>3. /\ push' \in Push /\ push'.step \in {"idle", "deleted"} /\ Had(push'.theirs)
      /\ relay' \in [version : Versions, text : MaybeText] /\ Had(relay'.text)
    <2>1. CASE push.version = relay.version
        <3>1. /\ relay.version < MaxVersion
              /\ relay' = [version |-> relay.version + 1, text |-> None]
              /\ push' = [push EXCEPT !.step = "deleted"]
            BY <2>1 DEF RelayDeletes
        <3>2. relay.version + 1 \in Versions
            BY <3>1, Types, SyncLaneAssumption DEF IInv, Versions
        <3> QED BY <3>1, <3>2, NoneTypes DEF IInv, TypeOK, Push, TextsKnown, Had
    <2>2. CASE push.version # relay.version
        BY <2>2, NoneTypes DEF RelayDeletes, NoPush, IInv, TypeOK, TextsKnown, Had
    <2> QED BY <2>1, <2>2
<1>4. TypeOK'
    BY <1>1, <1>3 DEF IInv, TypeOK
<1>5. TextsKnown'
    BY <1>1, <1>3, InboxStays DEF IInv, TextsKnown, Had
<1>6. MarksHold' /\ PushHolds' /\ ApplyHolds'
    BY <1>1, <1>2, <1>3 DEF IInv, MarksHold, EditsTracked, PushHolds, ApplyHolds
<1> QED BY <1>4, <1>5, <1>6 DEF IInv

LEMMA AnswerArrivesKeeps ==
    ASSUME IInv, AnswerArrives
    PROVE  IInv'
<1>1. /\ UNCHANGED <<relay, disk, copies, timer, pushes, events, online, inbox, apply, calm, written, taken>>
      /\ push.step \in {"accepted", "deleted"} /\ push' = NoPush
      /\ track' = IF push.step = "accepted" THEN Clean(push.version, push.text) ELSE None
    BY DEF AnswerArrives, remote, history
<1>2. Kept /\ Kept'
    BY <1>1, KeptStays DEF IInv, PushHolds
<1>3. track' \in Entry \cup {None}
    BY <1>1, CleanType, Types DEF IInv
<1>4. track' # None => Had(track'.text)
    BY <1>1, CleanType, Types DEF IInv, PushHolds
<1>5. TypeOK'
    BY <1>1, <1>3, NoneTypes DEF IInv, TypeOK
<1>6. TextsKnown'
    BY <1>1, <1>4, InboxStays DEF IInv, TextsKnown, Had, NoPush
<1>7. MarksHold'
    BY <1>2 DEF MarksHold, EditsTracked, Kept, Had
<1>8. PushHolds' /\ ApplyHolds'
    BY <1>1, <1>2 DEF IInv, PushHolds, ApplyHolds, NoPush
<1> QED BY <1>5, <1>6, <1>7, <1>8 DEF IInv

\* The text that lost is copied before anything is written over it.
LEMMA ConflictArrivesKeeps ==
    ASSUME IInv, ConflictArrives
    PROVE  IInv'
<1>1. /\ UNCHANGED <<relay, disk, track, timer, pushes, events, online, inbox, apply, calm, written, taken>>
      /\ push.step = "conflict" /\ copies' = copies \cup {push.text}
      /\ push' = [push EXCEPT !.step = "overwrite"]
    BY DEF ConflictArrives, KeepsLoser, remote, history
<1>2. /\ push \in Push /\ push.text \in Texts /\ (disk = push.text \/ Kept)
    BY <1>1, Types DEF IInv, TypeOK, PushHolds, MaybeText
<1>3. Kept => Kept'
    BY <1>1, KeptStays
<1>4. push' \in Push /\ push'.step = "overwrite" /\ push'.theirs = push.theirs
    BY <1>1, <1>2 DEF Push
<1>5. TypeOK'
    BY <1>1, <1>2, <1>4 DEF IInv, TypeOK
<1>6. TextsKnown'
    BY <1>1, <1>4, InboxStays DEF IInv, TextsKnown, Had
<1>7. MarksHold' /\ ApplyHolds'
    BY <1>1, <1>3 DEF IInv, MarksHold, EditsTracked, ApplyHolds
<1>8. PushHolds'
    BY <1>1, <1>2, <1>3, <1>4 DEF PushHolds
<1> QED BY <1>5, <1>6, <1>7, <1>8 DEF IInv

LEMMA OverwriteKeeps ==
    ASSUME IInv, Overwrite
    PROVE  IInv'
<1>1. /\ UNCHANGED <<relay, copies, track, timer, pushes, online, inbox, apply, calm, written, taken>>
      /\ push.step = "overwrite" /\ push' = [push EXCEPT !.step = "note"]
      /\ disk' = push.theirs /\ events' = "change"
    BY DEF Overwrite, remote, history
<1>2. push \in Push /\ push.theirs \in MaybeText /\ Had(push.theirs)
    BY Types DEF IInv, TypeOK, TextsKnown
<1>3. Kept'
    BY <1>1, <1>2 DEF Kept, Had
<1>4. push' \in Push /\ push'.step = "note" /\ push'.theirs = push.theirs
    BY <1>1, <1>2 DEF Push
<1>5. TypeOK'
    BY <1>1, <1>2, <1>4 DEF IInv, TypeOK
<1>6. TextsKnown'
    BY <1>1, <1>4, InboxStays DEF IInv, TextsKnown, Had
<1>7. MarksHold'
    BY <1>3 DEF MarksHold, EditsTracked, Kept, Had
<1>8. PushHolds' /\ ApplyHolds'
    BY <1>3, <1>4 DEF PushHolds, ApplyHolds
<1> QED BY <1>5, <1>6, <1>7, <1>8 DEF IInv

LEMMA NoteConflictKeeps ==
    ASSUME IInv, NoteConflict
    PROVE  IInv'
<1>1. /\ UNCHANGED <<relay, disk, copies, timer, pushes, events, online, inbox, apply, calm, written, taken>>
      /\ push.step = "note" /\ push' = NoPush
      /\ track' = Clean(push.version, push.theirs)
    BY DEF NoteConflict, remote, history
<1>2. Kept /\ Kept' /\ Had(push.theirs)
    BY <1>1, KeptStays DEF IInv, PushHolds, TextsKnown
<1>3. track' \in Entry /\ track'.text = push.theirs
    BY <1>1, CleanType, Types DEF IInv
<1>4. TypeOK'
    BY <1>1, <1>3, NoneTypes DEF IInv, TypeOK
<1>5. TextsKnown'
    BY <1>1, <1>2, <1>3, InboxStays DEF IInv, TextsKnown, Had, NoPush
<1>6. MarksHold'
    BY <1>2 DEF MarksHold, EditsTracked, Kept, Had
<1>7. PushHolds' /\ ApplyHolds'
    BY <1>1, <1>2 DEF IInv, PushHolds, ApplyHolds, NoPush
<1> QED BY <1>4, <1>5, <1>6, <1>7 DEF IInv

LEMMA PushFailsKeeps ==
    ASSUME IInv, PushFails
    PROVE  IInv'
<1>1. /\ UNCHANGED <<relay, disk, copies, track, timer, pushes, events, online, inbox, apply, calm, written, taken>>
      /\ push' = NoPush
    BY DEF PushFails, local, remote, history
<1>2. Kept => Kept'
    BY <1>1, KeptStays
<1>3. TypeOK'
    BY <1>1, NoneTypes DEF IInv, TypeOK
<1>4. TextsKnown'
    BY <1>1, InboxStays DEF IInv, TextsKnown, Had, NoPush
<1>5. MarksHold' /\ PushHolds' /\ ApplyHolds'
    BY <1>1, <1>2 DEF IInv, MarksHold, EditsTracked, PushHolds, ApplyHolds, NoPush
<1> QED BY <1>3, <1>4, <1>5 DEF IInv

-----------------------------------------------------------------------------
(* The socket.                                                             *)

\* What is pending is pushed again, a deletion only where nothing is owed.
LEMMA RetryKeeps ==
    ASSUME IInv, Retry(track)
    PROVE  /\ pushes' \in Seq(Kinds) /\ Len(pushes') <= MaxQueue
           /\ Deletes(pushes') => Kept
BY RetryOK DEF IInv, TypeOK, MarksHold

LEMMA ConnectKeeps ==
    ASSUME IInv, Connect
    PROVE  IInv'
<1>1. /\ UNCHANGED <<relay, disk, copies, track, timer, push, events, inbox, apply, calm, written, taken>>
      /\ online' = "connected" /\ Retry(track)
    BY DEF Connect, local, history
<1>2. Kept => Kept'
    BY <1>1, KeptStays
<1>3. pushes' \in Seq(Kinds) /\ Len(pushes') <= MaxQueue /\ (Deletes(pushes') => Kept)
    BY <1>1, RetryKeeps
<1>4. TypeOK'
    BY <1>1, <1>3 DEF IInv, TypeOK, Kinds
<1>5. TextsKnown'
    BY <1>1, InboxStays DEF IInv, TextsKnown, Had
<1>6. MarksHold' /\ PushHolds' /\ ApplyHolds'
    BY <1>1, <1>2, <1>3 DEF IInv, MarksHold, EditsTracked, PushHolds, ApplyHolds, Had
<1> QED BY <1>4, <1>5, <1>6 DEF IInv

LEMMA SubscribeKeeps ==
    ASSUME IInv, Subscribe
    PROVE  IInv'
<1> DEFINE m == [kind |-> "snapshot", version |-> relay.version, text |-> relay.text]
<1>1. /\ UNCHANGED <<relay, disk, copies, track, timer, pushes, push, events, apply, calm, written, taken>>
      /\ online' = "subscribed" /\ Len(inbox) < MaxQueue /\ inbox' = Append(inbox, m)
    BY DEF Subscribe, local, pushing, history
<1>2. Kept => Kept'
    BY <1>1, KeptStays
<1>3. m \in Message /\ Had(m.text)
    BY Types DEF IInv, TextsKnown, Message
<1> HIDE DEF m
<1>4. inbox' \in Seq(Message) /\ Len(inbox') <= MaxQueue /\ AllHad(inbox')
    BY <1>1, <1>3, InboxAppend, SyncLaneAssumption DEF IInv, TypeOK, TextsKnown
<1>5. TypeOK'
    BY <1>1, <1>4 DEF IInv, TypeOK
<1>6. TextsKnown'
    BY <1>1, <1>4 DEF IInv, TextsKnown, Had, AllHad
<1>7. MarksHold' /\ PushHolds' /\ ApplyHolds'
    BY <1>1, <1>2 DEF IInv, MarksHold, EditsTracked, PushHolds, ApplyHolds, Had
<1> QED BY <1>5, <1>6, <1>7 DEF IInv

LEMMA DisconnectKeeps ==
    ASSUME IInv, Disconnect
    PROVE  IInv'
<1>1. /\ UNCHANGED <<relay, disk, copies, track, timer, pushes, push, events, apply, calm, written, taken>>
      /\ online' = "off"
    BY DEF Disconnect, local, pushing, history
<1>2. PICK n \in 0 .. Len(inbox) : inbox' = SubSeq(inbox, 1, n)
    BY DEF Disconnect
<1>3. Kept => Kept'
    BY <1>1, KeptStays
<1>4. inbox' \in Seq(Message) /\ Len(inbox') <= MaxQueue /\ AllHad(inbox')
    BY <1>2, InboxPrefix, SyncLaneAssumption DEF IInv, TypeOK, TextsKnown
<1>5. TypeOK'
    BY <1>1, <1>4 DEF IInv, TypeOK
<1>6. TextsKnown'
    BY <1>1, <1>4 DEF IInv, TextsKnown, Had, AllHad
<1>7. MarksHold' /\ PushHolds' /\ ApplyHolds'
    BY <1>1, <1>3 DEF IInv, MarksHold, EditsTracked, PushHolds, ApplyHolds, Had
<1> QED BY <1>5, <1>6, <1>7 DEF IInv

\* A restart forgets what was under way: the entry still tells what is owed.
LEMMA RestartKeeps ==
    ASSUME IInv, Restart
    PROVE  IInv'
<1>1. /\ UNCHANGED <<relay, disk, copies, track, calm, written, taken>>
      /\ timer' = None /\ pushes' = <<>> /\ push' = NoPush
      /\ events' = None /\ online' = "off" /\ inbox' = <<>> /\ apply' = NoApply
    BY DEF Restart, local, history
<1>2. Kept => Kept'
    BY <1>1, KeptStays
<1>3. <<>> \in Seq(Message) /\ Len(<<>>) = 0 /\ AllHad(<<>>)
    BY DEF AllHad
<1>4. TypeOK'
    BY <1>1, <1>3, EmptyDeletes, NoneTypes, SyncLaneAssumption DEF IInv, TypeOK, Kinds
<1>5. TextsKnown'
    BY <1>1, <1>3 DEF IInv, TextsKnown, Had, AllHad, NoPush, NoApply
<1>6. MarksHold'
    BY <1>1, <1>2, EmptyDeletes, NoneTypes DEF IInv, MarksHold, EditsTracked, Kinds
<1>7. PushHolds' /\ ApplyHolds'
    BY <1>1 DEF PushHolds, ApplyHolds, NoPush, NoApply
<1> QED BY <1>4, <1>5, <1>6, <1>7 DEF IInv

LEMMA BecomesCalmKeeps ==
    ASSUME IInv, BecomesCalm
    PROVE  IInv'
<1>1. /\ UNCHANGED <<relay, disk, copies, track, timer, pushes, push, events, online, inbox, apply, written, taken>>
      /\ calm' = TRUE
    BY DEF BecomesCalm, local, pushing, remote, history
<1>2. TypeOK'
    BY <1>1 DEF IInv, TypeOK
<1>3. TextsKnown'
    BY <1>1, InboxStays DEF IInv, TextsKnown, Had
<1>4. MarksHold' /\ PushHolds' /\ ApplyHolds'
    BY <1>1, KeptStays DEF IInv, MarksHold, EditsTracked, PushHolds, ApplyHolds, Had
<1> QED BY <1>2, <1>3, <1>4 DEF IInv

-----------------------------------------------------------------------------
(* What the relay announces.                                               *)

\* What one step of the chain may change: the copies before a write, the
\* pushes, and what is under way.
ApplySteps ==
    /\ UNCHANGED <<relay, disk, track, timer, push, events, online, calm, written, taken>>
    /\ apply' \in Apply /\ Had(apply'.text) /\ apply'.step # "note"
    /\ copies \subseteq copies' /\ copies' \subseteq Texts
    /\ apply'.step = "write" => Kept \/ disk \in copies'
    /\ pushes' \in Seq(Kinds) /\ Len(pushes') <= MaxQueue
    /\ Deletes(pushes') => Kept

LEMMA ApplyStepsKeep ==
    ASSUME IInv, ApplySteps,
           inbox' \in Seq(Message) /\ Len(inbox') <= MaxQueue /\ AllHad(inbox')
    PROVE  IInv'
<1>1. Kept => Kept'
    BY KeptStays DEF ApplySteps
<1>2. TypeOK'
    BY DEF ApplySteps, IInv, TypeOK, Kinds
<1>3. TextsKnown'
    BY DEF ApplySteps, IInv, TextsKnown, Had, AllHad
<1>4. MarksHold'
    BY <1>1 DEF ApplySteps, IInv, MarksHold, EditsTracked
<1>5. PushHolds' /\ ApplyHolds'
    BY <1>1 DEF ApplySteps, IInv, PushHolds, ApplyHolds, Had
<1> QED BY <1>2, <1>3, <1>4, <1>5 DEF IInv

\* The message at the head is handled.
LEMMA TakeMessageOK ==
    ASSUME IInv, NEW m, TakeMessage(m)
    PROVE  /\ m \in Message /\ m.version \in Versions /\ m.text \in MaybeText
           /\ m.kind \in {"change", "snapshot"} /\ Had(m.text)
           /\ inbox' \in Seq(Message) /\ Len(inbox') <= MaxQueue /\ AllHad(inbox')
<1>1. inbox \in Seq(Message) /\ Len(inbox) <= MaxQueue /\ AllHad(inbox) /\ inbox # <<>>
    BY DEF IInv, TypeOK, TextsKnown, TakeMessage
<1>2. m = Head(inbox) /\ inbox' = Tail(inbox)
    BY DEF TakeMessage
<1>3. m \in Message /\ Had(m.text)
    BY <1>1, <1>2, InboxTail
<1>4. inbox' \in Seq(Message) /\ Len(inbox') <= MaxQueue /\ AllHad(inbox')
    BY <1>1, <1>2, InboxTail, SyncLaneAssumption
<1> QED BY <1>3, <1>4 DEF Message

LEMMA HandleChangeKeeps ==
    ASSUME IInv, HandleChange
    PROVE  IInv'
<1>1. PICK m \in ToSet(inbox) : TakeMessage(m) /\ Take("change", m.version, m.text)
    BY DEF HandleChange
<1>2. UNCHANGED <<relay, disk, track, timer, push, events, online, calm, written, taken>>
    BY DEF HandleChange, history
<1>3. m.version \in Versions /\ m.text \in MaybeText /\ Had(m.text)
    BY <1>1, TakeMessageOK
<1>4. ApplySteps
    BY <1>1, <1>2, <1>3, TakeOK DEF ApplySteps
<1> QED BY <1>1, <1>4, TakeMessageOK, ApplyStepsKeep

LEMMA HandleSnapshotKeeps ==
    ASSUME IInv, HandleSnapshot
    PROVE  IInv'
<1> DEFINE f == [NoApply EXCEPT !.step = "fetch", !.kind = "snapshot"]
<1>1. PICK m \in ToSet(inbox) :
          /\ TakeMessage(m)
          /\ \/ Take("snapshot", m.version, None)
             \/ apply' = f /\ UNCHANGED <<copies, pushes>>
             \/ Retry(track) /\ UNCHANGED <<copies, apply>>
    BY DEF HandleSnapshot
<1>2. UNCHANGED <<relay, disk, track, timer, push, events, online, calm, written, taken>>
    BY DEF HandleSnapshot, history
<1>3. /\ m.version \in Versions /\ apply = NoApply
      /\ inbox' \in Seq(Message) /\ Len(inbox') <= MaxQueue /\ AllHad(inbox')
    BY <1>1, TakeMessageOK DEF TakeMessage
<1>4. /\ pushes \in Seq(Kinds) /\ Len(pushes) <= MaxQueue /\ (Deletes(pushes) => Kept)
      /\ copies \subseteq Texts
    BY Types DEF IInv, TypeOK, MarksHold
<1>5. ApplySteps
    <2>1. CASE Take("snapshot", m.version, None)
        BY <1>2, <1>3, <2>1, TakeOK, NoneTypes DEF ApplySteps, Had
    <2>2. CASE apply' = f /\ UNCHANGED <<copies, pushes>>
        <3>1. f \in Apply /\ f.text = None /\ f.step = "fetch"
            BY NoneTypes DEF NoApply, Apply
        <3> HIDE DEF f
        <3> QED BY <1>2, <1>4, <2>2, <3>1 DEF ApplySteps, Had
    <2>3. CASE Retry(track) /\ UNCHANGED <<copies, apply>>
        <3>1. pushes' \in Seq(Kinds) /\ Len(pushes') <= MaxQueue /\ (Deletes(pushes') => Kept)
            BY <2>3, RetryKeeps
        <3>2. apply' \in Apply /\ apply'.text = None /\ apply'.step = "idle"
            BY <1>3, <2>3, NoneTypes DEF NoApply
        <3> QED BY <1>2, <1>4, <2>3, <3>1, <3>2 DEF ApplySteps, Had
    <2> QED BY <1>1, <2>1, <2>2, <2>3
<1> QED BY <1>3, <1>5, ApplyStepsKeep

\* The inbox is left alone by the steps of a fetch.
LEMMA InboxKeeps ==
    ASSUME IInv, inbox' = inbox
    PROVE  inbox' \in Seq(Message) /\ Len(inbox') <= MaxQueue /\ AllHad(inbox')
BY DEF IInv, TypeOK, TextsKnown

LEMMA FetchKeeps ==
    ASSUME IInv, Fetch \/ FetchFails
    PROVE  IInv'
<1> DEFINE f == [apply EXCEPT !.step = "fetched", !.version = relay.version, !.text = relay.text]
<1>1. /\ UNCHANGED <<relay, disk, track, timer, push, events, online, calm, written, taken, copies, inbox>>
      /\ (apply' = NoApply /\ Retry(track)) \/ (apply' = f /\ UNCHANGED pushes)
    BY DEF Fetch, FetchFails, local, history
<1>2. /\ pushes \in Seq(Kinds) /\ Len(pushes) <= MaxQueue /\ (Deletes(pushes) => Kept)
      /\ copies \subseteq Texts
    BY Types DEF IInv, TypeOK, MarksHold
<1>3. f \in Apply /\ f.text = relay.text /\ f.step = "fetched" /\ Had(relay.text)
    BY Types DEF IInv, TypeOK, Apply, TextsKnown
<1>4. NoApply \in Apply /\ NoApply.text = None /\ NoApply.step = "idle" /\ Had(None)
    BY NoneTypes DEF NoApply, Had
<1> HIDE DEF f
<1>5. Retry(track) => /\ pushes' \in Seq(Kinds) /\ Len(pushes') <= MaxQueue
                      /\ Deletes(pushes') => Kept
    BY RetryKeeps
<1>6. ApplySteps
    BY <1>1, <1>2, <1>3, <1>4, <1>5 DEF ApplySteps
<1> QED BY <1>1, <1>6, InboxKeeps, ApplyStepsKeep

LEMMA FetchArrivesKeeps ==
    ASSUME IInv, FetchArrives
    PROVE  IInv'
<1>1. /\ UNCHANGED <<relay, disk, track, timer, push, events, online, calm, written, taken, inbox>>
      /\ Take("snapshot", apply.version, apply.text)
    BY DEF FetchArrives, history
<1>2. apply.version \in Versions /\ apply.text \in MaybeText /\ Had(apply.text)
    BY Types DEF IInv, TextsKnown
<1>3. ApplySteps
    BY <1>1, <1>2, TakeOK DEF ApplySteps
<1> QED BY <1>1, <1>3, InboxKeeps, ApplyStepsKeep

LEMMA ApplyWritesKeeps ==
    ASSUME IInv, ApplyWrites
    PROVE  IInv'
<1>1. /\ UNCHANGED <<relay, copies, track, timer, pushes, push, online, inbox, calm, written, taken>>
      /\ disk' = apply.text /\ events' \in {"change", "delete", None}
      /\ apply' = [apply EXCEPT !.step = "note"]
    BY DEF ApplyWrites, pushing, history
<1>2. apply \in Apply /\ apply.text \in MaybeText /\ Had(apply.text)
    BY Types DEF IInv, TypeOK, TextsKnown
<1>3. Kept'
    BY <1>1, <1>2 DEF Kept, Had
<1>4. apply' \in Apply /\ apply'.step = "note" /\ apply'.text = apply.text
    BY <1>1, <1>2 DEF Apply
<1>5. TypeOK'
    BY <1>1, <1>2, <1>4 DEF IInv, TypeOK
<1>6. TextsKnown'
    BY <1>1, <1>4, InboxStays DEF IInv, TextsKnown, Had
<1>7. MarksHold'
    BY <1>3 DEF MarksHold, EditsTracked, Kept, Had
<1>8. PushHolds' /\ ApplyHolds'
    BY <1>1, <1>3 DEF IInv, PushHolds, ApplyHolds, Had
<1> QED BY <1>5, <1>6, <1>7, <1>8 DEF IInv

LEMMA ApplyNotesKeeps ==
    ASSUME IInv, ApplyNotes
    PROVE  IInv'
<1>1. /\ UNCHANGED <<relay, disk, copies, timer, push, events, online, inbox, calm, written, taken>>
      /\ track' = Clean(apply.version, apply.text) /\ apply' = NoApply
      /\ apply.step = "note" /\ (Retry(track') \/ pushes' = pushes)
    BY DEF ApplyNotes, history
<1>2. Kept /\ Kept'
    BY <1>1, KeptStays DEF IInv, ApplyHolds
<1>3. track' \in Entry /\ track'.text = apply.text /\ Had(apply.text)
    BY <1>1, CleanType, Types DEF IInv, TextsKnown
<1>4. pushes' \in Seq(Kinds) /\ Len(pushes') <= MaxQueue
    BY <1>1, <1>3, RetryOK, Types DEF IInv
<1>5. TypeOK'
    BY <1>1, <1>3, <1>4, NoneTypes DEF IInv, TypeOK, Kinds
<1>6. TextsKnown'
    BY <1>1, <1>3, InboxStays DEF IInv, TextsKnown, Had, NoApply
<1>7. MarksHold'
    BY <1>2 DEF MarksHold, EditsTracked, Kept, Had
<1>8. PushHolds' /\ ApplyHolds'
    BY <1>1, <1>2 DEF IInv, PushHolds, ApplyHolds, Had, NoApply
<1> QED BY <1>5, <1>6, <1>7, <1>8 DEF IInv

-----------------------------------------------------------------------------
LEMMA InitHolds == Init => IInv
<1> SUFFICES ASSUME Init
             PROVE  IInv
    OBVIOUS
<1>1. /\ copies = {} /\ timer = None /\ pushes = <<>> /\ push = NoPush
      /\ events = None /\ online = "off" /\ inbox = <<>> /\ apply = NoApply
      /\ calm = FALSE /\ written = 1
    BY DEF Init
<1>2. <<>> \in Seq(Message) /\ Len(<<>>) = 0 /\ AllHad(<<>>)
    BY DEF AllHad
<1>3. Clean(1, 1) \in Entry /\ Clean(1, 1).text = 1 /\ ~ Clean(1, 1).deleted
    BY NoneTypes, CleanType DEF MaybeText
<1>4. /\ relay \in [version : Versions, text : MaybeText] /\ Had(relay.text)
      /\ disk \in MaybeText /\ Kept
      /\ track \in Entry \cup {None} /\ (track # None => Had(track.text))
      /\ taken \subseteq Texts
    BY <1>3, NoneTypes DEF Init, Had, Kept, MaybeText
<1>5. TypeOK
    <2>1. /\ pushes \in Seq({"change", "delete"}) /\ Len(pushes) <= MaxQueue
          /\ inbox \in Seq(Message) /\ Len(inbox) <= MaxQueue
        BY <1>1, <1>2, EmptyDeletes, SyncLaneAssumption DEF Kinds
    <2>2. written \in 0 .. MaxText
        BY <1>1, SyncLaneAssumption
    <2>3. push \in Push /\ apply \in Apply
        BY <1>1, NoneTypes
    <2> QED BY <1>1, <1>4, <2>1, <2>2, <2>3 DEF TypeOK
<1>6. TextsKnown
    BY <1>1, <1>2, <1>4 DEF TextsKnown, Had, NoPush, NoApply
<1>7. MarksHold
    BY <1>4 DEF MarksHold, EditsTracked, Kept, Had
<1>8. PushHolds /\ ApplyHolds
    BY <1>1 DEF PushHolds, ApplyHolds, NoPush, NoApply
<1> QED BY <1>5, <1>6, <1>7, <1>8 DEF IInv

LEMMA NextKeeps ==
    ASSUME IInv, Overlaps = {}, Next
    PROVE  IInv'
BY EditKeeps, DeleteKeeps, OthersWriteKeeps, OthersDeleteKeeps, EchoKeeps, TimerFiresKeeps,
   StartChangeKeeps, StartDeleteKeeps, CompareKeeps, RelayWritesKeeps, RelayDeletesKeeps,
   AnswerArrivesKeeps, ConflictArrivesKeeps, OverwriteKeeps, NoteConflictKeeps,
   ConnectKeeps, SubscribeKeeps, HandleChangeKeeps, HandleSnapshotKeeps, FetchKeeps,
   FetchArrivesKeeps, ApplyWritesKeeps, ApplyNotesKeeps,
   PushFailsKeeps, DisconnectKeeps, RestartKeeps, BecomesCalmKeeps
   DEF Next, PushChain, ApplyChain

\* Only two steps of sync write into the vault, each when what is there has been
\* had or copied.
LEMMA NextSurvives ==
    ASSUME IInv, Next
    PROVE  Edit \/ Delete \/ disk' = disk \/ disk = None \/ disk \in taken \cup copies'
<1>1. CASE Overwrite
    BY <1>1 DEF Overwrite, IInv, PushHolds, Kept, Had
<1>2. CASE ApplyWrites
    BY <1>2 DEF ApplyWrites, IInv, ApplyHolds, Kept, Had
<1>3. CASE OthersWrite \/ OthersDelete \/ Echo \/ TimerFires
    BY <1>3 DEF OthersWrite, OthersDelete, Echo, TimerFires, local
<1>4. CASE StartChange \/ StartDelete \/ Compare \/ RelayWrites \/ RelayDeletes
           \/ AnswerArrives \/ ConflictArrives \/ NoteConflict
    BY <1>4 DEF StartChange, StartDelete, Compare, RelayWrites, RelayDeletes,
       AnswerArrives, ConflictArrives, NoteConflict, local
<1>5. CASE HandleChange \/ HandleSnapshot \/ Fetch \/ FetchArrives \/ ApplyNotes
    BY <1>5 DEF HandleChange, HandleSnapshot, Fetch, FetchArrives, ApplyNotes, local
<1>6. CASE Connect \/ Subscribe \/ PushFails \/ FetchFails \/ Disconnect \/ Restart
           \/ BecomesCalm
    BY <1>6 DEF Connect, Subscribe, PushFails, FetchFails, Disconnect, Restart, BecomesCalm, local
<1> QED BY <1>1, <1>2, <1>3, <1>4, <1>5, <1>6 DEF Next, PushChain, ApplyChain

-----------------------------------------------------------------------------
\* The invariant holds as long as no edit falls into the middle of a chain.
THEOREM Invariance == ASSUME Overlaps = {} PROVE Spec => []IInv
<1>1. Init => IInv
    BY InitHolds
<1>2. IInv /\ [Next]_vars => IInv'
    <2> SUFFICES ASSUME IInv, [Next]_vars
                 PROVE  IInv'
        OBVIOUS
    <2>1. CASE Next
        BY <2>1, NextKeeps
    <2>2. CASE UNCHANGED vars
        <3>1. UNCHANGED <<relay, disk, copies, track, timer, pushes, push, events, online,
                          inbox, apply, calm, written, taken>>
            BY <2>2 DEF vars, local, pushing, remote, history
        <3>2. TypeOK'
            BY <3>1 DEF IInv, TypeOK
        <3>3. TextsKnown'
            BY <3>1, InboxStays DEF IInv, TextsKnown, Had
        <3>4. MarksHold' /\ PushHolds' /\ ApplyHolds'
            BY <3>1, KeptStays DEF IInv, MarksHold, EditsTracked, PushHolds, ApplyHolds, Had
        <3> QED BY <3>2, <3>3, <3>4 DEF IInv
    <2> QED BY <2>1, <2>2
<1> QED BY <1>1, <1>2, PTL DEF Spec

\* What the relay has not had is marked dirty in the device's settings at every
\* moment (handleLocalEdit, pushLocalChange, applyRemoteChange, retryPending): a
\* restart, a lost answer or an announcement in between takes no mark away.
THEOREM EntryStaysExact == ASSUME Overlaps = {} PROVE Spec => []EntryIsExact
<1>1. IInv => EntryIsExact
    BY DEF IInv, MarksHold, EntryIsExact
<1> QED BY <1>1, Invariance, PTL

\* Sync overwrites or deletes nothing in the vault that neither the relay nor a
\* conflict copy has (pushLocalChange's conflict, applyRemoteChange,
\* applyRemoteDelete).
THEOREM WorkSurvives == ASSUME Overlaps = {} PROVE Spec => EditsSurvive
<1>1. IInv /\ [Next]_vars =>
        [Edit \/ Delete \/ disk' = disk \/ disk = None \/ disk \in taken \cup copies']_vars
    BY NextSurvives
<1> QED BY <1>1, Invariance, PTL DEF Spec, EditsSurvive
================================================================================
