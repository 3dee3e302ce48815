-------------------------------- MODULE Hues --------------------------------
(***************************************************************************)
(* The colours of the people in one room (presenceRegistry.ts).  A hue is  *)
(* a slot of a circle, leased to a user for as long as one of the user's   *)
(* connections is in the room.  Slots are handed out at a stride from a    *)
(* random start, each probing onwards past the slots in use.               *)
(*                                                                         *)
(* On the embedded relay every frame waits for a turn of the database      *)
(* queue (startInQueueTurn), and may take effect after its socket closed.  *)
(***************************************************************************)
EXTENDS Naturals, FiniteSets

CONSTANTS
  Conns, UserOf,  \* connections, and the user each is authenticated as
  Slots, Stride,  \* slots of the circle, and how far apart people are put
  MaxOrdinal,     \* bound: people who come while one session of the room lasts
  None

VARIABLES
  embedded,    \* does a frame wait for the database queue
  sockets,     \* connections that are open
  queued,      \* connections that closed while frames of theirs waited
  subscribed,  \* connections whose subscriptions hold the room, closed ones included
  member,      \* hueRoomsByConnection: connections that hold a lease, with the user
  leases,      \* users: per user [slot, conns]
  used,        \* usedSlots
  start,       \* startSlot; None: the room has no state
  ordinal,     \* nextOrdinal
  refused      \* history: an allocation threw

vars == <<embedded, sockets, queued, subscribed, member, leases, used, start, ordinal, refused>>

Users == {UserOf[c] : c \in Conns}
Circle == 0 .. Slots - 1

\* What the code's constants satisfy.
Parameters ==
  /\ Slots \in Nat \ {0} /\ Stride \in Nat /\ MaxOrdinal \in Nat
  /\ IsFiniteSet(Conns) /\ None \notin Users /\ None \notin Circle

ASSUME HuesAssumption == Parameters

NoLease == [slot |-> None, conns |-> {}]
Live == {u \in Users : leases[u].slot # None}

Init ==
  /\ embedded \in BOOLEAN
  /\ sockets = {} /\ queued = {} /\ subscribed = {} /\ member = [c \in Conns |-> None]
  /\ leases = [u \in Users |-> NoLease] /\ used = {}
  /\ start = None /\ ordinal = 0 /\ refused = FALSE

\* Mutant: one probe too few.
AllocateMutFew(base) ==
  LET probed == {p \in 0 .. Cardinality(used) : p < Cardinality(used) /\ (base + p) % Slots \notin used}
  IN IF probed = {} THEN None
     ELSE (base + (CHOOSE p \in probed : \A q \in probed : p <= q)) % Slots

\* The first free slot from base on; None: the probes did not find one.
Allocate(base) ==
  LET probed == {p \in 0 .. Cardinality(used) : (base + p) % Slots \notin used}
  IN IF probed = {} THEN None
     ELSE (base + (CHOOSE p \in probed : \A q \in probed : p <= q)) % Slots

\* joinRoom: s is the room's start, from before or drawn now.
JoinRoom(c, s) ==
  LET u == UserOf[c]
      slot == Allocate((s + ordinal * Stride) % Slots)
  IN
  /\ s \in (IF start = None THEN Circle ELSE {start})
  /\ start' = s
  /\ CASE member[c] = u /\ leases[u].slot # None -> UNCHANGED <<member, leases, used, ordinal, refused>>
       [] ~(member[c] = u /\ leases[u].slot # None) /\ leases[u].slot # None ->
            /\ leases' = [leases EXCEPT ![u].conns = @ \cup {c}]
            /\ member' = [member EXCEPT ![c] = u]
            /\ UNCHANGED <<used, ordinal, refused>>
       [] OTHER ->
            /\ ordinal < MaxOrdinal /\ ordinal' = ordinal + 1
            /\ IF slot = None
                 THEN refused' = TRUE /\ UNCHANGED <<member, leases, used>>
                 ELSE /\ used' = used \cup {slot}
                      /\ leases' = [leases EXCEPT ![u] = [slot |-> slot, conns |-> {c}]]
                      /\ member' = [member EXCEPT ![c] = u]
                      /\ UNCHANGED refused

\* A new connection; it may have the name of one that left nothing behind.
Connect(c) ==
  /\ c \notin sockets /\ member[c] = None
  /\ sockets' = sockets \cup {c} /\ queued' = queued \ {c} /\ subscribed' = subscribed \ {c}
  /\ UNCHANGED <<embedded, member, leases, used, start, ordinal, refused>>

\* A frame of the connection is handled: nothing asks whether it is still open.
Handles(c) == c \in sockets \cup queued /\ UNCHANGED <<embedded, sockets, queued>>

Subscribe(c) ==
  /\ Handles(c) /\ subscribed' = subscribed \cup {c}
  /\ \E s \in Circle : JoinRoom(c, s)

\* An announced caret asks for its hue again.
SetCaret(c) ==
  /\ Handles(c) /\ c \in subscribed /\ UNCHANGED subscribed
  /\ \E s \in Circle : JoinRoom(c, s)

\* Mutant: the slot of the user who left is not given back.
ReleaseMutLeaks(C) ==
  LET rest == [u \in Users |-> leases[u].conns \ C]
  IN /\ leases' = [u \in Users |-> IF rest[u] = {} THEN NoLease ELSE [leases[u] EXCEPT !.conns = rest[u]]]
     /\ member' = [c \in Conns |-> IF c \in C THEN None ELSE member[c]]
     /\ IF \A u \in Users : rest[u] = {}
          THEN start' = None /\ ordinal' = 0 /\ used' = {}
          ELSE UNCHANGED <<start, ordinal, used>>

\* Mutant: the user's other connections are forgotten.
ReleaseMutAll(C) ==
  LET gone == {u \in Users : leases[u].conns \cap C # {}}
  IN /\ leases' = [u \in Users |-> IF u \in gone THEN NoLease ELSE leases[u]]
     /\ used' = {leases[u].slot : u \in Live \ gone}
     /\ member' = [c \in Conns |-> IF c \in C THEN None ELSE member[c]]
     /\ IF Live \ gone = {} THEN start' = None /\ ordinal' = 0 ELSE UNCHANGED <<start, ordinal>>

\* releaseRoomHue of the connections C, one after the other; with the last user the
\* room's state goes.
Release(C) ==
  LET rest == [u \in Users |-> leases[u].conns \ C]
      gone == {u \in Live : rest[u] = {}}
  IN /\ leases' = [u \in Users |-> IF u \in gone THEN NoLease ELSE [leases[u] EXCEPT !.conns = rest[u]]]
     /\ used' = used \ {leases[u].slot : u \in gone}
     /\ member' = [c \in Conns |-> IF c \in C THEN None ELSE member[c]]
     /\ IF gone # {} /\ gone = Live
          THEN start' = None /\ ordinal' = 0
          ELSE UNCHANGED <<start, ordinal>>

\* The client leaves the room.
Unsubscribe(c) ==
  /\ Handles(c) /\ c \in subscribed /\ subscribed' = subscribed \ {c}
  /\ Release({c})
  /\ UNCHANGED refused

\* Mutant: the leases of a closed connection are left to the next revalidation.
CloseMutKeeps(c) ==
  /\ c \in sockets /\ sockets' = sockets \ {c}
  /\ queued' \in {queued} \cup (IF embedded THEN {queued \cup {c}} ELSE {})
  /\ UNCHANGED <<embedded, subscribed, member, leases, used, start, ordinal, refused>>

\* The socket closes, perhaps while frames wait.  The subscriptions of the connection
\* stay as they were.
Close(c) ==
  /\ c \in sockets /\ sockets' = sockets \ {c}
  /\ queued' \in {queued} \cup (IF embedded THEN {queued \cup {c}} ELSE {})
  /\ Release({c})
  /\ UNCHANGED <<embedded, subscribed, refused>>

\* Access is revoked: revalidateRoomAccess drops the subscriptions of open connections
\* without a word to the registry, and removeUnsubscribedRoomHues follows it up.
Revoke(C) ==
  /\ C # {} /\ C \subseteq subscribed \cap sockets /\ subscribed' = subscribed \ C
  /\ Release({c \in Conns : member[c] # None /\ c \notin subscribed'})
  /\ UNCHANGED <<embedded, sockets, queued, refused>>

\* removeRoom: the room is deleted or leaves the live lane; its subscriptions may stay.
RemoveRoom ==
  /\ start # None
  /\ leases' = [u \in Users |-> NoLease] /\ used' = {} /\ start' = None /\ ordinal' = 0
  /\ member' = [c \in Conns |-> None]
  /\ UNCHANGED <<embedded, sockets, queued, subscribed, refused>>

Next ==
  \/ \E c \in Conns : Connect(c) \/ Subscribe(c) \/ SetCaret(c) \/ Unsubscribe(c) \/ Close(c)
  \/ \E C \in SUBSET Conns : Revoke(C)
  \/ RemoveRoom

Spec == Init /\ [][Next]_vars

-----------------------------------------------------------------------------
TypeOK ==
  /\ embedded \in BOOLEAN /\ sockets \subseteq Conns
  /\ queued \subseteq Conns \ sockets /\ (~embedded => queued = {})
  /\ subscribed \subseteq Conns /\ used \subseteq Circle /\ start \in Circle \cup {None}
  /\ \A c \in Conns : member[c] \in {None, UserOf[c]}
  /\ \A u \in Users : leases[u].slot \in Circle \cup {None} /\ leases[u].conns \subseteq Conns

\* Nobody in the room shares a colour, the leases and the slots in use tell the same
\* story, and a lease lasts exactly as long as a connection holds it that has subscribed
\* to the room and is open, or closed while frames of it waited (see ClosedHoldNothing).
HuesAreTheirOwn ==
  /\ used = {leases[u].slot : u \in Live}
  /\ \A u, w \in Live : leases[u].slot = leases[w].slot => u = w
  /\ \A u \in Users : leases[u].conns = {c \in Conns : member[c] = u}
  /\ \A u \in Users : (u \in Live) = (leases[u].conns # {})
  /\ \A c \in Conns : member[c] # None => c \in subscribed /\ c \in sockets \cup queued

\* A closed connection holds no colour: "Forced-close paths rely on this canonical
\* cleanup hook" (the close handler).  On the embedded relay, checked and violated: a
\* caret or a subscription that waited for the database queue leases a colour after the
\* hook has run, and nothing short of removeRoom releases it.
ClosedHoldNothing == \A c \in Conns : member[c] # None => c \in sockets

\* While a slot is free, whoever comes gets one: one probe more than slots in use is
\* always enough.
SomeSlotIsFound == Cardinality(Users) <= Slots => ~refused

\* A user keeps the colour for as long as some connection of the user stays in the
\* room, whoever else comes and goes and through reconnects on a second device.
HueIsKept ==
  [][\A u \in Users :
       (\E c \in Conns : member[c] = u /\ member'[c] = u) => leases'[u].slot = leases[u].slot]_vars

\* A colour of one's own for everyone: nobody in the room shares one, there is one for
\* whoever comes while a slot is free, who stays keeps it, and on the standalone relay,
\* which handles a frame as it comes, it is given back with the last open connection.
ColoursAreTheirOwn ==
  /\ [](TypeOK /\ HuesAreTheirOwn /\ SomeSlotIsFound /\ (~embedded => ClosedHoldNothing))
  /\ HueIsKept
=============================================================================
