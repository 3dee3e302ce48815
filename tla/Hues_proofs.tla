----------------------------- MODULE Hues_proofs -----------------------------
(***************************************************************************)
(* Colours are one's own and are kept: for any connections, any users and  *)
(* any circle.  And the rate limiter keeps its limits.                     *)
(***************************************************************************)
EXTENDS MCNotes, Sequences, FiniteSetTheorems, WellFoundedInduction, TLAPS

Shapes ==
    /\ subscribed \subseteq Conns /\ used \subseteq Circle
    /\ start \in Circle \cup {None} /\ ordinal \in Nat /\ refused \in BOOLEAN
    /\ member \in [Conns -> Users \cup {None}]
    /\ \A c \in Conns : member[c] \in {None, UserOf[c]}
    /\ leases \in [Users -> [slot : Circle \cup {None}, conns : SUBSET Conns]]

\* Only a closed connection's frames are late, and only where there is a queue.
SocketsInv ==
    /\ embedded \in BOOLEAN /\ sockets \subseteq Conns
    /\ queued \subseteq Conns \ sockets /\ (~embedded => queued = {})

IInv == Shapes /\ SocketsInv /\ HuesAreTheirOwn /\ SomeSlotIsFound

LEMMA UsersOfConns == \A c \in Conns : UserOf[c] \in Users
BY DEF Users

\* A set of numbers that is not empty has a least one.
LEMMA LeastOne ==
    ASSUME NEW T \in SUBSET Nat, T # {}
    PROVE  \E p \in T : \A q \in T : p <= q
<1>1. PICK p \in T : \A q \in T : ~(<<q, p>> \in OpToRel(<, Nat))
    BY NatLessThanWellFounded, WFMin
<1>2. \A q \in T : <<q, p>> \in Nat \X Nat /\ <<q, p>>[1] = q /\ <<q, p>>[2] = p
    OBVIOUS
<1>3. \A q \in T : ~(q < p)
    BY <1>1, <1>2 DEF OpToRel
<1> QED BY <1>3

LEMMA Remainder ==
    ASSUME NEW x \in Nat, NEW n \in Nat \ {0}
    PROVE  x % n \in 0 .. n - 1
OBVIOUS

\* Whoever is given a slot is given a free one.
LEMMA AllocatesFree ==
    ASSUME Parameters, NEW base \in Nat, Allocate(base) # None
    PROVE  Allocate(base) \in Circle \ used
<1> DEFINE probed == {p \in 0 .. Cardinality(used) : (base + p) % Slots \notin used}
           least == CHOOSE p \in probed : \A q \in probed : p <= q
<1>1. probed # {}
    BY DEF Allocate
<1>2. probed \in SUBSET Nat
    OBVIOUS
<1>3. \E p \in probed : \A q \in probed : p <= q
    BY <1>1, <1>2, LeastOne
<1>4. least \in probed
    BY <1>3
<1>5. Allocate(base) = (base + least) % Slots
    BY <1>1 DEF Allocate
<1>6. base + least \in Nat
    BY <1>2, <1>4
<1>7. (base + least) % Slots \in 0 .. Slots - 1
  <2> HIDE DEF least
  <2> QED BY <1>6, Remainder DEF Parameters
<1> QED BY <1>4, <1>5, <1>7 DEF Circle

\* Fewer than Slots probes in a row are all of different slots.
LEMMA ProbesDiffer ==
    ASSUME NEW n \in Nat \ {0}, NEW a \in Nat, NEW p \in 0 .. n - 1, NEW q \in 0 .. n - 1, p < q
    PROVE  (a + p) % n # (a + q) % n
<1> SUFFICES ASSUME (a + p) % n = (a + q) % n PROVE FALSE
    OBVIOUS
<1> DEFINE r == (a + p) % n
           j == (a + p) \div n
           k == (a + q) \div n
<1>1. /\ r \in 0 .. n - 1 /\ j \in Nat /\ k \in Nat
      /\ a + p = n * j + r /\ a + q = n * k + r
    OBVIOUS
<1> HIDE DEF r, j, k
<1>2. n * k = n * j + (q - p) /\ q - p \in 1 .. n - 1
    BY <1>1
<1>3. CASE k <= j
  <2>1. n * k <= n * j
      BY <1>1, <1>3
  <2> QED BY <1>1, <1>2, <2>1
<1>4. CASE k >= j + 1
  <2>1. n * k >= n * (j + 1) /\ n * (j + 1) = n * j + n
      BY <1>1, <1>4
  <2> QED BY <1>1, <1>2, <2>1
<1> QED BY <1>1, <1>3, <1>4

\* One probe more than slots in use finds a free one, as long as there is one.
LEMMA ProbesSuffice ==
    ASSUME Parameters, NEW base \in Nat, IsFiniteSet(used), Cardinality(used) < Slots
    PROVE  Allocate(base) # None
<1> DEFINE N == Cardinality(used)
           S == 0 .. N
           f == [p \in S |-> (base + p) % Slots]
           probed == {p \in S : (base + p) % Slots \notin used}
           least == CHOOSE p \in probed : \A q \in probed : p <= q
<1>1. N \in Nat /\ Slots \in Nat \ {0}
    BY FS_CardinalityType DEF Parameters
<1>2. probed # {}
  <2> SUFFICES ASSUME probed = {} PROVE FALSE
      OBVIOUS
  <2>1. f \in [S -> used]
      OBVIOUS
  <2>2. IsFiniteSet(S) /\ Cardinality(S) = N + 1
      BY <1>1, FS_Interval
  <2>3. Cardinality(used) < Cardinality(S)
      BY <1>1, <2>2
  <2> HIDE DEF S, f
  <2>4. PICK x, y \in S : x # y /\ f[x] = f[y]
      BY <2>1, <2>2, <2>3, FS_PigeonHole
  <2>5. x \in 0 .. Slots - 1 /\ y \in 0 .. Slots - 1 /\ (x < y \/ y < x)
      BY <1>1, <2>4 DEF S
  <2>6. (base + x) % Slots = (base + y) % Slots
      BY <2>4 DEF f
  <2> QED BY <1>1, <2>5, <2>6, ProbesDiffer
<1>3. probed \in SUBSET Nat
    BY <1>1
<1>4. \E p \in probed : \A q \in probed : p <= q
    BY <1>2, <1>3, LeastOne
<1>5. least \in probed /\ least \in Nat
    BY <1>3, <1>4
<1>6. Allocate(base) = (base + least) % Slots
    BY <1>2 DEF Allocate
<1> HIDE DEF least
<1>7. (base + least) % Slots \in Circle
    BY <1>1, <1>5, Remainder DEF Circle
<1> QED BY <1>6, <1>7 DEF Parameters

\* While somebody of few enough users has no slot, a slot is free.
LEMMA FewInUse ==
    ASSUME Parameters, HuesAreTheirOwn, NEW u \in Users \ Live, Cardinality(Users) <= Slots
    PROVE  IsFiniteSet(used) /\ Cardinality(used) < Slots
<1> DEFINE owner == [c \in Conns |-> UserOf[c]]
           slot  == [w \in Live |-> leases[w].slot]
<1>1. owner \in Surjection(Conns, Users)
    BY DEF Users, Surjection
<1>2. slot \in Surjection(Live, used)
    BY DEF HuesAreTheirOwn, Surjection
<1> HIDE DEF owner, slot
<1>3. IsFiniteSet(Users)
    BY <1>1, FS_Surjection DEF Parameters
<1>4. IsFiniteSet(Users \ {u}) /\ Cardinality(Users \ {u}) = Cardinality(Users) - 1
    BY <1>3, FS_RemoveElement
<1>5. Live \in SUBSET (Users \ {u})
    BY DEF Live
<1>6. IsFiniteSet(Live) /\ Cardinality(Live) <= Cardinality(Users \ {u})
    BY <1>4, <1>5, FS_Subset
<1>7. IsFiniteSet(used) /\ Cardinality(used) <= Cardinality(Live)
    BY <1>2, <1>6, FS_Surjection
<1>8. Cardinality(Users) \in Nat /\ Cardinality(Live) \in Nat /\ Cardinality(used) \in Nat
    BY <1>3, <1>6, <1>7, FS_CardinalityType
<1> QED BY <1>4, <1>6, <1>7, <1>8 DEF Parameters

\* Who stays keeps the colour, in one step.
Kept ==
    \A u \in Users :
        (\E c \in Conns : member[c] = u /\ member'[c] = u) => leases'[u].slot = leases[u].slot

\* Connections leave: their leases end when no other connection holds them.
LEMMA ReleaseKeepsInv ==
    ASSUME Parameters, IInv, NEW C \in SUBSET Conns, Release(C),
           subscribed' \subseteq subscribed, refused' = refused, SocketsInv',
           \A c \in Conns \ C : member[c] # None => c \in subscribed' /\ c \in sockets' \cup queued'
    PROVE  IInv' /\ Kept
<1> DEFINE rest == [u \in Users |-> leases[u].conns \ C]
           gone == {u \in Live : rest[u] = {}}
<1> USE DEF IInv
<1>1. /\ leases' = [u \in Users |-> IF u \in gone THEN NoLease ELSE [leases[u] EXCEPT !.conns = rest[u]]]
      /\ used' = used \ {leases[u].slot : u \in gone}
      /\ member' = [c \in Conns |-> IF c \in C THEN None ELSE member[c]]
      /\ start' \in {start, None} /\ ordinal' \in {ordinal, 0}
    BY DEF Release
<1>2. \A u \in Users : /\ leases[u] \in [slot : Circle \cup {None}, conns : SUBSET Conns]
                       /\ leases'[u].slot = IF u \in gone THEN None ELSE leases[u].slot
                       /\ leases'[u].conns = IF u \in gone THEN {} ELSE leases[u].conns \ C
                       /\ leases'[u] \in [slot : Circle \cup {None}, conns : SUBSET Conns]
    BY <1>1 DEF Shapes, NoLease
<1>3. Live' = Live \ gone
    BY <1>2 DEF Live
<1>4. Shapes'
  <2>1. leases' \in [Users -> [slot : Circle \cup {None}, conns : SUBSET Conns]]
      BY <1>1, <1>2
  <2> QED BY <1>1, <2>1, UsersOfConns DEF Shapes
<1>5. used' = {leases'[u].slot : u \in Live'}
  <2>1. \A u \in Live' : leases'[u].slot = leases[u].slot /\ u \in Live
      BY <1>2, <1>3 DEF Live
  <2>2. \A u \in Live, w \in gone : u \notin gone => leases[u].slot # leases[w].slot
      BY DEF HuesAreTheirOwn
  <2>3. used = {leases[u].slot : u \in Live} /\ gone \subseteq Live
      BY DEF HuesAreTheirOwn
  <2>4. used' = {leases[u].slot : u \in Live \ gone}
    <3> HIDE DEF gone
    <3> QED BY <1>1, <2>2, <2>3
  <2> QED BY <1>3, <2>1, <2>4
<1>6. \A u, w \in Live' : leases'[u].slot = leases'[w].slot => u = w
    BY <1>2, <1>3 DEF HuesAreTheirOwn, Live
<1>7. \A u \in Users : leases'[u].conns = {c \in Conns : member'[c] = u}
  <2> SUFFICES ASSUME NEW u \in Users
               PROVE  leases'[u].conns = {c \in Conns : member'[c] = u}
      OBVIOUS
  <2>1. {c \in Conns : member'[c] = u} = {c \in Conns : member[c] = u} \ C
      BY <1>1 DEF Parameters, Shapes
  <2> QED BY <1>2, <2>1 DEF HuesAreTheirOwn
<1>8. \A u \in Users : (u \in Live') = (leases'[u].conns # {})
  <2> SUFFICES ASSUME NEW u \in Users
               PROVE  u \in Live' <=> leases'[u].conns # {}
      OBVIOUS
  <2>1. u \in Live <=> leases[u].conns # {}
      BY DEF HuesAreTheirOwn
  <2>2. u \in gone <=> u \in Live /\ leases[u].conns \ C = {}
      OBVIOUS
  <2> QED BY <1>2, <1>3, <2>1, <2>2
<1>9. \A c \in Conns : member'[c] # None => c \in subscribed' /\ c \in sockets' \cup queued'
    BY <1>1
<1>10. Kept
  <2> SUFFICES ASSUME NEW u \in Users, NEW c \in Conns, member[c] = u, member'[c] = u
               PROVE  leases'[u].slot = leases[u].slot
      BY DEF Kept
  <2>1. c \in leases[u].conns \ C
      BY <1>1 DEF HuesAreTheirOwn, Parameters
  <2> QED BY <1>2, <2>1
<1>11. SomeSlotIsFound'
    BY DEF SomeSlotIsFound
<1> QED BY <1>4, <1>5, <1>6, <1>7, <1>8, <1>9, <1>10, <1>11 DEF HuesAreTheirOwn

\* A connection comes, or asks again: it shares its user's lease, or gets a slot of
\* its own.
LEMMA JoinKeepsInv ==
    ASSUME Parameters, IInv, NEW c \in Conns, NEW s \in Circle, JoinRoom(c, s),
           Handles(c), subscribed' = subscribed \cup {c}
    PROVE  IInv' /\ Kept
<1> DEFINE u == UserOf[c]
           slot == Allocate((s + ordinal * Stride) % Slots)
<1> USE DEF IInv
<1>1. u \in Users /\ member[c] \in {None, u} /\ leases[u] \in [slot : Circle \cup {None}, conns : SUBSET Conns]
    BY UsersOfConns DEF Shapes
<1>h. SocketsInv' /\ c \in sockets' \cup queued' /\ UNCHANGED <<sockets, queued>>
    BY DEF Handles, SocketsInv
<1>f. refused' = refused => SomeSlotIsFound'
    BY DEF SomeSlotIsFound
<1>b. (s + ordinal * Stride) % Slots \in Nat
  <2>1. s \in Nat /\ ordinal * Stride \in Nat
      BY DEF Circle, Parameters, Shapes
  <2> QED BY <2>1, Remainder DEF Parameters
<1>2. CASE UNCHANGED <<member, leases, used, ordinal, refused>> /\ start' = s
  <2>1. Live' = Live
      BY <1>2 DEF Live
  <2> QED BY <1>2, <1>f, <1>h, <2>1 DEF Shapes, HuesAreTheirOwn, Kept
<1>3. CASE /\ leases[u].slot # None /\ start' = s
           /\ leases' = [leases EXCEPT ![u].conns = @ \cup {c}]
           /\ member' = [member EXCEPT ![c] = u]
           /\ UNCHANGED <<used, ordinal, refused>>
  <2>1. \A w \in Users : /\ leases'[w].slot = leases[w].slot
                         /\ leases'[w].conns = IF w = u THEN leases[u].conns \cup {c} ELSE leases[w].conns
      BY <1>1, <1>3 DEF Shapes
  <2>2. Live' = Live /\ u \in Live
      BY <1>1, <1>3, <2>1 DEF Live
  <2>3. Shapes'
      BY <1>1, <1>3 DEF Shapes
  <2>4. \A w \in Users : leases'[w].conns = {d \in Conns : member'[d] = w}
    <3> SUFFICES ASSUME NEW w \in Users
                 PROVE  leases'[w].conns = {d \in Conns : member'[d] = w}
        OBVIOUS
    <3>1. leases[w].conns = {d \in Conns : member[d] = w}
        BY DEF HuesAreTheirOwn
    <3>2. \A d \in Conns : member'[d] = IF d = c THEN u ELSE member[d]
        BY <1>3 DEF Shapes
    <3>3. w # u => member[c] # w
        BY <1>1 DEF Parameters
    <3> HIDE DEF u
    <3> QED BY <2>1, <3>1, <3>2, <3>3
  <2>5. /\ used' = {leases'[w].slot : w \in Live'}
        /\ \A w, v \in Live' : leases'[w].slot = leases'[v].slot => w = v
    <3>1. \A w \in Live : leases'[w].slot = leases[w].slot
        BY <2>1 DEF Live
    <3>2. used = {leases[w].slot : w \in Live}
        BY DEF HuesAreTheirOwn
    <3>3. used' = {leases'[w].slot : w \in Live}
        BY <1>3, <3>1, <3>2
    <3> QED BY <2>2, <3>1, <3>3 DEF HuesAreTheirOwn
  <2>6. \A w \in Users : (w \in Live') = (leases'[w].conns # {})
    <3> SUFFICES ASSUME NEW w \in Users
                 PROVE  w \in Live' <=> leases'[w].conns # {}
        OBVIOUS
    <3>1. w \in Live <=> leases[w].conns # {}
        BY DEF HuesAreTheirOwn
    <3> QED BY <2>1, <2>2, <3>1
  <2>7. \A d \in Conns : member'[d] # None => d \in subscribed' /\ d \in sockets' \cup queued'
      BY <1>3, <1>h DEF Shapes, HuesAreTheirOwn
  <2>8. Kept
      BY <2>1 DEF Kept
  <2> QED BY <1>3, <1>f, <1>h, <2>3, <2>4, <2>5, <2>6, <2>7, <2>8 DEF HuesAreTheirOwn
<1>4. CASE /\ leases[u].slot = None /\ slot # None /\ start' = s /\ ordinal' = ordinal + 1
           /\ used' = used \cup {slot}
           /\ leases' = [leases EXCEPT ![u] = [slot |-> slot, conns |-> {c}]]
           /\ member' = [member EXCEPT ![c] = u] /\ refused' = refused
  <2>1. slot \in Circle \ used
      BY <1>4, <1>b, AllocatesFree
  <2> HIDE DEF slot
  <2>2. \A w \in Users : leases'[w] = IF w = u THEN [slot |-> slot, conns |-> {c}] ELSE leases[w]
      BY <1>4 DEF Shapes
  <2>3. Live' = Live \cup {u} /\ u \notin Live
    <3>1. slot # None
        BY <1>4
    <3> QED BY <1>1, <1>4, <2>2, <3>1 DEF Live
  <2>4. Shapes'
    <3>1. [slot |-> slot, conns |-> {c}] \in [slot : Circle \cup {None}, conns : SUBSET Conns]
        BY <2>1
    <3> QED BY <1>1, <1>4, <2>1, <3>1 DEF Shapes
  <2>5. leases[u].conns = {} /\ member[c] = None
      BY <1>1, <2>3 DEF HuesAreTheirOwn
  <2>6. \A w \in Users : leases'[w].conns = {d \in Conns : member'[d] = w}
    <3> SUFFICES ASSUME NEW w \in Users
                 PROVE  leases'[w].conns = {d \in Conns : member'[d] = w}
        OBVIOUS
    <3>1. leases[w].conns = {d \in Conns : member[d] = w}
        BY DEF HuesAreTheirOwn
    <3>2. \A d \in Conns : member'[d] = IF d = c THEN u ELSE member[d]
        BY <1>4 DEF Shapes
    <3>3. None # w
        BY DEF Parameters
    <3>4. leases'[w].conns = IF w = u THEN {c} ELSE leases[w].conns
        BY <2>2
    <3> HIDE DEF u
    <3> QED BY <2>5, <3>1, <3>2, <3>3, <3>4
  <2>7. /\ used' = {leases'[w].slot : w \in Live'}
        /\ \A w, v \in Live' : leases'[w].slot = leases'[v].slot => w = v
    <3>1. leases'[u].slot = slot /\ \A w \in Live : leases'[w].slot = leases[w].slot /\ w # u
        BY <1>1, <2>2, <2>3 DEF Live
    <3>2. used = {leases[w].slot : w \in Live}
        BY DEF HuesAreTheirOwn
    <3>3. used' = {leases'[w].slot : w \in Live \cup {u}}
      <4> HIDE DEF u
      <4> QED BY <1>4, <3>1, <3>2
    <3>4. \A w \in Live : leases[w].slot # slot
        BY <2>1, <3>2
    <3> HIDE DEF u
    <3> QED BY <2>3, <3>1, <3>3, <3>4 DEF HuesAreTheirOwn
  <2>8. \A w \in Users : (w \in Live') = (leases'[w].conns # {})
    <3> SUFFICES ASSUME NEW w \in Users
                 PROVE  w \in Live' <=> leases'[w].conns # {}
        OBVIOUS
    <3>1. w \in Live <=> leases[w].conns # {}
        BY DEF HuesAreTheirOwn
    <3> QED BY <2>2, <2>3, <3>1
  <2>9. \A d \in Conns : member'[d] # None => d \in subscribed' /\ d \in sockets' \cup queued'
      BY <1>4, <1>h DEF Shapes, HuesAreTheirOwn
  <2>10. Kept
    <3> SUFFICES ASSUME NEW w \in Users, NEW d \in Conns, member[d] = w, member'[d] = w
                 PROVE  leases'[w].slot = leases[w].slot
        BY DEF Kept
    <3>1. d \in leases[w].conns
        BY DEF HuesAreTheirOwn
    <3>2. w # u
        BY <2>5, <3>1
    <3> QED BY <2>2, <3>2
  <2> QED BY <1>4, <1>f, <1>h, <2>4, <2>6, <2>7, <2>8, <2>9, <2>10 DEF HuesAreTheirOwn
<1>5. start' = s
    BY DEF JoinRoom
<1>6. CASE member[c] = u /\ leases[u].slot # None
  <2>1. UNCHANGED <<member, leases, used, ordinal, refused>>
    <3> HIDE DEF IInv
    <3> QED BY <1>6 DEF JoinRoom
  <2> QED BY <1>2, <1>5, <2>1
<1>7. CASE member[c] # u /\ leases[u].slot # None
  <2>1. /\ leases' = [leases EXCEPT ![u].conns = @ \cup {c}]
        /\ member' = [member EXCEPT ![c] = u]
        /\ UNCHANGED <<used, ordinal, refused>>
    <3> HIDE DEF IInv
    <3> QED BY <1>7 DEF JoinRoom
  <2> QED BY <1>3, <1>5, <1>7, <2>1
<1>8. CASE leases[u].slot = None
  <2>1. /\ ordinal' = ordinal + 1
        /\ IF slot = None
             THEN refused' = TRUE /\ UNCHANGED <<member, leases, used>>
             ELSE /\ used' = used \cup {slot} /\ refused' = refused
                  /\ leases' = [leases EXCEPT ![u] = [slot |-> slot, conns |-> {c}]]
                  /\ member' = [member EXCEPT ![c] = u]
    <3> HIDE DEF IInv
    <3> QED BY <1>8 DEF JoinRoom
  <2>2. CASE slot = None
    <3>1. UNCHANGED <<member, leases, used>> /\ ordinal' \in Nat /\ start' \in Circle
        BY <1>5, <2>1, <2>2 DEF Shapes
    <3>2. Live' = Live
        BY <3>1 DEF Live
    <3>3. refused' \in BOOLEAN
        BY <2>1, <2>2
    <3>4. Cardinality(Users) <= Slots => FALSE
      <4> SUFFICES ASSUME Cardinality(Users) <= Slots PROVE FALSE
          OBVIOUS
      <4>1. u \in Users \ Live
          BY <1>1, <1>8 DEF Live
      <4>2. IsFiniteSet(used) /\ Cardinality(used) < Slots
          BY <4>1, FewInUse
      <4> QED BY <1>b, <2>2, <4>2, ProbesSuffice
    <3>5. SomeSlotIsFound'
        BY <3>4 DEF SomeSlotIsFound
    <3> QED BY <1>h, <3>1, <3>2, <3>3, <3>5 DEF Shapes, HuesAreTheirOwn, Kept
  <2>3. CASE slot # None
    <3> HIDE DEF IInv, u, slot
    <3> QED BY <1>4, <1>5, <1>8, <2>1, <2>3
  <2> QED BY <2>2, <2>3
<1> QED BY <1>6, <1>7, <1>8

\* The room's state goes: nobody has a colour.
LEMMA RemovalKeepsInv ==
    ASSUME Parameters, IInv, RemoveRoom
    PROVE  IInv' /\ Kept
<1> USE DEF IInv
<1>1. /\ leases' = [w \in Users |-> NoLease] /\ used' = {} /\ start' = None /\ ordinal' = 0
      /\ member' = [d \in Conns |-> None]
      /\ UNCHANGED <<embedded, sockets, queued, subscribed, refused>>
    BY DEF RemoveRoom
<1>2. Live' = {}
    BY <1>1 DEF Live, NoLease
<1>3. Shapes'
    BY <1>1 DEF Shapes, NoLease
<1>4. HuesAreTheirOwn'
    BY <1>1, <1>2 DEF HuesAreTheirOwn, NoLease, Parameters
<1>5. Kept
    BY <1>1 DEF Kept, Parameters
<1>6. SomeSlotIsFound'
    BY <1>1 DEF SomeSlotIsFound
<1>7. SocketsInv'
    BY <1>1 DEF SocketsInv
<1> QED BY <1>3, <1>4, <1>5, <1>6, <1>7

LEMMA InitInv ==
    ASSUME Parameters, Init
    PROVE  IInv
<1>1. Live = {}
    BY DEF Init, Live, NoLease
<1>2. Shapes
    BY DEF Init, Shapes, NoLease
<1>3. HuesAreTheirOwn
    BY <1>1 DEF Init, HuesAreTheirOwn, NoLease, Parameters
<1>4. SomeSlotIsFound
    BY DEF Init, SomeSlotIsFound
<1>5. SocketsInv
    BY DEF Init, SocketsInv
<1> QED BY <1>2, <1>3, <1>4, <1>5 DEF IInv

\* A connection comes, under a name that holds nothing.
LEMMA ConnectKeepsInv ==
    ASSUME Parameters, IInv, NEW c \in Conns, Connect(c)
    PROVE  IInv' /\ Kept
<1>1. /\ member[c] = None /\ c \notin sockets
      /\ sockets' = sockets \cup {c} /\ queued' = queued \ {c} /\ subscribed' = subscribed \ {c}
      /\ UNCHANGED <<embedded, member, leases, used, start, ordinal, refused>>
    BY DEF Connect
<1>2. Live' = Live
    BY <1>1 DEF Live
<1>3. Shapes' /\ SomeSlotIsFound' /\ Kept
    BY <1>1 DEF IInv, Shapes, SomeSlotIsFound, Kept
<1>4. SocketsInv'
    BY <1>1 DEF IInv, SocketsInv
<1>5. \A d \in Conns : member'[d] # None => d \in subscribed' /\ d \in sockets' \cup queued'
    BY <1>1 DEF IInv, HuesAreTheirOwn
<1>6. HuesAreTheirOwn'
    BY <1>1, <1>2, <1>5 DEF IInv, HuesAreTheirOwn
<1> QED BY <1>3, <1>4, <1>6 DEF IInv

LEMMA StepKeepsInv ==
    ASSUME Parameters, IInv, [Next]_vars
    PROVE  IInv' /\ Kept
<1>1. ASSUME NEW c \in Conns, Subscribe(c)
      PROVE  IInv' /\ Kept
    BY <1>1, JoinKeepsInv DEF Subscribe
<1>2. ASSUME NEW c \in Conns, SetCaret(c)
      PROVE  IInv' /\ Kept
  <2>1. Handles(c) /\ subscribed' = subscribed \cup {c} /\ \E s \in Circle : JoinRoom(c, s)
      BY <1>2 DEF SetCaret
  <2> QED BY <2>1, JoinKeepsInv
<1>3. ASSUME NEW c \in Conns, Unsubscribe(c)
      PROVE  IInv' /\ Kept
  <2>1. /\ subscribed' = subscribed \ {c} /\ Release({c}) /\ refused' = refused
        /\ UNCHANGED <<embedded, sockets, queued>>
      BY <1>3 DEF Unsubscribe, Handles
  <2>2. SocketsInv' /\ \A d \in Conns \ {c} : member[d] # None => d \in subscribed' /\ d \in sockets' \cup queued'
      BY <2>1 DEF IInv, SocketsInv, HuesAreTheirOwn
  <2> QED BY <2>1, <2>2, ReleaseKeepsInv
<1>8. ASSUME NEW c \in Conns, Close(c)
      PROVE  IInv' /\ Kept
  <2>1. /\ subscribed' = subscribed /\ Release({c}) /\ refused' = refused /\ embedded' = embedded
        /\ c \in sockets /\ sockets' = sockets \ {c}
        /\ queued' \in {queued} \cup (IF embedded THEN {queued \cup {c}} ELSE {})
      BY <1>8 DEF Close
  <2>2. queued \subseteq queued' /\ queued' \subseteq queued \cup {c} /\ (~embedded => queued' = queued)
      BY <2>1
  <2>3. SocketsInv' /\ \A d \in Conns \ {c} : member[d] # None => d \in subscribed' /\ d \in sockets' \cup queued'
      BY <2>1, <2>2 DEF IInv, SocketsInv, HuesAreTheirOwn
  <2> QED BY <2>1, <2>3, ReleaseKeepsInv
<1>4. ASSUME NEW C \in SUBSET Conns, Revoke(C)
      PROVE  IInv' /\ Kept
  <2> DEFINE D == {c \in Conns : member[c] # None /\ c \notin subscribed'}
  <2>1. /\ subscribed' \subseteq subscribed /\ Release(D) /\ D \in SUBSET Conns /\ refused' = refused
        /\ UNCHANGED <<embedded, sockets, queued>>
      BY <1>4 DEF Revoke
  <2>2. SocketsInv' /\ \A d \in Conns \ D : member[d] # None => d \in subscribed' /\ d \in sockets' \cup queued'
      BY <2>1 DEF IInv, SocketsInv, HuesAreTheirOwn
  <2> HIDE DEF D
  <2> QED BY <2>1, <2>2, ReleaseKeepsInv
<1>7. ASSUME NEW c \in Conns, Connect(c)
      PROVE  IInv' /\ Kept
    BY <1>7, ConnectKeepsInv
<1>5. CASE RemoveRoom
    BY <1>5, RemovalKeepsInv
<1>6. CASE UNCHANGED vars
  <2>1. UNCHANGED <<embedded, sockets, queued, subscribed, member, leases, used, start, ordinal, refused>> /\ Live' = Live
      BY <1>6 DEF vars, Live
  <2> QED BY <2>1 DEF IInv, Shapes, SocketsInv, HuesAreTheirOwn, SomeSlotIsFound, Kept
<1> QED BY <1>1, <1>2, <1>3, <1>4, <1>5, <1>6, <1>7, <1>8 DEF Next

-----------------------------------------------------------------------------
\* What every state of a room's colours satisfies.
THEOREM Invariance == Spec => []IInv
BY HuesAssumption, InitInv, StepKeepsInv, PTL DEF Spec

\* At any time nobody in the room shares a colour, and a lease lasts exactly as long as a
\* subscribed connection holds it (joinRoom, releaseRoomHue, removeConnection,
\* removeUnsubscribedRoomHues): an open one, or on the embedded relay one that closed while
\* frames of it waited for the database queue; while a slot is free, whoever comes gets one;
\* and a user of whom a connection stays keeps the colour, however often the others reconnect.
THEOREM OwnColours == Spec => ColoursAreTheirOwn
<1>1. IInv => TypeOK /\ HuesAreTheirOwn /\ SomeSlotIsFound /\ (~embedded => ClosedHoldNothing)
    BY DEF IInv, Shapes, SocketsInv, TypeOK, HuesAreTheirOwn, ClosedHoldNothing
<1>2. IInv /\ [Next]_vars => [Kept]_vars
    BY HuesAssumption, StepKeepsInv
<1>3. HueIsKept <=> [][Kept]_vars
    BY PTL DEF HueIsKept, Kept
<1> QED BY <1>1, <1>2, <1>3, Invariance, PTL DEF Spec, ColoursAreTheirOwn

-----------------------------------------------------------------------------
(* The rate limiter.                                                       *)

LimiterParameters ==
    /\ MaxRequests \in Nat \ {0} /\ WindowMs \in Nat \ {0} /\ MaxTrackedKeys \in Nat \ {0}

Counter == [key : Keys, count : Nat, age : Nat]

\* One counter per key, in the order they started.
InOrder(cs) ==
    /\ cs \in Seq(Counter)
    /\ \A i \in 1..Len(cs) : cs[i].age <= WindowMs /\ 1 <= cs[i].count /\ cs[i].count <= MaxRequests
    /\ \A i, j \in 1..Len(cs) : i < j => cs[j].age <= cs[i].age /\ cs[i].key # cs[j].key

\* What a counter says of its key's requests g: it counts the last ones, those since it
\* started; before them there were at most as many as its predecessor could grant.
CountsLast(c, g) ==
    c.age < WindowMs => c.count <= Len(g) /\ \A n \in 1..Len(g) : Len(g) < n + c.count => g[n] <= c.age
FewBefore(c, g) ==
    IF c.age < WindowMs
    THEN Len(g) <= MaxRequests + c.count /\ \A n \in 1..Len(g) : n + c.count <= Len(g) => c.age <= g[n]
    ELSE Len(g) <= MaxRequests

LimiterInv(cs, gr, lo) ==
    /\ InOrder(cs) /\ gr \in [Keys -> Seq(Nat)]
    /\ \A i \in 1..Len(cs) : CountsLast(cs[i], gr[cs[i].key])
    /\ \A i \in 1..Len(cs) : cs[i].key \notin lo => FewBefore(cs[i], gr[cs[i].key])
    /\ \A k \in Keys \ lo : (\A i \in 1..Len(cs) : cs[i].key # k) => Len(gr[k]) <= MaxRequests

AllLive(cs) == \A i \in 1..Len(cs) : cs[i].age < WindowMs

\* What is left of a sequence starts at the first of the places.
LEMMA FromIs ==
    ASSUME NEW T, NEW s \in Seq(T), NEW P \in SUBSET (1..Len(s))
    PROVE  /\ Limiter!From(s, P) \in Seq(T)
           /\ \E d \in 0..Len(s) : /\ Len(Limiter!From(s, P)) = Len(s) - d
                                   /\ \A i \in 1..Len(s) - d : Limiter!From(s, P)[i] = s[i + d]
                                   /\ \A p \in P : d < p
                                   /\ d < Len(s) => d + 1 \in P
<1>1. CASE P = {}
  <2>1. Limiter!From(s, P) = <<>>
    BY <1>1 DEF Limiter!From
  <2>2. Len(s) \in 0..Len(s) /\ 1..Len(s) - Len(s) = {}
    OBVIOUS
  <2>3. <<>> \in Seq(T) /\ Len(<<>>) = Len(s) - Len(s)
    OBVIOUS
  <2> HIDE DEF Limiter!From
  <2>4. \A i \in 1..Len(s) - Len(s) : <<>>[i] = s[i + Len(s)]
    BY <2>2
  <2>5. (\A p \in P : Len(s) < p) /\ (Len(s) < Len(s) => Len(s) + 1 \in P)
    BY <1>1
  <2> QED BY <2>1, <2>2, <2>3, <2>4, <2>5
<1>2. CASE P # {}
  <2>1. P \in SUBSET Nat
    OBVIOUS
  <2>2. \E p \in P : \A q \in P : p <= q
    BY <1>2, <2>1, LeastOne
  <2> DEFINE p == CHOOSE i \in P : \A j \in P : i <= j
  <2>3. p \in P /\ \A q \in P : p <= q
    BY <2>2
  <2>4. Limiter!From(s, P) = SubSeq(s, p, Len(s))
    BY <1>2 DEF Limiter!From
  <2> HIDE DEF p
  <2>5. p \in 1..Len(s) /\ p - 1 \in 0..Len(s)
    BY <2>3
  <2>6. /\ SubSeq(s, p, Len(s)) \in Seq(T) /\ Len(SubSeq(s, p, Len(s))) = Len(s) - (p - 1)
        /\ \A i \in 1..Len(s) - (p - 1) : SubSeq(s, p, Len(s))[i] = s[i + (p - 1)]
    BY <2>5
  <2>7. /\ \A q \in P : p - 1 < q
        /\ (p - 1) + 1 \in P
    BY <2>3, <2>5
  <2> QED BY <2>4, <2>5, <2>6, <2>7
<1> QED BY <1>1, <1>2

LEMMA CountersAre ==
    ASSUME NEW cs \in Seq(Counter)
    PROVE  \A i \in 1..Len(cs) : cs[i] \in Counter /\ cs[i].key \in Keys /\ cs[i].count \in Nat /\ cs[i].age \in Nat
<1>1. \A i \in 1..Len(cs) : cs[i] \in Counter
    OBVIOUS
<1> QED BY <1>1 DEF Counter

\* What is dropped from the front has expired, and nothing that has stays.
LEMMA PruneKeeps ==
    ASSUME LimiterParameters, NEW cs, NEW gr, NEW lo, LimiterInv(cs, gr, lo)
    PROVE  LimiterInv(Limiter!Prune(cs), gr, lo) /\ AllLive(Limiter!Prune(cs))
<1> DEFINE P == {i \in DOMAIN cs : cs[i].age < WindowMs}
           ps == Limiter!Prune(cs)
<1>1. InOrder(cs) /\ cs \in Seq(Counter) /\ gr \in [Keys -> Seq(Nat)]
    BY DEF LimiterInv, InOrder
<1>2. P \in SUBSET (1..Len(cs)) /\ DOMAIN cs = 1..Len(cs)
    BY <1>1
<1>3. ps = Limiter!From(cs, P)
    BY DEF Limiter!Prune
<1> HIDE DEF ps
<1>4. ps \in Seq(Counter)
    BY <1>1, <1>2, <1>3, FromIs
<1>5. PICK d \in 0..Len(cs) : /\ Len(ps) = Len(cs) - d
                              /\ \A i \in 1..Len(cs) - d : ps[i] = cs[i + d]
                              /\ \A p \in P : d < p
                              /\ d < Len(cs) => d + 1 \in P
    BY <1>1, <1>2, <1>3, FromIs
<1>6. \A i \in 1..Len(ps) : i + d \in 1..Len(cs) /\ ps[i] = cs[i + d]
    BY <1>1, <1>5
<1>7. AllLive(ps)
  <2> SUFFICES ASSUME NEW i \in 1..Len(ps) PROVE ps[i].age < WindowMs
    BY DEF AllLive
  <2>1. d + 1 \in 1..Len(cs) /\ cs[d + 1].age < WindowMs
    BY <1>1, <1>5
  <2>2. i + d \in 1..Len(cs) /\ ps[i] = cs[i + d]
    BY <1>6
  <2>3. cs[i + d].age <= cs[d + 1].age
    <3>1. CASE i + d = d + 1
      <4>1. cs[i + d] = cs[d + 1]
        BY <3>1
      <4> QED BY <4>1, <1>1, <2>1, CountersAre
    <3>2. CASE d + 1 < i + d
        BY <3>2, <2>1, <2>2, <1>1 DEF InOrder
    <3> QED BY <3>1, <3>2
  <2>4. cs[i + d].age \in Nat /\ cs[d + 1].age \in Nat
    BY <1>1, <2>1, <2>2, CountersAre
  <2> QED BY <2>1, <2>2, <2>3, <2>4 DEF LimiterParameters
<1>8. InOrder(ps)
  <2>1. \A i \in 1..Len(ps) : ps[i].age <= WindowMs /\ 1 <= ps[i].count /\ ps[i].count <= MaxRequests
    BY <1>1, <1>6 DEF InOrder
  <2>2. ASSUME NEW i \in 1..Len(ps), NEW j \in 1..Len(ps), i < j
        PROVE  ps[j].age <= ps[i].age /\ ps[i].key # ps[j].key
    <3>1. /\ i + d \in 1..Len(cs) /\ j + d \in 1..Len(cs) /\ i + d < j + d
          /\ ps[i] = cs[i + d] /\ ps[j] = cs[j + d]
        BY <1>6, <2>2
    <3>2. cs[j + d].age <= cs[i + d].age /\ cs[i + d].key # cs[j + d].key
        BY <1>1, <3>1 DEF InOrder
    <3> QED BY <3>1, <3>2
  <2> QED BY <1>4, <2>1, <2>2 DEF InOrder
<1>9. \A i \in 1..Len(ps) : CountsLast(ps[i], gr[ps[i].key])
    BY <1>6 DEF LimiterInv
<1>10. \A i \in 1..Len(ps) : ps[i].key \notin lo => FewBefore(ps[i], gr[ps[i].key])
    BY <1>6 DEF LimiterInv
<1>11. ASSUME NEW k \in Keys \ lo, \A i \in 1..Len(ps) : ps[i].key # k
       PROVE  Len(gr[k]) <= MaxRequests
  <2>1. CASE \A i \in 1..Len(cs) : cs[i].key # k
    BY <2>1 DEF LimiterInv
  <2>2. CASE \E i \in 1..Len(cs) : cs[i].key = k
    <3>1. PICK i \in 1..Len(cs) : cs[i].key = k
        BY <2>2
    <3>2. CASE cs[i].age < WindowMs
        <4>1. d < i
            BY <1>2, <1>5, <3>2
        <4>2. i - d \in 1..Len(ps)
            BY <1>1, <1>5, <4>1
        <4>3. ps[i - d] = cs[i]
            BY <1>6, <4>2
        <4> QED BY <1>11, <3>1, <4>2, <4>3
    <3>3. CASE ~(cs[i].age < WindowMs)
        BY <3>1, <3>3 DEF LimiterInv, FewBefore
    <3> QED BY <3>2, <3>3
  <2> QED BY <2>1, <2>2
<1> QED BY <1>1, <1>7, <1>8, <1>9, <1>10, <1>11 DEF LimiterInv, ps

\* The oldest counter goes when there are too many, and its key is lost.
LEMMA MakeRoomKeeps ==
    ASSUME LimiterParameters, NEW cs, NEW gr, NEW lo, LimiterInv(cs, gr, lo), AllLive(cs)
    PROVE  LET ms == Limiter!MakeRoom(cs)
           IN  /\ LimiterInv(ms, gr, lo \cup {c.key : c \in Limiter!Range(cs) \ Limiter!Range(ms)}) /\ AllLive(ms)
               /\ \A k : (\A i \in 1..Len(cs) : cs[i].key # k) => \A i \in 1..Len(ms) : ms[i].key # k
<1> DEFINE ms == Limiter!MakeRoom(cs)
           gone == {c.key : c \in Limiter!Range(cs) \ Limiter!Range(ms)}
<1>1. InOrder(cs) /\ cs \in Seq(Counter) /\ gr \in [Keys -> Seq(Nat)]
    BY DEF LimiterInv, InOrder
<1>2. CASE ms = cs
  <2>1. gone = {}
    BY <1>2
  <2> QED BY <1>2, <2>1
<1>3. CASE ms # cs
  <2>1. ms = Tail(cs) /\ Len(cs) >= MaxTrackedKeys
    BY <1>3 DEF Limiter!MakeRoom
  <2> HIDE DEF ms
  <2>2. 1 \in 1..Len(cs) /\ cs # <<>>
    BY <1>1, <2>1 DEF LimiterParameters
  <2>3. ms \in Seq(Counter) /\ Len(ms) = Len(cs) - 1 /\ \A i \in 1..Len(ms) : i + 1 \in 1..Len(cs) /\ ms[i] = cs[i + 1]
    BY <1>1, <2>1, <2>2
  <2>4. cs[1].key \in gone
    <3>1. \A i \in 1..Len(ms) : ms[i].key # cs[1].key
        BY <1>1, <2>2, <2>3 DEF InOrder
    <3>2. cs[1] \notin Limiter!Range(ms)
      <4>1. DOMAIN ms = 1..Len(ms)
        BY <2>3
      <4>2. \A c \in Limiter!Range(ms) : c.key # cs[1].key
        BY <3>1, <4>1 DEF Limiter!Range
      <4> QED BY <4>2
    <3>3. cs[1] \in Limiter!Range(cs)
        BY <1>1, <2>2 DEF Limiter!Range
    <3> QED BY <3>2, <3>3
  <2> HIDE DEF gone
  <2>5. InOrder(ms)
    <3>1. \A i \in 1..Len(ms) : ms[i].age <= WindowMs /\ 1 <= ms[i].count /\ ms[i].count <= MaxRequests
        BY <1>1, <2>3 DEF InOrder
    <3>2. ASSUME NEW i \in 1..Len(ms), NEW j \in 1..Len(ms), i < j
          PROVE  ms[j].age <= ms[i].age /\ ms[i].key # ms[j].key
      <4>1. /\ i + 1 \in 1..Len(cs) /\ j + 1 \in 1..Len(cs) /\ i + 1 < j + 1
            /\ ms[i] = cs[i + 1] /\ ms[j] = cs[j + 1]
        BY <2>3, <3>2
      <4>2. cs[j + 1].age <= cs[i + 1].age /\ cs[i + 1].key # cs[j + 1].key
        BY <1>1, <4>1 DEF InOrder
      <4> QED BY <4>1, <4>2
    <3> QED BY <2>3, <3>1, <3>2 DEF InOrder
  <2>6. \A i \in 1..Len(ms) : CountsLast(ms[i], gr[ms[i].key])
    BY <2>3 DEF LimiterInv
  <2>7. \A i \in 1..Len(ms) : ms[i].key \notin lo \cup gone => FewBefore(ms[i], gr[ms[i].key])
    BY <2>3 DEF LimiterInv
  <2>8. ASSUME NEW k \in Keys \ (lo \cup gone), \A i \in 1..Len(ms) : ms[i].key # k
        PROVE  Len(gr[k]) <= MaxRequests
    <3>1. ASSUME NEW i \in 1..Len(cs) PROVE cs[i].key # k
        <4>1. CASE i = 1
            BY <2>4, <4>1
        <4>2. CASE i # 1
            <5>1. i - 1 \in 1..Len(ms) /\ ms[i - 1] = cs[i]
                BY <1>1, <2>3, <4>2
            <5> QED BY <2>8, <5>1
        <4> QED BY <4>1, <4>2
    <3> QED BY <3>1 DEF LimiterInv
  <2>9. AllLive(ms)
    BY <2>3 DEF AllLive
  <2>10. \A k : (\A i \in 1..Len(cs) : cs[i].key # k) => \A i \in 1..Len(ms) : ms[i].key # k
    BY <2>3
  <2> QED BY <1>1, <2>5, <2>6, <2>7, <2>8, <2>9, <2>10 DEF LimiterInv, gone, ms
<1> QED BY <1>2, <1>3

LEMMA AppendKeeps ==
    ASSUME LimiterParameters, NEW cs, NEW gr, NEW lo, LimiterInv(cs, gr, lo), NEW k \in Keys,
           \A i \in 1..Len(cs) : cs[i].key # k
    PROVE  LimiterInv(Append(cs, [key |-> k, count |-> 1, age |-> 0]), [gr EXCEPT ![k] = Append(gr[k], 0)], lo)
<1> DEFINE new == [key |-> k, count |-> 1, age |-> 0]
           ns == Append(cs, new)
           g == gr[k]
           h == Append(g, 0)
           nr == [gr EXCEPT ![k] = h]
<1>1. InOrder(cs) /\ cs \in Seq(Counter) /\ gr \in [Keys -> Seq(Nat)] /\ g \in Seq(Nat)
    BY DEF LimiterInv, InOrder
<1>2. new \in Counter /\ new.key = k /\ new.count = 1 /\ new.age = 0
    BY DEF Counter
<1> HIDE DEF new
<1>3. /\ ns \in Seq(Counter) /\ Len(ns) = Len(cs) + 1 /\ ns[Len(cs) + 1] = new
      /\ \A i \in 1..Len(cs) : ns[i] = cs[i]
    BY <1>1, <1>2
<1>4. /\ h \in Seq(Nat) /\ Len(h) = Len(g) + 1 /\ h[Len(g) + 1] = 0
      /\ \A n \in 1..Len(h) : h[n] \in Nat
    BY <1>1
<1> HIDE DEF h, g
<1>5. nr \in [Keys -> Seq(Nat)] /\ nr[k] = h /\ \A l \in Keys \ {k} : nr[l] = gr[l]
    BY <1>1, <1>4
<1> HIDE DEF ns, nr
<1>6. \A i \in 1..Len(ns) : (i \in 1..Len(cs) /\ ns[i] = cs[i]) \/ (i = Len(cs) + 1 /\ ns[i] = new)
    BY <1>1, <1>3
<1>7. \A i \in 1..Len(cs) : cs[i].key \in Keys /\ cs[i].age \in Nat /\ nr[cs[i].key] = gr[cs[i].key]
    BY <1>1, <1>5, CountersAre
<1>8. InOrder(ns)
  <2>1. ASSUME NEW i \in 1..Len(ns)
        PROVE  ns[i].age <= WindowMs /\ 1 <= ns[i].count /\ ns[i].count <= MaxRequests
    <3>1. CASE i \in 1..Len(cs) /\ ns[i] = cs[i]
        BY <1>1, <3>1 DEF InOrder
    <3>2. CASE ns[i] = new
        BY <1>2, <3>2 DEF LimiterParameters
    <3> QED BY <1>6, <3>1, <3>2
  <2>2. ASSUME NEW i \in 1..Len(ns), NEW j \in 1..Len(ns), i < j
        PROVE  ns[j].age <= ns[i].age /\ ns[i].key # ns[j].key
    <3>1. i \in 1..Len(cs) /\ ns[i] = cs[i] /\ cs[i].age \in Nat
        BY <1>1, <1>3, <1>6, <1>7, <2>2
    <3>2. CASE j \in 1..Len(cs) /\ ns[j] = cs[j]
        BY <1>1, <2>2, <3>1, <3>2 DEF InOrder
    <3>3. CASE ns[j] = new
        BY <1>2, <3>1, <3>3
    <3> QED BY <1>6, <3>2, <3>3
  <2> QED BY <1>3, <2>1, <2>2 DEF InOrder
<1>9. Len(g) \in Nat /\ (k \notin lo => Len(g) <= MaxRequests)
    BY <1>1 DEF LimiterInv, g
<1>10. CountsLast(new, h)
    BY <1>2, <1>4, <1>9 DEF CountsLast
<1>11. k \notin lo => FewBefore(new, h)
    BY <1>2, <1>4, <1>9 DEF FewBefore, LimiterParameters
<1>12. \A i \in 1..Len(cs) : CountsLast(cs[i], nr[cs[i].key]) /\ (cs[i].key \notin lo => FewBefore(cs[i], nr[cs[i].key]))
    BY <1>7 DEF LimiterInv
<1>13. CountsLast(new, nr[new.key]) /\ (new.key \notin lo => FewBefore(new, nr[new.key]))
    BY <1>2, <1>5, <1>10, <1>11
<1>16. \A i \in 1..Len(ns) : CountsLast(ns[i], nr[ns[i].key]) /\ (ns[i].key \notin lo => FewBefore(ns[i], nr[ns[i].key]))
    BY <1>6, <1>12, <1>13
<1>14. ASSUME NEW l \in Keys \ lo, \A i \in 1..Len(ns) : ns[i].key # l
       PROVE  Len(nr[l]) <= MaxRequests
  <2>1. Len(cs) + 1 \in 1..Len(ns) /\ 1..Len(cs) \subseteq 1..Len(ns)
    BY <1>1, <1>3
  <2>2. l # k /\ \A i \in 1..Len(cs) : cs[i].key # l
    BY <1>2, <1>3, <1>14, <2>1
  <2> QED BY <1>5, <2>2 DEF LimiterInv
<1>15. LimiterInv(ns, nr, lo)
    BY <1>5, <1>8, <1>14, <1>16 DEF LimiterInv
<1> QED BY <1>15 DEF ns, nr, new, h, g

LEMMA BumpKeeps ==
    ASSUME LimiterParameters, NEW cs, NEW gr, NEW lo, LimiterInv(cs, gr, lo),
           NEW i \in 1..Len(cs), cs[i].count < MaxRequests, cs[i].age < WindowMs
    PROVE  LimiterInv(Limiter!Bumped(cs, i), [gr EXCEPT ![cs[i].key] = Append(gr[cs[i].key], 0)], lo)
<1> DEFINE c == cs[i]
           k == c.key
           new == [c EXCEPT !.count = c.count + 1]
           ns == Limiter!Bumped(cs, i)
           g == gr[k]
           h == Append(g, 0)
           nr == [gr EXCEPT ![k] = h]
<1>1. InOrder(cs) /\ cs \in Seq(Counter) /\ gr \in [Keys -> Seq(Nat)]
    BY DEF LimiterInv, InOrder
<1>2. c \in Counter /\ k \in Keys /\ c.age \in Nat /\ c.count \in Nat
    BY <1>1, CountersAre
<1>3. new \in Counter /\ new.key = k /\ new.age = c.age /\ new.count = c.count + 1
    BY <1>2 DEF Counter
<1>4. ns = [cs EXCEPT ![i] = new]
    BY DEF Limiter!Bumped
<1>5. g \in Seq(Nat)
    BY <1>1, <1>2
<1>6. /\ h \in Seq(Nat) /\ Len(h) = Len(g) + 1 /\ h[Len(g) + 1] = 0
      /\ \A n \in 1..Len(g) : h[n] = g[n]
    BY <1>5
<1>7. /\ CountsLast(c, g) /\ (k \notin lo => FewBefore(c, g)) /\ c.age <= WindowMs
      /\ 1 <= c.count /\ c.count < MaxRequests
    BY <1>1 DEF LimiterInv, InOrder
<1> HIDE DEF new, ns, h, g, k, c
<1>8. /\ ns \in Seq(Counter) /\ Len(ns) = Len(cs) /\ ns[i] = new
      /\ \A j \in 1..Len(cs) \ {i} : ns[j] = cs[j]
    BY <1>1, <1>3, <1>4
<1>9. nr \in [Keys -> Seq(Nat)] /\ nr[k] = h /\ \A l \in Keys \ {k} : nr[l] = gr[l]
    BY <1>1, <1>2, <1>6
<1> HIDE DEF nr
<1>10. \A j \in 1..Len(cs) : ns[j].key = cs[j].key /\ ns[j].age = cs[j].age
    BY <1>3, <1>8 DEF c, k
<1>11. InOrder(ns)
  <2>1. ASSUME NEW j \in 1..Len(ns)
        PROVE  ns[j].age <= WindowMs /\ 1 <= ns[j].count /\ ns[j].count <= MaxRequests
    BY <1>1, <1>2, <1>3, <1>7, <1>8 DEF InOrder, LimiterParameters
  <2>2. ASSUME NEW j \in 1..Len(ns), NEW n \in 1..Len(ns), j < n
        PROVE  ns[n].age <= ns[j].age /\ ns[j].key # ns[n].key
    BY <1>1, <1>8, <1>10, <2>2 DEF InOrder
  <2> QED BY <1>8, <2>1, <2>2 DEF InOrder
<1>12. \A j \in 1..Len(cs) \ {i} : cs[j].key \in Keys \ {k}
  <2> SUFFICES ASSUME NEW j \in 1..Len(cs) \ {i} PROVE cs[j].key # cs[i].key
    BY <1>1, CountersAre DEF k, c
  <2>1. j < i \/ i < j
    OBVIOUS
  <2> QED BY <1>1, <2>1 DEF InOrder
<1>13. CountsLast(new, h)
  <2> SUFFICES ASSUME c.age < WindowMs
               PROVE  c.count + 1 <= Len(h) /\ \A n \in 1..Len(h) : Len(h) < n + (c.count + 1) => h[n] <= c.age
    BY <1>3 DEF CountsLast
  <2>1. c.count <= Len(g) /\ \A n \in 1..Len(g) : Len(g) < n + c.count => g[n] <= c.age
    BY <1>7 DEF CountsLast
  <2>2. Len(g) \in Nat
    BY <1>5
  <2>3. ASSUME NEW n \in 1..Len(h), Len(h) < n + (c.count + 1) PROVE h[n] <= c.age
    <3>1. CASE n = Len(g) + 1
        BY <1>2, <1>6, <3>1
    <3>2. CASE n # Len(g) + 1
      <4>0. c.count \in Nat /\ Len(h) = Len(g) + 1 /\ n \in Nat
        BY <1>2, <1>6
      <4>1. n \in 1..Len(g) /\ Len(g) < n + c.count
        BY <2>2, <2>3, <3>2, <4>0
      <4> QED BY <1>6, <2>1, <4>1
    <3> QED BY <3>1, <3>2
  <2> QED BY <1>2, <1>6, <2>1, <2>2, <2>3
<1>15. c.age < WindowMs
    BY DEF c
<1>14. ASSUME k \notin lo PROVE FewBefore(new, h)
  <2>1. Len(g) <= MaxRequests + c.count /\ \A n \in 1..Len(g) : n + c.count <= Len(g) => c.age <= g[n]
    BY <1>7, <1>14, <1>15 DEF FewBefore
  <2>2. Len(g) \in Nat
    BY <1>5
  <2>3. Len(h) <= MaxRequests + (c.count + 1)
    BY <1>2, <1>6, <2>1, <2>2 DEF LimiterParameters
  <2>4. ASSUME NEW n \in 1..Len(h), n + (c.count + 1) <= Len(h) PROVE c.age <= h[n]
    <3>0. c.count \in Nat /\ 1 <= c.count /\ Len(h) = Len(g) + 1 /\ n \in Nat
        BY <1>2, <1>6, <1>7
    <3>1. n \in 1..Len(g) /\ n + c.count <= Len(g)
        BY <2>2, <2>4, <3>0
    <3> QED BY <1>6, <2>1, <3>1
  <2> QED BY <1>3, <1>15, <2>3, <2>4 DEF FewBefore
<1>16. \A j \in 1..Len(cs) \ {i} : ns[j] = cs[j] /\ nr[cs[j].key] = gr[cs[j].key]
    BY <1>8, <1>9, <1>12
<1>17. \A j \in 1..Len(ns) : CountsLast(ns[j], nr[ns[j].key])
    BY <1>3, <1>8, <1>9, <1>13, <1>16 DEF LimiterInv
<1>18. \A j \in 1..Len(ns) : ns[j].key \notin lo => FewBefore(ns[j], nr[ns[j].key])
    BY <1>3, <1>8, <1>9, <1>14, <1>16 DEF LimiterInv
<1>19. ASSUME NEW l \in Keys \ lo, \A j \in 1..Len(ns) : ns[j].key # l
       PROVE  Len(nr[l]) <= MaxRequests
  <2>1. l # k /\ \A j \in 1..Len(cs) : cs[j].key # l
    BY <1>3, <1>8, <1>10, <1>19
  <2> QED BY <1>9, <2>1 DEF LimiterInv
<1>20. LimiterInv(ns, nr, lo)
    BY <1>9, <1>11, <1>17, <1>18, <1>19 DEF LimiterInv
<1> QED BY <1>20 DEF ns, nr, h, g, k, c

\* What is left of a key's requests when all become older.
LEMMA RecentIs ==
    ASSUME LimiterParameters, NEW g \in Seq(Nat)
    PROVE  LET h == Limiter!Recent(g)
           IN  /\ h \in Seq(Nat)
               /\ \E d \in 0..Len(g) : /\ Len(h) = Len(g) - d
                                       /\ \A i \in 1..Len(g) - d : h[i] = g[i + d] + 1
                                       /\ \A p \in 1..Len(g) : g[p] + 1 < WindowMs => d < p
                                       /\ d < Len(g) => g[d + 1] + 1 < WindowMs
<1> DEFINE s == [i \in DOMAIN g |-> g[i] + 1]
           P == {i \in DOMAIN g : g[i] + 1 < WindowMs}
           h == Limiter!Recent(g)
<1>1. DOMAIN g = 1..Len(g) /\ Len(g) \in Nat /\ \A i \in 1..Len(g) : g[i] \in Nat
    OBVIOUS
<1>2. s \in Seq(Nat) /\ Len(s) = Len(g) /\ \A i \in 1..Len(g) : s[i] = g[i] + 1
    BY <1>1
<1>3. P \in SUBSET (1..Len(s)) /\ \A i \in 1..Len(g) : i \in P <=> g[i] + 1 < WindowMs
    BY <1>1, <1>2
<1>4. h = Limiter!From(s, P)
    BY DEF Limiter!Recent
<1> HIDE DEF s, P, h
<1>5. h \in Seq(Nat)
    BY <1>2, <1>3, <1>4, FromIs
<1>6. PICK d \in 0..Len(s) : /\ Len(h) = Len(s) - d
                             /\ \A i \in 1..Len(s) - d : h[i] = s[i + d]
                             /\ \A p \in P : d < p
                             /\ d < Len(s) => d + 1 \in P
    BY <1>2, <1>3, <1>4, FromIs
<1>7. \A i \in 1..Len(g) - d : h[i] = g[i + d] + 1
  <2> SUFFICES ASSUME NEW i \in 1..Len(g) - d PROVE h[i] = g[i + d] + 1
    OBVIOUS
  <2>1. i + d \in 1..Len(g) /\ h[i] = s[i + d]
    BY <1>1, <1>2, <1>6
  <2> QED BY <1>2, <2>1
<1>8. \A p \in 1..Len(g) : g[p] + 1 < WindowMs => d < p
    BY <1>3, <1>6
<1>9. d < Len(g) => g[d + 1] + 1 < WindowMs
    BY <1>1, <1>2, <1>3, <1>6
<1> QED BY <1>2, <1>5, <1>6, <1>7, <1>8, <1>9 DEF h

LEMMA OlderCounts ==
    ASSUME LimiterParameters, NEW c \in Counter, 1 <= c.count, c.count <= MaxRequests, c.age <= WindowMs,
           NEW g \in Seq(Nat), NEW e \in Counter, e.count = c.count, e.age = Limiter!Older(c.age)
    PROVE  /\ CountsLast(c, g) => CountsLast(e, Limiter!Recent(g))
           /\ FewBefore(c, g) => FewBefore(e, Limiter!Recent(g))
           /\ Len(Limiter!Recent(g)) <= Len(g)
<1> DEFINE h == Limiter!Recent(g)
<1>1. /\ c.age \in Nat /\ c.count \in Nat /\ e.age \in Nat /\ e.count = c.count /\ Len(g) \in Nat
      /\ \A n \in 1..Len(g) : g[n] \in Nat
      /\ WindowMs \in Nat /\ MaxRequests \in Nat
    BY DEF Counter, LimiterParameters
<1>2. e.age = IF c.age < WindowMs THEN c.age + 1 ELSE c.age
    BY DEF Limiter!Older
<1>3. PICK d \in 0..Len(g) : /\ Len(h) = Len(g) - d
                             /\ \A i \in 1..Len(g) - d : h[i] = g[i + d] + 1
                             /\ \A p \in 1..Len(g) : g[p] + 1 < WindowMs => d < p
                             /\ d < Len(g) => g[d + 1] + 1 < WindowMs
    BY RecentIs
<1> HIDE DEF h
<1>4. \A n \in 1..Len(h) : n + d \in 1..Len(g) /\ h[n] = g[n + d] + 1
    BY <1>1, <1>3
<1>5. ASSUME CountsLast(c, g), e.age < WindowMs PROVE CountsLast(e, h)
  <2>1. c.age < WindowMs /\ e.age = c.age + 1
    BY <1>1, <1>2, <1>5
  <2>2. c.count <= Len(g) /\ \A n \in 1..Len(g) : Len(g) < n + c.count => g[n] <= c.age
    BY <1>5, <2>1 DEF CountsLast
  <2> DEFINE f == Len(g) - c.count + 1
  <2>8. c.count \in Nat /\ Len(g) \in Nat /\ 1 <= c.count /\ c.count <= Len(g)
    BY <1>1, <2>2
  <2>3. f \in 1..Len(g) /\ Len(g) < f + c.count
    BY <2>8
  <2> HIDE DEF f
  <2>4. g[f] + 1 < WindowMs
    <3>1. g[f] <= c.age /\ g[f] \in Nat
        BY <1>1, <2>2, <2>3
    <3> QED BY <1>1, <1>5, <2>1, <3>1
  <2>5. d < f
    BY <1>3, <2>3, <2>4
  <2>6. c.count <= Len(h)
    BY <1>1, <1>3, <2>5 DEF f
  <2>7. ASSUME NEW n \in 1..Len(h), Len(h) < n + c.count PROVE h[n] <= e.age
    <3>1. n + d \in 1..Len(g) /\ h[n] = g[n + d] + 1 /\ Len(g) < (n + d) + c.count
      <4>1. Len(h) = Len(g) - d /\ d \in Nat /\ n \in Nat
        BY <1>1, <1>3
      <4>2. Len(g) < (n + d) + c.count
        BY <1>1, <2>7, <4>1
      <4> QED BY <1>4, <4>2
    <3>2. g[n + d] <= c.age /\ g[n + d] \in Nat
        BY <1>1, <2>2, <3>1
    <3>3. c.age \in Nat
        BY <1>1
    <3> QED BY <2>1, <3>1, <3>2, <3>3
  <2> QED BY <1>1, <2>6, <2>7 DEF CountsLast
<1>6. Len(h) <= Len(g) /\ Len(h) \in Nat
    BY <1>1, <1>3
<1>7. ASSUME FewBefore(c, g), e.age < WindowMs PROVE FewBefore(e, h)
  <2>1. c.age < WindowMs /\ e.age = c.age + 1
    BY <1>1, <1>2, <1>7
  <2>2. Len(g) <= MaxRequests + c.count /\ \A n \in 1..Len(g) : n + c.count <= Len(g) => c.age <= g[n]
    BY <1>7, <2>1 DEF FewBefore
  <2>3. ASSUME NEW n \in 1..Len(h), n + c.count <= Len(h) PROVE e.age <= h[n]
    <3>1. n + d \in 1..Len(g) /\ h[n] = g[n + d] + 1 /\ (n + d) + c.count <= Len(g)
      <4>1. Len(h) = Len(g) - d /\ d \in Nat /\ n \in Nat
        BY <1>1, <1>3
      <4>2. (n + d) + c.count <= Len(g)
        BY <1>1, <2>3, <4>1
      <4> QED BY <1>4, <4>2
    <3>2. c.age <= g[n + d] /\ g[n + d] \in Nat
        BY <1>1, <2>2, <3>1
    <3>3. c.age \in Nat
        BY <1>1
    <3> QED BY <2>1, <3>1, <3>2, <3>3
  <2>4. Len(h) <= MaxRequests + e.count
    BY <1>1, <1>6, <2>2
  <2> QED BY <1>1, <1>7, <2>3, <2>4 DEF FewBefore
<1>8. ASSUME FewBefore(c, g), ~(e.age < WindowMs) PROVE Len(h) <= MaxRequests
  <2>1. CASE c.age < WindowMs
    <3>1. c.age + 1 = WindowMs
        BY <1>1, <1>2, <1>8, <2>1
    <3>2. \A n \in 1..Len(g) : n + c.count <= Len(g) => c.age <= g[n]
        BY <1>8, <2>1 DEF FewBefore
    <3>3. CASE d < Len(g)
      <4>0. d + 1 \in 1..Len(g) /\ g[d + 1] + 1 < WindowMs
        BY <1>1, <1>3, <3>3
      <4>1. d + 1 \in 1..Len(g) /\ g[d + 1] < c.age /\ g[d + 1] \in Nat
        BY <1>1, <3>1, <4>0
      <4>2. ~((d + 1) + c.count <= Len(g))
        BY <1>1, <3>2, <4>1
      <4>3. /\ c.count \in Nat /\ Len(g) \in Nat /\ d \in Nat /\ MaxRequests \in Nat
            /\ Len(h) = Len(g) - d /\ c.count <= MaxRequests
        BY <1>1, <1>3
      <4> QED BY <4>2, <4>3
    <3>4. CASE ~(d < Len(g))
        BY <1>1, <1>3, <3>4
    <3> QED BY <3>3, <3>4
  <2>2. CASE ~(c.age < WindowMs)
    BY <1>1, <1>6, <1>8, <2>2 DEF FewBefore
  <2> QED BY <2>1, <2>2
<1>9. CountsLast(c, g) => CountsLast(e, h)
    BY <1>5 DEF CountsLast
<1>10. FewBefore(c, g) => FewBefore(e, h)
    BY <1>7, <1>8 DEF FewBefore
<1> QED BY <1>6, <1>9, <1>10 DEF h

LEMMA TickKeeps ==
    ASSUME LimiterParameters, NEW cs, NEW gr, NEW lo, LimiterInv(cs, gr, lo)
    PROVE  LimiterInv([i \in DOMAIN cs |-> [cs[i] EXCEPT !.age = Limiter!Older(cs[i].age)]],
                      [k \in Keys |-> Limiter!Recent(gr[k])], lo)
<1> DEFINE Old1(c) == [c EXCEPT !.age = Limiter!Older(c.age)]
           ns == [i \in DOMAIN cs |-> Old1(cs[i])]
           nr == [k \in Keys |-> Limiter!Recent(gr[k])]
<1>1. InOrder(cs) /\ cs \in Seq(Counter) /\ gr \in [Keys -> Seq(Nat)] /\ DOMAIN cs = 1..Len(cs)
    BY DEF LimiterInv, InOrder
<1>2. \A i \in 1..Len(cs) : /\ cs[i] \in Counter /\ cs[i].age <= WindowMs /\ 1 <= cs[i].count
                             /\ cs[i].count <= MaxRequests /\ cs[i].key \in Keys /\ cs[i].age \in Nat
    BY <1>1, CountersAre DEF InOrder
<1>3. \A a \in Nat : a <= WindowMs => /\ Limiter!Older(a) \in Nat /\ Limiter!Older(a) <= WindowMs
                                       /\ \A b \in Nat : b <= a => Limiter!Older(b) <= Limiter!Older(a)
    BY DEF Limiter!Older, LimiterParameters
<1>4. \A c \in Counter : c.age <= WindowMs =>
            /\ Old1(c) \in Counter /\ Old1(c).age = Limiter!Older(c.age) /\ Old1(c).count = c.count
            /\ Old1(c).key = c.key
    BY <1>3 DEF Counter
<1> HIDE DEF Old1
<1>5. /\ \A i \in 1..Len(cs) : ns[i] = Old1(cs[i])
      /\ ns \in Seq(Counter) /\ Len(ns) = Len(cs)
    BY <1>1, <1>2, <1>4
<1>6. \A k \in Keys : gr[k] \in Seq(Nat) /\ nr[k] = Limiter!Recent(gr[k])
    BY <1>1
<1>7. nr \in [Keys -> Seq(Nat)]
    BY <1>6, RecentIs
<1> HIDE DEF ns, nr
<1>8. \A i \in 1..Len(cs) : /\ ns[i] \in Counter /\ ns[i].age = Limiter!Older(cs[i].age)
                             /\ ns[i].count = cs[i].count /\ ns[i].key = cs[i].key
    BY <1>2, <1>4, <1>5
<1>9. InOrder(ns)
  <2>1. ASSUME NEW i \in 1..Len(ns)
        PROVE  ns[i].age <= WindowMs /\ 1 <= ns[i].count /\ ns[i].count <= MaxRequests
    BY <1>2, <1>3, <1>5, <1>8
  <2>2. ASSUME NEW i \in 1..Len(ns), NEW j \in 1..Len(ns), i < j
        PROVE  ns[j].age <= ns[i].age /\ ns[i].key # ns[j].key
    <3>1. cs[j].age <= cs[i].age /\ cs[i].key # cs[j].key
        BY <1>1, <1>5, <2>2 DEF InOrder
    <3> QED BY <1>2, <1>3, <1>5, <1>8, <3>1
  <2> QED BY <1>5, <2>1, <2>2 DEF InOrder
<1>10. ASSUME NEW i \in 1..Len(ns)
       PROVE  /\ CountsLast(ns[i], nr[ns[i].key])
              /\ ns[i].key \notin lo => FewBefore(ns[i], nr[ns[i].key])
  <2>1. i \in 1..Len(cs) /\ ns[i].key = cs[i].key /\ nr[ns[i].key] = Limiter!Recent(gr[cs[i].key])
    BY <1>2, <1>5, <1>6, <1>8
  <2>2. /\ CountsLast(cs[i], gr[cs[i].key])
        /\ cs[i].key \notin lo => FewBefore(cs[i], gr[cs[i].key])
    BY <2>1 DEF LimiterInv
  <2>3. gr[cs[i].key] \in Seq(Nat)
    BY <1>2, <1>6, <2>1
  <2> QED BY <1>2, <1>8, <2>1, <2>2, <2>3, OlderCounts
<1>11. ASSUME NEW k \in Keys \ lo, \A i \in 1..Len(ns) : ns[i].key # k
       PROVE  Len(nr[k]) <= MaxRequests
  <2>1. \A i \in 1..Len(cs) : cs[i].key # k
    BY <1>5, <1>8, <1>11
  <2>2. Len(gr[k]) <= MaxRequests /\ gr[k] \in Seq(Nat)
    BY <1>6, <2>1 DEF LimiterInv
  <2>3. \E d \in 0..Len(gr[k]) : Len(Limiter!Recent(gr[k])) = Len(gr[k]) - d
    BY <2>2, RecentIs
  <2>4. Len(gr[k]) \in Nat /\ Len(nr[k]) = Len(Limiter!Recent(gr[k]))
    BY <1>6, <2>2
  <2> QED BY <2>2, <2>3, <2>4 DEF LimiterParameters
<1>12. LimiterInv(ns, nr, lo)
    BY <1>7, <1>9, <1>10, <1>11 DEF LimiterInv
<1> QED BY <1>12 DEF ns, nr, Old1

LimitsInv == LimiterInv(counters, granted, lost)

LEMMA LimiterInit ==
    ASSUME LimiterParameters, Limiter!Init
    PROVE  LimitsInv
<1>1. /\ counters = <<>> /\ lost = {} /\ granted = [k \in Keys |-> <<>>]
    BY DEF Limiter!Init
<1>2. counters \in Seq(Counter) /\ Len(counters) = 0 /\ granted \in [Keys -> Seq(Nat)]
    BY <1>1
<1>3. \A k \in Keys : granted[k] = <<>> /\ Len(granted[k]) <= MaxRequests
    BY <1>1 DEF LimiterParameters
<1> QED BY <1>1, <1>2, <1>3 DEF LimitsInv, LimiterInv, InOrder

LEMMA LimiterKeeps ==
    ASSUME LimiterParameters, LimitsInv, Limiter!Next
    PROVE  LimitsInv'
<1> DEFINE ps == Limiter!Prune(counters)
<1>1. LimiterInv(counters, granted, lost)
    BY DEF LimitsInv
<1>2. LimiterInv(ps, granted, lost) /\ AllLive(ps)
    BY <1>1, PruneKeeps
<1>3. ps \in Seq(Counter) /\ DOMAIN ps = 1..Len(ps)
    BY <1>2 DEF LimiterInv, InOrder
<1>4. ASSUME NEW k \in Keys, Limiter!ConsumeFirst(k) PROVE LimitsInv'
  <2> DEFINE ms == Limiter!MakeRoom(ps)
             lo == lost \cup {c.key : c \in Limiter!Range(ps) \ Limiter!Range(ms)}
  <2>1. /\ Limiter!At(ps, k) = {} /\ counters' = Append(ms, [key |-> k, count |-> 1, age |-> 0])
        /\ lost' = lo /\ granted' = [granted EXCEPT ![k] = Append(granted[k], 0)]
    BY <1>4 DEF Limiter!ConsumeFirst, Limiter!Grant
  <2>2. \A i \in 1..Len(ps) : ps[i].key # k
    BY <1>3, <2>1 DEF Limiter!At
  <2>3. LimiterInv(ms, granted, lo) /\ \A i \in 1..Len(ms) : ms[i].key # k
    BY <1>2, <2>2, MakeRoomKeeps
  <2> HIDE DEF ms, lo
  <2>4. LimiterInv(Append(ms, [key |-> k, count |-> 1, age |-> 0]), [granted EXCEPT ![k] = Append(granted[k], 0)], lo)
    BY <2>3, AppendKeeps
  <2> QED BY <2>1, <2>4 DEF LimitsInv
<1>5. ASSUME NEW k \in Keys, Limiter!ConsumeMore(k) PROVE LimitsInv'
  <2>1. PICK i \in Limiter!At(ps, k) : ps[i].count < MaxRequests /\ counters' = Limiter!Bumped(ps, i)
    BY <1>5 DEF Limiter!ConsumeMore
  <2>2. granted' = [granted EXCEPT ![k] = Append(granted[k], 0)] /\ lost' = lost
    BY <1>5 DEF Limiter!ConsumeMore, Limiter!Grant
  <2>3. i \in 1..Len(ps) /\ ps[i].key = k /\ ps[i].age < WindowMs
    BY <1>2, <1>3 DEF Limiter!At, AllLive
  <2> HIDE DEF ps
  <2>4. LimiterInv(Limiter!Bumped(ps, i), [granted EXCEPT ![k] = Append(granted[k], 0)], lost)
    BY <1>2, <2>1, <2>3, BumpKeeps
  <2> QED BY <2>1, <2>2, <2>4 DEF LimitsInv
<1>6. ASSUME NEW k \in Keys, Limiter!Refuse(k) PROVE LimitsInv'
  <2>1. counters' = ps /\ granted' = granted /\ lost' = lost
    BY <1>6 DEF Limiter!Refuse
  <2> QED BY <1>2, <2>1 DEF LimitsInv
<1>7. ASSUME Limiter!Tick PROVE LimitsInv'
  <2>1. /\ counters' = [i \in DOMAIN counters |-> [counters[i] EXCEPT !.age = Limiter!Older(counters[i].age)]]
        /\ granted' = [k \in Keys |-> Limiter!Recent(granted[k])] /\ lost' = lost
    BY <1>7 DEF Limiter!Tick
  <2> QED BY <1>1, <2>1, TickKeeps DEF LimitsInv
<1> QED BY <1>4, <1>5, <1>6, <1>7 DEF Limiter!Next

LEMMA LimiterGives ==
    ASSUME LimiterParameters, LimitsInv
    PROVE  Limiter!RefusedOnlyWhenSpent /\ Limiter!TwiceAtMost
<1>1. LimiterInv(counters, granted, lost)
    BY DEF LimitsInv
<1>2. \A k \in Keys : granted[k] \in Seq(Nat) /\ Len(granted[k]) \in Nat
    BY <1>1 DEF LimiterInv
<1>3. ASSUME NEW k \in Keys, Limiter!Spent(k) PROVE Len(granted[k]) >= MaxRequests
  <2> DEFINE ps == Limiter!Prune(counters)
  <2>1. LimiterInv(ps, granted, lost) /\ AllLive(ps)
    BY <1>1, PruneKeeps
  <2>2. ps \in Seq(Counter) /\ DOMAIN ps = 1..Len(ps)
    BY <2>1 DEF LimiterInv, InOrder
  <2>3. PICK i \in Limiter!At(ps, k) : ps[i].count >= MaxRequests
    BY <1>3 DEF Limiter!Spent
  <2>4. i \in 1..Len(ps) /\ ps[i].key = k /\ ps[i].count \in Nat /\ ps[i].age < WindowMs
    BY <2>1, <2>2, CountersAre DEF Limiter!At, AllLive
  <2> HIDE DEF ps
  <2>5. ps[i].count <= Len(granted[k])
    BY <2>1, <2>4 DEF LimiterInv, CountsLast
  <2> QED BY <1>2, <2>3, <2>4, <2>5 DEF LimiterParameters
<1>4. ASSUME NEW k \in Keys \ lost PROVE Len(granted[k]) <= 2 * MaxRequests
  <2>1. CASE \A i \in 1..Len(counters) : counters[i].key # k
    <3>1. Len(granted[k]) <= MaxRequests
        BY <1>1, <2>1 DEF LimiterInv
    <3> QED BY <1>2, <3>1 DEF LimiterParameters
  <2>2. CASE \E i \in 1..Len(counters) : counters[i].key = k
    <3>1. PICK i \in 1..Len(counters) : counters[i].key = k
        BY <2>2
    <3>2. counters[i].count \in Nat /\ counters[i].count <= MaxRequests
        BY <1>1, CountersAre DEF LimiterInv, InOrder
    <3>3. Len(granted[k]) <= MaxRequests + counters[i].count \/ Len(granted[k]) <= MaxRequests
        BY <1>1, <3>1 DEF LimiterInv, FewBefore
    <3> QED BY <1>2, <3>2, <3>3 DEF LimiterParameters
  <2> QED BY <2>1, <2>2
<1> QED BY <1>3, <1>4 DEF Limiter!RefusedOnlyWhenSpent, Limiter!TwiceAtMost

\* Only who has spent the window's requests is refused, and within any window at most twice
\* the limit is granted: for any keys, limits, windows and numbers of tracked keys.
THEOREM LimitsKept == ASSUME LimiterParameters PROVE MCSpec => []LimitsAreKept
<1> DEFINE Limited == part = "limiter" => LimitsInv
<1>1. MCInit => Limited
    BY LimiterInit DEF MCInit
<1>2. Limited /\ [MCNext]_<<part, vars, caretVars, limiterVars, journalVars>> => Limited'
  <2> SUFFICES ASSUME Limited, [MCNext]_<<part, vars, caretVars, limiterVars, journalVars>>, part' = "limiter"
               PROVE  LimitsInv'
    OBVIOUS
  <2>1. part = "limiter" /\ (Limiter!Next \/ UNCHANGED limiterVars)
    BY DEF MCNext
  <2>2. CASE UNCHANGED limiterVars
    BY <2>1, <2>2 DEF limiterVars, LimitsInv
  <2> QED BY <2>1, <2>2, LimiterKeeps
<1>3. Limited => LimitsAreKept
    BY LimiterGives DEF LimitsAreKept
<1> HIDE DEF Limited
<1> QED BY <1>1, <1>2, <1>3, PTL DEF MCSpec
===============================================================================
