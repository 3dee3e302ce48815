---------------------------- MODULE CrdtDocs_proofs ----------------------------
(***************************************************************************)
(* No accepted edit is lost, a cached document is what its log says, and   *)
(* materializations never go back: for any number of notes, updates and    *)
(* epochs and whatever fails, as long as requests to change the room's     *)
(* lane do not overlap.                                                    *)
(***************************************************************************)
EXTENDS CrdtDocs, FiniteSetTheorems, WellFoundedInduction, SequenceTheorems, TLAPS

\* One request to change the lane at a time.  (Two that overlap lose edits.)
OneAtATime ==
    \A s, t \in Switchers : switch[s].pc # "idle" /\ switch[t].pc # "idle" => s = t

\* The rows and the lane that the failure of the durable operation brings back.
Old   == IF durable.busy THEN durable.rows ELSE rows
OldOn == IF durable.busy THEN durable.on ELSE on

\* The room is live-edited, or may be again without a new epoch.
Active == on \/ OldOn

\* An epoch of a note that has begun: nobody can have written for another.
Begun(f, e) == e <= Old[f].epoch /\ (e = Old[f].epoch => Old[f].live)

\* A landing that could be accepted.
Current(w) == rows[w.file].live /\ rows[w.file].epoch = w.epoch

Retiring(s) == switch[s].pc \in {"settle", "land", "off"}
Landed(s)   == switch[s].pc \in {"land", "off"}
Reading(s)  == switch[s].pc \in {"seed", "on"}

\* Where a request stands, and where the room does.
PhasesInv ==
    /\ durable.busy <=> \E s \in Switchers : switch[s].pc \in {"offFlush", "onFlush"}
    /\ \A s \in Switchers :
          /\ Retiring(s) => on /\ retiring
          /\ Reading(s) => ~on
          /\ switch[s].pc = "offFlush" => ~on /\ durable.on /\ durable.rows = rows
          /\ switch[s].pc = "onFlush" =>
                /\ on /\ ~durable.on
                /\ \A f \in Files :
                      /\ durable.rows[f].live = rows[f].live
                      /\ durable.rows[f].mat = rows[f].mat
                      /\ rows[f].epoch = IF rows[f].live THEN durable.rows[f].epoch + 1
                                                         ELSE durable.rows[f].epoch

\* What a request has read of a note is still there, or is marked as outdated.
ReadsInv ==
    \A s \in Switchers : Reading(s) => \A f \in Files :
        /\ rows[f].live => rows[f].epoch < MaxEpoch
        /\ switch[s].seen[f].fresh => switch[s].seen[f].mat = rows[f].mat

\* What each text is, in terms of the note's history.
TextsInv ==
    \A f \in Files :
        /\ ghost[f].landed <= ghost[f].count /\ rows[f].mat = TextOf(f, ghost[f].landed)
        /\ rows[f].live /\ Active =>
              rows[f].snap # None /\ DurableText(rows[f]) = TextOf(f, ghost[f].count)
        /\ rows[f].live /\ ~(on /\ OldOn) => rows[f].mat = TextOf(f, ghost[f].count)

\* A cached document of a current epoch is what its log says; one with a timer, or with a
\* write that waits, is of an epoch that has begun; and a request that retires the room
\* has stopped its timer and waits for what that began.
GoodDoc(f, e, doc) ==
    /\ Active /\ rows[f].live /\ e = rows[f].epoch
          => doc.text = DurableText(rows[f]) /\ doc.seq + 1 = NextSeq(rows[f])
    /\ doc.timer \/ doc.waiting \/ doc.cancelled # {} => Begun(f, e)
    /\ \A s \in Switchers : Retiring(s) => ~doc.timer /\ (doc.waiting => s \in doc.awaited)
    /\ \A s \in Switchers : Landed(s) => s \notin doc.awaited

DocsInv ==
    \A f \in Files, e \in Epochs : cache[f][e] # None => GoodDoc(f, e, cache[f][e])

\* What waits in the blob queue is a text of the note, not older than what is written;
\* what a request that retires the room does not wait for is the whole text.
GoodLanding(w) ==
    /\ Begun(w.file, w.epoch)
    /\ Active /\ Current(w) =>
          /\ ghost[w.file].landed <= w.n /\ w.n <= ghost[w.file].count
          /\ w.text = TextOf(w.file, w.n)
    /\ \A s \in Switchers : Retiring(s) /\ Current(w) /\ s \notin w.awaited
          => w.n = ghost[w.file].count
    /\ \A s \in Switchers : Landed(s) => s \notin w.awaited

\* They are in order, and at most one is a request's own, which waits for it.
QueueInv ==
    /\ \A i \in DOMAIN queue : GoodLanding(queue[i])
    /\ \A i \in DOMAIN queue : queue[i].by # None => switch[queue[i].by].pc = "land"
    /\ \A i, j \in DOMAIN queue :
          i < j /\ queue[i].file = queue[j].file /\ Active /\ Current(queue[i]) /\ Current(queue[j])
            => queue[i].n <= queue[j].n
    /\ \A i, j \in DOMAIN queue : queue[i].by # None /\ queue[j].by # None => i = j

ListingsInv == \A f \in Files : \A e \in listings[f] : Begun(f, e)

\* The whole text of note f is written, or it is the request's landing, or the request
\* has yet to look at it.
Settles(s, f) ==
    \/ rows[f].mat = TextOf(f, ghost[f].count)
    \/ /\ f \in switch[s].todo /\ switch[s].seen[f].epoch = rows[f].epoch
       /\ switch[s].seen[f].mat = rows[f].mat
    \/ \E i \in DOMAIN queue : /\ queue[i].by = s /\ queue[i].file = f
                               /\ queue[i].epoch = rows[f].epoch

LandInv ==
    \A s \in Switchers : Landed(s) =>
        /\ \A f \in switch[s].todo : Begun(f, switch[s].seen[f].epoch)
        /\ switch[s].pc = "off" => switch[s].todo = {}
        /\ \A f \in Files : rows[f].live => Settles(s, f)

IInv ==
    /\ TypeOK
    /\ PhasesInv
    /\ ReadsInv
    /\ TextsInv
    /\ DocsInv
    /\ QueueInv
    /\ ListingsInv
    /\ LandInv

-----------------------------------------------------------------------------
(* Numbers, sets of numbers, and texts.                                    *)

\* A set of numbers that is not empty has a least one...
LEMMA LeastOne ==
    ASSUME NEW T \in SUBSET Nat, T # {}
    PROVE  \E p \in T : \A q \in T : p <= q
<1>1. PICK p \in T : \A q \in T : ~(<<q, p>> \in OpToRel(<, Nat))
    BY NatLessThanWellFounded, WFMin
<1>2. \A q \in T : <<q, p>> \in Nat \X Nat /\ <<q, p>>[1] = q /\ <<q, p>>[2] = p
    OBVIOUS
<1>3. \A q \in T : ~(q < p)
    BY <1>1, <1>2 DEF OpToRel
<1> QED BY <1>3

\* ...and, with a bound, a greatest one.
LEMMA GreatestOne ==
    ASSUME NEW m \in Nat, NEW T \in SUBSET (0 .. m), T # {}
    PROVE  Max(T) \in T /\ \A q \in T : q <= Max(T)
<1> DEFINE U == {m - q : q \in T}
<1>1. U \in SUBSET Nat /\ U # {}
  <2>1. \A q \in T : m - q \in Nat
      OBVIOUS
  <2> QED BY <2>1
<1>2. PICK p \in U : \A q \in U : p <= q
    BY <1>1, LeastOne
<1>3. PICK x \in T : p = m - x
    OBVIOUS
<1>4. \A q \in T : q <= x
  <2> TAKE q \in T
  <2>1. m - q \in U
      OBVIOUS
  <2> QED BY <1>2, <1>3, <2>1
<1>5. \E y \in T : \A q \in T : y >= q
    BY <1>4
<1> QED BY <1>5 DEF Max

LEMMA LeastOf ==
    ASSUME NEW T \in SUBSET Nat, T # {}
    PROVE  Min(T) \in T /\ \A q \in T : Min(T) <= q
BY LeastOne DEF Min

LEMMA RemainderIs ==
    ASSUME NEW k \in Nat \ {0}, NEW q \in Nat, NEW r \in 0 .. k - 1
    PROVE  (k * q + r) % k = r
OBVIOUS

LEMMA RemainderPlusOne ==
    ASSUME NEW k \in Nat \ {0}, NEW a \in Nat
    PROVE  ((a % k) + 1) % k = (a + 1) % k
<1> DEFINE r == a % k
           q == a \div k
<1>1. r \in 0 .. k - 1 /\ q \in Nat /\ a = k * q + r
    OBVIOUS
<1> HIDE DEF r, q
<1>2. CASE r + 1 < k
  <2>1. r + 1 \in 0 .. k - 1 /\ a + 1 = k * q + (r + 1) /\ r + 1 = k * 0 + (r + 1)
      BY <1>1, <1>2
  <2>2. (k * q + (r + 1)) % k = r + 1
      BY <1>1, <2>1, RemainderIs
  <2>3. (k * 0 + (r + 1)) % k = r + 1
      BY <2>1, RemainderIs
  <2> QED BY <2>1, <2>2, <2>3 DEF r
<1>3. CASE r + 1 = k
  <2>1. a + 1 = k * (q + 1) + 0 /\ r + 1 = k * 1 + 0 /\ q + 1 \in Nat /\ 0 \in 0 .. k - 1
      BY <1>1, <1>3
  <2>2. (k * (q + 1) + 0) % k = 0
      BY <2>1, RemainderIs
  <2>3. (k * 1 + 0) % k = 0
      BY <2>1, RemainderIs
  <2> QED BY <2>1, <2>2, <2>3 DEF r
<1> QED BY <1>1, <1>2, <1>3

\* Updates change texts one by one.
LEMMA PlusOne ==
    ASSUME NEW t \in Texts, NEW n \in Nat
    PROVE  Plus(t, n) \in Texts /\ Plus(Plus(t, n), 1) = Plus(t, n + 1)
<1>1. TextCount \in Nat \ {0} /\ t \in Nat /\ t + n \in Nat /\ t + n + 1 = t + (n + 1)
    BY CountsAssumption DEF Texts
<1>2. (t + n) % TextCount \in 0 .. TextCount - 1
    BY <1>1
<1>3. (((t + n) % TextCount) + 1) % TextCount = (t + n + 1) % TextCount
    BY <1>1, RemainderPlusOne
<1> QED BY <1>1, <1>2, <1>3 DEF Plus, Texts

LEMMA PlusNone ==
    ASSUME NEW t \in Texts
    PROVE  Plus(t, 0) = t /\ 0 \in Texts
<1>1. TextCount \in Nat \ {0} /\ t \in 0 .. TextCount - 1 /\ t + 0 = TextCount * 0 + t
    BY CountsAssumption DEF Texts
<1>2. (TextCount * 0 + t) % TextCount = t
    BY <1>1, RemainderIs
<1> QED BY <1>1, <1>2 DEF Plus, Texts

-----------------------------------------------------------------------------
(* The durable document.                                                   *)

LEMMA LogIsFinite ==
    ASSUME NEW row \in Row
    PROVE  /\ IsFiniteSet(row.log) /\ IsFiniteSet(Replayed(row))
           /\ Cardinality(Replayed(row)) \in Nat
<1>1. row.log \subseteq 1 .. MaxSeq /\ Replayed(row) \subseteq 1 .. MaxSeq
    BY DEF Row, Replayed
<1>2. IsFiniteSet(1 .. MaxSeq)
    BY CountsAssumption, FS_Interval
<1> QED BY <1>1, <1>2, FS_Subset, FS_CardinalityType

\* The last sequence number of a row.
LEMMA LastSeq ==
    ASSUME NEW row \in Row
    PROVE  /\ NextSeq(row) \in Nat \ {0} /\ NextSeq(row) <= MaxSeq + 1
           /\ \A s \in row.log : s < NextSeq(row)
           /\ row.upTo < NextSeq(row)
           /\ Max(Replayed(row) \cup {row.upTo}) + 1 = NextSeq(row)
           /\ Max(Replayed(row) \cup {row.upTo}) \in 0 .. MaxSeq
<1> DEFINE all == row.log \cup {row.upTo}
           new == Replayed(row) \cup {row.upTo}
<1>1. MaxSeq \in Nat /\ row.log \subseteq 1 .. MaxSeq /\ row.upTo \in 0 .. MaxSeq
    BY CountsAssumption DEF Row
<1>2. all \in SUBSET (0 .. MaxSeq) /\ new \in SUBSET (0 .. MaxSeq) /\ all # {} /\ new # {}
    BY <1>1 DEF Replayed
<1>3. Max(all) \in all /\ \A q \in all : q <= Max(all)
    BY <1>1, <1>2, GreatestOne
<1>4. Max(new) \in new /\ \A q \in new : q <= Max(new)
    BY <1>1, <1>2, GreatestOne
<1> HIDE DEF all, new
<1>5. Max(all) \in 0 .. MaxSeq /\ Max(new) \in 0 .. MaxSeq
    BY <1>2, <1>3, <1>4
<1>6. NextSeq(row) = 1 + Max(all)
    BY DEF NextSeq, all
<1>7. Max(new) = Max(all)
  <2>1. Max(new) \in all
      BY <1>4 DEF new, all, Replayed
  <2>2. Max(all) \in new
      BY <1>1, <1>3 DEF new, all, Replayed
  <2> QED BY <1>3, <1>4, <1>5, <2>1, <2>2
<1> QED BY <1>1, <1>3, <1>5, <1>6, <1>7 DEF all, new

LEMMA DurableIsText ==
    ASSUME NEW row \in Row
    PROVE  DurableText(row) \in Texts
<1>1. (IF row.snap = None THEN 0 ELSE row.snap) \in Texts
    BY PlusNone, CountsAssumption DEF Row, Texts
<1> QED BY <1>1, LogIsFinite, PlusOne DEF DurableText

\* One more update in the log.
LEMMA Appended ==
    ASSUME NEW row \in Row, NextSeq(row) <= MaxSeq
    PROVE  LET new == [row EXCEPT !.log = @ \cup {NextSeq(row)}]
           IN  /\ new \in Row
               /\ DurableText(new) = Plus(DurableText(row), 1)
               /\ NextSeq(new) = NextSeq(row) + 1
<1> DEFINE seq == NextSeq(row)
           new == [row EXCEPT !.log = @ \cup {seq}]
<1>1. /\ seq \in 1 .. MaxSeq /\ row.upTo \in 0 .. MaxSeq /\ row.log \subseteq 1 .. MaxSeq
      /\ \A s \in row.log : s < seq
      /\ row.upTo < seq
  <2>1. MaxSeq \in Nat /\ row.upTo \in 0 .. MaxSeq /\ row.log \subseteq 1 .. MaxSeq
      BY CountsAssumption DEF Row
  <2>2. seq \in Nat \ {0} /\ (\A s \in row.log : s < seq) /\ row.upTo < seq
      BY LastSeq
  <2> QED BY <2>1, <2>2
<1> HIDE DEF seq
<1>2. new \in Row /\ new.log = row.log \cup {seq} /\ new.upTo = row.upTo /\ new.snap = row.snap
    BY <1>1 DEF Row
<1> HIDE DEF new
<1>3. Replayed(new) = Replayed(row) \cup {seq} /\ seq \notin Replayed(row)
    BY <1>1, <1>2 DEF Replayed
<1>4. Cardinality(Replayed(new)) = Cardinality(Replayed(row)) + 1
    BY <1>3, LogIsFinite, FS_AddElement
<1>5. DurableText(new) = Plus(DurableText(row), 1)
  <2>1. (IF row.snap = None THEN 0 ELSE row.snap) \in Texts
      BY PlusNone, CountsAssumption DEF Row, Texts
  <2> QED BY <1>2, <1>4, <2>1, LogIsFinite, PlusOne DEF DurableText
<1>6. NextSeq(new) = seq + 1
  <2> DEFINE all == new.log \cup {new.upTo}
  <2>1. all \in SUBSET (0 .. MaxSeq) /\ seq \in all /\ \A q \in all : q <= seq
      BY <1>1, <1>2
  <2>2. Max(all) \in all /\ \A q \in all : q <= Max(all)
      BY <2>1, GreatestOne, CountsAssumption
  <2>3. Max(all) = seq
    <3>1. seq <= Max(all) /\ Max(all) <= seq /\ Max(all) \in 0 .. MaxSeq
      <4> HIDE DEF all
      <4> QED BY <2>1, <2>2
    <3> QED BY <1>1, <3>1
  <2> QED BY <1>1, <2>3 DEF NextSeq
<1> QED BY <1>2, <1>5, <1>6 DEF new, seq

\* A row with nothing but a snapshot.
LEMMA SnapshotOnly ==
    ASSUME NEW row \in Row, row.snap \in Texts, row.log = {}
    PROVE  DurableText(row) = row.snap /\ NextSeq(row) = row.upTo + 1
<1>1. Replayed(row) = {} /\ row.log \cup {row.upTo} = {row.upTo} /\ row.upTo \in 0 .. MaxSeq
    BY DEF Replayed, Row
<1>2. Max({row.upTo}) = row.upTo
    BY <1>1, GreatestOne, CountsAssumption
<1>3. row.snap # None
    BY NoneAssumption, CountsAssumption DEF Texts
<1> QED BY <1>1, <1>2, <1>3, FS_EmptySet, PlusNone DEF DurableText, NextSeq


-----------------------------------------------------------------------------
(* Sequences.                                                              *)

LEMMA AppendedTo ==
    ASSUME NEW S, NEW q \in Seq(S), NEW w \in S
    PROVE  /\ Append(q, w) \in Seq(S) /\ Len(q) \in Nat
           /\ DOMAIN q = 1 .. Len(q) /\ DOMAIN Append(q, w) = 1 .. Len(q) + 1
           /\ \A i \in DOMAIN q : Append(q, w)[i] = q[i]
           /\ Append(q, w)[Len(q) + 1] = w
OBVIOUS

LEMMA TailIs ==
    ASSUME NEW S, NEW q \in Seq(S), q # <<>>
    PROVE  /\ Head(q) \in S /\ Tail(q) \in Seq(S) /\ 1 \in DOMAIN q /\ q[1] = Head(q)
           /\ DOMAIN q = 1 .. Len(q) /\ DOMAIN Tail(q) = 1 .. Len(q) - 1 /\ Len(q) \in Nat \ {0}
           /\ \A i \in DOMAIN Tail(q) : i \in Nat /\ i + 1 \in DOMAIN q /\ Tail(q)[i] = q[i + 1]
           /\ \A i \in DOMAIN q : i # 1 => i - 1 \in DOMAIN Tail(q) /\ Tail(q)[i - 1] = q[i]
OBVIOUS
-----------------------------------------------------------------------------
(* Steps that leave the notes and the requests alone.                      *)

LEMMA LoadedIsGood ==
    ASSUME IInv, NEW f \in Files, NEW e \in Epochs
    PROVE  Loaded(f, e) \in Doc /\ GoodDoc(f, e, Loaded(f, e))
<1> USE DEF IInv
<1>1. CASE cache[f][e] # None
    BY <1>1 DEF Loaded, TypeOK, DocsInv
<1>2. CASE cache[f][e] = None
  <2> DEFINE doc == Reconstructed(f, e)
  <2>1. rows[f] \in Row
      BY DEF TypeOK
  <2>2. /\ DurableText(rows[f]) \in Texts /\ 0 \in Texts /\ 0 \in 0 .. MaxSeq
        /\ Max(Replayed(rows[f]) \cup {rows[f].upTo}) \in 0 .. MaxSeq
        /\ Max(Replayed(rows[f]) \cup {rows[f].upTo}) + 1 = NextSeq(rows[f])
      BY <2>1, LastSeq, DurableIsText, PlusNone, CountsAssumption DEF Texts
  <2>3. doc \in Doc /\ ~doc.timer /\ ~doc.waiting /\ doc.cancelled = {} /\ doc.awaited = {}
      BY <2>2 DEF Reconstructed, NewDoc, Doc
  <2>4. e = rows[f].epoch => doc.text = DurableText(rows[f]) /\ doc.seq + 1 = NextSeq(rows[f])
      BY <2>2 DEF Reconstructed, NewDoc
  <2> HIDE DEF doc
  <2>5. GoodDoc(f, e, doc)
      BY <2>3, <2>4 DEF GoodDoc
  <2> QED BY <1>2, <2>3, <2>5 DEF Loaded, doc
<1> QED BY <1>1, <1>2

\* The landing of a document that is loaded.
LEMMA LandingIsGood ==
    ASSUME IInv, NEW f \in Files, NEW e \in Epochs, Begun(f, e),
           NEW text \in Texts, NEW by \in Switchers \cup {None}, NEW awaited \in SUBSET Switchers,
           Active /\ rows[f].live /\ e = rows[f].epoch => text = DurableText(rows[f]),
           \A s \in Switchers : Landed(s) => s \notin awaited
    PROVE  LET w == Land(f, e, text, by, awaited)
           IN  /\ w \in Landing /\ GoodLanding(w)
               /\ w.file = f /\ w.epoch = e /\ w.by = by /\ w.n = ghost[f].count
<1> DEFINE w == Land(f, e, text, by, awaited)
<1>1. ghost[f] \in Ghost
    BY DEF IInv, TypeOK
<1>2. /\ w \in Landing /\ w.file = f /\ w.epoch = e /\ w.by = by /\ w.n = ghost[f].count
      /\ w.text = text /\ w.awaited = awaited
    BY <1>1 DEF Land, Landing, Ghost
<1> HIDE DEF w
<1>3. Active /\ Current(w) => /\ ghost[f].landed <= w.n /\ w.n <= ghost[f].count
                              /\ w.text = TextOf(f, w.n)
    BY <1>1, <1>2 DEF Current, IInv, TextsInv, Ghost
<1>4. GoodLanding(w)
    BY <1>2, <1>3 DEF GoodLanding
<1> QED BY <1>2, <1>4 DEF w

\* Documents come and go, a landing is queued.
LEMMA DocsStep ==
    ASSUME IInv, UNCHANGED <<on, rows, retiring, switch, durable, ghost>>,
           cache' \in [Files -> [Epochs -> Doc \cup {None}]],
           \A f \in Files, e \in Epochs : cache'[f][e] # None => GoodDoc(f, e, cache'[f][e]),
           \/ UNCHANGED queue
           \/ \E w \in Landing : /\ queue' = Append(queue, w) /\ GoodLanding(w)
                                 /\ w.by = None /\ w.n = ghost[w.file].count,
           listings' \in [Files -> SUBSET Epochs],
           \A f \in Files : \A e \in listings'[f] : Begun(f, e),
           deleting' \in [pc : {"none", "asked", "deleted"}, file : Files, epoch : Epochs]
    PROVE  IInv'
<1> USE DEF IInv
<1>1. /\ Active' = Active /\ OldOn' = OldOn
      /\ \A s \in Switchers : /\ Retiring(s)' = Retiring(s) /\ Landed(s)' = Landed(s)
                              /\ Reading(s)' = Reading(s)
      /\ \A f \in Files, e \in Epochs : Begun(f, e)' = Begun(f, e)
    BY DEF Active, OldOn, Retiring, Landed, Reading, Begun, Old
<1>2. /\ queue' \in Seq(Landing)
      /\ \A i \in DOMAIN queue : i \in DOMAIN queue' /\ queue'[i] = queue[i]
      /\ \A i \in DOMAIN queue' : \/ i \in DOMAIN queue /\ queue'[i] = queue[i]
                                 \/ /\ i \notin DOMAIN queue /\ \A j \in DOMAIN queue' : j <= i
                                    /\ GoodLanding(queue'[i]) /\ queue'[i].by = None
                                    /\ queue'[i].n = ghost[queue'[i].file].count
  <2>1. queue \in Seq(Landing)
      BY DEF TypeOK
  <2>2. CASE UNCHANGED queue
      BY <2>1, <2>2
  <2>3. ASSUME NEW w \in Landing, queue' = Append(queue, w), GoodLanding(w),
               w.by = None, w.n = ghost[w.file].count
        PROVE  <1>2
    <3>1. /\ queue' \in Seq(Landing) /\ Len(queue) \in Nat
          /\ DOMAIN queue = 1 .. Len(queue) /\ DOMAIN queue' = 1 .. Len(queue) + 1
          /\ \A i \in DOMAIN queue : queue'[i] = queue[i]
          /\ queue'[Len(queue) + 1] = w
        BY <2>1, <2>3, AppendedTo
    <3>2. \A i \in DOMAIN queue : i \in DOMAIN queue' /\ queue'[i] = queue[i]
        BY <3>1
    <3>3. \A i \in DOMAIN queue' :
            i \in DOMAIN queue \/ (i = Len(queue) + 1 /\ i \notin DOMAIN queue)
        BY <3>1
    <3>4. \A j \in DOMAIN queue' : j <= Len(queue) + 1
        BY <3>1
    <3> HIDE DEF IInv
    <3> QED BY <2>3, <3>1, <3>2, <3>3, <3>4
  <2> QED BY <2>2, <2>3
<1>3. TypeOK'
    BY <1>2 DEF TypeOK
<1>4. PhasesInv' /\ ReadsInv' /\ TextsInv'
  <2>1. PhasesInv'
      BY <1>1 DEF PhasesInv
  <2>2. ReadsInv'
      BY <1>1 DEF ReadsInv
  <2>3. TextsInv'
      BY <1>1 DEF TextsInv, TextOf
  <2> QED BY <2>1, <2>2, <2>3
<1>5. DocsInv'
    BY <1>1 DEF DocsInv, GoodDoc
<1>6. ListingsInv'
    BY <1>1 DEF ListingsInv
<1>7. queue \in Seq(Landing) /\ DOMAIN queue \subseteq Nat /\ DOMAIN queue' \subseteq Nat
  <2>1. queue \in Seq(Landing)
      BY DEF TypeOK
  <2> QED BY <1>2, <2>1
<1>8. QueueInv'
  <2>1. \A i \in DOMAIN queue' : GoodLanding(queue'[i]) /\ queue'[i] \in Landing
      BY <1>2 DEF QueueInv
  <2>2. (\A i \in DOMAIN queue : GoodLanding(queue[i]))'
      BY <1>1, <2>1 DEF GoodLanding, Current, TextOf, Landing
  <2>3. (\A i, j \in DOMAIN queue :
            i < j /\ queue[i].file = queue[j].file /\ Active /\ Current(queue[i]) /\ Current(queue[j])
              => queue[i].n <= queue[j].n)'
    <3> SUFFICES ASSUME NEW i \in DOMAIN queue', NEW j \in DOMAIN queue', i < j,
                        queue'[i].file = queue'[j].file, Active,
                        Current(queue'[i]), Current(queue'[j])
                 PROVE  queue'[i].n <= queue'[j].n
        BY <1>1 DEF Current
    <3>1. i \in DOMAIN queue /\ queue'[i] = queue[i]
      <4>1. ~(j <= i)
          BY <1>7
      <4> QED BY <1>2, <4>1
    <3>2. CASE j \in DOMAIN queue
        BY <1>2, <3>1, <3>2 DEF QueueInv
    <3>3. CASE j \notin DOMAIN queue
        BY <1>2, <2>1, <3>1, <3>3 DEF GoodLanding
    <3> QED BY <3>2, <3>3
  <2>4. (\A i, j \in DOMAIN queue : queue[i].by # None /\ queue[j].by # None => i = j)'
      BY <1>2 DEF QueueInv
  <2>5. (\A i \in DOMAIN queue : queue[i].by # None => switch[queue[i].by].pc = "land")'
      BY <1>2 DEF QueueInv
  <2> QED BY <2>2, <2>3, <2>4, <2>5 DEF QueueInv
<1>9. LandInv'
  <2>1. \A s \in Switchers, f \in Files : Settles(s, f) => Settles(s, f)'
      BY <1>2 DEF Settles, TextOf
  <2>2. \A s \in Switchers : Landed(s)' => \A f \in switch[s].todo : Begun(f, switch[s].seen[f].epoch)'
      BY <1>1 DEF LandInv, Begun, Old
  <2> QED BY <1>1, <2>1, <2>2 DEF LandInv
<1> QED BY <1>3, <1>4, <1>5, <1>6, <1>8, <1>9


LEMMA OneDoc ==
    ASSUME IInv, NEW f \in Files, NEW e \in Epochs, NEW doc \in Doc \cup {None},
           doc # None => GoodDoc(f, e, doc), cache' = [cache EXCEPT ![f][e] = doc]
    PROVE  /\ cache' \in [Files -> [Epochs -> Doc \cup {None}]]
           /\ \A g \in Files, d \in Epochs : cache'[g][d] # None => GoodDoc(g, d, cache'[g][d])
<1>1. cache \in [Files -> [Epochs -> Doc \cup {None}]]
    BY DEF IInv, TypeOK
<1>2. \A g \in Files, d \in Epochs :
          cache'[g][d] = IF g = f /\ d = e THEN doc ELSE cache[g][d]
    BY <1>1
<1>3. cache' \in [Files -> [Epochs -> Doc \cup {None}]]
    BY <1>1
<1>4. \A g \in Files, d \in Epochs : cache[g][d] # None => GoodDoc(g, d, cache[g][d])
    BY DEF IInv, DocsInv
<1> QED BY <1>2, <1>3, <1>4

\* What is known of a document found in the cache.
LEMMA CachedIsGood ==
    ASSUME IInv, NEW f \in Files, NEW e \in Epochs, cache[f][e] # None
    PROVE  cache[f][e] \in Doc /\ GoodDoc(f, e, cache[f][e])
BY DEF IInv, TypeOK, DocsInv

LEMMA TypesNow ==
    ASSUME IInv
    PROVE  /\ listings \in [Files -> SUBSET Epochs]
           /\ deleting \in [pc : {"none", "asked", "deleted"}, file : Files, epoch : Epochs]
           /\ cache \in [Files -> [Epochs -> Doc \cup {None}]]
           /\ rows \in [Files -> Row]
           /\ \A f \in Files : rows[f].epoch \in Epochs
           /\ \A f \in Files : \A e \in listings[f] : Begun(f, e)
           /\ \A f \in Files, e \in Epochs : cache[f][e] # None => GoodDoc(f, e, cache[f][e])
           /\ 1 \in Files /\ 0 \in Epochs
<1>1. /\ listings \in [Files -> SUBSET Epochs]
      /\ deleting \in [pc : {"none", "asked", "deleted"}, file : Files, epoch : Epochs]
      /\ cache \in [Files -> [Epochs -> Doc \cup {None}]]
      /\ rows \in [Files -> Row]
    BY DEF IInv, TypeOK
<1>2. \A f \in Files : rows[f].epoch \in Epochs
    BY <1>1 DEF Row
<1>3. /\ \A f \in Files : \A e \in listings[f] : Begun(f, e)
      /\ \A f \in Files, e \in Epochs : cache[f][e] # None => GoodDoc(f, e, cache[f][e])
    BY DEF IInv, ListingsInv, DocsInv
<1>4. 1 \in Files /\ 0 \in Epochs
    BY CountsAssumption DEF Files, Epochs
<1> QED BY <1>1, <1>2, <1>3, <1>4

LEMMA EvictedStep ==
    ASSUME IInv, NEW f \in Files, NEW e \in Epochs,
           cache' = [cache EXCEPT ![f][e] = None],
           UNCHANGED <<on, rows, queue, retiring, switch, durable, ghost, listings>>,
           deleting' \in [pc : {"none", "asked", "deleted"}, file : Files, epoch : Epochs]
    PROVE  IInv'
<1>1. /\ cache' \in [Files -> [Epochs -> Doc \cup {None}]]
      /\ \A g \in Files, d \in Epochs : cache'[g][d] # None => GoodDoc(g, d, cache'[g][d])
    BY OneDoc
<1> QED BY <1>1, TypesNow, DocsStep

LEMMA AppendFailsStep ==
    ASSUME IInv, NEW f \in Files, AppendFails(f)
    PROVE  IInv'
BY TypesNow, EvictedStep DEF AppendFails

LEMMA EvictStep ==
    ASSUME IInv, NEW f \in Files, NEW e \in Epochs, Evict(f, e)
    PROVE  IInv'
BY TypesNow, EvictedStep DEF Evict

LEMMA DeleteEvictsStep ==
    ASSUME IInv, DeleteEvicts
    PROVE  IInv'
BY TypesNow, EvictedStep DEF DeleteEvicts, NoDelete

LEMMA DeletingStep ==
    ASSUME IInv, DeleteRejected \/ \E f \in Files : DeleteAsked(f)
    PROVE  IInv'
<1>1. deleting' \in [pc : {"none", "asked", "deleted"}, file : Files, epoch : Epochs]
    BY TypesNow DEF DeleteRejected, DeleteAsked, NoDelete
<1>2. UNCHANGED <<on, rows, cache, queue, retiring, switch, durable, ghost, listings>>
    BY DEF DeleteRejected, DeleteAsked
<1> QED BY <1>1, <1>2, TypesNow, DocsStep

LEMMA HandshakeStep ==
    ASSUME IInv, NEW f \in Files, NEW kept \in BOOLEAN, Handshake(f, kept)
    PROVE  IInv'
<1> DEFINE doc == IF kept THEN Loaded(f, rows[f].epoch) ELSE None
<1>1. rows[f].epoch \in Epochs
    BY TypesNow
<1>2. doc \in Doc \cup {None} /\ (doc # None => GoodDoc(f, rows[f].epoch, doc))
    BY <1>1, LoadedIsGood
<1>3. cache' = [cache EXCEPT ![f][rows[f].epoch] = doc]
    BY DEF Handshake, Keep
<1> HIDE DEF doc
<1>4. /\ cache' \in [Files -> [Epochs -> Doc \cup {None}]]
      /\ \A g \in Files, d \in Epochs : cache'[g][d] # None => GoodDoc(g, d, cache'[g][d])
    BY <1>1, <1>2, <1>3, OneDoc
<1> QED BY <1>4, TypesNow, DocsStep DEF Handshake

LEMMA SubscribeStep ==
    ASSUME IInv, NEW f \in Files, Subscribe(f)
    PROVE  IInv'
<1>1. Begun(f, rows[f].epoch) /\ rows[f].epoch \in Epochs
    BY TypesNow, CountsAssumption DEF Subscribe, Begun, Old, Epochs
<1>2. /\ listings' \in [Files -> SUBSET Epochs]
      /\ \A g \in Files : \A e \in listings'[g] : Begun(g, e)
    BY <1>1, TypesNow DEF Subscribe
<1> QED BY <1>2, TypesNow, DocsStep DEF Subscribe

\* A document whose timer stops is as good as it was.
LEMMA TimerStopped ==
    ASSUME NEW f \in Files, NEW e \in Epochs, NEW doc \in Doc, GoodDoc(f, e, doc)
    PROVE  LET stopped == [doc EXCEPT !.timer = FALSE]
           IN  stopped \in Doc /\ GoodDoc(f, e, stopped)
BY DEF Doc, GoodDoc

LEMMA MaterializeNowStep ==
    ASSUME IInv, NEW f \in Files, NEW e \in Epochs, NEW kept \in BOOLEAN,
           NEW differs \in BOOLEAN, MaterializeNow(f, e, kept, differs)
    PROVE  IInv'
<1> DEFINE old == Loaded(f, e)
           doc == IF kept THEN IF differs THEN [old EXCEPT !.timer = FALSE] ELSE old ELSE None
           w == Land(f, e, old.text, None, {})
<1>1. old \in Doc /\ GoodDoc(f, e, old)
    BY LoadedIsGood
<1>2. doc \in Doc \cup {None} /\ (doc # None => GoodDoc(f, e, doc))
    BY <1>1, TimerStopped
<1>3. cache' = [cache EXCEPT ![f][e] = doc]
    BY DEF MaterializeNow, Keep
<1> HIDE DEF doc
<1>4. /\ cache' \in [Files -> [Epochs -> Doc \cup {None}]]
      /\ \A g \in Files, d \in Epochs : cache'[g][d] # None => GoodDoc(g, d, cache'[g][d])
    BY <1>2, <1>3, OneDoc
<1>5. Begun(f, e)
    BY TypesNow DEF MaterializeNow
<1> HIDE DEF old
<1>6. old.text \in Texts /\ (Active /\ rows[f].live /\ e = rows[f].epoch => old.text = DurableText(rows[f]))
    BY <1>1 DEF GoodDoc, Doc
<1>7. w \in Landing /\ GoodLanding(w) /\ w.file = f /\ w.by = None /\ w.n = ghost[f].count
    BY <1>5, <1>6, LandingIsGood
<1>8. UNCHANGED queue \/ queue' = Append(queue, w)
    BY DEF MaterializeNow, old
<1> HIDE DEF w
<1>9. UNCHANGED <<on, rows, retiring, switch, durable, ghost, deleting, listings>>
    BY DEF MaterializeNow
<1> QED BY <1>4, <1>7, <1>8, <1>9, TypesNow, DocsStep

LEMMA TimerFiresStep ==
    ASSUME IInv, NEW f \in Files, NEW e \in Epochs, TimerFires(f, e)
    PROVE  IInv'
<1> DEFINE doc == [cache[f][e] EXCEPT !.timer = FALSE, !.waiting = TRUE]
<1>1. cache[f][e] \in Doc /\ GoodDoc(f, e, cache[f][e]) /\ cache[f][e].timer
    BY CachedIsGood DEF TimerFires
<1>2. doc \in Doc /\ GoodDoc(f, e, doc)
    BY <1>1 DEF Doc, GoodDoc
<1>3. cache' = [cache EXCEPT ![f][e] = doc]
  <2>1. cache \in [Files -> [Epochs -> Doc \cup {None}]]
      BY TypesNow
  <2>2. cache' = [cache EXCEPT ![f][e].timer = FALSE, ![f][e].waiting = TRUE]
      BY DEF TimerFires
  <2> QED BY <2>1, <2>2, <1>1 DEF Doc
<1> HIDE DEF doc
<1>4. /\ cache' \in [Files -> [Epochs -> Doc \cup {None}]]
      /\ \A g \in Files, d \in Epochs : cache'[g][d] # None => GoodDoc(g, d, cache'[g][d])
    BY <1>2, <1>3, OneDoc
<1> QED BY <1>4, TypesNow, DocsStep DEF TimerFires

LEMMA MaterializeStep ==
    ASSUME IInv, NEW f \in Files, NEW e \in Epochs, Materialize(f, e)
    PROVE  IInv'
<1> DEFINE old == cache[f][e]
           doc == [old EXCEPT !.waiting = FALSE, !.awaited = {}]
           w   == Land(f, e, old.text, None, old.awaited)
<1>1. old \in Doc /\ GoodDoc(f, e, old) /\ old.waiting
    BY CachedIsGood DEF Materialize
<1>2. cache' = [cache EXCEPT ![f][e] = doc] /\ queue' = Append(queue, w)
    BY DEF Materialize
<1> HIDE DEF old
<1>3. doc \in Doc /\ GoodDoc(f, e, doc)
    BY <1>1 DEF Doc, GoodDoc
<1> HIDE DEF doc
<1>4. /\ cache' \in [Files -> [Epochs -> Doc \cup {None}]]
      /\ \A g \in Files, d \in Epochs : cache'[g][d] # None => GoodDoc(g, d, cache'[g][d])
    BY <1>2, <1>3, OneDoc
<1>5. /\ Begun(f, e) /\ old.text \in Texts /\ old.awaited \in SUBSET Switchers
      /\ Active /\ rows[f].live /\ e = rows[f].epoch => old.text = DurableText(rows[f])
      /\ \A s \in Switchers : Landed(s) => s \notin old.awaited
    BY <1>1 DEF GoodDoc, Doc
<1>6. w \in Landing /\ GoodLanding(w) /\ w.file = f /\ w.by = None /\ w.n = ghost[f].count
    BY <1>5, LandingIsGood
<1> HIDE DEF w
<1>7. UNCHANGED <<on, rows, retiring, switch, durable, ghost, deleting, listings>>
    BY DEF Materialize
<1> QED BY <1>2, <1>4, <1>6, <1>7, TypesNow, DocsStep

-----------------------------------------------------------------------------
(* Steps that change a note.                                               *)

\* What is in the cache, in the queue or listed stays good when a step spares it.
LEMMA DocsKept ==
    ASSUME IInv, UNCHANGED cache,
           \A f \in Files, e \in Epochs, doc \in Doc : GoodDoc(f, e, doc) => GoodDoc(f, e, doc)'
    PROVE  DocsInv'
<1> SUFFICES ASSUME NEW f \in Files, NEW e \in Epochs, cache[f][e] # None
             PROVE  GoodDoc(f, e, cache[f][e])'
    BY DEF DocsInv
<1>1. cache[f][e] \in Doc /\ GoodDoc(f, e, cache[f][e])
    BY CachedIsGood
<1> QED BY <1>1 DEF GoodDoc

LEMMA QueueKept ==
    ASSUME IInv, UNCHANGED queue,
           \A w \in Landing : GoodLanding(w) =>
              /\ GoodLanding(w)'
              /\ (Active /\ Current(w))' => Active /\ Current(w),
           \A s \in Switchers : switch[s].pc = "land" => switch'[s].pc = "land"
    PROVE  QueueInv'
<1>1. queue \in Seq(Landing) /\ \A i \in DOMAIN queue : queue[i] \in Landing
    BY DEF IInv, TypeOK
<1>2. \A i \in DOMAIN queue : GoodLanding(queue[i])
    BY DEF IInv, QueueInv
<1>3. (\A i \in DOMAIN queue : GoodLanding(queue[i]))'
    BY <1>1, <1>2 DEF GoodLanding
<1>4. \A i \in DOMAIN queue : (Active /\ Current(queue[i]))' => Active /\ Current(queue[i])
    BY <1>1, <1>2 DEF Current
<1>5. (\A i, j \in DOMAIN queue :
          i < j /\ queue[i].file = queue[j].file /\ Active /\ Current(queue[i]) /\ Current(queue[j])
            => queue[i].n <= queue[j].n)'
    BY <1>4 DEF IInv, QueueInv
<1>6. (\A i \in DOMAIN queue : queue[i].by # None => switch[queue[i].by].pc = "land")'
    BY <1>1 DEF IInv, QueueInv, Landing
<1>7. (\A i, j \in DOMAIN queue : queue[i].by # None /\ queue[j].by # None => i = j)'
    BY DEF IInv, QueueInv
<1> QED BY <1>3, <1>5, <1>6, <1>7 DEF QueueInv

LEMMA ListingsKept ==
    ASSUME IInv, UNCHANGED listings,
           \A f \in Files, e \in Epochs : Begun(f, e) => Begun(f, e)'
    PROVE  ListingsInv'
BY TypesNow DEF ListingsInv

\* An update in the log, compacted or not.
LEMMA Updated ==
    ASSUME NEW row \in Row, NEW doc \in Doc, NextSeq(row) <= MaxSeq,
           doc.text = Plus(DurableText(row), 1), doc.seq = NextSeq(row), NEW compacts \in BOOLEAN
    PROVE  LET more == [row EXCEPT !.log = @ \cup {NextSeq(row)}]
               new  == IF compacts THEN Compacted(more, doc) ELSE more
           IN  /\ new \in Row
               /\ DurableText(new) = doc.text /\ NextSeq(new) = doc.seq + 1
               /\ new.live = row.live /\ new.epoch = row.epoch /\ new.mat = row.mat
               /\ row.snap # None => new.snap # None
<1> DEFINE more == [row EXCEPT !.log = @ \cup {NextSeq(row)}]
           new  == Compacted(more, doc)
<1>1. /\ more \in Row /\ DurableText(more) = doc.text /\ NextSeq(more) = doc.seq + 1
      /\ more.live = row.live /\ more.epoch = row.epoch /\ more.mat = row.mat
      /\ more.snap = row.snap /\ more.log = row.log \cup {NextSeq(row)}
    BY Appended DEF Row
<1> HIDE DEF more
<1>2. \A q \in more.log : q \in 0 .. MaxSeq /\ ~(q > doc.seq)
  <2>1. row.log \subseteq 1 .. MaxSeq /\ doc.seq \in 0 .. MaxSeq /\ MaxSeq \in Nat
      BY CountsAssumption DEF Row, Doc
  <2>2. \A s \in row.log : s < doc.seq
      BY LastSeq
  <2> QED BY <1>1, <2>1, <2>2
<1>3. /\ new \in Row /\ new.snap = doc.text /\ new.upTo = doc.seq /\ new.log = {}
      /\ new.live = row.live /\ new.epoch = row.epoch /\ new.mat = row.mat
  <2>1. {s \in more.log : s > doc.seq} = {}
      BY <1>2
  <2> QED BY <1>1, <2>1 DEF Compacted, Row, Doc
<1> HIDE DEF new
<1>4. doc.text \in Texts /\ doc.text # None
    BY NoneAssumption, CountsAssumption DEF Doc, Texts
<1>5. DurableText(new) = doc.text /\ NextSeq(new) = doc.seq + 1
    BY <1>3, <1>4, SnapshotOnly
<1> QED BY <1>1, <1>3, <1>4, <1>5 DEF new, more

LEMMA ApplyUpdateStep ==
    ASSUME IInv, NEW f \in Files, NEW kept \in BOOLEAN, NEW compacts \in BOOLEAN,
           ApplyUpdate(f, kept, compacts)
    PROVE  IInv'
<1> DEFINE e   == rows[f].epoch
           seq == NextSeq(rows[f])
           doc == [Loaded(f, e) EXCEPT !.text = Plus(@, 1), !.seq = seq, !.timer = TRUE]
           row == IF compacts
                  THEN Compacted([rows[f] EXCEPT !.log = @ \cup {NextSeq(rows[f])}], doc)
                  ELSE [rows[f] EXCEPT !.log = @ \cup {NextSeq(rows[f])}]
<1>1. /\ on /\ rows[f].live /\ ~retiring /\ ~durable.busy /\ seq <= MaxSeq
      /\ rows' = [rows EXCEPT ![f] = row]
      /\ cache' = [cache EXCEPT ![f][e] = IF kept THEN doc ELSE None]
      /\ ghost' = [ghost EXCEPT ![f].count = @ + 1]
      /\ UNCHANGED <<on, queue, retiring, switch, durable, deleting, listings>>
    BY DEF ApplyUpdate, Keep
<1>2. /\ rows \in [Files -> Row] /\ ghost \in [Files -> Ghost] /\ e \in Epochs
      /\ cache \in [Files -> [Epochs -> Doc \cup {None}]]
    BY DEF IInv, TypeOK, Row
<1>3. Loaded(f, e) \in Doc /\ Loaded(f, e).text = DurableText(rows[f]) /\ DurableText(rows[f]) \in Texts
    BY <1>1, <1>2, LoadedIsGood, DurableIsText DEF GoodDoc, Active
<1>4. /\ doc \in Doc /\ doc.text = Plus(DurableText(rows[f]), 1) /\ doc.seq = seq
      /\ doc.timer /\ doc.awaited = Loaded(f, e).awaited
  <2>1. seq \in 0 .. MaxSeq
    <3>1. seq \in Nat /\ seq <= MaxSeq /\ MaxSeq \in Nat
        BY <1>1, <1>2, LastSeq, CountsAssumption
    <3> HIDE DEF seq
    <3> QED BY <3>1
  <2>2. Plus(DurableText(rows[f]), 1) \in Texts
      BY <1>3, PlusOne
  <2> HIDE DEF seq
  <2> QED BY <1>3, <2>1, <2>2 DEF Doc
<1> HIDE DEF doc
<1>5. /\ row \in Row /\ DurableText(row) = doc.text /\ NextSeq(row) = doc.seq + 1
      /\ row.live /\ row.epoch = e /\ row.mat = rows[f].mat
      /\ rows[f].snap # None => row.snap # None
    BY <1>1, <1>2, <1>4, Updated
<1> HIDE DEF row
<1>6. /\ rows' \in [Files -> Row] /\ rows'[f] = row
      /\ \A g \in Files : g # f => rows'[g] = rows[g]
      /\ ghost' \in [Files -> Ghost] /\ ghost'[f].base = ghost[f].base
      /\ ghost'[f].count = ghost[f].count + 1 /\ ghost'[f].landed = ghost[f].landed
      /\ \A g \in Files : g # f => ghost'[g] = ghost[g]
    BY <1>1, <1>2, <1>5 DEF Ghost
<1>7. /\ cache' \in [Files -> [Epochs -> Doc \cup {None}]]
      /\ \A g \in Files, d \in Epochs :
            cache'[g][d] = IF g = f /\ d = e THEN IF kept THEN doc ELSE None ELSE cache[g][d]
    BY <1>1, <1>2, <1>4
<1>8. /\ Active /\ Active' /\ OldOn /\ OldOn' /\ on'
      /\ \A g \in Files : rows'[g].live = rows[g].live /\ rows'[g].epoch = rows[g].epoch
                          /\ rows'[g].mat = rows[g].mat
      /\ \A s \in Switchers : /\ ~Retiring(s) /\ ~Landed(s) /\ ~Reading(s)
                              /\ ~Retiring(s)' /\ ~Landed(s)' /\ ~Reading(s)'
  <2>1. Active /\ Active' /\ OldOn /\ OldOn' /\ on'
      BY <1>1 DEF Active, OldOn
  <2>2. \A s \in Switchers : ~Retiring(s) /\ ~Reading(s)
      BY <1>1 DEF IInv, PhasesInv
  <2> QED BY <1>1, <1>5, <1>6, <2>1, <2>2 DEF Retiring, Landed, Reading
<1>9. \A g \in Files, d \in Epochs : Begun(g, d)' = Begun(g, d)
    BY <1>1, <1>8 DEF Begun, Old
<1>10. TypeOK'
    BY <1>1, <1>6, <1>7 DEF IInv, TypeOK
<1>11. PhasesInv' /\ ReadsInv' /\ LandInv'
  <2>1. PhasesInv'
      BY <1>1, <1>8 DEF IInv, PhasesInv
  <2> QED BY <2>1, <1>8 DEF ReadsInv, LandInv
<1>12. TextsInv'
  <2> SUFFICES ASSUME NEW g \in Files
               PROVE  /\ ghost'[g].landed <= ghost'[g].count /\ rows'[g].mat = TextOf(g, ghost[g].landed)'
                      /\ rows'[g].live => /\ rows'[g].snap # None
                                          /\ DurableText(rows'[g]) = TextOf(g, ghost[g].count)'
      BY <1>8 DEF TextsInv
  <2>1. /\ ghost[g].landed <= ghost[g].count /\ rows[g].mat = TextOf(g, ghost[g].landed)
        /\ rows[g].live => rows[g].snap # None /\ DurableText(rows[g]) = TextOf(g, ghost[g].count)
      BY <1>8 DEF IInv, TextsInv
  <2>2. CASE g # f
      BY <1>6, <2>1, <2>2 DEF TextOf
  <2>3. CASE g = f
    <3>1. ghost[f].base \in Texts /\ ghost[f].count \in Nat /\ ghost[f].landed \in Nat
        BY <1>2 DEF Ghost
    <3>2. DurableText(rows[f]) = TextOf(f, ghost[f].count) /\ rows[f].snap # None
        BY <1>1, <2>1, <2>3
    <3>3. doc.text = Plus(ghost[f].base, ghost[f].count + 1)
        BY <1>4, <3>1, <3>2, PlusOne DEF TextOf
    <3> QED BY <1>5, <1>6, <2>1, <2>3, <3>1, <3>2, <3>3 DEF TextOf
  <2> QED BY <2>2, <2>3
<1>13. DocsInv'
  <2> SUFFICES ASSUME NEW g \in Files, NEW d \in Epochs, cache'[g][d] # None
               PROVE  GoodDoc(g, d, cache[g][d])'
      BY DEF DocsInv
  <2>1. CASE g = f /\ d = e
    <3>1. cache'[g][d] = doc
        BY <1>7, <2>1
    <3>2. Begun(f, e)
        BY <1>1, <1>2, CountsAssumption DEF Begun, Old, Epochs
    <3> QED BY <1>4, <1>5, <1>6, <1>8, <1>9, <2>1, <3>1, <3>2 DEF GoodDoc
  <2>2. CASE ~(g = f /\ d = e)
    <3>1. cache'[g][d] = cache[g][d] /\ GoodDoc(g, d, cache[g][d])
        BY <1>7, <2>2, CachedIsGood
    <3> QED BY <1>5, <1>6, <1>8, <1>9, <2>2, <3>1 DEF GoodDoc
  <2> QED BY <2>1, <2>2
<1>14. QueueInv'
  <2> SUFFICES ASSUME NEW w \in Landing, GoodLanding(w)
               PROVE  GoodLanding(w)' /\ ((Active /\ Current(w))' => Active /\ Current(w))
      BY <1>1, QueueKept
  <2>1. w.file \in Files /\ w.epoch \in Epochs /\ w.n \in Nat
      BY DEF Landing
  <2>2. Current(w)' = Current(w)
      BY <1>8, <2>1 DEF Current
  <2>3. Current(w) => /\ ghost[w.file].landed <= w.n /\ w.n <= ghost[w.file].count
                      /\ w.text = TextOf(w.file, w.n)
      BY <1>8 DEF GoodLanding
  <2>4. /\ ghost'[w.file].base = ghost[w.file].base /\ ghost'[w.file].landed = ghost[w.file].landed
        /\ ghost[w.file].count \in Nat /\ ghost'[w.file].count \in Nat
        /\ ghost[w.file].count <= ghost'[w.file].count
    <3>1. ghost[w.file] \in Ghost
        BY <1>2, <2>1
    <3>2. /\ ghost[w.file].count \in Nat
          /\ w.file # f => ghost'[w.file] = ghost[w.file]
        BY <1>6, <2>1, <3>1 DEF Ghost
    <3>3. CASE w.file = f
        BY <1>6, <3>2, <3>3
    <3>4. CASE w.file # f
        BY <3>2, <3>4
    <3> QED BY <3>3, <3>4
  <2>5. Current(w) => /\ ghost'[w.file].landed <= w.n /\ w.n <= ghost'[w.file].count
                      /\ w.text = TextOf(w.file, w.n)'
      BY <2>1, <2>3, <2>4 DEF TextOf
  <2> QED BY <1>8, <1>9, <2>1, <2>2, <2>5 DEF GoodLanding
<1>15. ListingsInv'
    BY <1>1, <1>9, ListingsKept
<1> QED BY <1>10, <1>11, <1>12, <1>13, <1>14, <1>15 DEF IInv

\* A note that moves on is, for who has read it, outdated.
LEMMA MovedIs ==
    ASSUME switch \in [Switchers -> Switch], NEW f \in Files
    PROVE  /\ Moved(switch, f) \in [Switchers -> Switch]
           /\ \A s \in Switchers :
                 /\ Moved(switch, f)[s].pc = switch[s].pc
                 /\ Moved(switch, f)[s].todo = switch[s].todo
                 /\ \A g \in Files :
                       /\ Moved(switch, f)[s].seen[g].epoch = switch[s].seen[g].epoch
                       /\ Moved(switch, f)[s].seen[g].mat = switch[s].seen[g].mat
                       /\ Moved(switch, f)[s].seen[g].fresh => g # f /\ switch[s].seen[g].fresh
<1> SUFFICES ASSUME NEW s \in Switchers
             PROVE  LET new == [switch[s] EXCEPT !.seen[f].fresh = FALSE]
                    IN  /\ new \in Switch
                        /\ new.pc = switch[s].pc /\ new.todo = switch[s].todo
                        /\ \A g \in Files :
                              /\ new.seen[g].epoch = switch[s].seen[g].epoch
                              /\ new.seen[g].mat = switch[s].seen[g].mat
                              /\ new.seen[g].fresh => g # f /\ switch[s].seen[g].fresh
    BY DEF Moved
<1>1. switch[s] \in Switch /\ switch[s].seen \in [Files -> Listed]
    BY DEF Switch
<1>2. \A g \in Files : switch[s].seen[g] \in Listed
    BY <1>1
<1> DEFINE seen == [switch[s].seen EXCEPT ![f].fresh = FALSE]
<1>3. /\ seen \in [Files -> Listed]
      /\ \A g \in Files : /\ seen[g].epoch = switch[s].seen[g].epoch
                          /\ seen[g].mat = switch[s].seen[g].mat
                          /\ seen[g].fresh => g # f /\ switch[s].seen[g].fresh
    BY <1>1, <1>2 DEF Listed
<1> HIDE DEF seen
<1>4. [switch[s] EXCEPT !.seen[f].fresh = FALSE] = [switch[s] EXCEPT !.seen = seen]
    BY <1>1 DEF seen, Switch
<1> QED BY <1>1, <1>3, <1>4 DEF Switch

\* A note that is created, overwritten or deleted begins again.
LEMMA NoteBeginsAgain ==
    ASSUME IInv, ~durable.busy, NEW f \in Files, NEW row \in Row, NEW b \in Texts,
           rows' = [rows EXCEPT ![f] = row], row.mat = b,
           ghost' = [ghost EXCEPT ![f] = [base |-> b, count |-> 0, landed |-> 0]],
           switch' = Moved(switch, f),
           UNCHANGED <<on, queue, retiring, durable, listings>>,
           row.epoch >= rows[f].epoch,
           row.epoch = rows[f].epoch /\ rows[f].live => row.live,
           ~on /\ row.live => row.epoch < MaxEpoch \/ \A s \in Switchers : ~Reading(s),
           on /\ row.live => /\ ~Begun(f, row.epoch)
                             /\ row.snap # None /\ DurableText(row) = b,
           cache' \in [Files -> [Epochs -> Doc \cup {None}]],
           \A g \in Files, d \in Epochs : cache'[g][d] # None =>
               \/ cache'[g][d] = cache[g][d] /\ (on /\ row.live /\ g = f => d # row.epoch)
               \/ g = f /\ d = row.epoch /\ cache'[g][d] = NewDoc(b, 0) /\ NextSeq(row) = 1
                  /\ DurableText(row) = b,
           deleting' \in [pc : {"none", "asked", "deleted"}, file : Files, epoch : Epochs]
    PROVE  IInv'
<1>1. /\ rows \in [Files -> Row] /\ ghost \in [Files -> Ghost]
      /\ cache \in [Files -> [Epochs -> Doc \cup {None}]]
      /\ switch \in [Switchers -> Switch]
    BY DEF IInv, TypeOK
<1>2. /\ rows' \in [Files -> Row] /\ rows'[f] = row
      /\ \A g \in Files : g # f => rows'[g] = rows[g]
    BY <1>1
<1>3. /\ ghost' \in [Files -> Ghost]
      /\ ghost'[f].base = b /\ ghost'[f].count = 0 /\ ghost'[f].landed = 0
      /\ \A g \in Files : g # f => ghost'[g] = ghost[g]
    BY <1>1 DEF Ghost
<1>4. /\ switch' \in [Switchers -> Switch]
      /\ \A s \in Switchers :
            /\ switch'[s].pc = switch[s].pc /\ switch'[s].todo = switch[s].todo
            /\ \A g \in Files :
                  /\ switch'[s].seen[g].epoch = switch[s].seen[g].epoch
                  /\ switch'[s].seen[g].mat = switch[s].seen[g].mat
                  /\ switch'[s].seen[g].fresh => g # f /\ switch[s].seen[g].fresh
    BY <1>1, MovedIs
<1>5. /\ Active' = on /\ Active = on /\ OldOn' = on /\ OldOn = on
      /\ \A s \in Switchers : /\ Retiring(s)' = Retiring(s) /\ Landed(s)' = Landed(s)
                              /\ Reading(s)' = Reading(s)
  <2>1. on \in BOOLEAN
      BY DEF IInv, TypeOK
  <2> QED BY <1>4, <2>1 DEF Active, OldOn, Retiring, Landed, Reading
<1>6. \A g \in Files, d \in Epochs : Begun(g, d) => Begun(g, d)'
  <2> SUFFICES ASSUME NEW g \in Files, NEW d \in Epochs, Begun(g, d)
               PROVE  Begun(g, d)'
      OBVIOUS
  <2>1. CASE g # f
      BY <1>2, <2>1 DEF Begun, Old
  <2>2. CASE g = f
    <3>1. rows[f].epoch \in Nat /\ row.epoch \in Nat /\ d \in Nat
        BY <1>1, CountsAssumption DEF Row, Epochs
    <3> QED BY <1>2, <2>2, <3>1 DEF Begun, Old
  <2> QED BY <2>1, <2>2
<1>7. b = Plus(b, 0) /\ TextOf(f, 0)' = b
    BY <1>3, PlusNone DEF TextOf
<1>8. TypeOK'
    BY <1>2, <1>3, <1>4 DEF IInv, TypeOK
<1>9. PhasesInv'
  <2>1. \A s \in Switchers : /\ switch[s].pc \notin {"offFlush", "onFlush"}
                             /\ Retiring(s) => on /\ retiring
                             /\ Reading(s) => ~on
      BY DEF IInv, PhasesInv
  <2>2. \A s \in Switchers : switch'[s].pc \notin {"offFlush", "onFlush"}
      BY <1>4, <2>1
  <2>3. ~durable'.busy /\ on' = on /\ retiring' = retiring
      OBVIOUS
  <2> QED BY <1>5, <2>1, <2>2, <2>3 DEF PhasesInv
<1>10. ReadsInv'
  <2> SUFFICES ASSUME NEW s \in Switchers, Reading(s), NEW g \in Files
               PROVE  /\ rows'[g].live => rows'[g].epoch < MaxEpoch
                      /\ switch'[s].seen[g].fresh => switch'[s].seen[g].mat = rows'[g].mat
      BY <1>5 DEF ReadsInv
  <2>1. ~on
      BY DEF IInv, PhasesInv
  <2> QED BY <1>2, <1>4, <2>1 DEF IInv, ReadsInv
<1>11. TextsInv'
  <2> SUFFICES ASSUME NEW g \in Files
               PROVE  /\ ghost'[g].landed <= ghost'[g].count /\ rows'[g].mat = TextOf(g, ghost[g].landed)'
                      /\ rows'[g].live /\ on =>
                            rows'[g].snap # None /\ DurableText(rows'[g]) = TextOf(g, ghost[g].count)'
                      /\ rows'[g].live /\ ~on => rows'[g].mat = TextOf(g, ghost[g].count)'
      BY <1>5 DEF TextsInv
  <2>1. CASE g # f
      BY <1>2, <1>3, <1>5, <2>1 DEF IInv, TextsInv, TextOf
  <2>2. CASE g = f
      BY <1>2, <1>3, <1>7, <2>2 DEF TextOf
  <2> QED BY <2>1, <2>2
<1>12. DocsInv'
  <2> SUFFICES ASSUME NEW g \in Files, NEW d \in Epochs, cache'[g][d] # None
               PROVE  GoodDoc(g, d, cache[g][d])'
      BY DEF DocsInv
  <2>1. CASE cache'[g][d] = cache[g][d] /\ (on /\ row.live /\ g = f => d # row.epoch)
    <3>1. GoodDoc(g, d, cache[g][d])
        BY <2>1, CachedIsGood
    <3> QED BY <1>2, <1>5, <1>6, <2>1, <3>1 DEF GoodDoc
  <2>2. CASE g = f /\ d = row.epoch /\ cache'[g][d] = NewDoc(b, 0) /\ NextSeq(row) = 1
             /\ DurableText(row) = b
      BY <1>2, <2>2 DEF GoodDoc, NewDoc
  <2> QED BY <2>1, <2>2
<1>13. QueueInv'
  <2> SUFFICES ASSUME NEW w \in Landing, GoodLanding(w)
               PROVE  GoodLanding(w)' /\ ((Active /\ Current(w))' => Active /\ Current(w))
      BY <1>4, QueueKept
  <2>1. w.file \in Files /\ w.epoch \in Epochs /\ Begun(w.file, w.epoch)
      BY DEF Landing, GoodLanding
  <2>2. on /\ Current(w)' => Current(w) /\ w.file # f
      BY <1>2, <2>1 DEF Current
  <2>3. \A s \in Switchers : Retiring(s) => on
      BY DEF IInv, PhasesInv
  <2>4. on /\ Current(w)' =>
           /\ ghost'[w.file].landed <= w.n /\ w.n <= ghost'[w.file].count
           /\ w.text = TextOf(w.file, w.n)'
      BY <1>3, <1>5, <2>1, <2>2 DEF GoodLanding, TextOf
  <2>5. \A s \in Switchers : Retiring(s) /\ Current(w)' /\ s \notin w.awaited => w.n = ghost'[w.file].count
      BY <1>3, <2>1, <2>2, <2>3 DEF GoodLanding
  <2> QED BY <1>5, <1>6, <2>1, <2>2, <2>4, <2>5 DEF GoodLanding
<1>14. ListingsInv'
    BY <1>6, ListingsKept
<1>15. LandInv'
  <2> SUFFICES ASSUME NEW s \in Switchers, Landed(s)
               PROVE  /\ \A g \in switch'[s].todo : Begun(g, switch[s].seen[g].epoch)'
                      /\ switch'[s].pc = "off" => switch'[s].todo = {}
                      /\ \A g \in Files : rows'[g].live => Settles(s, g)'
      BY <1>5 DEF LandInv
  <2>1. \A g \in switch[s].todo : g \in Files /\ switch[s].seen[g].epoch \in Epochs
      BY <1>1 DEF Switch, Listed
  <2>2. \A g \in switch'[s].todo : Begun(g, switch[s].seen[g].epoch)'
    <3> SUFFICES ASSUME NEW g \in switch'[s].todo
                 PROVE  Begun(g, switch[s].seen[g].epoch)'
        OBVIOUS
    <3>1. g \in switch[s].todo /\ switch'[s].seen[g].epoch = switch[s].seen[g].epoch
        BY <1>4, <2>1
    <3>2. Begun(g, switch[s].seen[g].epoch)
        BY <3>1 DEF IInv, LandInv
    <3> QED BY <1>6, <2>1, <3>1, <3>2 DEF Begun
  <2>3. switch'[s].pc = "off" => switch'[s].todo = {}
      BY <1>4 DEF IInv, LandInv
  <2>4. \A g \in Files : g # f /\ rows'[g].live => Settles(s, g)'
    <3> SUFFICES ASSUME NEW g \in Files, g # f, rows'[g].live
                 PROVE  Settles(s, g)'
        OBVIOUS
    <3>1. Settles(s, g) /\ rows'[g] = rows[g] /\ ghost'[g] = ghost[g]
        BY <1>2, <1>3 DEF IInv, LandInv
    <3> QED BY <1>4, <3>1 DEF Settles, TextOf
  <2>5. rows'[f].mat = TextOf(f, ghost[f].count)'
      BY <1>2, <1>3, <1>7
  <2> QED BY <2>2, <2>3, <2>4, <2>5 DEF Settles
<1> QED BY <1>8, <1>9, <1>10, <1>11, <1>12, <1>13, <1>14, <1>15 DEF IInv

LEMMA CreateDocStep ==
    ASSUME IInv, NEW f \in Files, NEW kept \in BOOLEAN, CreateDoc(f, kept)
    PROVE  IInv'
<1> DEFINE e   == rows[f].epoch
           row == [rows[f] EXCEPT !.live = TRUE, !.mat = 0, !.snap = 0, !.upTo = 0, !.log = {}]
           doc == IF kept THEN NewDoc(0, 0) ELSE None
<1>1. rows[f] \in Row /\ e \in Epochs /\ 0 \in Texts /\ 0 \in 0 .. MaxSeq /\ 0 # None
    BY TypesNow, PlusNone, NoneAssumption, CountsAssumption DEF Texts
<1>2. /\ row \in Row /\ row.live /\ row.mat = 0 /\ row.snap = 0 /\ row.upTo = 0 /\ row.log = {}
      /\ row.epoch = e
    BY <1>1 DEF Row
<1>3. /\ on /\ ~rows[f].live /\ ~durable.busy
      /\ rows' = [rows EXCEPT ![f] = row]
      /\ cache' = [cache EXCEPT ![f][e] = doc]
      /\ ghost' = [ghost EXCEPT ![f] = [base |-> 0, count |-> 0, landed |-> 0]]
      /\ switch' = Moved(switch, f)
      /\ UNCHANGED <<on, queue, retiring, durable, deleting, listings>>
    BY DEF CreateDoc, Keep
<1> HIDE DEF row
<1>4. DurableText(row) = 0 /\ NextSeq(row) = 1
    BY <1>1, <1>2, SnapshotOnly
<1>5. ~Begun(f, e)
    BY <1>3 DEF Begun, Old
<1>6. NewDoc(0, 0) \in Doc
    BY <1>1 DEF NewDoc, Doc
<1>7. /\ cache' \in [Files -> [Epochs -> Doc \cup {None}]]
      /\ \A g \in Files, d \in Epochs :
            cache'[g][d] = IF g = f /\ d = e THEN doc ELSE cache[g][d]
    BY <1>1, <1>3, <1>6, TypesNow
<1>8. \A g \in Files, d \in Epochs : cache'[g][d] # None =>
          \/ cache'[g][d] = cache[g][d] /\ (on /\ row.live /\ g = f => d # row.epoch)
          \/ g = f /\ d = row.epoch /\ cache'[g][d] = NewDoc(0, 0) /\ NextSeq(row) = 1
             /\ DurableText(row) = 0
    BY <1>2, <1>4, <1>7
<1>9. row.epoch >= rows[f].epoch
    BY <1>1, <1>2, CountsAssumption DEF Epochs
<1>10. on /\ row.live => ~Begun(f, row.epoch) /\ row.snap # None /\ DurableText(row) = 0
    BY <1>1, <1>2, <1>4, <1>5
<1> HIDE DEF doc, e
<1> QED BY <1>1, <1>2, <1>3, <1>7, <1>8, <1>9, <1>10, TypesNow, NoteBeginsAgain

LEMMA WriteFileStep ==
    ASSUME IInv, NEW f \in Files, NEW text \in Texts, WriteFile(f, text)
    PROVE  IInv'
<1> DEFINE row == [rows[f] EXCEPT !.live = TRUE, !.mat = text]
<1>1. rows[f] \in Row /\ rows[f].epoch \in Nat
    BY TypesNow, CountsAssumption DEF Row, Epochs
<1>2. row \in Row /\ row.live /\ row.mat = text /\ row.epoch = rows[f].epoch
    BY <1>1 DEF Row
<1> HIDE DEF row
<1>3. /\ ~on /\ ~durable.busy /\ (rows[f].live \/ rows[f].epoch < MaxEpoch)
      /\ rows' = [rows EXCEPT ![f] = row]
      /\ ghost' = [ghost EXCEPT ![f] = [base |-> text, count |-> 0, landed |-> 0]]
      /\ switch' = Moved(switch, f)
      /\ UNCHANGED <<on, cache, queue, retiring, durable, deleting, listings>>
    BY DEF WriteFile, row
<1>4. row.epoch < MaxEpoch \/ \A s \in Switchers : ~Reading(s)
    BY <1>2, <1>3 DEF IInv, ReadsInv
<1>5. row.epoch >= rows[f].epoch
    BY <1>1, <1>2
<1> QED BY <1>2, <1>3, <1>4, <1>5, TypesNow, NoteBeginsAgain

LEMMA DeleteCommitsStep ==
    ASSUME IInv, DeleteCommits
    PROVE  IInv'
<1> DEFINE f   == deleting.file
           row == [live |-> FALSE, epoch |-> rows[f].epoch + 1, mat |-> 0,
                   snap |-> None, upTo |-> 0, log |-> {}]
<1>1. /\ f \in Files /\ rows[f].epoch \in Nat /\ rows[f].epoch \in Epochs
      /\ rows[f].epoch < MaxEpoch /\ MaxEpoch \in Nat /\ 0 \in Texts /\ MaxSeq \in Nat
  <2>1. f \in Files /\ rows[f].epoch \in Epochs
      BY TypesNow
  <2>2. MaxEpoch \in Nat /\ MaxSeq \in Nat /\ TextCount \in Nat \ {0}
      BY CountsAssumption
  <2>3. 0 \in Texts
      BY <2>2 DEF Texts
  <2> QED BY <2>1, <2>2, <2>3 DEF Epochs, DeleteCommits
<1>2. /\ ~durable.busy /\ rows' = [rows EXCEPT ![f] = row]
      /\ ghost' = [ghost EXCEPT ![f] = [base |-> 0, count |-> 0, landed |-> 0]]
      /\ switch' = Moved(switch, f) /\ deleting' = [deleting EXCEPT !.pc = "deleted"]
      /\ UNCHANGED <<on, cache, queue, retiring, durable, listings>>
    BY DEF DeleteCommits
<1>3. row \in Row /\ ~row.live /\ row.mat = 0 /\ row.epoch = rows[f].epoch + 1
    BY <1>1 DEF Row, Epochs
<1>4. deleting' \in [pc : {"none", "asked", "deleted"}, file : Files, epoch : Epochs]
    BY <1>2, TypesNow
<1>5. row.epoch >= rows[f].epoch /\ row.epoch # rows[f].epoch
    BY <1>1, <1>3
<1> HIDE DEF row, f
<1> QED BY <1>1, <1>2, <1>3, <1>4, <1>5, TypesNow, NoteBeginsAgain

-----------------------------------------------------------------------------
(* Steps of the blob queue and of a request that retires the room.         *)

LEMMA Alone ==
    ASSUME OneAtATime, NEW s \in Switchers, switch[s].pc # "idle"
    PROVE  \A t \in Switchers : t # s => /\ switch[t].pc = "idle"
                                         /\ ~Retiring(t) /\ ~Landed(t) /\ ~Reading(t)
BY DEF OneAtATime, Retiring, Landed, Reading

\* The note is not a row that request s listed and has to land.
NothingToLand(s, sw, f) ==
    rows[f].live /\ sw[s].seen[f].epoch = rows[f].epoch
       => sw[s].seen[f].mat = TextOf(f, ghost[f].count)

\* landRoomDocuments finds nothing more to write...
LandsNoMore(s, sw, rest) ==
    /\ switch' = [sw EXCEPT ![s].pc = "off", ![s].todo = {}]
    /\ queue' = rest
    /\ \A f \in sw[s].todo : NothingToLand(s, sw, f)

\* ...or queues v, and leaves `todo` for later.
LandsNext(s, sw, rest, todo, v) ==
    /\ switch' = [sw EXCEPT ![s].pc = "land", ![s].todo = todo]
    /\ queue' = Append(rest, v)
    /\ GoodLanding(v) /\ v.by = s /\ v.awaited = {} /\ v.n = ghost[v.file].count
    /\ v.file \in sw[s].todo /\ v.epoch = sw[s].seen[v.file].epoch
    /\ \A f \in sw[s].todo : f \in todo \/ f = v.file \/ NothingToLand(s, sw, f)

LEMMA LandOnIsRight ==
    ASSUME IInv, on, ~durable.busy, NEW s \in Switchers, NEW sw \in [Switchers -> Switch],
           NEW rest \in Seq(Landing), LandOn(s, sw, rest),
           \A f \in sw[s].todo : Begun(f, sw[s].seen[f].epoch)
    PROVE  \/ LandsNoMore(s, sw, rest)
           \/ \E todo \in SUBSET sw[s].todo, v \in Landing : LandsNext(s, sw, rest, todo, v)
<1> DEFINE differs(f) == /\ Loaded(f, sw[s].seen[f].epoch).text # sw[s].seen[f].mat
                         /\ \/ cache[f][sw[s].seen[f].epoch] # None
                            \/ sw[s].seen[f].epoch = rows[f].epoch /\ HasDurableState(rows[f])
           left == {f \in sw[s].todo : differs(f)}
<1>1. /\ sw[s].todo \subseteq Files /\ \A f \in Files : sw[s].seen[f].epoch \in Epochs
      /\ Files \subseteq Nat
  <2>1. sw[s].todo \subseteq Files /\ sw[s].seen \in [Files -> Listed]
      BY DEF Switch
  <2> QED BY <2>1, CountsAssumption DEF Listed, Files
<1>2. Active
    BY DEF Active
<1>3. \A f \in sw[s].todo : ~differs(f) => NothingToLand(s, sw, f)
  <2> SUFFICES ASSUME NEW f \in sw[s].todo, ~differs(f), rows[f].live,
                      sw[s].seen[f].epoch = rows[f].epoch
               PROVE  sw[s].seen[f].mat = TextOf(f, ghost[f].count)
      BY DEF NothingToLand
  <2>1. f \in Files /\ rows[f].epoch \in Epochs
      BY <1>1, TypesNow
  <2>2. Loaded(f, rows[f].epoch).text = DurableText(rows[f])
      BY <1>2, <2>1, LoadedIsGood DEF GoodDoc
  <2>3. rows[f].snap # None /\ DurableText(rows[f]) = TextOf(f, ghost[f].count)
      BY <1>2, <2>1 DEF IInv, TextsInv
  <2> QED BY <2>2, <2>3 DEF HasDurableState
<1>4. CASE left = {}
  <2>1. switch' = [sw EXCEPT ![s].pc = "off", ![s].todo = {}] /\ queue' = rest
      BY <1>4 DEF LandOn
  <2> QED BY <1>3, <1>4, <2>1 DEF LandsNoMore
<1>5. CASE left # {}
  <2> DEFINE f == Min(left)
             e == sw[s].seen[f].epoch
             w == Land(f, e, Loaded(f, e).text, s, {})
             todo == {g \in sw[s].todo : g > f}
  <2>1. switch' = [sw EXCEPT ![s].pc = "land", ![s].todo = todo] /\ queue' = Append(rest, w)
      BY <1>5 DEF LandOn
  <2>2. left \in SUBSET Nat /\ left \subseteq sw[s].todo
      BY <1>1
  <2>3. f \in left /\ \A g \in left : f <= g
      BY <1>5, <2>2, LeastOf
  <2>4. \A g \in sw[s].todo : g \in todo \/ g = f \/ NothingToLand(s, sw, g)
    <3> SUFFICES ASSUME NEW g \in sw[s].todo, g \notin todo, g # f
                 PROVE  NothingToLand(s, sw, g)
        OBVIOUS
    <3>1. f \in Nat /\ g \in Nat
        BY <1>1, <2>2, <2>3
    <3>2. ~(g > f)
        OBVIOUS
    <3> HIDE DEF f, differs
    <3>3. ~(f <= g)
        BY <3>1, <3>2
    <3>4. g \notin left
        BY <2>3, <3>3
    <3> QED BY <1>3, <3>4
  <2>5. f \in sw[s].todo /\ f \in Files /\ e \in Epochs /\ Begun(f, e)
      BY <1>1, <2>2, <2>3
  <2> HIDE DEF f, e
  <2>6. /\ Loaded(f, e).text \in Texts
        /\ Active /\ rows[f].live /\ e = rows[f].epoch => Loaded(f, e).text = DurableText(rows[f])
      BY <2>5, LoadedIsGood DEF GoodDoc, Doc
  <2>7. w \in Landing /\ GoodLanding(w) /\ w.file = f /\ w.epoch = e /\ w.by = s
        /\ w.n = ghost[f].count
      BY <2>5, <2>6, LandingIsGood
  <2>8. w.awaited = {}
      BY DEF Land
  <2> HIDE DEF w
  <2>9. todo \in SUBSET sw[s].todo
      OBVIOUS
  <2> HIDE DEF todo, left
  <2>10. w.epoch = sw[s].seen[w.file].epoch
      BY <2>7 DEF e
  <2> QED BY <2>1, <2>4, <2>5, <2>7, <2>8, <2>9, <2>10 DEF LandsNext
<1> QED BY <1>4, <1>5

\* What the head of the queue writes is the text of the note that each request which
\* retires the room waits for, or is newer than what was written.
LEMMA LandsStep ==
    ASSUME IInv, Lands
    PROVE  IInv'
<1> DEFINE w  == Head(queue)
           f  == w.file
           sw == IF Accepts(w) THEN Moved(switch, f) ELSE switch
           q  == Tail(queue)
<1>1. /\ queue \in Seq(Landing) /\ queue # <<>> /\ ~durable.busy
      /\ rows \in [Files -> Row] /\ ghost \in [Files -> Ghost]
      /\ switch \in [Switchers -> Switch]
      /\ UNCHANGED <<on, cache, retiring, durable, deleting, listings>>
      /\ IF Accepts(w)
         THEN rows' = [rows EXCEPT ![f].mat = w.text] /\ ghost' = [ghost EXCEPT ![f].landed = w.n]
         ELSE UNCHANGED <<rows, ghost>>
      /\ IF w.by = None THEN switch' = sw /\ queue' = q ELSE LandOn(w.by, sw, q)
    BY DEF IInv, TypeOK, Lands
<1>2. /\ w \in Landing /\ q \in Seq(Landing) /\ 1 \in DOMAIN queue /\ queue[1] = w
      /\ \A i \in DOMAIN q : i \in Nat /\ i + 1 \in DOMAIN queue /\ q[i] = queue[i + 1]
      /\ \A i \in DOMAIN queue : i # 1 => i - 1 \in DOMAIN q /\ q[i - 1] = queue[i]
      /\ DOMAIN q = 1 .. Len(q) /\ Len(q) \in Nat
  <2>1. queue \in Seq(Landing) /\ queue # <<>>
      BY <1>1
  <2>2. /\ w \in Landing /\ q \in Seq(Landing) /\ 1 \in DOMAIN queue /\ queue[1] = w
        /\ \A i \in DOMAIN q : i \in Nat /\ i + 1 \in DOMAIN queue /\ q[i] = queue[i + 1]
        /\ \A i \in DOMAIN queue : i # 1 => i - 1 \in DOMAIN q /\ q[i - 1] = queue[i]
      BY <2>1, TailIs
  <2> QED BY <2>2
<1>3. /\ GoodLanding(w) /\ (w.by # None => switch[w.by].pc = "land")
      /\ \A i \in DOMAIN q : /\ q[i] \in Landing /\ GoodLanding(q[i])
                             /\ q[i].by # None => w.by = None /\ switch[q[i].by].pc = "land"
                             /\ q[i].file = f /\ Active /\ Current(w) /\ Current(q[i]) => w.n <= q[i].n
    BY <1>2 DEF IInv, QueueInv
<1>4. f \in Files /\ w.n \in Nat /\ w.text \in Texts /\ w.by \in Switchers \cup {None}
    BY <1>2 DEF Landing
<1> HIDE DEF w, f, q
<1>5. Accepts(w) <=> on /\ Current(w)
    BY DEF Accepts, Current
<1>6. /\ sw \in [Switchers -> Switch]
      /\ \A s \in Switchers :
            /\ sw[s].pc = switch[s].pc /\ sw[s].todo = switch[s].todo
            /\ \A g \in Files : /\ sw[s].seen[g].epoch = switch[s].seen[g].epoch
                                /\ sw[s].seen[g].mat = switch[s].seen[g].mat
    BY <1>1, <1>4, MovedIs
<1> HIDE DEF sw
<1>7. Current(w) /\ on => /\ ghost[f].landed <= w.n /\ w.n <= ghost[f].count
                          /\ w.text = TextOf(f, w.n)
    BY <1>3 DEF GoodLanding, Active, f
<1>8. /\ rows' \in [Files -> Row] /\ ghost' \in [Files -> Ghost]
      /\ \A g \in Files :
            /\ rows'[g].live = rows[g].live /\ rows'[g].epoch = rows[g].epoch
            /\ rows'[g].snap = rows[g].snap /\ rows'[g].upTo = rows[g].upTo
            /\ rows'[g].log = rows[g].log
            /\ ghost'[g].base = ghost[g].base /\ ghost'[g].count = ghost[g].count
            /\ ghost'[g].count \in Nat
            /\ g = f /\ on /\ Current(w) =>
                  rows'[g].mat = TextOf(f, w.n) /\ ghost'[g].landed = w.n
            /\ ~(g = f /\ on /\ Current(w)) => rows'[g] = rows[g] /\ ghost'[g] = ghost[g]
  <2>1. \A g \in Files : rows[g] \in Row /\ ghost[g] \in Ghost
      BY <1>1
  <2>2. CASE Accepts(w)
    <3>1. /\ rows' = [rows EXCEPT ![f].mat = w.text] /\ ghost' = [ghost EXCEPT ![f].landed = w.n]
          /\ w.text = TextOf(f, w.n) /\ on /\ Current(w)
        BY <1>1, <1>5, <1>7, <2>2
    <3> QED BY <1>1, <1>4, <2>1, <3>1 DEF Row, Ghost
  <2>3. CASE ~Accepts(w)
    <3>1. rows' = rows /\ ghost' = ghost /\ ~(on /\ Current(w))
        BY <1>1, <1>5, <2>3
    <3> QED BY <1>1, <2>1, <3>1 DEF Ghost
  <2> QED BY <2>2, <2>3
<1>9. \A g \in Files : /\ DurableText(rows'[g]) = DurableText(rows[g])
                       /\ NextSeq(rows'[g]) = NextSeq(rows[g])
                       /\ \A n \in Nat : TextOf(g, n)' = TextOf(g, n)
    BY <1>8 DEF DurableText, NextSeq, Replayed, TextOf
<1>10. /\ Active' = Active /\ OldOn' = OldOn /\ (on => Active)
       /\ \A g \in Files, d \in Epochs : Begun(g, d)' = Begun(g, d)
    BY <1>1, <1>8 DEF Active, OldOn, Begun, Old
<1>11. w.by # None => /\ on /\ Retiring(w.by) /\ Landed(w.by) /\ w.by \in Switchers
                      /\ \A g \in switch[w.by].todo : Begun(g, switch[w.by].seen[g].epoch)
                      /\ \A g \in sw[w.by].todo : Begun(g, sw[w.by].seen[g].epoch)
  <2> SUFFICES ASSUME w.by # None
               PROVE  /\ on /\ Retiring(w.by) /\ Landed(w.by) /\ w.by \in Switchers
                      /\ \A g \in switch[w.by].todo : Begun(g, switch[w.by].seen[g].epoch)
                      /\ \A g \in sw[w.by].todo : Begun(g, sw[w.by].seen[g].epoch)
      OBVIOUS
  <2>1. w.by \in Switchers /\ Retiring(w.by) /\ Landed(w.by)
      BY <1>3, <1>4 DEF Retiring, Landed
  <2>2. on
      BY <2>1 DEF IInv, PhasesInv
  <2>3. \A g \in switch[w.by].todo : Begun(g, switch[w.by].seen[g].epoch)
      BY <2>1 DEF IInv, LandInv
  <2>4. sw[w.by].todo = switch[w.by].todo /\ switch[w.by].todo \subseteq Files
        /\ \A g \in Files : sw[w.by].seen[g].epoch = switch[w.by].seen[g].epoch
      BY <1>1, <1>6, <2>1 DEF Switch
  <2> QED BY <2>1, <2>2, <2>3, <2>4
\* What is written is the whole text for a request past its settling.
<1>12. \A s \in Switchers : Landed(s) /\ on /\ Current(w) => w.n = ghost[f].count
    BY <1>3 DEF GoodLanding, Landed, Retiring, f
<1>13. \A v \in Landing : GoodLanding(v) /\ (v.file = f /\ Active /\ Current(w) /\ Current(v) => w.n <= v.n)
           /\ (\A s \in Switchers : Landed(s)' => Landed(s)) /\ (\A s \in Switchers : Retiring(s)' => Retiring(s))
           => GoodLanding(v)'
  <2> SUFFICES ASSUME NEW v \in Landing, GoodLanding(v),
                      v.file = f /\ Active /\ Current(w) /\ Current(v) => w.n <= v.n,
                      \A s \in Switchers : Landed(s)' => Landed(s),
                      \A s \in Switchers : Retiring(s)' => Retiring(s)
               PROVE  GoodLanding(v)'
      OBVIOUS
  <2>1. v.file \in Files /\ v.epoch \in Epochs /\ v.n \in Nat
      BY DEF Landing
  <2>2. Current(v)' = Current(v)
      BY <1>8, <2>1 DEF Current
  <2>3. Active /\ Current(v) => /\ ghost'[v.file].landed <= v.n /\ v.n <= ghost'[v.file].count
                                /\ v.text = TextOf(v.file, v.n)'
    <3> SUFFICES ASSUME Active, Current(v)
                 PROVE  /\ ghost'[v.file].landed <= v.n /\ v.n <= ghost'[v.file].count
                        /\ v.text = TextOf(v.file, v.n)'
        OBVIOUS
    <3>1. /\ ghost[v.file].landed <= v.n /\ v.n <= ghost[v.file].count
          /\ v.text = TextOf(v.file, v.n)
        BY DEF GoodLanding
    <3>2. ghost'[v.file].landed = ghost[v.file].landed \/ ghost'[v.file].landed <= v.n
        BY <1>8, <1>10, <2>1
    <3>3. ghost'[v.file].count = ghost[v.file].count /\ TextOf(v.file, v.n)' = TextOf(v.file, v.n)
        BY <1>8, <1>9, <2>1
    <3> QED BY <3>1, <3>2, <3>3
  <2>4. ghost'[v.file].count = ghost[v.file].count
      BY <1>8, <2>1
  <2> QED BY <1>10, <2>1, <2>2, <2>3, <2>4 DEF GoodLanding
<1>14. TextsInv'
  <2> SUFFICES ASSUME NEW g \in Files
               PROVE  /\ ghost'[g].landed <= ghost'[g].count /\ rows'[g].mat = TextOf(g, ghost[g].landed)'
                      /\ rows'[g].live /\ Active => rows'[g].snap # None
                            /\ DurableText(rows'[g]) = TextOf(g, ghost[g].count)'
                      /\ rows'[g].live /\ ~(on /\ OldOn) => rows'[g].mat = TextOf(g, ghost[g].count)'
      BY <1>1, <1>10 DEF TextsInv
  <2>1. /\ ghost[g].landed <= ghost[g].count /\ rows[g].mat = TextOf(g, ghost[g].landed)
        /\ rows[g].live /\ Active => rows[g].snap # None
                            /\ DurableText(rows[g]) = TextOf(g, ghost[g].count)
        /\ rows[g].live /\ ~(on /\ OldOn) => rows[g].mat = TextOf(g, ghost[g].count)
      BY DEF IInv, TextsInv
  <2>2. ghost[g].landed \in Nat /\ ghost[g].count \in Nat
      BY <1>1 DEF Ghost
  <2>3. on => OldOn
      BY <1>1 DEF OldOn
  <2>4. CASE g = f /\ on /\ Current(w)
      BY <1>4, <1>7, <1>8, <1>9, <2>1, <2>2, <2>3, <2>4
  <2>5. CASE ~(g = f /\ on /\ Current(w))
      BY <1>8, <1>9, <2>1, <2>2, <2>5
  <2> QED BY <2>4, <2>5
<1>15. ListingsInv'
    BY <1>1, <1>10, ListingsKept
\* The requests and the queue afterwards.
<1>16. \/ w.by = None /\ switch' = sw /\ queue' = q
       \/ w.by # None /\ LandsNoMore(w.by, sw, q)
       \/ w.by # None /\ \E todo \in SUBSET sw[w.by].todo, v \in Landing :
                            LandsNext(w.by, sw, q, todo, v)
  <2>1. CASE w.by = None
      BY <1>1, <2>1
  <2>2. CASE w.by # None
    <3>1. LandOn(w.by, sw, q)
        BY <1>1, <2>2
    <3> QED BY <1>1, <1>2, <1>6, <1>11, <2>2, <3>1, LandOnIsRight
  <2> QED BY <2>1, <2>2
<1>17. /\ switch' \in [Switchers -> Switch]
       /\ \A s \in Switchers :
             /\ switch'[s].todo \subseteq switch[s].todo
             /\ \A g \in Files : /\ switch'[s].seen[g].epoch = switch[s].seen[g].epoch
                                 /\ switch'[s].seen[g].mat = switch[s].seen[g].mat
             /\ s # w.by => switch'[s].pc = switch[s].pc /\ switch'[s].todo = switch[s].todo
             /\ s = w.by => switch[s].pc = "land" /\ switch'[s].pc \in {"land", "off"}
  <2>1. CASE w.by = None
      BY <1>6, <1>16, <2>1, NoneAssumption
  <2>2. ASSUME NEW todo \in SUBSET sw[w.by].todo, NEW pc \in {"land", "off"}, w.by # None,
               switch' = [sw EXCEPT ![w.by].pc = pc, ![w.by].todo = todo]
        PROVE  <1>17
    <3>1. w.by \in Switchers /\ switch[w.by].pc = "land"
        BY <1>3, <1>11, <2>2
    <3>2. todo \in SUBSET Files /\ sw[w.by] \in Switch
        BY <1>6, <3>1 DEF Switch
    <3>3. switch' = [sw EXCEPT ![w.by] = [sw[w.by] EXCEPT !.pc = pc, !.todo = todo]]
        BY <1>6, <2>2, <3>1, <3>2 DEF Switch
    <3>4. [sw[w.by] EXCEPT !.pc = pc, !.todo = todo] \in Switch
        BY <3>2 DEF Switch
    <3>5. switch' \in [Switchers -> Switch]
        BY <1>6, <3>1, <3>3, <3>4
    <3>6. \A s \in Switchers : /\ s # w.by => switch'[s] = sw[s]
                               /\ s = w.by => switch'[s].pc = pc /\ switch'[s].todo = todo
                               /\ switch'[s].seen = sw[s].seen
        BY <1>6, <3>2, <3>3 DEF Switch
    <3> QED BY <1>6, <2>2, <3>1, <3>5, <3>6
  <2>3. CASE w.by # None /\ LandsNoMore(w.by, sw, q)
    <3>1. {} \in SUBSET sw[w.by].todo
        OBVIOUS
    <3> QED BY <2>2, <2>3, <3>1 DEF LandsNoMore
  <2>4. ASSUME NEW todo \in SUBSET sw[w.by].todo, NEW v \in Landing, w.by # None,
               LandsNext(w.by, sw, q, todo, v)
        PROVE  <1>17
      BY <2>2, <2>4 DEF LandsNext
  <2> QED BY <1>16, <2>1, <2>3, <2>4
<1>18. \A s \in Switchers : /\ Retiring(s)' = Retiring(s) /\ Landed(s)' = Landed(s)
                            /\ Reading(s)' = Reading(s)
                            /\ switch[s].pc = "idle" => switch'[s].pc = "idle"
    BY <1>17 DEF Retiring, Landed, Reading
<1>19. /\ queue' \in Seq(Landing)
       /\ \A i \in DOMAIN q : i \in DOMAIN queue' /\ queue'[i] = q[i]
       /\ DOMAIN queue' \subseteq Nat
       /\ \A i \in DOMAIN queue' : \/ i \in DOMAIN q /\ queue'[i] = q[i]
                                  \/ /\ i = Len(q) + 1 /\ \A j \in DOMAIN queue' : j <= i
                                     /\ queue'[i] \in Landing /\ GoodLanding(queue'[i])
                                     /\ w.by # None /\ queue'[i].by = w.by /\ switch'[w.by].pc = "land"
                                     /\ queue'[i].n = ghost[queue'[i].file].count
  <2>1. CASE queue' = q
      BY <1>2, <2>1
  <2>2. ASSUME NEW v \in Landing, queue' = Append(q, v), GoodLanding(v), v.by = w.by,
               v.n = ghost[v.file].count, w.by # None, switch'[w.by].pc = "land"
        PROVE  <1>19
    <3>1. /\ queue' \in Seq(Landing) /\ DOMAIN queue' = 1 .. Len(q) + 1
          /\ \A i \in DOMAIN q : queue'[i] = q[i]
          /\ queue'[Len(q) + 1] = v
        BY <1>2, <2>2, AppendedTo
    <3>2. \A i \in DOMAIN q : i \in DOMAIN queue' /\ queue'[i] = q[i]
        BY <1>2, <3>1
    <3>3. \A i \in DOMAIN queue' : i \in DOMAIN q \/ i = Len(q) + 1
        BY <1>2, <3>1
    <3>4. DOMAIN queue' \subseteq Nat /\ \A j \in DOMAIN queue' : j <= Len(q) + 1
        BY <1>2, <3>1
    <3> QED BY <2>2, <3>1, <3>2, <3>3, <3>4
  <2>3. ASSUME NEW todo \in SUBSET sw[w.by].todo, NEW v \in Landing, w.by # None,
               LandsNext(w.by, sw, q, todo, v)
        PROVE  <1>19
    <3>1. w.by \in Switchers /\ switch'[w.by].pc = "land"
        BY <1>6, <1>11, <2>3 DEF LandsNext, Switch
    <3> QED BY <2>2, <2>3, <3>1 DEF LandsNext
  <2> QED BY <1>16, <2>1, <2>3 DEF LandsNoMore
<1>20. TypeOK'
    BY <1>1, <1>8, <1>17, <1>19 DEF IInv, TypeOK
<1>21. PhasesInv'
  <2>1. \A s \in Switchers : /\ switch[s].pc \notin {"offFlush", "onFlush"}
                             /\ Retiring(s) => on /\ retiring
                             /\ Reading(s) => ~on
      BY <1>1 DEF IInv, PhasesInv
  <2>2. \A s \in Switchers : switch'[s].pc \notin {"offFlush", "onFlush"}
      BY <1>17, <2>1
  <2>3. ~durable'.busy /\ on' = on /\ retiring' = retiring
      BY <1>1
  <2> QED BY <1>18, <2>1, <2>2, <2>3 DEF PhasesInv
<1>22. ReadsInv'
  <2> SUFFICES ASSUME NEW s \in Switchers, Reading(s)
               PROVE  \A g \in Files :
                         /\ rows'[g].live => rows'[g].epoch < MaxEpoch
                         /\ switch'[s].seen[g].fresh => switch'[s].seen[g].mat = rows'[g].mat
      BY <1>18 DEF ReadsInv
  <2>1. ~on
      BY DEF IInv, PhasesInv
  <2>2. w.by = None
      BY <1>11, <2>1
  <2>3. switch' = switch /\ \A g \in Files : rows'[g] = rows[g]
      BY <1>1, <1>5, <1>8, <2>1, <2>2 DEF sw
  <2> QED BY <2>3 DEF IInv, ReadsInv
<1>23. DocsInv'
  <2> SUFFICES ASSUME NEW g \in Files, NEW e \in Epochs, NEW doc \in Doc, GoodDoc(g, e, doc)
               PROVE  GoodDoc(g, e, doc)'
      BY <1>1, DocsKept
  <2> QED BY <1>8, <1>9, <1>10, <1>18 DEF GoodDoc
<1>24. \A i \in DOMAIN queue' :
          /\ queue'[i] \in Landing /\ GoodLanding(queue'[i])
          /\ queue'[i].file = f /\ Active /\ Current(w) /\ Current(queue'[i]) => w.n <= queue'[i].n
  <2> SUFFICES ASSUME NEW i \in DOMAIN queue'
               PROVE  /\ queue'[i] \in Landing /\ GoodLanding(queue'[i])
                      /\ queue'[i].file = f /\ Active /\ Current(w) /\ Current(queue'[i])
                           => w.n <= queue'[i].n
      OBVIOUS
  <2>1. CASE i \in DOMAIN q /\ queue'[i] = q[i]
      BY <1>3, <2>1
  <2>2. CASE /\ queue'[i] \in Landing /\ GoodLanding(queue'[i])
             /\ queue'[i].n = ghost[queue'[i].file].count
      BY <1>3, <2>2 DEF GoodLanding, f
  <2> QED BY <1>19, <2>1, <2>2
<1>25. QueueInv'
  <2>1. (\A i \in DOMAIN queue : GoodLanding(queue[i]))'
    <3> SUFFICES ASSUME NEW i \in (DOMAIN queue)'
                 PROVE  GoodLanding(queue[i])'
        OBVIOUS
    <3>1. \A v \in Landing : v = queue'[i] => GoodLanding(v)'
        BY <1>13, <1>18, <1>24
    <3>2. queue'[i] \in Landing
        BY <1>24
    <3> QED BY <3>1, <3>2 DEF GoodLanding, Current, Begun, Old, TextOf
  <2>2. (\A i, j \in DOMAIN queue :
            i < j /\ queue[i].file = queue[j].file /\ Active /\ Current(queue[i]) /\ Current(queue[j])
              => queue[i].n <= queue[j].n)'
    <3> SUFFICES ASSUME NEW i \in DOMAIN queue', NEW j \in DOMAIN queue', i < j,
                        queue'[i].file = queue'[j].file, Active,
                        Current(queue'[i]), Current(queue'[j])
                 PROVE  queue'[i].n <= queue'[j].n
        BY <1>8, <1>10, <1>24 DEF Current, Landing
    <3>1. i \in DOMAIN q /\ queue'[i] = q[i]
      <4>1. i \in Nat /\ j \in Nat /\ ~(j <= i)
          BY <1>19
      <4> QED BY <1>19, <4>1
    <3>3. CASE j \in DOMAIN q /\ queue'[j] = q[j]
      <4>1. i + 1 \in DOMAIN queue /\ j + 1 \in DOMAIN queue /\ i + 1 < j + 1
            /\ queue[i + 1] = queue'[i] /\ queue[j + 1] = queue'[j]
          BY <1>2, <3>1, <3>3
      <4> QED BY <4>1 DEF IInv, QueueInv
    <3>4. CASE queue'[j].n = ghost[queue'[j].file].count
      <4>1. queue'[i].n <= ghost[queue'[i].file].count
          BY <1>24 DEF GoodLanding
      <4> QED BY <3>4, <4>1
    <3> QED BY <1>19, <3>3, <3>4
  <2>3. (\A i, j \in DOMAIN queue : queue[i].by # None /\ queue[j].by # None => i = j)'
    <3> SUFFICES ASSUME NEW i \in DOMAIN queue', NEW j \in DOMAIN queue',
                        queue'[i].by # None, queue'[j].by # None
                 PROVE  i = j
        OBVIOUS
    <3>1. CASE w.by = None
      <4>1. /\ i \in DOMAIN q /\ queue'[i] = q[i] /\ j \in DOMAIN q /\ queue'[j] = q[j]
          BY <1>19, <3>1
      <4>2. /\ i + 1 \in DOMAIN queue /\ j + 1 \in DOMAIN queue /\ i \in Nat /\ j \in Nat
            /\ queue[i + 1] = queue'[i] /\ queue[j + 1] = queue'[j]
          BY <1>2, <4>1
      <4>3. i + 1 = j + 1
          BY <4>2 DEF IInv, QueueInv
      <4> QED BY <4>2, <4>3
    <3>2. CASE w.by # None
      <4>1. i \notin DOMAIN q /\ j \notin DOMAIN q
          BY <1>3, <1>19, <3>2
      <4> QED BY <1>19, <4>1
    <3> QED BY <3>1, <3>2
  <2>4. (\A i \in DOMAIN queue : queue[i].by # None => switch[queue[i].by].pc = "land")'
    <3> SUFFICES ASSUME NEW i \in DOMAIN queue', queue'[i].by # None
                 PROVE  switch'[queue'[i].by].pc = "land"
        OBVIOUS
    <3>1. CASE i \in DOMAIN q /\ queue'[i] = q[i]
      <4>1. w.by = None /\ switch[q[i].by].pc = "land" /\ q[i].by \in Switchers
          BY <1>3, <3>1 DEF Landing
      <4> QED BY <1>17, <3>1, <4>1, NoneAssumption
    <3>2. CASE queue'[i].by = w.by /\ switch'[w.by].pc = "land"
        BY <3>2
    <3> QED BY <1>19, <3>1, <3>2
  <2> QED BY <2>1, <2>2, <2>3, <2>4 DEF QueueInv
<1>26. ASSUME NEW s \in Switchers, Landed(s), NEW g \in Files, rows[g].live
       PROVE  Settles(s, g)'
  <2>1. on
      BY <1>26 DEF IInv, PhasesInv, Landed, Retiring
  <2>2. /\ ghost'[g].count = ghost[g].count /\ rows'[g].epoch = rows[g].epoch
        /\ TextOf(g, ghost[g].count)' = TextOf(g, ghost[g].count)
      BY <1>8, <1>9
  <2>3. CASE g = f /\ Current(w)
    <3>1. rows'[g].mat = TextOf(g, ghost[g].count)
        BY <1>8, <1>12, <1>26, <2>1, <2>3
    <3> QED BY <2>2, <3>1 DEF Settles
  <2>4. CASE ~(g = f /\ Current(w))
    <3>1. rows'[g].mat = rows[g].mat
        BY <1>8, <2>4
    <3>2. Settles(s, g)
        BY <1>26 DEF IInv, LandInv
    <3>3. CASE rows[g].mat = TextOf(g, ghost[g].count)
        BY <2>2, <3>1, <3>3 DEF Settles
    <3>4. ASSUME NEW i \in DOMAIN queue, queue[i].by = s, queue[i].file = g,
                 queue[i].epoch = rows[g].epoch
          PROVE  Settles(s, g)'
      <4>1. i # 1
          BY <1>2, <1>26, <2>4, <3>4 DEF Current, f
      <4>2. i - 1 \in DOMAIN queue' /\ queue'[i - 1] = queue[i]
          BY <1>2, <1>19, <4>1
      <4> QED BY <2>2, <3>4, <4>2 DEF Settles
    <3>5. CASE /\ g \in switch[s].todo /\ switch[s].seen[g].epoch = rows[g].epoch
               /\ switch[s].seen[g].mat = rows[g].mat
      <4>1. CASE g \in switch'[s].todo
          BY <1>17, <2>2, <3>1, <3>5, <4>1 DEF Settles
      <4>2. CASE g \notin switch'[s].todo
        <5>1. s = w.by /\ w.by # None
            BY <1>17, <3>5, <4>2, NoneAssumption
        <5>2. /\ g \in sw[s].todo /\ sw[s].seen[g].epoch = rows[g].epoch
              /\ sw[s].seen[g].mat = rows[g].mat
            BY <1>6, <3>5
        <5>3. NothingToLand(s, sw, g) => rows[g].mat = TextOf(g, ghost[g].count)
            BY <1>26, <5>2 DEF NothingToLand
        <5>4. CASE LandsNoMore(s, sw, q)
            BY <3>3, <5>2, <5>3, <5>4 DEF LandsNoMore
        <5>5. ASSUME NEW todo \in SUBSET sw[s].todo, NEW v \in Landing,
                     LandsNext(s, sw, q, todo, v)
              PROVE  Settles(s, g)'
          <6>1. switch'[s].todo = todo
              BY <1>6, <5>5 DEF LandsNext, Switch
          <6>2. CASE NothingToLand(s, sw, g)
              BY <3>3, <5>3, <6>2
          <6>3. CASE g = v.file
            <7>1. /\ Len(q) + 1 \in DOMAIN queue' /\ queue'[Len(q) + 1] = v
                BY <1>2, <5>5, AppendedTo DEF LandsNext
            <7>2. v.by = s /\ v.epoch = rows[g].epoch
                BY <5>2, <5>5, <6>3 DEF LandsNext
            <7> QED BY <2>2, <6>3, <7>1, <7>2 DEF Settles
          <6> QED BY <4>2, <5>2, <5>5, <6>1, <6>2, <6>3 DEF LandsNext
        <5> QED BY <1>16, <5>1, <5>4, <5>5
      <4> QED BY <4>1, <4>2
    <3> QED BY <3>2, <3>3, <3>4, <3>5 DEF Settles
  <2> QED BY <2>3, <2>4
<1>27. LandInv'
  <2> SUFFICES ASSUME NEW s \in Switchers, Landed(s)
               PROVE  /\ \A g \in switch'[s].todo : Begun(g, switch[s].seen[g].epoch)'
                      /\ switch'[s].pc = "off" => switch'[s].todo = {}
                      /\ \A g \in Files : rows'[g].live => Settles(s, g)'
      BY <1>18 DEF LandInv
  <2>1. \A g \in switch'[s].todo : Begun(g, switch[s].seen[g].epoch)'
    <3> SUFFICES ASSUME NEW g \in switch'[s].todo
                 PROVE  Begun(g, switch[s].seen[g].epoch)'
        OBVIOUS
    <3>1. g \in switch[s].todo /\ g \in Files /\ switch[s].seen[g].epoch \in Epochs
        BY <1>1, <1>17 DEF Switch, Listed
    <3>2. Begun(g, switch[s].seen[g].epoch) /\ switch'[s].seen[g].epoch = switch[s].seen[g].epoch
        BY <1>17, <3>1 DEF IInv, LandInv
    <3> QED BY <1>10, <3>1, <3>2 DEF Begun
  <2>2. switch'[s].pc = "off" => switch'[s].todo = {}
    <3>1. CASE s # w.by
        BY <1>17, <3>1 DEF IInv, LandInv
    <3>2. CASE s = w.by
      <4>1. s # None /\ sw[s] \in Switch
          BY <1>6, NoneAssumption
      <4>2. LandsNoMore(s, sw, q) => switch'[s].todo = {}
          BY <1>6, <4>1 DEF LandsNoMore, Switch
      <4>3. \A todo \in SUBSET sw[s].todo, v \in Landing :
                LandsNext(s, sw, q, todo, v) => switch'[s].pc = "land"
          BY <1>6, <4>1 DEF LandsNext, Switch
      <4> QED BY <1>16, <3>2, <4>1, <4>2, <4>3
    <3> QED BY <3>1, <3>2
  <2>3. \A g \in Files : rows'[g].live => Settles(s, g)'
      BY <1>8, <1>26
  <2> QED BY <2>1, <2>2, <2>3
<1> QED BY <1>14, <1>15, <1>20, <1>21, <1>22, <1>23, <1>25, <1>27 DEF IInv

LEMMA NoSwitchIs == NoSwitch \in Switch /\ NoSwitch.pc = "idle" /\ NoSwitch.todo = {}
                    /\ \A f \in Files : ~NoSwitch.seen[f].fresh
<1>1. 0 \in Texts /\ 0 \in Epochs /\ 0 \in 0 .. MaxSeedAttempts
  <2>1. /\ TextCount \in Nat \ {0} /\ MaxEpoch \in Nat /\ MaxSeedAttempts \in Nat
      BY CountsAssumption
  <2> QED BY <2>1 DEF Texts, Epochs
<1>2. Unlisted \in [Files -> Listed] /\ \A f \in Files : ~Unlisted[f].fresh
    BY <1>1 DEF Unlisted, Listed
<1> QED BY <1>1, <1>2 DEF NoSwitch, Switch

\* No request is left under way: what holds of the documents and the queue.
LEMMA NoneRetires ==
    ASSUME IInv, Active' => Active /\ UNCHANGED <<rows, ghost>>,
           \A f \in Files, e \in Epochs : Begun(f, e) => Begun(f, e)',
           \A s \in Switchers : ~Retiring(s)' /\ ~Landed(s)'
    PROVE  /\ \A f \in Files, e \in Epochs, doc \in Doc : GoodDoc(f, e, doc) => GoodDoc(f, e, doc)'
           /\ \A w \in Landing : GoodLanding(w) =>
                 /\ GoodLanding(w)'
                 /\ (Active /\ Current(w))' => Active /\ Current(w)
<1>1. ASSUME NEW f \in Files, NEW e \in Epochs, NEW doc \in Doc, GoodDoc(f, e, doc)
      PROVE  GoodDoc(f, e, doc)'
    BY <1>1 DEF GoodDoc
<1>2. ASSUME NEW w \in Landing, GoodLanding(w)
      PROVE  GoodLanding(w)' /\ ((Active /\ Current(w))' => Active /\ Current(w))
  <2>1. w.file \in Files /\ w.epoch \in Epochs
      BY DEF Landing
  <2>2. Active' => Current(w)' = Current(w) /\ TextOf(w.file, w.n)' = TextOf(w.file, w.n)
      BY DEF Current, TextOf
  <2> QED BY <1>2, <2>1, <2>2 DEF GoodLanding
<1> QED BY <1>1, <1>2

\* A request gives up: its timers run again, and the queue goes on without it.
LEMMA LandFailsStep ==
    ASSUME IInv, OneAtATime, LandFails
    PROVE  IInv'
<1> DEFINE w == Head(queue)
           q == Tail(queue)
<1>1. /\ queue \in Seq(Landing) /\ queue # <<>>
      /\ switch \in [Switchers -> Switch] /\ cache \in [Files -> [Epochs -> Doc \cup {None}]]
      /\ UNCHANGED <<on, rows, durable, deleting, ghost, listings>>
      /\ queue' = q
    BY DEF IInv, TypeOK, LandFails
<1>2. /\ w \in Landing /\ q \in Seq(Landing) /\ 1 \in DOMAIN queue /\ queue[1] = w
      /\ \A i \in DOMAIN q : i \in Nat /\ i + 1 \in DOMAIN queue /\ q[i] = queue[i + 1]
      /\ \A i \in DOMAIN queue : i # 1 => i - 1 \in DOMAIN q /\ q[i - 1] = queue[i]
    BY <1>1, TailIs
<1>3. CASE w.by = None
  <2>1. UNCHANGED <<cache, switch, retiring>>
      BY <1>3 DEF LandFails
  <2>2. /\ Active' = Active /\ OldOn' = OldOn
        /\ \A s \in Switchers : /\ Retiring(s)' = Retiring(s) /\ Landed(s)' = Landed(s)
                                /\ Reading(s)' = Reading(s)
        /\ \A f \in Files, e \in Epochs : Begun(f, e)' = Begun(f, e)
      BY <1>1, <2>1 DEF Active, OldOn, Retiring, Landed, Reading, Begun, Old
  <2>3. TypeOK' /\ PhasesInv' /\ ReadsInv' /\ TextsInv' /\ DocsInv' /\ ListingsInv'
    <3>1. TypeOK'
        BY <1>1, <1>2, <2>1 DEF IInv, TypeOK
    <3>2. PhasesInv' /\ ReadsInv'
        BY <1>1, <2>1, <2>2 DEF IInv, PhasesInv, ReadsInv
    <3>3. TextsInv'
        BY <1>1, <2>1, <2>2 DEF IInv, TextsInv, TextOf
    <3>4. ASSUME NEW f \in Files, NEW e \in Epochs, NEW doc \in Doc, GoodDoc(f, e, doc)
          PROVE  GoodDoc(f, e, doc)'
        BY <1>1, <2>2, <3>4 DEF GoodDoc
    <3>5. DocsInv' /\ ListingsInv'
        BY <1>1, <2>1, <2>2, <3>4, DocsKept, ListingsKept
    <3> QED BY <3>1, <3>2, <3>3, <3>5
  <2>4. QueueInv'
    <3>1. \A v \in Landing : GoodLanding(v) => GoodLanding(v)'
        BY <1>1, <2>1, <2>2 DEF GoodLanding, Current, TextOf, Landing
    <3>2. \A i \in DOMAIN q : q[i] \in Landing /\ GoodLanding(q[i])
        BY <1>2 DEF IInv, QueueInv
    <3>3. (\A i \in DOMAIN queue : GoodLanding(queue[i]))'
        BY <1>1, <3>1, <3>2 DEF GoodLanding
    <3>4. (\A i, j \in DOMAIN queue :
              i < j /\ queue[i].file = queue[j].file /\ Active /\ Current(queue[i]) /\ Current(queue[j])
                => queue[i].n <= queue[j].n)'
      <4> SUFFICES ASSUME NEW i \in DOMAIN q, NEW j \in DOMAIN q, i < j,
                          q[i].file = q[j].file, Active, Current(q[i]), Current(q[j])
                   PROVE  q[i].n <= q[j].n
          BY <1>1, <2>2 DEF Current
      <4>1. i + 1 \in DOMAIN queue /\ j + 1 \in DOMAIN queue /\ i + 1 < j + 1
            /\ queue[i + 1] = q[i] /\ queue[j + 1] = q[j]
          BY <1>2
      <4> QED BY <4>1 DEF IInv, QueueInv
    <3>5. (\A i \in DOMAIN queue : queue[i].by # None => switch[queue[i].by].pc = "land")'
        BY <1>1, <1>2, <2>1 DEF IInv, QueueInv
    <3>6. (\A i, j \in DOMAIN queue : queue[i].by # None /\ queue[j].by # None => i = j)'
      <4> SUFFICES ASSUME NEW i \in DOMAIN q, NEW j \in DOMAIN q, q[i].by # None, q[j].by # None
                   PROVE  i = j
          BY <1>1
      <4>1. /\ i + 1 \in DOMAIN queue /\ j + 1 \in DOMAIN queue /\ i \in Nat /\ j \in Nat
            /\ queue[i + 1] = q[i] /\ queue[j + 1] = q[j]
          BY <1>2
      <4>2. i + 1 = j + 1
          BY <4>1 DEF IInv, QueueInv
      <4> QED BY <4>1, <4>2
    <3> QED BY <3>3, <3>4, <3>5, <3>6 DEF QueueInv
  <2>5. LandInv'
    <3>1. \A s \in Switchers, f \in Files : Settles(s, f) => Settles(s, f)'
      <4> SUFFICES ASSUME NEW s \in Switchers, NEW f \in Files, Settles(s, f)
                   PROVE  Settles(s, f)'
          OBVIOUS
      <4>1. \A i \in DOMAIN queue : queue[i].by = s => i - 1 \in DOMAIN q /\ q[i - 1] = queue[i]
          BY <1>2, <1>3, NoneAssumption
      <4> QED BY <1>1, <2>1, <4>1 DEF Settles, TextOf
    <3> QED BY <1>1, <2>1, <2>2, <3>1 DEF IInv, LandInv, Begun, Old
  <2> QED BY <2>3, <2>4, <2>5 DEF IInv
<1>4. CASE w.by # None
  <2> DEFINE s == w.by
  <2>1. /\ cache' = Rescheduled(s) /\ switch' = [switch EXCEPT ![s] = NoSwitch] /\ retiring' = FALSE
      BY <1>4 DEF LandFails
  <2>2. s \in Switchers /\ switch[s].pc = "land"
      BY <1>2, <1>4 DEF IInv, QueueInv, Landing
  <2> HIDE DEF s
  <2>3. /\ \A t \in Switchers : switch'[t].pc = "idle" /\ (t # s => switch[t].pc = "idle")
        /\ switch' \in [Switchers -> Switch]
    <3> QED BY <1>1, <2>1, <2>2, NoSwitchIs, Alone
  <2>4. /\ on /\ on' /\ ~durable.busy /\ Active' /\ Active /\ OldOn /\ OldOn'
        /\ \A f \in Files, e \in Epochs : Begun(f, e)' = Begun(f, e)
        /\ \A t \in Switchers : ~Retiring(t)' /\ ~Landed(t)' /\ ~Reading(t)'
    <3>1. on
        BY <2>2 DEF IInv, PhasesInv, Retiring
    <3>2. ~durable.busy
        BY <2>2, <2>3 DEF IInv, PhasesInv
    <3> QED BY <1>1, <2>3, <3>1, <3>2 DEF Active, OldOn, Begun, Old, Retiring, Landed, Reading
  <2>5. /\ cache' \in [Files -> [Epochs -> Doc \cup {None}]]
        /\ DocsInv'
    <3>1. ASSUME NEW f \in Files, NEW e \in Epochs
          PROVE  /\ cache'[f][e] \in Doc \cup {None}
                 /\ cache'[f][e] # None => GoodDoc(f, e, cache[f][e])'
      <4> DEFINE doc == cache[f][e]
                 new == [doc EXCEPT !.timer = TRUE, !.cancelled = @ \ {s}]
      <4>1. cache'[f][e] = IF doc # None /\ s \in doc.cancelled THEN new ELSE doc
          BY <2>1 DEF Rescheduled
      <4>2. CASE doc = None
          BY <4>1, <4>2
      <4>3. CASE doc # None /\ s \notin doc.cancelled
        <5>1. doc \in Doc /\ GoodDoc(f, e, doc) /\ cache'[f][e] = doc
            BY <4>1, <4>3, CachedIsGood
        <5> QED BY <1>1, <2>4, <5>1 DEF GoodDoc
      <4>4. CASE doc # None /\ s \in doc.cancelled
        <5>1. doc \in Doc /\ GoodDoc(f, e, doc) /\ cache'[f][e] = new
            BY <4>1, <4>4, CachedIsGood
        <5>2. new \in Doc /\ new.text = doc.text /\ new.seq = doc.seq /\ Begun(f, e)
            BY <4>4, <5>1 DEF Doc, GoodDoc
        <5> HIDE DEF new
        <5> QED BY <1>1, <2>4, <5>1, <5>2 DEF GoodDoc
      <4> QED BY <4>2, <4>3, <4>4
    <3>2. cache' = [f \in Files |-> [e \in Epochs |-> cache'[f][e]]]
        BY <2>1 DEF Rescheduled
    <3>3. cache' \in [Files -> [Epochs -> Doc \cup {None}]]
      <4>1. \A f \in Files : [e \in Epochs |-> cache'[f][e]] \in [Epochs -> Doc \cup {None}]
          BY <3>1
      <4> QED BY <3>2, <4>1
    <3> QED BY <3>1, <3>3 DEF DocsInv
  <2>6. TypeOK'
      BY <1>1, <1>2, <2>1, <2>3, <2>5 DEF IInv, TypeOK
  <2>7. PhasesInv' /\ ReadsInv' /\ LandInv'
    <3>1. PhasesInv'
        BY <1>1, <2>3, <2>4 DEF PhasesInv
    <3> QED BY <2>4, <3>1 DEF ReadsInv, LandInv
  <2>8. TextsInv'
      BY <1>1, <2>4 DEF IInv, TextsInv, TextOf
  <2>9. QueueInv'
    <3>1. \A i \in DOMAIN q : q[i] \in Landing /\ GoodLanding(q[i]) /\ q[i].by = None
        BY <1>2, <1>4 DEF IInv, QueueInv
    <3>2. \A v \in Landing : GoodLanding(v) => GoodLanding(v)'
        BY <1>1, <2>4, NoneRetires
    <3>3. (\A i \in DOMAIN queue : GoodLanding(queue[i]))'
        BY <1>1, <3>1, <3>2 DEF GoodLanding
    <3>4. (\A i, j \in DOMAIN queue :
              i < j /\ queue[i].file = queue[j].file /\ Active /\ Current(queue[i]) /\ Current(queue[j])
                => queue[i].n <= queue[j].n)'
      <4> SUFFICES ASSUME NEW i \in DOMAIN q, NEW j \in DOMAIN q, i < j,
                          q[i].file = q[j].file, Active, Current(q[i]), Current(q[j])
                   PROVE  q[i].n <= q[j].n
          BY <1>1, <2>4 DEF Current
      <4>1. i + 1 \in DOMAIN queue /\ j + 1 \in DOMAIN queue /\ i + 1 < j + 1
            /\ queue[i + 1] = q[i] /\ queue[j + 1] = q[j]
          BY <1>2
      <4> QED BY <4>1 DEF IInv, QueueInv
    <3>5. (\A i \in DOMAIN queue : queue[i].by = None)'
        BY <1>1, <3>1
    <3> QED BY <3>3, <3>4, <3>5 DEF QueueInv
  <2>10. ListingsInv'
      BY <1>1, <2>4, ListingsKept
  <2> QED BY <2>5, <2>6, <2>7, <2>8, <2>9, <2>10 DEF IInv
<1> QED BY <1>3, <1>4

\* A request retires the room: no timer is left, and it waits for what has begun.
LEMMA RetireStep ==
    ASSUME IInv, OneAtATime', NEW s \in Switchers, Retire(s)
    PROVE  IInv'
<1>1. /\ on /\ ~durable.busy /\ switch[s].pc = "idle" /\ retiring' = TRUE
      /\ switch \in [Switchers -> Switch] /\ cache \in [Files -> [Epochs -> Doc \cup {None}]]
      /\ queue \in Seq(Landing)
      /\ switch' = [switch EXCEPT ![s].pc = "settle"]
      /\ UNCHANGED <<on, rows, durable, deleting, ghost, listings>>
    BY DEF IInv, TypeOK, Retire
<1>2. /\ switch' \in [Switchers -> Switch] /\ switch'[s].pc = "settle"
      /\ \A t \in Switchers : t # s => switch'[t] = switch[t]
    BY <1>1 DEF Switch
<1>3. /\ \A t \in Switchers : t # s => switch'[t].pc = "idle"
      /\ \A t \in Switchers : switch[t].pc = "idle"
    BY <1>1, <1>2 DEF OneAtATime
<1>4. /\ Active /\ Active' /\ OldOn /\ OldOn' /\ on'
      /\ \A f \in Files, e \in Epochs : Begun(f, e)' = Begun(f, e)
      /\ \A t \in Switchers : /\ ~Landed(t)' /\ ~Reading(t)' /\ (Retiring(t)' <=> t = s)
                              /\ ~Retiring(t) /\ ~Landed(t)
    BY <1>1, <1>2, <1>3 DEF Active, OldOn, Begun, Old, Landed, Reading, Retiring
<1>5. /\ cache' \in [Files -> [Epochs -> Doc \cup {None}]]
      /\ DocsInv'
  <2>1. ASSUME NEW f \in Files, NEW e \in Epochs
        PROVE  /\ cache'[f][e] \in Doc \cup {None}
               /\ cache'[f][e] # None => GoodDoc(f, e, cache[f][e])'
    <3> DEFINE doc == cache[f][e]
               new == [doc EXCEPT !.timer = FALSE,
                                  !.cancelled = IF doc.timer THEN @ \cup {s} ELSE @,
                                  !.awaited = IF doc.waiting THEN @ \cup {s} ELSE @]
    <3>1. cache'[f][e] = IF doc = None THEN None ELSE new
        BY DEF Retire
    <3>2. CASE doc = None
        BY <3>1, <3>2
    <3>3. CASE doc # None
      <4>1. doc \in Doc /\ GoodDoc(f, e, doc) /\ cache'[f][e] = new
          BY <3>1, <3>3, CachedIsGood
      <4>2. /\ new \in Doc /\ new.text = doc.text /\ new.seq = doc.seq /\ ~new.timer
            /\ new.waiting = doc.waiting /\ (new.waiting => s \in new.awaited)
            /\ new.cancelled # {} => doc.timer \/ doc.cancelled # {}
          BY <4>1 DEF Doc
      <4> HIDE DEF new
      <4> QED BY <1>1, <1>4, <4>1, <4>2 DEF GoodDoc
    <3> QED BY <3>2, <3>3
  <2>2. cache' = [f \in Files |-> [e \in Epochs |-> cache'[f][e]]]
      BY DEF Retire
  <2>3. cache' \in [Files -> [Epochs -> Doc \cup {None}]]
    <3>1. \A f \in Files : [e \in Epochs |-> cache'[f][e]] \in [Epochs -> Doc \cup {None}]
        BY <2>1
    <3> QED BY <2>2, <3>1
  <2> QED BY <2>1, <2>3 DEF DocsInv
<1>6. /\ queue' \in Seq(Landing) /\ DOMAIN queue' = DOMAIN queue
      /\ \A i \in DOMAIN queue :
            /\ queue[i] \in Landing /\ GoodLanding(queue[i]) /\ queue[i].by = None
            /\ queue'[i] \in Landing /\ queue'[i].file = queue[i].file
            /\ queue'[i].epoch = queue[i].epoch /\ queue'[i].text = queue[i].text
            /\ queue'[i].n = queue[i].n /\ queue'[i].by = None
            /\ queue'[i].awaited = queue[i].awaited \cup {s}
  <2>1. \A i \in DOMAIN queue : queue[i] \in Landing /\ GoodLanding(queue[i])
      BY <1>1 DEF IInv, QueueInv
  <2>2. \A i \in DOMAIN queue : queue[i].by = None
    <3>1. \A i \in DOMAIN queue : queue[i].by # None =>
              queue[i].by \in Switchers /\ switch[queue[i].by].pc = "land"
        BY <2>1 DEF IInv, QueueInv, Landing
    <3> QED BY <1>3, <3>1
  <2>3. queue' = [i \in DOMAIN queue |-> [queue[i] EXCEPT !.awaited = @ \cup {s}]]
      BY <2>2 DEF Retire
  <2>4. \A i \in DOMAIN queue :
            LET new == [queue[i] EXCEPT !.awaited = @ \cup {s}]
            IN  /\ new \in Landing /\ new.file = queue[i].file
                /\ new.epoch = queue[i].epoch /\ new.text = queue[i].text
                /\ new.n = queue[i].n /\ new.by = queue[i].by
                /\ new.awaited = queue[i].awaited \cup {s}
      BY <2>1 DEF Landing
  <2>5. queue' \in Seq(Landing) /\ DOMAIN queue' = DOMAIN queue
    <3>1. Len(queue) \in Nat /\ DOMAIN queue = 1 .. Len(queue)
        BY <1>1
    <3>2. queue' \in [1 .. Len(queue) -> Landing]
        BY <2>3, <2>4, <3>1
    <3> QED BY <2>3, <3>1, <3>2, SeqDef
  <2> QED BY <2>1, <2>2, <2>3, <2>4, <2>5
<1>7. TypeOK'
    BY <1>1, <1>2, <1>5, <1>6 DEF IInv, TypeOK
<1>8. PhasesInv' /\ ReadsInv' /\ LandInv'
  <2>1. \A t \in Switchers : switch'[t].pc \in {"idle", "settle"}
      BY <1>2, <1>3
  <2>2. PhasesInv'
      BY <1>1, <1>4, <2>1 DEF PhasesInv
  <2> QED BY <1>4, <2>2 DEF ReadsInv, LandInv
<1>9. TextsInv'
    BY <1>1, <1>4 DEF IInv, TextsInv, TextOf
<1>10. QueueInv'
  <2>1. (\A i \in DOMAIN queue : GoodLanding(queue[i]))'
    <3> SUFFICES ASSUME NEW i \in DOMAIN queue
                 PROVE  GoodLanding(queue[i])'
        BY <1>6
    <3>1. queue[i].file \in Files /\ queue[i].epoch \in Epochs
        BY <1>6 DEF Landing
    <3> QED BY <1>1, <1>4, <1>6, <3>1 DEF GoodLanding, Current, TextOf
  <2>2. (\A i, j \in DOMAIN queue :
            i < j /\ queue[i].file = queue[j].file /\ Active /\ Current(queue[i]) /\ Current(queue[j])
              => queue[i].n <= queue[j].n)'
      BY <1>1, <1>4, <1>6 DEF IInv, QueueInv, Current
  <2> QED BY <1>6, <2>1, <2>2 DEF QueueInv
<1>11. ListingsInv'
    BY <1>1, <1>4, ListingsKept
<1> QED BY <1>5, <1>7, <1>8, <1>9, <1>10, <1>11 DEF IInv

\* landRoomDocuments begins: every note is still to be looked at.
LEMMA RetireLandsStep ==
    ASSUME IInv, OneAtATime, NEW s \in Switchers, RetireLands(s)
    PROVE  IInv'
<1> DEFINE seen == [f \in Files |-> [epoch |-> rows[f].epoch, mat |-> rows[f].mat, fresh |-> FALSE]]
           sw == [switch EXCEPT ![s].todo = Live, ![s].seen = seen]
<1>1. /\ switch[s].pc = "settle" /\ Settled(s) /\ LandOn(s, sw, queue)
      /\ switch \in [Switchers -> Switch] /\ queue \in Seq(Landing)
      /\ cache \in [Files -> [Epochs -> Doc \cup {None}]]
      /\ rows \in [Files -> Row] /\ ghost \in [Files -> Ghost]
      /\ UNCHANGED <<on, rows, cache, retiring, durable, deleting, ghost, listings>>
    BY DEF IInv, TypeOK, RetireLands
<1>2. /\ sw \in [Switchers -> Switch] /\ sw[s].todo = Live
      /\ \A t \in Switchers : t # s => sw[t] = switch[t]
      /\ \A f \in Files : sw[s].seen[f].epoch = rows[f].epoch /\ sw[s].seen[f].mat = rows[f].mat
  <2>1. seen \in [Files -> Listed] /\ Live \subseteq Files
      BY <1>1 DEF Listed, Row, Live
  <2>2. \A f \in Files : seen[f].epoch = rows[f].epoch /\ seen[f].mat = rows[f].mat
      OBVIOUS
  <2> HIDE DEF seen
  <2>3. sw = [switch EXCEPT ![s] = [switch[s] EXCEPT !.todo = Live, !.seen = seen]]
      BY <1>1 DEF Switch
  <2>4. [switch[s] EXCEPT !.todo = Live, !.seen = seen] \in Switch
      BY <1>1, <2>1 DEF Switch
  <2> HIDE DEF sw
  <2> QED BY <1>1, <2>2, <2>3, <2>4 DEF Switch
<1> HIDE DEF sw
<1>3. \A t \in Switchers : t # s => switch[t].pc = "idle"
    BY <1>1, Alone
<1>4. on /\ retiring /\ ~durable.busy
  <2>1. on /\ retiring
      BY <1>1 DEF IInv, PhasesInv, Retiring
  <2>2. \A t \in Switchers : switch[t].pc \notin {"offFlush", "onFlush"}
      BY <1>1, <1>3
  <2> QED BY <2>1, <2>2 DEF IInv, PhasesInv
<1>5. /\ Active /\ Active' /\ OldOn /\ OldOn' /\ on'
      /\ \A f \in Files, e \in Epochs : Begun(f, e)' = Begun(f, e)
    BY <1>1, <1>4 DEF Active, OldOn, Begun, Old
<1>6. \A f \in sw[s].todo : Begun(f, sw[s].seen[f].epoch) /\ f \in Files
  <2> SUFFICES ASSUME NEW f \in Files, rows[f].live
               PROVE  Begun(f, rows[f].epoch)
      BY <1>2 DEF Live
  <2>1. rows[f].epoch \in Nat
      BY <1>1, CountsAssumption DEF Row, Epochs
  <2> QED BY <1>4, <2>1 DEF Begun, Old
<1>7. \/ LandsNoMore(s, sw, queue)
      \/ \E todo \in SUBSET sw[s].todo, v \in Landing : LandsNext(s, sw, queue, todo, v)
    BY <1>1, <1>2, <1>4, <1>6, LandOnIsRight
\* The requests and the queue afterwards.
<1>8. /\ switch' \in [Switchers -> Switch] /\ switch'[s].pc \in {"land", "off"}
      /\ switch'[s].todo \subseteq sw[s].todo /\ switch'[s].seen = sw[s].seen
      /\ \A t \in Switchers : t # s => switch'[t] = switch[t]
  <2>1. ASSUME NEW todo \in SUBSET sw[s].todo, NEW pc \in {"land", "off"},
               switch' = [sw EXCEPT ![s].pc = pc, ![s].todo = todo]
        PROVE  <1>8
    <3>1. todo \in SUBSET Files /\ sw[s] \in Switch
        BY <1>2, <1>6, <2>1
    <3>2. switch' = [sw EXCEPT ![s] = [sw[s] EXCEPT !.pc = pc, !.todo = todo]]
        BY <1>2, <2>1, <3>1 DEF Switch
    <3>3. [sw[s] EXCEPT !.pc = pc, !.todo = todo] \in Switch
        BY <3>1 DEF Switch
    <3> QED BY <1>2, <2>1, <3>1, <3>2, <3>3 DEF Switch
  <2>2. CASE LandsNoMore(s, sw, queue)
    <3>1. {} \in SUBSET sw[s].todo
        OBVIOUS
    <3> QED BY <2>1, <2>2, <3>1 DEF LandsNoMore
  <2>3. ASSUME NEW todo \in SUBSET sw[s].todo, NEW v \in Landing, LandsNext(s, sw, queue, todo, v)
        PROVE  <1>8
      BY <2>1, <2>3 DEF LandsNext
  <2> QED BY <1>7, <2>2, <2>3
<1>9. \A t \in Switchers : /\ Retiring(t)' <=> t = s
                           /\ Landed(t)' <=> t = s
                           /\ ~Reading(t)'
                           /\ Retiring(t) <=> t = s
                           /\ ~Landed(t)
    BY <1>1, <1>3, <1>8 DEF Retiring, Landed, Reading
<1>10. /\ queue' \in Seq(Landing)
       /\ DOMAIN queue' \subseteq Nat
       /\ \A i \in DOMAIN queue' : \/ i \in DOMAIN queue /\ queue'[i] = queue[i]
                                  \/ /\ i = Len(queue) + 1 /\ \A j \in DOMAIN queue' : j <= i
                                     /\ queue'[i] \in Landing /\ GoodLanding(queue'[i])
                                     /\ queue'[i].by = s /\ switch'[s].pc = "land"
                                     /\ queue'[i].awaited = {}
                                     /\ queue'[i].n = ghost[queue'[i].file].count
  <2>1. CASE queue' = queue
      BY <1>1, <2>1
  <2>2. ASSUME NEW todo \in SUBSET sw[s].todo, NEW v \in Landing, LandsNext(s, sw, queue, todo, v)
        PROVE  <1>10
    <3>1. /\ queue' \in Seq(Landing) /\ DOMAIN queue' = 1 .. Len(queue) + 1
          /\ DOMAIN queue = 1 .. Len(queue) /\ Len(queue) \in Nat
          /\ \A i \in DOMAIN queue : queue'[i] = queue[i]
          /\ queue'[Len(queue) + 1] = v
        BY <1>1, <2>2, AppendedTo DEF LandsNext
    <3>2. \A i \in DOMAIN queue' : i \in DOMAIN queue \/ i = Len(queue) + 1
        BY <3>1
    <3>3. DOMAIN queue' \subseteq Nat /\ \A j \in DOMAIN queue' : j <= Len(queue) + 1
        BY <3>1
    <3>4. switch'[s].pc = "land"
        BY <1>2, <2>2 DEF LandsNext, Switch
    <3> QED BY <2>2, <3>1, <3>2, <3>3, <3>4 DEF LandsNext
  <2> QED BY <1>7, <2>1, <2>2 DEF LandsNoMore
<1>11. \A i \in DOMAIN queue : /\ queue[i] \in Landing /\ GoodLanding(queue[i])
                               /\ queue[i].by = None /\ s \notin queue[i].awaited
  <2>1. \A i \in DOMAIN queue : /\ queue[i] \in Landing /\ GoodLanding(queue[i])
                                /\ queue[i].by # None => switch[queue[i].by].pc = "land"
                                /\ queue[i].by \in Switchers \cup {None}
    <3>1. \A i \in DOMAIN queue : queue[i] \in Landing
        BY <1>1
    <3> QED BY <3>1 DEF IInv, QueueInv, Landing
  <2> QED BY <1>1, <1>3, <2>1 DEF Settled
<1>12. TypeOK'
    BY <1>1, <1>8, <1>10 DEF IInv, TypeOK
<1>13. PhasesInv' /\ ReadsInv'
  <2>1. \A t \in Switchers : switch'[t].pc \in {"idle", "land", "off"}
      BY <1>3, <1>8
  <2>2. PhasesInv'
      BY <1>1, <1>4, <1>9, <2>1 DEF PhasesInv
  <2> QED BY <1>9, <2>2 DEF ReadsInv
<1>14. TextsInv'
    BY <1>1, <1>5 DEF IInv, TextsInv, TextOf
<1>15. DocsInv'
  <2> SUFFICES ASSUME NEW f \in Files, NEW e \in Epochs, cache[f][e] # None
               PROVE  GoodDoc(f, e, cache[f][e])'
      BY <1>1 DEF DocsInv
  <2>1. GoodDoc(f, e, cache[f][e]) /\ s \notin cache[f][e].awaited
      BY <1>1, CachedIsGood DEF Settled
  <2> QED BY <1>1, <1>5, <1>9, <2>1 DEF GoodDoc
<1>16. QueueInv'
  <2>1. \A v \in Landing : GoodLanding(v) /\ s \notin v.awaited => GoodLanding(v)'
    <3> SUFFICES ASSUME NEW v \in Landing, GoodLanding(v), s \notin v.awaited
                 PROVE  GoodLanding(v)'
        OBVIOUS
    <3>1. v.file \in Files /\ v.epoch \in Epochs
        BY DEF Landing
    <3>2. Current(v)' = Current(v) /\ TextOf(v.file, v.n)' = TextOf(v.file, v.n)
        BY <1>1 DEF Current, TextOf
    <3> QED BY <1>1, <1>5, <1>9, <3>1, <3>2 DEF GoodLanding
  <2>2. \A i \in DOMAIN queue' : /\ queue'[i] \in Landing /\ GoodLanding(queue'[i])
                                 /\ s \notin queue'[i].awaited
      BY <1>10, <1>11
  <2>3. (\A i \in DOMAIN queue : GoodLanding(queue[i]))'
    <3> SUFFICES ASSUME NEW i \in (DOMAIN queue)'
                 PROVE  GoodLanding(queue[i])'
        OBVIOUS
    <3>1. \A v \in Landing : v = queue'[i] => GoodLanding(v)'
        BY <2>1, <2>2
    <3> QED BY <2>2, <3>1 DEF GoodLanding, Current, Begun, Old, TextOf
  <2>4. (\A i, j \in DOMAIN queue :
            i < j /\ queue[i].file = queue[j].file /\ Active /\ Current(queue[i]) /\ Current(queue[j])
              => queue[i].n <= queue[j].n)'
    <3> SUFFICES ASSUME NEW i \in DOMAIN queue', NEW j \in DOMAIN queue', i < j,
                        queue'[i].file = queue'[j].file, Active,
                        Current(queue'[i]), Current(queue'[j])
                 PROVE  queue'[i].n <= queue'[j].n
        BY <1>1, <1>5 DEF Current
    <3>1. i \in DOMAIN queue /\ queue'[i] = queue[i]
      <4>1. i \in Nat /\ j \in Nat /\ ~(j <= i)
          BY <1>10
      <4> QED BY <1>10, <4>1
    <3>2. CASE j \in DOMAIN queue /\ queue'[j] = queue[j]
        BY <3>1, <3>2 DEF IInv, QueueInv
    <3>3. CASE queue'[j].n = ghost[queue'[j].file].count
      <4>1. queue'[i].n <= ghost[queue'[i].file].count
          BY <2>2 DEF GoodLanding
      <4> QED BY <3>3, <4>1
    <3> QED BY <1>10, <3>2, <3>3
  <2>5. (\A i, j \in DOMAIN queue : queue[i].by # None /\ queue[j].by # None => i = j)'
      BY <1>10, <1>11
  <2>6. (\A i \in DOMAIN queue : queue[i].by # None => switch[queue[i].by].pc = "land")'
      BY <1>10, <1>11
  <2> QED BY <2>3, <2>4, <2>5, <2>6 DEF QueueInv
<1>17. ListingsInv'
    BY <1>1, <1>5, ListingsKept
<1>18. ASSUME NEW f \in Files, rows[f].live
       PROVE  Settles(s, f)'
  <2>1. f \in sw[s].todo
      BY <1>2, <1>18 DEF Live
  <2>2. CASE f \in switch'[s].todo
      BY <1>1, <1>2, <1>8, <2>2 DEF Settles
  <2>3. NothingToLand(s, sw, f) => Settles(s, f)'
      BY <1>1, <1>2, <1>18 DEF NothingToLand, Settles, TextOf
  <2>4. CASE LandsNoMore(s, sw, queue)
      BY <2>1, <2>3, <2>4 DEF LandsNoMore
  <2>5. ASSUME NEW todo \in SUBSET sw[s].todo, NEW v \in Landing, LandsNext(s, sw, queue, todo, v)
        PROVE  Settles(s, f)'
    <3>1. switch'[s].todo = todo
        BY <1>2, <2>5 DEF LandsNext, Switch
    <3>2. CASE f = v.file
      <4>1. Len(queue) + 1 \in DOMAIN queue' /\ queue'[Len(queue) + 1] = v
          BY <1>1, <2>5, AppendedTo DEF LandsNext
      <4>2. v.by = s /\ v.epoch = rows[f].epoch
          BY <1>2, <2>5, <3>2 DEF LandsNext
      <4> QED BY <1>1, <3>2, <4>1, <4>2 DEF Settles
    <3> QED BY <2>1, <2>2, <2>3, <2>5, <3>1, <3>2 DEF LandsNext
  <2> QED BY <1>7, <2>4, <2>5
<1>19. LandInv'
  <2> SUFFICES /\ \A f \in switch'[s].todo : Begun(f, switch[s].seen[f].epoch)'
               /\ switch'[s].pc = "off" => switch'[s].todo = {}
               /\ \A f \in Files : rows'[f].live => Settles(s, f)'
      BY <1>9 DEF LandInv
  <2>1. \A f \in switch'[s].todo : Begun(f, switch[s].seen[f].epoch)'
    <3> SUFFICES ASSUME NEW f \in switch'[s].todo
                 PROVE  Begun(f, switch[s].seen[f].epoch)'
        OBVIOUS
    <3>1. f \in sw[s].todo /\ f \in Files /\ rows[f].epoch \in Epochs
        BY <1>1, <1>6, <1>8 DEF Row
    <3> QED BY <1>1, <1>2, <1>6, <1>8, <3>1 DEF Begun, Old
  <2>2. switch'[s].pc = "off" => switch'[s].todo = {}
    <3>1. LandsNoMore(s, sw, queue) => switch'[s].todo = {}
        BY <1>2 DEF LandsNoMore, Switch
    <3>2. \A todo \in SUBSET sw[s].todo, v \in Landing :
              LandsNext(s, sw, queue, todo, v) => switch'[s].pc = "land"
        BY <1>2 DEF LandsNext, Switch
    <3> QED BY <1>7, <3>1, <3>2
  <2>3. \A f \in Files : rows'[f].live => Settles(s, f)'
      BY <1>1, <1>18
  <2> QED BY <2>1, <2>2, <2>3
<1> QED BY <1>12, <1>13, <1>14, <1>15, <1>16, <1>17, <1>19 DEF IInv

-----------------------------------------------------------------------------
(* Steps of a request past its landings, or that reads the seeds.          *)

\* The room leaves the lane: its whole-file contents hold every edit.
LEMMA SwitchOffStep ==
    ASSUME IInv, OneAtATime, NEW s \in Switchers, SwitchOff(s)
    PROVE  IInv'
<1>1. /\ switch[s].pc = "off" /\ ~durable.busy
      /\ durable' = [busy |-> TRUE, on |-> on, rows |-> rows]
      /\ on' = FALSE
      /\ switch' = [switch EXCEPT ![s].pc = "offFlush"]
      /\ UNCHANGED <<rows, cache, queue, retiring, deleting, ghost, listings>>
      /\ switch \in [Switchers -> Switch] /\ rows \in [Files -> Row] /\ on \in BOOLEAN
    BY DEF IInv, TypeOK, SwitchOff
<1>2. /\ switch' \in [Switchers -> Switch] /\ switch'[s].pc = "offFlush"
      /\ \A t \in Switchers : t # s => switch'[t].pc = "idle" /\ switch[t].pc = "idle"
  <2>1. [switch[s] EXCEPT !.pc = "offFlush"] \in Switch /\ [switch[s] EXCEPT !.pc = "offFlush"].pc = "offFlush"
      BY <1>1 DEF Switch
  <2>2. /\ switch' \in [Switchers -> Switch] /\ switch'[s].pc = "offFlush"
        /\ \A t \in Switchers : t # s => switch'[t] = switch[t]
      BY <1>1, <2>1
  <2>3. \A t \in Switchers : t # s => switch[t].pc = "idle"
      BY <1>1, Alone
  <2> QED BY <2>2, <2>3
<1>3. on /\ Retiring(s) /\ Landed(s)
    BY <1>1 DEF IInv, PhasesInv, Retiring, Landed
<1>4. /\ Active /\ Active' /\ OldOn' /\ ~on'
      /\ \A f \in Files, e \in Epochs : Begun(f, e)' = Begun(f, e)
      /\ \A t \in Switchers : ~Retiring(t)' /\ ~Landed(t)' /\ ~Reading(t)'
    BY <1>1, <1>2, <1>3 DEF Active, OldOn, Begun, Old, Retiring, Landed, Reading
<1>5. TypeOK'
    BY <1>1, <1>2 DEF IInv, TypeOK
<1>6. PhasesInv' /\ ReadsInv' /\ LandInv'
  <2>1. PhasesInv'
      BY <1>1, <1>2, <1>3, <1>4 DEF PhasesInv
  <2> QED BY <1>4, <2>1 DEF ReadsInv, LandInv
\* Every landing that the request waited for is over, and none was left to do.
<1>7. \A f \in Files : rows[f].live => rows[f].mat = TextOf(f, ghost[f].count)
  <2> SUFFICES ASSUME NEW f \in Files, rows[f].live
               PROVE  rows[f].mat = TextOf(f, ghost[f].count)
      OBVIOUS
  <2>1. Settles(s, f) /\ switch[s].todo = {}
      BY <1>1, <1>3 DEF IInv, LandInv
  <2>2. \A i \in DOMAIN queue : queue[i].by # s
      BY <1>1, NoneAssumption DEF IInv, QueueInv
  <2> QED BY <2>1, <2>2 DEF Settles
<1>8. TextsInv'
    BY <1>1, <1>4, <1>7 DEF IInv, TextsInv, TextOf
<1>9. DocsInv' /\ QueueInv'
  <2>1. \A t \in Switchers : switch[t].pc # "land"
      BY <1>1, <1>2
  <2> QED BY <1>1, <1>4, <2>1, NoneRetires, DocsKept, QueueKept
<1>10. ListingsInv'
    BY <1>1, <1>4, ListingsKept
<1> QED BY <1>5, <1>6, <1>8, <1>9, <1>10 DEF IInv

LEMMA NotDurableIs == NotDurable.busy = FALSE /\ NotDurable.on = FALSE /\ NotDurable.rows \in [Files -> Row]
                      /\ \A f \in Files : NotDurable.rows[f].live = FALSE /\ NotDurable.rows[f].mat = 0
<1>1. 0 \in Texts /\ 0 \in Epochs /\ 0 \in 0 .. MaxSeq
  <2>1. TextCount \in Nat \ {0} /\ MaxEpoch \in Nat /\ MaxSeq \in Nat
      BY CountsAssumption
  <2> QED BY <2>1 DEF Texts, Epochs
<1> QED BY <1>1 DEF NotDurable, Row

\* The last flush is over, or has failed.
LEMMA FlushEnds ==
    ASSUME IInv, OneAtATime, NEW s \in Switchers, switch[s].pc \in {"offFlush", "onFlush"},
           switch' = [switch EXCEPT ![s] = NoSwitch], durable' = NotDurable
    PROVE  /\ durable.busy /\ switch' \in [Switchers -> Switch]
           /\ \A t \in Switchers : /\ switch'[t].pc = "idle" /\ switch[t].pc # "land"
                                   /\ ~Retiring(t)' /\ ~Landed(t)' /\ ~Reading(t)'
           /\ durable'.busy = FALSE /\ durable'.on = FALSE /\ durable'.rows \in [Files -> Row]
           /\ switch[s].pc = "offFlush" => ~on /\ durable.on /\ durable.rows = rows
           /\ switch[s].pc = "onFlush" =>
                /\ on /\ ~durable.on
                /\ \A f \in Files :
                      /\ durable.rows[f].live = rows[f].live
                      /\ durable.rows[f].mat = rows[f].mat
                      /\ rows[f].epoch = IF rows[f].live THEN durable.rows[f].epoch + 1
                                                         ELSE durable.rows[f].epoch
<1>1. switch \in [Switchers -> Switch] /\ \A t \in Switchers : t # s => switch[t].pc = "idle"
    BY Alone DEF IInv, TypeOK
<1>2. switch' \in [Switchers -> Switch] /\ \A t \in Switchers : switch'[t].pc = "idle"
    BY <1>1, NoSwitchIs
<1>3. \A t \in Switchers : switch[t].pc # "land" /\ ~Retiring(t)' /\ ~Landed(t)' /\ ~Reading(t)'
    BY <1>1, <1>2 DEF Retiring, Landed, Reading
<1>4. /\ durable.busy
      /\ switch[s].pc = "offFlush" => ~on /\ durable.on /\ durable.rows = rows
      /\ switch[s].pc = "onFlush" =>
                /\ on /\ ~durable.on
                /\ \A f \in Files :
                      /\ durable.rows[f].live = rows[f].live
                      /\ durable.rows[f].mat = rows[f].mat
                      /\ rows[f].epoch = IF rows[f].live THEN durable.rows[f].epoch + 1
                                                         ELSE durable.rows[f].epoch
    BY DEF IInv, PhasesInv
<1> QED BY <1>2, <1>3, <1>4, NotDurableIs

LEMMA SwitchSavedStep ==
    ASSUME IInv, OneAtATime, NEW s \in Switchers, SwitchSaved(s)
    PROVE  IInv'
<1>1. /\ switch[s].pc \in {"offFlush", "onFlush"}
      /\ switch' = [switch EXCEPT ![s] = NoSwitch] /\ durable' = NotDurable
      /\ UNCHANGED <<on, rows, queue, deleting, ghost, listings>>
      /\ rows \in [Files -> Row] /\ on \in BOOLEAN
      /\ durable.rows \in [Files -> Row]
    BY DEF IInv, TypeOK, SwitchSaved
<1>2. /\ durable.busy /\ switch' \in [Switchers -> Switch]
      /\ \A t \in Switchers : /\ switch'[t].pc = "idle" /\ switch[t].pc # "land"
                              /\ ~Retiring(t)' /\ ~Landed(t)' /\ ~Reading(t)'
      /\ durable'.busy = FALSE /\ durable'.on = FALSE /\ durable'.rows \in [Files -> Row]
      /\ switch[s].pc = "offFlush" => ~on /\ durable.on /\ durable.rows = rows
      /\ switch[s].pc = "onFlush" =>
            /\ on /\ ~durable.on
            /\ \A f \in Files :
                  /\ durable.rows[f].live = rows[f].live
                  /\ durable.rows[f].mat = rows[f].mat
                  /\ rows[f].epoch = IF rows[f].live THEN durable.rows[f].epoch + 1
                                                     ELSE durable.rows[f].epoch
    BY <1>1, FlushEnds
<1>3. Active /\ (Active' <=> on) /\ (OldOn' <=> on) /\ (on <=> ~OldOn)
    BY <1>1, <1>2 DEF Active, OldOn
<1>4. \A f \in Files, e \in Epochs : Begun(f, e) => Begun(f, e)'
  <2> SUFFICES ASSUME NEW f \in Files, NEW e \in Epochs, Begun(f, e)
               PROVE  Begun(f, e)'
      OBVIOUS
  <2>1. e <= durable.rows[f].epoch /\ (e = durable.rows[f].epoch => durable.rows[f].live)
      BY <1>2 DEF Begun, Old
  <2>2. durable.rows[f].epoch \in Nat /\ rows[f].epoch \in Nat /\ e \in Nat
      BY <1>1, CountsAssumption DEF Row, Epochs
  <2>3. e <= rows[f].epoch /\ (e = rows[f].epoch => rows[f].live)
    <3>1. CASE switch[s].pc = "offFlush"
        BY <1>2, <2>1, <3>1
    <3>2. CASE switch[s].pc = "onFlush"
        BY <1>2, <2>1, <2>2, <3>2
    <3> QED BY <1>1, <3>1, <3>2
  <2> QED BY <1>1, <1>2, <2>3 DEF Begun, Old
<1>5. TypeOK' /\ DocsInv'
  <2>1. \A f \in Files, e \in Epochs, doc \in Doc : GoodDoc(f, e, doc) => GoodDoc(f, e, doc)'
      BY <1>1, <1>2, <1>3, <1>4, NoneRetires
  <2>2. CASE switch[s].pc = "offFlush"
    <3>1. cache' = NoDocs /\ retiring' = FALSE
        BY <2>2 DEF SwitchSaved
    <3>2. cache' \in [Files -> [Epochs -> Doc \cup {None}]] /\ DocsInv'
        BY <3>1 DEF NoDocs, DocsInv
    <3> QED BY <1>1, <1>2, <3>1, <3>2 DEF IInv, TypeOK
  <2>3. CASE switch[s].pc = "onFlush"
    <3>1. UNCHANGED <<cache, retiring>>
        BY <2>3 DEF SwitchSaved
    <3>2. DocsInv'
        BY <2>1, <3>1, DocsKept
    <3> QED BY <1>1, <1>2, <3>1, <3>2 DEF IInv, TypeOK
  <2> QED BY <1>1, <2>2, <2>3
<1>6. PhasesInv' /\ ReadsInv' /\ LandInv'
  <2>1. PhasesInv'
      BY <1>2 DEF PhasesInv
  <2> QED BY <1>2, <2>1 DEF ReadsInv, LandInv
<1>7. TextsInv'
    BY <1>1, <1>3 DEF IInv, TextsInv, TextOf
<1>8. QueueInv'
    BY <1>1, <1>2, <1>3, <1>4, NoneRetires, QueueKept
<1>9. ListingsInv'
    BY <1>1, <1>4, ListingsKept
<1> QED BY <1>5, <1>6, <1>7, <1>8, <1>9 DEF IInv

LEMMA SwitchFailsStep ==
    ASSUME IInv, OneAtATime, NEW s \in Switchers, SwitchFails(s)
    PROVE  IInv'
<1>1. /\ switch[s].pc \in {"offFlush", "onFlush"}
      /\ switch' = [switch EXCEPT ![s] = NoSwitch] /\ durable' = NotDurable
      /\ on' = durable.on /\ rows' = durable.rows
      /\ retiring' = IF switch[s].pc = "offFlush" THEN FALSE ELSE retiring
      /\ UNCHANGED <<cache, queue, deleting, ghost, listings>>
      /\ rows \in [Files -> Row] /\ on \in BOOLEAN /\ durable.on \in BOOLEAN
      /\ durable.rows \in [Files -> Row]
    BY DEF IInv, TypeOK, SwitchFails
<1>2. /\ durable.busy /\ switch' \in [Switchers -> Switch]
      /\ \A t \in Switchers : /\ switch'[t].pc = "idle" /\ switch[t].pc # "land"
                              /\ ~Retiring(t)' /\ ~Landed(t)' /\ ~Reading(t)'
      /\ durable'.busy = FALSE /\ durable'.on = FALSE /\ durable'.rows \in [Files -> Row]
      /\ switch[s].pc = "offFlush" => ~on /\ durable.on /\ durable.rows = rows
      /\ switch[s].pc = "onFlush" =>
            /\ on /\ ~durable.on
            /\ \A f \in Files :
                  /\ durable.rows[f].live = rows[f].live
                  /\ durable.rows[f].mat = rows[f].mat
                  /\ rows[f].epoch = IF rows[f].live THEN durable.rows[f].epoch + 1
                                                     ELSE durable.rows[f].epoch
    BY <1>1, FlushEnds
<1>3. /\ Active /\ (Active' => rows' = rows) /\ (on <=> ~OldOn) /\ (on' <=> ~on) /\ (OldOn' <=> on')
      /\ (Active' <=> on')
    BY <1>1, <1>2 DEF Active, OldOn
<1>4. \A f \in Files, e \in Epochs : Begun(f, e)' = Begun(f, e)
    BY <1>1, <1>2 DEF Begun, Old
<1>5. TypeOK'
    BY <1>1, <1>2 DEF IInv, TypeOK
<1>6. PhasesInv' /\ ReadsInv' /\ LandInv'
  <2>1. PhasesInv'
      BY <1>2 DEF PhasesInv
  <2> QED BY <1>2, <2>1 DEF ReadsInv, LandInv
<1>7. TextsInv'
  <2>1. \A f \in Files : rows'[f].live = rows[f].live /\ rows'[f].mat = rows[f].mat
      BY <1>1, <1>2
  <2> QED BY <1>1, <1>3, <2>1 DEF IInv, TextsInv, TextOf
<1>8. QueueInv' /\ DocsInv'
    BY <1>1, <1>2, <1>3, <1>4, NoneRetires, QueueKept, DocsKept
<1>9. ListingsInv'
    BY <1>1, <1>4, ListingsKept
<1> QED BY <1>5, <1>6, <1>7, <1>8, <1>9 DEF IInv

\* The process starts again with what is on disk.
LEMMA RestartStep ==
    ASSUME IInv, NEW applied \in BOOLEAN, Restart(applied)
    PROVE  IInv'
<1>1. /\ cache' = NoDocs /\ queue' = <<>> /\ retiring' = FALSE
      /\ switch' = [s \in Switchers |-> NoSwitch] /\ durable' = NotDurable
      /\ deleting' = NoDelete /\ listings' = [f \in Files |-> {}] /\ ghost' = ghost
      /\ IF durable.busy /\ ~applied THEN on' = durable.on /\ rows' = durable.rows
                                     ELSE on' = on /\ rows' = rows
    BY DEF Restart
<1>2. /\ \A s \in Switchers : /\ switch'[s].pc = "idle"
                              /\ ~Retiring(s)' /\ ~Landed(s)' /\ ~Reading(s)'
      /\ switch' \in [Switchers -> Switch] /\ ~durable'.busy
    BY <1>1, NoSwitchIs, NotDurableIs DEF Retiring, Landed, Reading
<1>3. TypeOK'
  <2>1. on' \in BOOLEAN /\ rows' \in [Files -> Row]
      BY <1>1 DEF IInv, TypeOK
  <2>2. cache' \in [Files -> [Epochs -> Doc \cup {None}]] /\ queue' \in Seq(Landing)
      BY <1>1 DEF NoDocs
  <2>3. durable'.busy \in BOOLEAN /\ durable'.on \in BOOLEAN /\ durable'.rows \in [Files -> Row]
      BY <1>1, NotDurableIs
  <2>4. deleting' \in [pc : {"none", "asked", "deleted"}, file : Files, epoch : Epochs]
      BY <1>1, TypesNow DEF NoDelete
  <2>5. ghost' \in [Files -> Ghost] /\ retiring' \in BOOLEAN
      BY <1>1 DEF IInv, TypeOK
  <2> QED BY <1>1, <1>2, <2>1, <2>2, <2>3, <2>4, <2>5 DEF TypeOK
<1>4. PhasesInv' /\ ReadsInv' /\ LandInv' /\ DocsInv' /\ QueueInv' /\ ListingsInv'
  <2>1. PhasesInv'
      BY <1>2 DEF PhasesInv
  <2>2. DocsInv' /\ ListingsInv'
      BY <1>1 DEF NoDocs, DocsInv, ListingsInv
  <2>3. QueueInv'
      BY <1>1 DEF QueueInv
  <2> QED BY <1>2, <2>1, <2>2, <2>3 DEF ReadsInv, LandInv
<1>5. (Active' <=> on') /\ (OldOn' <=> on')
    BY <1>2 DEF Active, OldOn
<1>6. TextsInv'
  <2>1. CASE ~durable.busy
    <3>1. (Active <=> on) /\ (OldOn <=> on) /\ on' = on /\ rows' = rows
        BY <1>1, <2>1 DEF Active, OldOn
    <3> QED BY <1>1, <1>5, <3>1 DEF IInv, TextsInv, TextOf
  <2>2. CASE durable.busy
    <3>1. PICK s \in Switchers : switch[s].pc \in {"offFlush", "onFlush"}
        BY <2>2 DEF IInv, PhasesInv
    <3>2. /\ switch[s].pc = "offFlush" => ~on /\ durable.on /\ durable.rows = rows
          /\ switch[s].pc = "onFlush" =>
                /\ on /\ ~durable.on
                /\ \A f \in Files : /\ durable.rows[f].live = rows[f].live
                                    /\ durable.rows[f].mat = rows[f].mat
        BY DEF IInv, PhasesInv
    <3>3. Active /\ ~(on /\ OldOn)
        BY <2>2, <3>1, <3>2 DEF Active, OldOn
    <3>4. (\A f \in Files : rows'[f].live = rows[f].live /\ rows'[f].mat = rows[f].mat)
          /\ (on' => rows' = rows)
        BY <1>1, <3>1, <3>2
    <3> QED BY <1>1, <1>5, <3>3, <3>4 DEF IInv, TextsInv, TextOf
  <2> QED BY <2>1, <2>2
<1> QED BY <1>3, <1>4, <1>6 DEF IInv

\* Each note begins a new epoch with its whole text.
LEMMA SwitchOnStep ==
    ASSUME IInv, OneAtATime, NEW s \in Switchers, SwitchOn(s)
    PROVE  IInv'
<1> DEFINE seed(f) == [rows[f] EXCEPT !.epoch = @ + 1, !.snap = switch[s].seen[f].mat,
                                      !.upTo = 0, !.log = {}]
<1>1. /\ switch[s].pc = "on" /\ ~durable.busy /\ (on \/ SeedsAreCurrent(s))
      /\ switch \in [Switchers -> Switch] /\ rows \in [Files -> Row] /\ on \in BOOLEAN
      /\ cache \in [Files -> [Epochs -> Doc \cup {None}]] /\ ghost \in [Files -> Ghost]
      /\ durable' = [busy |-> TRUE, on |-> on, rows |-> rows]
      /\ switch' = [switch EXCEPT ![s].pc = "onFlush"]
      /\ UNCHANGED <<queue, retiring, deleting, ghost, listings>>
    BY DEF IInv, TypeOK, SwitchOn
<1>2. ~on /\ Live = switch[s].listed /\ \A f \in Live : switch[s].seen[f].fresh
  <2>1. ~on
      BY <1>1 DEF IInv, PhasesInv, Reading
  <2> QED BY <1>1, <2>1 DEF SeedsAreCurrent
<1>3. \A f \in Live : f \in Files /\ rows[f].live /\ rows[f].epoch + 1 \in Epochs
                      /\ switch[s].seen[f].mat = rows[f].mat
  <2> SUFFICES ASSUME NEW f \in Files, rows[f].live
               PROVE  rows[f].epoch + 1 \in Epochs /\ switch[s].seen[f].mat = rows[f].mat
      BY DEF Live
  <2>1. /\ rows[f].epoch < MaxEpoch
        /\ switch[s].seen[f].fresh => switch[s].seen[f].mat = rows[f].mat
      BY <1>1 DEF IInv, ReadsInv, Reading
  <2>2. rows[f].epoch \in 0 .. MaxEpoch /\ MaxEpoch \in Nat
      BY <1>1, CountsAssumption DEF Row, Epochs
  <2> QED BY <1>2, <2>1, <2>2 DEF Epochs, Live
<1>4. /\ on' = TRUE
      /\ rows' = [f \in Files |-> IF f \in Live THEN seed(f) ELSE rows[f]]
      /\ cache' = [f \in Files |-> IF f \in Live
              THEN [cache[f] EXCEPT ![rows[f].epoch + 1] = NewDoc(switch[s].seen[f].mat, 0)]
              ELSE cache[f]]
    BY <1>2 DEF SwitchOn
<1>5. \A f \in Live :
         /\ seed(f) \in Row /\ seed(f).live /\ seed(f).mat = rows[f].mat
         /\ seed(f).epoch = rows[f].epoch + 1 /\ seed(f).snap = rows[f].mat
         /\ seed(f).snap # None
         /\ DurableText(seed(f)) = rows[f].mat /\ NextSeq(seed(f)) = 1
  <2> SUFFICES ASSUME NEW f \in Live
               PROVE  /\ seed(f) \in Row /\ seed(f).live /\ seed(f).mat = rows[f].mat
                      /\ seed(f).epoch = rows[f].epoch + 1 /\ seed(f).snap = rows[f].mat
                      /\ seed(f).snap # None
                      /\ DurableText(seed(f)) = rows[f].mat /\ NextSeq(seed(f)) = 1
      OBVIOUS
  <2>1. rows[f] \in Row /\ rows[f].live /\ rows[f].mat \in Texts /\ 0 \in 0 .. MaxSeq
        /\ rows[f].mat # None
      BY <1>1, <1>3, CountsAssumption, NoneAssumption DEF Row, Texts
  <2>2. /\ seed(f) \in Row /\ seed(f).live /\ seed(f).mat = rows[f].mat
        /\ seed(f).epoch = rows[f].epoch + 1 /\ seed(f).snap = rows[f].mat
        /\ seed(f).upTo = 0 /\ seed(f).log = {}
      BY <1>3, <2>1 DEF Row
  <2> HIDE DEF seed
  <2> QED BY <2>1, <2>2, SnapshotOnly
<1> HIDE DEF seed
<1>6. /\ rows' \in [Files -> Row]
      /\ \A f \in Files : /\ rows'[f].live = rows[f].live /\ rows'[f].mat = rows[f].mat
                          /\ rows'[f].epoch = IF rows[f].live THEN rows[f].epoch + 1
                                                              ELSE rows[f].epoch
                          /\ rows[f].live => /\ rows'[f].snap # None /\ NextSeq(rows'[f]) = 1
                                             /\ DurableText(rows'[f]) = rows[f].mat
    BY <1>1, <1>4, <1>5 DEF Live
<1>7. \A f \in Live : NewDoc(switch[s].seen[f].mat, 0) \in Doc
  <2> SUFFICES ASSUME NEW f \in Live
               PROVE  NewDoc(rows[f].mat, 0) \in Doc
      BY <1>3
  <2>1. rows[f].mat \in Texts /\ 0 \in 0 .. MaxSeq
      BY <1>1, <1>3, CountsAssumption DEF Row
  <2> QED BY <2>1 DEF NewDoc, Doc
<1>8. /\ cache' \in [Files -> [Epochs -> Doc \cup {None}]]
      /\ \A f \in Files, e \in Epochs :
            cache'[f][e] = IF rows[f].live /\ e = rows[f].epoch + 1
                           THEN NewDoc(rows[f].mat, 0) ELSE cache[f][e]
  <2>1. \A f \in Live : [cache[f] EXCEPT ![rows[f].epoch + 1] = NewDoc(switch[s].seen[f].mat, 0)]
                        \in [Epochs -> Doc \cup {None}]
      BY <1>1, <1>3, <1>7
  <2> QED BY <1>1, <1>3, <1>4, <2>1 DEF Live
<1>9. /\ switch' \in [Switchers -> Switch] /\ switch'[s].pc = "onFlush"
      /\ \A t \in Switchers : t # s => switch'[t].pc = "idle" /\ switch[t].pc = "idle"
  <2>1. [switch[s] EXCEPT !.pc = "onFlush"] \in Switch /\ [switch[s] EXCEPT !.pc = "onFlush"].pc = "onFlush"
      BY <1>1 DEF Switch
  <2>2. /\ switch' \in [Switchers -> Switch] /\ switch'[s].pc = "onFlush"
        /\ \A t \in Switchers : t # s => switch'[t] = switch[t]
      BY <1>1, <2>1
  <2>3. \A t \in Switchers : t # s => switch[t].pc = "idle"
      BY <1>1, Alone
  <2> QED BY <2>2, <2>3
<1>10. /\ ~Active /\ Active' /\ ~OldOn' /\ on' /\ ~OldOn
       /\ \A f \in Files, e \in Epochs : Begun(f, e)' = Begun(f, e)
       /\ \A t \in Switchers : /\ ~Retiring(t)' /\ ~Landed(t)' /\ ~Reading(t)'
                               /\ switch[t].pc # "land"
    BY <1>1, <1>2, <1>4, <1>9 DEF Active, OldOn, Begun, Old, Retiring, Landed, Reading
<1>11. TypeOK'
    BY <1>1, <1>4, <1>6, <1>8, <1>9 DEF IInv, TypeOK
<1>12. PhasesInv' /\ ReadsInv' /\ LandInv'
  <2>1. /\ ~durable'.on /\ durable'.busy /\ durable'.rows = rows /\ on'
      BY <1>1, <1>2, <1>4
  <2>2. PhasesInv'
      BY <1>6, <1>9, <1>10, <2>1 DEF PhasesInv
  <2> QED BY <1>10, <2>2 DEF ReadsInv, LandInv
<1>13. TextsInv'
  <2>1. \A f \in Files : /\ ghost[f].landed <= ghost[f].count
                         /\ rows[f].mat = TextOf(f, ghost[f].landed)
                         /\ rows[f].live => rows[f].mat = TextOf(f, ghost[f].count)
      BY <1>2 DEF IInv, TextsInv
  <2> QED BY <1>1, <1>6, <2>1 DEF TextsInv, TextOf
<1>14. DocsInv'
  <2> SUFFICES ASSUME NEW f \in Files, NEW e \in Epochs, cache'[f][e] # None
               PROVE  GoodDoc(f, e, cache[f][e])'
      BY DEF DocsInv
  <2>1. CASE rows[f].live /\ e = rows[f].epoch + 1
    <3>1. cache'[f][e] = NewDoc(rows[f].mat, 0)
        BY <1>8, <2>1
    <3> QED BY <1>6, <1>10, <2>1, <3>1 DEF GoodDoc, NewDoc
  <2>2. CASE ~(rows[f].live /\ e = rows[f].epoch + 1)
    <3>1. cache'[f][e] = cache[f][e] /\ GoodDoc(f, e, cache[f][e])
        BY <1>8, <2>2, CachedIsGood
    <3> QED BY <1>6, <1>10, <2>2, <3>1 DEF GoodDoc
  <2> QED BY <2>1, <2>2
<1>15. QueueInv'
  <2> SUFFICES ASSUME NEW w \in Landing, GoodLanding(w)
               PROVE  GoodLanding(w)' /\ ~Current(w)'
      BY <1>1, <1>10, QueueKept
  <2>1. w.file \in Files /\ w.epoch \in Epochs /\ Begun(w.file, w.epoch)
      BY DEF Landing, GoodLanding
  <2>2. rows[w.file].epoch \in Nat /\ w.epoch \in Nat
      BY <1>1, <2>1, CountsAssumption DEF Row, Epochs
  <2>3. ~Current(w)'
      BY <1>1, <1>6, <2>1, <2>2 DEF Current, Begun, Old
  <2> QED BY <1>10, <2>1, <2>3 DEF GoodLanding
<1>16. ListingsInv'
    BY <1>1, <1>10, ListingsKept
<1> QED BY <1>11, <1>12, <1>13, <1>14, <1>15, <1>16 DEF IInv

\* A request reads the seeds while others work in the whole-file lane.
LEMMA ReadingStep ==
    ASSUME IInv, UNCHANGED <<on, rows, cache, queue, retiring, durable, deleting, ghost, listings>>,
           ~on, NEW s \in Switchers, NEW sw \in Switch, switch' = [switch EXCEPT ![s] = sw],
           switch[s].pc \in {"idle", "seed", "on"}, sw.pc \in {"idle", "seed", "on"},
           sw.pc # "idle" => \A f \in Files :
               /\ rows[f].live => rows[f].epoch < MaxEpoch
               /\ sw.seen[f].fresh => sw.seen[f].mat = rows[f].mat
    PROVE  IInv'
<1>1. /\ switch \in [Switchers -> Switch] /\ switch' \in [Switchers -> Switch]
      /\ switch'[s] = sw /\ \A t \in Switchers : t # s => switch'[t] = switch[t]
    BY DEF IInv, TypeOK
<1>2. /\ Active' = Active /\ OldOn' = OldOn
      /\ \A t \in Switchers : /\ Retiring(t)' = Retiring(t) /\ Landed(t)' = Landed(t)
                              /\ ~Retiring(t) /\ ~Landed(t) /\ switch[t].pc # "land"
                              /\ t # s => Reading(t)' = Reading(t)
      /\ Reading(s)' = (sw.pc # "idle")
      /\ \A f \in Files, e \in Epochs : Begun(f, e)' = Begun(f, e)
  <2>1. \A t \in Switchers : ~Retiring(t)
      BY DEF IInv, PhasesInv
  <2> QED BY <1>1, <2>1 DEF Active, OldOn, Retiring, Landed, Reading, Begun, Old
<1>3. TypeOK'
    BY <1>1 DEF IInv, TypeOK
<1>4. PhasesInv'
  <2>1. \A t \in Switchers : switch'[t].pc \in {"offFlush", "onFlush"} => t # s
      BY <1>1
  <2>2. (\E t \in Switchers : switch'[t].pc \in {"offFlush", "onFlush"})
        <=> \E t \in Switchers : switch[t].pc \in {"offFlush", "onFlush"}
      BY <1>1
  <2> QED BY <1>1, <1>2, <2>1, <2>2 DEF IInv, PhasesInv
<1>5. ReadsInv'
    BY <1>1, <1>2 DEF IInv, ReadsInv
<1>6. TextsInv' /\ ListingsInv' /\ LandInv'
  <2>1. TextsInv'
      BY <1>2 DEF IInv, TextsInv, TextOf
  <2>2. ListingsInv'
      BY <1>2, ListingsKept
  <2> QED BY <1>2, <2>1, <2>2 DEF LandInv
<1>7. DocsInv' /\ QueueInv'
  <2>1. \A f \in Files, e \in Epochs, doc \in Doc : GoodDoc(f, e, doc) => GoodDoc(f, e, doc)'
      BY <1>2 DEF GoodDoc
  <2>2. \A w \in Landing : GoodLanding(w) =>
            GoodLanding(w)' /\ ((Active /\ Current(w))' => Active /\ Current(w))
      BY <1>2 DEF GoodLanding, Current, TextOf, Landing
  <2> QED BY <1>2, <2>1, <2>2, DocsKept, QueueKept
<1> QED BY <1>3, <1>4, <1>5, <1>6, <1>7 DEF IInv

\* What reading again makes of a request.
LEMMA EnableIs ==
    ASSUME NEW s \in Switchers, NEW attempt \in 0 .. MaxSeedAttempts, Enable(s, attempt)
    PROVE  \E sw \in Switch : /\ switch' = [switch EXCEPT ![s] = sw]
                              /\ sw.pc \in {"seed", "on"}
                              /\ \A f \in Files : /\ rows[f].live => rows[f].epoch < MaxEpoch
                                                  /\ ~sw.seen[f].fresh
<1> DEFINE sw == [NoSwitch EXCEPT !.pc = IF Live = {} THEN "on" ELSE "seed",
                            !.todo = Live, !.listed = Live, !.attempt = attempt]
<1>1. Live \subseteq Files
    BY DEF Live
<1>2. sw \in Switch /\ sw.pc \in {"seed", "on"} /\ sw.seen = NoSwitch.seen
    BY <1>1, NoSwitchIs DEF Switch
<1>3. /\ switch' = [switch EXCEPT ![s] = sw]
      /\ \A f \in Files : rows[f].live => rows[f].epoch < MaxEpoch
    BY DEF Enable, Live
<1> HIDE DEF sw
<1> QED BY <1>2, <1>3, NoSwitchIs

LEMMA EnableStartsStep ==
    ASSUME IInv, NEW s \in Switchers, EnableStarts(s)
    PROVE  IInv'
<1>1. 1 \in 0 .. MaxSeedAttempts
    BY CountsAssumption
<1>2. /\ ~on /\ switch[s].pc = "idle" /\ Enable(s, 1)
      /\ UNCHANGED <<on, rows, cache, queue, retiring, durable, deleting, ghost, listings>>
    BY DEF EnableStarts
<1>3. PICK sw \in Switch : /\ switch' = [switch EXCEPT ![s] = sw]
                           /\ sw.pc \in {"seed", "on"}
                           /\ \A f \in Files : /\ rows[f].live => rows[f].epoch < MaxEpoch
                                               /\ ~sw.seen[f].fresh
    BY <1>1, <1>2, EnableIs
<1> QED BY <1>2, <1>3, ReadingStep

LEMMA SeedsOutdatedStep ==
    ASSUME IInv, NEW s \in Switchers, SeedsOutdated(s)
    PROVE  IInv'
<1>1. /\ ~on /\ switch[s].pc = "on" /\ switch \in [Switchers -> Switch]
      /\ UNCHANGED <<on, rows, cache, queue, retiring, durable, deleting, ghost, listings>>
    BY DEF IInv, TypeOK, SeedsOutdated
<1>2. CASE switch[s].attempt = MaxSeedAttempts
  <2>1. switch' = [switch EXCEPT ![s] = NoSwitch]
      BY <1>2 DEF SeedsOutdated
  <2> QED BY <1>1, <2>1, NoSwitchIs, ReadingStep
<1>3. CASE switch[s].attempt # MaxSeedAttempts
  <2>1. switch[s].attempt + 1 \in 0 .. MaxSeedAttempts
    <3>1. switch[s].attempt \in 0 .. MaxSeedAttempts /\ MaxSeedAttempts \in Nat
        BY <1>1, CountsAssumption DEF Switch
    <3> QED BY <1>3, <3>1
  <2>2. Enable(s, switch[s].attempt + 1)
      BY <1>3 DEF SeedsOutdated
  <2>3. PICK sw \in Switch : /\ switch' = [switch EXCEPT ![s] = sw]
                             /\ sw.pc \in {"seed", "on"}
                             /\ \A f \in Files : /\ rows[f].live => rows[f].epoch < MaxEpoch
                                                 /\ ~sw.seen[f].fresh
      BY <2>1, <2>2, EnableIs
  <2> QED BY <1>1, <2>3, ReadingStep
<1> QED BY <1>2, <1>3

LEMMA ReadSeedStep ==
    ASSUME IInv, NEW s \in Switchers, NEW f \in Files, ReadSeed(s, f)
    PROVE  IInv'
<1>1. /\ switch[s].pc = "seed" /\ switch \in [Switchers -> Switch] /\ rows \in [Files -> Row]
      /\ UNCHANGED <<on, rows, cache, queue, retiring, durable, deleting, ghost, listings>>
    BY DEF IInv, TypeOK, ReadSeed
<1>2. /\ ~on
      /\ \A g \in Files : /\ rows[g].live => rows[g].epoch < MaxEpoch
                          /\ switch[s].seen[g].fresh => switch[s].seen[g].mat = rows[g].mat
    BY <1>1 DEF IInv, PhasesInv, ReadsInv, Reading
<1>3. CASE ~rows[f].live
  <2>1. switch' = [switch EXCEPT ![s] = NoSwitch]
      BY <1>3 DEF ReadSeed
  <2> QED BY <1>1, <1>2, <2>1, NoSwitchIs, ReadingStep
<1>4. CASE rows[f].live
  <2> DEFINE seen == [switch[s].seen EXCEPT ![f] = [epoch |-> 0, mat |-> rows[f].mat, fresh |-> TRUE]]
             pc == IF switch[s].todo = {f} THEN "on" ELSE switch[s].pc
             sw == [switch[s] EXCEPT !.todo = @ \ {f}, !.seen = seen, !.pc = pc]
  <2>1. switch[s] \in Switch /\ switch[s].seen \in [Files -> Listed]
      BY <1>1 DEF Switch
  <2>2. /\ seen \in [Files -> Listed]
        /\ \A g \in Files : seen[g].fresh => seen[g].mat = rows[g].mat
    <3>1. [epoch |-> 0, mat |-> rows[f].mat, fresh |-> TRUE] \in Listed
        BY <1>1, TypesNow DEF Listed, Row
    <3> QED BY <1>2, <2>1, <3>1
  <2>3. switch' = [switch EXCEPT ![s] = sw]
      BY <1>1, <1>4, <2>1 DEF ReadSeed, Switch
  <2> HIDE DEF seen
  <2>4. pc \in {"seed", "on"}
      BY <1>1
  <2> HIDE DEF pc
  <2>5. sw \in Switch /\ sw.pc = pc /\ sw.seen = seen
      BY <2>1, <2>2, <2>4 DEF Switch
  <2> HIDE DEF sw
  <2> QED BY <1>1, <1>2, <2>2, <2>3, <2>4, <2>5, ReadingStep
<1> QED BY <1>3, <1>4

-----------------------------------------------------------------------------
(* The theorems.                                                           *)

LEMMA InitHolds == Init => IInv
<1> SUFFICES ASSUME Init
             PROVE  IInv
    OBVIOUS
<1>1. /\ on = FALSE /\ rows = NotDurable.rows /\ cache = NoDocs /\ queue = <<>>
      /\ retiring = FALSE /\ switch = [s \in Switchers |-> NoSwitch] /\ durable = NotDurable
      /\ deleting = NoDelete /\ listings = [f \in Files |-> {}] /\ ghost = Untouched
    BY DEF Init
<1>2. /\ 0 \in Texts /\ 0 \in Epochs /\ 1 \in Files /\ Plus(0, 0) = 0
  <2>1. TextCount \in Nat \ {0} /\ MaxEpoch \in Nat /\ FileCount \in Nat \ {0}
      BY CountsAssumption
  <2>2. 0 \in Texts /\ 0 \in Epochs /\ 1 \in Files
      BY <2>1 DEF Texts, Epochs, Files
  <2> QED BY <2>2, PlusNone
<1>3. /\ \A s \in Switchers : /\ switch[s].pc = "idle"
                              /\ ~Retiring(s) /\ ~Landed(s) /\ ~Reading(s)
      /\ switch \in [Switchers -> Switch]
      /\ durable.busy = FALSE /\ durable.on = FALSE /\ durable.rows \in [Files -> Row]
      /\ \A f \in Files : ~rows[f].live /\ rows[f].mat = 0
    BY <1>1, NoSwitchIs, NotDurableIs DEF Retiring, Landed, Reading
<1>4. \A f \in Files : /\ ghost[f] \in Ghost
                       /\ ghost[f].base = 0 /\ ghost[f].count = 0 /\ ghost[f].landed = 0
    BY <1>1, <1>2 DEF Untouched, Ghost
<1>5. TypeOK
  <2>1. cache \in [Files -> [Epochs -> Doc \cup {None}]] /\ queue \in Seq(Landing)
      BY <1>1 DEF NoDocs
  <2>2. deleting \in [pc : {"none", "asked", "deleted"}, file : Files, epoch : Epochs]
      BY <1>1, <1>2 DEF NoDelete
  <2>3. ghost \in [Files -> Ghost]
      BY <1>1, <1>4 DEF Untouched
  <2> QED BY <1>1, <1>3, <2>1, <2>2, <2>3 DEF TypeOK
<1>6. PhasesInv /\ ReadsInv /\ LandInv
  <2>1. PhasesInv
      BY <1>3 DEF PhasesInv
  <2> QED BY <1>3, <2>1 DEF ReadsInv, LandInv
<1>7. TextsInv
    BY <1>2, <1>3, <1>4 DEF TextsInv, TextOf
<1>8. DocsInv /\ QueueInv /\ ListingsInv
    BY <1>1 DEF NoDocs, DocsInv, QueueInv, ListingsInv
<1> QED BY <1>5, <1>6, <1>7, <1>8 DEF IInv

LEMMA NextHolds == IInv /\ OneAtATime /\ OneAtATime' /\ [Next]_vars => IInv'
<1> SUFFICES ASSUME IInv, OneAtATime, OneAtATime', [Next]_vars
             PROVE  IInv'
    OBVIOUS
<1>1. ASSUME Clients
      PROVE  IInv'
  <2>1. ASSUME NEW f \in Files, NEW kept \in BOOLEAN, NEW compacts \in BOOLEAN,
               ApplyUpdate(f, kept, compacts)
        PROVE  IInv'
      BY <2>1, ApplyUpdateStep
  <2>2. ASSUME NEW f \in Files, NEW kept \in BOOLEAN, Handshake(f, kept)
        PROVE  IInv'
      BY <2>2, HandshakeStep
  <2>3. ASSUME NEW f \in Files, NEW kept \in BOOLEAN, CreateDoc(f, kept)
        PROVE  IInv'
      BY <2>3, CreateDocStep
  <2>4. ASSUME NEW f \in Files, NEW kept \in BOOLEAN, NEW e \in Epochs, NEW differs \in BOOLEAN,
               MaterializeNow(f, e, kept, differs)
        PROVE  IInv'
      BY <2>4, MaterializeNowStep
  <2>5. ASSUME NEW f \in Files, AppendFails(f) \/ Subscribe(f) \/ DeleteAsked(f)
        PROVE  IInv'
      BY <2>5, AppendFailsStep, SubscribeStep, DeletingStep
  <2>6. ASSUME NEW f \in Files, NEW t \in Texts, WriteFile(f, t)
        PROVE  IInv'
      BY <2>6, WriteFileStep
  <2>7. ASSUME DeleteCommits \/ DeleteRejected \/ DeleteEvicts
        PROVE  IInv'
      BY <2>7, DeleteCommitsStep, DeletingStep, DeleteEvictsStep
  <2> QED BY <1>1, <2>1, <2>2, <2>3, <2>4, <2>5, <2>6, <2>7 DEF Clients
<1>2. ASSUME Documents
      PROVE  IInv'
  <2>1. ASSUME NEW f \in Files, NEW e \in Epochs,
               TimerFires(f, e) \/ Materialize(f, e) \/ Evict(f, e)
        PROVE  IInv'
      BY <2>1, TimerFiresStep, MaterializeStep, EvictStep
  <2> QED BY <1>2, <2>1, LandsStep, LandFailsStep DEF Documents
<1>3. ASSUME NEW s \in Switchers,
             \/ Retire(s) \/ RetireLands(s) \/ SwitchOff(s)
             \/ EnableStarts(s) \/ (\E f \in Files : ReadSeed(s, f)) \/ SwitchOn(s) \/ SeedsOutdated(s)
             \/ SwitchSaved(s) \/ SwitchFails(s)
      PROVE  IInv'
  <2>1. CASE Retire(s)
      BY <2>1, RetireStep
  <2>2. CASE RetireLands(s)
      BY <2>2, RetireLandsStep
  <2>3. CASE SwitchOff(s)
      BY <2>3, SwitchOffStep
  <2>4. CASE EnableStarts(s) \/ (\E f \in Files : ReadSeed(s, f)) \/ SeedsOutdated(s)
      BY <2>4, EnableStartsStep, ReadSeedStep, SeedsOutdatedStep
  <2>5. CASE SwitchOn(s)
      BY <2>5, SwitchOnStep
  <2>6. CASE SwitchSaved(s) \/ SwitchFails(s)
      BY <2>6, SwitchSavedStep, SwitchFailsStep
  <2> QED BY <1>3, <2>1, <2>2, <2>3, <2>4, <2>5, <2>6
<1>4. ASSUME NEW applied \in BOOLEAN, Restart(applied)
      PROVE  IInv'
    BY <1>4, RestartStep
<1>5. CASE UNCHANGED vars
  <2> USE DEF vars
  <2>1. /\ Active' = Active /\ OldOn' = OldOn
        /\ \A s \in Switchers : /\ Retiring(s)' = Retiring(s) /\ Landed(s)' = Landed(s)
                                /\ Reading(s)' = Reading(s)
        /\ \A f \in Files, e \in Epochs : Begun(f, e)' = Begun(f, e)
      BY <1>5 DEF Active, OldOn, Retiring, Landed, Reading, Begun, Old
  <2>2. \A f \in Files, e \in Epochs : cache'[f][e] # None => GoodDoc(f, e, cache'[f][e])
      BY <1>5, TypesNow
  <2>3. UNCHANGED <<on, rows, retiring, switch, durable, ghost, queue, listings, deleting, cache>>
      BY <1>5
  <2> QED BY <2>2, <2>3, TypesNow, DocsStep
<1> QED BY <1>1, <1>2, <1>3, <1>4, <1>5 DEF Next, Switching

\* What every reachable state satisfies, as long as requests to change the room's lane
\* come one at a time.
THEOREM Invariance == Spec /\ []OneAtATime => []IInv
<1>1. Init => IInv
    BY InitHolds
<1>2. IInv /\ OneAtATime /\ OneAtATime' /\ [Next]_vars => IInv'
    BY NextHolds
<1> QED BY <1>1, <1>2, PTL DEF Spec

\* A cached document of a note's current epoch is what its durable log says, whatever
\* was appended, compacted, evicted, loaded again, restored or seeded.
THEOREM CacheExact == Spec /\ []OneAtATime => []CacheIsExact
<1>1. IInv => CacheIsExact
  <2> SUFFICES ASSUME IInv, on, ~durable.busy, NEW f \in Live, cache[f][rows[f].epoch] # None
               PROVE  /\ cache[f][rows[f].epoch].text = DurableText(rows[f])
                      /\ cache[f][rows[f].epoch].seq + 1 = NextSeq(rows[f])
      BY DEF CacheIsExact, CacheMatchesLog, IInv
  <2>1. f \in Files /\ rows[f].live /\ rows[f].epoch \in Epochs /\ Active
      BY TypesNow DEF Live, Active
  <2> QED BY <2>1, CachedIsGood DEF GoodDoc
<1> QED BY <1>1, Invariance, PTL

\* No accepted edit is lost: the log of a live-edited room holds every update the relay
\* accepted, and a room that has left the lane has them in its whole-file contents, whatever
\* failed, was evicted, restored or restarted on the way.
THEOREM EditsSurvive == Spec /\ []OneAtATime => []AcceptedSurvives
<1>1. IInv => AcceptedSurvives
  <2> SUFFICES ASSUME IInv, NEW f \in Files, rows[f].live
               PROVE  IF on THEN DurableText(rows[f]) = TextOf(f, ghost[f].count)
                            ELSE rows[f].mat = TextOf(f, ghost[f].count)
      BY DEF AcceptedSurvives, Live
  <2> QED BY DEF IInv, TextsInv, Active
<1> QED BY <1>1, Invariance, PTL

\* What readers of the whole-file content see of a live-edited note is a text that note had:
\* not that of an earlier note at its path, nor of an earlier life of the room.
THEOREM ContentIsOfTheNote == Spec /\ []OneAtATime => []MaterializedIsATextOfTheNote
<1>1. IInv => MaterializedIsATextOfTheNote
    BY DEF IInv, TextsInv, MaterializedIsATextOfTheNote, Live
<1> QED BY <1>1, Invariance, PTL

\* A write to `files` that comes late never overwrites what a newer one wrote.
THEOREM NeverGoesBack == Spec /\ []OneAtATime => MaterializedNeverGoesBack
<1>1. IInv /\ [Next]_vars => [\A f \in Files : ghost'[f].count = ghost[f].count
                                             => ghost'[f].landed >= ghost[f].landed]_vars
  <2> SUFFICES ASSUME IInv, [Next]_vars, NEW f \in Files, ghost'[f].count = ghost[f].count
               PROVE  ghost'[f].landed >= ghost[f].landed
      OBVIOUS
  <2>1. /\ ghost \in [Files -> Ghost] /\ ghost[f].landed \in Nat /\ ghost[f].count \in Nat
        /\ ghost[f].landed <= ghost[f].count
    <3>1. ghost \in [Files -> Ghost] /\ ghost[f].landed <= ghost[f].count
        BY DEF IInv, TypeOK, TextsInv
    <3> QED BY <3>1 DEF Ghost
  <2>2. CASE UNCHANGED ghost
      BY <2>1, <2>2
  <2>3. ASSUME NEW g \in Files, NEW b, ghost' = [ghost EXCEPT ![g] = [base |-> b, count |-> 0, landed |-> 0]]
        PROVE  ghost'[f].landed >= ghost[f].landed
    <3>1. CASE f = g
        BY <2>1, <2>3, <3>1
    <3>2. CASE f # g
        BY <2>1, <2>3, <3>2
    <3> QED BY <3>1, <3>2
  <2>4. ASSUME NEW g \in Files, ghost' = [ghost EXCEPT ![g].count = @ + 1]
        PROVE  ghost'[f].landed >= ghost[f].landed
    <3>1. ghost'[f].landed = ghost[f].landed
        BY <2>1, <2>4 DEF Ghost
    <3> QED BY <2>1, <3>1
  <2>5. CASE Lands
    <3> DEFINE w == Head(queue)
    <3>1. CASE UNCHANGED ghost
        BY <2>2, <3>1
    <3>2. CASE Accepts(w) /\ ghost' = [ghost EXCEPT ![w.file].landed = w.n]
      <4>1. queue \in Seq(Landing) /\ queue # <<>>
          BY <2>5 DEF Lands, IInv, TypeOK
      <4>2. w \in Landing /\ GoodLanding(w)
          BY <4>1, TailIs DEF IInv, QueueInv
      <4> HIDE DEF w
      <4>3. w.file \in Files /\ w.n \in Nat /\ w.n >= ghost[w.file].landed
        <5>1. w.file \in Files /\ w.n \in Nat /\ ghost[w.file].landed <= w.n
            BY <3>2, <4>2 DEF Landing, GoodLanding, Accepts, Active, Current
        <5>2. ghost[w.file].landed \in Nat
            BY <2>1, <5>1 DEF Ghost
        <5> QED BY <5>1, <5>2
      <4>4. ghost'[f].landed = IF f = w.file THEN w.n ELSE ghost[f].landed
          BY <2>1, <3>2, <4>3 DEF Ghost
      <4> QED BY <2>1, <4>3, <4>4
    <3> QED BY <2>5, <3>1, <3>2 DEF Lands
  <2>6. ASSUME Clients
        PROVE  ghost'[f].landed >= ghost[f].landed
    <3>1. \/ UNCHANGED ghost
          \/ \E g \in Files : ghost' = [ghost EXCEPT ![g].count = @ + 1]
          \/ \E g \in Files : ghost' = [ghost EXCEPT ![g] = [base |-> 0, count |-> 0, landed |-> 0]]
          \/ \E g \in Files, t \in Texts :
                ghost' = [ghost EXCEPT ![g] = [base |-> t, count |-> 0, landed |-> 0]]
      <4>1. ASSUME NEW g \in Files, NEW kept \in BOOLEAN
            PROVE  /\ \A compacts \in BOOLEAN : ApplyUpdate(g, kept, compacts) => <3>1
                   /\ Handshake(g, kept) => <3>1
                   /\ CreateDoc(g, kept) => <3>1
                   /\ \A e \in Epochs, differs \in BOOLEAN : MaterializeNow(g, e, kept, differs) => <3>1
          BY DEF ApplyUpdate, Handshake, CreateDoc, MaterializeNow
      <4>2. ASSUME NEW g \in Files
            PROVE  /\ AppendFails(g) \/ Subscribe(g) \/ DeleteAsked(g) => <3>1
                   /\ \A t \in Texts : WriteFile(g, t) => <3>1
          BY DEF AppendFails, Subscribe, DeleteAsked, WriteFile
      <4>3. DeleteCommits \/ DeleteRejected \/ DeleteEvicts => <3>1
          BY TypesNow DEF DeleteCommits, DeleteRejected, DeleteEvicts
      <4> QED BY <2>6, <4>1, <4>2, <4>3 DEF Clients
    <3> QED BY <2>2, <2>3, <2>4, <3>1
  <2>7. CASE Documents
      BY <2>2, <2>5, <2>7 DEF Documents, TimerFires, Materialize, Evict, LandFails
  <2>8. CASE Switching
      BY <2>2, <2>8 DEF Switching, Retire, RetireLands, SwitchOff, EnableStarts, ReadSeed,
                        SwitchOn, SeedsOutdated, SwitchSaved, SwitchFails
  <2>9. CASE UNCHANGED vars
      BY <2>2, <2>9 DEF vars
  <2>10. ASSUME NEW applied \in BOOLEAN, Restart(applied)
         PROVE  ghost'[f].landed >= ghost[f].landed
      BY <2>2, <2>10 DEF Restart
  <2> QED BY <2>6, <2>7, <2>8, <2>9, <2>10 DEF Next
<1> QED BY <1>1, Invariance, PTL DEF Spec, MaterializedNeverGoesBack
=============================================================================
