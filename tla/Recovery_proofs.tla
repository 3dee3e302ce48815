---------------------------- MODULE Recovery_proofs ----------------------------
(***************************************************************************)
(* What keeps going through faults and restarts, for any values of the     *)
(* constants.  A durable operation's caller is told the truth and nothing  *)
(* unsaved is forgotten (RelayDb).  One socket is alive and nothing waits  *)
(* on a dead one (Connection).  The saved token is the one the relay       *)
(* accepts, and the alarm of a pinned connection is real (SavedServer).  A *)
(* hosted server has one identity, and never goes back towards plain HTTP  *)
(* (HostSecurity).                                                         *)
(***************************************************************************)
EXTENDS MCRecovery, Sequences, FiniteSets, Naturals, TLAPS

Saving == saves # <<>>
Written == saves[1].image
Pending == durables # <<>>
Step == durables[1].step
Save == [by: Callers, image: (SUBSET Changes) \cup {None}]
Durable == [step: {"called", "before", "after"}, snapshot: SUBSET Changes]

\* The first save has its image, the others take theirs when their turn comes.
Shape(q) == \A k \in DOMAIN q : q[k].image = None <=> k > 1
Has(q, caller) == \E k \in DOMAIN q : q[k].by = caller
Once(q, caller) == \A j, k \in DOMAIN q : q[j].by = caller /\ q[k].by = caller => j = k

SavesInv ==
    /\ Saving => host = "desktop"
    /\ Shape(saves) /\ Once(saves, "durable") /\ Once(saves, "close")
    /\ Has(saves, "durable") => Pending /\ Step # "called"
    /\ Has(saves, "close") => closing = "flush"
    /\ Saving => Written \subseteq mem

\* The image is the one before the operation with one change more, of which nobody has
\* been told anything.
Runs(pre) == \E c \in 1..made : mem = pre \cup {c} /\ c \notin pre /\ outcome[c] = None

\* What the first operation's saves have achieved when they end.
DurablesInv ==
    /\ ended + Len(durables) = called
    /\ \A k \in DOMAIN durables : k > 1 \/ host # "desktop" => durables[k].step = "called"
    /\ Pending /\ Step = "before" /\ Saving /\ saves[1].by = "durable" => Written = mem
    /\ Pending /\ Step = "after" =>
          /\ Saving => Written = mem
          /\ durables[1].snapshot \subseteq disk /\ Runs(durables[1].snapshot)

\* Where a change is whose caller was told something: also in the image being written,
\* which is the next file.
OutcomesInv ==
    \A c \in Changes :
        /\ c > made => outcome[c] = None
        /\ outcome[c] = "done" => c \in mem
        /\ outcome[c] = "done" \/ (outcome[c] = "failed" /\ c \in mem) =>
              c \in disk /\ (Saving => c \in Written)
        /\ c \in disk => (c \in mem /\ (Saving => c \in Written)) \/ outcome[c] = "failed"

\* Somebody saves what is not in the file, nor in the image being written.
Somebody == timer # "off" \/ Pending \/ forgotten \/ closing # "no"
OwedInv ==
    /\ ~(mem \subseteq disk) => Saving \/ Somebody
    /\ Saving /\ ~(mem \subseteq Written) => Len(saves) > 1 \/ Somebody

\* Once close() has waited nothing changes, and once it has saved all is in the file.
ClosingInv ==
    /\ closing # "no" => host = "desktop"
    /\ closing \in {"flush", "drain", "closed"} => waiting = <<>> /\ ~holding /\ durables = <<>>
    /\ Saving /\ saves[1].by = "close" => mem \subseteq Written
    /\ closing \in {"drain", "closed"} => mem \subseteq disk /\ (Saving => mem \subseteq Written)
    /\ closing = "closed" => ~Saving

IInv == TypeOK /\ SavesInv /\ DurablesInv /\ OutcomesInv /\ OwedInv /\ ClosingInv

-----------------------------------------------------------------------------
(* The queue of saves.                                                     *)

LEMMA ImagesAreNotNone ==
    ASSUME NEW image \in SUBSET Changes
    PROVE  None # image
BY RelayDbAssumption DEF Changes

LEMMA SaveIs ==
    ASSUME NEW caller \in Callers, NEW image \in (SUBSET Changes) \cup {None}
    PROVE  LET s == [by |-> caller, image |-> image]
           IN  s \in Save /\ s.by = caller /\ s.image = image
BY DEF Save

LEMMA NoneIsAnImage == None \in (SUBSET Changes) \cup {None}
OBVIOUS

\* None has its image yet.
Waits(q) == \A k \in DOMAIN q : q[k].image = None

LEMMA ExportedIs ==
    ASSUME NEW q \in Seq(Save), Waits(q), NEW image \in SUBSET Changes
    PROVE  LET r == Exported(q, image)
           IN  /\ r \in Seq(Save) /\ Len(r) = Len(q) /\ Shape(r)
               /\ r # <<>> => r[1].image = image
               /\ \A k \in 1..Len(q) : r[k].by = q[k].by
<1>1. CASE q = <<>>
    BY <1>1 DEF Exported, Shape
<1>2. CASE q # <<>>
  <2> DEFINE first == [q[1] EXCEPT !.image = image]
             r == [q EXCEPT ![1] = first]
  <2>1. Len(q) \in Nat /\ Len(q) > 0 /\ DOMAIN q = 1..Len(q) /\ q[1] \in Save
      BY <1>2
  <2>2. first \in Save /\ first.image = image /\ first.by = q[1].by
      BY <2>1 DEF Save
  <2>3. Exported(q, image) = r
      BY <1>2, <2>1 DEF Exported, Waits
  <2> HIDE DEF first
  <2>4. r \in Seq(Save) /\ Len(r) = Len(q) /\ DOMAIN r = 1..Len(q)
      BY <2>1, <2>2
  <2>5. r[1] = first /\ \A k \in 1..Len(q) : k # 1 => r[k] = q[k]
      BY <2>1
  <2> HIDE DEF r
  <2>6. image # None
      BY ImagesAreNotNone
  <2>7. Shape(r)
      BY <2>1, <2>2, <2>4, <2>5, <2>6 DEF Shape, Waits
  <2> QED BY <2>1, <2>2, <2>3, <2>4, <2>5, <2>7
<1> QED BY <1>1, <1>2

LEMMA TailIs ==
    ASSUME NEW q \in Seq(Save), q # <<>>, Shape(q)
    PROVE  /\ Tail(q) \in Seq(Save) /\ Len(Tail(q)) = Len(q) - 1 /\ Waits(Tail(q))
           /\ \A k \in 1..Len(q) - 1 : Tail(q)[k].by = q[k + 1].by
<1>1. /\ Len(q) \in Nat /\ Len(q) > 0 /\ Tail(q) \in Seq(Save) /\ Len(Tail(q)) = Len(q) - 1
      /\ DOMAIN Tail(q) = 1..Len(q) - 1 /\ DOMAIN q = 1..Len(q)
      /\ \A k \in 1..Len(q) - 1 : Tail(q)[k] = q[k + 1]
    OBVIOUS
<1>2. \A k \in 1..Len(q) - 1 : k + 1 \in 1..Len(q) /\ k + 1 > 1
    BY <1>1
<1>3. Waits(Tail(q))
    BY <1>1, <1>2 DEF Shape, Waits
<1> QED BY <1>1, <1>3

\* r is q without its first save.
Popped(q, r, image) ==
    /\ r \in Seq(Save) /\ Shape(r) /\ Len(r) = Len(q) - 1
    /\ r # <<>> => r[1].image = image
    /\ \A x : Has(r, x) => Has(q, x)
    /\ \A x : Once(q, x) => Once(r, x) /\ (q[1].by = x => ~Has(r, x))

LEMMA Pop ==
    ASSUME NEW q \in Seq(Save), q # <<>>, Shape(q), NEW image \in SUBSET Changes
    PROVE  Popped(q, Exported(Tail(q), image), image)
<1> DEFINE r == Exported(Tail(q), image)
<1>1. /\ Tail(q) \in Seq(Save) /\ Len(Tail(q)) = Len(q) - 1 /\ Waits(Tail(q))
      /\ \A k \in 1..Len(q) - 1 : Tail(q)[k].by = q[k + 1].by
      /\ Len(q) \in Nat /\ Len(q) > 0
    BY TailIs
<1>2. /\ r \in Seq(Save) /\ Len(r) = Len(q) - 1 /\ Shape(r)
      /\ r # <<>> => r[1].image = image
      /\ \A k \in 1..Len(q) - 1 : r[k].by = q[k + 1].by
  <2> PICK t \in Seq(Save) : t = Tail(q)
      BY <1>1
  <2>1. r = Exported(t, image) /\ Waits(t)
      BY <1>1
  <2> HIDE DEF r
  <2>2. /\ r \in Seq(Save) /\ Len(r) = Len(t) /\ Shape(r)
        /\ r # <<>> => r[1].image = image
        /\ \A k \in 1..Len(t) : r[k].by = t[k].by
      BY <2>1, ExportedIs
  <2> QED BY <1>1, <2>2
<1> HIDE DEF r
<1>3. DOMAIN r = 1..Len(q) - 1 /\ DOMAIN q = 1..Len(q)
    BY <1>2
<1>4. \A k \in 1..Len(q) - 1 : k + 1 \in 1..Len(q) /\ k + 1 # 1
    BY <1>1
<1>5. \A x : Has(r, x) => Has(q, x)
    BY <1>2, <1>3, <1>4 DEF Has
<1>6. \A x : Once(q, x) => Once(r, x)
  <2> SUFFICES ASSUME NEW x, Once(q, x), NEW j \in 1..Len(q) - 1, NEW k \in 1..Len(q) - 1,
                      r[j].by = x, r[k].by = x
               PROVE  j = k
      BY <1>3 DEF Once
  <2>1. q[j + 1].by = x /\ q[k + 1].by = x
      BY <1>2
  <2>2. j + 1 \in DOMAIN q /\ k + 1 \in DOMAIN q
      BY <1>3, <1>4
  <2>3. j + 1 = k + 1
      BY <2>1, <2>2 DEF Once
  <2> QED BY <2>3, <1>1
<1>7. \A x : Once(q, x) /\ q[1].by = x => ~Has(r, x)
  <2> SUFFICES ASSUME NEW x, Once(q, x), q[1].by = x, NEW k \in 1..Len(q) - 1, r[k].by = x
               PROVE  FALSE
      BY <1>3 DEF Has
  <2>1. q[k + 1].by = x
      BY <1>2
  <2>2. k + 1 \in DOMAIN q /\ 1 \in DOMAIN q
      BY <1>1, <1>3, <1>4
  <2>3. k + 1 = 1
      BY <2>1, <2>2 DEF Once
  <2> QED BY <2>3, <1>1
<1> QED BY <1>2, <1>5, <1>6, <1>7 DEF Popped, r

\* r is q with a save more.
Joined(q, r, caller, image) ==
    /\ r \in Seq(Save) /\ Shape(r) /\ Len(r) = Len(q) + 1 /\ r # <<>>
    /\ q # <<>> => r[1] = q[1]
    /\ q = <<>> => r[1].image = image /\ r[1].by = caller
    /\ \A x : x # caller => (Has(r, x) => Has(q, x)) /\ (Once(q, x) => Once(r, x))
    /\ ~Has(q, caller) => Once(r, caller)

\* An element more at the end: who has a save now.
LEMMA AppendedIs ==
    ASSUME NEW q \in Seq(Save), NEW s \in Save, NEW r,
           Len(r) = Len(q) + 1, DOMAIN r = 1..Len(q) + 1,
           \A k \in 1..Len(q) : r[k].by = q[k].by, r[Len(q) + 1].by = s.by
    PROVE  /\ \A x : x # s.by => (Has(r, x) => Has(q, x)) /\ (Once(q, x) => Once(r, x))
           /\ ~Has(q, s.by) => Once(r, s.by)
<1>1. Len(q) \in Nat /\ DOMAIN q = 1..Len(q)
    OBVIOUS
<1>2. \A k \in 1..Len(q) + 1 : k \in 1..Len(q) \/ k = Len(q) + 1
    BY <1>1
<1>3. \A x : x # s.by => (Has(r, x) => Has(q, x))
    BY <1>1, <1>2 DEF Has
<1>4. \A x : x # s.by => (Once(q, x) => Once(r, x))
    BY <1>1, <1>2 DEF Once
<1>5. ~Has(q, s.by) => Once(r, s.by)
    BY <1>1, <1>2 DEF Has, Once
<1> QED BY <1>3, <1>4, <1>5

LEMMA Join ==
    ASSUME NEW q \in Seq(Save), Shape(q), NEW caller \in Callers, NEW image \in SUBSET Changes
    PROVE  Joined(q, Queued(q, caller, image), caller, image)
<1> DEFINE s == [by |-> caller, image |-> IF q = <<>> THEN image ELSE None]
           r == Append(q, s)
<1>1. s \in Save /\ s.by = caller /\ s.image = IF q = <<>> THEN image ELSE None
  <2>1. CASE q = <<>>
    <3>1. s = [by |-> caller, image |-> image]
        BY <2>1
    <3> QED BY <2>1, <3>1, SaveIs
  <2>2. CASE q # <<>>
    <3>1. s = [by |-> caller, image |-> None]
        BY <2>2
    <3> QED BY <2>2, <3>1, NoneIsAnImage, SaveIs
  <2> QED BY <2>1, <2>2
<1>2. Queued(q, caller, image) = r
    BY DEF Queued
<1> HIDE DEF s
<1>3. /\ r \in Seq(Save) /\ Len(r) = Len(q) + 1 /\ DOMAIN r = 1..Len(q) + 1 /\ r # <<>>
      /\ \A k \in 1..Len(q) : r[k] = q[k]
      /\ r[Len(q) + 1] = s /\ Len(q) \in Nat /\ DOMAIN q = 1..Len(q)
  <2>1. Len(q) \in Nat /\ DOMAIN q = 1..Len(q)
      OBVIOUS
  <2>2. r \in Seq(Save) /\ Len(r) = Len(q) + 1
      BY <1>1
  <2>3. DOMAIN r = 1..Len(q) + 1 /\ r # <<>>
      BY <2>1, <2>2
  <2>4. (\A k \in 1..Len(q) : r[k] = q[k]) /\ r[Len(q) + 1] = s
      BY <1>1, <2>1
  <2> QED BY <2>1, <2>2, <2>3, <2>4
<1> HIDE DEF r
<1>4. q # <<>> => Len(q) > 0
    BY <1>3
<1>5. q = <<>> => Len(q) = 0
    OBVIOUS
<1>6. image # None
    BY ImagesAreNotNone
<1>7. Shape(r)
  <2> SUFFICES ASSUME NEW k \in 1..Len(q) + 1 PROVE r[k].image = None <=> k > 1
      BY <1>3 DEF Shape
  <2>1. CASE k \in 1..Len(q)
      BY <1>3, <2>1 DEF Shape
  <2>2. CASE k = Len(q) + 1
      BY <1>1, <1>3, <1>4, <1>5, <1>6, <2>2
  <2> QED BY <1>3, <2>1, <2>2
<1>8. /\ \A x : x # caller => (Has(r, x) => Has(q, x)) /\ (Once(q, x) => Once(r, x))
      /\ ~Has(q, caller) => Once(r, caller)
    BY <1>1, <1>3, AppendedIs
<1>9. /\ q # <<>> => r[1] = q[1]
      /\ q = <<>> => r[1].image = image /\ r[1].by = caller
    BY <1>1, <1>3, <1>4, <1>5
<1> QED BY <1>2, <1>3, <1>7, <1>8, <1>9 DEF Joined

-----------------------------------------------------------------------------
(* What the invariant says of the first save, the first operation and the  *)
(* next change.                                                            *)

LEMMA Images ==
    ASSUME TypeOK
    PROVE  /\ mem \in SUBSET Changes /\ disk \in SUBSET Changes
           /\ made \in Nat /\ 1..made \subseteq Changes
BY RelayDbAssumption DEF TypeOK, Changes

LEMMA FirstSave ==
    ASSUME TypeOK, SavesInv, Saving
    PROVE  /\ saves \in Seq(Save) /\ Len(saves) \in Nat /\ Len(saves) > 0
           /\ saves[1] \in Save /\ saves[1].by \in Callers /\ Has(saves, saves[1].by)
           /\ Written \in SUBSET Changes /\ Written \subseteq mem
<1>1. saves \in Seq(Save)
    BY DEF TypeOK, Save
<1>2. Len(saves) \in Nat /\ Len(saves) > 0 /\ 1 \in DOMAIN saves /\ saves[1] \in Save
    BY <1>1 DEF Saving
<1>3. saves[1].by \in Callers
    BY <1>2 DEF Save
<1>4. Written \subseteq mem
    BY DEF SavesInv
<1> QED BY <1>1, <1>2, <1>3, <1>4, Images DEF Has

Calls(q) == \A k \in DOMAIN q : q[k].step = "called"

LEMMA FirstDurable ==
    ASSUME TypeOK, DurablesInv, Pending
    PROVE  /\ durables \in Seq(Durable) /\ Len(durables) \in Nat /\ Len(durables) > 0
           /\ DOMAIN durables = 1..Len(durables)
           /\ durables[1] \in Durable /\ durables[1].snapshot \in SUBSET Changes
           /\ Step \in {"called", "before", "after"}
           /\ Tail(durables) \in Seq(Durable) /\ Len(Tail(durables)) = Len(durables) - 1
           /\ Calls(Tail(durables)) /\ ended \in Nat /\ called \in Nat /\ ended + 1 <= called
<1>1. durables \in Seq(Durable) /\ ended \in Nat /\ called \in Nat /\ ended + Len(durables) = called
    BY DEF TypeOK, Durable, DurablesInv
<1>2. Len(durables) \in Nat /\ Len(durables) > 0 /\ DOMAIN durables = 1..Len(durables)
    BY <1>1 DEF Pending
<1>3. durables[1] \in Durable
    BY <1>1, <1>2
<1>4. durables[1].snapshot \in SUBSET Changes /\ Step \in {"called", "before", "after"}
    BY <1>3 DEF Durable, Step
<1>5. /\ Tail(durables) \in Seq(Durable) /\ Len(Tail(durables)) = Len(durables) - 1
      /\ DOMAIN Tail(durables) = 1..Len(durables) - 1
      /\ \A k \in 1..Len(durables) - 1 : Tail(durables)[k] = durables[k + 1]
    BY <1>1, <1>2
<1>6. \A k \in 1..Len(durables) - 1 : k + 1 \in DOMAIN durables /\ k + 1 > 1
    BY <1>2
<1>7. Calls(Tail(durables))
    BY <1>5, <1>6 DEF Calls, DurablesInv
<1> QED BY <1>1, <1>2, <1>3, <1>4, <1>5, <1>7

\* The first operation gives way to the next one, or goes on as d.
Leaves == durables' = Tail(durables) /\ ended' = ended + 1 /\ called' = called
Replaced(d) ==
    /\ durables' \in Seq(Durable) /\ Len(durables') = Len(durables) /\ durables' # <<>>
    /\ DOMAIN durables' = DOMAIN durables /\ durables'[1] = d
    /\ \A k \in DOMAIN durables : k # 1 => durables'[k] = durables[k]

LEMMA Replacing ==
    ASSUME TypeOK, DurablesInv, Pending, NEW d \in Durable, durables' = [durables EXCEPT ![1] = d]
    PROVE  Replaced(d)
<1>1. durables \in Seq(Durable) /\ DOMAIN durables = 1..Len(durables) /\ Len(durables) > 0
      /\ Len(durables) \in Nat
    BY FirstDurable
<1>2. durables' \in Seq(Durable) /\ Len(durables') = Len(durables)
    BY <1>1
<1>3. durables'[1] = d /\ \A k \in DOMAIN durables : k # 1 => durables'[k] = durables[k]
    BY <1>1
<1>4. DOMAIN durables' = DOMAIN durables /\ durables' # <<>>
    BY <1>1, <1>2
<1> QED BY <1>2, <1>3, <1>4 DEF Replaced

\* A change is new: it is in no image and nobody has been told of it.
LEMMA NewChange ==
    ASSUME IInv, Changed
    PROVE  /\ made' = made + 1 /\ made' \in Changes /\ made' \in 0..MaxChanges
           /\ made' \notin mem /\ made' \notin disk /\ outcome[made'] = None
           /\ (Saving => made' \notin Written)
           /\ made \in Nat /\ 1..made \subseteq 1..made' /\ made' \in 1..made'
           /\ mem \in SUBSET Changes /\ disk \in SUBSET Changes /\ mem \cup {made'} \in SUBSET Changes
<1>1. made' = made + 1 /\ made \in Nat /\ made < MaxChanges /\ MaxChanges \in Nat
    BY RelayDbAssumption DEF Changed, IInv, TypeOK
<1>2. made' \in Changes /\ made' \in 0..MaxChanges /\ 1..made \subseteq 1..made' /\ made' \in 1..made'
    BY <1>1 DEF Changes
<1>3. made' \notin mem /\ made' \notin disk
    BY <1>1 DEF IInv, TypeOK
<1>4. outcome[made'] = None
    BY <1>1, <1>2 DEF IInv, OutcomesInv
<1>5. Saving => made' \notin Written
    BY <1>3 DEF IInv, SavesInv
<1> QED BY <1>1, <1>2, <1>3, <1>4, <1>5, Images DEF IInv

-----------------------------------------------------------------------------
(* A save comes or goes.                                                   *)

Gone ==
    /\ saves' \in Seq(Save) /\ Shape(saves') /\ Len(saves') = Len(saves) - 1
    /\ Saving' => Written' = mem'
    /\ Once(saves', "durable") /\ Once(saves', "close")
    /\ Has(saves', "durable") => Has(saves, "durable") /\ saves[1].by # "durable"
    /\ Has(saves', "close") => Has(saves, "close") /\ saves[1].by # "close"

LEMMA SaveGoes ==
    ASSUME TypeOK, SavesInv, Saving, mem' \in SUBSET Changes, saves' = Exported(Tail(saves), mem')
    PROVE  Gone
<1>1. Popped(saves, saves', mem')
    BY FirstSave, Pop DEF SavesInv, Saving
<1> QED BY <1>1 DEF Popped, Gone, SavesInv, Saving, Written

Comes(caller) ==
    /\ saves' \in Seq(Save) /\ Shape(saves') /\ Len(saves') = Len(saves) + 1 /\ Saving'
    /\ Saving => saves'[1] = saves[1]
    /\ ~Saving => Written' = mem' /\ saves'[1].by = caller
    /\ Once(saves', "durable") /\ Once(saves', "close")
    /\ Has(saves', "durable") => Has(saves, "durable") \/ caller = "durable"
    /\ Has(saves', "close") => Has(saves, "close") \/ caller = "close"

LEMMA SaveComes ==
    ASSUME TypeOK, SavesInv, mem' \in SUBSET Changes, NEW caller \in Callers,
           caller \in {"durable", "close"} => ~Has(saves, caller),
           saves' = Queued(saves, caller, mem')
    PROVE  Comes(caller)
<1>1. saves \in Seq(Save)
    BY DEF TypeOK, Save
<1>2. Joined(saves, saves', caller, mem')
    BY <1>1, Join DEF SavesInv
<1> QED BY <1>2 DEF Joined, Comes, SavesInv, Saving, Written

\* The first operation's second save takes its place at the end.
Again ==
    /\ saves' \in Seq(Save) /\ Shape(saves') /\ Saving' /\ Written' = mem'
    /\ Once(saves', "durable") /\ Once(saves', "close")
    /\ Has(saves', "close") => Has(saves, "close")

LEMMA SaveAgain ==
    ASSUME TypeOK, SavesInv, Saving, saves[1].by = "durable", mem' \in SUBSET Changes,
           saves' = Exported(Append(Tail(saves), [by |-> "durable", image |-> None]), mem')
    PROVE  Again
<1> DEFINE s == [by |-> "durable", image |-> None]
           r == Append(Tail(saves), s)
<1>1. s \in Save /\ s.by = "durable" /\ s.image = None
  <2>1. "durable" \in Callers
      BY DEF Callers
  <2> QED BY <2>1, NoneIsAnImage, SaveIs
<1> HIDE DEF s
<1>2. saves \in Seq(Save) /\ Len(saves) \in Nat /\ Len(saves) > 0 /\ saves # <<>>
    BY FirstSave DEF Saving
<1>3. Popped(saves, Exported(Tail(saves), mem'), mem')
    BY <1>2, Pop DEF SavesInv
<1>4. /\ Tail(saves) \in Seq(Save) /\ Len(Tail(saves)) = Len(saves) - 1 /\ Waits(Tail(saves))
      /\ DOMAIN Tail(saves) = 1..Len(saves) - 1
    BY <1>2, TailIs DEF SavesInv
<1>5. /\ r \in Seq(Save) /\ Len(r) = Len(saves)
      /\ \A k \in 1..Len(saves) - 1 : r[k] = Tail(saves)[k]
      /\ r[Len(saves)] = s
    BY <1>1, <1>2, <1>4
<1> HIDE DEF r
<1>6. Waits(r)
  <2> SUFFICES ASSUME NEW k \in 1..Len(saves) PROVE r[k].image = None
      BY <1>5 DEF Waits
  <2>1. CASE k \in 1..Len(saves) - 1
      BY <1>4, <1>5, <2>1 DEF Waits
  <2>2. CASE k = Len(saves)
      BY <1>1, <1>5, <2>2
  <2> QED BY <1>2, <2>1, <2>2
<1>7. /\ saves' \in Seq(Save) /\ Len(saves') = Len(saves) /\ Shape(saves')
      /\ saves' # <<>> => Written' = mem'
      /\ \A k \in 1..Len(saves) : saves'[k].by = r[k].by
  <2>1. saves' = Exported(r, mem')
      BY DEF r, s
  <2> QED BY <1>5, <1>6, <2>1, ExportedIs DEF Written
<1>8. Saving'
    BY <1>2, <1>7 DEF Saving
<1>9. /\ \A x : x # "durable" => (Has(saves', x) => Has(Tail(saves), x))
                              /\ (Once(Tail(saves), x) => Once(saves', x))
      /\ ~Has(Tail(saves), "durable") => Once(saves', "durable")
  <2>1. \A k \in 1..Len(Tail(saves)) : saves'[k].by = Tail(saves)[k].by
    <3> TAKE k \in 1..Len(Tail(saves))
    <3>1. k \in 1..Len(saves) - 1 /\ k \in 1..Len(saves)
        BY <1>2, <1>4
    <3> QED BY <1>5, <1>7, <3>1
  <2>2. saves'[Len(Tail(saves)) + 1].by = s.by
      BY <1>2, <1>4, <1>5, <1>7
  <2>3. Len(saves') = Len(Tail(saves)) + 1 /\ DOMAIN saves' = 1..Len(Tail(saves)) + 1
      BY <1>2, <1>4, <1>7
  <2> DEFINE t == Tail(saves)
  <2>4. /\ t \in Seq(Save) /\ s \in Save /\ Len(saves') = Len(t) + 1
        /\ DOMAIN saves' = 1..Len(t) + 1
        /\ \A k \in 1..Len(t) : saves'[k].by = t[k].by
        /\ saves'[Len(t) + 1].by = s.by
      BY <1>1, <1>4, <2>1, <2>2, <2>3
  <2> HIDE DEF t
  <2>5. /\ \A x : x # s.by => (Has(saves', x) => Has(t, x)) /\ (Once(t, x) => Once(saves', x))
        /\ ~Has(t, s.by) => Once(saves', s.by)
      BY <2>4, AppendedIs
  <2> QED BY <1>1, <2>5 DEF t
<1>10. /\ Has(Tail(saves), "close") => Has(saves, "close")
       /\ Once(Tail(saves), "close") /\ ~Has(Tail(saves), "durable")
  <2>1. \A k \in DOMAIN Tail(saves) : k + 1 \in DOMAIN saves /\ 1 \in DOMAIN saves /\ k + 1 # 1
                                       /\ Tail(saves)[k].by = saves[k + 1].by
      BY <1>2, <1>4, TailIs DEF SavesInv
  <2>2. \A j, k \in DOMAIN Tail(saves) : j + 1 = k + 1 => j = k
      BY <1>2, <1>4
  <2>3. Once(Tail(saves), "close")
      BY <2>1, <2>2 DEF Once, SavesInv
  <2>4. ~Has(Tail(saves), "durable")
      BY <2>1 DEF Has, Once, SavesInv
  <2> QED BY <2>1, <2>3, <2>4 DEF Has
<1> QED BY <1>7, <1>8, <1>9, <1>10 DEF Again, Saving

-----------------------------------------------------------------------------
(* What most steps leave alone.                                            *)

\* The image being written is still that, or the one in memory.
Writes == Saving' => Written' = mem \/ (Saving /\ Written' = Written)

LEMMA OutcomesKept ==
    ASSUME IInv, UNCHANGED <<made, mem, disk, outcome>>, Writes
    PROVE  OutcomesInv'
<1>1. ASSUME NEW c \in Changes
      PROVE  /\ c > made' => outcome'[c] = None
             /\ outcome'[c] = "done" => c \in mem'
             /\ outcome'[c] = "done" \/ (outcome'[c] = "failed" /\ c \in mem') =>
                   c \in disk' /\ (Saving' => c \in Written')
             /\ c \in disk' => (c \in mem' /\ (Saving' => c \in Written')) \/ outcome'[c] = "failed"
    BY <1>1 DEF IInv, OutcomesInv, Writes
<1> QED BY <1>1 DEF OutcomesInv

LEMMA OperationsKept ==
    ASSUME IInv, UNCHANGED <<host, made, mem, durables, called, ended, outcome>>,
           disk' = disk \/ (Saving /\ disk' = Written),
           Writes, Saving' /\ saves'[1].by = "durable" => Written' = mem \/ (Saving /\ saves'[1] = saves[1])
    PROVE  DurablesInv'
<1>1. ended' + Len(durables') = called'
      /\ \A k \in DOMAIN durables' : k > 1 \/ host' # "desktop" => durables'[k].step = "called"
    BY DEF IInv, DurablesInv
<1>2. Pending' /\ Step' = "before" /\ Saving' /\ saves'[1].by = "durable" => Written' = mem'
    BY DEF IInv, DurablesInv, Pending, Step, Written
<1>3. ASSUME Pending', Step' = "after"
      PROVE  /\ Saving' => Written' = mem'
             /\ durables'[1].snapshot \subseteq disk' /\ Runs(durables[1].snapshot)'
  <2>1. Pending /\ Step = "after"
      BY <1>3 DEF Pending, Step
  <2>2. /\ Saving => Written = mem
        /\ durables[1].snapshot \subseteq disk /\ Runs(durables[1].snapshot)
      BY <2>1 DEF IInv, DurablesInv
  <2>3. durables[1].snapshot \subseteq mem
      BY <2>2 DEF Runs
  <2>4. Runs(durables[1].snapshot)'
      BY <2>2 DEF Runs
  <2> QED BY <2>2, <2>3, <2>4 DEF Writes
<1> QED BY <1>1, <1>2, <1>3 DEF DurablesInv

-----------------------------------------------------------------------------
(* Steps that leave the images and the saves alone.                        *)

Still == UNCHANGED <<host, made, mem, disk, saves, outcome>>

LEMMA StillSaves ==
    ASSUME IInv, Still, UNCHANGED <<durables, closing>>
    PROVE  SavesInv' /\ OutcomesInv'
<1>1. SavesInv'
    BY DEF IInv, Still, SavesInv, Saving, Written, Shape, Once, Has, Pending, Step
<1>2. OutcomesInv'
    BY OutcomesKept DEF Still, Writes, Saving, Written
<1> QED BY <1>1, <1>2

LEMMA StillDurables ==
    ASSUME IInv, Still, UNCHANGED <<durables, called, ended>>
    PROVE  DurablesInv'
BY OperationsKept DEF Still, Writes, Saving, Written

LEMMA AskAccessStep ==
    ASSUME IInv, AskAccess
    PROVE  IInv'
<1>1. TypeOK'
  <2>1. waiting \in Seq(0..MaxDurables) /\ called \in 0..MaxDurables /\ 0 \in 0..MaxDurables
      BY RelayDbAssumption DEF IInv, TypeOK
  <2>2. waiting' \in Seq(0..MaxDurables)
      BY <2>1 DEF AskAccess
  <2>3. asked' \in 0..MaxRequests
      BY RelayDbAssumption DEF AskAccess, IInv, TypeOK
  <2> QED BY <2>2, <2>3 DEF AskAccess, IInv, TypeOK
<1>2. SavesInv' /\ OutcomesInv' /\ DurablesInv'
    BY StillSaves, StillDurables DEF AskAccess, Still
<1>3. OwedInv' /\ ClosingInv'
    BY DEF AskAccess, IInv, OwedInv, Somebody, ClosingInv, Saving, Written, Pending
<1> QED BY <1>1, <1>2, <1>3 DEF IInv

LEMMA AccessLooksAgainStep ==
    ASSUME IInv, AccessLooksAgain
    PROVE  IInv'
<1>1. TypeOK'
  <2>1. waiting \in Seq(0..MaxDurables) /\ called \in 0..MaxDurables
      BY DEF IInv, TypeOK
  <2>2. waiting' \in Seq(0..MaxDurables)
      BY <2>1 DEF AccessLooksAgain
  <2> QED BY <2>2 DEF AccessLooksAgain, IInv, TypeOK
<1>2. SavesInv' /\ OutcomesInv' /\ DurablesInv'
    BY StillSaves, StillDurables DEF AccessLooksAgain, Still
<1>3. OwedInv' /\ ClosingInv'
    BY DEF AccessLooksAgain, IInv, OwedInv, Somebody, ClosingInv, Saving, Written, Pending
<1> QED BY <1>1, <1>2, <1>3 DEF IInv

LEMMA AccessEndsStep ==
    ASSUME IInv, AccessEnds
    PROVE  IInv'
<1>1. TypeOK'
    BY DEF AccessEnds, IInv, TypeOK
<1>2. SavesInv' /\ OutcomesInv' /\ DurablesInv'
    BY StillSaves, StillDurables DEF AccessEnds, Still
<1>3. OwedInv' /\ ClosingInv'
    BY DEF AccessEnds, IInv, OwedInv, Somebody, ClosingInv, Saving, Written, Pending
<1> QED BY <1>1, <1>2, <1>3 DEF IInv

LEMMA CallDurableStep ==
    ASSUME IInv, CallDurable
    PROVE  IInv'
<1> DEFINE d == [step |-> "called", snapshot |-> {}]
<1>1. d \in Durable /\ d.step = "called"
    BY DEF Durable
<1>2. durables' = Append(durables, d)
    BY DEF CallDurable
<1> HIDE DEF d
<1>3. /\ durables \in Seq(Durable) /\ Len(durables) \in Nat /\ DOMAIN durables = 1..Len(durables)
      /\ called \in Nat /\ ended \in Nat /\ ended + Len(durables) = called
    BY DEF IInv, TypeOK, Durable, DurablesInv
<1>4. /\ durables' \in Seq(Durable) /\ Len(durables') = Len(durables) + 1
      /\ DOMAIN durables' = 1..Len(durables) + 1 /\ durables' # <<>>
      /\ \A k \in 1..Len(durables) : durables'[k] = durables[k]
      /\ durables'[Len(durables) + 1] = d
  <2>1. durables' \in Seq(Durable) /\ Len(durables') = Len(durables) + 1
      BY <1>1, <1>2, <1>3
  <2>2. DOMAIN durables' = 1..Len(durables) + 1 /\ durables' # <<>>
      BY <1>3, <2>1
  <2>3. (\A k \in 1..Len(durables) : durables'[k] = durables[k]) /\ durables'[Len(durables) + 1] = d
      BY <1>1, <1>2, <1>3
  <2> QED BY <2>1, <2>2, <2>3
<1>5. Pending => Len(durables) > 0 /\ durables'[1] = durables[1]
    BY <1>3, <1>4 DEF Pending
<1>6. ~Pending => Len(durables) = 0 /\ durables'[1] = d
    BY <1>3, <1>4 DEF Pending
<1>7. TypeOK'
  <2>1. called' \in 0..MaxDurables /\ ended' \in 0..called'
      BY RelayDbAssumption DEF CallDurable, IInv, TypeOK
  <2> QED BY <1>4, <2>1 DEF CallDurable, IInv, TypeOK, Durable
<1>8. SavesInv'
    BY <1>4, <1>5 DEF CallDurable, IInv, SavesInv, Saving, Written, Shape, Once, Has, Pending, Step
<1>9. DurablesInv'
  <2>1. ended' + Len(durables') = called'
      BY <1>3, <1>4 DEF CallDurable
  <2>2. \A k \in DOMAIN durables' : k > 1 \/ host' # "desktop" => durables'[k].step = "called"
    <3> SUFFICES ASSUME NEW k \in 1..Len(durables) + 1, k > 1 \/ host # "desktop"
                 PROVE  durables'[k].step = "called"
        BY <1>4 DEF CallDurable
    <3>1. CASE k \in 1..Len(durables)
        BY <1>3, <1>4, <3>1 DEF IInv, DurablesInv
    <3>2. CASE k = Len(durables) + 1
        BY <1>1, <1>4, <3>2
    <3> QED BY <1>3, <3>1, <3>2
  <2>3. Pending' /\ Step' # "called" => Pending /\ Step' = Step /\ durables'[1] = durables[1]
      BY <1>1, <1>5, <1>6 DEF Step
  <2>4. Saving' = Saving /\ (Saving => Written' = Written) /\ saves' = saves /\ mem' = mem
        /\ disk' = disk
      BY DEF CallDurable, Saving, Written
  <2>5. \A pre : Runs(pre) => Runs(pre)'
      BY DEF CallDurable, Runs
  <2> QED BY <2>1, <2>2, <2>3, <2>4, <2>5 DEF IInv, DurablesInv
<1>10. OutcomesInv'
    BY OutcomesKept DEF CallDurable, Writes, Saving, Written
<1>11. OwedInv' /\ ClosingInv'
    BY <1>4 DEF CallDurable, IInv, OwedInv, Somebody, ClosingInv, Saving, Written, Pending
<1> QED BY <1>7, <1>8, <1>9, <1>10, <1>11 DEF IInv

LEMMA CloseStep ==
    ASSUME IInv, Close
    PROVE  IInv'
<1>1. TypeOK'
    BY DEF Close, IInv, TypeOK
<1>2. SavesInv'
    BY DEF Close, IInv, SavesInv, Saving, Written, Shape, Once, Has, Pending, Step
<1>3. OutcomesInv' /\ DurablesInv'
    BY OutcomesKept, StillDurables DEF Close, Still, Writes, Saving, Written
<1>4. OwedInv' /\ ClosingInv'
    BY DEF Close, Desktop, IInv, OwedInv, Somebody, ClosingInv, Saving, Written, Pending
<1> QED BY <1>1, <1>2, <1>3, <1>4 DEF IInv

LEMMA CloseEndsStep ==
    ASSUME IInv, CloseEnds
    PROVE  IInv'
<1>1. TypeOK'
    BY DEF CloseEnds, IInv, TypeOK
<1>2. SavesInv'
    BY DEF CloseEnds, IInv, SavesInv, Saving, Written, Shape, Once, Has, Pending, Step
<1>3. OutcomesInv' /\ DurablesInv'
    BY OutcomesKept, StillDurables DEF CloseEnds, Still, Writes, Saving, Written
<1>4. OwedInv' /\ ClosingInv'
    BY DEF CloseEnds, IInv, OwedInv, Somebody, ClosingInv, Saving, Written, Pending
<1> QED BY <1>1, <1>2, <1>3, <1>4 DEF IInv

LEMMA CrashStep ==
    ASSUME IInv, Crash
    PROVE  IInv'
<1>1. TypeOK'
  <2>1. /\ <<>> \in Seq([by: Callers, image: (SUBSET Changes) \cup {None}])
        /\ <<>> \in Seq([step: {"called", "before", "after"}, snapshot: SUBSET Changes])
        /\ <<>> \in Seq(0..MaxDurables)
      OBVIOUS
  <2>2. called \in 0..called /\ 0 \in 0..MaxRetries
      BY RelayDbAssumption DEF IInv, TypeOK
  <2> QED BY <2>1, <2>2 DEF Crash, IInv, TypeOK
<1>2. SavesInv'
    BY DEF Crash, SavesInv, Saving, Shape, Once, Has
<1>3. DurablesInv'
    BY DEF Crash, IInv, TypeOK, DurablesInv, Pending
<1>4. OutcomesInv'
    BY DEF Crash, IInv, OutcomesInv, Saving
<1>5. OwedInv' /\ ClosingInv'
    BY DEF Crash, OwedInv, ClosingInv, Saving
<1> QED BY <1>1, <1>2, <1>3, <1>4, <1>5 DEF IInv

-----------------------------------------------------------------------------
(* Steps that make a change while no save is under way for an operation.    *)

\* The image grows by a new change of which nobody has been told.
Grows == Changed /\ mem' = mem \cup {made'} /\ outcome' = outcome

LEMMA GrowsOutcomes ==
    ASSUME IInv, Grows, disk' = disk, saves' = saves
    PROVE  OutcomesInv' /\ mem' \subseteq 1..made' /\ disk' \subseteq 1..made' /\ made' \in 0..MaxChanges
<1>1. /\ made' = made + 1 /\ made \in Nat /\ made' \in Changes /\ made' \in 0..MaxChanges
      /\ made' \notin disk /\ outcome[made'] = None
      /\ 1..made \subseteq 1..made' /\ made' \in 1..made'
    BY NewChange DEF Grows
<1>2. mem' \subseteq 1..made' /\ disk' \subseteq 1..made'
    BY <1>1 DEF Grows, IInv, TypeOK
<1>3. ASSUME NEW c \in Changes
      PROVE  /\ c > made' => outcome'[c] = None
             /\ outcome'[c] = "done" => c \in mem'
             /\ outcome'[c] = "done" \/ (outcome'[c] = "failed" /\ c \in mem') =>
                   c \in disk' /\ (Saving' => c \in Written')
             /\ c \in disk' => (c \in mem' /\ (Saving' => c \in Written')) \/ outcome'[c] = "failed"
  <2>1. CASE c = made'
    <3>1. outcome'[c] # "done" /\ outcome'[c] # "failed"
      <4>1. outcome'[c] = outcome[made']
          BY <2>1 DEF Grows
      <4> QED BY <1>1, <4>1, RelayDbAssumption
    <3> QED BY <1>1, <2>1, <3>1
  <2>2. CASE c # made'
    <3>1. c > made' => c > made
        BY <1>1 DEF Changes
    <3> QED BY <1>3, <2>2, <3>1 DEF Grows, IInv, OutcomesInv, Saving, Written
  <2> QED BY <2>1, <2>2
<1> QED BY <1>1, <1>2, <1>3 DEF OutcomesInv

LEMMA MutateStep ==
    ASSUME IInv, Mutate
    PROVE  IInv'
<1>1. TypeOK' /\ OutcomesInv'
    BY GrowsOutcomes DEF Mutate, Grows, Schedule, IInv, TypeOK
<1>2. SavesInv'
    BY DEF Mutate, IInv, SavesInv, Saving, Written, Shape, Once, Has, Pending, Step
<1>3. DurablesInv'
    BY DEF Mutate, IInv, DurablesInv, Pending
<1>4. OwedInv'
    BY DEF Mutate, Schedule, OwedInv, Somebody
<1>5. ClosingInv'
    BY DEF Mutate, IInv, SavesInv, Saving, Has, ClosingInv, OwedInv, Written
<1> QED BY <1>1, <1>2, <1>3, <1>4, <1>5 DEF IInv

-----------------------------------------------------------------------------
(* Steps that call a save.                                                 *)

Unmade == UNCHANGED <<host, made, mem, disk, called, ended, outcome>>

LEMMA Queueing ==
    ASSUME IInv, Unmade, NEW caller \in Callers, saves' = Queued(saves, caller, mem),
           caller \in {"durable", "close"} => ~Has(saves, caller)
    PROVE  /\ Comes(caller) /\ Writes /\ OwedInv' /\ OutcomesInv'
           /\ saves' \in Seq(Save) /\ Written' \subseteq mem'
<1>1. mem' \in SUBSET Changes
    BY Images DEF Unmade, IInv
<1>2. saves' = Queued(saves, caller, mem')
    BY DEF Unmade
<1>3. Comes(caller)
    BY <1>1, <1>2, SaveComes DEF IInv
<1>4. Writes
    BY <1>3 DEF Comes, Writes, Written, Unmade
<1>5. Saving => Len(saves) \in Nat /\ Len(saves) > 0
    BY FirstSave DEF IInv
<1>6. OwedInv'
    BY <1>3, <1>5 DEF Comes, OwedInv, Written
<1>7. OutcomesInv'
    BY <1>4, OutcomesKept DEF Unmade
<1>8. Written' \subseteq mem'
    BY <1>3, <1>4 DEF Comes, Writes, Unmade, IInv, SavesInv
<1> QED BY <1>3, <1>4, <1>6, <1>7, <1>8 DEF Comes

LEMMA TimerFiresStep ==
    ASSUME IInv, TimerFires
    PROVE  IInv'
<1>1. /\ Comes("timer") /\ Writes /\ OwedInv' /\ OutcomesInv'
      /\ saves' \in Seq(Save) /\ Written' \subseteq mem'
    BY Queueing DEF TimerFires, Unmade, Callers
<1>2. TypeOK'
    BY <1>1 DEF TimerFires, IInv, TypeOK, Save
<1>3. SavesInv'
    BY <1>1 DEF TimerFires, Desktop, IInv, SavesInv, Comes, Pending, Step
<1>4. DurablesInv'
    BY <1>1, OperationsKept DEF TimerFires, Comes
<1>5. ClosingInv'
    BY <1>1 DEF TimerFires, IsOpen, IInv, ClosingInv, Comes, Written
<1> QED BY <1>1, <1>2, <1>3, <1>4, <1>5 DEF IInv

LEMMA CloseSavesStep ==
    ASSUME IInv, CloseSaves
    PROVE  IInv'
<1>1. ~Has(saves, "close") /\ (Saving => saves[1].by # "close")
  <2>1. ~Has(saves, "close")
      BY DEF CloseSaves, IInv, SavesInv
  <2> QED BY <2>1, FirstSave DEF IInv
<1>2. /\ Comes("close") /\ Writes /\ OwedInv' /\ OutcomesInv'
      /\ saves' \in Seq(Save) /\ Written' \subseteq mem'
    BY <1>1, Queueing DEF CloseSaves, Unmade, Callers
<1>3. TypeOK'
    BY <1>2 DEF CloseSaves, IInv, TypeOK, Save
<1>4. host = "desktop"
    BY DEF CloseSaves, IInv, ClosingInv
<1>5. SavesInv'
    BY <1>2, <1>4 DEF CloseSaves, IInv, SavesInv, Comes, Pending, Step
<1>6. DurablesInv'
    BY <1>2, OperationsKept DEF CloseSaves, Comes
<1>7. ClosingInv'
    BY <1>1, <1>2 DEF CloseSaves, IInv, ClosingInv, Comes, Written
<1> QED BY <1>2, <1>3, <1>5, <1>6, <1>7 DEF IInv

LEMMA DurableStartsStep ==
    ASSUME IInv, DurableStarts
    PROVE  IInv'
<1> DEFINE d == [durables[1] EXCEPT !.step = "before"]
<1>1. Pending /\ Step = "called"
    BY DEF DurableStarts, Pending, Step
<1>2. ~Has(saves, "durable") /\ (Saving => saves[1].by # "durable")
  <2>1. ~Has(saves, "durable")
      BY <1>1 DEF IInv, SavesInv
  <2> QED BY <2>1, FirstSave DEF IInv
<1>3. d \in Durable /\ d.step = "before" /\ durables[1] \in Durable
    BY <1>1, FirstDurable DEF Durable, IInv
<1>4. durables' = [durables EXCEPT ![1] = d]
    BY <1>1, FirstDurable DEF DurableStarts, IInv
<1> HIDE DEF d
<1>5. Replaced(d)
    BY <1>1, <1>3, <1>4, Replacing DEF IInv
<1>6. /\ Comes("durable") /\ Writes /\ OwedInv' /\ OutcomesInv'
      /\ saves' \in Seq(Save) /\ Written' \subseteq mem'
    BY <1>2, Queueing DEF DurableStarts, Unmade, Callers
<1>7. TypeOK'
    BY <1>5, <1>6 DEF DurableStarts, IInv, TypeOK, Save, Durable, Replaced
<1>8. Pending' /\ Step' = "before"
    BY <1>3, <1>5 DEF Replaced, Pending, Step
<1>9. SavesInv'
    BY <1>6, <1>8 DEF DurableStarts, Desktop, IInv, SavesInv, Comes
<1>10. DurablesInv'
  <2>1. ended' + Len(durables') = called'
      BY <1>5 DEF Replaced, DurableStarts, IInv, DurablesInv
  <2>2. \A k \in DOMAIN durables' : k > 1 \/ host' # "desktop" => durables'[k].step = "called"
      BY <1>5 DEF Replaced, DurableStarts, Desktop, IInv, DurablesInv
  <2>3. Pending' /\ Step' = "before" /\ Saving' /\ saves'[1].by = "durable" => Written' = mem'
      BY <1>2, <1>6 DEF Comes
  <2> QED BY <1>8, <2>1, <2>2, <2>3 DEF DurablesInv
<1>11. ClosingInv'
  <2>1. closing \in {"no", "wait"}
      BY <1>1 DEF IInv, TypeOK, ClosingInv, Pending
  <2>2. ~Has(saves, "close") /\ (Saving => saves[1].by # "close")
    <3>1. ~Has(saves, "close")
        BY <2>1 DEF IInv, SavesInv
    <3> QED BY <3>1, FirstSave DEF IInv
  <2> QED BY <2>1, <2>2, <1>6 DEF DurableStarts, Desktop, ClosingInv, Comes
<1> QED BY <1>6, <1>7, <1>9, <1>10, <1>11 DEF IInv

-----------------------------------------------------------------------------
(* A request begins.                                                       *)

LEMMA AccessStartsStep ==
    ASSUME IInv, AccessStarts
    PROVE  IInv'
<1>1. closing \in {"no", "wait"} /\ waiting' \in Seq(0..MaxDurables)
    BY DEF AccessStarts, IInv, TypeOK, ClosingInv
<1>2. ~Has(saves, "close") /\ (Saving => saves[1].by # "close")
  <2>1. ~Has(saves, "close")
      BY <1>1 DEF IInv, SavesInv
  <2> QED BY <2>1, FirstSave DEF IInv
<1>3. CASE Spare /\ Changed /\ holding' = TRUE /\ UNCHANGED <<disk, saves>>
           /\ durables # <<>> /\ Desktop /\ refused' = TRUE /\ UNCHANGED <<mem, timer>>
  <2>1. /\ made' = made + 1 /\ made \in Nat /\ made' \in 0..MaxChanges /\ made' \in Changes
        /\ made' \notin mem /\ made' \notin disk /\ outcome[made'] = None /\ 1..made \subseteq 1..made'
      BY <1>3, NewChange
  <2>2. TypeOK'
      BY <1>1, <1>3, <2>1 DEF AccessStarts, IInv, TypeOK
  <2>3. SavesInv'
      BY <1>3 DEF AccessStarts, IInv, SavesInv, Saving, Written, Shape, Once, Has, Pending, Step
  <2>4. DurablesInv'
    <3>1. \A pre : Runs(pre) => Runs(pre)'
        BY <1>3, <2>1 DEF AccessStarts, Runs
    <3>2. UNCHANGED <<durables, called, ended, host, saves, mem, disk>>
        BY <1>3 DEF AccessStarts
    <3> QED BY <3>1, <3>2 DEF IInv, DurablesInv, Pending, Step, Saving, Written
  <2>5. OutcomesInv'
    <3>1. \A c \in Changes : c > made' => c > made
        BY <2>1 DEF Changes
    <3> QED BY <1>3, <3>1 DEF AccessStarts, IInv, OutcomesInv, Saving, Written
  <2>6. OwedInv' /\ ClosingInv'
      BY <1>1, <1>2, <1>3 DEF AccessStarts, Desktop, IInv, OwedInv, Somebody, ClosingInv, Saving, Written, Pending
  <2> QED BY <2>2, <2>3, <2>4, <2>5, <2>6 DEF IInv
<1>4. CASE Spare /\ Changed /\ holding' = TRUE /\ UNCHANGED <<disk, saves>>
           /\ ~(durables # <<>> /\ Desktop)
           /\ mem' = mem \cup {made'} /\ timer' = Schedule(timer) /\ UNCHANGED refused
  <2>1. TypeOK' /\ OutcomesInv'
    <3>1. OutcomesInv' /\ mem' \subseteq 1..made' /\ disk' \subseteq 1..made' /\ made' \in 0..MaxChanges
        BY <1>4, GrowsOutcomes DEF AccessStarts, Grows
    <3> QED BY <1>1, <1>4, <3>1 DEF AccessStarts, Schedule, IInv, TypeOK
  <2>2. SavesInv'
      BY <1>4 DEF AccessStarts, IInv, SavesInv, Saving, Written, Shape, Once, Has, Pending, Step
  <2>3. DurablesInv'
    <3>1. Pending => ~Saving /\ Step = "called"
      <4>1. Pending => 1 \in DOMAIN durables
          BY FirstDurable DEF IInv
      <4> QED BY <1>4, <4>1 DEF Desktop, Pending, IInv, SavesInv, DurablesInv, Step
    <3>2. UNCHANGED <<durables, called, ended, host, saves>>
        BY <1>4 DEF AccessStarts
    <3> QED BY <3>1, <3>2 DEF IInv, DurablesInv, Pending, Step, Saving
  <2>4. OwedInv'
      BY <1>4 DEF Schedule, OwedInv, Somebody
  <2>5. ClosingInv'
      BY <1>1, <1>2, <1>4 DEF AccessStarts, IInv, ClosingInv, Saving
  <2> QED BY <2>1, <2>2, <2>3, <2>4, <2>5 DEF IInv
<1>5. CASE Desktop /\ holding' = TRUE /\ timer' = "off" /\ saves' = Queued(saves, "request", mem)
           /\ UNCHANGED <<made, mem, disk, refused>>
  <2>1. /\ Comes("request") /\ Writes /\ OwedInv' /\ OutcomesInv'
        /\ saves' \in Seq(Save) /\ Written' \subseteq mem'
      BY <1>5, Queueing DEF AccessStarts, Unmade, Callers
  <2>2. TypeOK'
      BY <1>1, <1>5, <2>1 DEF AccessStarts, IInv, TypeOK, Save
  <2>3. SavesInv'
      BY <1>5, <2>1 DEF AccessStarts, Desktop, IInv, SavesInv, Comes, Pending, Step
  <2>4. DurablesInv'
      BY <1>5, <2>1, OperationsKept DEF AccessStarts, Comes
  <2>5. ClosingInv'
      BY <1>1, <1>2, <1>5, <2>1 DEF AccessStarts, Desktop, ClosingInv, Comes
  <2> QED BY <2>1, <2>2, <2>3, <2>4, <2>5 DEF IInv
<1>6. CASE ~Desktop /\ timer' = "off" /\ disk' = mem
           /\ UNCHANGED <<made, mem, saves, holding, refused>>
  <2>1. ~Saving
      BY <1>6 DEF Desktop, IInv, SavesInv
  <2>2. TypeOK'
      BY <1>1, <1>6 DEF AccessStarts, IInv, TypeOK
  <2>3. SavesInv'
      BY <1>6 DEF AccessStarts, IInv, SavesInv, Saving, Written, Shape, Once, Has, Pending, Step
  <2>4. DurablesInv'
    <3>1. Pending => Step = "called"
      <4>1. Pending => 1 \in DOMAIN durables
          BY FirstDurable DEF IInv
      <4> QED BY <1>6, <4>1 DEF Desktop, Pending, IInv, DurablesInv, Step
    <3>2. UNCHANGED <<durables, called, ended, host, saves>>
        BY <1>6 DEF AccessStarts
    <3> QED BY <2>1, <3>1, <3>2 DEF IInv, DurablesInv, Pending, Step, Saving
  <2>5. OutcomesInv'
      BY <1>6, <2>1 DEF AccessStarts, IInv, OutcomesInv, Saving
  <2>6. OwedInv' /\ ClosingInv'
      BY <1>1, <1>6, <2>1 DEF AccessStarts, IInv, OwedInv, ClosingInv, Saving
  <2> QED BY <2>2, <2>3, <2>4, <2>5, <2>6 DEF IInv
<1> QED BY <1>3, <1>4, <1>5, <1>6 DEF AccessStarts

-----------------------------------------------------------------------------
(* Steps that end an operation.                                            *)

LEMMA Leaving ==
    ASSUME TypeOK, DurablesInv, Pending, Leaves
    PROVE  durables' \in Seq(Durable) /\ ended' \in 0..called' /\ DurablesInv'
<1>1. /\ durables' \in Seq(Durable) /\ Len(durables') = Len(durables) - 1 /\ Calls(durables')
      /\ Len(durables) \in Nat /\ Len(durables) > 0
      /\ ended \in Nat /\ called \in Nat /\ ended + 1 <= called
    BY FirstDurable DEF Leaves
<1>2. ended' + Len(durables') = called' /\ ended' \in 0..called'
    BY <1>1 DEF Leaves, DurablesInv
<1>3. Pending' => Step' = "called"
  <2>1. Pending' => 1 \in DOMAIN durables'
      BY <1>1 DEF Pending
  <2> QED BY <1>1, <2>1 DEF Calls, Step
<1> QED BY <1>1, <1>2, <1>3 DEF DurablesInv, Calls

\* The caller of the operation whose change is c is told t.
Told(c, t) ==
    /\ outcome' \in [Changes -> {None, "done", "failed"}]
    /\ outcome'[c] = t /\ \A x \in Changes : x # c => outcome'[x] = outcome[x]

LEMMA Telling ==
    ASSUME TypeOK, NEW c \in Changes, NEW t \in {"done", "failed"},
           outcome' = [outcome EXCEPT ![c] = t]
    PROVE  Told(c, t)
BY DEF TypeOK, Told

\* What OutcomesInv says of one change.
OutcomeIs(c) ==
    /\ c > made => outcome[c] = None
    /\ outcome[c] = "done" => c \in mem
    /\ outcome[c] = "done" \/ (outcome[c] = "failed" /\ c \in mem) =>
          c \in disk /\ (Saving => c \in Written)
    /\ c \in disk => (c \in mem /\ (Saving => c \in Written)) \/ outcome[c] = "failed"

LEMMA OneByOne == OutcomesInv <=> \A c \in Changes : OutcomeIs(c)
BY DEF OutcomesInv, OutcomeIs

LEMMA StandaloneTimerStep ==
    ASSUME IInv, StandaloneTimer
    PROVE  IInv'
<1>1. ~Saving /\ closing = "no"
    BY DEF StandaloneTimer, Desktop, IInv, SavesInv, ClosingInv
<1>2. TypeOK'
    BY DEF StandaloneTimer, IInv, TypeOK
<1>3. SavesInv'
    BY <1>1 DEF StandaloneTimer, IInv, SavesInv, Saving, Shape, Once, Has, Pending, Step
<1>4. DurablesInv'
  <2>1. Pending => Step = "called"
    <3>1. Pending => 1 \in DOMAIN durables
        BY FirstDurable DEF IInv
    <3> QED BY <3>1 DEF StandaloneTimer, Desktop, Pending, IInv, DurablesInv, Step
  <2>2. UNCHANGED <<durables, called, ended, host, saves>>
      BY DEF StandaloneTimer
  <2> QED BY <1>1, <2>1, <2>2 DEF IInv, DurablesInv, Pending, Step, Saving
<1>5. OutcomesInv'
    BY <1>1 DEF StandaloneTimer, IInv, OutcomesInv, Saving
<1>6. OwedInv' /\ ClosingInv'
    BY <1>1 DEF StandaloneTimer, IInv, OwedInv, ClosingInv, Saving
<1> QED BY <1>2, <1>3, <1>4, <1>5, <1>6 DEF IInv

LEMMA StandaloneDurableStep ==
    ASSUME IInv, StandaloneDurable
    PROVE  IInv'
<1>1. ~Saving /\ ~Saving' /\ closing = "no" /\ Pending
    BY DEF StandaloneDurable, Desktop, IInv, SavesInv, ClosingInv, Saving, Pending
<1>2. durables' \in Seq(Durable) /\ ended' \in 0..called' /\ DurablesInv'
    BY <1>1, Leaving DEF StandaloneDurable, Leaves, IInv
<1>3. /\ made' = made + 1 /\ made' \in Changes /\ made' \in 0..MaxChanges
      /\ made' \notin mem /\ made' \notin disk /\ made \in Nat
      /\ 1..made \subseteq 1..made' /\ made' \in 1..made'
    BY NewChange DEF StandaloneDurable
<1>4. SavesInv'
    BY <1>1 DEF StandaloneDurable, IInv, SavesInv, Saving, Shape, Once, Has
<1>5. ClosingInv'
    BY <1>1 DEF StandaloneDurable, ClosingInv
<1>6. \A c \in Changes : OutcomeIs(c)
    BY OneByOne DEF IInv
<1>7. \A c \in Changes : c > made' => c > made /\ c # made'
    BY <1>3 DEF Changes
<1>8. CASE mem' = mem \cup {made'} /\ disk' = mem'
           /\ outcome' = [outcome EXCEPT ![made'] = "done"] /\ UNCHANGED forgotten
  <2>1. Told(made', "done")
      BY <1>3, <1>8, Telling DEF IInv
  <2>2. TypeOK'
      BY <1>2, <1>3, <1>8, <2>1 DEF Told, StandaloneDurable, IInv, TypeOK, Durable
  <2>3. ASSUME NEW c \in Changes PROVE OutcomeIs(c)'
      BY <1>1, <1>3, <1>6, <1>7, <1>8, <2>1, RelayDbAssumption DEF Told, OutcomeIs
  <2>4. OwedInv'
      BY <1>1, <1>8 DEF OwedInv
  <2> QED BY <1>2, <1>4, <1>5, <2>2, <2>3, <2>4 DEF IInv, OutcomesInv, OutcomeIs
<1>9. CASE disk' = mem /\ outcome' = [outcome EXCEPT ![made'] = "failed"]
           /\ UNCHANGED <<mem, forgotten>>
  <2>1. Told(made', "failed")
      BY <1>3, <1>9, Telling DEF IInv
  <2>2. TypeOK'
      BY <1>2, <1>3, <1>9, <2>1 DEF Told, StandaloneDurable, IInv, TypeOK, Durable
  <2>3. ASSUME NEW c \in Changes PROVE OutcomeIs(c)'
      BY <1>1, <1>3, <1>6, <1>7, <1>9, <2>1, RelayDbAssumption DEF Told, OutcomeIs
  <2>4. OwedInv'
      BY <1>1, <1>9 DEF OwedInv
  <2> QED BY <1>2, <1>4, <1>5, <2>2, <2>3, <2>4 DEF IInv, OutcomesInv, OutcomeIs
<1>10. CASE outcome' = [outcome EXCEPT ![made'] = "failed"]
            /\ forgotten' = (forgotten \/ mem # disk) /\ UNCHANGED <<mem, disk>>
  <2>1. Told(made', "failed")
      BY <1>3, <1>10, Telling DEF IInv
  <2>2. TypeOK'
      BY <1>2, <1>3, <1>10, <2>1 DEF Told, StandaloneDurable, IInv, TypeOK, Durable
  <2>3. ASSUME NEW c \in Changes PROVE OutcomeIs(c)'
      BY <1>1, <1>3, <1>6, <1>7, <1>10, <2>1, RelayDbAssumption DEF Told, OutcomeIs
  <2>4. OwedInv'
      BY <1>1, <1>10 DEF OwedInv, Somebody
  <2> QED BY <1>2, <1>4, <1>5, <2>2, <2>3, <2>4 DEF IInv, OutcomesInv, OutcomeIs
<1> QED BY <1>8, <1>9, <1>10 DEF StandaloneDurable

-----------------------------------------------------------------------------
(* Steps that end a save.                                                  *)

LEMMA Ending ==
    ASSUME IInv, NEW caller \in Callers, SaveEnds(caller), mem' \in SUBSET Changes
    PROVE  /\ host = "desktop" /\ Saving /\ saves[1].by = caller /\ closing # "closed"
           /\ Has(saves, caller) /\ Written \subseteq mem /\ Written \subseteq 1..made
           /\ saves' = Exported(Tail(saves), mem') => Gone
           /\ Len(saves) \in Nat /\ Len(saves) > 0
<1>1. host = "desktop" /\ Saving /\ saves[1].by = caller /\ closing # "closed"
    BY DEF SaveEnds, Desktop, Saving, IsOpen
<1>2. Has(saves, caller) /\ Written \subseteq mem /\ Len(saves) \in Nat /\ Len(saves) > 0
    BY <1>1, FirstSave DEF IInv
<1>3. Written \subseteq 1..made
    BY <1>2 DEF IInv, TypeOK
<1>4. saves' = Exported(Tail(saves), mem') => Gone
    BY <1>1, SaveGoes DEF IInv
<1> QED BY <1>1, <1>2, <1>3, <1>4

\* A save ends that is not the first operation's: well, or not.
LEMMA Passing ==
    ASSUME IInv, NEW caller \in Callers, SaveEnds(caller), caller # "durable",
           UNCHANGED <<host, made, mem, durables, called, ended, outcome>>,
           disk' = disk \/ disk' = Written,
           saves' = Exported(Tail(saves), mem), closing' = closing \/ caller = "close"
    PROVE  /\ SavesInv' /\ DurablesInv' /\ OutcomesInv' /\ Gone
           /\ saves' \in Seq(Save) /\ disk' \subseteq 1..made'
<1>1. mem' \in SUBSET Changes /\ saves' = Exported(Tail(saves), mem')
    BY Images DEF IInv
<1>2. /\ host = "desktop" /\ Saving /\ saves[1].by = caller /\ Has(saves, caller)
      /\ Written \subseteq mem /\ Written \subseteq 1..made /\ Gone
    BY <1>1, Ending
<1>3. SavesInv'
    BY <1>2 DEF IInv, SavesInv, Gone, Pending, Step
<1>4. Writes
    BY <1>2 DEF Writes, Gone
<1>5. DurablesInv'
    BY <1>2, <1>4, OperationsKept DEF Gone
<1>6. OutcomesInv'
  <2>1. CASE disk' = disk
      BY <1>4, <2>1, OutcomesKept
  <2>2. CASE disk' = Written
      BY <1>2, <2>2 DEF Gone, IInv, OutcomesInv
  <2> QED BY <2>1, <2>2
<1>7. saves' \in Seq(Save) /\ disk' \subseteq 1..made'
    BY <1>2 DEF Gone, IInv, TypeOK
<1> QED BY <1>2, <1>3, <1>5, <1>6, <1>7

LEMMA TimerSaveFailsStep ==
    ASSUME IInv, TimerSaveFails
    PROVE  IInv'
<1>1. SaveEnds("timer") /\ "timer" \in Callers /\ mem' \in SUBSET Changes
    BY Images DEF TimerSaveFails, Callers, IInv
<1>2. /\ SavesInv' /\ DurablesInv' /\ OutcomesInv' /\ Gone /\ saves' \in Seq(Save)
    BY <1>1, Passing DEF TimerSaveFails
<1>3. Saving /\ closing # "closed"
    BY <1>1, Ending
<1>4. TypeOK'
  <2>1. failed' \in 0..MaxRetries
      BY RelayDbAssumption DEF TimerSaveFails, IInv, TypeOK
  <2>2. timer' \in {"off", "soon", "retry"} /\ forgotten' \in BOOLEAN
      BY DEF TimerSaveFails, IInv, TypeOK
  <2> QED BY <1>2, <2>1, <2>2 DEF TimerSaveFails, IInv, TypeOK, Save
<1>5. timer' # "off" \/ forgotten'
    BY DEF TimerSaveFails
<1>6. OwedInv' /\ ClosingInv'
    BY <1>2, <1>3, <1>5 DEF TimerSaveFails, Gone, IInv, OwedInv, Somebody, ClosingInv
<1> QED BY <1>2, <1>4, <1>6 DEF IInv

LEMMA OtherSaveFailsStep ==
    ASSUME IInv, OtherSaveFails
    PROVE  IInv'
<1>1. PICK caller \in {"request", "close"} :
          /\ SaveEnds(caller)
          /\ caller = "request" => holding' = FALSE /\ UNCHANGED closing
          /\ caller = "close" => closing' = "no" /\ UNCHANGED holding
    BY DEF OtherSaveFails
<1>2. mem' \in SUBSET Changes /\ caller \in Callers /\ caller # "durable"
    BY Images DEF OtherSaveFails, Callers, IInv
<1>3. /\ SavesInv' /\ DurablesInv' /\ OutcomesInv' /\ Gone /\ saves' \in Seq(Save)
    BY <1>1, <1>2, Passing DEF OtherSaveFails
<1>4. Saving /\ closing # "closed"
    BY <1>1, <1>2, Ending
<1>5. TypeOK'
    BY <1>1, <1>3 DEF OtherSaveFails, IInv, TypeOK, Save
<1>6. mem # disk => timer' # "off" \/ forgotten'
    BY DEF OtherSaveFails
<1>7. OwedInv'
    BY <1>3, <1>6 DEF OtherSaveFails, Gone, OwedInv, Somebody
<1>8. ClosingInv'
    BY <1>1, <1>3, <1>4 DEF OtherSaveFails, Gone, IInv, ClosingInv
<1> QED BY <1>3, <1>5, <1>7, <1>8 DEF IInv

-----------------------------------------------------------------------------
(* Steps that end a save of the first operation.                           *)

LEMMA First ==
    ASSUME IInv, SaveEnds("durable"), mem' \in SUBSET Changes
    PROVE  /\ host = "desktop" /\ Saving /\ saves[1].by = "durable"
           /\ Written \subseteq mem /\ Pending /\ Step \in {"before", "after"} /\ Written = mem
           /\ closing \in {"no", "wait"} /\ ~Has(saves, "close")
           /\ saves' = Exported(Tail(saves), mem') => Gone
           /\ Len(saves) \in Nat /\ Len(saves) > 0
<1>1. "durable" \in Callers
    BY DEF Callers
<1>2. /\ host = "desktop" /\ Saving /\ saves[1].by = "durable" /\ Has(saves, "durable")
      /\ Written \subseteq mem /\ Len(saves) \in Nat /\ Len(saves) > 0
      /\ saves' = Exported(Tail(saves), mem') => Gone
    BY <1>1, Ending
<1>3. Pending /\ Step # "called"
    BY <1>2 DEF IInv, SavesInv
<1>4. Step \in {"before", "after"}
    BY <1>3, FirstDurable DEF IInv
<1>5. closing \in {"no", "wait"}
    BY <1>3 DEF IInv, TypeOK, ClosingInv, Pending
<1>6. ~Has(saves, "close")
    BY <1>5 DEF IInv, SavesInv
<1>7. Written = mem
    BY <1>2, <1>3, <1>4 DEF IInv, DurablesInv
<1> QED BY <1>2, <1>3, <1>4, <1>5, <1>6, <1>7

\* The operation is over: none of its saves is left.
LEMMA FirstIsOver ==
    ASSUME IInv, SaveEnds("durable"), mem' \in SUBSET Changes,
           saves' = Exported(Tail(saves), mem'), Leaves, UNCHANGED <<host, closing>>
    PROVE  /\ SavesInv' /\ DurablesInv' /\ ClosingInv' /\ Gone
           /\ saves' \in Seq(Save) /\ durables' \in Seq(Durable) /\ ended' \in 0..called'
<1>1. /\ host = "desktop" /\ Saving /\ saves[1].by = "durable" /\ Pending
      /\ closing \in {"no", "wait"} /\ ~Has(saves, "close") /\ Gone
    BY First
<1>2. SavesInv'
    BY <1>1 DEF Gone, SavesInv
<1>3. durables' \in Seq(Durable) /\ ended' \in 0..called' /\ DurablesInv'
    BY <1>1, Leaving DEF IInv
<1>4. ClosingInv'
    BY <1>1 DEF Gone, ClosingInv
<1> QED BY <1>1, <1>2, <1>3, <1>4 DEF Gone

LEMMA FirstSaveFailsStep ==
    ASSUME IInv, FirstSaveFails
    PROVE  IInv'
<1>1. SaveEnds("durable") /\ mem' = mem /\ mem' \in SUBSET Changes
    BY Images DEF FirstSaveFails, IInv
<1>2. /\ SavesInv' /\ DurablesInv' /\ ClosingInv' /\ Gone
      /\ saves' \in Seq(Save) /\ durables' \in Seq(Durable) /\ ended' \in 0..called'
    BY <1>1, FirstIsOver DEF FirstSaveFails, Leaves
<1>3. /\ made' = made + 1 /\ made' \in Changes /\ made' \in 0..MaxChanges
      /\ made' \notin mem /\ made' \notin disk /\ made \in Nat
      /\ 1..made \subseteq 1..made' /\ made' \in 1..made'
    BY NewChange DEF FirstSaveFails
<1>4. Told(made', "failed")
    BY <1>3, Telling DEF FirstSaveFails, IInv
<1>5. TypeOK'
    BY <1>2, <1>3, <1>4 DEF Told, FirstSaveFails, IInv, TypeOK, Save, Durable
<1>6. ASSUME NEW c \in Changes PROVE OutcomeIs(c)'
  <2>1. OutcomeIs(c) /\ (c > made' => c > made /\ c # made')
      BY <1>3, OneByOne DEF IInv, Changes
  <2>2. disk' = disk /\ (Saving' => Written' = mem)
      BY <1>1, <1>2 DEF Gone, FirstSaveFails
  <2> QED BY <1>1, <1>3, <1>4, <2>1, <2>2, RelayDbAssumption DEF Told, OutcomeIs
<1>7. OutcomesInv'
    BY <1>6 DEF OutcomesInv, OutcomeIs
<1>8. OwedInv'
    BY <1>2 DEF FirstSaveFails, Gone, OwedInv, Somebody
<1> QED BY <1>2, <1>5, <1>7, <1>8 DEF IInv

\* After the operation its change is the only one that the image before it lacks.
LEMMA OwnIs ==
    ASSUME IInv, Pending, Step = "after"
    PROVE  /\ Own \in Changes /\ outcome[Own] = None /\ Own \in mem /\ Own \notin durables[1].snapshot
           /\ mem = durables[1].snapshot \cup {Own} /\ durables[1].snapshot \subseteq disk
<1>1. PICK c \in 1..made : /\ mem = durables[1].snapshot \cup {c} /\ c \notin durables[1].snapshot
                           /\ outcome[c] = None
    BY DEF IInv, DurablesInv, Runs
<1>2. Own \in mem /\ Own \notin durables[1].snapshot
    BY <1>1 DEF Own
<1>3. Own = c
    BY <1>1, <1>2
<1>4. durables[1].snapshot \subseteq disk
    BY DEF IInv, DurablesInv
<1> QED BY <1>1, <1>2, <1>3, <1>4, Images DEF IInv

LEMMA SecondSaveFailsStep ==
    ASSUME IInv, SecondSaveFails
    PROVE  IInv'
<1>1. SaveEnds("durable") /\ Pending /\ Step = "after"
  <2>1. SaveEnds("durable") /\ Step = "after"
      BY DEF SecondSaveFails, Step
  <2>2. mem \in SUBSET Changes
      BY Images DEF IInv
  <2>3. Has(saves, "durable")
      BY <2>1, FirstSave DEF SaveEnds, Saving, IInv
  <2> QED BY <2>1, <2>3 DEF IInv, SavesInv
<1>2. /\ Own \in Changes /\ outcome[Own] = None /\ Own \in mem /\ Own \notin mem'
      /\ mem = mem' \cup {Own} /\ mem' \subseteq disk
    BY <1>1, OwnIs DEF SecondSaveFails
<1>3. mem' \in SUBSET Changes
    BY <1>2, Images DEF IInv
<1>4. /\ SavesInv' /\ DurablesInv' /\ ClosingInv' /\ Gone
      /\ saves' \in Seq(Save) /\ durables' \in Seq(Durable) /\ ended' \in 0..called'
    BY <1>1, <1>3, FirstIsOver DEF SecondSaveFails, Leaves
<1>5. Saving /\ Written = mem
    BY <1>1, <1>3, First
<1>6. Told(Own, "failed")
    BY <1>2, Telling DEF SecondSaveFails, IInv
<1>7. TypeOK'
    BY <1>2, <1>4, <1>6 DEF Told, SecondSaveFails, IInv, TypeOK, Save, Durable
<1>8. ASSUME NEW c \in Changes PROVE OutcomeIs(c)'
  <2>1. OutcomeIs(c) /\ made' = made
      BY OneByOne DEF IInv, SecondSaveFails
  <2>2. disk' = disk /\ (Saving' => Written' = mem')
      BY <1>4 DEF Gone, SecondSaveFails
  <2>3. Own \in 1..made /\ ~(Own > made)
      BY <1>2 DEF IInv, TypeOK
  <2> QED BY <1>2, <1>5, <1>6, <2>1, <2>2, <2>3, RelayDbAssumption DEF Told, OutcomeIs
<1>9. OutcomesInv'
    BY <1>8 DEF OutcomesInv, OutcomeIs
<1>10. OwedInv'
    BY <1>2, <1>4 DEF SecondSaveFails, Gone, OwedInv
<1> QED BY <1>4, <1>7, <1>9, <1>10 DEF IInv

-----------------------------------------------------------------------------
(* A save succeeds: what its caller does then.                             *)

SaveDone(caller) ==
    /\ SaveEnds(caller) /\ disk' = Written
    /\ UNCHANGED <<host, called, waiting, forgotten, asked, refused>>

LEMMA TimerSaved ==
    ASSUME IInv, SaveDone("timer"), failed' = 0, saves' = Exported(Tail(saves), mem),
           UNCHANGED <<made, mem, timer, durables, ended, outcome, holding, closing>>
    PROVE  IInv'
<1>1. "timer" \in Callers /\ mem' \in SUBSET Changes
    BY Images DEF Callers, IInv
<1>2. /\ SavesInv' /\ DurablesInv' /\ OutcomesInv' /\ Gone
      /\ saves' \in Seq(Save) /\ disk' \subseteq 1..made'
    BY <1>1, Passing DEF SaveDone
<1>3. /\ Saving /\ closing # "closed" /\ Written \subseteq mem
      /\ Len(saves) \in Nat /\ Len(saves) > 0
    BY <1>1, Ending DEF SaveDone
<1>4. TypeOK'
    BY <1>2, RelayDbAssumption DEF SaveDone, IInv, TypeOK, Save
<1>5. Len(saves) > 1 => Saving'
    BY <1>2, <1>3 DEF Gone, Saving
<1>6. OwedInv' /\ ClosingInv'
    BY <1>2, <1>3, <1>5 DEF SaveDone, Gone, IInv, OwedInv, Somebody, Pending, ClosingInv
<1> QED BY <1>2, <1>4, <1>6 DEF IInv

LEMMA RequestSaved ==
    ASSUME IInv, SaveDone("request"), holding' = FALSE, saves' = Exported(Tail(saves), mem),
           UNCHANGED <<made, mem, timer, failed, durables, ended, outcome, closing>>
    PROVE  IInv'
<1>1. "request" \in Callers /\ mem' \in SUBSET Changes
    BY Images DEF Callers, IInv
<1>2. /\ SavesInv' /\ DurablesInv' /\ OutcomesInv' /\ Gone
      /\ saves' \in Seq(Save) /\ disk' \subseteq 1..made'
    BY <1>1, Passing DEF SaveDone
<1>3. /\ Saving /\ closing # "closed" /\ Written \subseteq mem
      /\ Len(saves) \in Nat /\ Len(saves) > 0
    BY <1>1, Ending DEF SaveDone
<1>4. TypeOK'
    BY <1>2 DEF SaveDone, IInv, TypeOK, Save
<1>5. Len(saves) > 1 => Saving'
    BY <1>2, <1>3 DEF Gone, Saving
<1>6. OwedInv' /\ ClosingInv'
    BY <1>2, <1>3, <1>5 DEF SaveDone, Gone, IInv, OwedInv, Somebody, Pending, ClosingInv
<1> QED BY <1>2, <1>4, <1>6 DEF IInv

LEMMA CloseSaved ==
    ASSUME IInv, SaveDone("close"), closing' = "drain", saves' = Exported(Tail(saves), mem),
           UNCHANGED <<made, mem, timer, failed, durables, ended, outcome, holding>>
    PROVE  IInv'
<1>1. "close" \in Callers /\ mem' \in SUBSET Changes
    BY Images DEF Callers, IInv
<1>2. /\ SavesInv' /\ DurablesInv' /\ OutcomesInv' /\ Gone
      /\ saves' \in Seq(Save) /\ disk' \subseteq 1..made'
    BY <1>1, Passing DEF SaveDone
<1>3. Saving /\ saves[1].by = "close" /\ Has(saves, "close") /\ host = "desktop"
    BY <1>1, Ending DEF SaveDone
<1>4. closing = "flush" /\ mem \subseteq Written
    BY <1>3 DEF IInv, SavesInv, ClosingInv
<1>5. TypeOK'
    BY <1>2 DEF SaveDone, IInv, TypeOK, Save
<1>6. OwedInv'
    BY <1>2 DEF OwedInv, Somebody
<1>7. ClosingInv'
    BY <1>2, <1>3, <1>4 DEF SaveDone, Gone, IInv, ClosingInv
<1> QED BY <1>2, <1>5, <1>6, <1>7 DEF IInv

LEMMA Operates ==
    ASSUME IInv, SaveDone("durable"), Step = "before", Operate(Tail(saves)),
           UNCHANGED <<failed, holding, closing>>
    PROVE  IInv'
<1>1. /\ made' = made + 1 /\ made' \in Changes /\ made' \in 0..MaxChanges
      /\ made' \notin mem /\ outcome[made'] = None /\ made \in Nat
      /\ 1..made \subseteq 1..made' /\ made' \in 1..made'
      /\ mem \in SUBSET Changes /\ mem \cup {made'} \in SUBSET Changes
    BY NewChange DEF Operate
<1>2. mem' \in SUBSET Changes
    BY <1>1 DEF Operate
<1>3. /\ host = "desktop" /\ Saving /\ saves[1].by = "durable" /\ Pending /\ Written = mem
      /\ closing \in {"no", "wait"} /\ ~Has(saves, "close") /\ SaveEnds("durable")
    BY <1>2, First DEF SaveDone
<1>4. disk' = mem /\ mem \subseteq 1..made'
    BY <1>1, <1>3 DEF SaveDone, IInv, TypeOK
<1>5. \A c \in Changes : OutcomeIs(c) /\ (c > made' => c > made /\ c # made')
    BY <1>1, OneByOne DEF IInv, Changes
<1>6. CASE /\ mem' = mem \cup {made'} /\ timer' = "off"
           /\ durables' = [durables EXCEPT ![1] = [step |-> "after", snapshot |-> mem]]
           /\ saves' = Exported(Append(Tail(saves), [by |-> "durable", image |-> None]), mem')
           /\ UNCHANGED <<ended, outcome>>
  <2> DEFINE d == [step |-> "after", snapshot |-> mem]
  <2>1. d \in Durable /\ d.step = "after" /\ d.snapshot = mem
      BY <1>1 DEF Durable
  <2>2. durables' = [durables EXCEPT ![1] = d]
      BY <1>6
  <2> HIDE DEF d
  <2>3. Replaced(d)
      BY <1>3, <2>1, <2>2, Replacing DEF IInv
  <2>4. Again
      BY <1>2, <1>3, <1>6, SaveAgain DEF IInv
  <2>5. TypeOK'
      BY <1>1, <1>4, <1>6, <2>3, <2>4 DEF SaveDone, Replaced, Again, IInv, TypeOK, Save, Durable
  <2>6. Pending' /\ Step' = "after" /\ durables'[1].snapshot = mem
      BY <2>1, <2>3 DEF Replaced, Pending, Step
  <2>7. SavesInv'
      BY <1>3, <2>4, <2>6 DEF SaveDone, Again, SavesInv
  <2>8. DurablesInv'
    <3>1. ended' + Len(durables') = called'
        BY <1>6, <2>3 DEF SaveDone, Replaced, IInv, DurablesInv
    <3>2. \A k \in DOMAIN durables' : k > 1 \/ host' # "desktop" => durables'[k].step = "called"
      <4>1. DOMAIN durables = 1..Len(durables) /\ Len(durables) \in Nat
          BY <1>3, FirstDurable DEF IInv
      <4> QED BY <1>3, <2>3, <4>1 DEF SaveDone, Replaced, IInv, DurablesInv
    <3>3. Runs(durables[1].snapshot)'
        BY <1>1, <1>6, <2>6 DEF Runs
    <3> QED BY <1>4, <2>4, <2>6, <3>1, <3>2, <3>3 DEF DurablesInv, Again
  <2>9. ASSUME NEW c \in Changes PROVE OutcomeIs(c)'
      BY <1>1, <1>3, <1>4, <1>5, <1>6, <2>4, RelayDbAssumption DEF Again, OutcomeIs
  <2>10. OutcomesInv'
      BY <2>9 DEF OutcomesInv, OutcomeIs
  <2>11. OwedInv' /\ ClosingInv'
      BY <1>3, <2>4, <2>6 DEF SaveDone, Again, OwedInv, ClosingInv
  <2> QED BY <2>5, <2>7, <2>8, <2>10, <2>11 DEF IInv
<1>7. CASE /\ durables' = Tail(durables) /\ ended' = ended + 1 /\ timer' = "off"
           /\ saves' = Exported(Tail(saves), mem)
           /\ outcome' = [outcome EXCEPT ![made'] = "failed"] /\ UNCHANGED mem
  <2>1. /\ SavesInv' /\ DurablesInv' /\ ClosingInv' /\ Gone
        /\ saves' \in Seq(Save) /\ durables' \in Seq(Durable) /\ ended' \in 0..called'
      BY <1>2, <1>3, <1>7, FirstIsOver DEF SaveDone, Leaves
  <2>2. Told(made', "failed")
      BY <1>1, <1>7, Telling DEF IInv
  <2>3. TypeOK'
      BY <1>1, <1>4, <1>7, <2>1, <2>2 DEF Told, SaveDone, IInv, TypeOK, Save, Durable
  <2>4. ASSUME NEW c \in Changes PROVE OutcomeIs(c)'
      BY <1>1, <1>3, <1>4, <1>5, <1>7, <2>1, <2>2, RelayDbAssumption DEF Told, Gone, OutcomeIs
  <2>5. OutcomesInv'
      BY <2>4 DEF OutcomesInv, OutcomeIs
  <2>6. OwedInv'
      BY <1>4, <1>7, <2>1 DEF Gone, OwedInv
  <2> QED BY <2>1, <2>3, <2>5, <2>6 DEF IInv
<1> QED BY <1>6, <1>7 DEF Operate

LEMMA OperationSaved ==
    ASSUME IInv, SaveDone("durable"), Step = "after", Leaves,
           outcome' = [outcome EXCEPT ![Own] = "done"], saves' = Exported(Tail(saves), mem),
           UNCHANGED <<made, mem, timer, failed, holding, closing>>
    PROVE  IInv'
<1>1. mem' \in SUBSET Changes /\ SaveEnds("durable")
    BY Images DEF SaveDone, IInv
<1>2. Saving /\ Pending /\ Written = mem
    BY <1>1, First
<1>3. Own \in Changes /\ outcome[Own] = None /\ Own \in mem
    BY <1>2, OwnIs
<1>4. /\ SavesInv' /\ DurablesInv' /\ ClosingInv' /\ Gone
      /\ saves' \in Seq(Save) /\ durables' \in Seq(Durable) /\ ended' \in 0..called'
    BY <1>1, FirstIsOver DEF SaveDone
<1>5. Told(Own, "done")
    BY <1>3, Telling DEF IInv
<1>6. disk' = mem
    BY <1>2 DEF SaveDone
<1>7. TypeOK'
    BY <1>4, <1>5, <1>6 DEF Told, SaveDone, Leaves, IInv, TypeOK, Save, Durable
<1>8. ASSUME NEW c \in Changes PROVE OutcomeIs(c)'
  <2>1. OutcomeIs(c)
      BY OneByOne DEF IInv
  <2>2. Own \in 1..made /\ ~(Own > made)
      BY <1>3 DEF IInv, TypeOK
  <2> QED BY <1>2, <1>3, <1>4, <1>5, <1>6, <2>1, <2>2, RelayDbAssumption DEF Told, Gone, OutcomeIs
<1>9. OutcomesInv'
    BY <1>8 DEF OutcomesInv, OutcomeIs
<1>10. OwedInv'
    BY <1>4, <1>6 DEF Gone, OwedInv
<1> QED BY <1>4, <1>7, <1>9, <1>10 DEF IInv

LEMMA SaveSucceedsStep ==
    ASSUME IInv, SaveSucceeds
    PROVE  IInv'
<1>1. PICK caller \in Callers : SaveEnds(caller)
    BY DEF SaveSucceeds
<1>2. saves[1].by = caller /\ SaveDone(caller) /\ Has(saves, caller)
  <2>1. Has(saves, saves[1].by)
      BY <1>1, FirstSave DEF IInv, SaveEnds, Saving
  <2> QED BY <1>1, <2>1 DEF SaveSucceeds, SaveDone, SaveEnds, Written
<1>3. CASE caller = "timer"
    BY <1>2, <1>3, TimerSaved DEF SaveSucceeds
<1>4. CASE caller = "request"
    BY <1>2, <1>4, RequestSaved DEF SaveSucceeds
<1>5. CASE caller = "close"
    BY <1>2, <1>5, CloseSaved DEF SaveSucceeds
<1>6. CASE caller = "durable"
  <2>1. Step \in {"before", "after"}
    <3>1. Pending /\ Step # "called"
        BY <1>2, <1>6 DEF IInv, SavesInv
    <3> QED BY <3>1, FirstDurable DEF IInv
  <2>2. CASE Step = "before"
      BY <1>2, <1>6, <2>2, Operates DEF SaveSucceeds, Step
  <2>3. CASE Step = "after"
      BY <1>2, <1>6, <2>3, OperationSaved DEF SaveSucceeds, SaveDone, Step, Leaves
  <2> QED BY <2>1, <2>2, <2>3
<1> QED BY <1>3, <1>4, <1>5, <1>6 DEF Callers

-----------------------------------------------------------------------------
(* The promises.                                                           *)

LEMMA InitIInv == Init => IInv
<1> SUFFICES ASSUME Init PROVE IInv
    OBVIOUS
<1>1. TypeOK
  <2>1. /\ <<>> \in Seq([by: Callers, image: (SUBSET Changes) \cup {None}])
        /\ <<>> \in Seq([step: {"called", "before", "after"}, snapshot: SUBSET Changes])
        /\ <<>> \in Seq(0..MaxDurables)
      OBVIOUS
  <2>2. outcome \in [Changes -> {None, "done", "failed"}]
      BY DEF Init
  <2>3. made = 0 /\ 0 \in 0..MaxChanges /\ 0 \in 0..MaxRetries /\ 0 \in 0..MaxDurables
        /\ 0 \in 0..MaxRequests /\ ended = 0 /\ called = 0 /\ 0 \in 0..0
      BY RelayDbAssumption DEF Init
  <2> QED BY <2>1, <2>2, <2>3 DEF Init, TypeOK
<1>2. SavesInv
    BY DEF Init, SavesInv, Saving, Shape, Once, Has
<1>3. DurablesInv
    BY DEF Init, DurablesInv, Pending
<1>4. OutcomesInv
    BY RelayDbAssumption DEF Init, OutcomesInv
<1>5. OwedInv /\ ClosingInv
    BY DEF Init, OwedInv, ClosingInv, Saving
<1> QED BY <1>1, <1>2, <1>3, <1>4, <1>5 DEF IInv

LEMMA UnchangedIInv ==
    ASSUME IInv, UNCHANGED vars
    PROVE  IInv'
<1>1. TypeOK'
    BY DEF IInv, TypeOK, vars
<1>2. SavesInv' /\ OutcomesInv' /\ DurablesInv'
    BY StillSaves, StillDurables DEF vars, Still
<1>3. OwedInv' /\ ClosingInv'
    BY DEF vars, IInv, OwedInv, Somebody, ClosingInv, Saving, Written, Pending
<1> QED BY <1>1, <1>2, <1>3 DEF IInv

\* The invariant holds whatever comes between the steps of a save.
THEOREM Invariance == Spec => []IInv
<1>1. IInv /\ [Next]_vars => IInv'
  <2> SUFFICES ASSUME IInv, [Next]_vars PROVE IInv'
      OBVIOUS
  <2>1. CASE Mutate BY <2>1, MutateStep
  <2>2. CASE TimerFires BY <2>2, TimerFiresStep
  <2>3. CASE StandaloneTimer BY <2>3, StandaloneTimerStep
  <2>4. CASE CallDurable BY <2>4, CallDurableStep
  <2>5. CASE StandaloneDurable BY <2>5, StandaloneDurableStep
  <2>6. CASE DurableStarts BY <2>6, DurableStartsStep
  <2>7. CASE SaveSucceeds BY <2>7, SaveSucceedsStep
  <2>8. CASE TimerSaveFails BY <2>8, TimerSaveFailsStep
  <2>9. CASE FirstSaveFails BY <2>9, FirstSaveFailsStep
  <2>10. CASE SecondSaveFails BY <2>10, SecondSaveFailsStep
  <2>11. CASE OtherSaveFails BY <2>11, OtherSaveFailsStep
  <2>12. CASE AskAccess BY <2>12, AskAccessStep
  <2>13. CASE AccessLooksAgain BY <2>13, AccessLooksAgainStep
  <2>14. CASE AccessStarts BY <2>14, AccessStartsStep
  <2>15. CASE AccessEnds BY <2>15, AccessEndsStep
  <2>16. CASE Close BY <2>16, CloseStep
  <2>17. CASE CloseSaves BY <2>17, CloseSavesStep
  <2>18. CASE CloseEnds BY <2>18, CloseEndsStep
  <2>19. CASE Crash BY <2>19, CrashStep
  <2>20. CASE UNCHANGED vars BY <2>20, UnchangedIInv
  <2> QED BY <2>1, <2>2, <2>3, <2>4, <2>5, <2>6, <2>7, <2>8, <2>9, <2>10, <2>11, <2>12, <2>13,
             <2>14, <2>15, <2>16, <2>17, <2>18, <2>19, <2>20 DEF Next
<1> QED BY <1>1, InitIInv, PTL DEF Spec

LEMMA IInvKeeps ==
    ASSUME IInv
    PROVE  TypeOK /\ DurableOutcomes /\ UnsavedIsOwed /\ ClosedIsSaved
<1>1. DurableOutcomes
    BY Images DEF IInv, OutcomesInv, DurableOutcomes
<1>2. UnsavedIsOwed /\ ClosedIsSaved
    BY DEF IInv, OwedInv, Somebody, Saving, Pending, UnsavedIsOwed, ClosingInv, ClosedIsSaved
<1> QED BY <1>1, <1>2 DEF IInv

\* What leaves the file had been undone: the save under way holds the rest.
LEMMA FileKeeps ==
    ASSUME IInv, [Next]_vars
    PROVE  [\A c \in disk \ disk' : outcome'[c] = "failed"]_vars
<1> SUFFICES ASSUME NEW c \in disk, c \notin disk' PROVE outcome'[c] = "failed"
    BY DEF vars
<1>1. c \in Changes /\ OutcomeIs(c) /\ mem \in SUBSET Changes
    BY Images, OneByOne DEF IInv
<1>2. CASE SaveSucceeds
  <2>1. disk' = Written /\ Saving
      BY <1>2 DEF SaveSucceeds, SaveEnds, Saving, Written
  <2>2. outcome[c] = "failed" /\ outcome[c] # None
      BY <1>1, <2>1, RelayDbAssumption DEF OutcomeIs
  <2>3. outcome' = outcome \/ \E x \in Changes : outcome[x] = None /\ \E t \in {"done", "failed"} :
            outcome' = [outcome EXCEPT ![x] = t]
    <3>1. CASE saves[1].by = "durable" /\ Step = "before"
      <4>1. Operate(Tail(saves))
          BY <1>2, <3>1 DEF SaveSucceeds, Step
      <4>2. made' \in Changes /\ outcome[made'] = None
          BY <4>1, NewChange DEF Operate
      <4> QED BY <4>1, <4>2 DEF Operate
    <3>2. CASE saves[1].by = "durable" /\ Step = "after"
      <4>1. Pending
          BY <2>1, <3>2, FirstSave DEF IInv, SavesInv
      <4>2. Own \in Changes /\ outcome[Own] = None
          BY <3>2, <4>1, OwnIs
      <4>3. outcome' = [outcome EXCEPT ![Own] = "done"]
          BY <1>2, <3>2 DEF SaveSucceeds, Step
      <4> QED BY <4>2, <4>3
    <3>3. CASE ~(saves[1].by = "durable" /\ Step \in {"before", "after"})
      <4>1. outcome' = outcome
          BY <1>2, <3>3 DEF SaveSucceeds, Step
      <4> QED BY <4>1
    <3> QED BY <3>1, <3>2, <3>3
  <2> QED BY <1>1, <2>2, <2>3 DEF IInv, TypeOK
<1>3. CASE StandaloneTimer \/ StandaloneDurable \/ AccessStarts
  <2>1. ~Saving => c \in mem \/ outcome[c] = "failed"
      BY <1>1 DEF OutcomeIs
  <2>2. CASE StandaloneTimer
      BY <2>1, <2>2 DEF StandaloneTimer, Desktop, IInv, SavesInv
  <2>3. CASE AccessStarts
      BY <2>1, <2>3 DEF AccessStarts, Desktop, IInv, SavesInv
  <2>4. CASE StandaloneDurable
    <3>1. ~Saving /\ made' \in Changes /\ outcome[made'] = None
        BY <2>4, NewChange DEF StandaloneDurable, Desktop, IInv, SavesInv
    <3>2. c \notin mem
        BY <2>4 DEF StandaloneDurable
    <3>3. outcome[c] = "failed" /\ c # made'
        BY <2>1, <3>1, <3>2, RelayDbAssumption
    <3>4. PICK t \in {"done", "failed"} : outcome' = [outcome EXCEPT ![made'] = t]
        BY <2>4 DEF StandaloneDurable
    <3> QED BY <1>1, <3>1, <3>3, <3>4 DEF IInv, TypeOK
  <2> QED BY <1>3, <2>2, <2>3, <2>4
<1>4. CASE ~(SaveSucceeds \/ StandaloneTimer \/ StandaloneDurable \/ AccessStarts)
    BY <1>4 DEF Next, vars, Mutate, TimerFires, CallDurable, DurableStarts, TimerSaveFails,
                FirstSaveFails, SecondSaveFails, OtherSaveFails, AskAccess, AccessLooksAgain,
                AccessEnds, Close, CloseSaves, CloseEnds, Crash
<1> QED BY <1>2, <1>3, <1>4

\* What the caller of a durable operation was told is so, before and after any crash;
\* what is not in the file has somebody to save it; once closed all is in the file; and
\* the file never goes back to an older image.
THEOREM PromisesKept == Spec => PromisesAreKept
<1>1. IInv => TypeOK /\ DurableOutcomes /\ UnsavedIsOwed /\ ClosedIsSaved
    BY IInvKeeps
<1>2. IInv /\ [Next]_vars => [\A c \in disk \ disk' : outcome'[c] = "failed"]_vars
    BY FileKeeps
<1> QED BY <1>1, <1>2, Invariance, PTL DEF Spec, PromisesAreKept, FileNeverGoesBack

-----------------------------------------------------------------------------
(* Connection. *)


-----------------------------------------------------------------------------
(* The socket all of this runs over: why only one is alive.                *)

Ws == [st : {None, "connecting", "open"}, acked : BOOLEAN,
       msg : {None, "hello_ok", "hello_error", "revoked", "close_4001"},
       mute : BOOLEAN, token : 0 .. 2]
Sock == [closed : BOOLEAN, step : {None, "probe", "decide"}, ws : Ws, timer : BOOLEAN,
         handling : BOOLEAN, state : {"offline", "connecting", "connected"}]

\* A socket waits for one thing at a time, a closed one for nothing, and one that has
\* said hello does not call itself offline: what disconnectSyncSocket looks at.
SockOK(k) ==
    /\ k.closed => k.ws = Live!NoWs /\ ~k.timer /\ k.step = None
    /\ k.timer \/ k.step # None => k.ws = Live!NoWs
    /\ k.timer => k.step = None
    /\ k.ws.acked => k.state # "offline"

\* A generation has one call, which makes its socket after the old one is gone.
CallsOK ==
    /\ main.gen \in Nat
    /\ \A c \in calls : c.gen \in Nat /\ c.gen <= main.gen
    /\ \A c, d \in calls : c.gen = d.gen => c = d
    /\ \A c \in calls : c.at = "scanning" /\ c.gen = main.gen => main.sync = None

SocksOK ==
    /\ sock \in [Socks -> Sock]
    /\ \A s \in Socks : SockOK(sock[s])
    /\ \A s \in Socks : s # main.sync => sock[s].closed

\* None is none of the things it stands beside.
Apart == None \notin Socks \cup {"probe", "decide", "connecting", "open", "hello_ok", "close_4001"}

LiveInv ==
    /\ Apart
    /\ main.sync \in Socks \cup {None} /\ waits \in Socks \cup {None}
    /\ main \in [sync : Socks \cup {None}, gen : Nat, manager : Nat, failed : BOOLEAN]
    /\ saved \in [token : 1 .. 2, active : BOOLEAN]
    /\ calls \subseteq [gen : Nat, at : {"retiring", "scanning"}, active : BOOLEAN,
                        keep : BOOLEAN, old : Nat]
    /\ CallsOK /\ SocksOK /\ Live!WaitersAreTold

LEMMA SockTypes ==
    /\ Live!NoWs \in Ws /\ ~Live!NoWs.acked /\ Live!NoWs.st = None
    /\ Live!NoSock \in Sock /\ SockOK(Live!NoSock) /\ Live!NoSock.closed /\ Live!NoSock.ws = Live!NoWs
<1>1. Live!NoWs \in Ws /\ ~Live!NoWs.acked /\ Live!NoWs.st = None
    BY DEF Live!NoWs, Ws
<1>2. Live!NoSock \in Sock /\ SockOK(Live!NoSock) /\ Live!NoSock.closed /\ Live!NoSock.ws = Live!NoWs
    BY <1>1 DEF Live!NoSock, Sock, SockOK
<1> QED BY <1>1, <1>2

\* One socket takes a step, all else but the relay and what is saved rests.
SockChanges(s, k) ==
    /\ s \in Socks /\ k \in Sock /\ SockOK(k)
    /\ sock' = [sock EXCEPT ![s] = k]
    /\ k.closed \/ ~sock[s].closed
    /\ \/ waits' = None
       \/ waits' = waits /\ (~sock[s].closed /\ sock[s].ws.acked => k.ws.acked /\ ~k.closed)
    /\ UNCHANGED <<main, calls>>
    /\ saved' \in [token : 1 .. 2, active : BOOLEAN]

LEMMA SockChangeKeeps ==
    ASSUME LiveInv, NEW s, NEW k, SockChanges(s, k)
    PROVE  LiveInv'
<1>1. /\ s \in Socks /\ k \in Sock /\ SockOK(k)
      /\ sock' = [sock EXCEPT ![s] = k] /\ UNCHANGED <<main, calls>>
      /\ sock \in [Socks -> Sock]
    BY DEF SockChanges, LiveInv, SocksOK
<1>2. sock' \in [Socks -> Sock]
    BY <1>1
<1>3. \A t \in Socks : sock'[t] = IF t = s THEN k ELSE sock[t]
    BY <1>1
<1>4. \A t \in Socks : SockOK(sock'[t]) /\ (t # main.sync => sock'[t].closed)
    BY <1>1, <1>3 DEF SockChanges, LiveInv, SocksOK
<1>5. Live!WaitersAreTold' /\ waits' \in Socks \cup {None}
    BY <1>3 DEF SockChanges, LiveInv, Live!WaitersAreTold
<1>6. SocksOK'
    BY <1>1, <1>2, <1>4 DEF SocksOK, SockOK
<1>7. CallsOK'
    BY <1>1 DEF LiveInv, CallsOK
<1> QED BY <1>1, <1>5, <1>6, <1>7 DEF LiveInv, SockChanges

\* A record that is a socket's, field by field.
LEMMA SockFields ==
    ASSUME LiveInv, NEW s \in Socks
    PROVE  /\ sock \in [Socks -> Sock] /\ sock[s] \in Sock /\ SockOK(sock[s])
           /\ sock[s].ws \in Ws
           /\ saved \in [token : 1 .. 2, active : BOOLEAN]
BY DEF LiveInv, SocksOK, Sock

LEMMA ProbeOkKeeps ==
    ASSUME LiveInv, NEW s \in Socks, Live!ProbeOk(s)
    PROVE  LiveInv'
<1> DEFINE w == [Live!NoWs EXCEPT !.st = "connecting"]
           k == [sock[s] EXCEPT !.step = None, !.ws = w]
<1>1. /\ ~sock[s].closed /\ sock[s].step = "probe"
      /\ sock' = [sock EXCEPT ![s].step = None, ![s].ws = w]
      /\ UNCHANGED <<saved, main, calls, waits>>
    BY DEF Live!ProbeOk, Live!Current
<1>2. w \in Ws /\ ~w.acked
    BY SockTypes DEF Ws, Live!NoWs
<1> HIDE DEF w
<1>3. /\ k \in Sock /\ k.step = None /\ k.ws = w /\ k.timer = sock[s].timer
      /\ k.closed = sock[s].closed
    BY <1>2, SockFields DEF Sock
<1>4. sock' = [sock EXCEPT ![s] = k]
    BY <1>1, SockFields
<1> HIDE DEF k
<1>5. SockChanges(s, k)
    BY <1>1, <1>2, <1>3, <1>4, SockFields, SockTypes DEF SockChanges, SockOK, LiveInv, Apart
<1> QED BY <1>5, SockChangeKeeps

\* What comes of a failed probe or of the classifier: tried again at once, later, or
\* not at all.
LEMMA Prospects ==
    ASSUME Apart, NEW k \in Sock, k.step = None, k.ws = Live!NoWs, ~k.timer, ~k.closed
    PROVE  /\ Live!Opened(k) \in Sock /\ SockOK(Live!Opened(k)) /\ ~Live!Opened(k).closed
           /\ Live!Scheduled(k) \in Sock /\ SockOK(Live!Scheduled(k)) /\ ~Live!Scheduled(k).closed
           /\ Live!Stopped(k) \in Sock /\ SockOK(Live!Stopped(k)) /\ Live!Stopped(k).closed
<1>1. Live!Opened(k) \in Sock /\ SockOK(Live!Opened(k)) /\ ~Live!Opened(k).closed
    BY SockTypes DEF Live!Opened, Sock, SockOK
<1>2. Live!Scheduled(k) \in Sock /\ SockOK(Live!Scheduled(k)) /\ ~Live!Scheduled(k).closed
    BY SockTypes DEF Live!Scheduled, Sock, SockOK
<1>3. Live!Stopped(k) \in Sock /\ SockOK(Live!Stopped(k)) /\ Live!Stopped(k).closed
    BY SockTypes DEF Live!Stopped, Sock, SockOK
<1> QED BY <1>1, <1>2, <1>3

LEMMA DecidedKeeps ==
    ASSUME LiveInv, NEW s \in Socks, NEW k \in Sock, Live!Decided(s, k),
           ~sock[s].closed, ~sock[s].ws.acked,
           k.step = None, k.ws = Live!NoWs, ~k.timer, ~k.closed,
           UNCHANGED <<saved, main, calls>>
    PROVE  LiveInv'
<1>1. Apart
    BY DEF LiveInv
<1>2. CASE sock' = [sock EXCEPT ![s] = Live!Opened(k)] /\ waits' = waits
    <2>1. SockChanges(s, Live!Opened(k))
        BY <1>1, <1>2, Prospects, SockFields DEF SockChanges
    <2> QED BY <2>1, SockChangeKeeps
<1>3. CASE sock' = [sock EXCEPT ![s] = Live!Scheduled(k)] /\ waits' = waits
    <2>1. SockChanges(s, Live!Scheduled(k))
        BY <1>1, <1>3, Prospects, SockFields DEF SockChanges
    <2> QED BY <2>1, SockChangeKeeps
<1>4. CASE sock' = [sock EXCEPT ![s] = Live!Stopped(k)] /\ waits' = None
    <2>1. SockChanges(s, Live!Stopped(k))
        BY <1>1, <1>4, Prospects, SockFields DEF SockChanges
    <2> QED BY <2>1, SockChangeKeeps
<1> QED BY <1>2, <1>3, <1>4 DEF Live!Decided, Live!Told

\* While a socket probes or decides, or its timer runs, there is no WebSocket.
LEMMA Waiting ==
    ASSUME LiveInv, NEW s \in Socks, sock[s].step \in {"probe", "decide"} \/ sock[s].timer
    PROVE  /\ sock[s].ws = Live!NoWs /\ ~sock[s].ws.acked /\ ~sock[s].closed
           /\ sock[s].step # None => ~sock[s].timer
BY SockFields, SockTypes DEF SockOK, LiveInv, Apart

LEMMA ProbeFailsKeeps ==
    ASSUME LiveInv, NEW s \in Socks, Live!ProbeFails(s)
    PROVE  LiveInv'
<1>1. sock[s].step = "probe" /\ UNCHANGED <<saved, main, calls, waits>>
    BY DEF Live!ProbeFails
<1>2. /\ sock[s].ws = Live!NoWs /\ ~sock[s].ws.acked /\ ~sock[s].closed /\ ~sock[s].timer
      /\ Apart
    BY <1>1, Waiting DEF LiveInv, Apart
<1>3. CASE sock' = [sock EXCEPT ![s].step = "decide"]
    <2> DEFINE k == [sock[s] EXCEPT !.step = "decide"]
    <2>1. k \in Sock /\ SockOK(k) /\ ~k.closed
        BY <1>2, SockFields, SockTypes DEF Sock, SockOK
    <2>2. sock' = [sock EXCEPT ![s] = k]
        BY <1>3, SockFields
    <2> HIDE DEF k
    <2>3. SockChanges(s, k)
        BY <1>1, <1>2, <2>1, <2>2, SockFields DEF SockChanges
    <2> QED BY <2>3, SockChangeKeeps
<1>4. CASE sock' = [sock EXCEPT ![s] = Live!Scheduled([@ EXCEPT !.step = None])]
    <2> DEFINE k == [sock[s] EXCEPT !.step = None]
    <2>1. k \in Sock /\ k.step = None /\ k.ws = Live!NoWs /\ ~k.timer /\ ~k.closed
        BY <1>2, SockFields DEF Sock
    <2>2. sock' = [sock EXCEPT ![s] = Live!Scheduled(k)]
        BY <1>4
    <2> HIDE DEF k
    <2>3. SockChanges(s, Live!Scheduled(k))
        BY <1>1, <1>2, <2>1, <2>2, SockFields, Prospects DEF SockChanges
    <2> QED BY <2>3, SockChangeKeeps
<1> QED BY <1>3, <1>4 DEF Live!ProbeFails

LEMMA DecideKeeps ==
    ASSUME LiveInv, NEW s \in Socks, Live!Decide(s)
    PROVE  LiveInv'
<1> DEFINE k == [sock[s] EXCEPT !.step = None]
<1>1. sock[s].step = "decide" /\ Live!Decided(s, k) /\ UNCHANGED <<saved, main, calls>>
    BY DEF Live!Decide
<1>2. /\ sock[s].ws = Live!NoWs /\ ~sock[s].ws.acked /\ ~sock[s].closed /\ ~sock[s].timer
    BY <1>1, Waiting DEF LiveInv, Apart
<1>3. k \in Sock /\ k.step = None /\ k.ws = Live!NoWs /\ ~k.timer /\ ~k.closed
    BY <1>2, SockFields DEF Sock
<1> HIDE DEF k
<1> QED BY <1>1, <1>2, <1>3, DecidedKeeps

LEMMA ReconnectTimerKeeps ==
    ASSUME LiveInv, NEW s \in Socks, Live!TimerFires(s)
    PROVE  LiveInv'
<1> DEFINE k == [sock[s] EXCEPT !.timer = FALSE]
<1>1. sock[s].timer /\ sock' = [sock EXCEPT ![s] = Live!Opened(k)]
      /\ UNCHANGED <<saved, main, calls, waits>>
    BY DEF Live!TimerFires
<1>2. sock[s].ws = Live!NoWs /\ ~sock[s].ws.acked /\ ~sock[s].closed /\ sock[s].step = None
    BY <1>1, Waiting, SockFields DEF SockOK
<1>3. k \in Sock /\ k.step = None /\ k.ws = Live!NoWs /\ ~k.timer /\ ~k.closed
    BY <1>2, SockFields DEF Sock
<1> HIDE DEF k
<1>4. SockChanges(s, Live!Opened(k))
    BY <1>1, <1>2, <1>3, SockFields, Prospects DEF SockChanges, LiveInv
<1> QED BY <1>4, SockChangeKeeps

\* A WebSocket that is there goes on: nothing else is under way for its socket.
LEMMA WsGoesOn ==
    ASSUME LiveInv, NEW s \in Socks, NEW w \in Ws, NEW k, ~sock[s].closed, sock[s].ws # Live!NoWs,
           k = [sock[s] EXCEPT !.ws = w] \/ k = [sock[s] EXCEPT !.ws = w, !.state = "connected"],
           w.acked => k.state # "offline",
           sock[s].ws.acked => w.acked,
           sock' = [sock EXCEPT ![s] = k],
           UNCHANGED <<saved, main, calls, waits>>
    PROVE  LiveInv'
<1>1. ~sock[s].timer /\ sock[s].step = None /\ Apart
    BY SockFields DEF SockOK, LiveInv
<1>2. /\ k \in Sock /\ k.ws = w /\ ~k.timer /\ k.step = None /\ ~k.closed
    BY <1>1, SockFields DEF Sock
<1>3. SockChanges(s, k)
    BY <1>2, SockFields DEF SockChanges, SockOK
<1> QED BY <1>3, SockChangeKeeps

LEMMA WsOpensKeeps ==
    ASSUME LiveInv, NEW s \in Socks, Live!WsOpens(s)
    PROVE  LiveInv'
<1> DEFINE w == [sock[s].ws EXCEPT !.st = "open", !.token = saved.token]
           k == [sock[s] EXCEPT !.ws = w]
<1>1. /\ ~sock[s].closed /\ sock[s].ws.st = "connecting" /\ UNCHANGED <<saved, main, calls, waits>>
      /\ sock' = [sock EXCEPT ![s].ws.st = "open", ![s].ws.token = saved.token]
    BY DEF Live!WsOpens, Live!Current
<1>2. sock' = [sock EXCEPT ![s] = k]
    BY <1>1, SockFields DEF Sock, Ws
<1>3. saved.token \in 0 .. 2
    BY SockFields
<1>4. w \in Ws /\ (w.acked => sock[s].ws.acked) /\ (sock[s].ws.acked => w.acked)
    BY <1>3, SockFields DEF Ws
<1>5. k.state = sock[s].state
    BY SockFields DEF Sock
<1>6. sock[s].ws # Live!NoWs
    BY <1>1, SockTypes DEF LiveInv, Apart
<1>7. w.acked => k.state # "offline"
    BY <1>4, <1>5, SockFields DEF SockOK
<1>8. k = [sock[s] EXCEPT !.ws = w]
    OBVIOUS
<1> HIDE DEF w, k
<1> QED BY <1>1, <1>2, <1>4, <1>6, <1>7, <1>8, WsGoesOn

LEMMA HelloAnsweredKeeps ==
    ASSUME LiveInv, NEW s \in Socks, Live!HelloAnswered(s)
    PROVE  LiveInv'
<1> DEFINE w == [sock[s].ws EXCEPT !.msg = IF Live!Accepted(sock[s].ws.token) THEN "hello_ok" ELSE "hello_error"]
           k == [sock[s] EXCEPT !.ws = w]
<1>1. /\ ~sock[s].closed /\ sock[s].ws.st = "open" /\ UNCHANGED <<saved, main, calls, waits>>
      /\ sock' = [sock EXCEPT ![s].ws.msg = IF Live!Accepted(sock[s].ws.token) THEN "hello_ok" ELSE "hello_error"]
    BY DEF Live!HelloAnswered, Live!Current
<1>2. sock' = [sock EXCEPT ![s] = k]
    BY <1>1, SockFields DEF Sock, Ws
<1>3. w \in Ws /\ (sock[s].ws.acked => w.acked) /\ (w.acked => sock[s].ws.acked)
    BY <1>1, SockFields DEF Ws
<1>4. w.acked => k.state # "offline"
    BY <1>3, SockFields DEF Sock, SockOK
<1>5. sock[s].ws # Live!NoWs
    BY <1>1, SockTypes DEF LiveInv, Apart, Live!NoWs
<1>6. k = [sock[s] EXCEPT !.ws = w]
    OBVIOUS
<1> HIDE DEF w, k
<1> QED BY <1>1, <1>2, <1>3, <1>4, <1>5, <1>6, WsGoesOn

LEMMA HelloSwallowedKeeps ==
    ASSUME LiveInv, NEW s \in Socks, Live!HelloSwallowed(s)
    PROVE  LiveInv'
<1> DEFINE w == [sock[s].ws EXCEPT !.mute = TRUE]
           k == [sock[s] EXCEPT !.ws = w]
<1>1. /\ ~sock[s].closed /\ sock[s].ws.st = "open" /\ UNCHANGED <<saved, main, calls, waits>>
      /\ sock' = [sock EXCEPT ![s].ws.mute = TRUE]
    BY DEF Live!HelloSwallowed, Live!Current
<1>2. sock' = [sock EXCEPT ![s] = k]
    BY <1>1, SockFields DEF Sock, Ws
<1>3. w \in Ws /\ (sock[s].ws.acked => w.acked) /\ (w.acked => sock[s].ws.acked)
    BY <1>1, SockFields DEF Ws
<1>4. w.acked => k.state # "offline"
    BY <1>3, SockFields DEF Sock, SockOK
<1>5. sock[s].ws # Live!NoWs
    BY <1>1, SockTypes DEF LiveInv, Apart, Live!NoWs
<1>6. k = [sock[s] EXCEPT !.ws = w]
    OBVIOUS
<1> HIDE DEF w, k
<1> QED BY <1>1, <1>2, <1>3, <1>4, <1>5, <1>6, WsGoesOn

LEMMA HelloOkKeeps ==
    ASSUME LiveInv, NEW s \in Socks, Live!HelloOk(s)
    PROVE  LiveInv'
<1> DEFINE w == [sock[s].ws EXCEPT !.acked = TRUE, !.msg = None]
           k == [sock[s] EXCEPT !.ws = w, !.state = "connected"]
<1>1. /\ ~sock[s].closed /\ sock[s].ws.msg = "hello_ok" /\ UNCHANGED <<saved, main, calls, waits>>
      /\ sock' = [sock EXCEPT ![s].ws.acked = TRUE, ![s].ws.msg = None, ![s].state = "connected"]
    BY DEF Live!HelloOk, Live!Current
<1>2. sock' = [sock EXCEPT ![s] = k]
    BY ZenonT(40), <1>1, SockFields DEF Sock, Ws
<1>3. w \in Ws /\ (sock[s].ws.acked => w.acked)
    BY <1>1, SockFields DEF Ws
<1>4. w.acked => k.state # "offline"
    BY <1>3, SockFields DEF Sock, SockOK
<1>5. sock[s].ws # Live!NoWs
    BY <1>1, SockTypes DEF LiveInv, Apart, Live!NoWs
<1>6. k = [sock[s] EXCEPT !.ws = w, !.state = "connected"]
    OBVIOUS
<1> HIDE DEF w, k
<1> QED BY <1>1, <1>2, <1>3, <1>4, <1>5, <1>6, WsGoesOn

\* A WebSocket that is gone, or is given up, tells every request that waits.
LEMMA TellsKeep ==
    ASSUME LiveInv, NEW s \in Socks, NEW k \in Sock, SockOK(k), ~sock[s].closed,
           sock' = [sock EXCEPT ![s] = k], waits' = None,
           UNCHANGED <<main, calls>>, saved' \in [token : 1 .. 2, active : BOOLEAN]
    PROVE  LiveInv'
<1>1. SockChanges(s, k)
    BY DEF SockChanges
<1> QED BY <1>1, SockChangeKeeps

LEMMA DisconnectedOK ==
    ASSUME NEW k \in Sock
    PROVE  Live!Disconnected(k) \in Sock /\ SockOK(Live!Disconnected(k)) /\ Live!Disconnected(k).closed
BY SockTypes DEF Live!Disconnected, Sock, SockOK, Live!NoSock

LEMMA GivenUpKeeps ==
    ASSUME LiveInv, NEW s \in Socks, Live!GivenUp(s)
    PROVE  LiveInv'
<1>1. /\ ~sock[s].closed /\ waits' = None /\ UNCHANGED <<main, calls>>
      /\ sock' = [sock EXCEPT ![s] = Live!Disconnected(sock[s])]
      /\ saved' = [saved EXCEPT !.active = FALSE]
    BY DEF Live!GivenUp, Live!Current, Live!Told
<1>2. saved' \in [token : 1 .. 2, active : BOOLEAN]
    BY <1>1, SockFields
<1>3. Live!Disconnected(sock[s]) \in Sock /\ SockOK(Live!Disconnected(sock[s]))
    BY SockFields, DisconnectedOK
<1> QED BY <1>1, <1>2, <1>3, TellsKeep

LEMMA AfterCloseOK ==
    ASSUME LiveInv, NEW s \in Socks, NEW code, ~sock[s].closed, sock[s].ws # Live!NoWs
    PROVE  Live!AfterClose(sock[s], code) \in Sock /\ SockOK(Live!AfterClose(sock[s], code))
<1>1. sock[s] \in Sock /\ ~sock[s].timer /\ sock[s].step = None
    BY SockFields DEF SockOK
<1>2. CASE code = "rotated"
    BY <1>1, <1>2, SockTypes DEF Live!AfterClose, Sock, SockOK
<1>3. CASE code # "rotated"
    <2> DEFINE k == [sock[s] EXCEPT !.ws = Live!NoWs, !.state = "connecting"]
    <2>1. k \in Sock /\ k.ws = Live!NoWs /\ ~k.closed /\ k.step = None
        BY <1>1, SockTypes DEF Sock
    <2>2. Live!AfterClose(sock[s], code) = [k EXCEPT !.timer = TRUE]
        BY <1>3 DEF Live!AfterClose, Live!Scheduled
    <2> HIDE DEF k
    <2> QED BY <2>1, <2>2, SockTypes DEF Sock, SockOK
<1> QED BY <1>2, <1>3

LEMMA ClosesKeeps ==
    ASSUME LiveInv, NEW s \in Socks, NEW code, ~sock[s].closed, sock[s].ws # Live!NoWs, Live!Closes(s, code)
    PROVE  LiveInv'
<1>1. /\ sock' = [sock EXCEPT ![s] = Live!AfterClose(sock[s], code)] /\ waits' = None
      /\ UNCHANGED <<saved, main, calls>>
    BY DEF Live!Closes, Live!Told
<1> QED BY <1>1, AfterCloseOK, SockFields, TellsKeep

LEMMA WsClosesKeeps ==
    ASSUME LiveInv, NEW s \in Socks, Live!WsLost(s) \/ Live!WsRotated(s) \/ Live!AckTimeout(s)
    PROVE  LiveInv'
<1>1. PICK code \in {"lost", "rotated"} : Live!Closes(s, code)
    BY DEF Live!WsLost, Live!WsRotated, Live!AckTimeout
<1>2. ~sock[s].closed /\ sock[s].ws # Live!NoWs
    BY SockTypes DEF Live!WsLost, Live!WsRotated, Live!AckTimeout, Live!AckTimedOut, Live!Current, LiveInv, Apart, Live!NoWs
<1> QED BY <1>1, <1>2, ClosesKeeps

LEMMA WsFailsKeeps ==
    ASSUME LiveInv, NEW s \in Socks, Live!WsFails(s)
    PROVE  LiveInv'
<1> DEFINE k == [sock[s] EXCEPT !.ws = Live!NoWs, !.handling = TRUE]
<1>1. /\ ~sock[s].closed /\ waits' = None /\ UNCHANGED <<saved, main, calls>>
      /\ sock' = [sock EXCEPT ![s].ws = Live!NoWs, ![s].handling = TRUE]
    BY DEF Live!WsFails, Live!Current, Live!Told
<1>2. sock' = [sock EXCEPT ![s] = k]
    BY <1>1, SockFields DEF Sock
<1>3. k \in Sock /\ SockOK(k)
    BY SockFields, SockTypes DEF Sock, SockOK
<1> HIDE DEF k
<1> QED BY <1>1, <1>2, <1>3, SockFields, TellsKeep

LEMMA ClassifiedKeeps ==
    ASSUME LiveInv, NEW s \in Socks, Live!Classified(s)
    PROVE  LiveInv'
<1> DEFINE k == [sock[s] EXCEPT !.handling = FALSE]
<1>1. UNCHANGED <<saved, main, calls>>
    BY DEF Live!Classified
<1>2. /\ k \in Sock /\ SockOK(k) /\ k.ws = sock[s].ws /\ k.closed = sock[s].closed
    BY SockFields DEF Sock, SockOK
<1>3. CASE ~sock[s].closed /\ k.step = None /\ k.ws = Live!NoWs /\ ~k.timer
    <2>1. Live!Decided(s, k)
        BY <1>3 DEF Live!Classified, Live!Current
    <2>2. ~sock[s].ws.acked
        BY <1>2, <1>3, SockTypes
    <2> HIDE DEF k
    <2> QED BY <1>1, <1>2, <1>3, <2>1, <2>2, DecidedKeeps
<1>4. CASE ~(~sock[s].closed /\ k.step = None /\ k.ws = Live!NoWs /\ ~k.timer)
    <2>1. sock' = [sock EXCEPT ![s] = k] /\ waits' = waits
        BY <1>4 DEF Live!Classified, Live!Current
    <2> HIDE DEF k
    <2>2. SockChanges(s, k)
        BY <1>1, <1>2, <2>1, SockFields DEF SockChanges
    <2> QED BY <2>2, SockChangeKeeps
<1> QED BY <1>3, <1>4

\* A request is sent on a socket that is connected, and its answer comes there.
LEMMA AsksKeeps ==
    ASSUME LiveInv, (\E s \in Socks : Live!Asks(s)) \/ Live!Answers
    PROVE  LiveInv'
<1>1. UNCHANGED <<saved, main, calls, sock>>
    BY DEF Live!Asks, Live!Answers
<1>2. waits' \in Socks \cup {None} /\ Live!WaitersAreTold'
    BY <1>1 DEF Live!Asks, Live!Answers, Live!WaitersAreTold, Live!Current
<1>3. CallsOK' /\ SocksOK'
    BY <1>1 DEF LiveInv, CallsOK, SocksOK, SockOK
<1> QED BY <1>1, <1>2, <1>3 DEF LiveInv

-----------------------------------------------------------------------------
CallRuns == [gen : Nat, at : {"retiring", "scanning"}, active : BOOLEAN, keep : BOOLEAN, old : Nat]
Mains == [sync : Socks \cup {None}, gen : Nat, manager : Nat, failed : BOOLEAN]

\* Every socket is closed, and no request waits.
AllDropped ==
    /\ sock' \in [Socks -> Sock]
    /\ \A s \in Socks : SockOK(sock'[s]) /\ sock'[s].closed
    /\ waits' = None

\* disconnectSyncSocket looks at the state of the one socket there is, and that is not
\* offline as long as a request waits on it.
LEMMA DropKeeps ==
    ASSUME LiveInv, sock' = Live!DropsSync, Live!ToldOf
    PROVE  AllDropped
<1>1. /\ sock \in [Socks -> Sock] /\ Apart /\ main.sync \in Socks \cup {None}
      /\ \A s \in Socks : SockOK(sock[s]) /\ (s # main.sync => sock[s].closed)
      /\ waits \in Socks \cup {None}
      /\ waits # None => sock[waits].ws.acked /\ ~sock[waits].closed
    BY DEF LiveInv, SocksOK, Live!WaitersAreTold
<1>2. CASE main.sync = None
    <2>1. sock' = sock /\ waits' = waits
        BY <1>2 DEF Live!DropsSync, Live!ToldOf
    <2>2. \A s \in Socks : sock[s].closed
        BY <1>1, <1>2 DEF Apart
    <2> QED BY <1>1, <2>1, <2>2 DEF AllDropped
<1>3. CASE main.sync # None
    <2> DEFINE m == main.sync
               d == Live!Disconnected(sock[m])
    <2>1. m \in Socks /\ sock[m] \in Sock
        BY <1>1, <1>3
    <2>2. d \in Sock /\ SockOK(d) /\ d.closed
        BY <2>1, DisconnectedOK
    <2>3. sock' = [sock EXCEPT ![m] = d]
        BY <1>3 DEF Live!DropsSync
    <2>4. waits # None => waits = m /\ sock[m].state # "offline"
        BY <1>1 DEF SockOK
    <2>5. waits' = None
        BY <1>3, <2>4 DEF Live!ToldOf
    <2> HIDE DEF d
    <2> QED BY <1>1, <2>1, <2>2, <2>3, <2>5 DEF AllDropped
<1> QED BY <1>2, <1>3

LEMMA DroppedKeeps ==
    ASSUME LiveInv, AllDropped, CallsOK', main' \in Mains, calls' \subseteq CallRuns,
           saved' \in [token : 1 .. 2, active : BOOLEAN]
    PROVE  LiveInv'
<1>1. SocksOK' /\ Live!WaitersAreTold'
    BY DEF AllDropped, SocksOK, SockOK, Live!WaitersAreTold
<1>2. main'.sync \in Socks \cup {None}
    BY DEF Mains
<1> QED BY <1>1, <1>2 DEF LiveInv, AllDropped, CallRuns, Mains

\* The sockets rest.
LEMMA SocksRest ==
    ASSUME LiveInv, UNCHANGED <<sock, waits>>, main'.sync = main.sync, CallsOK', main' \in Mains,
           calls' \subseteq CallRuns, saved' \in [token : 1 .. 2, active : BOOLEAN]
    PROVE  LiveInv'
<1>1. SocksOK' /\ Live!WaitersAreTold'
    BY DEF LiveInv, SocksOK, SockOK, Live!WaitersAreTold
<1> QED BY <1>1 DEF LiveInv, CallRuns, Mains

LEMMA MainTypes ==
    ASSUME LiveInv
    PROVE  /\ main \in Mains /\ calls \subseteq CallRuns /\ CallsOK
           /\ main.gen \in Nat /\ main.manager \in Nat /\ main.sync \in Socks \cup {None}
           /\ saved \in [token : 1 .. 2, active : BOOLEAN] /\ saved.active \in BOOLEAN
BY DEF LiveInv, Mains, CallRuns

LEMMA ConnectsKeeps ==
    ASSUME LiveInv, NEW preserve \in BOOLEAN, Live!Connects(preserve),
           saved' \in [token : 1 .. 2, active : BOOLEAN]
    PROVE  LiveInv'
<1>1. CASE Live!Keeps(preserve)
    <2> DEFINE c == Live!Call("scanning", TRUE)
    <2>1. /\ calls' = calls \cup {c} /\ main' = [main EXCEPT !.gen = @ + 1, !.sync = None]
          /\ sock' = Live!DropsSync /\ Live!ToldOf
        BY <1>1 DEF Live!Connects
    <2>2. c \in CallRuns /\ c.gen = main.gen + 1
        BY MainTypes DEF Live!Call, CallRuns
    <2>3. main' \in Mains /\ main'.gen = main.gen + 1 /\ main'.sync = None
        <3>1. main \in Mains /\ main.gen + 1 \in Nat
            BY MainTypes
        <3>2. main' = [main EXCEPT !.gen = main.gen + 1, !.sync = None]
            BY <2>1
        <3> QED BY <3>1, <3>2 DEF Mains
    <2> HIDE DEF c
    <2>4. CallsOK'
        BY <2>1, <2>2, <2>3, MainTypes DEF CallsOK
    <2> QED BY <2>1, <2>2, <2>3, <2>4, MainTypes, DropKeeps, DroppedKeeps
<1>2. CASE ~Live!Keeps(preserve)
    <2> DEFINE c == Live!Call("retiring", FALSE)
    <2>1. /\ calls' = calls \cup {c} /\ main' = [main EXCEPT !.gen = @ + 1]
          /\ UNCHANGED <<sock, waits>>
        BY <1>2 DEF Live!Connects
    <2>2. c \in CallRuns /\ c.gen = main.gen + 1 /\ c.at = "retiring"
        BY MainTypes DEF Live!Call, CallRuns
    <2>3. main' \in Mains /\ main'.gen = main.gen + 1 /\ main'.sync = main.sync
        BY <2>1, MainTypes DEF Mains
    <2> HIDE DEF c
    <2>4. CallsOK'
        BY <2>1, <2>2, <2>3, MainTypes DEF CallsOK
    <2> QED BY <2>1, <2>2, <2>3, <2>4, MainTypes, SocksRest
<1> QED BY <1>1, <1>2

LEMMA StopHostingKeeps ==
    ASSUME LiveInv, Live!StopHosting
    PROVE  LiveInv'
<1>1. /\ sock' = Live!DropsSync /\ Live!ToldOf /\ main' = [main EXCEPT !.sync = None]
      /\ UNCHANGED <<saved, calls>>
    BY DEF Live!StopHosting
<1>2. main' \in Mains /\ main'.gen = main.gen /\ main'.sync = None
    BY <1>1, MainTypes DEF Mains
<1>3. CallsOK'
    BY <1>1, <1>2, MainTypes DEF CallsOK
<1> QED BY <1>1, <1>2, <1>3, MainTypes, DropKeeps, DroppedKeeps

\* A call goes on after its sessions are retired: the old socket goes before it may
\* make one of its own.
LEMMA RetiredKeeps ==
    ASSUME LiveInv, NEW c \in calls, Live!Retired(c)
    PROVE  LiveInv'
<1> DEFINE n == IF main.manager = c.old THEN [main EXCEPT !.manager = 0, !.failed = FALSE] ELSE main
           e == [c EXCEPT !.at = "scanning"]
<1>1. n \in Mains /\ n.gen = main.gen /\ n.sync = main.sync
    BY MainTypes DEF Mains
<1>2. c \in CallRuns /\ e \in CallRuns /\ e.gen = c.gen /\ c.gen \in Nat /\ c.gen <= main.gen
    BY MainTypes DEF CallRuns, CallsOK
<1>3. UNCHANGED saved
    BY DEF Live!Retired
<1>4. CASE Live!StillWanted(c)
    <2>1. /\ sock' = Live!DropsSync /\ Live!ToldOf /\ main' = [n EXCEPT !.sync = None]
          /\ calls' = (calls \ {c}) \cup IF c.active THEN {e} ELSE {}
        BY <1>4 DEF Live!Retired
    <2> HIDE DEF n, e
    <2>2. main' \in Mains /\ main'.gen = main.gen /\ main'.sync = None
        BY <1>1, <2>1 DEF Mains
    <2>3. calls' \subseteq (calls \ {c}) \cup {e}
        BY <2>1
    <2>4. CallsOK'
        BY <1>2, <2>2, <2>3, MainTypes DEF CallsOK
    <2>5. calls' \subseteq CallRuns
        BY <1>2, <2>3, MainTypes
    <2> QED BY <1>3, <2>1, <2>2, <2>4, <2>5, MainTypes, DropKeeps, DroppedKeeps
<1>5. CASE ~Live!StillWanted(c)
    <2>1. main' = n /\ calls' = calls \ {c} /\ UNCHANGED <<sock, waits>>
        BY <1>5 DEF Live!Retired
    <2> HIDE DEF n
    <2>2. CallsOK'
        BY <1>1, <2>1, MainTypes DEF CallsOK
    <2> QED BY <1>1, <1>3, <2>1, <2>2, MainTypes, SocksRest
<1> QED BY <1>4, <1>5

LEMMA RetireFailsKeeps ==
    ASSUME LiveInv, NEW c \in calls, Live!RetireFails(c)
    PROVE  LiveInv'
<1>1. /\ calls' = calls \ {c} /\ sock' = Live!DropsSync /\ Live!ToldOf
      /\ main' = [main EXCEPT !.sync = None, !.failed = TRUE] /\ UNCHANGED saved
    BY DEF Live!RetireFails
<1>2. main' \in Mains /\ main'.gen = main.gen /\ main'.sync = None
    BY <1>1, MainTypes DEF Mains
<1>3. CallsOK'
    BY <1>1, <1>2, MainTypes DEF CallsOK
<1> QED BY <1>1, <1>2, <1>3, MainTypes, DropKeeps, DroppedKeeps

\* The new socket is made while main.ts holds none, by the only call of its generation.
LEMMA MadeKeeps ==
    ASSUME LiveInv, NEW c \in calls, NEW s \in Socks, Live!Made(c, s)
    PROVE  LiveInv'
<1> DEFINE holder == IF c.keep THEN main.manager ELSE c.gen
           k == [Live!Opened(Live!NoSock) EXCEPT !.closed = FALSE, !.state = "connecting"]
<1>1. /\ c.at = "scanning" /\ sock[s] = Live!NoSock /\ calls' = calls \ {c}
      /\ UNCHANGED <<saved, waits>>
    BY DEF Live!Made
<1>2. c \in CallRuns /\ holder \in Nat
    BY MainTypes DEF CallRuns
<1>3. CASE UNCHANGED <<sock, main>> \/ (main' = [main EXCEPT !.manager = holder] /\ UNCHANGED sock)
    <2> HIDE DEF holder
    <2>1. main' \in Mains /\ main'.gen = main.gen /\ main'.sync = main.sync /\ UNCHANGED sock
        BY <1>2, <1>3, MainTypes DEF Mains
    <2>2. CallsOK'
        BY <1>1, <2>1, MainTypes DEF CallsOK
    <2> QED BY <1>1, <2>1, <2>2, MainTypes, SocksRest
<1>4. CASE /\ Live!StillWanted(c)
           /\ sock' = [sock EXCEPT ![s] = k]
           /\ main' = [main EXCEPT !.sync = s, !.manager = holder]
    <2>1. c.gen = main.gen /\ main.sync = None
        BY <1>1, <1>4, MainTypes DEF Live!StillWanted, CallsOK
    <2>2. k \in Sock /\ k.ws = Live!NoWs /\ ~k.closed /\ ~k.timer
        BY SockTypes DEF Live!Opened, Live!NoSock, Sock
    <2>3. SockOK(k)
        BY <2>2, SockTypes DEF SockOK
    <2> HIDE DEF holder, k
    <2>4. main' \in Mains /\ main'.gen = main.gen /\ main'.sync = s
        BY <1>2, <1>4, MainTypes DEF Mains
    <2>5. CallsOK'
        BY <1>1, <2>1, <2>4, MainTypes DEF CallsOK
    <2>6. \A t \in Socks : sock[t].closed
        BY <2>1 DEF LiveInv, SocksOK, Apart
    <2>7. sock \in [Socks -> Sock] /\ \A t \in Socks : SockOK(sock[t])
        BY DEF LiveInv, SocksOK
    <2>8. \A t \in Socks : sock'[t] = IF t = s THEN k ELSE sock[t]
        BY <1>4, <2>7
    <2>9. SocksOK'
        BY <1>4, <2>2, <2>3, <2>4, <2>6, <2>7, <2>8 DEF SocksOK, SockOK
    <2>10. waits = None
        BY <2>6 DEF LiveInv, Live!WaitersAreTold
    <2>11. Live!WaitersAreTold'
        BY <1>1, <2>10 DEF Live!WaitersAreTold
    <2>12. calls' \subseteq CallRuns
        BY <1>1, MainTypes
    <2> QED BY <1>1, <2>4, <2>5, <2>9, <2>11, <2>12 DEF LiveInv, CallRuns, Mains
<1> QED BY <1>3, <1>4 DEF Live!Made

\* The relay's messages, and its closing of many at once.
LEMMA ManyKeep ==
    ASSUME LiveInv, NEW f \in [Socks -> Sock], sock' = f,
           \A s \in Socks : SockOK(f[s]) /\ (sock[s].closed => f[s].closed),
           \/ waits' = None
           \/ waits' = waits /\ \A s \in Socks : ~sock[s].closed /\ sock[s].ws.acked
                                                 => f[s].ws.acked /\ ~f[s].closed,
           UNCHANGED <<main, calls, saved>>
    PROVE  LiveInv'
<1>1. SocksOK'
    BY DEF LiveInv, SocksOK, SockOK
<1>2. Live!WaitersAreTold' /\ waits' \in Socks \cup {None}
    BY DEF LiveInv, Live!WaitersAreTold
<1> QED BY <1>1, <1>2 DEF LiveInv, CallsOK

LEMMA NoticeOK ==
    ASSUME LiveInv, NEW s \in Socks, sock[s].ws.acked,
           NEW msg \in {"close_4001", "revoked"}
    PROVE  LET k == [sock[s] EXCEPT !.ws.msg = msg]
           IN  k \in Sock /\ SockOK(k) /\ k.ws.acked /\ k.closed = sock[s].closed
<1> DEFINE w == [sock[s].ws EXCEPT !.msg = msg]
           k == [sock[s] EXCEPT !.ws = w]
<1>1. w \in Ws /\ w.acked
    BY SockFields DEF Ws
<1>2. [sock[s] EXCEPT !.ws.msg = msg] = k
    BY SockFields DEF Sock
<1> HIDE DEF w
<1>3. k \in Sock /\ k.ws = w /\ k.closed = sock[s].closed
    BY <1>1, SockFields DEF Sock
<1>4. ~sock[s].closed /\ ~sock[s].timer /\ sock[s].step = None /\ sock[s].state # "offline"
    BY SockFields, SockTypes DEF SockOK
<1>5. SockOK(k)
    BY <1>1, <1>3, <1>4, SockFields DEF SockOK, Sock
<1> QED BY <1>1, <1>2, <1>3, <1>5

LEMMA MigratesKeeps ==
    ASSUME LiveInv, Live!Migrates \/ Live!Revokes
    PROVE  LiveInv'
<1>1. PICK msg \in {"close_4001", "revoked"} :
          sock' = [s \in Socks |-> IF Live!Current(s) /\ sock[s].ws.acked
                                   THEN [sock[s] EXCEPT !.ws.msg = msg] ELSE sock[s]]
    BY DEF Live!Migrates, Live!Revokes
<1>2. UNCHANGED <<saved, main, calls, waits>>
    BY DEF Live!Migrates, Live!Revokes
<1>3. \A s \in Socks : /\ sock'[s] \in Sock /\ SockOK(sock'[s])
                       /\ sock[s].closed => sock'[s].closed
                       /\ ~sock[s].closed /\ sock[s].ws.acked
                             => sock'[s].ws.acked /\ ~sock'[s].closed
    BY <1>1, NoticeOK, SockFields DEF Live!Current
<1>4. sock' \in [Socks -> Sock]
    BY <1>1, <1>3
<1> QED BY <1>2, <1>3, <1>4, ManyKeep

LEMMA RotatesKeeps ==
    ASSUME LiveInv, Live!Rotates
    PROVE  LiveInv'
<1>1. /\ sock' = [s \in Socks |-> IF Live!Current(s) /\ sock[s].ws.st = "open"
                                  THEN Live!AfterClose(sock[s], "lost") ELSE sock[s]]
      /\ waits' = None /\ UNCHANGED <<saved, main, calls>>
    BY DEF Live!Rotates
<1>2. \A s \in Socks : sock[s].ws.st = "open" => sock[s].ws # Live!NoWs
    BY SockTypes DEF LiveInv, Apart
<1>3. \A s \in Socks : sock'[s] \in Sock /\ SockOK(sock'[s]) /\ (sock[s].closed => sock'[s].closed)
    BY <1>1, <1>2, AfterCloseOK, SockFields DEF Live!Current
<1>4. sock' \in [Socks -> Sock]
    BY <1>1, <1>3
<1> QED BY <1>1, <1>3, <1>4, ManyKeep

LEMMA LiveNextKeeps ==
    ASSUME LiveInv, Live!Next
    PROVE  LiveInv'
<1>1. ASSUME NEW s \in Socks, Live!SockStep(s) \/ Live!HelloSwallowed(s)
      PROVE  LiveInv'
    BY <1>1, ProbeOkKeeps, ProbeFailsKeeps, DecideKeeps, ReconnectTimerKeeps, WsOpensKeeps, WsFailsKeeps,
       ClassifiedKeeps, HelloAnsweredKeeps, HelloOkKeeps, GivenUpKeeps, WsClosesKeeps,
       HelloSwallowedKeeps DEF Live!SockStep
<1>2. CASE (\E s \in Socks : Live!Asks(s)) \/ Live!Answers
    BY <1>2, AsksKeeps
<1>3. CASE Live!Reconnect \/ Live!StartHosting \/ Live!MigratePersists
    <2>1. saved' \in [token : 1 .. 2, active : BOOLEAN]
        <3>1. saved \in [token : 1 .. 2, active : BOOLEAN] /\ 2 \in 1 .. 2
            BY MainTypes
        <3>2. saved' = saved \/ saved' = [saved EXCEPT !.token = 2]
            BY <1>3 DEF Live!Reconnect, Live!StartHosting, Live!MigratePersists
        <3> QED BY <3>1, <3>2
    <2>2. CASE \E preserve \in BOOLEAN : Live!Connects(preserve)
        BY <2>1, <2>2, ConnectsKeeps
    <2>3. CASE UNCHANGED <<main, calls, sock, waits>>
        BY <2>1, <2>3, MainTypes, SocksRest DEF CallsOK
    <2> QED BY <1>3, <2>2, <2>3 DEF Live!Reconnect, Live!StartHosting, Live!MigratePersists
<1>4. CASE Live!StopHosting \/ Live!MainStep \/ Live!Migrates \/ Live!Rotates \/ Live!Revokes
    BY <1>4, StopHostingKeeps, RetiredKeeps, RetireFailsKeeps, MadeKeeps, MigratesKeeps,
       RotatesKeeps DEF Live!MainStep
<1>5. CASE Live!GoesDown \/ Live!ComesUp
    <2>1. UNCHANGED <<saved, main, calls, sock, waits>>
        BY <1>5 DEF Live!GoesDown, Live!ComesUp
    <2> QED BY <2>1, MainTypes, SocksRest DEF CallsOK
<1> QED BY <1>1, <1>2, <1>3, <1>4, <1>5 DEF Live!Next

LEMMA LiveInit == ASSUME Apart PROVE Live!Init => LiveInv
<1> SUFFICES ASSUME Live!Init
             PROVE  LiveInv
    OBVIOUS
<1>1. /\ saved = [token |-> 1, active |-> TRUE] /\ calls = {} /\ waits = None
      /\ main = [sync |-> None, gen |-> 0, manager |-> 0, failed |-> FALSE]
      /\ sock = [s \in Socks |-> Live!NoSock]
    BY DEF Live!Init
<1>2. CallsOK /\ SocksOK /\ Live!WaitersAreTold
    BY <1>1, SockTypes DEF CallsOK, SocksOK, Live!WaitersAreTold
<1>3. saved \in [token : 1 .. 2, active : BOOLEAN] /\ main \in Mains /\ main.sync = None
    BY <1>1 DEF Mains
<1> QED BY <1>1, <1>2, <1>3 DEF LiveInv, Mains

LEMMA LiveStep == ASSUME Apart PROVE LiveInv /\ [Live!Next]_(Live!vars) => LiveInv'
<1> SUFFICES ASSUME LiveInv, UNCHANGED Live!vars
             PROVE  LiveInv'
    BY LiveNextKeeps
<1>1. UNCHANGED <<saved, main, calls, sock, waits>>
    BY DEF Live!vars
<1> QED BY <1>1, MainTypes, SocksRest DEF CallsOK

LEMMA LiveGives ==
    ASSUME Apart
    PROVE  LiveInv => Live!TypeOK /\ Live!OneSocket /\ Live!WaitersAreTold
<1> SUFFICES ASSUME LiveInv
             PROVE  Live!TypeOK /\ Live!OneSocket /\ Live!WaitersAreTold
    OBVIOUS
<1>1. \A s \in Socks : sock[s].state \in {"offline", "connecting", "connected"}
                       /\ sock[s].ws.token \in 0 .. 2
    BY SockFields DEF Sock, Ws
<1>2. Live!OneSocket
    BY SockFields DEF LiveInv, SocksOK, Live!OneSocket, SockOK
<1> QED BY <1>1, <1>2 DEF LiveInv, Live!TypeOK

\* However connects, disconnects, failures and the owner's clicks overlap, one socket is
\* alive, the one main.ts holds, and no CRDT request waits on a WebSocket that is gone
\* (connectSyncSocket's generations, disconnectSyncSocket, the close handler).
THEOREM OneSocketAlive ==
    ASSUME Apart
    PROVE  Live!Spec => [](Live!TypeOK /\ Live!OneSocket /\ Live!WaitersAreTold)
<1> QED BY LiveInit, LiveStep, LiveGives, PTL DEF Live!Spec

\* The same of the composed specification the run checks: the other modules' behaviours
\* leave the connection's state alone.
THEOREM OneSocketEverywhere == ASSUME Apart PROVE MCSpec => []OneSocket
<1>1. MCInit => LiveInv
    BY LiveInit DEF MCInit
<1>2. [MCNext]_<<part, fileVars, vars, tlsVars, accountVars, liveVars>> => [Live!Next]_(Live!vars)
    BY DEF MCNext, liveVars, Live!vars
<1>3. LiveInv => OneSocket
    BY LiveGives DEF OneSocket
<1> QED BY <1>1, <1>2, <1>3, LiveStep, PTL DEF MCSpec

-----------------------------------------------------------------------------
(***************************************************************************)
(* SavedServer: the token the plugin has saved and the one the relay       *)
(* accepts.                                                                *)
(***************************************************************************)

ConnT == [https: BOOLEAN, addr: 1..2, pin: 0..MaxIds, applied: SUBSET (2..MaxIds), token: 1..MaxTokens,
          sec: {"ok", "migrating", "pin_mismatch"}, status: {"active", "revoked"}]
MigT == [at: {"info", "answered"}, cand: ConnT]
AccT == [at: {"sent", "answered"}, pinned: BOOLEAN, proof: BOOLEAN, from: ConnT, new: BOOLEAN,
         cand: ConnT]
MoveT == [at: {"answered"}, addr: 1..2]
ReqT == [at: {"sent", "ok", "unauthorized"}, c: ConnT]
RecT == [at: {"probed"}, n: 1..MaxIds] \cup [at: {"verified"}, n: 1..MaxIds, applied: SUBSET (2..MaxIds)]

\* Nothing is compared with None that could be it.
AccountApart ==
    /\ None \notin {"info", "answered", "sent", "ok", "unauthorized", "probed", "verified"} \cup ConnT
    /\ MaxIds \in Nat \ {0} /\ MaxTokens \in Nat

AccountShapes ==
    /\ relay \in [state: {"plain_legacy", "tls_migrating", "tls_enforced", "pinned_tls"},
                  strict: BOOLEAN, id: 1..MaxIds, addr: 1..2]
    /\ device \in [token: 0..MaxTokens, security: {"plain", "tls"}]
    /\ conn = None \/ conn \in ConnT
    /\ mig = Account!NoOp \/ mig \in MigT
    /\ acc = Account!NoOp \/ acc \in AccT
    /\ move = Account!NoOp \/ move \in MoveT
    /\ req = Account!NoOp \/ req \in ReqT
    /\ rec \in [Recs -> {Account!NoOp} \cup RecT]
    /\ tlsTokens \subseteq 1..MaxTokens
    /\ lost \in BOOLEAN /\ raced \in BOOLEAN

\* Nothing is under way before the device joins.
Unjoined ==
    conn = None =>
        /\ mig = Account!NoOp /\ acc = Account!NoOp /\ move = Account!NoOp /\ req = Account!NoOp
        /\ \A r \in Recs : rec[r] = Account!NoOp

\* What a connection says of its token: the device was given it, over TLS only if it uses TLS.
Holds(c) == c.token <= device.token /\ (c.https \/ c.token \notin tlsTokens)

TokensInv ==
    /\ \A t \in tlsTokens : t <= device.token
    /\ device.security = "tls" <=> device.token \in tlsTokens
    /\ conn # None => Holds(conn)
    /\ mig # Account!NoOp => mig.cand.https
    /\ mig.at = "info" => mig.cand.token \notin tlsTokens /\ mig.cand.token <= device.token
    /\ mig.at = "answered" => mig.cand.token = device.token /\ device.security = "tls"
    /\ acc # Account!NoOp => Holds(acc.cand)
    /\ acc # Account!NoOp /\ ~acc.new => acc.cand.token = acc.from.token
    /\ acc # Account!NoOp /\ acc.new => acc.at = "answered" /\ acc.cand.token = device.token
           /\ device.security = "tls"
    /\ req # Account!NoOp => Holds(req.c)

\* Where the token the relay accepts is.
TokenIsSomewhere ==
    conn # None /\ ~lost /\ ~raced =>
        \/ conn.token = device.token
        \/ mig.at = "answered"
        \/ acc # Account!NoOp /\ acc.new

AccountInv == AccountShapes /\ Unjoined /\ TokensInv /\ TokenIsSomewhere

\* A verified recovery; every other step of a recovery is one of these.
LEMMA VerifiedRec ==
    ASSUME AccountApart, AccountShapes, NEW r \in Recs, rec[r].at = "verified"
    PROVE  rec[r] \in [at: {"verified"}, n: 1..MaxIds, applied: SUBSET (2..MaxIds)]
<1>1. rec[r] \in {Account!NoOp} \cup RecT
    BY DEF AccountShapes
<1> QED BY <1>1 DEF AccountApart, Account!NoOp, RecT

\* The replacements of a saved connection.
LEMMA Follower ==
    ASSUME NEW c \in ConnT, NEW p \in 0..MaxIds, NEW ap \in SUBSET (2..MaxIds),
           NEW s \in {"ok", "migrating", "pin_mismatch"}
    PROVE  /\ [c EXCEPT !.pin = p, !.applied = ap, !.sec = s] \in ConnT
           /\ [c EXCEPT !.pin = p, !.applied = ap, !.sec = s].token = c.token
           /\ [c EXCEPT !.pin = p, !.applied = ap, !.sec = s].https = c.https
BY DEF ConnT

LEMMA PinnedConn ==
    ASSUME AccountShapes, conn \in ConnT, NEW s \in {"ok", "migrating", "pin_mismatch"}
    PROVE  /\ [conn EXCEPT !.https = TRUE, !.addr = relay.addr, !.pin = relay.id, !.sec = s] \in ConnT
           /\ [conn EXCEPT !.https = TRUE, !.addr = relay.addr, !.pin = relay.id,
                  !.sec = s].token = conn.token
           /\ [conn EXCEPT !.https = TRUE, !.addr = relay.addr, !.pin = relay.id, !.sec = s].https = TRUE
<1>1. relay.addr \in 1..2 /\ relay.id \in 0..MaxIds
    BY DEF AccountShapes
<1> QED BY <1>1 DEF ConnT

LEMMA FollowedConn ==
    ASSUME AccountApart, AccountShapes, conn \in ConnT, NEW r \in Recs, rec[r].at = "verified"
    PROVE  /\ [conn EXCEPT !.pin = rec[r].n, !.applied = rec[r].applied, !.sec = "ok"] \in ConnT
           /\ [conn EXCEPT !.pin = rec[r].n, !.applied = rec[r].applied, !.sec = "ok"].token = conn.token
           /\ [conn EXCEPT !.pin = rec[r].n, !.applied = rec[r].applied, !.sec = "ok"].https = conn.https
<1>1. rec[r].n \in 0..MaxIds /\ rec[r].applied \in SUBSET (2..MaxIds)
    BY VerifiedRec DEF AccountApart
<1> PICK p \in 0..MaxIds, ap \in SUBSET (2..MaxIds) : p = rec[r].n /\ ap = rec[r].applied
    BY <1>1
<1> PICK s \in {"ok", "migrating", "pin_mismatch"} : s = "ok"
    OBVIOUS
<1> PICK c \in ConnT : c = conn
    OBVIOUS
<1>2. /\ [c EXCEPT !.pin = p, !.applied = ap, !.sec = s] \in ConnT
      /\ [c EXCEPT !.pin = p, !.applied = ap, !.sec = s].token = c.token
      /\ [c EXCEPT !.pin = p, !.applied = ap, !.sec = s].https = c.https
    BY DEF ConnT
<1> QED BY <1>2

LEMMA NewToken ==
    ASSUME AccountShapes, AccountApart, NEW s \in {"plain", "tls"}, Account!Issues(s)
    PROVE  /\ Account!Fresh \in 1..MaxTokens /\ Account!Fresh > device.token
           /\ device' = [token |-> Account!Fresh, security |-> s]
           /\ device' \in [token: 0..MaxTokens, security: {"plain", "tls"}]
           /\ tlsTokens' \subseteq 1..MaxTokens
           /\ tlsTokens' = IF s = "tls" THEN tlsTokens \cup {Account!Fresh} ELSE tlsTokens
<1>1. device.token \in 0..MaxTokens /\ Account!Fresh <= MaxTokens /\ Account!Fresh = device.token + 1
    BY DEF AccountShapes, Account!Issues, Account!Fresh
<1>2. Account!Fresh \in 1..MaxTokens /\ Account!Fresh > device.token
    BY <1>1 DEF AccountApart
<1> QED BY <1>2 DEF Account!Issues, AccountShapes

LEMMA GivenToken ==
    ASSUME NEW c \in ConnT, NEW t \in 1..MaxTokens
    PROVE  /\ [c EXCEPT !.token = t, !.sec = "ok"] \in ConnT /\ [c EXCEPT !.token = t] \in ConnT
           /\ [c EXCEPT !.token = t, !.sec = "ok"].token = t /\ [c EXCEPT !.token = t].token = t
           /\ [c EXCEPT !.token = t, !.sec = "ok"].https = c.https
                  /\ [c EXCEPT !.token = t].https = c.https
BY DEF ConnT

LEMMA GivenAccept ==
    ASSUME acc \in AccT, NEW t \in 1..MaxTokens
    PROVE  LET a == [acc EXCEPT !.at = "answered", !.new = TRUE, !.cand.token = t] IN
           /\ a \in AccT /\ a.at = "answered" /\ a.new /\ a.cand.token = t
                  /\ a.cand.https = acc.cand.https
           /\ a # Account!NoOp => acc # Account!NoOp
<1> DEFINE a == [acc EXCEPT !.at = "answered", !.new = TRUE, !.cand.token = t]
<1>1. acc.cand \in ConnT
    BY DEF AccT
<1>2. a = [acc EXCEPT !.at = "answered", !.new = TRUE, !.cand = [acc.cand EXCEPT !.token = t]]
    BY DEF AccT
<1>3. acc # Account!NoOp
    BY DEF AccT, Account!NoOp
<1>4. [acc.cand EXCEPT !.token = t] \in ConnT
    BY <1>1, GivenToken
<1>5. a.cand = [acc.cand EXCEPT !.token = t] /\ a \in AccT /\ a.at = "answered" /\ a.new = TRUE
    BY <1>2, <1>4 DEF AccT
<1> HIDE DEF a
<1>6. a.cand.token = t /\ a.cand.https = acc.cand.https
    <2>1. [acc.cand EXCEPT !.token = t].token = t /\ [acc.cand EXCEPT !.token = t].https = acc.cand.https
        BY <1>1, GivenToken
    <2> QED BY <1>5, <2>1
<1>7. a \in AccT /\ a.at = "answered" /\ a.new /\ a.cand.token = t /\ a.cand.https = acc.cand.https
    BY <1>5, <1>6
<1> QED BY <1>3, <1>7 DEF a

LEMMA FollowKeeps ==
    ASSUME AccountApart, AccountShapes, conn \in ConnT, NEW r \in Recs, Account!FollowPersists(r)
    PROVE  conn' \in ConnT /\ conn' # None /\ conn'.token = conn.token /\ conn'.https = conn.https
<1>1. conn' = conn \/ conn' = [conn EXCEPT !.pin = rec[r].n, !.applied = rec[r].applied, !.sec = "ok"]
    BY DEF Account!FollowPersists, Account!Saves, Account!Replaces, Account!Followed
<1>2. rec[r].at = "verified"
    BY DEF Account!FollowPersists
<1>3. conn' \in ConnT /\ conn'.token = conn.token /\ conn'.https = conn.https
    BY <1>1, <1>2, FollowedConn
<1> QED BY <1>3 DEF AccountApart

\* What was held is held still when another token is given out.
LEMMA Later ==
    ASSUME AccountApart, AccountShapes, NEW c \in ConnT, Holds(c),
           Account!Fresh > device.token, device'.token = Account!Fresh,
               tlsTokens' = tlsTokens \cup {Account!Fresh}
    PROVE  c.token <= device'.token /\ (c.https \/ c.token \notin tlsTokens')
<1>1. c.token \in 1..MaxTokens /\ device.token \in 0..MaxTokens
    BY DEF ConnT, AccountShapes
<1> QED BY <1>1 DEF Holds, Account!Fresh

LEMMA LaterTokens ==
    ASSUME AccountApart, AccountShapes, \A t \in tlsTokens : t <= device.token,
           Account!Fresh > device.token, device'.token = Account!Fresh,
               tlsTokens' = tlsTokens \cup {Account!Fresh}
    PROVE  /\ \A t \in tlsTokens' : t <= device'.token
           /\ device'.token \in tlsTokens'
           /\ \A t \in 1..MaxTokens : t <= device.token /\ t \notin tlsTokens => t <= device'.token
                  /\ t \notin tlsTokens'
<1>1. device.token \in 0..MaxTokens /\ tlsTokens \subseteq 1..MaxTokens /\ MaxTokens \in Nat
    BY DEF AccountShapes, AccountApart
<1>2. Account!Fresh \in Nat
    BY <1>1 DEF Account!Fresh
<1> QED BY <1>1, <1>2

LEMMA ShapesKept == ASSUME AccountApart, AccountInv, Account!Next PROVE AccountShapes'
<1> USE DEF AccountApart, AccountInv, AccountShapes, Unjoined, TokensInv, TokenIsSomewhere, Holds,
        Account!NoOp, MigT, AccT, MoveT, ReqT, RecT
<1>1. CASE Account!Owner
  <2>1. relay' \in [state: {"plain_legacy", "tls_migrating", "tls_enforced", "pinned_tls"},
            strict: BOOLEAN, id: 1..MaxIds, addr: 1..2]
    <3>1. CASE \E s \in BOOLEAN : Account!Migrates(s)
        BY <3>1 DEF Account!Migrates
    <3>2. CASE Account!Enforces
        BY <3>2 DEF Account!Enforces
    <3>3. CASE Account!Rotates
        BY <3>3 DEF Account!Rotates
    <3>4. CASE Account!MovesAway
        BY <3>4 DEF Account!MovesAway
    <3> QED BY <1>1, <3>1, <3>2, <3>3, <3>4 DEF Account!Owner
  <2> QED BY <1>1, <2>1 DEF Account!Owner
<1>2. CASE Account!Expires
    BY <1>2 DEF Account!Expires, ConnT
<1>3. CASE (\E h \in BOOLEAN : Account!Join(h))
  <2> PICK h \in BOOLEAN : Account!Join(h)
    BY <1>3
  <2>1. Account!Fresh \in 1..MaxTokens /\ (IF h THEN relay.id ELSE 0) \in 0..MaxIds
    <3>1. Account!Issues(IF h THEN "tls" ELSE "plain")
        BY DEF Account!Join
    <3> QED BY <3>1, NewToken
  <2>3. conn' \in ConnT
    BY <2>1 DEF Account!Join, ConnT
  <2>4. device' \in [token: 0..MaxTokens, security: {"plain", "tls"}]
    BY <2>1 DEF Account!Join, Account!Issues
  <2>2. tlsTokens' \subseteq 1..MaxTokens
    <3>1. Account!Issues(IF h THEN "tls" ELSE "plain")
        BY DEF Account!Join
    <3>2. CASE h
        BY <3>1, <3>2, NewToken
    <3>3. CASE ~h
        BY <3>1, <3>3, NewToken
    <3> QED BY <3>2, <3>3
  <2> QED BY <2>2, <2>3, <2>4 DEF Account!Join
<1>4. CASE Account!MigrateAsks
  <2>1. mig' \in MigT
    <3>1. conn \in ConnT
        BY <1>4 DEF Account!MigrateAsks
    <3>2. [conn EXCEPT !.https = TRUE, !.addr = relay.addr, !.pin = relay.id,
              !.sec = "migrating"] \in ConnT
        BY <3>1, PinnedConn
    <3> QED BY <1>4, <3>2 DEF Account!MigrateAsks
  <2> QED BY <1>4, <2>1 DEF Account!MigrateAsks
<1>5. CASE Account!MigrateCompletes
  <2>1. mig \in MigT
    BY <1>5 DEF Account!MigrateCompletes, ConnT
  <2>2. CASE Account!Issues("tls") /\ mig' = [at |-> "answered",
                 cand |-> [mig.cand EXCEPT !.token = Account!Fresh, !.sec = "ok"]]
    <3>1. Account!Fresh \in 1..MaxTokens
        BY <2>2 DEF Account!Issues, Account!Fresh
    <3>2. mig' \in MigT
        BY <2>1, <2>2, <3>1, GivenToken
    <3>3. device' \in [token: 0..MaxTokens, security: {"plain", "tls"}]
              /\ tlsTokens' \subseteq 1..MaxTokens
        BY <2>2, <3>1 DEF Account!Issues
    <3> QED BY <1>5, <3>2, <3>3 DEF Account!MigrateCompletes
  <2>3. CASE mig' = Account!NoOp /\ UNCHANGED <<device, tlsTokens>>
    BY <1>5, <2>3 DEF Account!MigrateCompletes
  <2> QED BY <1>5, <2>2, <2>3 DEF Account!MigrateCompletes
<1>6. CASE Account!MigratePersists
    BY <1>6 DEF Account!MigratePersists, Account!Saves, Account!Replaces, Account!Fault, ConnT
<1>7. CASE Account!MigrateLost
    BY <1>7 DEF Account!MigrateLost, Account!Fault, ConnT
<1>8. CASE (\E p \in BOOLEAN : Account!AcceptSends(p))
  <2> PICK p \in BOOLEAN : Account!AcceptSends(p)
    BY <1>8
  <2>1. conn \in ConnT
    BY DEF Account!AcceptSends
  <2>2. [conn EXCEPT !.https = TRUE, !.addr = relay.addr, !.pin = relay.id, !.sec = "ok"] \in ConnT
    BY <2>1, PinnedConn
  <2>3. acc' \in AccT
    BY <2>1, <2>2 DEF Account!AcceptSends
  <2> QED BY <2>3 DEF Account!AcceptSends
<1>9. CASE Account!AcceptAnswered
  <2>1. acc \in AccT
    BY <1>9 DEF Account!AcceptAnswered, ConnT
  <2>2. CASE Account!Issues("tls") /\ acc' = [acc EXCEPT !.at = "answered", !.new = TRUE,
                 !.cand.token = Account!Fresh]
    <3>1. Account!Fresh \in 1..MaxTokens
        BY <2>2 DEF Account!Issues, Account!Fresh
    <3>2. acc' \in AccT
        BY <2>1, <2>2, <3>1, GivenAccept
    <3>3. device' \in [token: 0..MaxTokens, security: {"plain", "tls"}]
              /\ tlsTokens' \subseteq 1..MaxTokens
        BY <2>2, <3>1 DEF Account!Issues
    <3> QED BY <1>9, <3>2, <3>3 DEF Account!AcceptAnswered
  <2>3. CASE UNCHANGED <<device, tlsTokens>>
                 /\ (acc' = Account!NoOp \/ acc' = [acc EXCEPT !.at = "answered"])
    BY <1>9, <2>1, <2>3 DEF Account!AcceptAnswered
  <2> QED BY <1>9, <2>2, <2>3 DEF Account!AcceptAnswered
<1>10. CASE Account!AcceptPersists
  <2>1. acc \in AccT
    BY <1>10 DEF Account!AcceptPersists, ConnT
  <2>2. conn' = conn \/ conn' \in ConnT
    BY <1>10, <2>1 DEF Account!AcceptPersists, Account!Saves, Account!Replaces
  <2>3. lost' \in BOOLEAN /\ raced' \in BOOLEAN
    BY <1>10, <2>1 DEF Account!AcceptPersists, Account!Saves
  <2> QED BY <1>10, <2>2, <2>3 DEF Account!AcceptPersists
<1>11. CASE Account!AcceptLost
    BY <1>11 DEF Account!AcceptLost, Account!Fault, ConnT
<1>12. CASE Account!MoveAsks
    BY <1>12 DEF Account!MoveAsks, Account!Begins, Account!Idle, ConnT
<1>13. CASE Account!MovePersists
    BY <1>13 DEF Account!MovePersists, Account!Saves, Account!Replaces, Account!Fault, ConnT
<1>14. CASE Account!RequestSends
    BY <1>14 DEF Account!RequestSends, Account!Begins, Account!Idle, ConnT
<1>15. CASE Account!RequestAnswered
    BY <1>15 DEF Account!RequestAnswered, ConnT
<1>16. CASE Account!RequestTaken
    BY <1>16 DEF Account!RequestTaken, ConnT
<1>17. CASE (\E r \in Recs : Account!Probe(r))
    BY <1>17 DEF Account!Probe, Account!Idle, ConnT
<1>18. CASE (\E r \in Recs : Account!Derive(r))
    BY <1>18 DEF Account!Derive, Account!Saves, Account!Replaces, Account!Fault, Account!Alarmed, ConnT
<1>19. CASE (\E r \in Recs : Account!FollowPersists(r))
  <2> PICK r \in Recs : Account!FollowPersists(r)
    BY <1>19
  <2>1. conn \in ConnT
    BY VerifiedRec DEF Account!FollowPersists
  <2>3. lost' \in BOOLEAN /\ rec' \in [Recs -> {Account!NoOp} \cup RecT]
    BY DEF Account!FollowPersists, Account!Saves
  <2>4. conn' \in ConnT
    BY <2>1, FollowKeeps
  <2> QED BY <2>3, <2>4 DEF Account!FollowPersists
<1> QED BY <1>1, <1>2, <1>3, <1>4, <1>5, <1>6, <1>7, <1>8, <1>9, <1>10, <1>11, <1>12, <1>13, <1>14,
           <1>15, <1>16, <1>17, <1>18, <1>19 DEF Account!Next

LEMMA UnjoinedKept == ASSUME AccountApart, AccountInv, Account!Next PROVE Unjoined'
<1> USE DEF AccountApart, AccountInv, AccountShapes, Unjoined, TokensInv, TokenIsSomewhere, Holds,
        Account!NoOp, MigT, AccT, MoveT, ReqT, RecT
<1>1. CASE Account!Owner
    BY <1>1 DEF Account!Owner, Account!Migrates, Account!Enforces, Account!Rotates, Account!MovesAway,
       ConnT
<1>2. CASE Account!Expires
    BY <1>2 DEF Account!Expires, ConnT
<1>3. CASE (\E h \in BOOLEAN : Account!Join(h))
    BY <1>3 DEF Account!Join, Account!Issues, Account!Fresh, ConnT
<1>4. CASE Account!MigrateAsks
    BY <1>4 DEF Account!MigrateAsks, Account!Begins, Account!Idle, Account!Honoured, Account!Reaches,
       ConnT
<1>5. CASE Account!MigrateCompletes
    BY <1>5 DEF Account!MigrateCompletes, Account!Issues, Account!Fresh, Account!Honoured, ConnT
<1>6. CASE Account!MigratePersists
    BY <1>6 DEF Account!MigratePersists, Account!Saves, Account!Replaces, Account!Fault, ConnT
<1>7. CASE Account!MigrateLost
    BY <1>7 DEF Account!MigrateLost, Account!Fault, ConnT
<1>8. CASE (\E p \in BOOLEAN : Account!AcceptSends(p))
    BY <1>8 DEF Account!AcceptSends, Account!Begins, Account!Idle, ConnT
<1>9. CASE Account!AcceptAnswered
    BY <1>9 DEF Account!AcceptAnswered, Account!Issues, Account!Fresh, Account!Honoured, Account!Proven,
       Account!RotatesToken, ConnT
<1>10. CASE Account!AcceptPersists
    BY <1>10 DEF Account!AcceptPersists, Account!Saves, Account!Replaces, Account!Fault,
       Account!Unchanged, ConnT
<1>11. CASE Account!AcceptLost
    BY <1>11 DEF Account!AcceptLost, Account!Fault, ConnT
<1>12. CASE Account!MoveAsks
    BY <1>12 DEF Account!MoveAsks, Account!Begins, Account!Idle, ConnT
<1>13. CASE Account!MovePersists
    BY <1>13 DEF Account!MovePersists, Account!Saves, Account!Replaces, Account!Fault, ConnT
<1>14. CASE Account!RequestSends
    BY <1>14 DEF Account!RequestSends, Account!Begins, Account!Idle, ConnT
<1>15. CASE Account!RequestAnswered
    BY <1>15 DEF Account!RequestAnswered, ConnT
<1>16. CASE Account!RequestTaken
    BY <1>16 DEF Account!RequestTaken, ConnT
<1>17. CASE (\E r \in Recs : Account!Probe(r))
    BY <1>17 DEF Account!Probe, Account!Idle, ConnT
<1>18. CASE (\E r \in Recs : Account!Derive(r))
    BY <1>18 DEF Account!Derive, Account!Saves, Account!Replaces, Account!Fault, Account!Alarmed, ConnT
<1>19. CASE (\E r \in Recs : Account!FollowPersists(r))
  <2> PICK r \in Recs : Account!FollowPersists(r)
    BY <1>19
  <2>1. conn \in ConnT
    BY VerifiedRec DEF Account!FollowPersists
  <2>3. conn' # None /\ conn'.token = conn.token /\ conn'.https = conn.https
    BY <2>1, FollowKeeps
  <2>4. lost' = lost \/ lost'
    BY DEF Account!FollowPersists, Account!Saves
  <2> QED BY <2>1, <2>3, <2>4 DEF Account!FollowPersists
<1> QED BY <1>1, <1>2, <1>3, <1>4, <1>5, <1>6, <1>7, <1>8, <1>9, <1>10, <1>11, <1>12, <1>13, <1>14,
           <1>15, <1>16, <1>17, <1>18, <1>19 DEF Account!Next

\* A step of the server alone, or of the clock.
LEMMA TokensStay ==
    ASSUME TokensInv, UNCHANGED <<device, conn, mig, acc, req, tlsTokens>>
    PROVE  TokensInv'
<1>1. /\ device' = device /\ conn' = conn /\ mig' = mig /\ acc' = acc /\ req' = req
      /\ tlsTokens' = tlsTokens
    OBVIOUS
<1> QED BY <1>1 DEF TokensInv, Holds, Account!NoOp

LEMMA TokensInvKept == ASSUME AccountApart, AccountInv, Account!Next PROVE TokensInv'
<1>1. CASE Account!Owner
  <2>1. UNCHANGED <<device, conn, mig, acc, req, tlsTokens>>
    BY <1>1 DEF Account!Owner
  <2> QED BY <2>1, TokensStay DEF AccountInv
<1>2. CASE Account!Expires
  <2>1. UNCHANGED <<device, conn, mig, acc, req, tlsTokens>>
    BY <1>2 DEF Account!Expires
  <2> QED BY <2>1, TokensStay DEF AccountInv
<1> USE DEF AccountApart, AccountInv, AccountShapes, Unjoined, TokensInv, TokenIsSomewhere, Holds,
        Account!NoOp, MigT, AccT, MoveT, ReqT, RecT
<1>3. CASE (\E h \in BOOLEAN : Account!Join(h))
    BY <1>3 DEF Account!Join, Account!Issues, Account!Fresh, ConnT
<1>4. CASE Account!MigrateAsks
    BY <1>4 DEF Account!MigrateAsks, Account!Begins, Account!Idle, Account!Honoured, Account!Reaches,
       ConnT
<1>5. CASE Account!MigrateCompletes
  <2>1. mig \in MigT /\ mig # Account!NoOp /\ mig.at = "info"
    BY <1>5 DEF Account!MigrateCompletes
  <2>2. CASE Account!Honoured(mig.cand.token) /\ Account!Issues("tls")
                 /\ mig' = [at |-> "answered",
                        cand |-> [mig.cand EXCEPT !.token = Account!Fresh, !.sec = "ok"]]
    <3>1. mig'.at = "answered" /\ mig'.cand.token = Account!Fresh /\ mig'.cand.https
        <4>1. mig.cand \in ConnT
            BY <2>1
        <4>2. [mig.cand EXCEPT !.token = Account!Fresh, !.sec = "ok"].token = Account!Fresh
                  /\ [mig.cand EXCEPT !.token = Account!Fresh, !.sec = "ok"].https = mig.cand.https
            <5> PICK k \in ConnT : k = mig.cand
                BY <4>1
            <5> PICK t \in 1..MaxTokens : t = Account!Fresh
                BY <2>2, NewToken
            <5>1. /\ [k EXCEPT !.token = t, !.sec = "ok"].token = t
                  /\ [k EXCEPT !.token = t, !.sec = "ok"].https = k.https
                BY DEF ConnT
            <5> QED BY <5>1
        <4> QED BY <2>1, <2>2, <4>2
    <3>2. Account!Fresh > device.token /\ device'.token = Account!Fresh /\ device'.security = "tls"
              /\ tlsTokens' = tlsTokens \cup {Account!Fresh}
        BY <2>2, NewToken
    <3>3. device.security = "plain"
        BY <2>1, <2>2 DEF Account!Honoured
    <3>4. (\A t \in tlsTokens' : t <= device'.token) /\ device'.token \in tlsTokens'
        BY <3>2, LaterTokens
    <3>5. conn # None => conn.token <= device'.token /\ (conn.https \/ conn.token \notin tlsTokens')
        BY <3>2, Later
    <3>6. req # Account!NoOp => req.c.token <= device'.token
              /\ (req.c.https \/ req.c.token \notin tlsTokens')
        BY <3>2, Later
    <3>7. acc # Account!NoOp => acc.cand.token <= device'.token
              /\ (acc.cand.https \/ acc.cand.token \notin tlsTokens')
        BY <3>2, Later
    <3>8. UNCHANGED <<conn, acc, req>> /\ mig' # Account!NoOp
        BY <1>5, <2>2 DEF Account!MigrateCompletes
    <3> QED BY <3>1, <3>2, <3>3, <3>4, <3>5, <3>6, <3>7, <3>8
  <2>3. CASE mig' = Account!NoOp /\ UNCHANGED <<device, tlsTokens>>
    BY <1>5, <2>3 DEF Account!MigrateCompletes
  <2> QED BY <1>5, <2>2, <2>3 DEF Account!MigrateCompletes
<1>6. CASE Account!MigratePersists
  <2>1. mig \in MigT /\ mig # Account!NoOp /\ mig.cand.https /\ conn # None
    BY <1>6 DEF Account!MigratePersists
  <2>2. mig' = Account!NoOp /\ (conn' = conn \/ conn' = mig.cand)
    BY <1>6 DEF Account!MigratePersists, Account!Saves, Account!Replaces
  <2>3. mig.cand.token = device.token
    BY <1>6 DEF Account!MigratePersists
  <2>4. mig.cand.token <= device.token
    BY <2>1, <2>3
  <2>5. conn' # None => Holds(conn)'
    BY <2>1, <2>2, <2>4, <1>6 DEF Account!MigratePersists
  <2> QED BY <1>6, <2>2, <2>5 DEF Account!MigratePersists
<1>7. CASE Account!MigrateLost
    BY <1>7 DEF Account!MigrateLost, Account!Fault, ConnT
<1>8. CASE (\E p \in BOOLEAN : Account!AcceptSends(p))
    BY <1>8 DEF Account!AcceptSends, Account!Begins, Account!Idle, ConnT
<1>9. CASE Account!AcceptAnswered
  <2>1. acc \in AccT /\ acc # Account!NoOp /\ acc.at = "sent" /\ ~acc.new /\ acc.cand \in ConnT
    BY <1>9 DEF Account!AcceptAnswered
  <2>2. CASE Account!RotatesToken(acc.cand) /\ Account!Issues("tls")
                 /\ acc' = [acc EXCEPT !.at = "answered", !.new = TRUE, !.cand.token = Account!Fresh]
    <3>1. acc'.at = "answered" /\ acc'.new /\ acc'.cand.token = Account!Fresh /\ acc'.cand.https
        BY <2>1, <2>2, NewToken, GivenAccept DEF Account!RotatesToken
    <3>2. Account!Fresh > device.token /\ device'.token = Account!Fresh /\ device'.security = "tls"
              /\ tlsTokens' = tlsTokens \cup {Account!Fresh}
        BY <2>2, NewToken
    <3>3. device.security = "plain"
        BY <2>2 DEF Account!RotatesToken
    <3>4. (\A t \in tlsTokens' : t <= device'.token) /\ device'.token \in tlsTokens'
        BY <3>2, LaterTokens
    <3>5. conn # None => conn.token <= device'.token /\ (conn.https \/ conn.token \notin tlsTokens')
        BY <3>2, Later
    <3>6. req # Account!NoOp => req.c.token <= device'.token
              /\ (req.c.https \/ req.c.token \notin tlsTokens')
        BY <3>2, Later
    <3>7. mig.at = "info" => mig.cand.token \notin tlsTokens' /\ mig.cand.token <= device'.token
        <4> HAVE mig.at = "info"
        <4>1. mig \in MigT /\ mig.cand \in ConnT
            BY DEF Account!MigrateAsks
        <4>2. mig.cand.token \in 1..MaxTokens /\ device.token \in 0..MaxTokens
            BY <4>1 DEF ConnT
        <4> QED BY <3>2, <4>2, LaterTokens
    <3>8. UNCHANGED <<conn, mig, req>>
        BY <1>9 DEF Account!AcceptAnswered
    <3> QED BY <3>1, <3>2, <3>3, <3>4, <3>5, <3>6, <3>7, <3>8
  <2>3. CASE UNCHANGED <<device, tlsTokens>> /\ acc' = Account!NoOp
    BY <1>9, <2>3 DEF Account!AcceptAnswered
  <2>4. CASE UNCHANGED <<device, tlsTokens>> /\ acc' = [acc EXCEPT !.at = "answered"]
    <3>1. acc'.cand = acc.cand /\ acc'.from = acc.from /\ acc'.new = acc.new
        BY <2>1, <2>4
    <3> QED BY <1>9, <2>1, <2>4, <3>1 DEF Account!AcceptAnswered
  <2> QED BY <1>9, <2>2, <2>3, <2>4 DEF Account!AcceptAnswered
<1>10. CASE Account!AcceptPersists
    BY <1>10 DEF Account!AcceptPersists, Account!Saves, Account!Replaces, Account!Fault,
       Account!Unchanged, ConnT
<1>11. CASE Account!AcceptLost
    BY <1>11 DEF Account!AcceptLost, Account!Fault, ConnT
<1>12. CASE Account!MoveAsks
    BY <1>12 DEF Account!MoveAsks, Account!Begins, Account!Idle, ConnT
<1>13. CASE Account!MovePersists
    BY <1>13 DEF Account!MovePersists, Account!Saves, Account!Replaces, Account!Fault, ConnT
<1>14. CASE Account!RequestSends
    BY <1>14 DEF Account!RequestSends, Account!Begins, Account!Idle, ConnT
<1>15. CASE Account!RequestAnswered
    BY <1>15 DEF Account!RequestAnswered, ConnT
<1>16. CASE Account!RequestTaken
    BY <1>16 DEF Account!RequestTaken, ConnT
<1>17. CASE (\E r \in Recs : Account!Probe(r))
    BY <1>17 DEF Account!Probe, Account!Idle, ConnT
<1>18. CASE (\E r \in Recs : Account!Derive(r))
    BY <1>18 DEF Account!Derive, Account!Saves, Account!Replaces, Account!Fault, Account!Alarmed, ConnT
<1>19. CASE (\E r \in Recs : Account!FollowPersists(r))
  <2> PICK r \in Recs : Account!FollowPersists(r)
    BY <1>19
  <2>1. conn \in ConnT
    BY VerifiedRec DEF Account!FollowPersists
  <2>3. conn' # None /\ conn'.token = conn.token /\ conn'.https = conn.https
    BY <2>1, FollowKeeps
  <2>4. lost' = lost \/ lost'
    BY DEF Account!FollowPersists, Account!Saves
  <2> QED BY <2>1, <2>3, <2>4 DEF Account!FollowPersists
<1> QED BY <1>1, <1>2, <1>3, <1>4, <1>5, <1>6, <1>7, <1>8, <1>9, <1>10, <1>11, <1>12, <1>13, <1>14,
           <1>15, <1>16, <1>17, <1>18, <1>19 DEF Account!Next

LEMMA TokenIsSomewhereKept == ASSUME AccountApart, AccountInv, Account!Next PROVE TokenIsSomewhere'
<1> USE DEF AccountApart, AccountInv, AccountShapes, Unjoined, TokensInv, TokenIsSomewhere, Holds,
        Account!NoOp, MigT, AccT, MoveT, ReqT, RecT
<1>1. CASE Account!Owner
    BY <1>1 DEF Account!Owner, Account!Migrates, Account!Enforces, Account!Rotates, Account!MovesAway,
       ConnT
<1>2. CASE Account!Expires
    BY <1>2 DEF Account!Expires, ConnT
<1>3. CASE (\E h \in BOOLEAN : Account!Join(h))
    BY <1>3 DEF Account!Join, Account!Issues, Account!Fresh, ConnT
<1>4. CASE Account!MigrateAsks
    BY <1>4 DEF Account!MigrateAsks, Account!Begins, Account!Idle, Account!Honoured, Account!Reaches,
       ConnT
<1>5. CASE Account!MigrateCompletes
    BY <1>5 DEF Account!MigrateCompletes, Account!Issues, Account!Fresh, Account!Honoured, ConnT
<1>6. CASE Account!MigratePersists
    BY <1>6 DEF Account!MigratePersists, Account!Saves, Account!Replaces, Account!Fault, ConnT
<1>7. CASE Account!MigrateLost
    BY <1>7 DEF Account!MigrateLost, Account!Fault, ConnT
<1>8. CASE (\E p \in BOOLEAN : Account!AcceptSends(p))
    BY <1>8 DEF Account!AcceptSends, Account!Begins, Account!Idle, ConnT
<1>9. CASE Account!AcceptAnswered
  <2>1. acc \in AccT /\ acc # Account!NoOp /\ acc.at = "sent" /\ ~acc.new
    BY <1>9 DEF Account!AcceptAnswered
  <2>2. CASE Account!Issues("tls") /\ acc' = [acc EXCEPT !.at = "answered", !.new = TRUE,
                 !.cand.token = Account!Fresh]
    <3>1. acc'.new /\ acc' # Account!NoOp
        <4>1. acc' \in AccT
            BY <2>1, <2>2, NewToken, GivenAccept
        <4> QED BY <2>1, <2>2, <4>1
    <3> QED BY <1>9, <3>1 DEF Account!AcceptAnswered
  <2>3. CASE UNCHANGED <<device, tlsTokens>>
    BY <1>9, <2>1, <2>3 DEF Account!AcceptAnswered
  <2> QED BY <1>9, <2>2, <2>3 DEF Account!AcceptAnswered
<1>10. CASE Account!AcceptPersists
  <2> SUFFICES ASSUME ~lost', ~raced'
               PROVE  conn'.token = device'.token \/ mig'.at = "answered"
    OBVIOUS
  <2>1. acc \in AccT /\ acc # Account!NoOp /\ conn \in ConnT
    BY <1>10 DEF Account!AcceptPersists
  <2>2. UNCHANGED <<device, mig>> /\ ~raced /\ ~lost
    BY <1>10 DEF Account!AcceptPersists, Account!Saves, Account!Fault
  <2>3. CASE Account!Unchanged
    BY <1>10, <2>1, <2>2, <2>3 DEF Account!AcceptPersists, Account!Unchanged
  <2>4. CASE ~Account!Unchanged /\ acc.new
    BY <1>10, <2>1, <2>2, <2>4 DEF Account!AcceptPersists, Account!Saves, Account!Replaces
  <2>5. CASE ~Account!Unchanged /\ ~acc.new
    <3>1. conn = acc.from
        BY <1>10, <2>2, <2>5 DEF Account!AcceptPersists
    <3>2. conn'.token = conn.token
        BY <1>10, <2>1, <2>5, <3>1 DEF Account!AcceptPersists, Account!Saves, Account!Replaces
    <3> QED BY <2>1, <2>2, <2>5, <3>2
  <2> QED BY <2>3, <2>4, <2>5
<1>11. CASE Account!AcceptLost
    BY <1>11 DEF Account!AcceptLost, Account!Fault, ConnT
<1>12. CASE Account!MoveAsks
    BY <1>12 DEF Account!MoveAsks, Account!Begins, Account!Idle, ConnT
<1>13. CASE Account!MovePersists
    BY <1>13 DEF Account!MovePersists, Account!Saves, Account!Replaces, Account!Fault, ConnT
<1>14. CASE Account!RequestSends
    BY <1>14 DEF Account!RequestSends, Account!Begins, Account!Idle, ConnT
<1>15. CASE Account!RequestAnswered
    BY <1>15 DEF Account!RequestAnswered, ConnT
<1>16. CASE Account!RequestTaken
    BY <1>16 DEF Account!RequestTaken, ConnT
<1>17. CASE (\E r \in Recs : Account!Probe(r))
    BY <1>17 DEF Account!Probe, Account!Idle, ConnT
<1>18. CASE (\E r \in Recs : Account!Derive(r))
    BY <1>18 DEF Account!Derive, Account!Saves, Account!Replaces, Account!Fault, Account!Alarmed, ConnT
<1>19. CASE (\E r \in Recs : Account!FollowPersists(r))
  <2> PICK r \in Recs : Account!FollowPersists(r)
    BY <1>19
  <2>1. conn \in ConnT
    BY VerifiedRec DEF Account!FollowPersists
  <2>3. conn' # None /\ conn'.token = conn.token /\ conn'.https = conn.https
    BY <2>1, FollowKeeps
  <2>4. (~lost' => ~lost) /\ raced' = raced
    BY DEF Account!FollowPersists, Account!Saves
  <2> QED BY <2>1, <2>3, <2>4 DEF Account!FollowPersists
<1> QED BY <1>1, <1>2, <1>3, <1>4, <1>5, <1>6, <1>7, <1>8, <1>9, <1>10, <1>11, <1>12, <1>13, <1>14,
           <1>15, <1>16, <1>17, <1>18, <1>19 DEF Account!Next

LEMMA AccountInit == ASSUME AccountApart PROVE Account!Init => AccountInv
<1> SUFFICES ASSUME Account!Init
             PROVE  AccountInv
    OBVIOUS
<1> USE DEF Account!Init, AccountApart, Account!NoOp
<1>1. AccountShapes
    <2>1. relay \in [state: {"plain_legacy", "tls_migrating", "tls_enforced", "pinned_tls"},
            strict: BOOLEAN, id: 1..MaxIds, addr: 1..2]
        <3>1. 1 \in 1..MaxIds
            OBVIOUS
        <3>2. \/ relay = [state |-> "plain_legacy", strict |-> FALSE, id |-> 1, addr |-> 1]
              \/ relay = [state |-> "pinned_tls", strict |-> FALSE, id |-> 1, addr |-> 1]
            OBVIOUS
        <3>3. 1 \in 1..2 /\ FALSE \in BOOLEAN
            OBVIOUS
        <3>4. CASE relay = [state |-> "plain_legacy", strict |-> FALSE, id |-> 1, addr |-> 1]
            BY ONLY <3>1, <3>3, <3>4
        <3>5. CASE relay = [state |-> "pinned_tls", strict |-> FALSE, id |-> 1, addr |-> 1]
            BY ONLY <3>1, <3>3, <3>5
        <3> QED BY <3>2, <3>4, <3>5
    <2>2. device \in [token: 0..MaxTokens, security: {"plain", "tls"}]
        OBVIOUS
    <2> QED BY <2>1, <2>2 DEF AccountShapes
<1>2. Unjoined /\ TokensInv /\ TokenIsSomewhere
    BY DEF Unjoined, TokensInv, TokenIsSomewhere
<1> QED BY <1>1, <1>2 DEF AccountInv

LEMMA AccountStep ==
    ASSUME AccountApart
    PROVE  AccountInv /\ [Account!Next]_(Account!vars) => AccountInv'
<1>1. ASSUME AccountInv, Account!Next
      PROVE  AccountInv'
    BY <1>1, ShapesKept, UnjoinedKept, TokensInvKept, TokenIsSomewhereKept DEF AccountInv
<1>2. ASSUME AccountInv, UNCHANGED Account!vars
      PROVE  AccountInv'
    BY <1>2 DEF AccountInv, AccountShapes, Unjoined, TokensInv, TokenIsSomewhere, Holds, Account!NoOp,
       Account!vars
<1> QED BY <1>1, <1>2

LEMMA AccountGives ==
    ASSUME AccountApart
    PROVE  AccountInv => Account!TypeOK /\ Account!SavedTokenIsHonoured /\ Account!TlsTokensStayOnTls
<1> SUFFICES ASSUME AccountInv
             PROVE  Account!TypeOK /\ Account!SavedTokenIsHonoured /\ Account!TlsTokensStayOnTls
    OBVIOUS
<1>1. Account!TypeOK
    BY DEF AccountInv, AccountShapes, Account!TypeOK, ConnT
<1>2. Account!SavedTokenIsHonoured
    BY DEF AccountInv, AccountShapes, TokensInv, TokenIsSomewhere, Account!SavedTokenIsHonoured,
       AccountApart, Account!NoOp
<1>3. Account!TlsTokensStayOnTls
    BY DEF AccountInv, AccountShapes, TokensInv, Holds, Account!TlsTokensStayOnTls, AccountApart,
       Account!NoOp, Account!Idle, AccT, ReqT
<1> QED BY <1>1, <1>2, <1>3

\* However migrations, invites, recoveries and requests overlap, the saved token is the one
\* the relay accepts, or its answer is on the way, unless an answer or a save was lost or an
\* invite put an old connection back; and a token handed out over TLS is sent over TLS only,
\* whatever is lost (ServerConnectionManager.ts migrateConnection, acceptInviteForServer).
THEOREM TokenHonoured ==
    ASSUME AccountApart
    PROVE  Account!Spec => [](Account!TypeOK /\ Account!SavedTokenIsHonoured
           /\ Account!TlsTokensStayOnTls)
<1> QED BY AccountInit, AccountStep, AccountGives, PTL DEF Account!Spec

(***************************************************************************)
(* The alarm.                                                              *)
(***************************************************************************)
ChainOf(c) == c.applied \subseteq 2..c.pin /\ c.pin <= relay.id /\ (c.https => c.pin >= 1)

\* The records applied are those up to the pin, and nobody has heard of a rotation to come.
ChainsInv ==
    /\ conn # None => ChainOf(conn)
    /\ mig # Account!NoOp => ChainOf(mig.cand)
    /\ acc # Account!NoOp => ChainOf(acc.cand)
    /\ \A r \in Recs : rec[r] # Account!NoOp => rec[r].n <= relay.id
    /\ \A r \in Recs : rec[r].at = "verified" => rec[r].applied \subseteq 2..rec[r].n

\* A recovery is of a pinned connection, and only a pinned one has an alarm.
QuietInv ==
    ~raced =>
        /\ \A r \in Recs : rec[r] # Account!NoOp => conn.https
        /\ conn # None /\ ~conn.https => conn.sec # "pin_mismatch"
        /\ mig # Account!NoOp => mig.cand.sec # "pin_mismatch"
        /\ acc # Account!NoOp => acc.cand.sec # "pin_mismatch" /\ (acc.cand.https \/ ~acc.from.https)

AlarmInv == AccountInv /\ ChainsInv /\ QuietInv

LEMMA AccountGrows ==
    ASSUME AccountApart, AccountShapes, Account!Owner
    PROVE  relay'.id \in 1..MaxIds /\ relay'.id >= relay.id /\ UNCHANGED <<conn, mig, acc, move, req,
           rec, raced>>
<1>1. UNCHANGED <<conn, mig, acc, move, req, rec, raced>>
    BY DEF Account!Owner
<1>2. relay.id \in 1..MaxIds
    BY DEF AccountShapes
<1>3. CASE \E s \in BOOLEAN : Account!Migrates(s)
    BY <1>1, <1>2, <1>3 DEF Account!Migrates, AccountShapes
<1>4. CASE Account!Enforces
    BY <1>1, <1>2, <1>4 DEF Account!Enforces, AccountShapes
<1>5. CASE Account!Rotates
    BY <1>1, <1>2, <1>5 DEF Account!Rotates, AccountShapes, AccountApart
<1>6. CASE Account!MovesAway
    BY <1>1, <1>2, <1>6 DEF Account!MovesAway, AccountShapes
<1> QED BY <1>3, <1>4, <1>5, <1>6 DEF Account!Owner

LEMMA PinnedChain ==
    ASSUME AccountShapes, conn \in ConnT, ChainOf(conn), NEW s \in {"ok", "migrating", "pin_mismatch"}
    PROVE  ChainOf([conn EXCEPT !.https = TRUE, !.addr = relay.addr, !.pin = relay.id, !.sec = s])
<1> DEFINE c == [conn EXCEPT !.https = TRUE, !.addr = relay.addr, !.pin = relay.id, !.sec = s]
<1>1. relay.id \in 1..MaxIds /\ conn.pin \in 0..MaxIds /\ conn.applied \subseteq 2..conn.pin
          /\ conn.pin <= relay.id
    BY DEF AccountShapes, ConnT, ChainOf
<1>2. c.pin = relay.id /\ c.applied = conn.applied
    BY DEF ConnT
<1> HIDE DEF c
<1>3. c.applied \subseteq 2..c.pin /\ c.pin <= relay.id /\ c.pin >= 1
    BY <1>1, <1>2
<1> QED BY <1>3 DEF ChainOf, c

LEMMA SameChain ==
    ASSUME NEW c \in ConnT, NEW t \in 1..MaxTokens
    PROVE  /\ ChainOf(c) => ChainOf([c EXCEPT !.token = t, !.sec = "ok"])
              /\ ChainOf([c EXCEPT !.token = t])
           /\ [c EXCEPT !.token = t, !.sec = "ok"].sec = "ok" /\ [c EXCEPT !.token = t].sec = c.sec
           /\ [c EXCEPT !.token = t].https = c.https
BY DEF ConnT, ChainOf

\* What an answered migration, an answered invite keep of their connection.
LEMMA Answers ==
    ASSUME AccountApart, AccountShapes
    PROVE  /\ Account!MigrateCompletes => mig # Account!NoOp
              /\ (mig' = Account!NoOp \/ (mig'.cand.sec = "ok"
                     /\ (ChainOf(mig.cand) => ChainOf(mig'.cand))))
           /\ Account!AcceptAnswered => /\ acc # Account!NoOp
                                /\ \/ acc' = Account!NoOp
                                   \/ /\ acc'.cand.sec = acc.cand.sec /\ acc'.cand.https = acc.cand.https
                                      /\ acc'.from = acc.from
                                      /\ ChainOf(acc.cand) => ChainOf(acc'.cand)
<1>1. ASSUME Account!MigrateCompletes
      PROVE  mig # Account!NoOp /\ (mig' = Account!NoOp
             \/ (mig'.cand.sec = "ok" /\ (ChainOf(mig.cand) => ChainOf(mig'.cand))))
    <2>1. mig \in MigT /\ mig # Account!NoOp
        BY <1>1 DEF Account!MigrateCompletes, AccountShapes, AccountApart, Account!NoOp
    <2>2. CASE Account!Issues("tls") /\ mig' = [at |-> "answered",
                   cand |-> [mig.cand EXCEPT !.token = Account!Fresh, !.sec = "ok"]]
        <3>1. Account!Fresh \in 1..MaxTokens /\ mig.cand \in ConnT
                  /\ mig'.cand = [mig.cand EXCEPT !.token = Account!Fresh, !.sec = "ok"]
            BY <2>1, <2>2, NewToken DEF MigT
        <3>2. [mig.cand EXCEPT !.token = Account!Fresh, !.sec = "ok"].sec = "ok"
            BY <3>1, SameChain
        <3>3. ChainOf(mig.cand) => ChainOf([mig.cand EXCEPT !.token = Account!Fresh, !.sec = "ok"])
            BY <3>1, SameChain
        <3> QED BY <2>1, <3>1, <3>2, <3>3
    <2> QED BY <1>1, <2>1, <2>2 DEF Account!MigrateCompletes
<1>2. ASSUME Account!AcceptAnswered
      PROVE  /\ acc # Account!NoOp
             /\ \/ acc' = Account!NoOp
                \/ /\ acc'.cand.sec = acc.cand.sec /\ acc'.cand.https = acc.cand.https
                   /\ acc'.from = acc.from
                   /\ ChainOf(acc.cand) => ChainOf(acc'.cand)
    <2>1. acc \in AccT /\ acc # Account!NoOp
        BY <1>2 DEF Account!AcceptAnswered, AccountShapes, AccountApart, Account!NoOp
    <2>2. CASE Account!Issues("tls") /\ acc' = [acc EXCEPT !.at = "answered", !.new = TRUE,
                   !.cand.token = Account!Fresh]
        <3>1. Account!Fresh \in 1..MaxTokens /\ acc.cand \in ConnT
            BY <2>1, <2>2, NewToken DEF AccT
        <3>2. acc'.cand = [acc.cand EXCEPT !.token = Account!Fresh] /\ acc'.from = acc.from
            BY <2>1, <2>2 DEF AccT
        <3> PICK k \in ConnT, t \in 1..MaxTokens : k = acc.cand /\ t = Account!Fresh
            BY <3>1
        <3>3. /\ ChainOf(k) => ChainOf([k EXCEPT !.token = t])
              /\ [k EXCEPT !.token = t].sec = k.sec /\ [k EXCEPT !.token = t].https = k.https
            BY ZenonT(40), SameChain
        <3>4. acc'.cand = [k EXCEPT !.token = t]
            BY <3>2
        <3>5. acc'.cand.sec = acc.cand.sec /\ acc'.cand.https = acc.cand.https
            BY <3>3, <3>4
        <3>6. ChainOf(k) => ChainOf(acc'.cand)
            BY <3>3, <3>4
        <3> QED BY <2>1, <3>2, <3>5, <3>6
    <2>3. CASE acc' = [acc EXCEPT !.at = "answered"]
        <3>1. acc'.cand = acc.cand /\ acc'.from = acc.from
            BY <2>1, <2>3 DEF AccT
        <3> QED BY <2>1, <3>1
    <2> QED BY <1>2, <2>1, <2>2, <2>3 DEF Account!AcceptAnswered
<1> QED BY <1>1, <1>2

LEMMA DeriveGives ==
    ASSUME AccountApart, AccountShapes, Unjoined, NEW r \in Recs, Account!Derive(r)
    PROVE  /\ conn \in ConnT /\ rec[r] # Account!NoOp /\ rec[r].n \in 1..MaxIds
           /\ UNCHANGED <<relay, mig, acc, raced>>
           /\ \/ conn' = conn \/ (conn' = [conn EXCEPT !.sec = "pin_mismatch"] /\ conn.pin # rec[r].n
                     /\ ~Account!Follows(conn, rec[r].n)
                                  /\ rec[r].at = "probed")
           /\ \A q \in Recs : rec'[q] = rec[q] \/ (q = r /\
                \/ rec'[q] = Account!NoOp
                \/ /\ rec'[q] = [at |-> "verified", n |-> rec[r].n,
                          applied |-> conn.applied \cup 2..rec[r].n]
                   /\ conn' = conn /\ Account!Follows(conn, rec[r].n))
<1>1. rec[r].at = "probed" /\ UNCHANGED <<relay, mig, acc, raced>>
    BY DEF Account!Derive
<1>2. rec[r] # Account!NoOp /\ conn \in ConnT
    BY <1>1 DEF AccountShapes, Unjoined, AccountApart, Account!NoOp
<1>3. rec[r].n \in 1..MaxIds
    BY <1>1, <1>2 DEF AccountShapes, RecT, Account!NoOp
<1>4. rec \in [Recs -> {Account!NoOp} \cup RecT]
    BY DEF AccountShapes
<1> QED BY <1>1, <1>2, <1>3, <1>4 DEF Account!Derive, Account!Saves, Account!Replaces, Account!Alarmed

LEMMA ChainsInvKept == ASSUME AccountApart, AlarmInv, Account!Next PROVE ChainsInv'
<1> USE DEF AccountApart, AlarmInv, AccountInv, AccountShapes, Unjoined, ChainsInv, Account!NoOp, MigT,
        AccT, MoveT, ReqT, RecT, ChainOf
<1>1. CASE Account!Owner
  <2>1. relay'.id >= relay.id /\ relay'.id \in 1..MaxIds /\ relay.id \in 1..MaxIds
            /\ UNCHANGED <<conn, mig, acc, rec>>
    BY <1>1, AccountGrows
  <2>2. \A n \in Nat : n <= relay.id => n <= relay'.id
    BY <2>1
  <2>3. conn # None => ChainOf(conn)'
    BY <2>1, <2>2 DEF ConnT
  <2>4. mig # Account!NoOp => ChainOf(mig.cand)'
    BY <2>1, <2>2 DEF ConnT
  <2>5. acc # Account!NoOp => ChainOf(acc.cand)'
    BY <2>1, <2>2 DEF ConnT
  <2>6. \A r \in Recs : rec'[r] # Account!NoOp => rec'[r].n <= relay'.id
    BY <2>1, <2>2
  <2> QED BY <2>1, <2>3, <2>4, <2>5, <2>6
<1>2. CASE Account!Expires
    BY <1>2 DEF Account!Expires, ConnT
<1>3. CASE (\E h \in BOOLEAN : Account!Join(h))
    BY <1>3 DEF Account!Join, ConnT
<1>4. CASE Account!MigrateAsks
  <2>1. ChainOf([conn EXCEPT !.https = TRUE, !.addr = relay.addr, !.pin = relay.id, !.sec = "migrating"])
    BY <1>4, PinnedChain DEF Account!MigrateAsks
  <2>2. ChainOf(mig'.cand) /\ UNCHANGED <<relay, conn, acc, rec>>
    BY <1>4, <2>1 DEF Account!MigrateAsks
  <2> QED BY <2>2
<1>5. CASE Account!MigrateCompletes
    BY <1>5, Answers DEF Account!MigrateCompletes
<1>6. CASE Account!MigratePersists
    BY <1>6 DEF Account!MigratePersists, Account!Saves, Account!Replaces, ConnT
<1>7. CASE Account!MigrateLost
    BY <1>7 DEF Account!MigrateLost, ConnT
<1>8. CASE (\E p \in BOOLEAN : Account!AcceptSends(p))
    BY <1>8 DEF Account!AcceptSends, ConnT
<1>9. CASE Account!AcceptAnswered
    BY <1>9, Answers DEF Account!AcceptAnswered
<1>10. CASE Account!AcceptPersists
    BY <1>10 DEF Account!AcceptPersists, Account!Saves, Account!Replaces, Account!Unchanged, ConnT
<1>11. CASE Account!AcceptLost
    BY <1>11 DEF Account!AcceptLost, ConnT
<1>12. CASE Account!MoveAsks
    BY <1>12 DEF Account!MoveAsks, ConnT
<1>13. CASE Account!MovePersists
    BY <1>13 DEF Account!MovePersists, Account!Saves, Account!Replaces, ConnT
<1>14. CASE Account!RequestSends
    BY <1>14 DEF Account!RequestSends, ConnT
<1>15. CASE Account!RequestAnswered
    BY <1>15 DEF Account!RequestAnswered, ConnT
<1>16. CASE Account!RequestTaken
    BY <1>16 DEF Account!RequestTaken, ConnT
<1>17. CASE (\E r \in Recs : Account!Probe(r))
    BY <1>17 DEF Account!Probe, Account!Idle, ConnT
<1>18. CASE (\E r \in Recs : Account!Derive(r))
  <2> PICK r \in Recs : Account!Derive(r)
    BY <1>18
  <2>1. conn \in ConnT /\ rec[r] # Account!NoOp /\ rec[r].n \in 1..MaxIds
            /\ UNCHANGED <<relay, mig, acc>> /\ rec[r].n <= relay.id
    BY DeriveGives
  <2>2. ChainOf(conn)'
    <3>1. conn' = conn \/ conn' = [conn EXCEPT !.sec = "pin_mismatch"]
        BY DeriveGives
    <3>2. conn'.pin = conn.pin /\ conn'.applied = conn.applied /\ conn'.https = conn.https
        BY <2>1, <3>1 DEF ConnT
    <3>3. relay' = relay /\ conn # None
        BY <2>1
    <3> QED BY <3>2, <3>3
  <2>6. \A q \in Recs : rec'[q] = rec[q] \/ (q = r /\
          \/ rec'[q] = Account!NoOp
          \/ /\ rec'[q] = [at |-> "verified", n |-> rec[r].n, applied |-> conn.applied \cup 2..rec[r].n]
             /\ Account!Follows(conn, rec[r].n))
    BY DeriveGives
  <2>3. Account!Follows(conn, rec[r].n) => conn.applied \cup 2..rec[r].n \subseteq 2..rec[r].n
    BY <2>1 DEF Account!Follows, ConnT
  <2>4. \A q \in Recs : rec'[q] # Account!NoOp => rec'[q].n <= relay.id
    <3> TAKE q \in Recs
    <3>1. CASE rec'[q] = rec[q]
        BY <2>1, <3>1
    <3>2. CASE rec'[q] = Account!NoOp
        BY <3>2
    <3>3. CASE rec'[q] = [at |-> "verified", n |-> rec[r].n, applied |-> conn.applied \cup 2..rec[r].n]
        BY <2>1, <3>3
    <3> QED BY <2>6, <3>1, <3>2, <3>3
  <2>5. \A q \in Recs : rec'[q].at = "verified" => rec'[q].applied \subseteq 2..rec'[q].n
    <3> TAKE q \in Recs
    <3>1. CASE rec'[q] = rec[q]
        BY <2>1, <3>1
    <3>2. CASE rec'[q] = Account!NoOp
        BY <3>2
    <3>3. CASE /\ rec'[q] = [at |-> "verified", n |-> rec[r].n,
                      applied |-> conn.applied \cup 2..rec[r].n]
               /\ Account!Follows(conn, rec[r].n)
        BY <2>3, <3>3
    <3> QED BY <2>6, <3>1, <3>2, <3>3
  <2> QED BY <2>1, <2>2, <2>4, <2>5
<1>19. CASE (\E r \in Recs : Account!FollowPersists(r))
  <2> PICK r \in Recs : Account!FollowPersists(r)
    BY <1>19
  <2>1. conn \in ConnT /\ rec[r] \in [at: {"verified"}, n: 1..MaxIds, applied: SUBSET (2..MaxIds)]
    BY VerifiedRec DEF Account!FollowPersists
  <2>2. conn' = conn \/ conn' = [conn EXCEPT !.pin = rec[r].n, !.applied = rec[r].applied, !.sec = "ok"]
    BY DEF Account!FollowPersists, Account!Saves, Account!Replaces, Account!Followed
  <2>3. rec[r].applied \subseteq 2..rec[r].n /\ rec[r].n <= relay.id /\ rec[r].n >= 1
    BY <2>1
  <2>4. ChainOf(conn)'
    <3>1. CASE conn' = conn
        BY <2>1, <3>1 DEF Account!FollowPersists
    <3>2. CASE conn' = [conn EXCEPT !.pin = rec[r].n, !.applied = rec[r].applied, !.sec = "ok"]
        <4>1. conn'.pin = rec[r].n /\ conn'.applied = rec[r].applied
            BY <2>1, <3>2 DEF ConnT
        <4> QED BY <2>3, <4>1 DEF Account!FollowPersists
    <3> QED BY <2>2, <3>1, <3>2
  <2> QED BY <2>4 DEF Account!FollowPersists
<1> QED BY <1>1, <1>2, <1>3, <1>4, <1>5, <1>6, <1>7, <1>8, <1>9, <1>10, <1>11, <1>12, <1>13, <1>14,
           <1>15, <1>16, <1>17, <1>18, <1>19 DEF Account!Next

LEMMA QuietStays ==
    ASSUME QuietInv, UNCHANGED <<conn, mig, acc, rec, raced>>
    PROVE  QuietInv'
<1>1. conn' = conn /\ mig' = mig /\ acc' = acc /\ rec' = rec /\ raced' = raced
    OBVIOUS
<1> QED BY <1>1 DEF QuietInv, Account!NoOp

LEMMA QuietInvKept == ASSUME AccountApart, AlarmInv, Account!Next PROVE QuietInv'
<1>1. CASE Account!Owner
  <2>1. UNCHANGED <<conn, mig, acc, rec, raced>>
    BY <1>1 DEF Account!Owner
  <2> QED BY <2>1, QuietStays DEF AlarmInv
<1>2. CASE Account!Expires
  <2>1. UNCHANGED <<conn, mig, acc, rec, raced>>
    BY <1>2 DEF Account!Expires
  <2> QED BY <2>1, QuietStays DEF AlarmInv
<1> USE DEF AccountApart, AlarmInv, AccountInv, AccountShapes, Unjoined, QuietInv, Account!NoOp, MigT,
        AccT, MoveT, ReqT, RecT
<1>3. CASE (\E h \in BOOLEAN : Account!Join(h))
    BY <1>3 DEF Account!Join, ConnT
<1>4. CASE Account!MigrateAsks
    BY ZenonT(40), <1>4 DEF Account!MigrateAsks, ConnT
<1>5. CASE Account!MigrateCompletes
    BY <1>5, Answers DEF Account!MigrateCompletes
<1>6. CASE Account!MigratePersists
  <2>1. mig \in MigT /\ mig # Account!NoOp /\ mig.cand.https /\ UNCHANGED <<raced, acc, rec>>
    BY <1>6 DEF Account!MigratePersists, TokensInv
  <2>2. mig' = Account!NoOp /\ (conn' = conn \/ conn' = mig.cand)
    BY <1>6 DEF Account!MigratePersists, Account!Saves, Account!Replaces
  <2> QED BY <2>1, <2>2
<1>7. CASE Account!MigrateLost
    BY <1>7 DEF Account!MigrateLost, ConnT
<1>8. CASE (\E p \in BOOLEAN : Account!AcceptSends(p))
    BY <1>8 DEF Account!AcceptSends, ConnT
<1>9. CASE Account!AcceptAnswered
    BY <1>9, Answers DEF Account!AcceptAnswered
<1>10. CASE Account!AcceptPersists
    BY <1>10 DEF Account!AcceptPersists, Account!Saves, Account!Replaces, Account!Unchanged, ConnT
<1>11. CASE Account!AcceptLost
    BY <1>11 DEF Account!AcceptLost, ConnT
<1>12. CASE Account!MoveAsks
    BY <1>12 DEF Account!MoveAsks, ConnT
<1>13. CASE Account!MovePersists
    BY <1>13 DEF Account!MovePersists, Account!Saves, Account!Replaces, ConnT
<1>14. CASE Account!RequestSends
    BY <1>14 DEF Account!RequestSends, ConnT
<1>15. CASE Account!RequestAnswered
    BY <1>15 DEF Account!RequestAnswered, ConnT
<1>16. CASE Account!RequestTaken
    BY <1>16 DEF Account!RequestTaken, ConnT
<1>17. CASE (\E r \in Recs : Account!Probe(r))
    BY <1>17 DEF Account!Probe, Account!Idle, ConnT
<1>18. CASE (\E r \in Recs : Account!Derive(r))
    BY <1>18 DEF Account!Derive, Account!Saves, Account!Replaces, Account!Alarmed, ConnT
<1>19. CASE (\E r \in Recs : Account!FollowPersists(r))
  <2> PICK r \in Recs : Account!FollowPersists(r)
    BY <1>19
  <2>1. conn \in ConnT /\ rec[r] # Account!NoOp
    BY VerifiedRec DEF Account!FollowPersists
  <2>2. conn'.https = conn.https
    BY <2>1, FollowKeeps
  <2>3. UNCHANGED <<raced, mig, acc>> /\ rec' = [rec EXCEPT ![r] = Account!NoOp]
    BY DEF Account!FollowPersists
  <2> QED BY <2>1, <2>2, <2>3
<1> QED BY <1>1, <1>2, <1>3, <1>4, <1>5, <1>6, <1>7, <1>8, <1>9, <1>10, <1>11, <1>12, <1>13, <1>14,
           <1>15, <1>16, <1>17, <1>18, <1>19 DEF Account!Next

\* A connection with a record it has not applied is behind one it can follow.
LEMMA CanFollow ==
    ASSUME AccountApart, AccountShapes, NEW c \in ConnT, ChainOf(c), c.https, ~Account!Late(c),
           NEW n \in 1..MaxIds, c.pin < n, 2..n \cap expired = {}
    PROVE  Account!Follows(c, n)
<1>1. c.pin \in 1..MaxIds /\ c.applied \subseteq 2..c.pin /\ 2..c.pin \subseteq c.applied
    BY DEF ConnT, ChainOf, Account!Late
<1>2. c.pin \in 1..n /\ 2..c.pin \subseteq c.applied /\ c.pin + 1 \notin c.applied
    BY <1>1
<1>3. \A p \in 1..n : 2..p \subseteq c.applied /\ (p = n \/ p + 1 \notin c.applied) => p = c.pin
    <2> SUFFICES ASSUME NEW p \in 1..n, 2..p \subseteq c.applied, p = n \/ p + 1 \notin c.applied
                 PROVE  p = c.pin
        OBVIOUS
    <2>1. CASE p > c.pin
        <3>1. p \in 2..p /\ p \notin 2..c.pin
            BY <1>1, <2>1
        <3> QED BY <1>1, <3>1
    <2>2. CASE p < c.pin
        <3>1. p + 1 \in 2..c.pin
            BY <1>1, <2>2
        <3> QED BY <1>1, <2>2, <3>1
    <2> QED BY <1>1, <2>1, <2>2
<1>4. Account!AppliedTo(c.applied, n) = c.pin
    BY <1>2, <1>3 DEF Account!AppliedTo
<1>5. (c.pin + 1)..n \cap (c.applied \cup expired) = {}
    <2> SUFFICES ASSUME NEW i \in (c.pin + 1)..n
                 PROVE  i \notin c.applied /\ i \notin expired
        OBVIOUS
    <2>1. i \in 2..n /\ i \notin 2..c.pin
        BY <1>1
    <2> QED BY <1>1, <2>1
<1> QED BY <1>1, <1>4, <1>5 DEF Account!Follows

LEMMA AlarmStep ==
    ASSUME AccountApart, AlarmInv, Account!Next, Account!Mismatched
    PROVE  \/ raced \/ Account!Late(conn)
           \/ \E r \in Recs : rec[r].at = "probed" /\ rec'[r] = Account!NoOp
                  /\ (rec[r].n < conn.pin \/ 2..rec[r].n \cap expired # {})
<1> SUFFICES ASSUME ~raced, ~Account!Late(conn)
             PROVE  \E r \in Recs : rec[r].at = "probed" /\ rec'[r] = Account!NoOp
                    /\ (rec[r].n < conn.pin \/ 2..rec[r].n \cap expired # {})
    OBVIOUS
<1>0. conn \in ConnT /\ ChainOf(conn) /\ conn.sec # "pin_mismatch" /\ conn'.sec = "pin_mismatch"
    BY DEF Account!Mismatched, AlarmInv, AccountInv, ChainsInv, AccountShapes
<1>a. CASE \E r \in Recs : Account!Derive(r)
    <2> PICK r \in Recs : Account!Derive(r)
        BY <1>a
    <2>1. /\ rec[r] # Account!NoOp /\ rec[r].n \in 1..MaxIds /\ rec[r].at = "probed"
          /\ conn.pin # rec[r].n /\ ~Account!Follows(conn, rec[r].n)
        BY <1>0, DeriveGives DEF AlarmInv, AccountInv
    <2>2. rec'[r] = Account!NoOp
        BY <2>1, DeriveGives, <1>0 DEF Account!Derive, AlarmInv, AccountInv, AccountShapes
    <2>3. conn.https
        BY <2>1 DEF AlarmInv, QuietInv
    <2>4. conn.pin \in 0..MaxIds
        BY <1>0 DEF ConnT
    <2>5. ~(conn.pin < rec[r].n) \/ 2..rec[r].n \cap expired # {}
        BY <1>0, <2>1, <2>3, CanFollow DEF AlarmInv, AccountInv
    <2> QED BY <2>1, <2>2, <2>4, <2>5
<1> USE DEF AccountApart, AlarmInv, AccountInv, AccountShapes, QuietInv, Account!NoOp, MigT, AccT, MoveT,
        ReqT
<1>1. CASE Account!Owner
    BY <1>0, <1>1 DEF Account!Owner, ConnT
<1>2. CASE Account!Expires
    BY <1>0, <1>2 DEF Account!Expires, ConnT
<1>3. CASE (\E h \in BOOLEAN : Account!Join(h))
    BY <1>0, <1>3 DEF Account!Join, ConnT
<1>4. CASE Account!MigrateAsks
    BY <1>0, <1>4 DEF Account!MigrateAsks, ConnT
<1>5. CASE Account!MigrateCompletes
    BY <1>0, <1>5 DEF Account!MigrateCompletes, ConnT
<1>6. CASE Account!MigratePersists
    BY <1>0, <1>6 DEF Account!MigratePersists, Account!Saves, Account!Replaces, ConnT
<1>7. CASE Account!MigrateLost
    BY <1>0, <1>7 DEF Account!MigrateLost, ConnT
<1>8. CASE (\E p \in BOOLEAN : Account!AcceptSends(p))
    BY <1>0, <1>8 DEF Account!AcceptSends, ConnT
<1>9. CASE Account!AcceptAnswered
    BY <1>0, <1>9 DEF Account!AcceptAnswered, ConnT
<1>10. CASE Account!AcceptPersists
    BY <1>0, <1>10 DEF Account!AcceptPersists, Account!Saves, Account!Replaces, ConnT
<1>11. CASE Account!AcceptLost
    BY <1>0, <1>11 DEF Account!AcceptLost, ConnT
<1>12. CASE Account!MoveAsks
    BY <1>0, <1>12 DEF Account!MoveAsks, ConnT
<1>13. CASE Account!MovePersists
    BY <1>0, <1>13 DEF Account!MovePersists, Account!Saves, Account!Replaces, ConnT
<1>14. CASE Account!RequestSends
    BY <1>0, <1>14 DEF Account!RequestSends, ConnT
<1>15. CASE Account!RequestAnswered
    BY <1>0, <1>15 DEF Account!RequestAnswered, ConnT
<1>16. CASE Account!RequestTaken
    BY <1>0, <1>16 DEF Account!RequestTaken, ConnT
<1>17. CASE (\E r \in Recs : Account!Probe(r))
    BY <1>0, <1>17 DEF Account!Probe, ConnT
<1>18. CASE (\E r \in Recs : Account!FollowPersists(r))
    BY <1>0, <1>18 DEF Account!FollowPersists, Account!Saves, Account!Replaces, Account!Followed, ConnT
<1> QED BY <1>a, <1>1, <1>2, <1>3, <1>4, <1>5, <1>6, <1>7, <1>8, <1>9, <1>10, <1>11, <1>12, <1>13, <1>14,
           <1>15, <1>16, <1>17, <1>18 DEF Account!Next

\* The alarm of a pinned connection rings only for a record out of its days, a probe older
\* than the pin, a connection pinned after a rotation it never applied, or after an invite
\* that put an old connection back (handlePinnedConnectionFailure).
THEOREM AlarmsAreReal == ASSUME AccountApart PROVE Account!Spec => Account!AlarmIsReal
<1>1. Account!Init => AlarmInv
    <2> SUFFICES ASSUME Account!Init
                 PROVE  AlarmInv
        OBVIOUS
    <2>1. ChainsInv /\ QuietInv
        BY DEF Account!Init, ChainsInv, QuietInv, Account!NoOp, AccountApart
    <2> QED BY <2>1, AccountInit DEF AlarmInv
<1>2. AlarmInv /\ [Account!Next]_(Account!vars) => AlarmInv'
    <2>1. ASSUME AlarmInv, Account!Next
          PROVE  AlarmInv'
        BY <2>1, AccountStep, ChainsInvKept, QuietInvKept DEF AlarmInv
    <2>2. ASSUME AlarmInv, UNCHANGED Account!vars
          PROVE  AlarmInv'
        <3>1. AccountInv'
            BY <2>2, AccountStep DEF AlarmInv
        <3>2. ChainsInv' /\ QuietInv'
            BY <2>2 DEF AlarmInv, ChainsInv, QuietInv, ChainOf, Account!NoOp, Account!vars
        <3> QED BY <3>1, <3>2 DEF AlarmInv
    <2> QED BY <2>1, <2>2
<1>3. AlarmInv /\ [Account!Next]_(Account!vars) =>
        [Account!Mismatched =>
            \/ raced \/ Account!Late(conn)
            \/ \E r \in Recs : rec[r].at = "probed" /\ rec'[r] = Account!NoOp
                   /\ (rec[r].n < conn.pin \/ 2..rec[r].n \cap expired # {})]_(Account!vars)
    BY AlarmStep
<1> QED BY <1>1, <1>2, <1>3, PTL DEF Account!Spec, Account!AlarmIsReal

\* TokenHonoured, of the composed specification the run checks.
THEOREM TokenHonouredEverywhere == ASSUME AccountApart PROVE MCSpec => []SavedTokenIsHonoured
<1>1. MCInit => AccountInv
    BY AccountInit DEF MCInit
<1>2. [MCNext]_<<part, fileVars, vars, tlsVars, accountVars, liveVars>> => [Account!Next]_(Account!vars)
    BY DEF MCNext, accountVars, Account!vars
<1>3. AccountInv => SavedTokenIsHonoured
    BY AccountGives DEF SavedTokenIsHonoured
<1> QED BY <1>1, <1>2, <1>3, AccountStep, PTL DEF MCSpec

-----------------------------------------------------------------------------
(***************************************************************************)
(* HostSecurity: the identity and the security state of a hosted server.   *)
(***************************************************************************)

\* One operation at a time, and nothing is compared with None that could be it.
HostApart ==
    /\ \A c, d \in Clicks : c = d
    /\ None \notin Tls!AppIds \cup Tls!States \cup {"start", "stop", "enable", "enforce", "rotate"}
    /\ MaxIdentities \in Nat

Chains == Seq(1..MaxIdentities)
ImageT == [state: Tls!States \cup {None}, owner: BOOLEAN]
AppT == [open: {TRUE}, image: ImageT, chain: Chains, url: BOOLEAN, plain: BOOLEAN, tls: 0..MaxIdentities]
CallT == [op: {"start", "stop", "enable", "enforce", "rotate"},
          at: {"opened", "settled", "identified", "closing", "listening", "saved", "recording",
              "rollback"},
          app: Tls!AppIds, prev: Chains, next: Chains]

HostShapes ==
    /\ tls \in [state: Tls!States \cup {None}, owner: BOOLEAN, chain: Chains]
    /\ apps \in [Tls!AppIds -> {Tls!NoApp} \cup AppT]
    /\ manager \in [app: Tls!AppIds \cup {None}, running: BOOLEAN, state: Tls!States \cup {None},
           pin: 0..MaxIdentities]
    /\ call \in [Clicks -> {Tls!NoCall} \cup CallT]
    /\ count.ids \in 0..MaxIdentities
    /\ count = [calls |-> count.calls, faults |-> count.faults, ids |-> count.ids]

Image == [state |-> tls.state, owner |-> tls.owner]
Presented(chain) == IF Tls!StateOf(tls) = "plain_legacy" THEN 0 ELSE Tls!Last(chain)

\* The app is the only one, open over the database as it is on disk.
Open1(a) == apps[a] \in AppT /\ apps[a].image = Image /\ \A b \in Tls!AppIds : b # a
    => apps[b] = Tls!NoApp

\* It serves the chain as the durable state says.
Serves(a, chain) ==
    /\ chain # <<>> /\ apps[a].chain = chain
    /\ apps[a].tls = Presented(chain) /\ apps[a].url = (Presented(chain) # 0)
    /\ apps[a].plain = Tls!PlainServed(Tls!StateOf(tls))

Tells(a, chain) == manager = [app |-> a, running |-> TRUE, state |-> Tls!StateOf(tls),
    pin |-> Presented(chain)]

NoApps == \A a \in Tls!AppIds : apps[a] = Tls!NoApp

HostAtRest ==
    IF manager.app = None THEN NoApps
    ELSE /\ Open1(manager.app) /\ Serves(manager.app, tls.chain) /\ Tells(manager.app, tls.chain)

\* Where the one operation under way is.
Starting(k) ==
    /\ k.at \in {"opened", "settled", "identified"} /\ manager.app = None /\ ~manager.running
    /\ Open1(k.app) /\ ~apps[k.app].url /\ ~apps[k.app].plain /\ apps[k.app].tls = 0
    /\ k.at = "identified" => tls.chain # <<>> /\ apps[k.app].chain = tls.chain

Stopping(k) ==
    k.at = "closing" /\ manager.app = None /\ manager.running /\ Open1(k.app) /\ Serves(k.app, tls.chain)

Enabling(k) ==
    /\ k.at = "listening" /\ Open1(k.app) /\ Tells(k.app, tls.chain)
    /\ tls.chain # <<>> /\ Tls!StateOf(tls) = "plain_legacy"
    /\ apps[k.app].chain = tls.chain /\ apps[k.app].tls = Tls!Last(tls.chain) /\ apps[k.app].url
           /\ apps[k.app].plain

Enforcing(k) ==
    /\ k.at = "closing" /\ Open1(k.app)
    /\ tls.chain # <<>> /\ tls.state = "tls_enforced"
    /\ apps[k.app].chain = tls.chain /\ apps[k.app].tls = Tls!Last(tls.chain) /\ apps[k.app].url
    /\ manager = [app |-> k.app, running |-> TRUE, state |-> "tls_migrating",
           pin |-> Tls!Last(tls.chain)]

Rotating(k) ==
    /\ k.prev # <<>> /\ (\E i \in 1..MaxIdentities : k.next = Append(k.prev, i)) /\ tls.chain = k.next
    /\ tls.state \in {"tls_enforced", "pinned_tls"}
    /\ Open1(k.app) /\ Tells(k.app, k.prev) /\ apps[k.app].url /\ ~apps[k.app].plain
    /\ \/ k.at = "saved" /\ apps[k.app].chain = k.prev /\ apps[k.app].tls = Tls!Last(k.prev)
       \/ k.at = "recording" /\ apps[k.app].chain = k.next /\ apps[k.app].tls = Tls!Last(k.next)
       \/ k.at = "rollback" /\ apps[k.app].tls = 0

UnderWay(k) ==
    \/ k.op = "start" /\ Starting(k)
    \/ k.op = "stop" /\ Stopping(k)
    \/ k.op = "enable" /\ Enabling(k)
    \/ k.op = "enforce" /\ Enforcing(k)
    \/ k.op = "rotate" /\ Rotating(k)

HostInv ==
    /\ HostShapes
    /\ manager.app # None => manager.running
    /\ server = "standalone" => Tls!AllIdle
    /\ Tls!AllIdle => HostAtRest
    /\ \A c \in Clicks : ~Tls!Idle(c) => UnderWay(call[c])

CallsShape == call \in [Clicks -> {Tls!NoCall} \cup CallT]
CountShape == count.ids \in 0..MaxIdentities
    /\ count = [calls |-> count.calls, faults |-> count.faults, ids |-> count.ids]
AppsShape == apps \in [Tls!AppIds -> {Tls!NoApp} \cup AppT]
DiskShape == tls \in [state: Tls!States \cup {None}, owner: BOOLEAN, chain: Chains]
ManagerShape == manager \in [app: Tls!AppIds \cup {None}, running: BOOLEAN,
    state: Tls!States \cup {None}, pin: 0..MaxIdentities]

LEMMA ShapesAre == HostShapes <=> CallsShape /\ CountShape /\ AppsShape /\ DiskShape /\ ManagerShape
BY DEF HostShapes, CallsShape, CountShape, AppsShape, DiskShape, ManagerShape

LEMMA HostEndsWell ==
    ASSUME HostApart, HostInv, NEW c \in Clicks, Tls!Ends(c), CountShape', AppsShape', DiskShape',
           ManagerShape',
           HostAtRest', manager'.app # None => manager'.running
    PROVE  HostInv'
<1>1. \A d \in Clicks : d = c
    BY DEF HostApart
<1>2. call'[c] = Tls!NoCall /\ CallsShape'
    BY DEF Tls!Ends, HostInv, HostShapes, CallsShape
<1>3. HostShapes'
    BY <1>2 DEF HostShapes, CallsShape, CountShape, AppsShape, DiskShape, ManagerShape
<1> QED BY <1>1, <1>2, <1>3 DEF HostInv, Tls!AllIdle, Tls!Idle

LEMMA HostGoesWell ==
    ASSUME HostApart, HostInv, NEW c \in Clicks, CallsShape', CountShape', AppsShape', DiskShape',
           ManagerShape',
           call'[c] # Tls!NoCall, server' = server, server # "standalone",
           UnderWay(call[c])', manager'.app # None => manager'.running
    PROVE  HostInv'
<1>1. \A d \in Clicks : d = c
    BY DEF HostApart
<1>2. HostShapes'
    BY DEF HostShapes, CallsShape, CountShape, AppsShape, DiskShape, ManagerShape
<1> QED BY <1>1, <1>2 DEF HostInv, Tls!AllIdle, Tls!Idle

\* One app, or one call, put in the place of another.
LEMMA AppPut ==
    ASSUME AppsShape, NEW a \in Tls!AppIds, NEW x \in {Tls!NoApp} \cup AppT,
           apps' = [apps EXCEPT ![a] = x]
    PROVE  AppsShape' /\ apps'[a] = x /\ \A b \in Tls!AppIds : b # a => apps'[b] = apps[b]
BY DEF AppsShape

LEMMA CallPut ==
    ASSUME CallsShape, NEW c \in Clicks, NEW k \in {Tls!NoCall} \cup CallT,
           call' = [call EXCEPT ![c] = k]
    PROVE  CallsShape' /\ call'[c] = k
BY DEF CallsShape

LEMMA HostCounts == ASSUME CountShape, Tls!Fault \/ Tls!Counted \/ UNCHANGED count PROVE CountShape'
BY DEF CountShape, Tls!Fault, Tls!Counted

LEMMA NotNoCall == ASSUME HostApart, NEW k \in CallT PROVE k # Tls!NoCall /\ k.op # None
BY DEF HostApart, CallT, Tls!NoCall

\* What is known of the one operation under way.
LEMMA HostBusy ==
    ASSUME HostApart, HostInv, NEW c \in Clicks, call[c].op # None
    PROVE  /\ call[c] \in CallT /\ call[c].app \in Tls!AppIds /\ UnderWay(call[c])
              /\ server # "standalone"
           /\ CallsShape /\ CountShape /\ AppsShape /\ DiskShape /\ ManagerShape
<1>1. call[c] \in CallT /\ ~Tls!Idle(c)
    BY DEF HostInv, HostShapes, Tls!NoCall, Tls!Idle
<1>2. CallsShape /\ CountShape /\ AppsShape /\ DiskShape /\ ManagerShape
    BY ShapesAre DEF HostInv
<1> QED BY <1>1, <1>2 DEF HostInv, Tls!AllIdle, CallT

LEMMA HostPhases ==
    ASSUME HostApart, HostInv, NEW c \in Clicks,
           NEW op \in {"start", "stop", "enable", "enforce", "rotate"}, call[c].op = op
    PROVE  /\ op = "start" => Starting(call[c])
           /\ op = "stop" => Stopping(call[c])
           /\ op = "enable" => Enabling(call[c])
           /\ op = "enforce" => Enforcing(call[c])
           /\ op = "rotate" => Rotating(call[c])
<1>1. call[c].op # None
    BY DEF HostApart
<1> QED BY <1>1, HostBusy DEF UnderWay

LEMMA HostRests ==
    ASSUME HostApart, HostInv, NEW c \in Clicks, Tls!Idle(c)
    PROVE  /\ HostAtRest
           /\ CallsShape /\ CountShape /\ AppsShape /\ DiskShape /\ ManagerShape
<1>1. CallsShape /\ CountShape /\ AppsShape /\ DiskShape /\ ManagerShape
    BY ShapesAre DEF HostInv
<1>2. Tls!AllIdle
    BY DEF HostApart, Tls!AllIdle
<1> QED BY <1>1, <1>2 DEF HostInv

LEMMA HostGoes ==
    ASSUME HostApart, HostInv, NEW c \in Clicks, call[c] \in CallT, CallsShape,
           NEW at \in {"opened", "settled", "identified", "closing", "listening", "saved", "recording",
               "rollback"}, Tls!Goes(c, at)
    PROVE  /\ CallsShape' /\ call'[c] # Tls!NoCall
           /\ call'[c].op = call[c].op /\ call'[c].at = at /\ call'[c].app = call[c].app
           /\ call'[c].prev = call[c].prev /\ call'[c].next = call[c].next
<1> DEFINE k == [call[c] EXCEPT !.at = at]
<1>1. /\ k \in CallT /\ k.op = call[c].op /\ k.at = at /\ k.app = call[c].app
      /\ k.prev = call[c].prev /\ k.next = call[c].next
    BY DEF CallT
<1>2. call' = [call EXCEPT ![c] = k]
    BY DEF Tls!Goes
<1> HIDE DEF k
<1>3. CallsShape' /\ call'[c] = k
    BY <1>1, <1>2, CallPut
<1> QED BY <1>1, <1>3, NotNoCall

\* The apps.
LEMMA AppImage ==
    ASSUME NEW x \in AppT, NEW i \in ImageT
    PROVE  LET y == [x EXCEPT !.image = i] IN
           y \in AppT /\ y.image = i /\ y.chain = x.chain /\ y.url = x.url /\ y.plain = x.plain
               /\ y.tls = x.tls
BY DEF AppT

LEMMA AppListens ==
    ASSUME NEW x \in AppT, NEW p \in BOOLEAN, NEW u \in BOOLEAN, NEW t \in 0..MaxIdentities
    PROVE  LET y == [x EXCEPT !.plain = p, !.url = u, !.tls = t] IN
           y \in AppT /\ y.image = x.image /\ y.chain = x.chain /\ y.url = u /\ y.plain = p /\ y.tls = t
BY DEF AppT

LEMMA AppPlain ==
    ASSUME NEW x \in AppT, NEW p \in BOOLEAN
    PROVE  LET y == [x EXCEPT !.plain = p] IN
           y \in AppT /\ y.image = x.image /\ y.chain = x.chain /\ y.url = x.url /\ y.plain = p
               /\ y.tls = x.tls
BY DEF AppT

LEMMA AppUrlTls ==
    ASSUME NEW x \in AppT, NEW u \in BOOLEAN, NEW t \in 0..MaxIdentities
    PROVE  LET y == [x EXCEPT !.url = u, !.tls = t] IN
           y \in AppT /\ y.image = x.image /\ y.chain = x.chain /\ y.url = u /\ y.plain = x.plain
               /\ y.tls = t
BY DEF AppT

LEMMA AppChain ==
    ASSUME NEW x \in AppT, NEW ch \in Chains
    PROVE  LET y == [x EXCEPT !.chain = ch] IN
           y \in AppT /\ y.image = x.image /\ y.chain = ch /\ y.url = x.url /\ y.plain = x.plain
               /\ y.tls = x.tls
BY DEF AppT

LEMMA AppTls ==
    ASSUME NEW x \in AppT, NEW t \in 0..MaxIdentities
    PROVE  LET y == [x EXCEPT !.tls = t] IN
           y \in AppT /\ y.image = x.image /\ y.chain = x.chain /\ y.url = x.url /\ y.plain = x.plain
               /\ y.tls = t
BY DEF AppT

LEMMA AppTlsChain ==
    ASSUME NEW x \in AppT, NEW ch \in Chains, NEW t \in 0..MaxIdentities
    PROVE  LET y == [x EXCEPT !.tls = t, !.chain = ch] IN
           y \in AppT /\ y.image = x.image /\ y.chain = ch /\ y.url = x.url /\ y.plain = x.plain
               /\ y.tls = t
BY DEF AppT

LEMMA AppChainUrlTls ==
    ASSUME NEW x \in AppT, NEW ch \in Chains, NEW u \in BOOLEAN, NEW t \in 0..MaxIdentities
    PROVE  LET y == [x EXCEPT !.chain = ch, !.url = u, !.tls = t] IN
           y \in AppT /\ y.image = x.image /\ y.chain = ch /\ y.url = u /\ y.plain = x.plain /\ y.tls = t
BY DEF AppT

LEMMA SavedSame == ASSUME DiskShape, NEW x \in AppT, x.image = Image PROVE Tls!Saved(x.image) = tls
<1>1. x.image.state = tls.state /\ x.image.owner = tls.owner
    BY DEF Image
<1>2. [tls EXCEPT !.state = tls.state, !.owner = tls.owner] = tls
    BY DEF DiskShape
<1> QED BY <1>1, <1>2 DEF Tls!Saved

LEMMA ServedOrNot == \A s \in Tls!States : Tls!PlainServed(s) \in BOOLEAN
BY DEF Tls!PlainServed

LEMMA ElementIs == ASSUME NEW S, NEW s \in Seq(S), NEW i \in 1..Len(s) PROVE s[i] \in S
OBVIOUS

LEMMA NoChain == <<>> \in Chains
BY DEF Chains

LEMMA Lasts ==
    ASSUME NEW ch \in Chains, ch # <<>>
    PROVE  Tls!Last(ch) \in 1..MaxIdentities /\ Tls!Last(ch) \in 0..MaxIdentities
           /\ Len(ch) \in 1..Len(ch) /\ Tls!Last(ch) # 0
<1>1. ch \in Seq(1..MaxIdentities) /\ Len(ch) \in Nat
    BY DEF Chains
<1>2. Len(ch) # 0
    BY <1>1
<1>3. Len(ch) \in 1..Len(ch)
    BY <1>1, <1>2
<1>4. ch[Len(ch)] \in 1..MaxIdentities
    BY <1>1, <1>3, ElementIs
<1>5. ch[Len(ch)] \in 0..MaxIdentities /\ ch[Len(ch)] # 0
    BY <1>4
<1> QED BY <1>3, <1>4, <1>5 DEF Tls!Last

LEMMA Longer ==
    ASSUME NEW ch \in Chains, NEW i \in 1..MaxIdentities
    PROVE  /\ Append(ch, i) \in Chains /\ Append(ch, i) # <<>> /\ Tls!Last(Append(ch, i)) = i
           /\ \A j \in 1..Len(ch) : j \in 1..Len(Append(ch, i)) /\ Append(ch, i)[j] = ch[j]
<1>1. ch \in Seq(1..MaxIdentities) /\ Len(ch) \in Nat
    BY DEF Chains
<1>2. Append(ch, i) \in Seq(1..MaxIdentities) /\ Len(Append(ch, i)) = Len(ch) + 1
          /\ Append(ch, i)[Len(ch) + 1] = i
    BY <1>1
<1>3. \A j \in 1..Len(ch) : Append(ch, i)[j] = ch[j]
    BY <1>1
<1>4. Append(ch, i) # <<>>
    BY <1>1, <1>2
<1> QED BY <1>1, <1>2, <1>3, <1>4 DEF Chains, Tls!Last

LEMMA OpenKeeps ==
    ASSUME HostApart, HostInv, NEW c \in Clicks, NEW a \in Tls!AppIds, Tls!Open(c, a), server' = server
    PROVE  HostInv'
<1>1. /\ HostAtRest /\ CallsShape /\ CountShape /\ AppsShape /\ DiskShape /\ ManagerShape
             /\ server # "standalone"
      /\ ~manager.running
    BY HostRests DEF Tls!Open, Tls!Begins
<1>2. manager.app = None /\ NoApps
    BY <1>1 DEF HostInv, HostAtRest
<1> DEFINE x == [Tls!NoApp EXCEPT !.open = TRUE, !.image = Image]
           k == [Tls!NoCall EXCEPT !.op = "start", !.at = "opened", !.app = a]
<1>3. x \in AppT /\ x.image = Image /\ x.url = FALSE /\ x.plain = FALSE /\ x.tls = 0
    <2>1. Image \in ImageT
        BY <1>1 DEF Image, ImageT, DiskShape
    <2>2. 0 \in 0..MaxIdentities
        BY DEF HostApart
    <2> QED BY <2>1, <2>2, NoChain DEF Tls!NoApp, AppT
<1>4. k \in CallT /\ k.op = "start" /\ k.at = "opened" /\ k.app = a
    BY NoChain DEF Tls!NoCall, CallT
<1>5. apps' = [apps EXCEPT ![a] = x] /\ call' = [call EXCEPT ![c] = k] /\ UNCHANGED <<tls, manager>>
    BY DEF Tls!Open, Image
<1> HIDE DEF x, k
<1>6. AppsShape' /\ apps'[a] = x /\ \A b \in Tls!AppIds : b # a => apps'[b] = Tls!NoApp
    BY <1>1, <1>2, <1>3, <1>5, AppPut DEF NoApps
<1>7. CallsShape' /\ call'[c] = k
    BY <1>1, <1>4, <1>5, CallPut
<1>8. CountShape' /\ DiskShape' /\ ManagerShape'
    BY <1>1, <1>5, HostCounts DEF Tls!Open, DiskShape, ManagerShape
<1>9. UnderWay(call[c])'
    BY <1>1, <1>2, <1>3, <1>4, <1>5, <1>6, <1>7 DEF UnderWay, Starting, Open1, Image
<1> QED BY <1>1, <1>2, <1>4, <1>5, <1>6, <1>7, <1>8, <1>9, NotNoCall, HostGoesWell

LEMMA SettleKeeps ==
    ASSUME HostApart, HostInv, NEW c \in Clicks, Tls!Settle(c), server' = server
    PROVE  HostInv'
<1>1. /\ call[c] \in CallT /\ call[c].app \in Tls!AppIds /\ Starting(call[c]) /\ server # "standalone"
      /\ CallsShape /\ CountShape /\ AppsShape /\ DiskShape /\ ManagerShape
    BY HostBusy, HostPhases DEF Tls!Settle, Tls!At, HostApart
<1> DEFINE a == call[c].app
           i == Tls!Settled(Image)
           x == [apps[a] EXCEPT !.image = i]
<1>2. apps[a] \in AppT /\ apps[a].image = Image
    BY <1>1 DEF Starting, Open1
<1>3. i \in ImageT
    BY <1>1 DEF Tls!Settled, Tls!SetState, Image, ImageT, DiskShape, Tls!States
<1>4. x \in AppT /\ x.image = i /\ x.chain = apps[a].chain /\ x.url = apps[a].url
          /\ x.plain = apps[a].plain /\ x.tls = apps[a].tls
    BY <1>2, <1>3, AppImage
<1>5. /\ apps' = [apps EXCEPT ![a] = x] /\ Tls!Goes(c, "settled") /\ UNCHANGED <<manager, count>>
      /\ tls' = [tls EXCEPT !.state = i.state, !.owner = i.owner]
    BY <1>2 DEF Tls!Settle, Tls!AppOf, Tls!Saved
<1>6. DiskShape' /\ tls'.state = i.state /\ tls'.owner = i.owner /\ tls'.chain = tls.chain
    BY <1>1, <1>3, <1>5 DEF DiskShape, ImageT
<1>7. Image' = i
    BY <1>3, <1>6 DEF Image, ImageT
<1> HIDE DEF x, i
<1>8. AppsShape' /\ apps'[a] = x /\ \A b \in Tls!AppIds : b # a => apps'[b] = Tls!NoApp
    BY <1>1, <1>4, <1>5, AppPut DEF Starting, Open1
<1>9. CallsShape' /\ call'[c] # Tls!NoCall /\ call'[c].op = call[c].op /\ call'[c].at = "settled"
          /\ call'[c].app = a
    BY <1>1, <1>5, HostGoes
<1>10. CountShape' /\ ManagerShape'
    BY <1>1, <1>5 DEF CountShape, ManagerShape
<1>11. UnderWay(call[c])'
    BY <1>1, <1>4, <1>5, <1>6, <1>7, <1>8, <1>9 DEF UnderWay, Starting, Open1, Tls!Settle, Tls!At
<1> QED BY <1>1, <1>5, <1>6, <1>8, <1>9, <1>10, <1>11, HostGoesWell DEF Starting

LEMMA IdentifyKeeps ==
    ASSUME HostApart, HostInv, NEW c \in Clicks, Tls!Identify(c), server' = server
    PROVE  HostInv'
<1>1. /\ call[c] \in CallT /\ call[c].app \in Tls!AppIds /\ Starting(call[c]) /\ server # "standalone"
      /\ CallsShape /\ CountShape /\ AppsShape /\ DiskShape /\ ManagerShape
    BY HostBusy, HostPhases DEF Tls!Identify, Tls!At, HostApart
<1> DEFINE a == call[c].app
<1>2. apps[a] \in AppT /\ apps[a].image = Image
    BY <1>1 DEF Starting, Open1
<1>3. PICK ch \in Chains : /\ ch # <<>> /\ apps' = [apps EXCEPT ![a] = [apps[a] EXCEPT !.chain = ch]]
                           /\ DiskShape' /\ tls'.chain = ch /\ Image' = Image /\ CountShape'
    <2>1. CASE tls.chain # <<>> /\ apps' = [apps EXCEPT ![a] = [apps[a] EXCEPT !.chain = tls.chain]]
                   /\ UNCHANGED <<tls, count>>
        BY <1>1, <2>1 DEF DiskShape, CountShape, Image
    <2>2. CASE /\ count.ids < MaxIdentities
                      /\ apps' = [apps EXCEPT ![a] = [apps[a] EXCEPT !.chain = <<count.ids + 1>>]]
               /\ tls' = [tls EXCEPT !.chain = <<count.ids + 1>>]
                      /\ count' = [count EXCEPT !.ids = @ + 1]
        <3>1. count.ids + 1 \in 1..MaxIdentities
            BY <1>1, <2>2 DEF CountShape, HostApart
        <3>2. <<count.ids + 1>> \in Chains /\ <<count.ids + 1>> # <<>>
            BY <3>1 DEF Chains
        <3>3. CountShape'
            BY <1>1, <2>2, <3>1 DEF CountShape
        <3>4. DiskShape' /\ tls'.chain = <<count.ids + 1>> /\ Image' = Image
            BY <1>1, <2>2, <3>2 DEF DiskShape, Image
        <3> QED BY <2>2, <3>2, <3>3, <3>4
    <2> QED BY <2>1, <2>2 DEF Tls!Identify, Tls!KeepIdentity
<1> DEFINE x == [apps[a] EXCEPT !.chain = ch]
<1>4. x \in AppT /\ x.image = apps[a].image /\ x.chain = ch /\ x.url = apps[a].url
          /\ x.plain = apps[a].plain /\ x.tls = apps[a].tls
    BY <1>2, AppChain
<1>5. apps' = [apps EXCEPT ![a] = x] /\ Tls!Goes(c, "identified") /\ UNCHANGED manager
    BY <1>3 DEF Tls!Identify
<1> HIDE DEF x
<1>6. AppsShape' /\ apps'[a] = x /\ \A b \in Tls!AppIds : b # a => apps'[b] = Tls!NoApp
    BY <1>1, <1>4, <1>5, AppPut DEF Starting, Open1
<1>7. CallsShape' /\ call'[c] # Tls!NoCall /\ call'[c].op = call[c].op /\ call'[c].at = "identified"
          /\ call'[c].app = a
    BY <1>1, <1>5, HostGoes
<1>8. ManagerShape'
    BY <1>1, <1>5 DEF ManagerShape
<1>9. UnderWay(call[c])'
    BY <1>1, <1>2, <1>3, <1>4, <1>5, <1>6, <1>7 DEF UnderWay, Starting, Open1, Tls!Identify, Tls!At
<1> QED BY <1>1, <1>3, <1>5, <1>6, <1>7, <1>8, <1>9, HostGoesWell DEF Starting

LEMMA ListenKeeps ==
    ASSUME HostApart, HostInv, NEW c \in Clicks, Tls!Listen(c), server' = server
    PROVE  HostInv'
<1>1. /\ call[c] \in CallT /\ call[c].app \in Tls!AppIds /\ Starting(call[c])
             /\ call[c].at = "identified"
      /\ CallsShape /\ CountShape /\ AppsShape /\ DiskShape /\ ManagerShape
    BY HostBusy, HostPhases DEF Tls!Listen, Tls!At, HostApart
<1> PICK a \in Tls!AppIds : a = call[c].app
    BY <1>1
<1> PICK u \in BOOLEAN : u = (Tls!StateOf(tls) # "plain_legacy")
    OBVIOUS
<1>0. Tls!StateOf(tls) \in Tls!States
    BY <1>1 DEF Tls!StateOf, DiskShape, Tls!States
<1> PICK p \in BOOLEAN : p = Tls!PlainServed(Tls!StateOf(tls))
    BY <1>0, ServedOrNot
<1>2. apps[a] \in AppT /\ apps[a].image = Image /\ apps[a].chain = tls.chain /\ tls.chain \in Chains
          /\ tls.chain # <<>>
    BY <1>1 DEF Starting, Open1, DiskShape
<1>3. Tls!StateOf(apps[a].image) = Tls!StateOf(tls)
    BY <1>2 DEF Tls!StateOf, Image
<1>4. PICK t \in 0..MaxIdentities : t = Presented(tls.chain) /\ u = (t # 0)
    <2>1. Tls!Last(tls.chain) \in 1..MaxIdentities /\ Tls!Last(tls.chain) # 0
        BY <1>2, Lasts
    <2> QED BY <2>1 DEF Presented, HostApart
<1> DEFINE x == [apps[a] EXCEPT !.plain = p, !.url = u, !.tls = t]
<1>5. x \in AppT /\ x.image = apps[a].image /\ x.chain = apps[a].chain /\ x.url = u /\ x.plain = p
          /\ x.tls = t
    BY <1>2, <1>4 DEF AppT
<1>6. Tls!Listens(Tls!AppOf(c)) = x
    BY <1>2, <1>3, <1>4 DEF Tls!Listens, Tls!AppOf, Presented
<1>7. /\ apps' = [apps EXCEPT ![a] = x] /\ UNCHANGED <<tls, count>> /\ Tls!Ends(c)
      /\ manager' = [app |-> a, running |-> TRUE, state |-> Tls!StateOf(x.image), pin |-> x.tls]
    BY <1>6 DEF Tls!Listen
<1> HIDE DEF x
<1>8. AppsShape' /\ apps'[a] = x /\ \A b \in Tls!AppIds : b # a => apps'[b] = Tls!NoApp
    BY <1>1, <1>5, <1>7, AppPut DEF Starting, Open1
<1>10. CountShape' /\ DiskShape' /\ ManagerShape'
    BY <1>1, <1>3, <1>4, <1>5, <1>7, <1>0 DEF CountShape, DiskShape, ManagerShape
<1>11. Tells(a, tls.chain)'
    BY <1>2, <1>3, <1>4, <1>5, <1>7 DEF Tells, Presented
<1>12. Open1(a)' /\ Serves(a, tls.chain)'
    BY <1>1, <1>2, <1>4, <1>5, <1>7, <1>8 DEF Open1, Serves, Image, Presented
<1>13. HostAtRest'
    BY <1>7, <1>11, <1>12, <1>1 DEF HostAtRest, HostApart
<1> QED BY <1>7, <1>8, <1>10, <1>13, HostEndsWell

\* The relay is gone and nothing is under way.
LEMMA Down ==
    ASSUME HostApart, HostInv, NEW c \in Clicks, NEW a \in Tls!AppIds, \A b \in Tls!AppIds : b # a
           => apps[b] = Tls!NoApp,
           apps' = [apps EXCEPT ![a] = Tls!NoApp], manager'.app = None, Tls!Ends(c), CountShape',
               DiskShape', ManagerShape'
    PROVE  HostInv'
<1>1. AppsShape
    BY ShapesAre DEF HostInv
<1>2. AppsShape' /\ apps'[a] = Tls!NoApp /\ \A b \in Tls!AppIds : b # a => apps'[b] = Tls!NoApp
    BY <1>1, AppPut
<1>3. HostAtRest'
    BY <1>2 DEF HostAtRest, NoApps
<1> QED BY <1>2, <1>3, HostEndsWell

LEMMA StopsWell ==
    ASSUME HostApart, manager' = Tls!Stopped
    PROVE  manager'.app = None /\ ManagerShape'
BY DEF HostApart, Tls!Stopped, ManagerShape

LEMMA StartFailsKeeps ==
    ASSUME HostApart, HostInv, NEW c \in Clicks, Tls!StartFails(c), server' = server
    PROVE  HostInv'
<1>1. /\ call[c] \in CallT /\ call[c].app \in Tls!AppIds /\ Starting(call[c])
      /\ CallsShape /\ CountShape /\ AppsShape /\ DiskShape /\ ManagerShape
    BY HostBusy, HostPhases DEF Tls!StartFails, HostApart
<1>2. CountShape' /\ DiskShape' /\ manager' = Tls!Stopped /\ Tls!Ends(c)
    BY <1>1, HostCounts DEF Tls!StartFails, DiskShape
<1> QED BY <1>1, <1>2, StopsWell, Down DEF Tls!StartFails, Starting, Open1

LEMMA StopKeeps ==
    ASSUME HostApart, HostInv, NEW c \in Clicks, Tls!Stop(c), server' = server
    PROVE  HostInv'
<1>1. /\ HostAtRest /\ CallsShape /\ CountShape /\ AppsShape /\ DiskShape /\ ManagerShape
             /\ server # "standalone"
      /\ manager.app # None
    BY HostRests DEF Tls!Stop, Tls!Begins
<1> DEFINE k == [Tls!NoCall EXCEPT !.op = "stop", !.at = "closing", !.app = manager.app]
<1>2. manager.app \in Tls!AppIds /\ Open1(manager.app) /\ Serves(manager.app, tls.chain)
          /\ manager.running
    BY <1>1 DEF HostInv, HostAtRest, ManagerShape
<1>3. k \in CallT /\ k.op = "stop" /\ k.at = "closing" /\ k.app = manager.app
    BY <1>2, NoChain DEF Tls!NoCall, CallT
<1>4. call' = [call EXCEPT ![c] = k] /\ UNCHANGED <<tls, apps>>
          /\ manager' = [manager EXCEPT !.app = None]
    BY DEF Tls!Stop
<1> HIDE DEF k
<1>5. CallsShape' /\ call'[c] = k
    BY <1>1, <1>3, <1>4, CallPut
<1>6. manager'.app = None /\ manager'.running = manager.running /\ ManagerShape'
    BY <1>1, <1>4 DEF ManagerShape
<1>7. CountShape' /\ DiskShape' /\ AppsShape'
    BY <1>1, <1>4, HostCounts DEF Tls!Stop, DiskShape, AppsShape
<1>8. UnderWay(call[c])'
    BY <1>2, <1>3, <1>4, <1>5, <1>6 DEF UnderWay, Stopping, Open1, Serves, Image, Presented
<1> QED BY <1>1, <1>3, <1>5, <1>6, <1>7, <1>8, NotNoCall, HostGoesWell

LEMMA CloseKeeps ==
    ASSUME HostApart, HostInv, NEW c \in Clicks, Tls!Close(c) \/ Tls!CloseFails(c), server' = server
    PROVE  HostInv'
<1>1. /\ call[c] \in CallT /\ call[c].app \in Tls!AppIds /\ Stopping(call[c])
      /\ CallsShape /\ CountShape /\ AppsShape /\ DiskShape /\ ManagerShape
    BY HostBusy, HostPhases DEF Tls!Close, Tls!CloseFails, Tls!At, HostApart
<1>2. Tls!Ends(c) /\ apps' = [apps EXCEPT ![call[c].app] = Tls!NoApp] /\ CountShape'
    BY <1>1, HostCounts DEF Tls!Close, Tls!CloseFails
<1>3. manager'.app = None /\ ManagerShape'
    BY <1>1, StopsWell DEF Tls!Close, Tls!CloseFails, Stopping, ManagerShape
<1>4. apps[call[c].app] \in AppT /\ apps[call[c].app].image = Image
    BY <1>1 DEF Stopping, Open1
<1>5. Tls!Saved(Tls!AppOf(c).image) = tls
    BY <1>1, <1>4, SavedSame DEF Tls!AppOf
<1>6. DiskShape'
    BY <1>1, <1>5 DEF Tls!Close, Tls!CloseFails, DiskShape
<1> QED BY <1>1, <1>2, <1>3, <1>6, Down DEF Stopping, Open1

LEMMA Legacies ==
    ASSUME HostApart, DiskShape
    PROVE  Tls!StateOf(tls) \in Tls!States /\ (tls.state \in Tls!States => Tls!StateOf(tls) = tls.state)
                                         /\ Tls!StateOf(Image) = Tls!StateOf(tls)
<1>1. Tls!StateOf(Image) = Tls!StateOf(tls)
    BY DEF Tls!StateOf, Image
<1>2. Tls!StateOf(tls) \in Tls!States /\ (tls.state \in Tls!States => Tls!StateOf(tls) = tls.state)
    BY DEF DiskShape, Tls!StateOf, Tls!States, HostApart
<1> QED BY <1>1, <1>2

LEMMA DiskTo ==
    ASSUME HostApart, DiskShape, NEW s \in Tls!States, tls' = Tls!Saved(Tls!SetState(Image, s))
    PROVE  /\ DiskShape' /\ tls'.state = s /\ tls'.chain = tls.chain /\ tls'.owner = tls.owner
           /\ Image' = Tls!SetState(Image, s) /\ Tls!SetState(Image, s) \in ImageT
                  /\ Tls!StateOf(tls') = s
<1>1. Tls!SetState(Image, s) = [state |-> s, owner |-> tls.owner]
    BY DEF Tls!SetState, Image
<1>2. tls' = [tls EXCEPT !.state = s, !.owner = tls.owner]
    BY <1>1 DEF Tls!Saved
<1>3. DiskShape' /\ tls'.state = s /\ tls'.chain = tls.chain /\ tls'.owner = tls.owner
    BY <1>2 DEF DiskShape
<1>4. Image' = Tls!SetState(Image, s) /\ Tls!SetState(Image, s) \in ImageT
    BY <1>1, <1>3 DEF Image, ImageT, DiskShape
<1> QED BY <1>3, <1>4 DEF Tls!StateOf, HostApart

LEMMA RestsAt ==
    ASSUME HostApart, NEW a \in Tls!AppIds, Open1(a)', Serves(a, tls.chain)', Tells(a, tls.chain)'
    PROVE  HostAtRest' /\ (manager'.app # None => manager'.running)
<1>1. manager'.app = a /\ manager'.running = TRUE
    BY DEF Tells
<1> QED BY <1>1 DEF HostAtRest, HostApart

\* A running relay at rest.
LEMMA HostRuns ==
    ASSUME HostApart, HostInv, NEW c \in Clicks, Tls!Idle(c), manager.app # None
    PROVE  /\ manager.app \in Tls!AppIds /\ Open1(manager.app) /\ Serves(manager.app, tls.chain)
              /\ Tells(manager.app, tls.chain)
           /\ CallsShape /\ CountShape /\ AppsShape /\ DiskShape /\ ManagerShape
           /\ apps[manager.app] \in AppT /\ apps[manager.app].image = Image
           /\ tls.chain \in Chains /\ tls.chain # <<>> /\ Tls!Last(tls.chain) \in 1..MaxIdentities
                  /\ Tls!Last(tls.chain) # 0
<1>1. HostAtRest /\ CallsShape /\ CountShape /\ AppsShape /\ DiskShape /\ ManagerShape
    BY HostRests
<1>2. manager.app \in Tls!AppIds /\ Open1(manager.app) /\ Serves(manager.app, tls.chain)
          /\ Tells(manager.app, tls.chain)
    BY <1>1 DEF HostAtRest, ManagerShape
<1>3. tls.chain \in Chains /\ tls.chain # <<>>
    BY <1>1, <1>2 DEF DiskShape, Serves
<1> QED BY <1>1, <1>2, <1>3, Lasts DEF Open1

LEMMA EnableListensKeeps ==
    ASSUME HostApart, HostInv, NEW c \in Clicks, Tls!EnableListens(c), server' = server
    PROVE  HostInv'
<1>1. Tls!Idle(c) /\ manager.app # None /\ server # "standalone"
    BY DEF Tls!EnableListens, Tls!Begins, Tls!Running
<1> PICK a \in Tls!AppIds : a = manager.app
    BY <1>1, HostRuns
<1>2. /\ Open1(a) /\ Serves(a, tls.chain) /\ Tells(a, tls.chain) /\ apps[a] \in AppT
      /\ CallsShape /\ CountShape /\ AppsShape /\ DiskShape /\ ManagerShape
      /\ tls.chain \in Chains /\ tls.chain # <<>> /\ Tls!Last(tls.chain) \in 1..MaxIdentities
    BY <1>1, HostRuns
<1> DEFINE x == [apps[a] EXCEPT !.chain = tls.chain, !.url = TRUE, !.tls = Tls!Last(tls.chain)]
           k == [Tls!NoCall EXCEPT !.op = "enable", !.at = "listening", !.app = a]
<1>3. /\ x \in AppT /\ x.image = apps[a].image /\ x.chain = tls.chain /\ x.url = TRUE
             /\ x.plain = apps[a].plain
      /\ x.tls = Tls!Last(tls.chain)
    <2>1. Tls!Last(tls.chain) \in 0..MaxIdentities
        BY <1>2
    <2> QED BY <1>2, <2>1 DEF AppT
<1>4. k \in CallT /\ k.op = "enable" /\ k.at = "listening" /\ k.app = a
    BY NoChain DEF Tls!NoCall, CallT
<1>5. /\ apps' = [apps EXCEPT ![a] = x] /\ call' = [call EXCEPT ![c] = k] /\ UNCHANGED <<tls, manager>>
      /\ manager.state = "plain_legacy"
    BY <1>2 DEF Tls!EnableListens, AppsShape
<1> HIDE DEF x, k
<1>6. AppsShape' /\ apps'[a] = x /\ \A b \in Tls!AppIds : b # a => apps'[b] = Tls!NoApp
    BY <1>2, <1>3, <1>5, AppPut DEF Open1
<1>7. CallsShape' /\ call'[c] = k
    BY <1>2, <1>4, <1>5, CallPut
<1>8. CountShape' /\ DiskShape' /\ ManagerShape' /\ Image' = Image
    BY <1>2, <1>5, HostCounts DEF Tls!EnableListens, DiskShape, ManagerShape, Image
<1>9. Tls!StateOf(tls) = "plain_legacy"
    BY <1>2, <1>5 DEF Tells
<1>10. apps[a].plain = TRUE
    BY <1>2, <1>9 DEF Serves, Tls!PlainServed
<1>11. Tells(a, tls.chain)'
    BY <1>2, <1>5 DEF Tells, Presented
<1>12. Open1(a)'
    BY <1>2, <1>3, <1>6, <1>8 DEF Open1
<1>13. UnderWay(call[c])'
    BY <1>2, <1>3, <1>4, <1>5, <1>6, <1>7, <1>9, <1>10, <1>11, <1>12 DEF UnderWay, Enabling
<1> QED BY <1>1, <1>2, <1>4, <1>5, <1>6, <1>7, <1>8, <1>13, NotNoCall, HostGoesWell DEF Tells

LEMMA EnableCommitsKeeps ==
    ASSUME HostApart, HostInv, NEW c \in Clicks, Tls!EnableCommits(c), server' = server
    PROVE  HostInv'
<1>1. /\ call[c] \in CallT /\ call[c].app \in Tls!AppIds /\ Enabling(call[c])
      /\ CallsShape /\ CountShape /\ AppsShape /\ DiskShape /\ ManagerShape
    BY HostBusy, HostPhases DEF Tls!EnableCommits, Tls!At, HostApart
<1> PICK a \in Tls!AppIds : a = call[c].app
    BY <1>1
<1> DEFINE i == Tls!SetState(Image, "tls_migrating")
           x == [apps[a] EXCEPT !.image = i]
<1>2. /\ apps[a] \in AppT /\ apps[a].image = Image /\ apps[a].chain = tls.chain /\ Tells(a, tls.chain)
      /\ tls.chain \in Chains /\ tls.chain # <<>> /\ \A b \in Tls!AppIds : b # a => apps[b] = Tls!NoApp
    BY <1>1 DEF Enabling, Open1, DiskShape
<1>3. Tls!Last(tls.chain) \in 1..MaxIdentities /\ Tls!Last(tls.chain) # 0
    BY <1>2, Lasts
<1>4. /\ apps' = [apps EXCEPT ![a] = x] /\ tls' = Tls!Saved(i) /\ UNCHANGED count /\ Tls!Ends(c)
      /\ manager' = [manager EXCEPT !.running = TRUE, !.state = "tls_migrating",
             !.pin = Tls!Last(tls.chain)]
    BY <1>2 DEF Tls!EnableCommits, Tls!AppOf, AppsShape
<1>5. /\ DiskShape' /\ tls'.state = "tls_migrating" /\ tls'.chain = tls.chain
             /\ Tls!StateOf(tls') = "tls_migrating"
      /\ Image' = i /\ i \in ImageT
    BY <1>1, <1>4, DiskTo DEF Tls!States
<1> HIDE DEF i
<1>6. x \in AppT /\ x.image = i /\ x.chain = apps[a].chain /\ x.url = apps[a].url
          /\ x.plain = apps[a].plain /\ x.tls = apps[a].tls
    BY <1>2, <1>5, AppImage
<1> HIDE DEF x
<1>7. AppsShape' /\ apps'[a] = x /\ \A b \in Tls!AppIds : b # a => apps'[b] = Tls!NoApp
  <2>1. x \in {Tls!NoApp} \cup AppT /\ apps' = [apps EXCEPT ![a] = x] /\ AppsShape
    BY <1>1, <1>4, <1>6
  <2>2. AppsShape' /\ apps'[a] = x /\ \A b \in Tls!AppIds : b # a => apps'[b] = apps[b]
    BY <2>1, AppPut
  <2> QED BY <1>2, <2>2
<1>8. manager' = [app |-> a, running |-> TRUE, state |-> "tls_migrating", pin |-> Tls!Last(tls.chain)]
    BY <1>2, <1>4 DEF Tells
<1>9. CountShape' /\ ManagerShape'
    <2>1. Tls!Last(tls.chain) \in 0..MaxIdentities /\ "tls_migrating" \in Tls!States
        BY <1>3 DEF Tls!States
    <2>2. ManagerShape'
        BY <1>8, <2>1 DEF ManagerShape
    <2> QED BY <1>1, <1>4, <2>2 DEF CountShape
<1>10. Tells(a, tls.chain)'
    BY <1>5, <1>8 DEF Tells, Presented
<1>11. Open1(a)'
    BY <1>5, <1>6, <1>7 DEF Open1
<1>12. Serves(a, tls.chain)'
    BY <1>1, <1>2, <1>3, <1>5, <1>6, <1>7 DEF Serves, Enabling, Presented, Tls!PlainServed
<1> QED BY <1>4, <1>5, <1>7, <1>9, <1>10, <1>11, <1>12, RestsAt, HostEndsWell

LEMMA EnableFailsKeeps ==
    ASSUME HostApart, HostInv, NEW c \in Clicks, Tls!EnableFails(c), server' = server
    PROVE  HostInv'
<1>1. /\ call[c] \in CallT /\ call[c].app \in Tls!AppIds /\ Enabling(call[c])
      /\ CallsShape /\ CountShape /\ AppsShape /\ DiskShape /\ ManagerShape
    BY HostBusy, HostPhases DEF Tls!EnableFails, Tls!At, HostApart
<1> PICK a \in Tls!AppIds : a = call[c].app
    BY <1>1
<1> DEFINE x == [apps[a] EXCEPT !.url = FALSE, !.tls = 0]
<1>2. /\ apps[a] \in AppT /\ apps[a].image = Image /\ apps[a].chain = tls.chain /\ Tells(a, tls.chain)
      /\ tls.chain # <<>> /\ \A b \in Tls!AppIds : b # a => apps[b] = Tls!NoApp
    BY <1>1 DEF Enabling, Open1
<1>3. x \in AppT /\ x.image = apps[a].image /\ x.chain = apps[a].chain /\ x.url = FALSE
          /\ x.plain = apps[a].plain /\ x.tls = 0
    <2>1. 0 \in 0..MaxIdentities
        BY DEF HostApart
    <2> PICK y \in AppT : y = apps[a]
        BY <1>2
    <2>2. x = [y EXCEPT !.url = FALSE, !.tls = 0]
        OBVIOUS
    <2> HIDE DEF x
    <2>3. x \in AppT /\ x.image = y.image /\ x.chain = y.chain /\ x.plain = y.plain
        BY <2>1, <2>2 DEF AppT
    <2>4. x.url = FALSE /\ x.tls = 0
        BY <2>2 DEF AppT
    <2> QED BY <2>3, <2>4
<1>4. apps' = [apps EXCEPT ![a] = x] /\ UNCHANGED <<tls, manager>> /\ Tls!Ends(c) /\ CountShape'
    BY <1>1, HostCounts DEF Tls!EnableFails, Tls!Undone
<1> HIDE DEF x
<1>5. AppsShape' /\ apps'[a] = x /\ \A b \in Tls!AppIds : b # a => apps'[b] = Tls!NoApp
  <2>1. x \in {Tls!NoApp} \cup AppT /\ apps' = [apps EXCEPT ![a] = x] /\ AppsShape
    BY <1>1, <1>3, <1>4
  <2>2. AppsShape' /\ apps'[a] = x /\ \A b \in Tls!AppIds : b # a => apps'[b] = apps[b]
    BY <2>1, AppPut
  <2> QED BY <1>2, <2>2
<1>6. DiskShape' /\ ManagerShape' /\ Image' = Image
    BY <1>1, <1>4 DEF DiskShape, ManagerShape, Image
<1>7. Tells(a, tls.chain)'
    BY <1>2, <1>4 DEF Tells, Presented
<1>8. Open1(a)'
    BY <1>2, <1>3, <1>5, <1>6 DEF Open1
<1>9. Serves(a, tls.chain)'
    <2>1. Tls!StateOf(tls) = "plain_legacy" /\ apps[a].plain
        BY <1>1 DEF Enabling
    <2>2. apps'[a].plain = TRUE /\ apps'[a].url = FALSE /\ apps'[a].tls = 0 /\ apps'[a].chain = tls.chain
        BY <1>2, <1>3, <1>5, <2>1 DEF AppT
    <2>3. Presented(tls.chain)' = 0 /\ Tls!PlainServed(Tls!StateOf(tls))' = TRUE
              /\ tls'.chain = tls.chain
        BY <1>4, <2>1 DEF Presented, Tls!PlainServed
    <2> QED BY <1>2, <2>2, <2>3 DEF Serves
<1> QED BY <1>4, <1>5, <1>6, <1>7, <1>8, <1>9, RestsAt, HostEndsWell

LEMMA EnforceCommitsKeeps ==
    ASSUME HostApart, HostInv, NEW c \in Clicks, Tls!EnforceCommits(c), server' = server
    PROVE  HostInv'
<1>1. Tls!Idle(c) /\ manager.app # None /\ server # "standalone"
    BY DEF Tls!EnforceCommits, Tls!Begins, Tls!Running
<1> PICK a \in Tls!AppIds : a = manager.app
    BY <1>1, HostRuns
<1>2. /\ Open1(a) /\ Serves(a, tls.chain) /\ Tells(a, tls.chain) /\ apps[a] \in AppT
             /\ apps[a].image = Image
      /\ CallsShape /\ CountShape /\ AppsShape /\ DiskShape /\ ManagerShape
      /\ tls.chain \in Chains /\ tls.chain # <<>> /\ Tls!Last(tls.chain) \in 1..MaxIdentities
             /\ Tls!Last(tls.chain) # 0
    BY <1>1, HostRuns
<1> DEFINE i == Tls!SetState(Image, "tls_enforced")
           x == [apps[a] EXCEPT !.image = i]
           k == [Tls!NoCall EXCEPT !.op = "enforce", !.at = "closing", !.app = a]
<1>3. /\ apps' = [apps EXCEPT ![a] = x] /\ tls' = Tls!Saved(i) /\ UNCHANGED manager /\ Tls!Counted
      /\ call' = [call EXCEPT ![c] = k] /\ manager.state = "tls_migrating"
    BY <1>2 DEF Tls!EnforceCommits, AppsShape
<1>4. /\ DiskShape' /\ tls'.state = "tls_enforced" /\ tls'.chain = tls.chain
             /\ Tls!StateOf(tls') = "tls_enforced"
      /\ Image' = i /\ i \in ImageT
    BY <1>2, <1>3, DiskTo DEF Tls!States
<1>5. k \in CallT /\ k.op = "enforce" /\ k.at = "closing" /\ k.app = a
    BY NoChain DEF Tls!NoCall, CallT
<1> HIDE DEF i, k
<1>6. x \in AppT /\ x.image = i /\ x.chain = apps[a].chain /\ x.url = apps[a].url
          /\ x.plain = apps[a].plain /\ x.tls = apps[a].tls
    BY <1>2, <1>4, AppImage
<1> HIDE DEF x
<1>7. AppsShape' /\ apps'[a] = x /\ \A b \in Tls!AppIds : b # a => apps'[b] = Tls!NoApp
    BY <1>2, <1>3, <1>6, AppPut DEF Open1
<1>8. CallsShape' /\ call'[c] = k
    BY <1>2, <1>3, <1>5, CallPut
<1>9. CountShape' /\ ManagerShape'
    BY <1>2, <1>3, HostCounts DEF ManagerShape
<1>10. Tls!StateOf(tls) = "tls_migrating" /\ Presented(tls.chain) = Tls!Last(tls.chain)
    BY <1>2, <1>3 DEF Tells, Presented
<1>11. apps[a].chain = tls.chain /\ apps[a].tls = Tls!Last(tls.chain) /\ apps[a].url
    BY <1>2, <1>10 DEF Serves
<1>12. manager' = [app |-> a, running |-> TRUE, state |-> "tls_migrating", pin |-> Tls!Last(tls.chain)]
    BY <1>2, <1>3, <1>10 DEF Tells
<1>13. Open1(a)'
    BY <1>4, <1>6, <1>7 DEF Open1
<1>14. UnderWay(call[c])'
    BY <1>2, <1>4, <1>5, <1>6, <1>7, <1>8, <1>11, <1>12, <1>13 DEF UnderWay, Enforcing
<1> QED BY <1>1, <1>4, <1>5, <1>7, <1>8, <1>9, <1>12, <1>14, NotNoCall, HostGoesWell

LEMMA EnforceClosesKeeps ==
    ASSUME HostApart, HostInv, NEW c \in Clicks, Tls!EnforceCloses(c), server' = server
    PROVE  HostInv'
<1>1. /\ call[c] \in CallT /\ call[c].app \in Tls!AppIds /\ Enforcing(call[c])
      /\ CallsShape /\ CountShape /\ AppsShape /\ DiskShape /\ ManagerShape
    BY HostBusy, HostPhases DEF Tls!EnforceCloses, Tls!At, HostApart
<1> PICK a \in Tls!AppIds : a = call[c].app
    BY <1>1
<1> DEFINE x == [apps[a] EXCEPT !.plain = FALSE]
<1>2. /\ apps[a] \in AppT /\ apps[a].image = Image /\ apps[a].chain = tls.chain
             /\ tls.state = "tls_enforced"
      /\ apps[a].tls = Tls!Last(tls.chain) /\ apps[a].url = TRUE
      /\ tls.chain \in Chains /\ tls.chain # <<>> /\ \A b \in Tls!AppIds : b # a => apps[b] = Tls!NoApp
    BY <1>1 DEF Enforcing, Open1, DiskShape, AppT
<1>3. Tls!Last(tls.chain) \in 1..MaxIdentities /\ Tls!Last(tls.chain) # 0
          /\ Tls!StateOf(tls) = "tls_enforced"
    BY <1>1, <1>2, Lasts, Legacies DEF Tls!States
<1>4. x \in AppT /\ x.image = apps[a].image /\ x.chain = apps[a].chain /\ x.url = apps[a].url
          /\ x.plain = FALSE /\ x.tls = apps[a].tls
    BY <1>2 DEF AppT
<1>5. /\ apps' = [apps EXCEPT ![a] = x] /\ UNCHANGED <<tls, count>> /\ Tls!Ends(c)
      /\ manager' = [manager EXCEPT !.running = TRUE, !.state = "tls_enforced"]
    BY DEF Tls!EnforceCloses, Tls!ClosedPlain
<1> HIDE DEF x
<1>6. AppsShape' /\ apps'[a] = x /\ \A b \in Tls!AppIds : b # a => apps'[b] = Tls!NoApp
  <2>1. x \in {Tls!NoApp} \cup AppT /\ apps' = [apps EXCEPT ![a] = x] /\ AppsShape
    BY <1>1, <1>4, <1>5
  <2>2. AppsShape' /\ apps'[a] = x /\ \A b \in Tls!AppIds : b # a => apps'[b] = apps[b]
    BY <2>1, AppPut
  <2> QED BY <1>2, <2>2
<1>7. manager' = [app |-> a, running |-> TRUE, state |-> "tls_enforced", pin |-> Tls!Last(tls.chain)]
    BY <1>1, <1>5 DEF Enforcing
<1>8. ManagerShape'
    <2>1. Tls!Last(tls.chain) \in 0..MaxIdentities /\ "tls_enforced" \in Tls!States
        BY <1>3 DEF Tls!States
    <2> QED BY <1>7, <2>1 DEF ManagerShape
<1>9. CountShape' /\ DiskShape' /\ Image' = Image /\ Tls!StateOf(tls') = "tls_enforced"
          /\ tls'.chain = tls.chain
    BY <1>1, <1>3, <1>5 DEF CountShape, DiskShape, Image
<1>10. Tells(a, tls.chain)'
    BY <1>7, <1>9 DEF Tells, Presented
<1>11. Open1(a)'
    BY <1>2, <1>4, <1>6, <1>9 DEF Open1
<1>12. Serves(a, tls.chain)'
    <2>1. Presented(tls.chain)' = Tls!Last(tls.chain) /\ Tls!PlainServed(Tls!StateOf(tls))' = FALSE
        BY <1>9 DEF Presented, Tls!PlainServed
    <2> QED BY <1>2, <1>3, <1>4, <1>6, <1>9, <2>1 DEF Serves
<1> QED BY <1>5, <1>6, <1>8, <1>9, <1>10, <1>11, <1>12, RestsAt, HostEndsWell

LEMMA EnforceCloseFailsKeeps ==
    ASSUME HostApart, HostInv, NEW c \in Clicks, Tls!EnforceCloseFails(c), server' = server
    PROVE  HostInv'
<1>1. /\ call[c] \in CallT /\ call[c].app \in Tls!AppIds /\ Enforcing(call[c])
      /\ CallsShape /\ CountShape /\ AppsShape /\ DiskShape /\ ManagerShape
    BY HostBusy, HostPhases DEF Tls!EnforceCloseFails, Tls!At, HostApart
<1>2. CountShape' /\ DiskShape' /\ manager' = Tls!Stopped /\ Tls!Ends(c)
    BY <1>1, HostCounts DEF Tls!EnforceCloseFails, DiskShape
<1> QED BY <1>1, <1>2, StopsWell, Down DEF Tls!EnforceCloseFails, Enforcing, Open1

\* What a rotation under way knows.
LEMMA RotationHas ==
    ASSUME HostApart, HostInv, NEW c \in Clicks, call[c].op = "rotate"
    PROVE  /\ call[c] \in CallT /\ call[c].app \in Tls!AppIds /\ Rotating(call[c])
              /\ server # "standalone"
           /\ CallsShape /\ CountShape /\ AppsShape /\ DiskShape /\ ManagerShape
           /\ call[c].prev \in Chains /\ call[c].prev # <<>> /\ call[c].next \in Chains
                  /\ call[c].next # <<>>
           /\ Tls!Last(call[c].prev) \in 0..MaxIdentities /\ Tls!Last(call[c].prev) # 0
           /\ Tls!Last(call[c].next) \in 0..MaxIdentities /\ Tls!Last(call[c].next) # 0
           /\ tls.state \in {"tls_enforced", "pinned_tls"} /\ tls.chain = call[c].next
                  /\ Tls!StateOf(tls) = tls.state
           /\ manager = [app |-> call[c].app, running |-> TRUE, state |-> tls.state,
                  pin |-> Tls!Last(call[c].prev)]
           /\ apps[call[c].app] \in AppT /\ apps[call[c].app].image = Image
           /\ apps[call[c].app].url = TRUE /\ apps[call[c].app].plain = FALSE
           /\ \A b \in Tls!AppIds : b # call[c].app => apps[b] = Tls!NoApp
<1>1. /\ call[c] \in CallT /\ call[c].app \in Tls!AppIds /\ Rotating(call[c]) /\ server # "standalone"
      /\ CallsShape /\ CountShape /\ AppsShape /\ DiskShape /\ ManagerShape
    BY HostBusy, HostPhases DEF HostApart
<1>2. /\ call[c].prev \in Chains /\ call[c].prev # <<>> /\ tls.chain = call[c].next
             /\ call[c].next \in Chains
      /\ tls.state \in {"tls_enforced", "pinned_tls"}
    BY <1>1 DEF Rotating, CallT
<1>3. call[c].next # <<>>
    BY <1>1, <1>2, Longer DEF Rotating
<1>4. Tls!StateOf(tls) = tls.state
    BY <1>1, <1>2, Legacies DEF Tls!States
<1>5. manager = [app |-> call[c].app, running |-> TRUE, state |-> tls.state,
          pin |-> Tls!Last(call[c].prev)]
    BY <1>1, <1>2, <1>4 DEF Rotating, Tells, Presented
<1>6. /\ apps[call[c].app] \in AppT /\ apps[call[c].app].image = Image
      /\ apps[call[c].app].url = TRUE /\ apps[call[c].app].plain = FALSE
      /\ \A b \in Tls!AppIds : b # call[c].app => apps[b] = Tls!NoApp
    BY <1>1 DEF Rotating, Open1, AppT
<1> QED BY <1>1, <1>2, <1>3, <1>4, <1>5, <1>6, Lasts

LEMMA RotateSavesKeeps ==
    ASSUME HostApart, HostInv, NEW c \in Clicks, Tls!RotateSaves(c), server' = server
    PROVE  HostInv'
<1>1. Tls!Idle(c) /\ manager.app # None /\ server # "standalone"
    BY DEF Tls!RotateSaves, Tls!Begins, Tls!Running
<1> PICK a \in Tls!AppIds : a = manager.app
    BY <1>1, HostRuns
<1>2. /\ Open1(a) /\ Serves(a, tls.chain) /\ Tells(a, tls.chain) /\ apps[a] \in AppT
             /\ apps[a].image = Image
      /\ CallsShape /\ CountShape /\ AppsShape /\ DiskShape /\ ManagerShape
      /\ tls.chain \in Chains /\ tls.chain # <<>> /\ Tls!Last(tls.chain) \in 1..MaxIdentities
             /\ Tls!Last(tls.chain) # 0
    BY <1>1, HostRuns
<1> PICK prev \in Chains : prev = tls.chain
    BY <1>2
<1> PICK n \in Nat : n = count.ids
    BY <1>2 DEF CountShape
<1> DEFINE next == Append(prev, n + 1)
           k == [op |-> "rotate", at |-> "saved", app |-> a, prev |-> prev, next |-> next]
<1>3. apps[a].chain = tls.chain
    BY <1>2 DEF Serves
<1>4. /\ UNCHANGED <<apps, manager>> /\ tls' = [tls EXCEPT !.chain = next]
             /\ call' = [call EXCEPT ![c] = k]
      /\ count' = [count EXCEPT !.calls = @ + 1, !.ids = @ + 1] /\ count.ids < MaxIdentities
      /\ manager.state \in {"tls_enforced", "pinned_tls"}
    BY <1>3 DEF Tls!RotateSaves, Tls!KeepIdentity
<1>5. n + 1 \in 1..MaxIdentities
    BY <1>2, <1>4 DEF CountShape, HostApart
<1>6. next \in Chains
    BY <1>2, <1>5, Longer
<1>7. k \in CallT /\ k.op = "rotate" /\ k.at = "saved" /\ k.app = a /\ k.prev = prev /\ k.next = next
    BY <1>2, <1>6 DEF CallT
<1>8. \E j \in 1..MaxIdentities : next = Append(prev, j)
    BY <1>5
<1> HIDE DEF next, k
<1>9. CallsShape' /\ call'[c] = k
    BY <1>2, <1>4, <1>7, CallPut
<1>10. CountShape'
    <2>1. count = [calls |-> count.calls, faults |-> count.faults, ids |-> n]
        BY <1>2 DEF CountShape
    <2>2. count' = [calls |-> count.calls + 1, faults |-> count.faults, ids |-> n + 1]
        BY <1>4, <2>1
    <2> QED BY <1>5, <2>2 DEF CountShape
<1>11. DiskShape' /\ tls'.state = tls.state /\ tls'.chain = next /\ Image' = Image
    BY <1>2, <1>4, <1>6 DEF DiskShape, Image
<1>12. AppsShape' /\ ManagerShape'
    BY <1>2, <1>4 DEF AppsShape, ManagerShape
<1>13. tls.state \in {"tls_enforced", "pinned_tls"} /\ Tls!StateOf(tls) = tls.state
           /\ manager.state = tls.state
    BY <1>2, <1>4, Legacies DEF Tells, Tls!StateOf
<1>14. Tls!StateOf(tls') = tls.state
    BY <1>11, <1>13 DEF Tls!StateOf, HostApart, Tls!States
<1>15. Presented(prev) = Tls!Last(prev) /\ Presented(prev)' = Tls!Last(prev)
    BY <1>13, <1>14 DEF Presented
<1>16. Tells(a, prev) /\ manager' = [app |-> a, running |-> TRUE, state |-> tls.state,
           pin |-> Tls!Last(prev)]
    BY <1>2, <1>4, <1>13, <1>15 DEF Tells
<1>17. apps[a].tls = Tls!Last(prev) /\ apps[a].url /\ ~apps[a].plain
    BY <1>2, <1>13, <1>15 DEF Serves, Tls!PlainServed
<1>18. Open1(a)'
    BY <1>2, <1>4, <1>11 DEF Open1
<1>19. Tells(a, prev)'
    BY <1>13, <1>14, <1>16 DEF Tells, Presented
<1>20. UnderWay(call[c])'
    BY <1>2, <1>3, <1>4, <1>7, <1>8, <1>9, <1>11, <1>13, <1>17, <1>18, <1>19 DEF UnderWay, Rotating
<1> QED BY <1>1, <1>7, <1>9, <1>10, <1>11, <1>12, <1>16, <1>20, NotNoCall, HostGoesWell

\* A step of a rotation that goes on: it changes the listener and the app's chain only.
LEMMA RotateGoes ==
    ASSUME HostApart, HostInv, NEW c \in Clicks, call[c].op = "rotate", server' = server,
           NEW at \in {"recording", "rollback"}, Tls!Goes(c, at), UNCHANGED <<tls, manager>>,
               CountShape',
           NEW x \in AppT, x.image = apps[call[c].app].image, x.url = TRUE, x.plain = FALSE,
           apps' = [apps EXCEPT ![call[c].app] = x],
           \/ at = "recording" /\ x.chain = call[c].next /\ x.tls = Tls!Last(call[c].next)
           \/ at = "rollback" /\ x.tls = 0
    PROVE  HostInv'
<1> PICK a \in Tls!AppIds : a = call[c].app
    BY RotationHas
<1> PICK prev \in Chains : prev = call[c].prev /\ prev # <<>>
    BY RotationHas
<1> PICK next \in Chains : next = call[c].next /\ next # <<>>
    BY RotationHas
<1>1. /\ call[c] \in CallT /\ Rotating(call[c]) /\ server # "standalone"
      /\ CallsShape /\ AppsShape /\ DiskShape /\ ManagerShape
      /\ tls.state \in {"tls_enforced", "pinned_tls"} /\ tls.chain = next /\ Tls!StateOf(tls) = tls.state
      /\ manager = [app |-> a, running |-> TRUE, state |-> tls.state, pin |-> Tls!Last(prev)]
      /\ apps[a].image = Image /\ \A b \in Tls!AppIds : b # a => apps[b] = Tls!NoApp
    BY RotationHas
<1>2. AppsShape' /\ apps'[a] = x /\ \A b \in Tls!AppIds : b # a => apps'[b] = Tls!NoApp
    BY <1>1, AppPut
<1>3. /\ CallsShape' /\ call'[c] # Tls!NoCall /\ call'[c].op = "rotate" /\ call'[c].at = at
             /\ call'[c].app = a
      /\ call'[c].prev = prev /\ call'[c].next = next
    BY <1>1, HostGoes
<1>4. DiskShape' /\ ManagerShape' /\ Image' = Image /\ Tls!StateOf(tls') = tls.state
    BY <1>1 DEF DiskShape, ManagerShape, Image
<1>5. Open1(a)'
    BY <1>1, <1>2, <1>4 DEF Open1
<1>6. Tells(a, prev)'
    BY <1>1, <1>4 DEF Tells, Presented
<1>7. \E j \in 1..MaxIdentities : next = Append(prev, j)
    BY <1>1 DEF Rotating
<1>8. Rotating(call[c])'
  <2>1. tls' = tls /\ call'[c].app = a /\ call'[c].prev = prev /\ call'[c].next = next
    BY <1>3
  <2>2. tls'.chain = next /\ tls'.state \in {"tls_enforced", "pinned_tls"}
    BY <1>1, <2>1
  <2>3. apps'[a].url /\ ~apps'[a].plain
    BY <1>2
  <2>4. \/ at = "recording" /\ apps'[a].chain = next /\ apps'[a].tls = Tls!Last(next)
        \/ at = "rollback" /\ apps'[a].tls = 0
    BY <1>2
  <2> QED BY <1>3, <1>5, <1>6, <1>7, <2>2, <2>3, <2>4 DEF Rotating
<1>9. UnderWay(call[c])'
    BY <1>3, <1>8 DEF UnderWay
<1> QED BY <1>1, <1>2, <1>3, <1>4, <1>9, HostGoesWell

LEMMA RotateRestartsKeeps ==
    ASSUME HostApart, HostInv, NEW c \in Clicks, Tls!RotateRestarts(c), server' = server
    PROVE  HostInv'
<1>1. call[c].op = "rotate"
    BY DEF Tls!RotateRestarts, Tls!At
<1> DEFINE a == call[c].app
           x == [apps[a] EXCEPT !.tls = Tls!Last(call[c].next), !.chain = call[c].next]
<1>2. /\ a \in Tls!AppIds /\ apps[a] \in AppT /\ apps[a].url = TRUE /\ apps[a].plain = FALSE
             /\ CountShape /\ AppsShape
      /\ call[c].next \in Chains /\ Tls!Last(call[c].next) \in 0..MaxIdentities
    BY <1>1, RotationHas
<1>3. /\ x \in AppT /\ x.image = apps[a].image /\ x.chain = call[c].next /\ x.url = apps[a].url
      /\ x.plain = apps[a].plain /\ x.tls = Tls!Last(call[c].next)
    BY <1>2 DEF AppT
<1>4. apps' = [apps EXCEPT ![a] = x] /\ Tls!Goes(c, "recording") /\ UNCHANGED <<tls, manager, count>>
    BY <1>2 DEF Tls!RotateRestarts, AppsShape
<1> HIDE DEF x
<1>5. CountShape'
    BY <1>2, <1>4 DEF CountShape
<1> QED BY <1>1, <1>2, <1>3, <1>4, <1>5, RotateGoes

LEMMA RotateFailsKeeps ==
    ASSUME HostApart, HostInv, NEW c \in Clicks, Tls!RotateRestartFails(c) \/ Tls!RotateRecordFails(c),
           server' = server
    PROVE  HostInv'
<1>1. call[c].op = "rotate"
    BY DEF Tls!RotateRestartFails, Tls!RotateRecordFails, Tls!At
<1> DEFINE a == call[c].app
           x == [apps[a] EXCEPT !.tls = 0]
<1>2. /\ a \in Tls!AppIds /\ apps[a] \in AppT /\ apps[a].url = TRUE /\ apps[a].plain = FALSE
             /\ CountShape /\ AppsShape
    BY <1>1, RotationHas
<1>3. /\ x \in AppT /\ x.image = apps[a].image /\ x.chain = apps[a].chain /\ x.url = apps[a].url
      /\ x.plain = apps[a].plain /\ x.tls = 0
    <2>1. 0 \in 0..MaxIdentities
        BY DEF HostApart
    <2> QED BY <1>2, <2>1 DEF AppT
<1>4. apps' = [apps EXCEPT ![a] = x] /\ Tls!Goes(c, "rollback") /\ UNCHANGED <<tls, manager>>
          /\ CountShape'
    BY <1>2, HostCounts DEF Tls!RotateRestartFails, Tls!RotateRecordFails, AppsShape
<1> HIDE DEF x
<1> QED BY <1>1, <1>2, <1>3, <1>4, RotateGoes

ManagerT == [app: Tls!AppIds \cup {None}, running: BOOLEAN, state: Tls!States \cup {None},
    pin: 0..MaxIdentities]

\* A status is known by its fields.
LEMMA StatusIs ==
    ASSUME NEW m \in ManagerT, NEW a, NEW s, NEW p, m.app = a, m.running, m.state = s, m.pin = p
    PROVE  m = [app |-> a, running |-> TRUE, state |-> s, pin |-> p]
<1>1. \A r : m.running = r => m = [app |-> a, running |-> r, state |-> s, pin |-> p]
    BY DEF ManagerT
<1>2. m.running = TRUE
    BY DEF ManagerT
<1> QED BY <1>1, <1>2

LEMMA PinPut ==
    ASSUME NEW m \in ManagerT, m.running, NEW q \in 0..MaxIdentities, NEW w,
           w = [m EXCEPT !.running = TRUE, !.pin = q]
    PROVE  w \in ManagerT /\ w.app = m.app /\ w.running /\ w.state = m.state /\ w.pin = q
BY DEF ManagerT

LEMMA PinSame ==
    ASSUME NEW m \in ManagerT, m.running, NEW q, m.pin = q
    PROVE  [m EXCEPT !.running = TRUE, !.pin = q] = m
BY DEF ManagerT

LEMMA PinSet ==
    ASSUME NEW m \in ManagerT, NEW a, NEW s, NEW p,
           m = [app |-> a, running |-> TRUE, state |-> s, pin |-> p],
           NEW q \in 0..MaxIdentities, NEW w, w = [m EXCEPT !.running = TRUE, !.pin = q]
    PROVE  w = [app |-> a, running |-> TRUE, state |-> s, pin |-> q] /\ w \in ManagerT
<1>1. m.app = a /\ m.running /\ m.state = s
    OBVIOUS
<1>2. w \in ManagerT /\ w.app = a /\ w.running /\ w.state = s /\ w.pin = q
    BY <1>1, PinPut
<1> QED BY <1>2, StatusIs

\* A rotation that ends with the relay running, under the one identity or the other.
LEMMA RotateEnds ==
    ASSUME HostApart, HostInv, NEW c \in Clicks, call[c].op = "rotate", server' = server, Tls!Ends(c),
           UNCHANGED count,
           NEW ch \in Chains, ch # <<>>, tls' = [tls EXCEPT !.chain = ch],
           manager' = [manager EXCEPT !.running = TRUE, !.pin = Tls!Last(ch)],
           NEW x \in AppT, x.image = apps[call[c].app].image, x.chain = ch, x.tls = Tls!Last(ch),
               x.url = TRUE, x.plain = FALSE,
           apps' = [apps EXCEPT ![call[c].app] = x]
    PROVE  HostInv'
<1> PICK a \in Tls!AppIds : a = call[c].app
    BY RotationHas
<1>1. /\ CountShape /\ AppsShape /\ DiskShape /\ ManagerShape
      /\ tls.state \in {"tls_enforced", "pinned_tls"} /\ Tls!StateOf(tls) = tls.state
      /\ manager = [app |-> a, running |-> TRUE, state |-> tls.state, pin |-> Tls!Last(call[c].prev)]
      /\ apps[a].image = Image /\ \A b \in Tls!AppIds : b # a => apps[b] = Tls!NoApp
    BY RotationHas
<1>2. AppsShape' /\ apps'[a] = x /\ \A b \in Tls!AppIds : b # a => apps'[b] = Tls!NoApp
    BY <1>1, AppPut
<1>3. Tls!Last(ch) \in 1..MaxIdentities /\ Tls!Last(ch) # 0
    BY Lasts
<1>4. manager' = [app |-> a, running |-> TRUE, state |-> tls.state, pin |-> Tls!Last(ch)]
          /\ ManagerShape'
    <2>1. manager \in ManagerT
        BY <1>1 DEF ManagerShape, ManagerT
    <2>2. Tls!Last(ch) \in 0..MaxIdentities
        BY <1>3
    <2>3. manager' = [app |-> a, running |-> TRUE, state |-> tls.state, pin |-> Tls!Last(ch)]
              /\ manager' \in ManagerT
        BY <1>1, <2>1, <2>2, PinSet
    <2> QED BY <2>3 DEF ManagerShape, ManagerT
<1>5. DiskShape' /\ tls'.chain = ch /\ tls'.state = tls.state /\ Image' = Image
    BY <1>1 DEF DiskShape, Image
<1>6. Tls!StateOf(tls') = tls.state
    BY <1>1, <1>5 DEF Tls!StateOf
<1>8. Open1(a)'
    BY <1>1, <1>2, <1>5 DEF Open1
<1>9. Tells(a, tls.chain)'
    BY <1>1, <1>4, <1>5, <1>6 DEF Tells, Presented
<1>10. Serves(a, tls.chain)'
    <2>1. Presented(tls.chain)' = Tls!Last(ch) /\ Tls!PlainServed(Tls!StateOf(tls))' = FALSE
        BY <1>1, <1>5, <1>6 DEF Presented, Tls!PlainServed
    <2>2. apps'[a].url = TRUE /\ apps'[a].plain = FALSE /\ apps'[a].chain = ch
              /\ apps'[a].tls = Tls!Last(ch)
        BY <1>2
    <2> QED BY <1>3, <1>5, <2>1, <2>2 DEF Serves
<1>11. CountShape'
    BY <1>1 DEF CountShape
<1> QED BY <1>2, <1>4, <1>5, <1>8, <1>9, <1>10, <1>11, RestsAt, HostEndsWell

LEMMA RotateRecordedKeeps ==
    ASSUME HostApart, HostInv, NEW c \in Clicks, Tls!RotateRecorded(c), server' = server
    PROVE  HostInv'
<1>1. call[c].op = "rotate" /\ call[c].at = "recording"
    BY DEF Tls!RotateRecorded, Tls!At
<1> DEFINE a == call[c].app
<1>2. /\ a \in Tls!AppIds /\ apps[a] \in AppT /\ apps[a].image = Image /\ apps[a].url = TRUE
             /\ apps[a].plain = FALSE
      /\ AppsShape /\ DiskShape /\ call[c].next \in Chains /\ call[c].next # <<>>
             /\ tls.chain = call[c].next
      /\ apps[a].chain = call[c].next /\ apps[a].tls = Tls!Last(call[c].next)
    BY <1>1, RotationHas DEF Rotating
<1>3. tls' = tls /\ tls = [tls EXCEPT !.chain = call[c].next]
    BY <1>2, SavedSame DEF Tls!RotateRecorded, Tls!AppOf, DiskShape
<1>4. apps' = [apps EXCEPT ![a] = apps[a]]
    BY <1>2 DEF Tls!RotateRecorded, AppsShape
<1>5. manager' = [manager EXCEPT !.running = TRUE, !.pin = Tls!Last(call[c].next)] /\ Tls!Ends(c)
          /\ UNCHANGED count
    BY DEF Tls!RotateRecorded
<1> QED BY <1>1, <1>2, <1>3, <1>4, <1>5, RotateEnds

LEMMA RolledBackKeeps ==
    ASSUME HostApart, HostInv, NEW c \in Clicks, Tls!RolledBack(c), server' = server
    PROVE  HostInv'
<1>1. call[c].op = "rotate"
    BY DEF Tls!RolledBack, Tls!At
<1> DEFINE a == call[c].app
           x == [apps[a] EXCEPT !.tls = Tls!Last(call[c].prev), !.chain = call[c].prev]
<1>2. /\ a \in Tls!AppIds /\ apps[a] \in AppT /\ apps[a].url = TRUE /\ apps[a].plain = FALSE /\ AppsShape
      /\ call[c].prev \in Chains /\ call[c].prev # <<>> /\ Tls!Last(call[c].prev) \in 0..MaxIdentities
      /\ manager = [app |-> a, running |-> TRUE, state |-> tls.state, pin |-> Tls!Last(call[c].prev)]
    BY <1>1, RotationHas
<1>3. /\ x \in AppT /\ x.image = apps[a].image /\ x.chain = call[c].prev /\ x.url = apps[a].url
      /\ x.plain = apps[a].plain /\ x.tls = Tls!Last(call[c].prev)
    BY <1>2 DEF AppT
<1>4. /\ apps' = [apps EXCEPT ![a] = x] /\ tls' = [tls EXCEPT !.chain = call[c].prev] /\ Tls!Ends(c)
      /\ UNCHANGED <<manager, count>>
    BY <1>2 DEF Tls!RolledBack, Tls!RollbackFile, AppsShape
<1>5. manager' = [manager EXCEPT !.running = TRUE, !.pin = Tls!Last(call[c].prev)]
    <2>1. manager \in ManagerT
        BY <1>1, RotationHas DEF ManagerShape, ManagerT
    <2>2. manager.running /\ manager.pin = Tls!Last(call[c].prev)
        BY <1>2
    <2> QED BY <1>4, <2>1, <2>2, PinSame
<1>6. x \in AppT /\ x.image = apps[a].image /\ x.chain = call[c].prev /\ x.tls = Tls!Last(call[c].prev)
    BY <1>3
<1>7. x.url = TRUE /\ x.plain = FALSE
    BY <1>2, <1>3
<1> HIDE DEF x
<1>8. x.image = apps[call[c].app].image /\ apps' = [apps EXCEPT ![call[c].app] = x]
    BY <1>4, <1>6
<1>9. call[c].prev \in Chains /\ call[c].prev # <<>>
    BY <1>2
<1>10. tls' = [tls EXCEPT !.chain = call[c].prev] /\ Tls!Ends(c) /\ UNCHANGED count
    BY <1>4
<1> HIDE DEF a
<1> QED BY <1>1, <1>5, <1>6, <1>7, <1>8, <1>9, <1>10, RotateEnds

LEMMA RollbackFailsKeeps ==
    ASSUME HostApart, HostInv, NEW c \in Clicks, Tls!RollbackFails(c), server' = server
    PROVE  HostInv'
<1>1. call[c].op = "rotate"
    BY DEF Tls!RollbackFails, Tls!At
<1>2. /\ call[c].app \in Tls!AppIds /\ call[c].prev \in Chains /\ CountShape /\ DiskShape
      /\ \A b \in Tls!AppIds : b # call[c].app => apps[b] = Tls!NoApp
    BY <1>1, RotationHas
<1>3. CountShape' /\ DiskShape'
    BY <1>2, HostCounts DEF Tls!RollbackFails, DiskShape
<1>4. manager' = Tls!Stopped /\ Tls!Ends(c) /\ apps' = [apps EXCEPT ![call[c].app] = Tls!NoApp]
    BY DEF Tls!RollbackFails, Tls!GivenUp
<1> QED BY <1>2, <1>3, <1>4, StopsWell, Down

LEMMA RestoreKeeps ==
    ASSUME HostApart, HostInv, NEW c \in Clicks, Tls!Restore(c), server' = server
    PROVE  HostInv'
<1>1. Tls!Idle(c) /\ manager.app # None
    BY DEF Tls!Restore, Tls!Begins, Tls!Running
<1>2. /\ manager.app \in Tls!AppIds /\ CallsShape /\ CountShape /\ DiskShape
      /\ \A b \in Tls!AppIds : b # manager.app => apps[b] = Tls!NoApp
    BY <1>1, HostRuns DEF Open1
<1>3. Tls!Ends(c)
    BY <1>1, <1>2 DEF Tls!Restore, Tls!Ends, Tls!Idle, CallsShape
<1>4. CountShape' /\ DiskShape'
    BY <1>2, HostCounts DEF Tls!Restore, DiskShape
<1> QED BY <1>2, <1>3, <1>4, StopsWell, Down DEF Tls!Restore

\* The app of an operation that is not a start or a stop is the manager's.
LEMMA OpenOne ==
    ASSUME HostApart, HostInv, NEW a \in Tls!AppIds, a = manager.app
    PROVE  Open1(a)
<1>1. CASE Tls!AllIdle
    BY <1>1 DEF HostInv, HostAtRest, HostApart
<1>2. CASE ~Tls!AllIdle
    <2> PICK c \in Clicks : ~Tls!Idle(c) /\ UnderWay(call[c])
        BY <1>2 DEF HostInv, Tls!AllIdle
    <2>1. manager.app # None
        BY DEF HostApart
    <2>2. CASE Enabling(call[c])
        BY <2>2 DEF Enabling, Tells
    <2>3. CASE Enforcing(call[c])
        BY <2>3 DEF Enforcing
    <2>4. CASE Rotating(call[c])
        BY <2>4 DEF Rotating, Tells
    <2> QED BY <2>1, <2>2, <2>3, <2>4 DEF UnderWay, Starting, Stopping
<1> QED BY <1>1, <1>2

LEMMA BootstrapKeeps ==
    ASSUME HostApart, HostInv, Tls!Bootstrap, server' = server
    PROVE  HostInv'
<1>1. CallsShape /\ CountShape /\ AppsShape /\ DiskShape /\ ManagerShape /\ manager.app # None
    BY ShapesAre DEF HostInv, Tls!Bootstrap
<1> PICK a \in Tls!AppIds : a = manager.app
    BY <1>1 DEF ManagerShape
<1>2. Open1(a) /\ apps[a] \in AppT /\ apps[a].image = Image /\ \A b \in Tls!AppIds : b # a
          => apps[b] = Tls!NoApp
    BY OpenOne DEF Open1
<1> DEFINE i == [Image EXCEPT !.owner = TRUE]
           x == [apps[a] EXCEPT !.image = i]
<1>3. i \in ImageT /\ i.state = tls.state /\ i.owner = TRUE
    BY <1>1 DEF Image, ImageT, DiskShape
<1>4. /\ apps' = [apps EXCEPT ![a] = x] /\ tls' = [tls EXCEPT !.state = i.state, !.owner = i.owner]
      /\ UNCHANGED <<manager, call, count>>
    BY <1>2 DEF Tls!Bootstrap, Tls!Saved, AppsShape
<1>5. DiskShape' /\ tls'.state = tls.state /\ tls'.chain = tls.chain /\ tls'.owner = i.owner
    BY <1>1, <1>3, <1>4 DEF DiskShape
<1>6. Image' = i
    <2>1. \A j \in ImageT : j = [state |-> j.state, owner |-> j.owner]
        BY DEF ImageT
    <2>2. Image' = [state |-> tls'.state, owner |-> tls'.owner]
        BY DEF Image
    <2> HIDE DEF i
    <2> QED BY <1>3, <1>5, <2>1, <2>2
<1> HIDE DEF i
<1>7. x \in AppT /\ x.image = i /\ x.chain = apps[a].chain /\ x.url = apps[a].url
          /\ x.plain = apps[a].plain /\ x.tls = apps[a].tls
    BY <1>2, <1>3, AppImage
<1> HIDE DEF x
<1>8. AppsShape' /\ apps'[a] = x /\ \A b \in Tls!AppIds : b # a => apps'[b] = Tls!NoApp
  <2>1. x \in {Tls!NoApp} \cup AppT /\ apps' = [apps EXCEPT ![a] = x] /\ AppsShape
    BY <1>1, <1>4, <1>7
  <2>2. AppsShape' /\ apps'[a] = x /\ \A b \in Tls!AppIds : b # a => apps'[b] = apps[b]
    BY <2>1, AppPut
  <2> QED BY <1>2, <2>2
<1>9. CallsShape' /\ CountShape' /\ ManagerShape' /\ manager' = manager /\ call' = call
    BY <1>1, <1>4 DEF CallsShape, CountShape, ManagerShape
<1>10. Tls!StateOf(tls') = Tls!StateOf(tls) /\ \A ch : Presented(ch)' = Presented(ch)
    BY <1>5 DEF Tls!StateOf, Presented
<1>11. Open1(a)'
    BY <1>6, <1>7, <1>8 DEF Open1
<1>12. \A ch : (Tells(a, ch) => Tells(a, ch)') /\ (Serves(a, ch) => Serves(a, ch)')
    BY <1>7, <1>8, <1>9, <1>10 DEF Tells, Serves
<1>13. Tls!AllIdle => HostAtRest'
    <2> SUFFICES ASSUME Tls!AllIdle PROVE HostAtRest'
        OBVIOUS
    <2>1. Tells(a, tls.chain) /\ Serves(a, tls.chain)
        BY <1>1 DEF HostInv, HostAtRest
    <2>2. Tells(a, tls.chain)' /\ Serves(a, tls.chain)'
        <3> PICK ch : ch = tls.chain
            OBVIOUS
        <3> QED BY <1>5, <1>12, <2>1 DEF Tells, Serves, Presented
    <2> QED BY <1>11, <2>2, RestsAt
<1>14. ASSUME NEW c \in Clicks, ~Tls!Idle(c) PROVE UnderWay(call[c])'
    <2>1. UnderWay(call[c])
        BY <1>14 DEF HostInv
    <2>2. CASE call[c].op = "enable" /\ Enabling(call[c])
        <3> PICK k : k = call[c] /\ k = call'[c]
            BY <1>9
        <3> PICK ch : ch = tls.chain /\ ch = tls'.chain
            BY <1>5
        <3>1. k.app = a /\ Tells(a, ch)
            BY <2>2 DEF Enabling, Tells
        <3>2. Tells(a, ch)'
            BY <3>1, <1>12
        <3> QED BY <1>5, <1>7, <1>8, <1>10, <1>11, <2>2, <3>1, <3>2 DEF UnderWay, Enabling
    <2>3. CASE call[c].op = "enforce" /\ Enforcing(call[c])
        <3>1. call[c].app = a
            BY <2>3 DEF Enforcing
        <3> QED BY <1>5, <1>7, <1>8, <1>9, <1>11, <2>3, <3>1 DEF UnderWay, Enforcing
    <2>4. CASE call[c].op = "rotate" /\ Rotating(call[c])
        <3> PICK k : k = call[c] /\ k = call'[c]
            BY <1>9
        <3>1. k.app = a /\ Tells(a, k.prev)
            BY <2>4 DEF Rotating, Tells
        <3>2. Tells(a, k.prev)'
            BY <3>1, <1>12
        <3>3. /\ apps'[a].chain = apps[a].chain /\ apps'[a].url = apps[a].url
              /\ apps'[a].plain = apps[a].plain /\ apps'[a].tls = apps[a].tls
            BY <1>7, <1>8
        <3>4. tls'.chain = tls.chain /\ tls'.state = tls.state
            BY <1>5
        <3>5. Rotating(k)'
            BY <1>11, <2>4, <3>1, <3>2, <3>3, <3>4 DEF Rotating
        <3>6. Rotating(call[c])'
            BY <3>5
        <3>7. call'[c].op = "rotate"
            BY <1>9, <2>4
        <3> QED BY <3>6, <3>7 DEF UnderWay
    <2> QED BY <1>1, <2>1, <2>2, <2>3, <2>4 DEF UnderWay, Starting, Stopping
<1>15. HostShapes'
    BY <1>5, <1>8, <1>9, ShapesAre
       DEF HostShapes, CallsShape, CountShape, AppsShape, DiskShape, ManagerShape
<1> QED BY <1>9, <1>13, <1>14, <1>15 DEF HostInv, Tls!AllIdle, Tls!Idle

LEMMA CrashKeeps ==
    ASSUME HostApart, HostInv, Tls!Crash, server' = server
    PROVE  HostInv'
<1>1. CountShape /\ DiskShape
    BY ShapesAre DEF HostInv
<1>2. CountShape' /\ DiskShape' /\ ManagerShape' /\ manager'.app = None
    BY <1>1, HostCounts, StopsWell DEF Tls!Crash, DiskShape
<1>3. AppsShape' /\ \A a \in Tls!AppIds : apps'[a] = Tls!NoApp
    BY DEF Tls!Crash, AppsShape
<1>4. CallsShape' /\ \A c \in Clicks : call'[c] = Tls!NoCall
    BY DEF Tls!Crash, CallsShape
<1>5. HostShapes'
    BY <1>2, <1>3, <1>4 DEF HostShapes, CallsShape, CountShape, AppsShape, DiskShape, ManagerShape
<1> QED BY <1>2, <1>3, <1>4, <1>5 DEF HostInv, Tls!AllIdle, Tls!Idle, HostAtRest, NoApps

LEMMA NextStates ==
    ASSUME HostApart, DiskShape, NEW dual \in BOOLEAN, NEW s,
           s = Tls!NextState(Tls!StateOf(tls), dual, tls.owner), s # None
    PROVE  /\ s \in Tls!States \ {"plain_legacy"} /\ dual = Tls!PlainServed(s)
           /\ tls.owner => Tls!Rank(s) >= Tls!Rank(Tls!StateOf(tls))
<1>1. Tls!StateOf(tls) \in Tls!States /\ tls.owner \in BOOLEAN
    BY Legacies DEF DiskShape
<1>2. CASE ~tls.owner
    BY <1>1, <1>2 DEF Tls!NextState, Tls!PlainServed, Tls!States
<1>3. CASE tls.owner
    <2>1. CASE Tls!StateOf(tls) = "plain_legacy"
        BY <1>3, <2>1 DEF Tls!NextState, Tls!PlainServed, Tls!States, Tls!Rank
    <2>2. CASE Tls!StateOf(tls) = "tls_migrating"
        BY <1>3, <2>2 DEF Tls!NextState, Tls!PlainServed, Tls!States, Tls!Rank
    <2>3. CASE Tls!StateOf(tls) \in {"tls_enforced", "pinned_tls"}
        BY <1>3, <2>3 DEF Tls!NextState, Tls!PlainServed, Tls!States, Tls!Rank
    <2> QED BY <1>1, <2>1, <2>2, <2>3 DEF Tls!States
<1> QED BY <1>1, <1>2, <1>3

LEMMA StandaloneKeeps ==
    ASSUME HostApart, HostInv, NEW dual \in BOOLEAN, Tls!StandaloneStarts(dual), server' = server
    PROVE  HostInv'
<1>1. /\ CallsShape /\ CountShape /\ AppsShape /\ DiskShape /\ ManagerShape /\ Tls!AllIdle /\ NoApps
    BY ShapesAre DEF HostInv, Tls!StandaloneStarts, HostAtRest
<1> PICK s : s = Tls!NextState(Tls!StateOf(tls), dual, tls.owner)
    OBVIOUS
<1> PICK owner \in BOOLEAN : owner = tls.owner
    BY <1>1 DEF DiskShape
<1> PICK id : id = IF tls.chain = <<>> THEN count.ids + 1 ELSE Tls!Last(tls.chain)
    OBVIOUS
<1> PICK chain : chain = IF tls.chain = <<>> THEN <<id>> ELSE tls.chain
    OBVIOUS
<1> DEFINE x == [open |-> TRUE, image |-> [state |-> s, owner |-> owner], chain |-> chain, url |-> TRUE,
        plain |-> dual, tls |-> id]
<1>2. /\ s # None /\ id <= MaxIdentities /\ tls' = [state |-> s, owner |-> owner, chain |-> chain]
      /\ apps' = [apps EXCEPT ![1] = x]
             /\ manager' = [app |-> 1, running |-> TRUE, state |-> s, pin |-> id]
      /\ count' = [count EXCEPT !.calls = @ + 1, !.ids = IF id > @ THEN id ELSE @] /\ UNCHANGED call
    BY DEF Tls!StandaloneStarts
<1>3. s \in Tls!States /\ s # "plain_legacy" /\ dual = Tls!PlainServed(s)
    BY <1>1, <1>2, NextStates
<1>4. id \in 1..MaxIdentities /\ id \in 0..MaxIdentities /\ id # 0
    <2>1. CASE tls.chain = <<>>
        BY <1>1, <1>2, <2>1 DEF CountShape, HostApart
    <2>2. CASE tls.chain # <<>>
        BY <1>1, <2>2, Lasts DEF DiskShape
    <2> QED BY <2>1, <2>2
<1>5. chain \in Chains /\ chain # <<>> /\ Tls!Last(chain) = id
    <2>1. CASE tls.chain = <<>>
        BY <1>4, <2>1 DEF Chains, Tls!Last
    <2>2. CASE tls.chain # <<>>
        BY <1>1, <2>2 DEF DiskShape
    <2> QED BY <2>1, <2>2
<1>6. x \in AppT
    BY <1>3, <1>4, <1>5 DEF AppT, ImageT
<1>7. x.image = [state |-> s, owner |-> owner] /\ x.chain = chain /\ x.url = TRUE /\ x.plain = dual
          /\ x.tls = id
    OBVIOUS
<1> HIDE DEF x
<1>8. 1 \in Tls!AppIds
    BY DEF Tls!AppIds
<1>9. AppsShape' /\ apps'[1] = x /\ \A b \in Tls!AppIds : b # 1 => apps'[b] = Tls!NoApp
    BY <1>1, <1>2, <1>6, <1>8, AppPut DEF NoApps
<1>10. DiskShape' /\ tls'.state = s /\ tls'.chain = chain /\ Image' = [state |-> s, owner |-> owner]
    BY <1>2, <1>3, <1>5 DEF DiskShape, Image
<1>11. ManagerShape'
    BY <1>2, <1>3, <1>4, <1>8 DEF ManagerShape
<1>12. CallsShape' /\ call' = call
    BY <1>1, <1>2 DEF CallsShape
<1>13. CountShape'
    <2> PICK n \in 0..MaxIdentities : n = count.ids
        BY <1>1 DEF CountShape
    <2> PICK m : m = IF id > n THEN id ELSE n
        OBVIOUS
    <2>1. count = [calls |-> count.calls, faults |-> count.faults, ids |-> n] /\ m \in 0..MaxIdentities
        BY <1>1, <1>4 DEF CountShape
    <2>2. count' = [calls |-> count.calls + 1, faults |-> count.faults, ids |-> m]
        BY <1>2, <2>1
    <2> QED BY <2>1, <2>2 DEF CountShape
<1>14. Tls!StateOf(tls') = s /\ Presented(tls.chain)' = id
    BY <1>2, <1>3, <1>5, <1>10 DEF Tls!StateOf, Presented
<1>15. Open1(1)'
    BY <1>6, <1>7, <1>9, <1>10 DEF Open1
<1>16. Tells(1, tls.chain)'
    BY <1>2, <1>14 DEF Tells
<1>17. Serves(1, tls.chain)'
    <2>1. apps'[1].chain = chain /\ apps'[1].url = TRUE /\ apps'[1].plain = Tls!PlainServed(s)
              /\ apps'[1].tls = id
        BY <1>3, <1>7, <1>9
    <2> QED BY <1>4, <1>5, <1>10, <1>14, <2>1 DEF Serves
<1>18. HostAtRest' /\ (manager'.app # None => manager'.running)
    BY <1>8, <1>15, <1>16, <1>17, RestsAt
<1>19. HostShapes'
    BY <1>9, <1>10, <1>11, <1>12, <1>13
       DEF HostShapes, CallsShape, CountShape, AppsShape, DiskShape, ManagerShape
<1> QED BY <1>1, <1>12, <1>18, <1>19 DEF HostInv, Tls!AllIdle, Tls!Idle

\* A step of the operation c.
LEMMA CallKeeps ==
    ASSUME HostApart, HostInv, NEW c \in Clicks, server' = server,
           \/ \E a \in Tls!AppIds : Tls!Open(c, a)
           \/ Tls!Settle(c) \/ Tls!Identify(c) \/ Tls!Listen(c) \/ Tls!StartFails(c)
           \/ Tls!Stop(c) \/ Tls!Close(c) \/ Tls!CloseFails(c)
           \/ Tls!EnableListens(c) \/ Tls!EnableCommits(c) \/ Tls!EnableFails(c)
           \/ Tls!EnforceCommits(c) \/ Tls!EnforceCloses(c) \/ Tls!EnforceCloseFails(c)
           \/ Tls!RotateSaves(c) \/ Tls!RotateRestarts(c) \/ Tls!RotateRestartFails(c)
                  \/ Tls!RotateRecorded(c) \/ Tls!RotateRecordFails(c)
           \/ Tls!RolledBack(c) \/ Tls!RollbackFails(c)
           \/ Tls!Restore(c)
    PROVE  HostInv'
BY OpenKeeps, SettleKeeps, IdentifyKeeps, ListenKeeps, StartFailsKeeps, StopKeeps, CloseKeeps,
   EnableListensKeeps, EnableCommitsKeeps, EnableFailsKeeps, EnforceCommitsKeeps, EnforceClosesKeeps,
       EnforceCloseFailsKeeps,
   RotateSavesKeeps, RotateRestartsKeeps, RotateFailsKeeps, RotateRecordedKeeps, RolledBackKeeps,
       RollbackFailsKeeps, RestoreKeeps

LEMMA HostInit == ASSUME HostApart, Tls!Init PROVE HostInv
<1>1. 0 \in 0..MaxIdentities
    BY DEF HostApart
<1>2. DiskShape
    BY NoChain DEF Tls!Init, DiskShape
<1>3. AppsShape /\ ManagerShape /\ CallsShape /\ CountShape
    BY <1>1 DEF Tls!Init, AppsShape, ManagerShape, CallsShape, CountShape, Tls!Stopped
<1>4. HostShapes
    BY <1>2, <1>3, ShapesAre
<1> QED BY <1>4 DEF HostInv, Tls!Init, Tls!AllIdle, Tls!Idle, HostAtRest, NoApps, Tls!Stopped

LEMMA HostStutters == ASSUME HostInv, UNCHANGED Tls!vars PROVE HostInv'
<1> USE DEF Tls!vars
<1>1. HostShapes'
    BY DEF HostInv, HostShapes
<1>2. Tls!AllIdle' <=> Tls!AllIdle
    BY DEF Tls!AllIdle, Tls!Idle
<1>3. HostAtRest => HostAtRest'
    BY DEF HostAtRest, NoApps, Open1, Serves, Tells, Presented, Image
<1>4. ASSUME NEW c \in Clicks, UnderWay(call[c]) PROVE UnderWay(call[c])'
    <2>1. Starting(call[c]) => Starting(call[c])'
        BY DEF Starting, Open1, Image
    <2>2. Stopping(call[c]) => Stopping(call[c])'
        BY DEF Stopping, Open1, Image, Serves, Presented
    <2>3. Enabling(call[c]) => Enabling(call[c])'
        BY DEF Enabling, Open1, Image, Tells, Presented
    <2>4. Enforcing(call[c]) => Enforcing(call[c])'
        BY DEF Enforcing, Open1, Image
    <2>5. Rotating(call[c]) => Rotating(call[c])'
        BY DEF Rotating, Open1, Image, Tells, Presented
    <2> QED BY <1>4, <2>1, <2>2, <2>3, <2>4, <2>5 DEF UnderWay
<1> QED BY <1>1, <1>2, <1>3, <1>4 DEF HostInv, Tls!Idle

LEMMA HostStep == ASSUME HostApart, HostInv, [Tls!Next]_(Tls!vars) PROVE HostInv'
BY CallKeeps, BootstrapKeeps, CrashKeeps, StandaloneKeeps, HostStutters DEF Tls!Next, Tls!Steps

\* What the invariant says of the listeners.
LEMMA Listeners ==
    ASSUME HostApart, HostInv, NEW a \in Tls!AppIds, apps[a].tls # 0
    PROVE  \E i \in 1..Len(tls.chain) : apps[a].tls = tls.chain[i]
<1>1. DiskShape
    BY ShapesAre DEF HostInv
<1>2. tls.chain \in Chains /\ \A b \in Tls!AppIds : apps[b] = Tls!NoApp => apps[b].tls = 0
    BY <1>1 DEF DiskShape, Tls!NoApp
<1>3. tls.chain # <<>> => Len(tls.chain) \in 1..Len(tls.chain)
          /\ tls.chain[Len(tls.chain)] = Tls!Last(tls.chain)
    BY <1>2, Lasts DEF Tls!Last
<1>4. \A b : Serves(b, tls.chain) /\ apps[b].tls # 0 => apps[b].tls = Tls!Last(tls.chain)
          /\ tls.chain # <<>>
    BY DEF Serves, Presented
<1>5. CASE Tls!AllIdle
    <2>1. HostAtRest /\ manager.app # None /\ Open1(manager.app) /\ Serves(manager.app, tls.chain)
        BY <1>2, <1>5 DEF HostInv, HostAtRest, NoApps
    <2> QED BY <1>2, <1>3, <1>4, <2>1 DEF Open1
<1>6. CASE ~Tls!AllIdle
    <2> PICK c \in Clicks : UnderWay(call[c])
        BY <1>6 DEF HostInv, Tls!AllIdle
    <2>1. CASE Stopping(call[c])
        BY <1>2, <1>3, <1>4, <2>1 DEF Stopping, Open1
    <2>2. CASE Enabling(call[c])
        BY <1>2, <1>3, <2>2 DEF Enabling, Open1
    <2>3. CASE Enforcing(call[c])
        BY <1>2, <1>3, <2>3 DEF Enforcing, Open1
    <2>4. CASE Starting(call[c])
        BY <1>2, <2>4 DEF Starting, Open1
    <2>5. CASE Rotating(call[c])
        <3> PICK prev : prev = call[c].prev
            OBVIOUS
        <3> PICK i \in 1..MaxIdentities : tls.chain = Append(prev, i)
            BY <2>5 DEF Rotating
        <3>1. prev # <<>> /\ a = call[c].app
                  /\ (apps[a].tls = Tls!Last(prev) \/ apps[a].tls = Tls!Last(tls.chain))
            BY <1>2, <2>5 DEF Rotating, Open1
        <3>2. prev \in Chains
            <4>1. call[c] \in CallT
                <5>1. call[c].prev # <<>> /\ call[c] \in {Tls!NoCall} \cup CallT
                    BY <2>5 DEF Rotating, HostInv, HostShapes
                <5> QED BY <5>1 DEF Tls!NoCall
            <4> QED BY <4>1 DEF CallT
        <3>3. Len(prev) \in 1..Len(prev) /\ Len(prev) \in 1..Len(tls.chain)
                  /\ tls.chain[Len(prev)] = Tls!Last(prev) /\ tls.chain # <<>>
            BY <3>1, <3>2, Lasts, Longer DEF Tls!Last
        <3> QED BY <1>3, <3>1, <3>3
    <2> QED BY <2>1, <2>2, <2>3, <2>4, <2>5 DEF UnderWay
<1> QED BY <1>5, <1>6

LEMMA HostGives ==
    ASSUME HostApart, HostInv
    PROVE  Tls!TypeOK /\ Tls!OneIdentity /\ Tls!PresentedIsSaved
<1>1. DiskShape /\ AppsShape /\ ManagerShape
    BY ShapesAre DEF HostInv
<1>2. Tls!TypeOK
    <2>1. \A a \in Tls!AppIds : apps[a].tls \in 0..MaxIdentities
        <3>1. Tls!NoApp.tls = 0 /\ 0 \in 0..MaxIdentities
            BY DEF Tls!NoApp, HostApart
        <3>2. \A x \in AppT : x.tls \in 0..MaxIdentities
            BY DEF AppT
        <3> QED BY <1>1, <3>1, <3>2 DEF AppsShape
    <2>2. tls \in [state : Tls!States \cup {None}, owner : BOOLEAN, chain : Seq(1..MaxIdentities)]
        BY <1>1 DEF DiskShape, Chains
    <2> QED BY <1>1, <2>1, <2>2 DEF Tls!TypeOK, ManagerShape
<1>3. Tls!PresentedIsSaved
    BY Listeners DEF Tls!PresentedIsSaved
<1>4. ASSUME Tls!AllIdle, manager.app # None PROVE Tls!OneIdentity
    <2> PICK a \in Tls!AppIds : a = manager.app
        BY <1>1, <1>4 DEF ManagerShape
    <2>1. Open1(a) /\ Serves(a, tls.chain) /\ Tells(a, tls.chain)
        BY <1>4 DEF HostInv, HostAtRest
    <2>2. apps[a] \in AppT /\ apps[a].open /\ apps[a].image = Image /\ apps[a].image.state = tls.state
        <3>1. \A x \in AppT : x.open
            BY DEF AppT
        <3>2. Image.state = tls.state
            BY DEF Image
        <3> QED BY <2>1, <3>1, <3>2 DEF Open1
    <2>3. Tls!StateOf(apps[a].image) = Tls!StateOf(tls)
        BY <2>2 DEF Tls!StateOf
    <2>4. manager.pin = Presented(tls.chain) /\ manager.state = Tls!StateOf(tls)
        BY <2>1 DEF Tells
    <2> PICK t : t = Presented(tls.chain)
        OBVIOUS
    <2>5. t = IF Tls!StateOf(apps[a].image) = "plain_legacy" THEN 0 ELSE Tls!Last(apps[a].chain)
        BY <2>1, <2>3 DEF Presented, Serves
    <2>6. /\ tls.chain = apps[a].chain /\ apps[a].tls = t /\ apps[a].url = (t # 0) /\ manager.pin = t
          /\ apps[a].plain = Tls!PlainServed(Tls!StateOf(apps[a].image))
        BY <2>1, <2>3, <2>4 DEF Serves
    <2> QED BY <2>2, <2>3, <2>4, <2>5, <2>6 DEF Tls!OneIdentity
<1> QED BY <1>2, <1>3, <1>4 DEF Tls!OneIdentity

LEMMA Ranks == \A s \in Tls!States : Tls!Rank(s) \in 0..2 /\ Tls!Rank(s) >= Tls!Rank(s)
BY DEF Tls!Rank, Tls!States

SameState == tls'.state = tls.state
StateMigrates == Tls!StateOf(tls) = "plain_legacy" /\ tls'.state = "tls_migrating"
StateEnforces == Tls!StateOf(tls) = "tls_migrating" /\ tls'.state = "tls_enforced"
    /\ \E c \in Clicks : call'[c].op = "enforce"
StateForward == server = "standalone" /\ Tls!Rank(Tls!StateOf(tls')) >= Tls!Rank(Tls!StateOf(tls))

\* How one step may change the durable security state of a server with an owner.
LEMMA StateMoves ==
    ASSUME HostApart, HostInv, Tls!Next, tls.owner
    PROVE  SameState \/ StateMigrates \/ StateEnforces \/ StateForward
<1>1. DiskShape /\ CallsShape
    BY ShapesAre DEF HostInv
<1>2. Image.state = tls.state /\ Image.owner = tls.owner
    BY DEF Image
<1>3. \A image : tls' = Tls!Saved(image) => tls'.state = image.state
    BY <1>1 DEF Tls!Saved, DiskShape
<1>4. ASSUME NEW c \in Clicks, Tls!Settle(c) PROVE SameState
    <2>1. Starting(call[c])
        BY <1>4, HostPhases DEF Tls!Settle, Tls!At, HostApart
    <2>2. Tls!Settled(Tls!AppOf(c).image) = Image
        BY <1>2, <2>1 DEF Starting, Open1, Tls!AppOf, Tls!Settled
    <2> QED BY <1>2, <1>3, <1>4, <2>2 DEF Tls!Settle, SameState
<1>5. ASSUME NEW c \in Clicks, Tls!Identify(c) \/ Tls!RotateSaves(c) \/ Tls!RolledBack(c)
             \/ Tls!RollbackFails(c) PROVE SameState
    BY <1>1, <1>5 DEF Tls!Identify, Tls!RotateSaves, Tls!RolledBack, Tls!RollbackFails, Tls!RollbackFile,
       Tls!KeepIdentity, SameState, DiskShape
<1>6. ASSUME NEW c \in Clicks, Tls!Close(c) PROVE SameState
    <2>1. Stopping(call[c])
        BY <1>6, HostPhases DEF Tls!Close, Tls!At, HostApart
    <2> QED BY <1>2, <1>3, <1>6, <2>1 DEF Tls!Close, Stopping, Open1, Tls!AppOf, SameState
<1>7. ASSUME NEW c \in Clicks, Tls!RotateRecorded(c) PROVE SameState
    <2>1. Tls!AppOf(c).image = Image
        BY <1>7, RotationHas DEF Tls!RotateRecorded, Tls!At, Tls!AppOf
    <2> QED BY <1>2, <1>3, <1>7, <2>1 DEF Tls!RotateRecorded, SameState
<1>8. ASSUME NEW c \in Clicks, Tls!EnableCommits(c) PROVE StateMigrates
    <2>1. Enabling(call[c])
        BY <1>8, HostPhases DEF Tls!EnableCommits, Tls!At, HostApart
    <2>2. Tls!AppOf(c).image = Image
        BY <2>1 DEF Enabling, Open1, Tls!AppOf
    <2>3. Tls!SetState(Image, "tls_migrating").state = "tls_migrating"
        BY DEF Tls!SetState, Image
    <2> QED BY <1>3, <1>8, <2>1, <2>2, <2>3 DEF Tls!EnableCommits, Enabling, StateMigrates
<1>9. ASSUME NEW c \in Clicks, Tls!EnforceCommits(c) PROVE StateEnforces
    <2>1. Tls!Idle(c) /\ manager.app # None /\ manager.state = "tls_migrating"
        BY <1>9 DEF Tls!EnforceCommits, Tls!Begins, Tls!Running
    <2>2. apps[manager.app].image = Image /\ Tells(manager.app, tls.chain)
        BY <2>1, HostRuns
    <2>3. Tls!SetState(Image, "tls_enforced").state = "tls_enforced"
        BY DEF Tls!SetState, Image
    <2>4. tls'.state = "tls_enforced"
        BY <1>3, <1>9, <2>2, <2>3 DEF Tls!EnforceCommits
    <2>5. call'[c].op = "enforce"
        BY <1>1, <1>9 DEF Tls!EnforceCommits, CallsShape, Tls!NoCall
    <2>6. Tls!StateOf(tls) = "tls_migrating"
        BY <2>1, <2>2 DEF Tells
    <2> QED BY <2>4, <2>5, <2>6 DEF StateEnforces
<1>10. ASSUME NEW c \in Clicks, Tls!Restore(c) PROVE FALSE
    <2>1. Tls!Idle(c) /\ manager.app # None
        BY <1>10 DEF Tls!Restore, Tls!Begins, Tls!Running
    <2> QED BY <1>2, <1>10, <2>1, HostRuns DEF Tls!Restore
<1>11. Tls!Bootstrap => SameState
    <2> SUFFICES ASSUME Tls!Bootstrap PROVE SameState
        OBVIOUS
    <2> PICK a \in Tls!AppIds : a = manager.app
        BY ShapesAre DEF HostInv, Tls!Bootstrap, ManagerShape
    <2>1. Open1(a)
        BY OpenOne
    <2> QED BY <1>2, <2>1 DEF Open1, Tls!Bootstrap
<1>12. ASSUME NEW dual \in BOOLEAN, Tls!StandaloneStarts(dual) PROVE StateForward
    <2> PICK s : s = Tls!NextState(Tls!StateOf(tls), dual, tls.owner)
        OBVIOUS
    <2>1. s # None /\ tls'.state = s /\ server = "standalone"
        BY <1>12 DEF Tls!StandaloneStarts
    <2>2. Tls!StateOf(tls') = s /\ Tls!Rank(s) >= Tls!Rank(Tls!StateOf(tls))
        BY <1>1, <2>1, NextStates DEF Tls!StateOf
    <2> QED BY <2>1, <2>2 DEF StateForward
<1>13. UNCHANGED tls => SameState
    BY DEF SameState
<1>14. ASSUME NEW c \in Clicks,
           \/ \E a \in Tls!AppIds : Tls!Open(c, a)
           \/ Tls!Listen(c) \/ Tls!StartFails(c) \/ Tls!Stop(c) \/ Tls!CloseFails(c)
           \/ Tls!EnableListens(c) \/ Tls!EnableFails(c) \/ Tls!EnforceCloses(c)
                  \/ Tls!EnforceCloseFails(c)
           \/ Tls!RotateRestarts(c) \/ Tls!RotateRestartFails(c) \/ Tls!RotateRecordFails(c)
       PROVE  UNCHANGED tls
    BY <1>14 DEF Tls!Open, Tls!Listen, Tls!StartFails, Tls!Stop, Tls!CloseFails, Tls!EnableListens,
       Tls!EnableFails, Tls!EnforceCloses, Tls!EnforceCloseFails,
                 Tls!RotateRestarts, Tls!RotateRestartFails, Tls!RotateRecordFails
<1>15. Tls!Crash => UNCHANGED tls
    BY DEF Tls!Crash
<1> QED BY <1>4, <1>5, <1>6, <1>7, <1>8, <1>9, <1>10, <1>11, <1>12, <1>13, <1>14, <1>15
           DEF Tls!Next, Tls!Steps

LEMMA OwnersStayOnTls ==
    ASSUME HostApart, HostInv, [Tls!Next]_(Tls!vars), tls.owner
    PROVE  /\ Tls!Rank(Tls!StateOf(tls')) >= Tls!Rank(Tls!StateOf(tls))
           /\ Tls!Rank(Tls!StateOf(tls)) < 2 /\ Tls!Rank(Tls!StateOf(tls')) = 2 =>
                \/ \E c \in Clicks : call'[c].op = "enforce"
                \/ server = "standalone"
<1>1. Tls!StateOf(tls) \in Tls!States
    BY ShapesAre, Legacies DEF HostInv
<1>2. SameState => Tls!StateOf(tls') = Tls!StateOf(tls)
    BY DEF SameState, Tls!StateOf
<1>3. StateMigrates => Tls!StateOf(tls') = "tls_migrating"
    BY DEF StateMigrates, Tls!StateOf, HostApart, Tls!States
<1>4. StateEnforces => Tls!StateOf(tls') = "tls_enforced"
    BY DEF StateEnforces, Tls!StateOf, HostApart, Tls!States
<1>5. UNCHANGED Tls!vars => SameState
    BY DEF Tls!vars, SameState
<1>6. SameState \/ StateMigrates \/ StateEnforces \/ StateForward
    BY <1>5, StateMoves
<1> PICK s \in Tls!States : s = Tls!StateOf(tls)
    BY <1>1
<1>7. CASE SameState
    BY <1>2, <1>7, Ranks DEF Tls!Rank, Tls!States
<1>8. CASE StateMigrates
    BY <1>3, <1>8 DEF StateMigrates, Tls!Rank
<1>9. CASE StateEnforces
    BY <1>4, <1>9 DEF StateEnforces, Tls!Rank
<1>10. CASE StateForward
    BY <1>10 DEF StateForward
<1> QED BY <1>6, <1>7, <1>8, <1>9, <1>10

\* Whatever fails or crashes in the middle of an operation, between operations the file, the
\* routes, the listeners, the durable state and the status are those of one identity, and
\* what a listener presents the file holds (serverManager.ts start, stop, enableTlsMigration,
\* enforceTls, rotateIdentity; index.ts).
THEOREM HostedIdentity ==
    ASSUME HostApart
    PROVE  Tls!Spec => [](Tls!TypeOK /\ Tls!OneIdentity /\ Tls!PresentedIsSaved)
<1>1. Tls!Init => HostInv
    BY HostInit
<1>2. HostInv /\ [Tls!Next]_(Tls!vars) => HostInv'
    BY HostStep
<1>3. HostInv => Tls!TypeOK /\ Tls!OneIdentity /\ Tls!PresentedIsSaved
    BY HostGives
<1> QED BY <1>1, <1>2, <1>3, PTL DEF Tls!Spec

\* A server with an owner never goes back towards plain HTTP, and gives plain HTTP up only
\* when the owner enforces TLS (getSecurityState, enforceTls, resolvePinnedStartupState).
THEOREM HostedState ==
    ASSUME HostApart
    PROVE  Tls!Spec => Tls!NeverBackToPlain /\ Tls!OnlyTheOwnerEnforces
<1>1. Tls!Init => HostInv
    BY HostInit
<1>2. HostInv /\ [Tls!Next]_(Tls!vars) => HostInv'
    BY HostStep
<1>3. HostInv /\ [Tls!Next]_(Tls!vars)
          => [tls.owner => Tls!Rank(Tls!StateOf(tls')) >= Tls!Rank(Tls!StateOf(tls))]_(Tls!vars)
    BY OwnersStayOnTls
<1>4. HostInv /\ [Tls!Next]_(Tls!vars) =>
        [tls.owner /\ Tls!Rank(Tls!StateOf(tls)) < 2 /\ Tls!Rank(Tls!StateOf(tls')) = 2 =>
            (\/ \E c \in Clicks : call'[c].op = "enforce"
             \/ server = "standalone")]_(Tls!vars)
    BY OwnersStayOnTls
<1> QED BY <1>1, <1>2, <1>3, <1>4, PTL DEF Tls!Spec, Tls!NeverBackToPlain, Tls!OnlyTheOwnerEnforces

\* HostedIdentity and HostedState, of the composed specification the run checks.
THEOREM OneIdentityEverywhere == ASSUME HostApart PROVE MCSpec => OneIdentity
<1>1. MCInit => HostInv
    BY HostInit DEF MCInit
<1>2. [MCNext]_<<part, fileVars, vars, tlsVars, accountVars, liveVars>> => [Tls!Next]_(Tls!vars)
    BY DEF MCNext, tlsVars, Tls!vars
<1>3. HostInv /\ [Tls!Next]_(Tls!vars) => HostInv'
    BY HostStep
<1>4. HostInv => Tls!TypeOK /\ Tls!OneIdentity /\ Tls!PresentedIsSaved
    BY HostGives
<1>5. HostInv /\ [Tls!Next]_(Tls!vars)
          => [tls.owner => Tls!Rank(Tls!StateOf(tls')) >= Tls!Rank(Tls!StateOf(tls))]_(Tls!vars)
    BY OwnersStayOnTls
<1>6. HostInv /\ [Tls!Next]_(Tls!vars) =>
        [tls.owner /\ Tls!Rank(Tls!StateOf(tls)) < 2 /\ Tls!Rank(Tls!StateOf(tls')) = 2 =>
            (\/ \E c \in Clicks : call'[c].op = "enforce"
             \/ server = "standalone")]_(Tls!vars)
    BY OwnersStayOnTls
<1> QED BY <1>1, <1>2, <1>3, <1>4, <1>5, <1>6, PTL
           DEF MCSpec, OneIdentity, Tls!NeverBackToPlain, Tls!OnlyTheOwnerEnforces
=============================================================================
