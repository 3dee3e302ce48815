---------------------------- MODULE FileRows_proofs ----------------------------
(***************************************************************************)
(* What whole-file devices may rely on, for any number of files, names and *)
(* contents: the rows implement VersionedFiles, a name is refused exactly  *)
(* while files overlap, and the newest row of a name is its file.          *)
(***************************************************************************)
EXTENDS FileRows, WellFoundedInduction, TLAPS

-----------------------------------------------------------------------------
(* The inductive invariant, row by row and name by name.                   *)

\* The content of a live row's version is stored and no later one; an unused
\* row and a mark have none.
RowOK(r) ==
    /\ r.path = None => r = NoRow
    /\ \A v \in Versions : r.stored[v] # None => r.live /\ v <= r.version
    /\ r.live => r.version \in Versions /\ r.stored[r.version] # None

RowsOK(R) == R \in [Ids -> FileRow] /\ \A i \in Ids : RowOK(R[i])

\* The flags of a name are exact, and a file alone in it is above the marks.
NameOK(R, k) ==
    /\ Quarantined(R, k) <=> Crowded(R, k)
    /\ Crowded(R, k) => \A i \in LiveAt(R, k) : R[i].collision
    /\ \A i \in LiveAt(R, k) :
          ~Crowded(R, k) => \A j \in RowsAt(R, k) \ {i} : R[j].version < R[i].version

TableOK(R) == RowsOK(R) /\ \A k \in Keys : NameOK(R, k)

IInv == TypeOK /\ TableOK(rows)

\* Some row of the name is above all it had.
Raised(R, S, k) ==
    \E j \in RowsAt(S, k) :
        S[j].version > 0 /\ \A r \in RowsAt(R, k) : R[r].version < S[j].version

\* The name has the same rows, but for epochs and spelling.
Alike(R, S, k) ==
    /\ RowsAt(S, k) = RowsAt(R, k)
    /\ \A i \in RowsAt(R, k) :
          /\ S[i].version = R[i].version /\ S[i].live = R[i].live
          /\ S[i].collision = R[i].collision /\ S[i].stored = R[i].stored

\* The name gets a version above all it had, and is not refused for it.
Renewed(R, S, k) == Raised(R, S, k) /\ (Quarantined(S, k) => Quarantined(R, k))

\* What a step on the table does to every name.
StepOK(R, S) ==
    /\ TableOK(S)
    /\ \A k \in Keys : Alike(R, S, k) \/ Renewed(R, S, k)

-----------------------------------------------------------------------------
(* Numbers.                                                                *)

\* A set of numbers that is not empty has a least one...
LEMMA LeastOne ==
    ASSUME NEW T \in SUBSET Nat, T # {}
    PROVE  \E p \in T : \A q \in T : p <= q
<1>1. PICK p \in T : \A q \in T : ~(<<q, p>> \in OpToRel(<, Nat))
    BY NatLessThanWellFounded, WFMin
<1>2. \A q \in T : <<q, p>> \in Nat \X Nat /\ <<q, p>>[1] = q /\ <<q, p>>[2] = p
    OBVIOUS
<1>3. \A q \in T : ~(q < p)
    BY <1>1, <1>2 DEF OpToRel
<1> QED BY <1>3

\* ...and, with a bound, a greatest one.
LEMMA GreatestOne ==
    ASSUME NEW m \in Nat, NEW T \in SUBSET (0 .. m), T # {}
    PROVE  Max(T) \in T /\ \A q \in T : q <= Max(T)
<1> DEFINE U == {m - q : q \in T}
<1>1. U \in SUBSET Nat /\ U # {}
  <2>1. \A q \in T : m - q \in Nat
      OBVIOUS
  <2> QED BY <2>1
<1>2. PICK p \in U : \A q \in U : p <= q
    BY <1>1, LeastOne
<1>3. PICK x \in T : p = m - x
    OBVIOUS
<1>4. \A q \in T : q <= x
  <2> TAKE q \in T
  <2>1. m - q \in U
      OBVIOUS
  <2> QED BY <1>2, <1>3, <2>1
<1>5. \E y \in T : \A q \in T : y >= q
    BY <1>4
<1> QED BY <1>5 DEF Max

\* Floor is zero or the version of one of the rows, and above them all.
LEMMA FloorIs ==
    ASSUME NEW R \in [Ids -> FileRow], NEW W \in SUBSET Ids
    PROVE  /\ Floor(R, W) \in 0 .. MaxVersion
           /\ \A i \in W : R[i].version <= Floor(R, W)
           /\ Floor(R, W) = 0 \/ \E i \in W : Floor(R, W) = R[i].version
<1> DEFINE T == {0} \cup {R[i].version : i \in W}
<1>1. MaxVersion \in Nat
    BY FileRowsAssumption
<1>2. \A i \in W : R[i].version \in 0 .. MaxVersion
    BY DEF FileRow
<1>3. T \in SUBSET (0 .. MaxVersion) /\ T # {}
    BY <1>1, <1>2
<1>4. Max(T) \in T /\ \A q \in T : q <= Max(T)
  <2> HIDE DEF T
  <2> QED BY <1>1, <1>3, GreatestOne
<1>5. Floor(R, W) = Max(T)
    BY DEF Floor
<1>6. \A i \in W : R[i].version \in T
    OBVIOUS
<1> HIDE DEF T
<1>7. Max(T) = 0 \/ \E i \in W : Max(T) = R[i].version
    BY <1>4 DEF T
<1> QED BY <1>3, <1>4, <1>5, <1>6, <1>7

\* The version after every other of a name.
LEMMA NextVersionIs ==
    ASSUME NEW R \in [Ids -> FileRow], NEW k \in Keys
    PROVE  /\ NextVersion(R, k) \in Nat \ {0}
           /\ \A i \in RowsAt(R, k) : R[i].version < NextVersion(R, k)
<1>1. RowsAt(R, k) \in SUBSET Ids
    BY DEF RowsAt
<1>2. /\ Floor(R, RowsAt(R, k)) \in 0 .. MaxVersion
      /\ \A i \in RowsAt(R, k) : R[i].version <= Floor(R, RowsAt(R, k))
    BY <1>1, FloorIs
<1>3. \A i \in RowsAt(R, k) : R[i].version \in Nat
    BY <1>1, FileRowsAssumption DEF FileRow
<1>4. MaxVersion \in Nat
    BY FileRowsAssumption
<1> QED BY <1>2, <1>3, <1>4 DEF NextVersion

-----------------------------------------------------------------------------
(* The updates of a row, field by field.                                   *)

\* Row r under name p, with content c as version v.
Written(r, v, c, p) == [Write(r, v, c) EXCEPT !.path = p]

\* Row r deleted, the mark being version v.
Deleted(r, v) == [Drop(r) EXCEPT !.live = FALSE, !.version = v]

LEMMA NoRowIs ==
    /\ NoRow.path = None /\ NoRow.version = 0 /\ ~NoRow.live
    /\ ~NoRow.collision /\ RowOK(NoRow) /\ NoRow \in FileRow
<1>1. \A v \in Versions : NoVersions[v] = None
    BY DEF NoVersions
<1>2. NoVersions \in Stored
    BY DEF NoVersions, Stored
<1>3. /\ NoRow.path = None /\ NoRow.version = 0 /\ ~NoRow.live
      /\ ~NoRow.collision /\ NoRow.stored = NoVersions /\ NoRow.epoch = 0
    BY DEF NoRow
<1>4. 0 \in 0 .. MaxVersion /\ 0 \in 0 .. MaxEpoch
    BY FileRowsAssumption
<1>5. NoRow \in FileRow
    BY <1>2, <1>4 DEF NoRow, FileRow
<1> QED BY <1>1, <1>3, <1>5 DEF RowOK

LEMMA WriteIs ==
    ASSUME NEW r \in FileRow, NEW v \in Versions, NEW c \in Contents, NEW p \in Paths,
           RowOK(r), r.version <= v
    PROVE  LET w == Written(r, v, c, p)
           IN /\ w.path = p /\ w.version = v /\ w.live /\ w.collision = r.collision
              /\ RowOK(w)
<1> DEFINE w == Written(r, v, c, p)
<1>1. /\ w.path = p /\ w.version = v /\ w.live /\ w.collision = r.collision
      /\ w.stored = [u \in Versions |-> IF u = v THEN c ELSE IF u < v THEN None ELSE r.stored[u]]
    BY DEF Written, Write, FileRow
<1>2. p # None /\ c # None
    BY FileRowsAssumption
<1>3. /\ \A u \in Versions : u \in Nat
      /\ r.version \in Nat
    BY FileRowsAssumption DEF Versions, FileRow
<1>4. \A u \in Versions : u > v => r.stored[u] = None
  <2> TAKE u \in Versions
  <2> HAVE u > v
  <2>1. r.stored[u] # None => u <= r.version
      BY DEF RowOK
  <2> QED BY <1>3, <2>1
<1>5. w.stored[v] = c
    BY <1>1
<1>6. \A u \in Versions : w.stored[u] # None => u <= v
  <2> TAKE u \in Versions
  <2>1. w.stored[u] = IF u = v THEN c ELSE IF u < v THEN None ELSE r.stored[u]
      BY <1>1
  <2> QED BY <1>3, <1>4, <2>1
<1>7. RowOK(w)
  <2> HIDE DEF w
  <2> QED BY <1>1, <1>2, <1>5, <1>6 DEF RowOK
<1> QED BY <1>1, <1>7

LEMMA AdvanceIs ==
    ASSUME NEW r \in FileRow, NEW v \in Versions, RowOK(r), r.live, r.version <= v
    PROVE  LET w == Advance(r, v)
           IN /\ w.path = r.path /\ w.version = v /\ w.live = r.live /\ w.collision = r.collision
              /\ v = r.version => w.stored = r.stored
              /\ w.stored \in Stored
              /\ RowOK(w)
<1> DEFINE w == Advance(r, v)
<1>1. /\ r.stored \in [Versions -> Contents \cup {None}]
      /\ r.version \in Versions /\ r.stored[r.version] # None
      /\ r.path # None
    BY NoRowIs DEF FileRow, Stored, RowOK
<1>2. /\ w.path = r.path /\ w.version = v /\ w.live = r.live /\ w.collision = r.collision
      /\ w.stored = [r.stored EXCEPT ![v] = r.stored[r.version]]
    BY DEF Advance, FileRow
<1>3. /\ \A u \in Versions : u \in Nat
      /\ r.version \in Nat
    BY <1>1, FileRowsAssumption DEF Versions
<1>4. w.stored[v] # None
    BY <1>1, <1>2
<1>5. \A u \in Versions : w.stored[u] # None => u <= v
  <2> TAKE u \in Versions
  <2>1. u # v => w.stored[u] = r.stored[u]
      BY <1>1, <1>2
  <2>2. r.stored[u] # None => u <= r.version
      BY DEF RowOK
  <2> QED BY <1>3, <2>1, <2>2
<1>6. v = r.version => w.stored = r.stored
    BY <1>1, <1>2
<1>7. w.stored \in Stored
    BY <1>1, <1>2 DEF Stored
<1>8. RowOK(w)
  <2> HIDE DEF w
  <2> QED BY <1>1, <1>2, <1>4, <1>5 DEF RowOK
<1> QED BY <1>2, <1>6, <1>7, <1>8

\* A deleted row, and one that starts another epoch.
LEMMA DropIs ==
    ASSUME NEW r \in FileRow, RowOK(r), NEW v \in 0 .. MaxVersion, r.path # None
    PROVE  LET w == Deleted(r, v)
           IN /\ w.path = r.path /\ w.version = v /\ ~w.live
              /\ w.collision = r.collision /\ RowOK(w)
<1> DEFINE w == Deleted(r, v)
<1>1. /\ w.path = r.path /\ w.version = v /\ ~w.live
      /\ w.collision = r.collision /\ w.stored = NoVersions
    BY DEF Deleted, Drop, FileRow
<1>2. \A u \in Versions : NoVersions[u] = None
    BY DEF NoVersions
<1>3. RowOK(w)
  <2> HIDE DEF w
  <2> QED BY <1>1, <1>2 DEF RowOK
<1> QED BY <1>1, <1>3

LEMMA ClearIs ==
    ASSUME NEW r \in FileRow, RowOK(r), ~r.live, r.path # None
    PROVE  /\ Drop(r).path = r.path /\ Drop(r).version = r.version /\ Drop(r).live = r.live
           /\ Drop(r).collision = r.collision /\ Drop(r).stored = r.stored
           /\ RowOK(Drop(r))
<1>1. /\ Drop(r).path = r.path /\ Drop(r).version = r.version /\ Drop(r).live = r.live
      /\ Drop(r).collision = r.collision /\ Drop(r).stored = NoVersions
    BY DEF Drop, FileRow
<1>2. r.stored = NoVersions
  <2>1. \A v \in Versions : r.stored[v] = None
      BY DEF RowOK
  <2>2. r.stored \in [Versions -> Contents \cup {None}]
      BY DEF FileRow, Stored
  <2> QED BY <2>1, <2>2 DEF NoVersions
<1>3. RowOK(Drop(r))
    BY <1>1, <1>2 DEF RowOK
<1> QED BY <1>1, <1>2, <1>3

LEMMA TombstoneIs ==
    ASSUME NEW p \in Paths, NEW v \in 0 .. MaxVersion
    PROVE  /\ Tombstone(p, v).path = p /\ Tombstone(p, v).version = v
           /\ ~Tombstone(p, v).live /\ ~Tombstone(p, v).collision
           /\ RowOK(Tombstone(p, v))
<1>1. /\ Tombstone(p, v).path = p /\ Tombstone(p, v).version = v
      /\ ~Tombstone(p, v).live /\ ~Tombstone(p, v).collision
      /\ Tombstone(p, v).stored = NoVersions
    BY DEF Tombstone, NoRow
<1>2. \A u \in Versions : NoVersions[u] = None
    BY DEF NoVersions
<1>3. p # None
    BY FileRowsAssumption
<1> QED BY <1>1, <1>2, <1>3 DEF RowOK

-----------------------------------------------------------------------------
(* Names.                                                                  *)

\* What a name stands for is of the kind VersionedFiles speaks of, and it is paused
\* exactly when it is refused.
LEMMA FileIs ==
    ASSUME NEW R, RowsOK(R), NEW k \in Keys
    PROVE  /\ FileOf(R, k) \in Versioned!Files
           /\ FileOf(R, k).version = Floor(R, RowsAt(R, k))
           /\ FileOf(R, k).content = Paused <=> Quarantined(R, k)
<1> DEFINE files == {i \in RowsAt(R, k) : R[i].live}
           one == CHOOSE i \in files : TRUE
           F == FileOf(R, k)
<1>1. RowsAt(R, k) \in SUBSET Ids
    BY DEF RowsAt
<1>2. F.version = Floor(R, RowsAt(R, k)) /\ F.version \in Nat
  <2>1. Floor(R, RowsAt(R, k)) \in 0 .. MaxVersion
      BY <1>1, FloorIs DEF RowsOK
  <2> QED BY <2>1, FileRowsAssumption DEF FileOf
<1>3. F.content = IF Quarantined(R, k) THEN Paused
                  ELSE IF files = {} THEN None ELSE R[one].stored[R[one].version]
    BY DEF FileOf, Quarantined
<1>4. files # {} => R[one].stored[R[one].version] \in Contents \cup {None}
  <2> HAVE files # {}
  <2>1. one \in files
      OBVIOUS
  <2>2. one \in Ids /\ R[one].live
      BY <1>1, <2>1
  <2>3. R[one].version \in Versions
      BY <2>2 DEF RowsOK, RowOK
  <2>4. R[one].stored \in [Versions -> Contents \cup {None}]
      BY <2>2 DEF RowsOK, FileRow, Stored
  <2> HIDE DEF one
  <2> QED BY <2>3, <2>4
<1>5. Paused \notin Contents \cup {None}
    BY FileRowsAssumption
<1>6. F.content \in Contents \cup {None, Paused}
    BY <1>3, <1>4
<1>7. F.content = Paused <=> Quarantined(R, k)
    BY <1>3, <1>4, <1>5
<1>8. F = [version |-> F.version, content |-> F.content]
    BY DEF FileOf
<1> HIDE DEF F
<1>9. F \in Versioned!Files
    BY <1>2, <1>6, <1>8 DEF Versioned!Files
<1> QED BY <1>2, <1>7, <1>9 DEF F

\* A name with a higher version and no new pause may change its content.
LEMMA RenewedAdvances ==
    ASSUME NEW R, RowsOK(R), NEW S, RowsOK(S), NEW k \in Keys, Renewed(R, S, k)
    PROVE  Versioned!Advances(FileOf(R, k), FileOf(S, k))
<1>1. RowsAt(R, k) \in SUBSET Ids /\ RowsAt(S, k) \in SUBSET Ids
    BY DEF RowsAt
<1>2. /\ Floor(R, RowsAt(R, k)) \in 0 .. MaxVersion
      /\ Floor(R, RowsAt(R, k)) = 0 \/ \E i \in RowsAt(R, k) : Floor(R, RowsAt(R, k)) = R[i].version
    BY <1>1, FloorIs DEF RowsOK
<1>3. /\ Floor(S, RowsAt(S, k)) \in 0 .. MaxVersion
      /\ \A i \in RowsAt(S, k) : S[i].version <= Floor(S, RowsAt(S, k))
    BY <1>1, FloorIs DEF RowsOK
<1>4. PICK j \in RowsAt(S, k) :
          S[j].version > 0 /\ \A r \in RowsAt(R, k) : R[r].version < S[j].version
    BY DEF Renewed, Raised
<1>5. S[j].version \in Nat /\ MaxVersion \in Nat
    BY <1>1, <1>4, FileRowsAssumption DEF RowsOK, FileRow
<1>6. Floor(R, RowsAt(R, k)) < S[j].version
    BY <1>2, <1>4
<1>7. Floor(R, RowsAt(R, k)) < Floor(S, RowsAt(S, k))
    BY <1>2, <1>3, <1>4, <1>5, <1>6
<1>8. /\ FileOf(R, k).version = Floor(R, RowsAt(R, k))
      /\ FileOf(S, k).version = Floor(S, RowsAt(S, k))
      /\ FileOf(R, k).content = Paused <=> Quarantined(R, k)
      /\ FileOf(S, k).content = Paused <=> Quarantined(S, k)
    BY FileIs
<1>9. FileOf(R, k).version < FileOf(S, k).version
    BY <1>7, <1>8
<1>10. FileOf(S, k).content = Paused => FileOf(R, k).content = Paused
    BY <1>8 DEF Renewed
<1>11. FileOf(R, k).version \in Nat /\ FileOf(S, k).version \in Nat
    BY <1>2, <1>3, <1>5, <1>8
<1> HIDE DEF FileOf
<1> QED BY <1>9, <1>10, <1>11 DEF Versioned!Advances

\* A name with the same rows stands for the same, and stays right.
LEMMA AlikeIs ==
    ASSUME NEW R, NEW S, NEW k \in Keys, Alike(R, S, k)
    PROVE  /\ FileOf(S, k) = FileOf(R, k)
           /\ LiveAt(S, k) = LiveAt(R, k)
           /\ Crowded(S, k) <=> Crowded(R, k)
           /\ Quarantined(S, k) <=> Quarantined(R, k)
           /\ NameOK(R, k) => NameOK(S, k)
<1>1. /\ RowsAt(S, k) = RowsAt(R, k)
      /\ \A i \in RowsAt(R, k) :
            /\ S[i].version = R[i].version /\ S[i].live = R[i].live
            /\ S[i].collision = R[i].collision /\ S[i].stored = R[i].stored
    BY DEF Alike
<1>2. LiveAt(S, k) = LiveAt(R, k)
    BY <1>1 DEF LiveAt
<1>3. /\ Crowded(S, k) <=> Crowded(R, k)
      /\ Quarantined(S, k) <=> Quarantined(R, k)
    BY <1>1, <1>2 DEF Crowded, Quarantined
<1>4. \A i \in LiveAt(R, k) : i \in RowsAt(R, k)
    BY DEF LiveAt
<1>5. NameOK(R, k) => NameOK(S, k)
    BY <1>1, <1>2, <1>3, <1>4 DEF NameOK
<1>6. FileOf(S, k) = FileOf(R, k)
  <2> DEFINE files(T) == {i \in RowsAt(T, k) : T[i].live}
             one(T) == CHOOSE i \in files(T) : TRUE
             text(T) == IF Quarantined(T, k) THEN Paused
                        ELSE IF files(T) = {} THEN None ELSE T[one(T)].stored[T[one(T)].version]
  <2>1. /\ FileOf(R, k) = [version |-> Floor(R, RowsAt(R, k)), content |-> text(R)]
        /\ FileOf(S, k) = [version |-> Floor(S, RowsAt(S, k)), content |-> text(S)]
      BY DEF FileOf, Quarantined
  <2>2. Floor(S, RowsAt(S, k)) = Floor(R, RowsAt(R, k))
    <3>1. {S[i].version : i \in RowsAt(S, k)} = {R[i].version : i \in RowsAt(R, k)}
        BY <1>1
    <3> QED BY <3>1 DEF Floor
  <2>3. files(S) = files(R)
      BY <1>1
  <2>4. one(S) = one(R)
      BY <2>3
  <2>5. files(R) # {} => one(R) \in RowsAt(R, k)
      OBVIOUS
  <2>6. files(R) # {} => /\ S[one(R)].version = R[one(R)].version
                         /\ S[one(R)].stored = R[one(R)].stored
      BY <1>1, <2>5
  <2>7. text(S) = text(R)
    <3> HIDE DEF files, one
    <3> QED BY <1>3, <2>3, <2>4, <2>6
  <2> HIDE DEF text
  <2> QED BY <2>1, <2>2, <2>7
<1> QED BY <1>2, <1>3, <1>5, <1>6

\* A name none of whose rows is flagged, with no file but i, which is above the marks.
LEMMA QuietName ==
    ASSUME NEW S, NEW k \in Keys, NEW i \in Ids,
           \A j \in RowsAt(S, k) : ~S[j].collision,
           LiveAt(S, k) \subseteq {i},
           i \in LiveAt(S, k) => \A j \in RowsAt(S, k) \ {i} : S[j].version < S[i].version
    PROVE  NameOK(S, k) /\ ~Quarantined(S, k)
<1>1. ~Crowded(S, k)
    BY DEF Crowded
<1>2. ~Quarantined(S, k)
    BY DEF Quarantined
<1> QED BY <1>1, <1>2 DEF NameOK

\* The file getFile returns is the only one of its name.
LEMMA FileFound ==
    ASSUME NEW R, TableOK(R), NEW k \in Keys, NEW i \in Ids, IsFile(R, k, i)
    PROVE  /\ i \in RowsAt(R, k) /\ R[i].path \in Paths /\ Key[R[i].path] = k
           /\ ~Quarantined(R, k) /\ ~R[i].collision
           /\ LiveAt(R, k) \subseteq {i}
           /\ LiveAt(R, k) # {} => i \in LiveAt(R, k)
<1>1. i \in RowsAt(R, k) /\ ~Quarantined(R, k)
    BY DEF IsFile, LiveAt
<1>2. R[i].path \in Paths /\ Key[R[i].path] = k
    BY <1>1 DEF RowsAt, TableOK, RowsOK, FileRow
<1>3. ~R[i].collision
    BY <1>1 DEF Quarantined, RowsAt, TableOK, RowsOK, FileRow
<1>4. ~Crowded(R, k)
    BY <1>1 DEF TableOK, NameOK
<1>5. LiveAt(R, k) # {} => i \in LiveAt(R, k)
    BY DEF IsFile
<1>6. LiveAt(R, k) \subseteq {i}
    BY <1>4, <1>5 DEF Crowded
<1> QED BY <1>1, <1>2, <1>3, <1>5, <1>6

\* One row of a name, or one that was unused, becomes w, the newest there.
LEMMA OneRow ==
    ASSUME NEW R, TableOK(R), NEW i \in Ids, NEW w \in FileRow, NEW k \in Keys,
           w.path \in Paths, Key[w.path] = k,
           R[i].path # None => Key[R[i].path] = k,
           RowOK(w), ~w.collision,
           w.version \in Nat \ {0}, \A j \in RowsAt(R, k) : R[j].version < w.version,
           ~Quarantined(R, k), LiveAt(R, k) \subseteq {i}
    PROVE  StepOK(R, [R EXCEPT ![i] = w])
<1> DEFINE S == [R EXCEPT ![i] = w]
<1>1. R \in [Ids -> FileRow] /\ None \notin Paths
    BY FileRowsAssumption DEF TableOK, RowsOK
<1>2. /\ S \in [Ids -> FileRow] /\ S[i] = w
      /\ \A j \in Ids \ {i} : S[j] = R[j]
    BY <1>1
<1> HIDE DEF S
<1>3. RowsOK(S)
    BY <1>2 DEF RowsOK, TableOK
<1>4. \A h \in Keys \ {k} : Alike(R, S, h)
  <2> TAKE h \in Keys \ {k}
  <2>1. i \notin RowsAt(R, h) /\ i \notin RowsAt(S, h)
      BY <1>1, <1>2 DEF RowsAt
  <2>2. RowsAt(S, h) = RowsAt(R, h)
      BY <1>2, <2>1 DEF RowsAt
  <2>3. \A j \in RowsAt(R, h) : S[j] = R[j]
      BY <1>2, <2>1 DEF RowsAt
  <2> QED BY <2>2, <2>3 DEF Alike
<1>5. RowsAt(S, k) = RowsAt(R, k) \cup {i}
    BY <1>1, <1>2 DEF RowsAt
<1>6. \A j \in RowsAt(S, k) \ {i} : j \in RowsAt(R, k) /\ S[j] = R[j]
    BY <1>2, <1>5 DEF RowsAt
<1>7. \A j \in RowsAt(S, k) : ~S[j].collision
    BY <1>1, <1>2, <1>6 DEF Quarantined, RowsAt, FileRow
<1>8. LiveAt(S, k) \subseteq {i}
    BY <1>6 DEF LiveAt
<1>9. NameOK(S, k) /\ ~Quarantined(S, k)
    BY <1>2, <1>6, <1>7, <1>8, QuietName
<1>10. Renewed(R, S, k)
  <2>1. S[i].version > 0
      BY <1>2
  <2> QED BY <1>2, <1>5, <1>9, <2>1 DEF Renewed, Raised
<1>11. TableOK(S)
  <2>1. \A h \in Keys \ {k} : NameOK(S, h)
      BY <1>4, AlikeIs DEF TableOK
  <2> QED BY <1>3, <1>9, <2>1 DEF TableOK
<1> QED BY <1>4, <1>10, <1>11 DEF StepOK, S

\* The file of a name, or an unused row in a name that has none, is written under the
\* next version.
LEMMA WriteStep ==
    ASSUME TableOK(rows), NEW p \in Paths, NEW c \in Contents, NEW i \in Ids,
           IsFile(rows, Key[p], i) \/ (LiveAt(rows, Key[p]) = {} /\ IsFresh(rows, Key[p], i)),
           Bounded([rows EXCEPT ![i] = Written(rows[i], NextVersion(rows, Key[p]), c, p)])
    PROVE  StepOK(rows, [rows EXCEPT ![i] = Written(rows[i], NextVersion(rows, Key[p]), c, p)])
<1> DEFINE k == Key[p]
           v == NextVersion(rows, k)
           w == Written(rows[i], v, c, p)
<1>1. k \in Keys /\ rows \in [Ids -> FileRow] /\ rows[i] \in FileRow /\ RowOK(rows[i])
    BY FileRowsAssumption DEF TableOK, RowsOK
<1>2. v \in Nat \ {0} /\ \A j \in RowsAt(rows, k) : rows[j].version < v
    BY <1>1, NextVersionIs
<1>3. w \in FileRow
  <2>1. [rows EXCEPT ![i] = w][i] = w
      BY <1>1
  <2> QED BY <2>1 DEF Bounded
<1>4. v \in Versions
  <2>1. w.version = v
      BY <1>1 DEF Written, Write, FileRow
  <2>2. v \in 0 .. MaxVersion
      BY <1>3, <2>1 DEF FileRow
  <2> QED BY <1>2, <2>2, FileRowsAssumption DEF Versions
<1>5. CASE IsFile(rows, k, i)
  <2>1. /\ i \in RowsAt(rows, k) /\ Key[rows[i].path] = k
        /\ ~Quarantined(rows, k) /\ ~rows[i].collision
        /\ LiveAt(rows, k) \subseteq {i}
      BY <1>1, <1>5, FileFound
  <2>2. rows[i].version < v
      BY <1>2, <2>1
  <2>3. rows[i].version <= v
      BY <1>1, <1>2, <2>2, FileRowsAssumption DEF FileRow
  <2>4. /\ w.path = p /\ w.version = v /\ ~w.collision /\ RowOK(w)
      BY <1>1, <1>4, <2>1, <2>3, WriteIs
  <2> HIDE DEF w, v, k
  <2>5. Key[w.path] = k
      BY <2>4 DEF k
  <2>6. StepOK(rows, [rows EXCEPT ![i] = w])
      BY <1>1, <1>2, <1>3, <2>1, <2>4, <2>5, OneRow
  <2> QED BY <2>6 DEF w, v, k
<1>6. CASE LiveAt(rows, k) = {} /\ IsFresh(rows, k, i)
  <2>1. rows[i].path = None /\ RowsAt(rows, k) = {}
      BY <1>6 DEF IsFresh, IsUnused
  <2>2. ~Quarantined(rows, k)
      BY <2>1 DEF Quarantined
  <2>3. ~rows[i].collision /\ rows[i].version <= v
    <3>1. rows[i] = NoRow
        BY <1>1, <2>1 DEF RowOK
    <3>2. 0 <= v
        BY <1>2
    <3> QED BY <3>1, <3>2, NoRowIs
  <2>4. /\ w.path = p /\ w.version = v /\ ~w.collision /\ RowOK(w)
      BY <1>1, <1>4, <2>3, WriteIs
  <2>5. LiveAt(rows, k) \subseteq {i}
      BY <1>6
  <2> HIDE DEF w, v, k
  <2>6. Key[w.path] = k
      BY <2>4 DEF k
  <2>7. StepOK(rows, [rows EXCEPT ![i] = w])
      BY <1>1, <1>2, <1>3, <2>1, <2>2, <2>4, <2>5, <2>6, OneRow
  <2> QED BY <2>7 DEF w, v, k
<1> QED BY <1>5, <1>6

\* The same for a file that keeps its spelling.
LEMMA RewriteStep ==
    ASSUME TableOK(rows), NEW k \in Keys, NEW c \in Contents, NEW i \in Ids, IsFile(rows, k, i),
           Bounded([rows EXCEPT ![i] = Write(rows[i], NextVersion(rows, k), c)])
    PROVE  StepOK(rows, [rows EXCEPT ![i] = Write(rows[i], NextVersion(rows, k), c)])
<1> DEFINE p == rows[i].path
           w == Write(rows[i], NextVersion(rows, k), c)
<1>1. p \in Paths /\ Key[p] = k
    BY FileFound
<1>2. rows[i] \in FileRow
    BY DEF TableOK, RowsOK
<1>3. w = Written(rows[i], NextVersion(rows, k), c, p)
    BY <1>2 DEF Written, Write, FileRow
<1> HIDE DEF p, w
<1>4. w = Written(rows[i], NextVersion(rows, Key[p]), c, p)
    BY <1>1, <1>3
<1>5. Bounded([rows EXCEPT ![i] = Written(rows[i], NextVersion(rows, Key[p]), c, p)])
    BY <1>4 DEF w
<1>6. IsFile(rows, Key[p], i)
    BY <1>1
<1>7. StepOK(rows, [rows EXCEPT ![i] = Written(rows[i], NextVersion(rows, Key[p]), c, p)])
    BY <1>1, <1>5, <1>6, WriteStep
<1> QED BY <1>4, <1>7 DEF w

\* A file becomes a mark.
LEMMA RemoveStep ==
    ASSUME TableOK(rows), NEW k \in Keys, NEW i \in Ids, IsFile(rows, k, i),
           Bounded([rows EXCEPT ![i] = Deleted(rows[i], NextVersion(rows, k))])
    PROVE  StepOK(rows, [rows EXCEPT ![i] = Deleted(rows[i], NextVersion(rows, k))])
<1> DEFINE v == NextVersion(rows, k)
           w == Deleted(rows[i], v)
<1>1. rows \in [Ids -> FileRow] /\ rows[i] \in FileRow /\ RowOK(rows[i])
    BY DEF TableOK, RowsOK
<1>2. v \in Nat \ {0} /\ \A j \in RowsAt(rows, k) : rows[j].version < v
    BY <1>1, NextVersionIs
<1>3. w \in FileRow
  <2>1. [rows EXCEPT ![i] = w][i] = w
      BY <1>1
  <2> QED BY <2>1 DEF Bounded
<1>4. v \in 0 .. MaxVersion
  <2>1. w.version = v
      BY <1>1 DEF Deleted, Drop, FileRow
  <2> QED BY <1>3, <2>1 DEF FileRow
<1>5. /\ rows[i].path \in Paths /\ Key[rows[i].path] = k
      /\ ~Quarantined(rows, k) /\ ~rows[i].collision
      /\ LiveAt(rows, k) \subseteq {i}
    BY FileFound
<1>6. rows[i].path # None
    BY <1>5, FileRowsAssumption
<1>7. /\ w.path = rows[i].path /\ w.version = v /\ w.collision = rows[i].collision
      /\ RowOK(w)
    BY <1>1, <1>4, <1>6, DropIs
<1> HIDE DEF v, w
<1>8. w.path \in Paths /\ Key[w.path] = k /\ ~w.collision /\ w.version = v
    BY <1>5, <1>7
<1>9. StepOK(rows, [rows EXCEPT ![i] = w])
    BY <1>1, <1>2, <1>3, <1>5, <1>7, <1>8, OneRow
<1> QED BY <1>9 DEF v, w

\* Live editing is turned on: only epochs change.
LEMMA EnableStep ==
    ASSUME TableOK(rows), NEW S \in [Ids -> FileRow],
           S = [i \in Ids |-> IF rows[i].live THEN [rows[i] EXCEPT !.epoch = rows[i].epoch + 1]
                              ELSE rows[i]]
    PROVE  StepOK(rows, S)
<1>1. \A i \in Ids : rows[i] \in FileRow /\ RowOK(rows[i])
    BY DEF TableOK, RowsOK
<1>2. \A i \in Ids :
          /\ S[i].path = rows[i].path /\ S[i].version = rows[i].version
          /\ S[i].live = rows[i].live /\ S[i].collision = rows[i].collision
          /\ S[i].stored = rows[i].stored
          /\ rows[i].live \/ S[i] = rows[i]
    BY <1>1 DEF FileRow
<1>3. \A i \in Ids : RowOK(S[i])
  <2> TAKE i \in Ids
  <2>1. CASE rows[i].live
    <3>1. rows[i].path # None
        BY <1>1, <2>1, NoRowIs DEF RowOK
    <3> QED BY <1>1, <1>2, <2>1, <3>1 DEF RowOK
  <2>2. CASE ~rows[i].live
      BY <1>1, <1>2, <2>2
  <2> QED BY <2>1, <2>2
<1>4. \A k \in Keys : Alike(rows, S, k)
  <2> TAKE k \in Keys
  <2>1. RowsAt(S, k) = RowsAt(rows, k) /\ RowsAt(rows, k) \subseteq Ids
      BY <1>2 DEF RowsAt
  <2> QED BY <1>2, <2>1 DEF Alike
<1>5. \A k \in Keys : NameOK(S, k)
    BY <1>4, AlikeIs DEF TableOK
<1> QED BY <1>3, <1>4, <1>5 DEF StepOK, TableOK, RowsOK

-----------------------------------------------------------------------------
(* The repair of flags and versions.                                       *)

\* Version v is above those of the rows W.
Above(R, W, v) == \A j \in W : R[j].version < v

\* Row i of table R, lifted, is L: as it was, unless it is the only file of its name and
\* was not above the others.
LiftOK(R, i, L) ==
    /\ L.path = R[i].path /\ L.live = R[i].live
    /\ L.stored \in Stored /\ RowOK(L)
    /\ L.version \in Nat /\ R[i].version <= L.version
    /\ L.version = R[i].version => L.stored = R[i].stored
    /\ LiveAt(R, Key[R[i].path]) # {i} => L.version = R[i].version
    /\ LiveAt(R, Key[R[i].path]) = {i} =>
          /\ Above(R, RowsAt(R, Key[R[i].path]) \ {i}, L.version)
          /\ Above(R, RowsAt(R, Key[R[i].path]) \ {i}, R[i].version) => L.version = R[i].version

LEMMA LiftedIs ==
    ASSUME NEW R, RowsOK(R), NEW i \in Ids, R[i].path # None, Lifted(R, i).version \in 0 .. MaxVersion
    PROVE  LiftOK(R, i, Lifted(R, i))
<1> DEFINE k == Key[R[i].path]
           rest == RowsAt(R, k) \ {i}
           floor == Floor(R, rest)
           L == Lifted(R, i)
<1>1. R \in [Ids -> FileRow] /\ R[i] \in FileRow /\ RowOK(R[i])
    BY DEF RowsOK
<1>2. R[i].stored \in Stored /\ R[i].version \in Nat /\ MaxVersion \in Nat
    BY <1>1, FileRowsAssumption DEF FileRow
<1>3. rest \in SUBSET Ids
    BY DEF RowsAt
<1>4. /\ floor \in 0 .. MaxVersion
      /\ \A j \in rest : R[j].version <= floor
      /\ floor = 0 \/ \E j \in rest : floor = R[j].version
    BY <1>1, <1>3, FloorIs
<1>5. floor \in Nat /\ \A j \in rest : R[j].version \in Nat
    BY <1>1, <1>2, <1>3, <1>4, FileRowsAssumption DEF FileRow
<1>6. L = IF LiveAt(R, k) = {i} /\ floor >= R[i].version THEN Advance(R[i], floor + 1) ELSE R[i]
    BY DEF Lifted
<1> HIDE DEF floor, L
<1>7. CASE LiveAt(R, k) = {i} /\ floor >= R[i].version
  <2>1. L = Advance(R[i], floor + 1)
      BY <1>6, <1>7
  <2>2. R[i].live
      BY <1>7 DEF LiveAt
  <2>3. L.version = floor + 1
      BY <1>1, <2>1 DEF Advance, FileRow
  <2>4. floor + 1 \in Versions
    <3>1. floor + 1 \in 0 .. MaxVersion
        BY <2>3 DEF L
    <3> QED BY <1>2, <1>5, <3>1 DEF Versions
  <2>5. R[i].version <= floor + 1
      BY <1>2, <1>5, <1>7
  <2>6. /\ L.path = R[i].path /\ L.live = R[i].live /\ L.collision = R[i].collision
        /\ L.stored \in Stored /\ RowOK(L)
        /\ floor + 1 = R[i].version => L.stored = R[i].stored
      BY <1>1, <2>1, <2>2, <2>4, <2>5, AdvanceIs
  <2>7. Above(R, rest, floor + 1)
      BY <1>4, <1>5 DEF Above
  <2>8. ~Above(R, rest, R[i].version)
    <3>1. R[i].version # 0
        BY <1>1, <1>2, <2>2 DEF RowOK, Versions
    <3>2. floor # 0
        BY <1>2, <1>5, <1>7, <3>1
    <3>3. PICK j \in rest : floor = R[j].version
        BY <1>4, <3>2
    <3>4. ~(R[j].version < R[i].version)
        BY <1>2, <1>5, <1>7, <3>3
    <3> QED BY <3>4 DEF Above
  <2>9. floor + 1 \in Nat
      BY <1>5
  <2> HIDE DEF rest, k
  <2>10. /\ L.version \in Nat /\ R[i].version <= L.version
         /\ L.version = R[i].version => L.stored = R[i].stored
      BY <2>3, <2>5, <2>6, <2>9
  <2>11. Above(R, rest, L.version)
      BY <2>3, <2>7
  <2> QED BY <1>7, <2>6, <2>8, <2>10, <2>11 DEF LiftOK, L, rest, k
<1>8. CASE ~(LiveAt(R, k) = {i} /\ floor >= R[i].version)
  <2>1. L = R[i]
      BY <1>6, <1>8
  <2>2. LiveAt(R, k) = {i} => Above(R, rest, R[i].version)
    <3> SUFFICES ASSUME LiveAt(R, k) = {i}, NEW j \in rest
                 PROVE  R[j].version < R[i].version
        BY DEF Above
    <3>1. R[j].version <= floor /\ floor < R[i].version
        BY <1>2, <1>4, <1>5, <1>8
    <3> QED BY <1>2, <1>5, <3>1
  <2>3. R[i].version <= R[i].version
      BY <1>2
  <2> HIDE DEF rest, k
  <2> QED BY <1>1, <1>2, <2>1, <2>2, <2>3 DEF LiftOK, L, rest, k
<1> QED BY <1>7, <1>8

\* Table S is R with the files of name k lifted and its flags set anew.
LiftedAt(R, S, k) ==
    /\ RowsAt(S, k) = RowsAt(R, k)
    /\ \A i \in RowsAt(R, k) :
          /\ LiftOK(R, i, S[i])
          /\ S[i].collision => Crowded(R, k)
          /\ R[i].live /\ Crowded(R, k) => S[i].collision

LEMMA LiftedName ==
    ASSUME NEW R, RowsOK(R), NEW S, RowsOK(S), NEW k \in Keys, LiftedAt(R, S, k)
    PROVE  /\ NameOK(S, k) /\ LiveAt(S, k) = LiveAt(R, k)
           /\ Quarantined(S, k) <=> Crowded(R, k)
<1>1. /\ RowsAt(S, k) = RowsAt(R, k) /\ RowsAt(R, k) \in SUBSET Ids
      /\ \A i \in RowsAt(R, k) : S[i].live = R[i].live
    BY DEF LiftedAt, LiftOK, RowsAt
<1>2. LiveAt(S, k) = LiveAt(R, k)
    BY <1>1 DEF LiveAt
<1>3. Crowded(S, k) <=> Crowded(R, k)
    BY <1>2 DEF Crowded
<1>4. Quarantined(S, k) <=> Crowded(R, k)
  <2>1. Quarantined(S, k) => Crowded(R, k)
      BY <1>1 DEF Quarantined, LiftedAt
  <2>2. ASSUME Crowded(R, k) PROVE Quarantined(S, k)
    <3>1. PICK i \in LiveAt(R, k) : TRUE
        BY <2>2 DEF Crowded
    <3>2. i \in RowsAt(R, k) /\ R[i].live
        BY DEF LiveAt
    <3>3. S[i].collision
        BY <2>2, <3>2 DEF LiftedAt
    <3> QED BY <1>1, <3>2, <3>3 DEF Quarantined
  <2> QED BY <2>1, <2>2
<1>5. Crowded(S, k) => \A i \in LiveAt(S, k) : S[i].collision
    BY <1>2, <1>3 DEF LiftedAt, LiveAt
<1>6. ASSUME NEW i \in LiveAt(S, k), ~Crowded(S, k), NEW j \in RowsAt(S, k) \ {i}
      PROVE  S[j].version < S[i].version
  <2>1. LiveAt(R, k) = {i}
      BY <1>2, <1>6 DEF Crowded
  <2>2. i \in RowsAt(R, k) /\ j \in RowsAt(R, k) \ {i}
      BY <1>1, <1>6, <2>1 DEF LiveAt
  <2>3. Key[R[i].path] = k /\ Key[R[j].path] = k
      BY <2>2 DEF RowsAt
  <2>4. LiftOK(R, i, S[i]) /\ LiftOK(R, j, S[j])
      BY <2>2 DEF LiftedAt
  <2>5. Above(R, RowsAt(R, k) \ {i}, S[i].version)
      BY <2>1, <2>3, <2>4 DEF LiftOK
  <2>6. S[j].version = R[j].version
      BY <2>1, <2>2, <2>3, <2>4 DEF LiftOK
  <2> QED BY <2>2, <2>5, <2>6 DEF Above
<1> QED BY <1>2, <1>3, <1>4, <1>5, <1>6 DEF NameOK

\* Where nothing overlaps there is nothing to repair.
LEMMA LiftedAlike ==
    ASSUME NEW R, RowsOK(R), NEW S, RowsOK(S), NEW k \in Keys, LiftedAt(R, S, k),
           NameOK(R, k), ~Crowded(R, k)
    PROVE  Alike(R, S, k)
<1>1. RowsAt(S, k) = RowsAt(R, k)
    BY DEF LiftedAt
<1>2. ASSUME NEW i \in RowsAt(R, k)
      PROVE  /\ S[i].version = R[i].version /\ S[i].live = R[i].live
             /\ S[i].collision = R[i].collision /\ S[i].stored = R[i].stored
  <2>1. LiftOK(R, i, S[i]) /\ Key[R[i].path] = k /\ i \in Ids
      BY <1>2 DEF LiftedAt, RowsAt
  <2>2. S[i].version = R[i].version
    <3>1. CASE LiveAt(R, k) = {i}
      <4>1. Above(R, RowsAt(R, k) \ {i}, R[i].version)
          BY <3>1 DEF NameOK, Above
      <4> QED BY <2>1, <3>1, <4>1 DEF LiftOK
    <3>2. CASE LiveAt(R, k) # {i}
        BY <2>1, <3>2 DEF LiftOK
    <3> QED BY <3>1, <3>2
  <2>3. S[i].live = R[i].live /\ S[i].stored = R[i].stored
      BY <2>1, <2>2 DEF LiftOK
  <2>4. ~S[i].collision
      BY <1>2 DEF LiftedAt
  <2>5. ~R[i].collision
      BY <1>2 DEF NameOK, Quarantined
  <2>6. S[i].collision \in BOOLEAN /\ R[i].collision \in BOOLEAN
      BY <2>1 DEF RowsOK, FileRow
  <2> QED BY <2>2, <2>3, <2>4, <2>5, <2>6
<1> QED BY <1>1, <1>2 DEF Alike

\* A repair lowers no version.
LEMMA LiftedRaised ==
    ASSUME NEW Q, RowsOK(Q), NEW R, RowsOK(R), NEW S, RowsOK(S), NEW k \in Keys,
           Raised(Q, R, k), LiftedAt(R, S, k)
    PROVE  Raised(Q, S, k)
<1>1. PICK j \in RowsAt(R, k) :
          R[j].version > 0 /\ \A r \in RowsAt(Q, k) : Q[r].version < R[j].version
    BY DEF Raised
<1>2. j \in RowsAt(S, k) /\ R[j].version <= S[j].version
    BY DEF LiftedAt, LiftOK
<1>3. R[j].version \in Nat /\ S[j].version \in Nat
    BY FileRowsAssumption DEF RowsAt, RowsOK, FileRow
<1>4. \A r \in RowsAt(Q, k) : Q[r].version \in Nat
    BY FileRowsAssumption DEF RowsAt, RowsOK, FileRow
<1>5. S[j].version > 0 /\ \A r \in RowsAt(Q, k) : Q[r].version < S[j].version
    BY <1>1, <1>2, <1>3, <1>4
<1> QED BY <1>2, <1>5 DEF Raised

\* A row that is lifted and flagged is as good as the lifted one.
LEMMA FlaggedIs ==
    ASSUME NEW R, RowsOK(R), NEW i \in Ids, R[i].path # None, NEW b \in BOOLEAN,
           NEW r \in FileRow, r = [Lifted(R, i) EXCEPT !.collision = b]
    PROVE  LiftOK(R, i, r) /\ r.collision = b
<1> DEFINE L == Lifted(R, i)
<1>1. R[i] \in FileRow
    BY DEF RowsOK
<1>2. L = R[i] \/ \E v : L = Advance(R[i], v)
    BY DEF Lifted
<1>3. /\ r.path = L.path /\ r.version = L.version /\ r.live = L.live /\ r.stored = L.stored
      /\ r.collision = b
  <2>1. CASE L = R[i]
      BY <1>1, <2>1 DEF FileRow
  <2>2. ASSUME NEW v, L = Advance(R[i], v)
        PROVE  /\ r.path = L.path /\ r.version = L.version /\ r.live = L.live
               /\ r.stored = L.stored /\ r.collision = b
    <3>1. r = [Advance(R[i], v) EXCEPT !.collision = b]
        BY <2>2
    <3> QED BY <1>1, <2>2, <3>1 DEF Advance, FileRow
  <2> HIDE DEF L
  <2> QED BY <1>2, <2>1, <2>2
<1>4. L.version \in 0 .. MaxVersion
    BY <1>3 DEF FileRow
<1>5. LiftOK(R, i, L)
    BY <1>4, LiftedIs
<1> HIDE DEF L
<1>6. RowOK(r)
  <2>1. RowOK(L) /\ L.path # None
      BY <1>5 DEF LiftOK
  <2> QED BY <1>3, <2>1 DEF RowOK
<1>7. LiftOK(R, i, r)
    BY <1>3, <1>5, <1>6 DEF LiftOK
<1> QED BY <1>3, <1>7

\* The owner's repair lifts the names it is about and leaves the others.
LEMMA RepairedIs ==
    ASSUME NEW R, RowsOK(R), NEW names \in SUBSET Keys, Repaired(R, names) \in [Ids -> FileRow]
    PROVE  LET S == Repaired(R, names)
           IN /\ RowsOK(S)
              /\ \A k \in names : LiftedAt(R, S, k)
              /\ \A k \in Keys \ names : Alike(R, S, k)
<1> DEFINE S == Repaired(R, names)
           k(i) == Key[R[i].path]
<1>1. \A i \in Ids : R[i] \in FileRow /\ S[i] \in FileRow
    BY DEF RowsOK
<1>2. ASSUME NEW i \in Ids, R[i].path = None \/ k(i) \notin names
      PROVE  S[i] = R[i]
    BY <1>2 DEF Repaired
<1>3. ASSUME NEW i \in Ids, R[i].path # None, k(i) \in names
      PROVE  LiftOK(R, i, S[i]) /\ S[i].collision = Crowded(R, k(i))
  <2>1. S[i] = [Lifted(R, i) EXCEPT !.collision = Crowded(R, k(i))]
      BY <1>3 DEF Repaired
  <2>2. Crowded(R, k(i)) \in BOOLEAN
      BY DEF Crowded
  <2> HIDE DEF S
  <2> QED BY <1>1, <1>3, <2>1, <2>2, FlaggedIs
<1> HIDE DEF S
<1>4. ASSUME NEW i \in Ids PROVE S[i].path = R[i].path /\ RowOK(S[i])
  <2>1. CASE R[i].path = None \/ k(i) \notin names
      BY <1>2, <2>1 DEF RowsOK
  <2>2. CASE ~(R[i].path = None \/ k(i) \notin names)
      BY <1>3, <2>2 DEF LiftOK
  <2> QED BY <2>1, <2>2
<1>5. \A h \in Keys : RowsAt(S, h) = RowsAt(R, h)
    BY <1>4 DEF RowsAt
<1>6. RowsOK(S)
  <2>1. S \in [Ids -> FileRow]
      BY DEF S
  <2> QED BY <1>4, <2>1 DEF RowsOK
<1>7. ASSUME NEW h \in names PROVE LiftedAt(R, S, h)
  <2>1. \A i \in RowsAt(R, h) : i \in Ids /\ R[i].path # None /\ k(i) = h
      BY DEF RowsAt
  <2> HIDE DEF k
  <2>2. \A i \in RowsAt(R, h) : LiftOK(R, i, S[i]) /\ S[i].collision = Crowded(R, h)
      BY <1>3, <2>1
  <2> QED BY <1>5, <2>2 DEF LiftedAt
<1>8. ASSUME NEW h \in Keys \ names PROVE Alike(R, S, h)
  <2>1. \A i \in RowsAt(R, h) : i \in Ids /\ k(i) = h
      BY DEF RowsAt
  <2> HIDE DEF k
  <2>2. \A i \in RowsAt(R, h) : S[i] = R[i]
      BY <1>2, <2>1
  <2> QED BY <1>5, <2>2 DEF Alike
<1> QED BY <1>6, <1>7, <1>8 DEF S

\* So does the migration, with every name.
LEMMA MigratedIs ==
    ASSUME NEW R, RowsOK(R), Migrated(R) \in [Ids -> FileRow]
    PROVE  RowsOK(Migrated(R)) /\ \A k \in Keys : LiftedAt(R, Migrated(R), k)
<1> DEFINE S == Migrated(R)
           k(i) == Key[R[i].path]
<1>1. \A i \in Ids : R[i] \in FileRow /\ S[i] \in FileRow
    BY DEF RowsOK
<1>2. ASSUME NEW i \in Ids, R[i].path = None
      PROVE  S[i] = R[i]
    BY <1>2 DEF Migrated
<1>3. ASSUME NEW i \in Ids, R[i].path # None
      PROVE  LiftOK(R, i, S[i]) /\ S[i].collision = (R[i].live /\ Crowded(R, k(i)))
  <2>1. S[i] = [Lifted(R, i) EXCEPT !.collision = R[i].live /\ Crowded(R, k(i))]
      BY <1>3 DEF Migrated
  <2>2. (R[i].live /\ Crowded(R, k(i))) \in BOOLEAN
      OBVIOUS
  <2> HIDE DEF S
  <2> QED BY <1>1, <1>3, <2>1, <2>2, FlaggedIs
<1> HIDE DEF S
<1>4. ASSUME NEW i \in Ids PROVE S[i].path = R[i].path /\ RowOK(S[i])
    BY <1>2, <1>3 DEF LiftOK, RowsOK
<1>5. \A h \in Keys : RowsAt(S, h) = RowsAt(R, h)
    BY <1>4 DEF RowsAt
<1>6. RowsOK(S)
  <2>1. S \in [Ids -> FileRow]
      BY DEF S
  <2> QED BY <1>4, <2>1 DEF RowsOK
<1>7. ASSUME NEW h \in Keys PROVE LiftedAt(R, S, h)
  <2>1. \A i \in RowsAt(R, h) : i \in Ids /\ R[i].path # None /\ k(i) = h
      BY DEF RowsAt
  <2> HIDE DEF k
  <2>2. \A i \in RowsAt(R, h) :
            LiftOK(R, i, S[i]) /\ S[i].collision = (R[i].live /\ Crowded(R, h))
      BY <1>3, <2>1
  <2> QED BY <1>5, <2>2 DEF LiftedAt
<1> QED BY <1>6, <1>7 DEF S

-----------------------------------------------------------------------------
(* Renames.                                                                *)

\* What a rename shows outside, with S the table afterwards: under the new name file i
\* is the newest and the only one, and row j marks the old name.
RenamedOK(i, q, j, S) ==
    /\ RowsOK(S)
    /\ \A k \in Keys \ {Key[rows[i].path], Key[q]} : Alike(rows, S, k)
    /\ Key[q] = Key[rows[i].path] => Alike(rows, S, Key[q])
    /\ Key[q] # Key[rows[i].path] =>
          /\ NameOK(S, Key[q]) /\ ~Quarantined(S, Key[q]) /\ Raised(rows, S, Key[q])
          /\ Raised(rows, S, Key[rows[i].path])
          /\ RowsAt(S, Key[rows[i].path]) = (RowsAt(rows, Key[rows[i].path]) \ {i}) \cup {j}
          /\ ~S[j].live /\ ~S[j].collision
          /\ \A h \in RowsAt(rows, Key[rows[i].path]) \ {i} : S[h] = rows[h]

\* File i under name q, as version v.
Relocated(r, v, q) == [Advance(r, v) EXCEPT !.path = q, !.collision = FALSE]

LEMMA RelocatedIs ==
    ASSUME NEW r \in FileRow, NEW v \in Versions, RowOK(r), r.live, r.version <= v, NEW q \in Paths
    PROVE  LET w == Relocated(r, v, q)
           IN /\ w.path = q /\ w.version = v /\ w.live = r.live /\ ~w.collision
              /\ v = r.version => w.stored = r.stored
              /\ RowOK(w)
<1> DEFINE a == Advance(r, v)
           w == Relocated(r, v, q)
<1>1. /\ a.live = r.live /\ a.version = v /\ RowOK(a)
      /\ v = r.version => a.stored = r.stored
    BY AdvanceIs
<1>2. /\ w.path = q /\ w.version = a.version /\ w.live = a.live /\ ~w.collision
      /\ w.stored = a.stored
    BY DEF Relocated, Advance, FileRow
<1> HIDE DEF a, w
<1>3. q # None
    BY FileRowsAssumption
<1>4. RowOK(w)
    BY <1>1, <1>2, <1>3 DEF RowOK
<1> QED BY <1>1, <1>2, <1>4 DEF w

\* A row as it was, but for its epoch.
SameRow(r, s) ==
    /\ s.path = r.path /\ s.version = r.version /\ s.live = r.live
    /\ s.collision = r.collision /\ s.stored = r.stored

\* That a deleted file under the new name starts another epoch shows nowhere here.
LEMMA ClearedIs ==
    ASSUME TableOK(rows), NEW i \in Ids, NEW k \in Keys, LiveAt(rows, k) \subseteq {i}
    PROVE  LET C == Cleared(rows, k, i)
           IN /\ C[i] = rows[i] /\ DOMAIN C = Ids
              /\ \A h \in Ids : SameRow(rows[h], C[h]) /\ RowOK(C[h])
              /\ \A h \in Ids \ RowsAt(rows, k) : C[h] = rows[h]
<1> DEFINE C == Cleared(rows, k, i)
<1>1. C[i] = rows[i] /\ DOMAIN C = Ids
    BY DEF Cleared
<1>2. ASSUME NEW h \in Ids
      PROVE  SameRow(rows[h], C[h]) /\ RowOK(C[h]) /\ (h \notin RowsAt(rows, k) => C[h] = rows[h])
  <2>1. rows[h] \in FileRow /\ RowOK(rows[h])
      BY DEF TableOK, RowsOK
  <2>2. CASE h # i /\ IsFile(rows, k, h)
    <3>1. C[h] = Drop(rows[h])
        BY <2>2 DEF Cleared
    <3>2. h \in RowsAt(rows, k) /\ rows[h].path \in Paths
        BY <2>2, FileFound
    <3>3. ~rows[h].live
        BY <2>2, <3>2 DEF LiveAt
    <3>4. rows[h].path # None
        BY <3>2, FileRowsAssumption
    <3> QED BY <2>1, <3>1, <3>2, <3>3, <3>4, ClearIs DEF SameRow
  <2>3. CASE ~(h # i /\ IsFile(rows, k, h))
    <3>1. C[h] = rows[h]
        BY <2>3 DEF Cleared
    <3> QED BY <2>1, <3>1 DEF SameRow
  <2> QED BY <2>2, <2>3
<1> QED BY <1>1, <1>2

\* Floors look at versions alone.
LEMMA SameFloor ==
    ASSUME NEW R, NEW S, NEW W, \A h \in W : S[h].version = R[h].version
    PROVE  Floor(S, W) = Floor(R, W)
<1>1. {S[h].version : h \in W} = {R[h].version : h \in W}
    OBVIOUS
<1> QED BY <1>1 DEF Floor

\* File i is under name q in table M, above the other rows there, which are as they were.
MovedOK(i, q, M) ==
    /\ M[i].path = q /\ M[i].live = rows[i].live /\ ~M[i].collision /\ RowOK(M[i])
    /\ M[i].version \in Nat \ {0}
    /\ Above(rows, RowsAt(rows, Key[q]) \ {i}, M[i].version)
    /\ Above(rows, RowsAt(rows, Key[q]) \ {i}, rows[i].version) =>
          M[i].version = rows[i].version /\ M[i].stored = rows[i].stored
    /\ \A h \in Ids \ {i} : SameRow(rows[h], M[h]) /\ RowOK(M[h])
    /\ \A h \in Ids \ (RowsAt(rows, Key[q]) \cup {i}) : M[h] = rows[h]

LEMMA MovedIs ==
    ASSUME TableOK(rows), NEW i \in Ids, NEW q \in Paths, MayMove(i, q), rows[i].path # None,
           NEW M, M = Moved(Cleared(rows, Key[q], i), i, q), M[i] \in FileRow
    PROVE  MovedOK(i, q, M)
<1> DEFINE k == Key[q]
           C == Cleared(rows, k, i)
           rest == RowsAt(rows, k) \ {i}
           floor == Floor(rows, rest)
           v == IF rows[i].version > floor THEN rows[i].version ELSE floor + 1
<1>1. k \in Keys /\ rows \in [Ids -> FileRow] /\ rows[i] \in FileRow /\ RowOK(rows[i])
    BY FileRowsAssumption DEF TableOK, RowsOK
<1>2. rows[i].live /\ LiveAt(rows, k) \subseteq {i}
    BY DEF MayMove
<1>3. /\ C[i] = rows[i] /\ DOMAIN C = Ids
      /\ \A h \in Ids : SameRow(rows[h], C[h]) /\ RowOK(C[h])
      /\ \A h \in Ids \ RowsAt(rows, k) : C[h] = rows[h]
    BY <1>1, <1>2, ClearedIs
<1> HIDE DEF C
<1>4. RowsAt(C, k) = RowsAt(rows, k)
    BY <1>3 DEF RowsAt, SameRow
<1>5. Floor(C, rest) = floor
  <2>1. \A h \in rest : C[h].version = rows[h].version
      BY <1>3 DEF RowsAt, SameRow
  <2> QED BY <2>1, SameFloor
<1>6. M = [C EXCEPT ![i] = Relocated(rows[i], v, q)]
  <2> HIDE DEF k
  <2>1. Moved(C, i, q) = [C EXCEPT ![i] = Relocated(rows[i], v, q)]
    <3>1. Moved(C, i, q) =
              LET u == IF C[i].version > Floor(C, RowsAt(C, k) \ {i}) THEN C[i].version
                       ELSE Floor(C, RowsAt(C, k) \ {i}) + 1
              IN [C EXCEPT ![i] = Relocated(C[i], u, q)]
        BY DEF Moved, Relocated, k
    <3> QED BY <1>3, <1>4, <1>5, <3>1
  <2> QED BY <2>1 DEF C, k
<1>7. M[i] = Relocated(rows[i], v, q) /\ \A h \in Ids \ {i} : M[h] = C[h]
    BY <1>3, <1>6
<1>8. rest \in SUBSET Ids
    BY DEF RowsAt
<1>9. /\ floor \in 0 .. MaxVersion /\ \A h \in rest : rows[h].version <= floor
      /\ floor = 0 \/ \E h \in rest : floor = rows[h].version
    BY <1>1, <1>8, FloorIs
<1>10. MaxVersion \in Nat /\ floor \in Nat /\ rows[i].version \in Nat
    BY <1>1, <1>9, FileRowsAssumption DEF FileRow
<1>11. \A h \in rest : rows[h].version \in Nat
    BY <1>1, <1>8, FileRowsAssumption DEF FileRow
<1>12. rows[i].version # 0
    BY <1>1, <1>2 DEF RowOK, Versions
<1>13. v \in Nat \ {0} /\ rows[i].version <= v /\ Above(rows, rest, v)
  <2> HIDE DEF floor
  <2>1. CASE rows[i].version > floor
    <3>1. v = rows[i].version
        BY <2>1
    <3>2. \A h \in rest : rows[h].version < rows[i].version
        BY <1>9, <1>10, <1>11, <2>1
    <3> HIDE DEF v, rest
    <3> QED BY <1>10, <1>12, <3>1, <3>2 DEF Above
  <2>2. CASE ~(rows[i].version > floor)
    <3>1. v = floor + 1
        BY <2>2
    <3>2. \A h \in rest : rows[h].version < floor + 1
        BY <1>9, <1>10, <1>11
    <3> HIDE DEF v, rest
    <3> QED BY <1>10, <2>2, <3>1, <3>2 DEF Above
  <2> QED BY <2>1, <2>2
<1>14. Above(rows, rest, rows[i].version) => v = rows[i].version
  <2> HAVE Above(rows, rest, rows[i].version)
  <2>1. CASE floor = 0
      BY <1>10, <1>12, <2>1
  <2>2. CASE \E h \in rest : floor = rows[h].version
    <3>1. floor < rows[i].version
        BY <2>2 DEF Above
    <3> HIDE DEF floor
    <3> QED BY <1>10, <3>1
  <2> HIDE DEF floor, v
  <2> QED BY <1>9, <2>1, <2>2
<1> HIDE DEF v, floor, rest, k
<1>15. v \in Versions
  <2>1. M[i].version = v
      BY <1>1, <1>7 DEF Relocated, Advance, FileRow
  <2>2. v \in 0 .. MaxVersion
      BY <2>1 DEF FileRow
  <2> QED BY <1>10, <1>13, <2>2 DEF Versions
<1>16. /\ M[i].path = q /\ M[i].version = v /\ M[i].live = rows[i].live /\ ~M[i].collision
       /\ v = rows[i].version => M[i].stored = rows[i].stored
       /\ RowOK(M[i])
  <2> DEFINE w == Relocated(rows[i], v, q)
  <2>1. rows[i] \in FileRow /\ RowOK(rows[i]) /\ rows[i].live /\ rows[i].version <= v
      BY <1>1, <1>2, <1>13
  <2>2. /\ w.path = q /\ w.version = v /\ w.live = rows[i].live /\ ~w.collision
        /\ v = rows[i].version => w.stored = rows[i].stored
        /\ RowOK(w)
      BY <1>15, <2>1, RelocatedIs
  <2>3. M[i] = w
      BY <1>7
  <2> HIDE DEF w
  <2> QED BY <2>2, <2>3
<1>17. Above(rows, RowsAt(rows, Key[q]) \ {i}, M[i].version)
    BY <1>13, <1>16 DEF rest, k
<1>18. Above(rows, RowsAt(rows, Key[q]) \ {i}, rows[i].version) => v = rows[i].version
    BY <1>14 DEF rest, k
<1>19. M[i].version \in Nat \ {0}
    BY <1>13, <1>16
<1>20. \A h \in Ids \ {i} : SameRow(rows[h], M[h]) /\ RowOK(M[h])
    BY <1>3, <1>7
<1>21. \A h \in Ids \ (RowsAt(rows, Key[q]) \cup {i}) : M[h] = rows[h]
    BY <1>3, <1>7 DEF k
<1> QED BY <1>16, <1>17, <1>18, <1>19, <1>20, <1>21 DEF MovedOK

\* The same name in another spelling.
LEMMA RespelledIs ==
    ASSUME TableOK(rows), NEW i \in Ids, NEW q \in Paths, MayMove(i, q), rows[i].path # None,
           NEW j, NEW M, M = Moved(Cleared(rows, Key[q], i), i, q), M \in [Ids -> FileRow],
           Key[q] = Key[rows[i].path]
    PROVE  RenamedOK(i, q, j, M)
<1> DEFINE k == Key[q]
<1>1. k \in Keys /\ \A h \in Ids : rows[h] \in FileRow /\ M[h] \in FileRow
    BY FileRowsAssumption DEF TableOK, RowsOK
<1>2. /\ M[i].path = q /\ M[i].live = rows[i].live /\ ~M[i].collision /\ RowOK(M[i])
      /\ Above(rows, RowsAt(rows, k) \ {i}, rows[i].version) =>
            M[i].version = rows[i].version /\ M[i].stored = rows[i].stored
      /\ \A h \in Ids \ {i} : SameRow(rows[h], M[h]) /\ RowOK(M[h])
  <2>1. M[i] \in FileRow
      BY <1>1
  <2>2. MovedOK(i, q, M)
      BY <2>1, MovedIs
  <2> QED BY <2>2 DEF MovedOK
<1>3. rows[i].live /\ ~Quarantined(rows, k)
    BY DEF MayMove
<1>4. i \in LiveAt(rows, k) /\ i \in RowsAt(rows, k)
    BY <1>3 DEF LiveAt, RowsAt
<1>5. ~Crowded(rows, k)
    BY <1>1, <1>3 DEF TableOK, NameOK
<1>6. Above(rows, RowsAt(rows, k) \ {i}, rows[i].version)
    BY <1>1, <1>4, <1>5 DEF TableOK, NameOK, Above
<1>7. ~rows[i].collision
    BY <1>3, <1>4 DEF Quarantined
<1>8. M[i].collision = rows[i].collision
  <2>1. M[i].collision \in BOOLEAN /\ rows[i].collision \in BOOLEAN
      BY <1>1 DEF FileRow
  <2> QED BY <1>2, <1>7, <2>1
<1>9. /\ M[i].version = rows[i].version /\ M[i].live = rows[i].live
      /\ M[i].collision = rows[i].collision /\ M[i].stored = rows[i].stored
    BY <1>2, <1>6, <1>8
<1>10. q # None /\ Key[M[i].path] = Key[rows[i].path]
    BY <1>2, FileRowsAssumption
<1>11. \A h \in Keys : Alike(rows, M, h)
  <2> TAKE h \in Keys
  <2>1. RowsAt(M, h) = RowsAt(rows, h)
      BY <1>2, <1>10 DEF RowsAt, SameRow
  <2>2. \A r \in RowsAt(rows, h) :
            /\ M[r].version = rows[r].version /\ M[r].live = rows[r].live
            /\ M[r].collision = rows[r].collision /\ M[r].stored = rows[r].stored
    <3> TAKE r \in RowsAt(rows, h)
    <3>1. r \in Ids
        BY DEF RowsAt
    <3>2. CASE r = i
        BY <1>9, <3>2
    <3>3. CASE r # i
        BY <1>2, <3>1, <3>3 DEF SameRow
    <3> QED BY <3>2, <3>3
  <2> QED BY <2>1, <2>2 DEF Alike
<1>12. RowsOK(M)
    BY <1>2 DEF RowsOK
<1> QED BY <1>1, <1>11, <1>12 DEF RenamedOK

\* Another name, where the old one is marked.
LEMMA MarkedIs ==
    ASSUME TableOK(rows), NEW i \in Ids, NEW q \in Paths, MayMove(i, q), rows[i].path # None,
           NEW j \in Ids, rows[j].path = None,
           NEW M, M = Moved(Cleared(rows, Key[q], i), i, q),
           NEW S, S = Marked(M, rows[i].path, NextVersion(rows, Key[rows[i].path]), j),
           S \in [Ids -> FileRow],
           Key[q] # Key[rows[i].path]
    PROVE  RenamedOK(i, q, j, S)
<1> DEFINE k == Key[q]
           old == Key[rows[i].path]
           mark == NextVersion(rows, old)
           T == Tombstone(rows[i].path, mark)
<1>1. /\ k \in Keys /\ old \in Keys /\ rows[i].path \in Paths /\ rows \in [Ids -> FileRow]
      /\ None \notin Paths
  <2>1. rows \in [Ids -> FileRow] /\ None \notin Paths /\ Key \in [Paths -> Keys]
      BY FileRowsAssumption DEF TableOK, RowsOK
  <2>2. rows[i].path \in Paths
      BY <2>1 DEF FileRow
  <2> QED BY <2>1, <2>2
<1>2. j # i /\ rows[j].path = None
    OBVIOUS
<1>3. S[j] = T /\ \A h \in Ids \ {j} : S[h] = M[h]
  <2>1. S = [M EXCEPT ![j] = T]
      BY DEF Marked
  <2>2. DOMAIN S = Ids /\ DOMAIN S = DOMAIN M
      BY <2>1
  <2> HIDE DEF T
  <2> QED BY <2>1, <2>2
<1>4. /\ M[i].path = q /\ M[i].live = rows[i].live /\ ~M[i].collision /\ RowOK(M[i])
      /\ M[i].version \in Nat \ {0}
      /\ Above(rows, RowsAt(rows, k) \ {i}, M[i].version)
      /\ \A h \in Ids \ {i} : SameRow(rows[h], M[h]) /\ RowOK(M[h])
      /\ \A h \in Ids \ (RowsAt(rows, k) \cup {i}) : M[h] = rows[h]
  <2>1. M[i] \in FileRow
      BY <1>2, <1>3
  <2>2. MovedOK(i, q, M)
      BY <2>1, MovedIs
  <2> QED BY <2>2 DEF MovedOK
<1>5. mark \in Nat \ {0} /\ \A h \in RowsAt(rows, old) : rows[h].version < mark
    BY <1>1, NextVersionIs
<1>6. mark \in 0 .. MaxVersion
  <2>1. T.version = mark
      BY DEF Tombstone, NoRow
  <2> HIDE DEF T
  <2> QED BY <1>3, <2>1 DEF FileRow
<1> HIDE DEF mark
<1>7. T.path = rows[i].path /\ T.version = mark /\ ~T.live /\ ~T.collision /\ RowOK(T)
    BY <1>1, <1>6, TombstoneIs
<1> HIDE DEF T, k, old
<1>8. RowsOK(S)
  <2>1. \A h \in Ids : RowOK(S[h])
      BY <1>3, <1>4, <1>7
  <2> QED BY <2>1 DEF RowsOK
<1>9. /\ S[i].path = q /\ S[j].path = rows[i].path
      /\ \A h \in Ids \ {i, j} : S[h].path = rows[h].path
    BY <1>2, <1>3, <1>4, <1>7 DEF SameRow
<1>10. /\ RowsAt(S, k) = RowsAt(rows, k) \cup {i} /\ i \notin RowsAt(rows, k)
       /\ j \notin RowsAt(rows, k)
    BY <1>1, <1>2, <1>9 DEF RowsAt, k, old
<1>11. /\ RowsAt(S, old) = (RowsAt(rows, old) \ {i}) \cup {j}
    BY <1>1, <1>2, <1>9 DEF RowsAt, k, old
<1>12. \A h \in Keys \ {k, old} : RowsAt(S, h) = RowsAt(rows, h) /\ i \notin RowsAt(rows, h)
    BY <1>1, <1>2, <1>9 DEF RowsAt, k, old
<1>13. S[i] = M[i]
    BY <1>2, <1>3
<1>14. \A h \in RowsAt(rows, k) : h \in Ids \ {i, j} /\ SameRow(rows[h], S[h])
    BY <1>3, <1>4, <1>10 DEF RowsAt
<1>15. NameOK(S, k) /\ ~Quarantined(S, k)
  <2>1. ~Quarantined(rows, k) /\ LiveAt(rows, k) \subseteq {i}
      BY DEF MayMove, k
  <2>2. \A h \in RowsAt(S, k) : ~S[h].collision
      BY <1>4, <1>10, <1>13, <1>14, <2>1 DEF Quarantined, SameRow
  <2>3. LiveAt(S, k) \subseteq {i}
      BY <1>10, <1>14, <2>1 DEF LiveAt, SameRow
  <2>4. \A h \in RowsAt(S, k) \ {i} : S[h].version < S[i].version
      BY <1>4, <1>10, <1>13, <1>14 DEF Above, SameRow
  <2> QED BY <1>1, <2>2, <2>3, <2>4, QuietName
<1>16. Raised(rows, S, k)
  <2>1. S[i].version > 0
      BY <1>4, <1>13
  <2>2. \A h \in RowsAt(rows, k) : rows[h].version < S[i].version
      BY <1>4, <1>10, <1>13 DEF Above
  <2> QED BY <1>10, <2>1, <2>2 DEF Raised
<1>17. Raised(rows, S, old)
  <2>1. S[j].version = mark /\ mark > 0
      BY <1>3, <1>5, <1>7
  <2> QED BY <1>5, <1>11, <2>1 DEF Raised
<1>18. \A h \in Keys \ {old, k} : Alike(rows, S, h)
  <2> TAKE h \in Keys \ {old, k}
  <2>1. RowsAt(S, h) = RowsAt(rows, h) /\ i \notin RowsAt(rows, h)
      BY <1>12
  <2>2. \A r \in RowsAt(rows, h) : r \in Ids \ {i, j}
      BY <1>2, <2>1 DEF RowsAt
  <2>3. \A r \in RowsAt(rows, h) : SameRow(rows[r], S[r])
      BY <1>3, <1>4, <2>2
  <2> QED BY <2>1, <2>3 DEF Alike, SameRow
<1>19. \A h \in RowsAt(rows, old) \ {i} : S[h] = rows[h]
  <2> TAKE h \in RowsAt(rows, old) \ {i}
  <2>1. h \in Ids /\ h # j /\ h \notin RowsAt(rows, k) \cup {i}
      BY <1>2 DEF RowsAt, k, old
  <2> QED BY <1>3, <1>4, <2>1
<1>20. ~S[j].live /\ ~S[j].collision
    BY <1>3, <1>7
<1>21. k # old
    BY DEF k, old
<1> QED BY <1>8, <1>11, <1>15, <1>16, <1>17, <1>18, <1>19, <1>20, <1>21 DEF RenamedOK, k, old

LEMMA RenamedIs ==
    ASSUME TableOK(rows), NEW i \in Ids, NEW q \in Paths, MayMove(i, q), rows[i].path # None,
           NEW j \in Ids, rows[j].path = None, Bounded(Renamed(i, q, j))
    PROVE  RenamedOK(i, q, j, Renamed(i, q, j))
<1> DEFINE M == Moved(Cleared(rows, Key[q], i), i, q)
           S == Marked(M, rows[i].path, NextVersion(rows, Key[rows[i].path]), j)
<1>1. Renamed(i, q, j) = IF Key[q] = Key[rows[i].path] THEN M ELSE S
    BY DEF Renamed
<1>2. CASE Key[q] = Key[rows[i].path]
  <2>1. Renamed(i, q, j) = M
      BY <1>1, <1>2
  <2>2. M \in [Ids -> FileRow]
      BY <2>1 DEF Bounded
  <2>3. RenamedOK(i, q, j, M)
      BY <1>2, <2>2, RespelledIs
  <2> QED BY <2>1, <2>3
<1>3. CASE Key[q] # Key[rows[i].path]
  <2>1. Renamed(i, q, j) = S
      BY <1>1, <1>3
  <2>2. S \in [Ids -> FileRow]
      BY <2>1 DEF Bounded
  <2>3. RenamedOK(i, q, j, S)
      BY <1>3, <2>2, MarkedIs
  <2> QED BY <2>1, <2>3
<1> QED BY <1>2, <1>3

\* A table that shows no name otherwise.
LEMMA AlikeStep ==
    ASSUME TableOK(rows), NEW S, RowsOK(S), \A k \in Keys : Alike(rows, S, k)
    PROVE  StepOK(rows, S)
<1>1. \A k \in Keys : NameOK(S, k)
    BY AlikeIs DEF TableOK
<1> QED BY <1>1 DEF StepOK, TableOK

\* renameFile: nothing overlaps under the old name either.
LEMMA RenameStep ==
    ASSUME TableOK(rows), NEW i \in Ids, NEW q \in Paths, MayMove(i, q), rows[i].path # None,
           IsFile(rows, Key[rows[i].path], i), NEW j \in Ids, NEW S, RenamedOK(i, q, j, S)
    PROVE  StepOK(rows, S)
<1> DEFINE k == Key[q]
           old == Key[rows[i].path]
<1>1. /\ RowsOK(S)
      /\ \A h \in Keys \ {old, k} : Alike(rows, S, h)
      /\ k = old => Alike(rows, S, k)
      /\ k # old =>
          /\ NameOK(S, k) /\ ~Quarantined(S, k) /\ Raised(rows, S, k)
          /\ Raised(rows, S, old)
          /\ RowsAt(S, old) = (RowsAt(rows, old) \ {i}) \cup {j}
          /\ ~S[j].live /\ ~S[j].collision
          /\ \A h \in RowsAt(rows, old) \ {i} : S[h] = rows[h]
    BY DEF RenamedOK
<1>2. k \in Keys /\ old \in Keys
  <2>1. rows[i].path \in Paths /\ Key \in [Paths -> Keys]
      BY FileRowsAssumption DEF TableOK, RowsOK, FileRow
  <2> QED BY <2>1
<1>3. ~Quarantined(rows, old) /\ LiveAt(rows, old) \subseteq {i}
    BY <1>2, FileFound
<1> HIDE DEF k, old
<1>4. CASE k = old
  <2>1. \A h \in Keys : Alike(rows, S, h)
      BY <1>1, <1>4
  <2> QED BY <1>1, <2>1, AlikeStep
<1>5. CASE k # old
  <2>1. \A h \in RowsAt(S, old) : ~S[h].collision
      BY <1>1, <1>3, <1>5 DEF Quarantined
  <2>2. LiveAt(S, old) = {}
      BY <1>1, <1>3, <1>5 DEF LiveAt
  <2>3. NameOK(S, old) /\ ~Quarantined(S, old)
      BY <1>2, <2>1, <2>2, QuietName
  <2>4. Renewed(rows, S, k) /\ Renewed(rows, S, old)
      BY <1>1, <1>5, <2>3 DEF Renewed
  <2>5. \A h \in Keys \ {old, k} : NameOK(S, h)
      BY <1>1, AlikeIs DEF TableOK
  <2> QED BY <1>1, <1>5, <2>3, <2>4, <2>5 DEF StepOK, TableOK
<1> QED BY <1>4, <1>5

LEMMA AlikeTwice ==
    ASSUME NEW Q, NEW R, NEW S, NEW k, Alike(Q, R, k), Alike(R, S, k)
    PROVE  Alike(Q, S, k)
BY DEF Alike

LEMMA RaisedAlike ==
    ASSUME NEW Q, NEW R, NEW S, NEW k, Raised(Q, R, k), Alike(R, S, k)
    PROVE  Raised(Q, S, k)
BY DEF Raised, Alike

\* renameFileById: whatever overlaps is flagged anew.
LEMMA RepairStep ==
    ASSUME TableOK(rows), NEW i \in Ids, NEW q \in Paths, MayMove(i, q), rows[i].path # None,
           NEW j \in Ids, NEW R, RenamedOK(i, q, j, R),
           Repaired(R, {Key[rows[i].path], Key[q]}) \in [Ids -> FileRow]
    PROVE  StepOK(rows, Repaired(R, {Key[rows[i].path], Key[q]}))
<1> DEFINE k == Key[q]
           old == Key[rows[i].path]
           S == Repaired(R, {old, k})
<1>1. /\ RowsOK(R)
      /\ \A h \in Keys \ {old, k} : Alike(rows, R, h)
      /\ k = old => Alike(rows, R, k)
      /\ k # old =>
          /\ NameOK(R, k) /\ ~Quarantined(R, k) /\ Raised(rows, R, k)
          /\ Raised(rows, R, old)
          /\ RowsAt(R, old) = (RowsAt(rows, old) \ {i}) \cup {j}
          /\ ~R[j].live /\ ~R[j].collision
          /\ \A h \in RowsAt(rows, old) \ {i} : R[h] = rows[h]
    BY DEF RenamedOK
<1>2. k \in Keys /\ old \in Keys
  <2>1. rows[i].path \in Paths /\ Key \in [Paths -> Keys]
      BY FileRowsAssumption DEF TableOK, RowsOK, FileRow
  <2> QED BY <2>1
<1>3. /\ RowsOK(S)
      /\ LiftedAt(R, S, k) /\ LiftedAt(R, S, old)
      /\ \A h \in Keys \ {old, k} : Alike(R, S, h)
  <2>1. {old, k} \in SUBSET Keys
      BY <1>2
  <2> HIDE DEF k, old
  <2>2. S \in [Ids -> FileRow]
      BY DEF k, old
  <2>3. /\ RowsOK(S)
        /\ \A h \in {old, k} : LiftedAt(R, S, h)
        /\ \A h \in Keys \ {old, k} : Alike(R, S, h)
      BY <1>1, <2>1, <2>2, RepairedIs
  <2> QED BY <2>3
<1>4. ~Quarantined(rows, k)
    BY DEF MayMove
<1>5. RowsOK(rows) /\ \A h \in Keys : NameOK(rows, h)
    BY DEF TableOK
<1> HIDE DEF k, old, S
<1>6. \A h \in Keys \ {old, k} : Alike(rows, S, h)
    BY <1>1, <1>3, AlikeTwice
<1>7. CASE k = old
  <2>1. NameOK(rows, k) /\ ~Crowded(rows, k)
      BY <1>2, <1>4, <1>5 DEF NameOK
  <2>2. NameOK(R, k) /\ ~Crowded(R, k)
      BY <1>1, <1>2, <1>7, <2>1, AlikeIs
  <2>3. Alike(R, S, k)
      BY <1>1, <1>2, <1>3, <2>2, LiftedAlike
  <2>4. \A h \in Keys : Alike(rows, S, h)
      BY <1>1, <1>6, <1>7, <2>3, AlikeTwice
  <2>5. StepOK(rows, S)
      BY <1>3, <2>4, AlikeStep
  <2> QED BY <2>5 DEF S, k, old
<1>8. CASE k # old
  <2>1. NameOK(R, k) /\ ~Crowded(R, k)
      BY <1>1, <1>8 DEF NameOK
  <2>2. Alike(R, S, k)
      BY <1>1, <1>2, <1>3, <2>1, LiftedAlike
  <2>3. Raised(rows, S, k) /\ NameOK(S, k) /\ ~Quarantined(S, k)
      BY <1>1, <1>2, <1>8, <2>2, RaisedAlike, AlikeIs
  <2>4. Raised(rows, S, old)
      BY <1>1, <1>2, <1>3, <1>5, <1>8, LiftedRaised
  <2>5. NameOK(S, old) /\ (Quarantined(S, old) => Crowded(R, old))
      BY <1>1, <1>2, <1>3, LiftedName
  <2>6. Crowded(R, old) => Crowded(rows, old)
    <3>1. LiveAt(R, old) \subseteq LiveAt(rows, old)
        BY <1>1, <1>8 DEF LiveAt
    <3> QED BY <3>1 DEF Crowded
  <2>7. Crowded(rows, old) => Quarantined(rows, old)
      BY <1>2, <1>5 DEF NameOK
  <2>8. Renewed(rows, S, k) /\ Renewed(rows, S, old)
      BY <2>3, <2>4, <2>5, <2>6, <2>7 DEF Renewed
  <2>9. \A h \in Keys \ {old, k} : NameOK(S, h)
      BY <1>5, <1>6, AlikeIs
  <2>10. StepOK(rows, S)
      BY <1>3, <1>6, <2>3, <2>5, <2>8, <2>9 DEF StepOK, TableOK
  <2> QED BY <2>10 DEF S, k, old
<1> QED BY <1>7, <1>8

-----------------------------------------------------------------------------
(* The steps.                                                              *)

\* A step on the rows keeps the invariant and does to names what StepOK says.
RowsMove == IInv' /\ StepOK(rows, rows') /\ UNCHANGED seen

LEMMA InstallIs ==
    ASSUME IInv, NEW S, Install(S), enabled' \in BOOLEAN, StepOK(rows, S)
    PROVE  RowsMove
<1>1. rows' = S /\ seen' = seen
    BY DEF Install
<1>2. TableOK(rows') /\ StepOK(rows, rows')
    BY <1>1 DEF StepOK
<1>3. rows' \in [Ids -> FileRow]
    BY <1>2 DEF TableOK, RowsOK
<1>4. held' \in Cached \cup {None}
  <2>1. held \in Cached \cup {None}
      BY DEF IInv, TypeOK
  <2>2. held' = held \/ (held \in Cached /\ held' = [held EXCEPT !.id = None])
      BY DEF Install
  <2>3. ASSUME held \in Cached PROVE [held EXCEPT !.id = None] \in Cached
      BY <2>3 DEF Cached
  <2> QED BY <2>1, <2>2, <2>3
<1>5. seen' \in Sights \cup {None}
    BY <1>1 DEF IInv, TypeOK
<1> QED BY <1>1, <1>2, <1>3, <1>4, <1>5 DEF RowsMove, IInv, TypeOK

LEMMA CreateFileStep ==
    ASSUME IInv, NEW p \in Paths, NEW c \in Contents, CreateFile(p, c)
    PROVE  RowsMove
<1>1. PICK i \in Ids :
          /\ IsFile(rows, Key[p], i) \/ IsFresh(rows, Key[p], i)
          /\ Install([rows EXCEPT ![i] = Written(rows[i], NextVersion(rows, Key[p]), c, p)])
    BY DEF CreateFile, Becomes, Written
<1>2. LiveAt(rows, Key[p]) = {} /\ enabled' \in BOOLEAN /\ TableOK(rows)
    BY DEF CreateFile, IInv, TypeOK
<1>3. Bounded([rows EXCEPT ![i] = Written(rows[i], NextVersion(rows, Key[p]), c, p)])
    BY <1>1 DEF Install
<1>4. StepOK(rows, [rows EXCEPT ![i] = Written(rows[i], NextVersion(rows, Key[p]), c, p)])
    BY <1>1, <1>2, <1>3, WriteStep
<1> QED BY <1>1, <1>2, <1>4, InstallIs

LEMMA CreateCrdtStep ==
    ASSUME IInv, NEW p \in Paths, CreateCrdt(p)
    PROVE  RowsMove
<1>1. PICK q \in Paths :
          /\ LiveAt(rows, Key[q]) = {}
          /\ \E i \in Ids :
                /\ IsFile(rows, Key[q], i) \/ IsFresh(rows, Key[q], i)
                /\ Install([rows EXCEPT ![i] = Written(rows[i], NextVersion(rows, Key[q]), Empty, q)])
    BY DEF CreateCrdt, Becomes, Written
<1>2. PICK i \in Ids :
          /\ IsFile(rows, Key[q], i) \/ IsFresh(rows, Key[q], i)
          /\ Install([rows EXCEPT ![i] = Written(rows[i], NextVersion(rows, Key[q]), Empty, q)])
    BY <1>1
<1>3. Empty \in Contents /\ enabled' \in BOOLEAN /\ TableOK(rows)
    BY FileRowsAssumption DEF CreateCrdt, IInv, TypeOK
<1>4. Bounded([rows EXCEPT ![i] = Written(rows[i], NextVersion(rows, Key[q]), Empty, q)])
    BY <1>2 DEF Install
<1>5. StepOK(rows, [rows EXCEPT ![i] = Written(rows[i], NextVersion(rows, Key[q]), Empty, q)])
    BY <1>1, <1>2, <1>3, <1>4, WriteStep
<1> QED BY <1>2, <1>3, <1>5, InstallIs

LEMMA OverwriteStep ==
    ASSUME IInv, NEW k \in Keys, NEW c \in Contents, NEW i \in Ids, Overwrite(k, c, i)
    PROVE  RowsMove
<1>1. Install([rows EXCEPT ![i] = Write(rows[i], NextVersion(rows, k), c)])
    BY DEF Overwrite, Becomes
<1>2. IsFile(rows, k, i) /\ enabled' \in BOOLEAN /\ TableOK(rows)
    BY DEF Overwrite, IInv, TypeOK
<1>3. Bounded([rows EXCEPT ![i] = Write(rows[i], NextVersion(rows, k), c)])
    BY <1>1 DEF Install
<1>4. StepOK(rows, [rows EXCEPT ![i] = Write(rows[i], NextVersion(rows, k), c)])
    BY <1>2, <1>3, RewriteStep
<1> QED BY <1>1, <1>2, <1>4, InstallIs

LEMMA RemoveFileStep ==
    ASSUME IInv, NEW k \in Keys, NEW i \in Ids, Remove(k, i)
    PROVE  RowsMove
<1>1. Install([rows EXCEPT ![i] = Deleted(rows[i], NextVersion(rows, k))])
    BY DEF Remove, Becomes, Deleted
<1>2. IsFile(rows, k, i) /\ enabled' \in BOOLEAN /\ TableOK(rows)
    BY DEF Remove, IInv, TypeOK
<1>3. Bounded([rows EXCEPT ![i] = Deleted(rows[i], NextVersion(rows, k))])
    BY <1>1 DEF Install
<1>4. StepOK(rows, [rows EXCEPT ![i] = Deleted(rows[i], NextVersion(rows, k))])
    BY <1>2, <1>3, RemoveStep
<1> QED BY <1>1, <1>2, <1>4, InstallIs

LEMMA RenameFileStep ==
    ASSUME IInv, NEW i \in Ids, NEW q \in RenameTargets, Rename(i, q)
    PROVE  RowsMove
<1>1. PICK j \in Ids : rows[j].path = None /\ Install(Renamed(i, q, j))
    BY DEF Rename, Becomes, IsUnused
<1>2. /\ rows[i].path # None /\ IsFile(rows, Key[rows[i].path], i) /\ MayMove(i, q)
      /\ enabled' \in BOOLEAN /\ TableOK(rows) /\ q \in Paths
    BY FileRowsAssumption DEF Rename, IInv, TypeOK
<1>3. Bounded(Renamed(i, q, j))
    BY <1>1 DEF Install
<1>4. RenamedOK(i, q, j, Renamed(i, q, j))
    BY <1>1, <1>2, <1>3, RenamedIs
<1>5. StepOK(rows, Renamed(i, q, j))
    BY <1>2, <1>4, RenameStep
<1> QED BY <1>1, <1>2, <1>5, InstallIs

LEMMA RepairNameStep ==
    ASSUME IInv, NEW i \in Ids, NEW q \in RenameTargets, RepairName(i, q)
    PROVE  RowsMove
<1>1. PICK j \in Ids :
          /\ rows[j].path = None /\ Bounded(Renamed(i, q, j))
          /\ Install(Repaired(Renamed(i, q, j), {Key[rows[i].path], Key[q]}))
    BY DEF RepairName, Becomes, IsUnused
<1>2. /\ rows[i].path # None /\ MayMove(i, q)
      /\ enabled' \in BOOLEAN /\ TableOK(rows) /\ q \in Paths
    BY FileRowsAssumption DEF RepairName, IInv, TypeOK
<1>3. Repaired(Renamed(i, q, j), {Key[rows[i].path], Key[q]}) \in [Ids -> FileRow]
    BY <1>1 DEF Install, Bounded
<1>4. RenamedOK(i, q, j, Renamed(i, q, j))
    BY <1>1, <1>2, RenamedIs
<1>5. StepOK(rows, Repaired(Renamed(i, q, j), {Key[rows[i].path], Key[q]}))
    BY <1>2, <1>3, <1>4, RepairStep
<1> QED BY <1>1, <1>2, <1>5, InstallIs

\* A live file whose row is not flagged is the one getFile returns.
LEMMA UnflaggedIsFile ==
    ASSUME TableOK(rows), NEW i \in Ids, rows[i].live, ~rows[i].collision
    PROVE  rows[i].path \in Paths /\ IsFile(rows, Key[rows[i].path], i)
<1> DEFINE k == Key[rows[i].path]
<1>1. rows[i] \in FileRow /\ RowOK(rows[i]) /\ \A j \in Ids : rows[j].version \in Nat
    BY FileRowsAssumption DEF TableOK, RowsOK, FileRow
<1>2. rows[i].path # None
    BY <1>1, NoRowIs DEF RowOK
<1>3. rows[i].path \in Paths
    BY <1>1, <1>2 DEF FileRow
<1>4. k \in Keys
    BY <1>3, FileRowsAssumption
<1>5. i \in LiveAt(rows, k)
    BY <1>2 DEF LiveAt, RowsAt
<1> HIDE DEF k
<1>6. NameOK(rows, k)
    BY <1>4 DEF TableOK
<1>7. ~Crowded(rows, k)
    BY <1>5, <1>6 DEF NameOK
<1>8. ~Quarantined(rows, k) /\ LiveAt(rows, k) = {i}
    BY <1>5, <1>6, <1>7 DEF NameOK, Crowded
<1>9. rows[i].version <= rows[i].version
    BY <1>1
<1>10. IsFile(rows, k, i)
    BY <1>8, <1>9 DEF IsFile
<1> QED BY <1>3, <1>10 DEF k

LEMMA MaterializeStep ==
    ASSUME IInv, NEW i \in Ids, NEW e, NEW c \in Contents, Materialize(i, e, c)
    PROVE  RowsMove
<1> DEFINE k == Key[rows[i].path]
<1>1. Install([rows EXCEPT ![i] = Write(rows[i], NextVersion(rows, k), c)])
    BY DEF Materialize, Becomes
<1>2. rows[i].live /\ ~rows[i].collision /\ enabled' \in BOOLEAN /\ TableOK(rows)
    BY DEF Materialize, IInv, TypeOK
<1>3. IsFile(rows, k, i) /\ k \in Keys
    BY <1>2, UnflaggedIsFile, FileRowsAssumption
<1>4. Bounded([rows EXCEPT ![i] = Write(rows[i], NextVersion(rows, k), c)])
    BY <1>1 DEF Install
<1> HIDE DEF k
<1>5. StepOK(rows, [rows EXCEPT ![i] = Write(rows[i], NextVersion(rows, k), c)])
    BY <1>2, <1>3, <1>4, RewriteStep
<1> QED BY <1>1, <1>2, <1>5, InstallIs

LEMMA EnableRoomStep ==
    ASSUME IInv, Enable
    PROVE  RowsMove
<1> DEFINE S == [i \in Ids |-> IF rows[i].live THEN [rows[i] EXCEPT !.epoch = rows[i].epoch + 1]
                               ELSE rows[i]]
<1>1. Install(S) /\ enabled' \in BOOLEAN
    BY DEF Enable
<1>2. S \in [Ids -> FileRow]
    BY <1>1 DEF Install, Bounded
<1>3. TableOK(rows)
    BY DEF IInv
<1>4. StepOK(rows, S)
    BY <1>2, <1>3, EnableStep
<1> HIDE DEF S
<1> QED BY <1>1, <1>4, InstallIs

\* A name that one file has stands for that file.
LEMMA OneFile ==
    ASSUME NEW R, TableOK(R), NEW k \in Keys, NEW i, i \in LiveAt(R, k), ~Crowded(R, k)
    PROVE  /\ FileOf(R, k).version = R[i].version
           /\ FileOf(R, k).content = R[i].stored[R[i].version]
           /\ FileOf(R, k).content \in Contents
<1> DEFINE files == {h \in RowsAt(R, k) : R[h].live}
           one == CHOOSE h \in files : TRUE
<1>1. R \in [Ids -> FileRow] /\ RowsAt(R, k) \in SUBSET Ids /\ NameOK(R, k) /\ ~Quarantined(R, k)
    BY DEF TableOK, RowsOK, RowsAt, NameOK
<1>2. i \in RowsAt(R, k) /\ i \in Ids /\ R[i].live /\ RowOK(R[i])
    BY <1>1 DEF LiveAt, TableOK, RowsOK
<1>3. \A h \in RowsAt(R, k) : R[h].version \in Nat
    BY <1>1, FileRowsAssumption DEF FileRow
<1>4. \A h \in RowsAt(R, k) \ {i} : R[h].version < R[i].version
    BY <1>1 DEF NameOK
<1>5. Floor(R, RowsAt(R, k)) = R[i].version
  <2>1. /\ Floor(R, RowsAt(R, k)) \in 0 .. MaxVersion
        /\ \A h \in RowsAt(R, k) : R[h].version <= Floor(R, RowsAt(R, k))
        /\ Floor(R, RowsAt(R, k)) = 0 \/ \E h \in RowsAt(R, k) : Floor(R, RowsAt(R, k)) = R[h].version
      BY <1>1, FloorIs
  <2>2. R[i].version <= Floor(R, RowsAt(R, k)) /\ R[i].version \in Nat
      BY <1>2, <1>3, <2>1
  <2>3. CASE Floor(R, RowsAt(R, k)) = 0
      BY <2>2, <2>3
  <2>4. CASE \E h \in RowsAt(R, k) : Floor(R, RowsAt(R, k)) = R[h].version
    <3>1. PICK h \in RowsAt(R, k) : Floor(R, RowsAt(R, k)) = R[h].version
        BY <2>4
    <3>2. h = i \/ R[h].version < R[i].version
        BY <1>4
    <3> QED BY <1>3, <2>2, <3>1, <3>2
  <2> QED BY <2>1, <2>3, <2>4
<1>6. files = {i}
  <2>1. files = LiveAt(R, k)
      BY DEF LiveAt
  <2> QED BY <2>1 DEF Crowded
<1>7. one = i
    BY <1>6
<1>8. R[i].stored[R[i].version] \in Contents
  <2>1. R[i].stored \in [Versions -> Contents \cup {None}]
      BY <1>1, <1>2 DEF FileRow, Stored
  <2> QED BY <1>2, <2>1 DEF RowOK
<1>9. FileOf(R, k) = [version |-> Floor(R, RowsAt(R, k)),
                      content |-> IF Quarantined(R, k) THEN Paused
                                  ELSE IF files = {} THEN None ELSE R[one].stored[R[one].version]]
    BY DEF FileOf, Quarantined
<1> HIDE DEF files, one
<1>10. files # {}
    BY <1>6
<1> QED BY <1>1, <1>5, <1>7, <1>8, <1>9, <1>10

\* A step on the rows is a change of names, or none.
LEMMA MoveRefines ==
    ASSUME IInv, RowsMove
    PROVE  Versioned!Change
<1>1. /\ TableOK(rows) /\ TableOK(rows') /\ seen' = seen
      /\ \A k \in Keys : Alike(rows, rows', k) \/ Renewed(rows, rows', k)
    BY DEF IInv, RowsMove, StepOK
<1>2. RowsOK(rows) /\ RowsOK(rows')
    BY <1>1 DEF TableOK
<1>3. \A k \in Keys : FileOf(rows', k) \in Versioned!Files
    BY <1>2, FileIs
<1>4. ASSUME NEW k \in Keys
      PROVE  Versioned!Advances(FileOf(rows, k), FileOf(rows', k))
  <2>1. CASE Alike(rows, rows', k)
    <3>1. FileOf(rows', k) = FileOf(rows, k)
        BY <2>1, AlikeIs
    <3>2. FileOf(rows, k).version \in Nat
        BY <1>2, FileIs DEF Versioned!Files
    <3> HIDE DEF FileOf
    <3> QED BY <3>1, <3>2 DEF Versioned!Advances
  <2>2. CASE Renewed(rows, rows', k)
      BY <1>2, <2>2, RenewedAdvances
  <2> QED BY <1>1, <2>1, <2>2
<1> QED BY <1>1, <1>3, <1>4 DEF Versioned!Change

\* A device that fetches a file gets what VersionedFiles says is there.
LEMMA FetchRefines ==
    ASSUME IInv, NEW k \in Fetched, Fetch(k)
    PROVE  IInv' /\ Versioned!Fetch(k)
<1>1. TableOK(rows) /\ k \in Keys /\ UNCHANGED <<rows, enabled, held>>
    BY FileRowsAssumption DEF IInv, Fetch
<1>2. PICK i \in LiveAt(rows, k) : IsFile(rows, k, i) /\ seen' = Sight(k, i)
    BY DEF Fetch
<1>3. i \in Ids
    BY DEF LiveAt, RowsAt
<1>4. ~Crowded(rows, k)
    BY <1>1, <1>2 DEF IsFile, TableOK, NameOK
<1>5. /\ FileOf(rows, k).version = rows[i].version
      /\ FileOf(rows, k).content = rows[i].stored[rows[i].version]
      /\ FileOf(rows, k).content \in Contents
    BY <1>1, <1>4, OneFile
<1>6. seen' = [key |-> k, version |-> FileOf(rows, k).version, content |-> FileOf(rows, k).content]
    BY <1>2, <1>5 DEF Sight
<1>7. seen' \in Sights
  <2>1. rows[i].version \in 0 .. MaxVersion
      BY <1>1, <1>3 DEF TableOK, RowsOK, FileRow
  <2> HIDE DEF FileOf
  <2> QED BY <1>1, <1>5, <1>6, <2>1 DEF Sights
<1>8. IInv'
    BY <1>1, <1>7 DEF IInv, TypeOK
<1>9. [h \in Keys |-> FileOf(rows', h)] = [h \in Keys |-> FileOf(rows, h)]
    BY <1>1
<1> HIDE DEF FileOf
<1> QED BY <1>1, <1>5, <1>6, <1>8, <1>9 DEF Versioned!Fetch

\* Steps that show no whole-file device anything.
LEMMA QuietStep ==
    ASSUME IInv, UNCHANGED <<rows, seen>>, enabled' \in BOOLEAN, held' \in Cached \cup {None}
    PROVE  IInv'
BY DEF IInv, TypeOK

\* Every step keeps the invariant, and is a step of VersionedFiles or one it does not see.
LEMMA NextRefines ==
    ASSUME IInv, [Next]_vars
    PROVE  /\ IInv'
           /\ [Versioned!Next]_<<[k \in Keys |-> FileOf(rows, k)], seen>>
<1> DEFINE file == [k \in Keys |-> FileOf(rows, k)]
<1>1. ASSUME RowsMove PROVE IInv' /\ Versioned!Next
    BY <1>1, MoveRefines DEF RowsMove, Versioned!Next
<1>2. ASSUME WholeFile PROVE RowsMove
    BY <1>2, CreateFileStep, OverwriteStep, RemoveFileStep
       DEF WholeFile, DeleteFile, UpdateFile
<1>3. ASSUME LiveEditing PROVE RowsMove
    BY <1>3, RenameFileStep, CreateCrdtStep, RemoveFileStep, MaterializeStep
       DEF LiveEditing, DeleteNote
<1>4. ASSUME Enable \/ \E i \in Ids, q \in RenameTargets : RepairName(i, q) PROVE RowsMove
    BY <1>4, EnableRoomStep, RepairNameStep
<1>5. ASSUME Disable \/ (\E k \in Opened : Hold(k)) \/ UNCHANGED vars
      PROVE  UNCHANGED <<rows, seen>> /\ IInv'
  <2>1. enabled \in BOOLEAN /\ held \in Cached \cup {None} /\ rows \in [Ids -> FileRow]
      BY DEF IInv, TypeOK
  <2>2. UNCHANGED <<rows, seen>> /\ enabled' \in BOOLEAN
      BY <1>5, <2>1 DEF Disable, Hold, vars
  <2>3. held' \in Cached \cup {None}
    <3>1. CASE \E k \in Opened : Hold(k)
      <4> PICK k \in Opened : Hold(k)
          BY <3>1
      <4>1. PICK i \in LiveAt(rows, k) : held' = [key |-> k, epoch |-> rows[i].epoch, id |-> i]
          BY DEF Hold
      <4>2. i \in Ids /\ k \in Keys
          BY FileRowsAssumption DEF LiveAt, RowsAt
      <4>3. rows[i].epoch \in 0 .. MaxEpoch
          BY <2>1, <4>2 DEF FileRow
      <4> QED BY <4>1, <4>2, <4>3 DEF Cached
    <3>2. CASE Disable \/ UNCHANGED vars
        BY <2>1, <3>2 DEF Disable, vars
    <3> QED BY <1>5, <3>1, <3>2
  <2> QED BY <2>2, <2>3, QuietStep
<1>6. ASSUME NEW k \in Fetched, Fetch(k) PROVE IInv' /\ Versioned!Next
  <2>1. k \in Keys
      BY FileRowsAssumption
  <2> QED BY <1>6, <2>1, FetchRefines DEF Versioned!Next
<1>7. CASE Next
    BY <1>1, <1>2, <1>3, <1>4, <1>5, <1>6, <1>7 DEF Next, OwnerActs, Device
<1>8. CASE UNCHANGED vars
    BY <1>5, <1>8
<1> QED BY <1>7, <1>8

-----------------------------------------------------------------------------
(* The start: a table from before portable names, migrated.                *)

\* The rows of an old table are good, and leave room for one more version.
Young(R) == RowsOK(R) /\ \A i \in Ids : R[i].version <= MaxVersion - 1

LEMMA OldRowIs ==
    ASSUME NEW p \in Paths, NEW f \in OldFiles
    PROVE  LET r == OldRow(p, f)
           IN /\ r \in FileRow /\ RowOK(r) /\ r.path = p /\ r.version = f.version
              /\ r.live <=> f.content # None
              /\ r.stored[r.version] = f.content
              /\ r.version <= MaxVersion - 1
<1> DEFINE r == OldRow(p, f)
<1>1. f.version \in 1 .. (MaxVersion - 1) /\ f.content \in Contents \cup {None} /\ MaxVersion \in Nat
    BY FileRowsAssumption DEF OldFiles
<1>2. f.version \in Versions /\ f.version \in 0 .. MaxVersion
    BY <1>1 DEF Versions
<1>3. NoVersions \in Stored /\ \A v \in Versions : NoVersions[v] = None
    BY DEF NoVersions, Stored
<1>4. NoRow.stored = NoVersions
    BY DEF NoRow
<1>5. r = [NoRow EXCEPT !.path = p, !.version = f.version, !.live = (f.content # None),
                        !.stored = [NoVersions EXCEPT ![f.version] = f.content]]
    BY <1>4 DEF OldRow, NoRow
<1>6. [NoVersions EXCEPT ![f.version] = f.content] \in Stored
    BY <1>1, <1>3 DEF Stored
<1>7. /\ r.path = p /\ r.version = f.version /\ r.live = (f.content # None)
      /\ r.stored = [NoVersions EXCEPT ![f.version] = f.content]
    BY <1>5 DEF NoRow
<1>8. r \in FileRow
  <2>1. (f.content # None) \in BOOLEAN /\ p \in Paths \cup {None}
      OBVIOUS
  <2>2. NoRow \in FileRow
      BY NoRowIs
  <2> HIDE DEF r
  <2> QED BY <1>2, <1>5, <1>6, <2>1, <2>2 DEF FileRow
<1>9. \A v \in Versions : r.stored[v] # None => v = f.version /\ f.content # None
    BY <1>2, <1>3, <1>7 DEF Stored
<1>10. r.stored[f.version] = f.content
    BY <1>2, <1>3, <1>7 DEF Stored
<1> HIDE DEF r
<1>11. p # None
    BY FileRowsAssumption
<1>12. f.version <= f.version
    BY <1>1
<1>13. RowOK(r)
    BY <1>2, <1>7, <1>9, <1>10, <1>11, <1>12 DEF RowOK
<1>14. r.version <= MaxVersion - 1
    BY <1>1, <1>7
<1> QED BY <1>7, <1>8, <1>10, <1>13, <1>14 DEF r

\* The migration of such a table stays within the bounds.
LEMMA YoungIs ==
    ASSUME NEW R, Young(R)
    PROVE  Migrated(R) \in [Ids -> FileRow]
<1>1. R \in [Ids -> FileRow] /\ \A i \in Ids : R[i] \in FileRow /\ RowOK(R[i])
    BY DEF Young, RowsOK
<1>2. ASSUME NEW i \in Ids, R[i].path # None
      PROVE  Lifted(R, i) \in FileRow
  <2> DEFINE k == Key[R[i].path]
             rest == RowsAt(R, k) \ {i}
             floor == Floor(R, rest)
  <2>1. rest \in SUBSET Ids
      BY DEF RowsAt
  <2>2. /\ floor \in 0 .. MaxVersion
        /\ floor = 0 \/ \E j \in rest : floor = R[j].version
      BY <1>1, <2>1, FloorIs
  <2>3. floor + 1 \in Versions
    <3>1. MaxVersion \in Nat \ {0}
        BY FileRowsAssumption
    <3>2. \A j \in rest : R[j].version <= MaxVersion - 1
        BY <2>1 DEF Young
    <3>3. floor <= MaxVersion - 1
      <4>1. CASE floor = 0
          BY <3>1, <4>1
      <4>2. CASE \E j \in rest : floor = R[j].version
          BY <3>2, <4>2
      <4> QED BY <2>2, <4>1, <4>2
    <3> HIDE DEF floor
    <3> QED BY <2>2, <3>1, <3>3 DEF Versions
  <2>4. CASE LiveAt(R, k) = {i} /\ floor >= R[i].version
    <3>1. Lifted(R, i) = Advance(R[i], floor + 1)
        BY <2>4 DEF Lifted
    <3> HIDE DEF floor
    <3>2. floor + 1 \in 0 .. MaxVersion
        BY <2>3, FileRowsAssumption DEF Versions
    <3>3. R[i].live
        BY <2>4 DEF LiveAt
    <3>4. R[i].stored \in Stored /\ R[i].stored[R[i].version] \in Contents \cup {None}
        BY <1>1, <3>3 DEF RowOK, FileRow, Stored
    <3>5. [R[i].stored EXCEPT ![floor + 1] = R[i].stored[R[i].version]] \in Stored
        BY <3>4 DEF Stored
    <3>6. Advance(R[i], floor + 1) =
              [R[i] EXCEPT !.version = floor + 1,
                           !.stored = [R[i].stored EXCEPT ![floor + 1] = R[i].stored[R[i].version]]]
        BY <1>1 DEF Advance, FileRow
    <3>7. Advance(R[i], floor + 1) \in FileRow
        BY <1>1, <3>2, <3>5, <3>6 DEF FileRow
    <3> QED BY <3>1, <3>7
  <2>5. CASE ~(LiveAt(R, k) = {i} /\ floor >= R[i].version)
    <3>1. Lifted(R, i) = R[i]
        BY <2>5 DEF Lifted
    <3> QED BY <1>1, <3>1
  <2> QED BY <2>4, <2>5
<1>3. ASSUME NEW i \in Ids, R[i].path # None
      PROVE  [Lifted(R, i) EXCEPT !.collision = R[i].live /\ Crowded(R, Key[R[i].path])] \in FileRow
  <2>1. Lifted(R, i) \in FileRow /\ (R[i].live /\ Crowded(R, Key[R[i].path])) \in BOOLEAN
      BY <1>2, <1>3
  <2> QED BY <2>1 DEF FileRow
<1>4. \A i \in Ids : Migrated(R)[i] \in FileRow
    BY <1>1, <1>3 DEF Migrated
<1> QED BY <1>4 DEF Migrated

\* What a device remembers of an old file, the migration leaves right or makes outdated.
LEMMA OldSightIs ==
    ASSUME NEW R, RowsOK(R), NEW S, TableOK(S), NEW i \in Ids, R[i].path \in Paths, R[i].live,
           LiftedAt(R, S, Key[R[i].path])
    PROVE  /\ R[i].version <= FileOf(S, Key[R[i].path]).version
           /\ R[i].version = FileOf(S, Key[R[i].path]).version
                 => FileOf(S, Key[R[i].path]).content \in {R[i].stored[R[i].version], Paused}
<1> DEFINE k == Key[R[i].path]
           F == FileOf(S, k)
<1>1. k \in Keys /\ None \notin Paths /\ RowsOK(S)
    BY FileRowsAssumption DEF TableOK
<1>2. i \in RowsAt(R, k) /\ i \in LiveAt(R, k)
    BY <1>1 DEF RowsAt, LiveAt
<1> HIDE DEF k
<1>3. LiftOK(R, i, S[i]) /\ RowsAt(S, k) = RowsAt(R, k)
    BY <1>2 DEF LiftedAt, k
<1>4. LiveAt(S, k) = LiveAt(R, k) /\ (Quarantined(S, k) <=> Crowded(R, k)) /\ NameOK(S, k)
    BY <1>1, LiftedName DEF k
<1>5. S[i].version <= Floor(S, RowsAt(S, k)) /\ Floor(S, RowsAt(S, k)) \in 0 .. MaxVersion
  <2>1. RowsAt(S, k) \in SUBSET Ids /\ S \in [Ids -> FileRow]
      BY <1>1 DEF RowsAt, RowsOK
  <2> QED BY <1>2, <1>3, <2>1, FloorIs
<1>6. F.version = Floor(S, RowsAt(S, k)) /\ (F.content = Paused <=> Quarantined(S, k))
    BY <1>1, FileIs
<1> HIDE DEF F
<1>7. R[i].version \in Nat /\ S[i].version \in Nat /\ F.version \in Nat /\ R[i].version <= S[i].version
    BY <1>1, <1>3, <1>5, <1>6, FileRowsAssumption DEF RowsOK, FileRow, LiftOK
<1>8. R[i].version <= F.version
    BY <1>5, <1>6, <1>7
<1>9. ASSUME R[i].version = F.version PROVE F.content \in {R[i].stored[R[i].version], Paused}
  <2>1. S[i].version = R[i].version
      BY <1>5, <1>6, <1>7, <1>9
  <2>2. S[i].stored = R[i].stored
      BY <1>3, <2>1 DEF LiftOK
  <2>3. CASE Crowded(R, k)
      BY <1>4, <1>6, <2>3
  <2>4. CASE ~Crowded(R, k)
    <3>1. i \in LiveAt(S, k) /\ ~Crowded(S, k)
        BY <1>2, <1>4, <2>4 DEF NameOK
    <3>2. F.content = S[i].stored[S[i].version]
        BY <1>1, <3>1, OneFile DEF F
    <3> QED BY <2>1, <2>2, <3>2
  <2> QED BY <2>3, <2>4
<1> QED BY <1>8, <1>9 DEF F, k

LEMMA InitHolds ==
    ASSUME Init
    PROVE  IInv /\ Versioned!Init
<1> PICK old \in [OldPaths -> OldFiles \cup {None}] :
        LET files == {p \in OldPaths : old[p] # None}
            table == [i \in Ids |->
                        IF \E p \in files : OldId[p] = i
                        THEN LET p == CHOOSE p \in files : OldId[p] = i IN OldRow(p, old[p])
                        ELSE NoRow]
        IN /\ rows = Migrated(table)
           /\ seen \in {None} \cup
                 {[key |-> Key[p], version |-> old[p].version, content |-> old[p].content] :
                     p \in {q \in files : Key[q] \in Fetched /\ old[q].content # None}}
    BY DEF Init
<1> DEFINE files == {p \in OldPaths : old[p] # None}
           one(i) == CHOOSE p \in files : OldId[p] = i
           table == [i \in Ids |-> IF \E p \in files : OldId[p] = i THEN OldRow(one(i), old[one(i)])
                                   ELSE NoRow]
           file == [k \in Keys |-> FileOf(rows, k)]
<1>1. /\ rows = Migrated(table)
      /\ seen = None \/ \E p \in files :
             /\ Key[p] \in Fetched /\ old[p].content # None
             /\ seen = [key |-> Key[p], version |-> old[p].version, content |-> old[p].content]
    OBVIOUS
<1>2. /\ OldId \in [OldPaths -> Ids] /\ \A p, q \in OldPaths : OldId[p] = OldId[q] => p = q
      /\ files \in SUBSET Paths /\ \A p \in files : p \in OldPaths /\ old[p] \in OldFiles
    BY FileRowsAssumption DEF Injection, IsInjective
<1>3. ASSUME NEW i \in Ids, \E p \in files : OldId[p] = i
      PROVE  one(i) \in files /\ OldId[one(i)] = i /\ table[i] = OldRow(one(i), old[one(i)])
    BY <1>3
<1>4. ASSUME NEW i \in Ids, ~\E p \in files : OldId[p] = i
      PROVE  table[i] = NoRow
    BY <1>4
<1>5. table = [i \in Ids |-> table[i]]
    OBVIOUS
<1> HIDE DEF files, one, table
<1>6. ASSUME NEW i \in Ids
      PROVE  table[i] \in FileRow /\ RowOK(table[i]) /\ table[i].version <= MaxVersion - 1
  <2>1. CASE \E p \in files : OldId[p] = i
    <3>1. one(i) \in Paths /\ old[one(i)] \in OldFiles /\ table[i] = OldRow(one(i), old[one(i)])
        BY <1>2, <1>3, <2>1
    <3> QED BY <3>1, OldRowIs
  <2>2. CASE ~\E p \in files : OldId[p] = i
    <3>1. 0 <= MaxVersion - 1
        BY FileRowsAssumption
    <3> QED BY <1>4, <2>2, <3>1, NoRowIs
  <2> QED BY <2>1, <2>2
<1>7. table \in [Ids -> FileRow]
    BY <1>5, <1>6
<1>8. RowsOK(table) /\ Young(table)
    BY <1>6, <1>7 DEF RowsOK, Young
<1>9. RowsOK(rows) /\ \A k \in Keys : LiftedAt(table, rows, k)
    BY <1>1, <1>8, YoungIs, MigratedIs
<1>10. TableOK(rows)
  <2>1. \A k \in Keys : NameOK(rows, k)
      BY <1>8, <1>9, LiftedName
  <2> QED BY <1>9, <2>1 DEF TableOK
<1>11. \A k \in Keys : FileOf(rows, k) \in Versioned!Files
    BY <1>9, FileIs
<1>12. seen \in Sights \cup {None} /\ seen \in Versioned!Sights \cup {None} /\ Versioned!Remembered(file, seen)
  <2>1. CASE seen = None
    <3>1. seen \notin Versioned!Sights
        BY <2>1, FileRowsAssumption DEF Versioned!Sights
    <3> QED BY <2>1, <3>1 DEF Versioned!Remembered
  <2>2. CASE \E p \in files :
             /\ Key[p] \in Fetched /\ old[p].content # None
             /\ seen = [key |-> Key[p], version |-> old[p].version, content |-> old[p].content]
    <3> PICK p \in files :
             /\ Key[p] \in Fetched /\ old[p].content # None
             /\ seen = [key |-> Key[p], version |-> old[p].version, content |-> old[p].content]
        BY <2>2
    <3> DEFINE i == OldId[p]
    <3>1. /\ p \in OldPaths /\ p \in Paths /\ Key[p] \in Keys /\ i \in Ids
          /\ old[p] \in OldFiles /\ \E q \in files : OldId[q] = i
        BY <1>2, FileRowsAssumption
    <3>2. one(i) = p
        BY <1>2, <1>3, <3>1
    <3>3. table[i] = OldRow(p, old[p])
        BY <1>3, <3>1, <3>2
    <3> HIDE DEF i
    <3>4. /\ table[i].path = p /\ table[i].version = old[p].version /\ table[i].live
          /\ table[i].stored[table[i].version] = old[p].content
        BY <3>1, <3>3, OldRowIs
    <3>5. LiftedAt(table, rows, Key[table[i].path])
        BY <1>9, <3>1, <3>4
    <3>6. /\ old[p].version <= FileOf(rows, Key[p]).version
          /\ old[p].version = FileOf(rows, Key[p]).version
                => FileOf(rows, Key[p]).content \in {old[p].content, Paused}
        BY <1>8, <1>10, <3>1, <3>4, <3>5, OldSightIs
    <3>7. /\ old[p].version \in 0 .. MaxVersion /\ old[p].version \in Nat
          /\ old[p].content \in Contents
      <4>1. old[p].version \in 1 .. (MaxVersion - 1) /\ old[p].content \in Contents \cup {None}
          BY <3>1, FileRowsAssumption DEF OldFiles
      <4> QED BY <4>1, FileRowsAssumption
    <3>8. seen.key = Key[p] /\ seen.version = old[p].version /\ seen.content = old[p].content
        OBVIOUS
    <3> HIDE DEF FileOf
    <3>9. seen \in Sights /\ seen \in Versioned!Sights
        BY <3>1, <3>7 DEF Sights, Versioned!Sights
    <3>10. file[seen.key] = FileOf(rows, Key[p])
        BY <3>1, <3>8
    <3>11. Versioned!Remembered(file, seen)
      <4> HIDE DEF file
      <4> QED BY <3>6, <3>8, <3>10 DEF Versioned!Remembered
    <3> QED BY <3>9, <3>11
  <2> QED BY <1>1, <2>1, <2>2
<1>13. enabled = FALSE /\ held = None
    BY DEF Init
<1>14. IInv
    BY <1>9, <1>10, <1>12, <1>13 DEF IInv, TypeOK, RowsOK
<1>15. file \in [Keys -> Versioned!Files]
    BY <1>11
<1>16. Versioned!Init
    BY <1>12, <1>15 DEF Versioned!Init
<1> QED BY <1>14, <1>16

\* IInv says what the runs check of names and stored contents.
LEMMA NamesAndStored ==
    ASSUME IInv
    PROVE  NamesAreExact /\ StoredIsExact
<1>1. \A k \in Keys : NameOK(rows, k)
    BY DEF IInv, TableOK
<1>2. \A i \in Ids : RowOK(rows[i])
    BY DEF IInv, TableOK, RowsOK
<1>3. NamesAreExact
    BY <1>1 DEF NameOK, NamesAreExact, LiveIsNewest, QuarantineIsExact
<1>4. StoredIsExact
    BY <1>2 DEF RowOK, StoredIsExact, CurrentIsStored, CurrentIsThere
<1> QED BY <1>3, <1>4

-----------------------------------------------------------------------------
\* The invariant holds of every table the relay may come to.
THEOREM Invariance == Spec => []IInv
<1>1. Init => IInv
    BY InitHolds
<1>2. IInv /\ [Next]_vars => IInv'
    BY NextRefines
<1> QED BY <1>1, <1>2, PTL DEF Spec

\* A name is refused exactly while files overlap under it, and a file alone in its name
\* is above every mark there: getFile, the quarantine flags of the repair and of the
\* migration, and the version counters of writes and renames agree.
THEOREM NamesStayExact == Spec => []NamesAreExact
<1>1. IInv => NamesAreExact
    BY NamesAndStored
<1> QED BY <1>1, Invariance, PTL

\* The rows keep the promise of VersionedFiles: through deletes, revivals, renames onto
\* old marks, repairs and both lanes a name never shows another content at a version it
\* had, and is never refused again.
THEOREM Implements == Spec => ImplementsVersionedFiles
<1> DEFINE file == [k \in Keys |-> FileOf(rows, k)]
<1>1. Init => IInv /\ Versioned!Init
    BY InitHolds
<1>2. IInv /\ [Next]_vars => IInv' /\ [Versioned!Next]_<<file, seen>>
    BY NextRefines
<1> HIDE DEF file
<1>3. Spec => Versioned!Init /\ [][Versioned!Next]_<<file, seen>>
    BY <1>1, <1>2, PTL DEF Spec
<1>4. ImplementsVersionedFiles <=> (Versioned!Init /\ [][Versioned!Next]_<<file, seen>>)
    BY DEF ImplementsVersionedFiles, Versioned!Spec, Versioned!vars, file
<1> QED BY <1>3, <1>4

\* An operation leaves what a device remembers right, or makes it outdated.
LEMMA ChangeKeepsMemory ==
    ASSUME NEW f \in [Keys -> Versioned!Files], NEW g \in [Keys -> Versioned!Files],
           NEW s, \A k \in Keys : Versioned!Advances(f[k], g[k]), Versioned!Remembered(f, s)
    PROVE  Versioned!Remembered(g, s)
<1> SUFFICES ASSUME s \in Versioned!Sights
             PROVE  /\ s.version <= g[s.key].version
                    /\ s.version = g[s.key].version => g[s.key].content \in {s.content, Paused}
    BY DEF Versioned!Remembered
<1> DEFINE k == s.key
<1>1. k \in Keys /\ s.version \in Nat
    BY DEF Versioned!Sights
<1>2. f[k].version \in Nat /\ g[k].version \in Nat
    BY <1>1 DEF Versioned!Files
<1>3. /\ s.version <= f[k].version
      /\ s.version = f[k].version => f[k].content \in {s.content, Paused}
    BY DEF Versioned!Remembered
<1>4. /\ f[k].version <= g[k].version
      /\ f[k].content # g[k].content => f[k].version < g[k].version
    BY <1>1 DEF Versioned!Advances
<1> QED BY <1>1, <1>2, <1>3, <1>4

\* A fetch replaces it by what is there.
LEMMA FetchedIsRemembered ==
    ASSUME NEW f \in [Keys -> Versioned!Files], NEW k \in Keys
    PROVE  Versioned!Remembered(f, [key |-> k, version |-> f[k].version, content |-> f[k].content])
<1>1. f[k].version \in Nat
    BY DEF Versioned!Files
<1> QED BY <1>1 DEF Versioned!Remembered

\* What VersionedFiles promises: a version a device remembers, if it is the current
\* one, names the content it got.  What a device remembers can only fall behind.
THEOREM SeenStaysExact == Versioned!Spec => []Versioned!SeenIsExact
<1> DEFINE file == [k \in Keys |-> FileOf(rows, k)]
           Memory == file \in [Keys -> Versioned!Files] /\ Versioned!Remembered(file, seen)
<1>1. Versioned!Init => Memory
    BY DEF Versioned!Init
<1>2. Memory /\ [Versioned!Next]_<<file, seen>> => Memory'
    <2> HIDE DEF file
    <2> SUFFICES ASSUME Memory, [Versioned!Next]_<<file, seen>>
                 PROVE  Memory'
        OBVIOUS
    <2>1. CASE Versioned!Change
        <3>1. /\ file' \in [Keys -> Versioned!Files]
              /\ \A k \in Keys : Versioned!Advances(file[k], file'[k])
              /\ seen' = seen
            BY <2>1 DEF Versioned!Change, file
        <3> QED BY <3>1, ChangeKeepsMemory
    <2>2. ASSUME NEW k \in Keys, Versioned!Fetch(k)
          PROVE  Memory'
        <3>1. /\ seen' = [key |-> k, version |-> file[k].version, content |-> file[k].content]
              /\ file' = file
            BY <2>2 DEF Versioned!Fetch, file
        <3> QED BY <3>1, FetchedIsRemembered
    <2>3. CASE UNCHANGED <<file, seen>>
        BY <2>3
    <2> QED BY <2>1, <2>2, <2>3 DEF Versioned!Next
<1>3. Memory => Versioned!SeenIsExact
    BY DEF Versioned!Remembered, Versioned!SeenIsExact
<1>4. Versioned!vars = <<file, seen>>
    BY DEF Versioned!vars
<1> HIDE DEF file, Memory
<1>5. Versioned!Spec <=> (Versioned!Init /\ [][Versioned!Next]_<<file, seen>>)
    BY <1>4 DEF Versioned!Spec, Versioned!vars, file
<1> QED BY <1>1, <1>2, <1>3, <1>5, PTL

\* So it holds of the rows, and the version check of writeFile admits no write over
\* what its author has not seen.  The content of every live file's version is stored,
\* where readFileContent looks for it.
THEOREM SeenAndStoredStayExact == Spec => []SeenAndStoredAreExact
<1>1. IInv => TypeOK /\ StoredIsExact
    BY NamesAndStored DEF IInv
<1>2. Spec => []Versioned!SeenIsExact
    BY Implements, SeenStaysExact, PTL DEF ImplementsVersionedFiles
<1>3. Versioned!SeenIsExact => SeenIsExact
    BY DEF SeenIsExact
<1> QED BY <1>1, <1>2, <1>3, Invariance, PTL DEF SeenAndStoredAreExact
-----------------------------------------------------------------------------
(* Devices that come back with a cached document.                          *)

\* Row i is the only one of its name that may be live, and above the others.
Topped(R, k, i) ==
    i \in RowsAt(R, k) /\ \A j \in RowsAt(R, k) \ {i} : ~R[j].live /\ R[j].version < R[i].version

\* The file a device has a document of tops its name; it is that document's epoch's
\* for as long as it is live, and a later epoch's after.
HeldOK(R, h) ==
    h \in Cached =>
       \E i \in RowsAt(R, h.key) :
          /\ Topped(R, h.key, i) /\ h.epoch <= R[i].epoch
          /\ R[i].epoch = h.epoch => R[i].live /\ h.id = i

\* What tops a name stays on top; its epoch never goes back, and moves on with its death.
Steady(R, S) ==
    \A k \in Keys, i \in Ids :
       Topped(R, k, i) => /\ Topped(S, k, i) /\ R[i].epoch <= S[i].epoch
                          /\ S[i].epoch = R[i].epoch /\ R[i].live => S[i].live

\* One row is written or deleted, under the name of the file or a name without rows.
LEMMA OneRowSteady ==
    ASSUME TableOK(rows), NEW k \in Keys, NEW i \in Ids, NEW w,
           w.path # None, Key[w.path] = k, rows[i].path # None => Key[rows[i].path] = k,
           \A j \in RowsAt(rows, k) : rows[j].version < w.version,
           \A t \in Ids : Topped(rows, k, t) => t = i,
           rows[i].epoch <= w.epoch, w.epoch = rows[i].epoch => w.live
    PROVE  Steady(rows, [rows EXCEPT ![i] = w])
<1> DEFINE S == [rows EXCEPT ![i] = w]
<1>1. rows \in [Ids -> FileRow] /\ \A t \in Ids : rows[t].epoch \in Nat
    BY FileRowsAssumption DEF TableOK, RowsOK, FileRow
<1>2. S[i] = w /\ \A t \in Ids \ {i} : S[t] = rows[t]
    BY <1>1
<1> HIDE DEF S
<1>3. SUFFICES ASSUME NEW h \in Keys, NEW t \in Ids, Topped(rows, h, t)
               PROVE  /\ Topped(S, h, t) /\ rows[t].epoch <= S[t].epoch
                      /\ S[t].epoch = rows[t].epoch /\ rows[t].live => S[t].live
    BY DEF Steady, S
<1>4. CASE h = k
  <2>1. t = i
      BY <1>3, <1>4
  <2>2. t \in RowsAt(S, h) /\ \A j \in RowsAt(S, h) \ {t} : j \in RowsAt(rows, h) /\ S[j] = rows[j]
      BY <1>2, <1>4, <2>1 DEF RowsAt
  <2>3. \A j \in RowsAt(S, h) \ {t} : ~S[j].live /\ S[j].version < S[t].version
      BY <1>2, <1>3, <1>4, <2>1, <2>2 DEF Topped
  <2> QED BY <1>2, <2>1, <2>2, <2>3 DEF Topped
<1>5. CASE h # k
  <2>1. t # i
      BY <1>3, <1>5 DEF Topped, RowsAt
  <2>2. t \in RowsAt(S, h) /\ \A j \in RowsAt(S, h) : j \in RowsAt(rows, h) /\ S[j] = rows[j]
      BY <1>2, <1>3, <1>5, <2>1 DEF Topped, RowsAt
  <2>3. Topped(S, h, t)
      BY <1>2, <1>3, <2>1, <2>2 DEF Topped
  <2> QED BY <1>1, <1>2, <2>1, <2>3
<1> QED BY <1>4, <1>5

\* The file getFile returns for a name is the one on top of it.
LEMMA TopIsFile ==
    ASSUME TableOK(rows), NEW k \in Keys, NEW i \in Ids, IsFile(rows, k, i)
    PROVE  \A t \in Ids : Topped(rows, k, t) => t = i
<1> SUFFICES ASSUME NEW t \in Ids, Topped(rows, k, t), t # i
             PROVE  FALSE
    OBVIOUS
<1>1. i \in RowsAt(rows, k) /\ LiveAt(rows, k) \subseteq {i}
    BY FileFound
<1>2. ~rows[i].live /\ rows[i].version < rows[t].version
    BY <1>1 DEF Topped
<1>3. LiveAt(rows, k) = {}
    BY <1>1, <1>2 DEF LiveAt
<1>4. rows[t].version <= rows[i].version
    BY <1>3 DEF IsFile, Topped
<1>5. rows[i].version \in Nat /\ rows[t].version \in Nat
    BY FileRowsAssumption DEF TableOK, RowsOK, FileRow
<1> QED BY <1>2, <1>4, <1>5

\* A content is written: a live file of the same epoch results.
LEMMA WriteSteady ==
    ASSUME TableOK(rows), NEW p \in Paths, NEW c, NEW i \in Ids,
           IsFile(rows, Key[p], i) \/ IsFresh(rows, Key[p], i)
    PROVE  Steady(rows, [rows EXCEPT ![i] = Written(rows[i], NextVersion(rows, Key[p]), c, p)])
<1> DEFINE k == Key[p]
           w == Written(rows[i], NextVersion(rows, k), c, p)
<1>1. k \in Keys /\ p # None /\ rows \in [Ids -> FileRow] /\ rows[i] \in FileRow
    BY FileRowsAssumption DEF TableOK, RowsOK
<1>2. \A j \in RowsAt(rows, k) : rows[j].version < NextVersion(rows, k)
    BY <1>1, NextVersionIs
<1>3. w.path = p /\ w.version = NextVersion(rows, k) /\ w.live /\ w.epoch = rows[i].epoch
    BY <1>1 DEF Written, Write, FileRow
<1>4. rows[i].path # None => Key[rows[i].path] = k
    BY <1>1, FileFound DEF IsFresh, IsUnused
<1>5. \A t \in Ids : Topped(rows, k, t) => t = i
    BY <1>1, TopIsFile DEF IsFresh, Topped
<1>6. rows[i].epoch <= w.epoch
    BY <1>1, <1>3, FileRowsAssumption DEF FileRow
<1> HIDE DEF k, w
<1>7. Steady(rows, [rows EXCEPT ![i] = w])
    BY <1>1, <1>2, <1>3, <1>4, <1>5, <1>6, OneRowSteady DEF k
<1> QED BY <1>7 DEF w, k

LEMMA RewriteSteady ==
    ASSUME TableOK(rows), NEW k \in Keys, NEW c, NEW i \in Ids, IsFile(rows, k, i)
    PROVE  Steady(rows, [rows EXCEPT ![i] = Write(rows[i], NextVersion(rows, k), c)])
<1> DEFINE p == rows[i].path
<1>1. p \in Paths /\ Key[p] = k
    BY FileFound
<1>2. rows[i] \in FileRow
    BY DEF TableOK, RowsOK
<1>3. Written(rows[i], NextVersion(rows, k), c, p) = Write(rows[i], NextVersion(rows, k), c)
    BY <1>2 DEF Written, Write, FileRow
<1> HIDE DEF p
<1> QED BY <1>1, <1>3, WriteSteady

\* A file is deleted: its mark begins another epoch.
LEMMA RemoveSteady ==
    ASSUME TableOK(rows), NEW k \in Keys, NEW i \in Ids, IsFile(rows, k, i)
    PROVE  Steady(rows, [rows EXCEPT ![i] = Deleted(rows[i], NextVersion(rows, k))])
<1> DEFINE w == Deleted(rows[i], NextVersion(rows, k))
<1>1. rows \in [Ids -> FileRow] /\ rows[i] \in FileRow /\ rows[i].epoch \in Nat
    BY FileRowsAssumption DEF TableOK, RowsOK, FileRow
<1>2. \A j \in RowsAt(rows, k) : rows[j].version < NextVersion(rows, k)
    BY <1>1, NextVersionIs
<1>3. w.path = rows[i].path /\ w.version = NextVersion(rows, k) /\ w.epoch = rows[i].epoch + 1
    BY <1>1 DEF Deleted, Drop, FileRow
<1>4. rows[i].path # None /\ Key[rows[i].path] = k
    BY FileFound, FileRowsAssumption
<1>5. \A t \in Ids : Topped(rows, k, t) => t = i
    BY TopIsFile
<1> HIDE DEF w
<1>6. rows[i].epoch <= w.epoch /\ w.epoch # rows[i].epoch
    BY <1>1, <1>3
<1>7. Steady(rows, [rows EXCEPT ![i] = w])
    BY <1>2, <1>3, <1>4, <1>5, <1>6, OneRowSteady
<1> QED BY <1>7 DEF w

\* Every note begins another epoch.
LEMMA EnableSteady ==
    ASSUME TableOK(rows), NEW S,
           S = [i \in Ids |-> IF rows[i].live THEN [rows[i] EXCEPT !.epoch = rows[i].epoch + 1]
                              ELSE rows[i]]
    PROVE  Steady(rows, S)
<1>1. \A i \in Ids : rows[i] \in FileRow /\ rows[i].epoch \in Nat
    BY FileRowsAssumption DEF TableOK, RowsOK, FileRow
<1>2. \A i \in Ids :
          /\ S[i].path = rows[i].path /\ S[i].version = rows[i].version /\ S[i].live = rows[i].live
          /\ S[i].epoch = rows[i].epoch \/ S[i].epoch = rows[i].epoch + 1
    BY <1>1 DEF FileRow
<1>3. \A k \in Keys : RowsAt(S, k) = RowsAt(rows, k)
    BY <1>2 DEF RowsAt
<1>4. \A k \in Keys, i \in Ids : Topped(rows, k, i) => Topped(S, k, i)
    BY <1>2, <1>3 DEF Topped, RowsAt
<1> QED BY <1>1, <1>2, <1>4 DEF Steady

\* What a device has cached stays right over such a step.
LEMMA SteadyKeepsHeld ==
    ASSUME TableOK(rows), NEW S \in [Ids -> FileRow], Install(S), Steady(rows, S), HeldOK(rows, held)
    PROVE  HeldOK(rows', held')
<1>1. rows' = S /\ held' = IF held \in Cached /\ held.id # None
                              /\ (~S[held.id].live \/ S[held.id].epoch # held.epoch)
                           THEN [held EXCEPT !.id = None] ELSE held
    BY DEF Install
<1>2. CASE held \notin Cached
    BY <1>1, <1>2 DEF HeldOK
<1>3. CASE held \in Cached
  <2>1. held.key \in Keys /\ held.epoch \in Nat
      BY <1>3, FileRowsAssumption DEF Cached
  <2>2. held'.key = held.key /\ held'.epoch = held.epoch
      BY <1>1, <1>3 DEF Cached
  <2>3. PICK i \in RowsAt(rows, held.key) :
            /\ Topped(rows, held.key, i) /\ held.epoch <= rows[i].epoch
            /\ rows[i].epoch = held.epoch => rows[i].live /\ held.id = i
      BY <1>3 DEF HeldOK
  <2>4. i \in Ids
      BY DEF RowsAt
  <2>5. /\ Topped(S, held.key, i) /\ rows[i].epoch <= S[i].epoch
        /\ S[i].epoch = rows[i].epoch /\ rows[i].live => S[i].live
      BY <2>1, <2>3, <2>4 DEF Steady
  <2>6. rows[i].epoch \in Nat /\ S[i].epoch \in Nat
      BY <2>4, FileRowsAssumption DEF TableOK, RowsOK, FileRow
  <2>7. held.epoch <= S[i].epoch
      BY <2>1, <2>3, <2>5, <2>6
  <2>8. ASSUME S[i].epoch = held.epoch
        PROVE  S[i].live /\ held'.id = i
    <3>1. rows[i].epoch = held.epoch
        BY <2>1, <2>3, <2>5, <2>6, <2>8
    <3>2. S[i].live /\ held.id = i
        BY <2>3, <2>5, <2>8, <3>1
    <3>3. held' = held
        BY <1>1, <2>8, <3>2
    <3> QED BY <3>2, <3>3
  <2>9. i \in RowsAt(S, held.key)
      BY <2>5 DEF Topped
  <2> QED BY <1>1, <2>2, <2>5, <2>7, <2>8, <2>9 DEF HeldOK
<1> QED BY <1>2, <1>3

\* A device caches the document of a file it sees.
LEMMA HoldIsRight ==
    ASSUME IInv, NEW k \in Keys, Hold(k)
    PROVE  HeldOK(rows', held')
<1>1. PICK i \in LiveAt(rows, k) :
          IsFile(rows, k, i) /\ held' = [key |-> k, epoch |-> rows[i].epoch, id |-> i]
    BY DEF Hold
<1>2. i \in Ids /\ i \in RowsAt(rows, k) /\ rows[i].live /\ rows' = rows
    BY DEF Hold, LiveAt, RowsAt
<1>3. TableOK(rows) /\ rows[i].epoch \in Nat
    BY <1>2, FileRowsAssumption DEF IInv, TypeOK, FileRow
<1>4. NameOK(rows, k) /\ ~Quarantined(rows, k)
    BY <1>1, <1>3 DEF IsFile, TableOK
<1>5. ~Crowded(rows, k)
    BY <1>4 DEF NameOK
<1>6. \A j \in RowsAt(rows, k) \ {i} : rows[j].version < rows[i].version
    BY <1>1, <1>4, <1>5 DEF NameOK
<1>7. \A j \in RowsAt(rows, k) \ {i} : ~rows[j].live
    BY <1>1, <1>5 DEF Crowded, LiveAt
<1>8. Topped(rows, k, i)
    BY <1>2, <1>6, <1>7 DEF Topped
<1> QED BY <1>1, <1>2, <1>3, <1>8 DEF HeldOK

\* Every step but a rename keeps it right.
LEMMA HeldStep ==
    ASSUME RenameTargets = {}, IInv, HeldOK(rows, held), [Next]_vars
    PROVE  HeldOK(rows', held')
<1>1. TableOK(rows)
    BY DEF IInv
<1>2. ASSUME NEW S, Install(S), Steady(rows, S)
      PROVE  HeldOK(rows', held')
    BY <1>1, <1>2, SteadyKeepsHeld DEF Install, Bounded
<1>3. ASSUME NEW p \in Paths, NEW c, NEW i \in Ids,
             IsFile(rows, Key[p], i) \/ IsFresh(rows, Key[p], i),
             Becomes([rows EXCEPT ![i] = [Write(rows[i], NextVersion(rows, Key[p]), c)
                                            EXCEPT !.path = p]])
      PROVE  HeldOK(rows', held')
  <2>1. Install([rows EXCEPT ![i] = Written(rows[i], NextVersion(rows, Key[p]), c, p)])
      BY <1>3 DEF Becomes, Written
  <2> QED BY <1>1, <1>2, <1>3, <2>1, WriteSteady
<1>4. ASSUME NEW k \in Keys, NEW c, NEW i \in Ids, IsFile(rows, k, i),
             Becomes([rows EXCEPT ![i] = Write(rows[i], NextVersion(rows, k), c)])
      PROVE  HeldOK(rows', held')
    BY <1>1, <1>2, <1>4, RewriteSteady DEF Becomes
<1>5. ASSUME NEW k \in Keys, NEW i \in Ids, Remove(k, i)
      PROVE  HeldOK(rows', held')
  <2>1. IsFile(rows, k, i) /\ Install([rows EXCEPT ![i] = Deleted(rows[i], NextVersion(rows, k))])
      BY <1>5 DEF Remove, Becomes, Deleted
  <2> QED BY <1>1, <1>2, <2>1, RemoveSteady
<1>6. CASE WholeFile
    BY <1>3, <1>4, <1>5, <1>6 DEF WholeFile, CreateFile, UpdateFile, Overwrite, DeleteFile
<1>7. CASE LiveEditing
  <2>1. ASSUME NEW i \in Ids, NEW e, NEW c, Materialize(i, e, c)
        PROVE  HeldOK(rows', held')
    <3>1. rows[i].live /\ ~rows[i].collision
        BY <2>1 DEF Materialize
    <3>2. IsFile(rows, Key[rows[i].path], i) /\ Key[rows[i].path] \in Keys
        BY <1>1, <3>1, UnflaggedIsFile, FileRowsAssumption
    <3> QED BY <1>4, <2>1, <3>2 DEF Materialize
  <2>2. ASSUME NEW p \in Paths, CreateCrdt(p)
        PROVE  HeldOK(rows', held')
    <3>1. PICK q \in Paths, i \in Ids :
              /\ IsFile(rows, Key[q], i) \/ IsFresh(rows, Key[q], i)
              /\ Becomes([rows EXCEPT ![i] = [Write(rows[i], NextVersion(rows, Key[q]), Empty)
                                                EXCEPT !.path = q]])
        BY <2>2 DEF CreateCrdt
    <3> QED BY <1>3, <3>1
  <2> QED BY <1>5, <1>7, <2>1, <2>2 DEF LiveEditing, DeleteNote
<1>8. CASE Enable
  <2> DEFINE S == [i \in Ids |-> IF rows[i].live THEN [rows[i] EXCEPT !.epoch = rows[i].epoch + 1]
                                 ELSE rows[i]]
  <2>1. Install(S)
      BY <1>8 DEF Enable
  <2>2. Steady(rows, S)
      BY <1>1, EnableSteady
  <2> QED BY <1>2, <2>1, <2>2
<1>9. CASE Disable \/ (\E k \in Fetched : Fetch(k)) \/ UNCHANGED vars
  <2>1. UNCHANGED <<rows, held>>
      BY <1>9 DEF Disable, Fetch, vars
  <2> QED BY <2>1
<1>10. CASE \E k \in Opened : Hold(k)
    BY <1>10, HoldIsRight, FileRowsAssumption
<1> QED BY <1>6, <1>7, <1>8, <1>9, <1>10 DEF Next, OwnerActs, Device

LEMMA HeldIsolated ==
    ASSUME IInv, HeldOK(rows, held)
    PROVE  StaleStateIsolated
<1> SUFFICES ASSUME held \in Cached, NEW t \in LiveAt(rows, held.key), rows[t].epoch = held.epoch
             PROVE  t = held.id
    BY DEF StaleStateIsolated
<1>1. PICK i \in RowsAt(rows, held.key) :
          /\ Topped(rows, held.key, i)
          /\ rows[i].epoch = held.epoch => rows[i].live /\ held.id = i
    BY DEF HeldOK
<1>2. t = i
    BY <1>1 DEF Topped, LiveAt
<1> QED BY <1>1, <1>2

LEMMA NothingHeld == Init => HeldOK(rows, held)
BY FileRowsAssumption DEF Init, HeldOK, Cached

\* While nobody renames, a device that comes back with a cached document is admitted only
\* to the note the document is of: name and epoch, what SYNC_STEP1 compares, tell every
\* two notes apart.  With renames they do not: see the run `rows_stale`.
THEOREM CachedStaysIsolated ==
    ASSUME RenameTargets = {} PROVE Spec => []StaleStateIsolated
<1> DEFINE Good == IInv /\ HeldOK(rows, held)
<1>1. Init => Good
    BY InitHolds, NothingHeld
<1>2. Good /\ [Next]_vars => Good'
    BY NextRefines, HeldStep
<1>3. Good => StaleStateIsolated
    BY HeldIsolated
<1> QED BY <1>1, <1>2, <1>3, PTL DEF Spec
===============================================================================
