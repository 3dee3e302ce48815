------------------------------- MODULE FileRows -------------------------------
(***************************************************************************)
(* The files table of the relay (RelayFileRepository): rows with a portable*)
(* name, a version counter, a CRDT epoch, the quarantine flag of names that*)
(* overlap, and the content versions stored for each.  One action per      *)
(* operation, each a database transaction.                                 *)
(*                                                                         *)
(* One room, whose files are all notes: files that are not eligible for    *)
(* live editing behave like notes of a room that has it turned off.        *)
(***************************************************************************)
EXTENDS Naturals, FiniteSetsExt

CONSTANTS
    Ids,            \* file ids
    Paths,          \* relative paths
    OldPaths,       \* bound: those that had files before portable names
    OldId,          \* the ids of these files
    Keys, Key,      \* portable keys, and the key of each path
    Contents,       \* what a file may hold
    Empty,          \* the content of a new note
    None,           \* an unused row, no stored version, no content
    Paused,         \* what a quarantined name shows
    OldVersions,    \* bound: versions of files from before portable names
    RenameTargets,  \* bound: paths that renames go to
    Fetched,        \* bound: names the whole-file device looks at
    Opened,         \* bound: names the device with the cache opens
    MaxVersion,     \* bound: versions
    MaxEpoch        \* bound: epochs

ASSUME FileRowsAssumption ==
    /\ Key \in [Paths -> Keys]
    /\ RenameTargets \subseteq Paths /\ Fetched \subseteq Keys /\ Opened \subseteq Keys
    /\ Empty \in Contents
    /\ None \notin Contents \cup Paths \cup Ids
    /\ None \notin [key : Keys, version : Nat, content : Contents]
    /\ None \notin [key : Keys, epoch : Nat, id : Ids \cup {None}]
    /\ Paused \notin Contents /\ Paused # None
    /\ OldPaths \subseteq Paths
    /\ OldId \in Injection(OldPaths, Ids)
    /\ MaxVersion \in Nat \ {0} /\ MaxEpoch \in Nat
    /\ OldVersions \subseteq 1 .. (MaxVersion - 1)

VARIABLES
    rows,     \* the files table with its file_versions
    enabled,  \* the room's crdt_enabled
    seen,     \* the version of a file some whole-file device last fetched
    held      \* the live document some device has cached, and left

vars == <<rows, enabled, seen, held>>

Versions == 1 .. MaxVersion
Stored == [Versions -> Contents \cup {None}]
NoVersions == [v \in Versions |-> None]

FileRow == [path : Paths \cup {None}, version : 0 .. MaxVersion, live : BOOLEAN,
            epoch : 0 .. MaxEpoch, collision : BOOLEAN, stored : Stored]

NoRow == [path |-> None, version |-> 0, live |-> FALSE, epoch |-> 0, collision |-> FALSE,
          stored |-> NoVersions]

Sights == [key : Keys, version : 0 .. MaxVersion, content : Contents]
Cached == [key : Keys, epoch : 0 .. MaxEpoch, id : Ids \cup {None}]

TypeOK ==
    /\ rows \in [Ids -> FileRow]
    /\ enabled \in BOOLEAN
    /\ seen \in Sights \cup {None}
    /\ held \in Cached \cup {None}

-----------------------------------------------------------------------------
(* Queries.                                                                *)

RowsAt(R, k) == {i \in Ids : R[i].path # None /\ Key[R[i].path] = k}
LiveAt(R, k) == {i \in RowsAt(R, k) : R[i].live}
Crowded(R, k) == \E i, j \in LiveAt(R, k) : i # j
Quarantined(R, k) == \E i \in RowsAt(R, k) : R[i].collision

\* The highest version among some rows.
Floor(R, S) == Max({0} \cup {R[i].version : i \in S})

\* The version after every other of its name.
NextVersion(R, k) == Floor(R, RowsAt(R, k)) + 1

\* Row i is the one getFile returns for a name; it refuses overlapping names.
IsFile(R, k, i) ==
    /\ ~Quarantined(R, k)
    /\ LET candidates == IF LiveAt(R, k) = {} THEN RowsAt(R, k) ELSE LiveAt(R, k)
       IN i \in candidates /\ \A j \in candidates : R[j].version <= R[i].version

\* createId: ids are opaque, so which unused one it is makes no difference.
IsUnused(R, i) == R[i].path = None /\ i = CHOOSE j \in Ids : R[j].path = None

\* There is no such row, and i becomes it.
IsFresh(R, k, i) == RowsAt(R, k) = {} /\ IsUnused(R, i)

-----------------------------------------------------------------------------
(* Updates of a row.                                                       *)

\* insertFileVersion: the new version is stored and older ones are pruned.
Write(r, v, c) ==
    [r EXCEPT !.version = v, !.live = TRUE,
              !.stored = [w \in Versions |->
                            IF w = v THEN c ELSE IF w < v THEN None ELSE r.stored[w]]]

\* Mutant: the version moves on alone.
AdvanceAlone(r, v) == [r EXCEPT !.version = v]

\* The current content under a higher version; the old version stays.
Advance(r, v) == [r EXCEPT !.version = v, !.stored[v] = r.stored[r.version]]

\* Mutant: the epoch survives.
DropKeepingEpoch(r) == [r EXCEPT !.stored = NoVersions]

\* bumpCrdtEpochStatements, deleteAllVersionsAndCollectBlobs.
Drop(r) == [r EXCEPT !.epoch = r.epoch + 1, !.stored = NoVersions]

\* The mark a rename leaves under the old name.
Tombstone(p, v) == [NoRow EXCEPT !.path = p, !.version = v]

\* Alone in its name, row i has to be above the marks in it.
Lifted(R, i) ==
    LET k == Key[R[i].path]
        floor == Floor(R, RowsAt(R, k) \ {i})
    IN IF LiveAt(R, k) = {i} /\ floor >= R[i].version THEN Advance(R[i], floor + 1) ELSE R[i]

\* Mutant: the flags stay as they were.
RepairedNot(R, names) ==
    [i \in Ids |-> IF R[i].path = None \/ Key[R[i].path] \notin names THEN R[i] ELSE Lifted(R, i)]

\* The owner's repair: the flags of these names are set anew, and a file left
\* alone moves above the marks.
Repaired(R, names) ==
    [i \in Ids |-> IF R[i].path = None \/ Key[R[i].path] \notin names THEN R[i]
                   ELSE [Lifted(R, i) EXCEPT !.collision = Crowded(R, Key[R[i].path])]]

\* migratePortablePaths: only live rows are flagged.
Migrated(R) ==
    [i \in Ids |-> IF R[i].path = None THEN R[i]
                   ELSE [Lifted(R, i) EXCEPT
                           !.collision = R[i].live /\ Crowded(R, Key[R[i].path])]]

-----------------------------------------------------------------------------
\* Versions and epochs are within the bounds.
Bounded(R) == R \in [Ids -> FileRow]

\* The rows become R.  A document whose row is deleted or starts a new epoch
\* is gone: a device that has it cached has a dead one.
Install(R) ==
    /\ Bounded(R)
    /\ rows' = R
    /\ held' = IF held \in Cached /\ held.id # None
                  /\ (~R[held.id].live \/ R[held.id].epoch # held.epoch)
               THEN [held EXCEPT !.id = None] ELSE held
    /\ UNCHANGED seen

\* A step that leaves every row alone is none.
Becomes(R) == R # rows /\ Install(R)

\* writeFile based on nothing: a deleted file comes back, or a new one begins.
CreateFile(p, c) ==
    LET k == Key[p]
        v == NextVersion(rows, k)
    IN /\ ~enabled
       /\ LiveAt(rows, k) = {}
       /\ \E i \in Ids :
             /\ IsFile(rows, k, i) \/ IsFresh(rows, k, i)
             /\ Becomes([rows EXCEPT ![i] = [Write(rows[i], v, c) EXCEPT !.path = p]])
       /\ UNCHANGED enabled

\* Mutant: the version of the file is not moved.
OverwriteInPlace(k, c, i) ==
    /\ ~enabled
    /\ rows[i].live /\ IsFile(rows, k, i)
    /\ Becomes([rows EXCEPT ![i] = Write(rows[i], rows[i].version, c)])
    /\ UNCHANGED enabled

\* File i, of this name, has a new content.
Overwrite(k, c, i) ==
    /\ ~enabled
    /\ rows[i].live /\ IsFile(rows, k, i)
    /\ Becomes([rows EXCEPT ![i] = Write(rows[i], NextVersion(rows, k), c)])
    /\ UNCHANGED enabled

\* writeFile based on the current version; or on any, by the owner when the
\* conflict policy is owner_wins.  The rows do not show which it was.
UpdateFile(k, c) == \E i \in Ids : Overwrite(k, c, i)

\* File i becomes a mark.  It may be one already.
Remove(k, i) ==
    /\ IsFile(rows, k, i)
    /\ Becomes([rows EXCEPT ![i] = [Drop(rows[i]) EXCEPT !.live = FALSE,
                                      !.version = NextVersion(rows, k)]])
    /\ UNCHANGED enabled

\* deleteFile, based on the current version...
DeleteFile(k) == ~enabled /\ \E i \in Ids : Remove(k, i)

\* ...or, where live editing moves the version on its own, on any.
DeleteNote(k) == enabled /\ \E i \in Ids : Remove(k, i)

\* A deleted file under the new name starts another epoch.
Cleared(R, k, i) ==
    [j \in Ids |-> IF j # i /\ IsFile(R, k, j) THEN Drop(R[j]) ELSE R[j]]

\* Mutant: the file takes its version along.
MovedAsIs(R, i, q) == [R EXCEPT ![i] = [R[i] EXCEPT !.path = q, !.collision = FALSE]]

\* The file goes on under its new name, above every version that name had.
Moved(R, i, q) ==
    LET floor == Floor(R, RowsAt(R, Key[q]) \ {i})
        v == IF R[i].version > floor THEN R[i].version ELSE floor + 1
    IN [R EXCEPT ![i] = [Advance(R[i], v) EXCEPT !.path = q, !.collision = FALSE]]

\* Mutant: nothing is left under the old name.
MarkedNot(R, p, v, j) == R

\* A new row marks the old name.
Marked(R, p, v, j) == [R EXCEPT ![j] = Tombstone(p, v)]

\* The new name is free, or the file's own in another spelling.
MayMove(i, q) ==
    /\ rows[i].live
    /\ ~Quarantined(rows, Key[q])
    /\ LiveAt(rows, Key[q]) \subseteq {i}

\* What the rows become, up to the repair of flags.
Renamed(i, q, j) ==
    LET old == Key[rows[i].path]
        mark == NextVersion(rows, old)
        moved == Moved(Cleared(rows, Key[q], i), i, q)
    IN IF Key[q] = old THEN moved ELSE Marked(moved, rows[i].path, mark, j)

\* renameFile: a CRDT client renames a note it sees.
Rename(i, q) ==
    /\ enabled
    /\ rows[i].path # None /\ IsFile(rows, Key[rows[i].path], i)
    /\ MayMove(i, q)
    /\ \E j \in Ids :
          /\ IsUnused(rows, j)
          /\ Becomes(Renamed(i, q, j))
    /\ UNCHANGED enabled

\* renameFileById: the owner renames any file, an overlapping one included,
\* and the flags of both names are set anew.
RepairName(i, q) ==
    /\ rows[i].path # None
    /\ MayMove(i, q)
    /\ \E j \in Ids :
          /\ IsUnused(rows, j)
          /\ LET R == Renamed(i, q, j)
             IN Bounded(R) /\ Becomes(Repaired(R, {Key[rows[i].path], Key[q]}))
    /\ UNCHANGED enabled

\* createCrdtFile.  A name that is taken gives way to another, unless the
\* device adopts the note under it, which changes nothing.
CreateCrdt(p) ==
    /\ enabled
    /\ ~Quarantined(rows, Key[p])
    /\ \E q \in IF LiveAt(rows, Key[p]) = {} THEN {p} ELSE Paths :
          LET k == Key[q]
              v == NextVersion(rows, k)
          IN /\ LiveAt(rows, k) = {}
             /\ \E i \in Ids :
                   /\ IsFile(rows, k, i) \/ IsFresh(rows, k, i)
                   /\ Becomes([rows EXCEPT ![i] = [Write(rows[i], v, Empty) EXCEPT !.path = q]])
    /\ UNCHANGED enabled

\* materializeCrdtContent, called with the id and epoch of some document.
Materialize(i, e, c) ==
    /\ enabled
    /\ rows[i].live /\ ~rows[i].collision /\ rows[i].epoch = e
    /\ Becomes([rows EXCEPT ![i] = Write(rows[i], NextVersion(rows, Key[rows[i].path]), c)])
    /\ UNCHANGED enabled

-----------------------------------------------------------------------------
\* Live editing is turned on: every note starts a new epoch, once no names
\* overlap.
Enable ==
    /\ ~enabled /\ enabled' = TRUE
    /\ \A k \in Keys : ~\E i \in LiveAt(rows, k) : rows[i].collision
    /\ Install([i \in Ids |-> IF rows[i].live THEN [rows[i] EXCEPT !.epoch = rows[i].epoch + 1]
                              ELSE rows[i]])

Disable ==
    /\ enabled /\ enabled' = FALSE
    /\ \A k \in Keys : ~\E i \in LiveAt(rows, k) : rows[i].collision
    /\ UNCHANGED <<rows, seen, held>>

\* What a device gets to see of file i.
Sight(k, i) ==
    [key |-> k, version |-> rows[i].version, content |-> rows[i].stored[rows[i].version]]

\* Mutant: deleted files are served, too.
FetchAny(k) ==
    /\ \E i \in Ids : IsFile(rows, k, i) /\ seen' = Sight(k, i)
    /\ UNCHANGED <<rows, enabled, held>>

\* A device fetches a file: readFileContent.
Fetch(k) ==
    /\ \E i \in LiveAt(rows, k) : IsFile(rows, k, i) /\ seen' = Sight(k, i)
    /\ UNCHANGED <<rows, enabled, held>>

\* A device opens a live document, caches it by name and epoch, and leaves.
Hold(k) ==
    /\ enabled
    /\ \E i \in LiveAt(rows, k) :
          /\ IsFile(rows, k, i)
          /\ held' = [key |-> k, epoch |-> rows[i].epoch, id |-> i]
    /\ UNCHANGED <<rows, enabled, seen>>

-----------------------------------------------------------------------------
\* A file from before portable names: each exact path had one row.
OldFiles == [version : OldVersions, content : Contents \cup {None}]

OldRow(p, f) ==
    [NoRow EXCEPT !.path = p, !.version = f.version, !.live = f.content # None,
                  !.stored[f.version] = f.content]

\* The relay starts on such a table, the migration done; a device may
\* remember a file from before it.
Init ==
    /\ \E old \in [OldPaths -> OldFiles \cup {None}] :
          LET files == {p \in OldPaths : old[p] # None}
              table == [i \in Ids |->
                          IF \E p \in files : OldId[p] = i
                          THEN LET p == CHOOSE p \in files : OldId[p] = i IN OldRow(p, old[p])
                          ELSE NoRow]
          IN /\ rows = Migrated(table)
             /\ seen \in {None} \cup
                   {[key |-> Key[p], version |-> old[p].version, content |-> old[p].content] :
                       p \in {q \in files : Key[q] \in Fetched /\ old[q].content # None}}
    /\ enabled = FALSE
    /\ held = None

WholeFile ==
    \/ \E p \in Paths, c \in Contents : CreateFile(p, c)
    \/ \E k \in Keys : DeleteFile(k) \/ \E c \in Contents : UpdateFile(k, c)

LiveEditing ==
    \/ \E i \in Ids, q \in RenameTargets : Rename(i, q)
    \/ \E p \in Paths : CreateCrdt(p)
    \/ \E k \in Keys : DeleteNote(k)
    \/ \E i \in Ids, e \in 0 .. MaxEpoch, c \in Contents : Materialize(i, e, c)

OwnerActs == Enable \/ Disable \/ \E i \in Ids, q \in RenameTargets : RepairName(i, q)

Device == (\E k \in Fetched : Fetch(k)) \/ (\E k \in Opened : Hold(k))

Next == WholeFile \/ LiveEditing \/ OwnerActs \/ Device

Spec == Init /\ [][Next]_vars

-----------------------------------------------------------------------------
\* What a name stands for: its highest version, and the content of its file.
FileOf(R, k) ==
    LET marks == RowsAt(R, k)
        files == {i \in marks : R[i].live}
    IN [version |-> Floor(R, marks),
        content |-> IF \E i \in marks : R[i].collision THEN Paused
                    ELSE IF files = {} THEN None
                    ELSE LET i == CHOOSE i \in files : TRUE IN R[i].stored[R[i].version]]

Versioned == INSTANCE VersionedFiles WITH file <- [k \in Keys |-> FileOf(rows, k)]

\* Whole-file devices may rely on versions: through deletes, revivals,
\* renames onto old marks, repairs and both lanes a name never shows another
\* content at a version it had, and is never quarantined again.
ImplementsVersionedFiles == Versioned!Spec

\* The version check of writeFile admits no write that replaces what its
\* author has not seen (the owner's override aside).
SeenIsExact == Versioned!SeenIsExact

\* Exactly the live files that overlap are flagged, so nobody uses a name
\* two files have, and no name stays refused after its repair.
QuarantineIsExact ==
    \A k \in Keys :
        /\ Quarantined(rows, k) <=> Crowded(rows, k)
        /\ Crowded(rows, k) => \A i \in LiveAt(rows, k) : rows[i].collision

\* A file that is alone in its name is above every mark there: no listing
\* shows a mark of the past as newer than the file.
LiveIsNewest ==
    \A k \in Keys : \A i \in LiveAt(rows, k) :
        ~Crowded(rows, k) => \A j \in RowsAt(rows, k) \ {i} : rows[j].version < rows[i].version

\* Every live file has the content of its current version and none of a
\* later one; what is deleted has none: the latest stored is the current.
CurrentIsStored ==
    \A i \in Ids : \A v \in Versions :
        rows[i].stored[v] # None => rows[i].live /\ v <= rows[i].version

CurrentIsThere == \A i \in Ids : rows[i].live => rows[i].stored[rows[i].version] # None

StoredIsExact == CurrentIsStored /\ CurrentIsThere

\* A version a device remembers names the content it got, and the content of
\* a live file's version is stored.
SeenAndStoredAreExact == TypeOK /\ SeenIsExact /\ StoredIsExact

\* A name is refused exactly while files overlap, and otherwise answered with
\* its newest row.
NamesAreExact == LiveIsNewest /\ QuarantineIsExact

\* A device that comes back with a cached document is admitted by name and
\* epoch (SYNC_STEP1): the document there is the one it cached.
StaleStateIsolated ==
    held \in Cached /\ enabled
        => \A i \in LiveAt(rows, held.key) :
              ~rows[i].collision /\ rows[i].epoch = held.epoch => i = held.id
===============================================================================
