---------------------------- MODULE LegacyBackup ----------------------------
(* What the relay and the plugin keep of a v0.1 database: the file itself    *)
(* while it is upgraded, the backup beside it, backups put aside under       *)
(* another name, and what a restore replaced. A start recovers an empty      *)
(* database from the backup, backs up a v0.1 one, opens and migrates it and  *)
(* saves the result; the process may end between any two of these.           *)
EXTENDS Naturals, FiniteSets

CONSTANTS
    MaxImages,      \* bound: contents a database ever has
    None

VARIABLES
    host,           \* "relay" or "plugin"
    main,           \* the database file, None when there is none
    bak,            \* the file <database>.bak-v1
    aside,          \* the backups renamed to .invalid
    prev,           \* the databases copied to .pre-v01-restore
    mem,            \* the image the running process works on
    pc,             \* how far the process is
    count,          \* contents handed out
    upgraded,       \* v0.1 databases a start has opened and saved
    cut             \* a copy over the database was cut off

vars == <<host, main, bak, aside, prev, mem, pc, count, upgraded, cut>>

\* A v0.1 database, one of this release in use, one nobody has set up, one cut
\* off, and a file with nothing in it.
V01(n) == <<"v01", n>>
Used(n) == <<"used", n>>
Empty == <<"empty", 0>>
Torn == <<"torn", 0>>
Blank == <<"blank", 0>>

IsV01(file) == file # None /\ file[1] = "v01"

\* Mutant: what is in the file is not looked at.
EmptyCurrentMutUnchecked(file) == file # None

\* A file that reads as a database of this release without users or owner.
EmptyCurrent(file) == file = Empty

\* A missing or an empty file opens as a new database, and a database of
\* v0.1 is migrated.
Migrated(file) ==
    IF file \in {None, Empty, Blank} THEN Empty
    ELSE IF IsV01(file) THEN Used(file[2]) ELSE file

\* Mutant: only a missing database is recovered.
RecoverableMutMissing == IsV01(bak) /\ main = None

\* There is a backup, and no database anyone could have used since.
Recoverable == IsV01(bak) /\ (main = None \/ EmptyCurrent(main))

---------------------------------------------------------------------------
(* The standalone relay.                                                    *)

\* The backup is copied over the database in place.
RelayRecovers ==
    /\ host = "relay" /\ pc = "off"
    /\ IF Recoverable
       THEN /\ main' \in {Torn, Blank}
            /\ pc' = "copying"
            /\ cut' = TRUE
       ELSE /\ pc' = "starting"
            /\ UNCHANGED <<main, cut>>
    /\ UNCHANGED <<host, bak, aside, prev, mem, count, upgraded>>

RelayCopied ==
    /\ pc = "copying"
    /\ main' = bak
    /\ cut' = FALSE
    /\ pc' = "starting"
    /\ UNCHANGED <<host, bak, aside, prev, mem, count, upgraded>>

---------------------------------------------------------------------------
(* The plugin's relay.                                                      *)

\* It opens the backup in place of an empty database, whose file stays as it
\* is until the first save.
PluginRecovers ==
    /\ host = "plugin" /\ pc = "off"
    /\ IF Recoverable
       THEN /\ mem' = Migrated(bak)
            /\ pc' = "opened"
       ELSE /\ pc' = "starting"
            /\ UNCHANGED mem
    /\ UNCHANGED <<host, main, bak, aside, prev, count, upgraded, cut>>

---------------------------------------------------------------------------
(* Both.                                                                    *)

\* Nothing can be told of a database that does not read: the start fails.
StartFails ==
    /\ pc = "starting" /\ main = Torn
    /\ pc' = "off"
    /\ UNCHANGED <<host, main, bak, aside, prev, mem, count, upgraded, cut>>

\* Mutant: the backup is removed to make room for the new one.
PutAsideMutOver ==
    /\ pc = "starting" /\ IsV01(main)
    /\ bak # None /\ bak # main
    /\ bak' = None
    /\ UNCHANGED <<host, main, aside, prev, mem, pc, count, upgraded, cut>>

\* A backup that is not of the database found is put aside.
PutAside ==
    /\ pc = "starting" /\ IsV01(main)
    /\ bak # None /\ bak # main
    /\ aside' = aside \cup {bak}
    /\ bak' = None
    /\ UNCHANGED <<host, main, prev, mem, pc, count, upgraded, cut>>

\* The backup appears under its name whole, or not at all.
BackUp ==
    /\ pc = "starting" /\ IsV01(main)
    /\ bak = None
    /\ bak' = main
    /\ UNCHANGED <<host, main, aside, prev, mem, pc, count, upgraded, cut>>

Open ==
    /\ pc = "starting" /\ main # Torn
    /\ IsV01(main) => bak = main
    /\ mem' = Migrated(main)
    /\ pc' = "opened"
    /\ UNCHANGED <<host, main, bak, aside, prev, count, upgraded, cut>>

\* The migrated image is saved before anything is derived from it.
FirstSave ==
    /\ pc = "opened"
    /\ main' = mem
    /\ pc' = "running"
    /\ upgraded' = upgraded \cup {f \in {main} : IsV01(f)}
    /\ UNCHANGED <<host, bak, aside, prev, mem, count, cut>>

Edit ==
    /\ pc = "running" /\ count < MaxImages
    /\ mem' = Used(count + 1)
    /\ count' = count + 1
    /\ UNCHANGED <<host, main, bak, aside, prev, pc, upgraded, cut>>

Save ==
    /\ pc = "running" /\ main # mem
    /\ main' = mem
    /\ UNCHANGED <<host, bak, aside, prev, mem, pc, count, upgraded, cut>>

Stop ==
    /\ pc = "running"
    /\ main' = mem
    /\ mem' = None
    /\ pc' = "off"
    /\ UNCHANGED <<host, bak, aside, prev, count, upgraded, cut>>

Crash ==
    /\ pc # "off"
    /\ mem' = None
    /\ pc' = "off"
    /\ UNCHANGED <<host, main, bak, aside, prev, count, upgraded, cut>>

---------------------------------------------------------------------------
(* The owner restores the v0.1 database of the plugin's relay.              *)

\* The relay stops first, which saves what it has.
Restore ==
    /\ host = "plugin" /\ pc = "running"
    /\ main' = mem
    /\ mem' = None
    /\ pc' = IF IsV01(bak) THEN "restoring" ELSE "off"
    /\ UNCHANGED <<host, bak, aside, prev, count, upgraded, cut>>

\* It copies the database to a name of its own; a copy cut off changes nothing.
RestoreCopies ==
    /\ pc = "restoring"
    /\ prev' = prev \cup {main}
    /\ pc' = "restored"
    /\ UNCHANGED <<host, main, bak, aside, mem, count, upgraded, cut>>

\* The file is replaced as a whole, and the relay started on it.
RestoreReplaces ==
    /\ pc = "restored"
    /\ main' = bak
    /\ pc' = "off"
    /\ UNCHANGED <<host, bak, aside, prev, mem, count, upgraded, cut>>

---------------------------------------------------------------------------
\* Someone runs the old release on another database, and brings that here.
OldRelease ==
    /\ pc = "off" /\ count < MaxImages
    /\ main' = V01(count + 1)
    /\ count' = count + 1
    /\ UNCHANGED <<host, bak, aside, prev, mem, pc, upgraded, cut>>

Init ==
    /\ host \in {"relay", "plugin"}
    /\ main \in {None, Empty, V01(1), Used(1)}
    /\ bak \in {None, Torn, V01(1), V01(2), Used(2)}
    /\ aside = {}
    /\ prev = {}
    /\ mem = None
    /\ pc = "off"
    /\ count = 2
    /\ upgraded = {}
    /\ cut = FALSE

Next ==
    \/ RelayRecovers \/ RelayCopied \/ PluginRecovers
    \/ StartFails \/ PutAside \/ BackUp \/ Open \/ FirstSave
    \/ Edit \/ Save \/ Stop \/ Crash
    \/ Restore \/ RestoreCopies \/ RestoreReplaces
    \/ OldRelease

Spec == Init /\ [][Next]_vars

---------------------------------------------------------------------------
(* What must not be lost.                                                   *)

\* Every v0.1 database that was upgraded is still there as it was, whatever
\* other databases were upgraded and restored since.
V01IsKept == \A file \in upgraded : file \in {main, bak} \cup aside

\* A start never replaces a database in use, and a restore only one it has
\* copied: the file changes by a save of what is in memory, or is kept.
UsedIsKept ==
    [][main # None /\ main[1] = "used" /\ main' # main
        => main' = mem \/ main \in prev' \/ count' # count]_vars

\* Nobody is asked to set up a new server while there is a v0.1 database to
\* recover, unless an earlier recovery was cut off.
RecoveredFirst == pc = "running" /\ mem = Empty => ~IsV01(bak) \/ cut
=============================================================================
