-------------------------------- MODULE MCRelay --------------------------------
(***************************************************************************)
(* What requests and upgrades do to a relay: small instances of Access,    *)
(* FileRows (a device that comes back with a cached document), Upgrade and *)
(* LegacyBackup.  They share no state: a behaviour is one of one of them,  *)
(* while the others rest.                                                  *)
(***************************************************************************)
EXTENDS Access, TLC

CONSTANTS owner, guest, laptop, desk, crew, i1, whole, some, inside, outside, room0, Paused,
    OldUsers, OldTeams, OldRooms, Mounts, MaxHandMade, \* Upgrade's
    MaxImages \* LegacyBackup's

MCUsers == {owner, guest}
MCDevices == {laptop, desk}
MCUserOf == laptop :> guest @@ desk :> owner
MCTeams == {crew}
MCInvites == {i1}
MCPaths == {inside, outside}
MCPatterns == {whole, some}
MCCovers == whole :> {inside, outside, room0} @@ some :> {inside}
MCSubjects == {guest}
MCCustom == {{"subscribe"}}

VARIABLES
    part, \* what the behaviour is about
    rows, enabled, seen, held,
    image, opened, first, made,
    keeper, db, bak, aside, prev, running, stage, images, upgraded, cut

\* Two spellings of one name, and another name.
Epochs == INSTANCE FileRows WITH
    Paths <- {"Note", "note", "other"}, Keys <- {"note", "other"},
    Key <- [p \in {"Note", "note", "other"} |-> IF p = "other" THEN "other" ELSE "note"],
    Contents <- {"x", "empty"}, Empty <- "empty", Ids <- 1..4,
    OldPaths <- {"Note", "note"}, OldId <- [p \in {"Note", "note"} |-> IF p = "Note" THEN 1 ELSE 2], OldVersions <- {1},
    RenameTargets <- {}, Fetched <- {}, Opened <- {"note"}, MaxVersion <- 4, MaxEpoch <- 3

Old == INSTANCE Upgrade WITH disk <- image, mem <- opened,
    Users <- OldUsers, Teams <- OldTeams, Rooms <- OldRooms, MaxRules <- MaxHandMade
Backup == INSTANCE LegacyBackup WITH
    host <- keeper, main <- db, mem <- running, pc <- stage, count <- images

rowsVars == <<rows, enabled, seen, held>>
oldVars == <<image, opened, first, made>>
backupVars == <<keeper, db, bak, aside, prev, running, stage, images, upgraded, cut>>

MCInit ==
    /\ part \in {"access", "epochs", "upgrade", "backup"}
    /\ Init /\ (part # "access" => enrolled = {})
    /\ IF part = "epochs" THEN Epochs!Init
       ELSE rows = None /\ enabled = None /\ seen = None /\ held = None
    /\ IF part = "upgrade" THEN Old!Init
       ELSE image = None /\ opened = None /\ first = None /\ made = None
    /\ IF part = "backup" THEN Backup!Init
       ELSE /\ keeper = None /\ db = None /\ bak = None /\ aside = None /\ prev = None
            /\ running = None /\ stage = None /\ images = None /\ upgraded = None /\ cut = None

MCNext ==
    \/ part = "access" /\ Next /\ UNCHANGED <<part, rowsVars, oldVars, backupVars>>
    \/ part = "epochs" /\ Epochs!Next /\ UNCHANGED <<part, vars, oldVars, backupVars>>
    \/ part = "upgrade" /\ Old!Next /\ UNCHANGED <<part, vars, rowsVars, backupVars>>
    \/ part = "backup" /\ Backup!Next /\ UNCHANGED <<part, vars, rowsVars, oldVars>>

MCSpec == MCInit /\ [][MCNext]_<<part, vars, rowsVars, oldVars, backupVars>>

\* FileRows: a cached document is admitted only to the note it was of.
StaleStateIsolated == part = "epochs" => Epochs!TypeOK /\ Epochs!StaleStateIsolated
\* Upgrade and LegacyBackup: opening old databases, cut off and repeated, loses nothing:
\* members keep what their rules gave them, rules made by hand and rooms stay, the mark
\* tells where the database came from, and a v0.1 database or one in use is never
\* overwritten, nor a new server set up while a backup can be recovered.
UpgradesKeepAll ==
    /\ [](part = "upgrade" => /\ Old!MembersKeepTheirRules /\ Old!HandMadeRulesStay
                              /\ Old!RoomsAreKept /\ Old!MarkTellsTheHistory)
    /\ [](part = "backup" => Backup!V01IsKept /\ Backup!RecoveredFirst)
    /\ Backup!UsedIsKept
=============================================================================
