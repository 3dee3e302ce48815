----------------------------- MODULE FileReplace -----------------------------
(***************************************************************************)
(* dataAdapterFileReplace.ts: replacing a file through Obsidian's adapter, *)
(* whose rename does not overwrite.  The new image is written to a sibling *)
(* temporary, the old one is moved aside to a sibling backup, and the      *)
(* temporary is renamed into place; whoever opens the file next puts the   *)
(* backup back if the process died in between.                             *)
(*                                                                         *)
(* One action per adapter call that changes a file.  Callers of one file   *)
(* take turns, so the existence checks before a call see what it finds.    *)
(***************************************************************************)
CONSTANTS
    Images,     \* complete contents
    None,       \* no such file
    Partial,    \* a file whose writing was cut short
    RenamesLie  \* a rename may be reported failed although it happened

ASSUME ImagesAssumption ==
    None \notin Images /\ Partial \notin Images /\ None # Partial /\ RenamesLie \in BOOLEAN

VARIABLES
    target, temp, backup,  \* the file and its two siblings
    pc,                    \* where the call under way has got to
    goal,                  \* what it is: a load, a replacement, or none
    new,                   \* the image it writes
    moved,                 \* movedExistingTarget
    committed,             \* history: the new image has been renamed into place
    result,                \* how the last replacement ended
    seen,                  \* the content last read
    reliable               \* nothing fails from now on

files == <<target, temp, backup>>
vars  == <<target, temp, backup, pc, goal, new, moved, committed, result, seen, reliable>>

Contents == Images \cup {None}

TypeOK ==
    /\ target \in Contents /\ backup \in Contents
    /\ temp \in Contents \cup {Partial}
    /\ pc \in {"idle", "recover", "clean", "write", "writing", "aside", "promote", "undo",
               "restore", "cleanup"}
    /\ goal \in {"none", "load", "replace"}
    /\ new \in Contents
    /\ moved \in BOOLEAN /\ committed \in BOOLEAN /\ reliable \in BOOLEAN
    /\ result \in {"none", "ok", "failed"}
    /\ seen \in Contents

Faulty == ~reliable

\* The call returns or throws.
Return(outcome) ==
    /\ pc' = "idle" /\ goal' = "none" /\ new' = None
    /\ moved' = FALSE /\ committed' = FALSE
    /\ result' = IF goal = "replace" THEN outcome ELSE result

\* It goes on to its next step.
Goto(next) ==
    /\ pc' = next
    /\ UNCHANGED <<goal, new, result>>

-----------------------------------------------------------------------------
Load ==
    /\ pc = "idle"
    /\ pc' = "recover" /\ goal' = "load"
    /\ UNCHANGED <<files, new, moved, committed, result, seen, reliable>>

Replace(img) ==
    /\ pc = "idle"
    /\ pc' = "recover" /\ goal' = "replace" /\ new' = img /\ result' = "none"
    /\ UNCHANGED <<files, moved, committed, seen, reliable>>

\* Mutant: the backup is taken for stale without a look at the file.
RecoverDropsBackup ==
    /\ pc = "recover"
    /\ backup' = None
    /\ IF goal = "load"
       THEN Return("ok") /\ seen' = target
       ELSE Goto("clean") /\ UNCHANGED <<moved, committed, seen>>
    /\ UNCHANGED <<target, temp, reliable>>

\* recoverDataAdapterFileReplacement: a backup beside the file is stale, and
\* stays if it cannot be removed; without the file it is the last image.
Recovers ==
    /\ IF target # None
       THEN /\ target' = target
            /\ backup' \in IF Faulty THEN {backup, None} ELSE {None}
       ELSE target' = backup /\ backup' = None
    /\ IF goal = "load"
       THEN Return("ok") /\ seen' = target'
       ELSE Goto("clean") /\ UNCHANGED <<moved, committed, seen>>

Recover ==
    /\ pc = "recover"
    /\ Recovers
    /\ UNCHANGED <<temp, reliable>>

\* A check or the rename throws, and so does the call.
RecoverFails ==
    /\ pc = "recover" /\ Faulty
    /\ \/ UNCHANGED <<target, backup>>
       \/ RenamesLie /\ target = None /\ target' = backup /\ backup' = None
    /\ Return("failed")
    /\ UNCHANGED <<temp, seen, reliable>>

\* A leftover temporary goes first; the catch block is not entered yet.
Clean ==
    /\ pc = "clean"
    /\ \/ temp' = None /\ Goto("write")
          /\ UNCHANGED <<moved, committed>>
       \/ Faulty /\ temp' = temp /\ Return("failed")
    /\ UNCHANGED <<target, backup, seen, reliable>>

-----------------------------------------------------------------------------
WriteBegins ==
    /\ pc = "write"
    /\ temp' = Partial
    /\ Goto("writing")
    /\ UNCHANGED <<target, backup, moved, committed, seen, reliable>>

WriteEnds ==
    /\ pc = "writing"
    /\ temp' = new
    /\ Goto("aside")
    /\ UNCHANGED <<target, backup, moved, committed, seen, reliable>>

\* Mutant: that the old image was moved is forgotten.
AsideForgets ==
    /\ pc = "aside"
    /\ IF target = None THEN UNCHANGED <<target, backup>>
       ELSE backup = None /\ target' = None /\ backup' = target
    /\ Goto("promote")
    /\ UNCHANGED <<temp, moved, committed, seen, reliable>>

\* Mutant: the file is moved aside without a look whether there is one.
AsideAlways ==
    /\ pc = "aside"
    /\ IF target = None
       THEN UNCHANGED <<target, backup, moved>> /\ Goto("undo")
       ELSE backup = None /\ target' = None /\ backup' = target /\ moved' = TRUE /\ Goto("promote")
    /\ UNCHANGED <<temp, committed, seen, reliable>>

\* A stale backup makes room...
AsideClears ==
    /\ pc = "aside" /\ target # None /\ backup # None
    /\ backup' = None
    /\ UNCHANGED <<target, temp, pc, goal, new, moved, committed, result, seen, reliable>>

\* ...and the old image, if there is one, takes its place.
Aside ==
    /\ pc = "aside"
    /\ IF target = None
       THEN UNCHANGED <<target, backup, moved>>
       ELSE backup = None /\ target' = None /\ backup' = target /\ moved' = TRUE
    /\ Goto("promote")
    /\ UNCHANGED <<temp, committed, seen, reliable>>

\* Removing the stale backup, or moving the old image, fails.
AsideFails ==
    /\ pc = "aside" /\ Faulty
    /\ \/ UNCHANGED <<target, backup>>
       \/ RenamesLie /\ target # None /\ backup = None /\ target' = None /\ backup' = target
    /\ Goto("undo")
    /\ UNCHANGED <<temp, moved, committed, seen, reliable>>

\* The adapter rejects a rename onto an existing file.
Promote ==
    /\ pc = "promote" /\ target = None
    /\ target' = temp /\ temp' = None
    /\ committed' = TRUE
    /\ Goto("cleanup")
    /\ UNCHANGED <<backup, moved, seen, reliable>>

\* The last cleanup: the old image, if it was moved; a failure is swallowed.
Cleanup ==
    /\ pc = "cleanup"
    /\ IF moved THEN backup' \in IF Faulty THEN {backup, None} ELSE {None}
                ELSE backup' = backup
    /\ Return("ok")
    /\ UNCHANGED <<target, temp, seen, reliable>>

-----------------------------------------------------------------------------
\* Writing the temporary, or the rename into place, throws.
WriteFails ==
    /\ pc \in {"write", "writing"} /\ Faulty
    /\ Goto("undo")
    /\ UNCHANGED <<files, moved, committed, seen, reliable>>

PromoteFails ==
    /\ pc = "promote" /\ Faulty
    /\ IF RenamesLie
       THEN \/ UNCHANGED <<target, temp, committed>>
            \/ target = None /\ target' = temp /\ temp' = None /\ committed' = TRUE
       ELSE UNCHANGED <<target, temp, committed>>
    /\ Goto("undo")
    /\ UNCHANGED <<backup, moved, seen, reliable>>

\* The catch block: the temporary goes, if it can...
Undo ==
    /\ pc = "undo"
    /\ temp' \in IF Faulty THEN {temp, None} ELSE {None}
    /\ Goto("restore")
    /\ UNCHANGED <<target, backup, moved, committed, seen, reliable>>

\* Mutant: the old image is put back over whatever is there.
RestoreOver ==
    /\ pc = "restore"
    /\ IF moved THEN target' = backup /\ backup' = None ELSE UNCHANGED <<target, backup>>
    /\ Return("failed")
    /\ UNCHANGED <<temp, seen, reliable>>

\* ...and the old image comes back, if it was moved and nothing is in place.
Restore ==
    /\ pc = "restore"
    /\ \/ moved /\ target = None /\ target' = backup /\ backup' = None
       \/ (moved /\ target = None => Faulty) /\ UNCHANGED <<target, backup>>
    /\ Return("failed")
    /\ UNCHANGED <<temp, seen, reliable>>

\* The process dies, whatever it was doing.
Crash ==
    /\ Faulty
    /\ pc' = "idle" /\ goal' = "none" /\ new' = None /\ result' = "none"
    /\ moved' = FALSE /\ committed' = FALSE
    /\ UNCHANGED <<files, seen, reliable>>

\* From here on nothing fails: no later call does, which a call under way tells nothing of.
Settle ==
    /\ Faulty /\ pc = "idle"
    /\ reliable' = TRUE
    /\ UNCHANGED <<files, pc, goal, new, moved, committed, result, seen>>

Init ==
    /\ target \in Contents /\ temp = None /\ backup = None
    /\ pc = "idle" /\ goal = "none" /\ new = None
    /\ moved = FALSE /\ committed = FALSE
    /\ result = "none" /\ seen = None /\ reliable = FALSE

Start == Load \/ \E img \in Images : Replace(img)

Continue ==
    \/ Recover \/ RecoverFails \/ Clean
    \/ WriteBegins \/ WriteEnds \/ WriteFails
    \/ AsideClears \/ Aside \/ AsideFails \/ Promote \/ PromoteFails \/ Cleanup
    \/ Undo \/ Restore

Next == Start \/ Continue \/ Crash \/ Settle

Spec == Init /\ [][Next]_vars

\* Adapter calls settle.
FairSpec == Spec /\ WF_vars(Continue)

-----------------------------------------------------------------------------
\* The file as its next reader will find it.
Value == IF target # None THEN target ELSE backup

CallState == IF goal # "replace" THEN "none" ELSE IF committed THEN "committed" ELSE "begun"

Atomic == INSTANCE AtomicFile WITH
    value <- Value, seen <- seen, call <- CallState, pending <- new, result <- result

\* Through every failure and crash the file is some complete image, the one
\* of the last replacement that reached its commit, and a call that throws
\* has not committed (unless the adapter misreports a rename).
ImplementsAtomicFile == Atomic!Spec

\* However earlier calls failed and whatever siblings they or crashes left,
\* once the adapter works every replacement ends, and has succeeded: nothing
\* wedges the file.
ReplacementsSucceed ==
    /\ [][reliable /\ goal = "replace" /\ goal' = "none" => result' = "ok"]_vars
    /\ []<>(goal = "none")

(***************************************************************************)
(* Between its calls a replacement knows exactly what is where.            *)
(***************************************************************************)
CallInv ==
    /\ pc = "idle" <=> goal = "none"
    /\ pc \notin {"idle", "recover"} => goal = "replace"
    /\ goal = "replace" <=> new # None
    /\ pc = "cleanup" => committed
    /\ committed /\ pc # "cleanup" => RenamesLie

PlacesInv ==
    /\ moved => backup # None /\ pc \in {"promote", "undo", "restore", "cleanup"}
    /\ pc \in {"aside", "promote"} => temp = new
    /\ pc \in {"clean", "write", "writing", "aside"} /\ target = None => backup = None
    /\ pc = "promote" => target = None /\ (backup # None => moved)
    /\ committed => pc \in {"cleanup", "undo", "restore"} /\ target = new

IInv == TypeOK /\ CallInv /\ PlacesInv
===============================================================================
