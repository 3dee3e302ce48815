--------------------------- MODULE VersionedFiles ---------------------------
(***************************************************************************)
(* What a room promises the devices that sync it by whole files: a file    *)
(* name has one version counter for ever.  Whatever is done to the files   *)
(* behind it, the content under a name changes only together with a higher *)
(* version, so a device may send "I saw version v" in place of what it saw.*)
(***************************************************************************)
EXTENDS Naturals

CONSTANTS
    Keys,      \* file names, spellings of one name folded together
    Contents,  \* what a file may hold
    None,      \* no file
    Paused     \* files overlap under this name: nobody may use it

VARIABLES
    file,  \* what is under each name: a version and a content
    seen   \* the version of a file some device last fetched, and what it got

vars == <<file, seen>>

Files == [version : Nat, content : Contents \cup {None, Paused}]
Sights == [key : Keys, version : Nat, content : Contents]

\* What a device may remember when the files look like F.
Remembered(F, s) ==
    s \in Sights =>
        /\ s.version <= F[s.key].version
        /\ s.version = F[s.key].version => F[s.key].content \in {s.content, Paused}

Init ==
    /\ file \in [Keys -> Files]
    /\ seen \in Sights \cup {None}
    /\ Remembered(file, seen)

\* A new content has a new version, and a name in use is never paused.
Advances(old, new) ==
    /\ old.version <= new.version
    /\ old.content # new.content => old.version < new.version
    /\ new.content = Paused => old.content = Paused

\* One operation may change several names: a rename does.
Change ==
    /\ file' \in [Keys -> Files]
    /\ \A k \in Keys : Advances(file[k], file'[k])
    /\ UNCHANGED seen

Fetch(k) ==
    /\ file[k].content \in Contents
    /\ seen' = [key |-> k, version |-> file[k].version, content |-> file[k].content]
    /\ UNCHANGED file

Next == Change \/ \E k \in Keys : Fetch(k)

Spec == Init /\ [][Next]_vars

\* A device that holds the version a name has now holds its content: what a
\* write based on that version replaces is what its author saw.
SeenIsExact ==
    seen \in Sights
        => (seen.version = file[seen.key].version => file[seen.key].content \in {seen.content, Paused})
===============================================================================
