------------------------------ MODULE MCFileRows ------------------------------
(* Small instances of FileRows for TLC. *)
EXTENDS FileRows, TLC

CONSTANTS Note, note, other, x, empty, i1, i2, i3, i4

\* Two spellings of one name, and another name.
MCPaths == {Note, note, other}
MCKeys == {note, other}
MCKey == Note :> note @@ note :> note @@ other :> other
MCContents == {x, empty}
MCIds == {i1, i2, i3, i4}
MCOldPaths == {Note, note}
MCOldId == Note :> i1 @@ note :> i2
MCTargets == {note, other}
\* Notes are renamed onto the held one's name only.
MCOnto == {note}
MCLooked == {note}
MCNowhere == {}
===============================================================================
