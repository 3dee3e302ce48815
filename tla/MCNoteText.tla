------------------------------ MODULE MCNoteText ------------------------------
(***************************************************************************)
(* The text of a note on a device, and the files it is kept in: small      *)
(* instances of FileReplace, NoteSession and DocStore.  They share no      *)
(* state: a behaviour is one of one of them, while the others rest.        *)
(***************************************************************************)
EXTENDS FileReplace, TLC

CONSTANTS
    img1, img2, img3, u, v,
    Paths, Epochs, MaxEdits, MaxHappened \* DocStore's

MCImages == {img1, img2, img3}

VARIABLES
    part, \* what the behaviour is about
    relay, disk, cache, sess, doc, created, synced, shake, bound, fresh, persist, materialize, rec,
    event, late, up, toRelay, toDevice, ext, typed, erased, made, events, excused,
    copies, note, queue, spoiled, retained, session, retiring, owed, loaded, strayed, edits, happened

Note == INSTANCE NoteSession WITH
    Words <- {u, v}, First <- u, MaxEvents <- 2, MaxQueue <- 2
Store == INSTANCE DocStore WITH
    files <- copies, events <- happened, MaxEvents <- MaxHappened

noteVars ==
    <<relay, disk, cache, sess, doc, created, synced, shake, bound, fresh, persist, materialize, rec,
      event, late, up, toRelay, toDevice, ext, typed, erased, made, events, excused>>
storeVars ==
    <<copies, note, queue, spoiled, retained, session, retiring, owed, loaded, strayed, edits, happened>>

\* The modules that rest do so in one initial state.
MCInit ==
    /\ part \in {"file", "text", "store"}
    /\ Init /\ (part # "file" => target = None)
    /\ Note!Init /\ (part # "text" => relay = None)
    /\ Store!Init

\* Bound: once every word is excused NoteSession's properties say nothing more.
MCNext ==
    \/ part = "file"  /\ Next /\ UNCHANGED <<part, noteVars, storeVars>>
    \/ part = "text"  /\ Note!SomeWordIsFollowed /\ Note!Next /\ UNCHANGED <<part, vars, storeVars>>
    \/ part = "store" /\ Store!Next /\ UNCHANGED <<part, vars, noteVars>>

MCSpec == MCInit /\ [][MCNext]_<<part, vars, noteVars, storeVars>>

\* NoteSession: a word leaves the text only when somebody removes it, and none is
\* there twice.
NothingIsLostOrDoubled == Note!TypeOK /\ Note!NothingElseIsErased /\ Note!NothingIsDoubled
\* NoteSession: once nothing is left to do, the file and the relay have the note's text.
AllHaveTheText == Note!AllHaveTheText
\* DocStore: a load finds the last edit that was saved for the note.
LoadsSeeAll == part = "store" => Store!LoadsSeeAll
=============================================================================
