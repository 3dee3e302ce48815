------------------------------- MODULE DocStore -------------------------------
(***************************************************************************)
(* The local copies of one note's live document (crdtDocStore.ts), one per *)
(* path and epoch, and the queue all uses of a room's copies go through.   *)
(* A use that was queued behind a failing one fails with it; the last save *)
(* of a session that retires (crdtSession.ts, dispose) is kept and tried   *)
(* again before anything else is done.  The queue belongs to the vault: it *)
(* outlives the plugin's instances, not the process.                       *)
(*                                                                         *)
(* A content is the number of its last edit; 0 is no content.              *)
(***************************************************************************)
EXTENDS Naturals, Sequences, SequencesExt, FiniteSetsExt

CONSTANTS
  Paths, Epochs,        \* where the note may be, and its identities
  MaxEdits, MaxEvents,  \* bounds: edits; failures, crashes, renames and new epochs
  None

VARIABLES
  files,     \* per path and epoch: the file and the one moved aside
  note,      \* path and epoch of the note
  queue,     \* the uses that wait, the first one running
  spoiled,   \* the one before the first has failed
  retained,  \* failedRetirement
  session,   \* the note's session: its last edit
  retiring,  \* the session of a manager that is disposed: its last edit
  owed,      \* history: the last edit whose save was acknowledged
  loaded,    \* history: what the last load found, and was owed
  strayed,   \* history: a rename went by a copy, or found its new place taken
  edits, events

vars == <<files, note, queue, spoiled, retained, session, retiring, owed, loaded, strayed,
          edits, events>>

Contents == 0 .. MaxEdits
Keys == Paths \X Epochs
NoFile == [main |-> 0, aside |-> 0]
Key == <<note.path, note.epoch>>

Init ==
  /\ files = [k \in Keys |-> NoFile]
  /\ note = [path |-> CHOOSE p \in Paths : TRUE, epoch |-> Min(Epochs)]
  /\ queue = <<>> /\ spoiled = FALSE /\ retained = None
  /\ session = None /\ retiring = None
  /\ owed = 0 /\ loaded = [found |-> 0, owed |-> 0] /\ strayed = FALSE
  /\ edits = 0 /\ events = 0

Happens == events < MaxEvents /\ events' = events + 1

Places == 1 .. Len(queue)
Waits(kinds) == \E i \in Places : queue[i].use \in kinds

-----------------------------------------------------------------------------
(* What a use does to the files. *)

Recovered(f) == IF f.main = 0 THEN [main |-> f.aside, aside |-> 0] ELSE [f EXCEPT !.aside = 0]

\* Replacing a file: done, perhaps with the old one left aside; not done; or cut off
\* with the old one aside.
Replaced(f, v) == {[main |-> v, aside |-> a] : a \in {0, f.main}}
NotReplaced(f) == {f, Recovered(f)} \cup (IF f.main # 0 THEN {[main |-> 0, aside |-> f.main]} ELSE {})

\* Saving prunes the other epochs' files, not what was moved aside beside them.
Pruned(fs, k) ==
  [j \in Keys |-> IF j[1] = k[1] /\ j[2] # k[2] THEN [fs[j] EXCEPT !.main = 0] ELSE fs[j]]

Saved(k, v) == {Pruned([files EXCEPT ![k] = f], k) : f \in Replaced(Recovered(files[k]), v)}

\* rename and deleteEpoch look for the file alone; the adapter's rename does not overwrite.
Taken(k, j) == files[k].main # 0 /\ files[j].main # 0
Moved(k, j) ==
  IF files[k].main = 0 \/ Taken(k, j) THEN files
  ELSE [files EXCEPT ![j].main = files[k].main, ![k].main = 0]
Deleted(k) == [files EXCEPT ![k].main = 0]

-----------------------------------------------------------------------------
(* The uses the session makes of the store. *)

\* A use names the note's place, before and after.
Enqueue(use, edit) ==
  queue' = Append(queue, [use |-> use, key |-> Key, to |-> <<note'.path, note'.epoch>>, edit |-> edit])

Open ==
  /\ session = None /\ ~Waits({"load"})
  /\ UNCHANGED <<files, note, spoiled, retained, session, retiring, owed, loaded, strayed,
                 edits, events>>
  /\ Enqueue("load", 0)

\* A change of the open document, or a last one while its manager retires.
Edit ==
  /\ edits < MaxEdits /\ edits' = edits + 1
  /\ \/ session # None /\ session' = edits' /\ UNCHANGED retiring
     \/ retiring # None /\ retiring' = edits' /\ UNCHANGED session
  /\ UNCHANGED <<files, note, queue, spoiled, retained, owed, loaded, strayed, events>>

\* The persist timer captures the state and queues its save.
Persist ==
  /\ session # None /\ session # 0 /\ Len(queue) < 2
  /\ UNCHANGED <<files, note, spoiled, retained, session, retiring, owed, loaded, strayed,
                 edits, events>>
  /\ Enqueue("save", session)

\* dispose: the session's last save, whatever becomes of its caller.
Dispose ==
  /\ \/ session # None /\ retiring = None
     \/ session = None /\ retiring # None /\ ~Waits({"retire", "load"}) \* it failed: once more
  /\ retiring' = IF session # None THEN session ELSE retiring
  /\ session' = None
  /\ UNCHANGED <<files, note, spoiled, retained, owed, loaded, strayed, edits, events>>
  /\ Enqueue("retire", 0)

\* disposeRoom: the device leaves the room, and its copies go.
LeaveRoom ==
  /\ Happens /\ session # None
  /\ session' = None /\ owed' = 0
  /\ UNCHANGED <<files, note, spoiled, retained, retiring, loaded, strayed, edits>>
  /\ Enqueue("deleteRoom", 0)

\* resyncAtEpoch, forgetLocalDelete: the note's document is another one from now on.
NewEpoch ==
  /\ Happens /\ note.epoch < Max(Epochs) /\ retiring = None /\ ~Waits({"load"})
  /\ note' = [note EXCEPT !.epoch = @ + 1]
  /\ session' = None /\ owed' = 0
  /\ Enqueue("deleteEpoch", 0)
  /\ UNCHANGED <<files, spoiled, retained, retiring, loaded, strayed, edits>>

\* rekeyLocalState, with the session open or, after a restart, without one.
Rename(p) ==
  /\ Happens /\ p # note.path /\ retiring = None /\ ~Waits({"load"})
  /\ note' = [note EXCEPT !.path = p]
  /\ Enqueue("rename", 0)
  /\ UNCHANGED <<files, spoiled, retained, session, retiring, owed, loaded, strayed, edits>>

-----------------------------------------------------------------------------
(* The first use in the queue. *)

Turn == Head(queue)

\* What a load has to find: what was acknowledged, and what a retired session held.
Demand == IF retiring = None THEN owed ELSE Max({owed, retiring})

\* It leaves the queue; a failure reaches those that were queued behind it.
Leaves(failed) == queue' = Tail(queue) /\ spoiled' = (failed /\ Tail(queue) # <<>>)

\* Mutant: a retirement that was queued behind a failure is not kept.
SkipMutForgets ==
  /\ queue # <<>> /\ spoiled
  /\ Leaves(TRUE)
  /\ UNCHANGED <<files, note, retained, session, retiring, owed, loaded, strayed, edits, events>>

\* The use before has failed, and this one fails with it, unheard.
Skip ==
  /\ queue # <<>> /\ spoiled
  /\ Leaves(TRUE)
  /\ retained' = IF Turn.use = "retire" /\ retained = None THEN Turn ELSE retained
  /\ strayed' = (strayed \/ Turn.use = "rename")
  /\ UNCHANGED <<files, note, session, retiring, owed, loaded, edits, events>>

\* The retained save runs before the first use does.
RetryFirst ==
  /\ queue # <<>> /\ ~spoiled /\ retained # None
  /\ files' \in IF retiring = None THEN {files} ELSE Saved(retained.key, retiring)
  /\ owed' = Demand
  /\ retained' = None /\ retiring' = None
  /\ UNCHANGED <<note, queue, spoiled, session, loaded, strayed, edits, events>>

RetryFails ==
  /\ Happens /\ queue # <<>> /\ ~spoiled /\ retained # None /\ retiring # None
  /\ \E f \in NotReplaced(files[retained.key]) : files' = [files EXCEPT ![retained.key] = f]
  /\ Leaves(TRUE)
  /\ UNCHANGED <<note, retained, session, retiring, owed, loaded, strayed, edits>>

\* Mutant: the retained save does not go first.
RunsMutAhead(use) == queue # <<>> /\ ~spoiled /\ Turn.use = use

Runs(use) == queue # <<>> /\ ~spoiled /\ retained = None /\ Turn.use = use

Load ==
  /\ Runs("load")
  /\ files' = [files EXCEPT ![Turn.key] = Recovered(@)]
  /\ session' = Recovered(files[Turn.key]).main
  /\ loaded' = [found |-> session', owed |-> Demand]
  /\ Leaves(FALSE)
  /\ UNCHANGED <<note, retained, retiring, owed, strayed, edits, events>>

Save ==
  /\ Runs("save")
  /\ files' \in Saved(Turn.key, Turn.edit)
  /\ owed' = IF Turn.key[2] = note.epoch /\ ~Waits({"deleteRoom"}) THEN Max({owed, Turn.edit})
             ELSE owed
  /\ Leaves(FALSE)
  /\ UNCHANGED <<note, retained, session, retiring, loaded, strayed, edits, events>>

\* The retirement saves the latest state, then the session is torn down.
Retire ==
  /\ Runs("retire")
  /\ files' \in IF retiring = None THEN {files} ELSE Saved(Turn.key, retiring)
  /\ owed' = Demand
  /\ retiring' = None
  /\ Leaves(FALSE)
  /\ UNCHANGED <<note, retained, session, loaded, strayed, edits, events>>

SaveFails ==
  /\ Happens /\ (Runs("save") \/ (Runs("retire") /\ retiring # None))
  /\ \E f \in NotReplaced(files[Turn.key]) : files' = [files EXCEPT ![Turn.key] = f]
  /\ retained' = IF Turn.use = "retire" THEN Turn ELSE retained
  /\ Leaves(TRUE)
  /\ UNCHANGED <<note, session, retiring, owed, loaded, strayed, edits>>

RenameRuns ==
  /\ Runs("rename")
  /\ files' = Moved(Turn.key, Turn.to)
  /\ strayed' = (strayed \/ Taken(Turn.key, Turn.to)
                 \/ (files[Turn.key].main = 0 /\ files[Turn.key].aside # 0))
  /\ Leaves(Taken(Turn.key, Turn.to))
  /\ UNCHANGED <<note, retained, session, retiring, owed, loaded, edits, events>>

DeleteEpoch ==
  /\ Runs("deleteEpoch")
  /\ files' = Deleted(Turn.key)
  /\ Leaves(FALSE)
  /\ UNCHANGED <<note, retained, session, retiring, owed, loaded, strayed, edits, events>>

DeleteRoom ==
  /\ Runs("deleteRoom")
  /\ files' = [k \in Keys |-> NoFile]
  /\ Leaves(FALSE)
  /\ UNCHANGED <<note, retained, session, retiring, owed, loaded, strayed, edits, events>>

\* The process dies, in the middle of a save perhaps; what was not saved is gone.
Crash ==
  /\ Happens
  /\ IF Runs("save") \/ Runs("retire")
       THEN \E f \in NotReplaced(files[Turn.key]) : files' = [files EXCEPT ![Turn.key] = f]
       ELSE UNCHANGED files
  /\ queue' = <<>> /\ spoiled' = FALSE /\ retained' = None
  /\ session' = None /\ retiring' = None
  /\ owed' = IF Waits({"rename"}) THEN 0 ELSE owed
  /\ UNCHANGED <<note, loaded, strayed, edits>>

Next ==
  \/ Open \/ Edit \/ Persist \/ Dispose \/ LeaveRoom \/ NewEpoch \/ \E p \in Paths : Rename(p)
  \/ Skip \/ RetryFirst \/ RetryFails \/ Load \/ Save \/ Retire \/ SaveFails
  \/ RenameRuns \/ DeleteEpoch \/ DeleteRoom \/ Crash

Spec == Init /\ [][Next]_vars

-----------------------------------------------------------------------------
\* A load finds everything a retired session held and everything a save was
\* acknowledged for, however often saving failed in between and whichever instance of
\* the plugin makes up for it - unless a rename has gone by the copy.
LoadsSeeAll == strayed \/ loaded.found >= loaded.owed

-----------------------------------------------------------------------------
(* The inductive invariant. *)

Uses == {"load", "save", "retire", "deleteRoom", "deleteEpoch", "rename"}
Moves == {"rename", "deleteEpoch"}
File == [main : Nat, aside : Nat]
Item == [use : Uses, key : Keys, to : Keys, edit : Nat]

TypeOK ==
  /\ files \in [Keys -> File]
  /\ note \in [path : Paths, epoch : Epochs]
  /\ queue \in Seq(Item)
  /\ spoiled \in BOOLEAN /\ strayed \in BOOLEAN
  /\ retained \in Item \cup {None}
  /\ session \in Nat \cup {None} /\ retiring \in Nat \cup {None}
  /\ owed \in Nat /\ loaded \in [found : Nat, owed : Nat]
  /\ edits \in Nat /\ events \in Nat

\* Where the copy is that the next load reads.
NextKey == IF Len(queue) = 0 THEN Key ELSE queue[1].key
Copy == Recovered(files[NextKey]).main

Stale(i) == queue[i].key[2] # note.epoch

\* Every use starts where the one before it ends, and the last one ends at the note.
QueueLeadsToNote ==
  /\ \A i \in Places : i > 1 => queue[i - 1].to = queue[i].key
  /\ Len(queue) > 0 => queue[Len(queue)].to = Key
  /\ \A i \in Places : queue[i].use \notin Moves => queue[i].to = queue[i].key
  /\ \A i \in Places : (\A j \in i .. Len(queue) : queue[j].use \notin Moves) => queue[i].key = Key

\* A note that has another identity owes nothing for the old ones.
StaleOwesNothing ==
  /\ \A i \in Places : queue[i].key[2] <= note.epoch
  /\ \A i \in Places : queue[i].use = "deleteEpoch" => Stale(i)
  /\ \A i \in Places, j \in Places : i < j /\ Stale(j) => Stale(i)
  /\ \A i \in Places : Stale(i) \/ queue[i].use = "deleteRoom" =>
       owed = 0 /\ session = None /\ retiring = None

\* A session is opened last, and one at a time is there.
OneSession ==
  /\ \A i \in Places : queue[i].use = "load" => i = Len(queue) /\ session = None
  /\ session # None =>
       retiring = None /\ retained = None /\ \A i \in Places : queue[i].use # "retire"

\* The last save of a retired session waits in the queue or is retained, and only loads
\* come after it.
RetirementIsKept ==
  /\ retiring # None => retained # None \/ \E i \in Places : queue[i].use = "retire"
  /\ \A i \in Places : queue[i].use = "retire" =>
       IF retiring = None THEN i = 1 /\ ~spoiled
       ELSE /\ queue[i].key = Key
            /\ \A j \in Places : j > i => queue[j].key = Key /\ queue[j].use = "load"
  /\ retained # None =>
       /\ retiring # None /\ retained.use = "retire" /\ retained.key = Key
       /\ \A i \in Places : queue[i].key = Key /\ queue[i].use \in {"retire", "load"}
       /\ \A i \in Places : queue[i].use = "retire" => i = 1

\* Saves are queued in the order of the edits they hold, the session ahead of them all.
SavesAdvance ==
  /\ \A i \in Places : queue[i].use = "save" =>
       /\ queue[i].edit # 0
       /\ strayed \/ queue[i].edit >= owed
       /\ session # None => strayed \/ session >= queue[i].edit
       /\ retiring # None => strayed \/ retiring >= queue[i].edit
  /\ \A i \in Places, j \in Places :
       queue[i].use = "save" /\ queue[j].use = "save" /\ i < j =>
         strayed \/ Stale(i) \/ queue[j].edit >= queue[i].edit

\* The copy, the session and the retiring one hold everything that is owed.
NothingOwedIsMissing ==
  /\ strayed \/ Copy >= owed
  /\ session # None => strayed \/ session >= owed
  /\ retiring # None => strayed \/ retiring >= owed
  /\ edits >= owed
  /\ session # None => edits >= session
  /\ retiring # None => edits >= retiring

\* No file and no use holds an edit that was not made.
Below(f, n) == f.main <= n /\ f.aside <= n
NothingIsAhead ==
  /\ \A k \in Keys : Below(files[k], edits)
  /\ \A i \in Places : queue[i].edit <= edits

StoreInv ==
  /\ TypeOK /\ QueueLeadsToNote /\ StaleOwesNothing /\ OneSession /\ RetirementIsKept
  /\ SavesAdvance /\ NothingOwedIsMissing /\ LoadsSeeAll

IInv == StoreInv /\ NothingIsAhead
=============================================================================
