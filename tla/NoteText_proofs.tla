---------------------------- MODULE NoteText_proofs ----------------------------
(***************************************************************************)
(* The files a note is kept in.  Replacing one through the adapter         *)
(* implements an atomic file, for any images, whatever fails and wherever  *)
(* the process dies (FileReplace).  The local copy of a live document is   *)
(* found again with all that is owed, for any paths, epochs, edits and     *)
(* failures (DocStore).                                                    *)
(***************************************************************************)
EXTENDS MCNoteText, Naturals, Sequences, TLAPS

LEMMA InitInvariant == Init => IInv
BY ImagesAssumption DEF Init, IInv, CallInv, PlacesInv, TypeOK, Contents

\* One step per action; each disturbs the conjuncts that name what it changes.
LEMMA StepInvariant == IInv /\ [Next]_vars => IInv'
<1> SUFFICES ASSUME IInv, [Next]_vars PROVE IInv'
  OBVIOUS
<1> USE ImagesAssumption DEF IInv, CallInv, PlacesInv, TypeOK, Contents
<1>1. CASE Load
  BY <1>1 DEF Load, files
<1>2. ASSUME NEW img \in Images, Replace(img) PROVE IInv'
  BY <1>2 DEF Replace, files
<1>3. CASE Recover
  BY <1>3 DEF Recover, Recovers, Return, Goto, Faulty
<1>4. CASE RecoverFails
  BY <1>4 DEF RecoverFails, Return, Faulty
<1>5. CASE Clean
  <2>1. CASE temp' = None /\ Goto("write") /\ UNCHANGED <<moved, committed>>
    BY <1>5, <2>1 DEF Clean, Goto
  <2>2. CASE Faulty /\ temp' = temp /\ Return("failed")
    BY <1>5, <2>2 DEF Clean, Return
  <2>3. QED BY <1>5, <2>1, <2>2 DEF Clean
<1>6. CASE WriteBegins
  BY <1>6 DEF WriteBegins, Goto
<1>7. CASE WriteEnds
  BY <1>7 DEF WriteEnds, Goto
<1>8. CASE WriteFails
  BY <1>8 DEF WriteFails, Goto, files
<1>9. CASE AsideClears
  BY <1>9 DEF AsideClears
<1>10. CASE Aside
  BY <1>10 DEF Aside, Goto
<1>11. CASE AsideFails
  BY <1>11 DEF AsideFails, Goto
<1>12. CASE Promote
  BY <1>12 DEF Promote, Goto
<1>13. CASE PromoteFails
  BY <1>13 DEF PromoteFails, Goto
<1>14. CASE Cleanup
  BY <1>14 DEF Cleanup, Return, Faulty
<1>15. CASE Undo
  BY <1>15 DEF Undo, Goto, Faulty
<1>16. CASE Restore
  BY <1>16 DEF Restore, Return, Faulty
<1>17. CASE Crash
  BY <1>17 DEF Crash, files
<1>18. CASE Settle
  BY <1>18 DEF Settle, files
<1>19. CASE UNCHANGED vars
  BY <1>19 DEF vars
<1>20. QED
  BY <1>1, <1>2, <1>3, <1>4, <1>5, <1>6, <1>7, <1>8, <1>9, <1>10, <1>11, <1>12, <1>13, <1>14,
     <1>15, <1>16, <1>17, <1>18, <1>19 DEF Next, Start, Continue

\* Between its calls a replacement knows what is where: the temporary is
\* complete when it is promoted, nothing is in its way, and what was moved
\* aside is what is restored.
THEOREM Invariance == Spec => []IInv
BY InitInvariant, StepInvariant, PTL DEF Spec

-----------------------------------------------------------------------------
LEMMA InitRefines == Init => Atomic!Init
BY ImagesAssumption DEF Init, Contents, Atomic!Init, Value, CallState

\* A step of the replacement is a step of the atomic file, or changes nothing
\* that it shows: only the rename into place changes the content.
LEMMA StepRefines == IInv /\ [Next]_vars => [Atomic!Next]_Atomic!vars
<1> SUFFICES ASSUME IInv, [Next]_vars PROVE [Atomic!Next]_Atomic!vars
  OBVIOUS
<1> USE ImagesAssumption DEF IInv, CallInv, PlacesInv, TypeOK, Contents
<1> DEFINE Stutter == UNCHANGED <<Value, seen, CallState, new, result>>
<1>s. Stutter => [Atomic!Next]_Atomic!vars
  BY DEF Atomic!vars
<1>1. CASE Load
  <2>1. Stutter
    BY <1>1 DEF Load, files, Value, CallState
  <2>2. QED BY <2>1, <1>s
<1>2. ASSUME NEW img \in Images, Replace(img) PROVE [Atomic!Next]_Atomic!vars
  <2>1. Atomic!Begin(img)
    BY <1>2 DEF Replace, files, Value, CallState, Atomic!Begin
  <2>2. QED BY <2>1 DEF Atomic!Next
<1>3. CASE Recover
  <2>1. Value' = Value
    BY <1>3 DEF Recover, Recovers, Value
  <2>2. CASE goal = "load"
    <3>1. Atomic!Read
      BY <1>3, <2>1, <2>2 DEF Recover, Recovers, Return, Value, CallState, Atomic!Read
    <3>2. QED BY <3>1 DEF Atomic!Next
  <2>3. CASE goal # "load"
    <3>1. Stutter
      BY <1>3, <2>1, <2>3 DEF Recover, Recovers, Goto, CallState
    <3>2. QED BY <3>1, <1>s
  <2>4. QED BY <2>2, <2>3
<1>4. CASE RecoverFails
  <2>1. Value' = Value
    BY <1>4 DEF RecoverFails, Value
  <2>2. CASE goal = "replace"
    <3>1. Atomic!Fail
      BY <1>4, <2>1, <2>2 DEF RecoverFails, Return, CallState, Atomic!Fail, Atomic!Return
    <3>2. QED BY <3>1 DEF Atomic!Next
  <2>3. CASE goal # "replace"
    <3>1. Stutter
      BY <1>4, <2>1, <2>3 DEF RecoverFails, Return, CallState
    <3>2. QED BY <3>1, <1>s
  <2>4. QED BY <2>2, <2>3
<1>5. CASE Clean
  <2>1. Value' = Value
    BY <1>5 DEF Clean, Value
  <2>2. CASE pc' = "write"
    <3>1. Stutter
      BY <1>5, <2>1, <2>2 DEF Clean, Goto, Return, CallState
    <3>2. QED BY <3>1, <1>s
  <2>3. CASE pc' # "write"
    <3>1. Atomic!Fail
      BY <1>5, <2>1, <2>3 DEF Clean, Goto, Return, CallState, Atomic!Fail, Atomic!Return
    <3>2. QED BY <3>1 DEF Atomic!Next
  <2>4. QED BY <2>2, <2>3
<1>6. CASE WriteBegins \/ WriteEnds \/ WriteFails
  <2>1. Stutter
    BY <1>6 DEF WriteBegins, WriteEnds, WriteFails, Goto, files, Value, CallState
  <2>2. QED BY <2>1, <1>s
<1>7. CASE AsideClears \/ Aside \/ AsideFails
  <2>1. Value' = Value
    BY <1>7 DEF AsideClears, Aside, AsideFails, Value
  <2>2. Stutter
    BY <1>7, <2>1 DEF AsideClears, Aside, AsideFails, Goto, CallState
  <2>3. QED BY <2>2, <1>s
<1>8. CASE Promote
  <2>1. Atomic!Commit
    BY <1>8 DEF Promote, Goto, Value, CallState, Atomic!Commit
  <2>2. QED BY <2>1 DEF Atomic!Next
<1>9. CASE PromoteFails
  <2>1. CASE committed' = committed
    <3>1. Stutter
      BY <1>9, <2>1 DEF PromoteFails, Goto, Value, CallState
    <3>2. QED BY <3>1, <1>s
  <2>2. CASE committed' # committed
    <3>1. Atomic!Commit
      BY <1>9, <2>2 DEF PromoteFails, Goto, Value, CallState, Atomic!Commit
    <3>2. QED BY <3>1 DEF Atomic!Next
  <2>3. QED BY <2>1, <2>2
<1>10. CASE Cleanup
  <2>1. Atomic!Succeed
    BY <1>10 DEF Cleanup, Return, Value, CallState, Atomic!Succeed, Atomic!Return
  <2>2. QED BY <2>1 DEF Atomic!Next
<1>11. CASE Undo
  <2>1. Stutter
    BY <1>11 DEF Undo, Goto, Value, CallState
  <2>2. QED BY <2>1, <1>s
<1>12. CASE Restore
  <2>1. Value' = Value
    BY <1>12 DEF Restore, Value
  <2>2. Atomic!Fail
    BY <1>12, <2>1 DEF Restore, Return, CallState, Atomic!Fail, Atomic!Return
  <2>3. QED BY <2>2 DEF Atomic!Next
<1>13. CASE Crash
  <2>1. Atomic!Die
    BY <1>13 DEF Crash, files, Value, CallState, Atomic!Die, Atomic!Return
  <2>2. QED BY <2>1 DEF Atomic!Next
<1>14. CASE Settle
  <2>1. Stutter
    BY <1>14 DEF Settle, files, Value, CallState
  <2>2. QED BY <2>1, <1>s
<1>15. CASE UNCHANGED vars
  <2>1. Stutter
    BY <1>15 DEF vars, Value, CallState
  <2>2. QED BY <2>1, <1>s
<1>16. QED
  BY <1>1, <1>2, <1>3, <1>4, <1>5, <1>6, <1>7, <1>8, <1>9, <1>10, <1>11, <1>12, <1>13, <1>14,
     <1>15 DEF Next, Start, Continue

\* dataAdapterFileReplace.ts implements an atomic file: its readers find one
\* complete image, changed only at the commit; a call that throws has changed
\* nothing unless a rename was misreported.
THEOREM Refinement == Spec => ImplementsAtomicFile
BY InitRefines, StepRefines, Invariance, PTL DEF Spec, Atomic!Spec, ImplementsAtomicFile
-----------------------------------------------------------------------------
(* DocStore. *)


Apart == None \notin Nat /\ None \notin Store!Item

LEMMA Larger ==
  ASSUME NEW a \in Nat, NEW b \in Nat
  PROVE  Store!Max({a, b}) \in {a, b} /\ Store!Max({a, b}) >= a /\ Store!Max({a, b}) >= b
<1>1. \E x \in {a, b} : \A y \in {a, b} : x >= y
  <2>1. CASE a >= b
    BY <2>1
  <2>2. CASE b >= a
    BY <2>2
  <2>3. QED BY <2>1, <2>2
<1>2. Store!Max({a, b}) \in {a, b} /\ \A y \in {a, b} : Store!Max({a, b}) >= y
  BY <1>1 DEF Store!Max
<1>3. QED BY <1>2

LEMMA Least ==
  ASSUME NEW N \in Nat \ {0}, Epochs = 1 .. N
  PROVE  Store!Min(Epochs) \in Epochs /\ Store!Max(Epochs) = N
<1>1. \E x \in Epochs : \A y \in Epochs : x <= y
  <2>1. 1 \in Epochs /\ \A y \in Epochs : 1 <= y
    OBVIOUS
  <2>2. QED BY <2>1
<1>2. Store!Min(Epochs) \in Epochs
  BY <1>1 DEF Store!Min
<1>3. \E x \in Epochs : \A y \in Epochs : x >= y
  <2>1. N \in Epochs /\ \A y \in Epochs : N >= y
    OBVIOUS
  <2>2. QED BY <2>1
<1>4. Store!Max(Epochs) \in Epochs /\ \A y \in Epochs : Store!Max(Epochs) >= y
  BY <1>3 DEF Store!Max
<1>5. N \in Epochs
  OBVIOUS
<1>6. QED BY <1>2, <1>4, <1>5

(* What is read of a file. *)

LEMMA RecoveredFile ==
  ASSUME NEW f \in Store!File
  PROVE  /\ Store!Recovered(f) \in Store!File
         /\ f.main # 0 => Store!Recovered(f).main = f.main
         /\ f.main = 0 => Store!Recovered(f).main = f.aside
BY DEF Store!Recovered, Store!File

LEMMA NotReplacedFile ==
  ASSUME NEW f \in Store!File, NEW g \in Store!NotReplaced(f)
  PROVE  g \in Store!File /\ Store!Recovered(g).main = Store!Recovered(f).main
BY DEF Store!NotReplaced, Store!Recovered, Store!File

LEMMA ReplacedFile ==
  ASSUME NEW f \in Store!File, NEW val \in Nat, NEW g \in Store!Replaced(f, val)
  PROVE  g \in Store!File /\ Store!Recovered(g).main >= val
BY DEF Store!Replaced, Store!Recovered, Store!File

LEMMA SavedFiles ==
  ASSUME copies \in [Store!Keys -> Store!File], NEW k \in Store!Keys, NEW val \in Nat, NEW after \in Store!Saved(k, val)
  PROVE  after \in [Store!Keys -> Store!File] /\ Store!Recovered(after[k]).main >= val
<1>1. PICK g \in Store!Replaced(Store!Recovered(copies[k]), val) : after = Store!Pruned([copies EXCEPT ![k] = g], k)
  BY DEF Store!Saved
<1>2. copies[k] \in Store!File /\ Store!Recovered(copies[k]) \in Store!File
  BY RecoveredFile
<1>3. g \in Store!File /\ Store!Recovered(g).main >= val
  BY <1>2, ReplacedFile
<1> DEFINE gs == [copies EXCEPT ![k] = g]
<1>4. gs \in [Store!Keys -> Store!File] /\ gs[k] = g
  BY <1>3
<1> HIDE DEF gs
<1>5. after[k] = gs[k]
  BY <1>1, <1>4 DEF Store!Pruned, gs
<1>6. \A j \in Store!Keys : after[j] \in Store!File
  <2> SUFFICES ASSUME NEW j \in Store!Keys PROVE after[j] \in Store!File
    OBVIOUS
  <2>1. after[j] = IF j[1] = k[1] /\ j[2] # k[2] THEN [gs[j] EXCEPT !.main = 0] ELSE gs[j]
    BY <1>1 DEF Store!Pruned, gs
  <2>2. gs[j] \in Store!File
    BY <1>4
  <2>3. [gs[j] EXCEPT !.main = 0] \in Store!File
    BY <2>2 DEF Store!File
  <2>4. QED BY <2>1, <2>2, <2>3
<1>7. after \in [Store!Keys -> Store!File]
  BY <1>1, <1>6 DEF Store!Pruned
<1>8. QED BY <1>3, <1>4, <1>5, <1>7

LEMMA MovedFiles ==
  ASSUME copies \in [Store!Keys -> Store!File], NEW k \in Store!Keys, NEW j \in Store!Keys
  PROVE  /\ Store!Moved(k, j) \in [Store!Keys -> Store!File]
         /\ \/ Store!Taken(k, j)
            \/ copies[k].main = 0 /\ copies[k].aside # 0
            \/ Store!Recovered(Store!Moved(k, j)[j]).main >= Store!Recovered(copies[k]).main
<1>1. copies[k] \in Store!File /\ copies[j] \in Store!File
  OBVIOUS
<1>2. CASE copies[k].main = 0 \/ Store!Taken(k, j)
  <2>1. Store!Moved(k, j) = copies
    BY <1>2 DEF Store!Moved
  <2>2. CASE Store!Taken(k, j)
    BY <2>1, <2>2
  <2>3. CASE copies[k].main = 0 /\ copies[k].aside # 0
    BY <2>1, <2>3
  <2>4. CASE copies[k].main = 0 /\ copies[k].aside = 0
    <3>1. Store!Recovered(copies[k]).main = 0 /\ Store!Recovered(copies[j]).main \in Nat
      BY <1>1, <2>4, RecoveredFile DEF Store!File
    <3>2. QED BY <2>1, <3>1
  <2>5. QED BY <1>2, <2>2, <2>3, <2>4
<1>3. CASE copies[k].main # 0 /\ copies[j].main = 0
  <2>1. k # j
    BY <1>3
  <2>2. Store!Moved(k, j) = [copies EXCEPT ![j].main = copies[k].main, ![k].main = 0]
    BY <1>3 DEF Store!Moved, Store!Taken
  <2>3. Store!Moved(k, j) \in [Store!Keys -> Store!File]
    BY <1>1, <2>2 DEF Store!File
  <2>4. Store!Moved(k, j)[j] = [copies[j] EXCEPT !.main = copies[k].main]
    BY <1>1, <2>1, <2>2
  <2>5. Store!Moved(k, j)[j].main = copies[k].main
    BY <1>1, <2>4 DEF Store!File
  <2>6. Store!Recovered(Store!Moved(k, j)[j]).main = copies[k].main
    BY <1>3, <2>3, <2>5, RecoveredFile
  <2>7. Store!Recovered(copies[k]).main = copies[k].main /\ copies[k].main \in Nat
    BY <1>1, <1>3, RecoveredFile DEF Store!File
  <2>8. QED BY <2>3, <2>6, <2>7
<1>4. QED BY <1>2, <1>3 DEF Store!Taken

(* The queue. *)

Pushed(use, edit) ==
  /\ queue' \in Seq(Store!Item) /\ Len(queue) \in Nat /\ Len(queue') = Len(queue) + 1
  /\ \A i \in 1 .. Len(queue) : queue'[i] = queue[i]
  /\ queue'[Len(queue) + 1].use = use /\ queue'[Len(queue) + 1].key = Store!Key
  /\ queue'[Len(queue) + 1].to = Store!Key' /\ queue'[Len(queue) + 1].edit = edit

Popped ==
  /\ Len(queue) \in Nat \ {0}
  /\ queue' \in Seq(Store!Item) /\ Len(queue') = Len(queue) - 1
  /\ \A i \in 1 .. Len(queue') : queue'[i] = queue[i + 1]

LEMMA KeyIsKey == ASSUME note \in [path : Paths, epoch : Epochs] PROVE Store!Key \in Store!Keys
BY DEF Store!Key, Store!Keys

LEMMA Pushes ==
  ASSUME Store!TypeOK, note' \in [path : Paths, epoch : Epochs], NEW use \in Store!Uses, NEW edit \in Nat,
         Store!Enqueue(use, edit)
  PROVE  Pushed(use, edit)
<1> DEFINE item == [use |-> use, key |-> Store!Key, to |-> <<note'.path, note'.epoch>>, edit |-> edit]
<1>1. Store!Key \in Store!Keys /\ <<note'.path, note'.epoch>> \in Store!Keys
  BY DEF Store!TypeOK, Store!Key, Store!Keys
<1>2. item \in Store!Item
  BY <1>1 DEF Store!Item
<1>3. item.use = use /\ item.key = Store!Key /\ item.to = <<note'.path, note'.epoch>> /\ item.edit = edit
  OBVIOUS
<1>4. Store!Key' = <<note'.path, note'.epoch>>
  BY DEF Store!Key
<1>5. queue' = Append(queue, item) /\ queue \in Seq(Store!Item)
  BY DEF Store!Enqueue, Store!TypeOK
<1> HIDE DEF item
<1>6. Append(queue, item) \in Seq(Store!Item) /\ Len(Append(queue, item)) = Len(queue) + 1
  BY <1>2, <1>5
<1>7. \A i \in 1 .. Len(queue) : Append(queue, item)[i] = queue[i]
  BY <1>2, <1>5
<1>8. Append(queue, item)[Len(queue) + 1] = item
  BY <1>2, <1>5
<1>9. Len(queue) \in Nat
  BY <1>5
<1>10. QED BY <1>3, <1>4, <1>5, <1>6, <1>7, <1>8, <1>9 DEF Pushed

LEMMA Pops ==
  ASSUME Store!TypeOK, queue # <<>>, NEW failed, Store!Leaves(failed)
  PROVE  Popped /\ Store!Turn = queue[1] /\ Store!Turn \in Store!Item
<1>1. queue \in Seq(Store!Item) /\ queue' = Tail(queue)
  BY DEF Store!TypeOK, Store!Leaves
<1>2. Len(queue) \in Nat \ {0}
  BY <1>1
<1>3. Tail(queue) \in Seq(Store!Item) /\ Len(Tail(queue)) = Len(queue) - 1
  BY <1>1
<1>4. \A i \in 1 .. Len(Tail(queue)) : Tail(queue)[i] = queue[i + 1]
  BY <1>1
<1>5. Head(queue) = queue[1] /\ queue[1] \in Store!Item
  BY <1>1, <1>2
<1>6. QED BY <1>1, <1>2, <1>3, <1>4, <1>5 DEF Popped, Store!Turn

LEMMA PushLeads ==
  ASSUME NEW use, NEW edit, Pushed(use, edit), Store!QueueLeadsToNote, use \notin Store!Moves => Store!Key' = Store!Key
  PROVE  Store!QueueLeadsToNote'
<1> DEFINE n == Len(queue)
<1>1. n \in Nat /\ Len(queue') = n + 1
  BY DEF Pushed
<1>2. ASSUME NEW i \in 1 .. Len(queue'), i > 1 PROVE queue'[i - 1].to = queue'[i].key
  BY <1>1, <1>2 DEF Pushed, Store!QueueLeadsToNote, Store!Places
<1>3. queue'[Len(queue')].to = Store!Key'
  BY <1>1 DEF Pushed
<1>4. ASSUME NEW i \in 1 .. Len(queue'), queue'[i].use \notin Store!Moves
      PROVE  queue'[i].to = queue'[i].key
  BY <1>1, <1>4 DEF Pushed, Store!QueueLeadsToNote, Store!Places
<1>5. ASSUME NEW i \in 1 .. Len(queue'), \A j \in i .. Len(queue') : queue'[j].use \notin Store!Moves
      PROVE  queue'[i].key = Store!Key'
  <2>1. queue'[n + 1].use \notin Store!Moves
    BY <1>1, <1>5
  <2>2. Store!Key' = Store!Key
    BY <2>1 DEF Pushed
  <2>3. CASE i = n + 1
    BY <2>2, <2>3 DEF Pushed
  <2>4. CASE i \in 1 .. n
    <3>1. \A j \in i .. n : queue[j].use \notin Store!Moves
      BY <1>1, <1>5, <2>4 DEF Pushed
    <3>2. QED BY <2>2, <2>4, <3>1 DEF Pushed, Store!QueueLeadsToNote, Store!Places
  <2>5. QED BY <1>1, <2>3, <2>4
<1>6. QED BY <1>2, <1>3, <1>4, <1>5 DEF Store!QueueLeadsToNote, Store!Places

LEMMA PopLeads ==
  ASSUME Popped, Store!QueueLeadsToNote, note' = note
  PROVE  Store!QueueLeadsToNote'
<1>1. Store!Key' = Store!Key
  BY DEF Store!Key
<1> DEFINE n == Len(queue')
<1>2. n \in Nat /\ Len(queue) = n + 1
  BY DEF Popped
<1>3. ASSUME NEW i \in 1 .. n, i > 1 PROVE queue'[i - 1].to = queue'[i].key
  BY <1>2, <1>3 DEF Popped, Store!QueueLeadsToNote, Store!Places
<1>4. n > 0 => queue'[n].to = Store!Key'
  BY <1>1, <1>2 DEF Popped, Store!QueueLeadsToNote, Store!Places
<1>5. ASSUME NEW i \in 1 .. n, queue'[i].use \notin Store!Moves PROVE queue'[i].to = queue'[i].key
  <2>1. i + 1 \in 1 .. Len(queue) /\ queue'[i] = queue[i + 1]
    BY <1>2 DEF Popped
  <2>2. QED BY <1>5, <2>1 DEF Store!QueueLeadsToNote, Store!Places
<1>6. ASSUME NEW i \in 1 .. n, \A j \in i .. n : queue'[j].use \notin Store!Moves
      PROVE  queue'[i].key = Store!Key'
  <2>1. ASSUME NEW j \in (i + 1) .. Len(queue) PROVE queue[j].use \notin Store!Moves
    <3>1. j - 1 \in i .. n /\ j - 1 \in 1 .. n /\ (j - 1) + 1 = j
      BY <1>2
    <3>2. queue'[j - 1].use \notin Store!Moves /\ queue'[j - 1] = queue[j]
      BY <1>6, <3>1 DEF Popped
    <3>3. QED BY <3>2
  <2>2. i + 1 \in 1 .. Len(queue)
    BY <1>2
  <2>3. queue[i + 1].key = Store!Key
    BY <2>1, <2>2 DEF Store!QueueLeadsToNote, Store!Places
  <2>4. QED BY <1>1, <2>3 DEF Popped
<1>7. QED BY <1>3, <1>4, <1>5, <1>6 DEF Store!QueueLeadsToNote, Store!Places

LEMMA PopNext ==
  ASSUME Popped, Store!QueueLeadsToNote, note' = note
  PROVE  Store!NextKey = queue[1].key /\ Store!NextKey' = queue[1].to
<1>1. Store!NextKey = queue[1].key
  BY DEF Popped, Store!NextKey
<1>2. Store!Key' = Store!Key
  BY DEF Store!Key
<1>3. CASE Len(queue) = 1
  BY <1>2, <1>3 DEF Popped, Store!NextKey, Store!QueueLeadsToNote, Store!Places
<1>4. CASE Len(queue) > 1
  <2>1. 2 \in 1 .. Len(queue) /\ 1 \in 1 .. Len(queue') /\ Len(queue') # 0
    BY <1>4 DEF Popped
  <2>2. Store!NextKey' = queue[2].key
    BY <2>1 DEF Popped, Store!NextKey
  <2>3. queue[1].to = queue[2].key
    <3>1. 2 > 1 /\ 2 - 1 = 1
      OBVIOUS
    <3>2. queue[2 - 1].to = queue[2].key
      BY <2>1, <3>1 DEF Store!QueueLeadsToNote, Store!Places
    <3>3. QED BY <3>1, <3>2
  <2>4. QED BY <1>1, <2>2, <2>3
<1>5. QED BY <1>1, <1>3, <1>4 DEF Popped

LEMMA PushNext ==
  ASSUME NEW use, NEW edit, Pushed(use, edit), Store!QueueLeadsToNote
  PROVE  Store!NextKey' = Store!NextKey
<1>1. CASE Len(queue) = 0
  BY <1>1 DEF Pushed, Store!NextKey
<1>2. CASE Len(queue) # 0
  BY <1>2 DEF Pushed, Store!NextKey
<1>3. QED BY <1>1, <1>2

\* Nothing is owed for what has another identity.
Owing == owed # 0 \/ session # None \/ retiring # None
Current == \A i \in Store!Places : queue[i].key[2] = note.epoch /\ queue[i].use # "deleteRoom"

LEMMA OwingIsCurrent == ASSUME Store!StaleOwesNothing, Owing PROVE Current
BY DEF Store!StaleOwesNothing, Owing, Current, Store!Stale

LEMMA PopStale ==
  ASSUME Popped, Store!StaleOwesNothing, note' = note, Owing' => Owing \/ Current
  PROVE  Store!StaleOwesNothing'
<1> DEFINE n == Len(queue')
<1>1. n \in Nat /\ Len(queue) = n + 1
  BY DEF Popped
<1>2. ASSUME NEW i \in 1 .. n PROVE i + 1 \in Store!Places /\ queue'[i] = queue[i + 1]
  BY <1>1 DEF Popped, Store!Places
<1>3. ASSUME NEW i \in 1 .. n PROVE queue'[i].key[2] <= note'.epoch
  BY <1>2 DEF Store!StaleOwesNothing
<1>4. ASSUME NEW i \in 1 .. n, queue'[i].use = "deleteEpoch" PROVE Store!Stale(i)'
  BY <1>2, <1>4 DEF Store!StaleOwesNothing, Store!Stale
<1>5. ASSUME NEW i \in 1 .. n, NEW j \in 1 .. n, i < j, Store!Stale(j)' PROVE Store!Stale(i)'
  <2>1. i + 1 < j + 1
    BY <1>1, <1>5
  <2>2. QED BY <1>2, <1>5, <2>1 DEF Store!StaleOwesNothing, Store!Stale
<1>6. ASSUME NEW i \in 1 .. n, Store!Stale(i)' \/ queue'[i].use = "deleteRoom"
      PROVE  owed' = 0 /\ session' = None /\ retiring' = None
  <2>1. ~Current
    BY <1>2, <1>6 DEF Current, Store!Stale
  <2>2. ~Owing'
    BY <2>1, OwingIsCurrent
  <2>3. QED BY <2>2 DEF Owing
<1>7. QED BY <1>3, <1>4, <1>5, <1>6 DEF Store!StaleOwesNothing, Store!Places

\* A use is queued that names the note; the note keeps its identity.
LEMMA PushStale ==
  ASSUME NEW use, NEW edit, Pushed(use, edit), Store!StaleOwesNothing, note \in [path : Paths, epoch : Epochs],
         Epochs \subseteq Nat, note'.epoch = note.epoch, use # "deleteEpoch",
         Owing' => Owing /\ use # "deleteRoom"
  PROVE  Store!StaleOwesNothing'
<1> DEFINE n == Len(queue)
<1>1. n \in Nat /\ Len(queue') = n + 1
  BY DEF Pushed
<1>2. queue'[n + 1].key[2] = note.epoch
  BY DEF Pushed, Store!Key
<1>3. ASSUME NEW i \in 1 .. (n + 1) PROVE i = n + 1 \/ (i \in Store!Places /\ queue'[i] = queue[i])
  BY <1>1 DEF Pushed, Store!Places
<1>4. ASSUME NEW i \in 1 .. (n + 1) PROVE queue'[i].key[2] <= note'.epoch
  <2>1. note.epoch \in Nat
    OBVIOUS
  <2>2. QED BY <1>2, <1>3, <2>1 DEF Store!StaleOwesNothing
<1>5. ASSUME NEW i \in 1 .. (n + 1), queue'[i].use = "deleteEpoch" PROVE Store!Stale(i)'
  BY <1>3, <1>5 DEF Store!StaleOwesNothing, Store!Stale, Pushed
<1>6. ASSUME NEW i \in 1 .. (n + 1), NEW j \in 1 .. (n + 1), i < j, Store!Stale(j)' PROVE Store!Stale(i)'
  <2>1. j # n + 1
    BY <1>2, <1>6 DEF Store!Stale
  <2>2. i # n + 1
    BY <1>1, <1>6, <2>1
  <2>3. QED BY <1>3, <1>6, <2>1, <2>2 DEF Store!StaleOwesNothing, Store!Stale
<1>7. ASSUME NEW i \in 1 .. (n + 1), Store!Stale(i)' \/ queue'[i].use = "deleteRoom"
      PROVE  owed' = 0 /\ session' = None /\ retiring' = None
  <2>1. CASE i = n + 1
    <3>1. use = "deleteRoom"
      BY <1>2, <1>7, <2>1 DEF Store!Stale, Pushed
    <3>2. QED BY <3>1 DEF Owing
  <2>2. CASE i \in Store!Places /\ queue'[i] = queue[i]
    <3>1. ~Current
      BY <1>7, <2>2 DEF Current, Store!Stale
    <3>2. ~Owing'
      BY <3>1, OwingIsCurrent
    <3>3. QED BY <3>2 DEF Owing
  <2>3. QED BY <1>3, <2>1, <2>2
<1>8. QED BY <1>1, <1>4, <1>5, <1>6, <1>7 DEF Store!StaleOwesNothing, Store!Places

LEMMA PopSession ==
  ASSUME Popped, Store!OneSession, note' = note, session' = session,
         session # None => retiring' = None /\ retained' = None
  PROVE  Store!OneSession'
<1> DEFINE n == Len(queue')
<1>1. n \in Nat /\ Len(queue) = n + 1
  BY DEF Popped
<1>2. ASSUME NEW i \in 1 .. n PROVE i + 1 \in Store!Places /\ queue'[i] = queue[i + 1]
  BY <1>1 DEF Popped, Store!Places
<1>3. ASSUME NEW i \in 1 .. n, queue'[i].use = "load" PROVE i = n /\ session' = None
  BY <1>1, <1>2, <1>3 DEF Store!OneSession
<1>4. ASSUME session' # None, NEW i \in 1 .. n PROVE queue'[i].use # "retire"
  BY <1>2, <1>4 DEF Store!OneSession
<1>5. QED BY <1>3, <1>4 DEF Store!OneSession, Store!Places


\* The retirement leaves the queue only to be retained.
LEMMA PopRetirement ==
  ASSUME Popped, Store!RetirementIsKept, note' = note, queue[1] # None,
         retiring' = retiring, queue[1].use = "retire" => retiring # None,
         IF queue[1].use = "retire" /\ retained = None THEN retained' = queue[1]
         ELSE retained' = retained
  PROVE  Store!RetirementIsKept'
<1> DEFINE n == Len(queue')
<1>1. n \in Nat /\ Len(queue) = n + 1 /\ 1 \in Store!Places
  BY DEF Popped, Store!Places
<1>2. ASSUME NEW i \in 1 .. n PROVE i + 1 \in Store!Places /\ queue'[i] = queue[i + 1] /\ i + 1 > 1
  BY <1>1 DEF Popped, Store!Places
<1>3. Store!Key' = Store!Key
  BY DEF Store!Key
<1>4. ASSUME retiring' # None PROVE retained' # None \/ \E i \in 1 .. n : queue'[i].use = "retire"
  <2>1. CASE queue[1].use = "retire"
    BY <2>1
  <2>2. CASE retained # None
    BY <2>2
  <2>3. CASE queue[1].use # "retire" /\ retained = None
    <3>1. PICK i \in Store!Places : queue[i].use = "retire"
      BY <1>4, <2>3 DEF Store!RetirementIsKept
    <3>2. i - 1 \in 1 .. n /\ (i - 1) + 1 = i
      BY <1>1, <2>3, <3>1 DEF Store!Places
    <3>3. queue'[i - 1].use = "retire"
      BY <1>2, <3>1, <3>2
    <3>4. QED BY <3>2, <3>3
  <2>4. QED BY <2>1, <2>2, <2>3
<1>5. ASSUME NEW i \in 1 .. n, queue'[i].use = "retire"
      PROVE  /\ retiring' # None /\ queue'[i].key = Store!Key'
             /\ \A j \in 1 .. n : j > i => queue'[j].key = Store!Key' /\ queue'[j].use = "load"
  <2>1. queue[i + 1].use = "retire" /\ i + 1 \in Store!Places /\ i + 1 # 1
    BY <1>1, <1>2, <1>5
  <2>2. retiring # None /\ queue[i + 1].key = Store!Key
    BY <2>1 DEF Store!RetirementIsKept
  <2>3. ASSUME NEW j \in 1 .. n, j > i PROVE queue'[j].key = Store!Key' /\ queue'[j].use = "load"
    <3>1. j + 1 \in Store!Places /\ j + 1 > i + 1
      BY <1>1, <1>2, <2>3
    <3>2. QED BY <1>2, <1>3, <2>1, <2>2, <3>1 DEF Store!RetirementIsKept
  <2>4. QED BY <1>2, <1>3, <2>2, <2>3
<1>6. ASSUME retained' # None
      PROVE  /\ retiring' # None /\ retained'.use = "retire" /\ retained'.key = Store!Key'
             /\ \A i \in 1 .. n : queue'[i].key = Store!Key' /\ queue'[i].use \in {"retire", "load"}
             /\ \A i \in 1 .. n : queue'[i].use = "retire" => i = 1
  <2>1. CASE retained # None
    <3>1. retained' = retained
      BY <2>1
    <3>2. ASSUME NEW i \in 1 .. n PROVE queue[i + 1].use # "retire"
      BY <1>1, <1>2, <2>1 DEF Store!RetirementIsKept
    <3>3. QED BY <1>2, <1>3, <2>1, <3>1, <3>2 DEF Store!RetirementIsKept
  <2>2. CASE retained = None
    <3>1. retained' = queue[1] /\ queue[1].use = "retire"
      BY <1>6, <2>2
    <3>2. retiring # None /\ queue[1].key = Store!Key
      BY <1>1, <3>1 DEF Store!RetirementIsKept
    <3>3. ASSUME NEW i \in 1 .. n PROVE queue[i + 1].key = Store!Key /\ queue[i + 1].use = "load"
      BY <1>1, <1>2, <3>1, <3>2 DEF Store!RetirementIsKept
    <3>4. QED BY <1>2, <1>3, <3>1, <3>2, <3>3
  <2>3. QED BY <2>1, <2>2
<1>7. QED BY <1>4, <1>5, <1>6 DEF Store!RetirementIsKept, Store!Places

LEMMA PopSaves ==
  ASSUME Popped, Store!SavesAdvance, note' = note, session' = session,
         retiring' # None => retiring' = retiring, strayed => strayed',
         owed' = owed \/ (queue[1].use = "save" /\ ~Store!Stale(1) /\ owed' \in {owed, queue[1].edit})
  PROVE  Store!SavesAdvance'
<1> DEFINE n == Len(queue')
<1>1. n \in Nat /\ Len(queue) = n + 1 /\ 1 \in Store!Places
  BY DEF Popped, Store!Places
<1>2. ASSUME NEW i \in 1 .. n PROVE i + 1 \in Store!Places /\ queue'[i] = queue[i + 1] /\ 1 < i + 1
  BY <1>1 DEF Popped, Store!Places
<1>3. ASSUME NEW i \in 1 .. n, queue'[i].use = "save"
      PROVE  /\ queue'[i].edit # 0
             /\ strayed' \/ queue'[i].edit >= owed'
             /\ session' # None => strayed' \/ session' >= queue'[i].edit
             /\ retiring' # None => strayed' \/ retiring' >= queue'[i].edit
  <2>1. queue[i + 1].use = "save"
    BY <1>2, <1>3
  <2>2. queue[i + 1].edit # 0 /\ (strayed \/ queue[i + 1].edit >= owed)
    BY <1>2, <2>1 DEF Store!SavesAdvance
  <2>3. session' # None => strayed' \/ session' >= queue'[i].edit
    BY <1>2, <2>1 DEF Store!SavesAdvance
  <2>4. retiring' # None => strayed' \/ retiring' >= queue'[i].edit
    BY <1>2, <2>1 DEF Store!SavesAdvance
  <2>5. CASE owed' = owed
    BY <1>2, <2>2, <2>3, <2>4, <2>5
  <2>6. CASE queue[1].use = "save" /\ ~Store!Stale(1) /\ owed' = queue[1].edit
    <3>1. strayed \/ queue[i + 1].edit >= queue[1].edit
      BY <1>1, <1>2, <2>1, <2>6 DEF Store!SavesAdvance
    <3>2. QED BY <1>2, <2>2, <2>3, <2>4, <2>6, <3>1
  <2>7. QED BY <2>5, <2>6
<1>4. ASSUME NEW i \in 1 .. n, NEW j \in 1 .. n, i < j,
             queue'[i].use = "save", queue'[j].use = "save"
      PROVE  strayed' \/ Store!Stale(i)' \/ queue'[j].edit >= queue'[i].edit
  <2>1. i + 1 < j + 1
    BY <1>1, <1>4
  <2>2. strayed \/ Store!Stale(i + 1) \/ queue[j + 1].edit >= queue[i + 1].edit
    BY <1>2, <1>4, <2>1 DEF Store!SavesAdvance
  <2>3. QED BY <1>2, <2>2 DEF Store!Stale
<1>5. QED BY <1>3, <1>4 DEF Store!SavesAdvance, Store!Places


LEMMA PushSession ==
  ASSUME NEW use, NEW edit, Pushed(use, edit), Store!OneSession, \A i \in Store!Places : queue[i].use # "load",
         session' \in {session, None}, use \in {"load", "retire"} => session' = None,
         session' # None => retiring' = retiring /\ retained' = retained
  PROVE  Store!OneSession'
<1> DEFINE n == Len(queue)
<1>1. n \in Nat /\ Len(queue') = n + 1
  BY DEF Pushed
<1>2. ASSUME NEW i \in 1 .. (n + 1)
      PROVE  (i = n + 1 /\ queue'[i].use = use) \/ (i \in Store!Places /\ queue'[i] = queue[i])
  BY <1>1 DEF Pushed, Store!Places
<1>3. ASSUME NEW i \in 1 .. (n + 1), queue'[i].use = "load" PROVE i = n + 1 /\ session' = None
  BY <1>2, <1>3
<1>4. ASSUME session' # None
      PROVE  retiring' = None /\ retained' = None
             /\ \A i \in 1 .. (n + 1) : queue'[i].use # "retire"
  BY <1>2, <1>4 DEF Store!OneSession
<1>5. QED BY <1>1, <1>3, <1>4 DEF Store!OneSession, Store!Places

LEMMA PushRetirement ==
  ASSUME NEW use, NEW edit, Pushed(use, edit), Store!RetirementIsKept, use # "retire",
         retiring # None => use = "load" /\ note' = note,
         retiring' = retiring, retained' = retained, spoiled' = spoiled
  PROVE  Store!RetirementIsKept'
<1> DEFINE n == Len(queue)
<1>1. n \in Nat /\ Len(queue') = n + 1
  BY DEF Pushed
<1>2. ASSUME NEW i \in 1 .. (n + 1)
      PROVE  \/ i = n + 1 /\ queue'[i].use = use /\ queue'[i].key = Store!Key
             \/ i \in Store!Places /\ queue'[i] = queue[i]
  BY <1>1 DEF Pushed, Store!Places
<1>3. ASSUME NEW i \in Store!Places PROVE i \in 1 .. (n + 1) /\ queue'[i] = queue[i] /\ i # n + 1
  BY <1>1 DEF Pushed, Store!Places
<1>4. ASSUME retiring' # None
      PROVE  retained' # None \/ \E i \in 1 .. (n + 1) : queue'[i].use = "retire"
  <2>1. CASE retained # None
    BY <2>1
  <2>2. CASE retained = None
    <3>1. PICK i \in Store!Places : queue[i].use = "retire"
      BY <1>4, <2>2 DEF Store!RetirementIsKept
    <3>2. QED BY <1>3, <3>1
  <2>3. QED BY <2>1, <2>2
<1>5. ASSUME NEW i \in 1 .. (n + 1), queue'[i].use = "retire"
      PROVE  IF retiring' = None THEN i = 1 /\ ~spoiled'
             ELSE /\ queue'[i].key = Store!Key'
                  /\ \A j \in 1 .. (n + 1) : j > i => queue'[j].key = Store!Key' /\ queue'[j].use = "load"
  <2>1. i \in Store!Places /\ queue[i].use = "retire"
    BY <1>2, <1>5
  <2>2. CASE retiring = None
    BY <2>1, <2>2 DEF Store!RetirementIsKept
  <2>3. CASE retiring # None
    <3>1. Store!Key' = Store!Key
      BY <2>3 DEF Store!Key
    <3>2. ASSUME NEW j \in 1 .. (n + 1), j > i PROVE queue'[j].key = Store!Key' /\ queue'[j].use = "load"
      BY <1>2, <2>1, <2>3, <3>1, <3>2 DEF Store!RetirementIsKept
    <3>3. QED BY <1>3, <2>1, <2>3, <3>1, <3>2 DEF Store!RetirementIsKept
  <2>4. QED BY <2>2, <2>3
<1>6. ASSUME retained' # None
      PROVE  /\ retiring' # None /\ retained'.use = "retire" /\ retained'.key = Store!Key'
             /\ \A i \in 1 .. (n + 1) :
                  queue'[i].key = Store!Key' /\ queue'[i].use \in {"retire", "load"}
             /\ \A i \in 1 .. (n + 1) : queue'[i].use = "retire" => i = 1
  <2>1. retiring # None
    BY <1>6 DEF Store!RetirementIsKept
  <2>2. Store!Key' = Store!Key
    BY <2>1 DEF Store!Key
  <2>3. QED BY <1>2, <1>6, <2>1, <2>2 DEF Store!RetirementIsKept
<1>7. QED BY <1>1, <1>4, <1>5, <1>6 DEF Store!RetirementIsKept, Store!Places

\* A save that is queued holds what the session does.
LEMMA PushSaves ==
  ASSUME NEW use, NEW edit, Pushed(use, edit), Store!SavesAdvance, Store!NothingOwedIsMissing,
         use = "save" => edit = session /\ session # None /\ session # 0 /\ session \in Nat
                       /\ retiring' = None /\ owed' = owed,
         strayed' = strayed, owed' \in {owed, 0}, \A i \in Store!Places : queue[i].edit \in Nat,
         \A i \in Store!Places : Store!Stale(i) => queue[i].key[2] # note'.epoch,
         session' # None => session' = session,
         retiring' # None => retiring' = retiring \/ retiring' = session
  PROVE  Store!SavesAdvance'
<1> DEFINE n == Len(queue)
<1>1. n \in Nat /\ Len(queue') = n + 1
  BY DEF Pushed
<1>2. ASSUME NEW i \in 1 .. (n + 1)
      PROVE  \/ i = n + 1 /\ queue'[i].use = use /\ queue'[i].edit = edit
             \/ i \in Store!Places /\ queue'[i] = queue[i]
  BY <1>1 DEF Pushed, Store!Places
<1>3. ASSUME NEW i \in 1 .. (n + 1), queue'[i].use = "save"
      PROVE  /\ queue'[i].edit # 0
             /\ strayed' \/ queue'[i].edit >= owed'
             /\ session' # None => strayed' \/ session' >= queue'[i].edit
             /\ retiring' # None => strayed' \/ retiring' >= queue'[i].edit
  <2>1. CASE i = n + 1 /\ queue'[i].use = use /\ queue'[i].edit = edit
    BY <1>3, <2>1 DEF Store!NothingOwedIsMissing
  <2>2. CASE i \in Store!Places /\ queue'[i] = queue[i]
    <3>1. queue[i].edit \in Nat /\ queue[i].use = "save"
      BY <1>3, <2>2
    <3>2. queue[i].edit # 0 /\ (strayed \/ queue[i].edit >= owed)
      BY <2>2, <3>1 DEF Store!SavesAdvance
    <3>3. session # None => strayed \/ session >= queue[i].edit
      BY <2>2, <3>1 DEF Store!SavesAdvance
    <3>4. retiring # None => strayed \/ retiring >= queue[i].edit
      BY <2>2, <3>1 DEF Store!SavesAdvance
    <3>5. strayed' \/ queue'[i].edit >= owed'
      BY <2>2, <3>1, <3>2
    <3>6. QED BY <2>2, <3>2, <3>3, <3>4, <3>5
  <2>3. QED BY <1>2, <2>1, <2>2
<1>4. ASSUME NEW i \in 1 .. (n + 1), NEW j \in 1 .. (n + 1), i < j,
             queue'[i].use = "save", queue'[j].use = "save"
      PROVE  strayed' \/ Store!Stale(i)' \/ queue'[j].edit >= queue'[i].edit
  <2>1. i \in Store!Places /\ queue'[i] = queue[i] /\ queue[i].use = "save"
    BY <1>1, <1>2, <1>4
  <2>2. CASE j = n + 1 /\ queue'[j].use = use /\ queue'[j].edit = edit
    <3>1. strayed \/ session >= queue[i].edit
      BY <1>4, <2>1, <2>2 DEF Store!SavesAdvance
    <3>2. QED BY <1>4, <2>1, <2>2, <3>1
  <2>3. CASE j \in Store!Places /\ queue'[j] = queue[j]
    <3>1. strayed \/ Store!Stale(i) \/ queue[j].edit >= queue[i].edit
      BY <1>4, <2>1, <2>3 DEF Store!SavesAdvance
    <3>2. Store!Stale(i) => Store!Stale(i)'
      BY <2>1 DEF Store!Stale
    <3>3. QED BY <2>1, <2>3, <3>1, <3>2
  <2>4. QED BY <1>2, <2>2, <2>3
<1>5. QED BY <1>1, <1>3, <1>4 DEF Store!SavesAdvance, Store!Places

LEMMA PushNothing ==
  ASSUME NEW use, NEW edit, Pushed(use, edit), Store!QueueLeadsToNote, Store!NothingOwedIsMissing, copies' = copies,
         strayed' = strayed, owed' \in {owed, 0}, edits' = edits, owed \in Nat, edits \in Nat,
         Store!Copy \in Nat,
         session \in Nat \cup {None}, retiring \in Nat \cup {None},
         session' # None => session' = session,
         retiring' # None => retiring' = retiring \/ (retiring' = session /\ session # None)
  PROVE  Store!NothingOwedIsMissing'
<1>1. Store!Copy' = Store!Copy
  BY PushNext DEF Store!Copy
<1>2. strayed' \/ Store!Copy' >= owed'
  BY <1>1 DEF Store!NothingOwedIsMissing
<1>3. session' # None => (strayed' \/ session' >= owed') /\ edits' >= session'
  BY DEF Store!NothingOwedIsMissing
<1>4. retiring' # None => (strayed' \/ retiring' >= owed') /\ edits' >= retiring'
  BY DEF Store!NothingOwedIsMissing
<1>5. edits' >= owed'
  BY DEF Store!NothingOwedIsMissing
<1>6. QED BY <1>2, <1>3, <1>4, <1>5 DEF Store!NothingOwedIsMissing

LEMMA Types ==
  ASSUME Store!TypeOK, Epochs \subseteq Nat
  PROVE  /\ Store!Key \in Store!Keys /\ Store!NextKey \in Store!Keys /\ Store!Copy \in Nat /\ note.epoch \in Nat
         /\ \A i \in Store!Places : queue[i] \in Store!Item /\ queue[i].edit \in Nat
<1>1. Store!Key \in Store!Keys /\ note.epoch \in Nat
  BY DEF Store!TypeOK, Store!Key, Store!Keys
<1>2. \A i \in Store!Places : queue[i] \in Store!Item
  BY DEF Store!TypeOK, Store!Places
<1>3. \A i \in Store!Places : queue[i].edit \in Nat /\ queue[i].key \in Store!Keys
  BY <1>2 DEF Store!Item
<1>4. Len(queue) # 0 => 1 \in Store!Places
  BY DEF Store!TypeOK, Store!Places
<1>5. Store!NextKey \in Store!Keys
  BY <1>1, <1>3, <1>4 DEF Store!NextKey
<1>6. copies[Store!NextKey] \in Store!File
  BY <1>5 DEF Store!TypeOK
<1>7. Store!Copy \in Nat
  BY <1>6, RecoveredFile DEF Store!Copy, Store!File
<1>8. QED BY <1>1, <1>2, <1>3, <1>5, <1>7

LEMMA NoWait == ASSUME NEW kinds, ~Store!Waits(kinds) PROVE \A i \in Store!Places : queue[i].use \notin kinds
BY DEF Store!Waits

LEMMA OpenKeeps ==
  ASSUME Apart, Epochs \subseteq Nat, Store!StoreInv, Store!Open
  PROVE  Store!StoreInv'
<1>1. /\ Store!TypeOK /\ Store!QueueLeadsToNote /\ Store!StaleOwesNothing /\ Store!OneSession /\ Store!RetirementIsKept
      /\ Store!SavesAdvance /\ Store!NothingOwedIsMissing /\ Store!LoadsSeeAll
  BY DEF Store!StoreInv
<1>2. note' = note /\ note' \in [path : Paths, epoch : Epochs]
  BY <1>1 DEF Store!TypeOK, Store!Open
<1>3. Pushed("load", 0)
  BY <1>1, <1>2, Pushes DEF Store!Uses, Store!Open
<1>4. Store!TypeOK'
  BY <1>1, <1>2, <1>3 DEF Store!TypeOK, Pushed, Store!Happens, Store!Open
<1>5. \A i \in Store!Places : queue[i].use # "load"
  BY NoWait DEF Store!Open
<1>6. Store!QueueLeadsToNote'
  BY <1>1, <1>2, <1>3, PushLeads DEF Store!Moves, Store!Key
<1>7. Store!StaleOwesNothing'
  BY <1>1, <1>2, <1>3, PushStale DEF Store!TypeOK, Store!OneSession, Owing, Store!Open
<1>8. Store!OneSession'
  BY <1>1, <1>3, <1>5, PushSession DEF Store!Open
<1>9. Store!RetirementIsKept'
  BY <1>1, <1>3, PushRetirement DEF Store!OneSession, Store!Open
<1>10. Store!SavesAdvance'
  BY <1>1, <1>2, <1>3, Types, PushSaves DEF Store!OneSession, Store!Stale, Store!Open
<1>11. Store!NothingOwedIsMissing'
  BY <1>1, <1>3, Types, PushNothing DEF Store!TypeOK, Store!Open
<1>12. Store!LoadsSeeAll'
  BY <1>1 DEF Store!LoadsSeeAll, Store!Open
<1>13. QED BY <1>4, <1>6, <1>7, <1>8, <1>9, <1>10, <1>11, <1>12 DEF Store!StoreInv

LEMMA PersistKeeps ==
  ASSUME Apart, Epochs \subseteq Nat, Store!StoreInv, Store!Persist
  PROVE  Store!StoreInv'
<1>1. /\ Store!TypeOK /\ Store!QueueLeadsToNote /\ Store!StaleOwesNothing /\ Store!OneSession /\ Store!RetirementIsKept
      /\ Store!SavesAdvance /\ Store!NothingOwedIsMissing /\ Store!LoadsSeeAll
  BY DEF Store!StoreInv
<1>2. note' = note /\ note' \in [path : Paths, epoch : Epochs] /\ session \in Nat
  BY <1>1 DEF Store!TypeOK, Store!Persist
<1>3. Pushed("save", session)
  BY <1>1, <1>2, Pushes DEF Store!Uses, Store!Persist
<1>4. Store!TypeOK'
  BY <1>1, <1>2, <1>3 DEF Store!TypeOK, Pushed, Store!Happens, Store!Persist
<1>5. \A i \in Store!Places : queue[i].use # "load"
  BY <1>1 DEF Store!OneSession, Store!Persist
<1>6. Store!QueueLeadsToNote'
  BY <1>1, <1>2, <1>3, PushLeads DEF Store!Moves, Store!Key
<1>7. Store!StaleOwesNothing'
  BY <1>1, <1>2, <1>3, PushStale DEF Store!TypeOK, Store!OneSession, Owing, Store!Persist
<1>8. Store!OneSession'
  BY <1>1, <1>3, <1>5, PushSession DEF Store!Persist
<1>9. Store!RetirementIsKept'
  BY <1>1, <1>3, PushRetirement DEF Store!OneSession, Store!Persist
<1>10. Store!SavesAdvance'
  BY <1>1, <1>2, <1>3, Types, PushSaves DEF Store!OneSession, Store!Stale, Store!Persist
<1>11. Store!NothingOwedIsMissing'
  BY <1>1, <1>3, Types, PushNothing DEF Store!TypeOK, Store!Persist
<1>12. Store!LoadsSeeAll'
  BY <1>1 DEF Store!LoadsSeeAll, Store!Persist
<1>13. QED BY <1>4, <1>6, <1>7, <1>8, <1>9, <1>10, <1>11, <1>12 DEF Store!StoreInv

LEMMA LeaveRoomKeeps ==
  ASSUME Apart, Epochs \subseteq Nat, Store!StoreInv, Store!LeaveRoom
  PROVE  Store!StoreInv'
<1>1. /\ Store!TypeOK /\ Store!QueueLeadsToNote /\ Store!StaleOwesNothing /\ Store!OneSession /\ Store!RetirementIsKept
      /\ Store!SavesAdvance /\ Store!NothingOwedIsMissing /\ Store!LoadsSeeAll
  BY DEF Store!StoreInv
<1>2. note' = note /\ note' \in [path : Paths, epoch : Epochs]
  BY <1>1 DEF Store!TypeOK, Store!LeaveRoom
<1>3. Pushed("deleteRoom", 0)
  BY <1>1, <1>2, Pushes DEF Store!Uses, Store!LeaveRoom
<1>4. Store!TypeOK'
  BY <1>1, <1>2, <1>3 DEF Store!TypeOK, Pushed, Store!Happens, Store!LeaveRoom
<1>5. \A i \in Store!Places : queue[i].use # "load"
  BY <1>1 DEF Store!OneSession, Store!LeaveRoom
<1>6. Store!QueueLeadsToNote'
  BY <1>1, <1>2, <1>3, PushLeads DEF Store!Moves, Store!Key
<1>7. Store!StaleOwesNothing'
  BY <1>1, <1>2, <1>3, PushStale DEF Store!TypeOK, Store!OneSession, Owing, Store!LeaveRoom
<1>8. Store!OneSession'
  BY <1>1, <1>3, <1>5, PushSession DEF Store!LeaveRoom
<1>9. Store!RetirementIsKept'
  BY <1>1, <1>3, PushRetirement DEF Store!OneSession, Store!LeaveRoom
<1>10. Store!SavesAdvance'
  BY <1>1, <1>2, <1>3, Types, PushSaves DEF Store!OneSession, Store!Stale, Store!LeaveRoom
<1>11. Store!NothingOwedIsMissing'
  BY <1>1, <1>3, Types, PushNothing DEF Store!TypeOK, Store!LeaveRoom
<1>12. Store!LoadsSeeAll'
  BY <1>1 DEF Store!LoadsSeeAll, Store!LeaveRoom
<1>13. QED BY <1>4, <1>6, <1>7, <1>8, <1>9, <1>10, <1>11, <1>12 DEF Store!StoreInv

LEMMA RenameKeeps ==
  ASSUME Apart, Epochs \subseteq Nat, Store!StoreInv, NEW p \in Paths, Store!Rename(p)
  PROVE  Store!StoreInv'
<1>1. /\ Store!TypeOK /\ Store!QueueLeadsToNote /\ Store!StaleOwesNothing /\ Store!OneSession /\ Store!RetirementIsKept
      /\ Store!SavesAdvance /\ Store!NothingOwedIsMissing /\ Store!LoadsSeeAll
  BY DEF Store!StoreInv
<1>2. note'.epoch = note.epoch /\ note' \in [path : Paths, epoch : Epochs]
  BY <1>1 DEF Store!TypeOK, Store!Rename
<1>3. Pushed("rename", 0)
  BY <1>1, <1>2, Pushes DEF Store!Uses, Store!Rename
<1>4. Store!TypeOK'
  BY <1>1, <1>2, <1>3 DEF Store!TypeOK, Pushed, Store!Happens, Store!Rename
<1>5. \A i \in Store!Places : queue[i].use # "load"
  BY NoWait DEF Store!Rename
<1>6. Store!QueueLeadsToNote'
  BY <1>1, <1>2, <1>3, PushLeads DEF Store!Moves, Store!Key
<1>7. Store!StaleOwesNothing'
  BY <1>1, <1>2, <1>3, PushStale DEF Store!TypeOK, Store!OneSession, Owing, Store!Rename
<1>8. Store!OneSession'
  BY <1>1, <1>3, <1>5, PushSession DEF Store!Rename
<1>9. Store!RetirementIsKept'
  BY <1>1, <1>3, PushRetirement DEF Store!OneSession, Store!Rename
<1>10. Store!SavesAdvance'
  BY <1>1, <1>2, <1>3, Types, PushSaves DEF Store!OneSession, Store!Stale, Store!Rename
<1>11. Store!NothingOwedIsMissing'
  BY <1>1, <1>3, Types, PushNothing DEF Store!TypeOK, Store!Rename
<1>12. Store!LoadsSeeAll'
  BY <1>1 DEF Store!LoadsSeeAll, Store!Rename
<1>13. QED BY <1>4, <1>6, <1>7, <1>8, <1>9, <1>10, <1>11, <1>12 DEF Store!StoreInv

LEMMA DisposeKeeps ==
  ASSUME Apart, Epochs \subseteq Nat, Store!StoreInv, Store!Dispose
  PROVE  Store!StoreInv'
<1>1. /\ Store!TypeOK /\ Store!QueueLeadsToNote /\ Store!StaleOwesNothing /\ Store!OneSession /\ Store!RetirementIsKept
      /\ Store!SavesAdvance /\ Store!NothingOwedIsMissing /\ Store!LoadsSeeAll
  BY DEF Store!StoreInv
<1>2. note' = note /\ note' \in [path : Paths, epoch : Epochs]
  BY <1>1 DEF Store!TypeOK, Store!Dispose
<1>3. Pushed("retire", 0)
  BY <1>1, <1>2, Pushes DEF Store!Uses, Store!Dispose
<1>4. Store!TypeOK'
  BY <1>1, <1>2, <1>3 DEF Store!TypeOK, Pushed, Store!Dispose
<1>5. \A i \in Store!Places : queue[i].use # "load"
  <2>1. CASE session # None
    BY <1>1, <2>1 DEF Store!OneSession
  <2>2. CASE ~Store!Waits({"retire", "load"})
    BY <2>2, NoWait
  <2>3. QED BY <2>1, <2>2 DEF Store!Dispose
<1>6. Store!QueueLeadsToNote'
  BY <1>1, <1>2, <1>3, PushLeads DEF Store!Moves, Store!Key
<1>7. Store!StaleOwesNothing'
  BY <1>1, <1>2, <1>3, PushStale DEF Store!TypeOK, Owing, Store!Dispose
<1>8. Store!OneSession'
  BY <1>1, <1>3, <1>5, PushSession DEF Store!Dispose
<1>9. Store!RetirementIsKept'
  <2> DEFINE n == Len(queue)
  <2>1. n \in Nat /\ Len(queue') = n + 1 /\ Store!Key' = Store!Key /\ retained' = retained /\ retiring' # None
    BY <1>2, <1>3 DEF Pushed, Store!Dispose, Store!Key
  <2>2. ASSUME NEW i \in Store!Places PROVE queue[i].use # "retire"
    <3>1. CASE session # None
      BY <1>1, <2>2, <3>1 DEF Store!OneSession
    <3>2. CASE ~Store!Waits({"retire", "load"})
      BY <2>2, <3>2, NoWait
    <3>3. QED BY <3>1, <3>2 DEF Store!Dispose
  <2>3. ASSUME NEW i \in 1 .. (n + 1)
        PROVE  \/ i = n + 1 /\ queue'[i].use = "retire" /\ queue'[i].key = Store!Key
               \/ i \in Store!Places /\ queue'[i] = queue[i]
    BY <1>3, <2>1 DEF Pushed, Store!Places
  <2>4. n + 1 \in 1 .. (n + 1) /\ queue'[n + 1].use = "retire"
    BY <1>3, <2>1 DEF Pushed
  <2>5. ASSUME NEW i \in 1 .. (n + 1), queue'[i].use = "retire"
        PROVE  i = n + 1 /\ queue'[i].key = Store!Key'
    BY <2>1, <2>2, <2>3, <2>5
  <2>6. ASSUME retained' # None
        PROVE  n = 0 /\ retained.use = "retire" /\ retained.key = Store!Key
    <3>1. retained # None /\ session = None
      BY <1>1, <2>1, <2>6 DEF Store!OneSession
    <3>2. \A i \in Store!Places : queue[i].use \notin {"retire", "load"}
      BY <3>1, NoWait DEF Store!Dispose
    <3>3. \A i \in Store!Places : FALSE
      BY <1>1, <3>1, <3>2 DEF Store!RetirementIsKept
    <3>4. n = 0
      BY <2>1, <3>3 DEF Store!Places
    <3>5. QED BY <1>1, <3>1, <3>4 DEF Store!RetirementIsKept
  <2>7. ASSUME retained' # None
        PROVE  /\ \A i \in 1 .. (n + 1) : queue'[i].key = Store!Key' /\ queue'[i].use \in {"retire", "load"}
               /\ \A i \in 1 .. (n + 1) : queue'[i].use = "retire" => i = 1
    BY <2>1, <2>3, <2>6, <2>7 DEF Store!Places
  <2>8. QED BY <2>1, <2>4, <2>5, <2>6, <2>7 DEF Store!RetirementIsKept, Store!Places
<1>10. Store!SavesAdvance'
  BY <1>1, <1>2, <1>3, Types, PushSaves DEF Store!OneSession, Store!Stale, Store!Dispose
<1>11. Store!NothingOwedIsMissing'
  BY <1>1, <1>3, Types, PushNothing DEF Store!TypeOK, Store!Dispose
<1>12. Store!LoadsSeeAll'
  BY <1>1 DEF Store!LoadsSeeAll, Store!Dispose
<1>13. QED BY <1>4, <1>6, <1>7, <1>8, <1>9, <1>10, <1>11, <1>12 DEF Store!StoreInv

LEMMA NewEpochKeeps ==
  ASSUME Apart, NEW N \in Nat \ {0}, Epochs = 1 .. N, Store!StoreInv, Store!NewEpoch
  PROVE  Store!StoreInv'
<1>1. /\ Store!TypeOK /\ Store!QueueLeadsToNote /\ Store!StaleOwesNothing /\ Store!OneSession /\ Store!RetirementIsKept
      /\ Store!SavesAdvance /\ Store!NothingOwedIsMissing /\ Store!LoadsSeeAll /\ Epochs \subseteq Nat
  BY DEF Store!StoreInv
<1>2. /\ note' \in [path : Paths, epoch : Epochs] /\ note'.epoch = note.epoch + 1
      /\ note.epoch \in Nat
  BY <1>1, Least DEF Store!TypeOK, Store!NewEpoch
<1>3. Pushed("deleteEpoch", 0)
  BY <1>1, <1>2, Pushes DEF Store!Uses, Store!NewEpoch
<1>4. Store!TypeOK'
  BY <1>1, <1>2, <1>3 DEF Store!TypeOK, Pushed, Store!Happens, Store!NewEpoch
<1>5. \A i \in Store!Places : queue[i].use # "load"
  BY NoWait DEF Store!NewEpoch
<1>6. Store!QueueLeadsToNote'
  BY <1>1, <1>3, PushLeads DEF Store!Moves
<1>7. ASSUME NEW i \in Store!Places PROVE queue[i].key[2] <= note.epoch /\ queue[i].key[2] \in Nat
  <2>1. queue[i].key \in Store!Keys
    BY <1>1, Types DEF Store!Item
  <2>2. QED BY <1>1, <2>1 DEF Store!StaleOwesNothing, Store!Keys
<1>8. Store!StaleOwesNothing'
  <2>1. ASSUME NEW i \in Store!Places' PROVE queue'[i].key[2] <= note.epoch /\ queue'[i].key[2] \in Nat
    <3>1. CASE i \in Store!Places
      BY <1>3, <1>7, <3>1 DEF Pushed, Store!Places
    <3>2. CASE i = Len(queue) + 1
      BY <1>2, <1>3, <3>2 DEF Pushed, Store!Key
    <3>3. QED BY <1>3, <3>1, <3>2 DEF Pushed, Store!Places
  <2>2. ASSUME NEW i \in Store!Places' PROVE queue'[i].key[2] <= note'.epoch /\ queue'[i].key[2] # note'.epoch
    BY <1>2, <2>1
  <2>3. owed' = 0 /\ session' = None /\ retiring' = None
    BY DEF Store!NewEpoch
  <2>4. QED BY <2>2, <2>3 DEF Store!StaleOwesNothing, Store!Stale
<1>9. Store!OneSession'
  BY <1>1, <1>3, <1>5, PushSession DEF Store!NewEpoch
<1>10. Store!RetirementIsKept'
  BY <1>1, <1>3, PushRetirement DEF Store!NewEpoch
<1>11. Store!SavesAdvance'
  <2>1. \A i \in Store!Places : Store!Stale(i) => queue[i].key[2] # note'.epoch
    BY <1>2, <1>7
  <2>2. QED BY <1>1, <1>3, <2>1, Types, PushSaves DEF Store!NewEpoch
<1>12. Store!NothingOwedIsMissing'
  BY <1>1, <1>3, Types, PushNothing DEF Store!TypeOK, Store!NewEpoch
<1>13. Store!LoadsSeeAll'
  BY <1>1 DEF Store!LoadsSeeAll, Store!NewEpoch
<1>14. QED BY <1>4, <1>6, <1>8, <1>9, <1>10, <1>11, <1>12, <1>13 DEF Store!StoreInv

LEMMA TurnIsFirst ==
  ASSUME Store!TypeOK, queue # <<>>
  PROVE  Store!Turn = queue[1] /\ 1 \in Store!Places /\ Store!Turn \in Store!Item /\ Store!Turn.key \in Store!Keys /\ Store!Turn.to \in Store!Keys
         /\ Store!Turn.edit \in Nat /\ Store!NextKey = Store!Turn.key
<1>1. queue \in Seq(Store!Item)
  BY DEF Store!TypeOK
<1>2. Len(queue) \in Nat \ {0} /\ Head(queue) = queue[1]
  BY <1>1
<1>3. Store!Turn = queue[1] /\ 1 \in Store!Places /\ queue[1] \in Store!Item
  BY <1>1, <1>2 DEF Store!Turn, Store!Places
<1>4. Store!NextKey = Store!Turn.key
  BY <1>2, <1>3 DEF Store!NextKey
<1>5. QED BY <1>3, <1>4 DEF Store!Item

LEMMA EditKeeps ==
  ASSUME Apart, Epochs \subseteq Nat, Store!StoreInv, Store!Edit
  PROVE  Store!StoreInv'
<1>1. /\ Store!TypeOK /\ Store!QueueLeadsToNote /\ Store!StaleOwesNothing /\ Store!OneSession /\ Store!RetirementIsKept
      /\ Store!SavesAdvance /\ Store!NothingOwedIsMissing /\ Store!LoadsSeeAll
  BY DEF Store!StoreInv
<1>2. /\ queue' = queue /\ note' = note /\ copies' = copies /\ owed' = owed /\ strayed' = strayed
      /\ spoiled' = spoiled /\ retained' = retained /\ edits' = edits + 1 /\ edits \in Nat
  BY <1>1 DEF Store!Edit, Store!TypeOK
<1>3. IF session = None THEN session' = None ELSE session' = edits' /\ session \in Nat
  BY <1>1 DEF Store!Edit, Store!TypeOK, Store!OneSession, Apart
<1>4. IF retiring = None THEN retiring' = None ELSE retiring' = edits' /\ retiring \in Nat
  BY <1>1 DEF Store!Edit, Store!TypeOK, Store!OneSession, Apart
<1>5. session' # None <=> session # None
  BY <1>2, <1>3 DEF Apart
<1>6. retiring' # None <=> retiring # None
  BY <1>2, <1>4 DEF Apart
<1>7. Store!TypeOK'
  BY <1>1, <1>2, <1>3, <1>4 DEF Store!TypeOK, Store!Edit
<1>8. Store!QueueLeadsToNote'
  BY <1>1, <1>2 DEF Store!QueueLeadsToNote, Store!Places, Store!Key
<1>9. Store!StaleOwesNothing'
  BY <1>1, <1>2, <1>5, <1>6 DEF Store!StaleOwesNothing, Store!Places, Store!Stale
<1>10. Store!OneSession'
  BY <1>1, <1>2, <1>5, <1>6 DEF Store!OneSession, Store!Places
<1>11. Store!RetirementIsKept'
  BY <1>1, <1>2, <1>6 DEF Store!RetirementIsKept, Store!Places, Store!Key
<1>12. Store!SavesAdvance'
  <2>1. ASSUME NEW i \in Store!Places, queue[i].use = "save"
        PROVE  /\ session' # None => strayed \/ session' >= queue[i].edit
               /\ retiring' # None => strayed \/ retiring' >= queue[i].edit
    <3>1. queue[i].edit \in Nat
      BY <1>1, Types
    <3>2. session # None => strayed \/ session >= queue[i].edit
      BY <1>1, <2>1 DEF Store!SavesAdvance
    <3>3. retiring # None => strayed \/ retiring >= queue[i].edit
      BY <1>1, <2>1 DEF Store!SavesAdvance
    <3>4. session # None => edits >= session
      BY <1>1 DEF Store!NothingOwedIsMissing
    <3>5. retiring # None => edits >= retiring
      BY <1>1 DEF Store!NothingOwedIsMissing
    <3>6. QED BY <1>2, <1>3, <1>4, <3>1, <3>2, <3>3, <3>4, <3>5
  <2>2. QED BY <1>1, <1>2, <2>1 DEF Store!SavesAdvance, Store!Places, Store!Stale
<1>13. Store!NothingOwedIsMissing'
  <2>1. Store!Copy' = Store!Copy
    BY <1>2 DEF Store!Copy, Store!NextKey, Store!Key
  <2>2. owed \in Nat /\ edits >= owed /\ (strayed \/ Store!Copy >= owed)
    BY <1>1 DEF Store!NothingOwedIsMissing, Store!TypeOK
  <2>3. QED BY <1>2, <1>3, <1>4, <2>1, <2>2 DEF Store!NothingOwedIsMissing
<1>14. Store!LoadsSeeAll'
  BY <1>1 DEF Store!LoadsSeeAll, Store!Edit
<1>15. QED BY <1>7, <1>8, <1>9, <1>10, <1>11, <1>12, <1>13, <1>14 DEF Store!StoreInv

LEMMA DemandIs ==
  ASSUME Apart, Store!TypeOK
  PROVE  /\ Store!Demand \in Nat
         /\ retiring = None => Store!Demand = owed
         /\ retiring # None => Store!Demand \in {owed, retiring} /\ retiring \in Nat
BY Larger DEF Store!Demand, Store!TypeOK

LEMMA RetryFirstKeeps ==
  ASSUME Apart, Epochs \subseteq Nat, Store!StoreInv, Store!RetryFirst
  PROVE  Store!StoreInv'
<1>1. /\ Store!TypeOK /\ Store!QueueLeadsToNote /\ Store!StaleOwesNothing /\ Store!OneSession /\ Store!RetirementIsKept
      /\ Store!SavesAdvance /\ Store!NothingOwedIsMissing /\ Store!LoadsSeeAll
  BY DEF Store!StoreInv
<1>2. retiring # None /\ retained.key = Store!Key /\ session = None
  BY <1>1 DEF Store!RetryFirst, Store!RetirementIsKept, Store!OneSession
<1>3. /\ queue' = queue /\ note' = note /\ strayed' = strayed /\ spoiled' = spoiled /\ ~spoiled
      /\ retained' = None /\ retiring' = None /\ session' = None /\ edits' = edits
      /\ owed' = Store!Demand
  BY <1>2 DEF Store!RetryFirst
<1>4. retiring \in Nat /\ owed \in Nat /\ edits \in Nat /\ owed' \in {owed, retiring} /\ owed' \in Nat
  BY <1>1, <1>2, <1>3, DemandIs DEF Store!TypeOK
<1>5. Store!Key \in Store!Keys /\ copies \in [Store!Keys -> Store!File]
  BY <1>1, Types DEF Store!TypeOK
<1>6. copies' \in [Store!Keys -> Store!File] /\ Store!Recovered(copies'[Store!Key]).main >= retiring
  <2>1. copies' \in Store!Saved(Store!Key, retiring)
    BY <1>2 DEF Store!RetryFirst
  <2>2. QED BY <1>4, <1>5, <2>1, SavedFiles
<1>7. Store!NextKey = Store!Key /\ 1 \in Store!Places
  <2>1. Store!NextKey = queue[1].key /\ 1 \in Store!Places
    BY <1>1, TurnIsFirst DEF Store!RetryFirst
  <2>2. QED BY <1>1, <2>1 DEF Store!RetryFirst, Store!RetirementIsKept
<1>8. Store!Copy' >= retiring /\ Store!Copy' \in Nat
  <2>1. Store!Copy' = Store!Recovered(copies'[Store!Key]).main
    BY <1>3, <1>7 DEF Store!Copy, Store!NextKey, Store!Key
  <2>2. Store!Recovered(copies'[Store!Key]) \in Store!File
    BY <1>5, <1>6, RecoveredFile
  <2>3. QED BY <1>6, <2>1, <2>2 DEF Store!File
<1>9. Current
  BY <1>1, <1>2, OwingIsCurrent DEF Owing
<1>10. Store!TypeOK'
  BY <1>1, <1>3, <1>4, <1>6 DEF Store!TypeOK, Store!RetryFirst
<1>11. Store!QueueLeadsToNote'
  BY <1>1, <1>3 DEF Store!QueueLeadsToNote, Store!Places, Store!Key
<1>12. Store!StaleOwesNothing'
  BY <1>1, <1>3, <1>9 DEF Store!StaleOwesNothing, Store!Places, Store!Stale, Current
<1>13. Store!OneSession'
  BY <1>1, <1>3 DEF Store!OneSession, Store!Places
<1>14. Store!RetirementIsKept'
  BY <1>1, <1>3 DEF Store!RetirementIsKept, Store!Places, Store!RetryFirst
<1>15. Store!SavesAdvance'
  <2>1. \A i \in Store!Places : queue[i].use # "save"
    BY <1>1 DEF Store!RetryFirst, Store!RetirementIsKept
  <2>2. QED BY <1>3, <2>1 DEF Store!SavesAdvance, Store!Places
<1>16. Store!NothingOwedIsMissing'
  <2>1. strayed \/ retiring >= owed
    BY <1>1, <1>2 DEF Store!NothingOwedIsMissing
  <2>3. strayed' \/ Store!Copy' >= owed'
    BY <1>3, <1>4, <1>8, <2>1
  <2>4. edits' >= owed'
    BY <1>1, <1>2, <1>3, <1>4 DEF Store!NothingOwedIsMissing
  <2>5. QED BY <1>3, <2>3, <2>4 DEF Store!NothingOwedIsMissing
<1>17. Store!LoadsSeeAll'
  BY <1>1 DEF Store!LoadsSeeAll, Store!RetryFirst
<1>18. QED BY <1>10, <1>11, <1>12, <1>13, <1>14, <1>15, <1>16, <1>17 DEF Store!StoreInv

LEMMA CrashKeeps ==
  ASSUME Apart, Epochs \subseteq Nat, Store!StoreInv, Store!Crash
  PROVE  Store!StoreInv'
<1>1. /\ Store!TypeOK /\ Store!QueueLeadsToNote /\ Store!StaleOwesNothing /\ Store!OneSession /\ Store!RetirementIsKept
      /\ Store!SavesAdvance /\ Store!NothingOwedIsMissing /\ Store!LoadsSeeAll
  BY DEF Store!StoreInv
<1>2. /\ queue' = <<>> /\ note' = note /\ strayed' = strayed /\ edits' = edits
      /\ retained' = None /\ retiring' = None /\ session' = None
      /\ owed' = IF Store!Waits({"rename"}) THEN 0 ELSE owed
      /\ spoiled' = FALSE /\ loaded' = loaded /\ happened' = happened + 1
  BY DEF Store!Crash, Store!Happens
<1>3. Len(queue') = 0 /\ queue' \in Seq(Store!Item) /\ Store!Key' = Store!Key /\ Store!NextKey' = Store!Key
  <2>1. Len(queue') = 0 /\ queue' \in Seq(Store!Item)
    BY <1>2
  <2>2. QED BY <1>2, <2>1 DEF Store!Key, Store!NextKey
<1>4. Store!Key \in Store!Keys /\ copies \in [Store!Keys -> Store!File] /\ owed \in Nat /\ edits \in Nat
  BY <1>1, Types DEF Store!TypeOK
<1>5. copies' \in [Store!Keys -> Store!File] /\ Store!Recovered(copies'[Store!Key]).main = Store!Recovered(copies[Store!Key]).main
  <2>1. CASE copies' = copies
    BY <1>4, <2>1
  <2>2. CASE queue # <<>> /\ \E f \in Store!NotReplaced(copies[Store!Turn.key]) :
                                copies' = [copies EXCEPT ![Store!Turn.key] = f]
    <3>1. Store!Turn.key \in Store!Keys
      BY <1>1, <2>2, TurnIsFirst
    <3>2. PICK f \in Store!NotReplaced(copies[Store!Turn.key]) : copies' = [copies EXCEPT ![Store!Turn.key] = f]
      BY <2>2
    <3>3. f \in Store!File /\ Store!Recovered(f).main = Store!Recovered(copies[Store!Turn.key]).main
      BY <1>4, <3>1, NotReplacedFile
    <3>4. QED BY <1>4, <3>1, <3>2, <3>3
  <2>3. QED BY <2>1, <2>2 DEF Store!Crash, Store!Runs
<1>6. Store!Copy' = Store!Recovered(copies[Store!Key]).main
  BY <1>3, <1>5 DEF Store!Copy
<1>7. strayed \/ Store!Copy' >= owed'
  <2>1. CASE owed' = 0
    <3>1. Store!Recovered(copies[Store!Key]) \in Store!File
      BY <1>4, RecoveredFile
    <3>2. QED BY <1>6, <2>1, <3>1 DEF Store!File
  <2>2. CASE owed' = owed /\ owed # 0 /\ ~Store!Waits({"rename"})
    <3>1. Current
      BY <1>1, <2>2, OwingIsCurrent DEF Owing
    <3>2. \A i \in Store!Places : queue[i].use \notin Store!Moves
      BY <1>1, <2>2, <3>1, NoWait DEF Current, Store!StaleOwesNothing, Store!Stale, Store!Moves
    <3>3. Store!NextKey = Store!Key
      <4>1. CASE Len(queue) = 0
        BY <4>1 DEF Store!NextKey
      <4>2. CASE Len(queue) # 0
        <5>1. 1 \in Store!Places /\ Store!NextKey = queue[1].key
          BY <1>1, <4>2 DEF Store!Places, Store!NextKey, Store!TypeOK
        <5>2. QED BY <1>1, <3>2, <5>1 DEF Store!QueueLeadsToNote, Store!Places
      <4>3. QED BY <4>1, <4>2
    <3>4. QED BY <1>1, <1>6, <2>2, <3>3 DEF Store!NothingOwedIsMissing, Store!Copy
  <2>3. QED BY <1>2, <2>1, <2>2
<1>8. Store!TypeOK'
  <2>1. owed' \in Nat
    BY <1>2, <1>4
  <2>2. queue' \in Seq(Store!Item) /\ copies' \in [Store!Keys -> Store!File]
    BY <1>3, <1>5
  <2>3. retained' \in Store!Item \cup {None} /\ session' \in Nat \cup {None}
        /\ retiring' \in Nat \cup {None} /\ edits' \in Nat
    BY <1>2, <1>4
  <2>4. note' \in [path : Paths, epoch : Epochs] /\ loaded' \in [found : Nat, owed : Nat]
    BY <1>1, <1>2 DEF Store!TypeOK
  <2>5. spoiled' \in BOOLEAN
    BY <1>2
  <2>6. strayed' \in BOOLEAN
    BY <1>1, <1>2 DEF Store!TypeOK
  <2>7. happened' \in Nat
    BY <1>1, <1>2 DEF Store!TypeOK
  <2>8. QED BY <2>1, <2>2, <2>3, <2>4, <2>5, <2>6, <2>7 DEF Store!TypeOK
<1>9. Store!QueueLeadsToNote' /\ Store!StaleOwesNothing' /\ Store!OneSession' /\ Store!RetirementIsKept' /\ Store!SavesAdvance'
  BY <1>2, <1>3 DEF Store!QueueLeadsToNote, Store!StaleOwesNothing, Store!OneSession, Store!RetirementIsKept, Store!SavesAdvance,
                    Store!Places
<1>10. Store!NothingOwedIsMissing'
  BY <1>1, <1>2, <1>4, <1>7 DEF Store!NothingOwedIsMissing
<1>11. Store!LoadsSeeAll'
  BY <1>1 DEF Store!LoadsSeeAll, Store!Crash
<1>12. QED BY <1>8, <1>9, <1>10, <1>11 DEF Store!StoreInv

LEMMA RestKeeps ==
  ASSUME Store!StoreInv, UNCHANGED Store!vars
  PROVE  Store!StoreInv'
<1>1. /\ copies' = copies /\ note' = note /\ queue' = queue /\ spoiled' = spoiled /\ retained' = retained
      /\ session' = session /\ retiring' = retiring /\ owed' = owed /\ loaded' = loaded
      /\ strayed' = strayed /\ edits' = edits /\ happened' = happened
  BY DEF Store!vars
<1>2. Store!TypeOK'
  BY <1>1 DEF Store!StoreInv, Store!TypeOK
<1>3. Store!QueueLeadsToNote' /\ Store!StaleOwesNothing' /\ Store!OneSession' /\ Store!RetirementIsKept'
      /\ Store!SavesAdvance'
  BY <1>1 DEF Store!StoreInv, Store!QueueLeadsToNote, Store!StaleOwesNothing, Store!OneSession,
              Store!RetirementIsKept, Store!SavesAdvance, Store!Places, Store!Key, Store!NextKey,
              Store!Stale
<1>4. Store!Copy' = Store!Copy
  <2>1. Store!NextKey' = Store!NextKey
    BY <1>1 DEF Store!NextKey, Store!Key
  <2>2. QED BY <1>1, <2>1 DEF Store!Copy
<1>5. Store!NothingOwedIsMissing' /\ Store!LoadsSeeAll'
  BY <1>1, <1>4 DEF Store!StoreInv, Store!NothingOwedIsMissing, Store!LoadsSeeAll
<1>6. QED BY <1>2, <1>3, <1>5 DEF Store!StoreInv

\* The first use leaves the queue, and what it did kept what is owed.
LEMMA PopKeeps ==
  ASSUME Apart, Epochs \subseteq Nat, Store!StoreInv, queue # <<>>, NEW failed, Store!Leaves(failed),
         UNCHANGED <<note, session, retiring, owed, loaded, edits>>,
         happened' \in Nat, spoiled' \in BOOLEAN, strayed' \in BOOLEAN, strayed => strayed',
         copies' \in [Store!Keys -> Store!File],
         \/ strayed' \/ owed = 0
         \/ Store!Recovered(copies'[Store!Turn.to]).main >= Store!Recovered(copies[Store!Turn.key]).main,
         Store!Turn.use = "retire" => retiring # None,
         IF Store!Turn.use = "retire" /\ retained = None THEN retained' = Store!Turn
         ELSE retained' = retained
  PROVE  Store!StoreInv'
<1>1. /\ Store!TypeOK /\ Store!QueueLeadsToNote /\ Store!StaleOwesNothing /\ Store!OneSession /\ Store!RetirementIsKept
      /\ Store!SavesAdvance /\ Store!NothingOwedIsMissing /\ Store!LoadsSeeAll
  BY DEF Store!StoreInv
<1>2. Popped /\ Store!Turn = queue[1] /\ Store!Turn \in Store!Item /\ queue[1] # None
  BY <1>1, Pops DEF Apart
<1>3. Store!Turn.key \in Store!Keys /\ Store!Turn.to \in Store!Keys /\ 1 \in Store!Places /\ Store!NextKey = Store!Turn.key
  BY <1>1, TurnIsFirst
<1>4. Store!TypeOK'
  BY <1>1, <1>2 DEF Store!TypeOK, Popped
<1>5. Store!QueueLeadsToNote'
  BY <1>1, <1>2, PopLeads
<1>6. Store!StaleOwesNothing'
  BY <1>1, <1>2, PopStale DEF Owing
<1>7. Store!OneSession'
  <2>1. session # None => retiring' = None /\ retained' = None
    BY <1>1, <1>2, <1>3 DEF Store!OneSession
  <2>2. QED BY <1>1, <1>2, <2>1, PopSession
<1>8. Store!RetirementIsKept'
  BY <1>1, <1>2, PopRetirement
<1>9. Store!SavesAdvance'
  BY <1>1, <1>2, PopSaves
<1>10. Store!NothingOwedIsMissing'
  <2>1. Store!NextKey' = Store!Turn.to
    BY <1>1, <1>2, PopNext
  <2>2. Store!Copy' = Store!Recovered(copies'[Store!Turn.to]).main /\ Store!Copy = Store!Recovered(copies[Store!Turn.key]).main
    BY <1>3, <2>1 DEF Store!Copy
  <2>3. Store!Recovered(copies'[Store!Turn.to]) \in Store!File
    BY <1>3, RecoveredFile
  <2>4. Store!Copy' \in Nat /\ Store!Copy \in Nat /\ owed \in Nat
    BY <1>1, <2>2, <2>3, Types DEF Store!File, Store!TypeOK
  <2>5. strayed' \/ Store!Copy' >= owed'
    BY <1>1, <2>2, <2>4 DEF Store!NothingOwedIsMissing
  <2>6. QED BY <1>1, <2>5 DEF Store!NothingOwedIsMissing
<1>11. Store!LoadsSeeAll'
  BY <1>1 DEF Store!LoadsSeeAll
<1>12. QED BY <1>4, <1>5, <1>6, <1>7, <1>8, <1>9, <1>10, <1>11 DEF Store!StoreInv

\* What the first use may owe, by its kind.
LEMMA TurnOwes ==
  ASSUME Store!StoreInv, queue # <<>>
  PROVE  /\ Store!Turn.use \notin Store!Moves => Store!Turn.to = Store!Turn.key
         /\ Store!Turn.use \in {"deleteEpoch", "deleteRoom"} => owed = 0
         /\ Store!Turn.use = "retire" => Store!Turn.key = Store!Key \/ retiring = None
         /\ retained # None => Store!Turn.key = Store!Key /\ Store!Turn.to = Store!Key /\ Store!Turn.use \in {"retire", "load"}
<1>1. Store!Turn = queue[1] /\ 1 \in Store!Places
  BY TurnIsFirst DEF Store!StoreInv
<1>2. Store!Turn.use \notin Store!Moves => Store!Turn.to = Store!Turn.key
  BY <1>1 DEF Store!StoreInv, Store!QueueLeadsToNote
<1>3. Store!Turn.use \in {"deleteEpoch", "deleteRoom"} => owed = 0
  BY <1>1 DEF Store!StoreInv, Store!StaleOwesNothing
<1>4. Store!Turn.use = "retire" => Store!Turn.key = Store!Key \/ retiring = None
  BY <1>1 DEF Store!StoreInv, Store!RetirementIsKept
<1>5. retained # None => Store!Turn.key = Store!Key /\ Store!Turn.use \in {"retire", "load"}
  BY <1>1 DEF Store!StoreInv, Store!RetirementIsKept
<1>6. QED BY <1>2, <1>3, <1>4, <1>5 DEF Store!Moves

LEMMA SkipKeeps ==
  ASSUME Apart, Epochs \subseteq Nat, Store!StoreInv, Store!Skip
  PROVE  Store!StoreInv'
<1>1. Store!TypeOK /\ queue # <<>> /\ Store!Leaves(TRUE) /\ spoiled
  BY DEF Store!StoreInv, Store!Skip
<1>2. Store!Turn = queue[1] /\ 1 \in Store!Places /\ Store!Turn.key \in Store!Keys /\ Store!Turn.to \in Store!Keys
  BY <1>1, TurnIsFirst
<1>3. Store!Turn.use = "retire" => retiring # None
  BY <1>1, <1>2 DEF Store!StoreInv, Store!RetirementIsKept
<1>4. strayed' \in BOOLEAN /\ (strayed => strayed') /\ (Store!Turn.use = "rename" => strayed')
      /\ spoiled' \in BOOLEAN
  BY DEF Store!Skip, Store!Leaves
<1>5. copies' = copies /\ copies' \in [Store!Keys -> Store!File] /\ happened' \in Nat
  BY <1>1 DEF Store!Skip, Store!TypeOK
<1>6. copies[Store!Turn.key] \in Store!File
  BY <1>2, <1>5
<1>7. \/ strayed' \/ owed = 0
      \/ Store!Recovered(copies'[Store!Turn.to]).main >= Store!Recovered(copies[Store!Turn.key]).main
  <2>1. CASE Store!Turn.use \in Store!Moves
    BY <1>1, <1>4, <2>1, TurnOwes DEF Store!Moves
  <2>2. CASE Store!Turn.use \notin Store!Moves
    <3>1. Store!Turn.to = Store!Turn.key /\ Store!Recovered(copies[Store!Turn.key]).main \in Nat
      BY <1>1, <1>6, <2>2, TurnOwes, RecoveredFile DEF Store!File
    <3>2. QED BY <1>5, <3>1
  <2>3. QED BY <2>1, <2>2
<1>8. QED BY <1>1, <1>3, <1>4, <1>5, <1>7, PopKeeps DEF Store!Skip

LEMMA KeptFile ==
  ASSUME Store!TypeOK, NEW k \in Store!Keys, NEW f \in Store!NotReplaced(copies[k]), copies' = [copies EXCEPT ![k] = f]
  PROVE  copies' \in [Store!Keys -> Store!File] /\ Store!Recovered(copies'[k]).main >= Store!Recovered(copies[k]).main
<1>1. copies[k] \in Store!File /\ copies \in [Store!Keys -> Store!File]
  BY DEF Store!TypeOK
<1>2. f \in Store!File /\ Store!Recovered(f).main = Store!Recovered(copies[k]).main
  BY <1>1, NotReplacedFile
<1>3. Store!Recovered(f).main \in Nat
  BY <1>2, RecoveredFile DEF Store!File
<1>4. QED BY <1>1, <1>2, <1>3

LEMMA RetryFailsKeeps ==
  ASSUME Apart, Epochs \subseteq Nat, Store!StoreInv, Store!RetryFails
  PROVE  Store!StoreInv'
<1>1. Store!TypeOK /\ queue # <<>> /\ Store!Leaves(TRUE) /\ retained # None /\ retiring # None
  BY DEF Store!StoreInv, Store!RetryFails
<1>2. retained.key = Store!Key /\ Store!Turn.key = Store!Key /\ Store!Turn.to = Store!Key /\ Store!Key \in Store!Keys
  BY <1>1, TurnOwes, Types DEF Store!StoreInv, Store!RetirementIsKept
<1>3. PICK f \in Store!NotReplaced(copies[Store!Key]) : copies' = [copies EXCEPT ![Store!Key] = f]
  BY <1>2 DEF Store!RetryFails
<1>4. copies' \in [Store!Keys -> Store!File] /\ Store!Recovered(copies'[Store!Key]).main >= Store!Recovered(copies[Store!Key]).main
  BY <1>1, <1>2, <1>3, KeptFile
<1>5. strayed' = strayed /\ strayed \in BOOLEAN /\ happened' \in Nat /\ spoiled' \in BOOLEAN
  BY <1>1 DEF Store!RetryFails, Store!TypeOK, Store!Happens, Store!Leaves
<1>6. UNCHANGED <<note, session, retiring, owed, loaded, edits>> /\ retained' = retained
  BY DEF Store!RetryFails
<1>7. Store!Turn.use = "retire" => retiring # None
  BY <1>1
<1>8. IF Store!Turn.use = "retire" /\ retained = None THEN retained' = Store!Turn ELSE retained' = retained
  BY <1>1, <1>6
<1>9. Store!Recovered(copies'[Store!Turn.to]).main >= Store!Recovered(copies[Store!Turn.key]).main
  BY <1>2, <1>4
<1>10. QED BY <1>1, <1>4, <1>5, <1>6, <1>7, <1>8, <1>9, PopKeeps

LEMMA SaveFailsKeeps ==
  ASSUME Apart, Epochs \subseteq Nat, Store!StoreInv, Store!SaveFails
  PROVE  Store!StoreInv'
<1>1. /\ Store!TypeOK /\ queue # <<>> /\ Store!Leaves(TRUE) /\ retained = None
      /\ Store!Turn.use \in {"save", "retire"} /\ (Store!Turn.use = "retire" => retiring # None)
  BY DEF Store!StoreInv, Store!SaveFails, Store!Runs
<1>2. Store!Turn.key \in Store!Keys /\ Store!Turn.to = Store!Turn.key
  BY <1>1, TurnIsFirst, TurnOwes DEF Store!Moves
<1>3. PICK f \in Store!NotReplaced(copies[Store!Turn.key]) : copies' = [copies EXCEPT ![Store!Turn.key] = f]
  BY DEF Store!SaveFails
<1>4. /\ copies' \in [Store!Keys -> Store!File]
      /\ Store!Recovered(copies'[Store!Turn.key]).main >= Store!Recovered(copies[Store!Turn.key]).main
  BY <1>1, <1>2, <1>3, KeptFile
<1>5. strayed' = strayed /\ strayed \in BOOLEAN /\ happened' \in Nat /\ spoiled' \in BOOLEAN
  BY <1>1 DEF Store!SaveFails, Store!TypeOK, Store!Happens, Store!Leaves
<1>6. IF Store!Turn.use = "retire" /\ retained = None THEN retained' = Store!Turn ELSE retained' = retained
  BY <1>1 DEF Store!SaveFails
<1>7. UNCHANGED <<note, session, retiring, owed, loaded, edits>>
  BY DEF Store!SaveFails
<1>8. QED BY <1>1, <1>2, <1>4, <1>5, <1>6, <1>7, PopKeeps

LEMMA RenameRunsKeeps ==
  ASSUME Apart, Epochs \subseteq Nat, Store!StoreInv, Store!RenameRuns
  PROVE  Store!StoreInv'
<1>1. /\ Store!TypeOK /\ queue # <<>> /\ Store!Leaves(Store!Taken(Store!Turn.key, Store!Turn.to)) /\ retained = None
      /\ Store!Turn.use = "rename"
  BY DEF Store!StoreInv, Store!RenameRuns, Store!Runs
<1>2. Store!Turn.key \in Store!Keys /\ Store!Turn.to \in Store!Keys
  BY <1>1, TurnIsFirst
<1>3. /\ copies' \in [Store!Keys -> Store!File]
      /\ \/ Store!Taken(Store!Turn.key, Store!Turn.to)
         \/ copies[Store!Turn.key].main = 0 /\ copies[Store!Turn.key].aside # 0
         \/ Store!Recovered(copies'[Store!Turn.to]).main >= Store!Recovered(copies[Store!Turn.key]).main
  BY <1>1, <1>2, MovedFiles DEF Store!RenameRuns, Store!TypeOK
<1>4. /\ strayed' \in BOOLEAN /\ (strayed => strayed') /\ (Store!Taken(Store!Turn.key, Store!Turn.to) => strayed')
      /\ (copies[Store!Turn.key].main = 0 /\ copies[Store!Turn.key].aside # 0 => strayed')
  BY DEF Store!RenameRuns
<1>5. happened' \in Nat /\ spoiled' \in BOOLEAN
  BY <1>1 DEF Store!RenameRuns, Store!TypeOK, Store!Leaves
<1>6. UNCHANGED <<note, session, retiring, owed, loaded, edits>> /\ retained' = retained
  BY DEF Store!RenameRuns
<1>7. QED BY <1>1, <1>3, <1>4, <1>5, <1>6, PopKeeps

LEMMA DeletesKeep ==
  ASSUME Apart, Epochs \subseteq Nat, Store!StoreInv, Store!DeleteEpoch \/ Store!DeleteRoom
  PROVE  Store!StoreInv'
<1>1. /\ Store!TypeOK /\ queue # <<>> /\ Store!Leaves(FALSE) /\ Store!Turn.use \in {"deleteEpoch", "deleteRoom"}
  BY DEF Store!StoreInv, Store!DeleteEpoch, Store!DeleteRoom, Store!Runs
<1>2. Store!Turn.key \in Store!Keys /\ owed = 0
  BY <1>1, TurnIsFirst, TurnOwes
<1>3. copies' \in [Store!Keys -> Store!File]
  <2>1. CASE Store!DeleteEpoch
    BY <1>1, <1>2, <2>1 DEF Store!DeleteEpoch, Store!Deleted, Store!TypeOK, Store!File
  <2>2. CASE Store!DeleteRoom
    BY <2>2 DEF Store!DeleteRoom, Store!NoFile, Store!File
  <2>3. QED BY <2>1, <2>2
<1>4. /\ strayed' = strayed /\ strayed \in BOOLEAN /\ happened' \in Nat /\ spoiled' \in BOOLEAN
      /\ UNCHANGED <<note, session, retiring, owed, loaded, edits>> /\ retained' = retained
  BY <1>1 DEF Store!DeleteEpoch, Store!DeleteRoom, Store!TypeOK, Store!Leaves
<1>5. QED BY <1>1, <1>2, <1>3, <1>4, PopKeeps

LEMMA LoadKeeps ==
  ASSUME Apart, Epochs \subseteq Nat, Store!IInv, Store!Load
  PROVE  Store!StoreInv'
<1>1. /\ Store!TypeOK /\ Store!QueueLeadsToNote /\ Store!StaleOwesNothing /\ Store!OneSession /\ Store!RetirementIsKept
      /\ Store!SavesAdvance /\ Store!NothingOwedIsMissing /\ Store!LoadsSeeAll /\ Store!NothingIsAhead
  BY DEF Store!IInv, Store!StoreInv
<1>2. queue # <<>> /\ Store!Turn.use = "load" /\ retained = None /\ ~spoiled
  BY DEF Store!Load, Store!Runs
<1>3. Popped /\ Store!Turn = queue[1] /\ 1 \in Store!Places /\ Store!Turn.key \in Store!Keys /\ Store!NextKey = Store!Turn.key
  BY <1>1, <1>2, Pops, TurnIsFirst DEF Store!Load
<1>4. Len(queue) = 1 /\ Len(queue') = 0 /\ queue' \in Seq(Store!Item) /\ session = None
  BY <1>1, <1>2, <1>3 DEF Store!OneSession, Popped
<1>5. Store!Turn.key = Store!Key /\ Store!NextKey' = Store!Key /\ Store!Key' = Store!Key
  <2>1. Store!Key' = Store!Key /\ Store!NextKey' = Store!Key
    BY <1>4 DEF Store!Key, Store!NextKey, Store!Load
  <2>2. \A j \in 1 .. Len(queue) : queue[j].use \notin Store!Moves
    BY <1>2, <1>3, <1>4 DEF Store!Moves
  <2>3. QED BY <1>1, <1>3, <2>1, <2>2 DEF Store!QueueLeadsToNote
<1>6. retiring = None
  BY <1>1, <1>2, <1>3, <1>4 DEF Store!RetirementIsKept, Store!Places
<1>7. /\ retained' = None /\ retiring' = None /\ note' = note /\ owed' = owed /\ strayed' = strayed
      /\ edits' = edits /\ happened' = happened /\ loaded' = [found |-> session', owed |-> owed]
      /\ session' = Store!Recovered(copies[Store!Key]).main /\ copies' = [copies EXCEPT ![Store!Key] = Store!Recovered(@)]
  BY <1>1, <1>2, <1>5, <1>6, DemandIs DEF Store!Load
<1>8. /\ Store!Key \in Store!Keys /\ copies[Store!Key] \in Store!File /\ copies \in [Store!Keys -> Store!File] /\ owed \in Nat
      /\ Store!Recovered(copies[Store!Key]) \in Store!File /\ session' = Store!Copy /\ session' \in Nat
  <2>1. Store!Key \in Store!Keys /\ copies \in [Store!Keys -> Store!File] /\ owed \in Nat
    BY <1>1, Types DEF Store!TypeOK
  <2>2. Store!Recovered(copies[Store!Key]) \in Store!File
    BY <2>1, RecoveredFile
  <2>3. QED BY <1>3, <1>5, <1>7, <2>1, <2>2 DEF Store!Copy, Store!File
<1>9. copies' \in [Store!Keys -> Store!File] /\ Store!Copy' = session'
  <2>1. copies' \in [Store!Keys -> Store!File] /\ copies'[Store!Key] = Store!Recovered(copies[Store!Key])
    BY <1>7, <1>8
  <2>2. Store!Recovered(Store!Recovered(copies[Store!Key])).main = Store!Recovered(copies[Store!Key]).main
    BY <1>8 DEF Store!Recovered, Store!File
  <2>3. QED BY <1>5, <1>7, <2>1, <2>2 DEF Store!Copy
<1>10. strayed \/ session' >= owed
  BY <1>1, <1>8 DEF Store!NothingOwedIsMissing
<1>11. edits >= session'
  <2>1. Store!Below(copies[Store!Key], edits)
    BY <1>1, <1>8 DEF Store!NothingIsAhead
  <2>2. edits \in Nat
    BY <1>1 DEF Store!TypeOK
  <2>3. QED BY <1>7, <1>8, <2>1, <2>2 DEF Store!Below, Store!Recovered, Store!File
<1>12. Store!TypeOK'
  <2>1. loaded' \in [found : Nat, owed : Nat]
    BY <1>7, <1>8
  <2>2. spoiled' \in BOOLEAN
    BY DEF Store!Load, Store!Leaves
  <2>3. QED BY <1>1, <1>4, <1>7, <1>8, <1>9, <2>1, <2>2 DEF Store!TypeOK
<1>13. Store!QueueLeadsToNote' /\ Store!StaleOwesNothing' /\ Store!OneSession' /\ Store!RetirementIsKept' /\ Store!SavesAdvance'
  BY <1>4, <1>7 DEF Store!QueueLeadsToNote, Store!StaleOwesNothing, Store!OneSession, Store!RetirementIsKept, Store!SavesAdvance,
                    Store!Places
<1>14. Store!NothingOwedIsMissing'
  BY <1>1, <1>7, <1>9, <1>10, <1>11 DEF Store!NothingOwedIsMissing
<1>15. Store!LoadsSeeAll'
  <2>1. loaded'.found = session' /\ loaded'.owed = owed
    BY <1>7
  <2>2. QED BY <1>7, <1>10, <2>1 DEF Store!LoadsSeeAll
<1>16. QED BY <1>12, <1>13, <1>14, <1>15 DEF Store!StoreInv

LEMMA SaveKeeps ==
  ASSUME Apart, Epochs \subseteq Nat, Store!IInv, Store!Save
  PROVE  Store!StoreInv'
<1>1. /\ Store!TypeOK /\ Store!QueueLeadsToNote /\ Store!StaleOwesNothing /\ Store!OneSession /\ Store!RetirementIsKept
      /\ Store!SavesAdvance /\ Store!NothingOwedIsMissing /\ Store!LoadsSeeAll /\ Store!NothingIsAhead
  BY DEF Store!IInv, Store!StoreInv
<1>2. queue # <<>> /\ Store!Turn.use = "save" /\ retained = None
  BY DEF Store!Save, Store!Runs
<1>3. /\ Popped /\ Store!Turn = queue[1] /\ 1 \in Store!Places /\ Store!Turn.key \in Store!Keys /\ Store!Turn.edit \in Nat
      /\ Store!Turn \in Store!Item /\ queue[1] # None
  BY <1>1, <1>2, Pops, TurnIsFirst DEF Store!Save, Apart
<1>4. /\ note' = note /\ retained' = retained /\ session' = session /\ retiring' = retiring
      /\ loaded' = loaded /\ strayed' = strayed /\ edits' = edits /\ happened' = happened
      /\ copies' \in Store!Saved(Store!Turn.key, Store!Turn.edit)
  BY DEF Store!Save
<1>5. Store!Turn.to = Store!Turn.key
  BY <1>2, TurnOwes DEF Store!IInv, Store!Moves
<1>6. copies' \in [Store!Keys -> Store!File] /\ Store!Recovered(copies'[Store!Turn.key]).main >= Store!Turn.edit
  BY <1>1, <1>3, <1>4, SavedFiles DEF Store!TypeOK
<1>7. owed \in Nat /\ (owed' = owed \/ (owed' = Store!Turn.edit /\ Current))
  <2>1. owed \in Nat
    BY <1>1 DEF Store!TypeOK
  <2>2. CASE Store!Turn.key[2] = note.epoch /\ ~Store!Waits({"deleteRoom"})
    <3>1. owed' \in {owed, Store!Turn.edit}
      BY <1>3, <2>1, <2>2, Larger DEF Store!Save
    <3>2. ASSUME NEW i \in Store!Places PROVE queue[i].key[2] = note.epoch /\ queue[i].use # "deleteRoom"
      <4>1. ~Store!Stale(1)
        BY <1>3, <2>2 DEF Store!Stale
      <4>2. i = 1 \/ 1 < i
        BY <1>3 DEF Store!Places, Popped
      <4>3. ~Store!Stale(i)
        BY <1>1, <1>3, <4>1, <4>2 DEF Store!StaleOwesNothing
      <4>4. QED BY <2>2, <4>3, NoWait DEF Store!Stale
    <3>3. QED BY <2>1, <3>1, <3>2 DEF Current
  <2>3. CASE ~(Store!Turn.key[2] = note.epoch /\ ~Store!Waits({"deleteRoom"}))
    BY <2>1, <2>3 DEF Store!Save
  <2>4. QED BY <2>2, <2>3
<1>8. Store!TypeOK'
  <2>1. spoiled' \in BOOLEAN
    BY DEF Store!Save, Store!Leaves
  <2>2. QED BY <1>1, <1>3, <1>4, <1>6, <1>7, <2>1 DEF Store!TypeOK, Popped
<1>9. Store!QueueLeadsToNote'
  BY <1>1, <1>3, <1>4, PopLeads
<1>10. Store!StaleOwesNothing'
  BY <1>1, <1>3, <1>4, <1>7, PopStale DEF Owing
<1>11. Store!OneSession'
  BY <1>1, <1>3, <1>4, PopSession DEF Store!OneSession
<1>12. Store!RetirementIsKept'
  BY <1>1, <1>2, <1>3, <1>4, PopRetirement
<1>13. Store!SavesAdvance'
  <2>1. Current => ~Store!Stale(1)
    BY <1>3 DEF Current, Store!Stale
  <2>2. QED BY <1>1, <1>2, <1>3, <1>4, <1>7, <2>1, PopSaves
<1>14. Store!NothingOwedIsMissing'
  <2>1. Store!NextKey' = Store!Turn.key
    BY <1>1, <1>3, <1>4, <1>5, PopNext
  <2>2. Store!Copy' = Store!Recovered(copies'[Store!Turn.key]).main /\ Store!Recovered(copies'[Store!Turn.key]) \in Store!File
    BY <1>3, <1>6, <2>1, RecoveredFile DEF Store!Copy
  <2>3. Store!Copy' >= Store!Turn.edit /\ Store!Copy' \in Nat
    BY <1>6, <2>2 DEF Store!File
  <2>4. /\ strayed \/ Store!Turn.edit >= owed
        /\ session # None => strayed \/ session >= Store!Turn.edit
        /\ retiring # None => strayed \/ retiring >= Store!Turn.edit
    BY <1>1, <1>2, <1>3 DEF Store!SavesAdvance
  <2>5. Store!Turn.edit <= edits /\ edits \in Nat
    BY <1>1, <1>3 DEF Store!NothingIsAhead, Store!TypeOK
  <2>6. strayed' \/ Store!Copy' >= owed'
    BY <1>3, <1>4, <1>7, <2>3, <2>4
  <2>7. (session' # None => strayed' \/ session' >= owed')
        /\ (retiring' # None => strayed' \/ retiring' >= owed')
    BY <1>1, <1>4, <1>7, <2>4 DEF Store!NothingOwedIsMissing
  <2>8. edits' >= owed'
    BY <1>1, <1>3, <1>4, <1>7, <2>5 DEF Store!NothingOwedIsMissing
  <2>9. QED BY <1>1, <1>4, <2>6, <2>7, <2>8 DEF Store!NothingOwedIsMissing
<1>15. Store!LoadsSeeAll'
  BY <1>1, <1>4 DEF Store!LoadsSeeAll
<1>16. QED BY <1>8, <1>9, <1>10, <1>11, <1>12, <1>13, <1>14, <1>15 DEF Store!StoreInv

LEMMA RetireKeeps ==
  ASSUME Apart, Epochs \subseteq Nat, Store!IInv, Store!Retire
  PROVE  Store!StoreInv'
<1>1. /\ Store!TypeOK /\ Store!QueueLeadsToNote /\ Store!StaleOwesNothing /\ Store!OneSession /\ Store!RetirementIsKept
      /\ Store!SavesAdvance /\ Store!NothingOwedIsMissing /\ Store!LoadsSeeAll /\ Store!NothingIsAhead
  BY DEF Store!IInv, Store!StoreInv
<1>2. queue # <<>> /\ Store!Turn.use = "retire" /\ retained = None
  BY DEF Store!Retire, Store!Runs
<1>3. /\ Popped /\ Store!Turn = queue[1] /\ 1 \in Store!Places /\ Store!Turn.key \in Store!Keys /\ Store!Turn.to = Store!Turn.key
  BY <1>1, <1>2, Pops, TurnIsFirst, TurnOwes DEF Store!Retire, Store!IInv, Store!Moves
<1>4. /\ note' = note /\ retained' = None /\ session' = session /\ retiring' = None
      /\ loaded' = loaded /\ strayed' = strayed /\ edits' = edits /\ happened' = happened
      /\ owed' = Store!Demand
  BY <1>2 DEF Store!Retire
<1>5. /\ owed \in Nat /\ edits \in Nat /\ owed' \in Nat
      /\ IF retiring = None THEN owed' = owed
         ELSE owed' \in {owed, retiring} /\ retiring \in Nat
  BY <1>1, <1>4, DemandIs DEF Store!TypeOK
<1>6. \A i \in Store!Places : i # 1 => queue[i].use # "retire" /\ (retiring # None => queue[i].use = "load")
  <2>1. SUFFICES ASSUME NEW i \in Store!Places, i # 1
                 PROVE  queue[i].use # "retire" /\ (retiring # None => queue[i].use = "load")
    OBVIOUS
  <2>2. i > 1
    BY <2>1 DEF Store!Places
  <2>3. CASE retiring = None
    BY <1>1, <2>1, <2>3 DEF Store!RetirementIsKept
  <2>4. CASE retiring # None
    BY <1>1, <1>2, <1>3, <2>2, <2>4 DEF Store!RetirementIsKept
  <2>5. QED BY <2>3, <2>4
<1>7. copies' \in [Store!Keys -> Store!File]
      /\ IF retiring = None THEN copies' = copies ELSE Store!Recovered(copies'[Store!Turn.key]).main >= retiring
  <2>1. CASE retiring = None
    BY <1>1, <2>1 DEF Store!Retire, Store!TypeOK
  <2>2. CASE retiring # None
    <3>1. copies' \in Store!Saved(Store!Turn.key, retiring) /\ retiring \in Nat
      BY <1>5, <2>2 DEF Store!Retire
    <3>2. QED BY <1>1, <1>3, <2>2, <3>1, SavedFiles DEF Store!TypeOK
  <2>3. QED BY <2>1, <2>2
<1>8. Store!TypeOK'
  <2>1. spoiled' \in BOOLEAN
    BY DEF Store!Retire, Store!Leaves
  <2>2. QED BY <1>1, <1>3, <1>4, <1>5, <1>7, <2>1 DEF Store!TypeOK, Popped
<1>9. Store!QueueLeadsToNote'
  BY <1>1, <1>3, <1>4, PopLeads
<1>10. Store!StaleOwesNothing'
  BY <1>1, <1>3, <1>4, <1>5, PopStale DEF Owing
<1>11. Store!OneSession'
  BY <1>1, <1>3, <1>4, PopSession DEF Store!OneSession
<1>12. ASSUME NEW i \in 1 .. Len(queue')
       PROVE  i + 1 \in Store!Places /\ i + 1 # 1 /\ queue'[i] = queue[i + 1]
  BY <1>3 DEF Popped, Store!Places
<1>13. Store!RetirementIsKept'
  BY <1>4, <1>6, <1>12 DEF Store!RetirementIsKept, Store!Places
<1>14. Store!SavesAdvance'
  <2>1. CASE retiring = None
    BY <1>1, <1>3, <1>4, <1>5, <2>1, PopSaves
  <2>2. CASE retiring # None
    <3>1. \A i \in 1 .. Len(queue') : queue'[i].use # "save"
      BY <1>6, <1>12, <2>2
    <3>2. QED BY <3>1 DEF Store!SavesAdvance, Store!Places
  <2>3. QED BY <2>1, <2>2
<1>15. Store!NothingOwedIsMissing'
  <2>1. Store!NextKey' = Store!Turn.key /\ Store!NextKey = Store!Turn.key
    BY <1>1, <1>3, <1>4, PopNext
  <2>2. Store!Copy' = Store!Recovered(copies'[Store!Turn.key]).main /\ Store!Recovered(copies'[Store!Turn.key]) \in Store!File
    BY <1>3, <1>7, <2>1, RecoveredFile DEF Store!Copy
  <2>3. Store!Copy' \in Nat
    BY <2>2 DEF Store!File
  <2>4. session' # None => (strayed' \/ session' >= owed') /\ edits' >= session'
    BY <1>1, <1>4, <1>5 DEF Store!NothingOwedIsMissing, Store!OneSession
  <2>5. CASE retiring = None
    <3>1. Store!Copy' = Store!Copy
      BY <1>7, <2>1, <2>2, <2>5 DEF Store!Copy
    <3>2. QED BY <1>1, <1>4, <1>5, <2>4, <2>5, <3>1 DEF Store!NothingOwedIsMissing
  <2>6. CASE retiring # None
    <3>1. (strayed \/ retiring >= owed) /\ edits >= retiring /\ edits >= owed
      BY <1>1, <2>6 DEF Store!NothingOwedIsMissing
    <3>2. strayed' \/ Store!Copy' >= owed'
      BY <1>4, <1>5, <1>7, <2>2, <2>3, <2>6, <3>1
    <3>3. edits' >= owed'
      BY <1>4, <1>5, <2>6, <3>1
    <3>4. QED BY <1>4, <2>4, <3>2, <3>3 DEF Store!NothingOwedIsMissing
  <2>7. QED BY <2>5, <2>6
<1>16. Store!LoadsSeeAll'
  BY <1>1, <1>4 DEF Store!LoadsSeeAll
<1>17. QED BY <1>8, <1>9, <1>10, <1>11, <1>13, <1>14, <1>15, <1>16 DEF Store!StoreInv

(* No edit is held that was not made. *)

LEMMA BelowStays ==
  ASSUME NEW f \in Store!File, NEW n \in Nat, Store!Below(f, n)
  PROVE  /\ Store!Below(Store!Recovered(f), n) /\ Store!Below([f EXCEPT !.main = 0], n)
         /\ \A g \in Store!NotReplaced(f) : Store!Below(g, n)
         /\ \A val \in 0 .. n : \A g \in Store!Replaced(f, val) : Store!Below(g, n)
BY DEF Store!Below, Store!Recovered, Store!NotReplaced, Store!Replaced, Store!File

AllBelow(after, n) == \A k \in Store!Keys : Store!Below(after[k], n)

LEMMA SavedBelow ==
  ASSUME copies \in [Store!Keys -> Store!File], NEW n \in Nat, AllBelow(copies, n), NEW k \in Store!Keys, NEW val \in 0 .. n,
         NEW after \in Store!Saved(k, val)
  PROVE  AllBelow(after, n)
<1>1. PICK g \in Store!Replaced(Store!Recovered(copies[k]), val) : after = Store!Pruned([copies EXCEPT ![k] = g], k)
  BY DEF Store!Saved
<1>2. copies[k] \in Store!File /\ Store!Recovered(copies[k]) \in Store!File /\ Store!Below(Store!Recovered(copies[k]), n)
  BY RecoveredFile, BelowStays DEF AllBelow
<1>3. g \in Store!File /\ Store!Below(g, n)
  <2>1. g \in Store!File
    <3>1. val \in Nat
      OBVIOUS
    <3>2. QED BY <1>2, <3>1, ReplacedFile
  <2>2. QED BY <1>2, <2>1, BelowStays
<1> SUFFICES ASSUME NEW j \in Store!Keys PROVE Store!Below(after[j], n)
  BY DEF AllBelow
<1> DEFINE gs == [copies EXCEPT ![k] = g]
<1>4. gs[j] \in Store!File /\ Store!Below(gs[j], n)
  BY <1>3 DEF AllBelow
<1> HIDE DEF gs
<1>5. after[j] = IF j[1] = k[1] /\ j[2] # k[2] THEN [gs[j] EXCEPT !.main = 0] ELSE gs[j]
  BY <1>1 DEF Store!Pruned, gs
<1>6. Store!Below([gs[j] EXCEPT !.main = 0], n)
  BY <1>4, BelowStays
<1>7. QED BY <1>4, <1>5, <1>6

LEMMA MovedBelow ==
  ASSUME copies \in [Store!Keys -> Store!File], NEW n \in Nat, AllBelow(copies, n), NEW k \in Store!Keys, NEW j \in Store!Keys
  PROVE  AllBelow(Store!Moved(k, j), n)
<1>1. CASE copies[k].main = 0 \/ Store!Taken(k, j)
  BY <1>1 DEF Store!Moved
<1>2. CASE ~(copies[k].main = 0 \/ Store!Taken(k, j))
  <2>1. Store!Moved(k, j) = [copies EXCEPT ![j].main = copies[k].main, ![k].main = 0]
    BY <1>2 DEF Store!Moved
  <2> SUFFICES ASSUME NEW i \in Store!Keys PROVE Store!Below(Store!Moved(k, j)[i], n)
    BY DEF AllBelow
  <2>2. copies[i] \in Store!File /\ copies[j] \in Store!File /\ copies[k] \in Store!File
        /\ Store!Below(copies[i], n) /\ Store!Below(copies[k], n)
    BY DEF AllBelow
  <2>3. CASE i = k
    BY <2>1, <2>2, <2>3 DEF Store!Below, Store!File
  <2>4. CASE i = j /\ i # k
    BY <2>1, <2>2, <2>4 DEF Store!Below, Store!File
  <2>5. CASE i # j /\ i # k
    BY <2>1, <2>2, <2>5
  <2>6. QED BY <2>3, <2>4, <2>5
<1>3. QED BY <1>1, <1>2

LEMMA PushBelow ==
  ASSUME NEW use, NEW edit, Pushed(use, edit), edits' = edits, edit <= edits,
         \A i \in Store!Places : queue[i].edit <= edits
  PROVE  \A i \in Store!Places' : queue'[i].edit <= edits'
BY DEF Pushed, Store!Places

LEMMA PopBelow ==
  ASSUME Popped, edits' = edits, \A i \in Store!Places : queue[i].edit <= edits
  PROVE  \A i \in Store!Places' : queue'[i].edit <= edits'
<1> SUFFICES ASSUME NEW i \in Store!Places' PROVE queue'[i].edit <= edits'
  OBVIOUS
<1>1. i + 1 \in Store!Places /\ queue'[i] = queue[i + 1]
  BY DEF Popped, Store!Places
<1>2. QED BY <1>1

\* What the queue holds after each action.
Arrives == Store!Open \/ Store!Persist \/ Store!Dispose \/ Store!LeaveRoom \/ Store!NewEpoch \/ \E p \in Paths : Store!Rename(p)
Leaving == Store!Skip \/ Store!RetryFails \/ Store!Load \/ Store!Save \/ Store!Retire \/ Store!SaveFails \/ Store!RenameRuns \/ Store!DeleteEpoch
           \/ Store!DeleteRoom

LEMMA ArrivesPushes ==
  ASSUME Apart, NEW N \in Nat \ {0}, Epochs = 1 .. N, Store!IInv, Arrives
  PROVE  \E use \in Store!Uses, edit \in Nat : Pushed(use, edit) /\ edit <= edits
<1>1. Store!TypeOK /\ Store!NothingOwedIsMissing /\ 0 \in Nat /\ edits \in Nat /\ 0 <= edits
  BY DEF Store!IInv, Store!StoreInv, Store!TypeOK
<1> USE DEF Store!Uses
<1>2. CASE Store!Open
  <2>1. note' \in [path : Paths, epoch : Epochs] /\ Store!Enqueue("load", 0)
    BY <1>1, <1>2 DEF Store!Open, Store!TypeOK
  <2>2. QED BY <1>1, <2>1, Pushes
<1>3. CASE Store!Persist
  <2>1. note' \in [path : Paths, epoch : Epochs] /\ Store!Enqueue("save", session) /\ session \in Nat
    BY <1>1, <1>3 DEF Store!Persist, Store!TypeOK
  <2>2. session <= edits
    BY <1>1, <1>3, <2>1 DEF Store!NothingOwedIsMissing, Store!Persist
  <2>3. QED BY <1>1, <2>1, <2>2, Pushes
<1>4. CASE Store!Dispose
  <2>1. note' \in [path : Paths, epoch : Epochs] /\ Store!Enqueue("retire", 0)
    BY <1>1, <1>4 DEF Store!Dispose, Store!TypeOK
  <2>2. QED BY <1>1, <2>1, Pushes
<1>5. CASE Store!LeaveRoom
  <2>1. note' \in [path : Paths, epoch : Epochs] /\ Store!Enqueue("deleteRoom", 0)
    BY <1>1, <1>5 DEF Store!LeaveRoom, Store!TypeOK
  <2>2. QED BY <1>1, <2>1, Pushes
<1>6. CASE Store!NewEpoch
  <2>1. note' \in [path : Paths, epoch : Epochs] /\ Store!Enqueue("deleteEpoch", 0)
    BY <1>1, <1>6, Least DEF Store!NewEpoch, Store!TypeOK
  <2>2. QED BY <1>1, <2>1, Pushes
<1>7. CASE \E p \in Paths : Store!Rename(p)
  <2>1. note' \in [path : Paths, epoch : Epochs] /\ Store!Enqueue("rename", 0)
    BY <1>1, <1>7 DEF Store!Rename, Store!TypeOK
  <2>2. QED BY <1>1, <2>1, Pushes
<1>8. QED BY <1>2, <1>3, <1>4, <1>5, <1>6, <1>7 DEF Arrives

LEMMA ArrivesAhead ==
  ASSUME Apart, NEW N \in Nat \ {0}, Epochs = 1 .. N, Store!IInv, Arrives
  PROVE  Store!NothingIsAhead'
<1>1. copies' = copies /\ edits' = edits
  BY DEF Arrives, Store!Open, Store!Persist, Store!Dispose, Store!LeaveRoom, Store!NewEpoch, Store!Rename
<1>2. \A i \in Store!Places' : queue'[i].edit <= edits'
  BY <1>1, ArrivesPushes, PushBelow DEF Store!IInv, Store!NothingIsAhead
<1>3. QED BY <1>1, <1>2 DEF Store!IInv, Store!NothingIsAhead

LEMMA LeavingAhead ==
  ASSUME Apart, Epochs \subseteq Nat, Store!IInv, Leaving
  PROVE  Store!NothingIsAhead'
<1>1. /\ Store!TypeOK /\ Store!NothingOwedIsMissing /\ Store!NothingIsAhead /\ copies \in [Store!Keys -> Store!File] /\ edits \in Nat
      /\ AllBelow(copies, edits)
  BY DEF Store!IInv, Store!StoreInv, Store!TypeOK, Store!NothingIsAhead, AllBelow
<1>2. queue # <<>> /\ edits' = edits /\ \E failed : Store!Leaves(failed)
  BY DEF Leaving, Store!Skip, Store!RetryFails, Store!Load, Store!Save, Store!Retire, Store!SaveFails, Store!RenameRuns, Store!DeleteEpoch, Store!DeleteRoom,
         Store!Runs
<1>3. /\ Popped /\ Store!Turn = queue[1] /\ 1 \in Store!Places /\ Store!Turn.key \in Store!Keys /\ Store!Turn.to \in Store!Keys
      /\ Store!Turn.edit \in Nat
  BY <1>1, <1>2, Pops, TurnIsFirst
<1>4. \A i \in Store!Places' : queue'[i].edit <= edits'
  BY <1>1, <1>2, <1>3, PopBelow DEF Store!NothingIsAhead
<1>5. ASSUME NEW k \in Store!Keys, NEW f, Store!Below(f, edits), copies' = [copies EXCEPT ![k] = f]
      PROVE  AllBelow(copies', edits)
  BY <1>1, <1>5 DEF AllBelow
<1>6. AllBelow(copies', edits)
  <2>1. CASE Store!Skip
    BY <1>1, <2>1 DEF Store!Skip
  <2>2. CASE Store!RetryFails
    <3>1. retained.key \in Store!Keys
      BY <1>1, <2>2 DEF Store!RetryFails, Store!TypeOK, Store!Item
    <3>2. PICK f \in Store!NotReplaced(copies[retained.key]) : copies' = [copies EXCEPT ![retained.key] = f]
      BY <2>2 DEF Store!RetryFails
    <3>3. Store!Below(f, edits)
      BY <1>1, <3>1, BelowStays DEF AllBelow
    <3>4. QED BY <1>5, <3>1, <3>2, <3>3
  <2>3. CASE Store!Load
    <3>1. copies' = [copies EXCEPT ![Store!Turn.key] = Store!Recovered(copies[Store!Turn.key])]
      BY <2>3 DEF Store!Load
    <3>2. Store!Below(Store!Recovered(copies[Store!Turn.key]), edits)
      BY <1>1, <1>3, BelowStays DEF AllBelow
    <3>3. QED BY <1>3, <1>5, <3>1, <3>2
  <2>4. CASE Store!Save
    <3>1. copies' \in Store!Saved(Store!Turn.key, Store!Turn.edit) /\ Store!Turn.edit \in 0 .. edits
      BY <1>1, <1>3, <2>4 DEF Store!Save, Store!NothingIsAhead
    <3>2. QED BY <1>1, <1>3, <3>1, SavedBelow
  <2>5. CASE Store!Retire
    <3>1. CASE retiring = None
      BY <1>1, <2>5, <3>1 DEF Store!Retire
    <3>2. CASE retiring # None
      <4>1. copies' \in Store!Saved(Store!Turn.key, retiring) /\ retiring \in 0 .. edits
        BY <1>1, <2>5, <3>2 DEF Store!Retire, Store!NothingOwedIsMissing, Store!TypeOK
      <4>2. QED BY <1>1, <1>3, <4>1, SavedBelow
    <3>3. QED BY <3>1, <3>2
  <2>6. CASE Store!SaveFails
    <3>1. PICK f \in Store!NotReplaced(copies[Store!Turn.key]) : copies' = [copies EXCEPT ![Store!Turn.key] = f]
      BY <2>6 DEF Store!SaveFails
    <3>2. Store!Below(f, edits)
      BY <1>1, <1>3, BelowStays DEF AllBelow
    <3>3. QED BY <1>3, <1>5, <3>1, <3>2
  <2>7. CASE Store!RenameRuns
    BY <1>1, <1>3, <2>7, MovedBelow DEF Store!RenameRuns
  <2>8. CASE Store!DeleteEpoch
    <3>1. copies' = [copies EXCEPT ![Store!Turn.key] = [copies[Store!Turn.key] EXCEPT !.main = 0]]
      BY <1>1, <1>3, <2>8 DEF Store!DeleteEpoch, Store!Deleted
    <3>2. Store!Below([copies[Store!Turn.key] EXCEPT !.main = 0], edits)
      BY <1>1, <1>3, BelowStays DEF AllBelow
    <3>3. QED BY <1>3, <1>5, <3>1, <3>2
  <2>9. CASE Store!DeleteRoom
    BY <1>1, <2>9 DEF Store!DeleteRoom, Store!NoFile, AllBelow, Store!Below
  <2>10. QED BY <2>1, <2>2, <2>3, <2>4, <2>5, <2>6, <2>7, <2>8, <2>9 DEF Leaving
<1>7. QED BY <1>2, <1>4, <1>6 DEF Store!NothingIsAhead, AllBelow

LEMMA OthersAhead ==
  ASSUME Apart, Epochs \subseteq Nat, Store!IInv, Store!Edit \/ Store!RetryFirst \/ Store!Crash \/ UNCHANGED Store!vars
  PROVE  Store!NothingIsAhead'
<1>1. /\ Store!TypeOK /\ Store!NothingOwedIsMissing /\ Store!NothingIsAhead /\ copies \in [Store!Keys -> Store!File] /\ edits \in Nat
      /\ AllBelow(copies, edits)
  BY DEF Store!IInv, Store!StoreInv, Store!TypeOK, Store!NothingIsAhead, AllBelow
<1>2. CASE Store!Edit
  <2>1. ASSUME NEW k \in Store!Keys PROVE Store!Below(copies'[k], edits')
    <3>1. copies' = copies /\ edits' = edits + 1 /\ copies[k] \in Store!File /\ Store!Below(copies[k], edits)
      BY <1>1, <1>2 DEF Store!Edit, Store!NothingIsAhead
    <3>2. QED BY <1>1, <3>1 DEF Store!Below, Store!File
  <2>2. ASSUME NEW i \in Store!Places' PROVE queue'[i].edit <= edits'
    <3>1. queue' = queue /\ edits' = edits + 1 /\ i \in Store!Places
      BY <1>2 DEF Store!Edit, Store!Places
    <3>2. queue[i].edit <= edits /\ queue[i].edit \in Nat
      BY <1>1, <3>1, Types DEF Store!NothingIsAhead
    <3>3. QED BY <1>1, <3>1, <3>2
  <2>3. QED BY <2>1, <2>2 DEF Store!NothingIsAhead
<1>3. CASE Store!RetryFirst
  <2>1. queue' = queue /\ edits' = edits
    BY <1>3 DEF Store!RetryFirst
  <2>2. AllBelow(copies', edits)
    <3>1. CASE retiring = None
      BY <1>1, <1>3, <3>1 DEF Store!RetryFirst
    <3>2. CASE retiring # None
      <4>1. copies' \in Store!Saved(retained.key, retiring) /\ retiring \in 0 .. edits
            /\ retained.key \in Store!Keys
        BY <1>1, <1>3, <3>2 DEF Store!RetryFirst, Store!NothingOwedIsMissing, Store!TypeOK, Store!Item
      <4>2. QED BY <1>1, <4>1, SavedBelow
    <3>3. QED BY <3>1, <3>2
  <2>3. QED BY <1>1, <2>1, <2>2 DEF Store!NothingIsAhead, Store!Places, AllBelow
<1>4. CASE Store!Crash
  <2>1. Store!Places' = {} /\ edits' = edits
    BY <1>4 DEF Store!Crash, Store!Places
  <2>2. CASE copies' = copies
    BY <1>1, <2>1, <2>2 DEF Store!NothingIsAhead
  <2>3. CASE queue # <<>> /\ \E f \in Store!NotReplaced(copies[Store!Turn.key]) :
                                copies' = [copies EXCEPT ![Store!Turn.key] = f]
    <3>1. Store!Turn.key \in Store!Keys
      BY <1>1, <2>3, TurnIsFirst
    <3>2. PICK f \in Store!NotReplaced(copies[Store!Turn.key]) : copies' = [copies EXCEPT ![Store!Turn.key] = f]
      BY <2>3
    <3>3. Store!Below(f, edits)
      BY <1>1, <3>1, BelowStays DEF AllBelow
    <3>4. AllBelow(copies', edits)
      BY <1>1, <3>1, <3>2, <3>3 DEF AllBelow
    <3>5. QED BY <2>1, <3>4 DEF Store!NothingIsAhead, AllBelow
  <2>4. QED BY <1>4, <2>2, <2>3 DEF Store!Crash, Store!Runs
<1>5. CASE UNCHANGED Store!vars
  BY <1>1, <1>5 DEF Store!vars, Store!NothingIsAhead, Store!Places
<1>6. QED BY <1>2, <1>3, <1>4, <1>5

LEMMA InitKeeps ==
  ASSUME Apart, NEW N \in Nat \ {0}, Epochs = 1 .. N, Paths # {}, Store!Init
  PROVE  Store!IInv
<1>1. note.path \in Paths /\ note.epoch \in Epochs /\ note \in [path : Paths, epoch : Epochs]
  BY Least DEF Store!Init
<1>2. queue = <<>> /\ Len(queue) = 0 /\ queue \in Seq(Store!Item) /\ Store!Places = {}
  <2>1. queue = <<>>
    BY DEF Store!Init
  <2>2. Len(queue) = 0 /\ queue \in Seq(Store!Item)
    BY <2>1
  <2>3. QED BY <2>1, <2>2 DEF Store!Places
<1>3. copies \in [Store!Keys -> Store!File] /\ \A k \in Store!Keys : copies[k].main = 0 /\ copies[k].aside = 0
  BY DEF Store!Init, Store!NoFile, Store!File
<1>4. Store!TypeOK
  BY <1>1, <1>2, <1>3 DEF Store!Init, Store!TypeOK
<1>5. Store!Key \in Store!Keys /\ Store!Copy = 0
  <2>1. Store!Key \in Store!Keys /\ Store!NextKey = Store!Key
    BY <1>1, <1>2 DEF Store!Key, Store!Keys, Store!NextKey
  <2>2. QED BY <1>3, <2>1 DEF Store!Copy, Store!Recovered
<1>6. Store!QueueLeadsToNote /\ Store!StaleOwesNothing /\ Store!SavesAdvance
  BY <1>2 DEF Store!QueueLeadsToNote, Store!StaleOwesNothing, Store!SavesAdvance, Store!Init
<1>7. Store!OneSession /\ Store!RetirementIsKept
  BY <1>2 DEF Store!OneSession, Store!RetirementIsKept, Store!Init
<1>8. Store!NothingOwedIsMissing /\ Store!LoadsSeeAll /\ Store!NothingIsAhead
  BY <1>2, <1>3, <1>5 DEF Store!NothingOwedIsMissing, Store!LoadsSeeAll, Store!NothingIsAhead, Store!Below, Store!Init
<1>9. QED BY <1>4, <1>6, <1>7, <1>8 DEF Store!IInv, Store!StoreInv

LEMMA StepKeeps ==
  ASSUME Apart, NEW N \in Nat \ {0}, Epochs = 1 .. N, Store!IInv, [Store!Next]_(Store!vars)
  PROVE  Store!IInv'
<1>1. Epochs \subseteq Nat /\ Store!StoreInv
  BY DEF Store!IInv
<1>2. Store!StoreInv'
  <2>1. CASE Store!Open
    BY <1>1, <2>1, OpenKeeps
  <2>2. CASE Store!Edit
    BY <1>1, <2>2, EditKeeps
  <2>3. CASE Store!Persist
    BY <1>1, <2>3, PersistKeeps
  <2>4. CASE Store!Dispose
    BY <1>1, <2>4, DisposeKeeps
  <2>5. CASE Store!LeaveRoom
    BY <1>1, <2>5, LeaveRoomKeeps
  <2>6. CASE Store!NewEpoch
    BY <1>1, <2>6, NewEpochKeeps
  <2>7. CASE \E p \in Paths : Store!Rename(p)
    BY <1>1, <2>7, RenameKeeps
  <2>8. CASE Store!Skip
    BY <1>1, <2>8, SkipKeeps
  <2>9. CASE Store!RetryFirst
    BY <1>1, <2>9, RetryFirstKeeps
  <2>10. CASE Store!RetryFails
    BY <1>1, <2>10, RetryFailsKeeps
  <2>11. CASE Store!Load
    BY <1>1, <2>11, LoadKeeps
  <2>12. CASE Store!Save
    BY <1>1, <2>12, SaveKeeps
  <2>13. CASE Store!Retire
    BY <1>1, <2>13, RetireKeeps
  <2>14. CASE Store!SaveFails
    BY <1>1, <2>14, SaveFailsKeeps
  <2>15. CASE Store!RenameRuns
    BY <1>1, <2>15, RenameRunsKeeps
  <2>16. CASE Store!DeleteEpoch \/ Store!DeleteRoom
    BY <1>1, <2>16, DeletesKeep
  <2>17. CASE Store!Crash
    BY <1>1, <2>17, CrashKeeps
  <2>18. CASE UNCHANGED Store!vars
    BY <1>1, <2>18, RestKeeps
  <2>19. QED
    BY <2>1, <2>2, <2>3, <2>4, <2>5, <2>6, <2>7, <2>8, <2>9, <2>10, <2>11, <2>12, <2>13, <2>14,
       <2>15, <2>16, <2>17, <2>18 DEF Store!Next
<1>3. Store!NothingIsAhead'
  <2>1. Arrives \/ Leaving \/ Store!Edit \/ Store!RetryFirst \/ Store!Crash \/ UNCHANGED Store!vars
    BY DEF Store!Next, Arrives, Leaving
  <2>2. QED BY <1>1, <2>1, ArrivesAhead, LeavingAhead, OthersAhead
<1>4. QED BY <1>2, <1>3 DEF Store!IInv

\* A load of a live document's local copy finds all that a save was acknowledged for and
\* all that a retired session held, for any number of paths, epochs, edits and failures,
\* unless a rename has gone by the copy or found its item place taken.
THEOREM LoadsFindAll ==
  ASSUME Apart, NEW N \in Nat \ {0}, Epochs = 1 .. N, Paths # {}
  PROVE  Store!Spec => []Store!LoadsSeeAll
<1>1. Store!Init => Store!IInv
  BY InitKeeps
<1>2. Store!IInv /\ [Store!Next]_(Store!vars) => Store!IInv'
  BY StepKeeps
<1>3. Store!IInv => Store!LoadsSeeAll
  BY DEF Store!IInv, Store!StoreInv
<1>4. QED BY <1>1, <1>2, <1>3, PTL DEF Store!Spec

\* The same of the store beside the other parts of a note's text.
THEOREM AllLoadsFindAll ==
  ASSUME Apart, NEW N \in Nat \ {0}, Epochs = 1 .. N, Paths # {}
  PROVE  MCSpec => []LoadsSeeAll
<1>1. MCInit => Store!IInv
  BY InitKeeps DEF MCInit
<1>2. Store!IInv /\ [MCNext]_<<part, vars, noteVars, storeVars>> => Store!IInv'
  <2>1. [MCNext]_<<part, vars, noteVars, storeVars>> => [Store!Next]_(Store!vars)
    BY DEF MCNext, storeVars, Store!vars
  <2>2. QED BY <2>1, StepKeeps
<1>3. Store!IInv => LoadsSeeAll
  BY DEF LoadsSeeAll, Store!IInv, Store!StoreInv
<1>4. QED BY <1>1, <1>2, <1>3, PTL DEF MCSpec
=============================================================================
