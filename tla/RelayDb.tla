------------------------------ MODULE RelayDb ------------------------------
(***************************************************************************)
(* The relay's database: an image in memory, saved as a whole.  A change   *)
(* is saved in the background, a durable operation before its answer; on   *)
(* the desktop a save takes a while and saves take turns (`saves`), on a   *)
(* standalone relay it is one synchronous step.  Requests take turns too   *)
(* (`waiting`), and none may change the image while a durable operation is *)
(* pending, whose failure brings an older image back.                      *)
(***************************************************************************)
EXTENDS Naturals, Sequences

CONSTANTS
  MaxChanges,   \* bound: changes made
  MaxDurables,  \* bound: durable operations called
  MaxRequests,  \* bound: requests that ask for their turn
  MaxRetries,   \* delays after which a failed background save is tried again
  None

ASSUME RelayDbAssumption ==
  /\ MaxChanges \in Nat /\ MaxDurables \in Nat /\ MaxRequests \in Nat /\ MaxRetries \in Nat
  /\ None \notin {"done", "failed"} /\ \A image \in SUBSET (1..MaxChanges) : None # image

VARIABLES
  host,       \* "desktop" or "standalone"
  made,       \* changes made so far: they are numbered
  mem, disk,  \* changes in the image, and in the file
  timer,      \* "off", or what the background save's timer waits for
  failed,     \* background saves that failed in a row
  saves,      \* desktop: saves in order of their call; the first is being written
  durables,   \* desktop: durable operations in order of their call
  called, ended, \* how many were called and have ended
  outcome,    \* per change of a durable operation: what its caller was told
  waiting,    \* requests for exclusive access: the durable operation each waits for
  holding,    \* does a request have exclusive access
  asked,      \* requests that have asked for it
  refused,    \* history: a request was refused the change it starts with
  closing,    \* how far close() is
  forgotten   \* history: a save failed that took the timer's work with it

vars == <<host, made, mem, disk, timer, failed, saves, durables, called, ended, outcome,
          waiting, holding, asked, refused, closing, forgotten>>

Changes == 1..MaxChanges
Callers == {"timer", "durable", "request", "close"}

Init ==
  /\ host \in {"desktop", "standalone"}
  /\ made = 0 /\ mem = {} /\ disk = {} /\ timer = "off" /\ failed = 0
  /\ saves = <<>> /\ durables = <<>> /\ called = 0 /\ ended = 0
  /\ outcome = [c \in Changes |-> None]
  /\ waiting = <<>> /\ holding = FALSE /\ asked = 0 /\ refused = FALSE
  /\ closing = "no" /\ forgotten = FALSE

Desktop == host = "desktop"
IsOpen == closing # "closed"

\* A change is made; changes enough are left for the durable operations called.
Reserved == Len(SelectSeq(durables, LAMBDA d : d.step # "after"))
Changed == made < MaxChanges /\ made' = made + 1
Spare == made + Reserved < MaxChanges
Schedule(t) == IF t = "off" THEN "soon" ELSE t

-----------------------------------------------------------------------------
(* Changes and background saves. *)

Mutate ==
  /\ closing = "no" /\ Spare /\ Changed
  /\ durables = <<>> \* else it throws
  /\ mem' = mem \cup {made'} /\ timer' = Schedule(timer)
  /\ UNCHANGED <<host, disk, failed, saves, durables, called, ended, outcome, waiting,
                 holding, closing, forgotten, asked, refused>>

\* A save is called: it takes the timer's work over and exports when its turn comes.
Exported(q, image) ==
  IF q = <<>> THEN q
  ELSE IF q[1].image # None THEN q ELSE [q EXCEPT ![1].image = image]
\* Mutant: it does not wait for the saves under way.
QueuedMutOvertakes(q, caller, image) == <<[by |-> caller, image |-> image]>> \o q

Queued(q, caller, image) == Append(q, [by |-> caller, image |-> IF q = <<>> THEN image ELSE None])

TimerFires ==
  /\ Desktop /\ timer # "off" /\ IsOpen
  /\ timer' = "off" /\ saves' = Queued(saves, "timer", mem)
  /\ UNCHANGED <<host, made, mem, disk, failed, durables, called, ended, outcome, waiting,
                 holding, closing, forgotten, asked, refused>>

\* On a standalone relay a failing background save ends the process.
StandaloneTimer ==
  /\ ~Desktop /\ timer # "off"
  /\ timer' = "off"
  /\ \/ disk' = mem /\ UNCHANGED <<mem, forgotten>>
     \/ mem' = disk /\ UNCHANGED <<disk, forgotten>>
  /\ UNCHANGED <<host, made, failed, saves, durables, called, ended, outcome, waiting,
                 holding, closing, asked, refused>>

-----------------------------------------------------------------------------
(* Durable operations. *)

CallDurable ==
  /\ closing = "no" /\ called < MaxDurables
  /\ Spare
  /\ called' = called + 1
  /\ durables' = Append(durables, [step |-> "called", snapshot |-> {}])
  /\ UNCHANGED <<host, made, mem, disk, timer, failed, saves, ended, outcome, waiting, holding,
                 closing, forgotten, asked, refused>>

\* On a standalone relay nothing comes between the steps of one.
StandaloneDurable ==
  /\ ~Desktop /\ durables # <<>> /\ Changed
  /\ durables' = Tail(durables) /\ ended' = ended + 1 /\ timer' = "off"
  /\ \/ /\ mem' = mem \cup {made'} /\ disk' = mem' \* both saves succeed
        /\ outcome' = [outcome EXCEPT ![made'] = "done"] /\ UNCHANGED forgotten
     \/ /\ disk' = mem /\ outcome' = [outcome EXCEPT ![made'] = "failed"] \* the second fails
        /\ UNCHANGED <<mem, forgotten>>
     \/ /\ outcome' = [outcome EXCEPT ![made'] = "failed"] \* the first fails
        /\ forgotten' = (forgotten \/ mem # disk) /\ UNCHANGED <<mem, disk>>
  /\ UNCHANGED <<host, failed, saves, called, waiting, holding, closing, asked, refused>>

DurableStarts ==
  /\ Desktop /\ durables # <<>> /\ durables[1].step = "called"
  /\ durables' = [durables EXCEPT ![1].step = "before"]
  /\ timer' = "off" /\ saves' = Queued(saves, "durable", mem)
  /\ UNCHANGED <<host, made, mem, disk, failed, called, ended, outcome, waiting, holding,
                 closing, forgotten, asked, refused>>

\* What is pending has been saved: the operation runs and is saved, or throws.
\* Mutant: it is answered without a save of its own.
OperateMutUnsaved(rest) ==
  /\ Changed
  /\ mem' = mem \cup {made'} /\ timer' = Schedule(timer)
  /\ saves' = Exported(rest, mem')
  /\ durables' = Tail(durables) /\ ended' = ended + 1
  /\ outcome' = [outcome EXCEPT ![made'] = "done"]

Operate(rest) ==
  /\ Changed
  /\ \/ /\ mem' = mem \cup {made'} /\ timer' = "off"
        /\ durables' = [durables EXCEPT ![1] = [step |-> "after", snapshot |-> mem]]
        /\ saves' = Exported(Append(rest, [by |-> "durable", image |-> None]), mem')
        /\ UNCHANGED <<ended, outcome>>
     \/ /\ durables' = Tail(durables) /\ ended' = ended + 1 /\ timer' = "off"
        /\ saves' = Exported(rest, mem)
        /\ outcome' = [outcome EXCEPT ![made'] = "failed"]
        /\ UNCHANGED mem

\* The change the first durable operation has made.
Own == CHOOSE c \in mem : c \notin durables[1].snapshot

-----------------------------------------------------------------------------
(* The end of a save.  Its caller goes on before the next save exports. *)

SaveEnds(caller) == Desktop /\ saves # <<>> /\ saves[1].by = caller /\ IsOpen

SaveSucceeds ==
  /\ \E caller \in Callers : SaveEnds(caller)
  /\ disk' = saves[1].image
  /\ LET rest == Tail(saves) IN
     CASE saves[1].by = "timer" ->
            /\ failed' = 0 /\ saves' = Exported(rest, mem)
            /\ UNCHANGED <<made, mem, timer, durables, ended, outcome, holding, closing>>
       [] saves[1].by = "durable" /\ durables[1].step = "before" ->
            Operate(rest) /\ UNCHANGED <<failed, holding, closing>>
       [] saves[1].by = "durable" /\ durables[1].step = "after" ->
            /\ durables' = Tail(durables) /\ ended' = ended + 1
            /\ outcome' = [outcome EXCEPT ![Own] = "done"]
            /\ saves' = Exported(rest, mem)
            /\ UNCHANGED <<made, mem, timer, failed, holding, closing>>
       [] saves[1].by = "request" ->
            /\ holding' = FALSE /\ saves' = Exported(rest, mem)
            /\ UNCHANGED <<made, mem, timer, failed, durables, ended, outcome, closing>>
       [] OTHER ->
            /\ closing' = "drain" /\ saves' = Exported(rest, mem)
            /\ UNCHANGED <<made, mem, timer, failed, durables, ended, outcome, holding>>
  /\ UNCHANGED <<host, called, waiting, forgotten, asked, refused>>

\* Mutant: the retries are not counted from the start again.
TimerSaveFailsMutCounts ==
  /\ SaveEnds("timer")
  /\ failed' = failed + 1
  /\ LET again == failed < MaxRetries IN
     /\ timer' = IF again /\ timer = "off" THEN "retry" ELSE timer
     /\ forgotten' = (forgotten \/ (~again /\ timer = "off"))
  /\ saves' = Exported(Tail(saves), mem)
  /\ UNCHANGED <<host, made, mem, disk, durables, called, ended, outcome, waiting, holding, asked,
                 refused, closing>>

\* Mutant: a failed save is not tried again.
TimerSaveFailsMutOnce ==
  /\ SaveEnds("timer")
  /\ failed' = 0
  /\ saves' = Exported(Tail(saves), mem)
  /\ UNCHANGED <<host, made, mem, disk, timer, durables, called, ended, outcome, waiting, holding,
                 asked, refused, closing, forgotten>>

TimerSaveFails ==
  /\ SaveEnds("timer")
  /\ LET again == failed < MaxRetries IN
     /\ failed' = IF again THEN failed + 1 ELSE 0
     /\ timer' = IF again /\ timer = "off" THEN "retry" ELSE timer
     /\ forgotten' = (forgotten \/ (~again /\ timer = "off"))
  /\ saves' = Exported(Tail(saves), mem)
  /\ UNCHANGED <<host, made, mem, disk, durables, called, ended, outcome, waiting, holding, closing, asked, refused>>

\* The save before the operation fails: it is not run.
\* Mutant: it stays pending.
FirstSaveFailsMutPending ==
  /\ SaveEnds("durable") /\ durables[1].step = "before" /\ Changed
  /\ outcome' = [outcome EXCEPT ![made'] = "failed"]
  /\ saves' = Exported(Tail(saves), mem)
  /\ forgotten' = (forgotten \/ (mem # disk /\ timer = "off"))
  /\ UNCHANGED <<host, mem, disk, timer, failed, durables, called, ended, waiting, holding,
                 asked, refused, closing>>

FirstSaveFails ==
  /\ SaveEnds("durable") /\ durables[1].step = "before" /\ Changed
  /\ durables' = Tail(durables) /\ ended' = ended + 1
  /\ outcome' = [outcome EXCEPT ![made'] = "failed"]
  /\ saves' = Exported(Tail(saves), mem)
  /\ forgotten' = (forgotten \/ (mem # disk /\ timer = "off"))
  /\ UNCHANGED <<host, mem, disk, timer, failed, called, waiting, holding, closing, asked, refused>>

\* The save after it fails: the image before the operation comes back.
\* Mutant: the image stays as it is.
SecondSaveFailsMutKept ==
  /\ SaveEnds("durable") /\ durables[1].step = "after"
  /\ timer' = "off"
  /\ outcome' = [outcome EXCEPT ![Own] = "failed"]
  /\ durables' = Tail(durables) /\ ended' = ended + 1
  /\ saves' = Exported(Tail(saves), mem)
  /\ UNCHANGED <<host, made, mem, disk, failed, called, waiting, holding, closing, forgotten, asked, refused>>

SecondSaveFails ==
  /\ SaveEnds("durable") /\ durables[1].step = "after"
  /\ mem' = durables[1].snapshot /\ timer' = "off"
  /\ outcome' = [outcome EXCEPT ![Own] = "failed"]
  /\ durables' = Tail(durables) /\ ended' = ended + 1
  /\ saves' = Exported(Tail(saves), mem')
  /\ UNCHANGED <<host, made, disk, failed, called, waiting, holding, closing, forgotten, asked, refused>>

\* A request's or the closing save fails.
OtherSaveFails ==
  /\ \/ SaveEnds("request") /\ holding' = FALSE /\ UNCHANGED closing
     \/ SaveEnds("close") /\ closing' = "no" /\ UNCHANGED holding
  /\ saves' = Exported(Tail(saves), mem)
  /\ forgotten' = (forgotten \/ (mem # disk /\ timer = "off"))
  /\ UNCHANGED <<host, made, mem, disk, timer, failed, durables, called, ended, outcome, waiting, asked, refused>>

-----------------------------------------------------------------------------
(* Requests take turns, and on the desktop wait until no durable operation is pending. *)

AskAccess ==
  /\ closing = "no" /\ asked < MaxRequests /\ asked' = asked + 1
  /\ waiting' = Append(waiting, IF waiting = <<>> /\ ~holding THEN called ELSE 0)
  /\ UNCHANGED <<host, made, mem, disk, timer, failed, saves, durables, called, ended, outcome,
                 holding, closing, forgotten, refused>>

\* The first one has waited for the operations it saw: were others called meanwhile?
\* Mutant: it does not look again.
LookAgainMutOnce == FALSE
LookAgain == durables # <<>>

AccessLooksAgain ==
  /\ Desktop /\ waiting # <<>> /\ ~holding /\ ended >= waiting[1] /\ LookAgain
  /\ waiting[1] # called
  /\ waiting' = [waiting EXCEPT ![1] = called]
  /\ UNCHANGED <<host, made, mem, disk, timer, failed, saves, durables, called, ended, outcome,
                 holding, closing, forgotten, asked, refused>>

\* The request starts with a change, or saves what there is.
AccessStarts ==
  /\ waiting # <<>> /\ ~holding /\ (Desktop => ended >= waiting[1] /\ ~LookAgain)
  /\ waiting' = Tail(waiting)
  /\ \/ /\ Spare /\ Changed /\ holding' = TRUE
        /\ IF durables # <<>> /\ Desktop
             THEN refused' = TRUE /\ UNCHANGED <<mem, timer>> \* it throws
             ELSE mem' = mem \cup {made'} /\ timer' = Schedule(timer) /\ UNCHANGED refused
        /\ UNCHANGED <<disk, saves>>
     \/ /\ Desktop /\ holding' = TRUE
        /\ timer' = "off" /\ saves' = Queued(saves, "request", mem)
        /\ UNCHANGED <<made, mem, disk, refused>>
     \/ /\ ~Desktop /\ timer' = "off" /\ disk' = mem
        /\ UNCHANGED <<made, mem, saves, holding, refused>>
  /\ UNCHANGED <<host, failed, durables, called, ended, outcome, closing, forgotten, asked>>

AccessEnds ==
  /\ holding /\ \A k \in DOMAIN saves : saves[k].by # "request"
  /\ holding' = FALSE
  /\ UNCHANGED <<host, made, mem, disk, timer, failed, saves, durables, called, ended, outcome,
                 waiting, closing, forgotten, asked, refused>>

-----------------------------------------------------------------------------
(* Closing, once the requests have stopped: waits for those under way, then saves. *)

Close ==
  /\ closing = "no" /\ Desktop
  /\ closing' = "wait"
  /\ UNCHANGED <<host, made, mem, disk, timer, failed, saves, durables, called, ended, outcome,
                 waiting, holding, forgotten, asked, refused>>

\* Mutant: it does not wait for the operations under way.
CloseSavesMutAtOnce ==
  /\ closing = "wait"
  /\ closing' = "flush" /\ timer' = "off" /\ saves' = Queued(saves, "close", mem)
  /\ UNCHANGED <<host, made, mem, disk, failed, durables, called, ended, outcome, waiting,
                 holding, forgotten, asked, refused>>

CloseSaves ==
  /\ closing = "wait" /\ waiting = <<>> /\ ~holding /\ durables = <<>>
  /\ closing' = "flush" /\ timer' = "off" /\ saves' = Queued(saves, "close", mem)
  /\ UNCHANGED <<host, made, mem, disk, failed, durables, called, ended, outcome, waiting,
                 holding, forgotten, asked, refused>>

CloseEnds ==
  /\ closing = "drain" /\ saves = <<>>
  /\ closing' = "closed"
  /\ UNCHANGED <<host, made, mem, disk, timer, failed, saves, durables, called, ended, outcome,
                 waiting, holding, forgotten, asked, refused>>

\* The process dies; what it had promised nobody is gone.
Crash ==
  /\ mem' = disk /\ timer' = "off" /\ failed' = 0 /\ saves' = <<>> /\ durables' = <<>>
  /\ ended' = called /\ waiting' = <<>> /\ holding' = FALSE /\ closing' = "no"
  /\ forgotten' = FALSE
  /\ UNCHANGED <<host, made, disk, called, outcome, asked, refused>>

Next ==
  \/ Mutate \/ TimerFires \/ StandaloneTimer
  \/ CallDurable \/ StandaloneDurable \/ DurableStarts
  \/ SaveSucceeds \/ TimerSaveFails \/ FirstSaveFails \/ SecondSaveFails \/ OtherSaveFails
  \/ AskAccess \/ AccessLooksAgain \/ AccessStarts \/ AccessEnds
  \/ Close \/ CloseSaves \/ CloseEnds \/ Crash

Spec == Init /\ [][Next]_vars

\* A save ends, in either way; promises settle; requests that hold access end.
SaveGoesOn == SaveSucceeds \/ TimerSaveFails \/ FirstSaveFails \/ SecondSaveFails \/ OtherSaveFails
DurableGoesOn == DurableStarts \/ StandaloneDurable
Fairness ==
  /\ WF_vars(SaveGoesOn) /\ WF_vars(DurableGoesOn)
  /\ WF_vars(AccessLooksAgain) /\ WF_vars(AccessStarts) /\ WF_vars(AccessEnds)

FairSpec == Spec /\ Fairness

-----------------------------------------------------------------------------
(* The types of the variables. *)
TypeOK ==
  /\ host \in {"desktop", "standalone"} /\ made \in 0..MaxChanges
  /\ mem \subseteq 1..made /\ disk \subseteq 1..made
  /\ timer \in {"off", "soon", "retry"} /\ failed \in 0..MaxRetries
  /\ saves \in Seq([by: Callers, image: (SUBSET Changes) \cup {None}])
  /\ durables \in Seq([step: {"called", "before", "after"}, snapshot: SUBSET Changes])
  /\ ended \in 0..called /\ called \in 0..MaxDurables
  /\ outcome \in [Changes -> {None, "done", "failed"}]
  /\ waiting \in Seq(0..MaxDurables) /\ asked \in 0..MaxRequests
  /\ holding \in BOOLEAN /\ forgotten \in BOOLEAN /\ refused \in BOOLEAN
  /\ closing \in {"no", "wait", "flush", "drain", "closed"}

\* What the caller of a durable operation was told is so: a change reported done is
\* in the file, now and after any crash, and one reported failed is not in the image
\* (unless a crash has brought it back, see FailedIsUndone).
DurableOutcomes ==
  \A c \in 1..made : /\ outcome[c] = "done" => c \in disk
                     /\ outcome[c] = "failed" => (c \in mem => c \in disk)

\* The file never goes back to an older image: a save that was called earlier does not
\* land after a later one, and only a change that was undone leaves the file.
FileNeverGoesBack ==
  [][\A c \in disk \ disk' : outcome'[c] = "failed"]_vars

\* A change that is not in the file has a save coming, until its retries are used up
\* or a save that was not the background's failed after it had taken the timer's work.
UnsavedIsOwed ==
  ~(mem \subseteq disk) => \/ timer # "off" \/ saves # <<>> \/ durables # <<>>
                           \/ forgotten \/ closing # "no"

\* "A failed write restores the prior in-memory image too, so the caller never
\* observes a credential/state transition that only half happened": a failed
\* operation is not in the file either, from which the relay restarts.
FailedIsUndone == \A c \in 1..made : outcome[c] = "failed" => c \notin disk

\* Once closed, everything is in the file.
ClosedIsSaved == closing = "closed" => mem \subseteq disk

\* What the caller of a durable operation was told is so, what is not in the file has
\* somebody to save it, once closed all is in the file, and the file never goes back to
\* an older image.
PromisesAreKept ==
  [](TypeOK /\ DurableOutcomes /\ UnsavedIsOwed /\ ClosedIsSaved) /\ FileNeverGoesBack

\* A durable operation ends although others are called and saves fail.
DurablesEnd == []<>(ended = called)

\* "a durable cannot then begin before the operation's first writes": a request that
\* got its turn is not refused the change it starts with.
TurnsCanWrite == ~refused

\* Requests that wait get their turn although durable operations are called and fail.
RequestsGetTheirTurn == []<>(waiting = <<>>)
=============================================================================
