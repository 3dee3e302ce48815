------------------------------ MODULE AtomicFile ------------------------------
(***************************************************************************)
(* What the desktop plugin's callers rely on when they replace a file that *)
(* must survive a crash - the relay's database image, its identity, a      *)
(* persisted document: the content changes in one step, from one complete  *)
(* image to the next, and a replacement that failed changed nothing.       *)
(***************************************************************************)
CONSTANTS
    Images,     \* complete contents
    None,       \* no such file
    RenamesLie  \* a rename may be reported failed although it happened

VARIABLES
    value,      \* the file's content
    seen,       \* the content last read
    call,       \* the replacement under way: not begun, begun, or committed
    pending,    \* the image it writes
    result      \* how the last one ended

vars == <<value, seen, call, pending, result>>

Init ==
    /\ value \in Images \cup {None}
    /\ seen = None
    /\ call = "none" /\ pending = None /\ result = "none"

Begin(img) ==
    /\ call = "none"
    /\ call' = "begun" /\ pending' = img /\ result' = "none"
    /\ UNCHANGED <<value, seen>>

Commit ==
    /\ call = "begun"
    /\ value' = pending
    /\ call' = "committed"
    /\ UNCHANGED <<seen, pending, result>>

Return(outcome) ==
    /\ call' = "none" /\ pending' = None /\ result' = outcome
    /\ UNCHANGED <<value, seen>>

Succeed == call = "committed" /\ Return("ok")

\* The caller may undo what it did in memory.
Fail ==
    /\ call = "begun" \/ (call = "committed" /\ RenamesLie)
    /\ Return("failed")

\* The process dies: committed or not, nobody is told.
Die == Return("none")

Read ==
    /\ call = "none"
    /\ seen' = value
    /\ UNCHANGED <<value, call, pending, result>>

Next == (\E img \in Images : Begin(img)) \/ Commit \/ Succeed \/ Fail \/ Die \/ Read

Spec == Init /\ [][Next]_vars
===============================================================================
