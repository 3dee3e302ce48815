-------------------------------- MODULE MCNotes --------------------------------
(***************************************************************************)
(* What devices and the relay tell each other about notes: small instances *)
(* of Presence, Hues, RateLimiter and NoteJournal.  They share no state: a *)
(* behaviour is one of one of them, while the others rest.                 *)
(***************************************************************************)
EXTENDS Hues, TLC

CONSTANTS laptop, phone, Foreign, Push, Devices, Positions,
    Keys, MaxRequests, WindowMs, MaxTrackedKeys \* RateLimiter's

MCUserOf == <<"ann", "ann", "bob", "cid">>
MCDevices == {laptop, phone}
MCSymmetry == Permutations(MCDevices)

VARIABLES
    part, \* what the behaviour is about
    note, deleting, readers, conn, carets, up, down, link, session, docs, missed, events, moves,
    counters, granted, lost,
    disk, ops, cas, saved, ids, notes, wake, at, cur, res, online, live, open, docsAt,
    receipts, net, happened, excused

Carets == INSTANCE Presence WITH
    Conns <- 1..3, Paths <- {"a", "b"}, DbQueue <- FALSE, MaxDocs <- 2, MaxEvents <- 1, MaxMoves <- 2

Limiter == INSTANCE RateLimiter

\* Names are strings, so that an order's note is never compared with one.
Journal == INSTANCE NoteJournal WITH
    up <- online, session <- open, docs <- docsAt, events <- happened,
    Paths <- {"a", "b"}, Spares <- {"x", "y"}, MaxNotes <- 2, MaxIds <- 4, MaxEvents <- 2

caretVars == <<note, deleting, readers, conn, carets, up, down, link, session, docs, missed,
               events, moves>>
limiterVars == <<counters, granted, lost>>
journalVars ==
    <<disk, ops, cas, saved, ids, notes, wake, at, cur, res, online, live, open, docsAt,
      receipts, net, happened, excused>>

MCInit ==
    /\ part \in {"presence", "hues", "limiter", "journal"}
    /\ Init /\ (part # "hues" => ~embedded)
    /\ IF part = "presence" THEN Carets!Init
       ELSE /\ note = None /\ deleting = None /\ readers = None /\ conn = None /\ carets = None
            /\ up = None /\ down = None /\ link = None /\ session = None /\ docs = None
            /\ missed = None /\ events = None /\ moves = None
    /\ IF part = "limiter" THEN Limiter!Init
       ELSE counters = None /\ granted = None /\ lost = None
    /\ IF part = "journal" THEN Journal!Init
       ELSE /\ disk = None /\ ops = <<>> /\ cas = None /\ saved = None /\ ids = None /\ notes = None
            /\ wake = None /\ at = None /\ cur = None /\ res = None /\ online = None /\ live = None
            /\ open = None /\ docsAt = None /\ receipts = None /\ net = None /\ happened = None
            /\ excused = None

MCNext ==
    \/ part = "hues"     /\ Next /\ UNCHANGED <<part, caretVars, limiterVars, journalVars>>
    \/ part = "presence" /\ Carets!Next /\ UNCHANGED <<part, vars, limiterVars, journalVars>>
    \/ part = "limiter"  /\ Limiter!Next /\ UNCHANGED <<part, vars, caretVars, journalVars>>
    \/ part = "journal"  /\ Journal!Next /\ UNCHANGED <<part, vars, caretVars, limiterVars>>

MCSpec == MCInit /\ [][MCNext]_<<part, vars, caretVars, limiterVars, journalVars>>

\* Presence: a caret shown is of this life of the note, and when all is delivered two
\* devices see each other's carets where they are.
CaretsAgreeWithTheRelay == part = "presence" => (Carets!TypeOK /\ Carets!CaretsAreCurrent /\ Carets!CaretsAgree)
\* RateLimiter: only who has spent the window's requests is refused, and within any
\* window at most twice the limit is granted.
LimitsAreKept == part = "limiter" => Limiter!RefusedOnlyWhenSpent /\ Limiter!TwiceAtMost
\* NoteJournal: a note becomes one document of the relay, however often it is sent, and
\* once all is acknowledged that document is where the device has the note; what was
\* sent once is never sent again as something else.
NotesAreWhereTheyAre ==
    /\ [](part = "journal" => Journal!TypeOK /\ Journal!OneDocument /\ Journal!NotesAreWhereTheyAre)
    /\ Journal!TriedIsFixed
=============================================================================
