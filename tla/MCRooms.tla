-------------------------------- MODULE MCRooms --------------------------------
(***************************************************************************)
(* The two lanes of a room: small instances of FileRows (whole files, and  *)
(* both lanes' effect on their versions) and CrdtDocs (two notes, one      *)
(* request to change the lane).  They share no state: a behaviour is one   *)
(* of one of them, while the other rests.                                  *)
(***************************************************************************)
EXTENDS MCFileRows

VARIABLES
    part, \* what the behaviour is about
    on, notes, cache, queue, retiring, switch, switched, deleting, listings, ghost

Docs == INSTANCE CrdtDocs WITH rows <- notes, durable <- switched,
    FileCount <- 2, TextCount <- 2, MaxSeq <- 1, MaxEpoch <- 0, MaxQueue <- 2,
    Switchers <- {"s"}, MaxSeedAttempts <- 2, Failures <- {"land", "durable"}

docsVars == <<on, notes, cache, queue, retiring, switch, switched, deleting, listings, ghost>>

MCInit ==
    /\ part \in {"rows", "docs"}
    /\ Init /\ (part # "rows" => seen = None /\ \A i \in Ids : rows[i] = NoRow)
    /\ IF part = "docs" THEN Docs!Init
       ELSE /\ on = None /\ notes = None /\ cache = None /\ queue = None /\ retiring = None
            /\ switch = None /\ switched = None /\ deleting = None /\ listings = None /\ ghost = None

MCNext ==
    \/ part = "rows" /\ Next /\ UNCHANGED <<part, docsVars>>
    \/ part = "docs" /\ Docs!Next /\ UNCHANGED <<part, vars>>

\* The fairness of CrdtDocs.
MCFairness ==
    /\ WF_docsVars(part = "docs" /\ (Docs!Lands \/ Docs!LandFails))
    /\ \A f \in {1, 2} : SF_docsVars(part = "docs" /\ Docs!Materialize(f, 0))
    /\ WF_docsVars(part = "docs" /\ Docs!RequestGoesOn("s"))

MCSpec == MCInit /\ [][MCNext]_<<part, vars, docsVars>> /\ MCFairness

\* CrdtDocs: every accepted update is in the text of its note.
AcceptedSurvives == part = "docs" => Docs!AcceptedSurvives
\* CrdtDocs: a room that rejects updates while it leaves the lane takes them again.
RetireEnds == []<>(part = "docs" => ~retiring)
=============================================================================
