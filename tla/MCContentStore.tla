--------------------------- MODULE MCContentStore ---------------------------
(* A small instance of ContentStore for TLC. *)
EXTENDS ContentStore

CONSTANTS f1, c1, c2

MCOneFile  == {f1}
MCContents == {c1, c2}

\* Legacy rows: an edited note with unpruned history, and an old tombstone
\* that still retains a version.
MCLegacyRows ==
    {[live |-> TRUE, legacy |-> TRUE, cur |-> c1, vers |-> {<<c1, "inline">>, <<c2, "inline">>}],
     [live |-> FALSE, legacy |-> TRUE, cur |-> None, vers |-> {<<c2, "inline">>}]}

=============================================================================
