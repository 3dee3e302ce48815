---------------------------- MODULE MCSavedServer ----------------------------
(* A small instance of SavedServer for TLC. *)
EXTENDS SavedServer, TLC
=============================================================================
