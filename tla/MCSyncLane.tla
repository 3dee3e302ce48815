------------------------------ MODULE MCSyncLane ------------------------------
(* Model values for TLC. *)
EXTENDS SyncLane, TLC

CONSTANT none
MCNone == none
=============================================================================
