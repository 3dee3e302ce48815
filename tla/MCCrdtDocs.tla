----------------------------- MODULE MCCrdtDocs -----------------------------
(* A small instance of CrdtDocs for TLC. *)
EXTENDS CrdtDocs, TLC

CONSTANTS s1, s2

MCOneSwitcher  == {s1}
MCTwoSwitchers == {s1, s2}

SwitcherSymmetry == Permutations(Switchers)
=============================================================================
