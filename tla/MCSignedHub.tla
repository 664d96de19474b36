---------------------------- MODULE MCSignedHub ----------------------------
(***************************************************************************)
(* Three runs of the program: two that overlap and a third that comes      *)
(* after one of them has died, or three that meet at one stale lock.       *)
(***************************************************************************)
EXTENDS SignedHub, TLC

CONSTANTS p1, p2, p3

MCProcesses == {p1, p2, p3}
MCSymmetry  == Permutations(MCProcesses)
=============================================================================
