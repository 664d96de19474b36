------------------------ MODULE MCNativePublication ------------------------
(***************************************************************************)
(* Model values for NativePublication: three tool calls are the least with *)
(* two publications and a retry of one of them after a restart.            *)
(***************************************************************************)
EXTENDS NativePublication, TLC

CONSTANTS x1, x2, c1, c2, c3

MCTurns    == 1 .. 12
MCContents == {x1, x2}
MCCalls    == {c1, c2, c3}
MCTwoCalls == {c1, c2}

MCSymmetry == Permutations(MCContents) \cup Permutations(Calls)
=============================================================================
