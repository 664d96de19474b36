--------------------------- MODULE MCPublication ---------------------------
(***************************************************************************)
(* Model values for Publication: two turns, two contents and two callers   *)
(* are the least with a replaced turn, a conflict and a joined operation.  *)
(* In place of a symmetry, which liveness forbids, the turns are numbered  *)
(* as they come, and one of the callers keeps to one content.              *)
(***************************************************************************)
EXTENDS Publication, TLC

CONSTANTS m1, m2, x1, x2, c1, c2

MCTurns    == {m1, m2}
MCContents == {x1, x2}
MCCalls    == {c1, c2}

MCSymmetry == Permutations(MCTurns) \cup Permutations(MCContents)
                \cup Permutations(MCCalls)

Ordered ==
  /\ turnID = Nothing /\ envelopes = {} => turnID' # m2
  /\ call'[c1].content # x2

MCSpec == Init /\ [][Next /\ Ordered]_vars /\ Fairness
=============================================================================
