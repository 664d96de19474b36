--------------------------- MODULE MCOrganismCast ---------------------------
(***************************************************************************)
(* A small cast.  Its machines share no state: the checker explores each   *)
(* of them alone, as part chooses, and leaves the others where they start. *)
(* Three commands are the least with a prepare, a start and its retry; two *)
(* runs on one directory the least that race; three packets of which two   *)
(* share an identity, and three requests, the least with a conflict, an    *)
(* overlap and a retry; two questions, of which one is too long to be read *)
(* back, and of which a lane asks one.                                     *)
(***************************************************************************)
EXTENDS OrganismCast, TLC

CONSTANTS a1, a2, a3, b1, b2, l1, l2, k1, k2, k3, i1, i2, m1, q1, q2

(* The parts never meet, so that they may share the model values.          *)
MCActors     == {a1, a2, a3}
MCPairs      == {b1, b2}
MCLanes      == {l1, l2}
MCBridged    == {l1}
MCPackets    == {k1, k2, k3}
MCIdentities == {i1, i2}
MCIdentityOf == k1 :> i1 @@ k2 :> i2 @@ k3 :> i2

MCRoutes     == {k1, k2}

MCSymmetry == Permutations(MCActors) \cup Permutations(MCPairs)

VARIABLE part

MaxAsked == 1
FewAreAsked == \A l \in Lanes : Cardinality(records[l].requests) <= MaxAsked

(* The question that is never read, and the read that fails, are met by a  *)
(* run that has the directory for itself.                                  *)
Begun  == {r \in Runs : LanesAt(r, {"none"}) # Lanes}
Unread == \/ \E l \in Lanes : records[l].requests \cap Oversized # {}
          \/ \E r \in Runs, l \in Lanes : lane[r][l].missed
UnreadIsAlone == Unread => Cardinality(Begun) <= 1

MaxFailed == 1   \* children of a run that end without success
MaxLate   == 1   \* runs whose deadline passes
FewFail == /\ \A r \in Runs : LET ended == LanesAt(r, {"closing", "resolved"})
                              IN Cardinality({l \in ended : ~lane[r][l].ok}) <= MaxFailed
           /\ Cardinality({r \in Runs : run[r].deadline}) <= MaxLate

(* The plan is a pure question: while the others run it has one answer.    *)
MCAnyPlan == CHOOSE m \in Candidates : ~m.matching

MCInit ==
  /\ part \in {"plan", "supervisor", "run", "boundary", "evidence"}
  /\ IF part = "plan" THEN PlanInit ELSE manifest = MCAnyPlan /\ darwin = FALSE
  /\ SupInit /\ RunInit /\ BoundaryInit /\ EvidenceInit

MCNext ==
  /\ \/ part = "plan" /\ MovePlan
     \/ part = "supervisor" /\ MoveSupervisor
     \/ part = "run" /\ MoveLanes /\ FewAreAsked' /\ UnreadIsAlone' /\ FewFail'
     \/ part = "boundary" /\ MoveBoundary
     \/ part = "evidence" /\ MoveEvidence
  /\ UNCHANGED part

MCSpec == MCInit /\ [][MCNext]_<<castVars, part>>
=============================================================================
