---------------------------- MODULE OrganismCast ----------------------------
(***************************************************************************)
(* An organism cast: its plan is loaded and judged, the supervisor         *)
(* launches it, the run spawns the lanes, the boundary carries the packets *)
(* into provider requests, and evidence is presented.  The machines share  *)
(* no state, and take their steps in any order.                            *)
(***************************************************************************)
EXTENDS CastPlan, CastSupervisor, CastRun, FindingBoundary, FindingEvidence

CastInit == PlanInit /\ SupInit /\ RunInit /\ BoundaryInit /\ EvidenceInit

(* One machine moves, and the others stay as they are.                     *)
MovePlan ==
  PlanNext /\ UNCHANGED <<supVars, runVars, boundaryVars, evidenceVars>>
MoveSupervisor ==
  SupNext /\ UNCHANGED <<planVars, runVars, boundaryVars, evidenceVars>>
MoveLanes ==
  RunNext /\ UNCHANGED <<planVars, supVars, boundaryVars, evidenceVars>>
MoveBoundary ==
  BoundaryNext /\ UNCHANGED <<planVars, supVars, runVars, evidenceVars>>
MoveEvidence ==
  EvidenceNext /\ UNCHANGED <<planVars, supVars, runVars, boundaryVars>>
CastNext ==
  \/ MovePlan \/ MoveSupervisor \/ MoveLanes \/ MoveBoundary \/ MoveEvidence

castVars == <<planVars, supVars, runVars, boundaryVars, evidenceVars>>
CastSpec == CastInit /\ [][CastNext]_castVars
=============================================================================
