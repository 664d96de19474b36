------------------------------ MODULE CastPlan ------------------------------
(***************************************************************************)
(* What an organism cast is made of: loadOrganismCastPlan(), which reads a *)
(* manifest and everything it binds by digest, organismCastCheck(), which  *)
(* reports on the plan, and the preconditions of the two ways to run it:   *)
(* `cast run` and the prepare command of the supervisor                    *)
(* (src/src/organism-cast.ts, organism-cast-supervisor.ts and its cli).    *)
(***************************************************************************)
EXTENDS Naturals, FiniteSets, Sequences

CONSTANTS
  LaneIds,   \* lane ids of manifests and packs
  Profiles,  \* normalized profile names
  MaxLanes   \* bound on the lanes of a manifest

Arms == {"organum", "bare"}

Channel(arm) ==
  IF arm = "organum" THEN "organum_coordination" ELSE "bare_no_coordination"

Channels == {Channel(arm) : arm \in Arms}

LaneSpecs == [id : LaneIds, profile : Profiles, backend : {"deepcode", "claude"}]

(* A manifest whose files are all regular, at their exact places, with the *)
(* digests it names, in directories laid out as they must be (any other    *)
(* throws).  matching: the preregistration names its timeout and id; pin:  *)
(* the finding route of a v3 manifest is that of the preregistration; gate:*)
(* no evaluator, one that answers the probes as ratified, or another.      *)
Candidates ==
  [version : {"v1", "v2", "v3"}, arm : Arms, matching : BOOLEAN, pin : BOOLEAN,
   channel : Channels, gate : {"none", "ratified", "other"},
   packLanes : SUBSET LaneIds \ {{}},
   lanes : UNION {[1 .. n -> LaneSpecs] : n \in 1 .. MaxLanes}]

VARIABLES
  manifest,  \* what `cast check`, `cast run` or a prepare is given
  darwin     \* the bridge of Deep Code lanes exists only on macOS

planVars == <<manifest, darwin>>

PlanInit == manifest \in Candidates /\ darwin \in BOOLEAN

(* The file is what it is; each command reads it anew. *)
PlanNext == darwin' = darwin /\ manifest' = manifest

PlanSpec == PlanInit /\ [][PlanNext]_planVars
-----------------------------------------------------------------------------
LaneIdsOf(m) == {m.lanes[i].id : i \in DOMAIN m.lanes}

ProfilesOf(m) == {m.lanes[i].profile : i \in DOMAIN m.lanes}

(* The preregistration of a v2 or v3 manifest and the pin of a v3 one. *)
Preregistered(m) ==
  /\ m.version # "v1" => m.matching
  /\ m.version = "v3" => m.pin /\ m.channel = Channel(m.arm)

(* loadOrganismCastPlan() returns a plan instead of throwing. *)
Loads(m) ==
  /\ Preregistered(m)
  /\ Cardinality(LaneIdsOf(m)) = Len(m.lanes) /\ LaneIdsOf(m) = m.packLanes
  /\ m.gate # "other"
  /\ Cardinality(ProfilesOf(m)) = Len(m.lanes)

(* plan.preregisteredTimeoutMs, null for a v1 manifest, is plan.timeoutMs. *)
TimeoutBound(m) == m.version # "v1" /\ m.matching

PtyReady(m) == darwin \/ \A i \in DOMAIN m.lanes : m.lanes[i].backend # "deepcode"

(* Fault: the report does not ask for the delivery gate. *)
ReadyWithoutGate(m) == PtyReady(m) /\ m.version \in {"v2", "v3"} /\ TimeoutBound(m)

(* structural_ready of organismCastCheck(). *)
StructuralReady(m) ==
  /\ PtyReady(m)
  /\ m.version \in {"v2", "v3"}
  /\ TimeoutBound(m)
  /\ m.arm = "bare" \/ m.gate # "none"

(* runOrganismCast() gets as far as its lanes in a fresh run directory. *)
RunAccepts(m) ==
  /\ m.version = "v2" /\ TimeoutBound(m)
  /\ m.arm = "organum" => m.gate # "none"

(* requireTrackBPlan() and OrganismCastV3Supervisor.prepare(). *)
PrepareAccepts(m) ==
  /\ m.version = "v3"
  /\ m.arm = "organum" => m.gate # "none"

(* The lanes whose executor throws because their bridge cannot be prepared. *)
Unspawnable(m) == {i \in DOMAIN m.lanes : m.lanes[i].backend = "deepcode" /\ ~darwin}
-----------------------------------------------------------------------------
(* `cast check` is a true forecast, though it shares no code with what it  *)
(* forecasts: of the plans that load it calls ready exactly those that one *)
(* of the two ways to run accepts and whose every lane can be spawned.     *)
CheckForecastsRun ==
  Loads(manifest) =>
    (StructuralReady(manifest) <=>
       /\ RunAccepts(manifest) \/ PrepareAccepts(manifest)
       /\ Unspawnable(manifest) = {})
=============================================================================
