-------------------------- MODULE NativeHostProofs --------------------------
(***************************************************************************)
(* Proofs about the launches of a native backend, its tools, the ACP host  *)
(* and the run of the command, for every number of launches, sessions,     *)
(* proposals, runners, requests and invocations.                           *)
(*                                                                         *)
(* The invariants say who holds what at each step: the living launch past  *)
(* the lock owns it; the approved command is in the ledger once and out    *)
(* only with the answer that carries it; a critic has read no more since   *)
(* its command than its gate has counted; a signed turn that closes        *)
(* without a failure is acknowledged as what its exit code says.           *)
(***************************************************************************)
EXTENDS
  NativeRuntime, NativeTools, AcpHost, ProductRun, FiniteSetTheorems, TLAPS

(***************************************************************************)
(* NativeRuntime: one backend in the runtime directory.                    *)
(***************************************************************************)
NativePlaces ==
  {"start", "read", "absent", "record", "planned", "healthy", "owned", "cleared", "projected",
   "contained", "running", "closing", "refused", "removing", "unlocking", "finalize", "done",
   "dead"}
SessionFiles == [native : Sessions \cup {Nobody}, resumable : BOOLEAN, there : BOOLEAN]

NativeTypes ==
  /\ product \in Products /\ sessionFile \in SessionFiles
  /\ sessions \subseteq Sessions /\ IsFiniteSet(sessions)
  /\ lock \in Launches \cup {Nobody} /\ projection \in Launches \cup {Nobody}
  /\ step \in [Launches -> NativePlaces] /\ phase \in [Launches -> {"plan", "finalize"}]
  /\ loaded \in [Launches -> SessionFiles] /\ planned \in [Launches -> SessionFiles]
  /\ owns \in [Launches -> BOOLEAN] /\ sandbox \in [Launches -> BOOLEAN]
  /\ backend \in [Launches -> {"none", "running", "exited"}]

(* Only a living owner is past the lock, and a dead one keeps it.          *)
OwnerInv ==
  \A p \in Launches :
    /\ step[p] \in {"owned", "cleared", "projected", "contained", "running"} => owns[p]
    /\ owns[p] /\ step[p] \notin {"done", "dead"} => lock = p
    /\ backend[p] = "running" => step[p] \in {"running", "dead"} /\ lock = p

(* Whose configuration and whose sandbox a backend meets.                  *)
ProjectionInv ==
  Projects => \A p \in Launches :
    /\ step[p] \in {"projected", "contained", "running"} \/ backend[p] = "running" =>
         projection \in {p, Nobody}
    /\ step[p] \in {"contained", "running"} \/ backend[p] = "running" => sandbox[p]

(* The native identifiers in play.                                         *)
Natives ==
  ({sessionFile.native} \cup {loaded[p].native : p \in Launches}
     \cup {planned[p].native : p \in Launches}) \ {Nobody}

SessionInv ==
  /\ \A x, y \in Natives : x = y
  /\ \A x \in Natives : IF product = "deepcode" THEN x \in sessions ELSE x = TheSession

NativeInv == NativeTypes /\ OwnerInv /\ ProjectionInv /\ SessionInv

LEMMA NativeInitInv == NativeInit => NativeInv
  BY NobodyIsNobody, TheSessionIsASession, FS_EmptySet
  DEF NativeInit, NativeInv, NativeTypes, OwnerInv, ProjectionInv, SessionInv, Natives,
      NoFile, NativePlaces, SessionFiles

(* A session is only taken from disk if it is the only one there.          *)
LEMMA DiscoverOne ==
  ASSUME NativeTypes, NEW s \in Discover
  PROVE  product = "deepcode" /\ sessions = {s} /\ s \in Sessions
  BY FS_Singleton DEF Discover, NativeTypes

(* The steps of one launch.                                                *)
LaunchStep(p) ==
  \/ RefuseArguments(p) \/ LoadState(p) \/ RefuseState(p) \/ CreateState(p) \/ Plan(p)
  \/ Finalize(p) \/ Record(p) \/ InspectHealth(p) \/ AcquireOwner(p) \/ RefuseOwner(p)
  \/ ClearProjection(p) \/ WriteProjection(p) \/ ReplaceProjection(p) \/ Contain(p)
  \/ PrepareFails(p) \/ SpawnBackend(p) \/ BackendWrites(p) \/ BackendExits(p)
  \/ CloseSandbox(p) \/ RemoveProjection(p) \/ ReleaseOwner(p) \/ Crash(p)

(* One step of SessionNeverRebound.                                        *)
SessionKept ==
  sessionFile.native # Nobody => sessionFile'.native \in {sessionFile.native, Nobody}

LEMMA TypesStep ==
  ASSUME NativeInv, NEW p \in Launches, LaunchStep(p) PROVE NativeTypes'
<1> USE NobodyIsNobody, TheSessionIsASession
    DEF NativeInv, NativeTypes, NativePlaces, SessionFiles, NoFile, File, Products, Move,
        Over, Ready,
        directoryVars, planningVars, processVars
<1>1. CASE RefuseArguments(p) BY <1>1 DEF RefuseArguments
<1>2. CASE LoadState(p) BY <1>2 DEF LoadState
<1>3. CASE RefuseState(p) BY <1>3 DEF RefuseState
<1>4. CASE CreateState(p) BY <1>4 DEF CreateState, Expected
<1>5. CASE Plan(p)
  <2>1. CASE UNCHANGED loaded
    BY <1>5, <2>1 DEF Plan
  <2>2. CASE \E s \in Discover : loaded' = [loaded EXCEPT ![p] = File(s, TRUE)]
    <3>1. PICK s \in Sessions : loaded' = [loaded EXCEPT ![p] = File(s, TRUE)]
      BY <2>2, DiscoverOne
    <3>2. File(s, TRUE) \in SessionFiles
      OBVIOUS
    <3>3. loaded' \in [Launches -> SessionFiles]
      BY <3>1, <3>2
    <3> QED BY <1>5, <3>3 DEF Plan
  <2> QED BY <1>5, <2>1, <2>2 DEF Plan
<1>6. CASE Finalize(p)
  <2>1. CASE UNCHANGED loaded
    BY <1>6, <2>1 DEF Finalize
  <2>2. CASE \E s \in Sessions : loaded' = [loaded EXCEPT ![p] = File(s, TRUE)]
    <3>1. PICK s \in Sessions : loaded' = [loaded EXCEPT ![p] = File(s, TRUE)]
      BY <2>2
    <3>2. File(s, TRUE) \in SessionFiles
      OBVIOUS
    <3>3. loaded' \in [Launches -> SessionFiles]
      BY <3>1, <3>2
    <3> QED BY <1>6, <3>3 DEF Finalize
  <2> QED BY <1>6, <2>1, <2>2, DiscoverOne DEF Finalize
<1>7. CASE Record(p) BY <1>7 DEF Record
<1>8. CASE InspectHealth(p) BY <1>8 DEF InspectHealth
<1>9. CASE AcquireOwner(p) BY <1>9 DEF AcquireOwner
<1>10. CASE RefuseOwner(p) BY <1>10 DEF RefuseOwner
<1>11. CASE ClearProjection(p) BY <1>11 DEF ClearProjection
<1>12. CASE WriteProjection(p) BY <1>12 DEF WriteProjection
<1>13. CASE ReplaceProjection(p) BY <1>13 DEF ReplaceProjection
<1>14. CASE Contain(p) BY <1>14 DEF Contain
<1>15. CASE PrepareFails(p) BY <1>15 DEF PrepareFails
<1>16. CASE SpawnBackend(p) BY <1>16 DEF SpawnBackend
<1>17. CASE BackendWrites(p)
  <2>1. sessions' \subseteq Sessions /\ IsFiniteSet(sessions')
    <3>1. sessions' = sessions \/ \E s \in Sessions : sessions' = sessions \cup {s}
      BY <1>17 DEF BackendWrites
    <3>2. \A s \in Sessions : IsFiniteSet(sessions \cup {s})
      BY FS_AddElement
    <3> QED BY <3>1, <3>2
  <2>2. lock' \in Launches \cup {Nobody} /\ projection' \in Launches \cup {Nobody}
    BY <1>17 DEF BackendWrites
  <2> QED BY <1>17, <2>1, <2>2 DEF BackendWrites
<1>18. CASE BackendExits(p) BY <1>18 DEF BackendExits
<1>19. CASE CloseSandbox(p) BY <1>19 DEF CloseSandbox
<1>20. CASE RemoveProjection(p) BY <1>20 DEF RemoveProjection
<1>21. CASE ReleaseOwner(p) BY <1>21 DEF ReleaseOwner
<1>22. CASE Crash(p) BY <1>22 DEF Crash
<1> QED BY <1>1, <1>2, <1>3, <1>4, <1>5, <1>6, <1>7, <1>8, <1>9, <1>10, <1>11, <1>12,
          <1>13, <1>14, <1>15, <1>16, <1>17, <1>18, <1>19, <1>20, <1>21, <1>22 DEF LaunchStep

(* No step takes the lock from a living owner, nor its sandbox.            *)
LEMMA OwnerStep ==
  ASSUME NativeInv, NEW p \in Launches, LaunchStep(p) PROVE OwnerInv' /\ ProjectionInv'
<1> USE NobodyIsNobody DEF NativeInv, NativeTypes, NativePlaces, OwnerInv, ProjectionInv,
        Projects, Move, Ready,
        Over, directoryVars, planningVars, processVars
<1>1. CASE RefuseArguments(p) BY <1>1 DEF RefuseArguments
<1>2. CASE LoadState(p) BY <1>2 DEF LoadState
<1>3. CASE RefuseState(p) BY <1>3 DEF RefuseState
<1>4. CASE CreateState(p) BY <1>4 DEF CreateState
<1>5. CASE Plan(p)
  <2>1. /\ step[p] = "read"
        /\ \E x \in {"record", "planned", "done"} : step' = [step EXCEPT ![p] = x]
    BY <1>5 DEF Plan
  <2> QED BY <1>5, <2>1 DEF Plan
<1>6. CASE Finalize(p)
  <2>1. /\ step[p] = "read"
        /\ \E x \in {"record", "planned", "done"} : step' = [step EXCEPT ![p] = x]
    BY <1>6 DEF Finalize
  <2> QED BY <1>6, <2>1 DEF Finalize
<1>7. CASE Record(p) BY <1>7 DEF Record
<1>8. CASE InspectHealth(p) BY <1>8 DEF InspectHealth
<1>9. CASE AcquireOwner(p) BY <1>9 DEF AcquireOwner
<1>10. CASE RefuseOwner(p) BY <1>10 DEF RefuseOwner
<1>11. CASE ClearProjection(p) BY <1>11 DEF ClearProjection
<1>12. CASE WriteProjection(p) BY <1>12 DEF WriteProjection
<1>13. CASE ReplaceProjection(p) BY <1>13 DEF ReplaceProjection
<1>14. CASE Contain(p) BY <1>14 DEF Contain
<1>15. CASE PrepareFails(p) BY <1>15 DEF PrepareFails
<1>16. CASE SpawnBackend(p) BY <1>16 DEF SpawnBackend
<1>17. CASE BackendWrites(p)
  <2>1. lock' = lock /\ projection' = projection
    BY <1>17 DEF BackendWrites, Writable
  <2> QED BY <1>17, <2>1 DEF BackendWrites
<1>18. CASE BackendExits(p) BY <1>18 DEF BackendExits
<1>19. CASE CloseSandbox(p) BY <1>19 DEF CloseSandbox
<1>20. CASE RemoveProjection(p) BY <1>20 DEF RemoveProjection
<1>21. CASE ReleaseOwner(p) BY <1>21 DEF ReleaseOwner
<1>22. CASE Crash(p) BY <1>22 DEF Crash
<1> QED BY <1>1, <1>2, <1>3, <1>4, <1>5, <1>6, <1>7, <1>8, <1>9, <1>10, <1>11, <1>12,
          <1>13, <1>14, <1>15, <1>16, <1>17, <1>18, <1>19, <1>20, <1>21, <1>22 DEF LaunchStep

(* Every file of the next state has an identifier in play, or s, which the *)
(* product may choose and which agrees with all of them.                   *)
LEMMA SessionFrom ==
  ASSUME NativeInv, NEW s \in Sessions \cup {Nobody},
         s # Nobody => /\ \A x \in Natives : x = s
                       /\ IF product = "deepcode" THEN s \in sessions ELSE s = TheSession,
         sessionFile'.native \in Natives \cup {s, Nobody},
         \A q \in Launches : /\ loaded'[q].native \in Natives \cup {s, Nobody}
                             /\ planned'[q].native \in Natives \cup {s, Nobody},
         product' = product, sessions \subseteq sessions'
  PROVE  SessionInv' /\ SessionKept
<1>1. Natives' \subseteq Natives \cup {s} /\ Nobody \notin Natives'
  BY DEF Natives
<1>2. \A x, y \in Natives' : x = y
  BY <1>1 DEF NativeInv, SessionInv
<1>3. \A x \in Natives' : IF product' = "deepcode" THEN x \in sessions' ELSE x = TheSession
  BY <1>1 DEF NativeInv, SessionInv
<1>4. sessionFile.native # Nobody => sessionFile.native \in Natives
  BY DEF Natives
<1>5. SessionKept
  BY <1>4 DEF NativeInv, SessionInv, SessionKept
<1> QED BY <1>2, <1>3, <1>5 DEF SessionInv

LEMMA InPlay ==
  ASSUME NativeTypes, NEW q \in Launches
  PROVE  {sessionFile.native, loaded[q].native, planned[q].native} \subseteq Natives \cup {Nobody}
  BY DEF Natives

(* No step brings a second native session into play.                       *)
LEMMA SessionStep ==
  ASSUME NativeInv, NEW p \in Launches, LaunchStep(p) PROVE SessionInv' /\ SessionKept
<1> USE DEF NativeInv, NativeTypes, Move, directoryVars, planningVars, processVars
<1>0. ASSUME sessionFile' = sessionFile, loaded' = loaded, planned' = planned,
             product' = product, sessions \subseteq sessions'
      PROVE  SessionInv' /\ SessionKept
  BY <1>0, InPlay, SessionFrom
<1>1. CASE RefuseArguments(p) BY <1>1, <1>0 DEF RefuseArguments
<1>2. CASE LoadState(p)
  BY <1>2, InPlay, SessionFrom DEF LoadState
<1>3. CASE RefuseState(p) BY <1>3, <1>0 DEF RefuseState
<1>4. CASE CreateState(p)
  <2>1. Expected.native # Nobody => Expected.native = TheSession /\ product # "deepcode"
    BY DEF Expected, File
  <2>2. sessionFile'.native = Expected.native /\ loaded' = [loaded EXCEPT ![p] = Expected]
    BY <1>4, <1>0 DEF CreateState
  <2> QED BY <1>4, <2>1, <2>2, InPlay, SessionFrom, TheSessionIsASession
          DEF CreateState, SessionInv
<1>5. CASE Plan(p)
  <2>1. CASE UNCHANGED loaded
    BY <1>5, <2>1, InPlay, SessionFrom DEF Plan
  <2>2. ASSUME NEW s \in Discover, loaded' = [loaded EXCEPT ![p] = File(s, TRUE)]
        PROVE  SessionInv' /\ SessionKept
    <3>1. product = "deepcode" /\ s \in Sessions /\ s \in sessions /\ \A x \in Natives : x = s
      BY DiscoverOne DEF SessionInv
    <3> QED BY <1>5, <2>2, <3>1, InPlay, SessionFrom, NobodyIsNobody DEF Plan, File
  <2> QED BY <1>5, <2>1, <2>2 DEF Plan
<1>6. CASE Finalize(p)
  <2>1. CASE UNCHANGED loaded
    BY <1>6, <2>1, InPlay, SessionFrom DEF Finalize
  <2>2. ASSUME NEW s \in {loaded[p].native, planned[p].native} \ {Nobody},
               loaded' = [loaded EXCEPT ![p] = File(s, TRUE)]
        PROVE  SessionInv' /\ SessionKept
    BY <1>6, <2>2, InPlay, SessionFrom DEF Finalize, File
  <2>3. ASSUME NEW s \in Discover, loaded' = [loaded EXCEPT ![p] = File(s, TRUE)]
        PROVE  SessionInv' /\ SessionKept
    <3>1. product = "deepcode" /\ s \in Sessions /\ s \in sessions /\ \A x \in Natives : x = s
      BY DiscoverOne DEF SessionInv
    <3> QED BY <1>6, <2>3, <3>1, InPlay, SessionFrom, NobodyIsNobody DEF Finalize, File
  <2> QED BY <1>6, <2>1, <2>2, <2>3 DEF Finalize
<1>7. CASE Record(p)
  BY <1>7, InPlay, SessionFrom DEF Record
<1>8. CASE InspectHealth(p) BY <1>8, <1>0 DEF InspectHealth
<1>9. CASE AcquireOwner(p) BY <1>9, <1>0 DEF AcquireOwner
<1>10. CASE RefuseOwner(p) BY <1>10, <1>0 DEF RefuseOwner
<1>11. CASE ClearProjection(p) BY <1>11, <1>0 DEF ClearProjection
<1>12. CASE WriteProjection(p) BY <1>12, <1>0 DEF WriteProjection
<1>13. CASE ReplaceProjection(p) BY <1>13, <1>0 DEF ReplaceProjection
<1>14. CASE Contain(p) BY <1>14, <1>0 DEF Contain
<1>15. CASE PrepareFails(p) BY <1>15, <1>0 DEF PrepareFails
<1>16. CASE SpawnBackend(p) BY <1>16, <1>0 DEF SpawnBackend
<1>17. CASE BackendWrites(p)
  <2>1. sessions \subseteq sessions'
    BY <1>17, <1>0 DEF BackendWrites
  <2> QED BY <1>17, <1>0, <2>1 DEF BackendWrites
<1>18. CASE BackendExits(p) BY <1>18, <1>0 DEF BackendExits
<1>19. CASE CloseSandbox(p) BY <1>19, <1>0 DEF CloseSandbox
<1>20. CASE RemoveProjection(p) BY <1>20, <1>0 DEF RemoveProjection
<1>21. CASE ReleaseOwner(p) BY <1>21, <1>0 DEF ReleaseOwner
<1>22. CASE Crash(p) BY <1>22, <1>0 DEF Crash
<1> QED BY <1>1, <1>2, <1>3, <1>4, <1>5, <1>6, <1>7, <1>8, <1>9, <1>10, <1>11, <1>12,
          <1>13, <1>14, <1>15, <1>16, <1>17, <1>18, <1>19, <1>20, <1>21, <1>22 DEF LaunchStep

LEMMA NativeStepInv ==
  ASSUME NativeInv, [NativeNext]_nativeVars
  PROVE  NativeInv' /\ [SessionKept]_nativeVars
<1>1. ASSUME NEW p \in Launches, LaunchStep(p) PROVE NativeInv' /\ SessionKept
  BY <1>1, TypesStep, OwnerStep, SessionStep DEF NativeInv
<1>2. CASE OperatorUnlocks
  BY <1>2
  DEF NativeInv, NativeTypes, OwnerInv, ProjectionInv, SessionInv, SessionKept, Natives,
      Projects, OperatorUnlocks, planningVars, processVars
<1>3. CASE UNCHANGED nativeVars
  BY <1>3
  DEF nativeVars, NativeInv, NativeTypes, OwnerInv, ProjectionInv, SessionInv, Natives,
      Projects
<1> QED BY <1>1, <1>2, <1>3 DEF NativeNext, LaunchStep

(* The owner of the lock, the projection in the runtime directory and the  *)
(* native session stay consistent over any number of launches, wherever    *)
(* each of them stops (native-interactive-lifecycle.ts).                   *)
THEOREM NativeInvariance == NativeSpec => []NativeInv
  BY NativeInitInv, NativeStepInv, PTL DEF NativeSpec

(* At any time one backend runs in the actor's runtime directory, under    *)
(* the lock and inside its own sandbox, and no other launch's              *)
(* configuration is there.                                                 *)
THEOREM OneBackend == NativeSpec => []OneBackendPerRuntime
<1>1. NativeInv => OneBackendPerRuntime
  <2> SUFFICES ASSUME NativeInv PROVE OneBackendPerRuntime
    OBVIOUS
  <2> DEFINE running == {p \in Launches : backend[p] = "running"}
  <2>1. running \subseteq {lock}
    BY DEF NativeInv, OwnerInv
  <2>2. Cardinality(running) <= 1
    <3>1. running = {} \/ running = {lock}
      BY <2>1
    <3>2. Cardinality(running) \in {0, 1}
      BY <3>1, FS_EmptySet, FS_Singleton
    <3> QED BY <3>2
  <2>3. ASSUME NEW p \in running
        PROVE  lock = p /\ (Projects => sandbox[p] /\ projection \in {p, Nobody})
    BY DEF NativeInv, OwnerInv, ProjectionInv
  <2> QED BY <2>2, <2>3 DEF OneBackendPerRuntime
<1> QED BY <1>1, NativeInvariance, PTL

(* The session file never goes over from one native session to another.    *)
THEOREM NoSessionIsRebound == NativeSpec => SessionNeverRebound
<1>1. NativeInv /\ [NativeNext]_nativeVars => [SessionKept]_nativeVars
  BY NativeStepInv
<1> QED BY <1>1, NativeInvariance, PTL DEF NativeSpec, SessionNeverRebound, SessionKept

(***************************************************************************)
(* NativeTools: one command, the one allowed.                              *)
(***************************************************************************)
AnswerStages == {"upstream", "asking", "writing", "releasing", "done", "failed"}
RunnerStages == {"none", "reading", "posting", "answered", "gone"}

ToolTypes ==
  /\ surface \in {"grok", "claude"}
  /\ registered \in Nat /\ consumed \in Nat /\ revoked \in Nat
  /\ pendingTool \in Proposals \cup {NoProposal}
  /\ stage \in [Answers -> AnswerStages]
  /\ carried \in [Answers -> Proposals \cup {NoProposal}]
  /\ runner \in [Runners -> RunnerStages]

(* One question at a time, and none after a decision. *)
AskingInv ==
  /\ \A a \in Answers : stage[a] = "asking" =>
       presenting /\ decision = "none" /\ carried[a] \in Proposals
  /\ \A a, b \in Answers : stage[a] = "asking" /\ stage[b] = "asking" => a = b

(* One command is registered in all, after the decision. *)
LedgerInv ==
  /\ decision = "none" => registered = 0
  /\ registered <= 1
  /\ registered = consumed + revoked + (IF pendingTool = NoProposal THEN 0 ELSE 1)
  /\ pendingTool # NoProposal =>
       pendingTool = approvedTool /\ decision = "allow_once" /\ ~toolsClosed

GrantInv ==
  /\ consumed = 0 => granted = {} /\ ran = {}
  /\ consumed # 0 =>
       /\ decision = "allow_once"
       /\ \E w \in Runners : granted = {<<w, approvedTool>>}
  /\ ran \subseteq {approvedTool}

(* Where the answer with the command is, once its capability is out. *)
IsOut ==
  /\ decision = "allow_once"
  /\ \E a \in Answers : /\ carried[a] = approvedTool /\ carried[a] # NoProposal
                        /\ stage[a] \in {"releasing", "done", "failed"}

OutInv ==
  /\ \A a \in Answers :
       /\ stage[a] = "upstream" => carried[a] = NoProposal
       /\ stage[a] = "writing" /\ carried[a] # NoProposal =>
            carried[a] = approvedTool /\ decision = "allow_once"
  /\ surface = "grok" =>
       /\ frame => IsOut
       /\ \A w \in Runners : runner[w] \in {"posting", "answered"} => IsOut
       /\ granted # {} => IsOut

SettledInv == settledClaim => toolsClosed /\ ~presenting

ToolsInv == ToolTypes /\ AskingInv /\ LedgerInv /\ GrantInv /\ OutInv /\ SettledInv

LEMMA ToolsInitInv == ToolsInit => ToolsInv
  BY DEF ToolsInit, ToolsInv, ToolTypes, AskingInv, LedgerInv, GrantInv, OutInv, IsOut,
         SettledInv, AnswerStages, RunnerStages

(* close() of the projection leaves nothing pending. *)
LEMMA CloseToolsEffect ==
  ASSUME ToolsInv, CloseTools
  PROVE  /\ toolsClosed' = TRUE /\ pendingTool' = NoProposal
         /\ revoked' = revoked + (IF pendingTool = NoProposal THEN 0 ELSE 1)
  BY DEF CloseTools, RevokePending, ToolsInv, ToolTypes, LedgerInv

LEMMA RevokeEffect ==
  ASSUME RevokePending, ToolsInv
  PROVE  /\ pendingTool' = NoProposal
         /\ revoked' = revoked + (IF pendingTool = NoProposal THEN 0 ELSE 1)
  BY DEF RevokePending, ToolsInv, ToolTypes

LEMMA ToolTypesStep == ToolsInv /\ [ToolsNext]_toolsVars => ToolTypes'
<1> SUFFICES ASSUME ToolsInv, [ToolsNext]_toolsVars PROVE ToolTypes'
  OBVIOUS
<1>0. /\ CloseTools => /\ toolsClosed' = TRUE /\ pendingTool' = NoProposal
                       /\ revoked' = revoked + (IF pendingTool = NoProposal THEN 0 ELSE 1)
      /\ RevokePending => /\ pendingTool' = NoProposal
                          /\ revoked' = revoked + (IF pendingTool = NoProposal THEN 0 ELSE 1)
  BY CloseToolsEffect, RevokeEffect
<1> USE NoProposalIsNone, ProposalsAreNoTags DEF launchVars, projectionVars, supervisorVars,
        channelVars, toolHistory, ToolsInv, ToolTypes, AnswerStages, RunnerStages
<1>1. CASE Expire
  BY <1>1 DEF Expire
<1>2. CASE BindWriter
  BY <1>2 DEF BindWriter
<1>3. CASE PipeBreaks
  BY <1>3 DEF PipeBreaks
<1>4. CASE LaunchExits
  BY <1>4 DEF LaunchExits, CloseTransport
<1>5. CASE CliCloses
  BY <1>5, <1>0 DEF CliCloses, NothingPending
<1>6. ASSUME NEW a \in Answers, Project(a) PROVE ToolTypes'
  BY <1>6, <1>0
  DEF Project, RecordDecision, RewriteDenial, AnswerRefused, Occupied, Contents, AnswerAt,
      AbortAnswer
<1>7. ASSUME NEW a \in Answers, AnswerLost(a) PROVE ToolTypes'
  BY <1>7, <1>0 DEF AnswerLost, AnswerAt, AbortAnswer
<1>8. ASSUME NEW a \in Answers, Deny(a) PROVE ToolTypes'
  BY <1>8, <1>0 DEF Deny, RecordDecision, RewriteDenial, AnswerAt, AbortAnswer
<1>9. ASSUME NEW a \in Answers, AskingFails(a) PROVE ToolTypes'
  BY <1>9, <1>0 DEF AskingFails, RecordDecision, AnswerAt, AbortAnswer
<1>10. ASSUME NEW a \in Answers, Approve(a) PROVE ToolTypes'
  BY <1>10, <1>0 DEF Approve, Register, AnswerAt, AbortAnswer
<1>11. ASSUME NEW a \in Answers, WriteFails(a) PROVE ToolTypes'
  BY <1>11, <1>0 DEF WriteFails, AnswerAt, AbortAnswer
<1>12. ASSUME NEW a \in Answers, AnswerWritten(a) PROVE ToolTypes'
  BY <1>12 DEF AnswerWritten, MustCommit, AnswerAt
<1>13. ASSUME NEW a \in Answers, Commit(a) PROVE ToolTypes'
  BY <1>13, <1>0 DEF Commit, MustCommit, AnswerAt, AbortAnswer
<1>14. ASSUME NEW a \in Answers, Released(a) PROVE ToolTypes'
  BY <1>14, <1>0 DEF Released, AnswerAt, AbortAnswer
<1>15. ASSUME NEW w \in Runners, StartRunner(w) PROVE ToolTypes'
  BY <1>15 DEF StartRunner, RunnerAt
<1>16. ASSUME NEW w \in Runners, ReadCapability(w) PROVE ToolTypes'
  BY <1>16 DEF ReadCapability, RunnerAt
<1>17. ASSUME NEW w \in Runners, RunnerFails(w) PROVE ToolTypes'
  BY <1>17 DEF RunnerFails, RunnerAt
<1>18. ASSUME NEW w \in Runners, Consume(w) PROVE ToolTypes'
  BY <1>18, <1>0 DEF Consume, Grant, Claimable, RunnerAt
<1>19. ASSUME NEW w \in Runners, Evaluate(w) PROVE ToolTypes'
  BY <1>19, <1>0 DEF Evaluate, Grant, RunnerAt
<1>20. ASSUME NEW w \in Runners, RunTool(w) PROVE ToolTypes'
  BY <1>20 DEF RunTool, RunnerAt
<1>21. CASE UNCHANGED toolsVars
  BY <1>21 DEF toolsVars
<1> QED BY <1>1, <1>2, <1>3, <1>4, <1>5, <1>6, <1>7, <1>8, <1>9, <1>10, <1>11,
          <1>12, <1>13, <1>14, <1>15, <1>16, <1>17, <1>18, <1>19, <1>20, <1>21 DEF ToolsNext

(* No step asks a second question, or one after the decision.              *)
LEMMA AskingStep == ToolsInv /\ [ToolsNext]_toolsVars => AskingInv'
<1> SUFFICES ASSUME ToolsInv, [ToolsNext]_toolsVars PROVE AskingInv'
  OBVIOUS
<1>0. /\ CloseTools => /\ toolsClosed' = TRUE /\ pendingTool' = NoProposal
                       /\ revoked' = revoked + (IF pendingTool = NoProposal THEN 0 ELSE 1)
      /\ RevokePending => /\ pendingTool' = NoProposal
                          /\ revoked' = revoked + (IF pendingTool = NoProposal THEN 0 ELSE 1)
  BY CloseToolsEffect, RevokeEffect
<1> USE NoProposalIsNone, ProposalsAreNoTags DEF launchVars, projectionVars, supervisorVars,
        channelVars, toolHistory, ToolsInv, AskingInv, ToolTypes, AnswerStages
<1>1. CASE Expire
  BY <1>1 DEF Expire
<1>2. CASE BindWriter
  BY <1>2 DEF BindWriter
<1>3. CASE PipeBreaks
  BY <1>3 DEF PipeBreaks
<1>4. CASE LaunchExits
  BY <1>4 DEF LaunchExits, CloseTransport
<1>5. CASE CliCloses
  BY <1>5, <1>0 DEF CliCloses, NothingPending
<1>6. ASSUME NEW a \in Answers, Project(a) PROVE AskingInv'
  BY <1>6, <1>0
  DEF Project, RecordDecision, RewriteDenial, AnswerRefused, Occupied, Contents, AnswerAt,
      AbortAnswer
<1>7. ASSUME NEW a \in Answers, AnswerLost(a) PROVE AskingInv'
  BY <1>7, <1>0 DEF AnswerLost, AnswerAt, AbortAnswer
<1>8. ASSUME NEW a \in Answers, Deny(a) PROVE AskingInv'
  BY <1>8, <1>0 DEF Deny, RecordDecision, RewriteDenial, AnswerAt, AbortAnswer
<1>9. ASSUME NEW a \in Answers, AskingFails(a) PROVE AskingInv'
  BY <1>9, <1>0 DEF AskingFails, RecordDecision, AnswerAt, AbortAnswer
<1>10. ASSUME NEW a \in Answers, Approve(a) PROVE AskingInv'
  BY <1>10, <1>0 DEF Approve, Register, AnswerAt, AbortAnswer
<1>11. ASSUME NEW a \in Answers, WriteFails(a) PROVE AskingInv'
  BY <1>11, <1>0 DEF WriteFails, AnswerAt, AbortAnswer
<1>12. ASSUME NEW a \in Answers, AnswerWritten(a) PROVE AskingInv'
  BY <1>12 DEF AnswerWritten, MustCommit, AnswerAt
<1>13. ASSUME NEW a \in Answers, Commit(a) PROVE AskingInv'
  BY <1>13, <1>0 DEF Commit, MustCommit, AnswerAt, AbortAnswer
<1>14. ASSUME NEW a \in Answers, Released(a) PROVE AskingInv'
  BY <1>14, <1>0 DEF Released, AnswerAt, AbortAnswer
<1>15. ASSUME NEW w \in Runners, StartRunner(w) PROVE AskingInv'
  BY <1>15 DEF StartRunner, RunnerAt
<1>16. ASSUME NEW w \in Runners, ReadCapability(w) PROVE AskingInv'
  BY <1>16 DEF ReadCapability, RunnerAt
<1>17. ASSUME NEW w \in Runners, RunnerFails(w) PROVE AskingInv'
  BY <1>17 DEF RunnerFails, RunnerAt
<1>18. ASSUME NEW w \in Runners, Consume(w) PROVE AskingInv'
  BY <1>18, <1>0 DEF Consume, Grant, Claimable, RunnerAt
<1>19. ASSUME NEW w \in Runners, Evaluate(w) PROVE AskingInv'
  BY <1>19, <1>0 DEF Evaluate, Grant, RunnerAt
<1>20. ASSUME NEW w \in Runners, RunTool(w) PROVE AskingInv'
  BY <1>20 DEF RunTool, RunnerAt
<1>21. CASE UNCHANGED toolsVars
  BY <1>21 DEF toolsVars
<1> QED BY <1>1, <1>2, <1>3, <1>4, <1>5, <1>6, <1>7, <1>8, <1>9, <1>10, <1>11,
          <1>12, <1>13, <1>14, <1>15, <1>16, <1>17, <1>18, <1>19, <1>20, <1>21 DEF ToolsNext

(* No step registers a second command.                                     *)
LEMMA LedgerStep == ToolsInv /\ [ToolsNext]_toolsVars => LedgerInv'
<1> SUFFICES ASSUME ToolsInv, [ToolsNext]_toolsVars PROVE LedgerInv'
  OBVIOUS
<1>0. /\ CloseTools => /\ toolsClosed' = TRUE /\ pendingTool' = NoProposal
                       /\ revoked' = revoked + (IF pendingTool = NoProposal THEN 0 ELSE 1)
      /\ RevokePending => /\ pendingTool' = NoProposal
                          /\ revoked' = revoked + (IF pendingTool = NoProposal THEN 0 ELSE 1)
  BY CloseToolsEffect, RevokeEffect
<1> USE NoProposalIsNone, ProposalsAreNoTags DEF launchVars, projectionVars, supervisorVars,
        channelVars, toolHistory, ToolsInv, LedgerInv, AskingInv, ToolTypes
<1>1. CASE Expire
  BY <1>1 DEF Expire
<1>2. CASE BindWriter
  BY <1>2 DEF BindWriter
<1>3. CASE PipeBreaks
  BY <1>3 DEF PipeBreaks
<1>4. CASE LaunchExits
  BY <1>4 DEF LaunchExits, CloseTransport
<1>5. CASE CliCloses
  BY <1>5, <1>0 DEF CliCloses, NothingPending
<1>6. ASSUME NEW a \in Answers, Project(a) PROVE LedgerInv'
  BY <1>6, <1>0
  DEF Project, RecordDecision, RewriteDenial, AnswerRefused, Occupied, Contents, AnswerAt,
      AbortAnswer
<1>7. ASSUME NEW a \in Answers, AnswerLost(a) PROVE LedgerInv'
  BY <1>7, <1>0 DEF AnswerLost, AnswerAt, AbortAnswer
<1>8. ASSUME NEW a \in Answers, Deny(a) PROVE LedgerInv'
  BY <1>8, <1>0 DEF Deny, RecordDecision, RewriteDenial, AnswerAt, AbortAnswer
<1>9. ASSUME NEW a \in Answers, AskingFails(a) PROVE LedgerInv'
  BY <1>9, <1>0 DEF AskingFails, RecordDecision, AnswerAt, AbortAnswer
<1>10. ASSUME NEW a \in Answers, Approve(a) PROVE LedgerInv'
  <2>1. decision = "none" /\ registered = 0 /\ carried[a] \in Proposals
    BY <1>10 DEF Approve
  <2>2. pendingTool = NoProposal /\ consumed = 0 /\ revoked = 0
    BY <2>1
  <2>3. decision' = "allow_once" /\ approvedTool' = carried[a]
    BY <1>10 DEF Approve, RecordDecision
  <2>4. CASE /\ toolsClosed \/ pendingTool # NoProposal
             /\ AbortAnswer(a) /\ UNCHANGED <<admittedCalls, registered, consumed>>
    BY <1>0, <2>1, <2>2, <2>3, <2>4 DEF AbortAnswer
  <2>5. CASE ~toolsClosed /\ Register(carried[a]) /\ UNCHANGED <<toolsClosed, channel>>
    BY <2>1, <2>2, <2>3, <2>5 DEF Register
  <2> QED BY <1>10, <2>4, <2>5 DEF Approve
<1>11. ASSUME NEW a \in Answers, WriteFails(a) PROVE LedgerInv'
  BY <1>11, <1>0 DEF WriteFails, AnswerAt, AbortAnswer
<1>12. ASSUME NEW a \in Answers, AnswerWritten(a) PROVE LedgerInv'
  BY <1>12 DEF AnswerWritten, MustCommit, AnswerAt
<1>13. ASSUME NEW a \in Answers, Commit(a) PROVE LedgerInv'
  BY <1>13, <1>0 DEF Commit, MustCommit, AnswerAt, AbortAnswer
<1>14. ASSUME NEW a \in Answers, Released(a) PROVE LedgerInv'
  BY <1>14, <1>0 DEF Released, AnswerAt, AbortAnswer
<1>15. ASSUME NEW w \in Runners, StartRunner(w) PROVE LedgerInv'
  BY <1>15 DEF StartRunner, RunnerAt
<1>16. ASSUME NEW w \in Runners, ReadCapability(w) PROVE LedgerInv'
  BY <1>16 DEF ReadCapability, RunnerAt
<1>17. ASSUME NEW w \in Runners, RunnerFails(w) PROVE LedgerInv'
  BY <1>17 DEF RunnerFails, RunnerAt
<1>18. ASSUME NEW w \in Runners, Consume(w) PROVE LedgerInv'
  BY <1>18, <1>0 DEF Consume, Grant, Claimable, RunnerAt
<1>19. ASSUME NEW w \in Runners, Evaluate(w) PROVE LedgerInv'
  BY <1>19, <1>0 DEF Evaluate, Grant, RunnerAt
<1>20. ASSUME NEW w \in Runners, RunTool(w) PROVE LedgerInv'
  BY <1>20 DEF RunTool, RunnerAt
<1>21. CASE UNCHANGED toolsVars
  BY <1>21 DEF toolsVars
<1> QED BY <1>1, <1>2, <1>3, <1>4, <1>5, <1>6, <1>7, <1>8, <1>9, <1>10, <1>11,
          <1>12, <1>13, <1>14, <1>15, <1>16, <1>17, <1>18, <1>19, <1>20, <1>21 DEF ToolsNext

LEMMA SettledStep == ToolsInv /\ [ToolsNext]_toolsVars => SettledInv'
<1> SUFFICES ASSUME ToolsInv, [ToolsNext]_toolsVars PROVE SettledInv'
  OBVIOUS
<1>0. /\ CloseTools => /\ toolsClosed' = TRUE /\ pendingTool' = NoProposal
                       /\ revoked' = revoked + (IF pendingTool = NoProposal THEN 0 ELSE 1)
      /\ RevokePending => /\ pendingTool' = NoProposal
                          /\ revoked' = revoked + (IF pendingTool = NoProposal THEN 0 ELSE 1)
  BY CloseToolsEffect, RevokeEffect
<1> USE NoProposalIsNone, ProposalsAreNoTags DEF launchVars, projectionVars, supervisorVars,
        channelVars, toolHistory, ToolsInv, SettledInv, AskingInv, ToolTypes
<1>1. CASE Expire
  BY <1>1 DEF Expire
<1>2. CASE BindWriter
  BY <1>2 DEF BindWriter
<1>3. CASE PipeBreaks
  BY <1>3 DEF PipeBreaks
<1>4. CASE LaunchExits
  BY <1>4 DEF LaunchExits, CloseTransport
<1>5. CASE CliCloses
  BY <1>5, <1>0 DEF CliCloses, NothingPending
<1>6. ASSUME NEW a \in Answers, Project(a) PROVE SettledInv'
  BY <1>6, <1>0
  DEF Project, RecordDecision, RewriteDenial, AnswerRefused, Occupied, Contents, AnswerAt,
      AbortAnswer
<1>7. ASSUME NEW a \in Answers, AnswerLost(a) PROVE SettledInv'
  BY <1>7, <1>0 DEF AnswerLost, AnswerAt, AbortAnswer
<1>8. ASSUME NEW a \in Answers, Deny(a) PROVE SettledInv'
  BY <1>8, <1>0 DEF Deny, RecordDecision, RewriteDenial, AnswerAt, AbortAnswer
<1>9. ASSUME NEW a \in Answers, AskingFails(a) PROVE SettledInv'
  BY <1>9, <1>0 DEF AskingFails, RecordDecision, AnswerAt, AbortAnswer
<1>10. ASSUME NEW a \in Answers, Approve(a) PROVE SettledInv'
  BY <1>10, <1>0 DEF Approve, Register, AnswerAt, AbortAnswer
<1>11. ASSUME NEW a \in Answers, WriteFails(a) PROVE SettledInv'
  BY <1>11, <1>0 DEF WriteFails, AnswerAt, AbortAnswer
<1>12. ASSUME NEW a \in Answers, AnswerWritten(a) PROVE SettledInv'
  BY <1>12 DEF AnswerWritten, MustCommit, AnswerAt
<1>13. ASSUME NEW a \in Answers, Commit(a) PROVE SettledInv'
  BY <1>13, <1>0 DEF Commit, MustCommit, AnswerAt, AbortAnswer
<1>14. ASSUME NEW a \in Answers, Released(a) PROVE SettledInv'
  BY <1>14, <1>0 DEF Released, AnswerAt, AbortAnswer
<1>15. ASSUME NEW w \in Runners, StartRunner(w) PROVE SettledInv'
  BY <1>15 DEF StartRunner, RunnerAt
<1>16. ASSUME NEW w \in Runners, ReadCapability(w) PROVE SettledInv'
  BY <1>16 DEF ReadCapability, RunnerAt
<1>17. ASSUME NEW w \in Runners, RunnerFails(w) PROVE SettledInv'
  BY <1>17 DEF RunnerFails, RunnerAt
<1>18. ASSUME NEW w \in Runners, Consume(w) PROVE SettledInv'
  BY <1>18, <1>0 DEF Consume, Grant, Claimable, RunnerAt
<1>19. ASSUME NEW w \in Runners, Evaluate(w) PROVE SettledInv'
  BY <1>19, <1>0 DEF Evaluate, Grant, RunnerAt
<1>20. ASSUME NEW w \in Runners, RunTool(w) PROVE SettledInv'
  BY <1>20 DEF RunTool, RunnerAt
<1>21. CASE UNCHANGED toolsVars
  BY <1>21 DEF toolsVars
<1> QED BY <1>1, <1>2, <1>3, <1>4, <1>5, <1>6, <1>7, <1>8, <1>9, <1>10, <1>11,
          <1>12, <1>13, <1>14, <1>15, <1>16, <1>17, <1>18, <1>19, <1>20, <1>21 DEF ToolsNext

(* No step grants, or runs, another command than the approved one.         *)
LEMMA GrantStep == ToolsInv /\ [ToolsNext]_toolsVars => GrantInv'
<1> SUFFICES ASSUME ToolsInv, [ToolsNext]_toolsVars PROVE GrantInv'
  OBVIOUS
<1>0. /\ CloseTools => /\ toolsClosed' = TRUE /\ pendingTool' = NoProposal
                       /\ revoked' = revoked + (IF pendingTool = NoProposal THEN 0 ELSE 1)
      /\ RevokePending => /\ pendingTool' = NoProposal
                          /\ revoked' = revoked + (IF pendingTool = NoProposal THEN 0 ELSE 1)
  BY CloseToolsEffect, RevokeEffect
<1> USE NoProposalIsNone, ProposalsAreNoTags DEF launchVars, projectionVars, supervisorVars,
        channelVars, toolHistory, ToolsInv, GrantInv, LedgerInv, AskingInv, ToolTypes
<1>1. CASE Expire
  BY <1>1 DEF Expire
<1>2. CASE BindWriter
  BY <1>2 DEF BindWriter
<1>3. CASE PipeBreaks
  BY <1>3 DEF PipeBreaks
<1>4. CASE LaunchExits
  BY <1>4 DEF LaunchExits, CloseTransport
<1>5. CASE CliCloses
  BY <1>5, <1>0 DEF CliCloses, NothingPending
<1>6. ASSUME NEW a \in Answers, Project(a) PROVE GrantInv'
  BY <1>6, <1>0
  DEF Project, RecordDecision, RewriteDenial, AnswerRefused, Occupied, Contents, AnswerAt,
      AbortAnswer
<1>7. ASSUME NEW a \in Answers, AnswerLost(a) PROVE GrantInv'
  BY <1>7, <1>0 DEF AnswerLost, AnswerAt, AbortAnswer
<1>8. ASSUME NEW a \in Answers, Deny(a) PROVE GrantInv'
  BY <1>8, <1>0 DEF Deny, RecordDecision, RewriteDenial, AnswerAt, AbortAnswer
<1>9. ASSUME NEW a \in Answers, AskingFails(a) PROVE GrantInv'
  BY <1>9, <1>0 DEF AskingFails, RecordDecision, AnswerAt, AbortAnswer
<1>10. ASSUME NEW a \in Answers, Approve(a) PROVE GrantInv'
  <2>1. decision = "none" /\ registered = 0
    BY <1>10 DEF Approve
  <2>2. consumed = 0 /\ consumed' = consumed /\ UNCHANGED <<granted, ran>>
    BY <1>10, <2>1 DEF Approve, Register
  <2> QED BY <2>2
<1>11. ASSUME NEW a \in Answers, WriteFails(a) PROVE GrantInv'
  BY <1>11, <1>0 DEF WriteFails, AnswerAt, AbortAnswer
<1>12. ASSUME NEW a \in Answers, AnswerWritten(a) PROVE GrantInv'
  BY <1>12 DEF AnswerWritten, MustCommit, AnswerAt
<1>13. ASSUME NEW a \in Answers, Commit(a) PROVE GrantInv'
  BY <1>13, <1>0 DEF Commit, MustCommit, AnswerAt, AbortAnswer
<1>14. ASSUME NEW a \in Answers, Released(a) PROVE GrantInv'
  BY <1>14, <1>0 DEF Released, AnswerAt, AbortAnswer
<1>15. ASSUME NEW w \in Runners, StartRunner(w) PROVE GrantInv'
  BY <1>15 DEF StartRunner, RunnerAt
<1>16. ASSUME NEW w \in Runners, ReadCapability(w) PROVE GrantInv'
  BY <1>16 DEF ReadCapability, RunnerAt
<1>17. ASSUME NEW w \in Runners, RunnerFails(w) PROVE GrantInv'
  BY <1>17 DEF RunnerFails, RunnerAt
<1>18. ASSUME NEW w \in Runners, Consume(w) PROVE GrantInv'
  <2>1. CASE Grant(w) /\ pendingTool # NoProposal
    <3>1. consumed = 0 /\ registered = 1 /\ granted = {} /\ ran = {}
      BY <2>1
    <3>2. consumed' = 1 /\ granted' = {<<w, pendingTool>>} /\ pendingTool = approvedTool
      BY <2>1, <3>1 DEF Grant
    <3>3. decision = "allow_once" /\ UNCHANGED <<decision, approvedTool, ran>>
      BY <1>18, <2>1 DEF Consume
    <3> QED BY <3>1, <3>2, <3>3
  <2>2. CASE UNCHANGED <<consumed, granted>>
    BY <1>18, <2>2 DEF Consume
  <2> QED BY <1>18, <2>1, <2>2 DEF Consume, Claimable
<1>19. ASSUME NEW w \in Runners, Evaluate(w) PROVE GrantInv'
  <2>1. CASE Grant(w) /\ pendingTool # NoProposal
    <3>1. consumed = 0 /\ registered = 1 /\ granted = {} /\ ran = {}
      BY <2>1
    <3>2. consumed' = 1 /\ granted' = {<<w, pendingTool>>} /\ pendingTool = approvedTool
      BY <2>1, <3>1 DEF Grant
    <3>3. decision = "allow_once" /\ UNCHANGED <<decision, approvedTool, ran>>
      BY <1>19, <2>1 DEF Evaluate
    <3> QED BY <3>1, <3>2, <3>3
  <2>2. CASE UNCHANGED <<consumed, granted>>
    BY <1>19, <2>2 DEF Evaluate
  <2> QED BY <1>19, <2>1, <2>2 DEF Evaluate, Claimable
<1>20. ASSUME NEW w \in Runners, RunTool(w) PROVE GrantInv'
  <2>1. UNCHANGED <<consumed, granted, decision, approvedTool>>
    BY <1>20 DEF RunTool
  <2>2. ran' = ran \cup {g[2] : g \in {h \in granted : h[1] = w}}
    BY <1>20 DEF RunTool
  <2>3. CASE consumed = 0
    BY <2>1, <2>2, <2>3
  <2>4. CASE consumed # 0
    <3>1. \A g \in granted : g[2] = approvedTool
      BY <2>4
    <3> QED BY <2>1, <2>2, <2>4, <3>1
  <2> QED BY <2>3, <2>4
<1>21. CASE UNCHANGED toolsVars
  BY <1>21 DEF toolsVars
<1> QED BY <1>1, <1>2, <1>3, <1>4, <1>5, <1>6, <1>7, <1>8, <1>9, <1>10, <1>11,
          <1>12, <1>13, <1>14, <1>15, <1>16, <1>17, <1>18, <1>19, <1>20, <1>21 DEF ToolsNext

(* A capability is out only with the answer that carries its command.      *)
LEMMA OutStep == ToolsInv /\ [ToolsNext]_toolsVars => OutInv'
<1> SUFFICES ASSUME ToolsInv, [ToolsNext]_toolsVars PROVE OutInv'
  OBVIOUS
<1>0. /\ CloseTools => /\ toolsClosed' = TRUE /\ pendingTool' = NoProposal
                       /\ revoked' = revoked + (IF pendingTool = NoProposal THEN 0 ELSE 1)
      /\ RevokePending => /\ pendingTool' = NoProposal
                          /\ revoked' = revoked + (IF pendingTool = NoProposal THEN 0 ELSE 1)
  BY CloseToolsEffect, RevokeEffect
<1> USE NoProposalIsNone, ProposalsAreNoTags DEF launchVars, projectionVars, supervisorVars,
        channelVars, toolHistory, ToolsInv, OutInv, IsOut, LedgerInv, GrantInv, AskingInv,
        ToolTypes, AnswerStages, RunnerStages
<1>1. CASE Expire
  BY <1>1 DEF Expire
<1>2. CASE BindWriter
  BY <1>2 DEF BindWriter
<1>3. CASE PipeBreaks
  BY <1>3 DEF PipeBreaks
<1>4. CASE LaunchExits
  BY <1>4 DEF LaunchExits, CloseTransport
<1>5. CASE CliCloses
  BY <1>5, <1>0 DEF CliCloses, NothingPending
<1>6. ASSUME NEW a \in Answers, Project(a) PROVE OutInv'
  BY <1>6, <1>0
  DEF Project, RecordDecision, RewriteDenial, AnswerRefused, Occupied, Contents, AnswerAt,
      AbortAnswer
<1>7. ASSUME NEW a \in Answers, AnswerLost(a) PROVE OutInv'
  BY <1>7, <1>0 DEF AnswerLost, AnswerAt, AbortAnswer
<1>8. ASSUME NEW a \in Answers, Deny(a) PROVE OutInv'
  BY <1>8, <1>0 DEF Deny, RecordDecision, RewriteDenial, AnswerAt, AbortAnswer
<1>9. ASSUME NEW a \in Answers, AskingFails(a) PROVE OutInv'
  BY <1>9, <1>0 DEF AskingFails, RecordDecision, AnswerAt, AbortAnswer
<1>10. ASSUME NEW a \in Answers, Approve(a) PROVE OutInv'
  <2>1. decision = "none" /\ ~IsOut
    BY <1>10 DEF Approve
  <2>2. surface = "grok" => /\ ~frame /\ granted = {}
                            /\ \A w \in Runners : runner[w] \notin {"posting", "answered"}
    BY <2>1
  <2>3. UNCHANGED <<surface, frame, granted, runner, carried>>
    BY <1>10 DEF Approve
  <2>4. decision' = "allow_once" /\ approvedTool' = carried[a] /\ stage[a] = "asking"
    BY <1>10 DEF Approve, RecordDecision
  <2>5. \E s \in {"failed", "writing"} : stage' = [stage EXCEPT ![a] = s]
    BY <1>10 DEF Approve, AbortAnswer, AnswerAt
  <2>6. \A b \in Answers \ {a} : stage'[b] = stage[b]
    BY <2>5
  <2>6a. stage'[a] \in {"failed", "writing"}
    BY <2>5
  <2>7. \A b \in Answers : stage[b] = "writing" => carried[b] = NoProposal
    BY <2>1
  <2> QED BY <2>1, <2>2, <2>3, <2>4, <2>6, <2>6a, <2>7
<1>11. ASSUME NEW a \in Answers, WriteFails(a) PROVE OutInv'
  BY <1>11, <1>0 DEF WriteFails, AnswerAt, AbortAnswer
<1>12. ASSUME NEW a \in Answers, AnswerWritten(a) PROVE OutInv'
  BY <1>12 DEF AnswerWritten, MustCommit, AnswerAt
<1>13. ASSUME NEW a \in Answers, Commit(a) PROVE OutInv'
  BY <1>13, <1>0 DEF Commit, MustCommit, AnswerAt, AbortAnswer
<1>14. ASSUME NEW a \in Answers, Released(a) PROVE OutInv'
  BY <1>14, <1>0 DEF Released, AnswerAt, AbortAnswer
<1>15. ASSUME NEW w \in Runners, StartRunner(w) PROVE OutInv'
  BY <1>15 DEF StartRunner, RunnerAt
<1>16. ASSUME NEW w \in Runners, ReadCapability(w) PROVE OutInv'
  BY <1>16 DEF ReadCapability, RunnerAt
<1>17. ASSUME NEW w \in Runners, RunnerFails(w) PROVE OutInv'
  BY <1>17 DEF RunnerFails, RunnerAt
<1>18. ASSUME NEW w \in Runners, Consume(w) PROVE OutInv'
  BY <1>18, <1>0 DEF Consume, Grant, Claimable, RunnerAt
<1>19. ASSUME NEW w \in Runners, Evaluate(w) PROVE OutInv'
  BY <1>19, <1>0 DEF Evaluate, Grant, RunnerAt
<1>20. ASSUME NEW w \in Runners, RunTool(w) PROVE OutInv'
  BY <1>20 DEF RunTool, RunnerAt
<1>21. CASE UNCHANGED toolsVars
  BY <1>21 DEF toolsVars
<1> QED BY <1>1, <1>2, <1>3, <1>4, <1>5, <1>6, <1>7, <1>8, <1>9, <1>10, <1>11,
          <1>12, <1>13, <1>14, <1>15, <1>16, <1>17, <1>18, <1>19, <1>20, <1>21 DEF ToolsNext

LEMMA ToolsStepInv == ToolsInv /\ [ToolsNext]_toolsVars => ToolsInv'
  BY ToolTypesStep, AskingStep, LedgerStep, SettledStep, GrantStep, OutStep DEF ToolsInv

(* The turn's tool, its question, its ledger and its runners stay          *)
(* consistent whatever order answers, decisions, runners and the end of    *)
(* the turn come in (native-tool-approval.ts, the supervisors of grok and  *)
(* claude, inference-broker.ts).                                           *)
THEOREM ToolsInvariance == ToolsSpec => []ToolsInv
  BY ToolsInitInv, ToolsStepInv, PTL DEF ToolsSpec

(* In all of a turn at most one command is granted, to one process, it is  *)
(* the one the user said yes to, and what is registered is pending,        *)
(* granted or revoked.                                                     *)
THEOREM OneToolPerTurn == ToolsSpec => []ToolGrantIsExact
<1>1. ASSUME ToolsInv PROVE ToolGrantIsExact
  <2> USE <1>1 DEF ToolsInv, ToolTypes
  <2>1. /\ Cardinality(granted) <= 1
        /\ \A g \in granted : g[2] = approvedTool /\ decision = "allow_once"
    <3>1. CASE consumed = 0
      BY <3>1, FS_EmptySet DEF GrantInv
    <3>2. CASE consumed # 0
      <4>1. PICK w \in Runners : granted = {<<w, approvedTool>>}
        BY <3>2 DEF GrantInv
      <4>2. Cardinality(granted) = 1
        BY <4>1, FS_Singleton
      <4>3. \A g \in granted : g[2] = approvedTool /\ decision = "allow_once"
        BY <3>2, <4>1 DEF GrantInv
      <4> QED BY <4>2, <4>3
    <3> QED BY <3>1, <3>2
  <2>2. ran \subseteq {approvedTool}
    BY DEF GrantInv
  <2>3. /\ registered = consumed + revoked + (IF pendingTool = NoProposal THEN 0 ELSE 1)
        /\ toolsClosed => pendingTool = NoProposal
    BY DEF LedgerInv
  <2>4. (surface = "grok" /\ granted # {}) =>
          \E a \in Answers : carried[a] = approvedTool /\ stage[a] \notin {"asking", "writing"}
    BY DEF OutInv, IsOut
  <2> QED BY <2>1, <2>2, <2>3, <2>4 DEF ToolGrantIsExact
<1>2. ToolsInv => ToolGrantIsExact
  BY <1>1
<1> QED BY <1>2, ToolsInvariance, PTL

LEMMA SettledStaysSettled ==
  ToolsInv /\ [ToolsNext]_toolsVars => (settledClaim => UNCHANGED <<decision, registered, granted>>)
<1> SUFFICES ASSUME ToolsInv, [ToolsNext]_toolsVars, settledClaim
             PROVE  UNCHANGED <<decision, registered, granted>>
  OBVIOUS
<1>0. /\ CloseTools => /\ toolsClosed' = TRUE /\ pendingTool' = NoProposal
                       /\ revoked' = revoked + (IF pendingTool = NoProposal THEN 0 ELSE 1)
      /\ RevokePending => /\ pendingTool' = NoProposal
                          /\ revoked' = revoked + (IF pendingTool = NoProposal THEN 0 ELSE 1)
  BY CloseToolsEffect, RevokeEffect
<1> USE NoProposalIsNone, ProposalsAreNoTags DEF launchVars, projectionVars, supervisorVars,
        channelVars, toolHistory, ToolsInv, SettledInv, AskingInv, LedgerInv, ToolTypes
<1>1. CASE Expire
  BY <1>1 DEF Expire
<1>2. CASE BindWriter
  BY <1>2 DEF BindWriter
<1>3. CASE PipeBreaks
  BY <1>3 DEF PipeBreaks
<1>4. CASE LaunchExits
  BY <1>4 DEF LaunchExits, CloseTransport
<1>5. CASE CliCloses
  BY <1>5, <1>0 DEF CliCloses, NothingPending
<1>6. ASSUME NEW a \in Answers, Project(a) PROVE UNCHANGED <<decision, registered, granted>>
  BY <1>6, <1>0
  DEF Project, RecordDecision, RewriteDenial, AnswerRefused, Occupied, Contents, AnswerAt,
      AbortAnswer
<1>7. ASSUME NEW a \in Answers, AnswerLost(a) PROVE UNCHANGED <<decision, registered, granted>>
  BY <1>7, <1>0 DEF AnswerLost, AnswerAt, AbortAnswer
<1>8. ASSUME NEW a \in Answers, Deny(a) PROVE UNCHANGED <<decision, registered, granted>>
  BY <1>8, <1>0 DEF Deny, RecordDecision, RewriteDenial, AnswerAt, AbortAnswer
<1>9. ASSUME NEW a \in Answers, AskingFails(a) PROVE UNCHANGED <<decision, registered, granted>>
  BY <1>9, <1>0 DEF AskingFails, RecordDecision, AnswerAt, AbortAnswer
<1>10. ASSUME NEW a \in Answers, Approve(a) PROVE UNCHANGED <<decision, registered, granted>>
  BY <1>10, <1>0 DEF Approve, Register, AnswerAt, AbortAnswer
<1>11. ASSUME NEW a \in Answers, WriteFails(a) PROVE UNCHANGED <<decision, registered, granted>>
  BY <1>11, <1>0 DEF WriteFails, AnswerAt, AbortAnswer
<1>12. ASSUME NEW a \in Answers, AnswerWritten(a) PROVE UNCHANGED <<decision, registered, granted>>
  BY <1>12 DEF AnswerWritten, MustCommit, AnswerAt
<1>13. ASSUME NEW a \in Answers, Commit(a) PROVE UNCHANGED <<decision, registered, granted>>
  BY <1>13, <1>0 DEF Commit, MustCommit, AnswerAt, AbortAnswer
<1>14. ASSUME NEW a \in Answers, Released(a) PROVE UNCHANGED <<decision, registered, granted>>
  BY <1>14, <1>0 DEF Released, AnswerAt, AbortAnswer
<1>15. ASSUME NEW w \in Runners, StartRunner(w) PROVE UNCHANGED <<decision, registered, granted>>
  BY <1>15 DEF StartRunner, RunnerAt
<1>16. ASSUME NEW w \in Runners, ReadCapability(w) PROVE UNCHANGED <<decision, registered, granted>>
  BY <1>16 DEF ReadCapability, RunnerAt
<1>17. ASSUME NEW w \in Runners, RunnerFails(w) PROVE UNCHANGED <<decision, registered, granted>>
  BY <1>17 DEF RunnerFails, RunnerAt
<1>18. ASSUME NEW w \in Runners, Consume(w) PROVE UNCHANGED <<decision, registered, granted>>
  BY <1>18, <1>0 DEF Consume, Grant, Claimable, RunnerAt
<1>19. ASSUME NEW w \in Runners, Evaluate(w) PROVE UNCHANGED <<decision, registered, granted>>
  BY <1>19, <1>0 DEF Evaluate, Grant, RunnerAt
<1>20. ASSUME NEW w \in Runners, RunTool(w) PROVE UNCHANGED <<decision, registered, granted>>
  BY <1>20 DEF RunTool, RunnerAt
<1>21. CASE UNCHANGED toolsVars
  BY <1>21 DEF toolsVars
<1> QED BY <1>1, <1>2, <1>3, <1>4, <1>5, <1>6, <1>7, <1>8, <1>9, <1>10, <1>11,
          <1>12, <1>13, <1>14, <1>15, <1>16, <1>17, <1>18, <1>19, <1>20, <1>21 DEF ToolsNext

(* Once the command line has found the approvals settled none is recorded  *)
(* later, and no command is granted.                                       *)
THEOREM SettledIsFinal == ToolsSpec => SettledApprovalIsFinal
<1>1. ToolsInv /\ [ToolsNext]_toolsVars
        => [settledClaim => UNCHANGED <<decision, registered, granted>>]_toolsVars
  BY SettledStaysSettled
<1> QED BY <1>1, ToolsInvariance, PTL DEF ToolsSpec, SettledApprovalIsFinal

(***************************************************************************)
(* AcpHost: grants and the gate of a critic.                               *)
(***************************************************************************)
AcpGate ==
  [shipped : BOOLEAN, enforced : BOOLEAN, executed : BOOLEAN, reproduced : BOOLEAN, after : Nat]

AcpTypes ==
  /\ critic \in BOOLEAN /\ gate \in AcpGate
  /\ allowances \in [Operations -> Nat] /\ allowedCount \in [Operations -> Nat]
  /\ usedCount \in [Operations -> Nat]

WindowInv ==
  /\ executions = IF gate.executed THEN 1 ELSE 0
  /\ free \in Nat /\ free <= gate.after /\ free < Escalation

AcpInv == AcpTypes /\ WindowInv /\ GrantsAreOneShot

LEMMA AcpInitInv == AcpInit => AcpInv
<1> SUFFICES ASSUME AcpInit PROVE AcpInv
  OBVIOUS
<1>1. gate \in AcpGate /\ gate.executed = FALSE /\ gate.after = 0
  BY DEF AcpInit, FreshGate, AcpGate
<1>2. AcpTypes /\ WindowInv
  BY <1>1, AcpBounds DEF AcpInit, AcpTypes, WindowInv
<1>3. GrantsAreOneShot
  BY DEF AcpInit, GrantsAreOneShot
<1> QED BY <1>2, <1>3 DEF AcpInv

(* What most steps leave alone. *)
LEMMA GateQuiet ==
  ASSUME AcpInv, UNCHANGED <<critic, allowances, allowedCount, usedCount, executions, free>>,
         gate' \in AcpGate, gate'.executed = gate.executed, gate'.after = gate.after
  PROVE  AcpInv'
  BY DEF AcpInv, AcpTypes, WindowInv, GrantsAreOneShot

LEMMA AcpStepInv == AcpInv /\ [AcpNext]_acpVars => AcpInv'
<1> SUFFICES ASSUME AcpInv, [AcpNext]_acpVars PROVE AcpInv'
  OBVIOUS
<1> USE DEF modeVars, turnVars, permitVars
<1>0. /\ gate \in AcpGate
      /\ \A x \in BOOLEAN :
           /\ [gate EXCEPT !.enforced = x] \in AcpGate
           /\ [gate EXCEPT !.enforced = x].executed = gate.executed
           /\ [gate EXCEPT !.enforced = x].after = gate.after
           /\ [gate EXCEPT !.shipped = TRUE, !.enforced = x] \in AcpGate
           /\ [gate EXCEPT !.shipped = TRUE, !.enforced = x].executed = gate.executed
           /\ [gate EXCEPT !.shipped = TRUE, !.enforced = x].after = gate.after
      /\ [gate EXCEPT !.shipped = TRUE] \in AcpGate
      /\ [gate EXCEPT !.shipped = TRUE].executed = gate.executed
      /\ [gate EXCEPT !.shipped = TRUE].after = gate.after
      /\ [gate EXCEPT !.reproduced = TRUE] \in AcpGate
      /\ [gate EXCEPT !.reproduced = TRUE].executed = gate.executed
      /\ [gate EXCEPT !.reproduced = TRUE].after = gate.after
  BY DEF AcpInv, AcpTypes, AcpGate
<1>1. CASE OpenTurn
  BY <1>1, <1>0, GateQuiet DEF OpenTurn

<1>2. CASE OpenFails
  BY <1>2, <1>0, GateQuiet DEF OpenFails

<1>3. CASE StartTurn
  <2>1. gate' \in AcpGate /\ gate'.executed = FALSE /\ gate'.after = 0
    BY <1>3 DEF StartTurn, FreshGate, AcpGate
  <2>2. AcpTypes' /\ WindowInv'
    BY <1>3, <2>1, AcpBounds DEF StartTurn, AcpInv, AcpTypes, WindowInv
  <2> QED BY <1>3, <2>2 DEF StartTurn, AcpInv, GrantsAreOneShot

<1>4. CASE SendPrompt
  BY <1>4, <1>0, GateQuiet DEF SendPrompt

<1>5. CASE AbortPrompt
  BY <1>5, <1>0, GateQuiet DEF AbortPrompt

<1>6. CASE AgentUpdates
  BY <1>6, <1>0, GateQuiet DEF AgentUpdates

<1>7. CASE PromptAnswers
  BY <1>7, <1>0, GateQuiet DEF PromptAnswers

<1>8. CASE PromptThrows
  BY <1>8, <1>0, GateQuiet DEF PromptThrows

<1>9. CASE SettleTurn
  BY <1>9, <1>0, GateQuiet DEF SettleTurn

<1>10. CASE AdmitReturns
  BY <1>10, <1>0, GateQuiet DEF AdmitReturns

<1>11. CASE AdmitThrows
  BY <1>11, <1>0, GateQuiet DEF AdmitThrows

<1>12. CASE UserRefuses
  BY <1>12, <1>0, GateQuiet DEF UserRefuses

<1>13. CASE UserAllowsPublication
  <2> DEFINE o == OperationOf(question)
  <2>1. /\ allowances' = [allowances EXCEPT ![o] = @ + 1]
        /\ allowedCount' = [allowedCount EXCEPT ![o] = @ + 1]
        /\ UNCHANGED <<critic, gate, usedCount, executions, free>>
    BY <1>13 DEF UserAllowsPublication
  <2> HIDE DEF o
  <2>2. AcpTypes' /\ WindowInv'
    <3>1. ASSUME NEW f \in [Operations -> Nat]
          PROVE  [f EXCEPT ![o] = @ + 1] \in [Operations -> Nat]
      BY \A p \in Operations : f[p] \in Nat /\ f[p] + 1 \in Nat
    <3>2. /\ allowances' \in [Operations -> Nat]
          /\ allowedCount' \in [Operations -> Nat]
      BY <2>1, <3>1 DEF AcpInv, AcpTypes
    <3> QED BY <2>1, <3>2 DEF AcpInv, AcpTypes, WindowInv
  <2>3. GrantsAreOneShot'
    BY <2>1 DEF AcpInv, AcpTypes, GrantsAreOneShot
  <2> QED BY <2>2, <2>3 DEF AcpInv

<1>14. CASE UserAllowsNative
  <2> DEFINE executes == critic /\ CommandOf(question) # "none" /\ NativePolicyHolds(question)
  <2>1. /\ gate' = [gate EXCEPT !.executed = gate.executed \/ executes]
        /\ executions' = executions + (IF executes THEN 1 ELSE 0)
        /\ UNCHANGED <<critic, allowances, allowedCount, usedCount, free>>
    BY <1>14 DEF UserAllowsNative
  <2>2. executes => ~gate.executed
    BY DEF NativePolicyHolds
  <2>3. executes \in BOOLEAN
    OBVIOUS
  <2> HIDE DEF executes
  <2>4. /\ gate' \in AcpGate /\ gate'.after = gate.after
        /\ gate'.executed = (gate.executed \/ executes)
    BY <1>0, <2>1, <2>3 DEF AcpGate
  <2>4a. executions = IF gate.executed THEN 1 ELSE 0
    BY DEF AcpInv, WindowInv
  <2>5. executions' = IF gate'.executed THEN 1 ELSE 0
    <3>1. CASE executes
      <4>1. ~gate.executed /\ gate'.executed
        BY <2>2, <2>4, <3>1
      <4>2. executions = 0 /\ executions' = executions + 1
        BY <2>1, <2>4a, <3>1, <4>1
      <4> QED BY <4>1, <4>2
    <3>2. CASE ~executes
      <4>1. gate'.executed <=> gate.executed
        BY <2>4, <3>2
      <4>2. executions \in Nat
        BY <2>4a
      <4>3. executions' = executions
        BY <2>1, <3>2, <4>2
      <4> QED BY <2>4a, <4>1, <4>3
    <3> QED BY <3>1, <3>2
  <2> QED BY <2>1, <2>4, <2>5 DEF AcpInv, AcpTypes, WindowInv, GrantsAreOneShot

<1>15. CASE ProviderRequest
  <2> DEFINE n == IF gate.executed /\ ~gate.shipped THEN gate.after + 1 ELSE gate.after
  <2>1. /\ gate' = [gate EXCEPT !.after = n]
        /\ free' = IF gate.executed /\ "read_file" \in Offered(n) THEN free + 1 ELSE free
        /\ UNCHANGED <<critic, allowances, allowedCount, usedCount, executions>>
    BY <1>15 DEF ProviderRequest
  <2>2. n \in Nat /\ n >= gate.after
    <3>1. gate.after \in Nat
      BY <1>0 DEF AcpGate
    <3> QED BY <3>1
  <2>3. gate' \in AcpGate /\ gate'.after = n /\ gate'.executed = gate.executed
    BY <1>0, <2>1, <2>2 DEF AcpGate
  <2>4. free' \in Nat /\ free' <= n /\ free' < Escalation
    <3>1. CASE gate.executed /\ "read_file" \in Offered(n)
      <4>1. ~gate.shipped
        BY <3>1 DEF Offered
      <4>2. n = gate.after + 1
        BY <3>1, <4>1
      <4>3. ForcedTool(n) = "none"
        <5>1. Escalation \in Nat
          BY AcpBounds
        <5>2. ForcedTool(n) \in {"none", "search_tool", "use_tool"}
          BY <2>2, <5>1 DEF ForcedTool
        <5> QED BY <3>1, <4>1, <5>2 DEF Offered
      <4>4. n < Escalation
        <5>1. Escalation \in Nat
          BY AcpBounds
        <5> HIDE DEF n
        <5> QED BY <2>2, <4>3, <5>1 DEF ForcedTool
      <4>5. /\ free' = free + 1 /\ free \in Nat /\ free <= gate.after
            /\ gate.after \in Nat /\ Escalation \in Nat
        BY <1>0, <2>1, <3>1, AcpBounds DEF AcpInv, WindowInv, AcpGate
      <4> HIDE DEF n
      <4> QED BY <4>2, <4>4, <4>5
    <3>2. CASE ~(gate.executed /\ "read_file" \in Offered(n))
      <4>1. free' = free
        BY <2>1, <3>2
      <4>2. /\ free \in Nat /\ free <= gate.after /\ free < Escalation
            /\ gate.after \in Nat /\ Escalation \in Nat
        BY <1>0, AcpBounds DEF AcpInv, WindowInv, AcpGate
      <4> HIDE DEF n
      <4> QED BY <2>2, <4>1, <4>2
    <3> QED BY <3>1, <3>2
  <2> QED BY <2>1, <2>3, <2>4 DEF AcpInv, AcpTypes, WindowInv, GrantsAreOneShot

<1>16. ASSUME NEW q \in PermissionRequests, AskUser(q) \/ AnswerAtOnce(q) PROVE AcpInv'
  BY <1>16, <1>0, GateQuiet DEF AskUser, AnswerAtOnce
<1>17. ASSUME NEW o \in Operations, CallTool(o) PROVE AcpInv'
  <2>1. /\ allowances[o] > 0 /\ allowances' = [allowances EXCEPT ![o] = @ - 1]
        /\ usedCount' = [usedCount EXCEPT ![o] = @ + 1]
        /\ UNCHANGED <<critic, gate, allowedCount, executions, free>>
    BY <1>17 DEF CallTool, SpendGrant
  <2>2. AcpTypes' /\ WindowInv'
    BY <2>1 DEF AcpInv, AcpTypes, WindowInv
  <2>3. GrantsAreOneShot'
    BY <2>1 DEF AcpInv, AcpTypes, GrantsAreOneShot
  <2> QED BY <2>2, <2>3 DEF AcpInv
<1>18. ASSUME NEW c \in toolCalls,
                 PublishThrows(c) \/ PublishPosts(c) \/ PublishShips(c) \/ Enforced(c)
          PROVE  AcpInv'
  <2> USE <1>0, GateQuiet
  <2>1. CASE PublishThrows(c) BY <2>1 DEF PublishThrows
  <2>2. CASE PublishPosts(c) BY <2>2 DEF PublishPosts
  <2>3. CASE PublishShips(c) BY <2>3 DEF PublishShips
  <2>4. CASE Enforced(c) BY <2>4 DEF Enforced
  <2> QED BY <1>18, <2>1, <2>2, <2>3, <2>4
<1>19. CASE UNCHANGED acpVars
  BY <1>19, <1>0, GateQuiet DEF acpVars
<1> QED BY <1>1, <1>2, <1>3, <1>4, <1>5, <1>6, <1>7, <1>8, <1>9, <1>10,
          <1>11, <1>12, <1>13, <1>14, <1>15, <1>16, <1>17, <1>18, <1>19 DEF AcpNext

(* The gate of a critic counts its commands and its reads, and grants are  *)
(* spent as often as given, over all turns and late answers (acp-          *)
(* permission.ts, acp-coordination.ts).                                    *)
THEOREM AcpInvariance == AcpSpec => []AcpInv
  BY AcpInitInv, AcpStepInv, PTL DEF AcpSpec

(* A permission is good for one call, however questions, late answers,     *)
(* turns and tool calls interleave.                                        *)
THEOREM GrantsOnce == AcpSpec => []GrantsAreOneShot
<1>1. AcpInv => GrantsAreOneShot
  BY DEF AcpInv
<1> QED BY <1>1, AcpInvariance, PTL

(* A critic runs at most one command a turn, and from then on fewer than   *)
(* Escalation provider requests may still read.                            *)
THEOREM CriticBounded == AcpSpec => []CriticIsBounded
<1>1. AcpInv => CriticIsBounded
  BY DEF AcpInv, WindowInv, CriticIsBounded
<1> QED BY <1>1, AcpInvariance, PTL

(***************************************************************************)
(* ProductRun: an exit code 0 is earned.                                   *)
(***************************************************************************)
Arriving == {"start", "resolved", "admitted", "prepared", "planned", "starting", "vendor", "acp",
             "acp starting"}
Closing  == {"closing", "settling", "settling unsettled", "settled", "finished", "finalized",
             "observed", "failing", "acp ended", "acp settled"}

(* Where main() is, and what of the launch is there by then.               *)
PhaseInv ==
  /\ status \in {"none", "0", "nonzero", "2"}
  /\ (exit = "running") <=> (pc # "end")
  /\ pc \in Arriving => hub \in {"none", "prepared"} /\ process = "none" /\ broker = "off"
  /\ pc \in {"vendor exposed", "vendor answered", "vendor published"} =>
       process # "running" /\ broker = "off"
  /\ pc \in {"launching", "acp launching"} => process = "none"
  /\ pc \in {"exited"} \cup Closing => process # "running"
  /\ pc = "end" => process # "running" /\ broker \in {"off", "closed"}

(* A signed turn that closes without a failure was acknowledged as what    *)
(* its exit code says.                                                     *)
TurnInv ==
  /\ shipped \in BOOLEAN
  /\ hub = "applied" => shipped
  /\ pc \in Closing /\ inv.signed /\ status = "0" /\ ~launchFailed => hub = "applied"
  /\ exit = "0" /\ inv.signed /\ process = "exited" => hub = "applied"

(* The coordination turn of a lane is admitted after the settlement, and   *)
(* nothing it was judged by changes any more.                              *)
LaneTurnInv ==
  /\ settlement \in [idle : BOOLEAN, forced : Nat]
  /\ requests \in Nat
  /\ turn = "admitted" =>
       /\ pc \in {"finished", "finalized", "observed", "failing", "end"}
       /\ status = "0" /\ ~launchFailed /\ settlement = [idle |-> TRUE, forced |-> 0]

ProductInv == PhaseInv /\ TurnInv /\ LaneTurnInv

LEMMA ProductInitInv == ProductInit => ProductInv
  BY DEF ProductInit, ProductInv, PhaseInv, TurnInv, LaneTurnInv, Arriving, Closing,
         NoSettlement

LEMMA PhaseStep == ProductInv /\ [ProductNext]_productVars => PhaseInv'
<1> SUFFICES ASSUME ProductInv, [ProductNext]_productVars PROVE PhaseInv'
  OBVIOUS
<1> USE DEF ProductInv, PhaseInv, Arriving, Closing, Codes, Goto, Exit, worldVars,
        brokerVars, backendVars
<1>1. CASE Command
  <2>1. Exits \subseteq {"0", "2", "thrown"}
    BY DEF Exits
  <2> QED BY <1>1, <2>1 DEF Command
<1>2. CASE Resolve BY <1>2 DEF Resolve
<1>3. CASE Admit BY <1>3 DEF Admit
<1>4. CASE Report BY <1>4 DEF Report
<1>5. CASE PrepareTurn BY <1>5 DEF PrepareTurn
<1>6. CASE Unsigned BY <1>6 DEF Unsigned
<1>7. CASE BindVendor BY <1>7 DEF BindVendor
<1>8. CASE LaunchUnbrokered BY <1>8 DEF LaunchUnbrokered
<1>9. CASE EnterAcp BY <1>9 DEF EnterAcp
<1>10. CASE AcpTurn BY <1>10 DEF AcpTurn
<1>11. CASE PlanLaunch BY <1>11 DEF PlanLaunch
<1>12. CASE PrepareLane BY <1>12 DEF PrepareLane
<1>13. CASE Refuse BY <1>13 DEF Refuse
<1>14. CASE VendorExposes BY <1>14 DEF VendorExposes
<1>15. CASE LaunchClaude BY <1>15 DEF LaunchClaude
<1>16. CASE LaunchCursor BY <1>16 DEF LaunchCursor
<1>17. CASE VendorThrows BY <1>17 DEF VendorThrows
<1>18. CASE VendorPublishes BY <1>18 DEF VendorPublishes
<1>19. CASE VendorCompletes BY <1>19 DEF VendorCompletes
<1>20. CASE StartBroker BY <1>20 DEF StartBroker
<1>21. CASE Expose BY <1>21 DEF Expose
<1>22. CASE Spawn BY <1>22 DEF Spawn
<1>23. CASE Request BY <1>23 DEF Request
<1>24. CASE RequestEnds BY <1>24 DEF RequestEnds
<1>25. CASE CallPublication BY <1>25 DEF CallPublication
<1>26. CASE PublicationEnds BY <1>26 DEF PublicationEnds
<1>27. CASE ChildExits BY <1>27 DEF ChildExits
<1>28. CASE CompleteTurn BY <1>28 DEF CompleteTurn
<1>29. CASE LaunchThrows BY <1>29 DEF LaunchThrows
<1>30. CASE CloseProjections BY <1>30 DEF CloseProjections
<1>31. CASE Settle BY <1>31 DEF Settle
<1>32. CASE FinishTurn BY <1>32 DEF FinishTurn
<1>33. CASE FinalizePlan BY <1>33 DEF FinalizePlan
<1>34. CASE Observe BY <1>34 DEF Observe
<1>35. CASE CloseBroker BY <1>35 DEF CloseBroker
<1>36. CASE AcpPromptEnds BY <1>36 DEF AcpPromptEnds
<1>37. CASE AcpThrows BY <1>37 DEF AcpThrows
<1>38. CASE AcpReturns BY <1>38 DEF AcpReturns
<1>39. CASE UNCHANGED productVars BY <1>39 DEF productVars
<1> QED BY <1>1, <1>2, <1>3, <1>4, <1>5, <1>6, <1>7, <1>8, <1>9, <1>10, <1>11, <1>12,
          <1>13, <1>14, <1>15, <1>16, <1>17, <1>18, <1>19, <1>20, <1>21, <1>22, <1>23,
          <1>24, <1>25, <1>26, <1>27, <1>28, <1>29, <1>30, <1>31, <1>32, <1>33, <1>34,
          <1>35, <1>36, <1>37, <1>38, <1>39 DEF ProductNext

(* No step ends a signed turn well unless it was acknowledged as applied.  *)
LEMMA TurnStep == ProductInv /\ [ProductNext]_productVars => TurnInv'
<1> SUFFICES ASSUME ProductInv, [ProductNext]_productVars PROVE TurnInv'
  OBVIOUS
<1> USE DEF ProductInv, PhaseInv, TurnInv, Arriving, Closing, Codes, Earned, Vendor, Goto,
        Exit, worldVars, brokerVars, backendVars
<1>1. CASE Command BY <1>1 DEF Command
<1>2. CASE Resolve BY <1>2 DEF Resolve
<1>3. CASE Admit BY <1>3 DEF Admit
<1>4. CASE Report BY <1>4 DEF Report
<1>5. CASE PrepareTurn BY <1>5 DEF PrepareTurn
<1>6. CASE Unsigned BY <1>6 DEF Unsigned
<1>7. CASE BindVendor BY <1>7 DEF BindVendor
<1>8. CASE LaunchUnbrokered BY <1>8 DEF LaunchUnbrokered
<1>9. CASE EnterAcp BY <1>9 DEF EnterAcp
<1>10. CASE AcpTurn BY <1>10 DEF AcpTurn
<1>11. CASE PlanLaunch BY <1>11 DEF PlanLaunch
<1>12. CASE PrepareLane BY <1>12 DEF PrepareLane
<1>13. CASE Refuse BY <1>13 DEF Refuse
<1>14. CASE VendorExposes BY <1>14 DEF VendorExposes
<1>15. CASE LaunchClaude BY <1>15 DEF LaunchClaude
<1>16. CASE LaunchCursor BY <1>16 DEF LaunchCursor
<1>17. CASE VendorThrows BY <1>17 DEF VendorThrows
<1>18. CASE VendorPublishes BY <1>18 DEF VendorPublishes
<1>19. CASE VendorCompletes BY <1>19 DEF VendorCompletes
<1>20. CASE StartBroker BY <1>20 DEF StartBroker
<1>21. CASE Expose BY <1>21 DEF Expose
<1>22. CASE Spawn BY <1>22 DEF Spawn
<1>23. CASE Request BY <1>23 DEF Request
<1>24. CASE RequestEnds BY <1>24 DEF RequestEnds
<1>25. CASE CallPublication BY <1>25 DEF CallPublication
<1>26. CASE PublicationEnds
  <2>1. shipped' \in BOOLEAN /\ (shipped => shipped')
    <3>1. shipped' = shipped \/ shipped' = TRUE
      BY <1>26, Zenon DEF PublicationEnds
    <3>2. CASE shipped' = shipped
      BY <3>2
    <3>3. CASE shipped' = TRUE
      BY <3>3, Zenon
    <3> QED BY <3>1, <3>2, <3>3
  <2> QED BY <1>26, <2>1 DEF PublicationEnds
<1>27. CASE ChildExits BY <1>27 DEF ChildExits
<1>28. CASE CompleteTurn BY <1>28 DEF CompleteTurn
<1>29. CASE LaunchThrows BY <1>29 DEF LaunchThrows
<1>30. CASE CloseProjections BY <1>30 DEF CloseProjections
<1>31. CASE Settle BY <1>31 DEF Settle
<1>32. CASE FinishTurn BY <1>32 DEF FinishTurn
<1>33. CASE FinalizePlan BY <1>33 DEF FinalizePlan
<1>34. CASE Observe BY <1>34 DEF Observe
<1>35. CASE CloseBroker BY <1>35 DEF CloseBroker
<1>36. CASE AcpPromptEnds BY <1>36 DEF AcpPromptEnds
<1>37. CASE AcpThrows BY <1>37 DEF AcpThrows
<1>38. CASE AcpReturns BY <1>38 DEF AcpReturns
<1>39. CASE UNCHANGED productVars BY <1>39 DEF productVars
<1> QED BY <1>1, <1>2, <1>3, <1>4, <1>5, <1>6, <1>7, <1>8, <1>9, <1>10, <1>11, <1>12,
          <1>13, <1>14, <1>15, <1>16, <1>17, <1>18, <1>19, <1>20, <1>21, <1>22, <1>23,
          <1>24, <1>25, <1>26, <1>27, <1>28, <1>29, <1>30, <1>31, <1>32, <1>33, <1>34,
          <1>35, <1>36, <1>37, <1>38, <1>39 DEF ProductNext

(* No step changes what an admitted turn was judged by.                    *)
LEMMA LaneTurnStep == ProductInv /\ [ProductNext]_productVars => LaneTurnInv'
<1> SUFFICES ASSUME ProductInv, [ProductNext]_productVars PROVE LaneTurnInv'
  OBVIOUS
<1> USE DEF ProductInv, LaneTurnInv, Clean, NoSettlement, Goto, Exit, worldVars, brokerVars,
        backendVars
<1>1. CASE Command BY <1>1 DEF Command
<1>2. CASE Resolve BY <1>2 DEF Resolve
<1>3. CASE Admit BY <1>3 DEF Admit
<1>4. CASE Report BY <1>4 DEF Report
<1>5. CASE PrepareTurn BY <1>5 DEF PrepareTurn
<1>6. CASE Unsigned BY <1>6 DEF Unsigned
<1>7. CASE BindVendor BY <1>7 DEF BindVendor
<1>8. CASE LaunchUnbrokered BY <1>8 DEF LaunchUnbrokered
<1>9. CASE EnterAcp BY <1>9 DEF EnterAcp
<1>10. CASE AcpTurn BY <1>10 DEF AcpTurn
<1>11. CASE PlanLaunch BY <1>11 DEF PlanLaunch
<1>12. CASE PrepareLane BY <1>12 DEF PrepareLane
<1>13. CASE Refuse BY <1>13 DEF Refuse
<1>14. CASE VendorExposes BY <1>14 DEF VendorExposes
<1>15. CASE LaunchClaude BY <1>15 DEF LaunchClaude
<1>16. CASE LaunchCursor BY <1>16 DEF LaunchCursor
<1>17. CASE VendorThrows BY <1>17 DEF VendorThrows
<1>18. CASE VendorPublishes BY <1>18 DEF VendorPublishes
<1>19. CASE VendorCompletes BY <1>19 DEF VendorCompletes
<1>20. CASE StartBroker BY <1>20 DEF StartBroker
<1>21. CASE Expose BY <1>21 DEF Expose
<1>22. CASE Spawn BY <1>22 DEF Spawn
<1>23. CASE Request BY <1>23 DEF Request
<1>24. CASE RequestEnds BY <1>24 DEF RequestEnds
<1>25. CASE CallPublication BY <1>25 DEF CallPublication
<1>26. CASE PublicationEnds BY <1>26 DEF PublicationEnds
<1>27. CASE ChildExits BY <1>27 DEF ChildExits
<1>28. CASE CompleteTurn BY <1>28 DEF CompleteTurn
<1>29. CASE LaunchThrows BY <1>29 DEF LaunchThrows
<1>30. CASE CloseProjections BY <1>30 DEF CloseProjections
<1>31. CASE Settle
  <2>1. /\ pc \in {"settling", "settling unsettled", "acp ended"} /\ turn' = turn
        /\ settlement' \in [idle : BOOLEAN, forced : Nat] /\ requests' \in Nat
    <3>1. CASE requests = 0 /\ settlement' = [idle |-> TRUE, forced |-> 0] /\ UNCHANGED requests
      BY <1>31, <3>1 DEF Settle
    <3>2. ASSUME NEW left \in 0 .. requests, requests' = left,
                 settlement' = [idle |-> left = 0, forced |-> requests]
          PROVE  settlement' \in [idle : BOOLEAN, forced : Nat] /\ requests' \in Nat
      <4>1. (left = 0) \in BOOLEAN /\ requests' \in Nat
        BY <3>2
      <4> QED BY <3>2, <4>1
    <3> QED BY <1>31, <3>1, <3>2 DEF Settle
  <2> QED BY <2>1
<1>32. CASE FinishTurn BY <1>32 DEF FinishTurn
<1>33. CASE FinalizePlan BY <1>33 DEF FinalizePlan
<1>34. CASE Observe BY <1>34 DEF Observe
<1>35. CASE CloseBroker BY <1>35 DEF CloseBroker
<1>36. CASE AcpPromptEnds BY <1>36 DEF AcpPromptEnds
<1>37. CASE AcpThrows BY <1>37 DEF AcpThrows
<1>38. CASE AcpReturns BY <1>38 DEF AcpReturns
<1>39. CASE UNCHANGED productVars BY <1>39 DEF productVars
<1> QED BY <1>1, <1>2, <1>3, <1>4, <1>5, <1>6, <1>7, <1>8, <1>9, <1>10, <1>11, <1>12,
          <1>13, <1>14, <1>15, <1>16, <1>17, <1>18, <1>19, <1>20, <1>21, <1>22, <1>23,
          <1>24, <1>25, <1>26, <1>27, <1>28, <1>29, <1>30, <1>31, <1>32, <1>33, <1>34,
          <1>35, <1>36, <1>37, <1>38, <1>39 DEF ProductNext

(* The way of main() from its arguments to its exit, with the signed turn, *)
(* the broker and the backend beside it (cli.ts, and the signed launches   *)
(* of the adapters).                                                       *)
THEOREM ProductInvariance == ProductSpec => []ProductInv
<1>1. ProductInv /\ [ProductNext]_productVars => ProductInv'
  BY PhaseStep, TurnStep, LaneTurnStep DEF ProductInv
<1> QED BY <1>1, ProductInitInv, PTL DEF ProductSpec

(* An exit code 0 is earned: of a signed turn it means exposed, shipped    *)
(* and acknowledged as applied; of a lane, that it settled; and no run     *)
(* ends with its broker open.                                              *)
THEOREM ExitEarned == ProductSpec => []ExitIsEarned
<1>1. ProductInv => ExitIsEarned
  BY DEF ProductInv, PhaseInv, TurnInv, LaneTurnInv, ExitIsEarned
<1> QED BY <1>1, ProductInvariance, PTL
=============================================================================
