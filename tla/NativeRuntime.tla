--------------------------- MODULE NativeRuntime ---------------------------
(***************************************************************************)
(* The launches of one actor's backend over its persistent runtime         *)
(* directory: claude-launcher.ts, grok-launcher.ts, codex-launcher.ts,     *)
(* deepcode-launcher.ts, cursor-launcher.ts and                            *)
(* claude-signed-hub-launcher.ts of src/src, the session state of          *)
(* native-interactive-lifecycle.ts, and the containment of containment.ts. *)
(* A launch plans on the session file, takes the owner lock, writes its    *)
(* projection (a configuration that may hold a capability), spawns the     *)
(* contained backend, takes everything down, and records the native        *)
(* session.  Every await lets another launch in; a launch may crash        *)
(* between any two.                                                        *)
(***************************************************************************)
EXTENDS FiniteSets, Naturals

CONSTANTS
  Launches,   \* supervisor processes launched for the actor
  Sessions,   \* native session identifiers
  TheSession, \* the deterministic one: deterministicNativeSessionID()
  Nobody      \* no launch, no session, no file

ASSUME TheSessionIsASession == TheSession \in Sessions
ASSUME NobodyIsNobody       == Nobody \notin Launches \cup Sessions

Products == {"claude", "grok", "deepcode", "codex", "cursor"}

VARIABLES
  product,     \* the product of the actor's binding
  sessionFile, \* native-session.json
  sessions,    \* sessions the products wrote in the runtime directory
  lock,        \* .organum-code-owner.lock and the launch that created it
  projection,  \* whose configuration is in the runtime directory
  bloated,     \* the recaps of Grok are past their alert size
  step,        \* where each launch is
  phase,       \* it plans, or it finalizes
  loaded,      \* the session state it read
  planned,     \* the identifier and the mode of its plan
  owns,        \* its NativeRuntimeOwner
  sandbox,     \* its MacOSContainmentGate is open
  backend      \* its backend process

nativeVars == <<product, sessionFile, sessions, lock, projection, bloated, step, phase, 
                loaded, planned, owns, sandbox, backend>>

NoFile   == [native |-> Nobody, resumable |-> FALSE, there |-> FALSE]
File(native, resumable) == [native |-> native, resumable |-> resumable, there |-> TRUE]

Expected ==
  File(IF product \in {"claude", "grok"} THEN TheSession ELSE Nobody, FALSE)

NativeInit ==
  /\ product \in Products /\ sessionFile = NoFile /\ sessions = {}
  /\ lock = Nobody /\ projection = Nobody /\ bloated = FALSE
  /\ step = [p \in Launches |-> "start"] /\ phase = [p \in Launches |-> "plan"]
  /\ loaded = [p \in Launches |-> NoFile] /\ planned = [p \in Launches |-> NoFile]
  /\ owns = [p \in Launches |-> FALSE] /\ sandbox = [p \in Launches |-> FALSE]
  /\ backend = [p \in Launches |-> "none"]

Projects      == product # "cursor"
Move(p, a, b) == step[p] = a /\ step' = [step EXCEPT ![p] = b]

directoryVars == <<sessionFile, sessions, lock, projection, bloated>>
planningVars  == <<phase, loaded, planned>>
processVars   == <<owns, sandbox, backend>>
-----------------------------------------------------------------------------
(***************************************************************************)
(* The session file: read or made, and completed with the identifier the   *)
(* product chose.  Nothing holds the lock while it is rewritten.           *)
(***************************************************************************)
(* The supervisor owns the session: a signed cursor turn plans nothing.    *)
LoadState(p) ==
  /\ \/ Projects /\ Move(p, "start", IF sessionFile.there THEN "read" ELSE "absent")
     \/ Move(p, "finalize", IF sessionFile.there THEN "read" ELSE "absent")
  /\ loaded' = [loaded EXCEPT ![p] = sessionFile]
  /\ UNCHANGED <<product, directoryVars, phase, planned, processVars>>

(* The arguments name a session themselves, which the supervisor owns.     *)
RefuseArguments(p) ==
  /\ Projects /\ Move(p, "start", "done")
  /\ UNCHANGED <<product, directoryVars, planningVars, processVars>>

(* The file is not private, not exact, or of another binding.              *)
RefuseState(p) ==
  /\ Move(p, "read", "done")
  /\ UNCHANGED <<product, directoryVars, planningVars, processVars>>

CreateState(p) ==
  /\ Move(p, "absent", "read")
  /\ sessionFile' = Expected /\ loaded' = [loaded EXCEPT ![p] = Expected]
  /\ UNCHANGED <<product, sessions, lock, projection, bloated, phase, planned, processVars>>

(* Fault: any session of the runtime directory is bound. *)
DiscoverAny == IF product = "deepcode" THEN sessions ELSE {}

(* Only Deep Code names its own session; of several none is the actor's.   *)
Discover == IF product = "deepcode" /\ Cardinality(sessions) = 1 THEN sessions ELSE {}

Ambiguous == product = "deepcode" /\ Cardinality(sessions) > 1 /\ Discover = {}

Plan(p) ==
  /\ phase[p] = "plan"
  /\ IF loaded[p].native = Nobody /\ Discover # {}
       THEN \E s \in Discover :
              Move(p, "read", "record") /\ loaded' = [loaded EXCEPT ![p] = File(s, TRUE)]
       ELSE Move(p, "read", IF loaded[p].native = Nobody /\ Ambiguous THEN "done" ELSE "planned")
            /\ UNCHANGED loaded
  /\ planned' = [planned EXCEPT ![p] = loaded'[p]]
  /\ UNCHANGED <<product, directoryVars, phase, processVars>>

Finalize(p) ==
  /\ phase[p] = "finalize"
  /\ LET known == {loaded[p].native, planned[p].native} \ {Nobody} IN
     IF known # {} \/ Discover # {}
       THEN \E s \in IF loaded[p].native # Nobody THEN {loaded[p].native}
                     ELSE IF known # {} THEN known ELSE Discover :
              Move(p, "read", "record") /\ loaded' = [loaded EXCEPT ![p] = File(s, TRUE)]
       ELSE Move(p, "read", "done") /\ UNCHANGED loaded
  /\ UNCHANGED <<product, directoryVars, phase, planned, processVars>>

(* replaceState(): renamed into place over whatever is there.              *)
Record(p) ==
  /\ Move(p, "record", IF phase[p] = "plan" THEN "planned" ELSE "done")
  /\ sessionFile' = loaded[p]
  /\ UNCHANGED <<product, sessions, lock, projection, bloated, planningVars, processVars>>
-----------------------------------------------------------------------------
(***************************************************************************)
(* The runtime directory: owner, projection, containment.  Grok and Codex  *)
(* keep theirs in config.toml, Claude in organum-mcp.json and the settings *)
(* of its native tools, Deep Code in settings.json and its scripts.        *)
(***************************************************************************)
Ready == CASE product = "cursor" -> "start" [] product = "grok" -> "healthy" [] OTHER -> "planned"

(* inspectGrokRuntimeHealth(), before the lock is taken.                   *)
InspectHealth(p) ==
  /\ product = "grok" /\ Move(p, "planned", IF bloated THEN "refused" ELSE "healthy")
  /\ UNCHANGED <<product, directoryVars, planningVars, processVars>>

(* open "wx".  A lock that cannot be written is left without an owner.     *)
AcquireOwner(p) ==
  /\ lock = Nobody /\ lock' = p
  /\ \/ Move(p, Ready, "owned") /\ owns' = [owns EXCEPT ![p] = TRUE]
     \/ Move(p, Ready, "refused") /\ UNCHANGED owns
  /\ UNCHANGED <<product, sessionFile, sessions, projection, bloated, planningVars, sandbox,
                 backend>>

(* The lock exists; or the directory or its health is refused before it.   *)
RefuseOwner(p) ==
  /\ Move(p, Ready, "refused")
  /\ UNCHANGED <<product, directoryVars, planningVars, processVars>>

(* What a crashed launch left is removed, and written anew.                *)
ClearProjection(p) ==
  /\ Projects /\ product # "grok" /\ Move(p, "owned", "cleared")
  /\ projection' = Nobody
  /\ UNCHANGED <<product, sessionFile, sessions, lock, bloated, planningVars, processVars>>

WriteProjection(p) ==
  /\ projection = Nobody /\ Move(p, "cleared", "projected") /\ projection' = p
  /\ UNCHANGED <<product, sessionFile, sessions, lock, bloated, planningVars, processVars>>

(* replaceGrokConfig(): renamed into place over whatever is there.         *)
ReplaceProjection(p) ==
  /\ product = "grok" /\ Move(p, "owned", "projected") /\ projection' = p
  /\ UNCHANGED <<product, sessionFile, sessions, lock, bloated, planningVars, processVars>>

(* prepareBackendContainment(): the sandbox, and the wrapped command.      *)
Contain(p) ==
  /\ Move(p, "projected", "contained") /\ sandbox' = [sandbox EXCEPT ![p] = TRUE]
  /\ UNCHANGED <<product, directoryVars, planningVars, owns, backend>>

(* Whatever throws while the launch is prepared. *)
PrepareFails(p) ==
  /\ \E a \in {"owned", "cleared", "projected", "contained"} : Move(p, a, "refused")
  /\ UNCHANGED <<product, directoryVars, planningVars, processVars>>

(* A contained backend, or a vendor's own, which is not contained.         *)
SpawnBackend(p) ==
  /\ Move(p, IF Projects THEN "contained" ELSE "owned", "running")
  /\ backend' = [backend EXCEPT ![p] = "running"]
  /\ UNCHANGED <<product, directoryVars, planningVars, owns, sandbox>>

(* What a contained backend may write outside the workspace. *)
Writable(p) ==
  IF Projects THEN {"runtime", "projection", "lock"} \ {"projection", "lock"} ELSE {}

BackendWrites(p) ==
  /\ backend[p] = "running"
  /\ \E f \in Writable(p) :
       /\ lock' = IF f = "lock" THEN Nobody ELSE lock
       /\ projection' = IF f = "projection" THEN Nobody ELSE projection
       /\ sessions' \in IF f = "runtime" /\ ~planned[p].resumable
                          THEN {sessions \cup {s} : s \in Sessions} ELSE {sessions}
  /\ bloated' \in {bloated, product = "grok"}
  /\ UNCHANGED <<product, sessionFile, step, planningVars, processVars>>

(* A spawn error closes without an exit code, and nothing is finalized.    *)
BackendExits(p) ==
  /\ backend[p] = "running" /\ backend' = [backend EXCEPT ![p] = "exited"]
  /\ IF step[p] = "running"
       THEN \/ Move(p, "running", "closing") /\ phase' = [phase EXCEPT ![p] = "finalize"]
            \/ Move(p, "running", "refused") /\ UNCHANGED phase
       ELSE UNCHANGED <<step, phase>>
  /\ UNCHANGED <<product, directoryVars, loaded, planned, owns, sandbox>>

(* close(), and the catch of the preparation: the sandbox, then the        *)
(* projection, whoever wrote it, then the lock if it is owned.             *)
CloseSandbox(p) ==
  /\ Move(p, "closing", "removing") \/ Move(p, "refused", "removing")
  /\ sandbox' = [sandbox EXCEPT ![p] = FALSE]
  /\ UNCHANGED <<product, directoryVars, planningVars, owns, backend>>

RemoveProjection(p) ==
  /\ Move(p, "removing", "unlocking")
  /\ projection' \in IF Projects THEN {Nobody, projection} ELSE {projection}
  /\ UNCHANGED <<product, sessionFile, sessions, lock, bloated, planningVars, processVars>>

(* A bloated runtime is an error of the launch, and nothing is finalized.  *)
Over(p) == IF phase[p] = "finalize" /\ Projects /\ ~bloated THEN "finalize" ELSE "done"

(* Fault: the lock is removed by whoever closes. *)
ReleaseAnyway(p) ==
  /\ Move(p, "unlocking", Over(p)) /\ lock' = Nobody
  /\ owns' = [owns EXCEPT ![p] = FALSE]
  /\ UNCHANGED <<product, sessionFile, sessions, projection, bloated, planningVars, sandbox,
                 backend>>

(* The removal may fail unnoticed: the lock is then stale.                 *)
ReleaseOwner(p) ==
  /\ Move(p, "unlocking", Over(p))
  /\ lock' \in IF owns[p] THEN {Nobody, lock} ELSE {lock}
  /\ owns' = [owns EXCEPT ![p] = FALSE]
  /\ UNCHANGED <<product, sessionFile, sessions, projection, bloated, planningVars, sandbox,
                 backend>>
-----------------------------------------------------------------------------
(* The supervisor dies; its backend, in a process group of its own, may    *)
(* live on.                                                                *)
Crash(p) ==
  /\ step[p] \notin {"start", "done", "dead"} /\ step' = [step EXCEPT ![p] = "dead"]
  /\ UNCHANGED <<product, directoryVars, planningVars, processVars>>

(* Stale ownership is resolved explicitly, once nothing of it runs.        *)
OperatorUnlocks ==
  /\ lock # Nobody /\ step[lock] \in {"dead", "done"} /\ backend[lock] # "running"
  /\ lock' = Nobody
  /\ UNCHANGED <<product, sessionFile, sessions, projection, bloated, step, planningVars,
                 processVars>>

NativeNext ==
  \/ \E p \in Launches :
       \/ RefuseArguments(p) \/ LoadState(p) \/ RefuseState(p) \/ CreateState(p) \/ Plan(p) \/ Finalize(p) \/ Record(p)
       \/ InspectHealth(p) \/ AcquireOwner(p) \/ RefuseOwner(p)
       \/ ClearProjection(p) \/ WriteProjection(p) \/ ReplaceProjection(p)
       \/ Contain(p) \/ PrepareFails(p) \/ SpawnBackend(p) \/ BackendWrites(p) \/ BackendExits(p)
       \/ CloseSandbox(p) \/ RemoveProjection(p) \/ ReleaseOwner(p) \/ Crash(p)
  \/ OperatorUnlocks

NativeSpec == NativeInit /\ [][NativeNext]_nativeVars
-----------------------------------------------------------------------------
(* At any time one backend runs in the actor's runtime directory, inside   *)
(* its own sandbox; it holds the lock although refused launches close      *)
(* beside it and crashed ones left theirs; and it never reads the          *)
(* configuration, with the capability, of another launch.                  *)
OneBackendPerRuntime ==
  /\ Cardinality({p \in Launches : backend[p] = "running"}) <= 1
  /\ \A p \in Launches : backend[p] = "running" =>
       /\ lock = p
       /\ Projects => sandbox[p] /\ projection \in {p, Nobody}

(* What docs/architecture.md says of the configuration: it is immutable    *)
(* while the process runs, and the single owner fails concurrent launches  *)
(* closed.                                                                 *)
ConfigOutlivesItsProcess ==
  \A p \in Launches : backend[p] = "running" /\ Projects => projection = p

(* The session file never goes over from one native session to another:    *)
(* of two sessions that launches left behind, neither is taken for the     *)
(* actor's once the other is bound.                                        *)
SessionNeverRebound ==
  [][sessionFile.native # Nobody => sessionFile'.native \in {sessionFile.native, Nobody}]_nativeVars
=============================================================================
