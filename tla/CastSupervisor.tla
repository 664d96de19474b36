--------------------------- MODULE CastSupervisor ---------------------------
(***************************************************************************)
(* Preparing and starting an organism cast: OrganismCastV3Supervisor       *)
(* (src/src/organism-cast-supervisor.ts) under the command line around it  *)
(* (src/src/organism-cast-supervisor-cli.ts).  A command is one process.   *)
(* All its state is files: the private state of one prepared run, the      *)
(* observation kept beside it and the artifacts in the run directory.      *)
(* Every file is replaced or linked as a whole and every write may fail,   *)
(* before or after it took effect.  Two directories serve as locks; a      *)
(* process that dies leaves its own behind, and only an operator removes   *)
(* them.  The launch must happen at most once, whatever dies in between.   *)
(***************************************************************************)
EXTENDS Naturals

CONSTANTS
  Processes,    \* invocations of `cast supervisor prepare` and `... start`
  Manifests,    \* manifest and preregistration bytes that share one run id
  Inputs,       \* registration and packet bytes on the private descriptor
  Organum,      \* BOOLEAN: the plan's arm; the bare arm carries no packet
  Nobody, None  \* no process, no file

ASSUME NobodyIsNoProcess == Nobody \notin Processes
ASSUME OrganumIsBoolean  == Organum \in BOOLEAN

(* The rehearsed faults that change control: one swallows the receipt.  An *)
(* ambiguous launch throws where any launch may, and the faults of the     *)
(* provider only change what the artifacts say.                            *)
Faults == {"none", "lost-response"}

(* The fields its idempotency key digests: the request stands for its key. *)
StartRequests == [manifest : Manifests, input : Inputs]

(* The state of a run and the observation of it, as they are on disk. *)
RuntimeStates ==
  [phase : {"prepared", "starting", "started", "incomplete"}, manifest : Manifests,
   key : StartRequests \cup {None}, count : {0, 1}]
Observations ==
  [phase : {"prepared", "started", "incomplete"}, attempts : Nat,
   result : Processes \cup {Nobody}, emitted : BOOLEAN]

Answers == {"prepared", "receipt", "lost", "failed", "incomplete"}

ASSUME NoneIsNothing ==
  None \notin Manifests \cup Inputs \cup StartRequests \cup RuntimeStates \cup Observations
             \cup Answers

Artifacts == <<"registration", "receipt", "lifecycle", "result">>

VARIABLES
  files,        \* the private state directory of the prepared run
  observation,  \* provider-zero-observation.json
  artifacts,    \* run directory: who wrote each artifact (its bytes are dated)
  lock,         \* the two lock directories: the process that made each
  proc,         \* the processes
  launches      \* history: how often launch() was called

supVars == <<files, observation, artifacts, lock, proc, launches>>

NoState == [manifest |-> None, prepared |-> None, prepareReceipt |-> None,
            runtime |-> None, registration |-> None, packet |-> None,
            lifecycle |-> None, startReceipt |-> None]

SupInit ==
  /\ files = NoState
  /\ observation = None
  /\ artifacts = [a \in {Artifacts[i] : i \in 1 .. 4} |-> Nobody]
  /\ lock = [l \in {"adapter", "prepare"} |-> Nobody]
  /\ proc = [p \in Processes |->
              [pc |-> "idle", op |-> None, request |-> None, fault |-> "none",
               seen |-> None, answer |-> None]]
  /\ launches = 0

Goto(p, label) == proc' = [proc EXCEPT ![p].pc = label]

(* A throw: the finally clauses let go of what the process holds. *)
Throw(p, why) ==
  proc' = [proc EXCEPT ![p].pc = "throwing", ![p].answer = why]

(* atomicWritePrivate().  It may throw before the rename or, when the sync *)
(* of the directory fails, after it.                                       *)
Write(p, file, value, label) ==
  /\ \/ files' = [files EXCEPT ![file] = value] /\ Goto(p, label)
     \/ /\ files' \in {files, [files EXCEPT ![file] = value]}
        /\ Throw(p, "failed")
  /\ UNCHANGED <<observation, artifacts, lock, launches>>

(* A phase that only reads and decides. *)
Decides(p, at) ==
  /\ proc[p].pc = at
  /\ UNCHANGED <<files, observation, artifacts, lock, launches>>
-----------------------------------------------------------------------------
(***************************************************************************)
(* Both commands: arguments and request are read and the plan is loaded    *)
(* and validated, then the adapter lock is awaited for a bounded time.     *)
(***************************************************************************)
BeginPrepare(p, m) ==
  /\ Decides(p, "idle")
  /\ proc' = [proc EXCEPT ![p].pc = "locking", ![p].op = "prepare",
                          ![p].request = [manifest |-> m, input |-> None]]

(* The plan is loaded from the private copy, so a prepare came first. *)
BeginStart(p, r, fault) ==
  /\ Decides(p, "idle")
  /\ files.manifest # None
  /\ proc' = [proc EXCEPT ![p].pc = "locking", ![p].op = "start",
                          ![p].request = r, ![p].fault = fault]

Acquire(p, l, at, label) ==
  /\ proc[p].pc = at
  /\ lock[l] = Nobody
  /\ lock' = [lock EXCEPT ![l] = p]
  /\ Goto(p, label)
  /\ UNCHANGED <<files, observation, artifacts, launches>>

(* acquireLock() gives up; a lock of its own the process releases. *)
LockTimesOut(p, l, at) ==
  /\ Decides(p, at)
  /\ lock[l] \notin {Nobody, p}
  /\ Throw(p, "failed")

LockAdapter(p) == Acquire(p, "adapter", "locking",
  IF proc[p].op = "prepare" THEN "prepare" ELSE "observe")

LockRun(p) ==
  \/ Acquire(p, "prepare", "prepare", "prepare-check")
  \/ Acquire(p, "prepare", "start", "start-check")

GiveUp(p) ==
  \/ LockTimesOut(p, "adapter", "locking")
  \/ \E at \in {"prepare", "start"} : LockTimesOut(p, "prepare", at)
-----------------------------------------------------------------------------
(***************************************************************************)
(* OrganismCastV3Supervisor.prepare() under its lock.                      *)
(***************************************************************************)
Mine(p) == proc[p].request.manifest

CheckPrepared(p) ==
  /\ Decides(p, "prepare-check")
  /\ CASE files.prepareReceipt = None -> Goto(p, "save-manifest")
       [] files.prepareReceipt = Mine(p) -> Goto(p, "prepared")
       [] OTHER -> Throw(p, "failed")

SaveManifest(p) ==
  proc[p].pc = "save-manifest" /\ Write(p, "manifest", Mine(p), "save-prepared")

SavePrepared(p) ==
  proc[p].pc = "save-prepared" /\ Write(p, "prepared", Mine(p), "save-runtime")

SaveRuntime(p) ==
  /\ proc[p].pc = "save-runtime"
  /\ Write(p, "runtime", [phase |-> "prepared", manifest |-> Mine(p),
                          key |-> None, count |-> 0], "save-receipt")

SavePrepareReceipt(p) ==
  proc[p].pc = "save-receipt" /\ Write(p, "prepareReceipt", Mine(p), "prepared")

Release(l) == lock' = [lock EXCEPT ![l] = Nobody]

PrepareReturns(p) ==
  /\ proc[p].pc = "prepared"
  /\ Release("prepare")
  /\ Goto(p, "observe-prepare")
  /\ UNCHANGED <<files, observation, artifacts, launches>>

FirstObservation == [phase |-> "prepared", attempts |-> 0, result |-> Nobody,
                     emitted |-> FALSE]

(* The observation of an earlier prepare only counts the call. *)
ObservePrepare(p) ==
  /\ proc[p].pc = "observe-prepare"
  /\ LET now == IF observation = None THEN FirstObservation ELSE observation
     IN  \/ observation' = now
            /\ proc' = [proc EXCEPT ![p].pc = "leaving", ![p].answer = "prepared"]
         \/ observation' \in {observation, now} /\ Throw(p, "failed")
  /\ UNCHANGED <<files, artifacts, lock, launches>>
-----------------------------------------------------------------------------
(***************************************************************************)
(* startOrganismCastProviderZero() and OrganismCastV3Supervisor.start().   *)
(***************************************************************************)
(* The observation as this call will write it, but for what it learns. *)
Observe(p) ==
  /\ Decides(p, "observe")
  /\ \/ observation = None /\ Throw(p, "failed")
     \/ /\ observation # None
        /\ proc' = [proc EXCEPT ![p].pc = "start",
                                ![p].seen = [observation EXCEPT !.emitted = FALSE]]

Request(p) == proc[p].request

MatchesPrepared(p) ==
  /\ files.prepareReceipt = Mine(p)
  /\ files.prepared = Mine(p)
  /\ files.runtime # None /\ files.runtime.manifest = Mine(p)

(* Fault: a launch that did not come back is tried again. *)
RelaunchesUnknown(p) == files.runtime.phase \in {"prepared", "starting"}

MayLaunch(p) == files.runtime.phase = "prepared"

KeyMatches(p) == files.runtime.key \in {None, Request(p)}

(* Fault: a retry of another request is shown the receipt as well. *)
AnyReplay(p) == files.startReceipt # None

Replays(p) == files.runtime.key = Request(p) /\ files.startReceipt # None

(* The frames are decoded and compared with the digests of the request. *)
CheckStart(p) ==
  /\ Decides(p, "start-check")
  /\ \/ ~MatchesPrepared(p) /\ Throw(p, "failed")
     \/ /\ MatchesPrepared(p) /\ files.runtime.phase = "started"
        /\ IF Replays(p) THEN Goto(p, "started") ELSE Throw(p, "failed")
     \/ /\ MatchesPrepared(p) /\ files.runtime.phase # "started"
        /\ IF ~MayLaunch(p) THEN Throw(p, "incomplete")
           ELSE IF ~KeyMatches(p) \/ files.manifest # Mine(p)
             THEN Throw(p, "failed")
           ELSE \/ Goto(p, "save-registration")
                \/ Throw(p, "failed")  \* revalidation or a wrong frame

SaveRegistration(p) ==
  /\ proc[p].pc = "save-registration"
  /\ Write(p, "registration", Request(p).input,
           IF Organum THEN "save-packet" ELSE "save-lifecycle")

SavePacket(p) ==
  /\ proc[p].pc = "save-packet"
  /\ Write(p, "packet", Request(p).input, "save-lifecycle")

SaveLifecycle(p) ==
  /\ proc[p].pc = "save-lifecycle"
  /\ Write(p, "lifecycle", Request(p).input, "bind")

Bind(p) ==
  /\ proc[p].pc = "bind"
  /\ Write(p, "runtime", [files.runtime EXCEPT !.key = Request(p)], "admit")

(* The packet is queued at the finding broker boundary of this process. *)
Admit(p) == Decides(p, "admit") /\ Goto(p, "save-starting")

SaveStarting(p) ==
  /\ proc[p].pc = "save-starting"
  /\ Write(p, "runtime", [files.runtime EXCEPT !.phase = "starting", !.count = 1],
           "launch")
-----------------------------------------------------------------------------
(***************************************************************************)
(* launch(): the boundary is run against the provider, then the artifacts  *)
(* are linked one after the other.  Whatever it throws becomes "launch     *)
(* outcome unknown".                                                       *)
(***************************************************************************)
Finalizing == {"final-1", "final-2", "final-3", "final-4"}

Launch(p) ==
  /\ proc[p].pc = "launch"
  /\ launches' = launches + 1
  /\ \E label \in {"final-1", "incomplete"} :
       proc' = [proc EXCEPT ![p].pc = label, ![p].seen.attempts = @ + 1]
  /\ UNCHANGED <<files, observation, artifacts, lock>>

(* writeExactPrivate(): bytes of another call conflict. *)
Finalize(p, i) ==
  /\ proc[p].pc = <<"final-1", "final-2", "final-3", "final-4">>[i]
  /\ LET a == Artifacts[i]
         written == [artifacts EXCEPT ![a] = p]
     IN  \/ /\ artifacts[a] = Nobody /\ artifacts' = written
            /\ IF i < 4
                 THEN Goto(p, <<"final-2", "final-3", "final-4">>[i])
                 ELSE proc' = [proc EXCEPT ![p].pc = "save-started",
                                           ![p].seen.result = p]
         \/ /\ artifacts' \in IF artifacts[a] = Nobody
                                THEN {artifacts, written} ELSE {artifacts}
            /\ Goto(p, "incomplete")
  /\ UNCHANGED <<files, observation, lock, launches>>

SaveIncomplete(p) ==
  /\ proc[p].pc = "incomplete"
  /\ Write(p, "runtime", [files.runtime EXCEPT !.phase = "incomplete"], "unknown")

LaunchUnknown(p) == Decides(p, "unknown") /\ Throw(p, "incomplete")

SaveStarted(p) ==
  /\ proc[p].pc = "save-started"
  /\ Write(p, "runtime", [files.runtime EXCEPT !.phase = "started"],
           "save-start-receipt")

SaveStartReceipt(p) ==
  /\ proc[p].pc = "save-start-receipt"
  /\ Write(p, "startReceipt", Request(p), "started")

StartReturns(p) ==
  /\ proc[p].pc = "started"
  /\ Release("prepare")
  /\ Goto(p, "observe-started")
  /\ UNCHANGED <<files, observation, artifacts, launches>>

(* A retry finds the digest of the result in the observation or, if that   *)
(* was lost, in the run directory; without it the call throws.             *)
ObserveStarted(p) ==
  /\ proc[p].pc = "observe-started"
  /\ LET result == IF proc[p].seen.result # Nobody THEN proc[p].seen.result
                   ELSE artifacts["result"]
         now == [proc[p].seen EXCEPT !.phase = "started", !.result = result,
                   !.emitted = proc[p].fault # "lost-response"]
         answer == IF proc[p].fault = "lost-response" THEN "lost" ELSE "receipt"
     IN  \/ /\ result # Nobody /\ observation' = now
            /\ proc' = [proc EXCEPT ![p].pc = "leaving", ![p].answer = answer]
         \/ /\ observation' \in IF result = Nobody THEN {observation}
                               ELSE {observation, now}
            /\ proc' = [proc EXCEPT ![p].pc = "leaving", ![p].answer = "failed"]
  /\ UNCHANGED <<files, artifacts, lock, launches>>
-----------------------------------------------------------------------------
(***************************************************************************)
(* The way out of a throw: the inner lock first; a start that reached the  *)
(* supervisor writes what it saw, incomplete if the message says so; then  *)
(* the adapter lock.                                                       *)
(***************************************************************************)
UnwindRun(p) ==
  /\ proc[p].pc = "throwing"
  /\ lock' = IF lock["prepare"] = p THEN [lock EXCEPT !["prepare"] = Nobody]
             ELSE lock
  /\ Goto(p, IF proc[p].seen # None /\ lock["adapter"] = p
               THEN "observe-failure" ELSE "leaving")
  /\ UNCHANGED <<files, observation, artifacts, launches>>

FailurePhase(p) == IF proc[p].answer = "incomplete" THEN "incomplete"
                   ELSE proc[p].seen.phase

ObserveFailure(p) ==
  /\ proc[p].pc = "observe-failure"
  /\ observation' \in
       {observation, [proc[p].seen EXCEPT !.phase = FailurePhase(p)]}
  /\ Goto(p, "leaving")
  /\ UNCHANGED <<files, artifacts, lock, launches>>

Leave(p) ==
  /\ proc[p].pc = "leaving"
  /\ lock' = IF lock["adapter"] = p THEN [lock EXCEPT !["adapter"] = Nobody]
             ELSE lock
  /\ Goto(p, "done")
  /\ UNCHANGED <<files, observation, artifacts, launches>>

Dies(p) ==
  /\ Decides(p, proc[p].pc)
  /\ proc[p].pc \notin {"idle", "done", "dead"}
  /\ Goto(p, "dead")

(* Nothing in the code removes the lock of a dead process. *)
OperatorUnlocks(l) ==
  /\ lock[l] # Nobody /\ proc[lock[l]].pc = "dead"
  /\ lock' = [lock EXCEPT ![l] = Nobody]
  /\ UNCHANGED <<files, observation, artifacts, proc, launches>>

PrepareStep(p) ==
  \/ \E m \in Manifests : BeginPrepare(p, m)
  \/ CheckPrepared(p) \/ SaveManifest(p) \/ SavePrepared(p) \/ SaveRuntime(p)
  \/ SavePrepareReceipt(p) \/ PrepareReturns(p) \/ ObservePrepare(p)

StartStep(p) ==
  \/ \E r \in StartRequests, f \in Faults : BeginStart(p, r, f)
  \/ Observe(p) \/ CheckStart(p) \/ SaveRegistration(p) \/ SavePacket(p)
  \/ SaveLifecycle(p) \/ Bind(p) \/ Admit(p) \/ SaveStarting(p) \/ Launch(p)
  \/ \E i \in 1 .. 4 : Finalize(p, i)
  \/ SaveIncomplete(p) \/ LaunchUnknown(p) \/ SaveStarted(p)
  \/ SaveStartReceipt(p) \/ StartReturns(p) \/ ObserveStarted(p)

SharedStep(p) ==
  \/ LockAdapter(p) \/ LockRun(p) \/ GiveUp(p)
  \/ UnwindRun(p) \/ ObserveFailure(p) \/ Leave(p) \/ Dies(p)

SupNext ==
  \/ \E p \in Processes : PrepareStep(p) \/ StartStep(p) \/ SharedStep(p)
  \/ \E l \in {"adapter", "prepare"} : OperatorUnlocks(l)

SupSpec == SupInit /\ [][SupNext]_supVars
-----------------------------------------------------------------------------
(* Whatever fails, dies, times out or is retried, launch() is called once: *)
(* "automatic relaunch is forbidden" (organism-cast-supervisor.ts:767).    *)
(* And once a start request is bound, the private files hold exactly its   *)
(* bytes, so that what was or will be launched is what was asked for,      *)
(* although a failed attempt with other bytes may have written some of     *)
(* them before.                                                            *)
LaunchedOnceAsBound ==
  /\ launches <= 1
  /\ files.runtime # None /\ files.runtime.key # None =>
       /\ files.manifest = files.runtime.key.manifest
       /\ files.registration = files.runtime.key.input
       /\ files.lifecycle = files.runtime.key.input
       /\ Organum => files.packet = files.runtime.key.input

(* A start receipt, on disk or in an answer, is the receipt of the one     *)
(* launch: of its request, after its artifacts are durable.                *)
StartReceiptIsTheLaunch ==
  /\ files.startReceipt # None =>
       /\ files.runtime.phase = "started" /\ files.runtime.key = files.startReceipt
       /\ launches = 1 /\ \A a \in DOMAIN artifacts : artifacts[a] # Nobody
  /\ \A p \in Processes :
       proc[p].answer = "receipt" => files.startReceipt = proc[p].request

(* The observation never runs ahead of the durable state: it may miss what *)
(* a failed call did, and what it does say is so.                          *)
ObservationIsTrue ==
  observation # None =>
    /\ files.prepareReceipt # None
    /\ observation.phase = "started" =>
         files.runtime.phase = "started" /\ files.startReceipt # None
    /\ observation.phase = "incomplete" =>
         files.runtime.phase \in {"starting", "incomplete"}
    /\ observation.attempts <= launches
    /\ observation.result # Nobody => artifacts["result"] = observation.result
    /\ observation.emitted => observation.phase = "started"

(* What the supervisor tells of a cast is so: its receipts and the         *)
(* observation, whichever of the steps between them failed or was cut off. *)
ToldTruly == StartReceiptIsTheLaunch /\ ObservationIsTrue
=============================================================================
