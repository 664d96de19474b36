----------------------------- MODULE SignedHub -----------------------------
(***************************************************************************)
(* One signed Hub event and the processes that handle it: the durable      *)
(* supervisor record, the file lock around it, the turn that shows the     *)
(* body to a model, and the semantic ACK                                   *)
(* (src/src/signed-hub-supervisor.ts, grok-acp-signed-hub.ts and           *)
(* signed-hub-operator.ts).                                                *)
(*                                                                         *)
(* A process is one run of the program: a turn (prepare, expose, complete) *)
(* or an operator's recover.  A step is the code between two accesses to   *)
(* the shared files or to the Hub.  A process may end between any two of   *)
(* them, and any of them may fail; what it had written stays.  Events      *)
(* share no file, so one is enough.  The runtime's owner lock, which keeps *)
(* launches apart but neither prepare() nor recover, is more closely       *)
(* modelled by NativeRuntime.                                              *)
(***************************************************************************)
EXTENDS Integers

CONSTANTS
  Processes,  \* process ids; an id is used for one run only
  Nobody      \* no process

ASSUME NobodyIsNoProcess == Nobody \notin Processes

Outcomes == {"applied", "deferred"}   \* what SignedHubLifecycle.complete records
Phases   == {"absent", "prepared", "in_flight", "ack_pending", "acked"}
Record   == [phase : Phases, outcome : Outcomes \cup {"undecided"}]
Refused  == [phase |-> "refused", outcome |-> "undecided"]

VARIABLES
  record,    \* the event's record file
  lock,      \* the event's lock file: who created it, whether its pid is in it
  owner,     \* the owner lock of the runtime directory: who is launching
  pc, want,  \* per process: where it is, and the store operation under way
  seen,      \* per process: the pid it read in somebody's lock file
  plan,      \* per process: the record the store operation returns, or Refused
  aim,       \* per process: the outcome to record or to acknowledge
  prompted,  \* history: processes whose model was shown the body
  acks,      \* the semantic ACKs the Hub holds
  stolen     \* history: the lock of a run at work was taken for a dead one's

NoLock    == [by |-> Nobody, written |-> FALSE]
LockFiles == {NoLock} \cup [by : Processes, written : BOOLEAN]

UnderLock == {"write", "locked", "commit", "release"}
Places    == {"new", "open", "inspect", "judge", "break", "ready", "working",
              "load", "emit", "done", "dead"} \cup UnderLock
Wants   == {"prepare", "expose", "outcome", "ack"}

vars == <<record, lock, owner, pc, want, seen, plan, aim, prompted, acks, stolen>>

Init ==
  /\ record = [phase |-> "absent", outcome |-> "undecided"]
  /\ lock = NoLock /\ owner = Nobody
  /\ pc = [p \in Processes |-> "new"]
  /\ want = [p \in Processes |-> "prepare"]
  /\ seen = [p \in Processes |-> Nobody]
  /\ plan = [p \in Processes |-> Refused]
  /\ aim = [p \in Processes |-> "undecided"]
  /\ prompted = {} /\ acks = {} /\ stolen = FALSE

Goto(p, place) == pc' = [pc EXCEPT ![p] = place]

(* withLock(eventID, action) *)
Lock(p, operation) ==
  /\ Goto(p, "open")
  /\ want' = [want EXCEPT ![p] = operation]

Alive(p)   == pc[p] \notin {"new", "dead"}
Holding(p) == pc[p] \in UnderLock

-----------------------------------------------------------------------------
(***************************************************************************)
(* Processes.  prepare() of a turn first has the authority verify and      *)
(* admit the candidate; only then does it touch the store.                 *)
(***************************************************************************)
StartTurn(p) ==
  /\ pc[p] = "new"
  /\ Lock(p, "prepare")
  /\ UNCHANGED <<record, lock, owner, seen, plan, aim, prompted, acks, stolen>>

StartRecover(p) ==
  /\ pc[p] = "new"
  /\ Goto(p, "load")
  /\ UNCHANGED <<record, lock, owner, want, seen, plan, aim, prompted, acks, stolen>>

(* By a crash, or because the program is over; its memory goes with it. *)
Die(p) ==
  /\ Alive(p)
  /\ Goto(p, "dead")
  /\ want' = [want EXCEPT ![p] = "prepare"]
  /\ seen' = [seen EXCEPT ![p] = Nobody]
  /\ plan' = [plan EXCEPT ![p] = Refused]
  /\ aim'  = [aim EXCEPT ![p] = "undecided"]
  /\ UNCHANGED <<record, lock, owner, prompted, acks, stolen>>

(* A directory, lock or record cannot be opened, read or unlinked. *)
FileFails(p) ==
  /\ pc[p] \in {"open", "inspect", "break", "load"}
  /\ Goto(p, "done")
  /\ UNCHANGED <<record, lock, owner, want, seen, plan, aim, prompted, acks, stolen>>

-----------------------------------------------------------------------------
(***************************************************************************)
(* The lock: open with O_EXCL, then write the pid into it.  Whoever finds  *)
(* the file looks for a dead owner, unlinks that owner's file and retries. *)
(***************************************************************************)
(* Fault: the lock file is opened without O_EXCL. *)
CreateAnyLock(p) ==
  /\ pc[p] = "open"
  /\ lock' = [by |-> p, written |-> FALSE]
  /\ Goto(p, "write")
  /\ UNCHANGED <<record, owner, want, seen, plan, aim, prompted, acks, stolen>>

CreateLock(p) ==
  /\ pc[p] = "open" /\ lock = NoLock
  /\ lock' = [by |-> p, written |-> FALSE]
  /\ Goto(p, "write")
  /\ UNCHANGED <<record, owner, want, seen, plan, aim, prompted, acks, stolen>>

LockExists(p) ==
  /\ pc[p] = "open" /\ lock # NoLock
  /\ Goto(p, "inspect")
  /\ UNCHANGED <<record, lock, owner, want, seen, plan, aim, prompted, acks, stolen>>

(* The pid goes into the file that was opened, wherever the name leads now. *)
WithPid(p) == IF lock.by = p THEN [by |-> p, written |-> TRUE] ELSE lock

WriteOwner(p) ==
  /\ pc[p] = "write"
  /\ lock' = WithPid(p)
  /\ Goto(p, "locked")
  /\ UNCHANGED <<record, owner, want, seen, plan, aim, prompted, acks, stolen>>

(* The write or its sync fails, or the close: the error is no EEXIST, and  *)
(* the file stays behind with or without the pid.                          *)
WriteOwnerFails(p) ==
  /\ pc[p] = "write"
  /\ lock' \in {lock, WithPid(p)}
  /\ Goto(p, "done")
  /\ UNCHANGED <<record, owner, want, seen, plan, aim, prompted, acks, stolen>>

(* staleLockOwner() reads the pid and, when the read has returned, asks     *)
(* whether a process has it.  A lock that is gone is not a stale one.       *)
LockIsGone(p) ==
  /\ pc[p] = "inspect" /\ lock = NoLock
  /\ Goto(p, "open")
  /\ UNCHANGED <<record, lock, owner, want, seen, plan, aim, prompted, acks, stolen>>

(* A lock file without a pid is an error, not a reason to wait. *)
OwnerIsCorrupt(p) ==
  /\ pc[p] = "inspect" /\ lock # NoLock /\ ~lock.written
  /\ Goto(p, "done")
  /\ UNCHANGED <<record, lock, owner, want, seen, plan, aim, prompted, acks, stolen>>

ReadOwner(p) ==
  /\ pc[p] = "inspect" /\ lock # NoLock /\ lock.written
  /\ seen' = [seen EXCEPT ![p] = lock.by]
  /\ Goto(p, "judge")
  /\ UNCHANGED <<record, lock, owner, want, plan, aim, prompted, acks, stolen>>

(* Wait and try again, 100 times.  Another program may have the dead       *)
(* owner's pid by now.                                                     *)
OwnerLives(p) ==
  /\ pc[p] = "judge"
  /\ Goto(p, "open") \/ Goto(p, "done")
  /\ seen' = [seen EXCEPT ![p] = Nobody]
  /\ UNCHANGED <<record, lock, owner, want, plan, aim, prompted, acks, stolen>>

OwnerIsGone(p) ==
  /\ pc[p] = "judge" /\ ~Alive(seen[p])
  /\ Goto(p, "break")
  /\ seen' = [seen EXCEPT ![p] = Nobody]
  /\ UNCHANGED <<record, lock, owner, want, plan, aim, prompted, acks, stolen>>

(* The unlink goes by name, whoever's lock file has the name by now. *)
BreakLock(p) ==
  /\ pc[p] = "break"
  /\ lock' = NoLock
  /\ stolen' = (stolen \/ (lock # NoLock /\ Holding(lock.by)))
  /\ Goto(p, "open")
  /\ UNCHANGED <<record, owner, want, seen, plan, aim, prompted, acks>>

-----------------------------------------------------------------------------
(***************************************************************************)
(* Under the lock: the record is read, the update is computed from it, and *)
(* the result is renamed into place.                                       *)
(***************************************************************************)
Prepare(p, next) ==
  /\ want[p] = "prepare" /\ record.phase = "absent"
  /\ next = [record EXCEPT !.phase = "prepared"]

Expose(p, next) ==
  /\ want[p] = "expose" /\ record.phase = "prepared"
  /\ next = [record EXCEPT !.phase = "in_flight"]

RecordOutcome(p, next) ==
  /\ want[p] = "outcome"
  /\ \/ record.phase = "in_flight"
     \/ record.phase = "ack_pending" /\ record.outcome = aim[p]
  /\ next = [phase |-> "ack_pending", outcome |-> aim[p]]

RecordAck(p, next) ==
  /\ want[p] = "ack"
  /\ \/ record.phase = "ack_pending" /\ record.outcome = aim[p]
     \/ record.phase = "acked"
  /\ next = [record EXCEPT !.phase = "acked"]

(* outcome again, after another process has acknowledged it already *)
KeepAcked(p, next) ==
  /\ want[p] = "outcome"
  /\ record.phase = "acked" /\ record.outcome = aim[p]
  /\ next = record

Updates(p, next) ==
  \/ Prepare(p, next) \/ Expose(p, next)
  \/ RecordOutcome(p, next) \/ RecordAck(p, next) \/ KeepAcked(p, next)

Plan(p) ==
  /\ pc[p] = "locked"
  /\ \E next \in Record : /\ Updates(p, next)
                         /\ plan' = [plan EXCEPT ![p] = next]
  /\ Goto(p, "commit")
  /\ UNCHANGED <<record, lock, owner, want, seen, aim, prompted, acks, stolen>>

(* The record cannot be read or does not parse. *)
ReadFails(p) ==
  /\ pc[p] = "locked"
  /\ plan' = [plan EXCEPT ![p] = Refused]
  /\ Goto(p, "release")
  /\ UNCHANGED <<record, lock, owner, want, seen, aim, prompted, acks, stolen>>

(* putPrepared() of an event that has a record returns that record. *)
FindPrepared(p) ==
  /\ pc[p] = "locked" /\ want[p] = "prepare" /\ record.phase # "absent"
  /\ plan' = [plan EXCEPT ![p] = record]
  /\ Goto(p, "release")
  /\ UNCHANGED <<record, lock, owner, want, seen, aim, prompted, acks, stolen>>

Refuse(p) ==
  /\ pc[p] = "locked"
  /\ ~(want[p] = "prepare" /\ record.phase # "absent")
  /\ \A next \in Record : ~Updates(p, next)
  /\ plan' = [plan EXCEPT ![p] = Refused]
  /\ Goto(p, "release")
  /\ UNCHANGED <<record, lock, owner, want, seen, aim, prompted, acks, stolen>>

Commit(p) ==
  /\ pc[p] = "commit"
  /\ record' = plan[p]
  /\ Goto(p, "release")
  /\ UNCHANGED <<lock, owner, want, seen, plan, aim, prompted, acks, stolen>>

(* Fault: the failure of a write is swallowed. *)
CommitFailureIgnored(p) ==
  /\ pc[p] = "commit"
  /\ record' \in {record, plan[p]}
  /\ Goto(p, "release")
  /\ UNCHANGED <<lock, owner, want, seen, plan, aim, prompted, acks, stolen>>

(* The temporary file or its rename fails, or, with the new record already *)
(* in place, the sync of the directory does.                               *)
CommitFails(p) ==
  /\ pc[p] = "commit"
  /\ record' \in {record, plan[p]}
  /\ plan' = [plan EXCEPT ![p] = Refused]
  /\ Goto(p, "release")
  /\ UNCHANGED <<lock, owner, want, seen, aim, prompted, acks, stolen>>

-----------------------------------------------------------------------------
(***************************************************************************)
(* Release: the lock file is unlinked whoever it belongs to; an operation  *)
(* that was refused, or that finds its lock gone, throws and ends the run. *)
(***************************************************************************)
Unlock(p) == pc[p] = "release" /\ lock' = NoLock

Returns(p, operation) ==
  Unlock(p) /\ lock # NoLock /\ plan[p] # Refused /\ want[p] = operation

Throws(p) ==
  /\ Unlock(p)
  /\ plan[p] = Refused \/ lock = NoLock
  /\ Goto(p, "done")
  /\ UNCHANGED <<record, owner, want, seen, plan, aim, prompted, acks, stolen>>

(* The unlink fails, and the lock file stays with the pid of a run that    *)
(* has ended its work.                                                     *)
UnlockFails(p) ==
  /\ pc[p] = "release"
  /\ Goto(p, "done")
  /\ UNCHANGED <<record, lock, owner, want, seen, plan, aim, prompted, acks, stolen>>

(* SignedHubLifecycle.prepare(): the body is handed out for a prepared      *)
(* event only; a pending ACK is emitted; anything else ends the run.        *)
Prepared(p) ==
  /\ Returns(p, "prepare")
  /\ \/ plan[p].phase = "prepared"    /\ Goto(p, "ready")
     \/ plan[p].phase = "ack_pending" /\ Goto(p, "load")
     \/ plan[p].phase \in {"in_flight", "acked"} /\ Goto(p, "done")
  /\ UNCHANGED <<record, owner, want, seen, plan, aim, prompted, acks, stolen>>

(* A launch takes the owner lock and begins the exposure before it spawns  *)
(* the backend; one that finds the owner lock taken is refused (Abandon).  *)
BeginExposure(p) ==
  /\ pc[p] = "ready" /\ owner = Nobody
  /\ owner' = p
  /\ Lock(p, "expose")
  /\ UNCHANGED <<record, lock, seen, plan, aim, prompted, acks, stolen>>

(* The backend has ended, or was not spawned.  A launch that dies leaves   *)
(* its owner lock to the operator.                                         *)
CloseLaunch(p) ==
  /\ owner = p
  /\ Alive(p) => pc[p] = "done" \/ want[p] \in {"outcome", "ack"}
  /\ owner' = Nobody
  /\ UNCHANGED <<record, lock, pc, want, seen, plan, aim, prompted, acks, stolen>>

Exposed(p) ==
  /\ Returns(p, "expose")
  /\ prompted' = prompted \cup {p}
  /\ Goto(p, "working")
  /\ UNCHANGED <<record, owner, want, seen, plan, aim, acks, stolen>>

(* Fault: a turn that never began its exposure can be completed. *)
CompleteUnexposed(p) ==
  /\ pc[p] \in {"ready", "working"}
  /\ \E o \in Outcomes : aim' = [aim EXCEPT ![p] = o]
  /\ Lock(p, "outcome")
  /\ UNCHANGED <<record, lock, owner, seen, plan, prompted, acks, stolen>>

Complete(p) ==
  /\ pc[p] = "working"
  /\ \E o \in Outcomes : aim' = [aim EXCEPT ![p] = o]
  /\ Lock(p, "outcome")
  /\ UNCHANGED <<record, lock, owner, seen, plan, prompted, acks, stolen>>

(* setup ends after prepare(); a turn whose launch, preflight or prompt     *)
(* fails ends without completing.                                           *)
Abandon(p) ==
  /\ pc[p] \in {"ready", "working"}
  /\ Goto(p, "done")
  /\ UNCHANGED <<record, lock, owner, want, seen, plan, aim, prompted, acks, stolen>>

Recorded(p) ==
  /\ Returns(p, "outcome")
  /\ Goto(p, "load")
  /\ UNCHANGED <<record, owner, want, seen, plan, aim, prompted, acks, stolen>>

-----------------------------------------------------------------------------
(***************************************************************************)
(* emitPendingAck(): the record is read without the lock, the ACK is       *)
(* emitted without it, and the receipt is recorded under it.  The ACK's    *)
(* idempotency key is derived from the event and the outcome.              *)
(***************************************************************************)
(* Fault: a recovered ACK is emitted as deferred, whatever is on record. *)
LoadAsDeferred(p) ==
  /\ pc[p] = "load" /\ record.phase = "ack_pending"
  /\ aim' = [aim EXCEPT ![p] = "deferred"]
  /\ Goto(p, "emit")
  /\ UNCHANGED <<record, lock, owner, want, seen, plan, prompted, acks, stolen>>

LoadPending(p) ==
  /\ pc[p] = "load" /\ record.phase = "ack_pending"
  /\ aim' = [aim EXCEPT ![p] = record.outcome]
  /\ Goto(p, "emit")
  /\ UNCHANGED <<record, lock, owner, want, seen, plan, prompted, acks, stolen>>

LoadOther(p) ==
  /\ pc[p] = "load" /\ record.phase # "ack_pending"
  /\ Goto(p, "done")
  /\ UNCHANGED <<record, lock, owner, want, seen, plan, aim, prompted, acks, stolen>>

Emit(p) ==
  /\ pc[p] = "emit"
  /\ acks' = acks \cup {aim[p]}
  /\ Lock(p, "ack")
  /\ UNCHANGED <<record, lock, owner, seen, plan, aim, prompted, stolen>>

(* The Hub's answer is lost or its refusal arrives: the event stays pending. *)
EmitFails(p) ==
  /\ pc[p] = "emit"
  /\ acks' \in {acks, acks \cup {aim[p]}}
  /\ Goto(p, "done")
  /\ UNCHANGED <<record, lock, owner, want, seen, plan, aim, prompted, stolen>>

Acked(p) ==
  /\ Returns(p, "ack")
  /\ Goto(p, "done")
  /\ UNCHANGED <<record, owner, want, seen, plan, aim, prompted, acks, stolen>>

-----------------------------------------------------------------------------
Step(p) ==
  \/ StartTurn(p) \/ StartRecover(p) \/ Die(p) \/ FileFails(p)
  \/ CreateLock(p) \/ LockExists(p) \/ WriteOwner(p) \/ WriteOwnerFails(p)
  \/ LockIsGone(p) \/ OwnerIsCorrupt(p) \/ ReadOwner(p)
  \/ OwnerLives(p) \/ OwnerIsGone(p) \/ BreakLock(p)
  \/ Plan(p) \/ ReadFails(p) \/ FindPrepared(p) \/ Refuse(p)
  \/ Commit(p) \/ CommitFails(p)
  \/ Throws(p) \/ UnlockFails(p)
  \/ Prepared(p) \/ Exposed(p) \/ Recorded(p) \/ Acked(p)
  \/ BeginExposure(p) \/ CloseLaunch(p) \/ Complete(p) \/ Abandon(p)
  \/ LoadPending(p) \/ LoadOther(p) \/ Emit(p) \/ EmitFails(p)

Next == \E p \in Processes : Step(p)

Spec == Init /\ [][Next]_vars
-----------------------------------------------------------------------------
TypeOK ==
  /\ record \in Record /\ lock \in LockFiles
  /\ pc \in [Processes -> Places] /\ want \in [Processes -> Wants]
  /\ owner \in Processes \cup {Nobody}
  /\ seen \in [Processes -> Processes \cup {Nobody}]
  /\ plan \in [Processes -> Record \cup {Refused}]
  /\ aim \in [Processes -> Outcomes \cup {"undecided"}]
  /\ prompted \subseteq Processes /\ acks \subseteq Outcomes
  /\ stolen \in BOOLEAN

(* Two processes work under the event's lock at the same time only after a *)
(* waiter has unlinked the lock of a run at work, having judged the owner  *)
(* it read before to be dead; and that takes a process that has ended.     *)
(* Any overlap, a holder that dies beside others, one waiter that takes a  *)
(* dead run's lock over, a failing write or unlink of the lock file: none  *)
(* of these alone lets two in (withLock, staleLockOwner).                  *)
MutualExclusion ==
  /\ ~stolen => \A p, q \in Processes : Holding(p) /\ Holding(q) => p = q
  /\ stolen => \E p \in Processes : pc[p] = "dead"

(* grok-acp-signed-hub.ts:551 says "Signed Hub exposure must begin exactly  *)
(* once after preparation", and beginExposure() refuses an event with       *)
(* "Cannot expose a Signed Hub event in phase in_flight": no two runs ever  *)
(* show the body of one event to a model.                                   *)
ShownOnce == \A p, q \in prompted : p = q

(* As long as no live lock was taken, the body reaches a model at most once, *)
(* whatever was retried, restarted or run twice, and not before the exposure *)
(* is on record for good.                                                    *)
ExposedOnce ==
  ~stolen => /\ ShownOnce
             /\ prompted # {} => record.phase \notin {"absent", "prepared"}

(* As long as no live lock was taken, the Hub never holds an ACK of another *)
(* outcome than the one on record, and an acked record has its ACK there.   *)
AckTellsTheOutcome ==
  ~stolen => /\ acks \subseteq {record.outcome}
             /\ record.phase = "acked" => acks = {record.outcome}

(* Even when the lock fails, nothing is decided or acknowledged of an event  *)
(* no model has seen: only the run that exposed it completes it.             *)
NoAckWithoutExposure ==
  record.outcome # "undecided" \/ acks # {} => prompted # {}

(* The record only moves forward, a step at a time, and a recorded outcome   *)
(* stays: no process overwrites what another one committed in the meantime,  *)
(* unless a live lock was taken.                                             *)
Rank == [phase \in Phases |->
           CASE phase = "absent" -> 0 [] phase = "prepared" -> 1
             [] phase = "in_flight" -> 2 [] phase = "ack_pending" -> 3
             [] phase = "acked" -> 4]
Forward == /\ Rank[record'.phase] - Rank[record.phase] \in {0, 1}
           /\ record.outcome = "undecided" \/ record'.outcome = record.outcome
NeverBack == [][~stolen => Forward]_vars

(* docs/architecture.md:57 requires a named actor for a restart-safe         *)
(* semantic ACK: what a run that died or failed leaves behind never keeps    *)
(* later ones from a pending ACK for good.                                   *)
RestartIsSafe ==
  record.phase = "ack_pending" /\ lock # NoLock /\ ~lock.written
    => Holding(lock.by)

Delivery == INSTANCE AtMostOnceDelivery WITH
              Workers <- Processes, Undecided <- "undecided", intact <- ~stolen,
              exposed <- prompted, verdict <- record.outcome
(* Lock, record and processes together implement the at-most-once delivery,  *)
(* also through crashes beside live runs, until a live lock is taken.        *)
DeliversOnce == Delivery!Spec
=============================================================================
