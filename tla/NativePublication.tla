------------------------- MODULE NativePublication -------------------------
(***************************************************************************)
(* Publication by a native actor: callPublication() of                     *)
(* src/src/native-product-lifecycle.ts, which wraps the publication state  *)
(* machine (module Publication) into the two tools of the MCP endpoint     *)
(* (src/src/organum-mcp.ts) and keeps its snapshot in the continuity store *)
(* (src/src/coordination-continuity.ts), from which a restarted process    *)
(* goes on.                                                                *)
(*                                                                         *)
(* The machine, its promises and the hub are those of Publication; this    *)
(* module adds the tool calls around it, the checkpoint file, and the      *)
(* restart, which forgets the machine and joins the hub again.  No idle    *)
(* events reach a native actor, so nothing is ever reminded or written     *)
(* off.  A step is the code between two awaits of I/O.                     *)
(***************************************************************************)
EXTENDS Publication, FiniteSets

CONSTANTS
  MaxParallel, \* bound: how many tool calls of the client overlap
  MaxRestarts  \* bound: how often the process dies and is started again

ASSUME ParallelBound     == MaxParallel \in Nat
ASSUME RestartBound      == MaxRestarts \in Nat
ASSUME TurnsAreNumbered  == Turns \subseteq Nat /\ Nothing \notin Nat

(* <root session>:native-publication:<n> is the turn n. *)

VARIABLES
  disk,      \* the checkpoint: a snapshot and its revision
  durable,   \* durableSnapshot
  restored,  \* hasRestoredReceipt
  sequence,  \* publicationSequence
  task,      \* per tool call (each is made once): its progress
  restarts,
  shipments  \* history: what sessions were ended with before the last join

native     == <<disk, durable, restored, sequence, task, restarts, shipments>>
nativeVars == <<vars, native>>

Snapshot == [phase : Phases, turn : Turns \cup {Nothing},
             receipt : Intent \cup {Nothing}]
Clean    == [phase |-> "clean", turn |-> Nothing, receipt |-> Nothing]

(* machine.snapshot() *)
MachineSnapshot == [phase |-> phase, turn |-> turnID, receipt |-> receipt]

(***************************************************************************)
(* In save(), "load" awaits the old checkpoint, whose revision is counted  *)
(* on, "write" the rename, "read" the file read back, and "assign" is the  *)
(* return to the caller of save(), who goes on with `next'; "publishing"   *)
(* awaits the machine, "status" and "end" the hub, in the handoff of a     *)
(* restored receipt.                                                       *)
(***************************************************************************)
Saving  == {"load", "write", "read", "assign"}
Pending == Saving \cup {"publishing", "status", "end"}
Places  == {"new", "resolved", "rejected", "lost"} \cup Pending
Nexts   == {"publish", "resolve", "reject", "ship"}

TaskType == [at : Places, next : Nexts, content : Contents \cup {Nothing},
             handoff : BOOLEAN, turn : Turns \cup {Nothing}, saving : Snapshot,
             revision : Nat, shipped : BOOLEAN]

NewTask == [at |-> "new", next |-> "publish", content |-> Nothing,
            handoff |-> FALSE, turn |-> Nothing, saving |-> Clean,
            revision |-> 0, shipped |-> FALSE]

(* The first start joins the hub and saves the clean snapshot. *)
NativeInit ==
  /\ Init
  /\ disk = [snapshot |-> Clean, revision |-> 1]
  /\ durable = Clean /\ restored = FALSE /\ sequence = 0
  /\ task = [c \in Calls |-> NewTask]
  /\ restarts = 0 /\ shipments = {}

Busy(c) == task[c].at \in Pending

Set(c, t) == task' = [task EXCEPT ![c] = t]

(* A call that is over keeps what it was asked and told. *)
Over(t, at, shipped) ==
  [NewTask EXCEPT !.at = at, !.content = t.content, !.shipped = shipped]

(* return or throw from callPublication() *)
Resolve(c, t, shipped) == Set(c, Over(t, "resolved", shipped))
Reject(c, t) == Set(c, Over(t, "rejected", FALSE))

(* await save(snapshot) *)
Saved(t, s, next) == [t EXCEPT !.at = "load", !.next = next, !.saving = s]
-----------------------------------------------------------------------------
(***************************************************************************)
(* A tool call.  A shipped checkpoint and a restored receipt are answered  *)
(* from the checkpoint, for its own content only; anything else opens a    *)
(* turn on the machine and saves it before the first external write.       *)
(***************************************************************************)
Arrives(c) == task[c].at = "new" /\ Cardinality({d \in Calls : Busy(d)}) < MaxParallel

Asked(x, handoff) == [NewTask EXCEPT !.content = x, !.handoff = handoff]

(* Fault: a restored receipt is evidence for whatever is published. *)
AnyReplay(x) == durable.receipt # Nothing

(* assertCheckpointReplay() *)
Replays(x) == durable.receipt # Nothing /\ durable.receipt.content = x

Terminal   == durable.phase = "shipped"
FromReceipt == ~Terminal /\ restored /\ durable.receipt # Nothing

ReplayShipped(c, x, handoff) ==
  /\ Arrives(c) /\ Terminal
  /\ \/ Replays(x) /\ Resolve(c, Asked(x, handoff), TRUE)
     \/ ~Replays(x) /\ Reject(c, Asked(x, handoff))
  /\ UNCHANGED <<vars, disk, durable, restored, sequence, restarts, shipments>>

ReplayRestored(c, x, handoff) ==
  /\ Arrives(c) /\ FromReceipt
  /\ \/ Replays(x) /\ ~handoff /\ Resolve(c, Asked(x, handoff), FALSE)
     \/ Replays(x) /\ handoff /\ Set(c, [Asked(x, handoff) EXCEPT !.at = "status"])
     \/ ~Replays(x) /\ Reject(c, Asked(x, handoff))
  /\ UNCHANGED <<vars, disk, durable, restored, sequence, restarts, shipments>>

(* A published turn is followed by a new one, except by its own handoff. *)
OpensNext(handoff) == phase = "published" /\ ~handoff

(* Fault: every call takes the next number. *)
NextNumber(handoff) == sequence + 1

MessageID(handoff) ==
  CASE OpensNext(handoff)     -> sequence + 2
    [] ~OpensNext(handoff) /\ durable.turn # Nothing -> durable.turn
    [] OTHER                  -> sequence + 1

BeginTurn(m) ==
  \/ BeginCleanTurn(m)
  \/ BeginNextTurn(m)
  \/ phase # "clean" /\ ~(phase = "published" /\ intent.turn # m) /\ UNCHANGED vars

Begin(c, x, handoff) ==
  /\ Arrives(c) /\ ~Terminal /\ ~FromReceipt
  /\ MessageID(handoff) \in Turns
  /\ sequence' = IF OpensNext(handoff) THEN sequence + 1 ELSE sequence
  /\ BeginTurn(MessageID(handoff))
  /\ Set(c, Saved([Asked(x, handoff) EXCEPT !.turn = MessageID(handoff)],
                  MachineSnapshot', "publish"))
  /\ UNCHANGED <<disk, durable, restored, restarts, shipments>>
-----------------------------------------------------------------------------
(***************************************************************************)
(* save(): the snapshot is renamed into place, read back, and what was     *)
(* read becomes durableSnapshot, which by then may be another save's.      *)
(***************************************************************************)
Load(c) ==
  /\ task[c].at = "load"
  /\ task' = [task EXCEPT ![c].at = "write", ![c].revision = disk.revision]
  /\ UNCHANGED <<vars, disk, durable, restored, sequence, restarts, shipments>>

Write(c) ==
  /\ task[c].at = "write"
  /\ disk' = [snapshot |-> task[c].saving, revision |-> task[c].revision + 1]
  /\ task' = [task EXCEPT ![c].at = "read"]
  /\ UNCHANGED <<vars, durable, restored, sequence, restarts, shipments>>

Read(c) ==
  /\ task[c].at = "read"
  /\ task' = [task EXCEPT ![c].at = "assign", ![c].saving = disk.snapshot]
  /\ UNCHANGED <<vars, disk, durable, restored, sequence, restarts, shipments>>

(* The result of publish() could not be saved: the catch clause saves again. *)
SaveFails(c) ==
  /\ task[c].at \in {"load", "write", "read"}
  /\ \/ task[c].next = "resolve" /\ Set(c, Saved(task[c], MachineSnapshot, "reject"))
     \/ task[c].next # "resolve" /\ Reject(c, task[c])
  /\ UNCHANGED <<vars, disk, durable, restored, sequence, restarts, shipments>>

Assigns(c, next) ==
  task[c].at = "assign" /\ task[c].next = next /\ durable' = task[c].saving

(* The turn is saved; machine.publish() runs to its first await.            *)
Publish(c) ==
  LET t == task[c] IN
  /\ Assigns(c, "publish")
  /\ \/ /\ PublishConflict(c, t.turn, t.content, t.handoff)
        /\ Set(c, Saved(t, MachineSnapshot', "reject"))
     \/ /\ ~t.handoff /\ PublishReplay(c, t.turn, t.content)
        /\ Set(c, Saved(t, MachineSnapshot', "resolve"))
     \/ /\ \/ PublishJoin(c, t.turn, t.content, t.handoff)
           \/ PublishStart(c, t.turn, t.content, t.handoff)
           \/ t.handoff /\ PublishHandoff(c, t.turn, t.content)
        /\ Set(c, [Asked(t.content, FALSE) EXCEPT !.at = "publishing"])
  /\ UNCHANGED <<disk, restored, sequence, restarts, shipments>>

(* The pending operation goes on; when it settles, each of its callers saves *)
(* the machine's snapshot.                                                   *)
Settled(c) == task[c].at = "publishing" /\ call'[c].pc # "waiting"

Operate ==
  /\ OperationStep
  /\ task' = [c \in Calls |->
                IF Settled(c)
                  THEN Saved(task[c], MachineSnapshot',
                             IF call'[c].pc = "resolved" THEN "resolve" ELSE "reject")
                  ELSE task[c]]
  /\ UNCHANGED <<disk, durable, restored, sequence, restarts, shipments>>

Return(c) ==
  /\ \/ Assigns(c, "resolve") /\ Resolve(c, task[c], call[c].shipped)
     \/ Assigns(c, "reject") /\ Reject(c, task[c])
  /\ UNCHANGED <<vars, disk, restored, sequence, restarts, shipments>>
-----------------------------------------------------------------------------
(***************************************************************************)
(* The handoff of a restored receipt: status, end unless the session is    *)
(* ended, and the shipped snapshot is saved.                               *)
(***************************************************************************)
Ship(c) ==
  /\ durable' = [durable EXCEPT !.phase = "shipped"]
  /\ Set(c, Saved(task[c], durable', "ship"))

(* Fault: the session is not ended before it is called shipped. *)
ShipWithoutEnd(c) ==
  /\ task[c].at = "status" /\ Ship(c)
  /\ UNCHANGED <<vars, disk, restored, sequence, restarts, shipments>>

StatusKnown(c) ==
  /\ task[c].at = "status"
  /\ \/ shippedFile # Nothing /\ Ship(c)
     \/ /\ shippedFile = Nothing
        /\ Set(c, [task[c] EXCEPT !.at = "end"]) /\ UNCHANGED durable
  /\ UNCHANGED <<vars, disk, restored, sequence, restarts, shipments>>

EndSession ==
  /\ shippedFile = Nothing /\ shippedFile' = durable.receipt
  /\ UNCHANGED <<entryVars, operation, reminder, call, envelopes, history>>

EndKnown(c) ==
  /\ task[c].at = "end" /\ EndSession /\ Ship(c)
  /\ UNCHANGED <<disk, restored, sequence, restarts, shipments>>

(* The hub refuses, or the answer is lost. *)
HubFails(c) ==
  /\ task[c].at \in {"status", "end"}
  /\ \/ task[c].at = "end" /\ EndSession
     \/ UNCHANGED vars
  /\ Reject(c, task[c])
  /\ UNCHANGED <<disk, durable, restored, sequence, restarts, shipments>>

Shipped(c) ==
  /\ Assigns(c, "ship")
  /\ restored' = FALSE
  /\ Resolve(c, task[c], task[c].saving.phase = "shipped")
  /\ UNCHANGED <<vars, disk, sequence, restarts, shipments>>
-----------------------------------------------------------------------------
(***************************************************************************)
(* The process dies and is started again: the machine is new, the          *)
(* checkpoint is loaded, and unless it is shipped the hub is joined, which *)
(* opens a session, and the checkpoint saved again.                        *)
(***************************************************************************)
MachineForgotten ==
  /\ phase' = "clean" /\ turnID' = Nothing /\ reminders' = 0
  /\ intent' = Nothing /\ receipt' = Nothing /\ endAttempted' = FALSE
  /\ operation' = NoOperation /\ reminder' = NoReminder
  /\ call' = [c \in Calls |-> [pc |-> "idle", content |-> Nothing,
                               handoff |-> FALSE, shipped |-> FALSE]]
  /\ posted' = {} /\ prompts' = 0

(* Fault: the restart does not load the checkpoint. *)
RestoreNothing ==
  /\ durable' = Clean /\ restored' = FALSE /\ sequence' = 0

Restore ==
  /\ durable' = disk.snapshot
  /\ restored' = (disk.snapshot.receipt # Nothing)
  /\ sequence' = disk.revision

Join ==
  \/ /\ disk.snapshot.phase = "shipped"
     /\ UNCHANGED <<disk, shippedFile, shipments>>
  \/ /\ disk.snapshot.phase # "shipped"
     /\ disk' = [disk EXCEPT !.revision = @ + 1]
     /\ shippedFile' = Nothing
     /\ shipments' = shipments \cup ({shippedFile} \ {Nothing})

Restart ==
  /\ restarts < MaxRestarts /\ restarts' = restarts + 1
  /\ MachineForgotten /\ Restore /\ Join
  /\ task' = [c \in Calls |-> IF Busy(c) THEN Over(task[c], "lost", FALSE)
                                         ELSE task[c]]
  /\ UNCHANGED envelopes
-----------------------------------------------------------------------------
Arrival == \E c \in Calls, x \in Contents, handoff \in BOOLEAN :
  \/ ReplayShipped(c, x, handoff) \/ ReplayRestored(c, x, handoff)
  \/ Begin(c, x, handoff)

TaskStep(c) ==
  \/ Load(c) \/ Write(c) \/ Read(c) \/ SaveFails(c) \/ Publish(c) \/ Return(c)
  \/ StatusKnown(c) \/ EndKnown(c) \/ HubFails(c) \/ Shipped(c)

NativeNext == \/ Arrival \/ Operate \/ Restart
              \/ \E c \in Calls : TaskStep(c)

NativeSpec == NativeInit /\ [][NativeNext]_nativeVars
-----------------------------------------------------------------------------
NativeTypeOK ==
  /\ TypeOK
  /\ disk \in [snapshot : Snapshot, revision : Nat]
  /\ durable \in Snapshot /\ restored \in BOOLEAN /\ sequence \in Nat
  /\ task \in [Calls -> TaskType]
  /\ restarts \in 0 .. MaxRestarts /\ shipments \subseteq Intent

Ended == shipments \cup ({shippedFile} \ {Nothing})

(* Across restarts, parallel calls and stale checkpoints, a tool call that    *)
(* returned had its own content made durable, and told "shipped", a session   *)
(* was ended with it (callPublication, assertCheckpointReplay).               *)
AnswersAreTrue ==
  \A c \in Calls : task[c].at = "resolved" =>
    /\ \E e \in envelopes : e.content = task[c].content
    /\ task[c].shipped => \E e \in Ended : e.content = task[c].content

(* A checkpoint, also one that a slow save wrote late, never claims a receipt *)
(* the hub does not hold, nor a shipment that did not happen: a restart       *)
(* trusts it blindly.                                                         *)
CheckpointIsTrue ==
  \A s \in {disk.snapshot, durable} :
    /\ s.receipt # Nothing => s.receipt \in envelopes
    /\ s.phase = "shipped" => s.receipt \in Ended

(* Comment at src/src/native-product-lifecycle.ts:600: a crash after the hub  *)
(* accepted a body can be retried without creating a second file.  A body has *)
(* two files only after a call for it was answered, or after its turn was     *)
(* used for another body.                                                     *)
Answered(x) == \E c \in Calls : task[c].content = x
                                /\ task[c].at \in {"resolved", "rejected"}
CrashMakesNoSecondFile ==
  \A a, b \in envelopes :
    a.content = b.content /\ a.turn # b.turn =>
      \/ Answered(a.content)
      \/ \E e \in envelopes : e.content # a.content /\ e.turn \in {a.turn, b.turn}

(* Once a caller was told shipped, nothing else is ever published for this   *)
(* actor, also not after a restart (docs/architecture.md:60).                *)
ToldShipped == \E c \in Calls : task[c].at = "resolved" /\ task[c].shipped
NothingAfterShipment == [][ToldShipped => envelopes' = envelopes]_nativeVars
=============================================================================
