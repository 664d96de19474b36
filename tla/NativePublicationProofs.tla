---------------------- MODULE NativePublicationProofs ----------------------
(***************************************************************************)
(* Safety of the native publication for any number of overlapping tool     *)
(* calls and of restarts.  The machine's own invariant (PublicationProofs) *)
(* is preserved by every step of it and re-established by a restart; what  *)
(* is added says which snapshots may be in flight, and that a process      *)
(* either replays its restored receipt or drives the machine, never both.  *)
(***************************************************************************)
EXTENDS NativePublication, PublicationProofs, FiniteSetTheorems

(* A snapshot, and an answer, that the hub bears out. *)
TrueOf(s, files, ends) ==
  /\ s.receipt # Nothing => s.receipt \in files
  /\ s.phase = "shipped" => s.receipt # Nothing /\ s.receipt \in ends

AnswerTrue(t, files, ends) ==
  /\ \E e \in files : e.content = t.content
  /\ t.shipped => \E e \in ends : e.content = t.content

IsSaving(t) == t.at \in Saving

SnapshotInv ==
  /\ TrueOf(disk.snapshot, envelopes, Ended) /\ TrueOf(durable, envelopes, Ended)
  /\ \A c \in Calls : IsSaving(task[c]) => TrueOf(task[c].saving, envelopes, Ended)

(* What a call knows of the machine. *)
TaskFacts(c) ==
  /\ Busy(c) => task[c].content \in Contents
  /\ task[c].at = "publishing" =>
       call[c].pc = "waiting" /\ call[c].content = task[c].content
  /\ IsSaving(task[c]) /\ task[c].next = "publish" => task[c].turn \in Turns
  /\ IsSaving(task[c]) /\ task[c].next = "resolve" =>
       call[c].pc = "resolved" /\ call[c].content = task[c].content

TaskInv == \A c \in Calls : TaskFacts(c)

Shipping(t) == t.at \in {"status", "end"} \/ (IsSaving(t) /\ t.next = "ship")

(* A process that restored a receipt never touches its machine, and ends the *)
(* session with the receipt only for a call with its content.                *)
ShipFacts(c) ==
  /\ Shipping(task[c]) /\ task[c].content = durable.receipt.content
  /\ shippedFile \in {Nothing, durable.receipt}
  /\ task[c].at \in {"load", "write", "assign"} =>
       task[c].saving.phase = "shipped" /\ task[c].saving.receipt = durable.receipt
  /\ task[c].at = "read" => disk.snapshot.phase = "shipped"

Replaying ==
  /\ phase = "clean" /\ endAttempted = FALSE /\ durable.receipt # Nothing
  /\ restored \/ durable.phase = "shipped"
  /\ disk.snapshot.receipt = durable.receipt
  /\ durable.phase # "shipped" => shippedFile \in {Nothing, durable.receipt}
  /\ \A c \in Calls : Busy(c) => ShipFacts(c)

Driving ==
  /\ ~restored
  /\ \A c \in Calls : ~Shipping(task[c])
  /\ phase = "clean" => durable.receipt = Nothing /\ \A c \in Calls : ~Busy(c)

NInv == /\ NativeTypeOK /\ Inv /\ SnapshotInv /\ TaskInv
        /\ Replaying \/ Driving
        /\ AnswersAreTrue

-----------------------------------------------------------------------------
(***************************************************************************)
(* The shapes of the changes to a call.                                    *)
(***************************************************************************)
LEMMA SetShape ==
  ASSUME NativeTypeOK, NEW c \in Calls, NEW t \in TaskType, Set(c, t)
  PROVE  /\ task' \in [Calls -> TaskType] /\ task'[c] = t
         /\ \A d \in Calls : d # c => task'[d] = task[d]
  BY DEF NativeTypeOK, Set

LEMMA SavedShape ==
  ASSUME NativeTypeOK, NEW t \in TaskType, NEW s \in Snapshot, NEW next \in Nexts
  PROVE  /\ Saved(t, s, next) \in TaskType
         /\ Saved(t, s, next).at = "load" /\ Saved(t, s, next).next = next
         /\ Saved(t, s, next).saving = s
         /\ Saved(t, s, next).content = t.content /\ Saved(t, s, next).turn = t.turn
  BY DEF NativeTypeOK, Saved, TaskType, Places, Pending, Saving

LEMMA AskedShape ==
  ASSUME NEW x \in Contents, NEW handoff \in BOOLEAN
  PROVE  /\ Asked(x, handoff) \in TaskType /\ Asked(x, handoff).content = x
         /\ Asked(x, handoff).at = "new"
         /\ \A at \in Pending \ Saving :
              /\ [Asked(x, handoff) EXCEPT !.at = at] \in TaskType
              /\ [Asked(x, handoff) EXCEPT !.at = at].at = at
              /\ [Asked(x, handoff) EXCEPT !.at = at].content = x
         /\ \A m \in Turns :
              /\ [Asked(x, handoff) EXCEPT !.turn = m] \in TaskType
              /\ [Asked(x, handoff) EXCEPT !.turn = m].turn = m
              /\ [Asked(x, handoff) EXCEPT !.turn = m].content = x
  BY DEF Asked, NewTask, TaskType, Places, Pending, Saving, Nexts, Snapshot,
         Clean, Phases

LEMMA OverShape ==
  ASSUME NEW t \in TaskType, NEW at \in {"resolved", "rejected", "lost"},
         NEW shipped \in BOOLEAN
  PROVE  /\ Over(t, at, shipped) \in TaskType /\ Over(t, at, shipped).at = at
         /\ Over(t, at, shipped).content = t.content
         /\ Over(t, at, shipped).shipped = shipped
  BY DEF Over, NewTask, TaskType, Places, Nexts, Snapshot, Clean, Phases

LEMMA OverTrue ==
  ASSUME NEW t \in TaskType, NEW shipped \in BOOLEAN, NEW files, NEW ends,
         \E e \in files : e.content = t.content,
         shipped => \E e \in ends : e.content = t.content
  PROVE  AnswerTrue(Over(t, "resolved", shipped), files, ends)
  <1>1. /\ Over(t, "resolved", shipped).content = t.content
        /\ Over(t, "resolved", shipped).shipped = shipped
    BY OverShape
  <1>2. QED BY <1>1 DEF AnswerTrue

LEMMA MachineSnapshotShape ==
  /\ Inv => MachineSnapshot \in Snapshot /\ TrueOf(MachineSnapshot, envelopes, Ended)
  /\ Inv' => MachineSnapshot' \in Snapshot
             /\ TrueOf(MachineSnapshot', envelopes', Ended')
  BY DEF Inv, TypeOK, EntryInv, MachineSnapshot, Snapshot, TrueOf, Ended

LEMMA TrueOfGrows ==
  ASSUME NEW s, NEW files, NEW ends, NEW moreFiles, NEW moreEnds,
         files \subseteq moreFiles, ends \subseteq moreEnds,
         TrueOf(s, files, ends)
  PROVE  TrueOf(s, moreFiles, moreEnds)
  BY DEF TrueOf

LEMMA AnswerGrows ==
  ASSUME NEW t, NEW files, NEW ends, NEW moreFiles, NEW moreEnds,
         files \subseteq moreFiles, ends \subseteq moreEnds,
         AnswerTrue(t, files, ends)
  PROVE  AnswerTrue(t, moreFiles, moreEnds)
  BY DEF AnswerTrue

(***************************************************************************)
(* A step of one call, as far as snapshots and answers are concerned.      *)
(***************************************************************************)
Grows == envelopes \subseteq envelopes' /\ Ended \subseteq Ended'

Fits(t) ==
  /\ IsSaving(t) => TrueOf(t.saving, envelopes', Ended')
  /\ t.at = "resolved" => AnswerTrue(t, envelopes', Ended')

LEMMA CallStep ==
  ASSUME NInv, Grows, NEW c \in Calls, NEW t \in TaskType, Set(c, t), Fits(t),
         TrueOf(disk'.snapshot, envelopes', Ended'),
         TrueOf(durable', envelopes', Ended')
  PROVE  SnapshotInv' /\ AnswersAreTrue'
  <1> USE DEF NInv
  <1>1. /\ task' \in [Calls -> TaskType] /\ task'[c] = t
        /\ \A d \in Calls : d # c => task'[d] = task[d]
    BY SetShape
  <1>2. ASSUME NEW d \in Calls, IsSaving(task'[d])
        PROVE  TrueOf(task'[d].saving, envelopes', Ended')
    BY <1>1, <1>2, TrueOfGrows DEF Fits, SnapshotInv, Grows
  <1>3. ASSUME NEW d \in Calls, task'[d].at = "resolved"
        PROVE  AnswerTrue(task'[d], envelopes', Ended')
    <2>1. CASE d = c
      BY <1>1, <1>3, <2>1 DEF Fits
    <2>2. CASE d # c
      <3>1. AnswerTrue(task[d], envelopes, Ended)
        BY <1>1, <1>3, <2>2 DEF AnswersAreTrue, AnswerTrue
      <3>2. QED BY <1>1, <2>2, <3>1, AnswerGrows DEF Grows
    <2>3. QED BY <2>1, <2>2
  <1>4. SnapshotInv'
    BY <1>2 DEF SnapshotInv, IsSaving
  <1>5. AnswersAreTrue'
    BY <1>3 DEF AnswersAreTrue, AnswerTrue
  <1>6. QED BY <1>4, <1>5

-----------------------------------------------------------------------------
(***************************************************************************)
(* Steps that leave the machine alone.                                     *)
(***************************************************************************)
Still == UNCHANGED <<vars, disk, durable, restored, sequence, restarts, shipments>>

LEMMA StillFacts ==
  ASSUME NInv, Still
  PROVE  Inv' /\ Grows
         /\ TrueOf(disk'.snapshot, envelopes', Ended')
         /\ TrueOf(durable', envelopes', Ended')
  <1>1. Inv' BY StutterInv DEF NInv, Still
  <1>2. QED
    BY <1>1 DEF NInv, Still, Grows, Ended, SnapshotInv, vars, hubVars

(* A call that only returns, or throws. *)
LEMMA Finishes ==
  ASSUME NInv, Still, NEW c \in Calls, NEW t \in TaskType, Set(c, t),
         t.at \in {"resolved", "rejected"},
         t.at = "resolved" => AnswerTrue(t, envelopes, Ended)
  PROVE  NInv'
  <1> USE StillFacts DEF Still
  <1>1. /\ task' \in [Calls -> TaskType] /\ task'[c] = t
        /\ \A d \in Calls : d # c => task'[d] = task[d]
    BY SetShape DEF NInv
  <1>2. envelopes' = envelopes /\ Ended' = Ended
    BY DEF vars, hubVars, Ended
  <1>3. SnapshotInv' /\ AnswersAreTrue'
    <2>1. Fits(t)
      BY <1>2 DEF Fits, IsSaving, Saving
    <2>2. QED BY <2>1, CallStep
  <1>4. \A d \in Calls : Busy(d)' => d # c
    BY <1>1 DEF Busy, Pending, Saving
  <1>5. TaskInv'
    BY <1>1, <1>4 DEF NInv, TaskInv, TaskFacts, Busy, IsSaving, Saving, Pending, vars
  <1>6. NativeTypeOK'
    BY <1>1 DEF NInv, NativeTypeOK, Inv
  <1>7. Replaying => Replaying'
    BY <1>1, <1>4 DEF Replaying, ShipFacts, Shipping, Busy, IsSaving, Saving,
                      Pending, vars, entryVars, hubVars
  <1>8. Driving => Driving'
    BY <1>1, <1>4 DEF Driving, Shipping, Busy, IsSaving, Saving, Pending, vars,
                      entryVars
  <1>9. QED BY <1>3, <1>5, <1>6, <1>7, <1>8 DEF NInv

LEMMA ReplayShippedInv ==
  ASSUME NInv, NEW c \in Calls, NEW x \in Contents, NEW handoff \in BOOLEAN,
         ReplayShipped(c, x, handoff)
  PROVE  NInv'
  <1>1. Still BY DEF ReplayShipped, Still
  <1>2. Asked(x, handoff) \in TaskType /\ Asked(x, handoff).content = x
    BY AskedShape
  <1>3. CASE Replays(x) /\ Resolve(c, Asked(x, handoff), TRUE)
    <2>0. durable.receipt \in envelopes /\ durable.receipt \in Ended
          /\ durable.receipt.content = x
      BY <1>3 DEF Replays, NInv, SnapshotInv, TrueOf, ReplayShipped, Terminal
    <2>1. AnswerTrue(Over(Asked(x, handoff), "resolved", TRUE), envelopes, Ended)
      BY <1>2, <2>0, OverTrue
    <2>2. QED BY <1>1, <1>2, <1>3, <2>1, OverShape, Finishes DEF Resolve
  <1>4. CASE Reject(c, Asked(x, handoff))
    BY <1>1, <1>2, <1>4, OverShape, Finishes DEF Reject
  <1>5. QED BY <1>3, <1>4 DEF ReplayShipped

LEMMA ReplayRestoredInv ==
  ASSUME NInv, NEW c \in Calls, NEW x \in Contents, NEW handoff \in BOOLEAN,
         ReplayRestored(c, x, handoff)
  PROVE  NInv'
  <1>1. Still BY DEF ReplayRestored, Still
  <1>2. Asked(x, handoff) \in TaskType /\ Asked(x, handoff).content = x
    BY AskedShape
  <1>3. CASE Replays(x) /\ Resolve(c, Asked(x, handoff), FALSE)
    <2>0. durable.receipt \in envelopes /\ durable.receipt.content = x
      BY <1>3 DEF Replays, NInv, SnapshotInv, TrueOf
    <2>1. AnswerTrue(Over(Asked(x, handoff), "resolved", FALSE), envelopes, Ended)
      BY <1>2, <2>0, OverTrue
    <2>2. QED BY <1>1, <1>2, <1>3, <2>1, OverShape, Finishes DEF Resolve
  <1>4. CASE Reject(c, Asked(x, handoff))
    BY <1>1, <1>2, <1>4, OverShape, Finishes DEF Reject
  <1>5. CASE Replays(x) /\ Set(c, [Asked(x, handoff) EXCEPT !.at = "status"])
    <2> DEFINE t == [Asked(x, handoff) EXCEPT !.at = "status"]
    <2>1. t \in TaskType /\ t.at = "status" /\ t.content = x
      BY AskedShape DEF Pending, Saving
    <2> HIDE DEF t
    <2>2. /\ task' \in [Calls -> TaskType] /\ task'[c] = t
          /\ \A d \in Calls : d # c => task'[d] = task[d]
      BY <1>5, <2>1, SetShape DEF NInv, t
    <2>3. SnapshotInv' /\ AnswersAreTrue'
      BY <1>1, <1>5, <2>1, StillFacts, CallStep DEF t, Fits, IsSaving, Saving
    <2>4. TaskInv'
      BY <1>1, <2>1, <2>2
         DEF NInv, TaskInv, TaskFacts, Busy, IsSaving, Saving, Pending, Still, vars
    <2>5. NativeTypeOK' /\ Inv'
      BY <1>1, <2>2, StillFacts DEF NInv, NativeTypeOK, Inv, Still
    <2>6. Replaying'
      <3>1. Replaying /\ durable.phase # "shipped" /\ durable.receipt.content = x
        BY <1>5 DEF ReplayRestored, FromReceipt, Terminal, NInv, Driving, Replays
      <3>2. QED
        BY <1>1, <2>1, <2>2, <3>1
           DEF Replaying, ShipFacts, Shipping, Busy, IsSaving, Saving, Pending,
               Still, vars, entryVars, hubVars
    <2>7. QED BY <2>3, <2>4, <2>5, <2>6 DEF NInv
  <1>6. QED BY <1>3, <1>4, <1>5 DEF ReplayRestored

-----------------------------------------------------------------------------
(***************************************************************************)
(* Steps of a process that drives its machine.                             *)
(***************************************************************************)
LEMMA DrivingStep ==
  ASSUME NInv, Inv', Grows, Driving, restored' = FALSE, phase' # "clean",
         disk' \in [snapshot : Snapshot, revision : Nat], durable' \in Snapshot,
         sequence' \in Nat, UNCHANGED <<restarts, shipments>>,
         TrueOf(disk'.snapshot, envelopes', Ended'),
         TrueOf(durable', envelopes', Ended'),
         NEW c \in Calls, NEW t \in TaskType, Set(c, t), Fits(t), ~Shipping(t),
         TaskFacts(c)', \A d \in Calls : d # c => call'[d] = call[d]
  PROVE  NInv'
  <1>1. /\ task' \in [Calls -> TaskType] /\ task'[c] = t
        /\ \A d \in Calls : d # c => task'[d] = task[d]
    BY SetShape DEF NInv
  <1>2. SnapshotInv' /\ AnswersAreTrue'
    BY CallStep
  <1>3. TaskInv'
    <2>1. ASSUME NEW d \in Calls, d # c PROVE TaskFacts(d)'
      BY <1>1, <2>1 DEF NInv, TaskInv, TaskFacts, Busy, IsSaving
    <2>2. QED BY <2>1 DEF TaskInv
  <1>4. NativeTypeOK'
    <2>1. TypeOK' BY DEF Inv
    <2>2. restored' \in BOOLEAN OBVIOUS
    <2>3. restarts' \in 0 .. MaxRestarts /\ shipments' \subseteq Intent
      BY DEF NInv, NativeTypeOK
    <2>4. QED BY <1>1, <2>1, <2>2, <2>3 DEF NativeTypeOK
  <1>5. Driving'
    BY <1>1 DEF Driving, Shipping, IsSaving
  <1>6. QED BY <1>2, <1>3, <1>4, <1>5 DEF NInv

(* A step that begins to save the snapshot s. *)
LEMMA SavingStep ==
  ASSUME NInv, Inv', Grows, Driving, restored' = FALSE, phase' # "clean",
         disk' \in [snapshot : Snapshot, revision : Nat], durable' \in Snapshot,
         sequence' \in Nat, UNCHANGED <<restarts, shipments>>,
         TrueOf(disk'.snapshot, envelopes', Ended'),
         TrueOf(durable', envelopes', Ended'),
         NEW c \in Calls, NEW u \in TaskType, NEW s \in Snapshot,
         NEW next \in {"publish", "resolve", "reject"}, Set(c, Saved(u, s, next)),
         TrueOf(s, envelopes', Ended'), u.content \in Contents,
         next = "publish" => u.turn \in Turns,
         next = "resolve" => call'[c].pc = "resolved" /\ call'[c].content = u.content,
         \A d \in Calls : d # c => call'[d] = call[d]
  PROVE  NInv'
  <1> DEFINE t == Saved(u, s, next)
  <1>1. NativeTypeOK /\ next \in Nexts
    BY DEF NInv, Nexts
  <1>2. /\ t \in TaskType /\ t.at = "load" /\ t.next = next
        /\ t.saving = s /\ t.content = u.content /\ t.turn = u.turn
    BY <1>1, SavedShape
  <1>3. Set(c, t)
    OBVIOUS
  <1> HIDE DEF t
  <1>4. task'[c] = t
    BY <1>1, <1>2, <1>3, SetShape
  <1>5. TaskFacts(c)'
    BY <1>2, <1>4 DEF TaskFacts
  <1>6. Fits(t) /\ ~Shipping(t)
    BY <1>2 DEF Fits, Shipping
  <1>7. QED BY <1>2, <1>3, <1>5, <1>6, DrivingStep

(* What a step that changes no checkpoint leaves true of it. *)
LEMMA KeptCheckpoint ==
  ASSUME NInv, Inv', Grows, Driving,
         UNCHANGED <<disk, durable, restored, restarts, shipments>>
  PROVE  /\ disk' \in [snapshot : Snapshot, revision : Nat] /\ durable' \in Snapshot
         /\ TrueOf(disk'.snapshot, envelopes', Ended')
         /\ TrueOf(durable', envelopes', Ended')
         /\ restored' = FALSE
         /\ MachineSnapshot' \in Snapshot
         /\ TrueOf(MachineSnapshot', envelopes', Ended')
  BY MachineSnapshotShape, TrueOfGrows
     DEF NInv, NativeTypeOK, SnapshotInv, Driving, Grows

LEMMA BeginInv ==
  ASSUME NInv, NEW c \in Calls, NEW x \in Contents, NEW handoff \in BOOLEAN,
         Begin(c, x, handoff)
  PROVE  NInv'
  <1> DEFINE m == MessageID(handoff)
             asked == [Asked(x, handoff) EXCEPT !.turn = m]
  <1>1. m \in Turns /\ BeginTurn(m) /\ Set(c, Saved(asked, MachineSnapshot', "publish"))
        /\ UNCHANGED <<disk, durable, restored, restarts, shipments>>
    BY DEF Begin
  <1>2. asked \in TaskType /\ asked.turn = m /\ asked.content = x
    BY <1>1, AskedShape
  <1> HIDE DEF m, asked
  <1>3. Inv'
    BY <1>1, TurnInv, StutterInv DEF NInv, BeginTurn, Turn
  <1>4. phase' # "clean" /\ UNCHANGED <<call, envelopes, shippedFile>>
    BY <1>1 DEF BeginTurn, BeginCleanTurn, BeginNextTurn, vars, entryVars, hubVars
  <1>5. Grows
    BY <1>1, <1>4 DEF Ended, Grows
  <1>6. Driving
    BY DEF NInv, Replaying, Begin, Terminal, FromReceipt
  <1>7. sequence' \in Nat
    BY DEF NInv, NativeTypeOK, Begin
  <1>8. QED
    BY <1>1, <1>2, <1>3, <1>4, <1>5, <1>6, <1>7, KeptCheckpoint, SavingStep

-----------------------------------------------------------------------------
(***************************************************************************)
(* Steps of a process that replays its restored receipt.                   *)
(***************************************************************************)
ShipFits(t) ==
  t.at \in Pending =>
    /\ Shipping(t) /\ t.content = durable.receipt.content
    /\ shippedFile' \in {Nothing, durable.receipt}
    /\ t.at \in {"load", "write", "assign"} =>
         t.saving.phase = "shipped" /\ t.saving.receipt = durable.receipt
    /\ t.at = "read" => disk'.snapshot.phase = "shipped"

StaysReplaying ==
  /\ Inv' /\ Grows /\ Replaying
  /\ UNCHANGED <<phase, endAttempted, call, sequence, restarts, shipments>>
  /\ disk' \in [snapshot : Snapshot, revision : Nat] /\ durable' \in Snapshot
  /\ disk'.snapshot.receipt = durable.receipt
  /\ disk' = disk \/ disk'.snapshot.phase = "shipped"
  /\ durable' = durable
       \/ (durable'.phase = "shipped" /\ durable'.receipt = durable.receipt)
  /\ restored' = restored \/ (restored' = FALSE /\ durable'.phase = "shipped")
  /\ shippedFile' = shippedFile \/ shippedFile' = durable.receipt
  /\ TrueOf(disk'.snapshot, envelopes', Ended')
  /\ TrueOf(durable', envelopes', Ended')

LEMMA ReplayingStep ==
  ASSUME NInv, StaysReplaying,
         NEW c \in Calls, NEW t \in TaskType, Set(c, t), Fits(t), ShipFits(t),
         t.at \in Pending => t.content \in Contents
  PROVE  NInv'
  <1> USE DEF StaysReplaying
  <1>1. /\ task' \in [Calls -> TaskType] /\ task'[c] = t
        /\ \A d \in Calls : d # c => task'[d] = task[d]
    BY SetShape DEF NInv
  <1>2. SnapshotInv' /\ AnswersAreTrue'
    BY CallStep
  <1>3. TaskInv'
    <2>1. ASSUME NEW d \in Calls, d # c PROVE TaskFacts(d)'
      BY <1>1, <2>1 DEF NInv, TaskInv, TaskFacts, Busy, IsSaving
    <2>2. TaskFacts(c)'
      BY <1>1 DEF TaskFacts, Busy, IsSaving, ShipFits, Shipping, Pending, Saving
    <2>3. QED BY <2>1, <2>2 DEF TaskInv
  <1>4. NativeTypeOK'
    <2>1. TypeOK' BY DEF Inv
    <2>2. restored' \in BOOLEAN BY DEF NInv, NativeTypeOK
    <2>3. sequence' \in Nat /\ restarts' \in 0 .. MaxRestarts /\ shipments' \subseteq Intent
      BY DEF NInv, NativeTypeOK
    <2>4. QED BY <1>1, <2>1, <2>2, <2>3 DEF NativeTypeOK
  <1>5. Replaying'
    <2>1. durable'.receipt = durable.receipt
      OBVIOUS
    <2>2. ASSUME NEW d \in Calls, Busy(d)' PROVE ShipFacts(d)'
      <3>1. CASE d = c
        BY <1>1, <2>1, <2>2, <3>1 DEF ShipFits, ShipFacts, Busy, Shipping, IsSaving
      <3>2. CASE d # c
        <4>1. ShipFacts(d)
          BY <1>1, <2>2, <3>2 DEF Replaying, Busy
        <4>2. QED
          BY <1>1, <2>1, <3>2, <4>1 DEF ShipFacts, Shipping, IsSaving
      <3>3. QED BY <3>1, <3>2
    <2>3. durable'.phase # "shipped" => shippedFile' \in {Nothing, durable'.receipt}
      BY <2>1 DEF Replaying
    <2>4. restored' \/ durable'.phase = "shipped"
      BY DEF Replaying
    <2>5. QED BY <2>1, <2>2, <2>3, <2>4 DEF Replaying
  <1>6. QED BY <1>2, <1>3, <1>4, <1>5 DEF NInv

-----------------------------------------------------------------------------
(***************************************************************************)
(* The steps of save(), in either mode.                                    *)
(***************************************************************************)
Waits(c) == Busy(c) /\ UNCHANGED <<vars, sequence, restarts, shipments>>

LEMMA WaitsFacts ==
  ASSUME NInv, NEW c \in Calls, Waits(c)
  PROVE  /\ Inv' /\ Grows /\ sequence' \in Nat
         /\ UNCHANGED <<phase, endAttempted, call, shippedFile, envelopes>>
         /\ Ended' = Ended
         /\ task[c] \in TaskType /\ task[c].content \in Contents /\ TaskFacts(c)
         /\ Driving \/ (Replaying /\ ShipFacts(c))
         /\ Driving => phase # "clean" /\ ~Shipping(task[c])
  <1>1. Inv' BY StutterInv DEF NInv, Waits
  <1>2. /\ Grows /\ sequence' \in Nat /\ Ended' = Ended
        /\ UNCHANGED <<phase, endAttempted, call, shippedFile, envelopes>>
    BY DEF NInv, NativeTypeOK, Waits, Grows, Ended, vars, entryVars, hubVars
  <1>3. task[c] \in TaskType /\ task[c].content \in Contents /\ TaskFacts(c)
    BY DEF NInv, NativeTypeOK, TaskInv, TaskFacts, Waits
  <1>4. Driving \/ (Replaying /\ ShipFacts(c))
    BY DEF NInv, Replaying, Waits
  <1>5. Driving => phase # "clean" /\ ~Shipping(task[c])
    BY DEF Driving, Waits
  <1>6. QED BY <1>1, <1>2, <1>3, <1>4, <1>5

LEMMA LoadInv ==
  ASSUME NInv, NEW c \in Calls, Load(c)
  PROVE  NInv'
  <1> DEFINE t == [task[c] EXCEPT !.at = "write", !.revision = disk.revision]
  <1>1. Waits(c) /\ UNCHANGED <<disk, durable, restored>>
    BY DEF Load, Waits, Busy, Pending, Saving
  <1> USE <1>1, WaitsFacts
  <1>2. /\ t \in TaskType /\ t.at = "write" /\ t.next = task[c].next
        /\ t.saving = task[c].saving /\ t.content = task[c].content
        /\ t.turn = task[c].turn
    BY DEF TaskType, Places, Pending, Saving, NInv, NativeTypeOK
  <1>3. Set(c, t)
    BY DEF Load, Set, NInv, NativeTypeOK
  <1> HIDE DEF t
  <1>4. task'[c] = t
    BY <1>2, <1>3, SetShape DEF NInv
  <1>5. TrueOf(disk'.snapshot, envelopes', Ended')
        /\ TrueOf(durable', envelopes', Ended')
    BY DEF NInv, SnapshotInv
  <1>6. Fits(t)
    BY <1>2 DEF Load, Fits, NInv, SnapshotInv, IsSaving, Saving
  <1>7. disk' \in [snapshot : Snapshot, revision : Nat] /\ durable' \in Snapshot
    BY DEF NInv, NativeTypeOK
  <1>8. CASE Driving
    <2>1. TaskFacts(c)'
      BY <1>2, <1>4 DEF Load, TaskFacts, IsSaving, Saving
    <2>2. ~Shipping(t)
      BY <1>2, <1>8 DEF Load, Shipping, IsSaving, Saving
    <2>3. restored' = FALSE /\ phase' # "clean" /\ UNCHANGED <<restarts, shipments>>
      BY <1>8 DEF Driving, NInv, NativeTypeOK, Waits
    <2>4. QED
      BY <1>2, <1>3, <1>5, <1>6, <1>7, <1>8, <2>1, <2>2, <2>3, DrivingStep
  <1>9. CASE Replaying /\ ShipFacts(c)
    <2>1. disk.snapshot.receipt = durable.receipt
      BY <1>9 DEF Replaying
    <2>2. ShipFits(t)
      BY <1>2, <1>9 DEF Load, ShipFacts, ShipFits, Shipping, IsSaving, Saving
    <2>3. StaysReplaying
      BY <1>5, <1>7, <1>9, <2>1 DEF StaysReplaying, Waits
    <2>4. t.content \in Contents
      BY <1>2
    <2>5. QED BY <1>2, <1>3, <1>6, <2>2, <2>3, <2>4, ReplayingStep
  <1>10. QED BY <1>8, <1>9

LEMMA WriteInv ==
  ASSUME NInv, NEW c \in Calls, Write(c)
  PROVE  NInv'
  <1> DEFINE t == [task[c] EXCEPT !.at = "read"]
  <1>1. Waits(c) /\ UNCHANGED <<durable, restored>>
    BY DEF Write, Waits, Busy, Pending, Saving
  <1> USE <1>1, WaitsFacts
  <1>2. /\ t \in TaskType /\ t.at = "read" /\ t.next = task[c].next
        /\ t.saving = task[c].saving /\ t.content = task[c].content
        /\ t.turn = task[c].turn
    BY DEF TaskType, Places, Pending, Saving
  <1>3. Set(c, t)
    BY DEF Write, Set, NInv, NativeTypeOK
  <1> HIDE DEF t
  <1>4. task'[c] = t
    BY <1>2, <1>3, SetShape DEF NInv
  <1>5. /\ disk' \in [snapshot : Snapshot, revision : Nat]
        /\ disk'.snapshot = task[c].saving
    BY DEF Write, TaskType
  <1>6. TrueOf(task[c].saving, envelopes', Ended')
        /\ TrueOf(durable', envelopes', Ended')
    BY DEF Write, NInv, SnapshotInv, IsSaving, Saving
  <1>7. Fits(t)
    BY <1>2, <1>6 DEF Fits
  <1>8. durable' \in Snapshot
    BY DEF NInv, NativeTypeOK
  <1>9. CASE Driving
    <2>1. TaskFacts(c)'
      BY <1>2, <1>4 DEF Write, TaskFacts, IsSaving, Saving
    <2>2. ~Shipping(t)
      BY <1>2, <1>9 DEF Write, Shipping, IsSaving, Saving
    <2>3. restored' = FALSE /\ phase' # "clean" /\ UNCHANGED <<restarts, shipments>>
      BY <1>9 DEF Driving, NInv, NativeTypeOK, Waits
    <2>4. QED
      BY <1>2, <1>3, <1>5, <1>6, <1>7, <1>8, <1>9, <2>1, <2>2, <2>3, DrivingStep
  <1>10. CASE Replaying /\ ShipFacts(c)
    <2>1. disk'.snapshot.phase = "shipped" /\ disk'.snapshot.receipt = durable.receipt
      BY <1>5, <1>10 DEF Write, ShipFacts
    <2>2. ShipFits(t)
      BY <1>2, <1>10, <2>1 DEF Write, ShipFacts, ShipFits, Shipping, IsSaving, Saving
    <2>3. StaysReplaying
      BY <1>5, <1>6, <1>8, <1>10, <2>1 DEF StaysReplaying, Waits
    <2>4. t.content \in Contents
      BY <1>2
    <2>5. QED
      BY <1>2, <1>3, <1>7, <2>2, <2>3, <2>4, ReplayingStep
  <1>11. QED BY <1>9, <1>10

LEMMA ReadInv ==
  ASSUME NInv, NEW c \in Calls, Read(c)
  PROVE  NInv'
  <1> DEFINE t == [task[c] EXCEPT !.at = "assign", !.saving = disk.snapshot]
  <1>1. Waits(c) /\ UNCHANGED <<disk, durable, restored>>
    BY DEF Read, Waits, Busy, Pending, Saving
  <1> USE <1>1, WaitsFacts
  <1>2. /\ t \in TaskType /\ t.at = "assign" /\ t.next = task[c].next
        /\ t.saving = disk.snapshot /\ t.content = task[c].content
        /\ t.turn = task[c].turn
    BY DEF TaskType, Places, Pending, Saving, NInv, NativeTypeOK
  <1>3. Set(c, t)
    BY DEF Read, Set, NInv, NativeTypeOK
  <1> HIDE DEF t
  <1>4. task'[c] = t
    BY <1>2, <1>3, SetShape DEF NInv
  <1>5. TrueOf(disk'.snapshot, envelopes', Ended')
        /\ TrueOf(durable', envelopes', Ended')
    BY DEF NInv, SnapshotInv
  <1>6. Fits(t)
    BY <1>2, <1>5 DEF Fits
  <1>7. disk' \in [snapshot : Snapshot, revision : Nat] /\ durable' \in Snapshot
    BY DEF NInv, NativeTypeOK
  <1>8. CASE Driving
    <2>1. TaskFacts(c)'
      BY <1>2, <1>4 DEF Read, TaskFacts, IsSaving, Saving
    <2>2. ~Shipping(t)
      BY <1>2, <1>8 DEF Read, Shipping, IsSaving, Saving
    <2>3. restored' = FALSE /\ phase' # "clean" /\ UNCHANGED <<restarts, shipments>>
      BY <1>8 DEF Driving, NInv, NativeTypeOK, Waits
    <2>4. QED
      BY <1>2, <1>3, <1>5, <1>6, <1>7, <1>8, <2>1, <2>2, <2>3, DrivingStep
  <1>9. CASE Replaying /\ ShipFacts(c)
    <2>1. disk.snapshot.phase = "shipped" /\ disk.snapshot.receipt = durable.receipt
      BY <1>9 DEF Read, ShipFacts, Replaying
    <2>2. ShipFits(t)
      BY <1>2, <1>9, <2>1 DEF Read, ShipFacts, ShipFits, Shipping, IsSaving, Saving
    <2>3. StaysReplaying
      BY <1>5, <1>7, <1>9, <2>1 DEF StaysReplaying, Waits
    <2>4. t.content \in Contents
      BY <1>2
    <2>5. QED BY <1>2, <1>3, <1>6, <2>2, <2>3, <2>4, ReplayingStep
  <1>10. QED BY <1>8, <1>9

LEMMA SaveFailsInv ==
  ASSUME NInv, NEW c \in Calls, SaveFails(c)
  PROVE  NInv'
  <1>1. Waits(c) /\ Still
    BY DEF SaveFails, Waits, Still, Busy, Pending, Saving
  <1>2. task[c] \in TaskType
    BY DEF NInv, NativeTypeOK
  <1>3. CASE Reject(c, task[c])
    BY <1>1, <1>2, <1>3, OverShape, Finishes DEF Reject
  <1>4. CASE task[c].next = "resolve" /\ Set(c, Saved(task[c], MachineSnapshot, "reject"))
    <2>1. Driving
      BY <1>1, <1>4, WaitsFacts DEF SaveFails, ShipFacts, Shipping
    <2>2. /\ Inv' /\ Grows /\ sequence' \in Nat /\ phase' # "clean"
          /\ \A d \in Calls : d # c => call'[d] = call[d]
          /\ task[c].content \in Contents
      BY <1>1, <2>1, WaitsFacts
    <2>3. MachineSnapshot' = MachineSnapshot
      BY <1>1 DEF Still, vars, entryVars, MachineSnapshot
    <2>4. UNCHANGED <<disk, durable, restored, restarts, shipments>>
      BY <1>1 DEF Still
    <2>5. QED
      BY <1>2, <1>4, <2>1, <2>2, <2>3, <2>4, KeptCheckpoint, SavingStep
  <1>5. QED BY <1>3, <1>4 DEF SaveFails

LEMMA ReturnInv ==
  ASSUME NInv, NEW c \in Calls, Return(c)
  PROVE  NInv'
  <1> DEFINE t == IF task[c].next = "resolve"
                    THEN Over(task[c], "resolved", call[c].shipped)
                    ELSE Over(task[c], "rejected", FALSE)
  <1>1. /\ Waits(c) /\ task[c].at = "assign" /\ task[c].next \in {"resolve", "reject"}
        /\ Set(c, t) /\ durable' = task[c].saving /\ UNCHANGED <<disk, restored>>
    BY DEF Return, Assigns, Waits, Busy, Pending, Saving, Resolve, Reject
  <1>2. /\ Inv' /\ Grows /\ sequence' \in Nat /\ UNCHANGED <<envelopes, shippedFile, call>>
        /\ task[c] \in TaskType /\ TaskFacts(c) /\ Ended' = Ended
    BY <1>1, WaitsFacts
  <1>3. Driving /\ phase' # "clean"
    BY <1>1, WaitsFacts DEF ShipFacts, Shipping
  <1>4. task[c].next = "resolve" =>
          AnswerTrue(Over(task[c], "resolved", call[c].shipped), envelopes', Ended')
    <2> SUFFICES ASSUME task[c].next = "resolve"
                 PROVE  AnswerTrue(Over(task[c], "resolved", call[c].shipped),
                                   envelopes', Ended')
      OBVIOUS
    <2>1. call[c].pc = "resolved" /\ call[c].content = task[c].content
      BY <1>1, <1>2 DEF TaskFacts, IsSaving, Saving
    <2>2. /\ \E e \in envelopes : e.content = task[c].content
          /\ call[c].shipped => /\ shippedFile # Nothing
                                /\ shippedFile.content = task[c].content
      BY <2>1 DEF NInv, Inv, EvidenceIsTrue
    <2>3. call[c].shipped => \E e \in Ended : e.content = task[c].content
      BY <2>2 DEF Ended
    <2>4. call[c].shipped \in BOOLEAN
      BY DEF NInv, Inv, TypeOK, CallType
    <2>5. QED BY <1>2, <2>2, <2>3, <2>4, OverTrue
  <1>5. /\ t \in TaskType /\ t.at \in {"resolved", "rejected"}
        /\ t.at = "resolved" => AnswerTrue(t, envelopes', Ended')
    <2>1. call[c].shipped \in BOOLEAN
      BY DEF NInv, Inv, TypeOK, CallType
    <2>2. CASE task[c].next = "resolve"
      BY <1>2, <1>4, <2>1, <2>2, OverShape
    <2>3. CASE task[c].next = "reject"
      BY <1>2, <2>3, OverShape
    <2>4. QED BY <1>1, <2>2, <2>3
  <1> HIDE DEF t
  <1>6. Fits(t) /\ ~Shipping(t)
    BY <1>5 DEF Fits, Shipping, IsSaving, Saving
  <1>7. task'[c] = t
    BY <1>1, <1>5, SetShape DEF NInv
  <1>8. TaskFacts(c)'
    BY <1>5, <1>7 DEF TaskFacts, Busy, IsSaving, Saving, Pending
  <1>9. /\ disk' \in [snapshot : Snapshot, revision : Nat] /\ durable' \in Snapshot
        /\ TrueOf(disk'.snapshot, envelopes', Ended')
        /\ TrueOf(durable', envelopes', Ended')
        /\ restored' = FALSE /\ UNCHANGED <<restarts, shipments>>
    <2>1. task[c].saving \in Snapshot /\ TrueOf(task[c].saving, envelopes, Ended)
      BY <1>1, <1>2 DEF TaskType, NInv, SnapshotInv, IsSaving, Saving
    <2>2. restored' = FALSE
      BY <1>1, <1>3 DEF Driving, NInv, NativeTypeOK
    <2>3. QED
      BY <1>1, <1>2, <2>1, <2>2 DEF NInv, NativeTypeOK, SnapshotInv, Waits
  <1>10. QED
    BY <1>1, <1>2, <1>3, <1>5, <1>6, <1>8, <1>9, DrivingStep

-----------------------------------------------------------------------------
(***************************************************************************)
(* The machine takes the call, or an operation of it goes on.              *)
(***************************************************************************)
LEMMA PublishInv ==
  ASSUME NInv, NEW c \in Calls, Publish(c)
  PROVE  NInv'
  <1> DEFINE u == task[c]
             m == task[c].turn
             x == task[c].content
             h == task[c].handoff
             asked == [Asked(x, FALSE) EXCEPT !.at = "publishing"]
  <1>1. /\ Busy(c) /\ u.at = "assign" /\ u.next = "publish" /\ durable' = u.saving
        /\ UNCHANGED <<disk, restored, sequence, restarts, shipments>>
    BY DEF Publish, Assigns, Busy, Pending, Saving
  <1>2. u \in TaskType /\ m \in Turns /\ x \in Contents /\ h \in BOOLEAN
        /\ u.saving \in Snapshot /\ TrueOf(u.saving, envelopes, Ended)
    BY <1>1 DEF NInv, NativeTypeOK, TaskInv, TaskFacts, SnapshotInv, IsSaving,
                Saving, TaskType
  <1>3. Driving /\ phase # "clean"
    BY <1>1 DEF NInv, Replaying, Driving, ShipFacts, Shipping
  <1>4. \/ PublishConflict(c, m, x, h) /\ Set(c, Saved(u, MachineSnapshot', "reject"))
        \/ PublishReplay(c, m, x) /\ Set(c, Saved(u, MachineSnapshot', "resolve"))
        \/ /\ PublishJoin(c, m, x, h) \/ PublishStart(c, m, x, h)
                \/ PublishHandoff(c, m, x)
           /\ Set(c, asked)
    BY DEF Publish
  <1> HIDE DEF m, x, h, asked
  <1>5. Inv'
    BY <1>2, <1>4, RequestInv DEF NInv, Request
  <1>6. /\ UNCHANGED hubVars /\ phase' # "clean"
        /\ \A d \in Calls : d # c => call'[d] = call[d]
    BY <1>3, <1>4 DEF PublishConflict, PublishReplay, PublishJoin, PublishStart,
                      PublishHandoff, Answer, entryVars, NInv, Inv, TypeOK
  <1>7. Grows
    BY <1>1, <1>6 DEF Grows, Ended, hubVars
  <1>8. /\ disk' \in [snapshot : Snapshot, revision : Nat] /\ durable' \in Snapshot
        /\ TrueOf(disk'.snapshot, envelopes', Ended')
        /\ TrueOf(durable', envelopes', Ended')
        /\ restored' = FALSE /\ sequence' \in Nat
        /\ UNCHANGED <<restarts, shipments>>
    <2>1. TrueOf(disk.snapshot, envelopes, Ended)
      BY DEF NInv, SnapshotInv
    <2>2. Ended' = Ended /\ envelopes' = envelopes
      BY <1>1, <1>6 DEF Ended, hubVars
    <2>3. QED
      BY <1>1, <1>2, <1>3, <2>1, <2>2 DEF NInv, NativeTypeOK, Driving
  <1>9. MachineSnapshot' \in Snapshot /\ TrueOf(MachineSnapshot', envelopes', Ended')
    BY <1>5, MachineSnapshotShape
  <1>10. u.content \in Contents
    BY <1>2 DEF x
  <1>11. CASE PublishConflict(c, m, x, h) /\ Set(c, Saved(u, MachineSnapshot', "reject"))
    BY <1>2, <1>3, <1>5, <1>6, <1>7, <1>8, <1>9, <1>10, <1>11, SavingStep
  <1>12. CASE PublishReplay(c, m, x) /\ Set(c, Saved(u, MachineSnapshot', "resolve"))
    <2>1. call'[c].pc = "resolved" /\ call'[c].content = u.content
      BY <1>12 DEF PublishReplay, Answer, NInv, Inv, TypeOK, x
    <2>2. QED
      BY <1>2, <1>3, <1>5, <1>6, <1>7, <1>8, <1>9, <1>10, <1>12, <2>1, SavingStep
  <1>13. CASE /\ PublishJoin(c, m, x, h) \/ PublishStart(c, m, x, h)
                   \/ PublishHandoff(c, m, x)
              /\ Set(c, asked)
    <2>1. call'[c].pc = "waiting" /\ call'[c].content = x
      BY <1>13 DEF PublishJoin, PublishStart, PublishHandoff, Answer, NInv, Inv, TypeOK
    <2>2. asked \in TaskType /\ asked.at = "publishing" /\ asked.content = x
      <3>1. "publishing" \in Pending \ Saving /\ FALSE \in BOOLEAN
        BY DEF Pending, Saving
      <3>2. asked \in TaskType BY <1>2, <3>1, AskedShape DEF asked
      <3>3. asked.at = "publishing" BY <1>2, <3>1, AskedShape DEF asked
      <3>4. asked.content = x BY <1>2, <3>1, AskedShape DEF asked
      <3>5. QED BY <3>2, <3>3, <3>4
    <2>3. task'[c] = asked
      BY <1>13, <2>2, SetShape DEF NInv
    <2>4. TaskFacts(c)'
      BY <1>2, <2>1, <2>2, <2>3 DEF TaskFacts, IsSaving, Saving
    <2>5. Fits(asked) /\ ~Shipping(asked)
      BY <2>2 DEF Fits, Shipping, IsSaving, Saving
    <2>6. QED
      BY <1>3, <1>5, <1>6, <1>7, <1>8, <1>13, <2>2, <2>4, <2>5, DrivingStep
  <1>14. QED BY <1>4, <1>11, <1>12, <1>13

(* What a step of the pending operation tells its callers. *)
LEMMA OperationTells ==
  ASSUME Inv, OperationStep
  PROVE  /\ phase # "clean" /\ phase' # "clean"
         /\ \A c \in Calls :
              /\ call[c].pc # "waiting" => call'[c] = call[c]
              /\ call'[c].content = call[c].content
              /\ call'[c].pc \in {call[c].pc, "resolved", "rejected"}
  <1> USE DEF Inv
  <1>0. operation.stage # "none" /\ phase # "clean"
    BY DEF OperationStep, PostAnswered, PostFails, StatusOpen, StatusNull,
           StatusFails, EndAnswered, EndFails, OperationNoted, EntryInv,
           OperationPending
  <1>1. phase' # "clean"
    BY <1>0 DEF OperationStep, PostAnswered, PostFails, StatusOpen, StatusNull,
           StatusFails, EndAnswered, EndFails, OperationNoted, HandoffFails,
           HandoffReturns, IssueEnd, entryVars
  <1>2. \/ UNCHANGED call
        \/ Settle("resolved", FALSE) \/ Settle("resolved", TRUE)
        \/ Settle("rejected", FALSE)
    BY Zenon DEF OperationStep, PostAnswered, PostFails, StatusOpen, StatusNull,
           StatusFails, EndAnswered, EndFails, OperationNoted, HandoffFails,
           HandoffReturns, IssueEnd
  <1>3. CASE UNCHANGED call
    BY <1>0, <1>1, <1>3
  <1>4. CASE Settle("resolved", FALSE)
    BY <1>0, <1>1, <1>4, SettleShape
  <1>5. CASE Settle("resolved", TRUE)
    BY <1>0, <1>1, <1>5, SettleShape
  <1>6. CASE Settle("rejected", FALSE)
    BY <1>0, <1>1, <1>6, SettleShape
  <1>7. QED BY <1>2, <1>3, <1>4, <1>5, <1>6

LEMMA OperateInv ==
  ASSUME NInv, Operate
  PROVE  NInv'
  <1> DEFINE next(c) == IF call'[c].pc = "resolved" THEN "resolve" ELSE "reject"
  <1>1. /\ Inv /\ Inv' /\ OperationStep
        /\ UNCHANGED <<disk, durable, restored, sequence, restarts, shipments>>
    BY OperationStepInv DEF NInv, Operate
  <1>2. /\ phase # "clean" /\ phase' # "clean"
        /\ \A c \in Calls :
              /\ call[c].pc # "waiting" => call'[c] = call[c]
              /\ call'[c].content = call[c].content
              /\ call'[c].pc \in {call[c].pc, "resolved", "rejected"}
    BY <1>1, OperationTells
  <1>3. Driving
    BY <1>2 DEF NInv, Replaying
  <1>4. Grows
    <2>1. /\ envelopes \subseteq envelopes'
          /\ shippedFile' = shippedFile \/ shippedFile = Nothing
      BY <1>1, HubStep DEF Next
    <2>2. QED BY <1>1, <2>1 DEF Grows, Ended
  <1>5. MachineSnapshot' \in Snapshot /\ TrueOf(MachineSnapshot', envelopes', Ended')
    BY <1>1, MachineSnapshotShape
  <1>6. ASSUME NEW c \in Calls, Settled(c)
        PROVE  /\ task'[c] \in TaskType /\ task'[c].at = "load"
               /\ task'[c].next = next(c) /\ task'[c].saving = MachineSnapshot'
               /\ task'[c].content = task[c].content
    <2>1. task'[c] = Saved(task[c], MachineSnapshot', next(c))
      BY <1>6 DEF Operate
    <2>2. NativeTypeOK /\ task[c] \in TaskType /\ next(c) \in Nexts
      BY DEF NInv, NativeTypeOK, Nexts
    <2> HIDE DEF next
    <2>3. task'[c] \in TaskType BY <1>5, <2>1, <2>2, SavedShape
    <2>4. task'[c].at = "load" BY <1>5, <2>1, <2>2, SavedShape
    <2>5. task'[c].next = next(c) BY <1>5, <2>1, <2>2, SavedShape
    <2>6. task'[c].saving = MachineSnapshot' BY <1>5, <2>1, <2>2, SavedShape
    <2>7. task'[c].content = task[c].content BY <1>5, <2>1, <2>2, SavedShape
    <2>8. QED BY <2>3, <2>4, <2>5, <2>6, <2>7
  <1>7. ASSUME NEW c \in Calls, ~Settled(c)
        PROVE  task'[c] = task[c]
    BY <1>7 DEF Operate
  <1>8. SnapshotInv'
    <2>1. TrueOf(disk'.snapshot, envelopes', Ended') /\ TrueOf(durable', envelopes', Ended')
      BY <1>1, <1>3, <1>4, KeptCheckpoint
    <2>2. ASSUME NEW c \in Calls, IsSaving(task'[c])
          PROVE  TrueOf(task'[c].saving, envelopes', Ended')
      <3>1. CASE Settled(c)
        BY <1>5, <1>6, <3>1
      <3>2. CASE ~Settled(c)
        <4>1. TrueOf(task[c].saving, envelopes, Ended) /\ task'[c] = task[c]
          BY <1>7, <2>2, <3>2 DEF NInv, SnapshotInv
        <4>2. QED BY <1>4, <4>1, TrueOfGrows DEF Grows
      <3>3. QED BY <3>1, <3>2
    <2>3. QED BY <2>1, <2>2 DEF SnapshotInv, IsSaving
  <1>9. AnswersAreTrue'
    <2>1. ASSUME NEW c \in Calls, task'[c].at = "resolved"
          PROVE  AnswerTrue(task'[c], envelopes', Ended')
      <3>1. task'[c] = task[c]
        BY <1>6, <1>7, <2>1
      <3>2. AnswerTrue(task[c], envelopes, Ended)
        BY <2>1, <3>1 DEF NInv, AnswersAreTrue, AnswerTrue
      <3>3. QED BY <1>4, <3>1, <3>2, AnswerGrows DEF Grows
    <2>2. QED BY <2>1 DEF AnswersAreTrue, AnswerTrue
  <1>10. TaskInv'
    <2>1. ASSUME NEW c \in Calls PROVE TaskFacts(c)'
      <3>1. TaskFacts(c) BY DEF NInv, TaskInv
      <3>2. CASE Settled(c)
        BY <1>2, <1>6, <3>1, <3>2 DEF TaskFacts, Settled, Busy, IsSaving, Pending
      <3>3. CASE ~Settled(c)
        BY <1>2, <1>7, <3>1, <3>3 DEF TaskFacts, Settled, Busy, IsSaving
      <3>4. QED BY <3>2, <3>3
    <2>2. QED BY <2>1 DEF TaskInv
  <1>11. NativeTypeOK'
    <2>1. \A c \in Calls : task'[c] \in TaskType
      BY <1>6, <1>7 DEF NInv, NativeTypeOK
    <2>2. task' \in [Calls -> TaskType]
      BY <2>1 DEF Operate
    <2>3. QED BY <1>1, <2>2 DEF NInv, NativeTypeOK, Inv
  <1>12. Driving'
    BY <1>1, <1>2, <1>3, <1>6, <1>7 DEF Driving, Shipping
  <1>13. QED BY <1>1, <1>8, <1>9, <1>10, <1>11, <1>12 DEF NInv

-----------------------------------------------------------------------------
(***************************************************************************)
(* The handoff of a restored receipt.                                      *)
(***************************************************************************)
LEMMA EndSessionInv ==
  ASSUME Inv, phase = "clean", endAttempted = FALSE,
         durable.receipt # Nothing, durable.receipt \in envelopes, EndSession
  PROVE  /\ Inv' /\ envelopes' = envelopes /\ shippedFile' = durable.receipt
         /\ UNCHANGED <<phase, endAttempted, call>>
  <1> USE DEF Inv, EndSession, entryVars, history
  <1>1. receipt = Nothing /\ operation.stage = "none"
    BY DEF EntryInv, OperationPending
  <1>2. TypeOK' BY DEF TypeOK
  <1>3. EntryInv' /\ OperationInv' /\ ReminderInv' /\ CallInv'
    BY <1>1 DEF EntryInv, OperationInv, ReminderInv, CallInv, OperationPending
  <1>4. EvidenceIsTrue' BY DEF EvidenceIsTrue
  <1>5. QED BY <1>2, <1>3, <1>4

(* A process that is in the handoff of its restored receipt. *)
LEMMA HandingOff ==
  ASSUME NInv, NEW c \in Calls, Busy(c), Shipping(task[c])
  PROVE  /\ Replaying /\ ShipFacts(c)
         /\ durable \in Snapshot /\ durable.receipt # Nothing
         /\ durable.receipt \in envelopes
         /\ disk \in [snapshot : Snapshot, revision : Nat]
         /\ disk.snapshot.receipt = durable.receipt
         /\ TrueOf(disk.snapshot, envelopes, Ended)
         /\ task[c] \in TaskType /\ task[c].content \in Contents
         /\ task[c].content = durable.receipt.content
  <1>1. Replaying /\ ShipFacts(c)
    BY DEF NInv, Driving, Replaying
  <1>2. QED
    BY <1>1 DEF NInv, NativeTypeOK, SnapshotInv, TrueOf, TaskInv, TaskFacts,
                Replaying, ShipFacts

(* Both ways to learn that the session is ended with the receipt. *)
LEMMA ShipInv ==
  ASSUME NInv, Inv', Grows, NEW c \in Calls, Busy(c), Shipping(task[c]), Ship(c),
         UNCHANGED <<phase, endAttempted, call, disk, restored, sequence,
                     restarts, shipments>>,
         shippedFile' = durable.receipt
  PROVE  NInv'
  <1> DEFINE t == Saved(task[c], durable', "ship")
  <1>1. /\ Replaying /\ durable \in Snapshot /\ durable.receipt # Nothing
        /\ durable.receipt \in envelopes /\ disk.snapshot.receipt = durable.receipt
        /\ disk \in [snapshot : Snapshot, revision : Nat]
        /\ TrueOf(disk.snapshot, envelopes, Ended)
        /\ task[c] \in TaskType /\ task[c].content \in Contents
        /\ task[c].content = durable.receipt.content
    BY HandingOff
  <1>2. /\ durable' \in Snapshot /\ durable'.phase = "shipped"
        /\ durable'.receipt = durable.receipt
    BY <1>1 DEF Ship, Snapshot, Phases
  <1>3. TrueOf(durable', envelopes', Ended') /\ TrueOf(disk'.snapshot, envelopes', Ended')
    <2>1. durable.receipt \in Ended' BY <1>1 DEF Ended
    <2>2. TrueOf(durable', envelopes', Ended')
      BY <1>1, <1>2, <2>1 DEF TrueOf, Grows
    <2>3. TrueOf(disk.snapshot, envelopes', Ended')
      BY <1>1, TrueOfGrows DEF Grows
    <2>4. QED BY <2>2, <2>3
  <1>4. NativeTypeOK /\ "ship" \in Nexts
    BY DEF NInv, Nexts
  <1>5. t \in TaskType BY <1>1, <1>2, <1>4, SavedShape
  <1>6. t.at = "load" /\ t.next = "ship" BY <1>1, <1>2, <1>4, SavedShape
  <1>7. t.saving = durable' BY <1>1, <1>2, <1>4, SavedShape
  <1>8. t.content = task[c].content BY <1>1, <1>2, <1>4, SavedShape
  <1>9. Set(c, t) BY DEF Ship
  <1> HIDE DEF t
  <1>10. Fits(t)
    BY <1>3, <1>6, <1>7 DEF Fits
  <1>11. ShipFits(t)
    BY <1>1, <1>2, <1>6, <1>7, <1>8 DEF ShipFits, Shipping, IsSaving, Saving
  <1>12. StaysReplaying
    BY <1>1, <1>2, <1>3 DEF StaysReplaying
  <1>13. QED
    BY <1>1, <1>5, <1>8, <1>9, <1>10, <1>11, <1>12, ReplayingStep

LEMMA StatusKnownInv ==
  ASSUME NInv, NEW c \in Calls, StatusKnown(c)
  PROVE  NInv'
  <1>1. Waits(c) /\ Shipping(task[c]) /\ Busy(c) /\ task[c].at = "status"
        /\ UNCHANGED <<disk, restored>>
    BY DEF StatusKnown, Waits, Busy, Pending, Shipping
  <1>2. /\ Inv' /\ Grows /\ Ended' = Ended
        /\ UNCHANGED <<phase, endAttempted, call, shippedFile, envelopes>>
    BY <1>1, WaitsFacts
  <1>3. Replaying /\ ShipFacts(c) /\ task[c] \in TaskType /\ task[c].content \in Contents
    BY <1>1, HandingOff
  <1>4. CASE shippedFile # Nothing /\ Ship(c)
    <2>1. shippedFile' = durable.receipt
      BY <1>2, <1>3, <1>4 DEF ShipFacts
    <2>2. QED BY <1>1, <1>2, <1>4, <2>1, ShipInv DEF Waits
  <1>5. CASE /\ shippedFile = Nothing /\ Set(c, [task[c] EXCEPT !.at = "end"])
             /\ UNCHANGED durable
    <2> DEFINE t == [task[c] EXCEPT !.at = "end"]
    <2>1. t \in TaskType /\ t.at = "end" /\ t.content = task[c].content
      BY <1>3 DEF TaskType, Places, Pending, Saving
    <2>2. Set(c, t) BY <1>5
    <2> HIDE DEF t
    <2>3. Fits(t) BY <2>1 DEF Fits, IsSaving, Saving
    <2>4. ShipFits(t)
      BY <1>2, <1>3, <2>1 DEF ShipFits, ShipFacts, Shipping
    <2>5. StaysReplaying
      BY <1>1, <1>2, <1>3, <1>5
         DEF StaysReplaying, Waits, NInv, NativeTypeOK, SnapshotInv, Replaying
    <2>6. QED BY <1>3, <2>1, <2>2, <2>3, <2>4, <2>5, ReplayingStep
  <1>6. QED BY <1>4, <1>5 DEF StatusKnown

LEMMA EndKnownInv ==
  ASSUME NInv, NEW c \in Calls, EndKnown(c)
  PROVE  NInv'
  <1>1. Shipping(task[c]) /\ Busy(c)
    BY DEF EndKnown, Busy, Pending, Shipping
  <1>2. /\ Inv' /\ envelopes' = envelopes /\ shippedFile' = durable.receipt
        /\ UNCHANGED <<phase, endAttempted, call>>
    BY <1>1, HandingOff, EndSessionInv DEF EndKnown, NInv, Replaying
  <1>3. Grows
    BY <1>2 DEF EndKnown, EndSession, Grows, Ended
  <1>4. QED BY <1>1, <1>2, <1>3, ShipInv DEF EndKnown

LEMMA HubFailsInv ==
  ASSUME NInv, NEW c \in Calls, HubFails(c)
  PROVE  NInv'
  <1>1. /\ Shipping(task[c]) /\ Busy(c) /\ Reject(c, task[c])
        /\ UNCHANGED <<disk, durable, restored, sequence, restarts, shipments>>
    BY DEF HubFails, Busy, Pending, Shipping
  <1>2. /\ Replaying /\ task[c] \in TaskType /\ durable.receipt # Nothing
        /\ durable.receipt \in envelopes
    BY <1>1, HandingOff
  <1>3. CASE UNCHANGED vars
    BY <1>1, <1>2, <1>3, OverShape, Finishes DEF Still, Reject
  <1>4. CASE EndSession
    <2> DEFINE t == Over(task[c], "rejected", FALSE)
    <2>1. /\ Inv' /\ envelopes' = envelopes /\ shippedFile' = durable.receipt
          /\ UNCHANGED <<phase, endAttempted, call>>
      BY <1>2, <1>4, EndSessionInv DEF NInv, Replaying
    <2>2. Grows
      BY <1>1, <1>4, <2>1 DEF EndSession, Grows, Ended
    <2>3. t \in TaskType /\ t.at = "rejected" /\ Set(c, t)
      BY <1>1, <1>2, OverShape DEF Reject
    <2> HIDE DEF t
    <2>4. Fits(t) /\ ShipFits(t) /\ t.at \notin Pending
      BY <2>3 DEF Fits, ShipFits, IsSaving, Saving, Pending
    <2>5. TrueOf(disk'.snapshot, envelopes', Ended')
          /\ TrueOf(durable', envelopes', Ended')
      BY <1>1, <2>2, TrueOfGrows DEF NInv, SnapshotInv, Grows
    <2>6. StaysReplaying
      BY <1>1, <1>2, <2>1, <2>2, <2>5
         DEF StaysReplaying, NInv, NativeTypeOK, Replaying
    <2>7. QED BY <2>3, <2>4, <2>6, ReplayingStep
  <1>5. QED BY <1>3, <1>4 DEF HubFails

LEMMA ShippedInv ==
  ASSUME NInv, NEW c \in Calls, Shipped(c)
  PROVE  NInv'
  <1> DEFINE t == Over(task[c], "resolved", task[c].saving.phase = "shipped")
  <1>1. /\ Waits(c) /\ Shipping(task[c]) /\ Busy(c) /\ task[c].at = "assign"
        /\ durable' = task[c].saving /\ restored' = FALSE /\ Set(c, t)
        /\ disk' = disk
    BY DEF Shipped, Assigns, Waits, Shipping, IsSaving, Busy, Pending, Saving, Resolve
  <1>2. /\ Inv' /\ Grows /\ Ended' = Ended
        /\ UNCHANGED <<phase, endAttempted, call, shippedFile, envelopes>>
    BY <1>1, WaitsFacts
  <1>3. /\ Replaying /\ ShipFacts(c) /\ task[c] \in TaskType
        /\ task[c].content = durable.receipt.content
        /\ task[c].saving.phase = "shipped" /\ task[c].saving.receipt = durable.receipt
        /\ TrueOf(task[c].saving, envelopes, Ended) /\ task[c].saving \in Snapshot
    BY <1>1, HandingOff DEF ShipFacts, NInv, SnapshotInv, IsSaving, Saving, TaskType
  <1>4. AnswerTrue(t, envelopes', Ended')
    <2>1. \E e \in envelopes : e.content = task[c].content
      BY <1>1, HandingOff
    <2>2. \E e \in Ended : e.content = task[c].content
      BY <1>3 DEF TrueOf
    <2>3. QED BY <1>2, <1>3, <2>1, <2>2, OverTrue
  <1>5. t \in TaskType /\ t.at = "resolved"
    BY <1>3, OverShape
  <1> HIDE DEF t
  <1>6. Fits(t) /\ ShipFits(t) /\ t.at \notin Pending
    BY <1>4, <1>5 DEF Fits, ShipFits, IsSaving, Saving, Pending
  <1>7. StaysReplaying
    BY <1>1, <1>2, <1>3
       DEF StaysReplaying, Waits, NInv, NativeTypeOK, SnapshotInv, Replaying
  <1>8. QED BY <1>1, <1>5, <1>6, <1>7, ReplayingStep

-----------------------------------------------------------------------------
(***************************************************************************)
(* A restart, and the theorems.                                            *)
(***************************************************************************)
LEMMA ForgottenInv ==
  ASSUME Inv, MachineForgotten, UNCHANGED envelopes, shippedFile' \in {shippedFile, Nothing}
  PROVE  Inv'
  <1> USE DEF Inv, MachineForgotten
  <1>1. TypeOK'
    BY DEF TypeOK, NoOperation, NoReminder, OperationType, ReminderType, CallType, Phases
  <1>2. EntryInv' /\ OperationInv' /\ ReminderInv'
    BY DEF EntryInv, OperationInv, ReminderInv, NoOperation, NoReminder, OperationPending
  <1>3. CallInv' /\ EvidenceIsTrue'
    BY DEF CallInv, EvidenceIsTrue
  <1>4. QED BY <1>1, <1>2, <1>3

LEMMA RestartInv ==
  ASSUME NInv, Restart
  PROVE  NInv'
  <1>1. /\ MachineForgotten /\ envelopes' = envelopes
        /\ durable' = disk.snapshot /\ restored' = (disk.snapshot.receipt # Nothing)
        /\ restored' \in BOOLEAN /\ sequence' = disk.revision
        /\ restarts' = restarts + 1 /\ restarts < MaxRestarts
    BY DEF Restart, Restore
  <1>2. /\ disk \in [snapshot : Snapshot, revision : Nat]
        /\ TrueOf(disk.snapshot, envelopes, Ended)
    BY DEF NInv, NativeTypeOK, SnapshotInv
  <1>3. /\ disk' \in [snapshot : Snapshot, revision : Nat]
        /\ disk'.snapshot = disk.snapshot
        /\ shippedFile' \in {shippedFile, Nothing}
        /\ disk.snapshot.phase # "shipped" => shippedFile' = Nothing
        /\ Ended' = Ended /\ shipments' \subseteq Intent
    <2>1. /\ shippedFile \in Intent \cup {Nothing} /\ shipments \subseteq Intent
      BY DEF NInv, Inv, TypeOK, NativeTypeOK
    <2>2. CASE /\ disk.snapshot.phase = "shipped"
               /\ UNCHANGED <<disk, shippedFile, shipments>>
      BY <1>2, <2>1, <2>2 DEF Ended
    <2>3. CASE /\ disk.snapshot.phase # "shipped"
               /\ disk' = [disk EXCEPT !.revision = @ + 1] /\ shippedFile' = Nothing
               /\ shipments' = shipments \cup ({shippedFile} \ {Nothing})
      BY <1>2, <2>1, <2>3 DEF Ended
    <2>4. QED BY <2>2, <2>3 DEF Restart, Join
  <1>4. Inv'
    BY <1>1, <1>3, ForgottenInv DEF NInv
  <1>5. ASSUME NEW c \in Calls
        PROVE  /\ task'[c] \in TaskType /\ ~Busy(c)' /\ ~IsSaving(task'[c])
               /\ ~Shipping(task'[c])
               /\ task'[c].at = "resolved" => task'[c] = task[c]
    <2>1. task[c] \in TaskType BY DEF NInv, NativeTypeOK
    <2>2. CASE Busy(c)
      <3>1. task'[c] = Over(task[c], "lost", FALSE)
        BY <2>2 DEF Restart
      <3>2. Over(task[c], "lost", FALSE) \in TaskType
            /\ Over(task[c], "lost", FALSE).at = "lost"
        BY <2>1, OverShape
      <3>3. QED BY <3>1, <3>2 DEF Busy, IsSaving, Shipping, Pending, Saving
    <2>3. CASE ~Busy(c)
      <3>1. task'[c] = task[c]
        BY <2>3 DEF Restart
      <3>2. QED BY <2>1, <2>3, <3>1 DEF Busy, IsSaving, Shipping, Pending, Saving
    <2>4. QED BY <2>2, <2>3
  <1>6. NativeTypeOK'
    <2>1. task' \in [Calls -> TaskType]
      BY <1>5 DEF Restart
    <2>2. restarts' \in 0 .. MaxRestarts
      BY <1>1, RestartBound DEF NInv, NativeTypeOK
    <2>3. QED
      BY <1>1, <1>2, <1>3, <1>4, <2>1, <2>2 DEF NativeTypeOK, Inv
  <1>7. SnapshotInv' /\ TaskInv'
    BY <1>1, <1>2, <1>3, <1>5 DEF SnapshotInv, TaskInv, TaskFacts, Busy, Pending,
                                  IsSaving
  <1>8. AnswersAreTrue'
    BY <1>1, <1>3, <1>5 DEF NInv, AnswersAreTrue
  <1>9. Replaying' \/ Driving'
    <2>1. phase' = "clean" /\ endAttempted' = FALSE
      BY <1>1 DEF MachineForgotten
    <2>2. CASE disk.snapshot.receipt = Nothing
      BY <1>1, <1>5, <2>2 DEF Driving
    <2>3. CASE disk.snapshot.receipt # Nothing
      BY <1>1, <1>3, <1>5, <2>1, <2>3 DEF Replaying
    <2>4. QED BY <2>2, <2>3
  <1>10. QED BY <1>4, <1>6, <1>7, <1>8, <1>9 DEF NInv

LEMMA NativeInitInv == NativeInit => NInv
  <1> SUFFICES ASSUME NativeInit PROVE NInv
    OBVIOUS
  <1>1. Inv BY InitInv DEF NativeInit
  <1>2. Clean \in Snapshot /\ NewTask \in TaskType
    BY DEF Clean, Snapshot, Phases, NewTask, TaskType, Places, Nexts
  <1>3. NativeTypeOK
    <2>1. disk \in [snapshot : Snapshot, revision : Nat] /\ sequence \in Nat
          /\ restarts \in 0 .. MaxRestarts
      BY <1>2, RestartBound DEF NativeInit
    <2>2. task \in [Calls -> TaskType] /\ durable \in Snapshot /\ restored \in BOOLEAN
          /\ shipments \subseteq Intent
      BY <1>2 DEF NativeInit
    <2>3. QED BY <1>1, <2>1, <2>2 DEF NativeTypeOK, Inv
  <1>4. \A c \in Calls : task[c].at = "new"
    BY DEF NativeInit, NewTask
  <1>5. SnapshotInv /\ TaskInv /\ AnswersAreTrue
    BY <1>4 DEF NativeInit, SnapshotInv, TrueOf, Clean, IsSaving, Saving, TaskInv,
                TaskFacts, Busy, Pending, AnswersAreTrue
  <1>6. Driving
    BY <1>4 DEF NativeInit, Driving, Clean, Shipping, IsSaving, Saving, Busy, Pending
  <1>7. QED BY <1>1, <1>3, <1>5, <1>6 DEF NInv

LEMMA NativeStutterInv == NInv /\ UNCHANGED nativeVars => NInv'
  <1> SUFFICES ASSUME NInv, UNCHANGED nativeVars PROVE NInv'
    OBVIOUS
  <1>1. Inv' BY StutterInv DEF NInv, nativeVars
  <1>2. UNCHANGED <<phase, endAttempted, call, envelopes, shippedFile>>
        /\ UNCHANGED native
    BY DEF nativeVars, vars, entryVars, hubVars
  <1>3. NativeTypeOK'
    BY <1>1, <1>2 DEF NInv, NativeTypeOK, Inv, native
  <1>4. SnapshotInv' /\ TaskInv' /\ AnswersAreTrue'
    BY <1>2 DEF NInv, native, SnapshotInv, Ended, TaskInv, TaskFacts, Busy,
                AnswersAreTrue
  <1>5. Replaying' \/ Driving'
    BY <1>2 DEF NInv, native, Replaying, Driving, ShipFacts, Busy
  <1>6. QED BY <1>1, <1>3, <1>4, <1>5 DEF NInv

(* NInv is an invariant of the native publication. *)
THEOREM NativeInvariance == NativeSpec => []NInv
  <1>1. NInv /\ [NativeNext]_nativeVars => NInv'
    <2> SUFFICES ASSUME NInv, [NativeNext]_nativeVars PROVE NInv'
      OBVIOUS
    <2>1. CASE Arrival
      BY <2>1, ReplayShippedInv, ReplayRestoredInv, BeginInv DEF Arrival
    <2>2. CASE Operate
      BY <2>2, OperateInv
    <2>3. CASE Restart
      BY <2>3, RestartInv
    <2>4. ASSUME NEW c \in Calls, TaskStep(c) PROVE NInv'
      BY <2>4, LoadInv, WriteInv, ReadInv, SaveFailsInv, PublishInv, ReturnInv,
         StatusKnownInv, EndKnownInv, HubFailsInv, ShippedInv DEF TaskStep
    <2>5. CASE UNCHANGED nativeVars
      BY <2>5, NativeStutterInv
    <2>6. QED BY <2>1, <2>2, <2>3, <2>4, <2>5 DEF NativeNext
  <1>2. QED BY NativeInitInv, <1>1, PTL DEF NativeSpec

-----------------------------------------------------------------------------
(* Type correctness: the checkpoint, the calls and the machine under them    *)
(* keep their types.                                                         *)
THEOREM NativeTypeCorrect == NativeSpec => []NativeTypeOK
  <1>1. NInv => NativeTypeOK BY DEF NInv
  <1>2. QED BY NativeInvariance, <1>1, PTL

(* A tool call that returned told the truth, whatever overlapped with it and *)
(* however often the process was restarted.                                  *)
THEOREM NativeAnswersTrue == NativeSpec => []AnswersAreTrue
  <1>1. NInv => AnswersAreTrue BY DEF NInv
  <1>2. QED BY NativeInvariance, <1>1, PTL

(* No checkpoint, however stale, claims what the hub does not hold.          *)
THEOREM CheckpointTrue == NativeSpec => []CheckpointIsTrue
  <1>1. NInv => CheckpointIsTrue
    BY DEF NInv, SnapshotInv, TrueOf, CheckpointIsTrue
  <1>2. QED BY NativeInvariance, <1>1, PTL
-----------------------------------------------------------------------------
(***************************************************************************)
(* A client that waits for each answer (MaxParallel = 1).  The one call in *)
(* progress ties the disk to the machine: what a save carries is what the  *)
(* machine holds, and what the hub holds beyond the answered calls belongs *)
(* to the turn on disk, which a restart goes on with.  A process that      *)
(* replays its receipt posts nothing.                                      *)
(***************************************************************************)
Rep   == phase = "clean" /\ durable.receipt # Nothing
Quiet == \A c \in Calls : ~Busy(c)
One   == \A c, d \in Calls : Busy(c) /\ Busy(d) => c = d

ToldInv == ToldShipped => Rep \/ (durable.phase = "shipped" /\ Quiet)

FreshFacts(c) ==
  IsSaving(task[c]) =>
    /\ task[c].at \in {"load", "write", "assign"} => task[c].saving = MachineSnapshot
    /\ task[c].at \in {"read", "assign"} => disk.snapshot = MachineSnapshot
    /\ task[c].next = "resolve" /\ call[c].shipped => phase = "shipped"

(* The body of the receipt was answered for, or its call is still there. *)
Doing(x) == Answered(x) \/ \E c \in Calls : Busy(c) /\ task[c].content = x

PlaceInv ==
  /\ OperationPending => \E c \in Calls : task[c].at = "publishing"
  /\ phase = "clean" => durable = disk.snapshot
  /\ phase # "clean" => turnID # Nothing
  /\ intent # Nothing => intent.turn = turnID /\ disk.snapshot.turn = turnID
  /\ receipt # Nothing => Doing(receipt.content)
  /\ durable.phase = "shipped" => receipt # Nothing /\ disk.snapshot.receipt # Nothing

(* An envelope whose body a later call may still post again. *)
Unsettled(a) ==
  /\ ~Answered(a.content)
  /\ \A e \in envelopes : e.turn = a.turn => e.content = a.content

Resumes(a) == a.turn = disk.snapshot.turn /\ (phase # "clean" => a.turn = turnID)

UnsettledInv == \A a \in envelopes : Unsettled(a) => Resumes(a)

DriveInv == /\ \A c \in Calls : FreshFacts(c)
            /\ PlaceInv /\ UnsettledInv

SInv == /\ One /\ ToldInv
        /\ Rep => CrashMakesNoSecondFile
        /\ ~Rep => DriveInv

LEMMA SecondFile == SInv => CrashMakesNoSecondFile
  <1> SUFFICES ASSUME DriveInv, NEW a \in envelopes, NEW b \in envelopes,
                      a.content = b.content, a.turn # b.turn, ~Answered(a.content),
                      ~\E e \in envelopes : e.content # a.content
                                            /\ e.turn \in {a.turn, b.turn}
               PROVE  FALSE
    BY DEF SInv, CrashMakesNoSecondFile
  <1>1. Unsettled(a) /\ Unsettled(b)
    BY DEF Unsettled
  <1>2. QED BY <1>1 DEF DriveInv, UnsettledInv, Resumes

(* Whoever replays or drives is told by what is durable. *)
LEMMA RepMode ==
  ASSUME NInv
  PROVE  /\ Rep => Replaying
         /\ ~Rep => Driving
  BY DEF NInv, Rep, Replaying, Driving

(* A call that arrives is alone. *)
LEMMA ArrivesAlone ==
  ASSUME MaxParallel = 1, One, NEW c \in Calls, Arrives(c)
  PROVE  Quiet
  <1> SUFFICES ASSUME NEW d \in Calls, Busy(d) PROVE FALSE
    BY DEF Quiet
  <1>1. {e \in Calls : Busy(e)} = {d}
    BY DEF One
  <1>2. Cardinality({d}) = 1
    BY FS_Singleton
  <1>3. QED BY <1>1, <1>2 DEF Arrives

(* What was answered stays answered. *)
Kept == \A c \in Calls : task[c].at \in {"resolved", "rejected"} => task'[c] = task[c]

LEMMA AnsweredKept ==
  ASSUME Kept, NEW x, Answered(x) PROVE Answered(x)'
  BY DEF Kept, Answered

LEMMA UnsettledBefore ==
  ASSUME Kept, envelopes \subseteq envelopes', NEW a, Unsettled(a)'
  PROVE  Unsettled(a)
  BY AnsweredKept DEF Unsettled

(* A step of a process that goes on replaying. *)
LEMMA RepStep ==
  ASSUME SInv, Rep, Rep', One', Kept, envelopes' = envelopes
  PROVE  SInv'
  <1>1. CrashMakesNoSecondFile'
    BY AnsweredKept DEF SInv, CrashMakesNoSecondFile
  <1>2. QED BY <1>1 DEF SInv, ToldInv

(* A step in which one call, alone, changes. *)
LEMMA AloneStep ==
  ASSUME NInv, One, NEW c \in Calls, NEW t, Set(c, t), Busy(c) \/ Quiet,
         task[c].at \notin {"resolved", "rejected"}
  PROVE  /\ task'[c] = t /\ \A d \in Calls : d # c => task'[d] = task[d] /\ ~Busy(d)
         /\ \A d \in Calls : Busy(d)' => d = c
         /\ One' /\ Kept
  <1>1. task'[c] = t /\ \A d \in Calls : d # c => task'[d] = task[d]
    BY DEF NInv, NativeTypeOK, Set
  <1>2. \A d \in Calls : d # c => ~Busy(d)
    BY DEF One, Quiet
  <1>3. \A d \in Calls : Busy(d)' => d = c
    BY <1>1, <1>2 DEF Busy
  <1>4. QED BY <1>1, <1>2, <1>3 DEF One, Kept

(* What a step of the call c, which leaves it as t, sees to when the process *)
(* drives its machine.                                                       *)
Serves(c, t) ==
  /\ ~Rep' /\ envelopes' = envelopes
  /\ Busy(c) => t.content = task[c].content
             /\ t.at \in Pending \cup {"resolved", "rejected"}
  /\ ToldShipped => t.at \notin Pending /\ durable' = durable
  /\ t.at = "resolved" /\ t.shipped => durable'.phase = "shipped"
  /\ IsSaving(t) =>
       /\ t.at \in {"load", "write", "assign"} => t.saving = MachineSnapshot'
       /\ t.at \in {"read", "assign"} => disk'.snapshot = MachineSnapshot'
       /\ t.next = "resolve" /\ call'[c].shipped => phase' = "shipped"
  /\ OperationPending' => t.at = "publishing"
  /\ phase' = "clean" => durable' = disk'.snapshot
  /\ phase' # "clean" => turnID' # Nothing
  /\ intent' # Nothing => intent'.turn = turnID' /\ disk'.snapshot.turn = turnID'
  /\ receipt' # Nothing => receipt' = receipt
  /\ durable'.phase = "shipped" => receipt' # Nothing /\ disk'.snapshot.receipt # Nothing
  /\ \A a \in envelopes : Unsettled(a) => Resumes(a)'

LEMMA ServesInv ==
  ASSUME NInv, SInv, ~Rep, NEW c \in Calls, NEW t, Set(c, t), Busy(c) \/ Quiet,
         task[c].at \notin {"resolved", "rejected"}, Serves(c, t)
  PROVE  SInv'
  <1>1. /\ task'[c] = t /\ \A d \in Calls : d # c => task'[d] = task[d] /\ ~Busy(d)
        /\ \A d \in Calls : Busy(d)' => d = c
        /\ One' /\ Kept
    BY AloneStep DEF SInv
  <1>2. ~Rep' /\ envelopes' = envelopes
    BY DEF Serves
  <1>3. ToldInv'
    <2> SUFFICES ASSUME ToldShipped' PROVE durable'.phase = "shipped" /\ Quiet'
      BY DEF ToldInv
    <2>1. PICK d \in Calls : task'[d].at = "resolved" /\ task'[d].shipped
      BY DEF ToldShipped
    <2>2. CASE d = c
      <3>1. ~Busy(c)' BY <1>1, <2>1, <2>2 DEF Busy, Pending, Saving
      <3>2. Quiet' BY <1>1, <3>1 DEF Quiet
      <3>3. QED BY <1>1, <2>1, <2>2, <3>2 DEF Serves
    <2>3. CASE d # c
      <3>1. ToldShipped BY <1>1, <2>1, <2>3 DEF ToldShipped
      <3>2. durable.phase = "shipped" /\ durable' = durable /\ t.at \notin Pending
        BY <3>1 DEF SInv, ToldInv, Serves
      <3>3. ~Busy(c)' BY <1>1, <3>2 DEF Busy
      <3>4. QED BY <1>1, <3>2, <3>3 DEF Quiet
    <2>4. QED BY <2>2, <2>3
  <1>4. ASSUME NEW d \in Calls PROVE FreshFacts(d)'
    <2>1. CASE d = c
      BY <1>1, <2>1 DEF Serves, FreshFacts, IsSaving
    <2>2. CASE d # c
      BY <1>1, <2>2 DEF FreshFacts, IsSaving, Busy, Pending
    <2>3. QED BY <2>1, <2>2
  <1>5. PlaceInv'
    <2>1. ASSUME receipt' # Nothing PROVE Doing(receipt.content)'
      <3>1. receipt' = receipt BY <2>1 DEF Serves
      <3>2. Doing(receipt.content) BY <2>1, <3>1 DEF SInv, DriveInv, PlaceInv
      <3>3. CASE Answered(receipt.content)
        <4>1. PICK d \in Calls : task[d].content = receipt.content
                                 /\ task[d].at \in {"resolved", "rejected"}
          BY <3>3 DEF Answered
        <4>2. task'[d] = task[d]
          BY <1>1, <4>1 DEF Kept
        <4>3. QED BY <3>1, <4>1, <4>2 DEF Doing, Answered
      <3>4. CASE \E d \in Calls : Busy(d) /\ task[d].content = receipt.content
        <4>1. Busy(c) /\ task[c].content = receipt.content BY <1>1, <3>4
        <4>2. task'[c].content = receipt.content
              /\ task'[c].at \in Pending \cup {"resolved", "rejected"}
          BY <1>1, <4>1 DEF Serves
        <4>3. QED BY <3>1, <4>2 DEF Doing, Answered, Busy
      <3>5. QED BY <3>2, <3>3, <3>4 DEF Doing
    <2>2. OperationPending' => \E d \in Calls : task'[d].at = "publishing"
      BY <1>1 DEF Serves
    <2>3. QED BY <2>1, <2>2 DEF Serves, PlaceInv
  <1>6. UnsettledInv'
    BY <1>1, <1>2, UnsettledBefore DEF Serves, UnsettledInv
  <1>7. QED BY <1>1, <1>2, <1>3, <1>4, <1>5, <1>6 DEF SInv, DriveInv

-----------------------------------------------------------------------------
(* Calls answered from the checkpoint. *)
LEMMA QuietMachine ==
  ASSUME SInv, ~Rep, Quiet
  PROVE  /\ ~OperationPending
         /\ receipt # Nothing => Answered(receipt.content)
  BY DEF SInv, DriveInv, PlaceInv, Doing, Quiet, Busy, Pending

LEMMA AnsweredSerial ==
  ASSUME MaxParallel = 1, NInv, SInv, NEW c \in Calls, NEW x \in Contents,
         NEW handoff \in BOOLEAN,
         ReplayShipped(c, x, handoff) \/ ReplayRestored(c, x, handoff)
  PROVE  SInv'
  <1>1. /\ Arrives(c) /\ UNCHANGED <<vars, disk, durable>>
        /\ Terminal \/ FromReceipt
    BY DEF ReplayShipped, ReplayRestored
  <1>2. Quiet /\ task[c].at = "new" /\ ~Busy(c)
    BY <1>1, ArrivesAlone DEF SInv, Arrives, Quiet
  <1>3. PICK t : Set(c, t)
    BY DEF ReplayShipped, ReplayRestored, Resolve, Reject
  <1>4. UNCHANGED <<phase, turnID, intent, receipt, operation, call, envelopes, disk,
                    durable>>
    BY <1>1 DEF vars, entryVars, hubVars
  <1>5. CASE Rep
    BY <1>2, <1>3, <1>4, <1>5, AloneStep, RepStep DEF SInv, Rep
  <1>6. CASE ~Rep
    <2>1. ReplayShipped(c, x, handoff) /\ Terminal
      BY <1>6, RepMode DEF ReplayShipped, ReplayRestored, FromReceipt, Driving
    <2>2. PICK at \in {"resolved", "rejected"}, shipped \in BOOLEAN :
                Set(c, Over(Asked(x, handoff), at, shipped))
      BY <2>1 DEF ReplayShipped, Resolve, Reject
    <2> DEFINE u == Over(Asked(x, handoff), at, shipped)
    <2>3. u.at = at
      BY DEF Over, NewTask
    <2> HIDE DEF u
    <2>4. Serves(c, u)
      BY <1>2, <1>4, <1>6, <2>1, <2>3, QuietMachine
         DEF Serves, Rep, SInv, DriveInv, PlaceInv, UnsettledInv, Resumes,
             OperationPending, Terminal, IsSaving, Saving, Pending
    <2>5. QED BY <1>2, <1>6, <2>2, <2>4, ServesInv DEF u
  <1>7. QED BY <1>5, <1>6

(* A new turn is the one on disk, unless the last one is answered for. *)
LEMMA BeginSerial ==
  ASSUME MaxParallel = 1, NInv, SInv, NEW c \in Calls, NEW x \in Contents,
         NEW handoff \in BOOLEAN, Begin(c, x, handoff)
  PROVE  SInv'
  <1> DEFINE m == MessageID(handoff)
             asked == [Asked(x, handoff) EXCEPT !.turn = m]
             t == Saved(asked, MachineSnapshot', "publish")
  <1>1. /\ Arrives(c) /\ ~Terminal /\ m \in Turns /\ BeginTurn(m) /\ Set(c, t)
        /\ UNCHANGED <<disk, durable>>
    BY DEF Begin
  <1>2. Quiet /\ task[c].at = "new" /\ ~Busy(c)
    BY <1>1, ArrivesAlone DEF SInv, Arrives, Quiet
  <1>3. ~Rep
    BY RepMode DEF Begin, FromReceipt, Terminal, Replaying
  <1>4. /\ ~OperationPending /\ (receipt # Nothing => Answered(receipt.content))
        /\ PlaceInv /\ UnsettledInv /\ ~ToldShipped /\ EntryInv
    BY <1>1, <1>2, <1>3, QuietMachine
       DEF SInv, DriveInv, ToldInv, Terminal, NInv, Inv
  <1>5. /\ phase' # "clean" /\ UNCHANGED <<operation, call, envelopes>>
        /\ \/ phase = "clean" /\ turnID' = m /\ UNCHANGED <<intent, receipt>>
           \/ phase = "published" /\ turnID' = m /\ intent' = Nothing /\ receipt' = Nothing
           \/ phase # "clean" /\ UNCHANGED <<turnID, intent, receipt>>
    BY <1>1 DEF BeginTurn, BeginCleanTurn, BeginNextTurn, vars, entryVars, hubVars
  <1>6. t.at = "load" /\ t.next = "publish" /\ t.saving = MachineSnapshot'
    BY DEF Saved
  <1> HIDE DEF asked, t
  <1>7. m # Nothing
    BY <1>1, NothingIsFresh
  <1>8. ASSUME NEW a \in envelopes, Unsettled(a)
        PROVE  Resumes(a)'
    <2>1. Resumes(a) /\ a.turn \in Turns
      BY <1>4, <1>8 DEF UnsettledInv, NInv, Inv, TypeOK, Intent
    <2>2. CASE phase = "clean" /\ turnID' = m
      <3>1. durable = disk.snapshot /\ a.turn = durable.turn /\ durable.turn # Nothing
        BY <1>4, <2>1, <2>2, NothingIsFresh DEF PlaceInv, Resumes
      <3>2. m = durable.turn
        BY <2>2, <3>1 DEF MessageID, OpensNext
      <3>3. QED BY <1>1, <2>1, <2>2, <3>1, <3>2 DEF Resumes
    <2>3. CASE phase = "published"
      <3>1. receipt # Nothing /\ receipt \in envelopes /\ receipt.turn = a.turn
        BY <1>4, <2>1, <2>3 DEF EntryInv, PlaceInv, Resumes
      <3>2. receipt.content = a.content
        BY <1>8, <3>1 DEF Unsettled
      <3>3. QED BY <1>4, <1>8, <3>1, <3>2 DEF Unsettled
    <2>4. CASE phase # "clean" /\ UNCHANGED turnID
      BY <1>1, <2>1, <2>4 DEF Resumes
    <2>5. QED BY <1>5, <2>2, <2>3, <2>4
  <1>9. ~Rep'
    BY <1>5 DEF Rep
  <1>10. OperationPending' = OperationPending
    BY <1>5 DEF OperationPending
  <1>11. intent' # Nothing => intent'.turn = turnID' /\ disk'.snapshot.turn = turnID'
    BY <1>1, <1>4, <1>5 DEF PlaceInv, EntryInv
  <1>12. receipt' # Nothing => receipt' = receipt
    BY <1>5
  <1>13. Serves(c, t)
    BY <1>1, <1>2, <1>4, <1>5, <1>6, <1>7, <1>8, <1>9, <1>10, <1>11, <1>12
       DEF Serves, PlaceInv, IsSaving, Terminal, Pending, Saving
  <1>14. QED BY <1>1, <1>2, <1>3, <1>13, ServesInv

-----------------------------------------------------------------------------
(* The call in progress, when the process drives its machine. *)
LEMMA BusyDriving ==
  ASSUME NInv, SInv, ~Rep, NEW c \in Calls, Busy(c)
  PROVE  /\ phase # "clean" /\ turnID # Nothing /\ ~Shipping(task[c]) /\ ~ToldShipped
         /\ PlaceInv /\ UnsettledInv /\ FreshFacts(c) /\ TaskFacts(c) /\ EntryInv
         /\ task[c].at # "publishing" => ~OperationPending
         /\ task[c].at \notin {"resolved", "rejected"}
         /\ task[c] \in TaskType /\ MachineSnapshot \in Snapshot
  <1>1. Driving
    BY RepMode
  <1>2. /\ PlaceInv /\ UnsettledInv /\ FreshFacts(c) /\ TaskFacts(c) /\ EntryInv
        /\ task[c] \in TaskType /\ MachineSnapshot \in Snapshot
    BY MachineSnapshotShape DEF SInv, DriveInv, NInv, TaskInv, Inv, NativeTypeOK
  <1>3. phase # "clean" /\ ~Shipping(task[c]) /\ ~ToldShipped
    BY <1>1 DEF Driving, SInv, ToldInv, Quiet
  <1>4. task[c].at # "publishing" => ~OperationPending
    BY <1>2 DEF PlaceInv, SInv, One, Busy, Pending
  <1>5. turnID # Nothing /\ task[c].at \notin {"resolved", "rejected"}
    BY <1>2, <1>3 DEF PlaceInv, Busy, Pending, Saving
  <1>6. QED BY <1>2, <1>3, <1>4, <1>5

(* The call in progress, when the process replays its receipt. *)
LEMMA BusyReplaying ==
  ASSUME NInv, SInv, Rep, NEW c \in Calls, Busy(c)
  PROVE  ShipFacts(c) /\ Shipping(task[c]) /\ task[c].at \notin {"resolved", "rejected"}
  <1>1. ShipFacts(c)
    BY RepMode DEF Replaying
  <1>2. QED BY <1>1 DEF ShipFacts, Busy, Pending, Saving

(* A step of one call that leaves the receipt alone goes on replaying it.   *)
LEMMA BusyRepStep ==
  ASSUME NInv, SInv, Rep, NEW c \in Calls, Busy(c), NEW t, Set(c, t),
         UNCHANGED <<phase, envelopes>>, durable'.receipt = durable.receipt
  PROVE  SInv'
  BY BusyReplaying, AloneStep, RepStep DEF SInv, Rep

(* save() *)
LEMMA LoadSerial ==
  ASSUME NInv, SInv, NEW c \in Calls, Load(c) PROVE SInv'
  <1> DEFINE t == [task[c] EXCEPT !.at = "write", !.revision = disk.revision]
  <1>1. /\ Busy(c) /\ task[c].at = "load" /\ UNCHANGED <<vars, disk, durable>>
    BY DEF Load, Busy, Pending, Saving
  <1>2. /\ Set(c, t) /\ t.at = "write" /\ t.next = task[c].next
        /\ t.saving = task[c].saving /\ t.content = task[c].content
    BY DEF Load, Set, NInv, NativeTypeOK, TaskType
  <1>3. UNCHANGED <<phase, turnID, intent, receipt, operation, call, envelopes, disk,
                    durable>>
    BY <1>1 DEF vars, entryVars, hubVars
  <1> HIDE DEF t
  <1>4. CASE Rep
    BY <1>1, <1>2, <1>3, <1>4, BusyRepStep
  <1>5. CASE ~Rep
    <2>1. Serves(c, t)
      BY <1>1, <1>2, <1>3, <1>5, BusyDriving
         DEF Serves, Rep, PlaceInv, FreshFacts, UnsettledInv, Resumes, MachineSnapshot,
             OperationPending, IsSaving, Saving, Pending
    <2>2. QED BY <1>1, <1>2, <1>5, <2>1, BusyDriving, ServesInv
  <1>6. QED BY <1>4, <1>5

LEMMA WriteSerial ==
  ASSUME NInv, SInv, NEW c \in Calls, Write(c) PROVE SInv'
  <1> DEFINE t == [task[c] EXCEPT !.at = "read"]
  <1>1. /\ Busy(c) /\ task[c].at = "write" /\ UNCHANGED <<vars, durable>>
        /\ disk'.snapshot = task[c].saving
    BY DEF Write, Busy, Pending, Saving
  <1>2. /\ Set(c, t) /\ t.at = "read" /\ t.next = task[c].next
        /\ t.content = task[c].content
    BY DEF Write, Set, NInv, NativeTypeOK, TaskType
  <1>3. UNCHANGED <<phase, turnID, intent, receipt, operation, call, envelopes, durable>>
    BY <1>1 DEF vars, entryVars, hubVars
  <1> HIDE DEF t
  <1>4. CASE Rep
    BY <1>1, <1>2, <1>3, <1>4, BusyRepStep
  <1>5. CASE ~Rep
    <2>1. disk'.snapshot = MachineSnapshot' /\ disk'.snapshot.turn = turnID
          /\ disk'.snapshot.receipt = receipt
      BY <1>1, <1>3, <1>5, BusyDriving DEF FreshFacts, IsSaving, Saving, MachineSnapshot
    <2>2. Serves(c, t)
      BY <1>1, <1>2, <1>3, <1>5, <2>1, BusyDriving
         DEF Serves, Rep, PlaceInv, FreshFacts, UnsettledInv, Resumes,
             OperationPending, IsSaving, Saving, Pending
    <2>3. QED BY <1>1, <1>2, <1>5, <2>2, BusyDriving, ServesInv
  <1>6. QED BY <1>4, <1>5

LEMMA ReadSerial ==
  ASSUME NInv, SInv, NEW c \in Calls, Read(c) PROVE SInv'
  <1> DEFINE t == [task[c] EXCEPT !.at = "assign", !.saving = disk.snapshot]
  <1>1. /\ Busy(c) /\ task[c].at = "read" /\ UNCHANGED <<vars, disk, durable>>
    BY DEF Read, Busy, Pending, Saving
  <1>2. /\ Set(c, t) /\ t.at = "assign" /\ t.next = task[c].next
        /\ t.saving = disk.snapshot /\ t.content = task[c].content
    BY DEF Read, Set, NInv, NativeTypeOK, TaskType
  <1>3. UNCHANGED <<phase, turnID, intent, receipt, operation, call, envelopes, disk,
                    durable>>
    BY <1>1 DEF vars, entryVars, hubVars
  <1> HIDE DEF t
  <1>4. CASE Rep
    BY <1>1, <1>2, <1>3, <1>4, BusyRepStep
  <1>5. CASE ~Rep
    <2>1. Serves(c, t)
      BY <1>1, <1>2, <1>3, <1>5, BusyDriving
         DEF Serves, Rep, PlaceInv, FreshFacts, UnsettledInv, Resumes, MachineSnapshot,
             OperationPending, IsSaving, Saving, Pending
    <2>2. QED BY <1>1, <1>2, <1>5, <2>1, BusyDriving, ServesInv
  <1>6. QED BY <1>4, <1>5

LEMMA SaveFailsSerial ==
  ASSUME NInv, SInv, NEW c \in Calls, SaveFails(c) PROVE SInv'
  <1> DEFINE again == Saved(task[c], MachineSnapshot, "reject")
             over  == Over(task[c], "rejected", FALSE)
  <1>1. /\ Busy(c) /\ task[c].at \in {"load", "write", "read"}
        /\ UNCHANGED <<vars, disk, durable>>
        /\ (task[c].next = "resolve" /\ Set(c, again)) \/ Set(c, over)
    BY DEF SaveFails, Busy, Pending, Saving, Reject
  <1>2. UNCHANGED <<phase, turnID, intent, receipt, operation, call, envelopes, disk,
                    durable>>
    BY <1>1 DEF vars, entryVars, hubVars
  <1>3. over.at = "rejected" /\ over.content = task[c].content
    BY DEF Over, NewTask
  <1> HIDE DEF over
  <1>4. CASE Rep
    BY <1>1, <1>2, <1>4, BusyRepStep
  <1>5. ASSUME ~Rep, Set(c, again) PROVE SInv'
    <2>1. /\ again.at = "load" /\ again.next = "reject"
          /\ again.saving = MachineSnapshot /\ again.content = task[c].content
      BY <1>1, <1>5, BusyDriving DEF Saved, TaskType
    <2> HIDE DEF again
    <2>2. Serves(c, again)
      BY <1>1, <1>2, <1>5, <2>1, BusyDriving
         DEF Serves, Rep, PlaceInv, UnsettledInv, Resumes, MachineSnapshot,
             OperationPending, IsSaving, Saving, Pending
    <2>3. QED BY <1>1, <1>5, <2>2, BusyDriving, ServesInv
  <1>6. ASSUME ~Rep, Set(c, over) PROVE SInv'
    <2>1. Serves(c, over)
      BY <1>1, <1>2, <1>3, <1>6, BusyDriving
         DEF Serves, Rep, PlaceInv, UnsettledInv, Resumes, MachineSnapshot,
             OperationPending, IsSaving, Saving, Pending
    <2>2. QED BY <1>1, <1>6, <2>1, BusyDriving, ServesInv
  <1>7. QED BY <1>1, <1>4, <1>5, <1>6

-----------------------------------------------------------------------------
(* What was saved and read back is what the machine holds. *)
LEMMA AssignedSerial ==
  ASSUME NInv, SInv, ~Rep, NEW c \in Calls, task[c].at = "assign",
         durable' = task[c].saving
  PROVE  /\ Busy(c) /\ durable' = MachineSnapshot /\ disk.snapshot = MachineSnapshot
         /\ disk.snapshot.receipt = receipt /\ disk.snapshot.turn = turnID
         /\ durable'.phase = phase /\ (phase = "shipped" => receipt # Nothing)
         /\ ~OperationPending
  <1>1. Busy(c) BY DEF Busy, Pending, Saving
  <1>2. durable' = MachineSnapshot /\ disk.snapshot = MachineSnapshot
    BY <1>1, BusyDriving DEF FreshFacts, IsSaving, Saving
  <1>3. phase = "shipped" => receipt # Nothing
    BY <1>1, BusyDriving DEF EntryInv
  <1>4. ~OperationPending
    BY <1>1, BusyDriving
  <1>5. QED BY <1>1, <1>2, <1>3, <1>4 DEF MachineSnapshot

LEMMA PublishSerial ==
  ASSUME NInv, SInv, NEW c \in Calls, Publish(c) PROVE SInv'
  <1> DEFINE u == task[c]
             m == task[c].turn
             x == task[c].content
             h == task[c].handoff
             asked == [Asked(x, FALSE) EXCEPT !.at = "publishing"]
  <1>1. /\ Busy(c) /\ u.at = "assign" /\ u.next = "publish" /\ durable' = u.saving
        /\ UNCHANGED disk
    BY DEF Publish, Assigns, Busy, Pending, Saving
  <1>2. \/ PublishConflict(c, m, x, h) /\ Set(c, Saved(u, MachineSnapshot', "reject"))
        \/ PublishReplay(c, m, x) /\ Set(c, Saved(u, MachineSnapshot', "resolve"))
        \/ /\ PublishJoin(c, m, x, h) \/ PublishStart(c, m, x, h)
                \/ PublishHandoff(c, m, x)
           /\ Set(c, asked)
    BY DEF Publish
  <1>3. ~Rep
    BY <1>1, BusyReplaying DEF Shipping
  <1>4. /\ durable' = MachineSnapshot /\ disk'.snapshot = MachineSnapshot
        /\ disk'.snapshot.receipt = receipt /\ disk'.snapshot.turn = turnID
        /\ durable'.phase = phase /\ (phase = "shipped" => receipt # Nothing)
        /\ ~OperationPending /\ phase # "clean" /\ turnID # Nothing /\ ~ToldShipped
        /\ PlaceInv /\ UnsettledInv /\ u \in TaskType
        /\ task[c].at \notin {"resolved", "rejected"}
    BY <1>1, <1>3, AssignedSerial, BusyDriving
  <1> HIDE DEF m, x, h, asked
  <1>5. ASSUME UNCHANGED <<entryVars, operation, hubVars>>, NEW next \in {"reject", "resolve"},
               Set(c, Saved(u, MachineSnapshot', next)),
               next = "resolve" => (call'[c].shipped => phase = "shipped")
        PROVE  SInv'
    <2> DEFINE t == Saved(u, MachineSnapshot', next)
    <2>1. /\ t.at = "load" /\ t.next = next
          /\ t.saving = MachineSnapshot' /\ t.content = task[c].content
      BY <1>4 DEF Saved, TaskType
    <2>2. UNCHANGED <<phase, turnID, intent, receipt, operation, envelopes>>
      BY <1>5 DEF entryVars, hubVars
    <2> HIDE DEF t
    <2>3. Serves(c, t)
      BY <1>1, <1>4, <1>5, <2>1, <2>2
         DEF Serves, Rep, PlaceInv, UnsettledInv, Resumes, OperationPending,
             IsSaving, Saving, Pending
    <2>4. QED BY <1>1, <1>3, <1>4, <1>5, <2>3, ServesInv DEF t
  <1>6. CASE PublishConflict(c, m, x, h) /\ Set(c, Saved(u, MachineSnapshot', "reject"))
    BY <1>5, <1>6 DEF PublishConflict
  <1>7. CASE PublishReplay(c, m, x) /\ Set(c, Saved(u, MachineSnapshot', "resolve"))
    <2>1. call'[c].shipped = (phase = "shipped")
      BY <1>7 DEF PublishReplay, Answer, NInv, Inv, TypeOK
    <2>2. QED BY <1>5, <1>7, <2>1 DEF PublishReplay
  <1>8. CASE /\ PublishJoin(c, m, x, h) \/ PublishStart(c, m, x, h)
                  \/ PublishHandoff(c, m, x)
             /\ Set(c, asked)
    <2>1. asked.at = "publishing" /\ asked.content = task[c].content
      BY DEF asked, Asked, NewTask, x
    <2>2. /\ PublishStart(c, m, x, h) \/ PublishHandoff(c, m, x)
          /\ phase' # "clean" /\ turnID' = turnID /\ UNCHANGED <<receipt, envelopes>>
          /\ intent' # Nothing => (intent' = intent \/ intent'.turn = turnID')
          /\ phase = "shipped" => receipt' # Nothing
      <3>1. PublishStart(c, m, x, h) \/ PublishHandoff(c, m, x)
        BY <1>4, <1>8 DEF PublishJoin
      <3>2. CASE PublishStart(c, m, x, h)
        <4>1. intent' = IntentOf(m, x) /\ turnID' = intent'.turn
          BY <3>2 DEF PublishStart
        <4>2. turnID' = turnID
          BY <1>4, <4>1 DEF IntentOf
        <4>3. QED BY <1>4, <3>2, <4>1, <4>2 DEF PublishStart, hubVars
      <3>3. CASE PublishHandoff(c, m, x)
        BY <1>4, <3>3 DEF PublishHandoff, hubVars
      <3>4. QED BY <3>1, <3>2, <3>3
    <2>3. Serves(c, asked)
      BY <1>1, <1>4, <2>1, <2>2
         DEF Serves, Rep, PlaceInv, UnsettledInv, Resumes, IsSaving, Saving, Pending
    <2>4. QED BY <1>1, <1>3, <1>4, <1>8, <2>3, ServesInv
  <1>9. QED BY <1>2, <1>6, <1>7, <1>8

LEMMA ReturnSerial ==
  ASSUME NInv, SInv, NEW c \in Calls, Return(c) PROVE SInv'
  <1>1. /\ Busy(c) /\ task[c].at = "assign" /\ task[c].next \in {"resolve", "reject"}
        /\ durable' = task[c].saving /\ UNCHANGED <<vars, disk>>
    BY DEF Return, Assigns, Busy, Pending, Saving
  <1>2. ~Rep
    BY <1>1, BusyReplaying DEF Shipping
  <1>3. /\ disk'.snapshot.receipt = receipt
        /\ durable'.phase = phase /\ (phase = "shipped" => receipt # Nothing)
        /\ ~OperationPending /\ phase # "clean" /\ turnID # Nothing /\ ~ToldShipped
        /\ PlaceInv /\ UnsettledInv /\ FreshFacts(c)
        /\ task[c].at \notin {"resolved", "rejected"}
    BY <1>1, <1>2, AssignedSerial, BusyDriving
  <1>4. UNCHANGED <<phase, turnID, intent, receipt, operation, call, envelopes, disk>>
    BY <1>1 DEF vars, entryVars, hubVars
  <1>5. PICK at \in {"resolved", "rejected"}, shipped \in BOOLEAN :
          /\ Set(c, Over(task[c], at, shipped))
          /\ at = "resolved" /\ shipped => task[c].next = "resolve" /\ call[c].shipped
    <2>1. call[c].shipped \in BOOLEAN
      BY DEF NInv, Inv, TypeOK, CallType
    <2>2. QED BY <2>1 DEF Return, Assigns, Resolve, Reject
  <1> DEFINE t == Over(task[c], at, shipped)
  <1>6. t.at = at /\ t.shipped = shipped /\ t.content = task[c].content
    BY DEF Over, NewTask
  <1> HIDE DEF t
  <1>7. at = "resolved" /\ shipped => durable'.phase = "shipped"
    BY <1>1, <1>3, <1>5 DEF FreshFacts, IsSaving, Saving
  <1>8. Serves(c, t)
    BY <1>1, <1>3, <1>4, <1>6, <1>7
       DEF Serves, Rep, PlaceInv, UnsettledInv, Resumes, OperationPending,
           IsSaving, Saving, Pending
  <1>9. QED BY <1>1, <1>2, <1>3, <1>5, <1>8, ServesInv DEF t

(* The handoff of a restored receipt. *)
LEMMA ShippingSerial ==
  ASSUME NInv, SInv, NEW c \in Calls,
         StatusKnown(c) \/ EndKnown(c) \/ HubFails(c) \/ Shipped(c)
  PROVE  SInv'
  <1>1. Busy(c) /\ Shipping(task[c])
    BY DEF StatusKnown, EndKnown, HubFails, Shipped, Assigns, Busy, Shipping, IsSaving,
           Pending, Saving
  <1>2. Rep
    BY <1>1, BusyDriving
  <1>3. UNCHANGED <<phase, envelopes>> /\ \E t : Set(c, t)
    BY DEF StatusKnown, EndKnown, HubFails, Shipped, EndSession, Ship, Resolve, Reject,
           vars, entryVars, hubVars
  <1>4. durable'.receipt = durable.receipt
    <2>1. durable \in Snapshot
      BY DEF NInv, NativeTypeOK
    <2>2. CASE UNCHANGED durable
      BY <2>2
    <2>3. CASE Ship(c)
      BY <2>1, <2>3 DEF Ship, Snapshot
    <2>4. CASE Shipped(c)
      BY <1>1, <1>2, <2>4, BusyReplaying DEF Shipped, Assigns, ShipFacts
    <2>5. QED BY <2>2, <2>3, <2>4 DEF StatusKnown, EndKnown, HubFails
  <1>5. QED BY <1>1, <1>2, <1>3, <1>4, BusyRepStep

-----------------------------------------------------------------------------
(* A step of the pending operation, as far as the turn and the hub go. *)
LEMMA OperationShape ==
  ASSUME Inv, OperationStep
  PROVE  /\ UNCHANGED <<turnID, intent>> /\ phase # "clean" /\ phase' # "clean"
         /\ OperationPending
         /\ receipt' = receipt \/ (receipt' = intent /\ intent # Nothing)
         /\ envelopes' = envelopes
              \/ (envelopes' = envelopes \cup {intent} /\ intent # Nothing)
         /\ OperationPending' => call' = call
         /\ \A c \in Calls : call[c].pc = "waiting" /\ call'[c].pc = "resolved"
                             /\ call'[c].shipped => phase' = "shipped"
  <1> USE DEF Inv
  <1>1. OperationPending
    BY DEF OperationStep, PostAnswered, PostFails, StatusOpen, StatusNull,
           StatusFails, EndAnswered, EndFails, OperationNoted, OperationPending
  <1>2. phase # "clean" /\ phase' # "clean"
    BY OperationTells
  <1>3. UNCHANGED <<turnID, intent>>
    BY DEF OperationStep, PostAnswered, PostFails, StatusOpen, StatusNull,
           StatusFails, EndAnswered, EndFails, OperationNoted, entryVars
  <1>4. receipt' = receipt \/ (receipt' = intent /\ intent # Nothing)
    BY DEF OperationStep, PostAnswered, PostFails, StatusOpen, StatusNull,
           StatusFails, EndAnswered, EndFails, OperationNoted, entryVars, OperationInv
  <1>5. envelopes' = envelopes \/ (envelopes' = envelopes \cup {intent} /\ intent # Nothing)
    BY DEF OperationStep, PostAnswered, PostFails, DurablePost, StatusOpen, StatusNull,
           StatusFails, EndAnswered, EndFails, OperationNoted, hubVars, OperationInv
  <1>6. \/ call' = call
        \/ operation' = NoOperation /\ Settle("resolved", FALSE)
        \/ operation' = NoOperation /\ Settle("rejected", FALSE)
        \/ operation' = NoOperation /\ Settle("resolved", TRUE) /\ phase' = "shipped"
    BY Zenon DEF OperationStep, PostAnswered, PostFails, StatusOpen, StatusNull,
           StatusFails, EndAnswered, EndFails, OperationNoted, HandoffFails,
           HandoffReturns, IssueEnd
  <1>7. operation' = NoOperation => ~OperationPending'
    BY DEF NoOperation, OperationPending
  <1>8. \A c \in Calls : call[c].pc = "waiting" /\ call'[c].pc = "resolved"
                         /\ call'[c].shipped => phase' = "shipped"
    <2>1. CASE Settle("resolved", FALSE) BY <2>1, SettleShape
    <2>2. CASE Settle("rejected", FALSE) BY <2>2, SettleShape
    <2>3. QED BY <1>6, <2>1, <2>2
  <1>9. QED BY <1>1, <1>2, <1>3, <1>4, <1>5, <1>6, <1>7, <1>8

LEMMA OperateSerial ==
  ASSUME NInv, SInv, Operate PROVE SInv'
  <1>1. /\ Inv /\ OperationStep /\ UNCHANGED <<disk, durable>>
    BY DEF NInv, Operate
  <1>2. /\ UNCHANGED <<turnID, intent>> /\ phase # "clean" /\ phase' # "clean"
        /\ OperationPending
        /\ receipt' = receipt \/ (receipt' = intent /\ intent # Nothing)
        /\ envelopes' = envelopes
             \/ (envelopes' = envelopes \cup {intent} /\ intent # Nothing)
        /\ OperationPending' => call' = call
        /\ \A d \in Calls : call[d].pc = "waiting" /\ call'[d].pc = "resolved"
                            /\ call'[d].shipped => phase' = "shipped"
    BY <1>1, OperationShape
  <1>3. ~Rep /\ ~Rep'
    BY <1>2 DEF Rep
  <1>4. PICK c \in Calls : task[c].at = "publishing"
    BY <1>2, <1>3 DEF SInv, DriveInv, PlaceInv
  <1>5. /\ Busy(c) /\ turnID # Nothing /\ ~ToldShipped /\ PlaceInv /\ UnsettledInv
        /\ call[c].pc = "waiting" /\ call[c].content = task[c].content
        /\ intent # Nothing => task[c].content = intent.content
    <2>1. Busy(c) BY <1>4 DEF Busy, Pending
    <2>2. /\ turnID # Nothing /\ ~ToldShipped /\ PlaceInv /\ UnsettledInv
          /\ call[c].pc = "waiting" /\ call[c].content = task[c].content
      BY <1>3, <1>4, <2>1, BusyDriving DEF TaskFacts
    <2>3. QED BY <2>1, <2>2 DEF NInv, Inv, CallInv
  <1>6. \A d \in Calls : d # c => ~Busy(d) /\ task[d].at # "publishing"
    BY <1>5 DEF SInv, One, Busy, Pending
  <1>7. \A d \in Calls : d # c => task'[d] = task[d]
    BY <1>6 DEF Operate, Settled
  <1>8. \/ task'[c] = task[c] /\ call'[c].pc = "waiting"
        \/ /\ task'[c].at = "load" /\ task'[c].saving = MachineSnapshot'
           /\ task'[c].content = task[c].content
           /\ task'[c].next = "resolve" => call'[c].pc = "resolved"
           /\ ~OperationPending'
    <2>1. CASE Settled(c)
      <3>1. task'[c] = Saved(task[c], MachineSnapshot',
                             IF call'[c].pc = "resolved" THEN "resolve" ELSE "reject")
        BY <2>1 DEF Operate
      <3>2. task[c] \in TaskType
        BY DEF NInv, NativeTypeOK
      <3>3. ~OperationPending'
        BY <1>2, <1>5, <2>1 DEF Settled
      <3>4. QED BY <3>1, <3>2, <3>3 DEF Saved, TaskType
    <2>2. CASE ~Settled(c)
      BY <1>4, <2>2 DEF Operate, Settled
    <2>3. QED BY <2>1, <2>2
  <1>9. Busy(c)' /\ task'[c].content = task[c].content
    BY <1>4, <1>8 DEF Busy, Pending, Saving
  <1>10. One' /\ Kept
    BY <1>4, <1>6, <1>7 DEF One, Kept, Busy
  <1>11. ~ToldShipped'
    BY <1>4, <1>5, <1>7, <1>8 DEF ToldShipped
  <1>12. ASSUME NEW d \in Calls PROVE FreshFacts(d)'
    <2>1. CASE d = c
      BY <1>2, <1>4, <1>5, <1>8, <2>1 DEF FreshFacts, IsSaving, Saving
    <2>2. CASE d # c
      BY <1>6, <1>7, <2>2 DEF FreshFacts, IsSaving, Busy, Pending
    <2>3. QED BY <2>1, <2>2
  <1>13. PlaceInv'
    <2>1. ASSUME receipt' # Nothing PROVE Doing(receipt.content)'
      <3>1. CASE receipt' = receipt
        <4>1. Doing(receipt.content) BY <1>5, <2>1, <3>1 DEF PlaceInv
        <4>2. CASE Answered(receipt.content)
          <5>1. PICK d \in Calls : task[d].content = receipt.content
                                   /\ task[d].at \in {"resolved", "rejected"}
            BY <4>2 DEF Answered
          <5>2. task'[d] = task[d] BY <1>10, <5>1 DEF Kept
          <5>3. QED BY <3>1, <5>1, <5>2 DEF Doing, Answered
        <4>3. CASE \E d \in Calls : Busy(d) /\ task[d].content = receipt.content
          <5>1. task[c].content = receipt.content BY <1>6, <4>3
          <5>2. QED BY <1>9, <3>1, <5>1 DEF Doing
        <4>4. QED BY <4>1, <4>2, <4>3 DEF Doing
      <3>2. CASE receipt' = intent /\ intent # Nothing
        BY <1>5, <1>9, <3>2 DEF Doing
      <3>3. QED BY <1>2, <3>1, <3>2
    <2>2. OperationPending' => \E d \in Calls : task'[d].at = "publishing"
      BY <1>4, <1>8
    <2>3. QED BY <1>1, <1>2, <1>5, <2>1, <2>2 DEF PlaceInv
  <1>14. UnsettledInv'
    <2> SUFFICES ASSUME NEW a \in envelopes', Unsettled(a)'
                 PROVE  Resumes(a)'
      BY DEF UnsettledInv
    <2>1. CASE a \in envelopes
      <3>1. Unsettled(a) BY <1>2, <1>10, UnsettledBefore
      <3>2. QED BY <1>1, <1>2, <1>5, <2>1, <3>1 DEF UnsettledInv, Resumes
    <2>2. CASE a = intent /\ intent # Nothing
      BY <1>1, <1>2, <1>5, <2>2 DEF PlaceInv, Resumes
    <2>3. QED BY <1>2, <2>1, <2>2
  <1>15. QED
    BY <1>3, <1>10, <1>11, <1>12, <1>13, <1>14 DEF SInv, ToldInv, DriveInv

(* The checkpoint says whether the new process replays or drives. *)
LEMMA RestartSerial ==
  ASSUME NInv, SInv, Restart PROVE SInv'
  <1>1. /\ MachineForgotten /\ envelopes' = envelopes /\ durable' = disk.snapshot
        /\ disk'.snapshot = disk.snapshot
    BY DEF Restart, Restore, Join, NInv, NativeTypeOK
  <1>2. /\ phase' = "clean" /\ intent' = Nothing /\ receipt' = Nothing
        /\ ~OperationPending'
    BY <1>1 DEF MachineForgotten, OperationPending, NoOperation
  <1>3. ASSUME NEW c \in Calls
        PROVE  (task'[c] = task[c] /\ ~Busy(c)) \/ (task'[c].at = "lost" /\ Busy(c))
    BY DEF Restart, Over, NewTask
  <1>4. Quiet'
    BY <1>3 DEF Quiet, Busy, Pending, Saving
  <1>5. Kept /\ (ToldShipped' => ToldShipped)
    BY <1>3 DEF Kept, ToldShipped, Busy, Pending, Saving
  <1>6. One'
    BY <1>4 DEF One, Quiet
  <1>7. CrashMakesNoSecondFile'
    BY <1>1, <1>5, SecondFile, AnsweredKept DEF CrashMakesNoSecondFile
  <1>8. ToldInv'
    BY <1>1, <1>2, <1>5, RepMode DEF SInv, ToldInv, DriveInv, PlaceInv, Rep, Replaying
  <1>9. ASSUME ~Rep' PROVE DriveInv'
    <2>1. disk.snapshot.receipt = Nothing
      BY <1>1, <1>2, <1>9 DEF Rep
    <2>2. ~Rep
      BY <2>1, RepMode DEF Replaying
    <2>3. \A c \in Calls : FreshFacts(c)'
      BY <1>4 DEF FreshFacts, IsSaving, Quiet, Busy, Pending
    <2>4. disk.snapshot.phase # "shipped"
      BY <2>1 DEF NInv, SnapshotInv, TrueOf
    <2>5. PlaceInv'
      BY <1>1, <1>2, <2>4 DEF PlaceInv
    <2>6. UnsettledInv'
      BY <1>1, <1>2, <1>5, <2>2, UnsettledBefore DEF SInv, DriveInv, UnsettledInv, Resumes
    <2>7. QED BY <2>3, <2>5, <2>6 DEF DriveInv
  <1>10. QED BY <1>6, <1>7, <1>8, <1>9 DEF SInv

LEMMA SerialInit == NativeInit => SInv
  <1> SUFFICES ASSUME NativeInit PROVE SInv
    OBVIOUS
  <1>1. \A c \in Calls : task[c].at = "new"
    BY DEF NativeInit, NewTask
  <1>2. /\ phase = "clean" /\ intent = Nothing /\ receipt = Nothing /\ envelopes = {}
        /\ ~OperationPending /\ durable = Clean /\ disk.snapshot = Clean
    BY DEF NativeInit, Init, NoOperation, OperationPending
  <1>3. One /\ ToldInv /\ CrashMakesNoSecondFile
    BY <1>1, <1>2 DEF One, ToldInv, ToldShipped, CrashMakesNoSecondFile, Busy, Pending,
                      Saving
  <1>4. \A c \in Calls : FreshFacts(c)
    BY <1>1 DEF FreshFacts, IsSaving, Saving
  <1>5. PlaceInv /\ UnsettledInv
    BY <1>2 DEF PlaceInv, UnsettledInv, Clean
  <1>6. QED BY <1>3, <1>4, <1>5 DEF SInv, DriveInv

LEMMA SerialStutter ==
  ASSUME SInv, UNCHANGED nativeVars PROVE SInv'
  <1>1. /\ UNCHANGED <<phase, turnID, intent, receipt, operation, call, envelopes>>
        /\ UNCHANGED <<disk, durable, task>>
    BY DEF nativeVars, native, vars, entryVars, hubVars
  <1>2. /\ One' /\ ToldInv' /\ Rep' = Rep
        /\ CrashMakesNoSecondFile' = CrashMakesNoSecondFile
    BY <1>1 DEF SInv, One, ToldInv, ToldShipped, Quiet, Busy, Rep,
                CrashMakesNoSecondFile, Answered
  <1>3. DriveInv' = DriveInv
    BY <1>1 DEF DriveInv, FreshFacts, MachineSnapshot, PlaceInv, OperationPending,
                Doing, Answered, Busy, UnsettledInv, Unsettled, Resumes
  <1>4. QED BY <1>2, <1>3 DEF SInv

LEMMA SerialStep ==
  ASSUME MaxParallel = 1, NInv, SInv, [NativeNext]_nativeVars
  PROVE  SInv'
  <1>1. CASE Arrival
    BY <1>1, AnsweredSerial, BeginSerial DEF Arrival
  <1>2. CASE Operate
    BY <1>2, OperateSerial
  <1>3. CASE Restart
    BY <1>3, RestartSerial
  <1>4. ASSUME NEW c \in Calls, TaskStep(c) PROVE SInv'
    BY <1>4, LoadSerial, WriteSerial, ReadSerial, SaveFailsSerial, PublishSerial,
       ReturnSerial, ShippingSerial DEF TaskStep
  <1>5. CASE UNCHANGED nativeVars
    BY <1>5, SerialStutter
  <1>6. QED BY <1>1, <1>2, <1>3, <1>4, <1>5 DEF NativeNext

LEMMA SerialInvariance ==
  ASSUME MaxParallel = 1
  PROVE  NativeSpec => [](NInv /\ SInv)
  <1>1. NInv /\ SInv /\ [NativeNext]_nativeVars => SInv'
    BY SerialStep
  <1>2. QED BY NativeInvariance, SerialInit, <1>1, PTL DEF NativeSpec

(* Only the pending operation writes to the hub. *)
LEMMA OnlyOperateWrites ==
  ASSUME [NativeNext]_nativeVars, ~Operate
  PROVE  envelopes' = envelopes
  <1>0. UNCHANGED vars => envelopes' = envelopes
    BY DEF vars, hubVars
  <1>1. CASE Arrival
    <2>1. ASSUME NEW m, BeginTurn(m) PROVE envelopes' = envelopes
      BY <2>1, <1>0 DEF BeginTurn, BeginCleanTurn, BeginNextTurn, hubVars
    <2>2. ASSUME NEW c \in Calls, NEW x \in Contents, NEW handoff \in BOOLEAN,
                 \/ ReplayShipped(c, x, handoff) \/ ReplayRestored(c, x, handoff)
                 \/ Begin(c, x, handoff)
          PROVE  envelopes' = envelopes
      <3>1. UNCHANGED vars \/ BeginTurn(MessageID(handoff))
        BY <2>2, Zenon DEF ReplayShipped, ReplayRestored, Begin
      <3> QED BY <1>0, <2>1, <3>1
    <2> QED BY <1>1, <2>2, Zenon DEF Arrival
  <1>2. CASE Restart
    BY <1>2 DEF Restart
  <1>3. ASSUME NEW c \in Calls, TaskStep(c) PROVE envelopes' = envelopes
    BY <1>3 DEF TaskStep, Load, Write, Read, SaveFails, Publish, PublishConflict,
                PublishReplay, PublishJoin, PublishStart, PublishHandoff, Return,
                StatusKnown, EndKnown, HubFails, EndSession, Shipped, vars, hubVars
  <1>4. CASE UNCHANGED nativeVars
    BY <1>4 DEF nativeVars, vars, hubVars
  <1>5. QED BY <1>1, <1>2, <1>3, <1>4 DEF NativeNext

(* The client's retry after a crash, however often the process dies between  *)
(* two awaits, makes no second file of a body that no call for it answered.  *)
THEOREM CrashSafe ==
  ASSUME MaxParallel = 1
  PROVE  NativeSpec => []CrashMakesNoSecondFile
  <1>1. NInv /\ SInv => CrashMakesNoSecondFile
    BY SecondFile
  <1>2. QED BY SerialInvariance, <1>1, PTL

(* A client that waits for each answer, and was told shipped, publishes      *)
(* nothing any more, in this process or in one started after it.             *)
THEOREM ShippedIsLast ==
  ASSUME MaxParallel = 1
  PROVE  NativeSpec => NothingAfterShipment
  <1>1. NInv /\ SInv /\ [NativeNext]_nativeVars => (ToldShipped => envelopes' = envelopes)
    <2> SUFFICES ASSUME NInv, SInv, [NativeNext]_nativeVars, ToldShipped
                 PROVE  envelopes' = envelopes
      OBVIOUS
    <2>1. ~Operate
      <3> SUFFICES ASSUME Operate PROVE FALSE
        OBVIOUS
      <3>1. OperationPending /\ phase # "clean"
        BY OperationShape DEF Operate, NInv
      <3>2. ~Rep BY <3>1 DEF Rep
      <3>3. PICK c \in Calls : task[c].at = "publishing"
        BY <3>1, <3>2 DEF SInv, DriveInv, PlaceInv
      <3>4. QED BY <3>2, <3>3 DEF SInv, ToldInv, Quiet, Busy, Pending
    <2>2. QED BY <2>1, OnlyOperateWrites
  <1>2. QED
    BY SerialInvariance, <1>1, PTL DEF NativeSpec, NothingAfterShipment
=============================================================================
