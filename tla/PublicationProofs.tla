-------------------------- MODULE PublicationProofs --------------------------
(***************************************************************************)
(* Safety of the publication state machine for any number of turns,        *)
(* contents and callers.  The properties are not inductive: they lean on   *)
(* what beginTurn() and a rejected prompt can still do while an operation  *)
(* is pending, which the conjuncts of Inv say.                             *)
(***************************************************************************)
EXTENDS Publication, TLAPS

(* What the entry says of the hub. *)
EntryInv ==
  /\ receipt # Nothing => receipt = intent /\ receipt \in envelopes
  /\ IF intent = Nothing THEN posted = {} ELSE posted \subseteq {intent}
  /\ phase = "clean" => intent = Nothing /\ ~OperationPending /\ reminders = 0
  /\ phase = "published" => receipt # Nothing
  /\ phase = "shipped" => receipt # Nothing /\ shippedFile = receipt
  /\ endAttempted /\ receipt # Nothing /\ shippedFile # Nothing
       => shippedFile = receipt
  /\ endAttempted /\ receipt = Nothing
       => shippedFile = Nothing /\ operation.stage # "end"

(* What a pending operation may rely on: an end command carries the receipt *)
(* it was issued with, which the entry still holds or has dropped.          *)
OperationInv ==
  /\ operation.stage = "post" => intent # Nothing /\ receipt = Nothing
  /\ operation.stage = "end" =>
       /\ operation.file \in envelopes /\ shippedFile = Nothing
       /\ receipt # Nothing => operation.file = receipt

(* A pending prompt belongs to an unfinished obligation; only a delivered   *)
(* one leaves a mark.                                                       *)
ReminderInv ==
  /\ reminder.stage = "prompt" =>
       /\ prompts = 0
       /\ reminders = (IF reminder.mine THEN 1 ELSE 0)
       /\ reminder.previous \notin {"clean", "shipped", "nonconformant"}
       /\ phase # "nonconformant"
       /\ reminder.previous = "published" => receipt # Nothing /\ phase # "published"
  /\ reminder.stage # "prompt" => prompts = reminders
  /\ phase = "nonconformant" => prompts = 1

CallInv ==
  \A c \in Calls :
    call[c].pc = "waiting" =>
      /\ OperationPending
      /\ intent # Nothing => call[c].content = intent.content

Inv == TypeOK /\ EntryInv /\ OperationInv /\ ReminderInv /\ CallInv /\ EvidenceIsTrue

-----------------------------------------------------------------------------
LEMMA InitInv == Init => Inv
  <1> SUFFICES ASSUME Init PROVE Inv
    OBVIOUS
  <1>1. TypeOK
    BY DEF Init, TypeOK, NoOperation, NoReminder, OperationType, ReminderType,
           CallType, Phases
  <1>2. EntryInv /\ OperationInv /\ ReminderInv
    BY DEF Init, EntryInv, OperationInv, ReminderInv, NoOperation, NoReminder,
           OperationPending
  <1>3. CallInv /\ EvidenceIsTrue
    BY DEF Init, CallInv, EvidenceIsTrue
  <1>4. QED BY <1>1, <1>2, <1>3 DEF Inv

(***************************************************************************)
(* The shapes of the changes to the two promises and to the callers.       *)
(***************************************************************************)
LEMMA OperationShapes ==
  ASSUME TypeOK
  PROVE  /\ NoOperation \in OperationType /\ NoReminder \in ReminderType
         /\ [reminder EXCEPT !.mine = FALSE] \in ReminderType
         /\ \A stage \in {"status", "note"} :
              [operation EXCEPT !.stage = stage] \in OperationType
         /\ \A stage \in {"end", "note"}, file \in Intent \cup {Nothing} :
              [operation EXCEPT !.stage = stage, !.file = file] \in OperationType
  BY DEF TypeOK, NoOperation, NoReminder, OperationType, ReminderType, Phases

LEMMA SettleShape ==
  ASSUME TypeOK, NEW pc \in {"resolved", "rejected"}, NEW shipped \in BOOLEAN,
         Settle(pc, shipped)
  PROVE  /\ call' \in [Calls -> CallType]
         /\ \A c \in Calls :
              IF call[c].pc = "waiting"
                THEN /\ call'[c].pc = pc /\ call'[c].shipped = shipped
                     /\ call'[c].content = call[c].content
                ELSE call'[c] = call[c]
  BY DEF TypeOK, Settle, CallType

LEMMA AnswerShape ==
  ASSUME TypeOK, NEW c \in Calls, NEW x \in Contents, NEW handoff \in BOOLEAN,
         NEW pc \in {"waiting", "resolved", "rejected"}, NEW shipped \in BOOLEAN,
         Answer(c, x, handoff, pc, shipped)
  PROVE  /\ call' \in [Calls -> CallType]
         /\ call'[c].pc = pc /\ call'[c].content = x /\ call'[c].shipped = shipped
         /\ \A d \in Calls : d # c => call'[d] = call[d]
  BY DEF TypeOK, Answer, CallType

(***************************************************************************)
(* Opening, replacing or discarding an obligation.                         *)
(***************************************************************************)
LEMMA TurnInv == Inv /\ Turn => Inv'
  <1> SUFFICES ASSUME Inv, NEW m \in Turns,
                      \/ BeginCleanTurn(m)
                      \/ BeginNextTurn(m)
                      \/ DiscardUnadmittedTurn(m)
               PROVE  Inv'
    BY DEF Turn
  <1> USE OperationShapes DEF Inv, NewObligation, hubVars
  <1>0. reminder'.stage = reminder.stage /\ reminder'.previous = reminder.previous
        /\ reminder'.mine = FALSE
    BY DEF TypeOK, ReminderType, BeginCleanTurn, BeginNextTurn, DiscardUnadmittedTurn
  <1>1. CASE BeginCleanTurn(m)
    <2>1. TypeOK'
      BY <1>1 DEF TypeOK, BeginCleanTurn, Phases
    <2>2. EntryInv' /\ OperationInv' /\ ReminderInv'
      BY <1>0, <1>1 DEF TypeOK, EntryInv, OperationInv, ReminderInv,
                        OperationPending, BeginCleanTurn
    <2>3. CallInv' /\ EvidenceIsTrue'
      BY <1>1 DEF CallInv, EvidenceIsTrue, OperationPending, BeginCleanTurn
    <2>4. QED BY <2>1, <2>2, <2>3
  <1>2. CASE BeginNextTurn(m)
    <2>1. TypeOK'
      BY <1>2 DEF TypeOK, BeginNextTurn, Phases
    <2>2. EntryInv' /\ OperationInv' /\ ReminderInv'
      BY <1>0, <1>2 DEF TypeOK, EntryInv, OperationInv, ReminderInv,
                        OperationPending, BeginNextTurn
    <2>3. CallInv' /\ EvidenceIsTrue'
      BY <1>2 DEF CallInv, EvidenceIsTrue, OperationPending, BeginNextTurn
    <2>4. QED BY <2>1, <2>2, <2>3
  <1>3. CASE DiscardUnadmittedTurn(m)
    <2>1. TypeOK'
      BY <1>3 DEF TypeOK, DiscardUnadmittedTurn, Phases
    <2>2. EntryInv' /\ OperationInv' /\ ReminderInv'
      BY <1>0, <1>3 DEF TypeOK, EntryInv, OperationInv, ReminderInv,
                        OperationPending, DiscardUnadmittedTurn
    <2>3. CallInv' /\ EvidenceIsTrue'
      BY <1>3 DEF CallInv, EvidenceIsTrue, OperationPending, DiscardUnadmittedTurn
    <2>4. QED BY <2>1, <2>2, <2>3
  <1>4. QED BY <1>1, <1>2, <1>3

(***************************************************************************)
(* A call of publish(): answered at once, joined, or starting an operation.*)
(***************************************************************************)
LEMMA RequestInv == Inv /\ Request => Inv'
  <1> SUFFICES ASSUME Inv, NEW c \in Calls, NEW m \in Turns, NEW x \in Contents,
                      NEW handoff \in BOOLEAN,
                      \/ PublishConflict(c, m, x, handoff)
                      \/ PublishJoin(c, m, x, handoff)
                      \/ PublishStart(c, m, x, handoff)
                      \/ PublishReplay(c, m, x)
                      \/ PublishHandoff(c, m, x)
               PROVE  Inv'
    BY DEF Request
  <1> USE NothingIsNoIntent DEF Inv, entryVars, hubVars, history
  <1>0. IntentOf(m, x) \in Intent /\ IntentOf(m, x).content = x
    BY DEF TypeOK, IntentOf, Intent
  <1>1. CASE PublishConflict(c, m, x, handoff)
    <2>1. /\ call' \in [Calls -> CallType] /\ call'[c].pc = "rejected"
          /\ \A d \in Calls : d # c => call'[d] = call[d]
      <3>1. Answer(c, x, handoff, "rejected", FALSE)
        BY <1>1, Zenon DEF PublishConflict
      <3>2. QED BY <3>1 DEF Answer, TypeOK, CallType
    <2>2. QED
      BY <1>1, <2>1 DEF PublishConflict, TypeOK, EntryInv, OperationInv,
                        ReminderInv, CallInv, EvidenceIsTrue, OperationPending
  <1>2. CASE PublishJoin(c, m, x, handoff)
    <2>1. /\ call' \in [Calls -> CallType]
          /\ call'[c].pc = "waiting" /\ call'[c].content = x
          /\ \A d \in Calls : d # c => call'[d] = call[d]
      <3>1. Answer(c, x, handoff, "waiting", FALSE)
        BY <1>2, Zenon DEF PublishJoin
      <3>2. QED BY <3>1 DEF Answer, TypeOK, CallType
    <2>2. TypeOK' /\ EntryInv' /\ OperationInv' /\ ReminderInv'
      BY <1>2, <2>1 DEF PublishJoin, TypeOK, EntryInv, OperationInv, ReminderInv,
                        OperationPending
    <2>3. CallInv' /\ EvidenceIsTrue'
      BY <1>0, <1>2, <2>1 DEF PublishJoin, Conflicts, CallInv, EvidenceIsTrue,
                              OperationPending
    <2>4. QED BY <2>2, <2>3
  <1>3. CASE PublishStart(c, m, x, handoff)
    <2>1. /\ call' \in [Calls -> CallType]
          /\ call'[c].pc = "waiting" /\ call'[c].content = x
          /\ \A d \in Calls : d # c => call'[d] = call[d]
      <3>1. Answer(c, x, handoff, "waiting", FALSE)
        BY <1>3, Zenon DEF PublishStart
      <3>2. QED BY <3>1 DEF Answer, TypeOK, CallType
    <2>2. /\ operation' \in OperationType /\ operation'.stage = "post"
          /\ intent' \in Intent /\ turnID' \in Turns /\ intent'.content = x
          /\ intent # Nothing => intent' = intent
      BY <1>0, <1>3 DEF PublishStart, Conflicts, Intent, OperationType
    <2>3. TypeOK'
      BY <1>3, <2>1, <2>2 DEF PublishStart, TypeOK, Phases
    <2>4. EntryInv' /\ OperationInv' /\ ReminderInv'
      BY <1>3, <2>2 DEF PublishStart, TypeOK, EntryInv, OperationInv,
                        ReminderInv, OperationPending
    <2>5. CallInv' /\ EvidenceIsTrue'
      BY <1>3, <2>1, <2>2 DEF PublishStart, CallInv, EvidenceIsTrue, OperationPending
    <2>6. QED BY <2>3, <2>4, <2>5
  <1>4. CASE PublishReplay(c, m, x)
    <2>1. /\ call' \in [Calls -> CallType]
          /\ call'[c].pc = "resolved" /\ call'[c].content = x
          /\ call'[c].shipped = (phase = "shipped")
          /\ \A d \in Calls : d # c => call'[d] = call[d]
      BY <1>4, AnswerShape DEF PublishReplay
    <2>2. TypeOK' /\ EntryInv' /\ OperationInv' /\ ReminderInv'
      BY <1>4, <2>1 DEF PublishReplay, TypeOK, EntryInv, OperationInv,
                        ReminderInv, OperationPending
    <2>3. receipt \in envelopes /\ receipt.content = x
      BY <1>0, <1>4 DEF PublishReplay, Conflicts, EntryInv
    <2>4. CallInv' /\ EvidenceIsTrue'
      BY <1>4, <2>1, <2>3 DEF PublishReplay, EntryInv, CallInv, EvidenceIsTrue,
                              OperationPending
    <2>5. QED BY <2>2, <2>4
  <1>5. CASE PublishHandoff(c, m, x)
    <2>1. /\ call' \in [Calls -> CallType]
          /\ call'[c].pc = "waiting" /\ call'[c].content = x
          /\ \A d \in Calls : d # c => call'[d] = call[d]
      BY <1>5, AnswerShape DEF PublishHandoff
    <2>2. operation' \in OperationType /\ operation'.stage = "status"
      BY <1>5 DEF PublishHandoff, OperationType
    <2>3. TypeOK'
      BY <1>5, <2>1, <2>2 DEF PublishHandoff, TypeOK, Phases
    <2>4. EntryInv' /\ OperationInv' /\ ReminderInv'
      BY <1>5, <2>2 DEF PublishHandoff, TypeOK, EntryInv, OperationInv,
                        ReminderInv, OperationPending
    <2>5. CallInv' /\ EvidenceIsTrue'
      BY <1>0, <1>5, <2>1, <2>2 DEF PublishHandoff, Conflicts, EntryInv, CallInv,
                        EvidenceIsTrue, OperationPending
    <2>6. QED BY <2>3, <2>4, <2>5
  <1>6. QED BY <1>1, <1>2, <1>3, <1>4, <1>5

(***************************************************************************)
(* A settled CLI call of the pending operation.  The two ways a handoff    *)
(* ends are shared by several steps.                                       *)
(***************************************************************************)
LEMMA FailShape ==
  ASSUME TypeOK, HandoffFails
  PROVE  /\ operation' \in OperationType /\ operation'.stage = "note"
         /\ call' = call /\ phase' = "end_failed"
  BY OperationShapes DEF HandoffFails, TypeOK, OperationType

LEMMA ReturnShape ==
  ASSUME TypeOK, HandoffReturns
  PROVE  /\ operation' \in OperationType /\ operation'.stage = "none"
         /\ phase' = "shipped"
         /\ call' \in [Calls -> CallType]
         /\ \A c \in Calls :
              IF call[c].pc = "waiting"
                THEN /\ call'[c].pc = "resolved" /\ call'[c].shipped = TRUE
                     /\ call'[c].content = call[c].content
                ELSE call'[c] = call[c]
  BY OperationShapes, SettleShape DEF HandoffReturns, NoOperation

LEMMA PostInv == Inv /\ (PostAnswered \/ PostFails) => Inv'
  <1> SUFFICES ASSUME Inv, PostAnswered \/ PostFails PROVE Inv'
    OBVIOUS
  <1> USE NothingIsNoIntent, OperationShapes DEF Inv, DurablePost, hubVars, history
  <1>1. CASE PostAnswered /\ operation.handoff
    <2>1. /\ operation.stage = "post" /\ operation'.stage = "status"
          /\ operation' \in OperationType
      BY <1>1 DEF PostAnswered, TypeOK, OperationType
    <2>2. TypeOK'
      BY <1>1, <2>1 DEF PostAnswered, TypeOK, OperationInv, Phases
    <2>3. EntryInv' /\ OperationInv' /\ ReminderInv'
      BY <1>1, <2>1 DEF PostAnswered, TypeOK, EntryInv, OperationInv, ReminderInv,
                        OperationPending
    <2>4. call' = call /\ envelopes \subseteq envelopes' /\ shippedFile' = shippedFile
      BY <1>1, <2>1 DEF PostAnswered
    <2>5. CallInv' /\ EvidenceIsTrue'
      BY <1>1, <2>1, <2>4 DEF PostAnswered, CallInv, EvidenceIsTrue, OperationPending
    <2>6. QED BY <2>2, <2>3, <2>5
  <1>2. CASE PostAnswered /\ ~operation.handoff
    <2>0. operation.stage = "post" /\ operation' = NoOperation /\ Settle("resolved", FALSE)
      BY <1>2, Zenon DEF PostAnswered
    <2>1. operation'.stage = "none" /\ operation' \in OperationType
      BY <2>0 DEF NoOperation
    <2>2. TypeOK'
      BY <1>2, <2>0, <2>1, SettleShape DEF PostAnswered, TypeOK, OperationInv, Phases
    <2>3. EntryInv' /\ OperationInv' /\ ReminderInv'
      BY <1>2, <2>0, <2>1 DEF PostAnswered, TypeOK, EntryInv, OperationInv, ReminderInv,
                        OperationPending
    <2>4. CallInv' /\ EvidenceIsTrue'
      BY <1>2, <2>0, <2>1, SettleShape DEF PostAnswered, OperationInv, CallInv, EvidenceIsTrue
    <2>5. QED BY <2>2, <2>3, <2>4
  <1>3. CASE PostFails
    <2>1. /\ operation.stage = "post" /\ operation'.stage = "note"
          /\ operation' \in OperationType
      BY <1>3 DEF PostFails, TypeOK, OperationType
    <2>2. TypeOK'
      BY <1>3, <2>1 DEF PostFails, TypeOK, OperationInv, Phases
    <2>3. EntryInv' /\ OperationInv' /\ ReminderInv'
      BY <1>3, <2>1 DEF PostFails, TypeOK, EntryInv, OperationInv, ReminderInv,
                        OperationPending
    <2>4. CallInv' /\ EvidenceIsTrue'
      BY <1>3, <2>1 DEF PostFails, CallInv, EvidenceIsTrue, OperationPending
    <2>5. QED BY <2>2, <2>3, <2>4
  <1>4. QED BY <1>1, <1>2, <1>3

LEMMA StatusInv == Inv /\ (StatusOpen \/ StatusNull \/ StatusFails) => Inv'
  <1> SUFFICES ASSUME Inv, StatusOpen \/ StatusNull \/ StatusFails PROVE Inv'
    OBVIOUS
  <1> USE NothingIsNoIntent DEF Inv, hubVars, history
  <1>1. CASE StatusOpen /\ receipt # Nothing /\ IssueEnd
    <2>1. /\ operation' \in OperationType /\ operation'.stage = "end"
          /\ operation'.file = receipt /\ phase' = phase /\ call' = call
      BY <1>1, OperationShapes DEF IssueEnd, TypeOK, OperationType
    <2>2. TypeOK'
      BY <1>1, <2>1 DEF StatusOpen, TypeOK
    <2>3. EntryInv' /\ OperationInv' /\ ReminderInv'
      BY <1>1, <2>1 DEF StatusOpen, TypeOK, EntryInv, OperationInv, ReminderInv,
                        OperationPending
    <2>4. CallInv' /\ EvidenceIsTrue'
      BY <1>1, <2>1 DEF StatusOpen, CallInv, EvidenceIsTrue, OperationPending
    <2>5. QED BY <2>2, <2>3, <2>4
  <1>2. CASE StatusOpen /\ receipt = Nothing /\ HandoffFails
    <2>1. TypeOK'
      BY <1>2, FailShape DEF StatusOpen, TypeOK, Phases
    <2>2. EntryInv' /\ OperationInv' /\ ReminderInv'
      BY <1>2, FailShape DEF StatusOpen, TypeOK, EntryInv, OperationInv,
                             ReminderInv, OperationPending
    <2>3. CallInv' /\ EvidenceIsTrue'
      BY <1>2, FailShape DEF StatusOpen, CallInv, EvidenceIsTrue, OperationPending
    <2>4. QED BY <2>1, <2>2, <2>3
  <1>3. CASE StatusNull /\ endAttempted /\ ObligationHeld /\ HandoffReturns
    <2>1. TypeOK'
      BY <1>3, ReturnShape DEF StatusNull, TypeOK, Phases
    <2>2. shippedFile = receipt /\ receipt \in envelopes /\ receipt = intent
      BY <1>3 DEF StatusNull, ObligationHeld, EntryInv
    <2>3. EntryInv' /\ OperationInv' /\ ReminderInv'
      BY <1>3, <2>2, ReturnShape DEF StatusNull, ObligationHeld, TypeOK, EntryInv,
                             OperationInv, ReminderInv, OperationPending
    <2>4. CallInv' /\ EvidenceIsTrue'
      BY <1>3, <2>2, ReturnShape DEF StatusNull, ObligationHeld, CallInv,
                             EvidenceIsTrue, OperationPending
    <2>5. QED BY <2>1, <2>3, <2>4
  <1>4. CASE (StatusNull \/ StatusFails) /\ HandoffFails
    <2>1. TypeOK'
      BY <1>4, FailShape DEF StatusNull, StatusFails, TypeOK, Phases
    <2>2. EntryInv' /\ OperationInv' /\ ReminderInv'
      BY <1>4, FailShape DEF StatusNull, StatusFails, TypeOK, EntryInv,
                             OperationInv, ReminderInv, OperationPending
    <2>3. CallInv' /\ EvidenceIsTrue'
      BY <1>4, FailShape DEF StatusNull, StatusFails, CallInv, EvidenceIsTrue,
                             OperationPending
    <2>4. QED BY <2>1, <2>2, <2>3
  <1>5. QED
    BY <1>1, <1>2, <1>3, <1>4 DEF StatusOpen, StatusNull, StatusFails

LEMMA EndInv == Inv /\ (EndAnswered \/ EndFails) => Inv'
  <1> SUFFICES ASSUME Inv, EndAnswered \/ EndFails PROVE Inv'
    OBVIOUS
  <1> USE NothingIsNoIntent DEF Inv, hubVars, history
  <1>0. /\ operation.stage = "end" /\ operation.file \in envelopes
        /\ operation.file \in Intent /\ shippedFile = Nothing
        /\ receipt # Nothing => operation.file = receipt /\ receipt = intent
        /\ shippedFile' \in {operation.file, Nothing}
    BY DEF EndAnswered, EndFails, OperationInv, EntryInv, TypeOK
  <1>1. CASE EndAnswered /\ ObligationHeld /\ HandoffReturns
    <2>0. shippedFile' = receipt /\ receipt = intent /\ receipt \in envelopes
      BY <1>0, <1>1 DEF EndAnswered, ObligationHeld
    <2>1. TypeOK'
      BY <1>0, <1>1, ReturnShape DEF EndAnswered, TypeOK, Phases
    <2>2. EntryInv' /\ OperationInv' /\ ReminderInv'
      BY <2>0, <1>1, ReturnShape DEF EndAnswered, ObligationHeld, TypeOK, EntryInv,
                             OperationInv, ReminderInv, OperationPending
    <2>3. CallInv' /\ EvidenceIsTrue'
      BY <1>0, <2>0, <1>1, ReturnShape DEF EndAnswered, ObligationHeld, CallInv,
                             EvidenceIsTrue, OperationPending
    <2>4. QED BY <2>1, <2>2, <2>3
  <1>2. CASE (EndAnswered \/ EndFails) /\ HandoffFails
    <2>1. TypeOK'
      BY <1>0, <1>2, FailShape DEF EndAnswered, EndFails, TypeOK, Phases
    <2>2. EntryInv' /\ OperationInv' /\ ReminderInv'
      BY <1>0, <1>2, FailShape DEF EndAnswered, EndFails, TypeOK, EntryInv,
                             OperationInv, ReminderInv, OperationPending
    <2>3. CallInv' /\ EvidenceIsTrue'
      BY <1>0, <1>2, FailShape DEF EndAnswered, EndFails, CallInv, EvidenceIsTrue,
                             OperationPending
    <2>4. QED BY <2>1, <2>2, <2>3
  <1>3. QED BY <1>1, <1>2 DEF EndAnswered, EndFails

LEMMA NotedInv == Inv /\ OperationNoted => Inv'
  <1> SUFFICES ASSUME Inv, OperationNoted PROVE Inv'
    OBVIOUS
  <1> USE DEF Inv, entryVars, hubVars, history
  <1>1. /\ operation' \in OperationType /\ operation'.stage = "none"
        /\ Settle("rejected", FALSE)
    BY OperationShapes DEF OperationNoted, NoOperation
  <1>2. TypeOK'
    BY <1>1, SettleShape DEF OperationNoted, TypeOK
  <1>3. EntryInv' /\ OperationInv' /\ ReminderInv'
    BY <1>1 DEF OperationNoted, TypeOK, EntryInv, OperationInv, ReminderInv,
                OperationPending
  <1>4. CallInv' /\ EvidenceIsTrue'
    BY <1>1, SettleShape DEF OperationNoted, CallInv, EvidenceIsTrue
  <1>5. QED BY <1>2, <1>3, <1>4

LEMMA OperationStepInv == Inv /\ OperationStep => Inv'
  BY PostInv, StatusInv, EndInv, NotedInv DEF OperationStep

(***************************************************************************)
(* The idle actions move only the phase and the reminder.                  *)
(***************************************************************************)
LEMMA IdleInv == Inv /\ (Remind \/ WriteOff \/ ReminderStep) => Inv'
  <1> SUFFICES ASSUME Inv, Remind \/ WriteOff \/ ReminderStep PROVE Inv'
    OBVIOUS
  <1> USE DEF Inv, entryVars, hubVars, history, OperationPending
  <1>1. CASE Remind
    <2>1. /\ reminder' \in ReminderType /\ reminder'.stage = "prompt"
          /\ reminder'.previous = phase /\ reminder'.mine = TRUE
      BY <1>1 DEF Remind, TypeOK, ReminderType
    <2>2. TypeOK' /\ EntryInv' /\ OperationInv' /\ CallInv' /\ EvidenceIsTrue'
      BY <1>1, <2>1 DEF Remind, IdleActs, TypeOK, Phases, EntryInv, OperationInv,
                        CallInv, EvidenceIsTrue
    <2>3. ReminderInv'
      BY <1>1, <2>1 DEF Remind, IdleActs, ReminderPending, TypeOK, EntryInv, ReminderInv
    <2>4. QED BY <2>2, <2>3
  <1>2. CASE WriteOff
    <2>1. reminder' \in ReminderType /\ reminder'.stage = "note"
      BY <1>2 DEF WriteOff, ReminderType, Phases
    <2>2. TypeOK' /\ EntryInv' /\ OperationInv' /\ CallInv' /\ EvidenceIsTrue'
      BY <1>2, <2>1 DEF WriteOff, IdleActs, TypeOK, Phases, EntryInv, OperationInv,
                        CallInv, EvidenceIsTrue
    <2>3. ReminderInv'
      BY <1>2, <2>1 DEF WriteOff, IdleActs, ReminderPending, TypeOK, ReminderInv
    <2>4. QED BY <2>2, <2>3
  <1>3. CASE PromptDelivered
    <2>1. reminder' \in ReminderType /\ reminder'.stage = "none"
      BY <1>3, OperationShapes DEF PromptDelivered, NoReminder
    <2>2. TypeOK' /\ EntryInv' /\ OperationInv' /\ CallInv' /\ EvidenceIsTrue'
      BY <1>3, <2>1 DEF PromptDelivered, TypeOK, EntryInv, OperationInv, CallInv,
                        EvidenceIsTrue
    <2>3. ReminderInv'
      BY <1>3, <2>1 DEF PromptDelivered, TypeOK, ReminderInv
    <2>4. QED BY <2>2, <2>3
  <1>4. CASE PromptRejected
    <2>1. reminder' \in ReminderType /\ reminder'.stage = "none"
      BY <1>4, OperationShapes DEF PromptRejected, NoReminder
    <2>2. TypeOK' /\ EntryInv' /\ OperationInv' /\ CallInv' /\ EvidenceIsTrue'
      BY <1>4, <2>1 DEF PromptRejected, TypeOK, ReminderType, ReminderInv, EntryInv,
                        OperationInv, CallInv, EvidenceIsTrue
    <2>3. ReminderInv'
      BY <1>4, <2>1 DEF PromptRejected, TypeOK, ReminderInv
    <2>4. QED BY <2>2, <2>3
  <1>5. CASE WriteOffNoted
    <2>1. reminder' \in ReminderType /\ reminder'.stage = "none"
      BY <1>5, OperationShapes DEF WriteOffNoted, NoReminder
    <2>2. TypeOK' /\ EntryInv' /\ OperationInv' /\ CallInv' /\ EvidenceIsTrue'
      BY <1>5, <2>1 DEF WriteOffNoted, TypeOK, EntryInv, OperationInv, CallInv,
                        EvidenceIsTrue
    <2>3. ReminderInv'
      BY <1>5, <2>1 DEF WriteOffNoted, TypeOK, ReminderInv
    <2>4. QED BY <2>2, <2>3
  <1>6. QED BY <1>1, <1>2, <1>3, <1>4, <1>5 DEF ReminderStep

LEMMA StutterInv == Inv /\ UNCHANGED vars => Inv'
  BY DEF vars, entryVars, hubVars, history, Inv, TypeOK, EntryInv, OperationInv,
         ReminderInv, CallInv, EvidenceIsTrue, OperationPending

(* Inv is an invariant of the state machine. *)
THEOREM Invariance == Spec => []Inv
  <1>1. Inv /\ [Next]_vars => Inv'
    BY TurnInv, RequestInv, OperationStepInv, IdleInv, StutterInv DEF Next
  <1>2. QED BY InitInv, <1>1, PTL DEF Spec

-----------------------------------------------------------------------------
(* Type correctness: the entry, the promises and the hub keep their types.   *)
THEOREM TypeCorrect == Spec => []TypeOK
  <1>1. Inv => TypeOK BY DEF Inv
  <1>2. QED BY Invariance, <1>1, PTL

(* A retried post never leaves two envelopes of one obligation on the hub.   *)
THEOREM OneEnvelope == Spec => []OneEnvelopePerObligation
  <1>1. Inv => OneEnvelopePerObligation
    BY DEF Inv, EntryInv, OneEnvelopePerObligation
  <1>2. QED BY Invariance, <1>1, PTL

(* A shipped entry has ended the hub session with the receipt it holds.      *)
THEOREM ShippedEnds == Spec => []ShippedMeansEnded
  <1>1. Inv => ShippedMeansEnded BY DEF Inv, EntryInv, ShippedMeansEnded
  <1>2. QED BY Invariance, <1>1, PTL

(* The non-idempotent end command is never issued to an ended session.       *)
THEOREM EndNotRepeated == Spec => []EndOnlyWhileOpen
  <1>1. Inv => EndOnlyWhileOpen BY DEF Inv, OperationInv, EndOnlyWhileOpen
  <1>2. QED BY Invariance, <1>1, PTL

(* A resolved publish() tells its caller the truth about the caller's own    *)
(* content.                                                                  *)
THEOREM TrueEvidence == Spec => []EvidenceIsTrue
  <1>1. Inv => EvidenceIsTrue BY DEF Inv
  <1>2. QED BY Invariance, <1>1, PTL

(* At most one close-out prompt, and no write-off without it.                *)
THEOREM OnePrompt == Spec => []OneCloseOutPrompt
  <1>1. Inv => OneCloseOutPrompt
    BY DEF Inv, TypeOK, ReminderInv, OneCloseOutPrompt
  <1>2. QED BY Invariance, <1>1, PTL

-----------------------------------------------------------------------------
(***************************************************************************)
(* The state machine implements DurableHandoff.  What a step does to the   *)
(* hub follows from the step; that the answers it leaves with the callers  *)
(* are truthful is EvidenceIsTrue after it.                                *)
(***************************************************************************)
LEMMA HubStep ==
  ASSUME Inv, [Next]_vars
  PROVE  /\ envelopes' = envelopes \/ \E e \in Intent : envelopes' = envelopes \cup {e}
         /\ shippedFile' = shippedFile \/ (shippedFile = Nothing /\ shippedFile' \in envelopes)
  <1> USE DEF hubVars, history
  <1>1. CASE Turn
    BY <1>1 DEF Turn, BeginCleanTurn, BeginNextTurn, DiscardUnadmittedTurn
  <1>2. CASE Request
    <2>1. ASSUME NEW c \in Calls, NEW m \in Turns, NEW x \in Contents,
                 NEW handoff \in BOOLEAN,
                 \/ PublishConflict(c, m, x, handoff)
                 \/ PublishJoin(c, m, x, handoff)
                 \/ PublishStart(c, m, x, handoff)
                 \/ PublishReplay(c, m, x)
                 \/ PublishHandoff(c, m, x)
          PROVE  UNCHANGED hubVars
      BY <2>1 DEF PublishConflict, PublishJoin, PublishStart, PublishReplay,
                  PublishHandoff
    <2>2. UNCHANGED hubVars
      BY <1>2, <2>1, Zenon DEF Request
    <2>3. QED BY <2>2
  <1>3. CASE PostAnswered \/ PostFails
    BY <1>3, NothingIsNoIntent DEF PostAnswered, PostFails, DurablePost, Inv, TypeOK,
                OperationInv
  <1>4. CASE StatusOpen \/ StatusNull \/ StatusFails \/ OperationNoted
    BY <1>4 DEF StatusOpen, StatusNull, StatusFails, OperationNoted
  <1>5. CASE EndAnswered \/ EndFails
    BY <1>5 DEF EndAnswered, EndFails, Inv, OperationInv
  <1>6. CASE Remind \/ WriteOff \/ ReminderStep
    BY <1>6 DEF Remind, WriteOff, ReminderStep, PromptDelivered, PromptRejected,
                WriteOffNoted
  <1>7. CASE UNCHANGED vars
    BY <1>7 DEF vars
  <1>8. QED
    BY <1>1, <1>2, <1>3, <1>4, <1>5, <1>6, <1>7 DEF Next, OperationStep

LEMMA ToldShape ==
  ASSUME NEW a \in CallType
  PROVE  \/ a.pc # "resolved" /\ ToldOf(a) = Nothing
         \/ a.pc = "resolved" /\ a.shipped = TRUE
              /\ ToldOf(a) = [content |-> a.content, shipped |-> TRUE]
         \/ a.pc = "resolved" /\ a.shipped = FALSE
              /\ ToldOf(a) = [content |-> a.content, shipped |-> FALSE]
  <1>1. a.shipped = TRUE \/ a.shipped = FALSE
    BY DEF CallType
  <1>2. CASE a.shipped = TRUE
    BY <1>2 DEF ToldOf
  <1>3. CASE a.shipped = FALSE
    BY <1>3 DEF ToldOf
  <1>4. QED BY <1>1, <1>2, <1>3

(* Whatever the interleaving, the answers of publish() and the end of the    *)
(* hub session keep the promise of gate S9.                                  *)
THEOREM Refinement == Spec => KeepsPromise
  <1>1. Init => Promise!Init
    BY DEF Init, Promise!Init, ToldOf
  <1>2. Inv /\ Inv' /\ [Next]_vars => [Promise!Next]_(Promise!vars)
    <2> SUFFICES ASSUME Inv, Inv', [Next]_vars
                 PROVE  Promise!Next
      OBVIOUS
    <2>1. Promise!Store /\ Promise!EndSession
      BY HubStep DEF Promise!Store, Promise!EndSession
    <2>2. ASSUME NEW c \in Calls
          PROVE  Promise!Truthful(ToldOf(call[c])')
      <3>1. call'[c] \in CallType
        BY DEF Inv, TypeOK
      <3>2. CASE ToldOf(call'[c]) = Nothing
        BY <3>2 DEF Promise!Truthful
      <3>3. CASE /\ call'[c].pc = "resolved" /\ call'[c].shipped = FALSE
                 /\ ToldOf(call'[c]) = [content |-> call'[c].content, shipped |-> FALSE]
        BY <3>3 DEF Inv, EvidenceIsTrue, Promise!Truthful, Promise!Success,
                    EnvelopeContent
      <3>4. CASE /\ call'[c].pc = "resolved" /\ call'[c].shipped = TRUE
                 /\ ToldOf(call'[c]) = [content |-> call'[c].content, shipped |-> TRUE]
        BY <3>4 DEF Inv, EvidenceIsTrue, Promise!Truthful, Promise!Shipment,
                    EnvelopeContent
      <3>5. QED BY <3>1, <3>2, <3>3, <3>4, ToldShape
    <2>3. Promise!Tell
      BY <2>2 DEF Promise!Tell
    <2>4. QED BY <2>1, <2>3 DEF Promise!Next
  <1>3. QED
    BY <1>1, <1>2, Invariance, PTL DEF Spec, KeepsPromise, Promise!Spec
=============================================================================
