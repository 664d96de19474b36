---------------------------- MODULE Publication ----------------------------
(***************************************************************************)
(* The publication state machine of one root session                       *)
(* (src/src/coordination-publish.ts, class SessionPublicationStateMachine) *)
(* against the Organum hub it drives through the CLI.                      *)
(*                                                                         *)
(* A root owes the hub one durable envelope per turn of substantive output *)
(* (an "obligation").  publish() posts it, a handoff publish() also ends   *)
(* the hub session with the receipt, an idle root is reminded once and     *)
(* then written off.  All of it runs on one thread: a step below is the    *)
(* code between two awaits, and anything may run while a promise is        *)
(* pending.  One root and one identity are modelled: roots share nothing,  *)
(* and bind() only looks the entry up.                                     *)
(***************************************************************************)
EXTENDS Integers

CONSTANTS
  Turns,      \* backend message (turn) ids
  Contents,   \* bodies together with their routing fields
  Calls,      \* callers of publish(): each has at most one call at a time
  Nothing     \* the null of the code

ASSUME NothingIsFresh == Nothing \notin Turns \cup Contents

(***************************************************************************)
(* What publish() signs: the turn of the obligation and the exact content. *)
(* The idempotency key is derived from the turn and the body, and the      *)
(* intent fixes the routing with them; a durable envelope, which the       *)
(* receipt's file names, is identified by the pair.                        *)
(***************************************************************************)
Intent == [turn : Turns, content : Contents]

ASSUME NothingIsNoIntent == Nothing \notin Intent

Phases == {"clean", "output_pending", "reminded_once", "publishing",
           "published", "publish_failed", "ending", "end_failed",
           "shipped", "nonconformant"}

VARIABLES
  phase, turnID, reminders, intent, receipt, endAttempted, \* the entry
  operation,  \* [stage, handoff, file]: the pending operation, shared by all
              \* callers; file is the receipt an end command was issued with
  reminder,   \* [stage, previous, mine]: the pending idle action
  call,       \* per caller: what it asked for and what it was told
  envelopes,  \* hub: durable envelopes
  shippedFile,\* hub: what the session was ended with; Nothing while open
  posted,     \* history: envelopes posted for the current obligation
  prompts     \* history: reminders delivered for the current obligation

OperationType == [stage : {"none", "post", "status", "end", "note"},
                  handoff : BOOLEAN, file : Intent \cup {Nothing}]
ReminderType  == [stage : {"none", "prompt", "note"}, previous : Phases,
                  mine : BOOLEAN]
CallType      == [pc : {"idle", "waiting", "resolved", "rejected"},
                  content : Contents \cup {Nothing},
                  handoff : BOOLEAN, shipped : BOOLEAN]

entryVars == <<phase, turnID, reminders, intent, receipt, endAttempted>>
hubVars   == <<envelopes, shippedFile>>
history   == <<posted, prompts>>
vars      == <<entryVars, operation, reminder, call, hubVars, history>>

NoOperation == [stage |-> "none", handoff |-> FALSE, file |-> Nothing]
NoReminder  == [stage |-> "none", previous |-> "clean", mine |-> FALSE]

OperationPending == operation.stage # "none"
ReminderPending  == reminder.stage # "none"

Init ==
  /\ phase = "clean" /\ turnID = Nothing /\ reminders = 0
  /\ intent = Nothing /\ receipt = Nothing /\ endAttempted = FALSE
  /\ operation = NoOperation
  /\ reminder = NoReminder
  /\ call = [c \in Calls |-> [pc |-> "idle", content |-> Nothing,
                              handoff |-> FALSE, shipped |-> FALSE]]
  /\ envelopes = {} /\ shippedFile = Nothing
  /\ posted = {} /\ prompts = 0

-----------------------------------------------------------------------------
(***************************************************************************)
(* Turns.  beginTurn() opens an obligation on a clean entry, replaces a    *)
(* published one by that of another turn, and otherwise changes nothing;   *)
(* it never looks at the pending operation or reminder.  observeOutput()   *)
(* is beginTurn() for a nonblank text.                                     *)
(***************************************************************************)
NewObligation ==
  /\ posted' = {} /\ prompts' = 0
  /\ reminder' = [reminder EXCEPT !.mine = FALSE]

BeginCleanTurn(m) ==
  /\ phase = "clean"
  /\ phase' = "output_pending" /\ turnID' = m
  /\ NewObligation
  /\ UNCHANGED <<reminders, intent, receipt, endAttempted, operation, call, hubVars>>

BeginNextTurn(m) ==
  /\ phase = "published"
  /\ intent = Nothing \/ intent.turn # m
  /\ phase' = "output_pending" /\ turnID' = m
  /\ reminders' = 0 /\ intent' = Nothing /\ receipt' = Nothing
  /\ endAttempted' = FALSE
  /\ NewObligation
  /\ UNCHANGED <<operation, call, hubVars>>

(* Fault: a discarded turn keeps its spent reminder. *)
DiscardKeepsReminder(m) ==
  /\ turnID = m /\ receipt = Nothing /\ intent = Nothing
  /\ ~OperationPending
  /\ phase \in {"output_pending", "reminded_once"}
  /\ phase' = "clean" /\ turnID' = Nothing
  /\ NewObligation
  /\ UNCHANGED <<reminders, intent, receipt, endAttempted, operation, call, hubVars>>

DiscardUnadmittedTurn(m) ==
  /\ turnID = m /\ receipt = Nothing /\ intent = Nothing
  /\ ~OperationPending
  /\ phase \in {"output_pending", "reminded_once"}
  /\ phase' = "clean" /\ turnID' = Nothing /\ reminders' = 0
  /\ NewObligation
  /\ UNCHANGED <<intent, receipt, endAttempted, operation, call, hubVars>>

-----------------------------------------------------------------------------
(***************************************************************************)
(* publish(): the intent is fixed by the first call of an obligation; a    *)
(* different one is a conflict.  A call that finds an operation pending    *)
(* waits for that operation, whatever its own handoff flag.  A call that   *)
(* finds a receipt gets it, or starts the handoff with it.                 *)
(***************************************************************************)
IntentOf(m, x) == [turn |-> IF turnID = Nothing THEN m ELSE turnID, content |-> x]

Free(c) == call[c].pc # "waiting"

(* Fault: a retry is not compared with the intent of the obligation. *)
NeverConflicts(i) == FALSE

Conflicts(i) == intent # Nothing /\ intent # i

Answer(c, x, handoff, pc, shipped) ==
  call' = [call EXCEPT ![c] = [pc |-> pc, content |-> x,
                               handoff |-> handoff, shipped |-> shipped]]

PublishConflict(c, m, x, handoff) ==
  /\ Free(c) /\ Conflicts(IntentOf(m, x))
  /\ Answer(c, x, handoff, "rejected", FALSE)
  /\ UNCHANGED <<entryVars, operation, reminder, hubVars, history>>

PublishJoin(c, m, x, handoff) ==
  /\ Free(c) /\ ~Conflicts(IntentOf(m, x)) /\ OperationPending
  /\ Answer(c, x, handoff, "waiting", FALSE)
  /\ UNCHANGED <<entryVars, operation, reminder, hubVars, history>>

(* Fault: the receipt of a published obligation is returned as a shipment. *)
ReplayAsShipped(c, m, x) ==
  /\ Free(c) /\ ~Conflicts(IntentOf(m, x)) /\ ~OperationPending
  /\ receipt # Nothing
  /\ Answer(c, x, FALSE, "resolved", TRUE)
  /\ UNCHANGED <<entryVars, operation, reminder, hubVars, history>>

PublishReplay(c, m, x) ==
  /\ Free(c) /\ ~Conflicts(IntentOf(m, x)) /\ ~OperationPending
  /\ receipt # Nothing
  /\ Answer(c, x, FALSE, "resolved", phase = "shipped")
  /\ UNCHANGED <<entryVars, operation, reminder, hubVars, history>>

PublishHandoff(c, m, x) ==
  /\ Free(c) /\ ~Conflicts(IntentOf(m, x)) /\ ~OperationPending
  /\ receipt # Nothing
  /\ phase' = "ending"
  /\ operation' = [stage |-> "status", handoff |-> TRUE, file |-> Nothing]
  /\ Answer(c, x, TRUE, "waiting", FALSE)
  /\ UNCHANGED <<turnID, reminders, intent, receipt, endAttempted,
                 reminder, hubVars, history>>

PublishStart(c, m, x, handoff) ==
  /\ Free(c) /\ ~Conflicts(IntentOf(m, x)) /\ ~OperationPending
  /\ receipt = Nothing
  /\ intent' = IntentOf(m, x) /\ turnID' = intent'.turn
  /\ phase' = "publishing"
  /\ operation' = [stage |-> "post", handoff |-> handoff, file |-> Nothing]
  /\ Answer(c, x, handoff, "waiting", FALSE)
  /\ UNCHANGED <<reminders, receipt, endAttempted, reminder, hubVars, history>>

-----------------------------------------------------------------------------
(***************************************************************************)
(* The pending operation.  Every CLI call may take effect and answer, take *)
(* effect and lose the answer (timeout, abort), or fail without effect.    *)
(* The hub deduplicates a post by its key.                                 *)
(***************************************************************************)
Settle(pc, shipped) ==
  call' = [c \in Calls |->
             IF call[c].pc = "waiting"
               THEN [call[c] EXCEPT !.pc = pc, !.shipped = shipped]
               ELSE call[c]]

DurablePost ==
  /\ envelopes' = envelopes \cup {intent}
  /\ posted' = posted \cup {intent}
  /\ UNCHANGED <<shippedFile, prompts>>

PostAnswered ==
  /\ operation.stage = "post"
  /\ DurablePost
  /\ receipt' = intent
  /\ \/ /\ operation.handoff
        /\ phase' = "ending"
        /\ operation' = [operation EXCEPT !.stage = "status"]
        /\ UNCHANGED call
     \/ /\ ~operation.handoff
        /\ phase' = "published"
        /\ operation' = NoOperation
        /\ Settle("resolved", FALSE)
  /\ UNCHANGED <<turnID, reminders, intent, endAttempted, reminder>>

PostFails ==
  /\ operation.stage = "post"
  /\ DurablePost \/ UNCHANGED <<hubVars, history>>
  /\ phase' = "publish_failed"
  /\ operation' = [operation EXCEPT !.stage = "note"]
  /\ UNCHANGED <<turnID, reminders, intent, receipt, endAttempted, reminder, call>>

(* The catch clause of finishHandoff(). *)
HandoffFails ==
  /\ phase' = "end_failed"
  /\ operation' = [operation EXCEPT !.stage = "note", !.file = Nothing]
  /\ UNCHANGED call

(* return evidence(entry): it throws when the obligation was replaced meanwhile. *)
ObligationHeld == intent # Nothing /\ receipt # Nothing

HandoffReturns ==
  /\ phase' = "shipped"
  /\ operation' = NoOperation
  /\ Settle("resolved", TRUE)

IssueEnd ==
  /\ operation' = [operation EXCEPT !.stage = "end", !.file = receipt]
  /\ UNCHANGED <<phase, call>>

StatusOpen ==
  /\ operation.stage = "status" /\ shippedFile = Nothing
  /\ endAttempted' = TRUE
  /\ \/ receipt # Nothing /\ IssueEnd
     \/ receipt = Nothing /\ HandoffFails
  /\ UNCHANGED <<turnID, reminders, intent, receipt, reminder, hubVars, history>>

(* Fault: a closed session counts as shipped whoever closed it. *)
NullIsShipped ==
  /\ operation.stage = "status" /\ shippedFile # Nothing
  /\ ObligationHeld /\ HandoffReturns
  /\ UNCHANGED <<turnID, reminders, intent, receipt, endAttempted, reminder,
                 hubVars, history>>

StatusNull ==
  /\ operation.stage = "status" /\ shippedFile # Nothing
  /\ \/ endAttempted /\ ObligationHeld /\ HandoffReturns
     \/ ~(endAttempted /\ ObligationHeld) /\ HandoffFails
  /\ UNCHANGED <<turnID, reminders, intent, receipt, endAttempted, reminder,
                 hubVars, history>>

StatusFails ==
  /\ operation.stage = "status"
  /\ HandoffFails
  /\ UNCHANGED <<turnID, reminders, intent, receipt, endAttempted, reminder,
                 hubVars, history>>

EndAnswered ==
  /\ operation.stage = "end" /\ shippedFile = Nothing
  /\ shippedFile' = operation.file
  /\ \/ ObligationHeld /\ HandoffReturns
     \/ ~ObligationHeld /\ HandoffFails
  /\ UNCHANGED <<turnID, reminders, intent, receipt, endAttempted, reminder,
                 envelopes, history>>

EndFails ==
  /\ operation.stage = "end"
  /\ \/ shippedFile = Nothing /\ shippedFile' = operation.file
     \/ UNCHANGED shippedFile
  /\ HandoffFails
  /\ UNCHANGED <<turnID, reminders, intent, receipt, endAttempted, reminder,
                 envelopes, history>>

(* Fault: the operation is forgotten without rejecting its callers. *)
NotedWithoutRejecting ==
  /\ operation.stage = "note"
  /\ operation' = NoOperation
  /\ UNCHANGED <<call, entryVars, reminder, hubVars, history>>

(* safeNote() settles either way, then the operation rejects. *)
OperationNoted ==
  /\ operation.stage = "note"
  /\ operation' = NoOperation
  /\ Settle("rejected", FALSE)
  /\ UNCHANGED <<entryVars, reminder, hubVars, history>>

-----------------------------------------------------------------------------
(***************************************************************************)
(* handleIdle(): the first idle of an unfinished obligation sends the      *)
(* close-out prompt, the next one writes the root off.  An idle during an  *)
(* operation is ignored, one during a pending idle action joins it.        *)
(***************************************************************************)
IdleActs ==
  /\ ~OperationPending /\ ~ReminderPending
  /\ phase \notin {"clean", "shipped", "nonconformant"}

Remind ==
  /\ IdleActs /\ reminders = 0
  /\ reminder' = [stage |-> "prompt", previous |-> phase, mine |-> TRUE]
  /\ reminders' = 1 /\ phase' = "reminded_once"
  /\ UNCHANGED <<turnID, intent, receipt, endAttempted, operation, call,
                 hubVars, history>>

WriteOff ==
  /\ IdleActs /\ reminders = 1
  /\ reminder' = [stage |-> "note", previous |-> "clean", mine |-> FALSE]
  /\ phase' = "nonconformant"
  /\ UNCHANGED <<turnID, reminders, intent, receipt, endAttempted, operation,
                 call, hubVars, history>>

PromptDelivered ==
  /\ reminder.stage = "prompt"
  /\ prompts' = IF reminder.mine THEN prompts + 1 ELSE prompts
  /\ reminder' = NoReminder
  /\ UNCHANGED <<entryVars, operation, call, hubVars, posted>>

PromptRejected ==
  /\ reminder.stage = "prompt"
  /\ reminders' = 0 /\ phase' = reminder.previous
  /\ reminder' = NoReminder
  /\ UNCHANGED <<turnID, intent, receipt, endAttempted, operation, call,
                 hubVars, history>>

WriteOffNoted ==
  /\ reminder.stage = "note"
  /\ reminder' = NoReminder
  /\ UNCHANGED <<entryVars, operation, call, hubVars, history>>

-----------------------------------------------------------------------------
Request ==
  \E c \in Calls, m \in Turns, x \in Contents :
    \/ \E handoff \in BOOLEAN : \/ PublishConflict(c, m, x, handoff)
                                \/ PublishJoin(c, m, x, handoff)
                                \/ PublishStart(c, m, x, handoff)
    \/ PublishReplay(c, m, x)
    \/ PublishHandoff(c, m, x)

OperationStep ==
  \/ PostAnswered \/ PostFails
  \/ StatusOpen \/ StatusNull \/ StatusFails
  \/ EndAnswered \/ EndFails
  \/ OperationNoted

ReminderStep == PromptDelivered \/ PromptRejected \/ WriteOffNoted

Turn == \E m \in Turns : \/ BeginCleanTurn(m)
                         \/ BeginNextTurn(m)
                         \/ DiscardUnadmittedTurn(m)

Next == Turn \/ Request \/ OperationStep \/ Remind \/ WriteOff \/ ReminderStep

Spec == Init /\ [][Next]_vars

(* Every CLI call and every prompt has a timeout, so a pending promise settles. *)
Fairness == WF_vars(OperationStep) /\ WF_vars(ReminderStep)

FairSpec == Spec /\ Fairness
-----------------------------------------------------------------------------
(* Every variable of the entry, of the promises and of the hub has its type. *)
TypeOK ==
  /\ phase \in Phases /\ turnID \in Turns \cup {Nothing} /\ reminders \in {0, 1}
  /\ intent \in Intent \cup {Nothing} /\ receipt \in Intent \cup {Nothing}
  /\ endAttempted \in BOOLEAN
  /\ operation \in OperationType /\ reminder \in ReminderType
  /\ call \in [Calls -> CallType]
  /\ envelopes \subseteq Intent /\ shippedFile \in Intent \cup {Nothing}
  /\ posted \subseteq Intent /\ prompts \in Nat

(* However often a post is retried after a timeout or an abort, and whoever  *)
(* retries it, one obligation never leaves two different envelopes on the    *)
(* hub (publish(): the intent is kept until the turn is replaced).           *)
OneEnvelopePerObligation == \A a, b \in posted : a = b

(* An entry that calls itself shipped has ended the hub session, and with    *)
(* the receipt it still holds, even when the end command's answer was lost   *)
(* and finishHandoff() concluded it from a null status.                      *)
ShippedMeansEnded ==
  phase = "shipped" => receipt # Nothing /\ shippedFile = receipt

(* No end command is ever issued to a session that is already ended: end is  *)
(* not idempotent, and only the status check and the single pending          *)
(* operation keep it from being repeated.                                    *)
EndOnlyWhileOpen == operation.stage = "end" => shippedFile = Nothing

(* A caller whose publish() resolved, also one that only joined the          *)
(* operation of another call, had its own content made durable; told         *)
(* "shipped", the session was ended with that content.                       *)
EvidenceIsTrue ==
  \A c \in Calls :
    call[c].pc = "resolved" =>
      /\ \E e \in envelopes : e.content = call[c].content
      /\ call[c].shipped => /\ shippedFile # Nothing
                            /\ shippedFile.content = call[c].content

(* An obligation is prompted at most once, and a root is written off as      *)
(* nonconformant only when its own prompt was really delivered: prompts that *)
(* were rejected, or belonged to a replaced turn, do not count.              *)
OneCloseOutPrompt ==
  /\ prompts <= 1
  /\ phase = "nonconformant" => prompts = 1

(* docs/architecture.md:60 says a shipped root is terminal: once a caller was *)
(* told so, the entry is never again in a phase that takes turns, prompts or *)
(* a write-off.  A second handoff (phase ending) may still be converging.    *)
ShippedIsTerminal ==
  (\E c \in Calls : call[c].pc = "resolved" /\ call[c].shipped)
    => phase \in {"shipped", "ending"}

(* Every publish() settles, joined calls included.                           *)
CallsSettle ==
  \A c \in Calls : call[c].pc = "waiting" ~> call[c].pc # "waiting"

(* What the surface promises is DurableHandoff, read off the hub and the     *)
(* answers the callers hold.                                                 *)
EnvelopeContent(e) == e.content

ToldOf(a) == IF a.pc = "resolved"
               THEN [content |-> a.content, shipped |-> a.shipped]
               ELSE Nothing

Promise == INSTANCE DurableHandoff WITH
             Envelopes <- Intent, ContentOf <- EnvelopeContent,
             durable <- envelopes, ended <- shippedFile,
             told <- [c \in Calls |-> ToldOf(call[c])]

(* The state machine implements the abstract handoff.                        *)
KeepsPromise == Promise!Spec
=============================================================================
