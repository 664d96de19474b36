------------------------------ MODULE AcpHost ------------------------------
(***************************************************************************)
(* The host of an ACP agent: AcpCoordinationHarness                        *)
(* (src/src/acp-coordination.ts), the AcpSession it prompts                *)
(* (src/src/acp-client.ts:469-560), the permission brokers                 *)
(* (src/src/acp-permission.ts), and the tool endpoint and provider gate    *)
(* that runGrokAcp() (src/src/grok-acp-runner.ts) wires around them.       *)
(* The read loop handles one inbound message at a time, so that while a    *)
(* question is on the screen no update and no answer of the agent is read; *)
(* tool calls and provider requests come over HTTP and do not wait for it. *)
(* The abort, the timeout and a dead agent may end a prompt at any moment, *)
(* and the answer to a question may come after its turn has ended.         *)
(***************************************************************************)
EXTENDS AcpPermission, Naturals, FiniteSets, FiniteSetsExt

CONSTANTS
  PermissionRequests,  \* the questions the agent asks
  ReadOnly,            \* BOOLEAN: the graphify tools are there
  MaxTurns,            \* bound: prompts of the session
  MaxGrants,           \* 16 in the code: grants not yet used
  MaxAllowed,          \* bound: times the user allows the same operation
  Escalation,          \* 10 in the code: HANDOFF_ESCALATION_REQUEST
  NoQuestion

ASSUME QuestionsAreRequests == PermissionRequests \subseteq PermissionRequest
ASSUME ReadOnlyIsBoolean    == ReadOnly \in BOOLEAN
ASSUME NoQuestionIsNone      == NoQuestion \notin PermissionRequests
ASSUME AcpBounds == {MaxTurns, MaxGrants, MaxAllowed, Escalation} \subseteq Nat \ {0}

VARIABLES
  critic,            \* the role is reviewer or critic
  acpTurn, acpStage, \* the prompts so far; where the last one is
  acpActive,         \* activeTurn is set
  gate,              \* the flags and counters of the turn
  prompting,         \* AcpSession.activePrompt: "none", "live" or "cancelled"
  reply, spoke,      \* the result of session.prompt(); there was output text
  shipment,          \* the publication machine: "open", "published", "shipped"
  question,          \* the request on the screen
  allowances,        \* pendingGrants, as a bag of operations
  toolCalls,         \* calls past their grant: publishing or enforcing
  outcome,           \* how the last prompt() ended
  answer,            \* the last answer to a question of the agent
  allowedCount, usedCount,  \* history: per operation, grants given and calls let through
  executions,        \* history: execute grants of the turn
  free               \* history: requests of the turn, after its execution, with reading tools

acpVars == <<critic, acpTurn, acpStage, acpActive, gate, prompting, reply,
             spoke, shipment, question, allowances, toolCalls, outcome, answer, allowedCount,
             usedCount, executions, free>>

Operations == OrganumTools \X Bodies

FreshGate == [shipped |-> FALSE, enforced |-> FALSE, executed |-> FALSE,
              reproduced |-> FALSE, after |-> 0]

AcpInit ==
  /\ critic \in BOOLEAN
  /\ acpTurn = 0 /\ acpStage = "idle" /\ acpActive = FALSE /\ gate = FreshGate
  /\ prompting = "none" /\ reply = "none" /\ spoke = FALSE /\ shipment = "open"
  /\ question = NoQuestion /\ toolCalls = {}
  /\ allowances = [o \in Operations |-> 0]
  /\ allowedCount = [o \in Operations |-> 0] /\ usedCount = [o \in Operations |-> 0]
  /\ outcome = "none" /\ answer = "none"
  /\ executions = 0 /\ free = 0

turnVars   == <<acpTurn, acpStage, acpActive, prompting, reply, spoke, outcome>>
permitVars == <<question, answer, allowances, allowedCount, executions>>
modeVars   == <<critic>>
-----------------------------------------------------------------------------
(***************************************************************************)
(* prompt(): it joins, polls and begins the turn before activeTurn is set; *)
(* a shipped root throws.                                                  *)
(***************************************************************************)
OpenTurn ==
  /\ acpStage = "idle" /\ ~acpActive /\ acpTurn < MaxTurns
  /\ acpStage' = "opening" /\ acpTurn' = acpTurn + 1
  /\ UNCHANGED <<modeVars, acpActive, gate, prompting, reply, spoke, shipment, outcome,
                 permitVars, toolCalls, usedCount, free>>

OpenFails ==
  /\ acpStage = "opening" /\ acpStage' = "idle" /\ outcome' = "thrown"
  /\ UNCHANGED <<modeVars, acpTurn, acpActive, gate, prompting, reply, spoke, shipment,
                 permitVars, toolCalls, usedCount, free>>

StartTurn ==
  /\ acpStage = "opening" /\ shipment # "shipped"
  /\ acpStage' = "starting" /\ acpActive' = TRUE
  /\ gate' = FreshGate /\ spoke' = FALSE /\ executions' = 0 /\ free' = 0
  /\ UNCHANGED <<modeVars, acpTurn, prompting, reply, shipment, outcome, question,
                 answer, allowances, allowedCount, toolCalls, usedCount>>

(* beforePrompt() is over and session/prompt is sent. *)
SendPrompt ==
  /\ acpStage = "starting"
  /\ acpStage' = "prompting" /\ prompting' = "live"
  /\ UNCHANGED <<modeVars, acpTurn, acpActive, gate, reply, spoke, shipment, outcome,
                 permitVars, toolCalls, usedCount, free>>

(* The abort of the run: session/cancel is sent and later updates are dropped. *)
AbortPrompt ==
  /\ prompting = "live" /\ prompting' = "cancelled"
  /\ UNCHANGED <<modeVars, acpTurn, acpStage, acpActive, gate, reply, spoke, shipment,
                 outcome, permitVars, toolCalls, usedCount, free>>

(* An update of a live prompt: text, or the exit-0 run of a declared command. *)
AgentUpdates ==
  /\ prompting = "live" /\ question = NoQuestion
  /\ \/ spoke' = TRUE /\ UNCHANGED gate
     \/ gate' = [gate EXCEPT !.reproduced = TRUE] /\ UNCHANGED spoke
  /\ UNCHANGED <<modeVars, acpTurn, acpStage, acpActive, prompting, reply, shipment,
                 outcome, permitVars, toolCalls, usedCount, free>>

(* The stop reason "cancelled", or a cancel asked for, is not admitted. *)
PromptAnswers ==
  /\ acpStage = "prompting" /\ question = NoQuestion
  /\ \/ reply' = "cancelled"
     \/ prompting = "live" /\ reply' = "admitted"
  /\ acpStage' = "answered" /\ prompting' = "none"
  /\ UNCHANGED <<modeVars, acpTurn, acpActive, gate, spoke, shipment, outcome,
                 permitVars, toolCalls, usedCount, free>>

(* beforePrompt() or the prompt rejects: an enforced shipment is the       *)
(* cancelled result it caused, anything else discards the turn and throws. *)
PromptThrows ==
  /\ acpStage \in {"starting", "prompting"} /\ prompting' = "none"
  /\ \/ /\ gate.shipped /\ gate.enforced
        /\ reply' = "cancelled" /\ acpStage' = "answered"
        /\ UNCHANGED <<acpActive, outcome>>
     \/ /\ ~(gate.shipped /\ gate.enforced)
        /\ acpStage' = "idle" /\ acpActive' = FALSE /\ outcome' = "thrown" /\ UNCHANGED reply
  /\ UNCHANGED <<modeVars, acpTurn, gate, spoke, shipment, permitVars, toolCalls,
                 usedCount, free>>

Heard ==
  \/ gate.enforced /\ shipment = "shipped"
  \/ reply = "admitted" /\ spoke

(* The items of a turn that was heard are admitted; another is discarded.  *)
SettleTurn ==
  /\ acpStage = "answered"
  /\ \/ /\ Heard /\ acpStage' = "admitting" /\ UNCHANGED <<acpActive, outcome>>
     \/ /\ ~Heard /\ acpStage' = "idle" /\ acpActive' = FALSE
        /\ outcome' = "unheard"
  /\ UNCHANGED <<modeVars, acpTurn, gate, prompting, reply, spoke, shipment, permitVars,
                 toolCalls, usedCount, free>>

AdmitReturns ==
  /\ acpStage = "admitting" /\ acpStage' = "idle" /\ acpActive' = FALSE
  /\ outcome' = IF shipment = "shipped" THEN "conformant" ELSE "heard"
  /\ UNCHANGED <<modeVars, acpTurn, gate, prompting, reply, spoke, shipment, permitVars,
                 toolCalls, usedCount, free>>

AdmitThrows ==
  /\ acpStage = "admitting" /\ acpStage' = "idle" /\ acpActive' = FALSE
  /\ outcome' = "thrown"
  /\ UNCHANGED <<modeVars, acpTurn, gate, prompting, reply, spoke, shipment, permitVars,
                 toolCalls, usedCount, free>>
-----------------------------------------------------------------------------
(***************************************************************************)
(* The permission brokers.  A critic may run the declared command once a   *)
(* turn and write nothing; the policy is asked before the question and     *)
(* again when it is granted.                                               *)
(***************************************************************************)

NativePolicyHolds(q) ==
  \/ ~critic
  \/ /\ q.variant # "Write"
     /\ CommandOf(q) # "none" => ~gate.executed /\ CommandOf(q) = "declared"

PendingGrants == MapThenSumSet(LAMBDA o : allowances[o], Operations)

MayAsk(q) ==
  /\ Parses(q, ReadOnly) /\ q.bound /\ acpActive /\ OffersBoth(q)
  /\ \/ Router(q, ReadOnly) = "native" /\ NativePolicyHolds(q)
     \/ /\ Router(q, ReadOnly) = "organum" /\ PendingGrants < MaxGrants
        /\ allowedCount[OperationOf(q)] < MaxAllowed

AskUser(q) ==
  /\ question = NoQuestion /\ MayAsk(q)
  /\ question' = q /\ answer' = "none"
  /\ UNCHANGED <<modeVars, turnVars, gate, shipment, allowances, allowedCount,
                 executions, toolCalls, usedCount, free>>

(* A read-only tool of the allow-list is allowed without a question; what  *)
(* no broker may ask is refused.                                           *)
AnswerAtOnce(q) ==
  /\ question = NoQuestion /\ ~MayAsk(q)
  /\ answer' = IF /\ Router(q, ReadOnly) = "integration" /\ ParsesAsIntegration(q)
                  /\ q.bound /\ acpActive /\ q.name \in ReadOnlyTools /\ OffersBoth(q)
               THEN "allow_once" ELSE Refusal(q)
  /\ UNCHANGED <<modeVars, turnVars, gate, shipment, question, allowances, allowedCount,
                 executions, toolCalls, usedCount, free>>

(* The user rejects, cancels, or the presenter throws. *)
UserRefuses ==
  /\ question # NoQuestion /\ question' = NoQuestion
  /\ answer' \in {Refusal(question), "cancelled"}
  /\ UNCHANGED <<modeVars, turnVars, gate, shipment, allowances, allowedCount,
                 executions, toolCalls, usedCount, free>>

(* The broker does not look again whether the turn is still active. *)
UserAllowsPublication ==
  /\ question # NoQuestion /\ Router(question, ReadOnly) = "organum"
  /\ LET o == OperationOf(question) IN
     /\ allowances' = [allowances EXCEPT ![o] = @ + 1]
     /\ allowedCount' = [allowedCount EXCEPT ![o] = @ + 1]
  /\ question' = NoQuestion /\ answer' = "allow_once"
  /\ UNCHANGED <<modeVars, turnVars, gate, shipment, executions, toolCalls, usedCount, free>>

(* observeNativePermissionGrant() refuses what the policy no longer holds for. *)
UserAllowsNative ==
  /\ question # NoQuestion /\ Router(question, ReadOnly) = "native"
  /\ LET bears    == critic /\ CommandOf(question) # "none"
         executes == bears /\ NativePolicyHolds(question) IN
     /\ answer' = IF bears => executes THEN "allow_once" ELSE Refusal(question)
     /\ gate' = [gate EXCEPT !.executed = @ \/ executes]
     /\ executions' = executions + (IF executes THEN 1 ELSE 0)
  /\ question' = NoQuestion
  /\ UNCHANGED <<modeVars, turnVars, shipment, allowances, allowedCount, toolCalls,
                 usedCount, free>>
-----------------------------------------------------------------------------
(***************************************************************************)
(* A call of a publication tool spends a grant of the same operation and   *)
(* arguments, passes the evidence gate of a critic, and publishes.  The    *)
(* body Bodies fixes as claiming needs a reproduction the host has seen.   *)
(***************************************************************************)
Claiming == CHOOSE b \in Bodies : TRUE

EvidenceGate(b) == critic /\ ~gate.reproduced => b # Claiming

(* Fault: the grant is found and left in the list. *)
KeepGrant(o) == allowances[o] > 0 /\ UNCHANGED allowances

SpendGrant(o) == allowances[o] > 0 /\ allowances' = [allowances EXCEPT ![o] = @ - 1]

CallTool(o) ==
  /\ acpActive /\ SpendGrant(o)
  /\ usedCount' = [usedCount EXCEPT ![o] = @ + 1]
  /\ toolCalls' = IF EvidenceGate(o[2])
                  THEN toolCalls \cup {[operation |-> o, at |-> "publishing"]} ELSE toolCalls
  /\ UNCHANGED <<modeVars, turnVars, gate, shipment, question, answer, allowedCount,
                 executions, free>>

(* publish() throws, or posts, or with a handoff ships; a shipped entry    *)
(* answers every repetition with its evidence.                             *)
PublishThrows(c) ==
  /\ c.at = "publishing" /\ toolCalls' = toolCalls \ {c}
  /\ UNCHANGED <<modeVars, turnVars, gate, shipment, permitVars, usedCount, free>>

PublishPosts(c) ==
  /\ c.at = "publishing" /\ c.operation[1] = "organum_publish" /\ shipment # "shipped"
  /\ shipment' = "published" /\ toolCalls' = toolCalls \ {c}
  /\ UNCHANGED <<modeVars, turnVars, gate, permitVars, usedCount, free>>

(* The terminal publication cancels the prompt, when there still is one.   *)
PublishShips(c) ==
  /\ c.at = "publishing"
  /\ c.operation[1] = "organum_handoff" \/ shipment = "shipped"
  /\ shipment' = "shipped"
  /\ \/ /\ prompting = "none"
        /\ gate' = [gate EXCEPT !.shipped = TRUE, !.enforced = FALSE]
        /\ toolCalls' = toolCalls \ {c} /\ UNCHANGED prompting
     \/ /\ prompting # "none" /\ prompting' = "cancelled"
        /\ gate' = [gate EXCEPT !.shipped = TRUE]
        /\ toolCalls' = (toolCalls \ {c}) \cup {[c EXCEPT !.at = "enforcing"]}
  /\ UNCHANGED <<modeVars, acpTurn, acpStage, acpActive, reply, spoke, outcome,
                 permitVars, usedCount, free>>

(* The cancel is written, or the transport has failed. *)
Enforced(c) ==
  /\ c.at = "enforcing" /\ toolCalls' = toolCalls \ {c}
  /\ \/ gate' = [gate EXCEPT !.enforced = TRUE]
     \/ UNCHANGED gate
  /\ UNCHANGED <<modeVars, turnVars, shipment, permitVars, usedCount, free>>
-----------------------------------------------------------------------------
(***************************************************************************)
(* applyNativeExecutionToolGate(): what a provider request of a critic may *)
(* still offer.  After the execution the terminal is gone; from request    *)
(* number Escalation on there is only the way to the handoff: search_tool  *)
(* once, then use_tool; after the shipment there is nothing.               *)
(***************************************************************************)
ReviewerTools == {"read_file", "run_terminal_command", "search_tool", "use_tool"}

ForcedTool(n) ==
  CASE n < Escalation -> "none"
    [] n = Escalation -> "search_tool"
    [] n > Escalation -> "use_tool"

Offered(n) ==
  IF gate.shipped THEN {}
  ELSE {x \in ReviewerTools :
          /\ gate.executed => x # "run_terminal_command"
          /\ gate.executed /\ ForcedTool(n) # "none" => x = ForcedTool(n)}

ProviderRequest ==
  /\ critic /\ gate.after <= Escalation
  /\ LET n == IF gate.executed /\ ~gate.shipped THEN gate.after + 1 ELSE gate.after IN
     /\ gate' = [gate EXCEPT !.after = n]
     /\ free' = IF gate.executed /\ "read_file" \in Offered(n) THEN free + 1 ELSE free
  /\ UNCHANGED <<modeVars, turnVars, shipment, permitVars, toolCalls, usedCount>>

AcpNext ==
  \/ OpenTurn \/ OpenFails \/ StartTurn \/ SendPrompt \/ AbortPrompt \/ AgentUpdates
  \/ PromptAnswers \/ PromptThrows \/ SettleTurn \/ AdmitReturns \/ AdmitThrows
  \/ \E q \in PermissionRequests : AskUser(q) \/ AnswerAtOnce(q)
  \/ UserRefuses \/ UserAllowsPublication \/ UserAllowsNative \/ ProviderRequest
  \/ \E o \in Operations : CallTool(o)
  \/ \E c \in toolCalls : PublishThrows(c) \/ PublishPosts(c) \/ PublishShips(c) \/ Enforced(c)

AcpSpec == AcpInit /\ [][AcpNext]_acpVars
-----------------------------------------------------------------------------
(* A permission is good for one call: however questions, late answers,     *)
(* turns and tool calls interleave, a tool call with some arguments goes   *)
(* through at most as often as the user has allowed exactly it.            *)
GrantsAreOneShot ==
  \A o \in Operations : usedCount[o] + allowances[o] <= allowedCount[o]

(* A critic runs at most one command a turn, also when the answer to the   *)
(* question of an earlier turn arrives late, and from then on fewer than   *)
(* Escalation provider requests may still read before the handoff is the   *)
(* only way on.                                                            *)
CriticIsBounded == executions <= 1 /\ free < Escalation

=============================================================================
