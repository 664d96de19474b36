----------------------------- MODULE NativeTools -----------------------------
(***************************************************************************)
(* The one native command a turn of Grok or Claude may run.  The broker    *)
(* holds back each complete answer of the provider and shows it to the     *)
(* projection of the surface, which asks the user about the first answer   *)
(* that proposes a command; an approved proposal is registered with the    *)
(* supervisor before the answer is handed to the backend                   *)
(* (src/src/inference-broker.ts, *-native-tool-response-projection.ts,     *)
(* *-native-tool-supervisor.ts).                                           *)
(* Grok is handed a call of a wrapper instead, and the capability to claim *)
(* the command follows over a pipe once the answer is out; the wrapper     *)
(* that reads it exchanges it for the command and runs it.  Claude is      *)
(* handed its own call and asks the supervisor from a hook just before it  *)
(* runs it.  An error anywhere closes everything.                          *)
(* A proposal stands for its call, its tool and its canonical arguments; a *)
(* capability is never guessed, so it is compared by where it is.          *)
(***************************************************************************)
EXTENDS Naturals, FiniteSets

CONSTANTS
  Proposals,   \* commands the provider may propose
  NoProposal,  \* null
  Answers,     \* answers of the provider, one per request of the turn
  Runners      \* wrapper processes, or hook processes, that get started

ASSUME NoProposalIsNone   == NoProposal \notin Proposals
ASSUME ProposalsAreNoTags == Proposals \cap {"text", "many", "malformed"} = {}

VARIABLES
  surface,              \* "grok" or "claude"
  launchStage,          \* of the command line: "running", "exited", "closed"
  settledClaim,         \* grokApprovalSettled and claudeApprovalSettled
  toolsClosed,          \* closed, of the projection and of the supervisor
  presenting,           \* busy, or approvalPending
  uncommitted,          \* pendingCommit
  admittedCalls,        \* projectedCalls, or nativeToolCallId is set
  decision,             \* what approvalConfound records
  pendingTool, stale,   \* the registered proposal, and whether its time is over
  registered, consumed, revoked,  \* counters of the supervisor
  capability,           \* "none", "held", "taken": the Buffer and its digest
  channel, writer, frame,  \* the transport, its pipe, the frame in the pipe
  stage, carried,       \* per answer: how far it is, what it proposes
  runner,               \* per process: how far it is
  approvedTool,         \* history: what the user said yes to
  granted, ran          \* history: grants, as <<process, command>>; commands run

projectionVars == <<presenting, uncommitted, admittedCalls, decision>>
supervisorVars == <<pendingTool, stale, registered, consumed, revoked, capability>>
channelVars    == <<channel, writer, frame>>
launchVars     == <<surface, launchStage, settledClaim>>
toolHistory    == <<approvedTool, granted, ran>>
toolsVars == <<launchVars, toolsClosed, projectionVars, supervisorVars, channelVars,
               stage, carried, runner, toolHistory>>

ToolsInit ==
  /\ surface \in {"grok", "claude"} /\ launchStage = "running" /\ settledClaim = FALSE
  /\ toolsClosed = FALSE /\ presenting = FALSE /\ uncommitted = FALSE
  /\ admittedCalls = 0 /\ decision = "none"
  /\ pendingTool = NoProposal /\ stale = FALSE
  /\ registered = 0 /\ consumed = 0 /\ revoked = 0 /\ capability = "none"
  /\ channel = "open" /\ writer = "none" /\ frame = FALSE
  /\ stage = [a \in Answers |-> "upstream"] /\ carried = [a \in Answers |-> NoProposal]
  /\ runner = [w \in Runners |-> "none"]
  /\ approvedTool = NoProposal /\ granted = {} /\ ran = {}

AnswerAt(a, s) == stage' = [stage EXCEPT ![a] = s]
RunnerAt(w, s) == runner' = [runner EXCEPT ![w] = s]
-----------------------------------------------------------------------------
(***************************************************************************)
(* The supervisor.                                                         *)
(***************************************************************************)
RevokePending ==
  IF pendingTool = NoProposal
  THEN UNCHANGED <<pendingTool, stale, revoked, capability>>
  ELSE /\ pendingTool' = NoProposal /\ stale' = FALSE
       /\ revoked' = revoked + 1 /\ capability' = "none"

CloseTransport == IF channel = "closed" THEN UNCHANGED channel ELSE channel' = "closed"

(* close() of the projection; the second one does nothing. *)
CloseTools ==
  IF toolsClosed THEN UNCHANGED <<toolsClosed, uncommitted, pendingTool, stale, revoked,
                                  capability, channel>>
  ELSE /\ toolsClosed' = TRUE /\ uncommitted' = FALSE
       /\ RevokePending
       /\ IF surface = "grok" THEN CloseTransport ELSE UNCHANGED channel

(* The answer is given up: abort(), and the request fails. *)
AbortAnswer(a) ==
  /\ CloseTools
  /\ AnswerAt(a, "failed")

Register(p) ==
  /\ pendingTool' = p /\ stale' = FALSE /\ registered' = registered + 1
  /\ capability' = IF surface = "grok" THEN "held" ELSE "none"
  /\ UNCHANGED <<revoked, consumed>>

(* Fault: the grant is issued and the proposal stays. *)
ConsumeAndKeep(w) ==
  /\ consumed' = consumed + 1 /\ capability' = "none"
  /\ granted' = granted \cup {<<w, pendingTool>>}
  /\ UNCHANGED <<pendingTool, stale>>

Grant(w) ==
  /\ consumed' = consumed + 1 /\ capability' = "none"
  /\ granted' = granted \cup {<<w, pendingTool>>}
  /\ pendingTool' = NoProposal /\ stale' = FALSE

(* Proposals live for proposalTtlMs, and are only looked at when claimed. *)
Expire ==
  /\ pendingTool # NoProposal /\ ~stale
  /\ stale' = TRUE
  /\ UNCHANGED <<launchVars, toolsClosed, projectionVars, pendingTool, registered, consumed,
                 revoked, capability, channelVars, stage, carried, runner, toolHistory>>
-----------------------------------------------------------------------------
(***************************************************************************)
(* The broker has the whole answer of the provider, or lost it.            *)
(***************************************************************************)
Occupied == presenting \/ (surface = "grok" /\ uncommitted)

(* Text, one command, several, or anything that is not one complete answer  *)
(* to this request.                                                        *)
Contents == {"text", "many", "malformed"} \cup Proposals

AnswerRefused(content) ==
  \/ toolsClosed
  \/ Occupied /\ (surface = "grok" \/ content # "text")
  \/ content # "text" /\ (admittedCalls # 0 \/ decision # "none")
  \/ content = "malformed"

(* The one presentation of the turn is recorded with its decision.         *)
RecordDecision(d) == decision' = d

(* The calls are cut out of the answer, and a text says why.               *)
RewriteDenial(a) == carried' = [carried EXCEPT ![a] = NoProposal]

(* Text goes through; more than one call is refused without a question. *)
Project(a) ==
  /\ stage[a] = "upstream"
  /\ \E content \in Contents :
       \/ /\ AnswerRefused(content)
          /\ AbortAnswer(a)
          /\ UNCHANGED <<presenting, admittedCalls, decision, carried>>
       \/ /\ ~AnswerRefused(content) /\ content = "text"
          /\ AnswerAt(a, "writing")
          /\ UNCHANGED <<toolsClosed, projectionVars, pendingTool, stale, revoked, capability,
                         channel, carried>>
       \/ /\ ~AnswerRefused(content) /\ content = "many"
          /\ RecordDecision("reject_once") /\ RewriteDenial(a)
          /\ CloseTools /\ AnswerAt(a, "writing")
          /\ UNCHANGED <<presenting, admittedCalls>>
       \/ /\ ~AnswerRefused(content) /\ content \in Proposals
          /\ presenting' = TRUE
          /\ AnswerAt(a, "asking")
          /\ carried' = [carried EXCEPT ![a] = content]
          /\ UNCHANGED <<toolsClosed, uncommitted, admittedCalls, decision, pendingTool, stale,
                         revoked, capability, channel>>
  /\ UNCHANGED <<launchVars, registered, consumed, writer, frame, runner, toolHistory>>

(* Lost before it was complete.  The one path with no abort() is the JSON  *)
(* answer of Claude.                                                       *)
AnswerLost(a) ==
  /\ stage[a] = "upstream"
  /\ \/ AbortAnswer(a) /\ UNCHANGED <<presenting, admittedCalls, decision>>
     \/ /\ surface = "claude" /\ AnswerAt(a, "failed")
        /\ UNCHANGED <<toolsClosed, projectionVars, pendingTool, stale, revoked, capability, channel>>
  /\ UNCHANGED <<launchVars, registered, consumed, writer, frame, carried, runner, toolHistory>>

(* The user, or the policy where there is no terminal, refuses.  What      *)
(* remains of the answer is a text.                                        *)
Deny(a) ==
  /\ stage[a] = "asking"
  /\ presenting' = FALSE /\ RecordDecision("reject_once")
  /\ admittedCalls' = IF surface = "claude" THEN 1 ELSE admittedCalls
  /\ RewriteDenial(a)
  /\ CloseTools /\ AnswerAt(a, "writing")
  /\ UNCHANGED <<launchVars, registered, consumed, writer, frame, runner, toolHistory>>

AskingFails(a) ==
  /\ stage[a] = "asking"
  /\ presenting' = FALSE /\ RecordDecision("cancelled")
  /\ AbortAnswer(a)
  /\ UNCHANGED <<launchVars, admittedCalls, registered, consumed, writer, frame, carried,
                 runner, toolHistory>>

(* The turn may have been closed while the user thought. *)
Approve(a) ==
  /\ stage[a] = "asking"
  /\ presenting' = FALSE /\ RecordDecision("allow_once")
  /\ approvedTool' = carried[a]
  /\ \/ /\ toolsClosed \/ pendingTool # NoProposal
        /\ AbortAnswer(a)
        /\ UNCHANGED <<admittedCalls, registered, consumed>>
     \/ /\ ~toolsClosed /\ pendingTool = NoProposal
        /\ Register(carried[a])
        /\ uncommitted' = (surface = "grok")
        /\ admittedCalls' = IF surface = "claude" THEN 1 ELSE admittedCalls
        /\ AnswerAt(a, "writing")
        /\ UNCHANGED <<toolsClosed, channel>>
  /\ UNCHANGED <<launchVars, writer, frame, carried, runner, granted, ran>>
-----------------------------------------------------------------------------
(***************************************************************************)
(* The answer is written out, and only then does the capability follow.    *)
(***************************************************************************)
WriteFails(a) ==
  /\ stage[a] = "writing"
  /\ AbortAnswer(a)
  /\ UNCHANGED <<launchVars, presenting, admittedCalls, decision, registered, consumed, writer,
                 frame, carried, runner, toolHistory>>

MustCommit(a) == surface = "grok" /\ carried[a] # NoProposal

AnswerWritten(a) ==
  /\ stage[a] = "writing" /\ ~MustCommit(a)
  /\ AnswerAt(a, "done")
  /\ UNCHANGED <<launchVars, toolsClosed, projectionVars, supervisorVars, channelVars, carried,
                 runner, toolHistory>>

(* takeConsumeCapability() and release(): the frame goes into the pipe.    *)
Commit(a) ==
  /\ stage[a] = "writing" /\ MustCommit(a)
  /\ \/ /\ ~toolsClosed /\ uncommitted /\ capability = "held"
        /\ channel = "open" /\ writer = "bound"
        /\ capability' = "taken" /\ channel' = "released" /\ frame' = TRUE
        /\ AnswerAt(a, "releasing")
        /\ UNCHANGED <<toolsClosed, uncommitted, pendingTool, stale, revoked>>
     \/ /\ toolsClosed \/ ~uncommitted \/ capability # "held" \/ channel # "open"
             \/ writer # "bound"
        /\ AbortAnswer(a)
        /\ UNCHANGED frame
  /\ UNCHANGED <<launchVars, presenting, admittedCalls, decision, registered, consumed, writer,
                 carried, runner, toolHistory>>

(* The projection may have been closed during the write. *)
Released(a) ==
  /\ stage[a] = "releasing"
  /\ \/ /\ uncommitted' = FALSE /\ admittedCalls' = admittedCalls + 1
        /\ AnswerAt(a, "done")
        /\ UNCHANGED <<toolsClosed, pendingTool, stale, revoked, capability, channel>>
     \/ AbortAnswer(a) /\ UNCHANGED admittedCalls
  /\ UNCHANGED <<launchVars, presenting, decision, registered, consumed, writer, frame, carried,
                 runner, toolHistory>>

(* The child is spawned with the pipe as its descriptor 9; it may go away. *)
BindWriter ==
  /\ surface = "grok" /\ writer = "none" /\ channel = "open" /\ launchStage = "running"
  /\ writer' = "bound"
  /\ UNCHANGED <<launchVars, toolsClosed, projectionVars, supervisorVars, channel, frame, stage,
                 carried, runner, toolHistory>>

PipeBreaks ==
  /\ writer = "bound"
  /\ writer' = "broken" /\ frame' = FALSE
  /\ UNCHANGED <<launchVars, toolsClosed, projectionVars, supervisorVars, channel, stage,
                 carried, runner, toolHistory>>
-----------------------------------------------------------------------------
(***************************************************************************)
(* The processes that claim the command: Grok's wrapper and Claude's hook. *)
(***************************************************************************)
StartRunner(w) ==
  /\ runner[w] = "none" /\ launchStage = "running"
  /\ RunnerAt(w, IF surface = "grok" THEN "reading" ELSE "posting")
  /\ UNCHANGED <<launchVars, toolsClosed, projectionVars, supervisorVars, channelVars, stage,
                 carried, toolHistory>>

(* One process gets the line; the others see the end of it, or time out. *)
ReadCapability(w) ==
  /\ runner[w] = "reading"
  /\ \/ frame /\ frame' = FALSE /\ RunnerAt(w, "posting")
     \/ UNCHANGED frame /\ RunnerAt(w, "gone")
  /\ UNCHANGED <<launchVars, toolsClosed, projectionVars, supervisorVars, channel, writer, stage,
                 carried, toolHistory>>

(* Any failure of a process ends it, and its command does not run. *)
RunnerFails(w) ==
  /\ runner[w] \in {"posting", "answered"}
  /\ RunnerAt(w, "gone")
  /\ UNCHANGED <<launchVars, toolsClosed, projectionVars, supervisorVars, channelVars, stage,
                 carried, toolHistory>>

Claimable == pendingTool # NoProposal /\ capability # "none" /\ ~stale

(* consume(): an unknown capability leaves the proposal, a late one not.   *)
Consume(w) ==
  /\ surface = "grok" /\ runner[w] = "posting"
  /\ \/ /\ ~toolsClosed /\ Claimable
        /\ Grant(w) /\ RunnerAt(w, "answered")
        /\ UNCHANGED revoked
     \/ /\ ~toolsClosed /\ capability # "none" /\ stale
        /\ RevokePending /\ RunnerAt(w, "gone")
        /\ UNCHANGED <<consumed, granted>>
     \/ /\ toolsClosed \/ pendingTool = NoProposal \/ capability = "none"
        /\ RunnerAt(w, "gone")
        /\ UNCHANGED <<pendingTool, stale, consumed, revoked, capability, granted>>
  /\ UNCHANGED <<launchVars, toolsClosed, projectionVars, registered, channelVars, stage,
                 carried, approvedTool, ran>>

(* evaluate(): Claude says what it is about to run.  Anything but the      *)
(* proposal, and a late claim, take the proposal away.                     *)
Evaluate(w) ==
  /\ surface = "claude" /\ runner[w] = "posting"
  /\ \E p \in Proposals :
       \/ /\ ~toolsClosed /\ pendingTool = p /\ ~stale
          /\ Grant(w) /\ RunnerAt(w, "answered")
          /\ UNCHANGED revoked
       \/ /\ ~toolsClosed /\ pendingTool # NoProposal /\ (pendingTool # p \/ stale)
          /\ RevokePending /\ RunnerAt(w, "gone")
          /\ UNCHANGED <<consumed, granted>>
       \/ /\ toolsClosed \/ pendingTool = NoProposal
          /\ RunnerAt(w, "gone")
          /\ UNCHANGED <<pendingTool, stale, consumed, revoked, capability, granted>>
  /\ UNCHANGED <<launchVars, toolsClosed, projectionVars, registered, channelVars, stage,
                 carried, approvedTool, ran>>

(* The answer of the supervisor arrived in time, and the command runs.     *)
RunTool(w) ==
  /\ runner[w] = "answered"
  /\ ran' = ran \cup {g[2] : g \in {h \in granted : h[1] = w}}
  /\ RunnerAt(w, "gone")
  /\ UNCHANGED <<launchVars, toolsClosed, projectionVars, supervisorVars, channelVars, stage,
                 carried, approvedTool, granted>>
-----------------------------------------------------------------------------
(***************************************************************************)
(* The end of the launch: the launcher closes the transport, and the       *)
(* command line the projection, before it asks whether everything that was *)
(* approved is settled.                                                    *)
(***************************************************************************)
LaunchExits ==
  /\ launchStage = "running" /\ launchStage' = "exited"
  /\ IF surface = "grok" THEN CloseTransport ELSE UNCHANGED channel
  /\ UNCHANGED <<surface, settledClaim, toolsClosed, projectionVars, supervisorVars, writer,
                 frame, stage, carried, runner, toolHistory>>

(* Fault: a question that is still open is not looked at. *)
NothingRegistered == ~uncommitted' /\ pendingTool' = NoProposal

NothingPending == ~presenting /\ ~uncommitted' /\ pendingTool' = NoProposal

CliCloses ==
  /\ launchStage = "exited" /\ launchStage' = "closed"
  /\ CloseTools
  /\ settledClaim' = NothingPending
  /\ UNCHANGED <<surface, presenting, admittedCalls, decision, registered, consumed, writer,
                 frame, stage, carried, runner, toolHistory>>

ToolsNext ==
  \/ Expire \/ BindWriter \/ PipeBreaks \/ LaunchExits \/ CliCloses
  \/ \E a \in Answers : \/ Project(a) \/ AnswerLost(a) \/ Deny(a) \/ AskingFails(a)
                        \/ Approve(a) \/ WriteFails(a) \/ AnswerWritten(a) \/ Commit(a)
                        \/ Released(a)
  \/ \E w \in Runners : \/ StartRunner(w) \/ ReadCapability(w) \/ RunnerFails(w) \/ Consume(w)
                        \/ Evaluate(w) \/ RunTool(w)
-----------------------------------------------------------------------------
(***************************************************************************)
(* In all of a turn at most one command is granted, to one process, and it *)
(* is the one the user said yes to; what is registered is pending, granted *)
(* or revoked, never two of them, whatever closes the turn; and Grok's     *)
(* command is granted only after its answer is out of the broker.          *)
(***************************************************************************)
ToolGrantIsExact ==
  /\ Cardinality(granted) <= 1
  /\ \A g \in granted : g[2] = approvedTool /\ decision = "allow_once"
  /\ ran \subseteq {approvedTool}
  /\ registered = consumed + revoked + (IF pendingTool = NoProposal THEN 0 ELSE 1)
  /\ toolsClosed => pendingTool = NoProposal
  /\ (surface = "grok" /\ granted # {}) =>
       \E a \in Answers : carried[a] = approvedTool /\ stage[a] \notin {"asking", "writing"}

ToolsSpec == ToolsInit /\ [][ToolsNext]_toolsVars

(***************************************************************************)
(* Once the command line has found the approvals settled, the decision it  *)
(* reports is final: none is recorded later and no command is granted.     *)
(***************************************************************************)
SettledApprovalIsFinal ==
  [][settledClaim => UNCHANGED <<decision, registered, granted>>]_toolsVars
=============================================================================
