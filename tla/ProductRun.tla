----------------------------- MODULE ProductRun -----------------------------
(***************************************************************************)
(* One run of the product: main() of src/src/cli.ts, with runGrokAcp() of  *)
(* src/src/grok-acp-runner.ts and the Signed Hub adapters it launches.     *)
(* The run checks its invocation step by step, and what an earlier step    *)
(* prepared (a Hub turn, a coordination turn, a plan) is there when a      *)
(* later one refuses.  While the backend runs, its requests go through the *)
(* broker and its publication calls through the tool endpoint, which the   *)
(* settlement of the broker does not wait for.  Any await may throw.       *)
(***************************************************************************)
EXTENDS Naturals

CONSTANTS
  Invocations,   \* command lines with their environment
  MaxRequests    \* bound: provider requests in flight

Backends == {"opencode", "claude", "grok", "deepcode", "codex", "cursor"}

Invocation ==
  [verb : {"help", "release", "hub", "check", "run", "configure", "config", "doctor", "launch"},
   backend : Backends, actor : BOOLEAN, role : {"critic", "builder"},
   saved : {"file", "asked", "environment", "none"}, coordination : BOOLEAN,
   broker : BOOLEAN, provenance : BOOLEAN, cast : {"none", "bare", "organum"},
   signed : BOOLEAN, acp : BOOLEAN, chat : BOOLEAN, adaptive : BOOLEAN,
   projection : {"none", "grok", "claude"}, plugin : BOOLEAN, authorized : BOOLEAN]

ASSUME InvocationsAreInvocations == Invocations \subseteq Invocation
ASSUME MaxRequestsIsNat          == MaxRequests \in Nat

VARIABLES
  inv, pc, exit,  \* the invocation, where main() is, how it ended
  hub,            \* the Signed Hub turn
  shipped,        \* the publication machine has shipped
  calling,        \* a call of a publication tool is in flight
  turn,           \* the coordination turn of an organum lane
  broker, requests,  \* the inference broker; its requests in flight
  settlement,     \* what settle() returned
  process, status,  \* the backend; observedExitCode: "none" until launched
  launchFailed,         \* launchFailed
  authority,      \* a native tool proposal waits for its decision
  plan,           \* the interactive plan of an actor
  observation     \* what the emitted observation says

productVars == <<inv, pc, exit, hub, shipped, calling, turn, broker, requests, settlement,
                 process, status, launchFailed, authority, plan, observation>>

NoSettlement  == [idle |-> FALSE, forced |-> 0]
NoObservation == [ok |-> FALSE, shipped |-> FALSE]

ProductInit ==
  /\ inv \in Invocations /\ pc = "start" /\ exit = "running"
  /\ hub = "none" /\ shipped \in BOOLEAN /\ calling = FALSE /\ turn = "none"
  /\ broker = "off" /\ requests = 0 /\ settlement = NoSettlement
  /\ process = "none" /\ status = "none" /\ launchFailed = FALSE
  /\ authority = FALSE /\ plan = "none" /\ observation = NoObservation

Goto(a, b)  == pc = a /\ pc' = b /\ UNCHANGED exit
Exit(e)     == pc' = "end" /\ exit' = e
worldVars   == <<hub, shipped, calling, turn, plan>>
brokerVars  == <<broker, requests, settlement>>
backendVars == <<process, status, launchFailed, authority, observation>>

(* What codes a launch may end with: its own, 2, 130 or 143. *)
Codes == {"0", "nonzero"}
-----------------------------------------------------------------------------
(***************************************************************************)
(* What is asked, and what is refused before anything is launched.         *)
(***************************************************************************)
Exits ==
  CASE inv.verb = "help"      -> {"0"}
    [] inv.verb = "release"   -> {"0", "thrown"}
    [] inv.verb = "hub"       -> IF inv.actor THEN {"0", "2", "thrown"} ELSE {"thrown"}
    [] inv.verb = "check"     -> IF inv.actor THEN {"thrown"} ELSE {"0", "thrown"}
    [] inv.verb = "run"       -> IF inv.actor \/ ~inv.authorized THEN {"thrown"}
                                 ELSE {"0", "2", "thrown"}
    [] inv.verb = "configure" -> IF inv.actor THEN {"thrown"} ELSE {"0", "thrown"}
    [] OTHER -> {}

Command ==
  /\ pc = "start" /\ \E e \in Exits : Exit(e)
  /\ UNCHANGED <<inv, worldVars, brokerVars, backendVars>>

(* A saved profile, one asked for now, or a complete environment. *)
Resolve ==
  /\ Exits = {} /\ inv.saved # "none" /\ Goto("start", "resolved")
  /\ UNCHANGED <<inv, worldVars, brokerVars, backendVars>>

Contradictory ==
  \/ inv.adaptive /\ ~(inv.backend = "grok" /\ inv.chat)
  \/ inv.actor /\ inv.backend = "opencode"
  \/ inv.backend = "opencode" /\ inv.cast = "organum" /\ ~inv.plugin

Admit ==
  /\ ~Contradictory /\ inv.verb # "config" /\ Goto("resolved", "admitted")
  /\ UNCHANGED <<inv, worldVars, brokerVars, backendVars>>

Coordinated == inv.coordination /\ inv.actor

(* The runtime of the actor is allocated; doctor and config only report.   *)
Report ==
  /\ \/ pc = "resolved" /\ ~Contradictory /\ inv.verb = "config" /\ Exit("0")
     \/ pc = "admitted" /\ inv.verb = "doctor" /\ \E e \in {"0", "1"} : Exit(e)
  /\ UNCHANGED <<inv, worldVars, brokerVars, backendVars>>

MaySign ==
  /\ inv.actor /\ inv.role = "critic" /\ Coordinated
  /\ ~inv.provenance /\ inv.cast = "none"

(* The turn is prepared, or there is none: its ACK was pending and is sent *)
(* now, it was acked before, or an earlier run was cut off in it.          *)
PrepareTurn ==
  /\ inv.verb = "launch" /\ inv.signed /\ ~inv.acp /\ MaySign
  /\ \/ Goto("admitted", "prepared") /\ hub' = "prepared"
     \/ pc = "admitted" /\ UNCHANGED hub /\ \E e \in {"0", "2"} : Exit(e)
  /\ UNCHANGED <<inv, shipped, calling, turn, plan, brokerVars, backendVars>>

Unsigned ==
  /\ inv.verb = "launch" /\ (~inv.signed \/ inv.acp) /\ Goto("admitted", "prepared")
  /\ UNCHANGED <<inv, worldVars, brokerVars, backendVars>>

(* The adapter is bound to a clean publication root. *)
Vendor == inv.signed /\ inv.backend \in {"claude", "cursor"}

BindVendor ==
  /\ Vendor /\ ~shipped /\ Goto("prepared", "vendor")
  /\ UNCHANGED <<inv, worldVars, brokerVars, backendVars>>

LaunchUnbrokered ==
  /\ pc = "prepared" /\ ~Vendor /\ ~inv.broker /\ inv.backend = "opencode" /\ ~inv.provenance
  /\ \E e \in Codes : Exit(e)
  /\ UNCHANGED <<inv, worldVars, brokerVars, backendVars>>

(* The harness of ACP has a publication machine of its own. *)
EnterAcp ==
  /\ inv.backend = "grok" /\ inv.acp /\ inv.broker /\ ~inv.provenance /\ Coordinated
  /\ Goto("prepared", "acp") /\ shipped' = FALSE
  /\ UNCHANGED <<inv, hub, calling, turn, plan, brokerVars, backendVars>>

AcpTurn ==
  /\ inv.signed => inv.actor /\ inv.role = "critic"
  /\ IF inv.signed
       THEN \/ Goto("acp", "acp starting") /\ hub' = "prepared"
            \/ pc = "acp" /\ UNCHANGED hub /\ \E e \in {"0", "2", "signal"} : Exit(e)
       ELSE Goto("acp", "acp starting") /\ UNCHANGED hub
  /\ UNCHANGED <<inv, shipped, calling, turn, plan, brokerVars, backendVars>>

(* planNativeInteractiveLaunch() and the checks of the tool projections.   *)
MayProject ==
  CASE inv.projection = "none"   -> TRUE
    [] inv.projection = "grok"   -> inv.backend = "grok" /\ inv.chat
    [] inv.projection = "claude" -> inv.backend = "claude" /\ ~inv.actor

PlanLaunch ==
  /\ ~Vendor /\ inv.backend # "cursor" /\ inv.broker /\ ~inv.acp /\ MayProject
  /\ Goto("prepared", "planned") /\ plan' = IF inv.actor THEN "planned" ELSE "none"
  /\ UNCHANGED <<inv, hub, shipped, calling, turn, brokerVars, backendVars>>

(* A signed backend needs a clean publication root; an organum lane a      *)
(* coordination turn, or the receipt of its plugin.                        *)
PrepareLane ==
  /\ inv.signed => ~shipped
  /\ inv.cast = "organum" => Coordinated \/ inv.backend = "opencode"
  /\ Goto("planned", "starting")
  /\ turn' = IF inv.cast = "organum" /\ Coordinated THEN "prepared" ELSE "none"
  /\ UNCHANGED <<inv, hub, shipped, calling, plan, brokerVars, backendVars>>

(* Every refusal and every await that rejects before the broker starts.    *)
Refuse ==
  /\ pc \in {"start", "resolved", "admitted", "prepared", "planned", "starting", "vendor", "acp",
             "acp starting"}
  /\ (pc = "start" => Exits = {}) /\ Exit("thrown")
  /\ UNCHANGED <<inv, worldVars, brokerVars, backendVars>>
-----------------------------------------------------------------------------
(***************************************************************************)
(* A vendor's own launcher: the exposure is recorded, the backend spawned, *)
(* its answer published as the handoff by the supervisor, and the turn     *)
(* completed.                                                              *)
(***************************************************************************)
VendorExposes ==
  /\ Goto("vendor", "vendor exposed") /\ hub' = "exposed"
  /\ UNCHANGED <<inv, shipped, calling, turn, plan, brokerVars, backendVars>>

(* The answer of a vendor is taken only whole: a process that exited well, *)
(* within the size, with a successful result of every field; of Claude,    *)
(* also with no denied permission and of the one model that was asked.     *)
Answer ==
  [stdin : BOOLEAN, size : BOOLEAN, exit : BOOLEAN, success : BOOLEAN, allowed : BOOLEAN,
   model : BOOLEAN, complete : BOOLEAN]

CursorSuccessful(a) == a.stdin /\ a.size /\ a.exit /\ a.success /\ a.complete

ClaudeSuccessful(a) == CursorSuccessful(a) /\ a.allowed /\ a.model

LaunchClaude ==
  /\ inv.backend = "claude" /\ Goto("vendor exposed", "vendor answered")
  /\ process' = "exited"
  /\ \E a \in Answer : status' = IF ClaudeSuccessful(a) THEN "0" ELSE "nonzero"
  /\ UNCHANGED <<inv, worldVars, brokerVars, launchFailed, authority, observation>>

LaunchCursor ==
  /\ inv.backend = "cursor" /\ Goto("vendor exposed", "vendor answered")
  /\ process' = "exited"
  /\ \E a \in Answer : status' = IF CursorSuccessful(a) THEN "0" ELSE "nonzero"
  /\ UNCHANGED <<inv, worldVars, brokerVars, launchFailed, authority, observation>>

(* The launch or the owner lock throws: the turn stays exposed. *)
VendorThrows ==
  /\ pc = "vendor exposed" /\ Exit("thrown")
  /\ UNCHANGED <<inv, worldVars, brokerVars, backendVars>>

(* callPublication() throws past the completion: the turn stays exposed.   *)
VendorPublishes ==
  /\ status = "0"
  /\ \/ Goto("vendor answered", "vendor published") /\ shipped' = TRUE
     \/ pc = "vendor answered" /\ Exit("thrown") /\ shipped' \in {shipped, TRUE}
  /\ UNCHANGED <<inv, hub, calling, turn, plan, brokerVars, backendVars>>

Earned == status = "0" /\ shipped

VendorCompletes ==
  /\ \/ pc = "vendor published"
     \/ pc = "vendor answered" /\ status # "0"
  /\ LET outcome == IF Earned THEN "applied" ELSE "deferred" IN
     \/ hub' = outcome /\ Exit(IF Earned THEN "0" ELSE "2")
     \/ hub' \in {"exposed", outcome} /\ Exit("thrown")
  /\ UNCHANGED <<inv, shipped, calling, turn, plan, brokerVars, backendVars>>
-----------------------------------------------------------------------------
(***************************************************************************)
(* The brokered backends.  The backend asks the provider and publishes;    *)
(* both may outlive it.                                                    *)
(***************************************************************************)
StartBroker ==
  /\ Goto("starting", "launching") \/ Goto("acp starting", "acp launching")
  /\ broker' = "open"
  /\ UNCHANGED <<inv, hub, shipped, calling, turn, plan, requests, settlement, backendVars>>

(* Before the spawn or, over ACP, before the prompt. *)
Expose ==
  /\ pc \in {"launching", "acp running"} /\ hub = "prepared" /\ hub' = "exposed"
  /\ UNCHANGED <<inv, pc, exit, shipped, calling, turn, plan, brokerVars, backendVars>>

Spawn ==
  /\ process = "none" /\ process' = "running"
  /\ \/ hub # "prepared" /\ Goto("launching", "running")
     \/ Goto("acp launching", "acp running")
  /\ UNCHANGED <<inv, worldVars, brokerVars, status, launchFailed, authority, observation>>

Request ==
  /\ process = "running" /\ broker = "open" /\ requests < MaxRequests
  /\ requests' = requests + 1
  /\ authority' \in IF inv.projection = "none" THEN {FALSE} ELSE {authority, TRUE}
  /\ UNCHANGED <<inv, pc, exit, worldVars, broker, settlement, process, status, launchFailed,
                 observation>>

(* An answer, an abort of the client, or the upstream's failure. *)
RequestEnds ==
  /\ requests > 0 /\ requests' = requests - 1
  /\ authority' \in {authority, FALSE}
  /\ UNCHANGED <<inv, pc, exit, worldVars, broker, settlement, process, status, launchFailed,
                 observation>>

CallPublication ==
  /\ process = "running" /\ broker = "open" /\ Coordinated /\ ~calling /\ calling' = TRUE
  /\ UNCHANGED <<inv, pc, exit, hub, shipped, turn, plan, brokerVars, backendVars>>

PublicationEnds ==
  /\ calling /\ calling' = FALSE /\ shipped' \in {shipped, TRUE}
  /\ UNCHANGED <<inv, pc, exit, hub, turn, plan, brokerVars, backendVars>>

ChildExits ==
  /\ Goto("running", "exited") /\ process' = "exited" /\ status' \in Codes
  /\ UNCHANGED <<inv, worldVars, brokerVars, launchFailed, authority, observation>>

CompleteTurn ==
  /\ pc = "exited"
  /\ IF inv.signed
       THEN \/ /\ Goto("exited", "closing")
               /\ hub' = IF Earned THEN "applied" ELSE "deferred"
               /\ status' = IF Earned THEN "0" ELSE "2"
               /\ UNCHANGED launchFailed
            \/ /\ Goto("exited", "closing")
               /\ hub' \in {"exposed", IF Earned THEN "applied" ELSE "deferred"}
               /\ launchFailed' = TRUE /\ UNCHANGED status
       ELSE Goto("exited", "closing") /\ UNCHANGED <<hub, status, launchFailed>>
  /\ UNCHANGED <<inv, shipped, calling, turn, plan, brokerVars, process, authority, observation>>

(* The launch throws: before the spawn, or while the backend runs. *)
LaunchThrows ==
  /\ Goto("launching", "closing") \/ Goto("running", "closing")
  /\ launchFailed' = TRUE /\ process' = IF process = "running" THEN "exited" ELSE process
  /\ UNCHANGED <<inv, worldVars, brokerVars, status, authority, observation>>
-----------------------------------------------------------------------------
(***************************************************************************)
(* The finally of the launch: the projections are closed, the broker is    *)
(* settled, and the rest happens under the close of the broker.            *)
(***************************************************************************)
(* Whether the approvals are settled is read before the broker settles.    *)
CloseProjections ==
  /\ Goto("closing", IF authority THEN "settling unsettled" ELSE "settling")
  /\ UNCHANGED <<inv, worldVars, brokerVars, backendVars>>

Settle ==
  /\ \/ Goto("settling", "settled") \/ Goto("settling unsettled", "failing")
     \/ Goto("acp ended", "acp settled")
  /\ broker' = "settled"
  /\ \/ requests = 0 /\ settlement' = [idle |-> TRUE, forced |-> 0] /\ UNCHANGED requests
     \/ /\ requests > 0
        /\ \E left \in 0 .. requests :
             requests' = left /\ settlement' = [idle |-> left = 0, forced |-> requests]
  /\ UNCHANGED <<inv, worldVars, backendVars>>

(* Fault: only the exit code counts. *)
CleanByExit == inv.cast = "organum" /\ status = "0" /\ ~launchFailed

Clean ==
  /\ inv.cast = "organum" /\ status = "0" /\ ~launchFailed
  /\ settlement.idle /\ settlement.forced = 0

(* An offered turn that no provider request completed is dropped all the   *)
(* same.  To finish the turn, or to read the plugin's receipt, may throw.  *)
FinishTurn ==
  /\ \/ Goto("settled", "finished")
        /\ turn' \in CASE turn = "none" -> {"none"} [] Clean -> {"admitted", "dropped"}
                     [] OTHER -> {"dropped"}
     \/ Goto("settled", "failing") /\ inv.cast = "organum"
        /\ turn' \in {turn} \cup (IF turn = "none" THEN {} ELSE {"dropped"})
  /\ UNCHANGED <<inv, hub, shipped, calling, plan, brokerVars, backendVars>>

FinalizePlan ==
  /\ IF plan = "planned" /\ status # "none"
       THEN \/ Goto("finished", "finalized") /\ plan' = "finalized"
            \/ Goto("finished", "failing") /\ UNCHANGED plan
       ELSE Goto("finished", "finalized") /\ UNCHANGED plan
  /\ UNCHANGED <<inv, hub, shipped, calling, turn, brokerVars, backendVars>>

(* buildTerminalObservation(); a failure to emit is only reported. *)
Observe ==
  /\ Goto("finalized", "observed")
  /\ observation' \in {NoObservation, [ok |-> status = "0" /\ ~launchFailed, shipped |-> shipped]}
  /\ UNCHANGED <<inv, worldVars, brokerVars, process, status, launchFailed, authority>>

CloseBroker ==
  /\ pc \in {"observed", "failing"} /\ broker' = "closed"
  /\ \/ Exit(IF pc = "failing" \/ launchFailed THEN "thrown" ELSE status)
     \/ Exit("thrown")
  /\ requests' = 0 /\ UNCHANGED settlement
  /\ UNCHANGED <<inv, worldVars, backendVars>>
-----------------------------------------------------------------------------
(***************************************************************************)
(* runGrokAcp(): the prompt ends, the turn is completed, the agent closed, *)
(* the broker settled; whatever throws, the finally closes what is left.   *)
(***************************************************************************)
AcpPromptEnds ==
  /\ pc = "acp running" /\ hub # "prepared"
  /\ \E s \in Codes :
       /\ (s = "0" => shipped) /\ status' = s
       /\ \/ UNCHANGED launchFailed
             /\ hub' = CASE ~inv.signed -> hub [] s = "0" -> "applied" [] OTHER -> "deferred"
          \/ inv.signed /\ launchFailed' = TRUE
             /\ hub' \in {"exposed", IF s = "0" THEN "applied" ELSE "deferred"}
  /\ pc' = "acp ended" /\ process' = "exited" /\ UNCHANGED exit
  /\ UNCHANGED <<inv, shipped, calling, turn, plan, brokerVars, authority, observation>>

AcpThrows ==
  /\ pc \in {"acp launching", "acp running"} /\ pc' = "acp ended" /\ launchFailed' = TRUE
  /\ process' = (IF process = "running" THEN "exited" ELSE process) /\ UNCHANGED exit
  /\ UNCHANGED <<inv, worldVars, brokerVars, status, authority, observation>>

(* A signal that was received decides the exit code, whatever else did.    *)
AcpReturns ==
  /\ pc = "acp settled" /\ broker' = "closed" /\ requests' = 0
  /\ \/ ~launchFailed /\ Exit(IF status = "0" THEN "0" ELSE "2")
        /\ observation' \in {NoObservation, [ok |-> status = "0", shipped |-> shipped]}
     \/ launchFailed /\ Exit("thrown") /\ UNCHANGED observation
     \/ Exit("signal") /\ UNCHANGED observation
  /\ UNCHANGED <<inv, worldVars, settlement, process, status, launchFailed, authority>>

ProductNext ==
  \/ Command \/ Resolve \/ Admit \/ Report \/ PrepareTurn \/ Unsigned \/ BindVendor
  \/ LaunchUnbrokered \/ EnterAcp \/ AcpTurn \/ PlanLaunch \/ PrepareLane \/ Refuse
  \/ VendorExposes \/ LaunchClaude \/ LaunchCursor \/ VendorThrows \/ VendorPublishes
  \/ VendorCompletes
  \/ StartBroker \/ Expose \/ Spawn \/ Request \/ RequestEnds \/ CallPublication
  \/ PublicationEnds \/ ChildExits \/ CompleteTurn \/ LaunchThrows \/ CloseProjections
  \/ Settle \/ FinishTurn \/ FinalizePlan \/ Observe \/ CloseBroker
  \/ AcpPromptEnds \/ AcpThrows \/ AcpReturns

ProductSpec == ProductInit /\ [][ProductNext]_productVars
-----------------------------------------------------------------------------
(* An exit code 0 is earned: of a signed turn it means that the turn was   *)
(* exposed, the handoff shipped and the turn acknowledged as applied,      *)
(* although a publication call may outlive the backend; the coordination   *)
(* turn of a lane is admitted only if its backend ended well and no        *)
(* provider request had to be cut off; no run ends with its broker open.   *)
ExitIsEarned ==
  /\ hub = "applied" => shipped
  /\ exit = "0" /\ inv.signed /\ process = "exited" => hub = "applied"
  /\ turn = "admitted" => status = "0" /\ ~launchFailed /\ settlement = [idle |-> TRUE, forced |-> 0]
  /\ exit # "running" => broker \in {"off", "closed"} /\ process # "running"
=============================================================================
