# Organum: models and proofs

TLA+ models of `organum-code` (TypeScript, `src/src/*.ts`), TLC configurations
that check them on small instances, and TLAPS proofs of their safety properties
for every value of the constants. `src/` below is the root of the repository.

Organum wraps model backends (OpenCode, Grok, Claude, Codex, Cursor, ACP agents)
as *surfaces* of a cell on a message hub. What makes it correct is nearly always
a promise that must survive retries, lost answers, several callers and restarts:
output is published once, an event is shown to a model once, an acknowledgement
tells the truth, a lane never wedges. That is what is modelled here.

## Inventory

| Component | State it keeps | Operations | Hard behaviour | What makes it correct |
|---|---|---|---|---|
| Publication state machine (`coordination-publish.ts`) | one entry per root: phase, turn, reminder count, intent, receipt, `endAttempted`, two pending promises | `beginTurn`, `observeOutput`, `discardUnadmittedTurn`, `publish`, `handleIdle` | joined callers, lost answers of post and end, a turn that is replaced while an operation is pending, a late rejected reminder | one envelope per obligation; told success only for what is durable; end is not repeated; one reminder |
| Signed Hub supervisor (`signed-hub-supervisor.ts`, `signed-hub-operator.ts`, `grok-acp-signed-hub.ts`, `organum-hub-cli.ts`) | one record file and one lock file per event | `prepare`, `beginExposure`, `complete`, `recover`, `emitPendingAck` | processes that overlap or die between two file operations, stale locks | shown at most once; the ACK is the recorded outcome; the record never goes back; all this until the lock of a run at work is taken for a dead one's |
| Signed Hub backend adapters (`claude-`, `codex-`, `cursor-`, `deepcode-signed-hub.ts`) | none of their own | expose, launch, complete | a backend that fails between exposure and completion | a turn is applied only after its handoff shipped |
| Coordination polling and admission ledger (`coordination-polling.ts`, `hub-admission-ledger.ts`) | per root: inbox pages, seen ids, ACKs due; durable ledger | `poll`, `forTurn`, `stage`, `admit`, `discard`, `flushHubAcks` | one refresh shared by sessions, partial admissions, failing ACKs, restarts | an admitted event is not offered again and is ACKed in the end |
| Coordination bootstrap and context (`coordination-context.ts`, `coordination-continuity.ts`, `coordination-bootstrap.ts`) | the joined root; its checkpoint | join, bound a packet, save and load a checkpoint | cutting to size; a checkpoint of another role or protocol | what a packet names it shows; a checkpoint is only its root's |
| Organum CLI client (`organum-cli.ts`) | one call: child, timers, listeners | run, answer, time out, abort | a child that is killed after it acted, answers for another request | one settlement; no retry beside a live child |
| Inference broker (`inference-broker.ts`, `organism-cast-broker-coordination.ts`, `execution-budget.ts`) | guard counters, slot with waiters, the lane's turn, recorded usage | request handler, `prepare`, `complete`, `settle`, `finish` | concurrent requests aborted at any await | acked means answered; the slot and the reservations are never lost |
| Protocol bridges (`responses-chat-bridge.ts`, `anthropic-chat-bridge.ts`) | a stream under translation; remembered thought signatures | translate a request, a chunk, an end | providers that cut and number calls in different ways, broken streams | the client gets the provider's calls, whole, in order, and once |
| Finding delivery (`finding-delivery*.ts`) | queue of packets, requests that carry them, evidence | enqueue, take, accept, restore, coalesce | concurrent provider requests that fail after a packet was put in | a packet is in one place, and evidence once |
| Native product lifecycle (`native-product-lifecycle.ts`, `coordination-continuity.ts`, `organum-mcp.ts`) | the active turn, publication checkpoint | turn `prepare/admit/discard`, `callPublication` | restarts between checkpoint, post and end | as the publication machine, across processes |
| ACP host (`acp-client.ts`, `acp-permission.ts`, `acp-coordination.ts`, `grok-acp-runner.ts`) | pending JSON-RPC requests, one-shot grants, prompt in progress, close-out gate | dispatch, read loop, prompt, permission, tool call, close | answers after cancel or close, grants used twice | a grant is used once; every request settles; a critic is bounded |
| Native tool supervision (`*-native-tool-supervisor.ts`, projections, approval, hook) | the registered proposal, its capability, the transport | project, approve, commit, release, consume, evaluate, close | an answer held back while a question is open; expiry and close at any await | one command, the approved one, to one process |
| Native interactive lifecycle (`native-interactive-*.ts`) | session file, health of a runtime | plan, bind, finalize | two launches that plan on the same file | a session is never rebound |
| Launchers and containment (`*-launcher.ts`, `containment.ts`) | owner lock, projected configuration, sandbox, backend process | launch, tear down | refused launches, crashes that leave a lock | one backend per runtime directory |
| Command and runs (`cli.ts`, `grok-acp-runner.ts`) | the invocation and all it has prepared | check, prepare, launch, settle, report | any await throws with turns, brokers and children open | exit 0 is earned; nothing stays open |
| OpenCode plugin (`opencode-plugin*.ts`, `opencode-session.ts`) | staged deliveries, gates, receipt counters and chain of writes | hooks for system prompt, text, tools, idle | hooks that overlap at every await | the receipt is true; a reviewer's close-out is bounded |
| Organism cast (`organism-cast*.ts`, `pty-bridge.ts`) | plan; private state, locks and artifacts of a prepared run; lanes, questions and results | check, prepare, start, run, ask, answer | crashes between writes, retried commands, two runs on one directory | launched once, as bound; DONE is earned |
| Release installation (`release-installation.ts`) | ledger, stored releases, executable | install, upgrade, roll back, uninstall | a failure or crash at each file operation | a whole release or the old state |
| Configuration and secrets (`configurator.ts`, `user-config.ts`, `secret-store.ts`, `provider-secret.ts`) | configuration file, key files, keychain | wizard, save, load | two wizards, a stop between two writes | a saved configuration loads and finds its key |
| Native adapter admission, continuity and closure; capability probes and loadouts; benchmarks, observation and evidence; generated bundle | files | validate, measure, report | sequential | not modelled, see below |

How they interact. The command resolves a configuration, prepares what its
backend needs (a Hub turn, a coordination turn, a plan on the runtime directory),
starts the inference broker and launches the backend under a launcher, in a
sandbox. The OpenCode plugin and the native product lifecycle call the poller
before a turn (`poll`, `forTurn`, `stage`) and after it (`admit` or `discard`),
and the publication machine during and after it; both reach the hub through the
CLI client, one child process per call, with a timeout and an abort signal. The
inference broker sits between a native child process and its provider, through a
protocol bridge where the two differ, and calls the product lifecycle, the
finding boundary and the native tool projections around every provider request.
The ACP host speaks JSON-RPC with its agent and wires permissions, tool endpoint
and provider gate together. The Signed Hub supervisor, and the commands of a
cast, are separate processes that share files only.

## Modules

| Module | Role |
|---|---|
| `Publication`, `MCPublication` | `SessionPublicationStateMachine` against the hub |
| `DurableHandoff` | what the publication surface promises (abstract) |
| `PublicationProofs` | safety and refinement, proved |
| `NativePublication`, `MCNativePublication` | `callPublication()`: the machine of `Publication` behind tool calls that overlap, a checkpoint file and restarts |
| `NativePublicationProofs` | its safety, on top of `PublicationProofs` |
| `SignedHub`, `MCSignedHub` | record, lock and processes of one event |
| `AtMostOnceDelivery` | what the supervisor promises (abstract) |
| `SignedHubProofs` | safety and refinement, proved |
| `HubDelivery`, `MCHubDelivery` | poller and ledger, with restarts |
| `HubDeliveryProofs` | safety, proved |
| `CastBroker` | request handler, guard, slot, coordination turn and product turn composed |
| `StreamBridge` | the two protocol bridges between a backend and its provider |
| `BrokerProofs` | safety of both, proved |
| `MCCastBroker` | instances of `CastBroker` and `StreamBridge` |
| `CastPlan` | loading, checking and accepting the plan of a cast |
| `CastSupervisor` | prepare and start of a cast over private files and locks |
| `CastRun` | lanes, deadline, human input and results of a run |
| `FindingBoundary` | packets in provider requests |
| `FindingEvidence` | ledgers, receipts and their coalescing |
| `OrganismCast` | the five above composed |
| `MCOrganismCast` | an instance of it |
| `OrganismCastProofs` | safety of `FindingBoundary`, `CastRun`, `CastSupervisor`, `CastPlan` and `FindingEvidence`, proved |
| `ProductRun` | `main()`, from the invocation to the exit code |
| `NativeRuntime` | launches over one runtime directory: session file, owner lock, projection, sandbox |
| `NativeTools` | the one native command a turn may run |
| `AcpPermission`, `AcpHost` | reading of permission requests; prompts, grants, tool endpoint and provider gate |
| `AcpTransport` | JSON-RPC with the agent's process |
| `OpenCodePlugin` | the plugin's hooks, receipt and close-out gate |
| `ReleaseInstallation` | the ledger, the releases and the executable of a prefix |
| `OrganumCommand` | one call of the CLI client and its child |
| `CoordinationContext` | the bounded packet and the checkpoint of a root |
| `Configuration` | wizards, configuration file and keys of a profile |
| `ProductHost` | the eleven above composed, with what two of them promise together |
| `MCProductHost` | an instance of it |
| `NativeHostProofs` | safety of `NativeRuntime`, `NativeTools`, `AcpHost` and `ProductRun`, proved |
| `ProductHostProofs` | safety of the other machines and of `ProductHost`, proved |

All models take a step to be the code between two awaits (one thread), or,
where processes share files, between two file operations. Constants are sets of
model values and named bounds (`Max...`, `Escalation`, `Budget`, `FieldRoom`
and the like); `MaxRequests`, `MaxConcurrent`, `MaxResponses`, `Budget`,
`Escalation` and the rooms of `CoordinationContext` are the code's own limits
made small, the others stop the exploration.
Definitions whose comment starts with "Fault:" are not part of a specification:
each is the form a plausible bug would give to the definition after it, used to
test the properties.

`MCCastBroker`, `MCOrganismCast` and `MCProductHost` hold several machines that
share no state. Their variable `part` picks one in the initial state, and only
that one moves: the run explores the machines one at a time, not their product,
which would add nothing. `OrganismCast` and `ProductHost` state the products,
in which the machines interleave freely; that the behaviours of a host are those
of each machine is a lemma (`HostIsItsMachines`). Where a property is a
conjunction of two, each conjunct is about one machine.

### Publication
`phase ... endAttempted` are the fields of `PublicationEntry`; `operation` and
`reminder` are the two pending promises of the entry together with the await at
which they stand; `call` is what each caller of `publish()` asked for and was
told. `envelopes` and `shippedFile` are the hub. The four ways out of the
synchronous head of `publish()` are `PublishConflict`, `PublishJoin`,
`PublishReplay`/`PublishHandoff` and `PublishStart`. `PostAnswered ... EndFails`
are the awaits of `finishHandoff()` and of the post, each of which may take
effect and answer, take effect and lose the answer, or fail. `posted` and
`prompts` are history of the current obligation. A root has one entry and roots
share nothing, so one root is modelled.

### NativePublication
Extends `Publication` with what surrounds the machine in a native actor. `disk`
is the checkpoint of `FileCoordinationContinuityStore`, `durable`, `restored`
and `sequence` are the variables of the closure of `createNativeProductLifecycle`,
`task` follows each tool call through the awaits of `callPublication()` and of
`save()`: the old revision is loaded, the new file renamed into place and read
back, and what was read is assigned (`Load`, `Write`, `Read`, then `Publish`,
`Return` or `Shipped`). `Operate` is a step of the machine's pending operation
together with what it makes of the calls that wait for it. `Restart` forgets the
machine and every call, loads the checkpoint and, unless it is shipped, joins
the hub again, which opens a new session: `shippedFile` is the current session's,
`shipments` the earlier ones'. No idle event reaches a native actor, so the
reminder steps of `Publication` do not occur. A turn id is its number. The join
and the save at the start are one step with the restart, since no tool call is
served before them.

`MaxParallel` says how many calls of the client overlap: the MCP endpoint awaits
each call on its own and refuses none. What depends on a client that waits for
each answer is checked with 1, what does not with 2.

### SignedHub
`pc`, `want`, `seen`, `plan` and `aim` are a process: the point it stands at, the
store operation it is in, the pid it has read in another run's lock file, the
record computed under the lock and the outcome to record or acknowledge.
`Plan`/`FindPrepared`/`Refuse` compute the update of `putPrepared`,
`beginExposure`, `recordOutcome` and `recordAck`; `Commit` is the rename;
`CommitFails` covers a failure before and after the rename. Every file access may
fail (`FileFails`, `WriteOwnerFails`, `ReadFails`, `UnlockFails`), processes start
and overlap in any way, and each may die anywhere (`Die`), beside others or alone.
`owner` is the owner lock of the runtime directory: every signed launch takes it
before `beginExposure()` (`claude-signed-hub-launcher.ts:398-401`, and so the other
four), but `prepare()` and `recover` run without it; of a launch that died an operator
removes it (`CloseLaunch`).

A waiter finds out in three steps that a lock is a dead run's: it reads the pid
(`ReadOwner`), asks for a process of that pid (`OwnerIsGone`) and unlinks the file
by its name (`BreakLock`). Between them the name may have come to lead to the lock
of a run at work, by a second waiter or because the owner it read has finished and
exited. `stolen` is history and becomes TRUE when `BreakLock` removes such a lock.
`MutualExclusion` says that this is the only way two runs come to work under the
lock, and `DeliversOnce` and `AckTellsTheOutcome` hold until it happens: they
cover overlapping runs, failing files, deaths of a holder beside waiters and each
takeover that hits a dead run's lock. `ShownOnce` is what is lost when it happens
(`signed_hub_takeover`, see Findings), `NoAckWithoutExposure` what holds even then.

### HubDelivery
`hub`, `relay`, `seen`, `due` are the polling entry shared by the sessions of a
root, `ledger` the directory of admission records, `hubRead` and `relayRead` the
marks at the two sources. The refresh is an actor of its own which the sessions
await together. `left` is what an admission has still to mark or record, so a
failure half way leaves exactly what the loop of `admit()` leaves. `Crash`
forgets all but the durable state; a mark asked for may still be made. The hooks
of one session run one after the other (the plugin's caller awaits them), which
the model assumes. A packet counts as heard (`heard`) when its
admission begins, which is when the model has answered with text or calls its first
tool (`opencode-plugin.ts:875`, `:878`). The order of `restore`, `flush` and `fetch` inside the
refresh is kept since the properties depend on it.

### CastBroker
`pc` follows the handler of one provider request through the awaits of
`inference-broker.ts` and of the lifecycle it calls; `admitted`, `active` are
`BrokerCapabilityGuard`, `slotHeld`, `waiters` the slot,
`turnID`, `requestID`, `completed`, `sequence` the lifecycle's turn and
`activeTurn` the turn staged in the product lifecycle. Aborts come at any await
from the client, the request timer or the settlement. `Exit ... FinishDiscards`
is the end of the run in the CLI, which does not wait for a handler that ignores
its abort: the properties speak of the time before `run = "finished"`, except
`AckedMeansAnswered` and `LimitsHold`, which always hold. The
model assumes that nothing arrives after the native child has exited. Time is
not modelled: an expired capability is one of the reasons of `Refuse`.

### StreamBridge
`style` is how the provider tells the calls of its stream apart. `source` is what
it streamed, `flow` the stream object of the bridge, `seen` the events of the
client; the three request paths are `Stream` (and `AnswerWhole`, when the answer
is not a stream), `ProviderRefuses` and the two refusals. `ChunkOfTwo` is one
chunk that carries parts of two calls. `memory` is the bounded map of thought
signatures, `repeated` what the client sends again, edited or not (`edited`). A
supervised stream withholds everything until the projection decides. It is taken
as given that a provider which numbers its calls does not reuse a number in the
Responses protocol, whose bridge would merge the two calls. The Messages bridge
ignores usage that arrives after the finish reason; neither bridge needs a finish
reason to complete at the end of the stream.

`finish()` hands over the signatures call by call, before it throws at a call it
cannot finish. In the style "bare" a part without number and identifier may open a
slot of its own, so the call it belongs to is remembered with fewer arguments than
the provider gave it, though the answer fails. A client that later makes a call of
that identifier with just those arguments gets the signature of the failed one:
three requests show it, two do not. No doc or test of the repository says
otherwise, so `SignatureIsTheCalls` asks for equal arguments only of calls the
client has heard (`heard` in `issued`).

### Organism cast
* `CastPlan`: a manifest is the facts its loading, its check and its two
  acceptors look at; `Loads`, `StructuralReady`, `RunAccepts`, `PrepareAccepts`
  are those functions. There is nothing to interleave: each plan is an initial
  state.
* `CastSupervisor`: `files` is the private state, `artifacts` the run directory,
  `lock` the two lock directories. A process is a command, `PrepareStep`,
  `StartStep` and `SharedStep` are its file operations, each of which may fail
  before or after it took effect and be the last one. `launches` is history.
* `CastRun`: `run`, `lane` are the promises of `runOrganismCast()` and of the
  executor, `records` the questions and answers of the PTY bridge. A child is
  detached and outlives its run (`RunDies`); a run that rejects (`RunRejects`)
  leaves its other children to nobody, about which the code promises nothing. The
  reader of the records skips what it cannot read: a question in `Oversized`, whose
  record the bridge writes and the reader drops, always, and any record when its
  disk fails (`LaneResolves`; `missed` remembers that a lane was taken for
  unblocked for that reason). The bridge keeps the last 8192 characters of a
  question (`pty-bridge.ts:105`), while the reader drops a record of more than 16 KiB
  (`organism-cast-human-input.ts:72`) or a question of more than 8192 UTF-16 units
  (`:25`): a question of 6000 Korean characters is written and skipped, and a cast
  may be DONE without its answer, although the bridge called it
  `blocked_on_human_input`. `DoneIsEarned` therefore promises a receipt only for the
  questions the reader admits. A record that does not parse for another reason has
  no writer in the repository.
* `FindingBoundary`: `entries`, `pending`, `active`, `accepted`, `delivered` are
  the fields of the boundary; `stage` is the broker's handler around it.
* `FindingEvidence`: ledgers and receipts are presented in any form; the
  validators are predicates on them.

### ProductRun
`pc` is the place in `main()`, `inv` the options it was given. `Refuse` stands at
every check; what had been prepared is in `hub`, `turn`, `plan`, `broker` and is
discarded or left as the code does it. `Settle`, `FinishTurn`, `FinalizePlan`,
`Observe` and `CloseBroker` are the end of a run in the order of the code; a
publication call may still be pending (`calling`). The doctor and report commands
are `Report`.

### NativeRuntime
One action per await of a launch; `lock` is `.organum-code-owner.lock` and who
made it, `projection` whose configuration is in the directory, `sessionFile`
what `native-session.json` says. `CloseSandbox`, `RemoveProjection`,
`ReleaseOwner` are the `finally` of the launchers. A crash leaves the lock
and perhaps a backend that lives on in its own process group; only an operator
removes the lock, once nothing of its owner runs (`OperatorUnlocks`), which is an
assumption about him. The health of the directory is inspected before the lock is
taken (`grok-launcher.ts:860`), as in the code. A launch that found no session file
before another one wrote it still creates an empty one over it (`CreateState`), and
may then bind a session of its own: `SessionNeverRebound` speaks of single steps and
allows an empty file, which binds nobody.

### NativeTools
`stage[a]` follows an answer of the provider through projection, question,
registration, release; `runner[w]` a wrapper (Grok) or a hook (Claude).
`capability`, `channel`, `writer`, `frame` are the way a capability takes.
`granted` and `ran` are history. The approval policy that the command line
never gives, and so `policy_denied`, is not met; the wrapper is always the one
the launch prepared; a capability is compared by where it is, never guessed.

### ACP host
`AcpPermission` is pure: which broker reads a request and whether it parses.
`AcpHost` follows a prompt through `acpStage`; `allowances` is the bag of grants,
`toolCalls` the calls past their grant, `gate` the flags and counters that bound
a critic after its declared command, `question` the request on the screen. The
read loop stops behind a question. `AcpTransport` is the layer below: `waiting`
is the map of pending requests, `outbox` the chain of writes. A write to an agent
that has died is lost or, if it waits for its input to drain, rejected (`WriteOut`). Three behaviours of
the code to know of, all within the model and against no property: a handoff that
ships while its prompt is cancelled ends before the cancel is written
(`acp-coordination.ts:943`, `:1053`); a write that waits for the agent to drain
its input holds up `close()` (`acp-client.ts:284`); two concurrent `prompt()`
calls both pass the check of `activeTurn` (`acp-coordination.ts:857`), which its
only caller never makes.

### OpenCodePlugin
`hook[c]` is one call of a hook and the await it stands at, `pendingItems` and
`staged` what the poller and the plugin hold for a session's turn, `delivery`
the counters, `chain` the writes of the receipt that are not done, `closeOut`
the gate of a reviewer. `told`, `admitted` and `investigated` are history. A poll
offers any part of what the root has not seen: what the poller guarantees is
`HubDelivery`'s. A failed transform ends its turn; a transform does not overlap
the other hooks of its own session. A failed write of the receipt makes every
later one fail (`opencode-plugin.ts:609`), and a second root's transform is
counted before the receipt refuses it (`:838-846`): the receipt on disk is then
older, never wrong.

### ReleaseInstallation
`Begin` chooses a verb, a target and what an outsider has changed (`Drifts`);
`Check` is the plan; the other actions are one file operation each, with their
failures, the unwinding (`Restore`, `Cleanup`) and its failures. `Killed` ends the
command anywhere. `managed` is whether the managed root holds anything: an empty
one, left by an uninstall that stopped before its last `rmdir`, is adopted by the
next install. Nothing in the code locks the prefix, so that one command at a
time is an assumption. A failed install leaves the stored release behind.

### OrganumCommand
`command` is a call, `cli`, `acted`, `printed`, `code`, `heldOpen` its child;
`forced`, `timing`, `killing`, `listening` the bookkeeping of the client. A
process the child left behind that holds its pipes keeps a call from settling,
even after the child was killed (`organum-cli.ts:318`): the model has it, and no
liveness is claimed. A receipt of `publish` is not compared by its key (`:1300`),
that of `sendHub` is.

### CoordinationContext
`PacketOf` computes a packet as the code does: order by relevance and date,
cut each item, fill the field, then drop from the end. `checkpoint` is what
`FileCoordinationContinuityStore` holds. Two consequences worth knowing: the
product saves the document before it is shortened
(`native-product-lifecycle.ts:437`) and the store refuses more than 8 KiB
(`coordination-context.ts:295`), so a root whose packet would fit may not start;
and the role is not in the digest of a checkpoint, but is compared when it is
read. An item whose metadata alone exceed an item's room is never shown
(`:1428` of `organum-cli.ts`).

### Configuration
`wizard[w]` is what a wizard has been told, `saved`, `keyFile`, `keychain` the
three places. The key is stored first, the configuration last; each write is a
rename. `Inherit` is a configuration an older version left. The property does
not speak of a key file that another wizard overwrote in the meantime, which the
code accepts. Capability claims of a model are left out; a custom provider keeps
those of the same id for another model (`configurator.ts:540-548`).

## Runs

| Run | Checks | Bounds and why they are enough |
|---|---|---|
| `publication` | `KeepsPromise` (refinement of `DurableHandoff`), safety and `CallsSettle` | 2 turns, 2 contents, 2 callers of whom one keeps to one content: a replaced turn, a conflict, a joined operation, a retry with another body; counters are bounded by the code |
| `publication_terminal` | violation, see Findings | as `publication` |
| `native_publication` | `CrashMakesNoSecondFile`, `NothingAfterShipment`, `AnswersAreTrue`, `CheckpointIsTrue` for a client that waits for each answer | 3 calls (two publications, or one and its retry, and a handoff), 2 contents, 2 restarts; 12 turn numbers, more than 3 calls and their saves can reach; calls that overlap (`MaxParallel` 2) are left to the theorems about `AnswersAreTrue` and `CheckpointIsTrue` |
| `native_publication_overlap` | violation, see Findings | 3 calls, 2 at a time, one restart |
| `signed_hub` | `DeliversOnce` (refinement of `AtMostOnceDelivery`), `MutualExclusion`, `AckTellsTheOutcome`, `NoAckWithoutExposure` | 3 processes: a dead owner and two waiters, or three that overlap, which is the least at which a live lock is taken; one event, since events share no file |
| `signed_hub_takeover` | violation, see Findings | as `signed_hub` |
| `signed_hub_restart` | violation, see Findings | 3 processes |
| `hub_delivery` | safety and `EventuallyAcked` | one event and one restart, with either one session and a relay file next to the event (an admission of several items that fails half way), or two sessions and a relay that answers that it has nothing (they share refresh and flush); both the file and two sessions at once would not end in time |
| `cast_broker` | safety of a lane, `EveryRequestEnds`; `BridgeIsFaithful` | 3 requests (holder, waiter, late arrival), 2 at a time, a budget of 1 response; bridge: 2 calls of 2 fragments in at most 4 pieces, 3 requests (the answer to the last is not followed: what counts is what is sent with it), so that a call can come again, be given and be repeated, 1 remembered signature, so that one call evicts the other's |
| `organism_cast` | 6 properties, below | supervisor: 3 commands (a prepare, a start, its retry), 2 inputs and one manifest (more of them are left to `LaunchedOnce` and `ToldIsSo`); run: 2 runs on one directory, 2 lanes of which one has a bridge, a question the reader admits and one it does not, a lane asks one of them (`MaxAsked`), and a run that meets the unreadable question or a failing read has the directory for itself (`UnreadIsAlone`), of a run's children one fails at most and of the two runs one is late (`FewFail`); 3 packets of 2 identities, 3 provider requests; ledgers of 3 events, batches of 3 receipts; plans of at most 2 lanes |
| `product_host` | 10 properties, below | see below |
| `native_runtime_config` | violation, see Findings | as `product_host` |

`publication_terminal`, `native_publication_overlap`, `signed_hub_takeover`,
`signed_hub_restart` and `native_runtime_config` end in a violation on purpose. `native_publication*`, `signed_hub*`, `cast_broker`,
`organism_cast`, `product_host` and `native_runtime_config` switch deadlock checking off because all calls,
processes, or the run, really end.

**organism_cast.** `LaunchedOnceAsBound`: whatever fails, dies or is retried,
`launch()` is called once and the private files are those of the bound request.
`ToldTruly`: receipts and observation say what happened. `DoneIsEarned`: DONE
belongs to the run of the result, complete and in time, with a receipt for every
question the reader admits, unless its disk failed it. `PacketInOnePlace`:
a packet waits, is in one request, or is evidence once. `CheckForecastsRun`:
`cast check` says ready of just the plans that a run or a prepare accepts.
`EvidenceAgrees`: receipts that validate against one ledger agree, and
coalescing does not depend on the order.

**product_host.** One question per machine, two or three where they are the same
question of different code:

| Property | Machine | Instance |
|---|---|---|
| `ExitIsEarned` | `ProductRun` | every backend, each invocation with at most one option off the one that launches; 2 provider requests |
| `OneBackendPerRuntime`, `SessionNeverRebound` | `NativeRuntime` | 2 launches, 2 native sessions, each product |
| `ToolGrantIsExact`, `SettledApprovalIsFinal` | `NativeTools` | 3 answers, 2 proposals, 2 runners, both surfaces |
| `GrantsAreOneShot` | `AcpHost` | 2 turns, a request of every broker, one that is no longer pending, one that cannot be allowed, and two of the integration broker; 1 unused grant, 1 grant per operation |
| `CloseOutIsBounded` | `AcpHost`, `OpenCodePlugin` | escalation at the second request, close-out budget of 1, so that the window and its end occur |
| `CallsSettleOnce` | `AcpTransport`, `OrganumCommand` | 2 requests and 2 answers (a late and a second one); 2 commands (a call and its retry) |
| `ExposureIsTrue` | `OpenCodePlugin`, `CoordinationContext` | a root, its child and another root, 2 hooks at a time, 1 relay item; 4 messages of which one is cut, one does not fit with the others, one never fits, and 2 saves |
| `FilesAreWhole` | `ReleaseInstallation`, `Configuration` | 3 releases, two of the same version, 4 generations; 2 wizards over a profile that may be an older version's, a preset and a custom provider |

### Fairness
* `Publication`, `CastBroker`: weak fairness of the pending promises only. Every
  CLI call, prompt and provider request has a timeout in the code, so each await
  ends one way or the other; callers and turns are not fair. One case is excluded:
  a process that a CLI child left behind with its pipes open keeps that call pending
  although the child was killed (`organum-cli.ts:318`); `OrganumCommand` has it, and
  the liveness properties say nothing of a run in which it happens.
* `HubDelivery`: weak fairness of the refresh, the hooks and the flush for the
  same reason (in `MCHubDelivery` of those of their steps the instance allows). That turns keep coming (strong fairness of `Poll`) and that a
  restore or a hub mark which is retried for ever succeeds at last are
  assumptions about the environment; without them no retry can help.

## Findings

1. `publication_terminal` / `ShippedIsTerminal`. `docs/architecture.md:60` calls
   a shipped root terminal, but a second handoff `publish()` on a shipped entry
   converses with the hub again (`coordination-publish.ts:369`); when that
   conversation fails, the entry is left at `end_failed` and the next two idles
   prompt it and write it off as nonconformant.
2. `native_publication_overlap` / `NothingAfterShipment`. The handoff tool calls
   itself a terminal close-out (`native-product-lifecycle.ts:343`). A second tool
   call that began while the handoff was pending still holds the snapshot it took
   before (`:603`), and its rename may land after the shipped checkpoint, after
   the first caller was told shipped. The next process reads `output_pending`,
   joins again and publishes another body under the same turn. With a client that
   waits for each answer (`native_publication`) it cannot happen.
3. `signed_hub_restart` / `RestartIsSafe`. A process that dies between creating
   its lock file and writing its pid (`signed-hub-supervisor.ts:809-811`) leaves
   an empty lock that `staleLockOwner()` reports as corrupt by throwing, so the
   pending ACK of that event needs a manual repair; a pid write that fails (`:811`)
   leaves the same file without a death. `docs/architecture.md:57`
   asks for a restart-safe semantic ACK.
4. `native_runtime_config` / `ConfigOutlivesItsProcess`. `docs/architecture.md:51-52`
   calls the configuration of a persistent runtime immutable while its process
   runs and the single owner fail-closed. A launch that the owner lock refuses
   goes through the same `catch` as one that failed later and removes the
   projected configuration without asking whether it owns the lock
   (`grok-launcher.ts:981`; likewise `claude-launcher.ts:643-644`,
   `codex-launcher.ts:524`, `deepcode-launcher.ts:484-488`): it is the running
   owner's. What does hold, `OneBackendPerRuntime`, is that no backend reads the
   configuration of another launch.
5. `signed_hub_takeover` / `ShownOnce`. `grok-acp-signed-hub.ts:551` says that an
   exposure must begin exactly once after preparation, and the supervisor refuses a
   second one (`signed-hub-supervisor.ts:1000`). A waiter that has read the pid of a
   run which then releases its lock and exits finds no process of that pid and
   unlinks the lock by name (`:826`), by then the lock of a third run at work. Two
   `putPrepared()` both read no record; the first run exposes the event, its launch
   ends, the other's late commit puts `prepared` back, and its run exposes the event
   again. Two waiters at one dead run's lock come to the same.

## Proofs

A `...Proofs` module defines an inductive invariant for each machine (`Inv`,
`NInv`, `IInv`, `ToolsInv` and so on), proves that the initial states satisfy it
and that each action keeps it, and from it each safety property. Assumptions are
the named ASSUMEs of the modules. Most say that a marker is not a member of a
set (`NoneIsNothing`, `ProposalsAreNoTags`, `NobodyIsNobody`): in the code the
marker is `null`, `undefined` or another tag of a union. The others say that a
limit is a natural number, or that a set is finite.

* **PublicationProofs.** `Inv` adds to the properties what a pending operation
  knows: at stages after the post the receipt is the intent, unless the turn was
  replaced, in which case both are null; the file of an issued end is a durable
  envelope; an `endAttempted` entry with a receipt is the one that ended the
  session. `EvidenceIsTrue` needs that a waiting caller's content is the one of
  the pending operation. `Refinement` maps every step to a step of
  `DurableHandoff` or a stutter.
* **NativePublicationProofs.** `NInv` keeps the machine's invariant across
  restarts and adds that every snapshot, in memory, on disk or in the hands of a
  save, is borne out by the hub, and that a process either replays its restored
  receipt (`Replaying`: the machine stays clean, every pending call ships that
  receipt for its own content) or drives the machine (`Driving`), never both.
  It holds for any number of overlapping calls and of restarts. The steps that
  change one call share `CallStep`, `DrivingStep` and `ReplayingStep`.
  `CrashSafe` and `ShippedIsLast` are about a client that waits for each answer:
  they have the hypothesis `MaxParallel = 1`, since the run
  `native_publication_overlap` shows them false without it. Their invariant, `SInv`,
  lets the one call in progress tie disk, memory and hub together (`PlaceInv`,
  `DriveInv`): whatever the hub holds beyond the answered calls belongs to the turn
  on disk, which the retry resumes (`UnsettledInv`).
* **SignedHubProofs.** `Inv` has two layers. `StormInv` and `EndedInv` hold always:
  a plan or an aim with an outcome exists once a model has been prompted, which gives
  `NoAckWithoutExposure`, and a lock is taken from a run at work only if a run has
  ended. `KeptApart` holds until `stolen`: whose file the lock is at each place, and
  what a process planned under the lock still fits the record when it commits. Hence
  `NeverBack`, `ExposedOnce`, `AckTellsTheOutcome` and the refinement, whose abstract
  specification stops promising when `intact`, that is `~stolen`, ends. `stolen` is
  set by `BreakLock` alone, so nothing is assumed of the schedule: any number of runs,
  overlapping in any way, with any deaths and failing files.
* **HubDeliveryProofs.** The strengthening covers the flush positions (`remove`
  only after the mark), the ledger already restored when a page is read, and the
  page under installation. It needs no bound on the restarts.
* **BrokerProofs**, `CastBroker`. At most one holder of the slot; the queue has no
  duplicates of waiting requests; at rest the turn is answered and staged; a
  reservation is held by just the requests in flight, and answers exceed the
  budget by no more than those (`LimitsAreKept`). The theorems hold for all
  limits and every finite set of requests.
* **BrokerProofs**, `StreamBridge`. `BridgeFaithful` is `BridgeIsFaithful` for
  every number of calls, fragments, parts, requests and remembered signatures. The
  invariant `BridgeInv` says of a stream under way that it is `Ready`: either
  `Sound`, or `Doomed`. In a sound stream (`SlotsInv`, `EventsInv`) the n-th call
  of the provider has slot n - 1 with just the fragments given of it, output
  indexes grow with the calls, and what the events told of a slot, if it was
  opened, is what the slot holds. A doomed stream is one of the Responses bridge in
  which a part without number and identifier got a slot of its own
  (`ToolCallIndex` by the place in the chunk): nothing is known of its contents
  any more, but no part can give the stray slot an identifier, and `finish()`
  throws there (`DoomedIsUnfit`). `PartKept` is the step: where a part goes
  (`PlaceOfPart`) in each style and protocol, what the slot becomes (`SlotsGrow`)
  and what is told of it (`EventsGrow`). `FinishIsDone` says that what finishing
  adds tells each item's rest once, and `ItemsAreTheCalls` that the items are the
  calls and the text in order. `MemoryInv` says that a remembered signature is that
  of a call the provider made, with its arguments if the client has heard the
  answer. What the recursive functions (`Told`, `Closings`, `Without`,
  `Remembered`) do step by step comes from `StepByStep` and `EachStep`; `ByOut`,
  a CHOOSE, has a value because every finite set of output indexes can be put in
  order (`CanBeOrdered`).

* **OrganismCastProofs**, `FindingBoundary`. Each place holds a packet at
  most once (`PlacesInv`), one place holds every accepted packet (`OnePlaceInv`),
  and the stage of a request says whether it can carry one and was answered
  (`StageInv`). The two steps that move a packet between requests and the queue
  (`TakeInv`, `CompleteInv`) carry the proof.
* **OrganismCastProofs**, `CastRun`. `LaneTruth` relates a lane's questions to its
  receipts, and to what the reader made of them (`missed`), at each place of the
  executor; a run that is about to write its result
  is `Earned`, and `done` belongs to a returned run. Any number of runs overlap on
  the directory, and any of them may die.
* **OrganismCastProofs**, `CastSupervisor`. The invariant says of each place of
  prepare and of start what the private files hold there. `HoldOf` says which
  places lie under the outer lock, `HolderOf` what the holder of that lock may rely
  on at its place, `FilesOk` how the files of a run agree with each other and with
  the launch at any time, which is what the next command finds.
  `ObservationInv` and `ReceiptInv` are what has been told. Failed writes have two
  outcomes, and both satisfy `FilesOk`. `LaunchedOnceAsBound` follows since only
  the state `prepared` permits a launch and `starting` is on disk before it.
* **OrganismCastProofs**, `CastPlan`. `ForecastTrue` compares what `check` forecasts
  with what the two ways to run accept, for any lanes and profiles.
* **OrganismCastProofs**, `FindingEvidence`. `EvidenceTrue` holds of ledgers and of
  batches of any length. That a conclusive receipt says what the ledger says
  (`ConclusiveMeansHeard`) needs that a finding is registered once and that the
  terminal event is the last. `CoalesceOneMore` says what one more receipt changes;
  `CoalesceAll` concludes from the least number of receipts at which coalescing
  would come to something else. `EvidenceInv` says that the receipt of a launch fits
  its ledger.
* **NativeHostProofs**, `NativeRuntime`. `OwnerInv`: whoever is past the lock made
  it, and a running backend belongs to its maker, alive or dead. `ProjectionInv`:
  the configuration a running backend reads is its own. `SessionInv` is about all
  the places a native session can be (`Natives`): there are never two.
* **NativeHostProofs**, `NativeTools`. One question, one registration, one grant:
  `AskingInv`, `LedgerInv`, `GrantInv`; `OutInv` says which answer carries the
  capability that is out, and `SettledInv` that a settled approval has no answer
  presented. The invariants build on each other in this order, and each is one
  lemma.
* **NativeHostProofs**, `AcpHost` and `ProductRun`. `GrantsAreOneShot` is nearly
  inductive; `WindowInv` relates the free calls of a critic to the gate's counter.
  For `ExitIsEarned`, `PhaseInv` and `TurnInv` carry the facts that a run knows
  between the exit of the child and its own.
* **ProductHostProofs**, `ReleaseInstallation`. `ChangingInv` says at each file
  operation which release is stored, active and executable, and `FoundInv` what
  the command remembers of the prefix it found; a failure undoes to the latter.
  Both are needed on the way back, when an undo may itself fail.
* **ProductHostProofs**, the others. `ConfigInv`: a draft that is being saved has
  its key, and no wizard takes a key away. `GateInv`: reads made and reads left
  do not exceed the budget, whatever hooks overlap; it is proved of the five variables
  the gate lives in. Transport, command and checkpoint need little beyond types.
* **ProductHostProofs**, `OpenCodePlugin`. `CastReceiptIsTrue` (`ReceiptTrue`) rests on
  `PluginInv`: what each overlapping call may rely on at its place (`HooksInv`:
  one prompt at a time for a session that reads none), what was told, admitted,
  seen and marked agree (`PairsInv`), all that was shown is counted (`ShownInv`),
  the counters are exact and a staged turn is in one place as long as no write
  failed (`CountInv`), and no queued receipt claims more than came to pass
  (`ChainInv`). The counters are exact only until a write fails, which is why
  `CountInv` says no more: from then on nothing is written. That a root is a
  session (`RootsAreSessions`) is about the recursive function `RootOf` climbs with:
  it is proved from the least number of steps at which it would not be.
* **ProductHostProofs**, `CoordinationContext`. `PacketHonest` holds for every
  finite set of messages, every goal and all limits. The operators that choose
  what a packet shows are recursive functions; `StepByStep` says that a value can
  be made step by step, and `EachStep` that what each step keeps holds of the last
  one, both from the least number of steps at which it would fail. A source can be
  put in order (`PutInOrder`, `CanBeOrdered`). `Chosen` is the invariant of the loop
  that admits items: those admitted keep the order and the limits, and an item that
  was left had no room or is larger than every later one that was admitted
  (`ChooseOneMore`). What is popped leaves a beginning (`ShortenedIsABeginning`).
  With `ReceiptTrue` and `CheckpointKept` this is `ExposureTrue`.
* **ProductHostProofs**, `ProductHost`. Every behaviour of the host is a behaviour
  of each machine, so that the theorems about two machines combine.

Some theorems state properties that are left to the proofs, which say more than
a run could: `EndNotRepeated`, `RecordMovesForward`, `AtMostOnce`,
`DueSurvives`, `SlotIsKept`, and the two parts of `LimitsAreKept`. The theorems
of `NativePublicationProofs`, `CrashSafe` and `ShippedIsLast` apart, hold for overlapping calls, which
the run `native_publication` does not have. The theorems about the cast and the host hold
for any number of processes, runs, lanes, packets, launches, answers and hooks,
and for all limits.

Only model-checked:
* the liveness properties (`CallsSettle`, `EventuallyAcked`, `EveryRequestEnds`),
  which are outside this prover's reach, as is ENABLED;
* the five violations.

No module declares a RECURSIVE operator.

## Not modelled

The models leave out formatting, digests and signatures (an id stands for its
digest), file permissions, and time; where the code compares times, the two
answers are both possible (an expired capability, a timeout, a cooldown). One
consequence: a capability is authorized before the body of the request is read,
and may have expired when the reservation is taken (`inference-broker.ts:1322`);
the model, without a clock, cannot tell that from a capability that is valid.

* Benchmarks, observation, evidence (`harbor-*`, `native-benchmark-*`,
  `*-observation.ts`): offline drivers and validators of reports, not part of the
  behaviour of the product.
* Native adapter admission, continuity and closure (`native-adapter-*.ts`):
  validators of records gathered offline; no state at run time.
* Capability probes and loadouts: run once before a launch and report.
* The generated plugin bundle: generated from the plugin's sources.
* Of modelled parts: the canonical form of tool arguments and of Hub candidates,
  the parsing of options, identities and project contracts, the text of sandbox
  profiles, command lines and environments, the launchers of OpenCode and agy
  (no runtime directory), the path checks of a plugin's receipt, the framing of
  the MCP endpoint and the validation of a checkpoint field by field, a restored
  `nonconformant` checkpoint in `NativePublication` (only other surfaces write
  it). Two hazards in them have no property: a `stage()` during the awaits of an
  `admit()` of the same session (`coordination-polling.ts:424`), which the
  callers' order excludes, and a save that fails after the body is durable
  (`native-product-lifecycle.ts:616`): the call is rejected, and a retry posts
  the same body as a second file. The model has that step (`SaveFails`); the code
  promises nothing of a rejected call, and `CrashMakesNoSecondFile` excludes it.

## Plan

Every safety property of the passing runs is a theorem. What a next step could
take up: the canonical form of tool arguments as a function of its own, the paths
of the launchers that have no runtime directory, and a fair specification of the
bridge (an answer under way ends, if the provider's connection does).
