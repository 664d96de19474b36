--------------------------- MODULE OpenCodePlugin ---------------------------
(***************************************************************************)
(* The first-party plugin of an OpenCode server.  OpenCode calls a hook    *)
(* for the system prompt of a turn, for every text the model completes,    *)
(* before and after every tool, and when a session goes idle; the hooks of *)
(* one session's tools, and those of the sessions of one root, overlap at  *)
(* every await.  The plugin stages what a prompt exposes, admits it on the *)
(* first sign that the model has read it, closes the investigation of a    *)
(* reviewer once its declared command succeeded, and keeps one receipt     *)
(* file for the cast that launched it.                                     *)
(*                                                                         *)
(* The poller and the publication are modules of their own (HubDelivery,   *)
(* Publication): here a poll offers any part of what its root has not      *)
(* seen, and a publication succeeds or fails.                              *)
(***************************************************************************)
EXTENDS Integers, FiniteSets, Sequences, SequencesExt

CONSTANTS
  OCSessions,      \* OpenCode sessions
  ParentOf,        \* the parent each of them has, if any
  MaxDepth,        \* how far a root may be
  Calls,           \* calls of hooks that may overlap
  RelayItems,      \* items of the relay, marked read one by one
  OtherItems,      \* items of the Agora
  Budget,          \* CLOSE_OUT_READ_BUDGET
  MaxWork,         \* bound: texts completed and tools asked for, a prompt worth two
  NoSession        \* no root has written the receipt yet

ASSUME PluginAssumption ==
  /\ NoSession \notin OCSessions /\ MaxDepth \in Nat \ {0}
  /\ ParentOf \in [OCSessions -> OCSessions \cup {NoSession}]
  /\ Budget \in Nat /\ MaxWork \in Nat
  /\ IsFiniteSet(RelayItems \cup OtherItems)

VARIABLES
  reviewer,        \* does the role bound its close-out
  receipted,       \* is there a cast receipt to keep
  prompted,        \* sessions whose model is reading a prompt
  hook,            \* of every call: what it does, for whom, and where it is
  pendingItems,    \* poller.pending: what a session's next admission admits
  staged,          \* stagedDelivery: the turn and its relay items, or none
  seenItems,       \* of every root: what no poll offers again
  marked,          \* relay items the CLI was told are read
  delivery,        \* the counters of the receipt
  receiptRoot, chain, poisoned,   \* receiptWrite: the writes not yet done
  receiptFile,     \* the receipt on disk
  closeOut,            \* closeOutGates: reads left, or none
  bodies,          \* publicationBodies: the longest text of a root
  evidence,        \* toolEvidence: what the tools have shown
  shipping,           \* of the publication of every root
  outputs,
  told, admitted,  \* history: what prompts showed, what was admitted
  investigated     \* history: tools begun since the declared command succeeded

pluginVars ==
  <<reviewer, receipted, prompted, hook, pendingItems, staged, seenItems, marked, delivery,
    receiptRoot, chain, poisoned, receiptFile, closeOut, bodies, evidence, shipping, outputs,
    told, admitted, investigated>>

(* resolveRootSession climbs from a session to the one without a parent; a *)
(* cycle, or a lineage longer than MaxDepth, is refused.                   *)
RootOf ==
  LET up[n \in 0..(MaxDepth - 1)] ==
        IF n = 0 THEN [s \in OCSessions |-> s]
        ELSE [s \in OCSessions |->
                LET t == up[n - 1][s] IN IF ParentOf[t] = NoSession THEN t ELSE ParentOf[t]]
  IN  up[MaxDepth - 1]

Resolves(s) == ParentOf[RootOf[s]] = NoSession

Roots == {RootOf[s] : s \in OCSessions}

Unstaged == [turn |-> 0, relay |-> 0]
NoGate   == -1
NoCounts == [prepared |-> 0, turns |-> 0, exposed |-> 0, items |-> 0, acks |-> 0]
NoText   == [length |-> 0, grounded |-> FALSE]
NoProof  == [files |-> FALSE, reproduced |-> FALSE]
NoHook   == [at |-> "none", kind |-> "none", session |-> NoSession, taken |-> Unstaged,
             packet |-> {}, left |-> {}]

(* A report that names a source line and a check, and a longer one that    *)
(* does not.                                                               *)
Texts == {[length |-> 1, grounded |-> TRUE], [length |-> 2, grounded |-> FALSE]}

(* A read stands for a glob and a grep too; "raw" is any tool that reaches  *)
(* for the CLI or for the coordination streams.                            *)
Tools == {"read", "bash", "raw", "organum_publish", "organum_handoff"}

Work       == 2 * delivery.prepared + outputs
Free(c)    == hook[c].at = "none"
Quiet(s)   == \A c \in Calls : ~Free(c) => hook[c].session # s
Running(c, at) == hook[c].at = at
Session(c) == hook[c].session
Root(c)    == RootOf[Session(c)]

ClosingKept == UNCHANGED <<closeOut, bodies, evidence, shipping, outputs, investigated>>
StagingKept == UNCHANGED <<pendingItems, staged, seenItems, marked, delivery, told, admitted>>
ReceiptKept == UNCHANGED <<receiptRoot, chain, poisoned, receiptFile>>
ConfigKept  == UNCHANGED <<reviewer, receipted>>

(* openCodeCastReceiptSchema: a receipt whose counters break conservation  *)
(* is not a receipt.                                                       *)
Conserved(d) == d.turns <= d.prepared /\ d.items <= d.exposed /\ d.acks <= d.items

(* A hook that is done returns; one that threw does too, and its prompt,   *)
(* text or tool goes no further, but for an admission that has to be       *)
(* staged again.                                                           *)
Resume(h, at) ==
  IF at = "done" \/ (at = "threw" /\ h.taken = Unstaged) THEN NoHook ELSE [h EXCEPT !.at = at]

(* persistCastReceipt queues the receipt behind the writes not yet done,   *)
(* and waits for its own; a write that failed fails all that follow.  The  *)
(* call h goes on at next once it is written.                              *)
Persist(c, h, root, d, p, next) ==
  /\ receiptRoot' = IF receipted /\ receiptRoot = NoSession THEN root ELSE receiptRoot
  /\ IF ~receipted
     THEN hook' = [hook EXCEPT ![c] = Resume(h, next)] /\ UNCHANGED chain
     ELSE IF receiptRoot' # root \/ ~Conserved(d) \/ poisoned
     THEN hook' = [hook EXCEPT ![c] = Resume(h, "threw")] /\ UNCHANGED chain
     ELSE /\ hook' = [hook EXCEPT ![c] = [h EXCEPT !.at = "writing"]]
          /\ chain' = Append(chain, [call |-> c, next |-> next,
                                     body |-> [delivery |-> d, shipped |-> p = "shipped"]])
  /\ UNCHANGED <<poisoned, receiptFile>>

WriteReceipt ==
  LET done == Head(chain)
  IN  /\ chain # <<>>
      /\ receiptFile' = done.body
      /\ hook' = [hook EXCEPT ![done.call] = Resume(@, done.next)]
      /\ chain' = Tail(chain)
      /\ UNCHANGED <<prompted, receiptRoot, poisoned>>
      /\ ConfigKept /\ StagingKept /\ ClosingKept

WriteReceiptFails ==
  /\ chain # <<>>
  /\ poisoned' = TRUE /\ chain' = <<>>
  /\ hook' = [c \in Calls |-> IF \E i \in DOMAIN chain : chain[i].call = c
                              THEN Resume(hook[c], "threw") ELSE hook[c]]
  /\ UNCHANGED <<prompted, receiptRoot, receiptFile>> /\ ConfigKept /\ StagingKept /\ ClosingKept

-----------------------------------------------------------------------------
(* experimental.chat.system.transform: the polled items are staged and     *)
(* counted before the packet is pushed; a prompt that fails ends its turn. *)
Transform(c, s, shown) ==
  LET relay == Cardinality(shown \cap RelayItems)
      d == [delivery EXCEPT !.prepared = @ + 1, !.exposed = @ + Cardinality(shown)]
  IN  /\ Free(c) /\ Quiet(s) /\ s \notin prompted /\ Resolves(s) /\ Work + 2 <= MaxWork
      /\ pendingItems' = [pendingItems EXCEPT ![s] = shown]
      /\ staged' = [staged EXCEPT ![s] = [turn |-> d.prepared, relay |-> relay]]
      /\ delivery' = d
      /\ Persist(c, [NoHook EXCEPT !.kind = "transform", !.session = s, !.packet = shown],
                 RootOf[s], d, shipping[RootOf[s]], "push")
      /\ UNCHANGED <<prompted, seenItems, marked, told, admitted>> /\ ConfigKept /\ ClosingKept

Unseen(s) == (RelayItems \cup OtherItems) \ (seenItems[RootOf[s]] \cup marked)

Push(c) ==
  /\ Running(c, "push")
  /\ told' = told \cup ({Session(c)} \X hook[c].packet)
  /\ prompted' = prompted \cup {Session(c)}
  /\ hook' = [hook EXCEPT ![c] = NoHook]
  /\ UNCHANGED <<pendingItems, staged, seenItems, marked, delivery, admitted>>
  /\ ConfigKept /\ ReceiptKept /\ ClosingKept

-----------------------------------------------------------------------------
(* admitStagedDelivery takes the staged turn, if there is one; once it has *)
(* awaited the session's state it looks again, for another hook may have   *)
(* taken it meanwhile.                                                     *)
Admitting(s, kind) ==
  [NoHook EXCEPT !.at = IF staged[s] = Unstaged THEN "admitted" ELSE "ensure",
                 !.kind = kind, !.session = s, !.taken = staged[s]]

(* experimental.text.complete keeps the longest text of the root.          *)
CompleteText(c, s, text) ==
  /\ Free(c) /\ s \in prompted /\ Work < MaxWork
  /\ \A k \in Calls : Session(k) = s => hook[k].kind # "text"
  /\ outputs' = outputs + 1
  /\ bodies' = IF text.length > bodies[RootOf[s]].length
               THEN [bodies EXCEPT ![RootOf[s]] = text] ELSE bodies
  /\ hook' = [hook EXCEPT ![c] = Admitting(s, "text")]
  /\ UNCHANGED <<prompted, closeOut, evidence, shipping, investigated>>
  /\ ConfigKept /\ StagingKept /\ ReceiptKept

(* tool.execute.before begins with the same admission.                     *)
AskTool(c, s, tool) ==
  /\ Free(c) /\ s \in prompted /\ Work < MaxWork
  /\ outputs' = outputs + 1
  /\ hook' = [hook EXCEPT ![c] = Admitting(s, tool)]
  /\ UNCHANGED <<prompted, closeOut, bodies, evidence, shipping, investigated>>
  /\ ConfigKept /\ StagingKept /\ ReceiptKept

-----------------------------------------------------------------------------
Confirm(c) ==
  /\ Running(c, "ensure")
  /\ IF staged[Session(c)] # hook[c].taken
     THEN /\ hook' = [hook EXCEPT ![c].at = "admitted", ![c].taken = Unstaged]
          /\ UNCHANGED staged
     ELSE /\ staged' = [staged EXCEPT ![Session(c)] = Unstaged]
          /\ hook' = [hook EXCEPT ![c].at = "marking", ![c].packet = pendingItems[Session(c)],
                                  ![c].left = pendingItems[Session(c)] \cap RelayItems]
  /\ UNCHANGED <<prompted, pendingItems, seenItems, marked, delivery, told, admitted>>
  /\ ConfigKept /\ ReceiptKept /\ ClosingKept

MarkRead(c, x) ==
  /\ Running(c, "marking") /\ x \in hook[c].left
  /\ marked' = marked \cup {x}
  /\ hook' = [hook EXCEPT ![c].left = @ \ {x}]
  /\ UNCHANGED <<prompted, pendingItems, staged, seenItems, delivery, told, admitted>>
  /\ ConfigKept /\ ReceiptKept /\ ClosingKept

MarkFails(c) ==
  /\ Running(c, "marking") /\ hook[c].left # {}
  /\ hook' = [hook EXCEPT ![c].at = "threw"]
  /\ UNCHANGED prompted /\ ConfigKept /\ StagingKept /\ ReceiptKept /\ ClosingKept

AdmitStaged(c) ==
  LET s == Session(c)
      d == [delivery EXCEPT !.turns = @ + 1, !.items = @ + Cardinality(hook[c].packet),
                            !.acks = @ + hook[c].taken.relay]
  IN  /\ Running(c, "marking") /\ hook[c].left = {}
      /\ pendingItems' = [pendingItems EXCEPT ![s] = {}]
      /\ seenItems' = [seenItems EXCEPT ![RootOf[s]] = @ \cup hook[c].packet]
      /\ delivery' = d
      /\ admitted' = admitted \cup ({s} \X hook[c].packet)
      /\ Persist(c, hook[c], RootOf[s], d, shipping[RootOf[s]], "admitted")
      /\ UNCHANGED <<prompted, staged, marked, told>> /\ ConfigKept /\ ClosingKept

(* An admission that failed, or whose receipt did, is staged again, unless *)
(* a newer prompt was staged since.                                        *)
Restage(c) ==
  /\ Running(c, "threw") /\ hook[c].taken # Unstaged
  /\ staged' = IF staged[Session(c)] = Unstaged
               THEN [staged EXCEPT ![Session(c)] = hook[c].taken] ELSE staged
  /\ hook' = [hook EXCEPT ![c] = NoHook]
  /\ UNCHANGED <<prompted, pendingItems, seenItems, marked, delivery, told, admitted>>
  /\ ConfigKept /\ ReceiptKept /\ ClosingKept

TextDone(c) ==
  /\ Running(c, "admitted") /\ hook[c].kind = "text"
  /\ Persist(c, [NoHook EXCEPT !.kind = "text", !.session = Session(c)],
             Root(c), delivery, shipping[Root(c)], "done")
  /\ UNCHANGED prompted /\ ConfigKept /\ StagingKept /\ ClosingKept

-----------------------------------------------------------------------------
(* The rest of tool.execute.before: no raw access to Organum; nothing of a *)
(* reviewer's root once it shipped; and behind the gate only a handoff, or *)
(* one of the reads left.                                                  *)
Passes(c) ==
  /\ hook[c].kind # "raw"
  /\ reviewer =>
       /\ shipping[Root(c)] # "shipped"
       /\ \/ closeOut[Root(c)] = NoGate
          \/ hook[c].kind = "organum_handoff"
          \/ hook[c].kind = "read" /\ closeOut[Root(c)] > 0

(* Fault: a read behind the gate costs nothing.                            *)
BeginToolFree(c) ==
  /\ Running(c, "admitted") /\ hook[c].kind \in Tools /\ Passes(c)
  /\ investigated' =
       IF evidence[Root(c)].reproduced /\ hook[c].kind # "organum_handoff"
       THEN [investigated EXCEPT ![Root(c)] = @ + 1] ELSE investigated
  /\ hook' = [hook EXCEPT ![c] = [NoHook EXCEPT !.at = "executing", !.kind = hook[c].kind,
                                               !.session = Session(c)]]
  /\ UNCHANGED <<prompted, closeOut, bodies, evidence, shipping, outputs>>
  /\ ConfigKept /\ StagingKept /\ ReceiptKept

BeginTool(c) ==
  /\ Running(c, "admitted") /\ hook[c].kind \in Tools /\ Passes(c)
  /\ closeOut' = IF reviewer /\ closeOut[Root(c)] # NoGate /\ hook[c].kind = "read"
             THEN [closeOut EXCEPT ![Root(c)] = @ - 1] ELSE closeOut
  /\ investigated' =
       IF evidence[Root(c)].reproduced /\ hook[c].kind # "organum_handoff"
       THEN [investigated EXCEPT ![Root(c)] = @ + 1] ELSE investigated
  /\ hook' = [hook EXCEPT ![c] = [NoHook EXCEPT !.at = "executing", !.kind = hook[c].kind,
                                               !.session = Session(c)]]
  /\ UNCHANGED <<prompted, bodies, evidence, shipping, outputs>>
  /\ ConfigKept /\ StagingKept /\ ReceiptKept

RefuseTool(c) ==
  /\ Running(c, "admitted") /\ hook[c].kind \in Tools /\ ~Passes(c)
  /\ hook' = [hook EXCEPT ![c] = NoHook]
  /\ UNCHANGED prompted /\ ConfigKept /\ StagingKept /\ ReceiptKept /\ ClosingKept

(* tool.execute.after: files read, and the declared command that succeeded *)
(* opens the gate once.                                                    *)
AfterTool(c, success) ==
  /\ Running(c, "executing") /\ hook[c].kind \in {"read", "bash"}
  /\ success => hook[c].kind = "bash"
  /\ IF ~reviewer THEN UNCHANGED <<evidence, closeOut>>
     ELSE /\ evidence' = [evidence EXCEPT ![Root(c)].files = @ \/ hook[c].kind = "read",
                                          ![Root(c)].reproduced = @ \/ success]
          /\ closeOut' = IF success /\ closeOut[Root(c)] = NoGate
                     THEN [closeOut EXCEPT ![Root(c)] = Budget] ELSE closeOut
  /\ hook' = [hook EXCEPT ![c] = NoHook]
  /\ UNCHANGED <<prompted, bodies, shipping, outputs, investigated>>
  /\ ConfigKept /\ StagingKept /\ ReceiptKept

(* The body is the caller's, or the grounded report of the root, or what   *)
(* the tools have shown.                                                   *)
HasBody(c, given) ==
  \/ given \/ bodies[Root(c)].grounded
  \/ evidence[Root(c)].files /\ evidence[Root(c)].reproduced

Publish(c, given) ==
  /\ Running(c, "executing") /\ hook[c].kind \in {"organum_publish", "organum_handoff"}
  /\ HasBody(c, given) /\ shipping[Root(c)] # "shipped"
  /\ IF hook[c].kind = "organum_handoff"
     THEN /\ shipping' = [shipping EXCEPT ![Root(c)] = "shipped"]
          /\ closeOut' = [closeOut EXCEPT ![Root(c)] = NoGate]
          /\ bodies' = [bodies EXCEPT ![Root(c)] = NoText]
          /\ evidence' = [evidence EXCEPT ![Root(c)] = NoProof]
     ELSE /\ shipping' = [shipping EXCEPT ![Root(c)] = "published"]
          /\ UNCHANGED <<closeOut, bodies, evidence>>
  /\ Persist(c, hook[c], Root(c), delivery, shipping'[Root(c)], "done")
  /\ UNCHANGED <<prompted, outputs, investigated>> /\ ConfigKept /\ StagingKept

PublishFails(c) ==
  /\ Running(c, "executing") /\ hook[c].kind \in {"organum_publish", "organum_handoff"}
  /\ hook' = [hook EXCEPT ![c] = NoHook]
  /\ UNCHANGED prompted /\ ConfigKept /\ StagingKept /\ ReceiptKept /\ ClosingKept

(* session.idle ends the turn, after the reminder the publication may ask  *)
(* for.                                                                    *)
IdleEvent(c, s) ==
  /\ Free(c) /\ Quiet(s) /\ s \in prompted
  /\ prompted' = prompted \ {s}
  /\ Persist(c, [NoHook EXCEPT !.kind = "idle", !.session = s],
             RootOf[s], delivery, shipping[RootOf[s]], "done")
  /\ ConfigKept /\ StagingKept /\ ClosingKept

PluginInit ==
  /\ reviewer \in BOOLEAN /\ receipted \in BOOLEAN
  /\ prompted = {} /\ hook = [c \in Calls |-> NoHook]
  /\ pendingItems = [s \in OCSessions |-> {}] /\ staged = [s \in OCSessions |-> Unstaged]
  /\ seenItems = [r \in Roots |-> {}] /\ marked = {} /\ delivery = NoCounts
  /\ receiptRoot = NoSession /\ chain = <<>> /\ poisoned = FALSE
  /\ receiptFile = [delivery |-> NoCounts, shipped |-> FALSE]
  /\ closeOut = [r \in Roots |-> NoGate] /\ bodies = [r \in Roots |-> NoText]
  /\ evidence = [r \in Roots |-> NoProof] /\ shipping = [r \in Roots |-> "working"]
  /\ outputs = 0 /\ told = {} /\ admitted = {}
  /\ investigated = [r \in Roots |-> 0]

PluginNext ==
  \/ WriteReceipt \/ WriteReceiptFails
  \/ \E c \in Calls :
       \/ \E s \in OCSessions :
            \/ \E shown \in SUBSET Unseen(s) : Transform(c, s, shown)
            \/ \E text \in Texts : CompleteText(c, s, text)
            \/ \E tool \in Tools : AskTool(c, s, tool)
            \/ IdleEvent(c, s)
       \/ Push(c) \/ Confirm(c)
       \/ (\E x \in RelayItems : MarkRead(c, x))
       \/ MarkFails(c) \/ AdmitStaged(c) \/ Restage(c) \/ TextDone(c)
       \/ BeginTool(c) \/ RefuseTool(c)
       \/ (\E success \in BOOLEAN : AfterTool(c, success))
       \/ (\E given \in BOOLEAN : Publish(c, given)) \/ PublishFails(c)

PluginSpec == PluginInit /\ [][PluginNext]_pluginVars

-----------------------------------------------------------------------------

(* The receipt the cast reads never claims more than came to pass: as many *)
(* items as its root admitted, as many acknowledgements as relay items     *)
(* among them, all of them put before a model first; and a shipped         *)
(* publication only when one shipped.                                      *)
CastReceiptIsTrue ==
  /\ admitted \subseteq told
  /\ \A x \in marked : \E s \in OCSessions : <<s, x>> \in told
  /\ receiptFile.delivery.items <= Cardinality(admitted)
  /\ receiptFile.delivery.acks
       <= Cardinality({p \in admitted : p[2] \in RelayItems /\ p[2] \in marked})
  /\ receiptFile.shipped => receiptRoot \in Roots /\ shipping[receiptRoot] = "shipped"

(* Once its declared command succeeded a reviewer's root begins no more    *)
(* than the budget of reads, whatever was under way when it did.           *)
PluginIsBounded == reviewer => \A r \in Roots : investigated[r] <= Budget
=============================================================================
