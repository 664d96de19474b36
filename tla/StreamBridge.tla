---------------------------- MODULE StreamBridge ----------------------------
(***************************************************************************)
(* The protocol bridge of the inference broker: a backend that speaks the  *)
(* Responses or the Messages protocol is served by a provider that speaks  *)
(* Chat Completions (responses-chat-bridge.ts, anthropic-chat-bridge.ts,   *)
(* inference-broker.ts).  The provider streams tool calls in fragments of  *)
(* its own cutting; the bridge puts them together again and tells the      *)
(* client of items that open, grow and close.  It also gives a call back   *)
(* the thought signature the provider issued it with, when the client      *)
(* repeats the call in its next request.                                   *)
(*                                                                         *)
(* A fragment of the arguments of call k is the pair <<k, n>>.  A provider *)
(* keeps to one style in a stream: it numbers its calls ("indexed"),       *)
(* repeats the identifier in every part ("named"), gives it in the first   *)
(* part only ("bare"), or uses one number for all of its calls ("reused",  *)
(* taken for the Messages bridge only, which refuses it).                  *)
(***************************************************************************)
EXTENDS Integers, FiniteSets, SequencesExt

CONSTANTS
  ToolCalls,      \* identifiers of the provider's tool calls
  CustomCalls,    \* those of a tool the client declared as custom
  Prose,          \* stands for a piece of text
  NoCall,         \* no identifier, or no name
  Fragments,      \* into how many fragments the arguments of a call are cut
  MaxPieces,      \* bound: parts and texts of a session
  MaxTurns,       \* bound: requests of a session
  MaxSignatures   \* MAX_TOOL_THOUGHT_SIGNATURES

ASSUME StreamAssumption ==
  /\ CustomCalls \subseteq ToolCalls
  /\ {Fragments, MaxPieces, MaxTurns, MaxSignatures} \subseteq Nat \ {0}
  /\ Prose \notin ToolCalls /\ NoCall \notin ToolCalls /\ Prose # NoCall

VARIABLES
  protocol,     \* what the client speaks: "responses" or "messages"
  style,        \* how the provider names the calls of its stream
  supervised,   \* a tool projection withholds the events until it decides
  turns,        \* requests sent to the provider
  streaming,    \* the provider's answer is being bridged
  reply,        \* how the last request ended for the client
  source,       \* what the provider has streamed
  flow,         \* the stream object of the bridge
  seen,         \* the events the client has received
  shown,        \* the proposals the projection was asked about
  memory,       \* #toolThoughtSignatures, oldest first
  repeated,     \* the calls the client keeps in its conversation
  issued,       \* the calls the provider made, each with its signature
  upstream,     \* the calls of the last request sent to the provider
  limited       \* #rateLimitBlockedUntil lies ahead

streamVars ==
  <<protocol, style, supervised, turns, streaming, reply, source, flow, seen, shown, memory,
    repeated, issued, upstream, limited>>

NoSource == [opened |-> <<>>, named |-> {}, given |-> [k \in ToolCalls |-> 0], texts |-> 0,
             pieces |-> 0, ended |-> FALSE]
NoFlow   == [slots |-> <<>>, next |-> 0, prose |-> -1, texts |-> 0, events |-> <<>>,
             stopped |-> FALSE, ok |-> TRUE]

Given(s, k) == [n \in 1..s.given[k] |-> <<k, n>>]
Whole(k)    == [n \in 1..Fragments |-> <<k, n>>]

(***************************************************************************)
(* The provider.  A part of a stream carries an identifier, a name, one    *)
(* more fragment of the arguments, or several of these.                    *)
(***************************************************************************)
Number(s, k) ==
  CASE style = "indexed" -> IF Contains(s.opened, k) THEN (CHOOSE n \in DOMAIN s.opened : s.opened[n] = k) - 1
                            ELSE Len(s.opened)
    [] style = "reused"  -> 0
    [] OTHER             -> -1

Parts(s) ==
  {[call |-> k, id |-> ~Contains(s.opened, k) \/ style = "named", name |-> name, more |-> more,
    index |-> Number(s, k)] :
     k \in ToolCalls, name \in BOOLEAN, more \in BOOLEAN}

Sendable(s, p) ==
  /\ s.pieces < MaxPieces /\ ~s.ended
  /\ p.name => p.call \notin s.named
  /\ p.more => s.given[p.call] < Fragments
  /\ Contains(s.opened, p.call) => p.name \/ p.more

Sent(s, p) ==
  [s EXCEPT !.opened = IF Contains(@, p.call) THEN @ ELSE Append(@, p.call),
            !.named = IF p.name THEN @ \cup {p.call} ELSE @,
            !.given[p.call] = IF p.more THEN @ + 1 ELSE @, !.pieces = @ + 1]

SentText(s) == [s EXCEPT !.texts = @ + 1, !.pieces = @ + 1]

(***************************************************************************)
(* The stream objects.                                                     *)
(***************************************************************************)
Opened(out, k)      == [type |-> "opened", out |-> out, call |-> k, args |-> <<>>]
Grown(out, more)    == [type |-> "grown", out |-> out, call |-> NoCall, args |-> more]
Closed(out, k, all) == [type |-> "closed", out |-> out, call |-> k, args |-> all]
Completed(items)    == [type |-> "completed", out |-> -1, call |-> NoCall, args |-> items]

(* The message item of a Responses stream, the text block of a Messages    *)
(* one: opened by the first text.                                          *)
TakeText(f) ==
  LET first == f.prose = -1
      out   == IF first THEN f.next ELSE f.prose
  IN  [f EXCEPT !.prose = out, !.next = IF first THEN @ + 1 ELSE @, !.texts = @ + 1,
                !.events = @ \o (IF first THEN <<Opened(out, Prose)>> ELSE <<>>)
                             \o <<Grown(out, <<Prose>>)>>]

(* Fault: a part without a number always goes on with the latest call.     *)
LatestCall(f, p, at, calls) ==
  LET used == DOMAIN f.slots
  IN  IF p.index >= 0 THEN p.index
      ELSE IF p.id /\ \A i \in used : f.slots[i].call # p.call THEN Cardinality(used)
      ELSE Cardinality(used) - 1

(* Which call of the stream a part belongs to: by its number, by its       *)
(* identifier, by its place among the parts of the chunk, or as the only   *)
(* call there is; -1 when that is ambiguous.                               *)
ToolCallIndex(f, p, at, calls) ==
  LET used    == DOMAIN f.slots
      matched == {i \in used : p.id /\ f.slots[i].call = p.call}
      free    == CHOOSE i \in 0..Cardinality(used) : i \notin used /\ \A j \in 0..(i - 1) : j \in used
  IN  CASE p.index >= 0                  -> p.index
        [] p.index < 0 /\ matched # {}   -> CHOOSE i \in matched : \A j \in matched : i <= j
        [] p.index < 0 /\ matched = {}   ->
             IF calls > 1 /\ at \notin used THEN at
             ELSE IF p.id THEN free
             ELSE IF used = {} THEN 0
             ELSE IF Cardinality(used) = 1 THEN CHOOSE i \in used : TRUE
             ELSE -1

Slot(f, i) ==
  IF i \in DOMAIN f.slots THEN f.slots[i]
  ELSE [call |-> NoCall, name |-> NoCall, args |-> <<>>, out |-> f.next, told |-> 0,
        added |-> FALSE]

Put(f, i, slot) ==
  [f EXCEPT !.slots = [j \in DOMAIN @ \cup {i} |-> IF j = i THEN slot ELSE f.slots[j]],
            !.next = IF i \in DOMAIN f.slots THEN @ ELSE @ + 1]

(* ChatCompletionResponsesStream: an item is added once both identifier    *)
(* and name are known, and from then on a function's arguments stream      *)
(* through; those of a custom tool wait for the end.                       *)
TakeResponsesPart(f, p, more, at, calls) ==
  LET i    == ToolCallIndex(f, p, at, calls)
      old  == Slot(f, i)
      call == IF p.id THEN p.call ELSE old.call
      name == IF p.name THEN p.call ELSE old.name
      args == old.args \o more
      adds == ~old.added /\ call # NoCall /\ name # NoCall
      tell == (old.added \/ adds) /\ name \notin CustomCalls /\ Len(args) > old.told
      slot == [call |-> call, name |-> name, args |-> args, out |-> old.out,
               told |-> IF tell THEN Len(args) ELSE old.told, added |-> old.added \/ adds]
  IN  IF i = -1 THEN [f EXCEPT !.ok = FALSE]
      ELSE [Put(f, i, slot) EXCEPT
              !.events = @ \o (IF adds THEN <<Opened(old.out, call)>> ELSE <<>>)
                           \o (IF tell THEN <<Grown(old.out, SubSeq(args, old.told + 1, Len(args)))>>
                               ELSE <<>>)]

(* ChatCompletionAnthropicStream: a part without a number, a first part    *)
(* without identifier or name, and a call that changes its identity end    *)
(* the stream.                                                             *)
TakeMessagesPart(f, p, more) ==
  LET new  == p.index \notin DOMAIN f.slots
      old  == Slot(f, p.index)
      slot == [old EXCEPT !.call = IF new THEN p.call ELSE @, !.name = IF new THEN p.call ELSE @,
                          !.args = @ \o more, !.added = TRUE]
  IN  IF \/ p.index < 0
         \/ new /\ ~(p.id /\ p.name)
         \/ ~new /\ (p.id \/ p.name) /\ p.call # old.call
      THEN [f EXCEPT !.ok = FALSE]
      ELSE [Put(f, p.index, slot) EXCEPT
              !.events = @ \o (IF new THEN <<Opened(old.out, p.call)>> ELSE <<>>)
                           \o (IF more # <<>> THEN <<Grown(old.out, more)>> ELSE <<>>)]

TakePart(f, s, p, at, calls) ==
  LET more == IF p.more THEN <<<<p.call, s.given[p.call] + 1>>>> ELSE <<>>
  IN  IF ~f.ok \/ f.stopped THEN f
      ELSE IF protocol = "responses" THEN TakeResponsesPart(f, p, more, at, calls)
      ELSE TakeMessagesPart(f, p, more)

(* Items and calls by their place in the answer.                           *)
ByOut(S) ==
  CHOOSE s \in [1..Cardinality(S) -> S] : \A m, n \in 1..Cardinality(S) : m < n => s[m].out < s[n].out

InOrder(f) == ByOut({f.slots[i] : i \in DOMAIN f.slots})

Parses(slot) == slot.args = Whole(slot.call)

(* What finish() throws at: an item never added, raw input of a custom     *)
(* tool that does not parse; what the proposals of a projection, and an    *)
(* answer in one piece, throw at: arguments given that do not parse.       *)
Unfit(f, whole) ==
  {i \in DOMAIN f.slots :
     IF protocol = "responses"
     THEN f.slots[i].added => f.slots[i].name \in CustomCalls /\ ~Parses(f.slots[i])
     ELSE (supervised \/ whole) /\ f.slots[i].args # <<>> /\ ~Parses(f.slots[i])}

(* The items of the answer (those of a Messages stream the client adds up  *)
(* itself).                                                                *)
Message(f) == Closed(f.prose, Prose, [n \in 1..f.texts |-> Prose])

Items(f) ==
  ByOut({Closed(f.slots[i].out, f.slots[i].call, f.slots[i].args) : i \in DOMAIN f.slots}
        \cup (IF f.prose = -1 THEN {} ELSE {Message(f)}))

(* The Responses stream closes its message first, and tells the raw input  *)
(* of a custom tool only now.                                              *)
Closing(e) ==
  IF protocol = "responses" /\ e.call = Prose THEN <<>>
  ELSE IF protocol = "responses" /\ e.call \in CustomCalls THEN <<Grown(e.out, e.args), e>>
  ELSE <<e>>

Closings(items) ==
  LET upto[n \in 0..Len(items)] == IF n = 0 THEN <<>> ELSE upto[n - 1] \o Closing(items[n])
  IN  upto[Len(items)]

(* finish().  What was gathered for the client is lost when it throws.     *)
Finish(f) ==
  IF f.stopped THEN f
  ELSE IF protocol = "responses" /\ Unfit(f, FALSE) # {} THEN [f EXCEPT !.stopped = TRUE]
  ELSE [f EXCEPT !.stopped = TRUE,
                 !.events = @ \o (IF protocol = "responses" /\ f.prose # -1 THEN <<Message(f)>> ELSE <<>>)
                              \o Closings(Items(f)) \o <<Completed(Items(f))>>]

(***************************************************************************)
(* Thought signatures.                                                     *)
(***************************************************************************)
Without(known, call) ==
  LET upto[n \in 0..Len(known)] ==
        IF n = 0 THEN <<>>
        ELSE IF known[n].call = call THEN upto[n - 1] ELSE Append(upto[n - 1], known[n])
  IN  upto[Len(known)]

Remember(known, entry) ==
  LET all == Append(Without(known, entry.call), entry)
  IN  IF Len(all) > MaxSignatures THEN Tail(all) ELSE all

(* finish() hands over the signatures call by call, and stops at the first *)
(* call it cannot finish.                                                  *)
Finishes(slot) == slot.added /\ (slot.name \in CustomCalls => Parses(slot))

Entry(slot) == [call |-> slot.call, args |-> slot.args, signature |-> <<turns, slot.call>>]

Remembered(f) ==
  LET order == InOrder(f)
      after[n \in 0..Len(order)] ==
        IF n = 0 THEN memory
        ELSE IF \A m \in 1..n : Finishes(order[m]) THEN Remember(after[n - 1], Entry(order[n]))
        ELSE after[n - 1]
  IN  IF protocol = "responses" THEN after[Len(order)] ELSE memory

ThoughtSignature(call, args) ==
  LET stored == {n \in 1..Len(memory) : memory[n].call = call /\ memory[n].args = args}
  IN  IF stored = {} THEN <<>> ELSE memory[CHOOSE n \in stored : TRUE].signature

(***************************************************************************)
(* Requests.                                                               *)
(***************************************************************************)
StreamInit ==
  /\ protocol \in {"responses", "messages"}
  /\ style \in {"indexed", "named", "bare", "reused"}
  /\ supervised \in BOOLEAN
  /\ style = "reused" => protocol = "messages"
  /\ supervised => protocol = "messages"
  /\ turns = 0 /\ streaming = FALSE /\ reply = "none"
  /\ source = NoSource /\ flow = NoFlow /\ seen = <<>> /\ shown = {}
  /\ memory = <<>> /\ repeated = {} /\ issued = {} /\ upstream = {}
  /\ limited = FALSE

Fresh ==
  source' = [NoSource EXCEPT !.pieces = source.pieces] /\ flow' = NoFlow /\ seen' = <<>> /\ shown' = {}

(* A request the bridge cannot translate never reaches the provider.       *)
RefuseRequest ==
  /\ ~streaming /\ reply' = "refused" /\ Fresh
  /\ UNCHANGED <<protocol, style, supervised, turns, streaming, memory, repeated, issued,
                 upstream, limited>>

(* #assertProviderQuotaAvailable.                                          *)
RefuseLimited ==
  /\ ~streaming /\ limited /\ reply' = "limited" /\ Fresh
  /\ UNCHANGED <<protocol, style, supervised, turns, streaming, memory, repeated, issued,
                 upstream, limited>>

(* The client may have cut the last fragment off a call it repeats.        *)
Kept(edited) == {IF c = edited THEN [c EXCEPT !.args = Front(@)] ELSE c : c \in repeated}

Forward(edited) ==
  /\ ~streaming /\ ~limited /\ turns < MaxTurns
  /\ turns' = turns + 1 /\ Fresh
  /\ upstream' = {[call |-> c.call, args |-> c.args,
                    signature |-> ThoughtSignature(c.call, c.args)] : c \in Kept(edited)}
  /\ repeated' = Kept(edited)
  /\ UNCHANGED <<protocol, style, supervised, memory, issued>>

Stream(edited) == Forward(edited) /\ streaming' = TRUE /\ reply' = "none" /\ limited' = FALSE

(* The provider answers with an error; #observeRateLimit reads how long it *)
(* wants to be left alone.                                                 *)
ProviderRefuses(edited) ==
  /\ Forward(edited) /\ reply' = "error" /\ limited' \in BOOLEAN
  /\ UNCHANGED streaming

Cool ==
  /\ limited /\ limited' = FALSE
  /\ UNCHANGED <<protocol, style, supervised, turns, streaming, reply, source, flow, seen, shown,
                 memory, repeated, issued, upstream>>

(***************************************************************************)
(* The stream.                                                             *)
(***************************************************************************)
Signed(s, heard) ==
  {[call |-> k, args |-> Given(s, k), signature |-> <<turns, k>>, heard |-> heard] :
     k \in ToSet(s.opened)}

Lose ==
  /\ streaming' = FALSE /\ reply' = "failed" /\ issued' = issued \cup Signed(source', FALSE)
  /\ UNCHANGED <<protocol, style, supervised, turns, shown, memory, repeated, upstream, limited>>

Follow(s, f) ==
  /\ source' = s /\ flow' = f
  /\ seen' = IF supervised \/ ~f.ok THEN seen ELSE f.events
  /\ IF f.ok
     THEN UNCHANGED <<protocol, style, supervised, turns, streaming, reply, shown, memory, repeated,
                      issued, upstream, limited>>
     ELSE Lose

ChunkOfText ==
  /\ streaming /\ source.pieces < MaxPieces /\ ~source.ended
  /\ Follow(SentText(source), IF flow.stopped THEN flow ELSE TakeText(flow))

ChunkOfOne ==
  /\ streaming
  /\ \E p \in Parts(source) :
       /\ Sendable(source, p)
       /\ Follow(Sent(source, p), TakePart(flow, source, p, 0, 1))

ChunkOfTwo ==
  /\ streaming
  /\ \E p \in Parts(source) :
       /\ Sendable(source, p)
       /\ LET s == Sent(source, p)
              f == TakePart(flow, source, p, 0, 2)
          IN  \E q \in Parts(s) : Sendable(s, q) /\ Follow(Sent(s, q), TakePart(f, s, q, 1, 2))

(* finish_reason: the Messages bridge finishes at once.                    *)
FinishReason ==
  /\ streaming /\ ~source.ended
  /\ Follow([source EXCEPT !.ended = TRUE], IF protocol = "messages" THEN Finish(flow) ELSE flow)

(* Malformed events, a lost connection, a client that goes away.           *)
StreamBreaks ==
  /\ streaming /\ UNCHANGED <<source, flow, seen>> /\ Lose

Proposals(f) ==
  {[call |-> f.slots[i].call, args |-> f.slots[i].args] : i \in DOMAIN f.slots}

Denial == Closed(0, Prose, <<Prose>>)

(* A projection is asked about the proposals of the finished answer; the   *)
(* client then gets all of it, a denial in place of it, or nothing.        *)
Conclude(verdict, s, f, events, whole) ==
  LET how == IF Unfit(f, whole) # {} THEN "failed" ELSE IF supervised THEN verdict ELSE "answered"
  IN  /\ streaming' = FALSE /\ reply' = how
      /\ source' = s /\ flow' = f
      /\ shown' = IF supervised /\ Unfit(f, whole) = {} THEN Proposals(f) ELSE shown
      /\ seen' = CASE how = "answered" -> events
                   [] how = "denied"   -> <<Opened(0, Prose), Grown(0, <<Prose>>), Denial,
                                            Completed(<<Denial>>)>>
                   [] how = "failed"   -> seen
      /\ issued' = issued \cup Signed(s, how = "answered")
      /\ memory' = Remembered(f)
      /\ repeated' = IF how = "answered"
                     THEN repeated \cup {[call |-> f.slots[i].call, args |-> f.slots[i].args] :
                                           i \in {j \in DOMAIN f.slots : f.slots[j].args # <<>>}}
                     ELSE repeated
      /\ UNCHANGED <<protocol, style, supervised, turns, upstream, limited>>

(* [DONE], or the end of the body.                                         *)
EndOfStream(verdict) ==
  /\ streaming
  /\ Conclude(verdict, source, Finish(flow), Finish(flow).events, FALSE)

(* The request asked for an answer in one piece: calls in the provider's   *)
(* order, each with all of its arguments or cut short.                     *)
WholeAnswer(order, texts, cut) ==
  [source EXCEPT
     !.opened = order, !.named = ToSet(order), !.texts = texts,
     !.pieces = @ + Len(order) + texts, !.ended = TRUE,
     !.given = [k \in ToolCalls |-> IF k \notin ToSet(order) THEN 0
                                    ELSE IF k \in cut THEN Fragments - 1 ELSE Fragments]]

WholeFlow(s) ==
  [NoFlow EXCEPT
     !.prose = s.texts - 1, !.texts = s.texts, !.next = s.texts + Len(s.opened), !.stopped = TRUE,
     !.slots = [i \in 0..(Len(s.opened) - 1) |->
                  [call |-> s.opened[i + 1], name |-> s.opened[i + 1],
                   args |-> Given(s, s.opened[i + 1]), out |-> s.texts + i, told |-> 0,
                   added |-> TRUE]]]

AnswerWhole(verdict) ==
  /\ streaming /\ source = [NoSource EXCEPT !.pieces = source.pieces]
  /\ \E n \in 0..(MaxPieces - source.pieces), texts \in 0..1 :
     \E order \in {o \in [1..n -> ToolCalls] : IsInjective(o)} :
     \E cut \in SUBSET ToSet(order) :
       LET s == WholeAnswer(order, texts, cut)
           f == WholeFlow(s)
       IN  s.pieces <= MaxPieces /\ Conclude(verdict, s, f, <<Completed(Items(f))>>, TRUE)

StreamNext ==
  \/ RefuseRequest \/ RefuseLimited \/ Cool
  \/ \E edited \in repeated \cup {NoCall} : Stream(edited) \/ ProviderRefuses(edited)
  \/ ChunkOfText \/ ChunkOfOne \/ ChunkOfTwo \/ FinishReason \/ StreamBreaks
  \/ \E verdict \in IF supervised THEN {"answered", "denied", "failed"} ELSE {"answered"} :
       EndOfStream(verdict) \/ AnswerWhole(verdict)

StreamSpec == StreamInit /\ [][StreamNext]_streamVars

(***************************************************************************)
(* Properties.                                                             *)
(***************************************************************************)
(* The one event of its kind about its item.                               *)
Once(events, e) ==
  \E n \in 1..Len(events) :
    /\ events[n] = e
    /\ \A m \in 1..Len(events) : events[m].type = e.type /\ events[m].out = e.out => m = n

(* What the events say of the contents of an item, in their order.         *)
Told(events, out) ==
  LET upto[n \in 0..Len(events)] ==
        IF n = 0 THEN <<>>
        ELSE IF events[n].type = "grown" /\ events[n].out = out THEN upto[n - 1] \o events[n].args
        ELSE upto[n - 1]
  IN  upto[Len(events)]

Outs(events) == {events[n].out : n \in {m \in 1..Len(events) : events[m].type = "opened"}}

(* The calls and the text of an answer, each once, with its own fragments  *)
(* in order and no other's, the calls in the provider's order.             *)
Complete(items, s) ==
  LET want(k) == IF k = Prose THEN [n \in 1..s.texts |-> Prose] ELSE Given(s, k)
  IN  /\ {items[n].call : n \in 1..Len(items)}
            = ToSet(s.opened) \cup (IF s.texts > 0 THEN {Prose} ELSE {})
      /\ \A n, m \in 1..Len(items) : items[n].call = items[m].call => n = m
      /\ \A n \in 1..Len(items) : items[n].args = want(items[n].call)
      /\ \A n, m \in 1..Len(items), i, j \in 1..Len(s.opened) :
           n < m /\ items[n].call = s.opened[i] /\ items[m].call = s.opened[j] => i < j

(* The events of a stream tell the same: an item is opened once, under one *)
(* output index, grows into its contents and is closed once.               *)
Followed(events, items) ==
  /\ Outs(events) = {items[n].out : n \in 1..Len(items)}
  /\ \A n \in 1..Len(items) :
       /\ Once(events, Opened(items[n].out, items[n].call))
       /\ Told(events, items[n].out) = items[n].args
       /\ Once(events, items[n])

(* A client that is told the answer is complete has the calls the provider *)
(* made, whichever way the provider cut and named them                     *)
(* (responses-chat-bridge.ts #toolCallIndex, anthropic-chat-bridge.ts      *)
(* push).  Nothing follows the completion, and what a projection approved  *)
(* is what the client was given.                                           *)
StreamIsFaithful ==
  reply = "answered" =>
    LET items == Last(seen).args
    IN  /\ Last(seen).type = "completed"
        /\ \A n \in 1..(Len(seen) - 1) : seen[n].type # "completed"
        /\ Complete(items, source)
        /\ Len(seen) > 1 => Followed(seen, items)
        /\ supervised =>
             shown = {[call |-> k, args |-> Given(source, k)] : k \in ToSet(source.opened)}

(* A signature is sent back only with a call of the identifier it was      *)
(* issued for, and, if the answer it came with was given to the client,    *)
(* with the same arguments (#toolThoughtSignature), though identifiers     *)
(* come again, old entries are evicted and the client may edit what it     *)
(* repeats.  Of an answer that failed the bridge may have remembered a     *)
(* call with fewer arguments than the provider gave it: a part without     *)
(* number and identifier went to a call of its own, and finish() stops     *)
(* only there.                                                             *)
SignatureIsTheCalls ==
  \A u \in upstream : u.signature # <<>> =>
    \E c \in issued :
      /\ c.signature = u.signature /\ c.call = u.call
      /\ c.heard => c.args = u.args

(* A client never hears of a call a projection did not approve             *)
(* (inference-broker.ts #bridgeStream).                                    *)
NothingUnapproved ==
  supervised /\ reply # "answered" => \A n \in 1..Len(seen) : seen[n].call \in {NoCall, Prose}

(* The bridge in whole.                                                    *)
BridgeIsFaithful == StreamIsFaithful /\ SignatureIsTheCalls /\ NothingUnapproved
=============================================================================
