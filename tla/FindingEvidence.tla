--------------------------- MODULE FindingEvidence ---------------------------
(***************************************************************************)
(* The evidence about finding packets (src/src/finding-delivery.ts): which *)
(* lifecycle ledgers and receipts are well formed, when a receipt agrees   *)
(* with a ledger, how receipts are coalesced, and the ledger and receipt   *)
(* that finalizeFindingDelivery() writes after a launch                    *)
(* (src/src/organism-cast-supervisor-cli.ts).  Any ledger and any list of  *)
(* receipts may be presented; the state only holds what is presented.      *)
(***************************************************************************)
EXTENDS Naturals, Sequences, SequencesExt
CONSTANTS
  Findings,   \* finding identities: the id is a function of the digest
  Digests,    \* digests of registration bytes
  Turns,      \* transport events, each of one turn and one packet
  Routes,     \* route ids
  Pinned,     \* the route id the manifest pins
  MaxEvents,  \* bound on the length of a presented ledger
  MaxBatch,   \* bound on the number of receipts presented together
  NoTurn
ASSUME PinnedIsARoute == Pinned \in Routes
ASSUME NoTurnIsNone   == NoTurn \notin Turns
ASSUME EventBound     == MaxEvents \in Nat
VARIABLES
  ledger,    \* the events presented or produced, in order
  complete,  \* status "complete", with its reason null as the schema wants
  receipt,   \* the receipt finalizeFindingDelivery() produced, if it did
  batch      \* receipts given to coalesceFindingDeliveryReceipts()
evidenceVars == <<ledger, complete, receipt, batch>>
Conclusive == {"delivered", "not_delivered"}
Events ==
  [seq : 1 .. MaxEvents, kind : {"finding_registered"}, finding : Findings,
   digest : Digests, turn : {NoTurn}]
  \cup [seq : 1 .. MaxEvents, kind : {"semantic_input"}, finding : Findings,
        digest : Digests, turn : Turns]
Terminal(i) == [seq |-> i, kind |-> "target_terminal"]
(* Fault: only the number of terminal events is checked, not their place.  *)
TerminalAnywhere(es) ==
  \A i, j \in 1 .. Len(es) :
    es[i].kind = "target_terminal" /\ es[j].kind = "target_terminal" => i = j
TerminalIsLast(es) ==
  \A i \in 1 .. Len(es) : es[i].kind = "target_terminal" => i = Len(es)
(* findingDeliveryLifecycleSchema: contiguous, one terminal and that last, *)
(* a finding registered once, and heard of only after that.                *)
WellFormed(es, isComplete) ==
  /\ \A i \in 1 .. Len(es) : es[i].seq = i
  /\ TerminalIsLast(es)
  /\ isComplete => \E i \in 1 .. Len(es) : es[i].kind = "target_terminal"
  /\ \A i, j \in 1 .. Len(es) :
       /\ es[i].kind = "finding_registered" /\ es[j].kind = "finding_registered"
       /\ es[i].finding = es[j].finding
       => i = j
  /\ \A j \in 1 .. Len(es) : es[j].kind = "semantic_input" =>
       \E i \in 1 .. j - 1 :
         /\ es[i].kind = "finding_registered"
         /\ es[i].finding = es[j].finding /\ es[i].digest = es[j].digest
(* findingDeliveryReceiptSchema: the order each outcome requires. *)
ReceiptOrdered(r) ==
  CASE r.outcome = "delivered" ->
         /\ r.registered < r.input /\ r.input < r.terminal /\ r.event # NoTurn
    [] r.outcome = "not_delivered" -> r.registered < r.terminal
    [] OTHER -> r.terminal # 0 => r.registered < r.terminal
At(es, i, kind) == i \in 1 .. Len(es) /\ es[i].kind = kind
(* validateFindingDeliveryEvidence(): the receipt, of the registration and *)
(* the ledger it names by digest, agrees with them and with the pin.       *)
Validates(es, isComplete, r) ==
  /\ WellFormed(es, isComplete) /\ ReceiptOrdered(r)
  /\ r.route = Pinned
  /\ At(es, r.registered, "finding_registered")
  /\ es[r.registered].finding = r.finding /\ es[r.registered].digest = r.digest
  /\ r.terminal # 0 => At(es, r.terminal, "target_terminal")
  /\ r.outcome \in Conclusive => isComplete
  /\ r.outcome = "delivered" =>
       /\ At(es, r.input, "semantic_input")
       /\ es[r.input].finding = r.finding /\ es[r.input].digest = r.digest
       /\ es[r.input].turn = r.event
  /\ r.outcome = "not_delivered" =>
       ~ \E i \in (r.registered + 1) .. (r.terminal - 1) :
           /\ At(es, i, "semantic_input")
           /\ es[i].finding = r.finding /\ es[i].digest = r.digest
Receipts ==
  [outcome : Conclusive \cup {"unknown"}, finding : Findings, digest : Digests,
   registered : 1 .. MaxEvents, input : 1 .. MaxEvents, terminal : 0 .. MaxEvents,
   event : Turns \cup {NoTurn}, route : {Pinned}]
-----------------------------------------------------------------------------
EvidenceInit ==
  /\ ledger = <<>> /\ complete = FALSE /\ receipt = <<>> /\ batch = <<>>
(* Whoever presents a ledger wrote it event by event. *)
PresentEvent(e) ==
  /\ receipt = <<>> /\ batch = <<>> /\ ~complete /\ Len(ledger) < MaxEvents
  /\ ledger' = Append(ledger, e)
  /\ UNCHANGED <<complete, receipt, batch>>
PresentTerminal ==
  /\ receipt = <<>> /\ batch = <<>> /\ ~complete /\ Len(ledger) < MaxEvents
  /\ ledger' = Append(ledger, Terminal(Len(ledger) + 1))
  /\ UNCHANGED <<complete, receipt, batch>>
PresentComplete ==
  /\ ledger # <<>> /\ receipt = <<>> /\ ~complete
  /\ complete' = TRUE
  /\ UNCHANGED <<ledger, receipt, batch>>
(* finalizeFindingDelivery() after a launch that delivered the packet of   *)
(* the registration, did not, or does not know; the registration was       *)
(* compared with the plan's channel at admission, its route id was not.    *)
FinalizeDelivery(kind, f, d, t, route) ==
  /\ ledger = <<>> /\ batch = <<>> /\ receipt = <<>>
  /\ LET registered == [seq |-> 1, kind |-> "finding_registered", finding |-> f,
                        digest |-> d, turn |-> NoTurn]
         heard == [registered EXCEPT !.seq = 2, !.kind = "semantic_input", !.turn = t]
     IN  ledger' = CASE kind = "delivered" -> <<registered, heard, Terminal(3)>>
                     [] kind = "not_delivered" -> <<registered, Terminal(2)>>
                     [] OTHER -> <<registered>>
  /\ complete' = (kind \in Conclusive)
  /\ receipt' = <<[outcome |-> kind, finding |-> f, digest |-> d, registered |-> 1,
                   input |-> 2, route |-> route,
                   terminal |-> CASE kind = "delivered" -> 3
                                  [] kind = "not_delivered" -> 2 [] OTHER -> 0,
                   event |-> IF kind = "delivered" THEN t ELSE NoTurn]>>
  /\ UNCHANGED batch
-----------------------------------------------------------------------------
(***************************************************************************)
(* coalesceFindingDeliveryReceipts().  The bytes of a receipt are its      *)
(* identity, its dedup key, its transport event and the rest of it.        *)
(***************************************************************************)
Copies ==
  [identity : Findings, dedup : Digests, event : Turns \cup {NoTurn}, rest : Routes]
PresentReceipt(c) ==
  /\ ledger = <<>> /\ receipt = <<>> /\ Len(batch) < MaxBatch
  /\ batch' = Append(batch, c)
  /\ UNCHANGED <<ledger, complete, receipt>>
Replayed(kept, c) ==
  \E i \in 1 .. Len(kept) :
    /\ kept[i].identity # c.identity
    /\ \/ kept[i].dedup = c.dedup
       \/ c.event # NoTurn /\ kept[i].event = c.event
(* One receipt: a known identity must have the known bytes; a new one must *)
(* bring its own dedup key and event.                                      *)
Coalesce1(kept, c) ==
  IF \E i \in 1 .. Len(kept) : kept[i].identity = c.identity
    THEN [ok |-> \E i \in 1 .. Len(kept) : kept[i] = c, kept |-> kept]
    ELSE [ok |-> ~Replayed(kept, c), kept |-> Append(kept, c)]
Coalesce(values) ==
  LET upto[n \in 0 .. Len(values)] ==
        IF n = 0 THEN [ok |-> TRUE, kept |-> <<>>]
        ELSE IF upto[n - 1].ok THEN Coalesce1(upto[n - 1].kept, values[n]) ELSE upto[n - 1]
  IN  upto[Len(values)]
EvidenceNext ==
  \/ \E e \in Events : PresentEvent(e)
  \/ PresentTerminal \/ PresentComplete
  \/ \E kind \in Conclusive \cup {"unknown"}, f \in Findings, d \in Digests,
        t \in Turns, route \in Routes : FinalizeDelivery(kind, f, d, t, route)
  \/ \E c \in Copies : PresentReceipt(c)
EvidenceSpec == EvidenceInit /\ [][EvidenceNext]_evidenceVars
-----------------------------------------------------------------------------
Heard(es, f) ==
  \E i \in 1 .. Len(es) : es[i].kind = "semantic_input" /\ es[i].finding = f
(* A conclusive receipt that validates against a ledger says what the      *)
(* whole ledger says: delivered if the model heard of the finding anywhere *)
(* in it, not delivered if nowhere, so no two such receipts disagree.  The *)
(* receipt that a launch produces validates when its route is the pinned.  *)
ReceiptTellsTheLedger ==
  /\ ledger # <<>> => \A r \in Receipts :
       r.outcome \in Conclusive /\ Validates(ledger, complete, r) =>
         (r.outcome = "delivered" <=> Heard(ledger, r.finding))
  /\ receipt # <<>> /\ receipt[1].route = Pinned =>
       Validates(ledger, complete, receipt[1])
(* Coalescing is a property of the set of receipts, not of their order: it *)
(* succeeds just when no two of them contradict each other, and then keeps *)
(* each of them once.                                                      *)
CoalescingIgnoresOrder ==
  LET result == Coalesce(batch)
      agrees == \A i, j \in 1 .. Len(batch) :
        /\ batch[i].identity = batch[j].identity => batch[i] = batch[j]
        /\ \/ batch[i].dedup = batch[j].dedup
           \/ batch[i].event # NoTurn /\ batch[i].event = batch[j].event
           => batch[i].identity = batch[j].identity
  IN  /\ result.ok <=> agrees
      /\ result.ok => /\ ToSet(result.kept) = ToSet(batch)
                      /\ IsInjective(result.kept)

(* Neither the ledger a receipt is read against nor the order in which     *)
(* receipts come together changes what they say of a finding.              *)
EvidenceAgrees == ReceiptTellsTheLedger /\ CoalescingIgnoresOrder
=============================================================================
