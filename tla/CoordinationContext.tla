------------------------ MODULE CoordinationContext -------------------------
(***************************************************************************)
(* The bounded packet a backend is given in every turn                     *)
(* (coordination-context.ts, and boundCoordinationItems in                 *)
(* organum-cli.ts): the items of the field in order of relevance, cut to   *)
(* size one by one, as many as fit the field's room, and then dropped from *)
(* the end until the packet fits with everything else it holds.  The items *)
(* whose identifiers it returns count as shown, and are acknowledged.      *)
(*                                                                         *)
(* The native product joins the field once per process, and keeps what it  *)
(* joined with in a checkpoint of its root (coordination-continuity.ts),   *)
(* saved at the start and whenever its publication moves.  A checkpoint is *)
(* refused when it is read or written for another role, for another        *)
(* protocol of the packet, or when it is larger than a packet: it is never *)
(* cut again.                                                              *)
(*                                                                         *)
(* Sizes are counted in units; an item has metadata, which are not cut,    *)
(* and a body that is.                                                     *)
(***************************************************************************)
EXTENDS Integers, FiniteSets, SequencesExt

CONSTANTS
  FieldItems,     \* messages of agora, relay and hub
  Relevance,      \* [FieldItems -> 0..3]: direct, active thread, goal, recent
  Newer,          \* [FieldItems -> Nat]: larger for a later message
  Meta,           \* [FieldItems -> Nat]: size of an item without its body
  Text,           \* [FieldItems -> Nat]: size of its body
  MaxItems,       \* COORDINATION_CONTEXT_MAX_ITEMS
  MaxItemSize,    \* COORDINATION_CONTEXT_MAX_ITEM_BYTES
  FieldRoom,      \* INBOX_MAX_BYTES
  GoalRoom,       \* GOAL_MAX_BYTES
  LeastGoal,      \* 256 bytes: less is not offered to a goal
  PacketRoom,     \* COORDINATION_CONTEXT_MAX_BYTES
  Goals,          \* sequences of goals, each its metadata and its body
  Rests,          \* sizes of all the packet holds besides field and goal
  MaxSaves        \* bound: checkpoints written

ASSUME PacketAssumption ==
  /\ {MaxItems, MaxItemSize, FieldRoom, GoalRoom, LeastGoal, PacketRoom, MaxSaves}
       \subseteq Nat \ {0}
  /\ {Relevance, Newer, Meta, Text} \subseteq [FieldItems -> Nat]
  /\ \A i, j \in FieldItems : Newer[i] = Newer[j] => i = j
  /\ Rests \subseteq Nat /\ Goals \subseteq Seq([meta : Nat, text : Nat])

VARIABLES
  unread,       \* items in the field that are not acknowledged
  running,     \* the process is up
  rooted,      \* its root session joined: state is not null
  role,        \* the role it was declared with
  joined,      \* the items of the join: state.join.inbox
  goals,       \* the goals of the join: state.goal
  packet,      \* the packet of the turn, or NoPacket
  checkpoint,  \* what the store holds, or NoCheckpoint
  protocol     \* of the product in use

packetVars == <<unread, running, rooted, role, joined, goals, packet, checkpoint, protocol>>

Roles == {"reviewer", "builder"}

(* A publication of the root as a checkpoint keeps it; the machine that    *)
(* makes it is in Publication and NativePublication.                       *)
Publications ==
  {[phase |-> "clean", receipt |-> FALSE], [phase |-> "publishing", receipt |-> FALSE],
   [phase |-> "published", receipt |-> TRUE], [phase |-> "shipped", receipt |-> TRUE],
   [phase |-> "nonconformant", receipt |-> FALSE]}

NoPublication == [phase |-> "clean", receipt |-> FALSE]
IsTerminal(p) == p.phase \in {"shipped", "nonconformant"}

NoPacket == [source |-> {}, shown |-> <<>>, ids |-> <<>>, omitted |-> 0, truncated |-> FALSE,
             goal |-> 0, size |-> 0]

NoCheckpoint ==
  [revision |-> 0, role |-> "none", protocol |-> 0, publication |-> NoPublication,
   document |-> NoPacket]

(***************************************************************************)
(* The field.                                                              *)
(***************************************************************************)
Before(i, j) ==
  \/ Relevance[i] < Relevance[j]
  \/ Relevance[i] = Relevance[j] /\ Newer[i] > Newer[j]

(* fitItem: the body is cut to what the item may take; an item whose       *)
(* metadata alone is too large does not fit at all.                        *)
Fits(i) == Meta[i] <= MaxItemSize
Cut(i)  == Meta[i] + Text[i] > MaxItemSize
Size(i) == IF Cut(i) THEN MaxItemSize ELSE Meta[i] + Text[i]

(* Printed with indentation, every item takes one unit more.               *)
Total(items) ==
  LET sum[n \in 0..Len(items)] == IF n = 0 THEN 0 ELSE sum[n - 1] + Size(items[n])
  IN  sum[Len(items)]
Rendered(items) == Total(items) + Len(items)

AdmitItem(items, i) ==
  IF Len(items) < MaxItems /\ Fits(i) /\ Total(Append(items, i)) <= FieldRoom
  THEN Append(items, i) ELSE items

InOrder(source) ==
  CHOOSE s \in [1..Cardinality(source) -> source] :
    \A m, n \in 1..Cardinality(source) : m < n => Before(s[m], s[n])

BoundItems(source) ==
  LET order == InOrder(source)
      upto[n \in 0..Len(order)] == IF n = 0 THEN <<>> ELSE AdmitItem(upto[n - 1], order[n])
  IN  upto[Len(order)]

(***************************************************************************)
(* The goals: each is given what the ones before it left.                  *)
(***************************************************************************)
AdmitGoal(acc, g) ==
  LET left == GoalRoom - acc.size
      size == IF g.meta + g.text > left THEN left ELSE g.meta + g.text
  IN  IF acc.stopped \/ left < LeastGoal THEN [acc EXCEPT !.stopped = TRUE]
      ELSE IF g.meta > left THEN acc
      ELSE [acc EXCEPT !.size = @ + size, !.count = @ + 1]

BoundGoal(gs) ==
  LET given[n \in 0..Len(gs)] ==
        IF n = 0 THEN [size |-> 0, count |-> 0, stopped |-> FALSE]
        ELSE AdmitGoal(given[n - 1], gs[n])
  IN  given[Len(gs)]

(***************************************************************************)
(* The packet.                                                             *)
(***************************************************************************)
(* The longest beginning of the items that leaves the packet within its    *)
(* room: they are popped from the end.                                     *)
Shortened(items, rest) ==
  LET fit == {n \in 0..Len(items) : rest + Rendered(SubSeq(items, 1, n)) <= PacketRoom}
  IN  IF fit = {} THEN <<>> ELSE SubSeq(items, 1, Max(fit))

PacketOf(source, items, ids, gs, rest) ==
  LET goal == BoundGoal(gs).size
  IN  [source    |-> source,
       shown     |-> items,
       ids       |-> ids,
       omitted   |-> Cardinality(source) - Len(items),
       truncated |-> Len(items) # Cardinality(source) \/ \E n \in 1..Len(items) : Cut(items[n]),
       goal      |-> goal,
       size      |-> rest + goal + Rendered(items)]

(* buildCoordinationContextDocument: nothing is popped.                    *)
Document(source, gs, rest) ==
  LET items == BoundItems(source) IN PacketOf(source, items, items, gs, rest)

(* Fault: the identifiers are taken before items are popped.               *)
PacketWithEarlyIDs(source, gs, rest) ==
  LET items == BoundItems(source)
  IN  PacketOf(source, Shortened(items, rest + BoundGoal(gs).size), items, gs, rest)

(* buildCoordinationSystemPacket.                                          *)
SystemPacket(source, gs, rest) ==
  LET items == Shortened(BoundItems(source), rest + BoundGoal(gs).size)
  IN  PacketOf(source, items, items, gs, rest)

(***************************************************************************)
(* The process and its checkpoint.                                         *)
(***************************************************************************)
ContextInit ==
  /\ unread = {} /\ joined = {} /\ goals = <<>>
  /\ running = FALSE /\ rooted = FALSE /\ role = "reviewer" /\ protocol = 1
  /\ packet = NoPacket /\ checkpoint = NoCheckpoint

(* buildPersistedCoordinationSystemPacket: nothing is cut to fit.          *)
Restorable(document, version) == version = protocol /\ document.size <= PacketRoom

(* validateContext.                                                        *)
ReceiptMatchesPhase(p) ==
  /\ p.phase \in {"published", "ending", "end_failed", "shipped"} => p.receipt
  /\ p.phase \in {"clean", "output_pending", "publishing", "publish_failed"} => ~p.receipt

(* validateCheckpoint, of a checkpoint that may have been made in another  *)
(* role, or by another product.                                            *)
IsValidFor(r, c) ==
  c.role = r /\ Restorable(c.document, c.protocol) /\ ReceiptMatchesPhase(c.publication)

Loads(r) == checkpoint = NoCheckpoint \/ IsValidFor(r, checkpoint)

(* save: what could not be read back is refused, and nothing written;      *)
(* revisions count up.                                                     *)
Save(r, document, publication) ==
  /\ checkpoint.revision < MaxSaves /\ Loads(r)
  /\ checkpoint' = [revision |-> checkpoint.revision + 1, role |-> r, protocol |-> protocol,
                    publication |-> publication, document |-> document]
  /\ IsValidFor(r, checkpoint')

ArriveItem(i) ==
  /\ i \notin unread
  /\ unread' = unread \cup {i}
  /\ UNCHANGED <<running, rooted, role, joined, goals, packet, checkpoint, protocol>>

(* createNativeProductLifecycle: the checkpoint is loaded before the join, *)
(* and there is no process unless its first checkpoint could be saved.     *)
StartProduct(r, gs, rest) ==
  /\ ~running /\ Loads(r) /\ ~IsTerminal(checkpoint.publication)
  /\ joined' = unread /\ goals' = gs /\ role' = r
  /\ Save(r, Document(unread, gs, rest), checkpoint.publication)
  /\ running' = TRUE /\ rooted' = TRUE
  /\ UNCHANGED <<unread, packet, protocol>>

(* A root whose work is closed is not joined again.                        *)
StartClosed(r) ==
  /\ ~running /\ Loads(r) /\ IsTerminal(checkpoint.publication)
  /\ role' = r /\ running' = TRUE
  /\ UNCHANGED <<unread, rooted, joined, goals, packet, checkpoint, protocol>>

(* callPublication saves the publication as it moves, with the inbox of    *)
(* the join.                                                               *)
Checkpoint(rest, p) ==
  /\ running /\ rooted /\ ~IsTerminal(checkpoint.publication)
  /\ Save(role, Document(joined, goals, rest), p)
  /\ UNCHANGED <<unread, running, rooted, role, joined, goals, packet, protocol>>

(* A turn is refused if its packet cannot be made to fit.                  *)
PreparePacket(rest) ==
  /\ rooted /\ packet = NoPacket
  /\ SystemPacket(unread, goals, rest).size <= PacketRoom
  /\ packet' = SystemPacket(unread, goals, rest)
  /\ UNCHANGED <<unread, running, rooted, role, joined, goals, checkpoint, protocol>>

(* The items of the packet are acknowledged once the turn took them in.    *)
AdmitPacket ==
  /\ packet # NoPacket
  /\ unread' = unread \ ToSet(packet.ids)
  /\ packet' = NoPacket
  /\ UNCHANGED <<running, rooted, role, joined, goals, checkpoint, protocol>>

DiscardPacket ==
  /\ packet # NoPacket /\ packet' = NoPacket
  /\ UNCHANGED <<unread, running, rooted, role, joined, goals, checkpoint, protocol>>

(* The process ends, and perhaps the product is replaced.                  *)
EndProduct(p) ==
  /\ running /\ running' = FALSE /\ rooted' = FALSE
  /\ packet' = NoPacket /\ joined' = {} /\ goals' = <<>>
  /\ p \in {protocol, 2} /\ protocol' = p
  /\ UNCHANGED <<unread, role, checkpoint>>

ContextNext ==
  \/ \E i \in FieldItems : ArriveItem(i)
  \/ \E r \in Roles, gs \in Goals, rest \in Rests : StartProduct(r, gs, rest)
  \/ \E r \in Roles : StartClosed(r)
  \/ \E rest \in Rests :
       PreparePacket(rest) \/ \E p \in Publications : Checkpoint(rest, p)
  \/ AdmitPacket \/ DiscardPacket
  \/ \E p \in {1, 2} : EndProduct(p)

ContextSpec == ContextInit /\ [][ContextNext]_packetVars

(***************************************************************************)
(* Properties.                                                             *)
(***************************************************************************)
(* What a packet says was shown is what it shows: it keeps to its room, it *)
(* names the items in it and no other, says so when it leaves out or cuts  *)
(* any, never leaves out an item for one that is less relevant unless that *)
(* one is smaller, and always shows the most relevant item that can be     *)
(* shown, so that no crowd of lesser items keeps it out                    *)
(* (coordination-context.ts buildCoordinationSystemPacket, organum-cli.ts  *)
(* boundCoordinationItems).                                                *)
IsHonest(p) ==
  LET shown == ToSet(p.shown)
      rest  == p.size - Rendered(p.shown)
  IN  /\ p.size <= PacketRoom /\ p.goal <= GoalRoom
      /\ p.ids = p.shown /\ Len(p.shown) <= MaxItems
      /\ Total(p.shown) <= FieldRoom
      /\ ~p.truncated =>
           shown = p.source /\ \A i \in shown : Size(i) = Meta[i] + Text[i]
      /\ \A i \in p.source, j \in shown :
           Before(i, j) /\ i \notin shown /\ Fits(i) => Size(i) > Size(j)
      /\ \A i \in p.source :
           /\ Fits(i) /\ Size(i) <= FieldRoom /\ rest + Size(i) + 1 <= PacketRoom
           /\ \A j \in p.source : Fits(j) /\ j # i => Before(i, j)
           => i \in shown

(* The packet of a turn is honest.                                         *)
PacketIsHonest == packet # NoPacket => IsHonest(packet)

(* A process that runs has its checkpoint in the store, one it could       *)
(* restart from, made in its own role from what it joined with; a root     *)
(* whose work is closed has not joined (native-product-lifecycle.ts        *)
(* createNativeProductLifecycle, coordination-continuity.ts save).         *)
CheckpointIsTheRoots ==
  running =>
    /\ IsValidFor(role, checkpoint)
    /\ rooted => checkpoint.document.source = joined
    /\ ~rooted => IsTerminal(checkpoint.publication) /\ packet = NoPacket
    /\ checkpoint.document.ids = checkpoint.document.shown
=============================================================================
