--------------------------- MODULE FindingBoundary ---------------------------
(***************************************************************************)
(* Finding packets at the provider boundary: FindingDeliveryBrokerBoundary *)
(* (src/src/finding-delivery-broker-boundary.ts), the request lifecycle    *)
(* that puts at most one pending packet into a provider request, as the    *)
(* handler of the inference broker drives it                               *)
(* (src/src/inference-broker.ts:1440-1715).  Requests are concurrent, any  *)
(* await may reject, and the delegate that does the coordination sits      *)
(* behind each call.  A packet must reach the model, and be evidence, once.*)
(***************************************************************************)
EXTENDS Naturals, Sequences, FiniteSets

CONSTANTS
  Packets,     \* finding packets: run, lane, finding and token
  Identities,  \* run, lane and finding
  IdentityOf,  \* [Packets -> Identities]; two tokens conflict
  Calls,       \* provider requests, retries included
  NoPacket

ASSUME IdentitiesOfPackets == IdentityOf \in [Packets -> Identities]
ASSUME NoPacketIsNone      == NoPacket \notin Packets

VARIABLES
  entries,    \* the packets accepted by enqueue()
  pending,    \* the queue of entries not in a request
  active,     \* per request, the entry it carries
  accepted,   \* requests whose entry was accepted
  delivered,  \* the evidence, in order
  stage,      \* per request, where its handler is
  heard       \* history: per packet, the successful answers to a request with it

boundaryVars == <<entries, pending, active, accepted, delivered, stage, heard>>

BoundaryInit ==
  /\ entries = {} /\ pending = <<>> /\ delivered = <<>> /\ accepted = {}
  /\ active = [r \in Calls |-> NoPacket]
  /\ stage = [r \in Calls |-> "new"]
  /\ heard = [k \in Packets |-> 0]

Moves(r, from, to) == stage[r] = from /\ stage' = [stage EXCEPT ![r] = to]

(* A packet of a known identity is the same packet or a conflict. *)
Enqueue(k) ==
  /\ \A e \in entries : IdentityOf[e] # IdentityOf[k]
  /\ entries' = entries \cup {k}
  /\ pending' = Append(pending, k)
  /\ UNCHANGED <<active, accepted, delivered, stage, heard>>

(* The delegate prepares first; when it throws the handler ends without    *)
(* complete(), which is then the delegate's own affair.                    *)
DelegatePrepares(r) ==
  /\ \/ Moves(r, "new", "shifting")
     \/ Moves(r, "new", "over")
  /\ UNCHANGED <<entries, pending, active, accepted, delivered, heard>>

(* Fault: the packet stays in the queue while a request carries it. *)
PeekPacket(r) ==
  /\ Moves(r, "shifting", "prepared")
  /\ pending # <<>>
  /\ active' = [active EXCEPT ![r] = Head(pending)]
  /\ UNCHANGED <<entries, pending, accepted, delivered, heard>>

TakePacket(r) ==
  /\ Moves(r, "shifting", "prepared")
  /\ pending # <<>>
  /\ active' = [active EXCEPT ![r] = Head(pending)]
  /\ pending' = Tail(pending)
  /\ UNCHANGED <<entries, accepted, delivered, heard>>

NothingPending(r) ==
  /\ Moves(r, "shifting", "prepared")
  /\ pending = <<>>
  /\ UNCHANGED <<entries, pending, active, accepted, delivered, heard>>

(* injectPacket() throws over a body without messages or one that holds    *)
(* the packet: it goes back to the head and the delegate is told.          *)
InjectionFails(r) ==
  /\ Moves(r, "shifting", "over")
  /\ pending # <<>>
  /\ UNCHANGED <<entries, pending, active, accepted, delivered, heard>>

(* The checks of model, size, quota and of the exact packet in the final   *)
(* body pass, and the request is sent; or one of them throws.              *)
Dispatch(r) ==
  /\ \/ Moves(r, "prepared", "sent")
     \/ Moves(r, "prepared", "failed")
  /\ UNCHANGED <<entries, pending, active, accepted, delivered, heard>>

(* No answer, an answer lost on the way, or one that is not 2xx. *)
ProviderFails(r) ==
  /\ Moves(r, "sent", "failed")
  /\ UNCHANGED <<entries, pending, active, accepted, delivered, heard>>

(* accepted(): evidence first, then the delegate, which may throw. *)
ProviderAccepts(r) ==
  /\ Moves(r, "sent", "streaming") \/ Moves(r, "sent", "failed")
  /\ heard' = [k \in Packets |-> heard[k] + IF active[r] = k THEN 1 ELSE 0]
  /\ IF active[r] = NoPacket THEN UNCHANGED <<accepted, delivered>>
     ELSE /\ accepted' = accepted \cup {r}
          /\ delivered' = Append(delivered, [packet |-> active[r], by |-> r])
  /\ UNCHANGED <<entries, pending, active>>

StreamEnds(r) ==
  /\ Moves(r, "streaming", "succeeded") \/ Moves(r, "streaming", "failed")
  /\ UNCHANGED <<entries, pending, active, accepted, delivered, heard>>

(* The finally clause.  A packet that no answer accepted is next again. *)
Complete(r) ==
  /\ Moves(r, "succeeded", "over") \/ Moves(r, "failed", "over")
  /\ pending' = IF active[r] # NoPacket /\ r \notin accepted
                  THEN <<active[r]>> \o pending ELSE pending
  /\ active' = [active EXCEPT ![r] = NoPacket]
  /\ UNCHANGED <<entries, accepted, delivered, heard>>

BoundaryNext ==
  \/ \E k \in Packets : Enqueue(k)
  \/ \E r \in Calls :
       \/ DelegatePrepares(r) \/ TakePacket(r) \/ NothingPending(r)
       \/ InjectionFails(r) \/ Dispatch(r) \/ ProviderFails(r)
       \/ ProviderAccepts(r) \/ StreamEnds(r) \/ Complete(r)

BoundarySpec == BoundaryInit /\ [][BoundaryNext]_boundaryVars
-----------------------------------------------------------------------------
Evident(k) == \E i \in 1 .. Len(delivered) : delivered[i].packet = k

(* However requests fail, overlap and are retried, an accepted packet is   *)
(* in exactly one place: waiting, in one request, or evidence; and the     *)
(* provider answered a request with it as often as there is evidence, at   *)
(* most once, so no model hears a finding twice on two good answers.       *)
PacketInOnePlace ==
  \A k \in entries :
    /\ Cardinality({i \in 1 .. Len(pending) : pending[i] = k})
       + Cardinality({r \in Calls : active[r] = k /\ r \notin accepted})
       + Cardinality({i \in 1 .. Len(delivered) : delivered[i].packet = k}) = 1
    /\ heard[k] = IF Evident(k) THEN 1 ELSE 0
=============================================================================
