------------------------- MODULE OrganismCastProofs -------------------------
(***************************************************************************)
(* Proofs about the machines of an organism cast, for every number of      *)
(* packets, requests, lanes, runs and processes: the places of a finding   *)
(* at the provider boundary, the lanes and the result of a run, the files  *)
(* of the supervisor, its plan, and the evidence about what it delivered.   *)
(*                                                                         *)
(* Each invariant adds to the property what its next step relies on. Of    *)
(* the boundary, where a packet is in terms of positions and requests      *)
(* instead of counts; of a run, what a lane that has not ended may still   *)
(* claim; of the supervisor, what the private files, the observation and   *)
(* the launch owe each other at every label of the process that holds the  *)
(* outer lock, which is what a death there leaves to the next holder.      *)
(***************************************************************************)
EXTENDS
  OrganismCast, FiniteSetTheorems, SequenceTheorems, WellFoundedInduction, TLAPS

(***************************************************************************)
(* FindingBoundary: every accepted packet is in one place.                 *)
(***************************************************************************)
BoundaryStages ==
  {"new", "shifting", "prepared", "sent", "streaming", "succeeded", "failed", "over"}

BoundaryTypes ==
  /\ entries \subseteq Packets /\ pending \in Seq(Packets)
  /\ active \in [Calls -> Packets \cup {NoPacket}] /\ accepted \subseteq Calls
  /\ delivered \in Seq([packet : Packets, by : Calls])
  /\ stage \in [Calls -> BoundaryStages] /\ heard \in [Packets -> Nat]

(* Only accepted packets are anywhere. *)
KnownInv ==
  /\ \A i \in 1 .. Len(pending) : pending[i] \in entries
  /\ \A r \in Calls : active[r] \in entries \cup {NoPacket}
  /\ \A i \in 1 .. Len(delivered) : delivered[i].packet \in entries

Queued(k)  == \E i \in 1 .. Len(pending) : pending[i] = k

(* Request r carries packet k: it was put into the request, and the        *)
(* provider has not taken it.                                              *)
Carries(r, k) == active[r] = k /\ r \notin accepted

(* Each place holds a packet once ...                                      *)
PlacesInv ==
  /\ \A i, j \in 1 .. Len(pending) : pending[i] = pending[j] => i = j
  /\ \A i, j \in 1 .. Len(delivered) : delivered[i].packet = delivered[j].packet => i = j
  /\ \A k \in entries : \A r, s \in Calls : Carries(r, k) /\ Carries(s, k) => r = s

(* ... and one place holds it.                                             *)
OnePlaceInv ==
  \A k \in entries :
    /\ Queued(k) \/ Evident(k) \/ (\E r \in Calls : Carries(r, k))
    /\ Queued(k) => ~Evident(k) /\ \A r \in Calls : ~Carries(r, k)
    /\ Evident(k) => \A r \in Calls : ~Carries(r, k)

(* A request carries from its preparation to its end, and is accepted from *)
(* its answer on.                                                          *)
StageInv ==
  /\ \A r \in Calls :
       /\ stage[r] \in {"new", "shifting", "over"} => active[r] = NoPacket
       /\ r \in accepted => stage[r] \in {"streaming", "succeeded", "failed", "over"}
  /\ \A k \in Packets : heard[k] = IF Evident(k) THEN 1 ELSE 0

BoundaryInv == BoundaryTypes /\ KnownInv /\ PlacesInv /\ OnePlaceInv /\ StageInv

LEMMA BoundaryInitInv == BoundaryInit => BoundaryInv
  BY DEF BoundaryInit, BoundaryInv, BoundaryTypes, KnownInv, PlacesInv, OnePlaceInv,
         StageInv, BoundaryStages, Queued, Carries, Evident

(* The steps of one request.                                               *)
RequestStep(r) ==
  \/ DelegatePrepares(r) \/ TakePacket(r) \/ NothingPending(r)
  \/ InjectionFails(r) \/ Dispatch(r) \/ ProviderFails(r)
  \/ ProviderAccepts(r) \/ StreamEnds(r) \/ Complete(r)

(* A packet that is accepted joins the queue, and nothing else.            *)
LEMMA EnqueueInv ==
  ASSUME BoundaryInv, NEW k \in Packets, Enqueue(k) PROVE BoundaryInv'
<1> USE DEF Enqueue
<1>1. k \notin entries
  OBVIOUS
<1>2. BoundaryTypes'
  BY DEF BoundaryInv, BoundaryTypes, BoundaryStages
<1>3. /\ Len(pending') = Len(pending) + 1 /\ pending'[Len(pending) + 1] = k
      /\ \A i \in 1 .. Len(pending) : pending'[i] = pending[i] /\ pending[i] \in entries
      /\ Len(pending) \in Nat
  BY DEF BoundaryInv, BoundaryTypes, KnownInv
<1>3a. KnownInv'
  BY <1>3 DEF BoundaryInv, KnownInv
<1>4. \A r \in Calls : active[r] # k
  BY <1>1, NoPacketIsNone DEF BoundaryInv, KnownInv
<1>5. ~Evident(k)
  BY <1>1 DEF BoundaryInv, KnownInv, Evident
<1>6. \A e \in entries : Queued(e)' <=> Queued(e)
  BY <1>1, <1>3 DEF Queued
<1>6a. Queued(k)'
  BY <1>3 DEF Queued
<1>7. PlacesInv'
  BY <1>1, <1>3, <1>4 DEF BoundaryInv, PlacesInv, Carries
<1>8. OnePlaceInv'
  BY <1>1, <1>4, <1>5, <1>6, <1>6a DEF BoundaryInv, OnePlaceInv, Carries, Evident
<1>9. StageInv'
  BY DEF BoundaryInv, StageInv, Evident
<1> QED BY <1>2, <1>3a, <1>7, <1>8, <1>9 DEF BoundaryInv

(* A step that only moves a request, to where it carries what it did.      *)
LEMMA QuietInv ==
  ASSUME BoundaryInv, NEW r \in Calls, NEW a, NEW b \in BoundaryStages, Moves(r, a, b),
         b \in {"new", "shifting", "over"} => active[r] = NoPacket,
         a \in {"streaming", "succeeded", "failed", "over"}
           => b \in {"streaming", "succeeded", "failed", "over"},
         UNCHANGED <<entries, pending, active, accepted, delivered, heard>>
  PROVE  BoundaryInv'
<1>1. BoundaryTypes' /\ KnownInv'
  BY DEF Moves, BoundaryInv, BoundaryTypes, KnownInv
<1>2. PlacesInv' /\ OnePlaceInv'
  BY DEF BoundaryInv, PlacesInv, OnePlaceInv, Queued, Carries, Evident
<1>3. /\ stage[r] = a /\ stage'[r] = b
      /\ \A s \in Calls \ {r} : stage'[s] = stage[s]
  BY DEF Moves, BoundaryInv, BoundaryTypes
<1>4. StageInv'
  BY <1>3 DEF BoundaryInv, StageInv, Evident
<1> QED BY <1>1, <1>2, <1>4 DEF BoundaryInv

(* A request takes the packet at the head of the queue.                    *)
LEMMA TakeInv ==
  ASSUME BoundaryInv, NEW r \in Calls, TakePacket(r) PROVE BoundaryInv'
<1> DEFINE k == Head(pending)
<1> USE DEF TakePacket, Moves
<1>1. /\ Len(pending) \in Nat \ {0} /\ pending[1] = k /\ k \in entries
      /\ Len(pending') = Len(pending) - 1
      /\ \A i \in 1 .. Len(pending') : pending'[i] = pending[i + 1]
  BY DEF BoundaryInv, BoundaryTypes, KnownInv
<1>2. Queued(k) /\ ~Evident(k) /\ \A s \in Calls : ~Carries(s, k)
  BY <1>1 DEF Queued, BoundaryInv, OnePlaceInv
<1>3. BoundaryTypes'
  BY <1>1 DEF BoundaryInv, BoundaryTypes, BoundaryStages
<1>3a. KnownInv'
  BY <1>1 DEF BoundaryInv, BoundaryTypes, KnownInv
<1>4. /\ active[r] = NoPacket /\ active'[r] = k /\ r \notin accepted
      /\ \A s \in Calls \ {r} : active'[s] = active[s]
  BY DEF BoundaryInv, BoundaryTypes, StageInv
<1>5. \A e \in entries : Queued(e)' <=> (Queued(e) /\ e # k)
  <2> SUFFICES ASSUME NEW e \in entries PROVE Queued(e)' <=> (Queued(e) /\ e # k)
    OBVIOUS
  <2>1. ASSUME NEW i \in 1 .. Len(pending'), pending'[i] = e PROVE Queued(e) /\ e # k
    <3>1. i + 1 \in 1 .. Len(pending) /\ pending[i + 1] = e /\ 1 \in 1 .. Len(pending)
      BY <1>1, <2>1
    <3> QED BY <1>1, <3>1 DEF Queued, BoundaryInv, PlacesInv
  <2>2. ASSUME NEW i \in 1 .. Len(pending), pending[i] = e, e # k PROVE Queued(e)'
    <3>1. i - 1 \in 1 .. Len(pending') /\ pending'[i - 1] = e
      BY <1>1, <2>2
    <3> QED BY <3>1 DEF Queued
  <2> QED BY <2>1, <2>2 DEF Queued
<1>6. \A s \in Calls, e \in entries : Carries(s, e)' <=> (Carries(s, e) \/ (s = r /\ e = k))
  BY <1>4, NoPacketIsNone DEF Carries, BoundaryInv, BoundaryTypes
<1>7. PlacesInv'
  <2>1. \A i, j \in 1 .. Len(pending') : pending'[i] = pending'[j] => i = j
    <3> SUFFICES ASSUME NEW i \in 1 .. Len(pending'), NEW j \in 1 .. Len(pending'),
                        pending'[i] = pending'[j]
                 PROVE  i = j
      OBVIOUS
    <3>1. i + 1 \in 1 .. Len(pending) /\ j + 1 \in 1 .. Len(pending)
      BY <1>1
    <3>2. i + 1 = j + 1
      BY <1>1, <3>1 DEF BoundaryInv, PlacesInv
    <3> QED BY <3>2
  <2> QED BY <1>2, <1>6, <2>1 DEF BoundaryInv, PlacesInv
<1>8. OnePlaceInv'
  <2>1. \A e \in entries : Evident(e)' <=> Evident(e)
    BY DEF Evident
  <2> QED BY <1>2, <1>5, <1>6, <2>1 DEF BoundaryInv, OnePlaceInv
<1>9. StageInv'
  BY <1>4 DEF BoundaryInv, BoundaryTypes, StageInv, Evident
<1> QED BY <1>3, <1>3a, <1>7, <1>8, <1>9 DEF BoundaryInv

(* The answer of the provider moves the packet of a request to the         *)
(* evidence, unless another request delivered it.                          *)
LEMMA AcceptsInv ==
  ASSUME BoundaryInv, NEW r \in Calls, ProviderAccepts(r) PROVE BoundaryInv'
<1> DEFINE k == active[r]
<1> USE DEF ProviderAccepts, Moves
<1>1. /\ stage[r] = "sent" /\ r \notin accepted /\ k \in entries \cup {NoPacket}
      /\ stage' \in [Calls -> BoundaryStages]
      /\ stage'[r] \in {"streaming", "failed"} /\ \A s \in Calls \ {r} : stage'[s] = stage[s]
  BY DEF BoundaryInv, BoundaryTypes, KnownInv, StageInv, BoundaryStages
<1>2. CASE k = NoPacket
  <2>1. heard' = heard
    BY <1>2, NoPacketIsNone DEF BoundaryInv, BoundaryTypes
  <2>2. accepted' = accepted /\ delivered' = delivered
    BY <1>2
  <2>3. BoundaryTypes' /\ KnownInv'
    BY <1>1, <2>1, <2>2 DEF BoundaryInv, BoundaryTypes, KnownInv
  <2>4. PlacesInv' /\ OnePlaceInv'
    BY <2>2 DEF BoundaryInv, PlacesInv, OnePlaceInv, Queued, Carries, Evident
  <2>5. StageInv'
    BY <1>1, <2>1, <2>2 DEF BoundaryInv, StageInv, Evident
  <2> QED BY <2>3, <2>4, <2>5 DEF BoundaryInv
<1>3. CASE k # NoPacket
  <2>1. k \in entries /\ Carries(r, k) /\ ~Queued(k) /\ ~Evident(k)
    BY <1>1, <1>3 DEF Carries, BoundaryInv, OnePlaceInv
  <2>2. /\ Len(delivered') = Len(delivered) + 1 /\ delivered'[Len(delivered) + 1].packet = k
        /\ \A i \in 1 .. Len(delivered) :
             delivered'[i] = delivered[i] /\ delivered[i].packet \in entries
        /\ Len(delivered) \in Nat
    <3>1. delivered' = Append(delivered, [packet |-> k, by |-> r])
      BY <1>3
    <3>2. /\ Len(delivered) \in Nat /\ Len(delivered') = Len(delivered) + 1
          /\ delivered'[Len(delivered) + 1] = [packet |-> k, by |-> r]
          /\ \A i \in 1 .. Len(delivered) : delivered'[i] = delivered[i]
      BY <3>1 DEF BoundaryInv, BoundaryTypes
    <3> QED BY <3>2 DEF BoundaryInv, KnownInv
  <2>3. BoundaryTypes'
    <3>1. [packet |-> k, by |-> r] \in [packet : Packets, by : Calls]
      BY <2>1 DEF BoundaryInv, BoundaryTypes
    <3>1a. /\ delivered' = Append(delivered, [packet |-> k, by |-> r])
           /\ delivered \in Seq([packet : Packets, by : Calls])
      BY <1>3 DEF BoundaryInv, BoundaryTypes
    <3>2. delivered' \in Seq([packet : Packets, by : Calls])
      <4> DEFINE Evidence == [packet : Packets, by : Calls]
      <4>1. /\ delivered \in Seq(Evidence) /\ [packet |-> k, by |-> r] \in Evidence
            /\ delivered' = Append(delivered, [packet |-> k, by |-> r])
        BY <3>1, <3>1a
      <4> HIDE DEF Evidence
      <4>2. delivered' \in Seq(Evidence)
        BY <4>1, AppendProperties
      <4> QED BY <4>2 DEF Evidence
    <3>3. heard' \in [Packets -> Nat]
      BY DEF BoundaryInv, BoundaryTypes
    <3> QED BY <1>1, <1>3, <3>2, <3>3 DEF BoundaryInv, BoundaryTypes
  <2>3a. KnownInv'
    BY <2>1, <2>2 DEF BoundaryInv, KnownInv
  <2>4. \A e \in Packets : Evident(e)' <=> (Evident(e) \/ e = k)
    BY <2>2 DEF Evident
  <2>5. \A s \in Calls, e \in entries : Carries(s, e)' <=> (Carries(s, e) /\ s # r)
    BY <1>3 DEF Carries
  <2>6. \A e \in entries : Carries(r, e) => e = k
    BY DEF Carries
  <2>7. PlacesInv'
    BY <2>1, <2>2, <2>5 DEF BoundaryInv, PlacesInv, Evident
  <2>8. OnePlaceInv'
    <3>1. \A e \in entries : Queued(e)' <=> Queued(e)
      BY DEF Queued
    <3>2. \A s \in Calls : Carries(s, k) => s = r
      BY <2>1 DEF BoundaryInv, PlacesInv
    <3>3. entries' = entries /\ entries \subseteq Packets
      BY DEF BoundaryInv, BoundaryTypes
    <3>4. ASSUME NEW e \in entries
          PROVE  /\ Queued(e)' \/ Evident(e)' \/ (\E s \in Calls : Carries(s, e)')
                 /\ Queued(e)' => ~Evident(e)' /\ \A s \in Calls : ~Carries(s, e)'
                 /\ Evident(e)' => \A s \in Calls : ~Carries(s, e)'
      BY <2>1, <2>4, <2>5, <2>6, <3>1, <3>2, <3>3 DEF BoundaryInv, OnePlaceInv
    <3> QED BY <3>3, <3>4 DEF OnePlaceInv
  <2>9. StageInv'
    <3>1. \A e \in Packets : heard'[e] = heard[e] + IF k = e THEN 1 ELSE 0
      BY DEF BoundaryInv, BoundaryTypes
    <3>2. \A e \in Packets : heard'[e] = IF Evident(e)' THEN 1 ELSE 0
      BY <2>1, <2>4, <3>1 DEF BoundaryInv, StageInv
    <3> QED BY <1>1, <1>3, <3>2 DEF BoundaryInv, StageInv
  <2> QED BY <2>3, <2>3a, <2>7, <2>8, <2>9 DEF BoundaryInv
<1> QED BY <1>2, <1>3

(* A request that was not answered puts its packet back at the head of the *)
(* queue.                                                                  *)
LEMMA CompleteInv ==
  ASSUME BoundaryInv, NEW r \in Calls, Complete(r) PROVE BoundaryInv'
<1> DEFINE k == active[r]
<1> USE DEF Complete, Moves
<1>1. /\ stage' = [stage EXCEPT ![r] = "over"] /\ stage' \in [Calls -> BoundaryStages]
      /\ k \in entries \cup {NoPacket}
      /\ active'[r] = NoPacket /\ \A s \in Calls \ {r} : active'[s] = active[s]
      /\ active' \in [Calls -> Packets \cup {NoPacket}]
  BY DEF BoundaryInv, BoundaryTypes, KnownInv, BoundaryStages
<1>2. \A s \in Calls, e \in entries : Carries(s, e)' <=> (Carries(s, e) /\ s # r)
  BY <1>1, NoPacketIsNone DEF Carries, BoundaryInv, BoundaryTypes
<1>3. StageInv'
  BY <1>1 DEF BoundaryInv, BoundaryTypes, StageInv, Evident
<1>4. \A e : Evident(e)' <=> Evident(e)
  BY DEF Evident
<1>5. CASE k = NoPacket \/ r \in accepted
  <2>1. \A e \in entries : ~Carries(r, e)
    BY <1>5, NoPacketIsNone DEF Carries, BoundaryInv, BoundaryTypes
  <2>2. pending' = pending
    BY <1>5
  <2>3. BoundaryTypes' /\ KnownInv'
    BY <1>1, <2>2 DEF BoundaryInv, BoundaryTypes, KnownInv
  <2>4. PlacesInv'
    BY <1>2, <2>2 DEF BoundaryInv, PlacesInv
  <2>5. \A e \in entries : \A s \in Calls : Carries(s, e)' <=> Carries(s, e)
    BY <1>2, <2>1
  <2>6. OnePlaceInv'
    BY <1>4, <2>2, <2>5 DEF BoundaryInv, OnePlaceInv, Queued
  <2> QED BY <1>3, <2>3, <2>4, <2>6 DEF BoundaryInv
<1>6. CASE k # NoPacket /\ r \notin accepted
  <2>1. k \in entries /\ Carries(r, k) /\ ~Queued(k) /\ ~Evident(k)
    BY <1>1, <1>6 DEF Carries, BoundaryInv, OnePlaceInv
  <2>2. /\ pending' \in Seq(Packets) /\ Len(pending) \in Nat
        /\ Len(pending') = Len(pending) + 1 /\ pending'[1] = k
        /\ \A i \in 2 .. Len(pending') : i - 1 \in 1 .. Len(pending) /\ pending'[i] = pending[i - 1]
    BY <1>6, <2>1 DEF BoundaryInv, BoundaryTypes
  <2>2a. \A i \in 1 .. Len(pending') : i = 1 \/ i \in 2 .. Len(pending')
    BY <2>2
  <2>2b. BoundaryTypes' /\ KnownInv'
    BY <1>1, <2>1, <2>2, <2>2a DEF BoundaryInv, BoundaryTypes, KnownInv
  <2>3. \A e \in entries : Queued(e)' <=> (Queued(e) \/ e = k)
    <3> SUFFICES ASSUME NEW e \in entries PROVE Queued(e)' <=> (Queued(e) \/ e = k)
      OBVIOUS
    <3>1. ASSUME NEW i \in 1 .. Len(pending), pending[i] = e PROVE Queued(e)'
      <4>1. i + 1 \in 2 .. Len(pending') /\ pending'[i + 1] = pending[i]
        BY <2>2
      <4> QED BY <3>1, <4>1 DEF Queued
    <3>2. ASSUME NEW i \in 1 .. Len(pending'), pending'[i] = e PROVE Queued(e) \/ e = k
      <4>1. CASE i = 1
        BY <2>2, <3>2, <4>1
      <4>2. CASE i \in 2 .. Len(pending')
        <5>1. i - 1 \in 1 .. Len(pending) /\ pending[i - 1] = e
          BY <2>2, <3>2, <4>2
        <5> QED BY <5>1 DEF Queued
      <4> QED BY <2>2a, <4>1, <4>2
    <3>3. ASSUME e = k PROVE Queued(e)'
      <4>1. 1 \in 1 .. Len(pending') /\ pending'[1] = e
        BY <2>2, <3>3
      <4> QED BY <4>1 DEF Queued
    <3> QED BY <3>1, <3>2, <3>3 DEF Queued
  <2>4. \A i, j \in 1 .. Len(pending') : pending'[i] = pending'[j] => i = j
    <3> SUFFICES ASSUME NEW i \in 1 .. Len(pending'), NEW j \in 1 .. Len(pending'),
                        pending'[i] = pending'[j]
                 PROVE  i = j
      OBVIOUS
    <3>1. CASE i = 1 /\ j # 1
      BY <2>1, <2>2, <2>2a, <3>1 DEF Queued
    <3>2. CASE i # 1 /\ j = 1
      BY <2>1, <2>2, <2>2a, <3>2 DEF Queued
    <3>3. CASE i # 1 /\ j # 1
      <4>1. i - 1 = j - 1
        BY <2>2, <2>2a, <3>3 DEF BoundaryInv, PlacesInv
      <4> QED BY <4>1
    <3> QED BY <3>1, <3>2, <3>3
  <2>5. PlacesInv'
    BY <1>2, <2>4 DEF BoundaryInv, PlacesInv
  <2>6. OnePlaceInv'
    <3>1. \A s \in Calls : Carries(s, k) => s = r
      BY <2>1 DEF BoundaryInv, PlacesInv
    <3>2. \A e \in entries : Carries(r, e) => e = k
      BY DEF Carries
    <3>3. ASSUME NEW e \in entries
          PROVE  /\ Queued(e)' \/ Evident(e)' \/ (\E s \in Calls : Carries(s, e)')
                 /\ Queued(e)' => ~Evident(e)' /\ \A s \in Calls : ~Carries(s, e)'
                 /\ Evident(e)' => \A s \in Calls : ~Carries(s, e)'
      BY <1>2, <1>4, <2>1, <2>3, <3>1, <3>2 DEF BoundaryInv, OnePlaceInv
    <3> QED BY <3>3 DEF OnePlaceInv
  <2> QED BY <1>3, <2>2b, <2>5, <2>6 DEF BoundaryInv
<1> QED BY <1>5, <1>6, <1>1

LEMMA BoundaryStepInv ==
  ASSUME BoundaryInv, [BoundaryNext]_boundaryVars PROVE BoundaryInv'
<1>1. ASSUME NEW r \in Calls, RequestStep(r) PROVE BoundaryInv'
  <2> DEFINE still == UNCHANGED <<entries, pending, active, accepted, delivered, heard>>
  <2>0. stage[r] \in {"new", "shifting", "over"} => active[r] = NoPacket
    BY DEF BoundaryInv, StageInv
  <2> USE <2>0, QuietInv DEF BoundaryStages
  <2>1. CASE DelegatePrepares(r)
    BY <2>1 DEF DelegatePrepares, Moves
  <2>3. CASE NothingPending(r) BY <2>3 DEF NothingPending, Moves
  <2>4. CASE InjectionFails(r) BY <2>4 DEF InjectionFails, Moves
  <2>5. CASE Dispatch(r) BY <2>5 DEF Dispatch, Moves
  <2>6. CASE ProviderFails(r) BY <2>6 DEF ProviderFails, Moves
  <2>8. CASE StreamEnds(r) BY <2>8 DEF StreamEnds, Moves
  <2> QED BY <1>1, <2>1, <2>3, <2>4, <2>5, <2>6, <2>8, TakeInv, AcceptsInv, CompleteInv
      DEF RequestStep
<1>2. CASE UNCHANGED boundaryVars
  BY <1>2
  DEF boundaryVars, BoundaryInv, BoundaryTypes, KnownInv, PlacesInv, OnePlaceInv, StageInv,
      Queued, Carries, Evident
<1> QED BY <1>1, <1>2, EnqueueInv DEF BoundaryNext, RequestStep

LEMMA AtMostOneIn ==
  ASSUME NEW S, \A x, y \in S : x = y
  PROVE  Cardinality(S) = IF S = {} THEN 0 ELSE 1
<1>1. CASE S = {}
  BY <1>1, FS_EmptySet
<1>2. ASSUME NEW x \in S PROVE Cardinality(S) = 1
  <2>1. S = {x}
    OBVIOUS
  <2> QED BY <2>1, FS_Singleton
<1> QED BY <1>1, <1>2

(* The places of the finding boundary hold every accepted packet, whatever *)
(* order requests prepare, fail, stream and end in (finding-delivery-      *)
(* broker-boundary.ts, under inference-broker.ts).                         *)
THEOREM BoundaryInvariance == BoundarySpec => []BoundaryInv
  BY BoundaryInitInv, BoundaryStepInv, PTL DEF BoundarySpec

(* An accepted packet is in exactly one place, waiting, in one request or  *)
(* evidence, and the provider answered a request with it exactly if it is  *)
(* evidence.                                                               *)
THEOREM OnePlace == BoundarySpec => []PacketInOnePlace
<1>1. ASSUME BoundaryInv, NEW k \in entries
      PROVE  /\ Cardinality({i \in 1 .. Len(pending) : pending[i] = k})
                + Cardinality({r \in Calls : active[r] = k /\ r \notin accepted})
                + Cardinality({i \in 1 .. Len(delivered) : delivered[i].packet = k}) = 1
             /\ heard[k] = IF Evident(k) THEN 1 ELSE 0
  <2> DEFINE queue   == {i \in 1 .. Len(pending) : pending[i] = k}
             carried == {r \in Calls : active[r] = k /\ r \notin accepted}
             evident == {i \in 1 .. Len(delivered) : delivered[i].packet = k}
  <2>1. /\ \A x, y \in queue : x = y
        /\ \A x, y \in carried : x = y
        /\ \A x, y \in evident : x = y
    BY <1>1 DEF BoundaryInv, PlacesInv, Carries
  <2>2. /\ Cardinality(queue) = IF queue = {} THEN 0 ELSE 1
        /\ Cardinality(carried) = IF carried = {} THEN 0 ELSE 1
        /\ Cardinality(evident) = IF evident = {} THEN 0 ELSE 1
    <3> HIDE DEF queue, carried, evident
    <3> QED BY <2>1, AtMostOneIn
  <2>3. /\ queue # {} <=> Queued(k)
        /\ carried # {} <=> \E r \in Calls : Carries(r, k)
        /\ evident # {} <=> Evident(k)
    BY DEF Queued, Carries, Evident
  <2>4. /\ Queued(k) \/ Evident(k) \/ (\E r \in Calls : Carries(r, k))
        /\ Queued(k) => ~Evident(k) /\ \A r \in Calls : ~Carries(r, k)
        /\ Evident(k) => \A r \in Calls : ~Carries(r, k)
    BY <1>1 DEF BoundaryInv, OnePlaceInv
  <2>5. Cardinality(queue) + Cardinality(carried) + Cardinality(evident) = 1
    <3> HIDE DEF queue, carried, evident
    <3> QED BY <2>2, <2>3, <2>4
  <2>6. heard[k] = IF Evident(k) THEN 1 ELSE 0
    BY <1>1 DEF BoundaryInv, BoundaryTypes, StageInv
  <2> QED BY <2>5, <2>6
<1>2. BoundaryInv => PacketInOnePlace
  BY <1>1 DEF PacketInOnePlace
<1> QED BY <1>2, BoundaryInvariance, PTL

(***************************************************************************)
(* CastRun: DONE is earned.                                                *)
(***************************************************************************)
RunPhases  == {"idle", "lanes", "refused", "rejected", "settled", "linked", "returned", "dead"}
LanePhases == {"none", "checking", "fresh", "threw", "running", "closing", "resolved"}

LaneRecord ==
  [at : LanePhases, ok : BOOLEAN, active : SUBSET Questions, observed : SUBSET Questions,
   blocked : BOOLEAN, missed : BOOLEAN]
RunRecord == [pc : RunPhases, timer : BOOLEAN, deadline : BOOLEAN]
Papers ==
  [requests : SUBSET Questions, responses : SUBSET Questions, receipts : SUBSET Questions]

RunTypes ==
  /\ run \in [Runs -> RunRecord]
  /\ lane \in [Runs -> [Lanes -> LaneRecord]]
  /\ records \in [Lanes -> Papers]
  /\ done \in Runs \cup {NoRun}

(* What a lane has asked is on record, and a lane that ended well with     *)
(* nothing open, and nothing missed, has a receipt for all of it that the  *)
(* reader admits.                                                          *)
LaneTruth(f, p) ==
  /\ f.observed \subseteq p.requests
  /\ f.at \notin {"closing", "resolved"} => ~f.ok
  /\ f.at = "resolved" /\ f.ok /\ ~f.blocked /\ ~f.missed =>
       f.observed \ Oversized \subseteq p.receipts

LaneInv == \A r \in Runs, l \in Lanes : LaneTruth(lane[r][l], records[l])

(* A run that came so far had all its lanes resolve; one that linked its   *)
(* result had them all complete.                                           *)
Earned(r) ==
  /\ result = [by |-> r, completed |-> TRUE] /\ ~run[r].deadline
  /\ \A l \in Lanes : lane[r][l].ok /\ ~lane[r][l].blocked

RunInv ==
  /\ \A r \in Runs :
       /\ run[r].pc = "idle" => \A l \in Lanes : lane[r][l].at = "none"
       /\ run[r].pc \in {"settled", "linked", "returned"} =>
            \A l \in Lanes : lane[r][l].at = "resolved"
       /\ run[r].pc = "linked" => Earned(r)
  /\ done # NoRun => run[done].pc = "returned" /\ Earned(done)

CastRunInv == RunTypes /\ LaneInv /\ RunInv

LEMMA CastRunInitInv == RunInit => CastRunInv
  BY NoRunIsNone
  DEF RunInit, CastRunInv, RunTypes, LaneInv, LaneTruth, RunInv, Earned, RunPhases,
      LanePhases, LaneRecord, RunRecord, Papers, NoResult

(* How a step moves one run. *)
RunMoves(r, pc) ==
  /\ run' \in [Runs -> RunRecord]
  /\ run'[r].pc = pc /\ \A s \in Runs \ {r} : run'[s] = run[s]

LEMMA LaneEdit ==
  ASSUME NEW f \in LaneRecord, NEW at \in LanePhases
  PROVE  /\ [f EXCEPT !.at = at] \in LaneRecord
         /\ [f EXCEPT !.at = at].at = at /\ [f EXCEPT !.at = at].ok = f.ok
         /\ [f EXCEPT !.at = at].observed = f.observed
  BY DEF LaneRecord

LEMMA RunEdit ==
  ASSUME NEW r \in Runs, NEW pc \in RunPhases, NEW t \in BOOLEAN, NEW d \in BOOLEAN,
         run \in [Runs -> RunRecord],
         \/ run' = [run EXCEPT ![r].pc = pc]
         \/ run' = [run EXCEPT ![r].pc = pc, ![r].timer = t]
         \/ run' = [run EXCEPT ![r].timer = t, ![r].deadline = d] /\ run[r].pc = pc
  PROVE  RunMoves(r, pc)
  BY DEF RunRecord, RunMoves

(* How a step moves one lane that has not resolved. *)
LaneMoves(r, l, f) ==
  /\ lane[r][l].at \notin {"none", "resolved"}
  /\ lane' = [lane EXCEPT ![r] = [@ EXCEPT ![l] = f]]
  /\ UNCHANGED <<run, result, done>>

PapersGrow(l, p) ==
  /\ records' = [records EXCEPT ![l] = p]
  /\ records[l].requests \subseteq p.requests /\ records[l].receipts \subseteq p.receipts

(* A lane may move, and its papers grow, while its run goes on.            *)
LEMMA LaneMovesInv ==
  ASSUME CastRunInv, NEW r \in Runs, NEW l \in Lanes, NEW f \in LaneRecord, LaneMoves(r, l, f),
         NEW p \in Papers, PapersGrow(l, p), LaneTruth(f, p)
  PROVE  CastRunInv'
<1>1. /\ lane'[r][l] = f
      /\ \A s \in Runs, m \in Lanes : (s # r \/ m # l) => lane'[s][m] = lane[s][m]
      /\ lane' \in [Runs -> [Lanes -> LaneRecord]]
  BY DEF LaneMoves, CastRunInv, RunTypes
<1>2. /\ records'[l] = p /\ records' \in [Lanes -> Papers]
      /\ \A m \in Lanes \ {l} : records'[m] = records[m]
  BY DEF PapersGrow, CastRunInv, RunTypes
<1>3. RunTypes'
  BY <1>1, <1>2 DEF LaneMoves, CastRunInv, RunTypes
<1>4. LaneInv'
  BY <1>1, <1>2 DEF PapersGrow, CastRunInv, LaneInv, LaneTruth
<1>5. RunInv'
  <2>1. \A s \in Runs : run[s].pc \in {"idle", "settled", "linked", "returned"} =>
          s # r /\ \A m \in Lanes : lane'[s][m] = lane[s][m]
    BY <1>1 DEF LaneMoves, CastRunInv, RunInv
  <2>2. UNCHANGED <<run, result, done>>
    BY DEF LaneMoves
  <2> QED BY <2>1, <2>2 DEF CastRunInv, RunTypes, RunInv, Earned
<1> QED BY <1>3, <1>4, <1>5 DEF CastRunInv

(* A run may move when its lanes let it.                                   *)
LEMMA RunMovesInv ==
  ASSUME CastRunInv, NEW r \in Runs, NEW pc \in RunPhases \ {"idle"}, RunMoves(r, pc),
         UNCHANGED <<lane, records>>,
         run[r].pc # "returned",
         pc \in {"settled", "linked", "returned"} => \A l \in Lanes : lane[r][l].at = "resolved",
         pc = "linked" => Earned(r)',
         result' # result => result = NoResult,
         done' # done => done' = r /\ Earned(r)' /\ pc = "returned"
  PROVE  CastRunInv'
<1>1. /\ run'[r].pc = pc
      /\ \A s \in Runs \ {r} : run'[s] = run[s]
      /\ run' \in [Runs -> RunRecord]
  BY DEF RunMoves
<1>2. RunTypes' /\ LaneInv'
  BY <1>1 DEF CastRunInv, RunTypes, LaneInv
<1>3. \A s \in Runs \ {r} : Earned(s) => Earned(s)'
  BY <1>1, NoRunIsNone DEF Earned, NoResult
<1>4. \A s \in Runs : run'[s].pc = "linked" => Earned(s)'
  BY <1>1, <1>3 DEF CastRunInv, RunInv
<1>5. done' # NoRun => run'[done'].pc = "returned" /\ Earned(done)'
  <2>1. CASE done' = done
    <3>1. ASSUME done # NoRun PROVE done \in Runs \ {r} /\ run[done].pc = "returned" /\ Earned(done)
      BY <3>1 DEF CastRunInv, RunInv, RunTypes
    <3> QED BY <1>1, <1>3, <2>1, <3>1 DEF Earned
  <2>2. CASE done' # done
    <3>1. done' = r /\ Earned(r)' /\ pc = "returned"
      BY <2>2
    <3> QED BY <1>1, <3>1 DEF Earned
  <2> QED BY <2>1, <2>2
<1>6. \A s \in Runs : run'[s].pc \in {"settled", "linked", "returned"} =>
        \A l \in Lanes : lane'[s][l].at = "resolved"
  BY <1>1 DEF CastRunInv, RunInv
<1>7. \A s \in Runs : run'[s].pc = "idle" => \A l \in Lanes : lane'[s][l].at = "none"
  BY <1>1 DEF CastRunInv, RunInv
<1>8. RunInv'
  BY <1>4, <1>5, <1>6, <1>7 DEF RunInv
<1> QED BY <1>2, <1>8 DEF CastRunInv

LEMMA CastRunStepInv == CastRunInv /\ [RunNext]_runVars => CastRunInv'
<1> SUFFICES ASSUME CastRunInv, [RunNext]_runVars PROVE CastRunInv'
  OBVIOUS
<1>0. /\ \A r \in Runs : run[r] \in RunRecord /\ run[r].timer \in BOOLEAN
      /\ \A r \in Runs, l \in Lanes :
           lane[r][l] \in LaneRecord /\ LaneTruth(lane[r][l], records[l])
      /\ \A l \in Lanes : records[l] \in Papers
      /\ run \in [Runs -> RunRecord]
      /\ lane \in [Runs -> [Lanes -> LaneRecord]] /\ records \in [Lanes -> Papers]
  BY DEF CastRunInv, RunTypes, LaneInv, RunRecord
<1>a. ASSUME NEW l \in Lanes PROVE records = [records EXCEPT ![l] = records[l]]
  BY <1>0
<1>1. ASSUME NEW r \in Runs, BeginRun(r) PROVE CastRunInv'
  <2>1. CASE run' = [run EXCEPT ![r].pc = "refused"] /\ UNCHANGED lane
    <3>1. RunMoves(r, "refused")
      BY <1>0, <2>1, RunEdit DEF RunPhases
    <3> QED BY <1>0, <1>1, <2>1, <3>1, RunMovesInv DEF BeginRun, RunPhases
  <2>2. CASE /\ run' = [run EXCEPT ![r].pc = "lanes", ![r].timer = TRUE]
             /\ done = NoRun /\ result = NoResult
             /\ lane' = [lane EXCEPT ![r] = [l \in Lanes |-> [@[l] EXCEPT !.at = "checking"]]]
    <3>1. /\ run' \in [Runs -> RunRecord]
          /\ run'[r].pc = "lanes" /\ \A s \in Runs \ {r} : run'[s] = run[s]
      BY <1>0, <2>2 DEF RunPhases, RunRecord
    <3>2. \A l \in Lanes : [lane[r][l] EXCEPT !.at = "checking"] \in LaneRecord
      BY <1>0, LaneEdit DEF LanePhases
    <3>3. /\ lane' \in [Runs -> [Lanes -> LaneRecord]]
          /\ \A l \in Lanes : lane'[r][l] = [lane[r][l] EXCEPT !.at = "checking"]
          /\ \A s \in Runs \ {r} : lane'[s] = lane[s]
      BY <1>0, <2>2, <3>2
    <3>4. UNCHANGED <<records, result, done>>
      BY <1>1 DEF BeginRun
    <3>5. \A s \in Runs : run[s].pc # "linked"
      BY <2>2, NoRunIsNone DEF CastRunInv, RunInv, Earned, NoResult
    <3>6. RunTypes'
      BY <3>1, <3>3, <3>4 DEF CastRunInv, RunTypes
    <3>7. LaneInv'
      <4>1. ASSUME NEW l \in Lanes PROVE LaneTruth(lane'[r][l], records[l])
        <5>1. /\ lane'[r][l].at = "checking" /\ lane'[r][l].ok = lane[r][l].ok
              /\ lane'[r][l].observed = lane[r][l].observed
          BY <1>0, <3>3 DEF LaneRecord
        <5>2. ~lane[r][l].ok
          BY <1>0, <1>1 DEF LaneTruth, BeginRun, CastRunInv, RunInv
        <5> QED BY <1>0, <5>1, <5>2 DEF LaneTruth
      <4> QED BY <1>0, <3>3, <3>4, <4>1 DEF LaneInv
    <3>8. RunInv'
      BY <2>2, <3>1, <3>3, <3>4, <3>5 DEF CastRunInv, RunInv
    <3> QED BY <3>6, <3>7, <3>8 DEF CastRunInv
  <2> QED BY <1>1, <2>1, <2>2 DEF BeginRun
<1>2. ASSUME NEW r \in Runs, Deadline(r) PROVE CastRunInv'
  <2>1. RunMoves(r, "lanes")
    BY <1>0, <1>2, RunEdit DEF RunPhases, Deadline
  <2> QED BY <1>2, <2>1, RunMovesInv DEF Deadline, RunPhases
<1>3. ASSUME NEW r \in Runs, RunRejects(r) PROVE CastRunInv'
  <2>1. RunMoves(r, "rejected")
    BY <1>0, <1>3, RunEdit DEF RunPhases, RunRejects
  <2> QED BY <1>0, <1>3, <2>1, RunMovesInv DEF RunRejects, RunPhases
<1>4. ASSUME NEW r \in Runs, LanesSettle(r) PROVE CastRunInv'
  <2>1. RunMoves(r, "settled")
    BY <1>0, <1>4, RunEdit DEF RunPhases, LanesSettle
  <2>2. \A l \in Lanes : lane[r][l].at = "resolved"
    BY <1>4 DEF LanesSettle, LanesAt
  <2> QED BY <1>0, <1>4, <2>1, <2>2, RunMovesInv DEF LanesSettle, RunPhases
<1>5. ASSUME NEW r \in Runs, WriteResult(r) PROVE CastRunInv'
  <2>0. \A l \in Lanes : lane[r][l].at = "resolved"
    BY <1>5 DEF WriteResult, CastRunInv, RunInv
  <2>1. ASSUME NEW pc \in {"refused", "linked", "returned"}, run' = [run EXCEPT ![r].pc = pc],
               result' # result => result = NoResult, pc = "linked" => Earned(r)'
        PROVE  CastRunInv'
    <3>1. RunMoves(r, pc)
      BY <1>0, <2>1, RunEdit DEF RunPhases
    <3> QED BY <1>0, <1>5, <2>0, <2>1, <3>1, RunMovesInv DEF WriteResult, RunPhases
  <2>2. CASE result = NoResult
    <3>1. CASE Completed(r)
      <4>1. /\ result' = [by |-> r, completed |-> TRUE] /\ run' = [run EXCEPT ![r].pc = "linked"]
            /\ UNCHANGED lane
        BY <1>5, <2>2, <3>1 DEF WriteResult
      <4>2. run'[r].deadline = run[r].deadline
        BY <1>0, <4>1
      <4>3. Earned(r)'
        BY <3>1, <4>1, <4>2 DEF Earned, Completed
      <4> QED BY <2>1, <2>2, <4>1, <4>3
    <3>2. CASE ~Completed(r)
      BY <1>5, <2>1, <2>2, <3>2 DEF WriteResult
    <3> QED BY <3>1, <3>2
  <2>3. CASE result # NoResult
    BY <1>5, <2>1, <2>3 DEF WriteResult
  <2> QED BY <2>2, <2>3
<1>6. ASSUME NEW r \in Runs, WriteDone(r) PROVE CastRunInv'
  <2>1. RunMoves(r, "returned")
    BY <1>0, <1>6, RunEdit DEF RunPhases, WriteDone
  <2>2. /\ \A l \in Lanes : lane[r][l].at = "resolved"
        /\ Earned(r) /\ run[r].pc = "linked"
    BY <1>6 DEF WriteDone, CastRunInv, RunInv
  <2>3. Earned(r)'
    BY <1>0, <1>6, <2>1, <2>2 DEF WriteDone, Earned
  <2> QED BY <1>0, <1>6, <2>1, <2>2, <2>3, RunMovesInv DEF WriteDone, RunPhases
<1>7. ASSUME NEW r \in Runs, RunDies(r) PROVE CastRunInv'
  <2>1. RunMoves(r, "dead")
    BY <1>0, <1>7, RunEdit DEF RunPhases, RunDies
  <2> QED BY <1>0, <1>7, <2>1, RunMovesInv DEF RunDies, RunPhases
<1>8. ASSUME NEW r \in Runs, NEW l \in Lanes, CheckFresh(r, l) PROVE CastRunInv'
  <2>1. PICK at \in {"fresh", "threw"} : lane' = [lane EXCEPT ![r][l].at = at]
    BY <1>8 DEF CheckFresh
  <2> DEFINE f == [lane[r][l] EXCEPT !.at = at]
  <2>2. f \in LaneRecord /\ LaneTruth(f, records[l]) /\ LaneMoves(r, l, f)
    <3>1. /\ f \in LaneRecord /\ f.at = at /\ f.ok = lane[r][l].ok
          /\ f.observed = lane[r][l].observed
      <4>1. lane[r][l] \in LaneRecord /\ at \in LanePhases
        BY <1>0, <2>1 DEF LanePhases
      <4> QED BY <4>1, LaneEdit
    <3>2. LaneTruth(f, records[l])
      BY <1>0, <1>8, <3>1 DEF CheckFresh, LaneTruth
    <3>3. lane' = [lane EXCEPT ![r] = [@ EXCEPT ![l] = f]]
      BY <1>0, <2>1
    <3> HIDE DEF f
    <3> QED BY <1>8, <3>1, <3>2, <3>3 DEF CheckFresh, LaneMoves
  <2>3. PapersGrow(l, records[l])
    BY <1>a, <1>8 DEF CheckFresh, PapersGrow
  <2> HIDE DEF f
  <2> QED BY <1>0, <2>2, <2>3, LaneMovesInv
<1>9. ASSUME NEW r \in Runs, NEW l \in Lanes, SpawnLane(r, l) PROVE CastRunInv'
  <2>1. PICK at \in {"running", "resolved"} : lane' = [lane EXCEPT ![r][l].at = at]
    BY <1>9 DEF SpawnLane
  <2> DEFINE f == [lane[r][l] EXCEPT !.at = at]
  <2>2. f \in LaneRecord /\ LaneTruth(f, records[l]) /\ LaneMoves(r, l, f)
    <3>1. /\ f \in LaneRecord /\ f.at = at /\ f.ok = lane[r][l].ok
          /\ f.observed = lane[r][l].observed
      <4>1. lane[r][l] \in LaneRecord /\ at \in LanePhases
        BY <1>0, <2>1 DEF LanePhases
      <4> QED BY <4>1, LaneEdit
    <3>2. LaneTruth(f, records[l])
      BY <1>0, <1>9, <3>1 DEF SpawnLane, LaneTruth
    <3>3. lane' = [lane EXCEPT ![r] = [@ EXCEPT ![l] = f]]
      BY <1>0, <2>1
    <3> HIDE DEF f
    <3> QED BY <1>9, <3>1, <3>2, <3>3 DEF SpawnLane, LaneMoves
  <2>3. PapersGrow(l, records[l])
    BY <1>a, <1>9 DEF SpawnLane, PapersGrow
  <2> HIDE DEF f
  <2> QED BY <1>0, <2>2, <2>3, LaneMovesInv
<1>10. ASSUME NEW r \in Runs, NEW l \in Lanes, ChildEnds(r, l) PROVE CastRunInv'
  <2>1. PICK ok \in BOOLEAN :
          lane' = [lane EXCEPT ![r][l].at = "closing", ![r][l].ok = ok, ![r][l].active = {}]
    BY <1>10 DEF ChildEnds
  <2> DEFINE f == [lane[r][l] EXCEPT !.at = "closing", !.ok = ok, !.active = {}]
  <2>2. lane' = [lane EXCEPT ![r] = [@ EXCEPT ![l] = f]]
    BY <1>0, <2>1
  <2>3. f \in LaneRecord /\ LaneTruth(f, records[l])
    <3>1. /\ f \in LaneRecord /\ f.at = "closing" /\ f.observed = lane[r][l].observed
      <4>1. lane[r][l] \in LaneRecord /\ "closing" \in LanePhases /\ {} \in SUBSET Questions
        BY <1>0 DEF LanePhases
      <4> QED BY <4>1 DEF LaneRecord
    <3> QED BY <1>0, <3>1 DEF LaneTruth
  <2>4. PapersGrow(l, records[l])
    BY <1>a, <1>10 DEF ChildEnds, PapersGrow
  <2> HIDE DEF f
  <2>5. LaneMoves(r, l, f)
    BY <1>10, <2>2 DEF ChildEnds, LaneMoves
  <2> QED BY <1>0, <2>3, <2>4, <2>5, LaneMovesInv
<1>11. ASSUME NEW r \in Runs, NEW l \in Lanes, AcceptAnswer(r, l) PROVE CastRunInv'
  <2>1. PICK q \in lane[r][l].active \cap records[l].responses :
          records' = [records EXCEPT ![l].receipts = @ \cup {q}]
    BY <1>11 DEF AcceptAnswer
  <2> DEFINE f == [lane[r][l] EXCEPT !.active = {}]
             p == [records[l] EXCEPT !.receipts = @ \cup {q}]
  <2>2. lane' = [lane EXCEPT ![r] = [@ EXCEPT ![l] = f]]
    BY <1>0, <1>11 DEF AcceptAnswer
  <2>3. f \in LaneRecord /\ p \in Papers /\ LaneTruth(f, p)
    <3>1. /\ f \in LaneRecord /\ f.at = "running" /\ f.ok = lane[r][l].ok
          /\ f.observed = lane[r][l].observed
      <4>1. /\ lane[r][l] \in LaneRecord /\ lane[r][l].at = "running"
            /\ {} \in SUBSET Questions
        BY <1>0, <1>11 DEF AcceptAnswer
      <4> QED BY <4>1 DEF LaneRecord
    <3>2. q \in Questions
      BY <1>0, <2>1 DEF LaneRecord
    <3>3. p \in Papers /\ p.requests = records[l].requests
      BY <1>0, <3>2 DEF Papers
    <3> QED BY <1>0, <1>11, <3>1, <3>3 DEF LaneTruth, AcceptAnswer
  <2>4. PapersGrow(l, p)
    BY <1>0, <2>1 DEF PapersGrow, Papers
  <2> HIDE DEF f, p
  <2>5. LaneMoves(r, l, f)
    BY <1>11, <2>2 DEF AcceptAnswer, LaneMoves
  <2> QED BY <1>0, <2>3, <2>4, <2>5, LaneMovesInv
<1>12. ASSUME NEW r \in Runs, NEW l \in Lanes, LaneResolves(r, l) PROVE CastRunInv'
  <2>0. PICK blocked \in {Unresolved(l), Readable(l) # {}, FALSE} :
          lane' = [lane EXCEPT ![r][l].at = "resolved", ![r][l].blocked = blocked,
                               ![r][l].missed = Unresolved(l) /\ ~blocked]
    BY <1>12 DEF LaneResolves
  <2> DEFINE f == [lane[r][l] EXCEPT !.at = "resolved", !.blocked = blocked,
                                     !.missed = Unresolved(l) /\ ~blocked]
  <2>1. lane' = [lane EXCEPT ![r] = [@ EXCEPT ![l] = f]]
    BY <1>0, <2>0
  <2>2. blocked \in BOOLEAN /\ (Unresolved(l) /\ ~blocked) \in BOOLEAN
    BY DEF Unresolved
  <2>3. f \in LaneRecord
    <3>1. lane[r][l] \in LaneRecord /\ "resolved" \in LanePhases
      BY <1>0 DEF LanePhases
    <3> QED BY <2>2, <3>1 DEF LaneRecord
  <2>4. LaneTruth(f, records[l])
    <3>1. /\ f.at = "resolved" /\ f.observed = lane[r][l].observed
          /\ f.blocked = blocked /\ f.missed = (Unresolved(l) /\ ~blocked)
      BY <1>0 DEF LaneRecord
    <3> QED BY <1>0, <3>1 DEF LaneTruth, Unresolved, Readable
  <2>5. PapersGrow(l, records[l])
    BY <1>a, <1>12 DEF LaneResolves, PapersGrow
  <2> HIDE DEF f
  <2>6. LaneMoves(r, l, f)
    BY <1>12, <2>1 DEF LaneResolves, LaneMoves
  <2> QED BY <1>0, <2>3, <2>4, <2>5, <2>6, LaneMovesInv
<1>13. ASSUME NEW r \in Runs, NEW l \in Lanes, NEW q \in Questions, Ask(r, l, q)
       PROVE  CastRunInv'
  <2> DEFINE f == [lane[r][l] EXCEPT !.active = {q}, !.observed = @ \cup {q}]
             p == [records[l] EXCEPT !.requests = @ \cup {q}]
  <2>1. lane' = [lane EXCEPT ![r] = [@ EXCEPT ![l] = f]] /\ records' = [records EXCEPT ![l] = p]
    BY <1>0, <1>13 DEF Ask
  <2>2. f \in LaneRecord /\ p \in Papers /\ LaneTruth(f, p)
    <3>1. /\ f \in LaneRecord /\ f.at = "running" /\ f.ok = lane[r][l].ok
          /\ f.observed = lane[r][l].observed \cup {q}
      BY <1>0, <1>13 DEF Ask, LaneRecord
    <3>2. p \in Papers /\ p.requests = records[l].requests \cup {q}
      BY <1>0 DEF Papers
    <3> QED BY <1>0, <1>13, <3>1, <3>2 DEF LaneTruth, Ask
  <2>3. records[l].requests \subseteq p.requests /\ records[l].receipts \subseteq p.receipts
    BY <1>0 DEF Papers
  <2> HIDE DEF f, p
  <2>4. LaneMoves(r, l, f) /\ PapersGrow(l, p)
    BY <1>13, <2>1, <2>3 DEF Ask, LaneMoves, PapersGrow
  <2> QED BY <1>0, <2>2, <2>4, LaneMovesInv
<1>14. ASSUME NEW l \in Lanes, NEW q \in Questions, HumanAnswers(l, q) PROVE CastRunInv'
  <2>1. /\ records' \in [Lanes -> Papers]
        /\ \A m \in Lanes : /\ records'[m].requests = records[m].requests
                            /\ records'[m].receipts = records[m].receipts
    BY <1>0, <1>14 DEF HumanAnswers, Papers
  <2>2. UNCHANGED <<run, lane, result, done>>
    BY <1>14 DEF HumanAnswers
  <2> QED BY <2>1, <2>2 DEF CastRunInv, RunTypes, LaneInv, LaneTruth, RunInv, Earned
<1>15. CASE UNCHANGED runVars
  BY <1>15 DEF runVars, CastRunInv, RunTypes, LaneInv, LaneTruth, RunInv, Earned
<1> QED BY <1>1, <1>2, <1>3, <1>4, <1>5, <1>6, <1>7, <1>8, <1>9, <1>10, <1>11, <1>12, <1>13,
           <1>14, <1>15 DEF RunNext

(* What lanes say of their questions and what runs say of their lanes      *)
(* holds throughout, with several runs over the same root (organism-       *)
(* cast.ts).                                                               *)
THEOREM CastRunInvariance == RunSpec => []CastRunInv
  BY CastRunInitInv, CastRunStepInv, PTL DEF RunSpec

(* DONE belongs to the run whose result is on disk, which completed before *)
(* its deadline with every lane at exit 0 and, unless the disk kept an open *)
(* question from the reader, a receipt for every one it admits, also when  *)
(* another run overlapped, died or was refused.                            *)
THEOREM DoneEarned == RunSpec => []DoneIsEarned
<1>1. CastRunInv => DoneIsEarned
  BY DEF CastRunInv, RunTypes, RunInv, LaneInv, LaneTruth, Earned, DoneIsEarned
<1> QED BY <1>1, CastRunInvariance, PTL

(***************************************************************************)
(* CastSupervisor: one launch, told as it was.                             *)
(***************************************************************************)
Registering == {"save-registration", "save-packet", "save-lifecycle", "bind", "admit",
                "save-starting"}
Launching   == {"launch", "incomplete", "save-started"} \cup Finalizing
Starting    == {"start", "start-check", "unknown", "save-start-receipt", "started",
                "observe-started"} \cup Registering \cup Launching
Saving      == {"save-manifest", "save-prepared", "save-runtime", "save-receipt"}
Preparing   == {"prepare", "prepare-check", "prepared", "observe-prepare"} \cup Saving
Labels      == {"idle", "locking", "observe", "throwing", "observe-failure", "leaving", "done",
                "dead"} \cup Starting \cup Preparing

PrivateFiles ==
  [manifest : Manifests \cup {None}, prepared : Manifests \cup {None},
   prepareReceipt : Manifests \cup {None}, runtime : RuntimeStates \cup {None},
   registration : Inputs \cup {None}, packet : Inputs \cup {None},
   lifecycle : Inputs \cup {None}, startReceipt : StartRequests \cup {None}]

ArtifactNames == {"registration", "receipt", "lifecycle", "result"}

(* A prepare carries no input. *)
PrepareRequests == [manifest : Manifests, input : {None}]

Invocations ==
  [pc : Labels, op : {"prepare", "start", None},
   request : StartRequests \cup PrepareRequests \cup {None}, fault : Faults,
   seen : Observations \cup {None}, answer : Answers \cup {None}]

SupTypes ==
  /\ files \in PrivateFiles /\ observation \in Observations \cup {None}
  /\ artifacts \in [ArtifactNames -> Processes \cup {Nobody}]
  /\ lock \in [{"adapter", "prepare"} -> Processes \cup {Nobody}]
  /\ proc \in [Processes -> Invocations] /\ launches \in Nat

(* A process that is anywhere between its two locks holds the outer one.   *)
HoldOf(p) ==
  /\ (\/ proc[p].pc \in Starting \cup Preparing \cup {"observe", "observe-failure"}
      \/ proc[p].pc = "throwing" /\ proc[p].answer = "incomplete")
     => lock["adapter"] = p
  /\ proc[p].pc = "idle" => proc[p].answer = None /\ proc[p].seen = None
  /\ proc[p].pc \in Preparing => proc[p].request \in PrepareRequests
  /\ proc[p].pc \in Starting \cup {"observe"} => proc[p].request \in StartRequests
  /\ proc[p].pc = "locking" =>
       IF proc[p].op = "prepare" THEN proc[p].request \in PrepareRequests
       ELSE proc[p].request \in StartRequests
  /\ proc[p].pc \in {"locking", "observe"} \cup Starting \cup Preparing => proc[p].answer = None
  /\ proc[p].pc = "locking" => proc[p].seen = None

HoldInv == \A p \in Processes : HoldOf(p)

AllWritten == \A a \in ArtifactNames : artifacts[a] # Nobody

(* The private files f, whoever holds the lock. *)
FilesOk(f) ==
  /\ f.prepareReceipt # None =>
       /\ f.manifest = f.prepareReceipt /\ f.prepared = f.prepareReceipt
       /\ f.runtime # None /\ f.runtime.manifest = f.prepareReceipt
  /\ f.prepareReceipt = None =>
       /\ launches = 0 /\ f.startReceipt = None
       /\ f.runtime # None => f.runtime.key = None /\ f.runtime.phase = "prepared"
  /\ launches <= 1
  /\ f.runtime # None /\ f.runtime.phase = "prepared" => launches = 0
  /\ f.runtime # None /\ f.runtime.key # None =>
       /\ f.manifest = f.runtime.key.manifest
       /\ f.registration = f.runtime.key.input /\ f.lifecycle = f.runtime.key.input
       /\ Organum => f.packet = f.runtime.key.input
  /\ f.startReceipt # None =>
       /\ f.runtime.phase = "started" /\ f.runtime.key = f.startReceipt
       /\ launches = 1 /\ AllWritten

(* An observation o beside the private files f. *)
TruthIn(f, o) ==
  /\ f.prepareReceipt # None
  /\ o.phase = "started" => f.runtime.phase = "started" /\ f.startReceipt # None
  /\ o.phase = "incomplete" => f.runtime.phase \in {"starting", "incomplete"}
  /\ o.attempts <= launches
  /\ o.result # Nobody => artifacts["result"] = o.result

ObservationInv ==
  observation # None =>
    TruthIn(files, observation) /\ (observation.emitted => observation.phase = "started")

ReceiptInv ==
  \A p \in Processes : proc[p].answer = "receipt" =>
    files.startReceipt # None /\ files.startReceipt = proc[p].request

(* What the holder of the outer lock has seen ... *)
SeenOk(f, o) ==
  o # None => TruthIn(f, o) /\ ~o.emitted /\ observation # None

(* ... and how far it is, at label pc over the files f, for the request r. *)
PrepareAt(f, pc, r) ==
  /\ pc \in Saving => f.prepareReceipt = None
  /\ pc \in {"save-prepared", "save-runtime", "save-receipt"} => f.manifest = r.manifest
  /\ pc \in {"save-runtime", "save-receipt"} => f.prepared = r.manifest
  /\ pc = "save-receipt" => f.runtime # None /\ f.runtime.manifest = r.manifest
  /\ pc \in {"prepared", "observe-prepare"} => f.prepareReceipt # None

StartAt(f, pc, r) ==
  /\ pc \in Registering \cup Launching => f.prepareReceipt = r.manifest
  /\ pc \in Registering =>
       f.runtime.phase = "prepared" /\ (f.runtime.key = None \/ f.runtime.key = r)
  /\ pc \in {"save-packet", "save-lifecycle", "bind"} => f.registration = r.input
  /\ pc \in {"save-lifecycle", "bind"} => (Organum => f.packet = r.input)
  /\ pc = "bind" => f.lifecycle = r.input
  /\ pc \in {"admit", "save-starting", "save-start-receipt"} \cup Launching => f.runtime.key = r
  /\ pc \in Launching => f.runtime.phase = "starting"
  /\ pc = "unknown" => f.prepareReceipt # None /\ f.runtime.phase = "incomplete"
  /\ pc = "save-start-receipt" => f.prepareReceipt # None /\ f.runtime.phase = "started"
  /\ pc \in {"started", "observe-started"} => f.startReceipt = r

LaunchAt(pc) ==
  /\ pc = "launch" => launches = 0
  /\ pc \in (Launching \ {"launch"}) \cup {"save-start-receipt"} => launches = 1
  /\ pc \in {"final-2", "final-3", "final-4"} => artifacts["registration"] # Nobody
  /\ pc \in {"final-3", "final-4"} => artifacts["receipt"] # Nobody
  /\ pc = "final-4" => artifacts["lifecycle"] # Nobody
  /\ pc \in {"save-started", "save-start-receipt"} => AllWritten

SeenAt(pc, o) ==
  /\ pc \in Starting \cup {"observe-failure"} => o # None
  /\ pc \in Registering \cup Launching => o.phase = "prepared" /\ observation.phase = "prepared"

ThrownAt(f, pc, answer) ==
  /\ pc \in {"throwing", "observe-failure"} /\ answer = "incomplete" =>
       f.runtime.phase \in {"starting", "incomplete"} 

StageAt(f, pc, p) ==
  /\ PrepareAt(f, pc, proc[p].request) /\ StartAt(f, pc, proc[p].request) /\ LaunchAt(pc)
  /\ SeenAt(pc, proc[p].seen) /\ SeenOk(f, proc[p].seen)

HolderOf(p) ==
  StageAt(files, proc[p].pc, p) /\ ThrownAt(files, proc[p].pc, proc[p].answer)

HolderInv == \A p \in Processes : lock["adapter"] = p => HolderOf(p)

SupInv ==
  SupTypes /\ HoldInv /\ FilesOk(files) /\ ObservationInv /\ ReceiptInv /\ HolderInv

LEMMA SupInitInv == SupInit => SupInv
<1> SUFFICES ASSUME SupInit PROVE SupInv
  OBVIOUS
<1>1. SupTypes
  <2>1. files \in PrivateFiles
    BY DEF SupInit, NoState, PrivateFiles
  <2>2. artifacts \in [ArtifactNames -> Processes \cup {Nobody}]
    <3>1. {Artifacts[i] : i \in 1 .. 4} = ArtifactNames
      <4>1. 1 .. 4 = {1, 2, 3, 4}
        OBVIOUS
      <4>2. /\ Artifacts[1] = "registration" /\ Artifacts[2] = "receipt"
            /\ Artifacts[3] = "lifecycle" /\ Artifacts[4] = "result"
        BY DEF Artifacts
      <4> QED BY <4>1, <4>2 DEF ArtifactNames
    <3> QED BY <3>1 DEF SupInit
  <2>3. proc \in [Processes -> Invocations]
    <3>1. [pc |-> "idle", op |-> None, request |-> None, fault |-> "none", seen |-> None,
           answer |-> None] \in Invocations
      BY DEF Invocations, Faults, Labels
    <3> QED BY <3>1 DEF SupInit
  <2> QED BY <2>1, <2>2, <2>3 DEF SupInit, SupTypes
<1>2. HoldInv /\ HolderInv /\ ReceiptInv
  BY NobodyIsNoProcess, NoneIsNothing
  DEF SupInit, HoldInv, HoldOf, HolderInv, ReceiptInv, Starting, Preparing, Registering,
      Launching, Saving, Finalizing, Answers
<1>3. FilesOk(files) /\ ObservationInv
  BY DEF SupInit, NoState, FilesOk, ObservationInv
<1> QED BY <1>1, <1>2, <1>3 DEF SupInv

(* Only process p moves. *)
Only(p) == \A q \in Processes \ {p} : proc'[q] = proc[q]

Keeps(p) ==
  /\ proc' \in [Processes -> Invocations] /\ Only(p)
  /\ proc'[p].request = proc[p].request /\ proc'[p].seen = proc[p].seen
  /\ proc'[p].op = proc[p].op

(* What Goto and Throw change of a process.                                *)
LEMMA GotoEdit ==
  ASSUME proc \in [Processes -> Invocations], NEW p \in Processes, NEW l \in Labels, Goto(p, l)
  PROVE  Keeps(p) /\ proc'[p].pc = l /\ proc'[p].answer = proc[p].answer
  BY DEF Goto, Keeps, Only, Invocations

LEMMA ThrowEdit ==
  ASSUME proc \in [Processes -> Invocations], NEW p \in Processes, NEW w \in Answers, Throw(p, w)
  PROVE  Keeps(p) /\ proc'[p].pc = "throwing" /\ proc'[p].answer = w
<1>1. proc' = [proc EXCEPT ![p] = [proc[p] EXCEPT !.pc = "throwing", !.answer = w]]
  BY DEF Throw
<1> DEFINE thrown == [proc[p] EXCEPT !.pc = "throwing", !.answer = w]
<1>2. /\ thrown \in Invocations /\ thrown.pc = "throwing" /\ thrown.answer = w
      /\ thrown.request = proc[p].request /\ thrown.seen = proc[p].seen
      /\ thrown.op = proc[p].op
  BY DEF Invocations, Labels
<1>3. proc'[p] = thrown
  BY <1>1
<1>4. proc' \in [Processes -> Invocations] /\ Only(p)
  BY <1>1, <1>2 DEF Only
<1> QED BY <1>2, <1>3, <1>4 DEF Keeps

(* The step of one process: what others rely on only its holder changes.   *)
LEMMA OneMoves ==
  ASSUME SupInv, NEW p \in Processes, SupTypes', Only(p),
         lock["adapter"] = p \/ UNCHANGED <<files, observation, artifacts, launches>>,
         lock'["adapter"] \in {lock["adapter"], p, Nobody},
         lock'["adapter"] # lock["adapter"] => lock["adapter"] \in {Nobody, p},
         HoldOf(p)', FilesOk(files)', ObservationInv',
         proc'[p].answer = "receipt" =>
           files'.startReceipt # None /\ files'.startReceipt = proc'[p].request,
         files.startReceipt # None => files'.startReceipt = files.startReceipt,
         lock'["adapter"] = p => HolderOf(p)'
  PROVE  SupInv'
<1>1. HoldInv'
  <2>1. ASSUME NEW q \in Processes \ {p} PROVE HoldOf(q)'
    <3>1. HoldOf(q) /\ proc'[q] = proc[q]
      BY DEF SupInv, HoldInv, Only
    <3>2. lock["adapter"] = q => lock'["adapter"] = q
      BY NobodyIsNoProcess
    <3> QED BY <3>1, <3>2 DEF HoldOf
  <2> QED BY <2>1 DEF HoldInv
<1>2. ReceiptInv'
  BY DEF SupInv, ReceiptInv, Only
<1>3. HolderInv'
  <2>1. ASSUME NEW q \in Processes \ {p}, lock'["adapter"] = q PROVE HolderOf(q)'
    <3>1. lock["adapter"] = q
      BY <2>1, NobodyIsNoProcess
    <3>2. UNCHANGED <<files, observation, artifacts, launches>> /\ proc'[q] = proc[q]
      BY <3>1 DEF Only
    <3>3. HolderOf(q)
      BY <3>1 DEF SupInv, HolderInv
    <3> QED BY <3>2, <3>3
            DEF HolderOf, StageAt, ThrownAt, PrepareAt, StartAt, LaunchAt, SeenAt, SeenOk,
                TruthIn, AllWritten
  <2> QED BY <2>1 DEF HolderInv
<1> QED BY <1>1, <1>2, <1>3 DEF SupInv

(* A step that changes its process, and the locks, alone. *)
LEMMA OneDecides ==
  ASSUME SupInv, NEW p \in Processes, Only(p), proc' \in [Processes -> Invocations],
         UNCHANGED <<files, observation, artifacts, launches>>,
         lock' \in [{"adapter", "prepare"} -> Processes \cup {Nobody}],
         lock'["adapter"] \in {lock["adapter"], p, Nobody},
         lock'["adapter"] # lock["adapter"] => lock["adapter"] \in {Nobody, p},
         HoldOf(p)',
         proc'[p].answer = "receipt" =>
           files.startReceipt # None /\ files.startReceipt = proc'[p].request,
         lock'["adapter"] = p => HolderOf(p)'
  PROVE  SupInv'
<1>1. SupTypes'
  BY DEF SupInv, SupTypes
<1>2. FilesOk(files)' /\ ObservationInv'
  BY DEF SupInv, FilesOk, ObservationInv, TruthIn, AllWritten
<1> QED BY <1>1, <1>2, OneMoves

(* A write of the private files that may fail.                             *)
WritePhases ==
  Saving \cup Registering \cup {"incomplete", "save-started", "save-start-receipt"}

LEMMA OneWrites ==
  ASSUME SupInv, NEW p \in Processes, proc[p].pc \in WritePhases,
         NEW file, NEW v, NEW l \in Labels, Write(p, file, v, l),
         NEW g \in PrivateFiles, g = [files EXCEPT ![file] = v],
         FilesOk(g),
         observation # None => TruthIn(g, observation),
         proc[p].seen # None => TruthIn(g, proc[p].seen),
         files.startReceipt # None => g.startReceipt = files.startReceipt,
         proc[p].pc \in Preparing => l \in Preparing,
         proc[p].pc \in Starting => l \in Starting,
         StageAt(g, l, p)
  PROVE  SupInv'
<1> USE DEF WritePhases
<1>1. UNCHANGED <<observation, artifacts, lock, launches>>
  BY DEF Write
<1>2. /\ lock["adapter"] = p /\ SeenOk(files, proc[p].seen) /\ proc[p].answer = None
      /\ proc[p].pc \in Preparing \/ proc[p].pc \in Starting
      /\ proc[p].pc \in Preparing => proc[p].request \in PrepareRequests
      /\ proc[p].pc \in Starting => proc[p].request \in StartRequests
  BY DEF SupInv, HoldInv, HoldOf, HolderInv, HolderOf, StageAt, Starting, Launching,
         Preparing
<1>3. proc \in [Processes -> Invocations] /\ files \in PrivateFiles
  BY DEF SupInv, SupTypes
<1>4. \/ files' = g /\ Goto(p, l)
      \/ files' \in {files, g} /\ Throw(p, "failed")
  BY DEF Write
<1>5. FilesOk(files)' /\ ObservationInv' /\ files' \in PrivateFiles
  <2>1. CASE files' = g
    BY <1>1, <2>1 DEF FilesOk, TruthIn, ObservationInv, AllWritten, SupInv
  <2>2. CASE files' = files
    BY <1>1, <1>3, <2>2 DEF FilesOk, TruthIn, ObservationInv, AllWritten, SupInv
  <2> QED BY <1>4, <2>1, <2>2
<1>6. SeenOk(files', proc[p].seen)
  BY <1>2, <1>4 DEF SeenOk
<1>7. CASE files' = g /\ Goto(p, l)
  <2>1. Keeps(p) /\ proc'[p].pc = l /\ proc'[p].answer = None
    BY <1>2, <1>3, <1>7, GotoEdit
  <2>2. HoldOf(p)'
    <3>1. l \in Preparing \/ l \in Starting
      BY <1>2
    <3>2. l \notin {"idle", "locking", "observe"}
      BY <3>1 DEF Preparing, Starting, Saving, Registering, Launching, Finalizing
    <3>3. /\ l \in Preparing => l \notin Starting /\ proc[p].pc \in Preparing
          /\ l \in Starting => l \notin Preparing /\ proc[p].pc \in Starting
      BY <1>2 DEF Preparing, Starting, Saving, Registering, Launching, Finalizing
    <3> QED BY <1>1, <1>2, <2>1, <3>2, <3>3 DEF HoldOf, Keeps
  <2>3. HolderOf(p)'
    <3>1. StageAt(files, proc[p].pc, p)'
      BY <1>1, <1>7, <2>1
      DEF Keeps, StageAt, PrepareAt, StartAt, LaunchAt, SeenAt, SeenOk, TruthIn, AllWritten
    <3>2. ThrownAt(files, proc[p].pc, proc[p].answer)'
      BY <2>1, NoneIsNothing DEF ThrownAt, Answers
    <3> QED BY <3>1, <3>2 DEF HolderOf
  <2>4. SupTypes'
    BY <1>1, <1>5, <2>1 DEF SupInv, SupTypes, Keeps
  <2>5. proc'[p].answer # "receipt"
    BY <2>1, NoneIsNothing DEF Answers
  <2> QED BY <1>1, <1>2, <1>5, <1>7, <2>1, <2>2, <2>3, <2>4, <2>5, OneMoves DEF Keeps
<1>8. CASE files' \in {files, g} /\ Throw(p, "failed")
  <2>1. Keeps(p) /\ proc'[p].pc = "throwing" /\ proc'[p].answer = "failed"
    BY <1>3, <1>8, ThrowEdit DEF Answers
  <2>2. HoldOf(p)'
    BY <2>1
    DEF HoldOf, Starting, Preparing, Saving, Registering, Launching, Finalizing
  <2>3. HolderOf(p)'
    BY <1>1, <1>6, <2>1
    DEF Keeps, HolderOf, ThrownAt, StageAt, PrepareAt, StartAt, LaunchAt, SeenAt, SeenOk,
        TruthIn, Starting, Preparing, Saving, Registering, Launching, Finalizing, AllWritten
  <2>4. SupTypes'
    BY <1>1, <1>5, <2>1 DEF SupInv, SupTypes, Keeps
  <2> QED BY <1>1, <1>2, <1>5, <1>8, <2>1, <2>2, <2>3, <2>4, OneMoves DEF Keeps
<1> QED BY <1>4, <1>7, <1>8

(* What the invariant says of one process. *)
LEMMA OfOne ==
  ASSUME SupInv, NEW p \in Processes
  PROVE  /\ proc \in [Processes -> Invocations] /\ proc[p] \in Invocations
         /\ files \in PrivateFiles /\ FilesOk(files) /\ ObservationInv
         /\ lock \in [{"adapter", "prepare"} -> Processes \cup {Nobody}]
         /\ HoldOf(p) /\ (lock["adapter"] = p => HolderOf(p))
         /\ proc[p].answer = "receipt" =>
              files.startReceipt # None /\ files.startReceipt = proc[p].request
  BY DEF SupInv, SupTypes, HoldInv, HolderInv, ReceiptInv

USE NoneIsNothing, NobodyIsNoProcess
    DEF Starting, Preparing, Saving, Registering, Launching, Finalizing, Labels

(* The steps that change their process, and the locks, alone.              *)
LEMMA BeginPrepareStep ==
  ASSUME SupInv, NEW p \in Processes, NEW m \in Manifests, BeginPrepare(p, m)
  PROVE  SupInv'
<1> USE DEF Decides
<1>0. /\ proc \in [Processes -> Invocations] /\ proc[p] \in Invocations
      /\ lock \in [{"adapter", "prepare"} -> Processes \cup {Nobody}]
  BY OfOne
<1>1. /\ Only(p) /\ proc' \in [Processes -> Invocations] /\ lock' = lock
      /\ proc'[p].pc = "locking" /\ proc'[p].op = "prepare"
      /\ proc'[p].request \in PrepareRequests /\ proc'[p].answer = None
      /\ proc'[p].seen = None
  <2> DEFINE q == [proc[p] EXCEPT !.pc = "locking", !.op = "prepare",
                                  !.request = [manifest |-> m, input |-> None]]
  <2>1. q \in Invocations
    BY <1>0 DEF Invocations, PrepareRequests
  <2>2. proc' = [proc EXCEPT ![p] = q]
    BY DEF BeginPrepare
  <2>3. q.answer = None /\ q.seen = None
    BY OfOne, <1>0 DEF BeginPrepare, HoldOf, Invocations
  <2>4. q.pc = "locking" /\ q.op = "prepare" /\ q.request \in PrepareRequests
    BY <1>0 DEF Invocations, PrepareRequests
  <2>5. proc'[p] = q /\ Only(p) /\ proc' \in [Processes -> Invocations]
    BY <1>0, <2>1, <2>2 DEF Only
  <2> QED BY <2>3, <2>4, <2>5 DEF BeginPrepare
<1>2. UNCHANGED <<files, observation, artifacts, launches>>
  BY DEF BeginPrepare
<1>3. HoldOf(p)'
  BY OfOne, <1>0, <1>1, <1>2 DEF HoldOf, Keeps, Answers
<1>4. ASSUME lock'["adapter"] = p PROVE HolderOf(p)'
  BY OfOne, <1>0, <1>1, <1>2, <1>4
  DEF HolderOf, StageAt, ThrownAt, PrepareAt, StartAt, LaunchAt, SeenAt, SeenOk, TruthIn,
      AllWritten, HoldOf, Keeps, Answers
<1>5. proc'[p].answer = "receipt" =>
        files.startReceipt # None /\ files.startReceipt = proc'[p].request
  BY OfOne, <1>0, <1>1 DEF Keeps, Answers, HoldOf
<1> QED BY <1>0, <1>1, <1>2, <1>3, <1>4, <1>5, OneDecides DEF Keeps

LEMMA BeginStartStep ==
  ASSUME SupInv, NEW p \in Processes, NEW r \in StartRequests, NEW f \in Faults, BeginStart(p, r, f)
  PROVE  SupInv'
<1> USE DEF Decides
<1>0. /\ proc \in [Processes -> Invocations] /\ proc[p] \in Invocations
      /\ lock \in [{"adapter", "prepare"} -> Processes \cup {Nobody}]
  BY OfOne
<1>1. /\ Only(p) /\ proc' \in [Processes -> Invocations] /\ lock' = lock
      /\ proc'[p].pc = "locking" /\ proc'[p].op = "start"
      /\ proc'[p].request \in StartRequests /\ proc'[p].answer = None
      /\ proc'[p].seen = None
  <2> DEFINE q == [proc[p] EXCEPT !.pc = "locking", !.op = "start", !.request = r, !.fault = f]
  <2>1. q \in Invocations
    BY <1>0 DEF Invocations
  <2>2. proc' = [proc EXCEPT ![p] = q]
    BY DEF BeginStart
  <2>3. q.answer = None /\ q.seen = None
    BY OfOne, <1>0 DEF BeginStart, HoldOf, Invocations
  <2>4. q.pc = "locking" /\ q.op = "start" /\ q.request \in StartRequests
    BY <1>0 DEF Invocations
  <2>5. proc'[p] = q /\ Only(p) /\ proc' \in [Processes -> Invocations]
    BY <1>0, <2>1, <2>2 DEF Only
  <2> QED BY <2>3, <2>4, <2>5 DEF BeginStart
<1>2. UNCHANGED <<files, observation, artifacts, launches>>
  BY DEF BeginStart
<1>3. HoldOf(p)'
  BY OfOne, <1>0, <1>1, <1>2 DEF HoldOf, Keeps, Answers
<1>4. ASSUME lock'["adapter"] = p PROVE HolderOf(p)'
  BY OfOne, <1>0, <1>1, <1>2, <1>4
  DEF HolderOf, StageAt, ThrownAt, PrepareAt, StartAt, LaunchAt, SeenAt, SeenOk, TruthIn,
      AllWritten, HoldOf, Keeps, Answers
<1>5. proc'[p].answer = "receipt" =>
        files.startReceipt # None /\ files.startReceipt = proc'[p].request
  BY OfOne, <1>0, <1>1 DEF Keeps, Answers, HoldOf
<1> QED BY <1>0, <1>1, <1>2, <1>3, <1>4, <1>5, OneDecides DEF Keeps

LEMMA LockAdapterStep ==
  ASSUME SupInv, NEW p \in Processes, LockAdapter(p)
  PROVE  SupInv'
<1> USE DEF Decides
<1>0. /\ proc \in [Processes -> Invocations] /\ proc[p] \in Invocations
      /\ lock \in [{"adapter", "prepare"} -> Processes \cup {Nobody}]
  BY OfOne
<1>1. /\ Keeps(p) /\ proc[p].pc = "locking" /\ lock["adapter"] = Nobody
      /\ proc'[p].pc = (IF proc[p].op = "prepare" THEN "prepare" ELSE "observe")
      /\ proc'[p].answer = proc[p].answer /\ lock' = [lock EXCEPT !["adapter"] = p]
  BY <1>0, GotoEdit DEF LockAdapter, Acquire
<1>2. UNCHANGED <<files, observation, artifacts, launches>>
  BY DEF LockAdapter, Acquire
<1>3. HoldOf(p)'
  BY OfOne, <1>0, <1>1, <1>2 DEF HoldOf, Keeps, Answers
<1>4. ASSUME lock'["adapter"] = p PROVE HolderOf(p)'
  BY OfOne, <1>0, <1>1, <1>2, <1>4
  DEF HolderOf, StageAt, ThrownAt, PrepareAt, StartAt, LaunchAt, SeenAt, SeenOk, TruthIn,
      AllWritten, HoldOf, Keeps, Answers
<1>5. proc'[p].answer = "receipt" =>
        files.startReceipt # None /\ files.startReceipt = proc'[p].request
  BY OfOne, <1>0, <1>1 DEF Keeps, Answers, HoldOf
<1> QED BY <1>0, <1>1, <1>2, <1>3, <1>4, <1>5, OneDecides DEF Keeps

LEMMA LockRunStep ==
  ASSUME SupInv, NEW p \in Processes, LockRun(p)
  PROVE  SupInv'
<1> USE DEF Decides
<1>0. /\ proc \in [Processes -> Invocations] /\ proc[p] \in Invocations
      /\ lock \in [{"adapter", "prepare"} -> Processes \cup {Nobody}]
  BY OfOne
<1>1. /\ Keeps(p) /\ lock' = [lock EXCEPT !["prepare"] = p]
      /\ proc'[p].answer = proc[p].answer
      /\ \/ proc[p].pc = "prepare" /\ proc'[p].pc = "prepare-check"
         \/ proc[p].pc = "start" /\ proc'[p].pc = "start-check"
  BY <1>0, GotoEdit DEF LockRun, Acquire
<1>2. UNCHANGED <<files, observation, artifacts, launches>>
  BY DEF LockRun, Acquire
<1>3. HoldOf(p)'
  BY OfOne, <1>0, <1>1, <1>2 DEF HoldOf, Keeps, Answers
<1>4. ASSUME lock'["adapter"] = p PROVE HolderOf(p)'
  BY OfOne, <1>0, <1>1, <1>2, <1>4
  DEF HolderOf, StageAt, ThrownAt, PrepareAt, StartAt, LaunchAt, SeenAt, SeenOk, TruthIn,
      AllWritten, HoldOf, Keeps, Answers
<1>5. proc'[p].answer = "receipt" =>
        files.startReceipt # None /\ files.startReceipt = proc'[p].request
  BY OfOne, <1>0, <1>1 DEF Keeps, Answers, HoldOf
<1> QED BY <1>0, <1>1, <1>2, <1>3, <1>4, <1>5, OneDecides DEF Keeps

LEMMA GiveUpStep ==
  ASSUME SupInv, NEW p \in Processes, GiveUp(p)
  PROVE  SupInv'
<1> USE DEF Decides
<1>0. /\ proc \in [Processes -> Invocations] /\ proc[p] \in Invocations
      /\ lock \in [{"adapter", "prepare"} -> Processes \cup {Nobody}]
  BY OfOne
<1>1. /\ Keeps(p) /\ lock' = lock /\ proc'[p].pc = "throwing" /\ proc'[p].answer = "failed"
  BY <1>0, ThrowEdit DEF GiveUp, LockTimesOut, Answers
<1>2. UNCHANGED <<files, observation, artifacts, launches>>
  BY DEF GiveUp, LockTimesOut
<1>3. HoldOf(p)'
  BY OfOne, <1>0, <1>1, <1>2 DEF HoldOf, Keeps, Answers
<1>4. ASSUME lock'["adapter"] = p PROVE HolderOf(p)'
  BY OfOne, <1>0, <1>1, <1>2, <1>4
  DEF HolderOf, StageAt, ThrownAt, PrepareAt, StartAt, LaunchAt, SeenAt, SeenOk, TruthIn,
      AllWritten, HoldOf, Keeps, Answers
<1>5. proc'[p].answer = "receipt" =>
        files.startReceipt # None /\ files.startReceipt = proc'[p].request
  BY OfOne, <1>0, <1>1 DEF Keeps, Answers, HoldOf
<1> QED BY <1>0, <1>1, <1>2, <1>3, <1>4, <1>5, OneDecides DEF Keeps

LEMMA CheckPreparedStep ==
  ASSUME SupInv, NEW p \in Processes, CheckPrepared(p)
  PROVE  SupInv'
<1> USE DEF Decides
<1>0. /\ proc \in [Processes -> Invocations] /\ proc[p] \in Invocations
      /\ lock \in [{"adapter", "prepare"} -> Processes \cup {Nobody}]
  BY OfOne
<1>1. /\ Keeps(p) /\ lock' = lock /\ proc[p].pc = "prepare-check"
      /\ \/ /\ files.prepareReceipt = None /\ proc'[p].pc = "save-manifest"
            /\ proc'[p].answer = proc[p].answer
         \/ /\ files.prepareReceipt = Mine(p) /\ proc'[p].pc = "prepared"
            /\ files.prepareReceipt # None /\ proc'[p].answer = proc[p].answer
         \/ proc'[p].pc = "throwing" /\ proc'[p].answer = "failed"
  <2>1. Mine(p) # None /\ proc[p].pc = "prepare-check" /\ lock' = lock
    BY OfOne, <1>0 DEF HoldOf, PrepareRequests, Mine, CheckPrepared
  <2>2. CASE files.prepareReceipt = None
    <3>1. Goto(p, "save-manifest")
      BY <2>1, <2>2 DEF CheckPrepared
    <3> QED BY <1>0, <2>1, <2>2, <3>1, GotoEdit
  <2>3. CASE files.prepareReceipt = Mine(p)
    <3>1. Goto(p, "prepared")
      BY <2>1, <2>3 DEF CheckPrepared
    <3> QED BY <1>0, <2>1, <2>3, <3>1, GotoEdit
  <2>4. CASE files.prepareReceipt \notin {None, Mine(p)}
    <3>1. Throw(p, "failed")
      BY <2>1, <2>4 DEF CheckPrepared
    <3> QED BY <1>0, <2>1, <3>1, ThrowEdit DEF Answers
  <2> QED BY <2>2, <2>3, <2>4
<1>2. UNCHANGED <<files, observation, artifacts, launches>>
  BY DEF CheckPrepared
<1>3. HoldOf(p)'
  BY OfOne, <1>0, <1>1, <1>2 DEF HoldOf, Keeps, Answers
<1>4. ASSUME lock'["adapter"] = p PROVE HolderOf(p)'
  BY OfOne, <1>0, <1>1, <1>2, <1>4
  DEF HolderOf, StageAt, ThrownAt, PrepareAt, StartAt, LaunchAt, SeenAt, SeenOk, TruthIn,
      AllWritten, HoldOf, Keeps, Answers
<1>5. proc'[p].answer = "receipt" =>
        files.startReceipt # None /\ files.startReceipt = proc'[p].request
  BY OfOne, <1>0, <1>1 DEF Keeps, Answers, HoldOf
<1> QED BY <1>0, <1>1, <1>2, <1>3, <1>4, <1>5, OneDecides DEF Keeps

LEMMA PrepareReturnsStep ==
  ASSUME SupInv, NEW p \in Processes, PrepareReturns(p)
  PROVE  SupInv'
<1> USE DEF Decides
<1>0. /\ proc \in [Processes -> Invocations] /\ proc[p] \in Invocations
      /\ lock \in [{"adapter", "prepare"} -> Processes \cup {Nobody}]
  BY OfOne
<1>1. /\ Keeps(p) /\ lock' = [lock EXCEPT !["prepare"] = Nobody] /\ proc[p].pc = "prepared"
      /\ proc'[p].pc = "observe-prepare" /\ proc'[p].answer = proc[p].answer
  BY <1>0, GotoEdit DEF PrepareReturns, Release
<1>2. UNCHANGED <<files, observation, artifacts, launches>>
  BY DEF PrepareReturns
<1>3. HoldOf(p)'
  BY OfOne, <1>0, <1>1, <1>2 DEF HoldOf, Keeps, Answers
<1>4. ASSUME lock'["adapter"] = p PROVE HolderOf(p)'
  BY OfOne, <1>0, <1>1, <1>2, <1>4
  DEF HolderOf, StageAt, ThrownAt, PrepareAt, StartAt, LaunchAt, SeenAt, SeenOk, TruthIn,
      AllWritten, HoldOf, Keeps, Answers
<1>5. proc'[p].answer = "receipt" =>
        files.startReceipt # None /\ files.startReceipt = proc'[p].request
  BY OfOne, <1>0, <1>1 DEF Keeps, Answers, HoldOf
<1> QED BY <1>0, <1>1, <1>2, <1>3, <1>4, <1>5, OneDecides DEF Keeps

LEMMA ObserveStep ==
  ASSUME SupInv, NEW p \in Processes, Observe(p)
  PROVE  SupInv'
<1> USE DEF Decides
<1>0. /\ proc \in [Processes -> Invocations] /\ proc[p] \in Invocations
      /\ lock \in [{"adapter", "prepare"} -> Processes \cup {Nobody}]
  BY OfOne
<1>1. /\ Only(p) /\ proc' \in [Processes -> Invocations] /\ lock' = lock
      /\ proc[p].pc = "observe" /\ proc'[p].request = proc[p].request
      /\ \/ /\ proc'[p].pc = "throwing" /\ proc'[p].answer = "failed"
            /\ proc'[p].seen = proc[p].seen
         \/ /\ proc'[p].pc = "start" /\ proc'[p].answer = proc[p].answer
            /\ observation # None
            /\ proc'[p].seen = [observation EXCEPT !.emitted = FALSE]
  <2>1. CASE observation = None /\ Throw(p, "failed")
    BY <1>0, <2>1, ThrowEdit DEF Observe, Keeps, Answers
  <2>2. CASE observation # None
    <3> DEFINE q == [proc[p] EXCEPT !.pc = "start", !.seen = [observation EXCEPT !.emitted = FALSE]]
    <3>1. [observation EXCEPT !.emitted = FALSE] \in Observations
      BY <2>2 DEF SupInv, SupTypes, Observations
    <3>2. q \in Invocations
      BY <1>0, <3>1 DEF Invocations
    <3>3. proc' = [proc EXCEPT ![p] = q] /\ lock' = lock
      BY <2>2 DEF Observe
    <3>4. /\ q.pc = "start" /\ q.answer = proc[p].answer /\ q.request = proc[p].request
          /\ q.seen = [observation EXCEPT !.emitted = FALSE]
      BY <1>0 DEF Invocations
    <3>5. proc'[p] = q /\ Only(p) /\ proc' \in [Processes -> Invocations]
      BY <1>0, <3>2, <3>3 DEF Only
    <3> QED BY <2>2, <3>3, <3>4, <3>5 DEF Observe
  <2> QED BY <2>1, <2>2 DEF Observe
<1>2. UNCHANGED <<files, observation, artifacts, launches>>
  BY DEF Observe
<1>3. HoldOf(p)'
  BY OfOne, <1>0, <1>1, <1>2 DEF HoldOf, Keeps, Answers
<1>4. ASSUME lock'["adapter"] = p PROVE HolderOf(p)'
  <2>1. CASE proc'[p].pc = "throwing"
    BY OfOne, <1>0, <1>1, <1>2, <1>4, <2>1
    DEF HolderOf, StageAt, ThrownAt, PrepareAt, StartAt, LaunchAt, SeenAt, SeenOk, TruthIn,
        AllWritten, HoldOf, Answers
  <2>2. CASE proc'[p].pc = "start"
    <3>1. observation # None /\ proc'[p].seen = [observation EXCEPT !.emitted = FALSE]
      BY <1>1, <2>2
    <3>2. observation \in Observations
      BY <3>1 DEF SupInv, SupTypes
    <3>3. /\ proc'[p].seen.phase = observation.phase /\ ~proc'[p].seen.emitted
          /\ proc'[p].seen.attempts = observation.attempts
          /\ proc'[p].seen.result = observation.result /\ proc'[p].seen \in Observations
      BY <3>1, <3>2 DEF Observations
    <3>4. TruthIn(files, proc[p].seen)' /\ observation' # None /\ proc'[p].seen # None
      BY OfOne, <1>2, <3>1, <3>3 DEF ObservationInv, TruthIn
    <3> QED BY <2>2, <3>3, <3>4
            DEF HolderOf, StageAt, ThrownAt, PrepareAt, StartAt, LaunchAt, SeenAt, SeenOk
  <2> QED BY <1>1, <2>1, <2>2
<1>5. proc'[p].answer = "receipt" =>
        files.startReceipt # None /\ files.startReceipt = proc'[p].request
  BY OfOne, <1>0, <1>1 DEF Keeps, Answers, HoldOf
<1> QED BY <1>0, <1>1, <1>2, <1>3, <1>4, <1>5, OneDecides DEF Keeps

LEMMA CheckStartStep ==
  ASSUME SupInv, NEW p \in Processes, CheckStart(p)
  PROVE  SupInv'
<1> USE DEF Decides
<1>0. /\ proc \in [Processes -> Invocations] /\ proc[p] \in Invocations
      /\ lock \in [{"adapter", "prepare"} -> Processes \cup {Nobody}]
  BY OfOne
<1>1. /\ Keeps(p) /\ lock' = lock /\ proc[p].pc = "start-check"
      /\ \/ /\ files.prepareReceipt = Mine(p) /\ files.startReceipt = Request(p)
            /\ proc'[p].pc = "started" /\ proc'[p].answer = proc[p].answer
         \/ /\ files.prepareReceipt = Mine(p) /\ files.runtime.phase = "prepared"
            /\ files.runtime.key \in {None, Request(p)} /\ proc'[p].pc = "save-registration"
            /\ proc'[p].answer = proc[p].answer
         \/ proc'[p].pc = "throwing" /\ proc'[p].answer = "failed"
         \/ /\ files.prepareReceipt = Mine(p) /\ files.runtime # None
            /\ files.runtime.phase \in {"starting", "incomplete"}
            /\ proc'[p].pc = "throwing" /\ proc'[p].answer = "incomplete"
  <2>1. CASE Throw(p, "failed")
    BY <1>0, <2>1, ThrowEdit DEF CheckStart, Answers
  <2>2. CASE MatchesPrepared(p) /\ files.runtime.phase = "started" /\ Replays(p) /\ Goto(p, "started")
    <3>1. files.startReceipt = Request(p)
      BY OfOne, <2>2 DEF Replays, FilesOk
    <3> QED BY <1>0, <2>2, <3>1, GotoEdit DEF CheckStart, MatchesPrepared
  <2>3. CASE MatchesPrepared(p) /\ ~MayLaunch(p) /\ files.runtime.phase # "started" /\ Throw(p, "incomplete")
    <3>1. files.runtime.phase \in {"starting", "incomplete"}
      BY OfOne, <2>3 DEF PrivateFiles, RuntimeStates, MatchesPrepared, MayLaunch
    <3> QED BY <1>0, <2>3, <3>1, ThrowEdit DEF CheckStart, MatchesPrepared, Answers
  <2>4. CASE MatchesPrepared(p) /\ MayLaunch(p) /\ KeyMatches(p) /\ Goto(p, "save-registration")
    BY <1>0, <2>4, GotoEdit DEF CheckStart, MatchesPrepared, MayLaunch, KeyMatches
  <2> QED BY <2>1, <2>2, <2>3, <2>4 DEF CheckStart
<1>2. UNCHANGED <<files, observation, artifacts, launches>>
  BY DEF CheckStart
<1>3. HoldOf(p)'
  BY OfOne, <1>0, <1>1, <1>2 DEF HoldOf, Keeps, Answers
<1>4. ASSUME lock'["adapter"] = p PROVE HolderOf(p)'
  <2>1. /\ lock["adapter"] = p /\ HolderOf(p) /\ proc[p].seen # None
        /\ SeenOk(files, proc[p].seen) /\ proc[p].answer = None
    BY OfOne, <1>1 DEF HoldOf, HolderOf, StageAt, SeenAt
  <2>2. SeenOk(files, proc[p].seen)'
    BY <1>1, <1>2, <2>1 DEF SeenOk, TruthIn, Keeps
  <2>3. CASE proc'[p].pc = "throwing"
    BY <1>1, <1>2, <2>1, <2>2, <2>3
    DEF HolderOf, StageAt, ThrownAt, PrepareAt, StartAt, LaunchAt, SeenAt, SeenOk
  <2>4. CASE proc'[p].pc = "started"
    BY <1>1, <1>2, <2>1, <2>2, <2>4
    DEF Keeps, Request, HolderOf, StageAt, ThrownAt, PrepareAt, StartAt, LaunchAt, SeenAt,
        SeenOk
  <2>5. CASE proc'[p].pc = "save-registration"
    <3>1. observation # None /\ observation \in Observations /\ proc[p].seen \in Observations
      BY <1>0, <2>1 DEF SeenOk, SupInv, SupTypes, Invocations
    <3>2. files.runtime.phase = "prepared"
      BY <1>1, <2>5
    <3>3. TruthIn(files, observation) /\ TruthIn(files, proc[p].seen)
      BY OfOne, <2>1, <3>1 DEF ObservationInv, SeenOk
    <3>4. observation.phase = "prepared" /\ proc[p].seen.phase = "prepared"
      BY <3>1, <3>2, <3>3 DEF TruthIn, Observations
    <3> QED BY <1>1, <1>2, <2>1, <2>2, <2>5, <3>4
            DEF Keeps, Request, Mine, HolderOf, StageAt, ThrownAt, PrepareAt, StartAt,
                LaunchAt, SeenAt, SeenOk
  <2> QED BY <1>1, <2>3, <2>4, <2>5
<1>5. proc'[p].answer = "receipt" =>
        files.startReceipt # None /\ files.startReceipt = proc'[p].request
  BY OfOne, <1>0, <1>1 DEF Keeps, Answers, HoldOf
<1> QED BY <1>0, <1>1, <1>2, <1>3, <1>4, <1>5, OneDecides DEF Keeps

LEMMA AdmitStep ==
  ASSUME SupInv, NEW p \in Processes, Admit(p)
  PROVE  SupInv'
<1> USE DEF Decides
<1>0. /\ proc \in [Processes -> Invocations] /\ proc[p] \in Invocations
      /\ lock \in [{"adapter", "prepare"} -> Processes \cup {Nobody}]
  BY OfOne
<1>1. /\ Keeps(p) /\ lock' = lock /\ proc[p].pc = "admit"
      /\ proc'[p].pc = "save-starting" /\ proc'[p].answer = proc[p].answer
  BY <1>0, GotoEdit DEF Admit
<1>2. UNCHANGED <<files, observation, artifacts, launches>>
  BY DEF Admit
<1>3. HoldOf(p)'
  BY OfOne, <1>0, <1>1, <1>2 DEF HoldOf, Keeps, Answers
<1>4. ASSUME lock'["adapter"] = p PROVE HolderOf(p)'
  BY OfOne, <1>0, <1>1, <1>2, <1>4
  DEF HolderOf, StageAt, ThrownAt, PrepareAt, StartAt, LaunchAt, SeenAt, SeenOk, TruthIn,
      AllWritten, HoldOf, Keeps, Answers
<1>5. proc'[p].answer = "receipt" =>
        files.startReceipt # None /\ files.startReceipt = proc'[p].request
  BY OfOne, <1>0, <1>1 DEF Keeps, Answers, HoldOf
<1> QED BY <1>0, <1>1, <1>2, <1>3, <1>4, <1>5, OneDecides DEF Keeps

LEMMA LaunchUnknownStep ==
  ASSUME SupInv, NEW p \in Processes, LaunchUnknown(p)
  PROVE  SupInv'
<1> USE DEF Decides
<1>0. /\ proc \in [Processes -> Invocations] /\ proc[p] \in Invocations
      /\ lock \in [{"adapter", "prepare"} -> Processes \cup {Nobody}]
  BY OfOne
<1>1. /\ Keeps(p) /\ lock' = lock /\ proc[p].pc = "unknown"
      /\ proc'[p].pc = "throwing" /\ proc'[p].answer = "incomplete"
  BY <1>0, ThrowEdit DEF LaunchUnknown, Answers
<1>2. UNCHANGED <<files, observation, artifacts, launches>>
  BY DEF LaunchUnknown
<1>3. HoldOf(p)'
  BY OfOne, <1>0, <1>1, <1>2 DEF HoldOf, Keeps, Answers
<1>4. ASSUME lock'["adapter"] = p PROVE HolderOf(p)'
  BY OfOne, <1>0, <1>1, <1>2, <1>4
  DEF HolderOf, StageAt, ThrownAt, PrepareAt, StartAt, LaunchAt, SeenAt, SeenOk, TruthIn,
      AllWritten, HoldOf, Keeps, Answers
<1>5. proc'[p].answer = "receipt" =>
        files.startReceipt # None /\ files.startReceipt = proc'[p].request
  BY OfOne, <1>0, <1>1 DEF Keeps, Answers, HoldOf
<1> QED BY <1>0, <1>1, <1>2, <1>3, <1>4, <1>5, OneDecides DEF Keeps

LEMMA StartReturnsStep ==
  ASSUME SupInv, NEW p \in Processes, StartReturns(p)
  PROVE  SupInv'
<1> USE DEF Decides
<1>0. /\ proc \in [Processes -> Invocations] /\ proc[p] \in Invocations
      /\ lock \in [{"adapter", "prepare"} -> Processes \cup {Nobody}]
  BY OfOne
<1>1. /\ Keeps(p) /\ lock' = [lock EXCEPT !["prepare"] = Nobody] /\ proc[p].pc = "started"
      /\ proc'[p].pc = "observe-started" /\ proc'[p].answer = proc[p].answer
  BY <1>0, GotoEdit DEF StartReturns, Release
<1>2. UNCHANGED <<files, observation, artifacts, launches>>
  BY DEF StartReturns
<1>3. HoldOf(p)'
  BY OfOne, <1>0, <1>1, <1>2 DEF HoldOf, Keeps, Answers
<1>4. ASSUME lock'["adapter"] = p PROVE HolderOf(p)'
  BY OfOne, <1>0, <1>1, <1>2, <1>4
  DEF HolderOf, StageAt, ThrownAt, PrepareAt, StartAt, LaunchAt, SeenAt, SeenOk, TruthIn,
      AllWritten, HoldOf, Keeps, Answers
<1>5. proc'[p].answer = "receipt" =>
        files.startReceipt # None /\ files.startReceipt = proc'[p].request
  BY OfOne, <1>0, <1>1 DEF Keeps, Answers, HoldOf
<1> QED BY <1>0, <1>1, <1>2, <1>3, <1>4, <1>5, OneDecides DEF Keeps

LEMMA UnwindRunStep ==
  ASSUME SupInv, NEW p \in Processes, UnwindRun(p)
  PROVE  SupInv'
<1> USE DEF Decides
<1>0. /\ proc \in [Processes -> Invocations] /\ proc[p] \in Invocations
      /\ lock \in [{"adapter", "prepare"} -> Processes \cup {Nobody}]
  BY OfOne
<1>1. /\ Keeps(p) /\ proc[p].pc = "throwing" /\ proc'[p].answer = proc[p].answer
      /\ lock' \in {lock, [lock EXCEPT !["prepare"] = Nobody]}
      /\ \/ /\ proc[p].seen # None /\ lock["adapter"] = p
            /\ proc'[p].pc = "observe-failure"
         \/ proc'[p].pc = "leaving"
  BY <1>0, GotoEdit DEF UnwindRun
<1>2. UNCHANGED <<files, observation, artifacts, launches>>
  BY DEF UnwindRun
<1>3. HoldOf(p)'
  BY OfOne, <1>0, <1>1, <1>2 DEF HoldOf, Keeps, Answers
<1>4. ASSUME lock'["adapter"] = p PROVE HolderOf(p)'
  BY OfOne, <1>0, <1>1, <1>2, <1>4
  DEF HolderOf, StageAt, ThrownAt, PrepareAt, StartAt, LaunchAt, SeenAt, SeenOk, TruthIn,
      AllWritten, HoldOf, Keeps, Answers
<1>5. proc'[p].answer = "receipt" =>
        files.startReceipt # None /\ files.startReceipt = proc'[p].request
  BY OfOne, <1>0, <1>1 DEF Keeps, Answers, HoldOf
<1> QED BY <1>0, <1>1, <1>2, <1>3, <1>4, <1>5, OneDecides DEF Keeps

LEMMA LeaveStep ==
  ASSUME SupInv, NEW p \in Processes, Leave(p)
  PROVE  SupInv'
<1> USE DEF Decides
<1>0. /\ proc \in [Processes -> Invocations] /\ proc[p] \in Invocations
      /\ lock \in [{"adapter", "prepare"} -> Processes \cup {Nobody}]
  BY OfOne
<1>1. /\ Keeps(p) /\ proc[p].pc = "leaving" /\ proc'[p].answer = proc[p].answer
      /\ proc'[p].pc = "done"
      /\ \/ lock' = lock
         \/ lock["adapter"] = p /\ lock' = [lock EXCEPT !["adapter"] = Nobody]
  <2>1. Keeps(p) /\ proc'[p].pc = "done" /\ proc'[p].answer = proc[p].answer
    BY <1>0, GotoEdit DEF Leave
  <2>2. CASE lock["adapter"] = p
    BY <2>1, <2>2 DEF Leave
  <2>3. CASE lock["adapter"] # p
    BY <2>1, <2>3 DEF Leave
  <2> QED BY <2>2, <2>3
<1>2. UNCHANGED <<files, observation, artifacts, launches>>
  BY DEF Leave
<1>3. HoldOf(p)'
  BY OfOne, <1>0, <1>1, <1>2 DEF HoldOf, Keeps, Answers
<1>4. ASSUME lock'["adapter"] = p PROVE HolderOf(p)'
  BY OfOne, <1>0, <1>1, <1>2, <1>4
  DEF HolderOf, StageAt, ThrownAt, PrepareAt, StartAt, LaunchAt, SeenAt, SeenOk, TruthIn,
      AllWritten, HoldOf, Keeps, Answers
<1>5. proc'[p].answer = "receipt" =>
        files.startReceipt # None /\ files.startReceipt = proc'[p].request
  BY OfOne, <1>0, <1>1 DEF Keeps, Answers, HoldOf
<1> QED BY <1>0, <1>1, <1>2, <1>3, <1>4, <1>5, OneDecides DEF Keeps

LEMMA DiesStep ==
  ASSUME SupInv, NEW p \in Processes, Dies(p)
  PROVE  SupInv'
<1> USE DEF Decides
<1>0. /\ proc \in [Processes -> Invocations] /\ proc[p] \in Invocations
      /\ lock \in [{"adapter", "prepare"} -> Processes \cup {Nobody}]
  BY OfOne
<1>1. /\ Keeps(p) /\ lock' = lock /\ proc'[p].pc = "dead" /\ proc'[p].answer = proc[p].answer
  BY <1>0, GotoEdit DEF Dies
<1>2. UNCHANGED <<files, observation, artifacts, launches>>
  BY DEF Dies
<1>3. HoldOf(p)'
  BY OfOne, <1>0, <1>1, <1>2 DEF HoldOf, Keeps, Answers
<1>4. ASSUME lock'["adapter"] = p PROVE HolderOf(p)'
  BY OfOne, <1>0, <1>1, <1>2, <1>4
  DEF HolderOf, StageAt, ThrownAt, PrepareAt, StartAt, LaunchAt, SeenAt, SeenOk, TruthIn,
      AllWritten, HoldOf, Keeps, Answers
<1>5. proc'[p].answer = "receipt" =>
        files.startReceipt # None /\ files.startReceipt = proc'[p].request
  BY OfOne, <1>0, <1>1 DEF Keeps, Answers, HoldOf
<1> QED BY <1>0, <1>1, <1>2, <1>3, <1>4, <1>5, OneDecides DEF Keeps

(* The writes of private files.                                            *)
LEMMA SaveManifestStep ==
  ASSUME SupInv, NEW p \in Processes, SaveManifest(p)
  PROVE  SupInv'
<1> DEFINE v == Mine(p)
           g == [files EXCEPT !["manifest"] = v]
           at == "save-prepared"
<1>1. /\ proc[p].pc = "save-manifest" /\ lock["adapter"] = p /\ files \in PrivateFiles
      /\ proc[p].request \in PrepareRequests
      /\ HolderOf(p) /\ FilesOk(files) /\ ObservationInv
      /\ proc[p].request.manifest # None
  BY OfOne DEF SaveManifest, HoldOf, StartRequests, PrepareRequests
<1>2. v \in Manifests /\ v = proc[p].request.manifest
  BY <1>1 DEF PrepareRequests, Mine
<1>3. /\ g \in PrivateFiles /\ g.manifest = v
      /\ g.prepared = files.prepared /\ g.prepareReceipt = files.prepareReceipt
      /\ g.runtime = files.runtime /\ g.registration = files.registration
      /\ g.packet = files.packet /\ g.lifecycle = files.lifecycle
      /\ g.startReceipt = files.startReceipt
  BY <1>1, <1>2 DEF PrivateFiles
<1>4. Write(p, "manifest", v, at)
  BY DEF SaveManifest
<1>5. at \in Labels /\ at \in Preparing /\ proc[p].pc \in WritePhases
  BY <1>1 DEF WritePhases
<1> HIDE DEF g, v
<1> USE DEF HolderOf, StageAt, PrepareAt, StartAt, LaunchAt, SeenAt, SeenOk, FilesOk, TruthIn
<1>6. FilesOk(g)
  BY <1>1, <1>2, <1>3 DEF AllWritten
<1>7. /\ observation # None => TruthIn(g, observation)
      /\ proc[p].seen # None => TruthIn(g, proc[p].seen)
  BY <1>1, <1>2, <1>3 DEF ObservationInv
<1>8. StageAt(g, at, p)
  <2>1. PrepareAt(g, at, proc[p].request) /\ StartAt(g, at, proc[p].request)
    BY <1>1, <1>2, <1>3
  <2>2. LaunchAt(at) /\ SeenAt(at, proc[p].seen) /\ SeenOk(g, proc[p].seen)
    BY <1>1, <1>2, <1>3, <1>7
  <2> QED BY <2>1, <2>2
<1>9. files.startReceipt # None => g.startReceipt = files.startReceipt
  BY <1>1, <1>2, <1>3
<1>10. g = [files EXCEPT !["manifest"] = v]
  BY DEF g
<1>11. /\ proc[p].pc \in Preparing => at \in Preparing
       /\ proc[p].pc \in Starting => at \in Starting
  BY <1>1, <1>5
<1> HIDE DEF at, HolderOf, StageAt, PrepareAt, StartAt, LaunchAt, SeenAt, SeenOk, FilesOk, TruthIn,
             Starting, Preparing, Saving, Registering, Launching, Finalizing, Labels
<1> QED BY <1>3, <1>4, <1>5, <1>6, <1>7, <1>8, <1>9, <1>10, <1>11, OneWrites

LEMMA SavePreparedStep ==
  ASSUME SupInv, NEW p \in Processes, SavePrepared(p)
  PROVE  SupInv'
<1> DEFINE v == Mine(p)
           g == [files EXCEPT !["prepared"] = v]
           at == "save-runtime"
<1>1. /\ proc[p].pc = "save-prepared" /\ lock["adapter"] = p /\ files \in PrivateFiles
      /\ proc[p].request \in PrepareRequests
      /\ HolderOf(p) /\ FilesOk(files) /\ ObservationInv
      /\ proc[p].request.manifest # None
  BY OfOne DEF SavePrepared, HoldOf, StartRequests, PrepareRequests
<1>2. v \in Manifests /\ v = proc[p].request.manifest
  BY <1>1 DEF PrepareRequests, Mine
<1>3. /\ g \in PrivateFiles /\ g.prepared = v
      /\ g.manifest = files.manifest /\ g.prepareReceipt = files.prepareReceipt
      /\ g.runtime = files.runtime /\ g.registration = files.registration
      /\ g.packet = files.packet /\ g.lifecycle = files.lifecycle
      /\ g.startReceipt = files.startReceipt
  BY <1>1, <1>2 DEF PrivateFiles
<1>4. Write(p, "prepared", v, at)
  BY DEF SavePrepared
<1>5. at \in Labels /\ at \in Preparing /\ proc[p].pc \in WritePhases
  BY <1>1 DEF WritePhases
<1> HIDE DEF g, v
<1> USE DEF HolderOf, StageAt, PrepareAt, StartAt, LaunchAt, SeenAt, SeenOk, FilesOk, TruthIn
<1>6. FilesOk(g)
  BY <1>1, <1>2, <1>3 DEF AllWritten
<1>7. /\ observation # None => TruthIn(g, observation)
      /\ proc[p].seen # None => TruthIn(g, proc[p].seen)
  BY <1>1, <1>2, <1>3 DEF ObservationInv
<1>8. StageAt(g, at, p)
  <2>1. PrepareAt(g, at, proc[p].request) /\ StartAt(g, at, proc[p].request)
    BY <1>1, <1>2, <1>3
  <2>2. LaunchAt(at) /\ SeenAt(at, proc[p].seen) /\ SeenOk(g, proc[p].seen)
    BY <1>1, <1>2, <1>3, <1>7
  <2> QED BY <2>1, <2>2
<1>9. files.startReceipt # None => g.startReceipt = files.startReceipt
  BY <1>1, <1>2, <1>3
<1>10. g = [files EXCEPT !["prepared"] = v]
  BY DEF g
<1>11. /\ proc[p].pc \in Preparing => at \in Preparing
       /\ proc[p].pc \in Starting => at \in Starting
  BY <1>1, <1>5
<1> HIDE DEF at, HolderOf, StageAt, PrepareAt, StartAt, LaunchAt, SeenAt, SeenOk, FilesOk, TruthIn,
             Starting, Preparing, Saving, Registering, Launching, Finalizing, Labels
<1> QED BY <1>3, <1>4, <1>5, <1>6, <1>7, <1>8, <1>9, <1>10, <1>11, OneWrites

LEMMA SavePrepareReceiptStep ==
  ASSUME SupInv, NEW p \in Processes, SavePrepareReceipt(p)
  PROVE  SupInv'
<1> DEFINE v == Mine(p)
           g == [files EXCEPT !["prepareReceipt"] = v]
           at == "prepared"
<1>1. /\ proc[p].pc = "save-receipt" /\ lock["adapter"] = p /\ files \in PrivateFiles
      /\ proc[p].request \in PrepareRequests
      /\ HolderOf(p) /\ FilesOk(files) /\ ObservationInv
      /\ proc[p].request.manifest # None
  BY OfOne DEF SavePrepareReceipt, HoldOf, StartRequests, PrepareRequests
<1>2. v \in Manifests /\ v = proc[p].request.manifest
  BY <1>1 DEF PrepareRequests, Mine
<1>3. /\ g \in PrivateFiles /\ g.prepareReceipt = v
      /\ g.manifest = files.manifest /\ g.prepared = files.prepared
      /\ g.runtime = files.runtime /\ g.registration = files.registration
      /\ g.packet = files.packet /\ g.lifecycle = files.lifecycle
      /\ g.startReceipt = files.startReceipt
  BY <1>1, <1>2 DEF PrivateFiles
<1>4. Write(p, "prepareReceipt", v, at)
  BY DEF SavePrepareReceipt
<1>5. at \in Labels /\ at \in Preparing /\ proc[p].pc \in WritePhases
  BY <1>1 DEF WritePhases
<1> HIDE DEF g, v
<1> USE DEF HolderOf, StageAt, PrepareAt, StartAt, LaunchAt, SeenAt, SeenOk, FilesOk, TruthIn
<1>6. FilesOk(g)
  BY <1>1, <1>2, <1>3 DEF AllWritten
<1>7. /\ observation # None => TruthIn(g, observation)
      /\ proc[p].seen # None => TruthIn(g, proc[p].seen)
  BY <1>1, <1>2, <1>3 DEF ObservationInv
<1>8. StageAt(g, at, p)
  <2>1. PrepareAt(g, at, proc[p].request) /\ StartAt(g, at, proc[p].request)
    BY <1>1, <1>2, <1>3
  <2>2. LaunchAt(at) /\ SeenAt(at, proc[p].seen) /\ SeenOk(g, proc[p].seen)
    BY <1>1, <1>2, <1>3, <1>7
  <2> QED BY <2>1, <2>2
<1>9. files.startReceipt # None => g.startReceipt = files.startReceipt
  BY <1>1, <1>2, <1>3
<1>10. g = [files EXCEPT !["prepareReceipt"] = v]
  BY DEF g
<1>11. /\ proc[p].pc \in Preparing => at \in Preparing
       /\ proc[p].pc \in Starting => at \in Starting
  BY <1>1, <1>5
<1> HIDE DEF at, HolderOf, StageAt, PrepareAt, StartAt, LaunchAt, SeenAt, SeenOk, FilesOk, TruthIn,
             Starting, Preparing, Saving, Registering, Launching, Finalizing, Labels
<1> QED BY <1>3, <1>4, <1>5, <1>6, <1>7, <1>8, <1>9, <1>10, <1>11, OneWrites

LEMMA SaveRuntimeStep ==
  ASSUME SupInv, NEW p \in Processes, SaveRuntime(p)
  PROVE  SupInv'
<1> DEFINE v == [phase |-> "prepared", manifest |-> Mine(p), key |-> None, count |-> 0]
           g == [files EXCEPT !["runtime"] = v]
           at == "save-receipt"
<1>1. /\ proc[p].pc = "save-runtime" /\ lock["adapter"] = p /\ files \in PrivateFiles
      /\ proc[p].request \in PrepareRequests
      /\ HolderOf(p) /\ FilesOk(files) /\ ObservationInv
      /\ proc[p].request.manifest # None
  BY OfOne DEF SaveRuntime, HoldOf, StartRequests, PrepareRequests
<1>2. /\ v \in RuntimeStates /\ v.phase = "prepared" /\ v.key = None
      /\ v.manifest = proc[p].request.manifest
  BY <1>1 DEF PrepareRequests, Mine, RuntimeStates
<1>3. /\ g \in PrivateFiles /\ g.runtime = v
      /\ g.manifest = files.manifest /\ g.prepared = files.prepared
      /\ g.prepareReceipt = files.prepareReceipt /\ g.registration = files.registration
      /\ g.packet = files.packet /\ g.lifecycle = files.lifecycle
      /\ g.startReceipt = files.startReceipt
  BY <1>1, <1>2 DEF PrivateFiles
<1>4. Write(p, "runtime", v, at)
  BY DEF SaveRuntime
<1>5. at \in Labels /\ at \in Preparing /\ proc[p].pc \in WritePhases
  BY <1>1 DEF WritePhases
<1> HIDE DEF g, v
<1> USE DEF HolderOf, StageAt, PrepareAt, StartAt, LaunchAt, SeenAt, SeenOk, FilesOk, TruthIn
<1>6. FilesOk(g)
  BY <1>1, <1>2, <1>3 DEF AllWritten
<1>7. /\ observation # None => TruthIn(g, observation)
      /\ proc[p].seen # None => TruthIn(g, proc[p].seen)
  BY <1>1, <1>2, <1>3 DEF ObservationInv
<1>8. StageAt(g, at, p)
  <2>1. PrepareAt(g, at, proc[p].request) /\ StartAt(g, at, proc[p].request)
    BY <1>1, <1>2, <1>3
  <2>2. LaunchAt(at) /\ SeenAt(at, proc[p].seen) /\ SeenOk(g, proc[p].seen)
    BY <1>1, <1>2, <1>3, <1>7
  <2> QED BY <2>1, <2>2
<1>9. files.startReceipt # None => g.startReceipt = files.startReceipt
  BY <1>1, <1>2, <1>3
<1>10. g = [files EXCEPT !["runtime"] = v]
  BY DEF g
<1>11. /\ proc[p].pc \in Preparing => at \in Preparing
       /\ proc[p].pc \in Starting => at \in Starting
  BY <1>1, <1>5
<1> HIDE DEF at, HolderOf, StageAt, PrepareAt, StartAt, LaunchAt, SeenAt, SeenOk, FilesOk, TruthIn,
             Starting, Preparing, Saving, Registering, Launching, Finalizing, Labels
<1> QED BY <1>3, <1>4, <1>5, <1>6, <1>7, <1>8, <1>9, <1>10, <1>11, OneWrites

LEMMA SaveRegistrationStep ==
  ASSUME SupInv, NEW p \in Processes, SaveRegistration(p)
  PROVE  SupInv'
<1> DEFINE v == Request(p).input
           g == [files EXCEPT !["registration"] = v]
           at == IF Organum THEN "save-packet" ELSE "save-lifecycle"
<1>1. /\ proc[p].pc = "save-registration" /\ lock["adapter"] = p /\ files \in PrivateFiles
      /\ proc[p].request \in StartRequests
      /\ HolderOf(p) /\ FilesOk(files) /\ ObservationInv
      /\ proc[p].request.manifest # None
  BY OfOne DEF SaveRegistration, HoldOf, StartRequests, PrepareRequests
<1>2. v \in Inputs /\ v = proc[p].request.input
  BY <1>1 DEF StartRequests, Request
<1>3. /\ g \in PrivateFiles /\ g.registration = v
      /\ g.manifest = files.manifest /\ g.prepared = files.prepared
      /\ g.prepareReceipt = files.prepareReceipt /\ g.runtime = files.runtime
      /\ g.packet = files.packet /\ g.lifecycle = files.lifecycle
      /\ g.startReceipt = files.startReceipt
  BY <1>1, <1>2 DEF PrivateFiles
<1>4. Write(p, "registration", v, at)
  BY DEF SaveRegistration
<1>5. at \in Labels /\ at \in Starting /\ proc[p].pc \in WritePhases
  BY <1>1 DEF WritePhases
<1> HIDE DEF g, v
<1> USE DEF HolderOf, StageAt, PrepareAt, StartAt, LaunchAt, SeenAt, SeenOk, FilesOk, TruthIn
<1>6. FilesOk(g)
  BY <1>1, <1>2, <1>3 DEF AllWritten
<1>7. /\ observation # None => TruthIn(g, observation)
      /\ proc[p].seen # None => TruthIn(g, proc[p].seen)
  BY <1>1, <1>2, <1>3 DEF ObservationInv
<1>8. StageAt(g, at, p)
  <2>1. PrepareAt(g, at, proc[p].request) /\ StartAt(g, at, proc[p].request)
    BY <1>1, <1>2, <1>3
  <2>2. LaunchAt(at) /\ SeenAt(at, proc[p].seen) /\ SeenOk(g, proc[p].seen)
    BY <1>1, <1>2, <1>3, <1>7
  <2> QED BY <2>1, <2>2
<1>9. files.startReceipt # None => g.startReceipt = files.startReceipt
  BY <1>1, <1>2, <1>3
<1>10. g = [files EXCEPT !["registration"] = v]
  BY DEF g
<1>11. /\ proc[p].pc \in Preparing => at \in Preparing
       /\ proc[p].pc \in Starting => at \in Starting
  BY <1>1, <1>5
<1> HIDE DEF at, HolderOf, StageAt, PrepareAt, StartAt, LaunchAt, SeenAt, SeenOk, FilesOk, TruthIn,
             Starting, Preparing, Saving, Registering, Launching, Finalizing, Labels
<1> QED BY <1>3, <1>4, <1>5, <1>6, <1>7, <1>8, <1>9, <1>10, <1>11, OneWrites

LEMMA SavePacketStep ==
  ASSUME SupInv, NEW p \in Processes, SavePacket(p)
  PROVE  SupInv'
<1> DEFINE v == Request(p).input
           g == [files EXCEPT !["packet"] = v]
           at == "save-lifecycle"
<1>1. /\ proc[p].pc = "save-packet" /\ lock["adapter"] = p /\ files \in PrivateFiles
      /\ proc[p].request \in StartRequests
      /\ HolderOf(p) /\ FilesOk(files) /\ ObservationInv
      /\ proc[p].request.manifest # None
  BY OfOne DEF SavePacket, HoldOf, StartRequests, PrepareRequests
<1>2. v \in Inputs /\ v = proc[p].request.input
  BY <1>1 DEF StartRequests, Request
<1>3. /\ g \in PrivateFiles /\ g.packet = v
      /\ g.manifest = files.manifest /\ g.prepared = files.prepared
      /\ g.prepareReceipt = files.prepareReceipt /\ g.runtime = files.runtime
      /\ g.registration = files.registration /\ g.lifecycle = files.lifecycle
      /\ g.startReceipt = files.startReceipt
  BY <1>1, <1>2 DEF PrivateFiles
<1>4. Write(p, "packet", v, at)
  BY DEF SavePacket
<1>5. at \in Labels /\ at \in Starting /\ proc[p].pc \in WritePhases
  BY <1>1 DEF WritePhases
<1> HIDE DEF g, v
<1> USE DEF HolderOf, StageAt, PrepareAt, StartAt, LaunchAt, SeenAt, SeenOk, FilesOk, TruthIn
<1>6. FilesOk(g)
  BY <1>1, <1>2, <1>3 DEF AllWritten
<1>7. /\ observation # None => TruthIn(g, observation)
      /\ proc[p].seen # None => TruthIn(g, proc[p].seen)
  BY <1>1, <1>2, <1>3 DEF ObservationInv
<1>8. StageAt(g, at, p)
  <2>1. PrepareAt(g, at, proc[p].request) /\ StartAt(g, at, proc[p].request)
    BY <1>1, <1>2, <1>3
  <2>2. LaunchAt(at) /\ SeenAt(at, proc[p].seen) /\ SeenOk(g, proc[p].seen)
    BY <1>1, <1>2, <1>3, <1>7
  <2> QED BY <2>1, <2>2
<1>9. files.startReceipt # None => g.startReceipt = files.startReceipt
  BY <1>1, <1>2, <1>3
<1>10. g = [files EXCEPT !["packet"] = v]
  BY DEF g
<1>11. /\ proc[p].pc \in Preparing => at \in Preparing
       /\ proc[p].pc \in Starting => at \in Starting
  BY <1>1, <1>5
<1> HIDE DEF at, HolderOf, StageAt, PrepareAt, StartAt, LaunchAt, SeenAt, SeenOk, FilesOk, TruthIn,
             Starting, Preparing, Saving, Registering, Launching, Finalizing, Labels
<1> QED BY <1>3, <1>4, <1>5, <1>6, <1>7, <1>8, <1>9, <1>10, <1>11, OneWrites

LEMMA SaveLifecycleStep ==
  ASSUME SupInv, NEW p \in Processes, SaveLifecycle(p)
  PROVE  SupInv'
<1> DEFINE v == Request(p).input
           g == [files EXCEPT !["lifecycle"] = v]
           at == "bind"
<1>1. /\ proc[p].pc = "save-lifecycle" /\ lock["adapter"] = p /\ files \in PrivateFiles
      /\ proc[p].request \in StartRequests
      /\ HolderOf(p) /\ FilesOk(files) /\ ObservationInv
      /\ proc[p].request.manifest # None
  BY OfOne DEF SaveLifecycle, HoldOf, StartRequests, PrepareRequests
<1>2. v \in Inputs /\ v = proc[p].request.input
  BY <1>1 DEF StartRequests, Request
<1>3. /\ g \in PrivateFiles /\ g.lifecycle = v
      /\ g.manifest = files.manifest /\ g.prepared = files.prepared
      /\ g.prepareReceipt = files.prepareReceipt /\ g.runtime = files.runtime
      /\ g.registration = files.registration /\ g.packet = files.packet
      /\ g.startReceipt = files.startReceipt
  BY <1>1, <1>2 DEF PrivateFiles
<1>4. Write(p, "lifecycle", v, at)
  BY DEF SaveLifecycle
<1>5. at \in Labels /\ at \in Starting /\ proc[p].pc \in WritePhases
  BY <1>1 DEF WritePhases
<1> HIDE DEF g, v
<1> USE DEF HolderOf, StageAt, PrepareAt, StartAt, LaunchAt, SeenAt, SeenOk, FilesOk, TruthIn
<1>6. FilesOk(g)
  BY <1>1, <1>2, <1>3 DEF AllWritten
<1>7. /\ observation # None => TruthIn(g, observation)
      /\ proc[p].seen # None => TruthIn(g, proc[p].seen)
  BY <1>1, <1>2, <1>3 DEF ObservationInv
<1>8. StageAt(g, at, p)
  <2>1. PrepareAt(g, at, proc[p].request) /\ StartAt(g, at, proc[p].request)
    BY <1>1, <1>2, <1>3
  <2>2. LaunchAt(at) /\ SeenAt(at, proc[p].seen) /\ SeenOk(g, proc[p].seen)
    BY <1>1, <1>2, <1>3, <1>7
  <2> QED BY <2>1, <2>2
<1>9. files.startReceipt # None => g.startReceipt = files.startReceipt
  BY <1>1, <1>2, <1>3
<1>10. g = [files EXCEPT !["lifecycle"] = v]
  BY DEF g
<1>11. /\ proc[p].pc \in Preparing => at \in Preparing
       /\ proc[p].pc \in Starting => at \in Starting
  BY <1>1, <1>5
<1> HIDE DEF at, HolderOf, StageAt, PrepareAt, StartAt, LaunchAt, SeenAt, SeenOk, FilesOk, TruthIn,
             Starting, Preparing, Saving, Registering, Launching, Finalizing, Labels
<1> QED BY <1>3, <1>4, <1>5, <1>6, <1>7, <1>8, <1>9, <1>10, <1>11, OneWrites

LEMMA BindStep ==
  ASSUME SupInv, NEW p \in Processes, Bind(p)
  PROVE  SupInv'
<1> DEFINE v == [files.runtime EXCEPT !.key = Request(p)]
           g == [files EXCEPT !["runtime"] = v]
           at == "admit"
<1>1. /\ proc[p].pc = "bind" /\ lock["adapter"] = p /\ files \in PrivateFiles
      /\ proc[p].request \in StartRequests
      /\ HolderOf(p) /\ FilesOk(files) /\ ObservationInv
      /\ proc[p].request.manifest # None
  BY OfOne DEF Bind, HoldOf, StartRequests, PrepareRequests
<1>2. /\ v \in RuntimeStates /\ v.phase = files.runtime.phase /\ v.key = proc[p].request
      /\ v.manifest = files.runtime.manifest
  <2>1. files.runtime \in RuntimeStates
    BY <1>1 DEF PrivateFiles, HolderOf, StageAt, StartAt, FilesOk, StartRequests
  <2> QED BY <1>1, <2>1 DEF RuntimeStates, Request
<1>3. /\ g \in PrivateFiles /\ g.runtime = v
      /\ g.manifest = files.manifest /\ g.prepared = files.prepared
      /\ g.prepareReceipt = files.prepareReceipt /\ g.registration = files.registration
      /\ g.packet = files.packet /\ g.lifecycle = files.lifecycle
      /\ g.startReceipt = files.startReceipt
  BY <1>1, <1>2 DEF PrivateFiles
<1>4. Write(p, "runtime", v, at)
  BY DEF Bind
<1>5. at \in Labels /\ at \in Starting /\ proc[p].pc \in WritePhases
  BY <1>1 DEF WritePhases
<1> HIDE DEF g, v
<1> USE DEF HolderOf, StageAt, PrepareAt, StartAt, LaunchAt, SeenAt, SeenOk, FilesOk, TruthIn
<1>6. FilesOk(g)
  BY <1>1, <1>2, <1>3 DEF AllWritten
<1>7. /\ observation # None => TruthIn(g, observation)
      /\ proc[p].seen # None => TruthIn(g, proc[p].seen)
  BY <1>1, <1>2, <1>3 DEF ObservationInv
<1>8. StageAt(g, at, p)
  <2>1. PrepareAt(g, at, proc[p].request) /\ StartAt(g, at, proc[p].request)
    BY <1>1, <1>2, <1>3
  <2>2. LaunchAt(at) /\ SeenAt(at, proc[p].seen) /\ SeenOk(g, proc[p].seen)
    BY <1>1, <1>2, <1>3, <1>7
  <2> QED BY <2>1, <2>2
<1>9. files.startReceipt # None => g.startReceipt = files.startReceipt
  BY <1>1, <1>2, <1>3
<1>10. g = [files EXCEPT !["runtime"] = v]
  BY DEF g
<1>11. /\ proc[p].pc \in Preparing => at \in Preparing
       /\ proc[p].pc \in Starting => at \in Starting
  BY <1>1, <1>5
<1> HIDE DEF at, HolderOf, StageAt, PrepareAt, StartAt, LaunchAt, SeenAt, SeenOk, FilesOk, TruthIn,
             Starting, Preparing, Saving, Registering, Launching, Finalizing, Labels
<1> QED BY <1>3, <1>4, <1>5, <1>6, <1>7, <1>8, <1>9, <1>10, <1>11, OneWrites

LEMMA SaveStartingStep ==
  ASSUME SupInv, NEW p \in Processes, SaveStarting(p)
  PROVE  SupInv'
<1> DEFINE v == [files.runtime EXCEPT !.phase = "starting", !.count = 1]
           g == [files EXCEPT !["runtime"] = v]
           at == "launch"
<1>1. /\ proc[p].pc = "save-starting" /\ lock["adapter"] = p /\ files \in PrivateFiles
      /\ proc[p].request \in StartRequests
      /\ HolderOf(p) /\ FilesOk(files) /\ ObservationInv
      /\ proc[p].request.manifest # None
  BY OfOne DEF SaveStarting, HoldOf, StartRequests, PrepareRequests
<1>2. /\ v \in RuntimeStates /\ v.phase = "starting" /\ v.key = files.runtime.key
      /\ v.manifest = files.runtime.manifest
  <2>1. files.runtime \in RuntimeStates
    BY <1>1 DEF PrivateFiles, HolderOf, StageAt, StartAt, FilesOk, StartRequests
  <2> QED BY <1>1, <2>1 DEF RuntimeStates, Request
<1>3. /\ g \in PrivateFiles /\ g.runtime = v
      /\ g.manifest = files.manifest /\ g.prepared = files.prepared
      /\ g.prepareReceipt = files.prepareReceipt /\ g.registration = files.registration
      /\ g.packet = files.packet /\ g.lifecycle = files.lifecycle
      /\ g.startReceipt = files.startReceipt
  BY <1>1, <1>2 DEF PrivateFiles
<1>4. Write(p, "runtime", v, at)
  BY DEF SaveStarting
<1>5. at \in Labels /\ at \in Starting /\ proc[p].pc \in WritePhases
  BY <1>1 DEF WritePhases
<1> HIDE DEF g, v
<1> USE DEF HolderOf, StageAt, PrepareAt, StartAt, LaunchAt, SeenAt, SeenOk, FilesOk, TruthIn
<1>6. FilesOk(g)
  BY <1>1, <1>2, <1>3 DEF AllWritten
<1>7. /\ observation # None => TruthIn(g, observation)
      /\ proc[p].seen # None => TruthIn(g, proc[p].seen)
  BY <1>1, <1>2, <1>3 DEF ObservationInv
<1>8. StageAt(g, at, p)
  <2>1. PrepareAt(g, at, proc[p].request) /\ StartAt(g, at, proc[p].request)
    BY <1>1, <1>2, <1>3
  <2>2. LaunchAt(at) /\ SeenAt(at, proc[p].seen) /\ SeenOk(g, proc[p].seen)
    BY <1>1, <1>2, <1>3, <1>7
  <2> QED BY <2>1, <2>2
<1>9. files.startReceipt # None => g.startReceipt = files.startReceipt
  BY <1>1, <1>2, <1>3
<1>10. g = [files EXCEPT !["runtime"] = v]
  BY DEF g
<1>11. /\ proc[p].pc \in Preparing => at \in Preparing
       /\ proc[p].pc \in Starting => at \in Starting
  BY <1>1, <1>5
<1> HIDE DEF at, HolderOf, StageAt, PrepareAt, StartAt, LaunchAt, SeenAt, SeenOk, FilesOk, TruthIn,
             Starting, Preparing, Saving, Registering, Launching, Finalizing, Labels
<1> QED BY <1>3, <1>4, <1>5, <1>6, <1>7, <1>8, <1>9, <1>10, <1>11, OneWrites

LEMMA SaveIncompleteStep ==
  ASSUME SupInv, NEW p \in Processes, SaveIncomplete(p)
  PROVE  SupInv'
<1> DEFINE v == [files.runtime EXCEPT !.phase = "incomplete"]
           g == [files EXCEPT !["runtime"] = v]
           at == "unknown"
<1>1. /\ proc[p].pc = "incomplete" /\ lock["adapter"] = p /\ files \in PrivateFiles
      /\ proc[p].request \in StartRequests
      /\ HolderOf(p) /\ FilesOk(files) /\ ObservationInv
      /\ proc[p].request.manifest # None
  BY OfOne DEF SaveIncomplete, HoldOf, StartRequests, PrepareRequests
<1>2. /\ v \in RuntimeStates /\ v.phase = "incomplete" /\ v.key = files.runtime.key
      /\ v.manifest = files.runtime.manifest
  <2>1. files.runtime \in RuntimeStates
    BY <1>1 DEF PrivateFiles, HolderOf, StageAt, StartAt, FilesOk, StartRequests
  <2> QED BY <1>1, <2>1 DEF RuntimeStates, Request
<1>3. /\ g \in PrivateFiles /\ g.runtime = v
      /\ g.manifest = files.manifest /\ g.prepared = files.prepared
      /\ g.prepareReceipt = files.prepareReceipt /\ g.registration = files.registration
      /\ g.packet = files.packet /\ g.lifecycle = files.lifecycle
      /\ g.startReceipt = files.startReceipt
  BY <1>1, <1>2 DEF PrivateFiles
<1>4. Write(p, "runtime", v, at)
  BY DEF SaveIncomplete
<1>5. at \in Labels /\ at \in Starting /\ proc[p].pc \in WritePhases
  BY <1>1 DEF WritePhases
<1> HIDE DEF g, v
<1> USE DEF HolderOf, StageAt, PrepareAt, StartAt, LaunchAt, SeenAt, SeenOk, FilesOk, TruthIn
<1>6. FilesOk(g)
  BY <1>1, <1>2, <1>3 DEF AllWritten
<1>7. /\ observation # None => TruthIn(g, observation)
      /\ proc[p].seen # None => TruthIn(g, proc[p].seen)
  BY <1>1, <1>2, <1>3 DEF ObservationInv
<1>8. StageAt(g, at, p)
  <2>1. PrepareAt(g, at, proc[p].request) /\ StartAt(g, at, proc[p].request)
    BY <1>1, <1>2, <1>3
  <2>2. LaunchAt(at) /\ SeenAt(at, proc[p].seen) /\ SeenOk(g, proc[p].seen)
    BY <1>1, <1>2, <1>3, <1>7
  <2> QED BY <2>1, <2>2
<1>9. files.startReceipt # None => g.startReceipt = files.startReceipt
  BY <1>1, <1>2, <1>3
<1>10. g = [files EXCEPT !["runtime"] = v]
  BY DEF g
<1>11. /\ proc[p].pc \in Preparing => at \in Preparing
       /\ proc[p].pc \in Starting => at \in Starting
  BY <1>1, <1>5
<1> HIDE DEF at, HolderOf, StageAt, PrepareAt, StartAt, LaunchAt, SeenAt, SeenOk, FilesOk, TruthIn,
             Starting, Preparing, Saving, Registering, Launching, Finalizing, Labels
<1> QED BY <1>3, <1>4, <1>5, <1>6, <1>7, <1>8, <1>9, <1>10, <1>11, OneWrites

LEMMA SaveStartedStep ==
  ASSUME SupInv, NEW p \in Processes, SaveStarted(p)
  PROVE  SupInv'
<1> DEFINE v == [files.runtime EXCEPT !.phase = "started"]
           g == [files EXCEPT !["runtime"] = v]
           at == "save-start-receipt"
<1>1. /\ proc[p].pc = "save-started" /\ lock["adapter"] = p /\ files \in PrivateFiles
      /\ proc[p].request \in StartRequests
      /\ HolderOf(p) /\ FilesOk(files) /\ ObservationInv
      /\ proc[p].request.manifest # None
  BY OfOne DEF SaveStarted, HoldOf, StartRequests, PrepareRequests
<1>2. /\ v \in RuntimeStates /\ v.phase = "started" /\ v.key = files.runtime.key
      /\ v.manifest = files.runtime.manifest
  <2>1. files.runtime \in RuntimeStates
    BY <1>1 DEF PrivateFiles, HolderOf, StageAt, StartAt, FilesOk, StartRequests
  <2> QED BY <1>1, <2>1 DEF RuntimeStates, Request
<1>3. /\ g \in PrivateFiles /\ g.runtime = v
      /\ g.manifest = files.manifest /\ g.prepared = files.prepared
      /\ g.prepareReceipt = files.prepareReceipt /\ g.registration = files.registration
      /\ g.packet = files.packet /\ g.lifecycle = files.lifecycle
      /\ g.startReceipt = files.startReceipt
  BY <1>1, <1>2 DEF PrivateFiles
<1>4. Write(p, "runtime", v, at)
  BY DEF SaveStarted
<1>5. at \in Labels /\ at \in Starting /\ proc[p].pc \in WritePhases
  BY <1>1 DEF WritePhases
<1> HIDE DEF g, v
<1> USE DEF HolderOf, StageAt, PrepareAt, StartAt, LaunchAt, SeenAt, SeenOk, FilesOk, TruthIn
<1>6. FilesOk(g)
  BY <1>1, <1>2, <1>3 DEF AllWritten
<1>7. /\ observation # None => TruthIn(g, observation)
      /\ proc[p].seen # None => TruthIn(g, proc[p].seen)
  BY <1>1, <1>2, <1>3 DEF ObservationInv
<1>8. StageAt(g, at, p)
  <2>1. PrepareAt(g, at, proc[p].request) /\ StartAt(g, at, proc[p].request)
    BY <1>1, <1>2, <1>3
  <2>2. LaunchAt(at) /\ SeenAt(at, proc[p].seen) /\ SeenOk(g, proc[p].seen)
    BY <1>1, <1>2, <1>3, <1>7
  <2> QED BY <2>1, <2>2
<1>9. files.startReceipt # None => g.startReceipt = files.startReceipt
  BY <1>1, <1>2, <1>3
<1>10. g = [files EXCEPT !["runtime"] = v]
  BY DEF g
<1>11. /\ proc[p].pc \in Preparing => at \in Preparing
       /\ proc[p].pc \in Starting => at \in Starting
  BY <1>1, <1>5
<1> HIDE DEF at, HolderOf, StageAt, PrepareAt, StartAt, LaunchAt, SeenAt, SeenOk, FilesOk, TruthIn,
             Starting, Preparing, Saving, Registering, Launching, Finalizing, Labels
<1> QED BY <1>3, <1>4, <1>5, <1>6, <1>7, <1>8, <1>9, <1>10, <1>11, OneWrites

LEMMA SaveStartReceiptStep ==
  ASSUME SupInv, NEW p \in Processes, SaveStartReceipt(p)
  PROVE  SupInv'
<1> DEFINE v == Request(p)
           g == [files EXCEPT !["startReceipt"] = v]
           at == "started"
<1>1. /\ proc[p].pc = "save-start-receipt" /\ lock["adapter"] = p /\ files \in PrivateFiles
      /\ proc[p].request \in StartRequests
      /\ HolderOf(p) /\ FilesOk(files) /\ ObservationInv
      /\ proc[p].request.manifest # None
  BY OfOne DEF SaveStartReceipt, HoldOf, StartRequests, PrepareRequests
<1>2. v \in StartRequests /\ v = proc[p].request
  BY <1>1 DEF Request
<1>3. /\ g \in PrivateFiles /\ g.startReceipt = v
      /\ g.manifest = files.manifest /\ g.prepared = files.prepared
      /\ g.prepareReceipt = files.prepareReceipt /\ g.runtime = files.runtime
      /\ g.registration = files.registration /\ g.packet = files.packet
      /\ g.lifecycle = files.lifecycle
  BY <1>1, <1>2 DEF PrivateFiles
<1>4. Write(p, "startReceipt", v, at)
  BY DEF SaveStartReceipt
<1>5. at \in Labels /\ at \in Starting /\ proc[p].pc \in WritePhases
  BY <1>1 DEF WritePhases
<1> HIDE DEF g, v
<1> USE DEF HolderOf, StageAt, PrepareAt, StartAt, LaunchAt, SeenAt, SeenOk, FilesOk, TruthIn
<1>6. FilesOk(g)
  BY <1>1, <1>2, <1>3 DEF AllWritten
<1>7. /\ observation # None => TruthIn(g, observation)
      /\ proc[p].seen # None => TruthIn(g, proc[p].seen)
  BY <1>1, <1>2, <1>3 DEF ObservationInv
<1>8. StageAt(g, at, p)
  <2>1. PrepareAt(g, at, proc[p].request) /\ StartAt(g, at, proc[p].request)
    BY <1>1, <1>2, <1>3
  <2>2. LaunchAt(at) /\ SeenAt(at, proc[p].seen) /\ SeenOk(g, proc[p].seen)
    BY <1>1, <1>2, <1>3, <1>7
  <2> QED BY <2>1, <2>2
<1>9. files.startReceipt # None => g.startReceipt = files.startReceipt
  BY <1>1, <1>2, <1>3
<1>10. g = [files EXCEPT !["startReceipt"] = v]
  BY DEF g
<1>11. /\ proc[p].pc \in Preparing => at \in Preparing
       /\ proc[p].pc \in Starting => at \in Starting
  BY <1>1, <1>5
<1> HIDE DEF at, HolderOf, StageAt, PrepareAt, StartAt, LaunchAt, SeenAt, SeenOk, FilesOk, TruthIn,
             Starting, Preparing, Saving, Registering, Launching, Finalizing, Labels
<1> QED BY <1>3, <1>4, <1>5, <1>6, <1>7, <1>8, <1>9, <1>10, <1>11, OneWrites

(* The steps that write the observation, launch, or publish an artifact.   *)
LEMMA ObservePrepareStep ==
  ASSUME SupInv, NEW p \in Processes, ObservePrepare(p)
  PROVE  SupInv'
<1> DEFINE now == IF observation = None THEN FirstObservation ELSE observation
           q == [proc[p] EXCEPT !.pc = "leaving", !.answer = "prepared"]
<1>1. /\ proc[p].pc = "observe-prepare" /\ lock["adapter"] = p /\ lock' = lock
      /\ files' = files /\ artifacts' = artifacts /\ launches' = launches
      /\ proc \in [Processes -> Invocations] /\ proc[p] \in Invocations
      /\ files.prepareReceipt # None /\ proc[p].answer = None /\ SeenOk(files, proc[p].seen)
      /\ SupTypes /\ FilesOk(files) /\ ObservationInv
  BY OfOne DEF ObservePrepare, HoldOf, HolderOf, StageAt, PrepareAt, SupInv
<1>2. /\ now \in Observations /\ now # None /\ TruthIn(files, now)
      /\ now.emitted => now.phase = "started"
  <2>1. CASE observation = None
    <3>1. FirstObservation \in Observations
      BY DEF FirstObservation, Observations
    <3>2. /\ FirstObservation.phase = "prepared" /\ FirstObservation.attempts = 0
          /\ FirstObservation.result = Nobody /\ FirstObservation.emitted = FALSE
      BY DEF FirstObservation
    <3>3. TruthIn(files, FirstObservation)
      BY <1>1, <3>2 DEF TruthIn, SupTypes
    <3> QED BY <2>1, <3>1, <3>2, <3>3
  <2>2. CASE observation # None
    BY <1>1, <2>2 DEF ObservationInv, SupTypes
  <2> QED BY <2>1, <2>2
<1>3. /\ Only(p) /\ proc' \in [Processes -> Invocations] /\ observation' \in {observation, now}
      /\ proc'[p].seen = proc[p].seen /\ proc'[p].pc \in {"leaving", "throwing"}
      /\ proc'[p].answer \in {"prepared", "failed"}
  <2>1. CASE observation' = now /\ proc' = [proc EXCEPT ![p] = q]
    <3>1. q \in Invocations /\ q.pc = "leaving" /\ q.answer = "prepared" /\ q.seen = proc[p].seen
      <4>1. proc[p] \in Invocations /\ "leaving" \in Labels /\ "prepared" \in Answers
        BY <1>1 DEF Labels, Answers
      <4> QED BY <4>1 DEF Invocations
    <3>2. proc'[p] = q /\ Only(p) /\ proc' \in [Processes -> Invocations]
      BY <1>1, <2>1, <3>1 DEF Only
    <3> QED BY <2>1, <3>1, <3>2
  <2>2. CASE observation' \in {observation, now} /\ Throw(p, "failed")
    BY <1>1, <2>2, ThrowEdit DEF Keeps, Answers
  <2> QED BY <2>1, <2>2 DEF ObservePrepare
<1> HIDE DEF now, q
<1>4. SupTypes' /\ FilesOk(files)' /\ ObservationInv'
  <2>1. SupTypes'
    BY <1>1, <1>2, <1>3 DEF SupTypes
  <2>2. FilesOk(files)'
    BY <1>1 DEF FilesOk, AllWritten
  <2>3. ObservationInv'
    BY <1>1, <1>2, <1>3 DEF ObservationInv, TruthIn
  <2> QED BY <2>1, <2>2, <2>3
<1>5. HoldOf(p)'
  BY <1>3 DEF HoldOf
<1>6. HolderOf(p)'
  <2>1. SeenOk(files, proc[p].seen)'
    BY <1>1, <1>2, <1>3 DEF SeenOk, TruthIn
  <2> QED BY <1>3, <2>1
          DEF HolderOf, StageAt, ThrownAt, PrepareAt, StartAt, LaunchAt, SeenAt
<1> QED BY <1>1, <1>3, <1>4, <1>5, <1>6, OneMoves

(* The steps of one launch.                                                *)
LEMMA LaunchStep ==
  ASSUME SupInv, NEW p \in Processes, Launch(p)
  PROVE  SupInv'
<1>1. /\ proc[p].pc = "launch" /\ lock["adapter"] = p /\ lock' = lock
      /\ UNCHANGED <<files, observation, artifacts>> /\ launches = 0 /\ launches' = 1
      /\ proc \in [Processes -> Invocations] /\ proc[p] \in Invocations
      /\ proc[p].seen \in Observations /\ SeenOk(files, proc[p].seen)
      /\ proc[p].seen # None /\ proc[p].seen.phase = "prepared" /\ observation.phase = "prepared"
      /\ proc[p].answer = None /\ proc[p].request \in StartRequests
      /\ proc[p].request.manifest # None /\ StartAt(files, "launch", proc[p].request)
      /\ SupTypes /\ FilesOk(files) /\ ObservationInv
  <2>1. proc[p].pc = "launch" /\ proc[p].pc \in Starting /\ proc[p].pc \in Launching
    BY DEF Launch
  <2>2. /\ lock["adapter"] = p /\ HolderOf(p) /\ proc[p].answer = None
        /\ proc[p].request \in StartRequests /\ proc[p].seen # None
    BY <2>1, OfOne DEF HoldOf, HolderOf, StageAt, SeenAt
  <2>3. proc[p].request.manifest # None
    BY <2>2 DEF StartRequests
  <2>4. proc[p].seen \in Observations /\ launches = 0 /\ launches' = 1
    BY <2>1, <2>2, OfOne DEF Invocations, HolderOf, StageAt, LaunchAt, Launch
  <2> QED BY <2>1, <2>2, <2>3, <2>4, OfOne
      DEF Launch, HolderOf, StageAt, SeenAt, SupInv
<1>2. PICK label \in {"final-1", "incomplete"} :
        proc' = [proc EXCEPT ![p].pc = label, ![p].seen.attempts = @ + 1]
  BY DEF Launch
<1> DEFINE s == [proc[p].seen EXCEPT !.attempts = proc[p].seen.attempts + 1]
           q == [proc[p] EXCEPT !.pc = label, !.seen = s]
<1>3. /\ s \in Observations /\ s.phase = "prepared" /\ s.attempts = proc[p].seen.attempts + 1
      /\ s.result = proc[p].seen.result /\ s.emitted = proc[p].seen.emitted /\ s # None
      /\ proc[p].seen.attempts \in Nat
  BY <1>1 DEF Observations
<1>4. proc' = [proc EXCEPT ![p] = q]
  BY <1>1, <1>2 DEF Invocations
<1> HIDE DEF s
<1>5. /\ q \in Invocations /\ q.pc = label /\ q.seen = s /\ q.answer = None
      /\ q.request = proc[p].request
  <2>1. label \in Labels
    BY <1>1
  <2> HIDE DEF Labels
  <2> QED BY <1>1, <1>3, <2>1 DEF Invocations
<1>6. proc'[p] = q /\ Only(p) /\ proc' \in [Processes -> Invocations]
  BY <1>1, <1>4, <1>5 DEF Only
<1> HIDE DEF q
<1>7. SupTypes' /\ FilesOk(files)' /\ ObservationInv'
  <2>1. SupTypes'
    BY <1>1, <1>6 DEF SupTypes
  <2>2. FilesOk(files)'
    BY <1>1 DEF FilesOk, AllWritten, StartAt
  <2>3. observation # None => observation.attempts \in Nat
    BY <1>1 DEF SupTypes, Observations
  <2>4. ObservationInv'
    BY <1>1, <2>3 DEF ObservationInv, TruthIn
  <2> QED BY <2>1, <2>2, <2>4
<1>8. HoldOf(p)'
  BY <1>1, <1>5, <1>6 DEF HoldOf
<1>9. HolderOf(p)'
  <2>1. SeenOk(files, proc[p].seen)'
    BY <1>1, <1>3, <1>5, <1>6 DEF SeenOk, TruthIn
  <2> QED BY <1>1, <1>3, <1>5, <1>6, <2>1
          DEF HolderOf, StageAt, ThrownAt, PrepareAt, StartAt, LaunchAt, SeenAt, Answers
<1>10. proc'[p].answer # "receipt"
  BY <1>5, <1>6 DEF Answers
<1> QED BY <1>1, <1>6, <1>7, <1>8, <1>9, <1>10, OneMoves

(* One artifact is linked, or was there already, or could not be.          *)
LEMMA FinalizeStep ==
  ASSUME SupInv, NEW p \in Processes, NEW i \in 1 .. 4, Finalize(p, i)
  PROVE  SupInv'
<1> DEFINE here == <<"final-1", "final-2", "final-3", "final-4">>[i]
           a == Artifacts[i]
           next == IF i < 4 THEN <<"final-2", "final-3", "final-4">>[i] ELSE "save-started"
<1>0. i = 1 \/ i = 2 \/ i = 3 \/ i = 4
  OBVIOUS
<1>1. /\ \/ i = 1 /\ here = "final-1" /\ a = "registration" /\ next = "final-2"
         \/ i = 2 /\ here = "final-2" /\ a = "receipt" /\ next = "final-3"
         \/ i = 3 /\ here = "final-3" /\ a = "lifecycle" /\ next = "final-4"
         \/ i = 4 /\ here = "final-4" /\ a = "result" /\ next = "save-started"
  <2>1. CASE i = 1 BY <2>1 DEF Artifacts
  <2>2. CASE i = 2 BY <2>2 DEF Artifacts
  <2>3. CASE i = 3 BY <2>3 DEF Artifacts
  <2>4. CASE i = 4 BY <2>4 DEF Artifacts
  <2> QED BY <1>0, <2>1, <2>2, <2>3, <2>4
<1>2. /\ proc[p].pc = here /\ UNCHANGED <<files, observation, lock, launches>>
      /\ \/ /\ artifacts[a] = Nobody /\ artifacts' = [artifacts EXCEPT ![a] = p]
            /\ i < 4 /\ Goto(p, next)
         \/ /\ artifacts[a] = Nobody /\ artifacts' = [artifacts EXCEPT ![a] = p]
            /\ i = 4 /\ proc' = [proc EXCEPT ![p].pc = "save-started", ![p].seen.result = p]
         \/ /\ \/ artifacts' = artifacts
               \/ artifacts[a] = Nobody /\ artifacts' = [artifacts EXCEPT ![a] = p]
            /\ Goto(p, "incomplete")
  <2>1. proc[p].pc = here /\ UNCHANGED <<files, observation, lock, launches>>
    BY DEF Finalize
  <2>2. CASE /\ artifacts[a] = Nobody /\ artifacts' = [artifacts EXCEPT ![a] = p]
             /\ IF i < 4
                  THEN Goto(p, <<"final-2", "final-3", "final-4">>[i])
                  ELSE proc' = [proc EXCEPT ![p].pc = "save-started", ![p].seen.result = p]
    BY <1>0, <2>1, <2>2
  <2>3. CASE /\ artifacts' \in IF artifacts[a] = Nobody
                              THEN {artifacts, [artifacts EXCEPT ![a] = p]} ELSE {artifacts}
             /\ Goto(p, "incomplete")
    <3>1. CASE artifacts[a] = Nobody
      <4>1. artifacts' = artifacts \/ artifacts' = [artifacts EXCEPT ![a] = p]
        BY <2>3, <3>1
      <4> QED BY <2>1, <2>3, <3>1, <4>1
    <3>2. CASE artifacts[a] # Nobody
      <4>1. artifacts' = artifacts
        BY <2>3, <3>2
      <4> QED BY <2>1, <2>3, <4>1
    <3> QED BY <3>1, <3>2
  <2> QED BY <2>2, <2>3 DEF Finalize
<1> HIDE DEF here, a, next
<1>3. here \in Launching /\ here \in Starting /\ a \in ArtifactNames /\ next \in Labels
  BY <1>1 DEF ArtifactNames
<1>4. /\ lock["adapter"] = p /\ HolderOf(p) /\ proc[p].answer = None
      /\ proc[p].request \in StartRequests /\ proc[p].seen # None
      /\ proc \in [Processes -> Invocations] /\ proc[p] \in Invocations
      /\ SupTypes /\ FilesOk(files) /\ ObservationInv
  BY <1>2, <1>3, OfOne DEF HoldOf, HolderOf, StageAt, SeenAt, SupInv
<1>5. /\ proc[p].seen \in Observations /\ launches = 1 /\ SeenOk(files, proc[p].seen)
      /\ StartAt(files, here, proc[p].request) /\ LaunchAt(here)
      /\ proc[p].seen.phase = "prepared" /\ observation.phase = "prepared"
      /\ files.prepareReceipt # None /\ files.runtime.phase = "starting"
  BY <1>1, <1>2, <1>3, <1>4
  DEF Invocations, HolderOf, StageAt, LaunchAt, SeenAt, StartAt, StartRequests
<1>6. /\ artifacts' \in [ArtifactNames -> Processes \cup {Nobody}]
      /\ \A b \in ArtifactNames : artifacts[b] # Nobody => artifacts'[b] = artifacts[b]
      /\ artifacts' # artifacts => artifacts[a] = Nobody /\ artifacts'[a] = p
  BY <1>2, <1>3, <1>4 DEF SupTypes
<1>7. /\ Only(p) /\ proc' \in [Processes -> Invocations] /\ proc'[p].request = proc[p].request
      /\ proc'[p].answer = None
      /\ \/ proc'[p].pc = "incomplete" /\ proc'[p].seen = proc[p].seen
         \/ /\ i < 4 /\ proc'[p].pc = next /\ proc'[p].seen = proc[p].seen
            /\ artifacts[a] = Nobody /\ artifacts'[a] = p
         \/ /\ i = 4 /\ proc'[p].pc = "save-started" /\ artifacts[a] = Nobody /\ artifacts'[a] = p
            /\ proc'[p].seen = [proc[p].seen EXCEPT !.result = p]
  <2>1. CASE Goto(p, "incomplete")
    BY <1>4, <2>1, GotoEdit DEF Keeps
  <2>2. CASE i < 4 /\ Goto(p, next) /\ artifacts[a] = Nobody /\ artifacts' = [artifacts EXCEPT ![a] = p]
    BY <1>3, <1>4, <2>2, GotoEdit DEF Keeps, SupTypes
  <2>3. CASE /\ i = 4 /\ artifacts[a] = Nobody /\ artifacts' = [artifacts EXCEPT ![a] = p]
             /\ proc' = [proc EXCEPT ![p].pc = "save-started", ![p].seen.result = p]
    <3> DEFINE s == [proc[p].seen EXCEPT !.result = p]
               q == [proc[p] EXCEPT !.pc = "save-started", !.seen = s]
    <3>1. s \in Observations
      BY <1>5 DEF Observations
    <3>2. proc' = [proc EXCEPT ![p] = q]
      BY <1>4, <2>3 DEF Invocations
    <3> HIDE DEF s
    <3>3. /\ q \in Invocations /\ q.pc = "save-started" /\ q.seen = s /\ q.answer = None
          /\ q.request = proc[p].request
      <4>1. "save-started" \in Labels
        OBVIOUS
      <4> HIDE DEF Labels
      <4> QED BY <1>4, <3>1, <4>1 DEF Invocations
    <3>4. proc'[p] = q /\ Only(p) /\ proc' \in [Processes -> Invocations]
      BY <1>4, <3>2, <3>3 DEF Only
    <3>5. artifacts'[a] = p
      BY <1>3, <1>4, <2>3 DEF SupTypes
    <3> QED BY <2>3, <3>3, <3>4, <3>5 DEF s
  <2> QED BY <1>2, <2>1, <2>2, <2>3
<1>8. SupTypes' /\ FilesOk(files)' /\ ObservationInv'
  <2>1. SupTypes'
    BY <1>2, <1>4, <1>6, <1>7 DEF SupTypes
  <2>2. FilesOk(files)'
    BY <1>2, <1>4, <1>5 DEF FilesOk
  <2>3. observation # None /\ TruthIn(files, observation) /\ ~observation.emitted
    BY <1>4, <1>5 DEF ObservationInv, SeenOk
  <2>4. TruthIn(files, observation)'
    BY <1>2, <1>6, <2>3 DEF TruthIn, ArtifactNames
  <2> QED BY <1>2, <2>1, <2>2, <2>3, <2>4 DEF ObservationInv
<1>9. HoldOf(p)'
  <2>1. proc'[p].pc \in Launching
    BY <1>1, <1>7
  <2> QED BY <1>2, <1>4, <1>7, <2>1 DEF HoldOf
<1>10. HolderOf(p)'
  <2>1. /\ SeenOk(files, proc[p].seen)' /\ proc'[p].seen # None
        /\ proc'[p].seen.phase = "prepared"
    <3>1. TruthIn(files, proc[p].seen) /\ ~proc[p].seen.emitted /\ observation # None
      BY <1>4, <1>5 DEF SeenOk
    <3>2. proc[p].seen.result # Nobody => artifacts'["result"] = proc[p].seen.result
      BY <1>6, <3>1 DEF TruthIn, ArtifactNames
    <3>3. CASE proc'[p].seen = proc[p].seen
      BY <1>2, <1>4, <1>5, <3>1, <3>2, <3>3 DEF SeenOk, TruthIn
    <3>4. CASE /\ proc'[p].seen = [proc[p].seen EXCEPT !.result = p] /\ artifacts'["result"] = p
      <4>1. /\ proc'[p].seen \in Observations /\ proc'[p].seen.phase = proc[p].seen.phase
            /\ proc'[p].seen.attempts = proc[p].seen.attempts
            /\ proc'[p].seen.emitted = proc[p].seen.emitted /\ proc'[p].seen.result = p
        BY <1>5, <3>4 DEF Observations
      <4> QED BY <1>2, <1>5, <3>1, <3>4, <4>1 DEF SeenOk, TruthIn
    <3> QED BY <1>1, <1>7, <3>3, <3>4
  <2>2. LaunchAt(proc[p].pc)'
    <3>1. CASE proc'[p].pc = "incomplete"
      BY <1>2, <1>5, <3>1 DEF LaunchAt
    <3>2. CASE i < 4 /\ proc'[p].pc = next /\ artifacts'[a] = p
      BY <1>1, <1>2, <1>5, <1>6, <3>2 DEF LaunchAt, ArtifactNames
    <3>3. CASE i = 4 /\ proc'[p].pc = "save-started" /\ artifacts'[a] = p
      BY <1>1, <1>2, <1>5, <1>6, <3>3 DEF LaunchAt, ArtifactNames, AllWritten
    <3> QED BY <1>7, <3>1, <3>2, <3>3
  <2>3. proc'[p].pc \in Launching \ {"launch"}
    BY <1>1, <1>7
  <2>4. StartAt(files, proc[p].pc, proc[p].request)'
    BY <1>2, <1>3, <1>5, <1>7, <2>3 DEF StartAt
  <2>5. PrepareAt(files, proc[p].pc, proc[p].request)'
    BY <2>3 DEF PrepareAt
  <2>6. SeenAt(proc[p].pc, proc[p].seen)'
    BY <1>2, <1>5, <2>1 DEF SeenAt
  <2>7. ThrownAt(files, proc[p].pc, proc[p].answer)'
    BY <2>3 DEF ThrownAt
  <2> QED BY <2>1, <2>2, <2>4, <2>5, <2>6, <2>7 DEF HolderOf, StageAt
<1>11. proc'[p].answer # "receipt"
  BY <1>7 DEF Answers
<1> QED BY <1>2, <1>4, <1>7, <1>8, <1>9, <1>10, <1>11, OneMoves

LEMMA ObserveStartedStep ==
  ASSUME SupInv, NEW p \in Processes, ObserveStarted(p)
  PROVE  SupInv'
<1> DEFINE seen == proc[p].seen
           final == IF seen.result # Nobody THEN seen.result ELSE artifacts["result"]
           now == [seen EXCEPT !.phase = "started", !.result = final,
                               !.emitted = proc[p].fault # "lost-response"]
           told == IF proc[p].fault = "lost-response" THEN "lost" ELSE "receipt"
           q(w) == [proc[p] EXCEPT !.pc = "leaving", !.answer = w]
<1>1. /\ proc[p].pc = "observe-started" /\ UNCHANGED <<files, artifacts, lock, launches>>
      /\ proc \in [Processes -> Invocations] /\ proc[p] \in Invocations
      /\ SupTypes /\ FilesOk(files) /\ ObservationInv /\ HoldOf(p)
      /\ lock["adapter"] = p => HolderOf(p)
  BY OfOne DEF ObserveStarted, SupInv
<1>2. /\ lock["adapter"] = p /\ SeenOk(files, seen) /\ seen # None
      /\ files.startReceipt = proc[p].request /\ proc[p].request \in StartRequests
  BY <1>1 DEF HoldOf, HolderOf, StageAt, StartAt, SeenAt
<1>3. seen \in Observations /\ files.startReceipt # None
  BY <1>1, <1>2 DEF Invocations
<1>4. /\ files.prepareReceipt # None /\ files.runtime.phase = "started"
      /\ TruthIn(files, seen) /\ artifacts["result"] # Nobody /\ observation # None
      /\ artifacts["result"] \in Processes
  BY <1>1, <1>2, <1>3 DEF FilesOk, SeenOk, AllWritten, ArtifactNames, SupTypes
<1>5. final = artifacts["result"]
  BY <1>4 DEF TruthIn
<1>6. /\ now \in Observations /\ now # None /\ now.phase = "started"
      /\ now.result = artifacts["result"] /\ now.attempts = seen.attempts
  <2> HIDE DEF final, seen
  <2>1. now \in Observations /\ now.phase = "started" /\ now.result = final
        /\ now.attempts = seen.attempts
    BY <1>3, <1>4, <1>5 DEF Observations
  <2> QED BY <1>5, <2>1
<1>7. TruthIn(files, now)
  <2> HIDE DEF now
  <2> QED BY <1>3, <1>4, <1>6 DEF TruthIn
<1>8. \/ observation' = now /\ proc' = [proc EXCEPT ![p] = q(told)]
      \/ observation' \in {observation, now} /\ proc' = [proc EXCEPT ![p] = q("failed")]
  <2>1. final # Nobody
    BY <1>4, <1>5
  <2> QED BY <2>1 DEF ObserveStarted
<1>9. ASSUME NEW w \in {told, "failed"}
      PROVE  /\ q(w) \in Invocations /\ q(w).pc = "leaving" /\ q(w).answer = w
             /\ q(w).request = proc[p].request /\ q(w).seen = proc[p].seen
  BY <1>1 DEF Invocations, Answers
<1> HIDE DEF now, final, told, q, seen
<1>10. PICK w \in {told, "failed"} : proc' = [proc EXCEPT ![p] = q(w)]
  BY <1>8
<1>11. proc'[p] = q(w) /\ Only(p) /\ proc' \in [Processes -> Invocations]
  BY <1>1, <1>9, <1>10 DEF Only
<1>12. observation' \in {observation, now}
  BY <1>8
<1>13. /\ proc'[p].pc = "leaving" /\ proc'[p].request = proc[p].request
       /\ proc'[p].seen = proc[p].seen
  BY <1>9, <1>11
<1>14. SupTypes' /\ FilesOk(files)' /\ ObservationInv'
  <2>1. SupTypes'
    BY <1>1, <1>6, <1>11, <1>12 DEF SupTypes
  <2>2. FilesOk(files)'
    BY <1>1 DEF FilesOk, AllWritten
  <2>3. ObservationInv'
    BY <1>1, <1>6, <1>7, <1>12 DEF ObservationInv, TruthIn
  <2> QED BY <2>1, <2>2, <2>3
<1>15. HoldOf(p)'
  BY <1>13 DEF HoldOf
<1>16. HolderOf(p)'
  <2>1. SeenOk(files, proc[p].seen)'
    BY <1>1, <1>2, <1>4, <1>6, <1>12, <1>13 DEF SeenOk, TruthIn, seen
  <2> QED BY <1>13, <2>1
          DEF HolderOf, StageAt, ThrownAt, PrepareAt, StartAt, LaunchAt, SeenAt
<1> QED BY <1>1, <1>2, <1>3, <1>11, <1>13, <1>14, <1>15, <1>16, OneMoves

LEMMA ObserveFailureStep ==
  ASSUME SupInv, NEW p \in Processes, ObserveFailure(p)
  PROVE  SupInv'
<1> DEFINE now == [proc[p].seen EXCEPT !.phase = FailurePhase(p)]
<1>1. /\ proc[p].pc = "observe-failure" /\ UNCHANGED <<files, artifacts, lock, launches>>
      /\ observation' \in {observation, now}
      /\ Keeps(p) /\ proc'[p].pc = "leaving" /\ proc'[p].answer = proc[p].answer
      /\ proc[p] \in Invocations
      /\ SupTypes /\ FilesOk(files) /\ ObservationInv /\ HoldOf(p)
      /\ lock["adapter"] = p => HolderOf(p)
  BY OfOne, GotoEdit DEF ObserveFailure, SupInv
<1>2. /\ lock["adapter"] = p /\ SeenOk(files, proc[p].seen) /\ proc[p].seen # None
      /\ proc[p].answer = "incomplete" => files.runtime.phase \in {"starting", "incomplete"}
  BY <1>1 DEF HoldOf, HolderOf, StageAt, SeenAt, ThrownAt
<1>3. proc[p].seen \in Observations /\ TruthIn(files, proc[p].seen) /\ observation # None
      /\ ~proc[p].seen.emitted
  BY <1>1, <1>2 DEF Invocations, SeenOk
<1>4. /\ now \in Observations /\ now.phase = FailurePhase(p)
      /\ now.attempts = proc[p].seen.attempts /\ now.result = proc[p].seen.result
      /\ now.emitted = proc[p].seen.emitted
  BY <1>3 DEF Observations, FailurePhase
<1>5. now # None
  BY <1>4
<1> HIDE DEF now
<1>6. TruthIn(files, now) /\ ~now.emitted
  BY <1>2, <1>3, <1>4 DEF TruthIn, FailurePhase
<1>7. SupTypes' /\ FilesOk(files)' /\ ObservationInv'
  <2>1. SupTypes'
    BY <1>1, <1>4 DEF SupTypes, Keeps
  <2>2. FilesOk(files)'
    BY <1>1 DEF FilesOk, AllWritten
  <2>3. ObservationInv'
    BY <1>1, <1>5, <1>6 DEF ObservationInv, TruthIn
  <2> QED BY <2>1, <2>2, <2>3
<1>8. HoldOf(p)'
  BY <1>1 DEF HoldOf
<1>9. HolderOf(p)'
  <2>1. SeenOk(files, proc[p].seen)'
    BY <1>1, <1>2, <1>3, <1>5 DEF SeenOk, TruthIn, Keeps
  <2> QED BY <1>1, <2>1
          DEF HolderOf, StageAt, ThrownAt, PrepareAt, StartAt, LaunchAt, SeenAt
<1>10. proc'[p].answer = "receipt" =>
         files'.startReceipt # None /\ files'.startReceipt = proc'[p].request
  BY <1>1, OfOne DEF Keeps
<1> QED BY <1>1, <1>2, <1>7, <1>8, <1>9, <1>10, OneMoves DEF Keeps

LEMMA OperatorUnlocksStep ==
  ASSUME SupInv, NEW l \in {"adapter", "prepare"}, OperatorUnlocks(l)
  PROVE  SupInv'
<1>1. /\ UNCHANGED <<files, observation, artifacts, proc, launches>>
      /\ lock' = [lock EXCEPT ![l] = Nobody] /\ lock[l] # Nobody /\ proc[lock[l]].pc = "dead"
      /\ lock \in [{"adapter", "prepare"} -> Processes \cup {Nobody}]
  BY DEF OperatorUnlocks, SupInv, SupTypes
<1>2. SupTypes' /\ FilesOk(files)' /\ ObservationInv' /\ ReceiptInv'
  BY <1>1 DEF SupInv, SupTypes, FilesOk, ObservationInv, TruthIn, AllWritten, ReceiptInv
<1>3. HoldInv'
  <2>1. ASSUME NEW p \in Processes PROVE HoldOf(p)'
    <3>1. HoldOf(p)
      BY DEF SupInv, HoldInv
    <3>2. lock["adapter"] = p /\ proc[p].pc # "dead" => lock'["adapter"] = p
      BY <1>1
    <3> QED BY <1>1, <3>1, <3>2 DEF HoldOf
  <2> QED BY <2>1 DEF HoldInv
<1>4. HolderInv'
  <2>1. ASSUME NEW p \in Processes, lock'["adapter"] = p PROVE HolderOf(p)'
    <3>1. HolderOf(p)
      BY <1>1, <2>1 DEF SupInv, HolderInv
    <3> QED BY <1>1, <3>1
            DEF HolderOf, StageAt, ThrownAt, PrepareAt, StartAt, LaunchAt, SeenAt, SeenOk,
                TruthIn, AllWritten
  <2> QED BY <2>1 DEF HolderInv
<1> QED BY <1>2, <1>3, <1>4 DEF SupInv

LEMMA SupInductive == SupInv /\ [SupNext]_supVars => SupInv'
<1> SUFFICES ASSUME SupInv, [SupNext]_supVars PROVE SupInv'
  OBVIOUS
<1>1. ASSUME NEW p \in Processes, PrepareStep(p) PROVE SupInv'
  BY <1>1, BeginPrepareStep, CheckPreparedStep, SaveManifestStep, SavePreparedStep,
     SaveRuntimeStep, SavePrepareReceiptStep, PrepareReturnsStep, ObservePrepareStep
  DEF PrepareStep
<1>2. ASSUME NEW p \in Processes, StartStep(p) PROVE SupInv'
  <2>1. CASE \/ \E r \in StartRequests, f \in Faults : BeginStart(p, r, f)
             \/ Observe(p) \/ CheckStart(p) \/ SaveRegistration(p) \/ SavePacket(p)
             \/ SaveLifecycle(p) \/ Bind(p) \/ Admit(p) \/ SaveStarting(p)
    BY <2>1, BeginStartStep, ObserveStep, CheckStartStep, SaveRegistrationStep,
       SavePacketStep, SaveLifecycleStep, BindStep, AdmitStep, SaveStartingStep
  <2>2. CASE \/ Launch(p) \/ \E i \in 1 .. 4 : Finalize(p, i)
             \/ SaveIncomplete(p) \/ LaunchUnknown(p) \/ SaveStarted(p)
             \/ SaveStartReceipt(p) \/ StartReturns(p) \/ ObserveStarted(p)
    BY <2>2, LaunchStep, FinalizeStep, SaveIncompleteStep, LaunchUnknownStep,
       SaveStartedStep, SaveStartReceiptStep, StartReturnsStep, ObserveStartedStep
  <2> QED BY <1>2, <2>1, <2>2 DEF StartStep
<1>3. ASSUME NEW p \in Processes, SharedStep(p) PROVE SupInv'
  BY <1>3, LockAdapterStep, LockRunStep, GiveUpStep, UnwindRunStep, ObserveFailureStep,
     LeaveStep, DiesStep DEF SharedStep
<1>4. CASE UNCHANGED supVars
  BY <1>4
  DEF supVars, SupInv, SupTypes, HoldInv, HoldOf, FilesOk, ObservationInv, ReceiptInv,
      HolderInv, HolderOf, StageAt, ThrownAt, PrepareAt, StartAt, LaunchAt, SeenAt, SeenOk,
      TruthIn, AllWritten
<1> QED BY <1>1, <1>2, <1>3, <1>4, OperatorUnlocksStep DEF SupNext

(* The files of a run agree with each other, with the launch and with the  *)
(* step of the process that holds the lock, although any process dies      *)
(* anywhere and an operator removes the locks of the dead (organism-cast-  *)
(* supervisor.ts).                                                         *)
THEOREM SupervisorInvariance == SupSpec => []SupInv
  BY SupInitInv, SupInductive, PTL DEF SupSpec

(* launch() is called once, whatever fails, dies, times out or is retried, *)
(* and once a start request is bound the private files hold exactly its    *)
(* bytes.                                                                  *)
THEOREM LaunchedOnce == SupSpec => []LaunchedOnceAsBound
<1>1. SupInv => LaunchedOnceAsBound
  BY DEF SupInv, FilesOk, LaunchedOnceAsBound
<1> QED BY <1>1, SupervisorInvariance, PTL

(* What the supervisor tells of a cast is so: a start receipt, on disk or  *)
(* in an answer, is that of the one launch, and the observation never runs *)
(* ahead of the durable state.                                             *)
THEOREM ToldIsSo == SupSpec => []ToldTruly
<1>1. SupInv => ToldTruly
  <2> SUFFICES ASSUME SupInv PROVE ToldTruly
    OBVIOUS
  <2>1. StartReceiptIsTheLaunch
    BY DEF SupInv, FilesOk, AllWritten, SupTypes, ReceiptInv, StartReceiptIsTheLaunch
  <2>2. ObservationIsTrue
    BY DEF SupInv, ObservationInv, TruthIn, ObservationIsTrue
  <2> QED BY <2>1, <2>2 DEF ToldTruly
<1> QED BY <1>1, SupervisorInvariance, PTL

-----------------------------------------------------------------------------
(* `cast check` says ready of exactly the plans that can be run, for any   *)
(* lanes and profiles (organism-cast.ts).                                  *)
THEOREM ForecastTrue == PlanSpec => []CheckForecastsRun
<1> DEFINE PlanInv == manifest \in Candidates /\ darwin \in BOOLEAN
<1>1. PlanInit => PlanInv
  BY DEF PlanInit
<1>2. PlanInv /\ [PlanNext]_planVars => PlanInv'
  BY DEF PlanNext, planVars
<1>3. PlanInv => CheckForecastsRun
  <2> SUFFICES ASSUME PlanInv, Loads(manifest)
               PROVE  StructuralReady(manifest) <=>
                        /\ RunAccepts(manifest) \/ PrepareAccepts(manifest)
                        /\ Unspawnable(manifest) = {}
    BY DEF CheckForecastsRun
  <2>1. /\ manifest.arm \in Arms /\ manifest.version \in {"v1", "v2", "v3"}
        /\ manifest.matching \in BOOLEAN
    BY DEF Candidates
  <2>2. PtyReady(manifest) <=> Unspawnable(manifest) = {}
    BY DEF PtyReady, Unspawnable
  <2>3. manifest.version # "v1" => manifest.matching
    BY DEF Loads, Preregistered
  <2>4. manifest.arm = "bare" <=> manifest.arm # "organum"
    BY <2>1 DEF Arms
  <2> QED
    BY <2>1, <2>2, <2>3, <2>4
    DEF StructuralReady, RunAccepts, PrepareAccepts, TimeoutBound
<1> QED BY <1>1, <1>2, <1>3, PTL DEF PlanSpec

-----------------------------------------------------------------------------
(***************************************************************************)
(* FindingEvidence: receipts against ledgers, and receipts together.       *)
(***************************************************************************)
(* A set of numbers that is not empty has a least one.                     *)
LEMMA LeastNatural ==
  ASSUME NEW T \in SUBSET Nat, T # {}
  PROVE  \E m \in T : \A k \in T : ~(k < m)
<1>1. \E m \in T : \A k \in T : <<k, m>> \notin OpToRel(<, Nat)
  BY NatLessThanWellFounded, WFMin
<1>2. PICK m \in T : \A k \in T : <<k, m>> \notin OpToRel(<, Nat)
  BY <1>1
<1>3. ASSUME NEW k \in T, k < m PROVE <<k, m>> \in OpToRel(<, Nat)
  BY <1>3 DEF OpToRel
<1> QED BY <1>2, <1>3

(* The receipts are taken one after another, each into what the ones       *)
(* before it made.                                                         *)
LEMMA CoalesceStepByStep ==
  ASSUME NEW values, Len(values) \in Nat
  PROVE  \E f :
           /\ Coalesce(values) = f[Len(values)]
           /\ f[0] = [ok |-> TRUE, kept |-> <<>>]
           /\ \A n \in 1 .. Len(values) :
                f[n] = IF f[n - 1].ok THEN Coalesce1(f[n - 1].kept, values[n]) ELSE f[n - 1]
<1> DEFINE Climb(f, n) ==
             IF n = 0 THEN [ok |-> TRUE, kept |-> <<>>]
             ELSE IF f[n - 1].ok THEN Coalesce1(f[n - 1].kept, values[n]) ELSE f[n - 1]
           IsClimb(f, m) == f = [n \in 0 .. m |-> Climb(f, n)]
           Unclimbed == {m \in Nat : \A f : ~IsClimb(f, m)}
           up == CHOOSE f : IsClimb(f, Len(values))
<1>1. Coalesce(values) = up[Len(values)]
  BY DEF Coalesce
<1> HIDE DEF up, IsClimb, Unclimbed
<1>3. Unclimbed = {}
  <2> SUFFICES ASSUME Unclimbed # {} PROVE FALSE
    OBVIOUS
  <2>1. Unclimbed \in SUBSET Nat
    BY DEF Unclimbed
  <2>2. PICK m \in Unclimbed : \A k \in Unclimbed : ~(k < m)
    BY <2>1, LeastNatural
  <2>3. m \in Nat
    BY <2>1, <2>2
  <2>4. ASSUME NEW f PROVE ~IsClimb(f, m)
    BY <2>2 DEF Unclimbed
  <2>5. CASE m = 0
    <3>1. IsClimb([n \in 0 .. 0 |-> [ok |-> TRUE, kept |-> <<>>]], 0)
      BY DEF IsClimb
    <3> QED BY <2>4, <2>5, <3>1
  <2>6. CASE m # 0
    <3>1. m - 1 \in Nat /\ m - 1 < m
      BY <2>3, <2>6
    <3>2. m - 1 \notin Unclimbed
      BY <2>2, <3>1
    <3>3. PICK f : IsClimb(f, m - 1)
      BY <3>1, <3>2 DEF Unclimbed
    <3> DEFINE next == IF f[m - 1].ok THEN Coalesce1(f[m - 1].kept, values[m])
                       ELSE f[m - 1]
               g == [n \in 0 .. m |-> IF n < m THEN f[n] ELSE next]
    <3>4. \A n \in 0 .. (m - 1) : f[n] = Climb(f, n)
      BY <3>3 DEF IsClimb
    <3>5. /\ \A n \in 0 .. m : g[n] = IF n < m THEN f[n] ELSE next
          /\ g = [n \in 0 .. m |-> g[n]]
      OBVIOUS
    <3> HIDE DEF g
    <3>6. ASSUME NEW n \in 0 .. m PROVE g[n] = Climb(g, n)
      <4>0. n \in Int /\ 0 <= n /\ n <= m
        BY <2>3
      <4>1. CASE n = 0
        <5>1. n < m /\ n \in 0 .. (m - 1)
          BY <4>0, <4>1, <2>3, <2>6
        <5>2. g[n] = f[n] /\ f[n] = Climb(f, n)
          BY <5>1, <3>4, <3>5
        <5> QED BY <5>2, <4>1
      <4>2. CASE n # 0 /\ n < m
        <5>1. n \in 0 .. (m - 1) /\ n - 1 \in 0 .. m /\ n - 1 < m
          BY <4>0, <4>2, <2>3
        <5>2. g[n] = f[n] /\ g[n - 1] = f[n - 1]
          BY <5>1, <4>2, <3>5
        <5>3. f[n] = Climb(f, n)
          BY <5>1, <3>4
        <5> QED BY <5>2, <5>3, <4>2
      <4>3. CASE n = m
        <5>1. n - 1 \in 0 .. m /\ n - 1 < m
          BY <4>0, <4>3, <2>3, <2>6
        <5>2. g[n] = next /\ g[n - 1] = f[m - 1]
          BY <5>1, <4>3, <2>3, <3>5
        <5> QED BY <5>2, <4>3, <2>6
      <4> QED BY <4>0, <4>1, <4>2, <4>3, <2>3
    <3>7. g = [n \in 0 .. m |-> Climb(g, n)]
      BY <3>5, <3>6, Zenon
    <3> QED BY <3>7, <2>4 DEF IsClimb
  <2> QED BY <2>5, <2>6
<1>4. IsClimb(up, Len(values))
  <2>1. \E f : IsClimb(f, Len(values))
    BY <1>3 DEF Unclimbed
  <2> QED BY <2>1, Zenon DEF up
<1>5. \A n \in 0 .. Len(values) : up[n] = Climb(up, n)
  BY <1>4 DEF IsClimb
<1>6. up[0] = [ok |-> TRUE, kept |-> <<>>]
  BY <1>5
<1>7. ASSUME NEW n \in 1 .. Len(values)
      PROVE  up[n] = IF up[n - 1].ok THEN Coalesce1(up[n - 1].kept, values[n]) ELSE up[n - 1]
  <2>1. n \in 0 .. Len(values) /\ n # 0
    OBVIOUS
  <2> QED BY <1>5, <2>1
<1> QED BY <1>1, <1>6, <1>7

(* Two receipts that do not contradict each other. *)
Agree(a, b) ==
  /\ a.identity = b.identity => a = b
  /\ \/ a.dedup = b.dedup
     \/ a.event # NoTurn /\ a.event = b.event
     => a.identity = b.identity
AllAgree(values, n) == \A i, j \in 1 .. n : Agree(values[i], values[j])
(* What is kept of the first n receipts: each of them, nothing else, and   *)
(* no identity twice.                                                      *)
KeepsEach(values, n, kept) ==
  /\ \A i \in 1 .. n : \E k \in 1 .. Len(kept) : kept[k] = values[i]
  /\ \A k \in 1 .. Len(kept) : \E i \in 1 .. n : kept[k] = values[i]
  /\ \A k, l \in 1 .. Len(kept) : kept[k].identity = kept[l].identity => k = l
(* What coalescing the first n receipts comes to. *)
CoalescedUpTo(values, n, s) ==
  /\ s.kept \in Seq(Copies)
  /\ s.ok <=> AllAgree(values, n)
  /\ s.ok => KeepsEach(values, n, s.kept)

(* One more receipt is refused just when it contradicts one of those that  *)
(* came before it (coalesceFindingDeliveryReceipts).                       *)
LEMMA CoalesceOneMore ==
  ASSUME NEW values \in Seq(Copies), NEW n \in 1 .. Len(values), NEW s,
         CoalescedUpTo(values, n - 1, s)
  PROVE  CoalescedUpTo(values, n, IF s.ok THEN Coalesce1(s.kept, values[n]) ELSE s)
<1> DEFINE c == values[n]
           kept == s.kept
           known == \E i \in 1 .. Len(kept) : kept[i].identity = c.identity
<1>1. /\ c \in Copies /\ n \in Nat /\ n >= 1 /\ n \in 1 .. n
      /\ \A i \in 1 .. n : i \in 1 .. (n - 1) \/ i = n
      /\ \A i \in 1 .. (n - 1) : i \in 1 .. n
  <2>1. n \in Int /\ 1 <= n /\ n <= Len(values) /\ Len(values) \in Nat
    OBVIOUS
  <2> QED BY <2>1
<1>2. /\ kept \in Seq(Copies) /\ Len(kept) \in Nat
      /\ s.ok <=> AllAgree(values, n - 1)
      /\ s.ok => KeepsEach(values, n - 1, kept)
  BY DEF CoalescedUpTo
<1>3. AllAgree(values, n) => AllAgree(values, n - 1)
  BY <1>1, Zenon DEF AllAgree
<1>4. ASSUME AllAgree(values, n - 1), \A i \in 1 .. (n - 1) : Agree(values[i], c)
      PROVE  AllAgree(values, n)
  <2>1. \A i \in 1 .. (n - 1) : Agree(c, values[i])
    BY <1>4, Zenon DEF Agree
  <2>2. Agree(c, c)
    BY Zenon DEF Agree
  <2> HIDE DEF c
  <2> SUFFICES ASSUME NEW i \in 1 .. n, NEW j \in 1 .. n PROVE Agree(values[i], values[j])
    BY Zenon DEF AllAgree
  <2>3. c = values[n]
    BY DEF c
  <2> QED BY <1>1, <1>4, <2>1, <2>2, <2>3, Zenon DEF AllAgree
<1>5. CASE ~s.ok
  BY <1>2, <1>3, <1>5, Zenon DEF CoalescedUpTo
<1>6. CASE s.ok /\ known
  <2> DEFINE t == [ok |-> \E i \in 1 .. Len(kept) : kept[i] = c, kept |-> kept]
  <2>1. Coalesce1(kept, c) = t
    BY <1>6 DEF Coalesce1
  <2>2. KeepsEach(values, n - 1, kept)
    BY <1>2, <1>6
  <2>3. PICK k \in 1 .. Len(kept) : kept[k].identity = c.identity
    BY <1>6
  <2>4. PICK i \in 1 .. (n - 1) : kept[k] = values[i]
    BY <2>2, Zenon DEF KeepsEach
  <2>5. ASSUME AllAgree(values, n) PROVE kept[k] = c
    <3>1. Agree(values[i], values[n])
      BY <1>1, <2>5, Zenon DEF AllAgree
    <3> QED BY <2>3, <2>4, <3>1 DEF Agree
  <2>6. ASSUME NEW j \in 1 .. Len(kept), kept[j] = c
        PROVE  AllAgree(values, n) /\ KeepsEach(values, n, kept)
    <3>p. PICK l \in 1 .. (n - 1) : kept[j] = values[l]
      BY <2>2, Zenon DEF KeepsEach
    <3>1. c = values[l]
      BY <2>6, <3>p, Zenon
    <3>2. AllAgree(values, n - 1)
      BY <1>2, <1>6
    <3>3. \A m \in 1 .. (n - 1) : Agree(values[m], c)
      BY <3>1, <3>2, Zenon DEF AllAgree
    <3>4. AllAgree(values, n)
      BY <1>4, <3>2, <3>3
    <3>5. \A m \in 1 .. n : \E q \in 1 .. Len(kept) : kept[q] = values[m]
      BY <1>1, <2>2, <2>6, Zenon DEF KeepsEach
    <3>6. \A q \in 1 .. Len(kept) : \E m \in 1 .. n : kept[q] = values[m]
      BY <1>1, <2>2, Zenon DEF KeepsEach
    <3> QED BY <2>2, <3>4, <3>5, <3>6, Zenon DEF KeepsEach
  <2>7. t.ok <=> \E j \in 1 .. Len(kept) : kept[j] = c
    OBVIOUS
  <2>8. t.ok <=> AllAgree(values, n)
    BY <2>5, <2>6, <2>7, Zenon
  <2>9. t.ok => KeepsEach(values, n, kept)
    BY <2>6, <2>7, Zenon
  <2>10. t.kept = kept
    OBVIOUS
  <2> HIDE DEF t, c, kept
  <2>11. CoalescedUpTo(values, n, t)
    BY <1>2, <2>8, <2>9, <2>10 DEF CoalescedUpTo
  <2> QED BY <1>6, <2>1, <2>11 DEF c, kept
<1>7. CASE s.ok /\ ~known
  <2> DEFINE t == [ok |-> ~Replayed(kept, c), kept |-> Append(kept, c)]
  <2>1. Coalesce1(kept, c) = t
    BY <1>7 DEF Coalesce1
  <2>2. KeepsEach(values, n - 1, kept)
    BY <1>2, <1>7
  <2>3. ASSUME AllAgree(values, n) PROVE ~Replayed(kept, c)
    <3> SUFFICES ASSUME Replayed(kept, c) PROVE FALSE
      OBVIOUS
    <3>1. PICK k \in 1 .. Len(kept) :
            /\ kept[k].identity # c.identity
            /\ kept[k].dedup = c.dedup \/ (c.event # NoTurn /\ kept[k].event = c.event)
      BY DEF Replayed
    <3>2. PICK i \in 1 .. (n - 1) : kept[k] = values[i]
      BY <2>2, Zenon DEF KeepsEach
    <3>3. Agree(values[i], values[n])
      BY <1>1, <2>3, Zenon DEF AllAgree
    <3> QED BY <3>1, <3>2, <3>3 DEF Agree
  <2>4. ASSUME ~Replayed(kept, c) PROVE AllAgree(values, n)
    <3>1. ASSUME NEW i \in 1 .. (n - 1) PROVE Agree(values[i], c)
      <4>1. PICK k \in 1 .. Len(kept) : kept[k] = values[i]
        BY <2>2, Zenon DEF KeepsEach
      <4>2. kept[k].identity # c.identity
        BY <1>7
      <4>3. ~ (kept[k].dedup = c.dedup \/ (c.event # NoTurn /\ kept[k].event = c.event))
        BY <2>4, <4>2, Zenon DEF Replayed
      <4> QED BY <4>1, <4>2, <4>3 DEF Agree
    <3> QED BY <1>2, <1>4, <1>7, <3>1
  <2>5. KeepsEach(values, n, Append(kept, c))
    <3> DEFINE more == Append(kept, c)
    <3>1. /\ Len(more) = Len(kept) + 1
          /\ \A k \in 1 .. Len(kept) : k \in 1 .. Len(more) /\ more[k] = kept[k]
          /\ Len(more) \in 1 .. Len(more) /\ more[Len(more)] = c
          /\ \A k \in 1 .. Len(more) : k \in 1 .. Len(kept) \/ k = Len(more)
      BY <1>1, <1>2
    <3>2. ~known
      BY <1>7
    <3> HIDE DEF more, c, kept
    <3>3. \A k \in 1 .. Len(kept) : kept[k].identity # c.identity
      BY <3>2
    <3>4. c = values[n]
      BY DEF c
    <3>5. ASSUME NEW i \in 1 .. n PROVE \E k \in 1 .. Len(more) : more[k] = values[i]
      <4>1. CASE i \in 1 .. (n - 1)
        <5>1. PICK k \in 1 .. Len(kept) : kept[k] = values[i]
          BY <2>2, <4>1, Zenon DEF KeepsEach
        <5> QED BY <3>1, <5>1, Zenon
      <4>2. CASE i = n
        BY <3>1, <3>4, <4>2, Zenon
      <4> QED BY <1>1, <4>1, <4>2, Zenon
    <3>6. ASSUME NEW k \in 1 .. Len(more) PROVE \E i \in 1 .. n : more[k] = values[i]
      <4>1. CASE k \in 1 .. Len(kept)
        <5>1. PICK i \in 1 .. (n - 1) : kept[k] = values[i]
          BY <2>2, <4>1, Zenon DEF KeepsEach
        <5> QED BY <1>1, <3>1, <4>1, <5>1, Zenon
      <4>2. CASE k = Len(more)
        BY <1>1, <3>1, <3>4, <4>2, Zenon
      <4> QED BY <3>1, <4>1, <4>2, Zenon
    <3>7. ASSUME NEW k \in 1 .. Len(more), NEW l \in 1 .. Len(more),
                 more[k].identity = more[l].identity
          PROVE  k = l
      BY <2>2, <3>1, <3>3, <3>7, Zenon DEF KeepsEach
    <3>8. KeepsEach(values, n, more)
      BY <3>5, <3>6, <3>7, Zenon DEF KeepsEach
    <3> QED BY <3>8 DEF more
  <2>6. Append(kept, c) \in Seq(Copies)
    BY <1>1, <1>2
  <2>7. t.kept = Append(kept, c) /\ (t.ok <=> ~Replayed(kept, c))
    OBVIOUS
  <2>8. t.ok <=> AllAgree(values, n)
    BY <2>3, <2>4, <2>7, Zenon
  <2> HIDE DEF t, c, kept
  <2>9. CoalescedUpTo(values, n, t)
    BY <2>5, <2>6, <2>7, <2>8 DEF CoalescedUpTo
  <2> QED BY <1>7, <2>1, <2>9 DEF c, kept
<1> QED BY <1>5, <1>6, <1>7

(* However many receipts come together: there is no least number of them   *)
(* at which coalescing would come to something else.                       *)
LEMMA CoalesceAll ==
  ASSUME NEW values \in Seq(Copies)
  PROVE  CoalescedUpTo(values, Len(values), Coalesce(values))
<1>1. Len(values) \in Nat
  OBVIOUS
<1> DEFINE Steps(f) ==
             /\ Coalesce(values) = f[Len(values)]
             /\ f[0] = [ok |-> TRUE, kept |-> <<>>]
             /\ \A n \in 1 .. Len(values) :
                  f[n] = IF f[n - 1].ok THEN Coalesce1(f[n - 1].kept, values[n]) ELSE f[n - 1]
<1>2. PICK f : Steps(f)
  BY <1>1, CoalesceStepByStep
<1> DEFINE Wrong == {n \in 0 .. Len(values) : ~CoalescedUpTo(values, n, f[n])}
<1>3. CoalescedUpTo(values, 0, f[0])
  <2>1. f[0].ok = TRUE /\ f[0].kept = <<>> /\ <<>> \in Seq(Copies) /\ Len(<<>>) = 0
    BY <1>2
  <2>2. \A i \in 1 .. 0 : FALSE
    OBVIOUS
  <2>3. AllAgree(values, 0) /\ KeepsEach(values, 0, <<>>)
    BY <2>1, <2>2, Zenon DEF AllAgree, KeepsEach
  <2> QED BY <2>1, <2>3 DEF CoalescedUpTo
<1>4. Wrong = {}
  <2> SUFFICES ASSUME Wrong # {} PROVE FALSE
    OBVIOUS
  <2>1. Wrong \in SUBSET Nat
    BY <1>1
  <2> HIDE DEF Wrong
  <2>2. PICK n \in Wrong : \A k \in Wrong : ~(k < n)
    BY <2>1, LeastNatural
  <2>3. n \in 0 .. Len(values) /\ ~CoalescedUpTo(values, n, f[n])
    BY <2>2 DEF Wrong
  <2>4. n # 0
    BY <1>3, <2>3
  <2>5. n \in 1 .. Len(values) /\ n - 1 \in 0 .. Len(values) /\ n - 1 < n
    BY <1>1, <2>3, <2>4
  <2>6. n - 1 \notin Wrong
    BY <2>2, <2>5
  <2>7. CoalescedUpTo(values, n - 1, f[n - 1])
    BY <2>5, <2>6 DEF Wrong
  <2>8. f[n] = IF f[n - 1].ok THEN Coalesce1(f[n - 1].kept, values[n]) ELSE f[n - 1]
    BY <1>2, <2>5
  <2>9. CoalescedUpTo(values, n, f[n])
    BY <2>5, <2>7, <2>8, CoalesceOneMore
  <2> QED BY <2>3, <2>9
<1>5. Len(values) \in 0 .. Len(values)
  BY <1>1
<1>6. CoalescedUpTo(values, Len(values), f[Len(values)])
  BY <1>4, <1>5
<1> QED BY <1>2, <1>6

(* What a ledger can hold, whoever wrote it. *)
Told ==
  [seq : Nat, kind : {"finding_registered", "semantic_input"}, finding : Findings,
   digest : Digests, turn : Turns \cup {NoTurn}]
  \cup [seq : Nat, kind : {"target_terminal"}]
(* Only what validates was produced by a launch under the pinned route. *)
EvidenceInv ==
  /\ ledger \in Seq(Told)
  /\ batch \in Seq(Copies)
  /\ receipt # <<>> /\ receipt[1].route = Pinned =>
       Validates(ledger, complete, receipt[1])

(* A conclusive receipt that validates against a ledger of any length says *)
(* whether the model heard of its finding anywhere in that ledger: the one *)
(* registration comes before, and the terminal event is the last           *)
(* (validateFindingDeliveryEvidence).                                      *)
LEMMA ConclusiveMeansHeard ==
  ASSUME NEW es, Len(es) \in Nat, NEW isComplete, NEW r \in Receipts,
         r.outcome \in Conclusive, Validates(es, isComplete, r)
  PROVE  r.outcome = "delivered" <=> Heard(es, r.finding)
<1>1. /\ r.registered \in Nat /\ r.registered >= 1 /\ r.terminal \in Nat
      /\ r.outcome = "delivered" \/ r.outcome = "not_delivered"
  BY EventBound DEF Receipts, Conclusive
<1>2. CASE r.outcome = "delivered"
  BY <1>2 DEF Validates, At, Heard
<1>3. CASE r.outcome = "not_delivered"
  <2> SUFFICES ASSUME NEW j \in 1 .. Len(es),
                      es[j].kind = "semantic_input", es[j].finding = r.finding
               PROVE  FALSE
    BY <1>3 DEF Heard
  <2>1. r.registered < r.terminal /\ r.terminal # 0
    BY <1>1, <1>3 DEF Validates, ReceiptOrdered
  <2>2. r.terminal = Len(es)
    BY <2>1 DEF Validates, WellFormed, TerminalIsLast, At
  <2>3. es[Len(es)].kind = "target_terminal"
    BY <2>1, <2>2 DEF Validates, At
  <2>4. j \in Nat /\ 1 <= j /\ j < Len(es)
    BY <2>3
  <2>5. PICK i \in 1 .. j - 1 :
          /\ es[i].kind = "finding_registered"
          /\ es[i].finding = es[j].finding /\ es[i].digest = es[j].digest
    BY DEF Validates, WellFormed
  <2>6. i \in 1 .. Len(es) /\ i < j
    BY <2>4
  <2>7. /\ r.registered \in 1 .. Len(es) /\ es[r.registered].kind = "finding_registered"
        /\ es[r.registered].finding = r.finding /\ es[r.registered].digest = r.digest
    BY DEF Validates, At
  <2>8. i = r.registered
    BY <2>5, <2>6, <2>7 DEF Validates, WellFormed
  <2>9. es[j].digest = r.digest
    BY <2>5, <2>7, <2>8
  <2>10. j \in (r.registered + 1) .. (r.terminal - 1)
    BY <1>1, <2>2, <2>4, <2>6, <2>8
  <2> QED BY <1>3, <2>9, <2>10 DEF Validates, At
<1> QED BY <1>1, <1>2, <1>3

(* The ledger and the receipt that a launch produces fit each other        *)
(* (finalizeFindingDelivery).                                              *)
LEMMA FinalizedReceiptValidates ==
  ASSUME NEW kind \in Conclusive \cup {"unknown"}, NEW f \in Findings, NEW d \in Digests,
         NEW t \in Turns, FinalizeDelivery(kind, f, d, t, Pinned)
  PROVE  Validates(ledger', complete', receipt'[1])
<1> DEFINE registered == [seq |-> 1, kind |-> "finding_registered", finding |-> f,
                          digest |-> d, turn |-> NoTurn]
           input == [registered EXCEPT !.seq = 2, !.kind = "semantic_input",
                                       !.turn = t]
           es == CASE kind = "delivered" -> <<registered, input, Terminal(3)>>
                   [] kind = "not_delivered" -> <<registered, Terminal(2)>>
                   [] OTHER -> <<registered>>
           r == [outcome |-> kind, finding |-> f, digest |-> d, registered |-> 1,
                 input |-> 2, route |-> Pinned,
                 terminal |-> CASE kind = "delivered" -> 3
                                [] kind = "not_delivered" -> 2 [] OTHER -> 0,
                 event |-> IF kind = "delivered" THEN t ELSE NoTurn]
<1>1. /\ ledger' = es /\ receipt' = <<r>> /\ receipt'[1] = r
      /\ complete' = (kind \in Conclusive)
  BY DEF FinalizeDelivery
<1>2. t # NoTurn
  BY NoTurnIsNone
<1>r. /\ r.outcome = kind /\ r.finding = f /\ r.digest = d /\ r.registered = 1
      /\ r.input = 2 /\ r.route = Pinned
      /\ kind = "delivered" => r.terminal = 3 /\ r.event = t
      /\ kind = "not_delivered" => r.terminal = 2
      /\ kind = "unknown" => r.terminal = 0
  OBVIOUS
<1>c. kind \in Conclusive <=> kind # "unknown"
  BY DEF Conclusive
<1>d. ASSUME kind = "unknown" PROVE (kind \in Conclusive) = FALSE
  BY <1>d DEF Conclusive
<1>g. /\ registered.kind = "finding_registered" /\ registered.seq = 1
      /\ registered.finding = f /\ registered.digest = d
      /\ input.kind = "semantic_input" /\ input.seq = 2
      /\ input.finding = f /\ input.digest = d /\ input.turn = t
      /\ Terminal(2).kind = "target_terminal" /\ Terminal(2).seq = 2
      /\ Terminal(3).kind = "target_terminal" /\ Terminal(3).seq = 3
  BY DEF Terminal
<1>3. CASE kind = "delivered"
  <2> DEFINE es3 == <<registered, input, Terminal(3)>>
  <2>1. es = es3
    BY <1>3
  <2>2. /\ Len(es3) = 3 /\ 1 .. 3 = {1, 2, 3}
        /\ es3[1] = registered /\ es3[2] = input /\ es3[3] = Terminal(3)
    OBVIOUS
  <2> HIDE DEF es3, registered, input, r, es
  <2>4. WellFormed(es3, TRUE)
    BY <1>g, <2>2 DEF WellFormed, TerminalIsLast
  <2>5. Validates(es3, TRUE, r)
    <3>1. /\ At(es3, 1, "finding_registered") /\ At(es3, 2, "semantic_input")
          /\ At(es3, 3, "target_terminal")
      BY <1>g, <2>2 DEF At
    <3>2. ReceiptOrdered(r)
      BY <1>2, <1>3, <1>r DEF ReceiptOrdered
    <3>3. /\ es3[1].finding = f /\ es3[1].digest = d
          /\ es3[2].finding = f /\ es3[2].digest = d /\ es3[2].turn = t
      BY <1>g, <2>2
    <3>4. r.outcome = "delivered" /\ r.outcome # "not_delivered"
      BY <1>3, <1>r
    <3> QED BY <1>3, <1>r, <2>4, <3>1, <3>2, <3>3, <3>4 DEF Validates
  <2>6. complete' = TRUE
    BY <1>1, <1>3, <1>c
  <2> QED BY <1>1, <2>1, <2>5, <2>6
<1>4. CASE kind = "not_delivered"
  <2> DEFINE es2 == <<registered, Terminal(2)>>
  <2>1. es = es2
    BY <1>4
  <2>2. Len(es2) = 2 /\ 1 .. 2 = {1, 2} /\ es2[1] = registered /\ es2[2] = Terminal(2)
    OBVIOUS
  <2> HIDE DEF es2, registered, r, es
  <2>3. WellFormed(es2, TRUE)
    BY <1>g, <2>2 DEF WellFormed, TerminalIsLast
  <2>4. ~ \E i \in (r.registered + 1) .. (r.terminal - 1) : TRUE
    BY <1>4, <1>r
  <2>5. Validates(es2, TRUE, r)
    <3>1. At(es2, 1, "finding_registered") /\ At(es2, 2, "target_terminal")
      BY <1>g, <2>2 DEF At
    <3>2. ReceiptOrdered(r)
      BY <1>4, <1>r DEF ReceiptOrdered
    <3>3. es2[1].finding = f /\ es2[1].digest = d
      BY <1>g, <2>2
    <3>4. r.outcome # "delivered"
      BY <1>4, <1>r
    <3> QED BY <1>4, <1>r, <2>3, <2>4, <3>1, <3>2, <3>3, <3>4 DEF Validates
  <2>6. complete' = TRUE
    BY <1>1, <1>4, <1>c
  <2> QED BY <1>1, <2>1, <2>5, <2>6
<1>5. CASE kind = "unknown"
  <2> DEFINE es1 == <<registered>>
  <2>1. es = es1
    BY <1>5
  <2>2. Len(es1) = 1 /\ 1 .. 1 = {1} /\ es1[1] = registered
    OBVIOUS
  <2> HIDE DEF es1, registered, r, es
  <2>3. WellFormed(es1, FALSE)
    BY <1>g, <2>2 DEF WellFormed, TerminalIsLast
  <2>4. r.outcome \notin Conclusive
    BY <1>5, <1>r, <1>c
  <2>5. Validates(es1, FALSE, r)
    BY <1>5, <1>g, <1>r, <2>2, <2>3, <2>4 DEF Validates, ReceiptOrdered, At
  <2>6. complete' = FALSE
    BY <1>1, <1>5, <1>d
  <2> QED BY <1>1, <2>1, <2>5, <2>6
<1> QED BY <1>3, <1>4, <1>5 DEF Conclusive

(* The invariant of the evidence is inductive. *)
LEMMA EvidenceInvInductive ==
  /\ EvidenceInit => EvidenceInv
  /\ EvidenceInv /\ [EvidenceNext]_evidenceVars => EvidenceInv'
<1>1. EvidenceInit => EvidenceInv
  BY DEF EvidenceInit, EvidenceInv
<1>2. ASSUME EvidenceInv, [EvidenceNext]_evidenceVars PROVE EvidenceInv'
  <2>0. /\ ledger \in Seq(Told) /\ Len(ledger) \in Nat
        /\ batch \in Seq(Copies)
    BY <1>2 DEF EvidenceInv
  <2>1. ASSUME NEW e \in Events, PresentEvent(e) PROVE EvidenceInv'
    <3>1. e \in Told
      BY EventBound DEF Events, Told
    <3>2. ledger' \in Seq(Told)
      BY <2>0, <2>1, <3>1 DEF PresentEvent
    <3> QED BY <2>0, <2>1, <3>2 DEF PresentEvent, EvidenceInv
  <2>2. ASSUME PresentTerminal PROVE EvidenceInv'
    <3>1. Terminal(Len(ledger) + 1) \in Told
      BY <2>0 DEF Terminal, Told
    <3>2. ledger' \in Seq(Told)
      BY <2>0, <2>2, <3>1 DEF PresentTerminal
    <3> QED BY <2>0, <2>2, <3>2 DEF PresentTerminal, EvidenceInv
  <2>3. ASSUME PresentComplete PROVE EvidenceInv'
    BY <2>0, <2>3 DEF PresentComplete, EvidenceInv
  <2>4. ASSUME NEW kind \in Conclusive \cup {"unknown"}, NEW f \in Findings,
               NEW d \in Digests, NEW t \in Turns, NEW route \in Routes,
               FinalizeDelivery(kind, f, d, t, route)
        PROVE  EvidenceInv'
    <3> DEFINE registered == [seq |-> 1, kind |-> "finding_registered", finding |-> f,
                              digest |-> d, turn |-> NoTurn]
               input == [registered EXCEPT !.seq = 2, !.kind = "semantic_input",
                                       !.turn = t]
    <3>1. /\ registered \in Told /\ input \in Told
          /\ Terminal(2) \in Told /\ Terminal(3) \in Told
      BY DEF Told, Terminal
    <3>2. ledger' \in {<<registered, input, Terminal(3)>>, <<registered, Terminal(2)>>,
                       <<registered>>}
      BY <2>4 DEF FinalizeDelivery
    <3> HIDE DEF registered, input
    <3>3. ledger' \in Seq(Told)
      <4>1. /\ <<registered, input, Terminal(3)>> \in Seq(Told)
            /\ <<registered, Terminal(2)>> \in Seq(Told)
            /\ <<registered>> \in Seq(Told)
        BY <3>1
      <4> QED BY <3>2, <4>1, Zenon
    <3>4. batch' \in Seq(Copies) /\ receipt'[1].route = route
      BY <2>0, <2>4 DEF FinalizeDelivery
    <3>5. CASE route = Pinned
      <4>1. Validates(ledger', complete', receipt'[1])
        BY <2>4, <3>5, FinalizedReceiptValidates
      <4> QED BY <3>3, <3>4, <4>1 DEF EvidenceInv
    <3>6. CASE route # Pinned
      BY <3>3, <3>4, <3>6 DEF EvidenceInv
    <3> QED BY <3>5, <3>6
  <2>5. ASSUME NEW cp \in Copies, PresentReceipt(cp) PROVE EvidenceInv'
    <3>1. batch' \in Seq(Copies)
      BY <2>0, <2>5 DEF PresentReceipt
    <3> QED BY <2>0, <2>5, <3>1 DEF PresentReceipt, EvidenceInv
  <2>6. CASE UNCHANGED evidenceVars
    BY <1>2, <2>6 DEF evidenceVars, EvidenceInv
  <2> QED BY <1>2, <2>1, <2>2, <2>3, <2>4, <2>5, <2>6, Zenon DEF EvidenceNext
<1> QED BY <1>1, <1>2

(* Receipts are coalesced in any order alike. *)
LEMMA CoalescedWell ==
  ASSUME batch \in Seq(Copies)
  PROVE  CoalescingIgnoresOrder
<1> DEFINE n == Len(batch)
           s == Coalesce(batch)
           kept == s.kept
<1>1. /\ kept \in Seq(Copies) /\ Len(kept) \in Nat /\ n \in Nat
      /\ s.ok <=> AllAgree(batch, n)
      /\ s.ok => KeepsEach(batch, n, kept)
  BY CoalesceAll DEF CoalescedUpTo
<1> HIDE DEF s
<1>2. ASSUME s.ok PROVE ToSet(kept) = ToSet(batch) /\ IsInjective(kept)
  <2>1. KeepsEach(batch, n, kept)
    BY <1>1, <1>2
  <2>2. DOMAIN kept = 1 .. Len(kept) /\ DOMAIN batch = 1 .. n
    BY <1>1
  <2> HIDE DEF kept, n
  <2>3. ToSet(kept) = {kept[k] : k \in 1 .. Len(kept)}
    BY <2>2 DEF ToSet
  <2>4. ToSet(batch) = {batch[i] : i \in 1 .. n}
    BY <2>2 DEF ToSet
  <2>5. ToSet(kept) = ToSet(batch)
    <3>1. ASSUME NEW v \in ToSet(kept) PROVE v \in ToSet(batch)
      <4>1. PICK k \in 1 .. Len(kept) : v = kept[k]
        BY <2>3
      <4>2. PICK i \in 1 .. n : kept[k] = batch[i]
        BY <2>1, Zenon DEF KeepsEach
      <4> QED BY <2>4, <4>1, <4>2
    <3>2. ASSUME NEW v \in ToSet(batch) PROVE v \in ToSet(kept)
      <4>1. PICK i \in 1 .. n : v = batch[i]
        BY <2>4
      <4>2. PICK k \in 1 .. Len(kept) : kept[k] = batch[i]
        BY <2>1, Zenon DEF KeepsEach
      <4> QED BY <2>3, <4>1, <4>2
    <3> QED BY <3>1, <3>2, Zenon
  <2>6. IsInjective(kept)
    BY <2>1, <2>2 DEF KeepsEach, IsInjective
  <2> QED BY <2>5, <2>6
<1> QED BY <1>1, <1>2 DEF CoalescingIgnoresOrder, AllAgree, Agree, s

(* What a receipt says of a finding does not depend on the ledger it is    *)
(* read against nor on the order in which receipts come together, for      *)
(* ledgers and batches of any length (finding-delivery.ts).                *)
THEOREM EvidenceTrue == EvidenceSpec => []EvidenceAgrees
<1>1. EvidenceInv => EvidenceAgrees
  <2> SUFFICES ASSUME EvidenceInv PROVE EvidenceAgrees
    OBVIOUS
  <2>1. CoalescingIgnoresOrder
    BY CoalescedWell DEF EvidenceInv
  <2>2. ReceiptTellsTheLedger
    BY ConclusiveMeansHeard DEF EvidenceInv, ReceiptTellsTheLedger
  <2> QED BY <2>1, <2>2 DEF EvidenceAgrees
<1> QED BY <1>1, EvidenceInvInductive, PTL DEF EvidenceSpec
=============================================================================
