---------------------------- MODULE BrokerProofs ----------------------------
(***************************************************************************)
(* Proofs about the two parts of the inference broker: CastBroker, for     *)
(* every set of requests and every limit, and StreamBridge, for every      *)
(* number of calls, fragments, parts, requests and remembered signatures.  *)
(*                                                                         *)
(* CastBroker.  The inductive invariant says what holds BETWEEN requests:  *)
(* while nobody is past the grant of the slot, the staged turn is the      *)
(* lifecycle's turn and, when a request carried it, that request was       *)
(* answered (AtRest).  The single holder of the slot is what carries this  *)
(* over a request, and a queued waiter is what keeps a free slot from      *)
(* being missed.                                                           *)
(*                                                                         *)
(* StreamBridge.  While an answer streams, the stream object is Ready: it  *)
(* is Sound, that is each call of the provider has its slot, the slot has  *)
(* what was given of the call, and the events told of it say just that;    *)
(* or it is Doomed: a part without number and identifier has opened a slot *)
(* of its own, no part will ever name it, and finish() throws there.       *)
(***************************************************************************)
EXTENDS CastBroker, StreamBridge, FiniteSetTheorems, SequenceTheorems, WellFoundedInduction, TLAPS

(* Requests that hold a reservation, and those whose usage may still come.   *)
Reservers  == {r \in Requests : pc[r] \in Reserved}
Unrecorded == {r \in Requests : pc[r] \in Reserved /\ ~recorded[r]}

OneHolder == \A r, s \in Requests : pc[r] \in Holding /\ pc[s] \in Holding => r = s

Queued == \A r \in Requests :
            /\ pc[r] \in {"idle", "reading", "waiting"} => ~aborted[r]
            /\ pc[r] = "waiting" => \E i \in 1 .. Len(waiters) : waiters[i] = r

(* Between requests the lifecycle rests on an answered turn, on the CLI's    *)
(* unclaimed one, or on none, and stages exactly that.                       *)
AtRest ==
  (run # "finished" /\ \A r \in Requests : pc[r] \notin Holding \ {"granted"})
    => activeTurn = turnID /\ (requestID # Nobody => completed)

TurnFacts ==
  /\ turnID = NoTurn => requestID = Nobody
  /\ completed => turnID # NoTurn /\ requestID # Nobody /\ turnID \in answered
  /\ sequence # 0

HolderFacts ==
  \A r \in Requests :
    /\ pc[r] = "admitting" => mine[r] \in answered
    /\ pc[r] = "preparing" => mine[r] # NoTurn /\ ~completed /\ turnID = NoTurn
    /\ run # "finished" =>
         /\ pc[r] \in Working => Matches(r) /\ activeTurn = turnID
         /\ pc[r] = "admitting" => completed /\ activeTurn = turnID
         /\ pc[r] = "preparing" => activeTurn = NoTurn

SlotFacts ==
  run # "finished" =>
    /\ slotHeld <=> \E r \in Requests : pc[r] \in Holding
    /\ \A r \in Requests : pc[r] = "waiting" => slotHeld

RunFacts ==
  /\ run # "open" => \A r \in Requests : pc[r] # "reading"
  /\ run = "finishing" => completed /\ \A r \in Requests : pc[r] \notin Reserved
  /\ run = "finished" => \A r \in Requests : pc[r] # "waiting"

CountFacts ==
  /\ Cardinality(Reservers) <= active /\ active <= MaxConcurrent
  /\ run # "finished" => active = Cardinality(Reservers)
  /\ responses + Cardinality(Unrecorded) < MaxResponses + MaxConcurrent

IInv == /\ TypeOK /\ OneHolder /\ Queued /\ AtRest /\ TurnFacts /\ HolderFacts
        /\ SlotFacts /\ RunFacts /\ CountFacts /\ AckedMeansAnswered

-----------------------------------------------------------------------------
(***************************************************************************)
(* What leaving the slot does: it is free and nobody waits, or one waiter  *)
(* is granted it and the other waiters stay queued.                        *)
(***************************************************************************)
Freed(r, label) ==
  /\ pc' = [pc EXCEPT ![r] = label]
  /\ slotHeld' = FALSE /\ waiters' = <<>>
  /\ \A s \in Requests : pc[s] # "waiting"

Passed(r, label, w) ==
  /\ pc[w] = "waiting"
  /\ pc' = [pc EXCEPT ![r] = label, ![w] = "granted"]
  /\ slotHeld' = slotHeld /\ waiters' \in Seq(Requests)
  /\ \A s \in Requests \ {w} :
       pc[s] = "waiting" => \E i \in 1 .. Len(waiters') : waiters'[i] = s

LEMMA ReleaseFacts ==
  ASSUME TypeOK, Queued, NEW r \in Requests, NEW label, ReleaseSlot(r, label)
  PROVE  Freed(r, label) \/ \E w \in Requests : Passed(r, label, w)
<1> USE DEF TypeOK, Queued
<1>1. CASE \A i \in 1 .. Len(waiters) : pc[waiters[i]] # "waiting"
  <2>1. \A s \in Requests : pc[s] # "waiting"
    BY <1>1
  <2>2. ~\E i \in 1 .. Len(waiters) : IsNext(i)
    BY <1>1 DEF IsNext
  <2> QED BY <2>1, <2>2 DEF ReleaseSlot, Freed, Goto
<1>2. CASE ~\A i \in 1 .. Len(waiters) : pc[waiters[i]] # "waiting"
  <2>1. PICK i \in 1 .. Len(waiters) :
           /\ IsNext(i)
           /\ pc' = [pc EXCEPT ![r] = label, ![waiters[i]] = "granted"]
           /\ waiters' = SubSeq(waiters, i + 1, Len(waiters))
           /\ UNCHANGED slotHeld
    BY <1>2 DEF ReleaseSlot
  <2>2. /\ waiters[i] \in Requests /\ waiters' \in Seq(Requests)
        /\ Len(waiters') = Len(waiters) - i
        /\ \A k \in 1 .. Len(waiters) - i : waiters'[k] = waiters[k + i]
    <3>1. waiters \in Seq(Requests) /\ Len(waiters) \in Nat /\ i \in 1 .. Len(waiters)
      OBVIOUS
    <3>2. waiters[i] \in Requests
      BY <3>1
    <3>3. /\ SubSeq(waiters, i + 1, Len(waiters)) \in Seq(Requests)
          /\ Len(SubSeq(waiters, i + 1, Len(waiters))) = Len(waiters) - i
      BY <3>1
    <3>4. ASSUME NEW k \in 1 .. Len(waiters) - i
          PROVE  SubSeq(waiters, i + 1, Len(waiters))[k] = waiters[k + i]
      BY <3>1
    <3> QED BY <2>1, <3>2, <3>3, <3>4
  <2>3. ASSUME NEW s \in Requests \ {waiters[i]}, pc[s] = "waiting"
        PROVE  \E k \in 1 .. Len(waiters') : waiters'[k] = s
    <3>1. PICK j \in 1 .. Len(waiters) : waiters[j] = s
      BY <2>3
    <3>2. j > i
      <4>1. j # i /\ ~(j \in 1 .. i - 1)
        BY <2>1, <2>3, <3>1 DEF IsNext
      <4> QED BY <4>1
    <3>3. Len(waiters) \in Nat /\ i \in Nat /\ j \in Nat /\ j <= Len(waiters)
      OBVIOUS
    <3>4. j - i \in 1 .. Len(waiters') /\ (j - i) + i = j
      BY <2>2, <3>2, <3>3
    <3>5. waiters'[j - i] = waiters[j]
      BY <2>2, <3>4
    <3> QED BY <3>1, <3>4, <3>5
  <2> QED BY <2>1, <2>2, <2>3 DEF Passed, IsNext
<1> QED BY <1>1, <1>2

(***************************************************************************)
(* The handler steps that leave the slot: they end with Left, or go on     *)
(* with the slot held (PreviousAdmitted of a turn that is still staged).   *)
(***************************************************************************)
Left(r) == Freed(r, "done") \/ \E w \in Requests : Passed(r, "done", w)

Leaving(r) == \/ LifecycleFails(r) \/ CompleteAnswered(r) \/ CompleteUnanswered(r)
              \/ PreviousAdmitted(r) /\ activeTurn = NoTurn

LEMMA LeavesSlot ==
  ASSUME IInv, NEW r \in Requests, Leaving(r)
  PROVE  /\ Left(r) /\ pc[r] \in Holding
         /\ aborted' = aborted /\ recorded' = recorded /\ run' = run
         /\ ReleaseGuard /\ responses' = responses /\ sequence' = sequence
         /\ mine' = mine
<1> USE DEF Leaving, LifecycleFails, CompleteAnswered, CompleteUnanswered, PreviousAdmitted
<1>1. ReleaseSlot(r, "done")
  OBVIOUS
<1>2. TypeOK /\ Queued
  BY DEF IInv
<1>3. Left(r)
  BY <1>1, <1>2, ReleaseFacts DEF Left
<1> QED BY <1>3 DEF Holding, Working, turnVars

-----------------------------------------------------------------------------
(* The type invariant in parts that the provers take one at a time.          *)
FlowType == /\ pc \in [Requests -> {"idle", "reading", "done"} \cup Reserved]
            /\ aborted \in [Requests -> BOOLEAN] /\ recorded \in [Requests -> BOOLEAN]
            /\ mine \in [Requests -> Nat]
NumberType == /\ admitted \in Nat /\ active \in Nat /\ responses \in Nat
              /\ turnID \in Nat /\ sequence \in Nat /\ activeTurn \in Nat
QueueType == slotHeld \in BOOLEAN /\ waiters \in Seq(Requests)
RestType == /\ completed \in BOOLEAN /\ requestID \in Requests \cup {Nobody}
            /\ run \in {"open", "settling", "finishing", "finished"}
            /\ answered \subseteq Nat /\ acked \subseteq Nat

LEMMA TypeInParts == TypeOK <=> FlowType /\ NumberType /\ QueueType /\ RestType
BY DEF TypeOK, FlowType, NumberType, QueueType, RestType

LEMMA NumberTypeStep ==
  ASSUME IInv, [Next]_vars
  PROVE  NumberType'
<1> USE DEF IInv, TypeOK, NumberType, Holding, Working, Reserved, NoTurn,
        requestVars, guardVars, slotVars, turnVars, history
<1>1. ASSUME NEW r \in Requests,
             \/ Arrive(r) \/ Refuse(r) \/ Dispatch(r) \/ Answer(r)
             \/ RecordUsage(r) \/ StreamEnds(r) \/ ProviderFails(r)
      PROVE  NumberType'
  BY <1>1 DEF Arrive, Refuse, Dispatch, Answer, RecordUsage, StreamEnds,
     ProviderFails, Goto
<1>2. ASSUME NEW r \in Requests,
             \/ ClaimFirst(r) \/ AdmitPrevious(r)
             \/ StartTurn(r) \/ TurnPrepared(r)
      PROVE  NumberType'
  BY <1>2 DEF ClaimFirst, AdmitPrevious, StartTurn, TurnPrepared, Goto
<1>3. ASSUME NEW r \in Requests, Reserve(r) PROVE NumberType'
  BY <1>3 DEF Reserve, Goto
<1>4. ASSUME NEW r \in Requests, CompleteThrows(r) PROVE NumberType'
  BY <1>4 DEF CompleteThrows, Goto
<1>5. ASSUME NEW r \in Requests, Abort(r) PROVE NumberType'
  BY <1>5 DEF Abort, Goto, ReleaseGuard
<1>6. ASSUME NEW r \in Requests, Leaving(r) PROVE NumberType'
  BY <1>6 DEF Leaving, LifecycleFails, CompleteAnswered, CompleteUnanswered,
     PreviousAdmitted, ReleaseGuard, Clear
<1>7. ASSUME NEW r \in Requests, PreviousAdmitted(r), activeTurn # NoTurn
      PROVE  NumberType'
  BY <1>7 DEF PreviousAdmitted, Goto, Clear
<1>8. CASE WindUp
  BY <1>8 DEF WindUp, Exit, FinishAdmits, FinishAdmitted, FinishFails,
     FinishDiscards, Settled, Clear
<1>9. CASE UNCHANGED vars
  BY <1>9 DEF vars
<1> QED
  BY <1>1, <1>2, <1>3, <1>4, <1>5, <1>6, <1>7, <1>8, <1>9
     DEF Next, Handle, Leaving

LEMMA FlowTypeStep ==
  ASSUME IInv, [Next]_vars
  PROVE  FlowType'
<1> USE DEF IInv, TypeOK, FlowType, Holding, Working, Reserved, NoTurn,
        requestVars, guardVars, slotVars, turnVars, history
<1>1. ASSUME NEW r \in Requests,
             \/ Arrive(r) \/ Refuse(r) \/ Dispatch(r) \/ Answer(r)
             \/ RecordUsage(r) \/ StreamEnds(r) \/ ProviderFails(r)
      PROVE  FlowType'
  BY <1>1 DEF Arrive, Refuse, Dispatch, Answer, RecordUsage, StreamEnds,
     ProviderFails, Goto
<1>2. ASSUME NEW r \in Requests,
             \/ ClaimFirst(r) \/ AdmitPrevious(r)
             \/ StartTurn(r) \/ TurnPrepared(r)
      PROVE  FlowType'
  <2>1. sequence' \in Nat
    BY NumberTypeStep DEF NumberType
  <2> QED BY <1>2, <2>1 DEF ClaimFirst, AdmitPrevious, StartTurn, TurnPrepared, Goto, Clear
<1>3. ASSUME NEW r \in Requests, Reserve(r) PROVE FlowType'
  BY <1>3 DEF Reserve, Goto
<1>4. ASSUME NEW r \in Requests, CompleteThrows(r) PROVE FlowType'
  BY <1>4 DEF CompleteThrows, Goto
<1>5. ASSUME NEW r \in Requests, Abort(r) PROVE FlowType'
  BY <1>5 DEF Abort, Goto, ReleaseGuard
<1>6. ASSUME NEW r \in Requests, Leaving(r) PROVE FlowType'
  <2>1. CASE Freed(r, "done")
    BY <1>6, <2>1, LeavesSlot DEF Freed
  <2>2. ASSUME NEW w \in Requests, Passed(r, "done", w) PROVE FlowType'
    BY <1>6, <2>2, LeavesSlot DEF Passed
  <2> QED BY <1>6, <2>1, <2>2, LeavesSlot DEF Left
<1>7. ASSUME NEW r \in Requests, PreviousAdmitted(r), activeTurn # NoTurn
      PROVE  FlowType'
  <2>1. sequence' \in Nat
    BY NumberTypeStep DEF NumberType
  <2> QED BY <1>7, <2>1 DEF PreviousAdmitted, Goto, Clear
<1>8. CASE WindUp
  BY <1>8 DEF WindUp, Exit, FinishAdmits, FinishAdmitted, FinishFails,
     FinishDiscards, Settled, Clear
<1>9. CASE UNCHANGED vars
  BY <1>9 DEF vars
<1> QED
  BY <1>1, <1>2, <1>3, <1>4, <1>5, <1>6, <1>7, <1>8, <1>9
     DEF Next, Handle, Leaving

LEMMA NoWaiters == <<>> \in Seq(Requests)
OBVIOUS

LEMMA QueueTypeStep ==
  ASSUME IInv, [Next]_vars
  PROVE  QueueType'
<1> USE NoWaiters DEF IInv, TypeOK, QueueType, Holding, Working, Reserved,
        NoTurn, requestVars, guardVars, slotVars, turnVars, history
<1>1. ASSUME NEW r \in Requests,
             \/ Arrive(r) \/ Refuse(r) \/ Dispatch(r) \/ Answer(r)
             \/ RecordUsage(r) \/ StreamEnds(r) \/ ProviderFails(r)
      PROVE  QueueType'
  BY <1>1 DEF Arrive, Refuse, Dispatch, Answer, RecordUsage, StreamEnds,
     ProviderFails, Goto
<1>2. ASSUME NEW r \in Requests,
             \/ ClaimFirst(r) \/ AdmitPrevious(r)
             \/ StartTurn(r) \/ TurnPrepared(r)
      PROVE  QueueType'
  BY <1>2 DEF ClaimFirst, AdmitPrevious, StartTurn, TurnPrepared, Goto
<1>3. ASSUME NEW r \in Requests, Reserve(r) PROVE QueueType'
  <2>1. CASE slotHeld
    <3>1. waiters \in Seq(Requests) /\ Append(waiters, r) \in Seq(Requests)
      BY DEF TypeOK
    <3> QED BY <1>3, <2>1, <3>1 DEF Reserve
  <2>2. CASE ~slotHeld
    BY <1>3, <2>2 DEF Reserve
  <2> QED BY <2>1, <2>2
<1>4. ASSUME NEW r \in Requests, CompleteThrows(r) PROVE QueueType'
  BY <1>4 DEF CompleteThrows, Goto
<1>5. ASSUME NEW r \in Requests, Abort(r) PROVE QueueType'
  BY <1>5 DEF Abort, Goto, ReleaseGuard
<1>6. ASSUME NEW r \in Requests, Leaving(r) PROVE QueueType'
  <2>1. CASE Freed(r, "done")
    BY <1>6, <2>1, LeavesSlot DEF Freed
  <2>2. ASSUME NEW w \in Requests, Passed(r, "done", w) PROVE QueueType'
    BY <1>6, <2>2, LeavesSlot DEF Passed
  <2> QED BY <1>6, <2>1, <2>2, LeavesSlot DEF Left
<1>7. ASSUME NEW r \in Requests, PreviousAdmitted(r), activeTurn # NoTurn
      PROVE  QueueType'
  BY <1>7 DEF PreviousAdmitted, Goto, Clear
<1>8. CASE WindUp
  BY <1>8 DEF WindUp, Exit, FinishAdmits, FinishAdmitted, FinishFails,
     FinishDiscards, Settled, Clear
<1>9. CASE UNCHANGED vars
  BY <1>9 DEF vars
<1> QED
  BY <1>1, <1>2, <1>3, <1>4, <1>5, <1>6, <1>7, <1>8, <1>9
     DEF Next, Handle, Leaving

LEMMA RestTypeStep ==
  ASSUME IInv, [Next]_vars
  PROVE  RestType'
<1> USE DEF IInv, TypeOK, RestType, Holding, Working, Reserved, NoTurn,
        requestVars, guardVars, slotVars, turnVars, history
<1>1. ASSUME NEW r \in Requests,
             \/ Arrive(r) \/ Refuse(r) \/ Dispatch(r) \/ Answer(r)
             \/ RecordUsage(r) \/ StreamEnds(r) \/ ProviderFails(r)
      PROVE  RestType'
  BY <1>1 DEF Arrive, Refuse, Dispatch, Answer, RecordUsage, StreamEnds,
     ProviderFails, Goto
<1>2. ASSUME NEW r \in Requests,
             \/ ClaimFirst(r) \/ AdmitPrevious(r)
             \/ StartTurn(r) \/ TurnPrepared(r)
      PROVE  RestType'
  BY <1>2 DEF ClaimFirst, AdmitPrevious, StartTurn, TurnPrepared, Goto
<1>3. ASSUME NEW r \in Requests, Reserve(r) PROVE RestType'
  BY <1>3 DEF Reserve, Goto
<1>4. ASSUME NEW r \in Requests, CompleteThrows(r) PROVE RestType'
  BY <1>4 DEF CompleteThrows, Goto
<1>5. ASSUME NEW r \in Requests, Abort(r) PROVE RestType'
  BY <1>5 DEF Abort, Goto, ReleaseGuard
<1>6. ASSUME NEW r \in Requests, Leaving(r) PROVE RestType'
  BY <1>6 DEF Leaving, LifecycleFails, CompleteAnswered, CompleteUnanswered,
     PreviousAdmitted, ReleaseGuard, Clear
<1>7. ASSUME NEW r \in Requests, PreviousAdmitted(r), activeTurn # NoTurn
      PROVE  RestType'
  BY <1>7 DEF PreviousAdmitted, Goto, Clear
<1>8. CASE WindUp
  BY <1>8 DEF WindUp, Exit, FinishAdmits, FinishAdmitted, FinishFails,
     FinishDiscards, Settled, Clear
<1>9. CASE UNCHANGED vars
  BY <1>9 DEF vars
<1> QED
  BY <1>1, <1>2, <1>3, <1>4, <1>5, <1>6, <1>7, <1>8, <1>9
     DEF Next, Handle, Leaving

LEMMA TypeStep == IInv /\ [Next]_vars => TypeOK'
BY NumberTypeStep, FlowTypeStep, QueueTypeStep, RestTypeStep, TypeInParts
   DEF FlowType, NumberType, QueueType, RestType, TypeOK

-----------------------------------------------------------------------------
(* At most one request works under the slot. *)
LEMMA HolderStep ==
  ASSUME IInv, [Next]_vars
  PROVE  OneHolder'
<1> USE DEF IInv, TypeOK, OneHolder, SlotFacts, RunFacts, Holding, Working,
        Reserved, NoTurn, requestVars, guardVars, slotVars, turnVars, history
<1>1. ASSUME NEW r \in Requests, Arrive(r) \/ Refuse(r) PROVE OneHolder'
  BY <1>1 DEF Arrive, Refuse, Goto
<1>2. ASSUME NEW r \in Requests, Dispatch(r) PROVE OneHolder'
  BY <1>2 DEF Dispatch, Goto
<1>3. ASSUME NEW r \in Requests, Answer(r) PROVE OneHolder'
  BY <1>3 DEF Answer, Goto
<1>4. ASSUME NEW r \in Requests, StreamEnds(r) PROVE OneHolder'
  BY <1>4 DEF StreamEnds, Goto
<1>5. ASSUME NEW r \in Requests, ProviderFails(r) PROVE OneHolder'
  BY <1>5 DEF ProviderFails, Goto
<1>6. ASSUME NEW r \in Requests, RecordUsage(r) PROVE OneHolder'
  BY <1>6 DEF RecordUsage, Goto
<1>7. ASSUME NEW r \in Requests,
             \/ ClaimFirst(r) \/ AdmitPrevious(r)
             \/ StartTurn(r) \/ TurnPrepared(r)
      PROVE  OneHolder'
  BY <1>7 DEF ClaimFirst, AdmitPrevious, StartTurn, TurnPrepared, Goto
<1>8. ASSUME NEW r \in Requests, Reserve(r) PROVE OneHolder'
  BY <1>8 DEF Reserve, Goto
<1>9. ASSUME NEW r \in Requests, CompleteThrows(r) PROVE OneHolder'
  BY <1>9 DEF CompleteThrows, Goto
<1>10. ASSUME NEW r \in Requests, Abort(r) PROVE OneHolder'
  BY <1>10 DEF Abort, Goto, ReleaseGuard
<1>11. ASSUME NEW r \in Requests, Leaving(r) PROVE OneHolder'
  <2>1. CASE Freed(r, "done")
    BY <1>11, <2>1, LeavesSlot DEF Freed
  <2>2. ASSUME NEW w \in Requests, Passed(r, "done", w) PROVE OneHolder'
    <3>1. ASSUME NEW s \in Requests, s # w PROVE pc'[s] \notin Holding
      <4>1. CASE s = r
        BY <2>2, <3>1, <4>1 DEF Passed
      <4>2. CASE s # r
        BY <1>11, <2>2, <3>1, <4>2, LeavesSlot DEF Passed
      <4> QED BY <4>1, <4>2
    <3> QED BY <3>1
  <2> QED BY <1>11, <2>1, <2>2, LeavesSlot DEF Left
<1>12. ASSUME NEW r \in Requests, PreviousAdmitted(r), activeTurn # NoTurn
      PROVE  OneHolder'
  BY <1>12 DEF PreviousAdmitted, Goto, Clear
<1>13. CASE WindUp
  BY <1>13 DEF WindUp, Exit, FinishAdmits, FinishAdmitted, FinishFails,
     FinishDiscards, Settled, Clear
<1>14. CASE UNCHANGED vars
  BY <1>14 DEF vars
<1> QED
  BY <1>1, <1>2, <1>3, <1>4, <1>5, <1>6, <1>7, <1>8, <1>9, <1>10, <1>11, <1>12, <1>13, <1>14
     DEF Next, Handle, Leaving

(* The slot is held exactly while one request works under it. *)
LEMMA SlotStep ==
  ASSUME IInv, [Next]_vars
  PROVE  SlotFacts'
<1> USE DEF IInv, TypeOK, OneHolder, SlotFacts, RunFacts, Holding, Working,
        Reserved, NoTurn, requestVars, guardVars, slotVars, turnVars, history
<1>1. ASSUME NEW r \in Requests,
             \/ Arrive(r) \/ Refuse(r) \/ Dispatch(r) \/ Answer(r)
             \/ RecordUsage(r) \/ StreamEnds(r) \/ ProviderFails(r)
      PROVE  SlotFacts'
  BY <1>1 DEF Arrive, Refuse, Dispatch, Answer, RecordUsage, StreamEnds,
     ProviderFails, Goto
<1>2. ASSUME NEW r \in Requests,
             \/ ClaimFirst(r) \/ AdmitPrevious(r)
             \/ StartTurn(r) \/ TurnPrepared(r)
      PROVE  SlotFacts'
  BY <1>2 DEF ClaimFirst, AdmitPrevious, StartTurn, TurnPrepared, Goto
<1>3. ASSUME NEW r \in Requests, Reserve(r) PROVE SlotFacts'
  BY <1>3 DEF Reserve, Goto
<1>4. ASSUME NEW r \in Requests, CompleteThrows(r) PROVE SlotFacts'
  BY <1>4 DEF CompleteThrows, HolderFacts
<1>5. ASSUME NEW r \in Requests, Abort(r) PROVE SlotFacts'
  BY <1>5 DEF Abort, Goto, ReleaseGuard
<1>6. ASSUME NEW r \in Requests, Leaving(r) PROVE SlotFacts'
  <2>1. CASE Freed(r, "done")
    BY <1>6, <2>1, LeavesSlot DEF Freed
  <2>2. ASSUME NEW w \in Requests, Passed(r, "done", w) PROVE SlotFacts'
    BY <1>6, <2>2, LeavesSlot DEF Passed
  <2> QED BY <1>6, <2>1, <2>2, LeavesSlot DEF Left
<1>7. ASSUME NEW r \in Requests, PreviousAdmitted(r), activeTurn # NoTurn
      PROVE  SlotFacts'
  BY <1>7 DEF PreviousAdmitted, Goto, Clear
<1>8. CASE WindUp
  BY <1>8 DEF WindUp, Exit, FinishAdmits, FinishAdmitted, FinishFails,
     FinishDiscards, Settled, Clear
<1>9. CASE UNCHANGED vars
  BY <1>9 DEF vars
<1> QED
  BY <1>1, <1>2, <1>3, <1>4, <1>5, <1>6, <1>7, <1>8, <1>9
     DEF Next, Handle, Leaving

(* A request that waits is queued and not aborted. *)
LEMMA QueueStep ==
  ASSUME IInv, [Next]_vars
  PROVE  Queued'
<1> USE DEF IInv, TypeOK, Queued, Holding, Working, Reserved, NoTurn,
        requestVars, guardVars, slotVars, turnVars, history
<1>1. ASSUME NEW r \in Requests,
             \/ Arrive(r) \/ Refuse(r) \/ Dispatch(r) \/ Answer(r)
             \/ RecordUsage(r) \/ StreamEnds(r) \/ ProviderFails(r)
      PROVE  Queued'
  BY <1>1 DEF Arrive, Refuse, Dispatch, Answer, RecordUsage, StreamEnds,
     ProviderFails, Goto
<1>2. ASSUME NEW r \in Requests,
             \/ ClaimFirst(r) \/ AdmitPrevious(r)
             \/ StartTurn(r) \/ TurnPrepared(r)
      PROVE  Queued'
  BY <1>2 DEF ClaimFirst, AdmitPrevious, StartTurn, TurnPrepared, Goto
<1>3. ASSUME NEW r \in Requests, Reserve(r) PROVE Queued'
  <2>1. CASE slotHeld
    <3>1. /\ Len(waiters') = Len(waiters) + 1
          /\ waiters'[Len(waiters) + 1] = r
          /\ \A i \in 1 .. Len(waiters) : waiters'[i] = waiters[i]
      BY <1>3, <2>1 DEF Reserve
    <3>2. aborted' = aborted /\ ~aborted[r] /\ pc' = [pc EXCEPT ![r] = "waiting"]
      BY <1>3, <2>1 DEF Reserve, Goto
    <3>3. ASSUME NEW s \in Requests, pc'[s] = "waiting"
          PROVE  \E i \in 1 .. Len(waiters') : waiters'[i] = s
      <4>1. CASE s = r
        <5>1. Len(waiters) \in Nat
          BY DEF TypeOK
        <5>2. Len(waiters) + 1 \in 1 .. Len(waiters')
          BY <3>1, <5>1
        <5> QED BY <3>1, <4>1, <5>2
      <4>2. CASE s # r
        <5>1. PICK i \in 1 .. Len(waiters) : waiters[i] = s
          BY <3>2, <3>3, <4>2
        <5>2. i \in 1 .. Len(waiters')
          BY <3>1
        <5> QED BY <3>1, <5>1, <5>2
      <4> QED BY <4>1, <4>2
    <3> QED BY <3>2, <3>3
  <2>2. CASE ~slotHeld
    BY <1>3, <2>2 DEF Reserve, Goto
  <2> QED BY <2>1, <2>2 DEF TypeOK
<1>4. ASSUME NEW r \in Requests, CompleteThrows(r) PROVE Queued'
  BY <1>4 DEF CompleteThrows, Goto
<1>5. ASSUME NEW r \in Requests, Abort(r) PROVE Queued'
  BY <1>5 DEF Abort, Goto, ReleaseGuard
<1>6. ASSUME NEW r \in Requests, Leaving(r) PROVE Queued'
  <2>1. CASE Freed(r, "done")
    BY <1>6, <2>1, LeavesSlot DEF Freed
  <2>2. ASSUME NEW w \in Requests, Passed(r, "done", w) PROVE Queued'
    BY <1>6, <2>2, LeavesSlot DEF Passed
  <2> QED BY <1>6, <2>1, <2>2, LeavesSlot DEF Left
<1>7. ASSUME NEW r \in Requests, PreviousAdmitted(r), activeTurn # NoTurn
      PROVE  Queued'
  BY <1>7 DEF PreviousAdmitted, Goto, Clear
<1>8. CASE WindUp
  BY <1>8 DEF WindUp, Exit, FinishAdmits, FinishAdmitted, FinishFails,
     FinishDiscards, Settled, Clear
<1>9. CASE UNCHANGED vars
  BY <1>9 DEF vars
<1> QED
  BY <1>1, <1>2, <1>3, <1>4, <1>5, <1>6, <1>7, <1>8, <1>9
     DEF Next, Handle, Leaving

-----------------------------------------------------------------------------
LEMMA ReserversAreFinite ==
  /\ IsFiniteSet(Reservers) /\ Cardinality(Reservers) \in Nat
  /\ IsFiniteSet(Unrecorded) /\ Cardinality(Unrecorded) \in Nat
  /\ Cardinality(Unrecorded) <= Cardinality(Reservers)
<1>1. IsFiniteSet(Reservers) /\ Unrecorded \subseteq Reservers
  BY RequestsAreFinite, FS_Subset DEF Reservers, Unrecorded
<1> QED BY <1>1, FS_Subset, FS_CardinalityType

LEMMA IdleGuardIsIdle ==
  ASSUME IInv, active = 0, run # "finished"
  PROVE  \A r \in Requests : pc[r] \notin Reserved
<1>1. Cardinality(Reservers) = 0
  BY DEF IInv, CountFacts
<1>2. Reservers = {}
  BY <1>1, ReserversAreFinite, FS_EmptySet
<1> QED BY <1>2 DEF Reservers

(* Nothing arrives or waits once the run is wound up. *)
LEMMA RunStep ==
  ASSUME IInv, [Next]_vars
  PROVE  RunFacts'
<1> USE DEF IInv, TypeOK, RunFacts, Holding, Working, Reserved, NoTurn,
        requestVars, guardVars, slotVars, turnVars, history
<1>1. ASSUME NEW r \in Requests,
             \/ Arrive(r) \/ Refuse(r) \/ Dispatch(r) \/ Answer(r)
             \/ RecordUsage(r) \/ StreamEnds(r) \/ ProviderFails(r)
      PROVE  RunFacts'
  BY <1>1 DEF Arrive, Refuse, Dispatch, Answer, RecordUsage, StreamEnds,
     ProviderFails, Goto
<1>2. ASSUME NEW r \in Requests,
             \/ ClaimFirst(r) \/ AdmitPrevious(r)
             \/ StartTurn(r) \/ TurnPrepared(r)
      PROVE  RunFacts'
  BY <1>2 DEF ClaimFirst, AdmitPrevious, StartTurn, TurnPrepared, Goto
<1>3. ASSUME NEW r \in Requests, Reserve(r) PROVE RunFacts'
  BY <1>3 DEF Reserve, Goto
<1>4. ASSUME NEW r \in Requests, CompleteThrows(r) PROVE RunFacts'
  BY <1>4 DEF CompleteThrows, Goto
<1>5. ASSUME NEW r \in Requests, Abort(r) PROVE RunFacts'
  BY <1>5 DEF Abort, Goto, ReleaseGuard
<1>6. ASSUME NEW r \in Requests, Leaving(r) PROVE RunFacts'
  <2>1. CASE Freed(r, "done")
    BY <1>6, <2>1, LeavesSlot DEF Freed, Leaving, LifecycleFails, CompleteAnswered,
       CompleteUnanswered, PreviousAdmitted
  <2>2. ASSUME NEW w \in Requests, Passed(r, "done", w) PROVE RunFacts'
    BY <1>6, <2>2, LeavesSlot DEF Passed, Leaving, LifecycleFails, CompleteAnswered,
       CompleteUnanswered, PreviousAdmitted
  <2> QED BY <1>6, <2>1, <2>2, LeavesSlot DEF Left
<1>7. ASSUME NEW r \in Requests, PreviousAdmitted(r), activeTurn # NoTurn
      PROVE  RunFacts'
  BY <1>7 DEF PreviousAdmitted, Goto, Clear
<1>8. CASE WindUp
  <2>1. CASE Exit
    BY <2>1 DEF Exit
  <2>2. CASE FinishAdmits
    <3>1. run # "finished" /\ active = 0
      BY <2>2 DEF FinishAdmits, Settled
    <3> QED BY <2>2, <3>1, IdleGuardIsIdle DEF FinishAdmits, Settled
  <2>3. CASE FinishAdmitted
    BY <2>3 DEF FinishAdmitted
  <2>4. CASE FinishFails
    BY <2>4 DEF FinishFails
  <2>5. CASE FinishDiscards
    BY <2>5 DEF FinishDiscards, Settled, Queued
  <2> QED BY <1>8, <2>1, <2>2, <2>3, <2>4, <2>5 DEF WindUp
<1>9. CASE UNCHANGED vars
  BY <1>9 DEF vars
<1> QED
  BY <1>1, <1>2, <1>3, <1>4, <1>5, <1>6, <1>7, <1>8, <1>9
     DEF Next, Handle, Leaving

(* The lifecycle's turn. *)
LEMMA TurnStep ==
  ASSUME IInv, [Next]_vars
  PROVE  TurnFacts'
<1> USE NobodyIsNoRequest DEF IInv, TypeOK, TurnFacts, HolderFacts, Holding,
        Working, Reserved, NoTurn, requestVars, guardVars, slotVars, turnVars,
        history
<1>1. ASSUME NEW r \in Requests,
             \/ Arrive(r) \/ Refuse(r) \/ Dispatch(r) \/ Answer(r)
             \/ RecordUsage(r) \/ StreamEnds(r) \/ ProviderFails(r)
      PROVE  TurnFacts'
  BY <1>1 DEF Arrive, Refuse, Dispatch, Answer, RecordUsage, StreamEnds,
     ProviderFails, Goto
<1>2. ASSUME NEW r \in Requests,
             \/ ClaimFirst(r) \/ AdmitPrevious(r)
             \/ StartTurn(r) \/ TurnPrepared(r)
      PROVE  TurnFacts'
  BY <1>2 DEF ClaimFirst, AdmitPrevious, StartTurn, TurnPrepared, Goto
<1>3. ASSUME NEW r \in Requests, Reserve(r) PROVE TurnFacts'
  BY <1>3 DEF Reserve, Goto
<1>4. ASSUME NEW r \in Requests, CompleteThrows(r) PROVE TurnFacts'
  BY <1>4 DEF CompleteThrows, Goto
<1>5. ASSUME NEW r \in Requests, Abort(r) PROVE TurnFacts'
  BY <1>5 DEF Abort, Goto, ReleaseGuard
<1>6. ASSUME NEW r \in Requests, Leaving(r) PROVE TurnFacts'
  <2>1. CASE LifecycleFails(r)
    BY <2>1 DEF LifecycleFails
  <2>2. CASE CompleteAnswered(r)
    BY <2>2 DEF CompleteAnswered, Matches
  <2>3. CASE CompleteUnanswered(r)
    BY <2>3 DEF CompleteUnanswered, Clear
  <2>4. CASE PreviousAdmitted(r) /\ activeTurn = NoTurn
    BY <2>4 DEF PreviousAdmitted
  <2> QED BY <1>6, <2>1, <2>2, <2>3, <2>4 DEF Leaving
<1>7. ASSUME NEW r \in Requests, PreviousAdmitted(r), activeTurn # NoTurn
      PROVE  TurnFacts'
  BY <1>7 DEF PreviousAdmitted, Goto, Clear
<1>8. CASE WindUp
  BY <1>8 DEF WindUp, Exit, FinishAdmits, FinishAdmitted, FinishFails,
     FinishDiscards, Settled, Clear
<1>9. CASE UNCHANGED vars
  BY <1>9 DEF vars
<1> QED
  BY <1>1, <1>2, <1>3, <1>4, <1>5, <1>6, <1>7, <1>8, <1>9
     DEF Next, Handle, Leaving

(* Only answered turns are acknowledged. *)
LEMMA AckStep ==
  ASSUME IInv, [Next]_vars
  PROVE  AckedMeansAnswered'
<1> USE DEF IInv, AckedMeansAnswered, TurnFacts, HolderFacts, RunFacts,
        Holding, Working, Reserved, NoTurn, requestVars, guardVars, slotVars,
        turnVars, history
<1>1. ASSUME NEW r \in Requests,
             \/ Arrive(r) \/ Refuse(r) \/ Dispatch(r) \/ Answer(r)
             \/ RecordUsage(r) \/ StreamEnds(r) \/ ProviderFails(r)
      PROVE  AckedMeansAnswered'
  BY <1>1 DEF Arrive, Refuse, Dispatch, Answer, RecordUsage, StreamEnds,
     ProviderFails, Goto
<1>2. ASSUME NEW r \in Requests,
             \/ ClaimFirst(r) \/ AdmitPrevious(r)
             \/ StartTurn(r) \/ TurnPrepared(r)
      PROVE  AckedMeansAnswered'
  BY <1>2 DEF ClaimFirst, AdmitPrevious, StartTurn, TurnPrepared, Goto
<1>3. ASSUME NEW r \in Requests, Reserve(r) PROVE AckedMeansAnswered'
  BY <1>3 DEF Reserve, Goto
<1>4. ASSUME NEW r \in Requests, CompleteThrows(r) PROVE AckedMeansAnswered'
  BY <1>4 DEF CompleteThrows, Goto
<1>5. ASSUME NEW r \in Requests, Abort(r) PROVE AckedMeansAnswered'
  BY <1>5 DEF Abort, Goto, ReleaseGuard
<1>6. ASSUME NEW r \in Requests, Leaving(r) PROVE AckedMeansAnswered'
  BY <1>6 DEF Leaving, LifecycleFails, CompleteAnswered, CompleteUnanswered,
     PreviousAdmitted, ReleaseGuard, Clear
<1>7. ASSUME NEW r \in Requests, PreviousAdmitted(r), activeTurn # NoTurn
      PROVE  AckedMeansAnswered'
  BY <1>7 DEF PreviousAdmitted, Goto, Clear
<1>8. CASE WindUp
  BY <1>8 DEF WindUp, Exit, FinishAdmits, FinishAdmitted, FinishFails,
     FinishDiscards, Settled, Clear
<1>9. CASE UNCHANGED vars
  BY <1>9 DEF vars
<1> QED
  BY <1>1, <1>2, <1>3, <1>4, <1>5, <1>6, <1>7, <1>8, <1>9
     DEF Next, Handle, Leaving

(* What the holder of the slot finds. *)
LEMMA HolderFactsStep ==
  ASSUME IInv, [Next]_vars
  PROVE  HolderFacts'
<1> USE DEF IInv, TypeOK, TurnFacts, HolderFacts, RunFacts, OneHolder, AtRest,
        Matches, Holding, Working, Reserved, NoTurn, requestVars, guardVars,
        slotVars, turnVars, history
<1>1. ASSUME NEW r \in Requests, Arrive(r) \/ Refuse(r) PROVE HolderFacts'
  BY <1>1 DEF Arrive, Refuse, Goto
<1>2. ASSUME NEW r \in Requests, Dispatch(r) PROVE HolderFacts'
  BY <1>2 DEF Dispatch, Goto
<1>3. ASSUME NEW r \in Requests, Answer(r) PROVE HolderFacts'
  BY <1>3 DEF Answer, Goto
<1>4. ASSUME NEW r \in Requests, StreamEnds(r) PROVE HolderFacts'
  BY <1>4 DEF StreamEnds, Goto
<1>5. ASSUME NEW r \in Requests, ProviderFails(r) PROVE HolderFacts'
  BY <1>5 DEF ProviderFails, Goto
<1>6. ASSUME NEW r \in Requests, RecordUsage(r) PROVE HolderFacts'
  BY <1>6 DEF RecordUsage, Goto
<1>7. ASSUME NEW r \in Requests, ClaimFirst(r) PROVE HolderFacts'
  BY <1>7 DEF ClaimFirst, Goto
<1>8. ASSUME NEW r \in Requests, AdmitPrevious(r) PROVE HolderFacts'
  BY <1>8 DEF AdmitPrevious, Goto
<1>9. ASSUME NEW r \in Requests, StartTurn(r) PROVE HolderFacts'
  BY <1>9 DEF StartTurn, Goto
<1>10. ASSUME NEW r \in Requests, TurnPrepared(r) PROVE HolderFacts'
  BY <1>10 DEF TurnPrepared, Goto
<1>11. ASSUME NEW r \in Requests, Reserve(r) PROVE HolderFacts'
  BY <1>11 DEF Reserve, Goto
<1>12. ASSUME NEW r \in Requests, CompleteThrows(r) PROVE HolderFacts'
  BY <1>12 DEF CompleteThrows, Goto
<1>13. ASSUME NEW r \in Requests, Abort(r) PROVE HolderFacts'
  BY <1>13 DEF Abort, Goto, ReleaseGuard
<1>14. ASSUME NEW r \in Requests, Leaving(r) PROVE HolderFacts'
  <2>1. \A s \in Requests : pc'[s] \in Holding => pc'[s] = "granted"
    <3>1. CASE Freed(r, "done")
      BY <1>14, <3>1, LeavesSlot DEF Freed
    <3>2. ASSUME NEW w \in Requests, Passed(r, "done", w)
          PROVE  \A s \in Requests : pc'[s] \in Holding => pc'[s] = "granted"
      <4>1. ASSUME NEW s \in Requests, s # w PROVE pc'[s] \notin Holding
        <5>1. CASE s = r
          BY <3>2, <4>1, <5>1 DEF Passed
        <5>2. CASE s # r
          BY <1>14, <3>2, <4>1, <5>2, LeavesSlot DEF Passed
        <5> QED BY <5>1, <5>2
      <4>2. pc'[w] = "granted"
        BY <3>2 DEF Passed
      <4> QED BY <4>1, <4>2
    <3> QED BY <1>14, <3>1, <3>2, LeavesSlot DEF Left
  <2> QED BY <2>1
<1>15. ASSUME NEW r \in Requests, PreviousAdmitted(r), activeTurn # NoTurn
      PROVE  HolderFacts'
  <2>1. pc' = [pc EXCEPT ![r] = "preparing"] /\ activeTurn' = NoTurn
        /\ ~completed' /\ turnID' = NoTurn /\ run' = run /\ answered' = answered
    BY <1>15 DEF PreviousAdmitted, Goto, Clear
  <2>2. mine' = [mine EXCEPT ![r] = sequence + 1] /\ sequence + 1 # NoTurn
    BY <1>15 DEF PreviousAdmitted
  <2>3. \A s \in Requests \ {r} : pc'[s] \notin Holding
    BY <1>15, <2>1 DEF PreviousAdmitted
  <2>4. pc'[r] = "preparing" /\ mine'[r] # NoTurn
    BY <2>1, <2>2
  <2> QED BY <2>1, <2>3, <2>4
<1>16. CASE WindUp
  BY <1>16 DEF WindUp, Exit, FinishAdmits, FinishAdmitted, FinishFails,
     FinishDiscards, Settled, Clear
<1>17. CASE UNCHANGED vars
  BY <1>17 DEF vars
<1> QED
  BY <1>1, <1>2, <1>3, <1>4, <1>5, <1>6, <1>7, <1>8, <1>9, <1>10, <1>11, <1>12, <1>13, <1>14, <1>15, <1>16, <1>17
     DEF Next, Handle, Leaving

(* What the lifecycle rests on between requests. *)
LEMMA RestStep ==
  ASSUME IInv, [Next]_vars
  PROVE  AtRest'
<1> USE NobodyIsNoRequest DEF IInv, TypeOK, TurnFacts, HolderFacts, RunFacts,
        OneHolder, AtRest, Matches, Holding, Working, Reserved, NoTurn,
        requestVars, guardVars, slotVars, turnVars, history
<1>1. ASSUME NEW r \in Requests, Arrive(r) \/ Refuse(r) PROVE AtRest'
  BY <1>1 DEF Arrive, Refuse, Goto
<1>2. ASSUME NEW r \in Requests, Dispatch(r) PROVE AtRest'
  BY <1>2 DEF Dispatch, Goto
<1>3. ASSUME NEW r \in Requests, Answer(r) PROVE AtRest'
  BY <1>3 DEF Answer, Goto
<1>4. ASSUME NEW r \in Requests, StreamEnds(r) PROVE AtRest'
  BY <1>4 DEF StreamEnds, Goto
<1>5. ASSUME NEW r \in Requests, ProviderFails(r) PROVE AtRest'
  BY <1>5 DEF ProviderFails, Goto
<1>6. ASSUME NEW r \in Requests, RecordUsage(r) PROVE AtRest'
  BY <1>6 DEF RecordUsage, Goto
<1>7. ASSUME NEW r \in Requests, ClaimFirst(r) PROVE AtRest'
  BY <1>7 DEF ClaimFirst, Goto
<1>8. ASSUME NEW r \in Requests, AdmitPrevious(r) PROVE AtRest'
  BY <1>8 DEF AdmitPrevious, Goto
<1>9. ASSUME NEW r \in Requests, StartTurn(r) PROVE AtRest'
  BY <1>9 DEF StartTurn, Goto
<1>10. ASSUME NEW r \in Requests, TurnPrepared(r) PROVE AtRest'
  BY <1>10 DEF TurnPrepared, Goto
<1>11. ASSUME NEW r \in Requests, Reserve(r) PROVE AtRest'
  BY <1>11 DEF Reserve, Goto
<1>12. ASSUME NEW r \in Requests, CompleteThrows(r) PROVE AtRest'
  BY <1>12 DEF CompleteThrows, Goto
<1>13. ASSUME NEW r \in Requests, Abort(r) PROVE AtRest'
  BY <1>13 DEF Abort, Goto, ReleaseGuard
<1>14. ASSUME NEW r \in Requests, Leaving(r) PROVE AtRest'
  <2>1. CASE LifecycleFails(r)
    BY <1>14, <2>1, LeavesSlot DEF LifecycleFails
  <2>2. CASE CompleteAnswered(r)
    BY <1>14, <2>2, LeavesSlot DEF CompleteAnswered
  <2>3. CASE CompleteUnanswered(r)
    BY <2>3 DEF CompleteUnanswered, Clear
  <2>4. CASE PreviousAdmitted(r) /\ activeTurn = NoTurn
    BY <2>4 DEF PreviousAdmitted
  <2> QED BY <1>14, <2>1, <2>2, <2>3, <2>4 DEF Leaving
<1>15. ASSUME NEW r \in Requests, PreviousAdmitted(r), activeTurn # NoTurn
      PROVE  AtRest'
  BY <1>15 DEF PreviousAdmitted, Goto, Clear
<1>16. CASE WindUp
  BY <1>16 DEF WindUp, Exit, FinishAdmits, FinishAdmitted, FinishFails,
     FinishDiscards, Settled, Clear
<1>17. CASE UNCHANGED vars
  BY <1>17 DEF vars
<1> QED
  BY <1>1, <1>2, <1>3, <1>4, <1>5, <1>6, <1>7, <1>8, <1>9, <1>10, <1>11, <1>12, <1>13, <1>14, <1>15, <1>16, <1>17
     DEF Next, Handle, Leaving

-----------------------------------------------------------------------------
(***************************************************************************)
(* The counters.  A step keeps the reservations, adds one, gives one back  *)
(* or, once the run is wound up, loses one.                                *)
(***************************************************************************)
SameReservations == Reservers' = Reservers /\ Unrecorded' = Unrecorded
WithoutReservation(r) == /\ Reservers' = Reservers \ {r}
                         /\ Unrecorded' = Unrecorded \ {r}

LEMMA KeepsCounts ==
  ASSUME IInv, SameReservations, active' = active, responses' = responses,
         run = "finished" => run' = "finished"
  PROVE  CountFacts'
BY DEF IInv, CountFacts, SameReservations

LEMMA CardinalityWithout ==
  ASSUME NEW r \in Requests, pc[r] \in Reserved, WithoutReservation(r)
  PROVE  /\ Cardinality(Reservers') = Cardinality(Reservers) - 1
         /\ Cardinality(Reservers) # 0
         /\ Cardinality(Unrecorded') <= Cardinality(Unrecorded)
         /\ Cardinality(Reservers') \in Nat /\ Cardinality(Unrecorded') \in Nat
<1>1. r \in Reservers
  BY DEF Reservers
<1>2. Cardinality(Reservers) # 0
  BY <1>1, ReserversAreFinite, FS_EmptySet
<1>3. Cardinality(Reservers \ {r}) = Cardinality(Reservers) - 1
  BY <1>1, ReserversAreFinite, FS_RemoveElement
<1>4. /\ Cardinality(Unrecorded \ {r}) = IF r \in Unrecorded
                                           THEN Cardinality(Unrecorded) - 1
                                           ELSE Cardinality(Unrecorded)
      /\ IsFiniteSet(Unrecorded \ {r})
  BY ReserversAreFinite, FS_RemoveElement
<1>5. Cardinality(Unrecorded \ {r}) \in Nat
  BY <1>4, FS_CardinalityType
<1> QED BY <1>2, <1>3, <1>4, <1>5, ReserversAreFinite DEF WithoutReservation

LEMMA GivesBack ==
  ASSUME IInv, NEW r \in Requests, pc[r] \in Reserved, WithoutReservation(r),
         ReleaseGuard, responses' = responses, run' = run
  PROVE  CountFacts'
BY ReserversAreFinite, CardinalityWithout, LimitsArePositive
   DEF IInv, TypeOK, CountFacts, ReleaseGuard

LEMMA LosesOne ==
  ASSUME IInv, NEW r \in Requests, pc[r] \in Reserved, WithoutReservation(r),
         active' = active, responses' = responses, run = "finished", run' = run
  PROVE  CountFacts'
BY ReserversAreFinite, CardinalityWithout, LimitsArePositive
   DEF IInv, TypeOK, CountFacts

LEMMA ReserveCounts ==
  ASSUME IInv, NEW r \in Requests, Reserve(r)
  PROVE  CountFacts'
<1>1. Reservers' = Reservers \cup {r} /\ r \notin Reservers
  BY DEF IInv, TypeOK, Reserve, Goto, Reservers, Reserved, Holding, Working
<1>2. Unrecorded' \subseteq Reservers'
  BY DEF Reservers, Unrecorded
<1>3. /\ Cardinality(Reservers') = Cardinality(Reservers) + 1
      /\ IsFiniteSet(Reservers')
  BY <1>1, ReserversAreFinite, FS_AddElement
<1>4. /\ Cardinality(Unrecorded') <= Cardinality(Reservers')
      /\ Cardinality(Unrecorded') \in Nat
  BY <1>2, <1>3, FS_Subset, FS_CardinalityType
<1>5. /\ active' = active + 1 /\ responses' = responses /\ run' = run
      /\ active < MaxConcurrent /\ responses < MaxResponses
  BY DEF Reserve, Reservable, WithinBudget
<1> QED BY <1>3, <1>4, <1>5, ReserversAreFinite, LimitsArePositive
        DEF IInv, TypeOK, CountFacts

LEMMA RecordCounts ==
  ASSUME IInv, NEW r \in Requests, RecordUsage(r)
  PROVE  CountFacts'
<1>1. /\ Reservers' = Reservers
      /\ Unrecorded' = Unrecorded \ {r} /\ r \in Unrecorded
  BY DEF IInv, TypeOK, RecordUsage, Reservers, Unrecorded, Reserved, Holding, Working
<1>2. Cardinality(Unrecorded') = Cardinality(Unrecorded) - 1
  BY <1>1, ReserversAreFinite, FS_RemoveElement
<1> QED BY <1>1, <1>2, ReserversAreFinite, LimitsArePositive
        DEF IInv, TypeOK, CountFacts, RecordUsage

LEMMA LeavingCounts ==
  ASSUME IInv, NEW r \in Requests, Leaving(r)
  PROVE  CountFacts'
<1>1. /\ Left(r) /\ pc[r] \in Holding /\ recorded' = recorded /\ run' = run
      /\ ReleaseGuard /\ responses' = responses
  BY LeavesSlot
<1> USE DEF IInv, TypeOK, Reservers, Unrecorded, Reserved, Holding, Working
<1>2. WithoutReservation(r)
  <2>1. CASE Freed(r, "done")
    BY <1>1, <2>1 DEF Freed, WithoutReservation
  <2>2. ASSUME NEW w \in Requests, Passed(r, "done", w) PROVE WithoutReservation(r)
    BY <1>1, <2>2 DEF Passed, WithoutReservation
  <2> QED BY <1>1, <2>1, <2>2 DEF Left
<1> QED BY <1>1, <1>2, GivesBack

LEMMA AbortCounts ==
  ASSUME IInv, NEW r \in Requests, Abort(r)
  PROVE  CountFacts'
<1> USE DEF IInv, TypeOK, Reservers, Unrecorded, Reserved, Holding, Working, Abort
<1>1. CASE pc[r] = "waiting"
  <2>1. WithoutReservation(r) /\ ReleaseGuard /\ responses' = responses /\ run' = run
    BY <1>1 DEF Goto, WithoutReservation
  <2> QED BY <1>1, <2>1, GivesBack
<1>2. CASE pc[r] # "waiting"
  BY <1>2, KeepsCounts DEF SameReservations
<1> QED BY <1>1, <1>2

LEMMA ThrowCounts ==
  ASSUME IInv, NEW r \in Requests, CompleteThrows(r)
  PROVE  CountFacts'
<1> USE DEF IInv, TypeOK, Reservers, Unrecorded, Reserved, Holding, Working,
            CompleteThrows
<1>1. run = "finished"
  BY DEF HolderFacts
<1>2. WithoutReservation(r) /\ active' = active /\ responses' = responses /\ run' = run
  BY DEF Goto, WithoutReservation, guardVars
<1> QED BY <1>1, <1>2, LosesOne

LEMMA OtherCounts ==
  ASSUME IInv, NEW r \in Requests,
         \/ Arrive(r) \/ Refuse(r) \/ Dispatch(r) \/ Answer(r)
         \/ StreamEnds(r) \/ ProviderFails(r)
         \/ ClaimFirst(r) \/ AdmitPrevious(r) \/ StartTurn(r) \/ TurnPrepared(r)
         \/ PreviousAdmitted(r) /\ activeTurn # NoTurn
  PROVE  CountFacts'
<1>1. \E label : pc' = [pc EXCEPT ![r] = label] /\ (pc[r] \in Reserved <=> label \in Reserved)
  BY DEF Arrive, Refuse, Dispatch, Answer, StreamEnds, ProviderFails, ClaimFirst,
         AdmitPrevious, StartTurn, TurnPrepared, PreviousAdmitted, Goto,
         Reserved, Holding, Working
<1>2. recorded' = recorded /\ active' = active /\ responses' = responses /\ run' = run
  BY DEF Arrive, Refuse, Dispatch, Answer, StreamEnds, ProviderFails, ClaimFirst,
         AdmitPrevious, StartTurn, TurnPrepared, PreviousAdmitted, guardVars
<1>3. SameReservations
  BY <1>1, <1>2 DEF IInv, TypeOK, SameReservations, Reservers, Unrecorded
<1> QED BY <1>2, <1>3, KeepsCounts

LEMMA CountStep == IInv /\ [Next]_vars => CountFacts'
<1> SUFFICES ASSUME IInv, [Next]_vars PROVE CountFacts'
  OBVIOUS
<1>1. ASSUME WindUp \/ UNCHANGED vars PROVE CountFacts'
  <2>1. /\ pc' = pc /\ recorded' = recorded /\ active' = active
        /\ responses' = responses /\ (run = "finished" => run' = "finished")
    BY <1>1 DEF WindUp, Exit, FinishAdmits, FinishAdmitted, FinishFails, FinishDiscards,
                Settled, vars, requestVars, guardVars
  <2>2. SameReservations
    BY <2>1 DEF SameReservations, Reservers, Unrecorded
  <2> QED BY <2>1, <2>2, KeepsCounts
<1>2. ASSUME NEW r \in Requests, Arrive(r) \/ Handle(r) \/ Abort(r) PROVE CountFacts'
  BY <1>2, ReserveCounts, RecordCounts, LeavingCounts, AbortCounts, ThrowCounts,
     OtherCounts DEF Handle, Leaving
<1> QED BY <1>1, <1>2 DEF Next

-----------------------------------------------------------------------------
LEMMA Start == Init => IInv
<1> SUFFICES ASSUME Init PROVE IInv
  OBVIOUS
<1> USE DEF Init
<1>1. TypeOK
  BY NoWaiters DEF TypeOK, NoTurn
<1>2. Reservers = {} /\ Unrecorded = {}
  BY DEF Reservers, Unrecorded, Reserved, Holding, Working
<1>3. CountFacts
  BY <1>2, FS_EmptySet, LimitsArePositive DEF CountFacts
<1>4. OneHolder /\ Queued /\ SlotFacts /\ RunFacts
  BY DEF OneHolder, Queued, SlotFacts, RunFacts, Holding, Working
<1>5. AtRest /\ TurnFacts /\ HolderFacts
  BY DEF AtRest, TurnFacts, HolderFacts, Working, NoTurn
<1> QED BY <1>1, <1>3, <1>4, <1>5 DEF IInv, AckedMeansAnswered

(* The invariant is inductive.                                               *)
THEOREM Invariance == Spec => []IInv
<1>1. IInv /\ [Next]_vars => IInv'
  BY TypeStep, HolderStep, SlotStep, QueueStep, RunStep, TurnStep, AckStep,
     HolderFactsStep, RestStep, CountStep DEF IInv
<1> QED BY Start, <1>1, PTL DEF Spec

(* Every variable keeps its type.                                            *)
THEOREM TypeCorrect == Spec => []TypeOK
<1>1. IInv => TypeOK
  BY DEF IInv
<1> QED BY Invariance, <1>1, PTL

(* Messages are acknowledged only for an answered request: organism-cast-    *)
(* broker-coordination.ts admits a turn whose request completed.             *)
THEOREM AckIsEarned == Spec => []AckedMeansAnswered
<1>1. IInv => AckedMeansAnswered
  BY DEF IInv
<1> QED BY Invariance, <1>1, PTL

(* The slot of the lifecycle is never lost and never shared.                 *)
THEOREM SlotIsKept == Spec => []SlotNeverLost
<1>1. IInv => SlotNeverLost
  BY DEF IInv, OneHolder, SlotFacts, SlotNeverLost
<1> QED BY Invariance, <1>1, PTL

(* The lifecycle's conflict and mismatch errors are unreachable in a run.    *)
THEOREM TurnIsOwned == Spec => []TurnMatchesRequest
<1>1. IInv => TurnMatchesRequest
  <2> SUFFICES ASSUME IInv, run # "finished", NEW r \in Requests
               PROVE  /\ pc[r] \in Working => Matches(r) /\ activeTurn = turnID
                      /\ pc[r] = "granted" => activeTurn = turnID
                      /\ pc[r] = "granted" /\ requestID # Nobody => completed
    BY DEF TurnMatchesRequest
  <2>1. pc[r] \in Working => Matches(r) /\ activeTurn = turnID
    BY DEF IInv, HolderFacts
  <2>2. ASSUME pc[r] = "granted"
        PROVE  activeTurn = turnID /\ (requestID # Nobody => completed)
    <3>1. \A s \in Requests : pc[s] \notin Holding \ {"granted"}
      BY <2>2 DEF IInv, OneHolder, Holding
    <3> QED BY <3>1 DEF IInv, AtRest
  <2> QED BY <2>1, <2>2
<1> QED BY Invariance, <1>1, PTL

(* The guard's counter is exactly the reservations held.                     *)
THEOREM ReservationsAreExact == Spec => []ReservationsExact
<1>1. IInv => ReservationsExact
  BY DEF IInv, CountFacts, ReservationsExact, Reservers
<1> QED BY Invariance, <1>1, PTL

(* However requests interleave, the budget is overshot by less than the      *)
(* concurrency limit.                                                        *)
THEOREM OvershootIsBounded == Spec => []OvershootBounded
<1>1. IInv => OvershootBounded
  BY ReserversAreFinite, LimitsArePositive
     DEF IInv, TypeOK, CountFacts, OvershootBounded
<1> QED BY Invariance, <1>1, PTL

(* Both limits of a lane hold for any number of requests.                    *)
THEOREM LimitsAreKept == Spec => []LimitsHold
<1>1. ReservationsExact /\ OvershootBounded => LimitsHold
  BY DEF LimitsHold
<1> QED BY ReservationsAreExact, OvershootIsBounded, <1>1, PTL

(***************************************************************************)
(* StreamBridge.  First what its recursive functions do step by step, then *)
(* the slots and the events of a stream, the end of an answer, the memory  *)
(* of signatures, and last the steps of the bridge.                        *)
(***************************************************************************)

(* A nonempty set of numbers has a least one.                              *)
LEMMA LeastNatural ==
  ASSUME NEW T \in SUBSET Nat, T # {}
  PROVE  \E m \in T : \A k \in T : ~(k < m)
<1>1. \E m \in T : \A k \in T : <<k, m>> \notin OpToRel(<, Nat)
  BY NatLessThanWellFounded, WFMin, Zenon
<1>2. PICK m \in T : \A k \in T : <<k, m>> \notin OpToRel(<, Nat)
  BY <1>1, Zenon
<1>3. ASSUME NEW k \in T, k < m PROVE <<k, m>> \in OpToRel(<, Nat)
  BY <1>3, Zenon DEF OpToRel
<1> QED BY <1>2, <1>3, Zenon

MadeInSteps(f, A, base, N, F) ==
  /\ f \in [0 .. N -> A] /\ f[0] = base
  /\ \A n \in 1 .. N : f[n] = F[<<f[n - 1], n>>]

(* A function that is made step by step: F says what becomes of a value at *)
(* each step.  Were there none, there would be a least number of steps     *)
(* that has none, and one step less could be continued.                    *)
LEMMA StepByStep ==
  ASSUME NEW A, NEW base \in A, NEW N \in Nat, NEW F \in [A \X (1 .. N) -> A]
  PROVE  \E f : MadeInSteps(f, A, base, N, F)
<1> DEFINE Step(f, n) == IF n = 0 THEN base ELSE F[<<f[n - 1], n>>]
           IsMade(f, m) == f \in [0 .. m -> A] /\ f = [n \in 0 .. m |-> Step(f, n)]
           Stuck == {m \in Nat : m <= N /\ \A f : ~IsMade(f, m)}
<1> HIDE DEF IsMade, Stuck
<1>1. Stuck = {}
  <2> SUFFICES ASSUME Stuck # {} PROVE FALSE
    OBVIOUS
  <2>1. Stuck \in SUBSET Nat
    BY DEF Stuck
  <2>2. PICK m \in Stuck : \A k \in Stuck : ~(k < m)
    BY <2>1, LeastNatural
  <2>3. m \in Nat /\ m <= N
    BY <2>2 DEF Stuck
  <2>4. ASSUME NEW f PROVE ~IsMade(f, m)
    BY <2>2 DEF Stuck
  <2>5. CASE m = 0
    <3>1. IsMade([n \in 0 .. 0 |-> base], 0)
      BY DEF IsMade
    <3> QED BY <2>4, <2>5, <3>1
  <2>6. CASE m # 0
    <3>1. m - 1 \in Nat /\ m - 1 < m /\ m - 1 <= N /\ m \in 1 .. N
      BY <2>3, <2>6
    <3>2. m - 1 \notin Stuck
      BY <2>2, <3>1
    <3>3. PICK f : IsMade(f, m - 1)
      BY <3>1, <3>2 DEF Stuck
    <3> DEFINE last == F[<<f[m - 1], m>>]
               g == [n \in 0 .. m |-> IF n < m THEN f[n] ELSE last]
    <3>4. f \in [0 .. (m - 1) -> A] /\ \A n \in 0 .. (m - 1) : f[n] = Step(f, n)
      BY <3>3 DEF IsMade
    <3>5. f[m - 1] \in A /\ last \in A
      BY <3>1, <3>4
    <3>6. g \in [0 .. m -> A]
      BY <2>3, <3>4, <3>5
    <3>7. /\ \A n \in 0 .. m : g[n] = IF n < m THEN f[n] ELSE last
          /\ g = [n \in 0 .. m |-> g[n]]
      OBVIOUS
    <3> HIDE DEF g
    <3>8. ASSUME NEW n \in 0 .. m PROVE g[n] = Step(g, n)
      <4>0. n \in Int /\ 0 <= n /\ n <= m
        BY <2>3
      <4>1. CASE n = 0
        <5>1. n < m /\ n \in 0 .. (m - 1)
          BY <4>0, <4>1, <2>3, <2>6
        <5>2. g[n] = f[n] /\ f[n] = Step(f, n)
          BY <5>1, <3>4, <3>7
        <5> QED BY <5>2, <4>1
      <4>2. CASE n # 0 /\ n < m
        <5>1. n \in 0 .. (m - 1) /\ n - 1 \in 0 .. m /\ n - 1 < m
          BY <4>0, <4>2, <2>3
        <5>2. g[n] = f[n] /\ g[n - 1] = f[n - 1]
          BY <5>1, <4>2, <3>7
        <5>3. f[n] = Step(f, n)
          BY <5>1, <3>4
        <5> QED BY <5>2, <5>3, <4>2
      <4>3. CASE n = m
        <5>1. n - 1 \in 0 .. m /\ n - 1 < m
          BY <4>0, <4>3, <2>3, <2>6
        <5>2. g[n] = last /\ g[n - 1] = f[m - 1]
          BY <5>1, <4>3, <2>3, <3>7
        <5> QED BY <5>2, <4>3, <2>6
      <4> QED BY <4>0, <4>1, <4>2, <4>3, <2>3
    <3>9. g = [n \in 0 .. m |-> Step(g, n)]
      BY <3>7, <3>8, Zenon
    <3> QED BY <3>6, <3>9, <2>4 DEF IsMade
  <2> QED BY <2>5, <2>6
<1>2. PICK f : IsMade(f, N)
  BY <1>1 DEF Stuck
<1>3. f \in [0 .. N -> A] /\ \A n \in 0 .. N : f[n] = Step(f, n)
  BY <1>2 DEF IsMade
<1>4. f[0] = base /\ \A n \in 1 .. N : f[n] = F[<<f[n - 1], n>>]
  <2>1. 0 \in 0 .. N /\ \A n \in 1 .. N : n \in 0 .. N /\ n # 0
    OBVIOUS
  <2> QED BY <1>3, <2>1
<1> QED BY <1>3, <1>4 DEF MadeInSteps

(* What holds at the start and is kept by each step holds of every step.   *)
LEMMA EachStep ==
  ASSUME NEW N \in Nat, NEW T, 0 \in T, \A n \in 1 .. N : n - 1 \in T => n \in T
  PROVE  \A n \in 0 .. N : n \in T
<1> DEFINE Missed == {n \in 0 .. N : n \notin T}
<1>1. Missed = {}
  <2> SUFFICES ASSUME Missed # {} PROVE FALSE
    OBVIOUS
  <2>1. Missed \in SUBSET Nat
    OBVIOUS
  <2> HIDE DEF Missed
  <2>2. PICK m \in Missed : \A k \in Missed : ~(k < m)
    BY <2>1, LeastNatural
  <2>3. m \in 0 .. N /\ m \notin T
    BY <2>2 DEF Missed
  <2>4. m \in 1 .. N /\ m - 1 \in 0 .. N /\ m - 1 < m
    BY <2>3
  <2>5. m - 1 \in Missed
    BY <2>3, <2>4 DEF Missed
  <2> QED BY <2>2, <2>4, <2>5
<1> QED BY <1>1

(* Sets of the bridge's data.                                              *)
Fragment == (ToolCalls \X Nat) \cup {Prose}

Item == [type : {"opened", "grown", "closed"}, out : Int, call : ToolCalls \cup {Prose, NoCall},
         args : Seq(Fragment)]

Event == Item \cup [type : {"completed"}, out : {-1}, call : {NoCall}, args : Seq(Item)]

ToldMade(f, events, out, N, A) ==
  /\ f \in [0 .. N -> A] /\ Told(events, out) = f[N] /\ f[0] = <<>>
  /\ \A n \in 1 .. N :
       f[n] = IF events[n].type = "grown" /\ events[n].out = out THEN f[n - 1] \o events[n].args
         ELSE f[n - 1]

(* What is told of an item is told event by event.                         *)
LEMMA ToldStepByStep ==
  ASSUME NEW E, NEW P, NEW events \in Seq(E), NEW out,
         \A e \in E : e.type = "grown" => e.args \in Seq(P)
  PROVE  \E f : ToldMade(f, events, out, Len(events), Seq(P))
<1> DEFINE N == Len(events)
           Values == Seq(P)
           F == [x \in Values \X (1 .. N) |-> IF events[x[2]].type = "grown"
                /\ events[x[2]].out = out THEN x[1] \o events[x[2]].args ELSE x[1]]
           Steps(f) == [n \in 0 .. N |-> IF n = 0 THEN <<>>
                       ELSE IF events[n].type = "grown" /\ events[n].out = out
                       THEN f[n - 1] \o events[n].args ELSE f[n - 1]]
           upto == CHOOSE f : f = Steps(f)
<1>0. N \in Nat /\ <<>> \in Values /\ \A n \in 1 .. N : events[n].type = "grown"
      => events[n].args \in Seq(P)
  OBVIOUS
<1>1. F \in [Values \X (1 .. N) -> Values]
  <2> HIDE DEF N
  <2>1. ASSUME NEW v \in Values, NEW n \in 1 .. N
        PROVE (IF events[n].type = "grown" /\ events[n].out = out THEN v \o events[n].args
        ELSE v) \in Values
    <3>1. CASE events[n].type = "grown" /\ events[n].out = out
      BY <1>0, <3>1
    <3>2. CASE ~(events[n].type = "grown" /\ events[n].out = out)
      BY <3>2, Zenon
    <3> QED BY <3>1, <3>2
  <2> HIDE DEF Values
  <2>2. \A x \in Values \X (1 .. N) : x[1] \in Values /\ x[2] \in 1 .. N
    OBVIOUS
  <2>3. \A x \in Values \X (1 .. N) : (IF events[x[2]].type = "grown" /\ events[x[2]].out = out
        THEN x[1] \o events[x[2]].args ELSE x[1]) \in Values
    BY <2>1, <2>2
  <2> QED BY <2>3
<1>2. Told(events, out) = upto[N]
  BY DEF Told
<1>3. \A a \in Values, n \in 1 .. N : F[<<a, n>>] =
      IF events[n].type = "grown" /\ events[n].out = out THEN a \o events[n].args ELSE a
  OBVIOUS
<1> HIDE DEF F, N, upto, Values
<1>g. \E g : MadeInSteps(g, Values, <<>>, N, F)
  BY <1>0, <1>1, StepByStep
<1>4. PICK g \in [0 .. N -> Values] :
        g[0] = <<>> /\ \A n \in 1 .. N : g[n] = F[<<g[n - 1], n>>]
  BY <1>g DEF MadeInSteps
<1>5. \A n \in 1 .. N : n # 0 /\ n \in 0 .. N /\ n - 1 \in 0 .. N /\ g[n - 1] \in Values
  BY <1>0, <1>4
<1>6. \A n \in 0 .. N : g[n] = IF n = 0 THEN <<>>
      ELSE IF events[n].type = "grown" /\ events[n].out = out THEN g[n - 1] \o events[n].args
      ELSE g[n - 1]
  <2>1. \A n \in 0 .. N : n = 0 \/ n \in 1 .. N
    BY <1>0
  <2>2. ASSUME NEW n \in 1 .. N
        PROVE g[n] = IF events[n].type = "grown" /\ events[n].out = out
        THEN g[n - 1] \o events[n].args ELSE g[n - 1]
    BY <1>3, <1>4, <1>5, Zenon
  <2> QED BY <1>4, <1>5, <2>1, <2>2, Zenon
<1>7. g = [n \in 0 .. N |-> g[n]]
  BY <1>4
<1>8. g = Steps(g)
  BY <1>6, <1>7, Zenon
<1>9. upto = Steps(upto)
  BY <1>8, Zenon DEF upto
<1>10. upto[0] = <<>> /\ \A n \in 1 .. N : upto[n] =
       IF events[n].type = "grown" /\ events[n].out = out THEN upto[n - 1] \o events[n].args
       ELSE upto[n - 1]
  <2>1. \A n \in 0 .. N : upto[n] = IF n = 0 THEN <<>>
        ELSE IF events[n].type = "grown" /\ events[n].out = out THEN upto[n - 1] \o events[n].args
        ELSE upto[n - 1]
    BY <1>9, Zenon
  <2>2. 0 \in 0 .. N
    BY <1>0
  <2> QED BY <1>5, <2>1, <2>2, Zenon
<1>12. upto = [n \in 0 .. N |-> upto[n]]
  <2>1. \A f : Steps(f) = [n \in 0 .. N |-> Steps(f)[n]]
    OBVIOUS
  <2> QED BY <1>9, <2>1, Zenon
<1> HIDE DEF Steps
<1>11. \A n \in 0 .. N : upto[n] \in Values
  <2> DEFINE T == {n \in 0 .. N : upto[n] \in Values}
  <2>1. 0 \in T
    BY <1>0, <1>10
  <2>2. ASSUME NEW n \in 1 .. N, n - 1 \in T PROVE n \in T
    <3>1. upto[n - 1] \in Values
      BY <2>2
    <3>2. F[<<upto[n - 1], n>>] \in Values
      BY <1>1, <3>1
    <3>3. upto[n] = F[<<upto[n - 1], n>>]
      BY <1>3, <1>10, <3>1, Zenon
    <3> QED BY <1>5, <3>2, <3>3
  <2> HIDE DEF T
  <2>3. \A n \in 0 .. N : n \in T
    BY <1>0, <2>1, <2>2, EachStep
  <2> QED BY <2>3 DEF T
<1>13. upto \in [0 .. N -> Values]
  BY <1>11, <1>12
<1> QED BY <1>2, <1>10, <1>13 DEF N, Values, ToldMade

(* The events the bridge makes are events.                                 *)
LEMMA EventFacts ==
  /\ \A e \in Event : e.type = "grown" => e.args \in Seq(Fragment)
  /\ \A out \in Int, k \in ToolCalls \cup {Prose} : Opened(out, k) \in Event
  /\ \A out \in Int, more \in Seq(Fragment) : Grown(out, more) \in Event
  /\ Item \subseteq Event
  /\ \A items \in Seq(Item) : Completed(items) \in Event
<1>1. <<>> \in Seq(Fragment)
  OBVIOUS
<1> DEFINE Args == Seq(Fragment)
           All == Seq(Item)
<1>2. \A e \in Event : e.type = "grown" => e.args \in Args
  BY DEF Event, Item
<1> HIDE DEF Args, All
<1>3. <<>> \in Args
  BY <1>1 DEF Args
<1>4. Item = [type : {"opened", "grown", "closed"}, out : Int, call : ToolCalls \cup {Prose,
      NoCall}, args : Args]
  BY DEF Item, Args
<1>5. Event = Item \cup [type : {"completed"}, out : {-1}, call : {NoCall}, args : All]
  BY DEF Event, All
<1>6. \A out \in Int, k \in ToolCalls \cup {Prose} : Opened(out, k) \in Item
  BY <1>3, <1>4 DEF Opened
<1>7. \A out \in Int, more \in Args : Grown(out, more) \in Item
  BY <1>4 DEF Grown
<1>8. \A items \in All : Completed(items) \in Event
  BY <1>5 DEF Completed
<1> QED BY <1>2, <1>5, <1>6, <1>7, <1>8 DEF Args, All

(* What is told in two runs of events is what each tells.                  *)
LEMMA ToldOfConcat ==
  ASSUME NEW s \in Seq(Event), NEW u \in Seq(Event), NEW out
  PROVE  /\ Told(s, out) \in Seq(Fragment) /\ Told(u, out) \in Seq(Fragment)
         /\ Told(s \o u, out) = Told(s, out) \o Told(u, out)
<1> DEFINE M == Len(s)
           N == Len(u)
           both == s \o u
           A == Seq(Fragment)
<1>1. /\ M \in Nat /\ N \in Nat /\ both \in Seq(Event) /\ Len(both) = M + N
      /\ \A n \in 1 .. M : both[n] = s[n] /\ s[n] \in Event
      /\ \A n \in 1 .. N : both[M + n] = u[n] /\ u[n] \in Event
  OBVIOUS
<1>0. \A e \in Event : e.type = "grown" => e.args \in Seq(Fragment)
  BY EventFacts
<1>r. \A a, b \in A, e \in Event : e.type = "grown" => (a \o b) \o e.args = a \o (b \o e.args)
  <2>1. \A a, b, c \in A : (a \o b) \o c = a \o (b \o c)
    BY ConcatAssociative
  <2> QED BY <1>0, <2>1, Zenon
<1>n. \A a \in A : a \o <<>> = a
  BY ConcatEmptySeq
<1>x. \E f : ToldMade(f, s, out, Len(s), Seq(Fragment))
  BY <1>0, ToldStepByStep
<1>y. \E f : ToldMade(f, u, out, Len(u), Seq(Fragment))
  BY <1>0, ToldStepByStep
<1> HIDE DEF both
<1>z. \E f : ToldMade(f, both, out, Len(both), Seq(Fragment))
  BY <1>0, <1>1, ToldStepByStep
<1> HIDE DEF M, N, A
<1>2. PICK f \in [0 .. M -> A] :
        /\ Told(s, out) = f[M] /\ f[0] = <<>>
        /\ \A n \in 1 .. M : f[n] = IF s[n].type = "grown" /\ s[n].out = out
           THEN f[n - 1] \o s[n].args ELSE f[n - 1]
  BY <1>x DEF M, A, ToldMade
<1>3. PICK g \in [0 .. N -> A] :
        /\ Told(u, out) = g[N] /\ g[0] = <<>>
        /\ \A n \in 1 .. N : g[n] = IF u[n].type = "grown" /\ u[n].out = out
           THEN g[n - 1] \o u[n].args ELSE g[n - 1]
  BY <1>y DEF N, A, ToldMade
<1>4. PICK h \in [0 .. (M + N) -> A] :
        /\ Told(both, out) = h[M + N] /\ h[0] = <<>>
        /\ \A n \in 1 .. (M + N) : h[n] = IF both[n].type = "grown" /\ both[n].out = out
           THEN h[n - 1] \o both[n].args ELSE h[n - 1]
  BY <1>z, <1>1 DEF A, ToldMade
<1>5. f[M] \in A /\ g[N] \in A /\ h[M] \in A
  BY <1>1, <1>2, <1>3, <1>4
<1> DEFINE T == {n \in 0 .. M : h[n] = f[n]}
<1>6. 0 \in T
  BY <1>1, <1>2, <1>4
<1>7. ASSUME NEW n \in 1 .. M, n - 1 \in T PROVE n \in T
  <2>1. n \in 1 .. (M + N) /\ n \in 0 .. M
    BY <1>1
  <2>2. h[n - 1] = f[n - 1] /\ both[n] = s[n]
    BY <1>1, <1>7
  <2>3. h[n] = f[n]
    BY <1>2, <1>4, <2>1, <2>2, Zenon
  <2> QED BY <2>1, <2>3
<1> HIDE DEF T
<1>8. M \in T
  <2>1. \A n \in 0 .. M : n \in T
    BY <1>1, <1>6, <1>7, EachStep
  <2>2. M \in 0 .. M
    BY <1>1
  <2> QED BY <2>1, <2>2
<1>9. h[M] = f[M]
  BY <1>8 DEF T
<1> DEFINE Q == {n \in 0 .. N : h[M + n] = f[M] \o g[n]}
<1>10. 0 \in Q
  <2>1. h[M + 0] = f[M]
    BY <1>1, <1>9
  <2>2. f[M] \o g[0] = f[M]
    BY <1>3, <1>5, <1>n, Zenon
  <2>3. 0 \in 0 .. N
    BY <1>1
  <2> QED BY <2>1, <2>2, <2>3, Zenon
<1>11. ASSUME NEW n \in 1 .. N, n - 1 \in Q PROVE n \in Q
  <2>1. M + n \in 1 .. (M + N) /\ n \in 0 .. N /\ M + (n - 1) = (M + n) - 1 /\ n - 1 \in 0 .. N
    BY <1>1
  <2>2. h[(M + n) - 1] = f[M] \o g[n - 1] /\ both[M + n] = u[n] /\ g[n - 1] \in A /\ u[n] \in Event
    BY <1>1, <1>3, <1>11, <2>1
  <2>3. h[M + n] = IF u[n].type = "grown" /\ u[n].out = out THEN h[(M + n) - 1] \o u[n].args
        ELSE h[(M + n) - 1]
    BY <1>4, <2>1, <2>2, Zenon
  <2>4. g[n] = IF u[n].type = "grown" /\ u[n].out = out THEN g[n - 1] \o u[n].args ELSE g[n - 1]
    BY <1>3, Zenon
  <2>5. CASE u[n].type = "grown" /\ u[n].out = out
    <3>1. h[M + n] = (f[M] \o g[n - 1]) \o u[n].args /\ g[n] = g[n - 1] \o u[n].args
      BY <2>2, <2>3, <2>4, <2>5, Zenon
    <3>2. (f[M] \o g[n - 1]) \o u[n].args = f[M] \o (g[n - 1] \o u[n].args)
      BY <1>5, <1>r, <2>2, <2>5, Zenon
    <3> QED BY <2>1, <3>1, <3>2, Zenon
  <2>6. CASE ~(u[n].type = "grown" /\ u[n].out = out)
    <3>1. h[M + n] = f[M] \o g[n - 1] /\ g[n] = g[n - 1]
      BY <2>2, <2>3, <2>4, <2>6, Zenon
    <3> QED BY <2>1, <3>1, Zenon
  <2> QED BY <2>5, <2>6
<1> HIDE DEF Q
<1>12. N \in Q
  <2>1. \A n \in 0 .. N : n \in Q
    BY <1>1, <1>10, <1>11, EachStep
  <2>2. N \in 0 .. N
    BY <1>1
  <2> QED BY <2>1, <2>2
<1>13. h[M + N] = f[M] \o g[N]
  BY <1>12 DEF Q
<1> QED BY <1>2, <1>3, <1>4, <1>5, <1>13 DEF both, A

(* Of an item nothing is told by no event, and by one event what it says.  *)
LEMMA ToldOfOne ==
  ASSUME NEW out
  PROVE  /\ Told(<<>>, out) = <<>>
         /\ \A e \in Event : Told(<<e>>, out) = IF e.type = "grown" /\ e.out = out THEN e.args
            ELSE <<>>
<1>0. \A e \in Event : e.type = "grown" => e.args \in Seq(Fragment)
  BY EventFacts
<1>1. Told(<<>>, out) = <<>>
  <2> DEFINE s == <<>>
  <2>1. s \in Seq(Event) /\ Len(s) = 0
    OBVIOUS
  <2> HIDE DEF s
  <2>2. \E f : ToldMade(f, s, out, Len(s), Seq(Fragment))
    BY <1>0, <2>1, ToldStepByStep
  <2> QED BY <2>1, <2>2 DEF ToldMade, s
<1>2. ASSUME NEW e \in Event
      PROVE  Told(<<e>>, out) = IF e.type = "grown" /\ e.out = out THEN e.args ELSE <<>>
  <2> DEFINE s == <<e>>
             A == Seq(Fragment)
  <2>1. s \in Seq(Event) /\ Len(s) = 1 /\ s[1] = e
    OBVIOUS
  <2>n. \A a \in A : <<>> \o a = a
    BY ConcatEmptySeq
  <2> HIDE DEF s
  <2>2. \E f : ToldMade(f, s, out, Len(s), Seq(Fragment))
    BY <1>0, <2>1, ToldStepByStep
  <2>3. PICK f : ToldMade(f, s, out, 1, Seq(Fragment))
    BY <2>1, <2>2
  <2>4. Told(s, out) = f[1] /\ f[0] = <<>> /\ f[1] = IF e.type = "grown" /\ e.out = out
        THEN f[0] \o e.args ELSE f[0]
    <3>1. 1 \in 1 .. 1 /\ 1 - 1 = 0
      OBVIOUS
    <3> QED BY <2>1, <2>3, <3>1, Zenon DEF ToldMade
  <2> HIDE DEF A
  <2>5. e.type = "grown" => <<>> \o e.args = e.args
    BY <1>0, <2>n, Zenon DEF A
  <2> QED BY <2>4, <2>5, Zenon DEF s
<1> QED BY <1>1, <1>2

None(events, type, out) ==
  \A n \in 1 .. Len(events) : ~(events[n].type = type /\ events[n].out = out)

(* An event told once in one of two runs, and no other of its kind about   *)
(* its item in the other, is told once in both together.                   *)
LEMMA OnceOfConcat ==
  ASSUME NEW E, NEW s \in Seq(E), NEW u \in Seq(E)
  PROVE  /\ \A type, out : None(s, type, out) /\ None(u, type, out) => None(s \o u, type, out)
         /\ \A e : Once(s, e) /\ None(u, e.type, e.out) => Once(s \o u, e)
         /\ \A e : None(s, e.type, e.out) /\ Once(u, e) => Once(s \o u, e)
<1> DEFINE M == Len(s)
           N == Len(u)
           both == s \o u
<1>1. /\ M \in Nat /\ N \in Nat /\ Len(both) = M + N
      /\ \A n \in 1 .. M : both[n] = s[n]
      /\ \A n \in 1 .. N : both[M + n] = u[n]
  OBVIOUS
<1> HIDE DEF M, N, both
<1>2. \A n \in 1 .. (M + N) : n \in 1 .. M \/ (n - M \in 1 .. N /\ M + (n - M) = n)
  BY <1>1
<1>3. \A n \in 1 .. M : n \in 1 .. (M + N)
  BY <1>1
<1>4. \A n \in 1 .. N : M + n \in 1 .. (M + N)
  BY <1>1
<1>b. \A n \in 1 .. (M + N) : (both[n] = s[n] /\ n \in 1 .. M) \/ (both[n] = u[n - M]
      /\ n - M \in 1 .. N)
  BY <1>1, <1>2
<1>5. ASSUME NEW type, NEW out, None(s, type, out), None(u, type, out) PROVE None(both, type, out)
  <2>1. /\ \A n \in 1 .. M : ~(s[n].type = type /\ s[n].out = out)
        /\ \A n \in 1 .. N : ~(u[n].type = type /\ u[n].out = out)
    BY <1>5 DEF None, M, N
  <2>2. ASSUME NEW n \in 1 .. (M + N) PROVE ~(both[n].type = type /\ both[n].out = out)
    BY <1>b, <2>1
  <2> QED BY <1>1, <2>2 DEF None
<1>6. ASSUME NEW e, Once(s, e), None(u, e.type, e.out) PROVE Once(both, e)
  <2>1. PICK n \in 1 .. M : s[n] = e /\ \A m \in 1 .. M : s[m].type = e.type /\ s[m].out = e.out
        => m = n
    BY <1>6 DEF Once, M
  <2>2. \A m \in 1 .. N : ~(u[m].type = e.type /\ u[m].out = e.out)
    BY <1>6 DEF None, N
  <2>3. n \in 1 .. (M + N) /\ both[n] = e
    BY <1>1, <1>3, <2>1
  <2>4. ASSUME NEW m \in 1 .. (M + N), both[m].type = e.type, both[m].out = e.out PROVE m = n
    <3>1. CASE m \in 1 .. M /\ both[m] = s[m]
      BY <2>1, <2>4, <3>1
    <3>2. CASE m - M \in 1 .. N /\ both[m] = u[m - M]
      BY <2>2, <2>4, <3>2
    <3> QED BY <1>b, <3>1, <3>2
  <2> QED BY <1>1, <2>3, <2>4 DEF Once
<1>7. ASSUME NEW e, None(s, e.type, e.out), Once(u, e) PROVE Once(both, e)
  <2>1. PICK n \in 1 .. N : u[n] = e /\ \A m \in 1 .. N : u[m].type = e.type /\ u[m].out = e.out
        => m = n
    BY <1>7 DEF Once, N
  <2>2. \A m \in 1 .. M : ~(s[m].type = e.type /\ s[m].out = e.out)
    BY <1>7 DEF None, M
  <2>3. M + n \in 1 .. (M + N) /\ both[M + n] = e
    BY <1>1, <1>4, <2>1
  <2>4. ASSUME NEW m \in 1 .. (M + N), both[m].type = e.type, both[m].out = e.out PROVE m = M + n
    <3>1. CASE m \in 1 .. M /\ both[m] = s[m]
      BY <2>2, <2>4, <3>1
    <3>2. CASE m - M \in 1 .. N /\ both[m] = u[m - M]
      <4>1. m - M = n
        BY <2>1, <2>4, <3>2
      <4> QED BY <1>1, <4>1
    <3> QED BY <1>b, <3>1, <3>2
  <2> QED BY <1>1, <2>3, <2>4 DEF Once
<1> QED BY <1>5, <1>6, <1>7 DEF both

(* One event is told once; none is told by no event.                       *)
LEMMA OnceOfOne ==
  ASSUME NEW e
  PROVE  /\ Once(<<e>>, e)
         /\ \A type, out : ~(e.type = type /\ e.out = out) => None(<<e>>, type, out)
         /\ \A type, out : None(<<>>, type, out)
  BY DEF Once, None

(* Where an event of two runs together comes from.                         *)
LEMMA ElementOfConcat ==
  ASSUME NEW E, NEW s \in Seq(E), NEW u \in Seq(E), NEW n \in 1 .. Len(s \o u)
  PROVE  \/ n \in 1 .. Len(s) /\ (s \o u)[n] = s[n]
         \/ n - Len(s) \in 1 .. Len(u) /\ (s \o u)[n] = u[n - Len(s)]
<1>1. n \in 1 .. Len(s) \/ n - Len(s) \in 1 .. Len(u)
  OBVIOUS
<1> QED BY <1>1

(* The events tell more of item o: that it opens as k, that it grows by    *)
(* more, or both.                                                          *)
SaysMore(before, after, o, k, more, adds, tells) ==
  /\ after \in Seq(Event)
  /\ \A out : out # o \/ ~tells => Told(after, out) = Told(before, out)
  /\ tells => Told(after, o) = Told(before, o) \o more
  /\ \A out, call : (out # o \/ ~adds) /\ Once(before, Opened(out, call))
     => Once(after, Opened(out, call))
  /\ adds /\ None(before, "opened", o) => Once(after, Opened(o, k))
  /\ \A out : (out # o \/ ~adds) /\ None(before, "opened", out) => None(after, "opened", out)
  /\ \A n \in 1 .. Len(after) :
       \/ \E m \in 1 .. Len(before) : after[n] = before[m]
       \/ adds /\ after[n] = Opened(o, k)
       \/ tells /\ after[n] = Grown(o, more)

(* What comes of telling of an item: that it opens, what it grows by, or   *)
(* both.                                                                   *)
LEMMA Telling ==
  ASSUME NEW events \in Seq(Event), NEW o \in Int, NEW k \in ToolCalls \cup {Prose},
         NEW more \in Seq(Fragment), NEW adds \in BOOLEAN, NEW tells \in BOOLEAN,
         NEW longer,
         longer = events \o (IF adds THEN <<Opened(o, k)>> ELSE <<>>)
                         \o (IF tells THEN <<Grown(o, more)>> ELSE <<>>)
  PROVE  SaysMore(events, longer, o, k, more, adds, tells)
<1> DEFINE A == IF adds THEN <<Opened(o, k)>> ELSE <<>>
           B == IF tells THEN <<Grown(o, more)>> ELSE <<>>
           mid == events \o A
<1>1. Opened(o, k) \in Event /\ Grown(o, more) \in Event
  BY EventFacts
<1>2. A \in Seq(Event) /\ B \in Seq(Event)
  BY <1>1
<1>3. /\ Opened(o, k).type = "opened" /\ Opened(o, k).out = o
      /\ Grown(o, more).type = "grown" /\ Grown(o, more).out = o /\ Grown(o, more).args = more
      /\ \A out, call : Opened(out, call).type = "opened" /\ Opened(out, call).out = out
  BY DEF Opened, Grown
<1> HIDE DEF A, B
<1>4. mid \in Seq(Event) /\ longer = mid \o B
  BY <1>2 DEF A, B
<1>5. longer \in Seq(Event)
  <2>1. mid \o B \in Seq(Event)
    BY <1>2, <1>4
  <2> QED BY <1>4, <2>1, Zenon
<1> HIDE DEF mid
<1>n. \A a \in Seq(Fragment) : a \o <<>> = a
  BY ConcatEmptySeq
<1>6. \A out : Told(A, out) = <<>>
  BY <1>1, <1>3, ToldOfOne, Zenon DEF A
<1>7. /\ \A out : out # o \/ ~tells => Told(B, out) = <<>>
      /\ tells => Told(B, o) = more
  BY <1>1, <1>3, ToldOfOne, Zenon DEF B
<1>8. \A out : /\ Told(events, out) \in Seq(Fragment) /\ Told(mid, out) = Told(events, out) \o Told(A, out)
               /\ Told(longer, out) = Told(mid, out) \o Told(B, out)
  <2>1. ASSUME NEW out
        PROVE  /\ Told(events, out) \in Seq(Fragment) /\ Told(mid, out) = Told(events, out) \o Told(A, out)
               /\ Told(longer, out) = Told(mid, out) \o Told(B, out)
    <3>1. /\ Told(events, out) \in Seq(Fragment)
          /\ Told(events \o A, out) = Told(events, out) \o Told(A, out)
      BY <1>2, ToldOfConcat
    <3>2. Told(mid \o B, out) = Told(mid, out) \o Told(B, out)
      BY <1>2, <1>4, ToldOfConcat
    <3> QED BY <1>4, <3>1, <3>2, Zenon DEF mid
  <2> QED BY <2>1
<1>9. \A out : Told(mid, out) = Told(events, out)
  BY <1>6, <1>8, <1>n, Zenon
<1>10. \A out : out # o \/ ~tells => Told(longer, out) = Told(events, out)
  BY <1>7, <1>8, <1>9, <1>n, Zenon
<1>11. tells => Told(longer, o) = Told(events, o) \o more
  BY <1>7, <1>8, <1>9, Zenon
<1>12. \A out : None(B, "opened", out)
  BY <1>3, OnceOfOne, Zenon DEF B
<1>13. \A out : out # o \/ ~adds => None(A, "opened", out)
  BY <1>3, OnceOfOne, Zenon DEF A
<1>14. adds => Once(A, Opened(o, k))
  BY OnceOfOne, Zenon DEF A
<1>15. /\ \A type, out : None(events, type, out) /\ None(A, type, out) => None(mid, type, out)
       /\ \A e : Once(events, e) /\ None(A, e.type, e.out) => Once(mid, e)
       /\ \A e : None(events, e.type, e.out) /\ Once(A, e) => Once(mid, e)
  BY <1>2, OnceOfConcat, Zenon DEF mid
<1>16. /\ \A type, out : None(mid, type, out) /\ None(B, type, out) => None(longer, type, out)
       /\ \A e : Once(mid, e) /\ None(B, e.type, e.out) => Once(longer, e)
  <2>1. /\ \A type, out : None(mid, type, out) /\ None(B, type, out) => None(mid \o B, type, out)
        /\ \A e : Once(mid, e) /\ None(B, e.type, e.out) => Once(mid \o B, e)
    BY <1>2, <1>4, OnceOfConcat, Zenon
  <2> QED BY <1>4, <2>1, Zenon
<1>17. \A out, call : (out # o \/ ~adds) /\ Once(events, Opened(out, call))
       => Once(longer, Opened(out, call))
  <2> SUFFICES ASSUME NEW out, NEW call, out # o \/ ~adds, Once(events, Opened(out, call))
               PROVE  Once(longer, Opened(out, call))
    OBVIOUS
  <2>0. Opened(out, call).type = "opened" /\ Opened(out, call).out = out
    BY DEF Opened
  <2>1. None(A, Opened(out, call).type, Opened(out, call).out)
        /\ None(B, Opened(out, call).type, Opened(out, call).out)
    BY <1>12, <1>13, <2>0, Zenon
  <2> QED BY <1>15, <1>16, <2>1, Zenon
<1>18. adds /\ None(events, "opened", o) => Once(longer, Opened(o, k))
  <2> SUFFICES ASSUME adds, None(events, "opened", o) PROVE Once(longer, Opened(o, k))
    OBVIOUS
  <2>1. None(events, Opened(o, k).type, Opened(o, k).out)
        /\ None(B, Opened(o, k).type, Opened(o, k).out)
    BY <1>3, <1>12, Zenon
  <2> QED BY <1>14, <1>15, <1>16, <2>1, Zenon
<1>19. \A out : (out # o \/ ~adds) /\ None(events, "opened", out) => None(longer, "opened", out)
  BY <1>12, <1>13, <1>15, <1>16, Zenon
<1>20. \A n \in 1 .. Len(longer) :
              \/ \E m \in 1 .. Len(events) : longer[n] = events[m]
              \/ adds /\ longer[n] = Opened(o, k)
              \/ tells /\ longer[n] = Grown(o, more)
  <2> SUFFICES ASSUME NEW n \in 1 .. Len(longer)
               PROVE  \/ \E m \in 1 .. Len(events) : longer[n] = events[m]
                      \/ adds /\ longer[n] = Opened(o, k)
                      \/ tells /\ longer[n] = Grown(o, more)
    OBVIOUS
  <2>1. \/ n \in 1 .. Len(mid) /\ longer[n] = mid[n]
        \/ n - Len(mid) \in 1 .. Len(B) /\ longer[n] = B[n - Len(mid)]
    BY <1>2, <1>4, ElementOfConcat
  <2>2. CASE n \in 1 .. Len(mid) /\ longer[n] = mid[n]
    <3>1. \/ n \in 1 .. Len(events) /\ mid[n] = events[n]
          \/ n - Len(events) \in 1 .. Len(A) /\ mid[n] = A[n - Len(events)]
      BY <1>2, <1>4, <2>2, ElementOfConcat DEF mid
    <3>2. \A m \in 1 .. Len(A) : adds /\ A[m] = Opened(o, k)
      BY DEF A
    <3> QED BY <2>2, <3>1, <3>2, Zenon
  <2>3. CASE n - Len(mid) \in 1 .. Len(B) /\ longer[n] = B[n - Len(mid)]
    <3>2. \A m \in 1 .. Len(B) : tells /\ B[m] = Grown(o, more)
      BY DEF B
    <3> QED BY <2>3, <3>2, Zenon
  <2> QED BY <2>1, <2>2, <2>3
<1> QED BY <1>5, <1>10, <1>11, <1>17, <1>18, <1>19, <1>20, Zenon DEF SaysMore

ClosingsMade(f, items, N, A) ==
  /\ f \in [0 .. N -> A] /\ Closings(items) = f[N] /\ f[0] = <<>>
  /\ \A n \in 1 .. N : f[n] = f[n - 1] \o Closing(items[n])

(* What closes an item are events.                                         *)
LEMMA ClosingIsEvents ==
  ASSUME NEW e \in Item
  PROVE  Closing(e) \in Seq(Event)
<1> DEFINE Args == Seq(Fragment)
<1>1. e.args \in Args /\ e.out \in Int
  <2> HIDE DEF Args
  <2>1. Item = [type : {"opened", "grown", "closed"}, out : Int, call : ToolCalls \cup {Prose,
        NoCall}, args : Args]
    BY DEF Item, Args
  <2> QED BY <2>1
<1>2. e \in Event /\ Grown(e.out, e.args) \in Event
  BY <1>1, EventFacts
<1>3. <<>> \in Seq(Event) /\ <<e>> \in Seq(Event) /\ <<Grown(e.out, e.args), e>> \in Seq(Event)
  BY <1>2
<1> QED BY <1>3, Zenon DEF Closing

(* The items are closed one by one.                                        *)
LEMMA ClosingsStepByStep ==
  ASSUME NEW items \in Seq(Item)
  PROVE  \E f : ClosingsMade(f, items, Len(items), Seq(Event))
<1> DEFINE N == Len(items)
           Values == Seq(Event)
           F == [x \in Values \X (1 .. N) |-> x[1] \o Closing(items[x[2]])]
           Steps(f) == [n \in 0 .. N |-> IF n = 0 THEN <<>> ELSE f[n - 1] \o Closing(items[n])]
           upto == CHOOSE f : f = Steps(f)
<1>0. N \in Nat /\ <<>> \in Values /\ \A n \in 1 .. N : Closing(items[n]) \in Values
  <2>1. N \in Nat /\ \A n \in 1 .. N : items[n] \in Item
    OBVIOUS
  <2>2. <<>> \in Values
    OBVIOUS
  <2> QED BY <2>1, <2>2, ClosingIsEvents
<1>1. F \in [Values \X (1 .. N) -> Values]
  <2> HIDE DEF N
  <2>1. ASSUME NEW v \in Values, NEW n \in 1 .. N PROVE (v \o Closing(items[n])) \in Values
    BY <1>0
  <2> HIDE DEF Values
  <2>2. \A x \in Values \X (1 .. N) : x[1] \in Values /\ x[2] \in 1 .. N
    OBVIOUS
  <2>3. \A x \in Values \X (1 .. N) : (x[1] \o Closing(items[x[2]])) \in Values
    BY <2>1, <2>2
  <2> QED BY <2>3
<1>2. Closings(items) = upto[N]
  BY DEF Closings
<1>3. \A a \in Values, n \in 1 .. N : F[<<a, n>>] = a \o Closing(items[n])
  OBVIOUS
<1> HIDE DEF F, N, upto, Values
<1>g. \E g : MadeInSteps(g, Values, <<>>, N, F)
  BY <1>0, <1>1, StepByStep
<1>4. PICK g \in [0 .. N -> Values] :
        g[0] = <<>> /\ \A n \in 1 .. N : g[n] = F[<<g[n - 1], n>>]
  BY <1>g DEF MadeInSteps
<1>5. \A n \in 1 .. N : n # 0 /\ n \in 0 .. N /\ n - 1 \in 0 .. N /\ g[n - 1] \in Values
  BY <1>0, <1>4
<1>6. \A n \in 0 .. N : g[n] = IF n = 0 THEN <<>> ELSE g[n - 1] \o Closing(items[n])
  <2>1. \A n \in 0 .. N : n = 0 \/ n \in 1 .. N
    BY <1>0
  <2>2. ASSUME NEW n \in 1 .. N PROVE g[n] = g[n - 1] \o Closing(items[n])
    BY <1>3, <1>4, <1>5, Zenon
  <2> QED BY <1>4, <1>5, <2>1, <2>2, Zenon
<1>7. g = [n \in 0 .. N |-> g[n]]
  BY <1>4
<1>8. g = Steps(g)
  BY <1>6, <1>7, Zenon
<1>9. upto = Steps(upto)
  BY <1>8, Zenon DEF upto
<1>10. upto[0] = <<>> /\ \A n \in 1 .. N : upto[n] = upto[n - 1] \o Closing(items[n])
  <2>1. \A n \in 0 .. N : upto[n] = IF n = 0 THEN <<>> ELSE upto[n - 1] \o Closing(items[n])
    BY <1>9, Zenon
  <2>2. 0 \in 0 .. N
    BY <1>0
  <2> QED BY <1>5, <2>1, <2>2, Zenon
<1>12. upto = [n \in 0 .. N |-> upto[n]]
  <2>1. \A f : Steps(f) = [n \in 0 .. N |-> Steps(f)[n]]
    OBVIOUS
  <2> QED BY <1>9, <2>1, Zenon
<1> HIDE DEF Steps
<1>11. \A n \in 0 .. N : upto[n] \in Values
  <2> DEFINE T == {n \in 0 .. N : upto[n] \in Values}
  <2>1. 0 \in T
    BY <1>0, <1>10
  <2>2. ASSUME NEW n \in 1 .. N, n - 1 \in T PROVE n \in T
    <3>1. upto[n - 1] \in Values
      BY <2>2
    <3>2. F[<<upto[n - 1], n>>] \in Values
      BY <1>1, <3>1
    <3>3. upto[n] = F[<<upto[n - 1], n>>]
      BY <1>3, <1>10, <3>1, Zenon
    <3> QED BY <1>5, <3>2, <3>3
  <2> HIDE DEF T
  <2>3. \A n \in 0 .. N : n \in T
    BY <1>0, <2>1, <2>2, EachStep
  <2> QED BY <2>3 DEF T
<1>13. upto \in [0 .. N -> Values]
  BY <1>11, <1>12
<1> QED BY <1>2, <1>10, <1>13 DEF N, Values, ClosingsMade

Skipped(e) == protocol = "responses" /\ e.call = Prose
Raw(e)     == IF protocol = "responses" /\ e.call \in CustomCalls THEN e.args ELSE <<>>

(* An item is shut by events: all that was kept of it is told, and it is   *)
(* closed once if it was not before.                                       *)
Shut(events, e) ==
  /\ Told(events, e.out) = Raw(e)
  /\ Skipped(e) => None(events, "closed", e.out)
  /\ ~Skipped(e) => Once(events, e)

Untouched(events, out) == Told(events, out) = <<>> /\ None(events, "closed", out)

(* What an item is made of.                                                *)
LEMMA ItemFacts ==
  ASSUME NEW e \in Item
  PROVE  /\ e.out \in Int /\ e.args \in Seq(Fragment) /\ e \in Event
         /\ e.type # "completed" /\ e.call \in ToolCalls \cup {Prose, NoCall}
<1> DEFINE Args == Seq(Fragment)
<1>1. e.args \in Args /\ e.out \in Int /\ e.type \in {"opened", "grown", "closed"}
      /\ e.call \in ToolCalls \cup {Prose, NoCall}
  <2> HIDE DEF Args
  <2>1. Item = [type : {"opened", "grown", "closed"}, out : Int, call : ToolCalls \cup {Prose,
        NoCall}, args : Args]
    BY DEF Item, Args
  <2> QED BY <2>1
<1> QED BY <1>1, EventFacts

(* What closes an item closes it once, tells the raw input of a custom     *)
(* tool, and says nothing of another item.                                 *)
LEMMA ClosingShuts ==
  ASSUME NEW e \in Item, e.type = "closed"
  PROVE  /\ \A n \in 1 .. Len(Closing(e)) : Closing(e)[n].type \in {"grown", "closed"}
         /\ Shut(Closing(e), e)
         /\ \A out : out # e.out => Untouched(Closing(e), out)
<1> DEFINE G == Grown(e.out, e.args)
<1>1. e \in Event /\ G \in Event /\ e.args \in Seq(Fragment)
  BY ItemFacts, EventFacts
<1>2. G.type = "grown" /\ G.out = e.out /\ G.args = e.args
  BY DEF Grown
<1>3. Prose \notin CustomCalls
  BY StreamAssumption
<1> HIDE DEF G
<1>5. CASE Skipped(e)
  <2>1. Closing(e) = <<>>
    BY <1>5 DEF Closing, Skipped
  <2>2. Raw(e) = <<>>
    BY <1>3, <1>5 DEF Raw, Skipped
  <2>3. /\ \A out : Told(<<>>, out) = <<>>
        /\ \A type, out : None(<<>>, type, out)
    BY ToldOfOne, OnceOfOne, Zenon
  <2>4. \A out : Untouched(Closing(e), out)
    BY <2>1, <2>3, Zenon DEF Untouched
  <2>5. Shut(Closing(e), e)
    BY <2>1, <2>2, <2>3, <1>5, Zenon DEF Shut
  <2> QED BY <2>1, <2>4, <2>5
<1>6. CASE ~Skipped(e) /\ ~(protocol = "responses" /\ e.call \in CustomCalls)
  <2>1. Closing(e) = <<e>>
    BY <1>6 DEF Closing, Skipped
  <2>2. Raw(e) = <<>>
    BY <1>6 DEF Raw
  <2>3. \A out : Told(<<e>>, out) = <<>>
    BY <1>1, ToldOfOne
  <2>4. Once(<<e>>, e) /\ \A out : out # e.out => None(<<e>>, "closed", out)
    BY OnceOfOne, Zenon
  <2>5. \A out : out # e.out => Untouched(Closing(e), out)
    BY <2>1, <2>3, <2>4, Zenon DEF Untouched
  <2>6. Shut(Closing(e), e)
    BY <2>1, <2>2, <2>3, <2>4, <1>6, Zenon DEF Shut
  <2> QED BY <2>1, <2>5, <2>6
<1>7. CASE ~Skipped(e) /\ protocol = "responses" /\ e.call \in CustomCalls
  <2>1. Closing(e) = <<G, e>>
    BY <1>7 DEF Closing, Skipped, G
  <2>2. Raw(e) = e.args
    BY <1>7 DEF Raw
  <2> DEFINE both == <<G>> \o <<e>>
  <2>3. <<G, e>> = both /\ <<G>> \in Seq(Event) /\ <<e>> \in Seq(Event)
    BY <1>1
  <2>4. \A out : Told(both, out) = Told(<<G>>, out) \o Told(<<e>>, out)
    <3> HIDE DEF both
    <3>1. ASSUME NEW out PROVE Told(<<G>> \o <<e>>, out) = Told(<<G>>, out) \o Told(<<e>>, out)
      BY <2>3, ToldOfConcat
    <3> QED BY <3>1 DEF both
  <2>5. /\ Told(<<G>>, e.out) = e.args
        /\ \A out : out # e.out => Told(<<G>>, out) = <<>>
        /\ \A out : Told(<<e>>, out) = <<>>
    BY <1>1, <1>2, ToldOfOne
  <2>n. \A a \in Seq(Fragment) : a \o <<>> = a /\ <<>> \in Seq(Fragment)
    BY ConcatEmptySeq
  <2>6. Told(both, e.out) = e.args /\ \A out : out # e.out => Told(both, out) = <<>>
    BY <2>4, <2>5, <2>n, <1>1, Zenon
  <2>7. Once(<<e>>, e) /\ (\A out : out # e.out => None(<<e>>, "closed", out))
        /\ (\A out : None(<<G>>, "closed", out))
    <3>1. G.type # "closed"
      BY <1>2
    <3> QED BY <3>1, OnceOfOne, Zenon
  <2>8. Once(both, e) /\ \A out : out # e.out => None(both, "closed", out)
    <3>1. /\ \A type, out : None(<<G>>, type, out) /\ None(<<e>>, type, out)
             => None(<<G>> \o <<e>>, type, out)
          /\ \A x : None(<<G>>, x.type, x.out) /\ Once(<<e>>, x) => Once(<<G>> \o <<e>>, x)
      BY <2>3, OnceOfConcat
    <3> QED BY <2>7, <3>1, Zenon
  <2>9. \A n \in 1 .. Len(<<G, e>>) : <<G, e>>[n].type \in {"grown", "closed"}
    BY <1>2
  <2> HIDE DEF both
  <2>10. \A out : out # e.out => Untouched(Closing(e), out)
    BY <2>1, <2>3, <2>6, <2>8, Zenon DEF Untouched
  <2>11. Shut(Closing(e), e)
    BY <2>1, <2>2, <2>3, <2>6, <2>8, <1>7, Zenon DEF Shut
  <2> QED BY <2>1, <2>9, <2>10, <2>11, Zenon
<1> QED BY <1>5, <1>6, <1>7, Zenon

(* All items are shut when the events that close them are told.            *)
LEMMA ClosingsShut ==
  ASSUME NEW items \in Seq(Item),
         \A n \in 1 .. Len(items) : items[n].type = "closed",
         \A m, n \in 1 .. Len(items) : items[m].out = items[n].out => m = n
  PROVE  /\ Closings(items) \in Seq(Event)
         /\ \A n \in 1 .. Len(Closings(items)) : Closings(items)[n].type \in {"grown", "closed"}
         /\ \A n \in 1 .. Len(items) : Shut(Closings(items), items[n])
<1> DEFINE N == Len(items)
           A == Seq(Event)
<1>1. N \in Nat /\ \A n \in 1 .. N : items[n] \in Item
  OBVIOUS
<1>2. \E f : ClosingsMade(f, items, N, A)
  BY ClosingsStepByStep
<1> HIDE DEF N, A
<1>3. PICK f : ClosingsMade(f, items, N, A)
  BY <1>2
<1>4. /\ f \in [0 .. N -> A] /\ Closings(items) = f[N] /\ f[0] = <<>>
      /\ \A n \in 1 .. N : f[n] = f[n - 1] \o Closing(items[n])
  BY <1>3 DEF ClosingsMade
<1> DEFINE Plain(c) == \A n \in 1 .. Len(c) : c[n].type \in {"grown", "closed"}
           T == {n \in 0 .. N : /\ Plain(f[n])
                                /\ \A m \in 1 .. N : m <= n => Shut(f[n], items[m])
                                /\ \A m \in 1 .. N : m > n => Untouched(f[n], items[m].out)}
<1>5. 0 \in T
  <2>1. Plain(<<>>)
    OBVIOUS
  <2>2. \A out : Untouched(<<>>, out)
    BY ToldOfOne, OnceOfOne, Zenon DEF Untouched
  <2>3. 0 \in 0 .. N /\ \A m \in 1 .. N : ~(m <= 0)
    BY <1>1
  <2> HIDE DEF Plain
  <2> QED BY <1>4, <2>1, <2>2, <2>3, Zenon
<1>6. ASSUME NEW n \in 1 .. N, n - 1 \in T PROVE n \in T
  <2> DEFINE c == f[n - 1]
             e == items[n]
             d == Closing(e)
  <2>1. n \in 0 .. N /\ n - 1 \in 0 .. N /\ n > n - 1
    BY <1>1
  <2>2. /\ Plain(c) /\ Untouched(c, e.out)
        /\ \A m \in 1 .. N : m <= n - 1 => Shut(c, items[m])
        /\ \A m \in 1 .. N : m > n => Untouched(c, items[m].out)
    BY <1>1, <1>6, <2>1
  <2>3. e \in Item /\ e.type = "closed" /\ c \in A
    BY <1>1, <1>4, <2>1 DEF N
  <2>4. /\ Plain(d) /\ Shut(d, e) /\ d \in A
        /\ \A out : out # e.out => Untouched(d, out)
    BY <2>3, ClosingShuts, ClosingIsEvents DEF A
  <2>5. f[n] = c \o d
    BY <1>4
  <2>6. \A m \in 1 .. N : m # n => items[m].out # e.out
    BY DEF N
  <2> HIDE DEF c, d, e
  <2>7. Plain(c \o d)
    <3> SUFFICES ASSUME NEW i \in 1 .. Len(c \o d) PROVE (c \o d)[i].type \in {"grown", "closed"}
      OBVIOUS
    <3>1. \/ i \in 1 .. Len(c) /\ (c \o d)[i] = c[i]
          \/ i - Len(c) \in 1 .. Len(d) /\ (c \o d)[i] = d[i - Len(c)]
      BY <2>3, <2>4, ElementOfConcat DEF A
    <3> QED BY <2>2, <2>4, <3>1
  <2> HIDE DEF Plain
  <2>8. ASSUME NEW out
        PROVE  /\ Told(c \o d, out) = Told(c, out) \o Told(d, out)
               /\ Told(c, out) \in Seq(Fragment) /\ Told(d, out) \in Seq(Fragment)
    BY <2>3, <2>4, ToldOfConcat DEF A
  <2>9. /\ \A type, out : None(c, type, out) /\ None(d, type, out) => None(c \o d, type, out)
        /\ \A x : Once(c, x) /\ None(d, x.type, x.out) => Once(c \o d, x)
        /\ \A x : None(c, x.type, x.out) /\ Once(d, x) => Once(c \o d, x)
    BY <2>3, <2>4, OnceOfConcat, Zenon DEF A
  <2>n. \A a \in Seq(Fragment) : a \o <<>> = a /\ <<>> \o a = a
    BY ConcatEmptySeq
  <2>10. Shut(c \o d, e)
    <3>1. Told(c \o d, e.out) = Raw(e)
      <4>1. Told(c, e.out) = <<>> /\ Told(d, e.out) = Raw(e)
        BY <2>2, <2>4, Zenon DEF Untouched, Shut
      <4>2. Told(c \o d, e.out) = Told(c, e.out) \o Told(d, e.out)
            /\ Told(d, e.out) \in Seq(Fragment)
        BY <2>8, Zenon
      <4>3. <<>> \o Told(d, e.out) = Told(d, e.out)
        BY <2>n, <4>2, Zenon
      <4> QED BY <4>1, <4>2, <4>3, Zenon
    <3>2. Skipped(e) => None(c \o d, "closed", e.out)
      BY <2>2, <2>4, <2>9, Zenon DEF Untouched, Shut
    <3>3. ~Skipped(e) => Once(c \o d, e)
      BY <2>2, <2>3, <2>4, <2>9, Zenon DEF Untouched, Shut
    <3> QED BY <3>1, <3>2, <3>3, Zenon DEF Shut
  <2>11. ASSUME NEW m \in 1 .. N, m > n PROVE Untouched(c \o d, items[m].out)
    <3>1. Untouched(c, items[m].out) /\ Untouched(d, items[m].out)
      <4>1. m # n
        BY <1>1, <2>11
      <4> QED BY <2>2, <2>4, <2>6, <2>11, <4>1, Zenon
    <3>2. Told(c \o d, items[m].out) = <<>>
      BY <3>1, <2>8, <2>n, Zenon DEF Untouched
    <3> QED BY <3>1, <3>2, <2>9, Zenon DEF Untouched
  <2>12. ASSUME NEW m \in 1 .. N, m <= n PROVE Shut(c \o d, items[m])
    <3>1. CASE m = n
      BY <3>1, <2>10 DEF e
    <3>2. CASE m # n
      <4>1. m <= n - 1
        BY <1>1, <2>12, <3>2
      <4>2. Shut(c, items[m]) /\ Untouched(d, items[m].out)
        BY <2>2, <2>4, <2>6, <3>2, <4>1, Zenon
      <4>3. items[m].type = "closed"
        BY DEF N
      <4>4. Told(c \o d, items[m].out) = Raw(items[m])
        BY <4>2, <2>8, <2>n, Zenon DEF Untouched, Shut
      <4>5. Skipped(items[m]) => None(c \o d, "closed", items[m].out)
        BY <4>2, <2>9, Zenon DEF Untouched, Shut
      <4>6. ~Skipped(items[m]) => Once(c \o d, items[m])
        BY <4>2, <4>3, <2>9, Zenon DEF Untouched, Shut
      <4> QED BY <4>4, <4>5, <4>6, Zenon DEF Shut
    <3> QED BY <3>1, <3>2
  <2> QED BY <2>1, <2>5, <2>7, <2>11, <2>12, Zenon
<1> HIDE DEF T
<1>7. N \in T
  <2>1. \A n \in 0 .. N : n \in T
    BY <1>1, <1>5, <1>6, EachStep
  <2>2. N \in 0 .. N
    BY <1>1
  <2> QED BY <2>1, <2>2
<1>8. Closings(items) \in A
  BY <1>1, <1>4
<1> QED BY <1>1, <1>4, <1>7, <1>8 DEF T, A, N

(* The items of a set have places of their own.                            *)
Distinct(S) ==
  /\ \A x \in S : x.out \in Int
  /\ \A x, y \in S : x.out = y.out => x = y

Before(x, y) == x.out < y.out

(* Items with output indexes of their own are in a strict total order.     *)
LEMMA BeforeIsAnOrder ==
  ASSUME NEW S, Distinct(S)
  PROVE  /\ \A i \in S : ~Before(i, i)
         /\ \A i, j \in S : i # j => Before(i, j) \/ Before(j, i)
         /\ \A i, j, k \in S : Before(i, j) /\ Before(j, k) => Before(i, k)
  BY DEF Distinct, Before

(* s lists the items of S in their order.                                  *)
Ordered(s, S) ==
  /\ s \in [1 .. Cardinality(S) -> S]
  /\ \A m, n \in 1 .. Cardinality(S) : m < n => Before(s[m], s[n])

(* An item can be put in its place among those that are in order.          *)
LEMMA PutInOrder ==
  ASSUME NEW All, Distinct(All), NEW S \in SUBSET All, IsFiniteSet(S), NEW x \in All, x \notin S,
         NEW s, Ordered(s, S)
  PROVE  \E t : Ordered(t, S \cup {x})
<1> DEFINE N == Cardinality(S)
           Later == {k \in 1 .. N + 1 : k = N + 1 \/ Before(x, s[k])}
<1>1. N \in Nat /\ Cardinality(S \cup {x}) = N + 1
  BY FS_CardinalityType, FS_AddElement
<1>2. /\ \A i \in 1 .. N : s[i] \in S /\ s[i] \in All /\ s[i] # x
      /\ \A m, n \in 1 .. N : m < n => Before(s[m], s[n])
  BY DEF Ordered
<1> HIDE DEF N
<1>3. Later \in SUBSET Nat /\ Later # {}
  <2>1. N + 1 \in Later
    BY <1>1
  <2> QED BY <1>1, <2>1
<1> HIDE DEF Later
<1>4. PICK k \in Later : \A l \in Later : ~(l < k)
  BY <1>3, LeastNatural
<1>5. k \in Int /\ 1 <= k /\ k <= N + 1 /\ (k = N + 1 \/ Before(x, s[k]))
  BY <1>1, <1>4 DEF Later
<1>6. ASSUME NEW i \in 1 .. N, i < k PROVE Before(s[i], x)
  <2>1. i \notin Later
    BY <1>4, <1>6
  <2>2. ~Before(x, s[i])
    BY <1>1, <2>1 DEF Later
  <2>3. s[i] \in All /\ s[i] # x
    BY <1>2
  <2> QED BY <2>2, <2>3, BeforeIsAnOrder
<1>7. ASSUME NEW i \in 1 .. N, k <= i PROVE Before(x, s[i])
  <2>0. i \in Int /\ 1 <= i /\ i <= N
    BY <1>1
  <2>1. k \in 1 .. N /\ Before(x, s[k])
    BY <1>1, <1>5, <1>7, <2>0
  <2>2. CASE k = i
    BY <2>1, <2>2
  <2>3. CASE k < i
    BY <1>2, <2>1, <2>3, BeforeIsAnOrder
  <2> QED BY <1>5, <1>7, <2>0, <2>2, <2>3
<1> DEFINE t == [i \in 1 .. N + 1 |-> IF i < k THEN s[i] ELSE IF i = k THEN x ELSE s[i - 1]]
<1>8. \A i \in 1 .. N + 1 :
        /\ i \in Int /\ 1 <= i /\ i <= N + 1
        /\ i < k => i \in 1 .. N
        /\ i > k => i - 1 \in 1 .. N
  BY <1>1, <1>5
<1>9. \A i \in 1 .. N + 1 :
        /\ i < k => t[i] = s[i]
        /\ i = k => t[i] = x
        /\ i > k => t[i] = s[i - 1]
  BY <1>5, <1>8
<1>10. t \in [1 .. N + 1 -> S \cup {x}]
  <2>1. \A i \in 1 .. N + 1 : t[i] \in S \cup {x}
    BY <1>2, <1>5, <1>8, <1>9
  <2>2. t = [i \in 1 .. N + 1 |-> t[i]]
    OBVIOUS
  <2> HIDE DEF t
  <2> QED BY <2>1, <2>2
<1> HIDE DEF t
<1>11. ASSUME NEW m \in 1 .. N + 1, NEW n \in 1 .. N + 1, m < n
       PROVE  Before(t[m], t[n])
  <2>0. /\ m \in Int /\ n \in Int
        /\ m < k \/ m = k \/ m > k
        /\ n < k \/ n = k \/ n > k
    BY <1>5, <1>8
  <2>1. CASE n < k
    <3>1. m < k /\ m \in 1 .. N /\ n \in 1 .. N
      BY <1>5, <1>8, <1>11, <2>0, <2>1
    <3> QED BY <1>2, <1>9, <1>11, <2>1, <3>1
  <2>2. CASE n = k
    <3>1. m < k /\ m \in 1 .. N
      BY <1>8, <1>11, <2>2
    <3> QED BY <1>6, <1>9, <2>2, <3>1
  <2>3. CASE n > k /\ m < k
    <3>1. m \in 1 .. N /\ n - 1 \in 1 .. N /\ m < n - 1
      BY <1>5, <1>8, <2>0, <2>3
    <3> QED BY <1>2, <1>9, <2>3, <3>1
  <2>4. CASE n > k /\ m = k
    <3>1. n - 1 \in 1 .. N /\ k <= n - 1
      BY <1>5, <1>8, <2>0, <2>4
    <3> QED BY <1>7, <1>9, <2>4, <3>1
  <2>5. CASE m > k
    <3>1. n > k /\ n - 1 \in 1 .. N /\ m - 1 \in 1 .. N /\ m - 1 < n - 1
      BY <1>5, <1>8, <1>11, <2>0, <2>5
    <3> QED BY <1>2, <1>9, <2>5, <3>1
  <2> QED BY <1>5, <1>11, <2>0, <2>1, <2>2, <2>3, <2>4, <2>5
<1>12. Ordered(t, S \cup {x})
  BY <1>1, <1>10, <1>11 DEF Ordered
<1> QED BY <1>12

(* The items of a finite set have their order.                             *)
LEMMA CanBeOrdered ==
  ASSUME NEW All, Distinct(All), NEW N \in Nat, NEW S \in SUBSET All, IsFiniteSet(S),
    Cardinality(S) = N
  PROVE  \E s : Ordered(s, S)
<1> DEFINE Sortable(n) == \A R \in SUBSET All :
             IsFiniteSet(R) /\ Cardinality(R) = n => \E s : Ordered(s, R)
           T == {n \in 0 .. N : Sortable(n)}
<1>1. 0 \in T
  <2>1. ASSUME NEW R \in SUBSET All, IsFiniteSet(R), Cardinality(R) = 0
        PROVE  \E s : Ordered(s, R)
    <3>1. R = {}
      BY <2>1, FS_EmptySet
    <3>2. [i \in 1 .. 0 |-> i] \in [1 .. 0 -> R] /\ \A m \in 1 .. 0 : FALSE
      OBVIOUS
    <3>3. Ordered([i \in 1 .. 0 |-> i], R)
      BY <2>1, <3>2 DEF Ordered
    <3> QED BY <3>3
  <2> QED BY <2>1
<1>2. ASSUME NEW n \in 1 .. N, n - 1 \in T PROVE n \in T
  <2>1. ASSUME NEW R \in SUBSET All, IsFiniteSet(R), Cardinality(R) = n
        PROVE  \E s : Ordered(s, R)
    <3>1. R # {}
      BY <2>1, FS_EmptySet
    <3>2. PICK x \in R : TRUE
      BY <3>1
    <3> DEFINE Q == R \ {x}
    <3>3. IsFiniteSet(Q) /\ Cardinality(Q) = n - 1 /\ Q \cup {x} = R /\ x \notin Q
      BY <2>1, <3>2, FS_RemoveElement
    <3>4. Q \in SUBSET All /\ x \in All
      OBVIOUS
    <3> HIDE DEF Q
    <3>5. PICK s : Ordered(s, Q)
      BY <1>2, <3>3, <3>4
    <3>6. \E t : Ordered(t, Q \cup {x})
      BY <3>3, <3>4, <3>5, PutInOrder
    <3> QED BY <3>3, <3>6
  <2> QED BY <2>1
<1> HIDE DEF T
<1>3. N \in T
  BY <1>1, <1>2, EachStep
<1> QED BY <1>3 DEF T

(* What a set is put in order as is its items, each once and in       *)
(* order.                                                                  *)
LEMMA ByOutIsOrdered ==
  ASSUME NEW All, Distinct(All), NEW S \in SUBSET All, IsFiniteSet(S)
  PROVE  /\ Cardinality(S) \in Nat
         /\ ByOut(S) \in Seq(S) /\ Len(ByOut(S)) = Cardinality(S)
         /\ \A m, n \in 1 .. Cardinality(S) : m < n => Before(ByOut(S)[m], ByOut(S)[n])
         /\ \A n \in 1 .. Cardinality(S) : ByOut(S)[n] \in S
         /\ \A i \in S : \E n \in 1 .. Cardinality(S) : ByOut(S)[n] = i
<1> DEFINE N == Cardinality(S)
           s == ByOut(S)
           Placed == {s[n] : n \in 1 .. N}
<1>1. N \in Nat
  BY FS_CardinalityType
<1>2. \E t : Ordered(t, S)
  BY <1>1, CanBeOrdered
<1>3. Ordered(s, S)
  BY <1>2 DEF Ordered, Before, ByOut
<1>4. s \in [1 .. N -> S] /\ \A m, n \in 1 .. N : m < n => Before(s[m], s[n])
  BY <1>3 DEF Ordered
<1> HIDE DEF N, s
<1>5. \A m, n \in 1 .. N : m # n => s[m] # s[n]
  <2> SUFFICES ASSUME NEW m \in 1 .. N, NEW n \in 1 .. N, m # n, s[m] = s[n] PROVE FALSE
    OBVIOUS
  <2>1. m < n \/ n < m
    BY <1>1
  <2> QED BY <1>4, <2>1, BeforeIsAnOrder
<1>6. s \in Bijection(1 .. N, Placed)
  BY <1>4, <1>5 DEF Bijection, Injection, Surjection, IsInjective
<1>7. IsFiniteSet(1 .. N) /\ Cardinality(1 .. N) = N
  BY <1>1, FS_Interval
<1>8. IsFiniteSet(Placed) /\ Cardinality(Placed) = N
  BY <1>6, <1>7, FS_Bijection DEF ExistsBijection
<1>9. Placed = S
  <2>1. Placed \subseteq S
    BY <1>4
  <2> HIDE DEF Placed
  <2> QED BY <1>8, <2>1, FS_Subset DEF N
<1>10. s \in Seq(S) /\ Len(s) = N
  BY <1>1, <1>4
<1> QED BY <1>1, <1>4, <1>9, <1>10 DEF s, N

(* Of an item that no event grows nothing is told.                         *)
LEMMA ToldOfNone ==
  ASSUME NEW s \in Seq(Event), NEW out, None(s, "grown", out)
  PROVE  Told(s, out) = <<>>
<1> DEFINE N == Len(s)
           A == Seq(Fragment)
<1>1. N \in Nat
  OBVIOUS
<1>0. \A e \in Event : e.type = "grown" => e.args \in Seq(Fragment)
  BY EventFacts
<1>x. \E f : ToldMade(f, s, out, N, A)
  BY <1>0, ToldStepByStep
<1>y. \A n \in 1 .. N : ~(s[n].type = "grown" /\ s[n].out = out)
  BY DEF None
<1> HIDE DEF N, A
<1>2. PICK f \in [0 .. N -> A] :
        /\ Told(s, out) = f[N] /\ f[0] = <<>>
        /\ \A n \in 1 .. N : f[n] = IF s[n].type = "grown" /\ s[n].out = out
           THEN f[n - 1] \o s[n].args ELSE f[n - 1]
  BY <1>x DEF ToldMade
<1> DEFINE T == {n \in 0 .. N : f[n] = <<>>}
<1>3. 0 \in T
  BY <1>1, <1>2
<1>4. ASSUME NEW n \in 1 .. N, n - 1 \in T PROVE n \in T
  <2>1. n \in 0 .. N /\ f[n - 1] = <<>>
    BY <1>1, <1>4
  <2>3. f[n] = <<>>
    BY <1>2, <1>y, <2>1, Zenon
  <2> QED BY <2>1, <2>3
<1> HIDE DEF T
<1>5. N \in T
  <2>1. \A n \in 0 .. N : n \in T
    BY <1>1, <1>3, <1>4, EachStep
  <2>2. N \in 0 .. N
    BY <1>1
  <2> QED BY <2>1, <2>2
<1> QED BY <1>2, <1>5 DEF T

Arguments == Seq(Fragment)
History   == Seq(Event)

ToolSlot == [call : ToolCalls \cup {NoCall}, name : ToolCalls \cup {NoCall}, args : Arguments,
             out : Nat, told : Nat, added : BOOLEAN]

SlotMap == UNION {[0 .. (n - 1) -> ToolSlot] : n \in Nat}

Flow == [slots : SlotMap, next : Nat, prose : Int, texts : Nat, events : History,
         stopped : BOOLEAN, ok : BOOLEAN]

Source == [opened : Seq(ToolCalls), named : SUBSET ToolCalls, given : [ToolCalls -> Nat],
           texts : Nat, pieces : Nat, ended : BOOLEAN]

(* The provider opens a call once, and gives only what it has opened; with *)
(* one number for all of its calls it gets no further than the first.      *)
Providing(s) ==
  /\ s \in Source
  /\ \A i, j \in 1 .. Len(s.opened) : s.opened[i] = s.opened[j] => i = j
  /\ \A k \in ToolCalls : s.given[k] > 0 => \E i \in 1 .. Len(s.opened) : s.opened[i] = k
  /\ style = "reused" => Len(s.opened) <= 1

(* Each call of the provider has its slot, and the slot what was given.    *)
SlotsInv(f, s) ==
  /\ DOMAIN f.slots = 0 .. (Len(s.opened) - 1)
  /\ \A i \in 0 .. (Len(s.opened) - 1) :
       /\ f.slots[i].call = s.opened[i + 1] /\ f.slots[i].args = Given(s, s.opened[i + 1])
       /\ f.slots[i].name \in {NoCall, s.opened[i + 1]}
       /\ f.slots[i].out < f.next /\ f.slots[i].out # f.prose
  /\ \A i, j \in 0 .. (Len(s.opened) - 1) : i < j => f.slots[i].out < f.slots[j].out
  /\ f.texts = s.texts /\ f.prose >= -1 /\ f.prose < f.next
  /\ f.prose = -1 <=> s.texts = 0

Streams(slot) == slot.added /\ (protocol = "responses" => slot.call \notin CustomCalls)

(* What the client was told of a slot.                                     *)
SlotTold(slot, events) ==
  /\ slot.added <=> slot.name # NoCall
  /\ protocol = "messages" => slot.added
  /\ protocol = "responses" => slot.told = IF Streams(slot) THEN Len(slot.args) ELSE 0
  /\ slot.added => Once(events, Opened(slot.out, slot.call))
  /\ ~slot.added => None(events, "opened", slot.out)
  /\ Told(events, slot.out) = IF Streams(slot) THEN slot.args ELSE <<>>

EventsInv(f) ==
  /\ \A i \in DOMAIN f.slots : SlotTold(f.slots[i], f.events)
  /\ f.prose # -1 => /\ Once(f.events, Opened(f.prose, Prose))
                     /\ Told(f.events, f.prose) = [n \in 1 .. f.texts |-> Prose]
  /\ \A n \in 1 .. Len(f.events) :
       /\ f.events[n].type \in {"opened", "grown"}
       /\ f.events[n].out >= 0 /\ f.events[n].out < f.next
       /\ f.events[n].type = "opened" =>
            f.events[n].out = f.prose \/ \E i \in DOMAIN f.slots : f.events[n].out = f.slots[i].out

Sound(f, s) == SlotsInv(f, s) /\ EventsInv(f)

(* A part without number and identifier has opened a slot of its own,      *)
(* which no part will ever give an identifier: finish() throws there.      *)
Loose(f, s) ==
  /\ \A i \in DOMAIN f.slots :
       /\ f.slots[i].call \in ToSet(s.opened) \cup {NoCall}
       /\ f.slots[i].added => f.slots[i].call # NoCall
       /\ f.slots[i].out < f.next
  /\ \A i, j \in DOMAIN f.slots : i < j => f.slots[i].out < f.slots[j].out

Orphan(slot) == ~slot.added /\ slot.call = NoCall

Doomed(f, s) ==
  /\ protocol = "responses" /\ style = "bare"
  /\ Loose(f, s)
  /\ \E i \in DOMAIN f.slots : Orphan(f.slots[i])

Ready(f, s) ==
  /\ Providing(s) /\ f \in Flow /\ ~f.stopped /\ f.ok
  /\ Sound(f, s) \/ Doomed(f, s)

IsPart(p) ==
  /\ p.call \in ToolCalls /\ p.id \in BOOLEAN /\ p.name \in BOOLEAN /\ p.more \in BOOLEAN
  /\ p.index \in Int

MoreOf(s, p) == IF p.more THEN <<<<p.call, s.given[p.call] + 1>>>> ELSE <<>>

(* The fragments given of a call are a sequence, as long as the number of  *)
(* them.                                                                   *)
LEMMA GivenFacts ==
  ASSUME NEW s, NEW k \in ToolCalls, s.given[k] \in Nat
  PROVE  Given(s, k) \in Seq(Fragment) /\ Len(Given(s, k)) = s.given[k] /\ Given(s, k) \in Arguments
<1> DEFINE N == s.given[k]
<1>1. \A n \in 1 .. N : <<k, n>> \in Fragment
  BY DEF Fragment
<1>2. Given(s, k) = [n \in 1 .. N |-> <<k, n>>]
  BY DEF Given
<1> HIDE DEF N
<1>3. N \in Nat
  BY DEF N
<1> QED BY <1>1, <1>2, <1>3 DEF N, Arguments

(* What the provider sends with a part.                                    *)
LEMMA SentFacts ==
  ASSUME NEW s \in Source, NEW p \in Parts(s), Sendable(s, p),
         \A i, j \in 1 .. Len(s.opened) : s.opened[i] = s.opened[j] => i = j,
         \A k \in ToolCalls : s.given[k] > 0 => \E i \in 1 .. Len(s.opened) : s.opened[i] = k
  PROVE  /\ IsPart(p) /\ Sent(s, p) \in Source /\ ~Sent(s, p).ended
         /\ Sent(s, p).texts = s.texts
         /\ p.call \in ToSet(s.opened) => Sent(s, p).opened = s.opened
         /\ p.call \notin ToSet(s.opened) => /\ Sent(s, p).opened = Append(s.opened, p.call)
                                             /\ Given(s, p.call) = <<>>
         /\ p.id <=> p.call \notin ToSet(s.opened) \/ style = "named"
         /\ p.index = Number(s, p.call)
         /\ MoreOf(s, p) \in Seq(Fragment)
         /\ Given(Sent(s, p), p.call) = Given(s, p.call) \o MoreOf(s, p)
         /\ \A c \in ToolCalls \ {p.call} : Given(Sent(s, p), c) = Given(s, c)
         /\ \A c \in ToolCalls : Sent(s, p).given[c] > 0 => c = p.call \/ s.given[c] > 0
<1> DEFINE t == Sent(s, p)
           k == p.call
           Calls == Seq(ToolCalls)
<1>1. PICK call \in ToolCalls, name \in BOOLEAN, more \in BOOLEAN :
        p = [call |-> call, id |-> ~Contains(s.opened, call)
          \/ style = "named", name |-> name, more |-> more,
             index |-> Number(s, call)]
  BY DEF Parts
<1>2. s.opened \in Calls /\ s.given \in [ToolCalls -> Nat] /\ s.named \in SUBSET ToolCalls
      /\ s.texts \in Nat /\ s.pieces \in Nat /\ s.ended \in BOOLEAN
  BY DEF Source
<1>3. k \in ToolCalls /\ p.name \in BOOLEAN /\ p.more \in BOOLEAN /\ p.id = (~Contains(s.opened, k)
      \/ style = "named") /\ p.index = Number(s, k)
  BY <1>1
<1>c. \A c : Contains(s.opened, c) <=> c \in ToSet(s.opened)
  <2>1. \A c : Contains(s.opened, c) <=> \E i \in 1 .. Len(s.opened) : s.opened[i] = c
    BY DEF Contains
  <2>2. ToSet(s.opened) = {s.opened[i] : i \in 1 .. Len(s.opened)}
    BY <1>2 DEF ToSet
  <2> QED BY <2>1, <2>2
<1>4. Number(s, k) \in Int
  <2>1. CASE style = "indexed" /\ Contains(s.opened, k)
    <3>1. \E n \in DOMAIN s.opened : s.opened[n] = k
      BY <1>2, <2>1 DEF Contains
    <3>2. (CHOOSE n \in DOMAIN s.opened : s.opened[n] = k) \in DOMAIN s.opened
      BY <3>1
    <3>3. \A n \in DOMAIN s.opened : n \in Int
      BY <1>2
    <3> QED BY <2>1, <3>2, <3>3 DEF Number
  <2>2. CASE ~(style = "indexed" /\ Contains(s.opened, k))
    <3>1. Len(s.opened) \in Int
      BY <1>2
    <3>2. Number(s, k) \in {Len(s.opened), 0, -1}
      BY <2>2 DEF Number
    <3> QED BY <3>1, <3>2
  <2> QED BY <2>1, <2>2
<1>5. IsPart(p)
  BY <1>3, <1>4 DEF IsPart
<1>6. Append(s.opened, k) \in Calls
  BY <1>2, <1>3
<1>7. /\ t.opened = IF Contains(s.opened, k) THEN s.opened ELSE Append(s.opened, k)
      /\ t.named = IF p.name THEN s.named \cup {k} ELSE s.named
      /\ t.given = [s.given EXCEPT ![k] = IF p.more THEN @ + 1 ELSE @]
      /\ t.pieces = s.pieces + 1 /\ t.texts = s.texts /\ t.ended = s.ended
      /\ t = [s EXCEPT !.opened = t.opened, !.named = t.named, !.given = t.given, !.pieces = t.pieces]
  <2> DEFINE a == IF Contains(s.opened, k) THEN s.opened ELSE Append(s.opened, k)
             b == IF p.name THEN s.named \cup {k} ELSE s.named
             c == [s.given EXCEPT ![k] = IF p.more THEN s.given[k] + 1 ELSE s.given[k]]
             d == s.pieces + 1
  <2>1. t = [s EXCEPT !.opened = a, !.named = b, !.given = c, !.pieces = d]
    BY DEF Sent
  <2> HIDE DEF a, b, c, d, t
  <2>2. DOMAIN s = {"opened", "named", "given", "texts", "pieces", "ended"}
    BY DEF Source
  <2>3. t.opened = a /\ t.named = b /\ t.given = c /\ t.pieces = d /\ t.texts = s.texts
        /\ t.ended = s.ended
    BY <2>1, <2>2
  <2> QED BY <2>1, <2>3 DEF a, b, c, d
<1> HIDE DEF Calls, t
<1>8. t.given \in [ToolCalls -> Nat]
  BY <1>2, <1>3, <1>7
<1>9. t \in Source
  <2>1. /\ t.opened \in Calls /\ t.named \in SUBSET ToolCalls /\ t.pieces \in Nat /\ t.texts \in Nat
        /\ t.ended \in BOOLEAN
    BY <1>2, <1>3, <1>6, <1>7
  <2>2. Source = [opened : Calls, named : SUBSET ToolCalls, given : [ToolCalls -> Nat],
           texts : Nat, pieces : Nat, ended : BOOLEAN]
    BY DEF Source, Calls
  <2> QED BY <2>1, <2>2, <1>7, <1>8
<1>10. ~t.ended
  BY <1>7 DEF Sendable
<1>11. k \notin ToSet(s.opened) => Given(s, k) = <<>>
  <2> SUFFICES ASSUME k \notin ToSet(s.opened) PROVE Given(s, k) = <<>>
    OBVIOUS
  <2>1. ~(s.given[k] > 0)
    <3>1. \A i \in 1 .. Len(s.opened) : s.opened[i] # k
      BY <1>c DEF Contains
    <3> QED BY <1>3, <3>1
  <2>2. s.given[k] = 0
    BY <1>2, <1>3, <2>1
  <2> QED BY <2>2 DEF Given
<1>12. \A c \in ToolCalls \ {k} : t.given[c] = s.given[c]
  BY <1>2, <1>7
<1>13. t.given[k] = IF p.more THEN s.given[k] + 1 ELSE s.given[k]
  BY <1>2, <1>3, <1>7
<1>14. \A c \in ToolCalls \ {k} : Given(t, c) = Given(s, c)
  BY <1>12 DEF Given
<1>15. MoreOf(s, p) \in Seq(Fragment)
  <2>1. <<k, s.given[k] + 1>> \in Fragment
    BY <1>2, <1>3 DEF Fragment
  <2>2. <<<<k, s.given[k] + 1>>>> \in Seq(Fragment) /\ <<>> \in Seq(Fragment)
    BY <2>1
  <2> QED BY <2>2 DEF MoreOf
<1>16. Given(t, k) = Given(s, k) \o MoreOf(s, p)
  <2> DEFINE N == s.given[k]
  <2>1. N \in Nat /\ Given(s, k) \in Seq(Fragment) /\ Len(Given(s, k)) = N
    BY <1>2, <1>3, GivenFacts
  <2>2. CASE p.more
    <3>1. Given(t, k) = [n \in 1 .. N + 1 |-> <<k, n>>] /\ MoreOf(s, p) = <<<<k, N + 1>>>>
          /\ Given(s, k) = [n \in 1 .. N |-> <<k, n>>]
      BY <1>13, <2>2 DEF Given, MoreOf
    <3> HIDE DEF N
    <3>2. [n \in 1 .. N + 1 |-> <<k, n>>] = [n \in 1 .. N |-> <<k, n>>] \o <<<<k, N + 1>>>>
      BY <2>1
    <3> QED BY <3>1, <3>2
  <2>3. CASE ~p.more
    <3>1. Given(t, k) = Given(s, k) /\ MoreOf(s, p) = <<>>
      BY <1>13, <2>3 DEF Given, MoreOf
    <3>2. Given(s, k) \o <<>> = Given(s, k)
      BY <2>1, ConcatEmptySeq
    <3> QED BY <3>1, <3>2
  <2> QED BY <1>3, <2>2, <2>3
<1>17. \A c \in ToolCalls : t.given[c] > 0 => c = k \/ s.given[c] > 0
  BY <1>12
<1> QED BY <1>3, <1>5, <1>7, <1>9, <1>10, <1>11, <1>14, <1>15, <1>16, <1>17, <1>c DEF t

(* Where a part without a number goes.                                     *)
LEMMA PlaceWithoutNumber ==
  ASSUME NEW f, NEW L \in Nat, DOMAIN f.slots = 0 .. (L - 1), NEW p, IsPart(p), p.index < 0,
         NEW at \in {0, 1}, at = 1 => L > 0, NEW calls \in Nat
  PROVE  LET i == ToolCallIndex(f, p, at, calls)
         IN  \/ i = -1
             \/ i = L /\ (p.id => \A j \in 0 .. (L - 1) : f.slots[j].call # p.call)
             \/ i \in 0 .. (L - 1) /\ p.id /\ f.slots[i].call = p.call
             \/ i = 0 /\ L = 1 /\ ~p.id
<1> DEFINE used == 0 .. (L - 1)
           matched == {j \in used : p.id /\ f.slots[j].call = p.call}
           free == CHOOSE i \in 0 .. Cardinality(used) : i \notin used
                   /\ \A j \in 0 .. (i - 1) : j \in used
           first == CHOOSE i \in matched : \A j \in matched : i <= j
           only == CHOOSE i \in used : TRUE
           i == ToolCallIndex(f, p, at, calls)
<1>1. Cardinality(used) = L
  <2>1. \A a, b \in Int : Cardinality(a .. b) = IF a > b THEN 0 ELSE b - a + 1
    BY FS_Interval, Zenon
  <2>2. Cardinality(0 .. (L - 1)) = IF 0 > L - 1 THEN 0 ELSE (L - 1) - 0 + 1
    BY <2>1
  <2> QED BY <2>2
<1>2. free = L
  <2>1. L \in 0 .. Cardinality(used) /\ L \notin used /\ \A j \in 0 .. (L - 1) : j \in used
    BY <1>1
  <2>2. free \in 0 .. Cardinality(used) /\ free \notin used /\ \A j \in 0 .. (free - 1) : j \in used
    BY <2>1
  <2> HIDE DEF free
  <2> QED BY <1>1, <2>2
<1>3. i = IF matched # {} THEN first
          ELSE IF calls > 1 /\ at \notin used THEN at
          ELSE IF p.id THEN free
          ELSE IF used = {} THEN 0
          ELSE IF Cardinality(used) = 1 THEN only
          ELSE -1
  <2>0. p.index < 0 /\ ~(p.index >= 0)
    BY DEF IsPart
  <2>1. CASE matched # {}
    BY <2>0, <2>1 DEF ToolCallIndex
  <2>2. CASE matched = {}
    BY <2>0, <2>2 DEF ToolCallIndex
  <2> QED BY <2>1, <2>2
<1>4. matched # {} => first \in matched
  <2> SUFFICES ASSUME matched # {} PROVE first \in matched
    OBVIOUS
  <2>1. matched \in SUBSET Nat
    OBVIOUS
  <2> HIDE DEF matched
  <2>2. PICK m \in matched : \A k \in matched : ~(k < m)
    BY <2>1, LeastNatural
  <2>3. \A k \in matched : m <= k
    BY <2>1, <2>2
  <2> QED BY <2>3
<1>5. L = 1 => only = 0
  <2> SUFFICES ASSUME L = 1 PROVE only = 0
    OBVIOUS
  <2>1. used = {0}
    OBVIOUS
  <2> QED BY <2>1
<1> HIDE DEF i, free, first, only
<1>6. CASE matched # {}
  <2>1. i \in matched
    BY <1>3, <1>4, <1>6
  <2> QED BY <2>1 DEF i
<1>7. CASE matched = {} /\ calls > 1 /\ at \notin used
  <2>1. i = at
    BY <1>3, <1>7
  <2>2. at = L
    BY <1>7
  <2>3. p.id => \A j \in 0 .. (L - 1) : f.slots[j].call # p.call
    BY <1>7
  <2> QED BY <2>1, <2>2, <2>3 DEF i
<1>8. CASE matched = {} /\ ~(calls > 1 /\ at \notin used) /\ p.id
  <2>1. i = L
    BY <1>2, <1>3, <1>8
  <2>3. \A j \in 0 .. (L - 1) : f.slots[j].call # p.call
    BY <1>8
  <2> QED BY <2>1, <2>3 DEF i
<1>9. CASE matched = {} /\ ~(calls > 1 /\ at \notin used) /\ ~p.id
  <2>1. CASE used = {}
    <3>1. L = 0
      BY <2>1
    <3>2. i = 0
      BY <1>3, <1>9, <2>1
    <3> QED BY <3>1, <3>2, <1>9 DEF i
  <2>2. CASE used # {} /\ L = 1
    <3>1. i = 0
      BY <1>1, <1>3, <1>5, <1>9, <2>2
    <3> QED BY <3>1, <2>2, <1>9 DEF i
  <2>3. CASE used # {} /\ L # 1
    <3>1. i = -1
      BY <1>1, <1>3, <1>9, <2>3
    <3> QED BY <3>1 DEF i
  <2> QED BY <2>1, <2>2, <2>3
<1> QED BY <1>6, <1>7, <1>8, <1>9

(* Each part goes to the slot of its call, or to none; but a part without  *)
(* number and identifier may get a slot of its own.                        *)
LEMMA PlaceOfPart ==
  ASSUME NEW s, NEW f, Providing(s), SlotsInv(f, s), style \in {"indexed", "named", "bare"},
         NEW p \in Parts(s), Sendable(s, p), NEW at \in {0, 1}, at = 1
           => Len(s.opened) > 0, NEW calls \in Nat
  PROVE  LET i == ToolCallIndex(f, p, at, calls)
             L == Len(s.opened)
         IN  \/ i = -1
             \/ p.call \notin ToSet(s.opened) /\ p.id /\ i = L
             \/ i \in 0 .. (L - 1) /\ s.opened[i + 1] = p.call
             \/ style = "bare" /\ ~p.id /\ i = L
<1> DEFINE L == Len(s.opened)
           k == p.call
           i == ToolCallIndex(f, p, at, calls)
<1>1. s \in Source
  BY DEF Providing
<1>2. L \in Nat /\ s.opened \in Seq(ToolCalls)
  BY <1>1 DEF Source
<1>3. IsPart(p) /\ (p.id <=> k \notin ToSet(s.opened) \/ style = "named") /\ p.index = Number(s, k)
  BY <1>1, SentFacts DEF Providing
<1>4. DOMAIN f.slots = 0 .. (L - 1) /\ \A j \in 0 .. (L - 1) : f.slots[j].call = s.opened[j + 1]
  BY DEF SlotsInv
<1>5. k \in ToSet(s.opened) <=> \E j \in 1 .. L : s.opened[j] = k
  <2>1. ToSet(s.opened) = {s.opened[j] : j \in 1 .. L}
    BY <1>2 DEF ToSet
  <2> HIDE DEF L, k
  <2> QED BY <2>1
<1>c. Contains(s.opened, k) <=> k \in ToSet(s.opened)
  BY <1>5 DEF Contains
<1>6. CASE style = "indexed"
  <2>1. Number(s, k) = IF Contains(s.opened, k)
        THEN (CHOOSE n \in DOMAIN s.opened : s.opened[n] = k) - 1 ELSE L
    BY <1>6 DEF Number
  <2>2. CASE k \in ToSet(s.opened)
    <3> DEFINE n == CHOOSE n \in DOMAIN s.opened : s.opened[n] = k
    <3>1. n \in 1 .. L /\ s.opened[n] = k
      <4>1. DOMAIN s.opened = 1 .. L
        BY <1>2
      <4> QED BY <1>5, <2>2, <4>1
    <3>2. p.index = n - 1
      BY <1>3, <1>c, <2>1, <2>2
    <3> HIDE DEF n
    <3>3. i = n - 1 /\ n - 1 >= 0
      BY <1>2, <3>1, <3>2 DEF ToolCallIndex
    <3> QED BY <1>2, <3>1, <3>3
  <2>3. CASE k \notin ToSet(s.opened)
    <3>1. p.index = L /\ p.index >= 0 /\ p.id
      BY <1>2, <1>3, <1>c, <2>1, <2>3
    <3>2. i = L
      BY <3>1 DEF ToolCallIndex
    <3> QED BY <3>1, <3>2, <2>3
  <2> QED BY <2>2, <2>3
<1>7. CASE style \in {"named", "bare"}
  <2>1. p.index = -1
    BY <1>3, <1>7 DEF Number
  <2>0. p.index < 0 /\ (at = 1 => L > 0)
    BY <2>1
  <2> HIDE DEF L
  <2>2. \/ i = -1
        \/ i = L /\ (p.id => \A j \in 0 .. (L - 1) : f.slots[j].call # k)
        \/ i \in 0 .. (L - 1) /\ p.id /\ f.slots[i].call = k
        \/ i = 0 /\ L = 1 /\ ~p.id
    BY <1>2, <1>3, <1>4, <2>0, PlaceWithoutNumber, ZenonT(60)
  <2> HIDE DEF i
  <2>3. CASE i = -1
    BY <2>3 DEF i
  <2>4. CASE i = L /\ p.id /\ \A j \in 0 .. (L - 1) : f.slots[j].call # k
    <3>1. \A j \in 1 .. L : j - 1 \in 0 .. (L - 1) /\ (j - 1) + 1 = j
      BY <1>2
    <3>2. k \notin ToSet(s.opened)
      BY <1>4, <1>5, <2>4, <3>1
    <3> QED BY <2>4, <3>2 DEF i, L
  <2>5. CASE i = L /\ ~p.id
    <3>1. style = "bare"
      BY <1>3, <1>7, <2>5
    <3> QED BY <2>5, <3>1 DEF i, L
  <2>6. CASE i \in 0 .. (L - 1) /\ p.id /\ f.slots[i].call = k
    BY <1>4, <2>6 DEF i, L
  <2>7. CASE i = 0 /\ L = 1 /\ ~p.id
    <3>1. k \in ToSet(s.opened)
      BY <1>3, <2>7
    <3>2. s.opened[1] = k
      <4>1. PICK j \in 1 .. L : s.opened[j] = k
        BY <1>5, <3>1
      <4>2. j = 1
        BY <2>7
      <4> QED BY <4>1, <4>2
    <3>3. i \in 0 .. (L - 1) /\ i + 1 = 1
      BY <2>7
    <3> QED BY <3>2, <3>3 DEF i, L
  <2> QED BY <2>2, <2>3, <2>4, <2>5, <2>6, <2>7
<1> QED BY <1>6, <1>7

(* The types of a stream object and of its slots.                          *)
LEMMA SlotTypes ==
  ASSUME NEW f \in Flow
  PROVE  /\ f.slots \in SlotMap /\ f.next \in Nat /\ f.prose \in Int /\ f.texts \in Nat /\ f.events \in Seq(Event)
         /\ f.stopped \in BOOLEAN /\ f.ok \in BOOLEAN
         /\ \E n \in Nat : f.slots \in [0 .. (n - 1) -> ToolSlot]
         /\ \A n \in Nat : DOMAIN f.slots = 0 .. (n - 1)
            => \A i \in 0 .. (n - 1) : f.slots[i] \in ToolSlot
         /\ \A slot \in ToolSlot :
              /\ slot.call \in ToolCalls \cup {NoCall} /\ slot.name \in ToolCalls \cup {NoCall}
              /\ slot.args \in Seq(Fragment) /\ slot.out \in Nat /\ slot.told \in Nat
                 /\ slot.added \in BOOLEAN
<1>1. f.slots \in SlotMap /\ f.next \in Nat /\ f.prose \in Int /\ f.texts \in Nat
      /\ f.events \in History /\ f.stopped \in BOOLEAN /\ f.ok \in BOOLEAN
  BY DEF Flow
<1>2. PICK n \in Nat : f.slots \in [0 .. (n - 1) -> ToolSlot]
  BY <1>1 DEF SlotMap
<1>3. \A i \in DOMAIN f.slots : f.slots[i] \in ToolSlot
  BY <1>2
<1>4. \A slot \in ToolSlot :
              /\ slot.call \in ToolCalls \cup {NoCall} /\ slot.name \in ToolCalls \cup {NoCall}
              /\ slot.args \in Arguments /\ slot.out \in Nat /\ slot.told \in Nat
                 /\ slot.added \in BOOLEAN
  BY DEF ToolSlot
<1> QED BY <1>1, <1>2, <1>3, <1>4 DEF History, Arguments

Grows(f, g, n, i, slot, events) ==
  /\ g \in Flow /\ g.stopped = f.stopped /\ g.ok = f.ok /\ g.prose = f.prose /\ g.texts = f.texts
  /\ g.events = events /\ g.slots[i] = slot
  /\ DOMAIN g.slots = 0 .. (IF i = n THEN n ELSE n - 1)
  /\ \A j \in 0 .. (n - 1) : j # i => g.slots[j] = f.slots[j]
  /\ g.next = IF i = n THEN f.next + 1 ELSE f.next

(* What a handler puts into a slot is one of the ways a stream object      *)
(* grows.                                                                  *)
LEMMA PutGrows ==
  ASSUME NEW f \in Flow, NEW n \in Nat, DOMAIN f.slots = 0 .. (n - 1), NEW i \in 0 .. n,
         NEW slot \in ToolSlot, NEW events \in Seq(Event)
  PROVE  Grows(f, [Put(f, i, slot) EXCEPT !.events = events], n, i, slot, events)
<1> DEFINE slots == [j \in DOMAIN f.slots \cup {i} |-> IF j = i THEN slot ELSE f.slots[j]]
           next == IF i \in DOMAIN f.slots THEN f.next ELSE f.next + 1
           m == IF i = n THEN n + 1 ELSE n
           g == [Put(f, i, slot) EXCEPT !.events = events]
           h == [f EXCEPT !.slots = slots, !.next = next, !.events = events]
<1>1. m \in Nat /\ DOMAIN f.slots \cup {i} = 0 .. (m - 1) /\ m - 1 = IF i = n THEN n ELSE n - 1
  OBVIOUS
<1>2. i \in DOMAIN f.slots <=> i # n
  OBVIOUS
<1>3. slots \in [0 .. (m - 1) -> ToolSlot]
  <2>1. \A j \in 0 .. (m - 1) : j # i => f.slots[j] \in ToolSlot
    BY <1>1, SlotTypes
  <2>2. \A j \in 0 .. (m - 1) : (IF j = i THEN slot ELSE f.slots[j]) \in ToolSlot
    BY <2>1
  <2> QED BY <1>1, <2>2
<1>4. slots \in SlotMap
  BY <1>1, <1>3 DEF SlotMap
<1>5. DOMAIN slots = 0 .. (m - 1) /\ slots[i] = slot /\ \A j \in 0 .. (n - 1) : j # i
      => slots[j] = f.slots[j]
  BY <1>1
<1>6. next = (IF i = n THEN f.next + 1 ELSE f.next) /\ next \in Nat
  BY <1>2, SlotTypes
<1>d. DOMAIN f = {"slots", "next", "prose", "texts", "events", "stopped", "ok"}
  BY DEF Flow
<1>7. Put(f, i, slot) = [f EXCEPT !.slots = slots, !.next = next]
  BY DEF Put
<1> HIDE DEF slots, next
<1>8. /\ g.slots = slots /\ g.next = next /\ g.events = events
      /\ g.prose = f.prose /\ g.texts = f.texts /\ g.stopped = f.stopped /\ g.ok = f.ok
      /\ DOMAIN g = {"slots", "next", "prose", "texts", "events", "stopped", "ok"}
      /\ g = [y \in DOMAIN g |-> g[y]]
  BY <1>7, <1>d
<1> HIDE DEF g
<1>9. g \in Flow
  <2>1. /\ g.slots \in SlotMap /\ g.next \in Nat /\ g.prose \in Int /\ g.texts \in Nat
           /\ g.events \in History
        /\ g.stopped \in BOOLEAN /\ g.ok \in BOOLEAN
    BY <1>4, <1>6, <1>8, SlotTypes DEF History
  <2> QED BY <1>8, <2>1 DEF Flow
<1>10. Grows(f, g, n, i, slot, events)
  BY <1>1, <1>5, <1>6, <1>8, <1>9 DEF Grows
<1> QED BY <1>10 DEF g

(* The slot a part finds: the one there is, or an empty one with the next  *)
(* output index.                                                           *)
LEMMA SlotFound ==
  ASSUME NEW f \in Flow, NEW n \in Nat, DOMAIN f.slots = 0 .. (n - 1), NEW i \in 0 .. n
  PROVE  /\ Slot(f, i) \in ToolSlot
         /\ i # n => Slot(f, i) = f.slots[i]
         /\ i = n => /\ Slot(f, i).call = NoCall /\ Slot(f, i).name = NoCall /\ Slot(f, i).args = <<>>
                     /\ Slot(f, i).out = f.next /\ Slot(f, i).told = 0 /\ Slot(f, i).added = FALSE
<1>1. CASE i # n
  <2>1. i \in DOMAIN f.slots
    BY <1>1
  <2> QED BY <1>1, <2>1, SlotTypes DEF Slot
<1>2. CASE i = n
  <2>1. i \notin DOMAIN f.slots
    BY <1>2
  <2>2. Slot(f, i) = [call |-> NoCall, name |-> NoCall, args |-> <<>>, out |-> f.next, told |-> 0,
        added |-> FALSE]
    BY <2>1 DEF Slot
  <2>3. <<>> \in Arguments /\ f.next \in Nat
    BY SlotTypes DEF Arguments
  <2> QED BY <1>2, <2>2, <2>3 DEF ToolSlot
<1> QED BY <1>1, <1>2

(* What a part makes of the slot it goes to, and what the client is told.  *)
AsResponses(p, more, old, slot, adds, tells, told) ==
  /\ slot.call = (IF p.id THEN p.call ELSE old.call)
  /\ slot.name = (IF p.name THEN p.call ELSE old.name)
  /\ slot.args = old.args \o more /\ slot.out = old.out
  /\ adds <=> ~old.added /\ slot.call # NoCall /\ slot.name # NoCall
  /\ slot.added <=> old.added \/ adds
  /\ tells <=> slot.added /\ slot.name \notin CustomCalls /\ Len(slot.args) > old.told
  /\ slot.told = (IF tells THEN Len(slot.args) ELSE old.told)
  /\ told = SubSeq(slot.args, old.told + 1, Len(slot.args))

Tells(f, old, slot, adds, tells, told, events) ==
  events = f.events \o (IF adds THEN <<Opened(old.out, slot.call)>> ELSE <<>>)
                    \o (IF tells THEN <<Grown(old.out, told)>> ELSE <<>>)

(* A part for a call of a Responses stream, at its slot.                   *)
LEMMA ResponsesPart ==
  ASSUME NEW f \in Flow, NEW n \in Nat, DOMAIN f.slots = 0 .. (n - 1), NEW p, IsPart(p),
         NEW more \in Seq(Fragment), NEW at, NEW calls,
           NEW i \in 0 .. n, i = ToolCallIndex(f, p, at, calls),
         NEW old, old = Slot(f, i)
  PROVE  \E slot \in ToolSlot, adds \in BOOLEAN, tells \in BOOLEAN, told \in Seq(Fragment), events \in Seq(Event) :
           /\ Grows(f, TakeResponsesPart(f, p, more, at, calls), n, i, slot, events)
           /\ AsResponses(p, more, old, slot, adds, tells, told)
           /\ Tells(f, old, slot, adds, tells, told, events)
<1> DEFINE call == IF p.id THEN p.call ELSE old.call
           name == IF p.name THEN p.call ELSE old.name
           args == old.args \o more
           adds == ~old.added /\ call # NoCall /\ name # NoCall
           tells == (old.added \/ adds) /\ name \notin CustomCalls /\ Len(args) > old.told
           slot == [call |-> call, name |-> name, args |-> args, out |-> old.out,
                    told |-> IF tells THEN Len(args) ELSE old.told, added |-> old.added \/ adds]
           told == SubSeq(args, old.told + 1, Len(args))
           A == IF adds THEN <<Opened(old.out, call)>> ELSE <<>>
           B == IF tells THEN <<Grown(old.out, told)>> ELSE <<>>
           events == f.events \o A \o B
<1>1. /\ old.call \in ToolCalls \cup {NoCall} /\ old.name \in ToolCalls \cup {NoCall}
         /\ old.args \in Seq(Fragment)
      /\ old.out \in Nat /\ old.told \in Nat /\ old.added \in BOOLEAN
  BY SlotFound, SlotTypes
<1>2. call \in ToolCalls \cup {NoCall} /\ name \in ToolCalls \cup {NoCall}
  BY <1>1 DEF IsPart
<1>3. args \in Seq(Fragment) /\ Len(args) \in Nat
  BY <1>1
<1> HIDE DEF args, call, name
<1>4. adds \in BOOLEAN /\ tells \in BOOLEAN
  OBVIOUS
<1>5. told \in Seq(Fragment)
  <2>1. \A j \in (old.told + 1) .. Len(args) : args[j] \in Fragment
    BY <1>1, <1>3
  <2> QED BY <1>1, <1>3, <2>1, SubSeqProperties
<1>6. slot \in ToolSlot
  BY <1>1, <1>2, <1>3 DEF ToolSlot, Arguments
<1>7. A \in Seq(Event) /\ B \in Seq(Event)
  <2>1. adds => call \in ToolCalls
    BY <1>2
  <2>2. adds => Opened(old.out, call) \in Event
    BY <1>1, <2>1, EventFacts
  <2> HIDE DEF adds, told
  <2>3. Grown(old.out, told) \in Event
    BY <1>1, <1>5, EventFacts
  <2> QED BY <2>2, <2>3
<1> HIDE DEF A, B
<1>8. f.events \in Seq(Event) /\ events \in Seq(Event)
  BY <1>7, SlotTypes
<1>9. TakeResponsesPart(f, p, more, at, calls) = [Put(f, i, slot) EXCEPT !.events = events]
  <2>1. i # -1
    OBVIOUS
  <2>2. DOMAIN f = {"slots", "next", "prose", "texts", "events", "stopped", "ok"}
    BY DEF Flow
  <2>3. Put(f, i, slot).events = f.events /\ DOMAIN Put(f, i, slot) = DOMAIN f
    BY <2>2 DEF Put
  <2>4. TakeResponsesPart(f, p, more, at, calls) = [Put(f, i, slot) EXCEPT !.events = Put(f, i, slot).events \o A \o B]
    BY <2>1 DEF TakeResponsesPart, A, B, args, call, name
  <2> QED BY <2>3, <2>4
<1>10. Grows(f, TakeResponsesPart(f, p, more, at, calls), n, i, slot, events)
  <2> HIDE DEF slot, events
  <2> QED BY <1>6, <1>8, <1>9, PutGrows
<1>11. /\ slot.call = call /\ slot.name = name /\ slot.args = args /\ slot.out = old.out
       /\ slot.told = (IF tells THEN Len(args) ELSE old.told) /\ slot.added = (old.added \/ adds)
  OBVIOUS
<1> HIDE DEF slot
<1>12. AsResponses(p, more, old, slot, adds, tells, told)
  BY <1>11, Zenon DEF AsResponses, args, call, name
<1>13. Tells(f, old, slot, adds, tells, told, events)
  BY <1>11, Zenon DEF Tells, A, B
<1> HIDE DEF events, told, tells, adds
<1> QED BY <1>4, <1>5, <1>6, <1>8, <1>10, <1>12, <1>13

(* A part of call k of the provider, for slot i: what it had sent before   *)
(* (s) and has sent with it (t).                                           *)
Follows(s, t, k, i, more) ==
  /\ k \in ToolCalls /\ i \in 0 .. Len(s.opened)
  /\ i # Len(s.opened) => t.opened = s.opened /\ s.opened[i + 1] = k
  /\ i = Len(s.opened) => /\ t.opened = Append(s.opened, k) /\ Given(s, k) = <<>>
                          /\ \A j \in 1 .. Len(s.opened) : s.opened[j] # k
  /\ Given(t, k) = Given(s, k) \o more
  /\ \A c \in ToolCalls \ {k} : Given(t, c) = Given(s, c)
  /\ t.texts = s.texts

Streamed(old)  == IF Streams(old) THEN old.args ELSE <<>>

(* What the slot becomes, and what is told of it, fit together.            *)
Carries(k, more, old, slot, adds, tells, told) ==
  /\ slot.call = k /\ slot.args = old.args \o more /\ slot.name \in {NoCall, k}
     /\ slot.out = old.out
  /\ slot.added <=> old.added \/ adds
  /\ adds => ~old.added
  /\ slot.added <=> slot.name # NoCall
  /\ protocol = "messages" => slot.added
  /\ protocol = "responses" => slot.told = IF Streams(slot) THEN Len(slot.args) ELSE 0
  /\ tells => Streamed(old) \o told = Streamed(slot)
  /\ ~tells => Streamed(old) = Streamed(slot)

(* What the client has been told of the slot a part finds, and where it    *)
(* stands among the others.                                                *)
LEMMA OldSlot ==
  ASSUME NEW f \in Flow, NEW s \in Source, Sound(f, s), NEW i \in 0 .. Len(s.opened),
    NEW old, old = Slot(f, i)
  PROVE  /\ Told(f.events, old.out) = Streamed(old)
         /\ ~old.added => None(f.events, "opened", old.out)
         /\ old.added => Once(f.events, Opened(old.out, old.call))
         /\ old.out \in Nat /\ old.out # f.prose
         /\ \A j \in 0 .. (Len(s.opened) - 1) : /\ j < i => f.slots[j].out < old.out
                                                /\ i < j => old.out < f.slots[j].out
         /\ i # Len(s.opened) => old.out < f.next
         /\ i = Len(s.opened) => old.out = f.next
<1> DEFINE L == Len(s.opened)
<1>1. L \in Nat
  BY DEF Source
<1>2. DOMAIN f.slots = 0 .. (L - 1)
  BY DEF Sound, SlotsInv
<1>3. /\ old \in ToolSlot
      /\ i # L => old = f.slots[i]
      /\ i = L => old.out = f.next /\ old.added = FALSE
  BY <1>1, <1>2, SlotFound
<1>t. \A j \in 0 .. (L - 1) : f.slots[j] \in ToolSlot
  BY <1>1, <1>2, SlotTypes
<1>4. old.out \in Nat /\ \A j \in 0 .. (L - 1) : f.slots[j].out \in Nat
  BY <1>3, <1>t, SlotTypes
<1>5. CASE i # L
  <2>1. i \in 0 .. (L - 1) /\ i \in DOMAIN f.slots
    BY <1>1, <1>2, <1>5
  <2>2. SlotTold(f.slots[i], f.events) /\ old = f.slots[i]
    BY <1>3, <1>5, <2>1 DEF Sound, EventsInv
  <2>3. /\ Told(f.events, old.out) = Streamed(old)
        /\ ~old.added => None(f.events, "opened", old.out)
        /\ old.added => Once(f.events, Opened(old.out, old.call))
    BY <2>2, Zenon DEF SlotTold, Streamed
  <2>4. /\ f.slots[i].out < f.next /\ f.slots[i].out # f.prose
        /\ \A j, m \in 0 .. (L - 1) : j < m => f.slots[j].out < f.slots[m].out
    BY <2>1 DEF Sound, SlotsInv
  <2>5. old.out = f.slots[i].out
    BY <2>2
  <2>6. \A j \in 0 .. (L - 1) : (j < i => f.slots[j].out < old.out) /\ (i < j
        => old.out < f.slots[j].out)
    BY <2>1, <2>4, <2>5
  <2>7. old.out < f.next /\ old.out # f.prose
    BY <2>4, <2>5
  <2> QED BY <1>4, <1>5, <2>3, <2>6, <2>7
<1>6. CASE i = L
  <2>1. old.out = f.next /\ old.added = FALSE
    BY <1>3, <1>6
  <2>2. \A n \in 1 .. Len(f.events) : f.events[n].out >= 0 /\ f.events[n].out < f.next
    BY DEF Sound, EventsInv
  <2>e. f.events \in Seq(Event) /\ f.next \in Nat /\ f.prose \in Int
    BY SlotTypes
  <2>3. \A n \in 1 .. Len(f.events) : f.events[n].out # f.next
    <3>1. \A e \in Event : e.out \in Int
      <4> DEFINE Args == Seq(Fragment)
                 All == Seq(Item)
      <4>1. Item = [type : {"opened", "grown", "closed"}, out : Int, call : ToolCalls \cup {Prose,
            NoCall}, args : Args]
        BY DEF Item
      <4>2. Event = Item \cup [type : {"completed"}, out : {-1}, call : {NoCall}, args : All]
        BY DEF Event
      <4> HIDE DEF Args, All
      <4> QED BY <4>1, <4>2
    <3> QED BY <2>2, <2>e, <3>1
  <2>4. \A type : None(f.events, type, old.out)
    BY <2>1, <2>3 DEF None
  <2>5. Told(f.events, old.out) = <<>>
    BY <2>4, <2>e, ToldOfNone
  <2>6. Streamed(old) = <<>>
    BY <2>1 DEF Streamed, Streams
  <2>7. f.prose < f.next /\ \A j \in 0 .. (L - 1) : f.slots[j].out < f.next
    BY DEF Sound, SlotsInv
  <2>8. \A j \in 0 .. (L - 1) : ~(i < j)
    BY <1>1, <1>6
  <2> QED BY <1>4, <1>6, <2>e, <2>1, <2>4, <2>5, <2>6, <2>7, <2>8
<1> QED BY <1>5, <1>6

(* A part put into the slot of its call keeps each slot with what was      *)
(* given of its call.                                                      *)
LEMMA SlotsGrow ==
  ASSUME NEW f \in Flow, NEW g \in Flow, NEW s \in Source, NEW t \in Source, Sound(f, s),
         NEW k, NEW i, NEW more \in Seq(Fragment),
         \A m, n \in 1 .. Len(s.opened) : s.opened[m] = s.opened[n] => m = n,
         Follows(s, t, k, i, more), NEW old, old = Slot(f, i), NEW slot \in ToolSlot,
         NEW adds, NEW tells, NEW told, NEW events,
         Grows(f, g, Len(s.opened), i, slot, events), Carries(k, more, old, slot, adds, tells, told)
  PROVE  SlotsInv(g, t)
<1> DEFINE L == Len(s.opened)
           M == Len(t.opened)
<1>1. L \in Nat /\ s.opened \in Seq(ToolCalls) /\ i \in 0 .. L /\ k \in ToolCalls
  BY DEF Source, Follows
<1>2. M = IF i = L THEN L + 1 ELSE L
  BY <1>1 DEF Follows
<1>3. /\ \A j \in 0 .. (L - 1) : t.opened[j + 1] = s.opened[j + 1] /\ s.opened[j + 1] \in ToolCalls
      /\ t.opened[i + 1] = k
  <2>1. CASE i = L
    <3>1. t.opened = Append(s.opened, k)
      BY <2>1 DEF Follows
    <3> QED BY <1>1, <2>1, <3>1
  <2>2. CASE i # L
    <3>1. t.opened = s.opened /\ s.opened[i + 1] = k
      BY <2>2 DEF Follows
    <3> QED BY <1>1, <2>2, <3>1
  <2> QED BY <2>1, <2>2
<1>4. \A j \in 0 .. (L - 1) : j # i => s.opened[j + 1] # k
  <2>1. CASE i = L
    <3>1. \A j \in 1 .. L : s.opened[j] # k
      BY <2>1 DEF Follows
    <3> QED BY <1>1, <3>1
  <2>2. CASE i # L
    <3>1. s.opened[i + 1] = k
      BY <2>2 DEF Follows
    <3>2. i + 1 \in 1 .. L /\ \A j \in 0 .. (L - 1) : j + 1 \in 1 .. L
      BY <1>1, <2>2
    <3> QED BY <1>1, <3>1, <3>2
  <2> QED BY <2>1, <2>2
<1>5. /\ g.texts = f.texts /\ g.prose = f.prose /\ g.slots[i] = slot
      /\ DOMAIN g.slots = 0 .. (IF i = L THEN L ELSE L - 1)
      /\ \A j \in 0 .. (L - 1) : j # i => g.slots[j] = f.slots[j]
      /\ g.next = IF i = L THEN f.next + 1 ELSE f.next
  BY DEF Grows
<1>6. /\ DOMAIN f.slots = 0 .. (L - 1)
      /\ \A j \in 0 .. (L - 1) :
           /\ f.slots[j].call = s.opened[j + 1] /\ f.slots[j].args = Given(s, s.opened[j + 1])
           /\ f.slots[j].name \in {NoCall, s.opened[j + 1]}
           /\ f.slots[j].out < f.next /\ f.slots[j].out # f.prose
      /\ \A j, m \in 0 .. (L - 1) : j < m => f.slots[j].out < f.slots[m].out
      /\ f.texts = s.texts /\ f.prose >= -1 /\ f.prose < f.next
      /\ f.prose = -1 <=> s.texts = 0
  BY DEF Sound, SlotsInv
<1>7. /\ old.out \in Nat /\ old.out # f.prose
      /\ \A j \in 0 .. (L - 1) : /\ j < i => f.slots[j].out < old.out
                                 /\ i < j => old.out < f.slots[j].out
      /\ i # L => old.out < f.next
      /\ i = L => old.out = f.next
  BY <1>1, OldSlot
<1>8. f.next \in Nat /\ f.prose \in Int /\ \A j \in 0 .. (L - 1) : f.slots[j].out \in Nat
  <2>1. \A j \in 0 .. (L - 1) : f.slots[j] \in ToolSlot
    BY <1>1, <1>6, SlotTypes
  <2> QED BY <2>1, SlotTypes
<1>9. old.args = Given(s, k)
  <2>1. CASE i = L
    <3>1. old.args = <<>>
      BY <1>1, <1>6, <2>1, SlotFound
    <3> QED BY <2>1, <3>1 DEF Follows
  <2>2. CASE i # L
    <3>1. old = f.slots[i] /\ i \in 0 .. (L - 1) /\ s.opened[i + 1] = k
      <4>1. old = f.slots[i]
        BY <1>1, <1>6, <2>2, SlotFound
      <4> QED BY <1>1, <2>2, <4>1 DEF Follows
    <3> QED BY <1>6, <3>1
  <2> QED BY <2>1, <2>2
<1>10. slot.call = k /\ slot.args = Given(t, k) /\ slot.name \in {NoCall, k} /\ slot.out = old.out
  BY <1>9 DEF Carries, Follows
<1>11. DOMAIN g.slots = 0 .. (M - 1)
  BY <1>1, <1>2, <1>5
<1> HIDE DEF L, M
<1>12. \A j \in 0 .. (M - 1) : j = i \/ j \in 0 .. (L - 1)
  BY <1>1, <1>2
<1>13. ASSUME NEW j \in 0 .. (M - 1)
       PROVE  /\ g.slots[j].call = t.opened[j + 1] /\ g.slots[j].args = Given(t, t.opened[j + 1])
              /\ g.slots[j].name \in {NoCall, t.opened[j + 1]}
              /\ g.slots[j].out < g.next /\ g.slots[j].out # g.prose
  <2>1. CASE j = i
    <3>1. g.slots[j] = slot /\ t.opened[j + 1] = k
      BY <1>3, <1>5, <2>1
    <3>2. old.out < g.next /\ old.out # g.prose
      BY <1>5, <1>7, <1>8
    <3> QED BY <1>10, <3>1, <3>2
  <2>2. CASE j # i
    <3> DEFINE c == s.opened[j + 1]
    <3>1. j \in 0 .. (L - 1) /\ g.slots[j] = f.slots[j]
      BY <1>5, <1>12, <2>2
    <3>2. t.opened[j + 1] = c /\ c \in ToolCalls \ {k}
      BY <1>3, <1>4, <2>2, <3>1
    <3> HIDE DEF c
    <3>3. /\ f.slots[j].call = c /\ f.slots[j].args = Given(s, c)
           /\ f.slots[j].name \in {NoCall, c}
           /\ f.slots[j].out < f.next /\ f.slots[j].out # f.prose
      BY <1>6, <3>1 DEF c
    <3>4. Given(t, c) = Given(s, c)
      BY <3>2 DEF Follows
    <3>5. f.slots[j].out < g.next
      BY <1>5, <1>8, <3>1, <3>3
    <3> QED BY <1>5, <3>1, <3>2, <3>3, <3>4, <3>5
  <2> QED BY <2>1, <2>2
<1>14. ASSUME NEW j \in 0 .. (M - 1), NEW m \in 0 .. (M - 1), j < m
       PROVE  g.slots[j].out < g.slots[m].out
  <2>1. CASE j = i
    <3>1. m # i /\ m \in 0 .. (L - 1) /\ i < m
      BY <1>1, <1>2, <1>12, <1>14, <2>1
    <3> QED BY <1>5, <1>7, <1>10, <2>1, <3>1
  <2>2. CASE m = i
    <3>1. j # i /\ j \in 0 .. (L - 1) /\ j < i
      BY <1>1, <1>2, <1>12, <1>14, <2>2
    <3> QED BY <1>5, <1>7, <1>10, <2>2, <3>1
  <2>3. CASE j # i /\ m # i
    <3>1. j \in 0 .. (L - 1) /\ m \in 0 .. (L - 1)
      BY <1>12, <2>3
    <3> QED BY <1>5, <1>6, <1>14, <2>3, <3>1
  <2> QED BY <2>1, <2>2, <2>3
<1>15. g.texts = t.texts /\ g.prose >= -1 /\ g.prose < g.next /\ (g.prose = -1 <=> t.texts = 0)
  <2>1. t.texts = s.texts
    BY DEF Follows
  <2> QED BY <1>5, <1>6, <1>8, <2>1
<1> QED BY <1>11, <1>13, <1>14, <1>15 DEF SlotsInv, M

(* And the events told of it keep telling of each slot what they should.   *)
LEMMA EventsGrow ==
  ASSUME NEW f \in Flow, NEW g \in Flow, NEW s \in Source, NEW t \in Source, Sound(f, s),
         NEW k, NEW i, NEW more \in Seq(Fragment),
         Follows(s, t, k, i, more), NEW old, old = Slot(f, i), NEW slot \in ToolSlot,
         NEW adds \in BOOLEAN, NEW tells \in BOOLEAN, NEW told \in Seq(Fragment), NEW events,
         Grows(f, g, Len(s.opened), i, slot, events),
           Carries(k, more, old, slot, adds, tells, told),
         Tells(f, old, slot, adds, tells, told, events)
  PROVE  EventsInv(g)
<1> DEFINE L == Len(s.opened)
<1>1. L \in Nat /\ i \in 0 .. L /\ k \in ToolCalls
  BY DEF Source, Follows
<1>2. /\ Told(f.events, old.out) = Streamed(old)
      /\ ~old.added => None(f.events, "opened", old.out)
      /\ old.added => Once(f.events, Opened(old.out, old.call))
      /\ old.out \in Nat /\ old.out # f.prose
      /\ \A j \in 0 .. (L - 1) : (j < i => f.slots[j].out < old.out) /\ (i < j
         => old.out < f.slots[j].out)
      /\ i # L => old.out < f.next
      /\ i = L => old.out = f.next
  BY <1>1, OldSlot
<1>3. DOMAIN f.slots = 0 .. (L - 1) /\ \A j \in 0 .. (L - 1) : f.slots[j].call = s.opened[j + 1]
  BY DEF Sound, SlotsInv
<1>4. old.added => old.call = k
  <2>1. CASE i = L
    <3>1. old.added = FALSE
      BY <1>1, <1>3, <2>1, SlotFound
    <3> QED BY <3>1
  <2>2. CASE i # L
    <3>1. old = f.slots[i] /\ i \in 0 .. (L - 1) /\ s.opened[i + 1] = k
      <4>1. old = f.slots[i]
        BY <1>1, <1>3, <2>2, SlotFound
      <4> QED BY <1>1, <2>2, <4>1 DEF Follows
    <3> QED BY <1>3, <3>1
  <2> QED BY <2>1, <2>2
<1>5. /\ g.texts = f.texts /\ g.prose = f.prose /\ g.slots[i] = slot /\ g.events = events
      /\ DOMAIN g.slots = 0 .. (IF i = L THEN L ELSE L - 1)
      /\ \A j \in 0 .. (L - 1) : j # i => g.slots[j] = f.slots[j]
      /\ g.next = IF i = L THEN f.next + 1 ELSE f.next
  BY DEF Grows
<1>6. f.events \in Seq(Event) /\ f.next \in Nat /\ f.prose \in Int
  BY SlotTypes
<1>7. slot.call = k /\ slot.out = old.out
  BY DEF Carries
<1>8. events = f.events \o (IF adds THEN <<Opened(old.out, k)>> ELSE <<>>)
                        \o (IF tells THEN <<Grown(old.out, told)>> ELSE <<>>)
  BY <1>7 DEF Tells
<1>9. /\ events \in Seq(Event)
      /\ \A out : out # old.out \/ ~tells => Told(events, out) = Told(f.events, out)
      /\ tells => Told(events, old.out) = Told(f.events, old.out) \o told
      /\ \A out, call : (out # old.out \/ ~adds) /\ Once(f.events, Opened(out, call))
         => Once(events, Opened(out, call))
      /\ adds /\ None(f.events, "opened", old.out) => Once(events, Opened(old.out, k))
      /\ \A out : (out # old.out \/ ~adds) /\ None(f.events, "opened", out)
         => None(events, "opened", out)
      /\ \A n \in 1 .. Len(events) :
           \/ \E m \in 1 .. Len(f.events) : events[n] = f.events[m]
           \/ adds /\ events[n] = Opened(old.out, k)
           \/ tells /\ events[n] = Grown(old.out, told)
  <2>1. old.out \in Int /\ k \in ToolCalls \cup {Prose}
    BY <1>1, <1>2
  <2>2. SaysMore(f.events, events, old.out, k, told, adds, tells)
    BY <1>6, <1>8, <2>1, Telling
  <2> QED BY <2>2, Zenon DEF SaysMore
<1>10. ASSUME NEW j \in DOMAIN g.slots PROVE SlotTold(g.slots[j], events)
  <2>1. CASE j = i
    <3>1. slot.added => Once(events, Opened(slot.out, slot.call))
      <4>1. CASE adds
        <5>1. None(f.events, "opened", old.out)
          BY <1>2, <4>1, Zenon DEF Carries
        <5> QED BY <1>7, <1>9, <4>1, <5>1, Zenon
      <4>2. CASE ~adds
        <5>1. slot.added => old.added
          BY <4>2, Zenon DEF Carries
        <5> QED BY <1>2, <1>4, <1>7, <1>9, <4>2, <5>1, Zenon
      <4> QED BY <4>1, <4>2
    <3>2. ~slot.added => None(events, "opened", slot.out)
      <4>1. ~slot.added => ~adds /\ ~old.added
        BY Zenon DEF Carries
      <4> QED BY <1>2, <1>7, <1>9, <4>1, Zenon
    <3>3. Told(events, slot.out) = Streamed(slot)
      <4>1. CASE tells
        BY <1>2, <1>7, <1>9, <4>1, Zenon DEF Carries
      <4>2. CASE ~tells
        BY <1>2, <1>7, <1>9, <4>2, Zenon DEF Carries
      <4> QED BY <4>1, <4>2
    <3>4. SlotTold(slot, events)
      BY <3>1, <3>2, <3>3, Zenon DEF SlotTold, Streamed, Carries
    <3> QED BY <1>5, <2>1, <3>4
  <2>2. CASE j # i
    <3>1. j \in 0 .. (L - 1) /\ g.slots[j] = f.slots[j]
      BY <1>1, <1>5, <2>2
    <3>2. SlotTold(f.slots[j], f.events)
      BY <1>3, <3>1 DEF Sound, EventsInv
    <3>3. f.slots[j].out # old.out
      <4>1. j < i \/ i < j
        BY <1>1, <2>2, <3>1
      <4>2. f.slots[j].out \in Nat
        BY <1>1, <1>3, <3>1, SlotTypes
      <4> QED BY <1>2, <3>1, <4>1, <4>2
    <3>4. /\ f.slots[j].added => Once(events, Opened(f.slots[j].out, f.slots[j].call))
          /\ ~f.slots[j].added => None(events, "opened", f.slots[j].out)
          /\ Told(events, f.slots[j].out) = Told(f.events, f.slots[j].out)
      BY <1>9, <3>2, <3>3, Zenon DEF SlotTold
    <3>5. SlotTold(f.slots[j], events)
      BY <3>2, <3>4, Zenon DEF SlotTold
    <3> QED BY <3>1, <3>5
  <2> QED BY <2>1, <2>2
<1>11. f.prose # -1 => /\ Once(events, Opened(f.prose, Prose))
                       /\ Told(events, f.prose) = [n \in 1 .. f.texts |-> Prose]
  <2>1. f.prose # -1 => /\ Once(f.events, Opened(f.prose, Prose))
                        /\ Told(f.events, f.prose) = [n \in 1 .. f.texts |-> Prose]
    BY DEF Sound, EventsInv
  <2> QED BY <1>2, <1>9, <2>1, Zenon
<1>12. ASSUME NEW n \in 1 .. Len(events)
       PROVE  /\ events[n].type \in {"opened", "grown"}
              /\ events[n].out >= 0 /\ events[n].out < g.next
              /\ events[n].type = "opened" =>
                   events[n].out = f.prose
                     \/ \E j \in DOMAIN g.slots : events[n].out = g.slots[j].out
  <2>1. \/ \E m \in 1 .. Len(f.events) : events[n] = f.events[m]
        \/ events[n].type \in {"opened", "grown"} /\ events[n].out = old.out
    BY <1>9 DEF Opened, Grown
  <2>2. CASE events[n].type \in {"opened", "grown"} /\ events[n].out = old.out
    <3>1. i \in DOMAIN g.slots /\ g.slots[i].out = old.out
      BY <1>1, <1>5, <1>7
    <3>2. old.out >= 0 /\ old.out < g.next
      BY <1>2, <1>5, <1>6
    <3> QED BY <2>2, <3>1, <3>2
  <2>3. ASSUME NEW m \in 1 .. Len(f.events), events[n] = f.events[m]
        PROVE  /\ events[n].type \in {"opened", "grown"}
               /\ events[n].out >= 0 /\ events[n].out < g.next
               /\ events[n].type = "opened" =>
                    events[n].out = f.prose
                      \/ \E j \in DOMAIN g.slots : events[n].out = g.slots[j].out
    <3>1. /\ f.events[m].type \in {"opened", "grown"}
          /\ f.events[m].out >= 0 /\ f.events[m].out < f.next
          /\ f.events[m].type = "opened" =>
               f.events[m].out = f.prose
                 \/ \E j \in DOMAIN f.slots : f.events[m].out = f.slots[j].out
      BY DEF Sound, EventsInv
    <3>e. f.events[m].out \in Int
      <4>1. f.events[m] \in Event
        BY <1>6
      <4> DEFINE Args == Seq(Fragment)
                 All == Seq(Item)
      <4>2. Item = [type : {"opened", "grown", "closed"}, out : Int, call : ToolCalls \cup {Prose,
            NoCall}, args : Args]
        BY DEF Item
      <4>3. Event = Item \cup [type : {"completed"}, out : {-1}, call : {NoCall}, args : All]
        BY DEF Event
      <4> HIDE DEF Args, All
      <4> QED BY <4>1, <4>2, <4>3
    <3>2. f.events[m].out < g.next
      BY <1>5, <1>6, <3>1, <3>e
    <3>3. ASSUME NEW j \in DOMAIN f.slots
          PROVE \E l \in DOMAIN g.slots : f.slots[j].out = g.slots[l].out
      <4>1. j \in DOMAIN g.slots
        BY <1>1, <1>3, <1>5
      <4>2. CASE j # i
        BY <1>3, <1>5, <4>1, <4>2
      <4>3. CASE j = i
        <5>1. i # L
          BY <1>1, <1>3, <4>3
        <5>2. old = f.slots[i]
          BY <1>1, <1>3, <5>1, SlotFound
        <5> QED BY <1>5, <1>7, <4>1, <4>3, <5>2
      <4> QED BY <4>2, <4>3
    <3> QED BY <2>3, <3>1, <3>2, <3>3, Zenon
  <2> QED BY <2>1, <2>2, <2>3, Zenon
<1> QED BY <1>5, <1>10, <1>11, <1>12 DEF EventsInv

(* What is known of a slot that a part of call k goes to.                  *)
OldSlotIs(f, s, k, i, old) ==
  /\ old \in ToolSlot
  /\ i = Len(s.opened) => old.call = NoCall /\ old.name = NoCall /\ old.args = <<>> /\ old.told = 0
     /\ ~old.added
  /\ i # Len(s.opened) => old.call = k /\ old.name \in {NoCall, k} /\ SlotTold(old, f.events)
  /\ old.added <=> old.name # NoCall
  /\ protocol = "responses" => old.told = IF Streams(old) THEN Len(old.args) ELSE 0

(* The slot a part finds is that of its call, with what was given before.  *)
LEMMA SlotOfPart ==
  ASSUME NEW f \in Flow, NEW s \in Source, Sound(f, s), NEW t, NEW k, NEW i, NEW more,
         Follows(s, t, k, i, more), NEW old, old = Slot(f, i)
  PROVE  OldSlotIs(f, s, k, i, old)
<1> DEFINE L == Len(s.opened)
<1>1. L \in Nat /\ i \in 0 .. L
  BY DEF Source, Follows
<1>2. DOMAIN f.slots = 0 .. (L - 1)
  BY DEF Sound, SlotsInv
<1>3. /\ old \in ToolSlot
      /\ i # L => old = f.slots[i]
      /\ i = L => /\ old.call = NoCall /\ old.name = NoCall /\ old.args = <<>> /\ old.told = 0
                  /\ old.added = FALSE
  BY <1>1, <1>2, SlotFound
<1>4. CASE i = L
  <2>1. ~Streams(old)
    BY <1>3, <1>4 DEF Streams
  <2> QED BY <1>3, <1>4, <2>1 DEF OldSlotIs
<1>5. CASE i # L
  <2>1. i \in 0 .. (L - 1) /\ old = f.slots[i] /\ s.opened[i + 1] = k
    BY <1>1, <1>3, <1>5 DEF Follows
  <2>2. f.slots[i].call = s.opened[i + 1] /\ f.slots[i].name \in {NoCall, s.opened[i + 1]}
    BY <2>1 DEF Sound, SlotsInv
  <2>3. SlotTold(f.slots[i], f.events)
    BY <1>2, <2>1 DEF Sound, EventsInv
  <2>4. /\ old.added <=> old.name # NoCall
        /\ protocol = "responses" => old.told = IF Streams(old) THEN Len(old.args) ELSE 0
    BY <2>1, <2>3, Zenon DEF SlotTold
  <2>5. old.call = k /\ old.name \in {NoCall, k}
    BY <2>1, <2>2
  <2> HIDE DEF L
  <2> QED BY <1>3, <1>5, <2>1, <2>3, <2>4, <2>5 DEF L, OldSlotIs
<1> QED BY <1>4, <1>5

(* The delta told is what was not told yet.                                *)
LEMMA RestOfArguments ==
  ASSUME NEW a \in Seq(Fragment), NEW more \in Seq(Fragment)
  PROVE  /\ a \o SubSeq(a \o more, Len(a) + 1, Len(a \o more)) = a \o more
         /\ <<>> \o SubSeq(a \o more, 1, Len(a \o more)) = a \o more
         /\ Len(a \o more) <= Len(a) => a \o more = a
         /\ Len(a \o more) <= 0 => a \o more = <<>>
<1>1. a \o more \in Seq(Fragment) /\ Len(a \o more) = Len(a) + Len(more) /\ Len(a) \in Nat
      /\ Len(more) \in Nat
  OBVIOUS
<1>2. SubSeq(a \o more, Len(a) + 1, Len(a \o more)) = more
  OBVIOUS
<1>3. SubSeq(a \o more, 1, Len(a \o more)) = a \o more
  BY <1>1, SubSeqFull
<1>4. <<>> \o (a \o more) = a \o more /\ a \o <<>> = a
  BY <1>1, ConcatEmptySeq
<1>5. Len(a \o more) <= Len(a) => a \o more = a
  <2>1. Len(a \o more) <= Len(a) => more = <<>>
    BY <1>1
  <2> QED BY <1>4, <2>1
<1>6. Len(a \o more) <= 0 => a \o more = <<>>
  BY <1>1
<1> QED BY <1>2, <1>3, <1>4, <1>5, <1>6

(* #takeToolCall of the Responses stream puts into the slot what a part    *)
(* should.                                                                 *)
LEMMA ResponsesMatches ==
  ASSUME protocol = "responses", NEW f \in Flow, NEW s \in Source, Sound(f, s), NEW t, NEW p,
    IsPart(p), NEW i,
         NEW more \in Seq(Fragment), Follows(s, t, p.call, i, more), p.id \/ i # Len(s.opened),
         NEW old, old = Slot(f, i), NEW slot \in ToolSlot, NEW adds \in BOOLEAN,
           NEW tells \in BOOLEAN,
         NEW told, AsResponses(p, more, old, slot, adds, tells, told)
  PROVE  Carries(p.call, more, old, slot, adds, tells, told)
<1> DEFINE k == p.call
<1>1. /\ old \in ToolSlot
      /\ i = Len(s.opened) => old.call = NoCall /\ old.name = NoCall /\ old.args = <<>>
         /\ old.told = 0 /\ ~old.added
      /\ i # Len(s.opened) => old.call = k /\ old.name \in {NoCall, k} /\ SlotTold(old, f.events)
      /\ old.added <=> old.name # NoCall
      /\ old.told = IF Streams(old) THEN Len(old.args) ELSE 0
  <2>1. OldSlotIs(f, s, p.call, i, old)
    BY SlotOfPart
  <2> QED BY <2>1, Zenon DEF OldSlotIs
<1>2. old.args \in Seq(Fragment) /\ old.added \in BOOLEAN /\ slot.added \in BOOLEAN
  BY <1>1, SlotTypes
<1>3. k \in ToolCalls /\ k # NoCall /\ p.name \in BOOLEAN /\ p.id \in BOOLEAN
  BY StreamAssumption DEF IsPart
<1>4. /\ slot.call = (IF p.id THEN p.call ELSE old.call)
      /\ slot.name = (IF p.name THEN p.call ELSE old.name)
      /\ slot.args = old.args \o more /\ slot.out = old.out
      /\ adds <=> ~old.added /\ slot.call # NoCall /\ slot.name # NoCall
      /\ slot.added <=> old.added \/ adds
      /\ tells <=> slot.added /\ slot.name \notin CustomCalls /\ Len(slot.args) > old.told
      /\ slot.told = (IF tells THEN Len(slot.args) ELSE old.told)
      /\ told = SubSeq(slot.args, old.told + 1, Len(slot.args))
  BY DEF AsResponses
<1>5. slot.call = k
  BY <1>1, <1>4
<1>6. slot.name \in {NoCall, k} /\ old.name \in {NoCall, k}
  BY <1>1, <1>4
<1>7. slot.added <=> slot.name # NoCall
  <2>1. old.added => slot.name # NoCall
    BY <1>1, <1>3, <1>4
  <2>2. adds <=> ~old.added /\ slot.name # NoCall
    BY <1>3, <1>4, <1>5
  <2> QED BY <1>2, <1>4, <2>1, <2>2
<1>8. adds => ~old.added
  BY <1>4
<1>9. Streams(slot) <=> slot.added /\ k \notin CustomCalls
  BY <1>5 DEF Streams
<1>10. Streams(old) <=> old.added /\ k \notin CustomCalls
  BY <1>1 DEF Streams
<1>11. tells <=> Streams(slot) /\ Len(slot.args) > old.told
  BY <1>4, <1>6, <1>7, <1>9
<1>12. Streams(old) => Streams(slot)
  BY <1>4, <1>9, <1>10
<1>13. Len(slot.args) \in Nat /\ Len(old.args) \in Nat
  BY <1>2, <1>4
<1>r. /\ old.args \o SubSeq(slot.args, Len(old.args) + 1, Len(slot.args)) = slot.args
      /\ <<>> \o SubSeq(slot.args, 1, Len(slot.args)) = slot.args
      /\ Len(slot.args) <= Len(old.args) => slot.args = old.args
      /\ Len(slot.args) <= 0 => slot.args = <<>>
  <2>1. slot.args = old.args \o more
    BY <1>4
  <2>2. \A a \in Seq(Fragment) :
          /\ a \o SubSeq(a \o more, Len(a) + 1, Len(a \o more)) = a \o more
          /\ <<>> \o SubSeq(a \o more, 1, Len(a \o more)) = a \o more
          /\ Len(a \o more) <= Len(a) => a \o more = a
          /\ Len(a \o more) <= 0 => a \o more = <<>>
    BY RestOfArguments
  <2> QED BY <1>2, <2>1, <2>2, Zenon
<1> HIDE DEF k
<1>14. slot.told = IF Streams(slot) THEN Len(slot.args) ELSE 0
  <2>1. CASE tells
    BY <1>4, <1>11, <2>1
  <2>2. CASE ~tells
    <3>1. slot.told = old.told
      BY <1>4, <2>2
    <3>2. CASE Streams(old)
      BY <1>1, <1>11, <1>12, <1>13, <1>r, <2>2, <3>1, <3>2
    <3>3. CASE ~Streams(old)
      <4>1. old.told = 0
        BY <1>1, <3>3
      <4> QED BY <1>11, <1>13, <2>2, <3>1, <4>1
    <3> QED BY <3>2, <3>3
  <2> QED BY <2>1, <2>2
<1>15. ASSUME tells PROVE Streamed(old) \o told = Streamed(slot)
  <2>1. Streamed(slot) = slot.args
    BY <1>11, <1>15 DEF Streamed
  <2>2. CASE Streams(old)
    <3>1. Streamed(old) = old.args /\ old.told = Len(old.args)
      BY <1>1, <2>2 DEF Streamed
    <3> QED BY <1>4, <1>r, <2>1, <3>1
  <2>3. CASE ~Streams(old)
    <3>1. Streamed(old) = <<>> /\ old.told = 0
      BY <1>1, <2>3 DEF Streamed
    <3> QED BY <1>4, <1>r, <2>1, <3>1
  <2> QED BY <2>2, <2>3
<1>16. ASSUME ~tells PROVE Streamed(old) = Streamed(slot)
  <2>1. CASE Streams(old)
    <3>1. Streamed(old) = old.args /\ old.told = Len(old.args) /\ Streamed(slot) = slot.args
      BY <1>1, <1>12, <2>1 DEF Streamed
    <3> QED BY <1>11, <1>12, <1>13, <1>16, <1>r, <2>1, <3>1
  <2>2. CASE ~Streams(old) /\ Streams(slot)
    <3>1. Streamed(old) = <<>> /\ old.told = 0 /\ Streamed(slot) = slot.args
      BY <1>1, <2>2 DEF Streamed
    <3> QED BY <1>11, <1>13, <1>16, <1>r, <2>2, <3>1
  <2>3. CASE ~Streams(old) /\ ~Streams(slot)
    BY <2>3 DEF Streamed
  <2> QED BY <1>12, <2>1, <2>2, <2>3
<1> QED BY <1>4, <1>5, <1>6, <1>7, <1>8, <1>14, <1>15, <1>16 DEF Carries, k

(* Slot i has taken a part of call k.                                      *)
Taken(f, g, s, k, i, more) ==
  \E slot \in ToolSlot, adds \in BOOLEAN, tells \in BOOLEAN, told \in Seq(Fragment), events \in Seq(Event) :
    /\ Grows(f, g, Len(s.opened), i, slot, events)
    /\ Carries(k, more, Slot(f, i), slot, adds, tells, told)
    /\ Tells(f, Slot(f, i), slot, adds, tells, told, events)

(* A part that a stream takes at the slot of its call leaves the stream    *)
(* sound.                                                                  *)
LEMMA TakenIsSound ==
  ASSUME NEW f \in Flow, NEW g, NEW s \in Source, NEW t \in Source, Sound(f, s),
         NEW k, NEW i, NEW more \in Seq(Fragment),
         \A m, n \in 1 .. Len(s.opened) : s.opened[m] = s.opened[n] => m = n,
         Follows(s, t, k, i, more), Taken(f, g, s, k, i, more)
  PROVE  g \in Flow /\ Sound(g, t) /\ g.stopped = f.stopped /\ g.ok = f.ok
<1>1. PICK slot \in ToolSlot, adds \in BOOLEAN, tells \in BOOLEAN, told \in Seq(Fragment), events \in Seq(Event) :
        /\ Grows(f, g, Len(s.opened), i, slot, events)
        /\ Carries(k, more, Slot(f, i), slot, adds, tells, told)
        /\ Tells(f, Slot(f, i), slot, adds, tells, told, events)
  BY DEF Taken
<1>2. g \in Flow /\ g.stopped = f.stopped /\ g.ok = f.ok
  BY <1>1 DEF Grows
<1>3. SlotsInv(g, t)
  BY <1>1, <1>2, SlotsGrow
<1>4. EventsInv(g)
  BY <1>1, <1>2, EventsGrow
<1> QED BY <1>2, <1>3, <1>4 DEF Sound

(* The Responses stream takes its parts so.                                *)
LEMMA ResponsesTaken ==
  ASSUME protocol = "responses", NEW f \in Flow, NEW s \in Source, Sound(f, s), NEW t, NEW p,
    IsPart(p), NEW i,
         NEW more \in Seq(Fragment), Follows(s, t, p.call, i, more), p.id \/ i # Len(s.opened),
         NEW at, NEW calls, i = ToolCallIndex(f, p, at, calls)
  PROVE  Taken(f, TakeResponsesPart(f, p, more, at, calls), s, p.call, i, more)
<1> DEFINE n == Len(s.opened)
           old == Slot(f, i)
           g == TakeResponsesPart(f, p, more, at, calls)
<1>1. n \in Nat /\ DOMAIN f.slots = 0 .. (n - 1) /\ i \in 0 .. n
  BY DEF Source, Sound, SlotsInv, Follows
<1>2. \E slot \in ToolSlot, adds \in BOOLEAN, tells \in BOOLEAN, told \in Seq(Fragment), events \in Seq(Event) :
        /\ Grows(f, g, n, i, slot, events)
        /\ AsResponses(p, more, old, slot, adds, tells, told)
        /\ Tells(f, old, slot, adds, tells, told, events)
  <2> HIDE DEF n
  <2> QED BY <1>1, ResponsesPart
<1> HIDE DEF g
<1>3. PICK slot \in ToolSlot, adds \in BOOLEAN, tells \in BOOLEAN, told \in Seq(Fragment), events \in Seq(Event) :
        /\ Grows(f, g, n, i, slot, events)
        /\ AsResponses(p, more, old, slot, adds, tells, told)
        /\ Tells(f, old, slot, adds, tells, told, events)
  BY <1>2
<1>4. Carries(p.call, more, old, slot, adds, tells, told)
  BY <1>3, ResponsesMatches
<1> QED BY <1>3, <1>4, Zenon DEF Taken, g

(* The Messages stream takes its parts so.                                 *)
LEMMA MessagesTaken ==
  ASSUME protocol = "messages", NEW f \in Flow, NEW s \in Source, Sound(f, s), NEW t, NEW p,
    IsPart(p), NEW i,
         NEW more \in Seq(Fragment), Follows(s, t, p.call, i, more), i = p.index,
         i = Len(s.opened) => p.id /\ p.name
  PROVE  Taken(f, TakeMessagesPart(f, p, more), s, p.call, i, more)
<1> DEFINE n == Len(s.opened)
           k == p.call
           old == Slot(f, i)
           g == TakeMessagesPart(f, p, more)
           adds == i = n
           tells == more # <<>>
           slot == [old EXCEPT !.call = IF adds THEN k ELSE @, !.name = IF adds THEN k ELSE @,
                               !.args = @ \o more, !.added = TRUE]
           A == IF adds THEN <<Opened(old.out, k)>> ELSE <<>>
           B == IF tells THEN <<Grown(old.out, more)>> ELSE <<>>
           events == f.events \o A \o B
<1>1. n \in Nat /\ DOMAIN f.slots = 0 .. (n - 1) /\ i \in 0 .. n
  BY DEF Source, Sound, SlotsInv, Follows
<1>2. /\ old \in ToolSlot
      /\ i = n => old.call = NoCall /\ old.name = NoCall /\ old.args = <<>> /\ old.told = 0
         /\ ~old.added
      /\ i # n => old.call = k /\ old.name \in {NoCall, k} /\ SlotTold(old, f.events)
      /\ old.added <=> old.name # NoCall
  <2>1. OldSlotIs(f, s, p.call, i, old)
    BY SlotOfPart
  <2> QED BY <2>1, Zenon DEF OldSlotIs
<1>3. k \in ToolCalls /\ k # NoCall
  BY StreamAssumption DEF IsPart
<1>4. /\ old.call \in ToolCalls \cup {NoCall} /\ old.name \in ToolCalls \cup {NoCall}
         /\ old.args \in Seq(Fragment)
      /\ old.out \in Nat /\ old.told \in Nat /\ old.added \in BOOLEAN
      /\ DOMAIN old = {"call", "name", "args", "out", "told", "added"}
  <2>1. DOMAIN old = {"call", "name", "args", "out", "told", "added"}
    <3> HIDE DEF old
    <3> QED BY <1>2 DEF ToolSlot
  <2> QED BY <1>2, <2>1, SlotTypes
<1>5. i # n => old.added
  BY <1>2, Zenon DEF SlotTold
<1> HIDE DEF old, A, B, n, k
<1>6. /\ slot.call = (IF adds THEN k ELSE old.call) /\ slot.name = (IF adds THEN k ELSE old.name)
      /\ slot.args = old.args \o more /\ slot.added = TRUE /\ slot.out = old.out
         /\ slot.told = old.told
      /\ DOMAIN slot = {"call", "name", "args", "out", "told", "added"}
      /\ slot = [x \in DOMAIN slot |-> slot[x]]
  BY <1>4
<1>7. TakeMessagesPart(f, p, more) = [Put(f, i, slot) EXCEPT !.events = events]
  <2>1. (p.index \notin DOMAIN f.slots) = adds
    BY <1>1
  <2>2. ~(\/ p.index < 0
          \/ adds /\ ~(p.id /\ p.name)
          \/ ~adds /\ (p.id \/ p.name) /\ p.call # old.call)
    BY <1>1, <1>2 DEF n, k
  <2>3. DOMAIN f = {"slots", "next", "prose", "texts", "events", "stopped", "ok"}
    BY DEF Flow
  <2> DEFINE put == Put(f, i, slot)
  <2>4. put.events = f.events /\ DOMAIN put = DOMAIN f
    BY <2>3 DEF Put
  <2>5. TakeMessagesPart(f, p, more) = [put EXCEPT !.events = put.events \o A \o B]
    BY <2>1, <2>2 DEF TakeMessagesPart, old, k, A, B
  <2> HIDE DEF put
  <2>6. TakeMessagesPart(f, p, more) = [put EXCEPT !.events = f.events \o A \o B]
    BY <2>4, <2>5
  <2> QED BY <2>6 DEF put
<1> HIDE DEF slot
<1>8. slot \in ToolSlot
  <2>1. /\ slot.call \in ToolCalls \cup {NoCall} /\ slot.name \in ToolCalls \cup {NoCall}
           /\ slot.args \in Arguments
        /\ slot.out \in Nat /\ slot.told \in Nat /\ slot.added \in BOOLEAN
    <3>1. slot.args \in Seq(Fragment)
      BY <1>4, <1>6
    <3>2. slot.call \in ToolCalls \cup {NoCall} /\ slot.name \in ToolCalls \cup {NoCall}
      BY <1>3, <1>4, <1>6
    <3>3. slot.out \in Nat /\ slot.told \in Nat /\ slot.added \in BOOLEAN
      BY <1>4, <1>6
    <3> QED BY <3>1, <3>2, <3>3 DEF Arguments
  <2> QED BY <1>6, <2>1 DEF ToolSlot
<1>9. A \in Seq(Event) /\ B \in Seq(Event) /\ f.events \in Seq(Event)
  <2>1. Opened(old.out, k) \in Event /\ Grown(old.out, more) \in Event
    BY <1>3, <1>4, EventFacts
  <2> QED BY <2>1, SlotTypes DEF A, B
<1>10. events \in Seq(Event)
  BY <1>9
<1> HIDE DEF events
<1>11. Grows(f, g, n, i, slot, events)
  BY <1>1, <1>7, <1>8, <1>10, PutGrows
<1> HIDE DEF g
<1>12. slot.call = k /\ slot.name \in {NoCall, k} /\ (slot.added <=> slot.name # NoCall)
       /\ (slot.added <=> old.added \/ adds)
       /\ (adds => ~old.added)
  BY <1>2, <1>3, <1>4, <1>5, <1>6
<1>13. Streams(slot) /\ (Streams(old) <=> old.added) /\ Streamed(slot) = slot.args
  BY <1>6 DEF Streams, Streamed
<1>14. Streamed(old) = old.args
  BY <1>2, <1>5, <1>13 DEF Streamed
<1>15. more = <<>> => old.args \o more = old.args
  BY <1>4, ConcatEmptySeq
<1>16. Carries(k, more, old, slot, adds, tells, more)
  BY <1>6, <1>12, <1>13, <1>14, <1>15 DEF Carries
<1>17. Tells(f, old, slot, adds, tells, more, events)
  BY <1>12, Zenon DEF Tells, A, B, events
<1>18. adds \in BOOLEAN /\ tells \in BOOLEAN
  OBVIOUS
<1> HIDE DEF adds, tells
<1> QED BY <1>8, <1>10, <1>11, <1>16, <1>17, <1>18, Zenon DEF Taken, g, old, n, k

(* The calls the provider has opened are a sequence of its tool calls.     *)
LEMMA OpenedCalls ==
  ASSUME NEW s \in Source
  PROVE  /\ Len(s.opened) \in Nat
         /\ \A c : c \in ToSet(s.opened) <=> \E j \in 1 .. Len(s.opened) : s.opened[j] = c
         /\ \A c : c \in ToSet(s.opened) => c \in ToolCalls /\ c # NoCall
         /\ \A c \in ToolCalls : /\ Len(Append(s.opened, c)) = Len(s.opened) + 1
                                 /\ \A j \in 1 .. Len(s.opened) : Append(s.opened, c)[j] = s.opened[j]
                                 /\ Append(s.opened, c)[Len(s.opened) + 1] = c
<1>1. s.opened \in Seq(ToolCalls)
  BY DEF Source
<1>2. ToSet(s.opened) = {s.opened[j] : j \in 1 .. Len(s.opened)}
  BY <1>1 DEF ToSet
<1> QED BY <1>1, <1>2, StreamAssumption

(* A part opens its call, and only with one number for all can it be one   *)
(* too many.                                                               *)
LEMMA SentOpens ==
  ASSUME NEW s \in Source, NEW p \in Parts(s), Sendable(s, p), Providing(s)
  PROVE  /\ ToSet(s.opened) \subseteq ToSet(Sent(s, p).opened) /\ p.call \in ToSet(Sent(s, p).opened)
         /\ style = "reused" => Len(Sent(s, p).opened) <= 1 \/ (Len(s.opened) = 1
            /\ p.call \notin ToSet(s.opened))
         /\ Len(Sent(s, p).opened) > 0
         /\ style # "reused" \/ Len(Sent(s, p).opened) <= 1 => Providing(Sent(s, p))
<1> DEFINE t == Sent(s, p)
           k == p.call
           L == Len(s.opened)
<1>1. /\ k \in ToolCalls /\ t \in Source
      /\ k \in ToSet(s.opened) => t.opened = s.opened
      /\ k \notin ToSet(s.opened) => t.opened = Append(s.opened, k)
      /\ \A c \in ToolCalls : t.given[c] > 0 => c = k \/ s.given[c] > 0
  BY SentFacts DEF Providing, IsPart
<1>2. /\ L \in Nat
      /\ \A c : c \in ToSet(s.opened) <=> \E j \in 1 .. L : s.opened[j] = c
      /\ Len(Append(s.opened, k)) = L + 1
      /\ \A j \in 1 .. L : Append(s.opened, k)[j] = s.opened[j]
      /\ Append(s.opened, k)[L + 1] = k
  BY <1>1, OpenedCalls
<1>3. \A c : c \in ToSet(t.opened) <=> \E j \in 1 .. Len(t.opened) : t.opened[j] = c
  BY <1>1, OpenedCalls
<1>4. /\ \A i, j \in 1 .. L : s.opened[i] = s.opened[j] => i = j
      /\ \A c \in ToolCalls : s.given[c] > 0 => \E i \in 1 .. L : s.opened[i] = c
      /\ style = "reused" => L <= 1
  BY DEF Providing
<1> HIDE DEF t, k, L
<1>5. CASE k \in ToSet(s.opened)
  <2>0. L > 0
    BY <1>2, <1>5
  <2>1. t.opened = s.opened
    BY <1>1, <1>5
  <2>2. ASSUME NEW c \in ToolCalls, t.given[c] > 0 PROVE \E i \in 1 .. L : s.opened[i] = c
    BY <1>1, <1>2, <1>4, <1>5, <2>2
  <2>3. Providing(t)
    BY <1>1, <1>4, <2>1, <2>2 DEF Providing, L
  <2> QED BY <1>4, <1>5, <2>0, <2>1, <2>3 DEF t, k, L
<1>6. CASE k \notin ToSet(s.opened)
  <2>1. /\ Len(t.opened) = L + 1
        /\ \A j \in 1 .. L : t.opened[j] = s.opened[j] /\ s.opened[j] # k
        /\ t.opened[L + 1] = k
    BY <1>1, <1>2, <1>6
  <2>2. \A j \in 1 .. (L + 1) : j \in 1 .. L \/ j = L + 1
    BY <1>2
  <2>3. \A i, j \in 1 .. (L + 1) : t.opened[i] = t.opened[j] => i = j
    BY <1>4, <2>1, <2>2
  <2>4. \A j \in 1 .. L : j \in 1 .. (L + 1) /\ L + 1 \in 1 .. (L + 1)
    BY <1>2
  <2>5. L + 1 \in 1 .. (L + 1)
    BY <1>2
  <2>6. ASSUME NEW c \in ToolCalls, t.given[c] > 0 PROVE \E i \in 1 .. (L + 1) : t.opened[i] = c
    <3>1. CASE c = k
      BY <2>1, <2>5, <3>1
    <3>2. CASE c # k
      <4>1. PICK i \in 1 .. L : s.opened[i] = c
        BY <1>1, <1>4, <2>6, <3>2
      <4> QED BY <2>1, <2>4, <4>1
    <3> QED BY <3>1, <3>2
  <2>7. style # "reused" \/ Len(t.opened) <= 1 => Providing(t)
    BY <1>1, <2>1, <2>3, <2>6 DEF Providing
  <2>8. ToSet(s.opened) \subseteq ToSet(t.opened) /\ k \in ToSet(t.opened)
    <3>1. ASSUME NEW c \in ToSet(s.opened) PROVE c \in ToSet(t.opened)
      <4>1. PICK j \in 1 .. L : s.opened[j] = c
        BY <1>2
      <4>2. j \in 1 .. Len(t.opened) /\ t.opened[j] = c
        BY <2>1, <2>4, <4>1
      <4> QED BY <1>3, <4>2
    <3>2. k \in ToSet(t.opened)
      BY <1>3, <2>1, <2>5
    <3> QED BY <3>1, <3>2
  <2>9. style = "reused" => Len(t.opened) <= 1 \/ (L = 1 /\ k \notin ToSet(s.opened))
    BY <1>2, <1>4, <1>6, <2>1
  <2>10. Len(t.opened) > 0
    BY <1>2, <2>1
  <2> QED BY <2>7, <2>8, <2>9, <2>10 DEF t, k, L
<1> QED BY <1>5, <1>6

(* A part that goes where its call is, or next if its call is new.         *)
LEMMA SentFollows ==
  ASSUME NEW s \in Source, NEW p \in Parts(s), Sendable(s, p), Providing(s), NEW i,
         \/ i = Len(s.opened) /\ p.call \notin ToSet(s.opened)
         \/ i \in 0 .. (Len(s.opened) - 1) /\ s.opened[i + 1] = p.call
  PROVE  Follows(s, Sent(s, p), p.call, i, MoreOf(s, p))
<1> DEFINE t == Sent(s, p)
           k == p.call
           L == Len(s.opened)
<1>1. /\ k \in ToolCalls
      /\ k \in ToSet(s.opened) => t.opened = s.opened
      /\ k \notin ToSet(s.opened) => t.opened = Append(s.opened, k) /\ Given(s, k) = <<>>
      /\ Given(t, k) = Given(s, k) \o MoreOf(s, p)
      /\ \A c \in ToolCalls \ {k} : Given(t, c) = Given(s, c)
      /\ t.texts = s.texts
  BY SentFacts DEF Providing, IsPart
<1>2. /\ L \in Nat
      /\ \A c : c \in ToSet(s.opened) <=> \E j \in 1 .. L : s.opened[j] = c
  BY OpenedCalls
<1> HIDE DEF t, k, L
<1>3. CASE i = L /\ k \notin ToSet(s.opened)
  <2>1. i \in 0 .. L /\ \A j \in 1 .. L : s.opened[j] # k
    BY <1>2, <1>3
  <2>2. Follows(s, t, k, i, MoreOf(s, p))
    BY <1>1, <1>3, <2>1 DEF Follows, L
  <2> QED BY <2>2 DEF t, k
<1>4. CASE i \in 0 .. (L - 1) /\ s.opened[i + 1] = k
  <2>1. i \in 0 .. L /\ i # L /\ i + 1 \in 1 .. L
    BY <1>2, <1>4
  <2>2. k \in ToSet(s.opened)
    BY <1>2, <1>4, <2>1
  <2>3. Follows(s, t, k, i, MoreOf(s, p))
    BY <1>1, <1>4, <2>1, <2>2 DEF Follows, L
  <2> QED BY <2>3 DEF t, k
<1> QED BY <1>3, <1>4 DEF k, L

(* Slots stay in the order of their output indexes, with identifiers the   *)
(* provider gave, whatever a part does.                                    *)
LEMMA LooseGrows ==
  ASSUME NEW f \in Flow, NEW g \in Flow, NEW s, NEW t, NEW n \in Nat, DOMAIN f.slots = 0 .. (n - 1),
    Loose(f, s),
         ToSet(s.opened) \subseteq ToSet(t.opened),
         NEW i \in 0 .. n, NEW slot \in ToolSlot, NEW events, Grows(f, g, n, i, slot, events),
         slot.call \in ToSet(t.opened) \cup {NoCall}, slot.added
           => slot.call # NoCall, slot.out = Slot(f, i).out
  PROVE  Loose(g, t)
<1>1. /\ g.slots[i] = slot
      /\ DOMAIN g.slots = 0 .. (IF i = n THEN n ELSE n - 1)
      /\ \A j \in 0 .. (n - 1) : j # i => g.slots[j] = f.slots[j]
      /\ g.next = IF i = n THEN f.next + 1 ELSE f.next
  BY DEF Grows
<1>2. /\ \A j \in 0 .. (n - 1) :
           /\ f.slots[j].call \in ToSet(s.opened) \cup {NoCall}
           /\ f.slots[j].added => f.slots[j].call # NoCall
           /\ f.slots[j].out < f.next
      /\ \A j, m \in 0 .. (n - 1) : j < m => f.slots[j].out < f.slots[m].out
  BY DEF Loose
<1>3. f.next \in Nat /\ \A j \in 0 .. (n - 1) : f.slots[j].out \in Nat
  BY SlotTypes
<1>4. /\ i # n => slot.out = f.slots[i].out
      /\ i = n => slot.out = f.next
  BY SlotFound
<1>5. \A j \in DOMAIN g.slots : j = i \/ (j \in 0 .. (n - 1) /\ g.slots[j] = f.slots[j])
  BY <1>1
<1>6. slot.out < g.next /\ slot.out \in Nat
  <2>1. CASE i = n
    BY <1>1, <1>3, <1>4, <2>1
  <2>2. CASE i # n
    <3>1. i \in 0 .. (n - 1)
      BY <2>2
    <3> QED BY <1>1, <1>2, <1>3, <1>4, <2>2, <3>1
  <2> QED BY <2>1, <2>2
<1>7. ASSUME NEW j \in DOMAIN g.slots
      PROVE  /\ g.slots[j].call \in ToSet(t.opened) \cup {NoCall}
             /\ g.slots[j].added => g.slots[j].call # NoCall
             /\ g.slots[j].out < g.next
  <2>1. CASE j = i
    BY <1>1, <1>6, <2>1
  <2>2. CASE j # i
    <3>1. j \in 0 .. (n - 1) /\ g.slots[j] = f.slots[j]
      BY <1>5, <2>2
    <3>2. f.slots[j].out < g.next
      BY <1>1, <1>2, <1>3, <3>1
    <3> QED BY <1>2, <3>1, <3>2
  <2> QED BY <2>1, <2>2
<1>8. ASSUME NEW j \in DOMAIN g.slots, NEW m \in DOMAIN g.slots, j < m
      PROVE  g.slots[j].out < g.slots[m].out
  <2>1. CASE j = i
    <3>1. m \in 0 .. (n - 1) /\ g.slots[m] = f.slots[m] /\ i \in 0 .. (n - 1)
      BY <1>5, <1>8, <2>1
    <3> QED BY <1>1, <1>2, <1>4, <1>8, <2>1, <3>1
  <2>2. CASE m = i
    <3>1. j \in 0 .. (n - 1) /\ g.slots[j] = f.slots[j]
      BY <1>5, <1>8, <2>2
    <3>2. CASE i = n
      BY <1>1, <1>2, <1>4, <2>2, <3>1, <3>2
    <3>3. CASE i # n
      <4>1. i \in 0 .. (n - 1)
        BY <3>3
      <4> QED BY <1>1, <1>2, <1>4, <1>8, <2>2, <3>1, <3>3, <4>1
    <3> QED BY <3>2, <3>3
  <2>3. CASE j # i /\ m # i
    BY <1>2, <1>5, <1>8, <2>3
  <2> QED BY <2>1, <2>2, <2>3
<1> QED BY <1>7, <1>8 DEF Loose

(* So they are while each call has its slot.                               *)
LEMMA SoundIsLoose ==
  ASSUME NEW s \in Source, NEW f, SlotsInv(f, s)
  PROVE  Loose(f, s)
<1>1. Len(s.opened) \in Nat
      /\ \A c : c \in ToSet(s.opened) <=> \E j \in 1 .. Len(s.opened) : s.opened[j] = c
  BY OpenedCalls
<1>2. \A c : c \in ToSet(s.opened) => c # NoCall
  BY OpenedCalls
<1>3. /\ DOMAIN f.slots = 0 .. (Len(s.opened) - 1)
      /\ \A i \in 0 .. (Len(s.opened) - 1) :
           (f.slots[i].call = s.opened[i + 1]) /\ (f.slots[i].out < f.next)
      /\ \A i, j \in 0 .. (Len(s.opened) - 1) : i < j => f.slots[i].out < f.slots[j].out
  BY DEF SlotsInv
<1>4. \A i \in 0 .. (Len(s.opened) - 1) : s.opened[i + 1] \in ToSet(s.opened)
  <2>1. \A i \in 0 .. (Len(s.opened) - 1) : i + 1 \in 1 .. Len(s.opened)
    BY <1>1
  <2> QED BY <1>1, <2>1
<1> QED BY <1>2, <1>3, <1>4 DEF Loose

(* One more part, of a call of its own or of none the bridge can tell.     *)
LEMMA SoundResponsesPart ==
  ASSUME protocol = "responses", style \in {"indexed", "named", "bare"},
         NEW s, NEW f, Ready(f, s), Sound(f, s), NEW p \in Parts(s), Sendable(s, p),
         NEW at \in {0, 1}, at = 1 => DOMAIN f.slots # {}, NEW calls \in Nat,
         NEW g, g = TakeResponsesPart(f, p, MoreOf(s, p), at, calls)
  PROVE  ~g.ok \/ (Ready(g, Sent(s, p)) /\ DOMAIN g.slots # {})
<1> DEFINE t == Sent(s, p)
           k == p.call
           L == Len(s.opened)
           more == MoreOf(s, p)
           i == ToolCallIndex(f, p, at, calls)
<1>1. s \in Source /\ Providing(s) /\ f \in Flow /\ ~f.stopped /\ f.ok /\ SlotsInv(f, s)
  BY DEF Ready, Providing, Sound
<1>2. /\ L \in Nat /\ DOMAIN f.slots = 0 .. (L - 1)
      /\ \A c : c \in ToSet(s.opened) <=> \E j \in 1 .. L : s.opened[j] = c
  BY <1>1, OpenedCalls DEF SlotsInv
<1>3. IsPart(p) /\ t \in Source /\ more \in Seq(Fragment)
  BY <1>1, SentFacts DEF Providing
<1>4. Providing(t) /\ k \in ToSet(t.opened) /\ ToSet(s.opened) \subseteq ToSet(t.opened)
      /\ Len(t.opened) > 0
  <2>1. style # "reused"
    OBVIOUS
  <2> QED BY <1>1, <2>1, SentOpens
<1>5. \/ i = -1
      \/ k \notin ToSet(s.opened) /\ p.id /\ i = L
      \/ i \in 0 .. (L - 1) /\ s.opened[i + 1] = k
      \/ style = "bare" /\ ~p.id /\ i = L
  <2>1. at = 1 => L > 0
    BY <1>2
  <2> QED BY <1>1, <2>1, PlaceOfPart
<1>6. CASE i = -1
  <2>1. g = [f EXCEPT !.ok = FALSE]
    BY <1>6 DEF TakeResponsesPart
  <2>2. DOMAIN f = {"slots", "next", "prose", "texts", "events", "stopped", "ok"}
    BY <1>1 DEF Flow
  <2>3. ~g.ok
    BY <2>1, <2>2
  <2> QED BY <2>3
<1>7. CASE (k \notin ToSet(s.opened) /\ p.id /\ i = L) \/ (i \in 0 .. (L - 1)
      /\ s.opened[i + 1] = k)
  <2>1. Follows(s, t, k, i, more)
    <3>1. (i = Len(s.opened) /\ p.call \notin ToSet(s.opened)) \/ (i \in 0 .. (Len(s.opened) - 1)
          /\ s.opened[i + 1] = p.call)
      BY <1>7
    <3> QED BY <1>1, <3>1, SentFollows
  <2>2. p.id \/ i # Len(s.opened)
    BY <1>2, <1>7
  <2>3. Taken(f, g, s, k, i, more)
    BY <1>1, <1>3, <2>1, <2>2, ResponsesTaken
  <2>4. \A m, n \in 1 .. Len(s.opened) : s.opened[m] = s.opened[n] => m = n
    BY <1>1 DEF Providing
  <2>5. g \in Flow /\ Sound(g, t) /\ g.stopped = f.stopped /\ g.ok = f.ok
    BY <1>1, <1>3, <2>1, <2>3, <2>4, TakenIsSound
  <2>6. DOMAIN g.slots = 0 .. (Len(t.opened) - 1)
    BY <2>5 DEF Sound, SlotsInv
  <2>7. Len(t.opened) \in Nat
    BY <1>3, OpenedCalls
  <2>8. DOMAIN g.slots # {}
    <3>1. 0 \in 0 .. (Len(t.opened) - 1)
      BY <1>4, <2>7
    <3> QED BY <2>6, <3>1
  <2>9. Ready(g, t)
    BY <1>1, <1>4, <2>5 DEF Ready
  <2> QED BY <2>8, <2>9
<1>8. CASE style = "bare" /\ ~p.id /\ i = L
  <2>0. Loose(f, s)
    BY <1>1, SoundIsLoose
  <2> HIDE DEF i, t, L, k, more
  <2>1. PICK slot \in ToolSlot, adds \in BOOLEAN, tells \in BOOLEAN, told \in Seq(Fragment), events \in Seq(Event) :
        /\ Grows(f, g, L, i, slot, events)
        /\ AsResponses(p, more, Slot(f, i), slot, adds, tells, told)
        /\ Tells(f, Slot(f, i), slot, adds, tells, told, events)
    <3>1. i \in 0 .. L
      BY <1>2, <1>8
    <3>2. i = ToolCallIndex(f, p, at, calls)
      BY DEF i
    <3>3. g = TakeResponsesPart(f, p, more, at, calls)
      BY DEF more
    <3> QED BY <1>1, <1>2, <1>3, <3>1, <3>2, <3>3, ResponsesPart
  <2>2. Slot(f, i).call = NoCall /\ ~Slot(f, i).added
    <3>1. i \in 0 .. L
      BY <1>2, <1>8
    <3>0. f \in Flow /\ L \in Nat /\ DOMAIN f.slots = 0 .. (L - 1)
      BY <1>1, <1>2
    <3>2. i = L => Slot(f, i).call = NoCall /\ Slot(f, i).added = FALSE
      BY <3>0, <3>1, SlotFound, ZenonT(60)
    <3> QED BY <1>8, <3>2, Zenon
  <2>3. slot.call = NoCall /\ ~slot.added /\ slot.out = Slot(f, i).out
    BY <1>8, <2>1, <2>2 DEF AsResponses
  <2>4. g \in Flow /\ ~g.stopped /\ g.ok /\ DOMAIN g.slots = 0 .. L /\ g.slots[L] = slot
    BY <1>1, <1>8, <2>1 DEF Grows
  <2>5. Loose(g, t)
    <3>1. i \in 0 .. L
      BY <1>2, <1>8
    <3>2. slot.call \in ToSet(t.opened) \cup {NoCall} /\ (slot.added => slot.call # NoCall)
      BY <2>3
    <3> QED BY <1>1, <1>2, <1>4, <2>0, <2>1, <2>3, <2>4, <3>1, <3>2, LooseGrows
  <2>6. L \in DOMAIN g.slots
    BY <1>2, <2>4
  <2>7. Doomed(g, t)
    BY <1>8, <2>3, <2>4, <2>5, <2>6 DEF Doomed, Orphan
  <2>8. Ready(g, t)
    BY <1>4, <2>4, <2>7 DEF Ready
  <2> QED BY <2>6, <2>8 DEF t
<1> QED BY <1>5, <1>6, <1>7, <1>8

(* A stray slot stays one.                                                 *)
LEMMA DoomedPart ==
  ASSUME NEW s, NEW f, Ready(f, s), Doomed(f, s), NEW p \in Parts(s), Sendable(s, p),
         NEW at \in {0, 1}, at = 1 => DOMAIN f.slots # {}, NEW calls \in Nat,
         NEW g, g = TakeResponsesPart(f, p, MoreOf(s, p), at, calls)
  PROVE  ~g.ok \/ (Ready(g, Sent(s, p)) /\ DOMAIN g.slots # {})
<1> DEFINE t == Sent(s, p)
           k == p.call
           more == MoreOf(s, p)
           i == ToolCallIndex(f, p, at, calls)
<1>1. /\ s \in Source /\ Providing(s) /\ f \in Flow /\ ~f.stopped /\ f.ok /\ protocol = "responses"
         /\ style = "bare"
      /\ Loose(f, s)
  BY DEF Ready, Providing, Doomed
<1>2. PICK L \in Nat : f.slots \in [0 .. (L - 1) -> ToolSlot]
  BY <1>1, SlotTypes
<1>d. DOMAIN f.slots = 0 .. (L - 1) /\ L \in Nat
  BY <1>2
<1>o. PICK o \in 0 .. (L - 1) : Orphan(f.slots[o])
  BY <1>d DEF Doomed
<1>3. IsPart(p) /\ t \in Source /\ more \in Seq(Fragment) /\ p.index = Number(s, k)
  BY <1>1, SentFacts DEF Providing
<1>4. Providing(t) /\ k \in ToSet(t.opened) /\ ToSet(s.opened) \subseteq ToSet(t.opened)
  BY <1>1, SentOpens
<1>5. \/ i = -1
      \/ i = L
      \/ i \in 0 .. (L - 1) /\ p.id /\ f.slots[i].call = k
      \/ i = 0 /\ L = 1 /\ ~p.id
  <2>1. at = 1 => L > 0
    BY <1>d
  <2>2. p.index = -1
    BY <1>1, <1>3 DEF Number
  <2>3. p.index < 0
    BY <2>2
  <2> QED BY <1>3, <1>d, <2>1, <2>3, PlaceWithoutNumber
<1>6. CASE i = -1
  <2>1. g = [f EXCEPT !.ok = FALSE]
    BY <1>6 DEF TakeResponsesPart
  <2>2. DOMAIN f = {"slots", "next", "prose", "texts", "events", "stopped", "ok"}
    BY <1>1 DEF Flow
  <2>3. ~g.ok
    BY <2>1, <2>2
  <2> QED BY <2>3
<1>7. CASE i # -1
  <2>i. i \in 0 .. L
    BY <1>5, <1>7, <1>d
  <2> HIDE DEF i, t, k, more
  <2>1. PICK slot \in ToolSlot, adds \in BOOLEAN, tells \in BOOLEAN, told \in Seq(Fragment), events \in Seq(Event) :
        /\ Grows(f, g, L, i, slot, events)
        /\ AsResponses(p, more, Slot(f, i), slot, adds, tells, told)
        /\ Tells(f, Slot(f, i), slot, adds, tells, told, events)
    <3>2. i = ToolCallIndex(f, p, at, calls)
      BY DEF i
    <3>3. g = TakeResponsesPart(f, p, more, at, calls)
      BY DEF more
    <3> QED BY <1>1, <1>d, <1>3, <2>i, <3>2, <3>3, ResponsesPart
  <2>2. /\ i # L => Slot(f, i) = f.slots[i]
        /\ i = L => Slot(f, i).call = NoCall /\ ~Slot(f, i).added
    <3>0. f \in Flow
      BY <1>1
    <3>1. /\ i # L => Slot(f, i) = f.slots[i]
          /\ i = L => Slot(f, i).call = NoCall /\ Slot(f, i).added = FALSE
      BY <3>0, <1>d, <2>i, SlotFound, ZenonT(60)
    <3> QED BY <3>1, Zenon
  <2>3. /\ slot.call = (IF p.id THEN k ELSE Slot(f, i).call) /\ slot.out = Slot(f, i).out
        /\ adds <=> ~Slot(f, i).added /\ slot.call # NoCall /\ slot.name # NoCall
        /\ slot.added <=> Slot(f, i).added \/ adds
    BY <2>1 DEF AsResponses, k
  <2>4. Slot(f, i).call \in ToSet(s.opened) \cup {NoCall} /\ (Slot(f, i).added
        => Slot(f, i).call # NoCall)
    <3>1. CASE i = L
      BY <2>2, <3>1
    <3>2. CASE i # L
      <4>1. i \in DOMAIN f.slots
        BY <1>d, <2>i, <3>2
      <4> QED BY <1>1, <2>2, <3>2, <4>1 DEF Loose
    <3> QED BY <3>1, <3>2
  <2>k. k # NoCall
    BY <1>3, StreamAssumption DEF IsPart, k
  <2>5. slot.call \in ToSet(t.opened) \cup {NoCall} /\ (slot.added => slot.call # NoCall)
    BY <1>4, <2>3, <2>4, <2>k
  <2>6. g \in Flow /\ ~g.stopped /\ g.ok /\ DOMAIN g.slots = 0 .. (IF i = L THEN L
        ELSE L - 1) /\ g.slots[i] = slot
        /\ \A j \in 0 .. (L - 1) : j # i => g.slots[j] = f.slots[j]
    BY <1>1, <2>1 DEF Grows
  <2>7. Loose(g, t)
    BY <1>1, <1>d, <1>4, <2>i, <2>1, <2>3, <2>5, <2>6, LooseGrows
  <2>8. o \in DOMAIN g.slots /\ Orphan(g.slots[o])
    <3>1. o \in DOMAIN g.slots
      BY <1>d, <2>6
    <3>2. CASE o # i
      BY <1>o, <2>6, <3>1, <3>2
    <3>3. CASE o = i
      <4>1. Slot(f, i).call = NoCall /\ ~Slot(f, i).added
        BY <1>o, <1>d, <2>2, <3>3 DEF Orphan
      <4>2. ~p.id
        <5>1. i # L
          BY <1>d, <3>3
        <5>2. f.slots[i].call # k
          BY <2>2, <2>k, <4>1, <5>1
        <5> QED BY <1>5, <1>7, <5>1, <5>2 DEF i, k
      <4>3. slot.call = NoCall /\ ~slot.added
        BY <2>3, <4>1, <4>2
      <4> QED BY <2>6, <3>1, <3>3, <4>3 DEF Orphan
    <3> QED BY <3>2, <3>3, <3>1
  <2>9. Doomed(g, t)
    BY <1>1, <2>7, <2>8 DEF Doomed
  <2>10. Ready(g, t)
    BY <1>4, <2>6, <2>9 DEF Ready
  <2> QED BY <2>8, <2>10 DEF t
<1> QED BY <1>6, <1>7

(* The Messages bridge goes on only while every part names its call by a   *)
(* number of its own.                                                      *)
LEMMA MessagesPart ==
  ASSUME protocol = "messages", style \in {"indexed", "named", "bare", "reused"},
         NEW s, NEW f, Ready(f, s), NEW p \in Parts(s), Sendable(s, p),
         NEW g, g = TakeMessagesPart(f, p, MoreOf(s, p))
  PROVE  ~g.ok \/ (Ready(g, Sent(s, p)) /\ DOMAIN g.slots # {})
<1> DEFINE t == Sent(s, p)
           k == p.call
           L == Len(s.opened)
           more == MoreOf(s, p)
           i == p.index
           refused == \/ p.index < 0
                      \/ p.index \notin DOMAIN f.slots /\ ~(p.id /\ p.name)
                      \/ p.index \in DOMAIN f.slots /\ (p.id \/ p.name)
                         /\ p.call # Slot(f, p.index).call
<1>1. s \in Source /\ Providing(s) /\ f \in Flow /\ ~f.stopped /\ f.ok /\ Sound(f, s)
      /\ SlotsInv(f, s)
  BY DEF Ready, Providing, Sound, Doomed
<1>2. /\ L \in Nat /\ DOMAIN f.slots = 0 .. (L - 1)
      /\ \A c : c \in ToSet(s.opened) <=> \E j \in 1 .. L : s.opened[j] = c
  BY <1>1, OpenedCalls DEF SlotsInv
<1>3. IsPart(p) /\ t \in Source /\ more \in Seq(Fragment) /\ p.index = Number(s, k)
      /\ (p.id <=> k \notin ToSet(s.opened) \/ style = "named")
  BY <1>1, SentFacts DEF Providing
<1>4. CASE refused
  <2>1. g = [f EXCEPT !.ok = FALSE]
    BY <1>4 DEF TakeMessagesPart
  <2>2. DOMAIN f = {"slots", "next", "prose", "texts", "events", "stopped", "ok"}
    BY <1>1 DEF Flow
  <2>3. ~g.ok
    BY <2>1, <2>2
  <2> QED BY <2>3
<1>5. CASE ~refused
  <2>0. i >= 0 /\ (i \notin DOMAIN f.slots => p.id /\ p.name)
        /\ (i \in DOMAIN f.slots => ~p.id \/ k = Slot(f, i).call)
    BY <1>3, <1>5 DEF IsPart
  <2>1. style \in {"indexed", "reused"}
    <3>1. style \in {"named", "bare"} => i = -1
      BY <1>3 DEF Number
    <3> QED BY <2>0, <3>1
  <2>2. (i = L /\ k \notin ToSet(s.opened)) \/ (i \in 0 .. (L - 1) /\ s.opened[i + 1] = k)
    <3>1. CASE style = "indexed"
      <4>0. /\ 0 \in {0, 1} /\ 1 \in Nat /\ (0 = 1 => Len(s.opened) > 0)
               /\ style \in {"indexed", "named", "bare"}
        BY <3>1
      <4>1. LET j == ToolCallIndex(f, p, 0, 1)
            IN  \/ j = -1
                \/ p.call \notin ToSet(s.opened) /\ p.id /\ j = L
                \/ j \in 0 .. (L - 1) /\ s.opened[j + 1] = p.call
                \/ style = "bare" /\ ~p.id /\ j = L
        BY <1>1, <4>0, PlaceOfPart
      <4>2. ToolCallIndex(f, p, 0, 1) = i
        <5>1. i \in Int /\ p.index >= 0 /\ ~(p.index < 0)
          BY <1>3, <2>0 DEF IsPart
        <5> QED BY <5>1 DEF ToolCallIndex
      <4>3. style # "bare" /\ i # -1
        BY <2>0, <3>1
      <4> QED BY <4>1, <4>2, <4>3
    <3>2. CASE style = "reused"
      <4>1. i = 0
        BY <1>3, <3>2 DEF Number
      <4>2. L <= 1
        BY <1>1, <3>2 DEF Providing
      <4>3. CASE L = 0
        BY <1>2, <4>1, <4>3
      <4>4. CASE L = 1
        <5>1. 0 \in DOMAIN f.slots /\ Slot(f, 0) = f.slots[0] /\ f.slots[0].call = s.opened[1]
          <6>1. 0 \in 0 .. (L - 1) /\ 0 + 1 = 1
            BY <4>4
          <6> QED BY <1>1, <1>2, <6>1 DEF SlotsInv, Slot
        <5>2. k \in ToSet(s.opened)
          <6>1. CASE p.id
            <7>1. k = s.opened[1]
              BY <2>0, <4>1, <5>1, <6>1
            <7> QED BY <1>2, <4>4, <7>1
          <6>2. CASE ~p.id
            BY <1>3, <6>2
          <6> QED BY <6>1, <6>2
        <5>3. s.opened[1] = k
          <6>1. PICK j \in 1 .. L : s.opened[j] = k
            BY <1>2, <5>2
          <6>2. j = 1
            BY <4>4
          <6> QED BY <6>1, <6>2
        <5> QED BY <4>1, <4>4, <5>3
      <4>5. L = 0 \/ L = 1
        <5>1. \A n \in Nat : n <= 1 => n = 0 \/ n = 1
          OBVIOUS
        <5>2. L \in Nat
          BY <1>2
        <5> HIDE DEF L
        <5> QED BY <4>2, <5>1, <5>2
      <4> QED BY <4>3, <4>4, <4>5, Zenon
    <3> QED BY <2>1, <3>1, <3>2
  <2>3. Follows(s, t, k, i, more)
    <3>1. (i = Len(s.opened) /\ p.call \notin ToSet(s.opened)) \/ (i \in 0 .. (Len(s.opened) - 1)
          /\ s.opened[i + 1] = p.call)
      BY <2>2
    <3> QED BY <1>1, <3>1, SentFollows
  <2>4. i = Len(s.opened) => p.id /\ p.name
    <3>1. i = L => i \notin DOMAIN f.slots
      BY <1>2
    <3> QED BY <2>0, <3>1
  <2>5. Taken(f, g, s, k, i, more)
    BY <1>1, <1>3, <2>3, <2>4, MessagesTaken
  <2>6. \A m, n \in 1 .. Len(s.opened) : s.opened[m] = s.opened[n] => m = n
    BY <1>1 DEF Providing
  <2>7. g \in Flow /\ Sound(g, t) /\ g.stopped = f.stopped /\ g.ok = f.ok
    BY <1>1, <1>3, <2>3, <2>5, <2>6, TakenIsSound
  <2>8. /\ Len(t.opened) > 0
        /\ style = "reused" => Len(t.opened) <= 1
    <3>1. /\ style = "reused" => Len(t.opened) <= 1 \/ (L = 1 /\ k \notin ToSet(s.opened))
          /\ Len(t.opened) > 0
      BY <1>1, SentOpens
    <3>2. style = "reused" => ~(L = 1 /\ k \notin ToSet(s.opened))
      <4> SUFFICES ASSUME style = "reused", L = 1, k \notin ToSet(s.opened) PROVE FALSE
        OBVIOUS
      <4>1. i = 0
        BY <1>3 DEF Number
      <4>2. s.opened[1] = k /\ 1 \in 1 .. L
        BY <2>2, <4>1
      <4> QED BY <1>2, <4>2
    <3> QED BY <3>1, <3>2
  <2>9. Providing(t)
    BY <1>1, <2>8, SentOpens
  <2>10. DOMAIN g.slots # {}
    <3>1. DOMAIN g.slots = 0 .. (Len(t.opened) - 1)
      BY <2>7 DEF Sound, SlotsInv
    <3>2. 0 \in 0 .. (Len(t.opened) - 1)
      <4>1. Len(t.opened) \in Nat
        BY <1>3, OpenedCalls
      <4> QED BY <2>8, <4>1
    <3> QED BY <3>1, <3>2
  <2> QED BY <1>1, <2>7, <2>9, <2>10 DEF Ready
<1> QED BY <1>4, <1>5

Dialects ==
  /\ protocol \in {"responses", "messages"}
  /\ style \in {"indexed", "named", "bare", "reused"}
  /\ style = "reused" => protocol = "messages"

(* Whatever it carries, a part leaves the stream ready for more, or the    *)
(* bridge refuses it.                                                      *)
LEMMA PartKept ==
  ASSUME Dialects, NEW s, NEW f, Ready(f, s), NEW p \in Parts(s), Sendable(s, p),
         NEW at \in {0, 1}, at = 1 => DOMAIN f.slots # {}, NEW calls \in Nat,
         NEW g, g = TakePart(f, s, p, at, calls)
  PROVE  ~g.ok \/ (Ready(g, Sent(s, p)) /\ DOMAIN g.slots # {})
<1>1. f.ok /\ ~f.stopped
  BY DEF Ready
<1>2. CASE protocol = "responses"
  <2>1. g = TakeResponsesPart(f, p, MoreOf(s, p), at, calls)
    BY <1>1, <1>2 DEF TakePart, MoreOf
  <2>2. style \in {"indexed", "named", "bare"}
    BY <1>2 DEF Dialects
  <2>3. Sound(f, s) \/ Doomed(f, s)
    BY DEF Ready
  <2>4. CASE Sound(f, s)
    BY <1>2, <2>1, <2>2, <2>4, SoundResponsesPart
  <2>5. CASE Doomed(f, s)
    BY <2>1, <2>5, DoomedPart
  <2> QED BY <2>3, <2>4, <2>5
<1>3. CASE protocol = "messages"
  <2>1. g = TakeMessagesPart(f, p, MoreOf(s, p))
    BY <1>1, <1>3 DEF TakePart, MoreOf
  <2> QED BY <1>3, <2>1, MessagesPart DEF Dialects
<1> QED BY <1>2, <1>3 DEF Dialects

(* What a text makes of the stream object.                                 *)
Texted(f, g, out, adds, events) ==
  /\ g \in Flow /\ g.slots = f.slots /\ g.stopped = f.stopped /\ g.ok = f.ok
  /\ g.texts = f.texts + 1 /\ g.prose = out /\ g.next = (IF adds THEN f.next + 1 ELSE f.next)
  /\ g.events = events
  /\ SaysMore(f.events, events, out, Prose, <<Prose>>, adds, TRUE)

(* What a text makes of the stream object.                                 *)
LEMMA TextTaken ==
  ASSUME NEW f \in Flow, f.prose >= -1
  PROVE  \E events \in Seq(Event) :
           Texted(f, TakeText(f), IF f.prose = -1 THEN f.next ELSE f.prose, f.prose = -1, events)
<1> DEFINE adds == f.prose = -1
           out == IF adds THEN f.next ELSE f.prose
           next == IF adds THEN f.next + 1 ELSE f.next
           texts == f.texts + 1
           events == f.events \o (IF adds THEN <<Opened(out, Prose)>>
                     ELSE <<>>) \o <<Grown(out, <<Prose>>)>>
           g == TakeText(f)
<1>1. f.slots \in SlotMap /\ f.next \in Nat /\ f.prose \in Int /\ f.texts \in Nat
      /\ f.events \in Seq(Event) /\ f.stopped \in BOOLEAN /\ f.ok \in BOOLEAN
  BY SlotTypes
<1>2. out \in Int /\ next \in Nat /\ texts \in Nat /\ adds \in BOOLEAN
  BY <1>1
<1>3. <<Prose>> \in Seq(Fragment)
  BY DEF Fragment
<1>4. g = [f EXCEPT !.prose = out, !.next = next, !.texts = texts, !.events = events]
  BY DEF TakeText
<1>5. events = f.events \o (IF adds THEN <<Opened(out, Prose)>> ELSE <<>>) \o (IF TRUE
      THEN <<Grown(out, <<Prose>>)>> ELSE <<>>)
  OBVIOUS
<1> HIDE DEF out, next, texts, events, adds, g
<1>6. SaysMore(f.events, events, out, Prose, <<Prose>>, adds, TRUE)
  BY <1>1, <1>2, <1>3, <1>5, Telling
<1>7. events \in Seq(Event)
  BY <1>6 DEF SaysMore
<1>d. DOMAIN f = {"slots", "next", "prose", "texts", "events", "stopped", "ok"}
  BY DEF Flow
<1>8. g.slots = f.slots /\ g.stopped = f.stopped /\ g.ok = f.ok /\ g.texts = texts /\ g.prose = out
      /\ g.next = next /\ g.events = events
  BY <1>4, <1>d
<1>9. g \in Flow
  <2>1. Flow = [slots : SlotMap, next : Nat, prose : Int, texts : Nat, events : History,
        stopped : BOOLEAN, ok : BOOLEAN]
    BY DEF Flow
  <2>2. events \in History
    BY <1>7 DEF History
  <2>3. g = [slots |-> f.slots, next |-> next, prose |-> out, texts |-> texts, events |-> events,
        stopped |-> f.stopped, ok |-> f.ok]
    <3>1. f = [slots |-> f.slots, next |-> f.next, prose |-> f.prose, texts |-> f.texts,
          events |-> f.events, stopped |-> f.stopped, ok |-> f.ok]
      BY DEF Flow
    <3> QED BY <1>4, <3>1
  <2> QED BY <1>1, <1>2, <2>1, <2>2, <2>3
<1>10. Texted(f, g, out, adds, events)
  BY <1>6, <1>8, <1>9 DEF Texted, next, texts
<1> QED BY <1>7, <1>10 DEF out, adds, g

(* Output indexes are numbers.                                             *)
LEMMA EventOut ==
  ASSUME NEW events \in Seq(Event), NEW m \in 1 .. Len(events)
  PROVE  events[m].out \in Int
<1>1. events[m] \in Event
  OBVIOUS
<1> DEFINE Args == Seq(Fragment)
           All == Seq(Item)
<1>2. Item = [type : {"opened", "grown", "closed"}, out : Int, call : ToolCalls \cup {Prose,
      NoCall}, args : Args]
  BY DEF Item
<1>3. Event = Item \cup [type : {"completed"}, out : {-1}, call : {NoCall}, args : All]
  BY DEF Event
<1> HIDE DEF Args, All
<1> QED BY <1>1, <1>2, <1>3

(* A text told keeps the events telling what they should.                  *)
LEMMA TextEvents ==
  ASSUME NEW f \in Flow, NEW s \in Source, Sound(f, s), NEW g, NEW events \in Seq(Event),
         NEW out, out = (IF f.prose = -1 THEN f.next
           ELSE f.prose), Texted(f, g, out, f.prose = -1, events)
  PROVE  EventsInv(g)
<1> DEFINE adds == f.prose = -1
           L == Len(s.opened)
<1>1. f.next \in Nat /\ f.prose \in Int /\ f.texts \in Nat /\ f.events \in Seq(Event)
  BY SlotTypes
<1>2. /\ L \in Nat /\ DOMAIN f.slots = 0 .. (L - 1)
      /\ \A i \in 0 .. (L - 1) : (f.slots[i].out < f.next) /\ (f.slots[i].out # f.prose)
      /\ f.texts = s.texts /\ f.prose >= -1 /\ f.prose < f.next
      /\ f.prose = -1 <=> s.texts = 0
  BY OpenedCalls DEF Sound, SlotsInv
<1>3. \A i \in 0 .. (L - 1) : f.slots[i].out \in Nat
  BY <1>2, SlotTypes
<1>4. g.slots = f.slots /\ g.texts = f.texts + 1 /\ g.prose = out /\ g.next = (IF adds
      THEN f.next + 1 ELSE f.next) /\ g.events = events
  BY DEF Texted
<1>5. /\ \A o : o # out => Told(events, o) = Told(f.events, o)
      /\ Told(events, out) = Told(f.events, out) \o <<Prose>>
      /\ \A o, call : (o # out \/ ~adds) /\ Once(f.events, Opened(o, call))
         => Once(events, Opened(o, call))
      /\ adds /\ None(f.events, "opened", out) => Once(events, Opened(out, Prose))
      /\ \A o : (o # out \/ ~adds) /\ None(f.events, "opened", o) => None(events, "opened", o)
      /\ \A n \in 1 .. Len(events) :
           \/ \E m \in 1 .. Len(f.events) : events[n] = f.events[m]
           \/ adds /\ events[n] = Opened(out, Prose)
           \/ events[n] = Grown(out, <<Prose>>)
  BY Zenon DEF Texted, SaysMore
<1>6. out \in Nat /\ out < g.next /\ f.next <= g.next
      /\ \A i \in 0 .. (L - 1) : f.slots[i].out # out
  BY <1>1, <1>2, <1>3, <1>4
<1>7. ASSUME NEW i \in DOMAIN g.slots PROVE SlotTold(g.slots[i], events)
  <2>1. i \in 0 .. (L - 1) /\ g.slots[i] = f.slots[i]
    BY <1>2, <1>4
  <2>2. SlotTold(f.slots[i], f.events)
    BY <1>2, <2>1 DEF Sound, EventsInv
  <2>3. f.slots[i].out # out
    BY <1>6, <2>1
  <2>4. /\ f.slots[i].added => Once(events, Opened(f.slots[i].out, f.slots[i].call))
        /\ ~f.slots[i].added => None(events, "opened", f.slots[i].out)
        /\ Told(events, f.slots[i].out) = Told(f.events, f.slots[i].out)
    BY <1>5, <2>2, <2>3, Zenon DEF SlotTold
  <2>5. SlotTold(f.slots[i], events)
    BY <2>2, <2>4, Zenon DEF SlotTold
  <2> QED BY <2>1, <2>5
<1>8. \A n \in 1 .. Len(f.events) :
        /\ f.events[n].type \in {"opened", "grown"}
        /\ f.events[n].out >= 0 /\ f.events[n].out < f.next
        /\ f.events[n].type = "opened" =>
             f.events[n].out = f.prose \/ \E i \in DOMAIN f.slots : f.events[n].out = f.slots[i].out
  BY DEF Sound, EventsInv
<1>9. Once(events, Opened(out, Prose)) /\ Told(events, out) = [n \in 1 .. g.texts |-> Prose]
  <2>1. CASE adds
    <3>1. \A type : None(f.events, type, out)
      <4>1. ASSUME NEW n \in 1 .. Len(f.events) PROVE f.events[n].out # out
        <5>1. f.events[n].out \in Int
          BY <1>1, EventOut
        <5> QED BY <1>1, <1>8, <2>1, <5>1
      <4> QED BY <4>1 DEF None
    <3>2. Told(f.events, out) = <<>>
      BY <1>1, <3>1, ToldOfNone
    <3>3. Told(events, out) = <<Prose>> /\ g.texts = 1
      <4>1. <<>> \o <<Prose>> = <<Prose>>
        OBVIOUS
      <4> QED BY <1>2, <1>4, <1>5, <2>1, <3>2, <4>1
    <3>4. <<Prose>> = [n \in 1 .. 1 |-> Prose]
      OBVIOUS
    <3> QED BY <1>5, <2>1, <3>1, <3>3, <3>4
  <2>2. CASE ~adds
    <3>1. /\ Once(f.events, Opened(f.prose, Prose))
          /\ Told(f.events, f.prose) = [n \in 1 .. f.texts |-> Prose]
      BY <2>2 DEF Sound, EventsInv
    <3>2. out = f.prose
      BY <2>2
    <3>3. [n \in 1 .. f.texts |-> Prose] \o <<Prose>> = [n \in 1 .. f.texts + 1 |-> Prose]
      BY <1>1
    <3> QED BY <1>4, <1>5, <2>2, <3>1, <3>2, <3>3
  <2> QED BY <2>1, <2>2
<1>10. ASSUME NEW n \in 1 .. Len(events)
       PROVE  /\ events[n].type \in {"opened", "grown"}
              /\ events[n].out >= 0 /\ events[n].out < g.next
              /\ events[n].type = "opened" =>
                   events[n].out = g.prose
                     \/ \E i \in DOMAIN g.slots : events[n].out = g.slots[i].out
  <2>1. \/ \E m \in 1 .. Len(f.events) : events[n] = f.events[m]
        \/ events[n].type \in {"opened", "grown"} /\ events[n].out = out
    BY <1>5 DEF Opened, Grown
  <2>2. CASE events[n].type \in {"opened", "grown"} /\ events[n].out = out
    BY <1>4, <1>6, <2>2
  <2>3. ASSUME NEW m \in 1 .. Len(f.events), events[n] = f.events[m]
        PROVE  /\ events[n].type \in {"opened", "grown"}
               /\ events[n].out >= 0 /\ events[n].out < g.next
               /\ events[n].type = "opened" =>
                    events[n].out = g.prose
                      \/ \E i \in DOMAIN g.slots : events[n].out = g.slots[i].out
    <3>1. f.events[m].out \in Int
      BY <1>1, EventOut
    <3>2. f.events[m].out >= 0 /\ f.events[m].out < g.next
      BY <1>1, <1>6, <1>8, <1>4, <3>1
    <3>3. f.events[m].out = f.prose => out = f.prose
      BY <1>1, <3>2
    <3> QED BY <1>4, <1>8, <2>3, <3>2, <3>3
  <2> QED BY <2>1, <2>2, <2>3, Zenon
<1> QED BY <1>4, <1>7, <1>9, <1>10 DEF EventsInv

(* A text leaves the stream ready for more, whatever it was ready for.     *)
LEMMA TextKept ==
  ASSUME NEW s, NEW f, Ready(f, s), ~s.ended
  PROVE  /\ TakeText(f).ok /\ Ready(TakeText(f), SentText(s)) /\ ~SentText(s).ended
         /\ DOMAIN f.slots # {} => DOMAIN TakeText(f).slots # {}
<1> DEFINE g == TakeText(f)
           t == SentText(s)
           out == IF f.prose = -1 THEN f.next ELSE f.prose
<1>1. s \in Source /\ Providing(s) /\ f \in Flow /\ ~f.stopped /\ f.ok
  BY DEF Ready, Providing
<1>2. t \in Source /\ t.opened = s.opened /\ t.given = s.given /\ t.texts = s.texts + 1
      /\ t.ended = s.ended
  <2> DEFINE Calls == Seq(ToolCalls)
  <2>1. s.opened \in Calls /\ s.named \in SUBSET ToolCalls /\ s.given \in [ToolCalls -> Nat]
        /\ s.texts \in Nat /\ s.pieces \in Nat /\ s.ended \in BOOLEAN
        /\ DOMAIN s = {"opened", "named", "given", "texts", "pieces", "ended"}
    BY <1>1 DEF Source
  <2>2. Source = [opened : Calls, named : SUBSET ToolCalls, given : [ToolCalls -> Nat], texts : Nat,
        pieces : Nat, ended : BOOLEAN]
    BY DEF Source
  <2> HIDE DEF Calls
  <2>3. t = [s EXCEPT !.texts = s.texts + 1, !.pieces = s.pieces + 1]
    BY DEF SentText
  <2> DEFINE x == s.texts + 1
             y == s.pieces + 1
  <2>4. x \in Nat /\ y \in Nat /\ t = [s EXCEPT !.texts = x, !.pieces = y]
    BY <2>1, <2>3
  <2> HIDE DEF x, y, t
  <2>5. t.opened = s.opened /\ t.given = s.given /\ t.texts = x /\ t.ended = s.ended
    BY <2>1, <2>4
  <2>6. t = [opened |-> s.opened, named |-> s.named, given |-> s.given, texts |-> x, pieces |-> y,
        ended |-> s.ended]
    <3>1. s = [opened |-> s.opened, named |-> s.named, given |-> s.given, texts |-> s.texts,
          pieces |-> s.pieces, ended |-> s.ended]
      BY <1>1 DEF Source
    <3> QED BY <2>4, <3>1
  <2>7. t \in Source
    BY <2>1, <2>2, <2>4, <2>6
  <2> QED BY <2>5, <2>7 DEF x
<1>3. \A k : Given(t, k) = Given(s, k)
  BY <1>2 DEF Given
<1>4. Providing(t)
  BY <1>1, <1>2 DEF Providing
<1>5. CASE Sound(f, s)
  <2>1. f.prose >= -1
    BY <1>5 DEF Sound, SlotsInv
  <2>2. PICK events \in Seq(Event) : Texted(f, g, out, f.prose = -1, events)
    BY <1>1, <2>1, TextTaken
  <2>3. EventsInv(g)
    BY <1>1, <1>5, <2>2, TextEvents
  <2>4. g \in Flow /\ g.slots = f.slots /\ g.stopped = f.stopped /\ g.ok = f.ok
        /\ g.texts = f.texts + 1 /\ g.prose = out
        /\ g.next = (IF f.prose = -1 THEN f.next + 1 ELSE f.next)
    BY <2>2 DEF Texted
  <2>5. SlotsInv(g, t)
    <3> DEFINE L == Len(s.opened)
    <3>1. /\ L \in Nat /\ DOMAIN f.slots = 0 .. (L - 1)
          /\ \A i \in 0 .. (L - 1) :
               /\ f.slots[i].call = s.opened[i + 1] /\ f.slots[i].args = Given(s, s.opened[i + 1])
               /\ f.slots[i].name \in {NoCall, s.opened[i + 1]}
               /\ f.slots[i].out < f.next /\ f.slots[i].out # f.prose
          /\ \A i, j \in 0 .. (L - 1) : i < j => f.slots[i].out < f.slots[j].out
          /\ f.texts = s.texts /\ f.prose >= -1 /\ f.prose < f.next
      BY <1>1, <1>5, OpenedCalls DEF Sound, SlotsInv
    <3>2. f.next \in Nat /\ f.prose \in Int /\ s.texts \in Nat
          /\ \A i \in 0 .. (L - 1) : f.slots[i].out \in Nat
      BY <1>1, <3>1, SlotTypes DEF Source
    <3>3. \A i \in 0 .. (L - 1) : (f.slots[i].out < g.next) /\ (f.slots[i].out # g.prose)
      BY <2>4, <3>1, <3>2
    <3>4. g.texts = t.texts /\ g.prose >= -1 /\ g.prose < g.next /\ (g.prose = -1 <=> t.texts = 0)
      BY <1>2, <2>4, <3>1, <3>2
    <3> HIDE DEF g, t
    <3> QED BY <1>2, <1>3, <2>4, <3>1, <3>3, <3>4 DEF SlotsInv
  <2> QED BY <1>1, <1>2, <1>4, <2>3, <2>4, <2>5 DEF Ready, Sound
<1>6. CASE Doomed(f, s)
  <2> DEFINE events == f.events \o (IF f.prose = -1 THEN <<Opened(out, Prose)>>
      ELSE <<>>) \o <<Grown(out, <<Prose>>)>>
             next == IF f.prose = -1 THEN f.next + 1 ELSE f.next
             texts == f.texts + 1
  <2>1. g = [f EXCEPT !.prose = out, !.next = next, !.texts = texts, !.events = events]
    BY DEF TakeText
  <2>2. f.next \in Nat /\ f.prose \in Int /\ f.texts \in Nat /\ f.events \in Seq(Event)
        /\ f.slots \in SlotMap
        /\ DOMAIN f = {"slots", "next", "prose", "texts", "events", "stopped", "ok"}
    BY <1>1, SlotTypes DEF Flow
  <2>3. events \in History
    <3>0. out \in Int /\ <<Prose>> \in Seq(Fragment)
      BY <2>2 DEF Fragment
    <3>1. Opened(out, Prose) \in Event /\ Grown(out, <<Prose>>) \in Event
      BY <3>0, EventFacts
    <3> QED BY <2>2, <3>1 DEF History
  <2>4. out \in Int /\ next \in Nat /\ texts \in Nat /\ f.next <= next
    BY <2>2
  <2> HIDE DEF events, next, texts, out, g, t
  <2>5. g.slots = f.slots /\ g.stopped = f.stopped /\ g.ok = f.ok /\ g.next = next
    BY <2>1, <2>2
  <2>6. g \in Flow
    <3>1. Flow = [slots : SlotMap, next : Nat, prose : Int, texts : Nat, events : History,
          stopped : BOOLEAN, ok : BOOLEAN]
      BY DEF Flow
    <3>2. g = [slots |-> f.slots, next |-> next, prose |-> out, texts |-> texts, events |-> events,
          stopped |-> f.stopped, ok |-> f.ok]
      <4>1. f = [slots |-> f.slots, next |-> f.next, prose |-> f.prose, texts |-> f.texts,
            events |-> f.events, stopped |-> f.stopped, ok |-> f.ok]
        BY <1>1 DEF Flow
      <4> QED BY <2>1, <4>1
    <3>3. f.stopped \in BOOLEAN /\ f.ok \in BOOLEAN
      BY <1>1, SlotTypes
    <3> QED BY <2>2, <2>3, <2>4, <3>1, <3>2, <3>3
  <2>7. Loose(g, t)
    <3>1. Loose(f, s)
      BY <1>6 DEF Doomed
    <3>2. \A i \in DOMAIN f.slots : f.slots[i].out \in Nat
      <4>1. PICK n \in Nat : f.slots \in [0 .. (n - 1) -> ToolSlot]
        BY <1>1, SlotTypes
      <4>2. \A i \in DOMAIN f.slots : f.slots[i] \in ToolSlot
        BY <4>1
      <4>3. \A slot \in ToolSlot : slot.out \in Nat
        BY <1>1, SlotTypes
      <4> QED BY <4>2, <4>3
    <3>3. \A i \in DOMAIN f.slots : f.slots[i].out < g.next
      BY <2>2, <2>4, <2>5, <3>1, <3>2 DEF Loose
    <3> QED BY <1>2, <2>5, <3>1, <3>3 DEF Loose, t
  <2>8. Doomed(g, t)
    BY <1>6, <2>5, <2>7 DEF Doomed
  <2> QED BY <1>1, <1>2, <1>4, <2>5, <2>6, <2>8 DEF Ready, g, t
<1> QED BY <1>5, <1>6 DEF Ready

ItemOf(f, i) == Closed(f.slots[i].out, f.slots[i].call, f.slots[i].args)

(* The items of an answer, by their output index.                          *)
ListsItems(items, f, L) ==
  /\ items \in Seq(Item)
  /\ \A n \in 1 .. Len(items) :
       (f.prose # -1 /\ items[n] = Message(f)) \/ \E i \in 0 .. (L - 1) : items[n] = ItemOf(f, i)
  /\ \A i \in 0 .. (L - 1) : \E n \in 1 .. Len(items) : items[n] = ItemOf(f, i)
  /\ f.prose # -1 => \E n \in 1 .. Len(items) : items[n] = Message(f)
  /\ \A m, n \in 1 .. Len(items) : m < n => Before(items[m], items[n])

(* What the event that closes an item carries.                             *)
LEMMA ClosedFacts ==
  /\ \A out, k, all : /\ Closed(out, k, all).type = "closed" /\ Closed(out, k, all).out = out
                      /\ Closed(out, k, all).call = k /\ Closed(out, k, all).args = all
  /\ \A out \in Int, k \in ToolCalls \cup {Prose,
     NoCall}, all \in Seq(Fragment) : Closed(out, k, all) \in Item
<1> DEFINE Args == Seq(Fragment)
<1>1. Item = [type : {"opened", "grown", "closed"}, out : Int, call : ToolCalls \cup {Prose,
      NoCall}, args : Args]
  BY DEF Item
<1> HIDE DEF Args
<1>2. \A out \in Int, k \in ToolCalls \cup {Prose,
      NoCall}, all \in Args : Closed(out, k, all) \in Item
  BY <1>1 DEF Closed
<1>3. \A out, k, all : /\ Closed(out, k, all).type = "closed" /\ Closed(out, k, all).out = out
                       /\ Closed(out, k, all).call = k /\ Closed(out, k, all).args = all
  BY DEF Closed
<1> QED BY <1>2, <1>3 DEF Args

(* What a finite set is mapped onto is finite.                             *)
LEMMA FiniteImage ==
  ASSUME NEW S, IsFiniteSet(S), NEW T, NEW h \in [S -> T], \A y \in T : \E x \in S : h[x] = y
  PROVE  IsFiniteSet(T)
<1>1. h \in Surjection(S, T)
  BY DEF Surjection
<1> QED BY <1>1, FS_Surjection

(* The items of an answer are its slots and its text, by their output      *)
(* indexes.                                                                *)
LEMMA ItemsListed ==
  ASSUME NEW f \in Flow, NEW s \in Source, SlotsInv(f, s)
  PROVE  ListsItems(Items(f), f, Len(s.opened))
<1> DEFINE L == Len(s.opened)
           I == 0 .. (L - 1)
           C == {ItemOf(f, i) : i \in I}
           M == IF f.prose = -1 THEN {} ELSE {Message(f)}
           S == C \cup M
           N == Cardinality(S)
           items == Items(f)
<1>1. /\ L \in Nat /\ DOMAIN f.slots = I
      /\ \A i \in I : (f.slots[i].out < f.next) /\ (f.slots[i].out # f.prose)
      /\ \A i, j \in I : i < j => f.slots[i].out < f.slots[j].out
      /\ f.prose \in Int /\ f.texts \in Nat
  BY OpenedCalls, SlotTypes DEF SlotsInv
<1>2. \A i \in I : f.slots[i].out \in Nat /\ f.slots[i].call \in ToolCalls \cup {NoCall}
      /\ f.slots[i].args \in Seq(Fragment)
  BY <1>1, SlotTypes
<1>3. \A i \in I : ItemOf(f, i) \in Item
  <2> HIDE DEF I
  <2>1. \A i \in I : Closed(f.slots[i].out, f.slots[i].call, f.slots[i].args) \in Item
    <3>1. \A i \in I : f.slots[i].out \in Int /\ f.slots[i].call \in ToolCalls \cup {Prose, NoCall}
          /\ f.slots[i].args \in Seq(Fragment)
      BY <1>2
    <3> QED BY <3>1, ClosedFacts, Zenon
  <2> QED BY <2>1 DEF ItemOf
<1>4. Message(f) \in Item
  <2>1. [n \in 1 .. f.texts |-> Prose] \in Seq(Fragment)
    BY <1>1 DEF Fragment
  <2> QED BY <1>1, <2>1, ClosedFacts DEF Message
<1>5. (\A i \in I : ItemOf(f, i).out = f.slots[i].out) /\ Message(f).out = f.prose
  BY ClosedFacts DEF ItemOf, Message
<1>6. items = ByOut(S)
  BY <1>1 DEF Items, ItemOf
<1>7. IsFiniteSet(S)
  <2>1. IsFiniteSet(I)
    <3>1. 0 \in Int /\ L - 1 \in Int
      BY <1>1
    <3> HIDE DEF L
    <3> QED BY <3>1, FS_Interval DEF I
  <2>2. IsFiniteSet(C)
    <3> HIDE DEF I
    <3> DEFINE h == [i \in I |-> ItemOf(f, i)]
    <3>1. h \in [I -> C] /\ \A y \in C : \E i \in I : h[i] = y
      OBVIOUS
    <3> HIDE DEF h, C
    <3> QED BY <2>1, <3>1, FiniteImage
  <2>3. IsFiniteSet(M)
    BY FS_EmptySet, FS_Singleton
  <2> HIDE DEF C, M
  <2> QED BY <2>2, <2>3, FS_Union
<1>8. Distinct(S)
  <2>1. ASSUME NEW x \in S PROVE x.out \in Int
    <3>1. (\E i \in I : x = ItemOf(f, i)) \/ x = Message(f)
      OBVIOUS
    <3>2. f.prose \in Int /\ \A i \in I : f.slots[i].out \in Int
      BY <1>1, <1>2
    <3> HIDE DEF I, S
    <3> QED BY <1>5, <3>1, <3>2
  <2>2. ASSUME NEW x \in S, NEW y \in S, x.out = y.out PROVE x = y
    <3>1. ASSUME NEW i \in I, NEW j \in I, f.slots[i].out = f.slots[j].out PROVE i = j
      <4>1. i \in Int /\ j \in Int
        BY <1>1
      <4>2. ~(i < j) /\ ~(j < i)
        BY <1>1, <1>2, <3>1
      <4> QED BY <4>1, <4>2
    <3>2. \A i \in I : f.slots[i].out # f.prose
      BY <1>1
    <3>3. (\E i \in I : x = ItemOf(f, i)) \/ x = Message(f)
      OBVIOUS
    <3>4. (\E i \in I : y = ItemOf(f, i)) \/ y = Message(f)
      OBVIOUS
    <3> HIDE DEF I, S
    <3> QED BY <1>5, <2>2, <3>1, <3>2, <3>3, <3>4
  <2> QED BY <2>1, <2>2 DEF Distinct
<1>9. S \subseteq Item
  BY <1>3, <1>4
<1> HIDE DEF S, N
<1>10. /\ N \in Nat /\ ByOut(S) \in Seq(S) /\ Len(ByOut(S)) = N
       /\ \A m, n \in 1 .. N : m < n => Before(ByOut(S)[m], ByOut(S)[n])
       /\ \A n \in 1 .. N : ByOut(S)[n] \in S
       /\ \A i \in S : \E n \in 1 .. N : ByOut(S)[n] = i
  <2>1. S \in SUBSET S
    OBVIOUS
  <2> QED BY <1>7, <1>8, <2>1, ByOutIsOrdered DEF N
<1>11. items \in Seq(Item)
  BY <1>6, <1>9, <1>10
<1>12. /\ Len(items) = N
       /\ \A m, n \in 1 .. N : m < n => Before(items[m], items[n])
       /\ \A n \in 1 .. N : items[n] \in S
       /\ \A i \in S : \E n \in 1 .. N : items[n] = i
  BY <1>6, <1>10
<1> HIDE DEF items
<1>13. \A n \in 1 .. N : (f.prose # -1 /\ items[n] = Message(f))
       \/ \E i \in I : items[n] = ItemOf(f, i)
  BY <1>12 DEF S
<1>14. \A i \in I : ItemOf(f, i) \in S
  BY DEF S
<1>15. f.prose # -1 => Message(f) \in S
  BY DEF S
<1> QED BY <1>11, <1>12, <1>13, <1>14, <1>15 DEF ListsItems, items

OpensOnce(s) == \A i, j \in 1 .. Len(s.opened) : s.opened[i] = s.opened[j] => i = j

(* They are the calls and the text, each once, in the provider's order.    *)
LEMMA ItemsAreTheCalls ==
  ASSUME NEW f \in Flow, NEW s \in Source, OpensOnce(s), SlotsInv(f, s),
         NEW items, ListsItems(items, f, Len(s.opened))
  PROVE  /\ Complete(items, s)
         /\ \A n \in 1 .. Len(items) : items[n].type = "closed"
         /\ \A m, n \in 1 .. Len(items) : items[m].out = items[n].out => m = n
<1> DEFINE L == Len(s.opened)
           I == 0 .. (L - 1)
           N == Len(items)
<1>0. s \in Source
  OBVIOUS
<1>1. /\ L \in Nat /\ DOMAIN f.slots = I
      /\ \A i \in I : /\ f.slots[i].call = s.opened[i + 1] /\ f.slots[i].args = Given(s, s.opened[i + 1])
                      /\ f.slots[i].out # f.prose
      /\ \A i, j \in I : i < j => f.slots[i].out < f.slots[j].out
      /\ f.texts = s.texts /\ (f.prose = -1 <=> s.texts = 0) /\ f.prose \in Int /\ s.texts \in Nat
  BY <1>0, OpenedCalls, SlotTypes DEF SlotsInv, Source
<1>2. \A i \in I : f.slots[i].out \in Nat
  BY <1>1, SlotTypes
<1>3. \A i \in I : i + 1 \in 1 .. L /\ s.opened[i + 1] \in ToolCalls
  <2>1. s.opened \in Seq(ToolCalls)
    BY <1>0 DEF Source
  <2>2. \A i \in I : i + 1 \in 1 .. L
    BY <1>1
  <2> QED BY <2>1, <2>2
<1>4. \A i \in I : /\ ItemOf(f, i).out = f.slots[i].out /\ ItemOf(f, i).type = "closed"
                   /\ ItemOf(f, i).call = s.opened[i + 1]
                      /\ ItemOf(f, i).args = Given(s, s.opened[i + 1])
  BY <1>1, ClosedFacts DEF ItemOf
<1>5. /\ Message(f).out = f.prose /\ Message(f).type = "closed" /\ Message(f).call = Prose
      /\ Message(f).args = [n \in 1 .. s.texts |-> Prose]
  BY <1>1, ClosedFacts DEF Message
<1>6. /\ N \in Nat
      /\ \A n \in 1 .. N : (f.prose # -1 /\ items[n] = Message(f))
         \/ \E i \in I : items[n] = ItemOf(f, i)
      /\ \A i \in I : \E n \in 1 .. N : items[n] = ItemOf(f, i)
      /\ f.prose # -1 => \E n \in 1 .. N : items[n] = Message(f)
      /\ \A m, n \in 1 .. N : m < n => items[m].out < items[n].out
  <2>1. items \in Seq(Item)
    BY DEF ListsItems
  <2>2. N \in Nat
    BY <2>1
  <2> QED BY <2>2, ZenonT(60) DEF ListsItems, Before
<1>7. \A n \in 1 .. N : items[n].out \in Int /\ items[n].type = "closed"
  <2> HIDE DEF I, N
  <2> QED BY <1>1, <1>2, <1>4, <1>5, <1>6
<1>8. \A m, n \in 1 .. N : items[m].out = items[n].out => m = n
  <2> HIDE DEF N
  <2>1. ASSUME NEW m \in 1 .. N, NEW n \in 1 .. N, items[m].out = items[n].out PROVE m = n
    <3>1. ~(m < n) /\ ~(n < m)
      BY <1>6, <1>7, <2>1
    <3> QED BY <1>6, <3>1
  <2> QED BY <2>1
<1>9. \A i, j \in I : s.opened[i + 1] = s.opened[j + 1] => i = j
  <2>1. \A m, n \in 1 .. L : s.opened[m] = s.opened[n] => m = n
    BY DEF OpensOnce
  <2>2. ASSUME NEW i \in I, NEW j \in I, s.opened[i + 1] = s.opened[j + 1] PROVE i = j
    <3>1. i + 1 = j + 1
      BY <1>3, <2>1, <2>2
    <3> QED BY <1>1, <3>1
  <2> QED BY <2>2
<1>p. Prose \notin ToolCalls
  BY StreamAssumption
<1>o. \A c : c \in ToSet(s.opened) <=> \E j \in 1 .. L : s.opened[j] = c
  BY <1>0, OpenedCalls
<1>k. \A j \in 1 .. L : j - 1 \in I /\ (j - 1) + 1 = j
  BY <1>1
<1> HIDE DEF N, I, L
<1>10. {items[n].call : n \in 1 .. N} = ToSet(s.opened) \cup (IF s.texts > 0 THEN {Prose} ELSE {})
  <2>1. ASSUME NEW n \in 1 .. N
        PROVE items[n].call \in ToSet(s.opened) \cup (IF s.texts > 0 THEN {Prose} ELSE {})
    <3>1. CASE f.prose # -1 /\ items[n] = Message(f)
      <4>1. s.texts > 0
        BY <1>1, <3>1
      <4> QED BY <1>5, <3>1, <4>1
    <3>2. CASE \E i \in I : items[n] = ItemOf(f, i)
      BY <1>3, <1>4, <1>o, <3>2
    <3> QED BY <1>6, <3>1, <3>2
  <2>2. ASSUME NEW c \in ToSet(s.opened) PROVE \E n \in 1 .. N : items[n].call = c
    <3>1. PICK j \in 1 .. L : s.opened[j] = c
      BY <1>o
    <3>2. j - 1 \in I /\ (j - 1) + 1 = j
      BY <1>k
    <3>3. PICK n \in 1 .. N : items[n] = ItemOf(f, j - 1)
      BY <1>6, <3>2
    <3> QED BY <1>4, <3>1, <3>2, <3>3
  <2>3. s.texts > 0 => \E n \in 1 .. N : items[n].call = Prose
    BY <1>1, <1>5, <1>6
  <2> QED BY <2>1, <2>2, <2>3
<1>11. \A n, m \in 1 .. N : items[n].call = items[m].call => n = m
  <2>1. ASSUME NEW n \in 1 .. N, NEW m \in 1 .. N, items[n].call = items[m].call
        PROVE items[n].out = items[m].out
    <3>1. CASE items[n] = Message(f)
      <4>1. \A i \in I : items[m] # ItemOf(f, i)
        BY <1>3, <1>4, <1>5, <1>p, <2>1, <3>1
      <4> QED BY <1>6, <3>1, <4>1
    <3>2. ASSUME NEW i \in I, items[n] = ItemOf(f, i) PROVE items[n].out = items[m].out
      <4>1. items[m] # Message(f)
        BY <1>3, <1>4, <1>5, <1>p, <2>1, <3>2
      <4>2. PICK j \in I : items[m] = ItemOf(f, j)
        BY <1>6, <4>1
      <4>3. i = j
        BY <1>4, <1>9, <2>1, <3>2, <4>2
      <4> QED BY <3>2, <4>2, <4>3
    <3> QED BY <1>6, <3>1, <3>2
  <2> QED BY <1>8, <2>1
<1>12. \A n \in 1 .. N : items[n].args = IF items[n].call = Prose
       THEN [m \in 1 .. s.texts |-> Prose] ELSE Given(s, items[n].call)
  <2>1. ASSUME NEW n \in 1 .. N
        PROVE  items[n].args = IF items[n].call = Prose THEN [m \in 1 .. s.texts |-> Prose]
          ELSE Given(s, items[n].call)
    <3>1. CASE items[n] = Message(f)
      BY <1>5, <3>1
    <3>2. ASSUME NEW i \in I, items[n] = ItemOf(f, i)
          PROVE  items[n].args = IF items[n].call = Prose THEN [m \in 1 .. s.texts |-> Prose]
            ELSE Given(s, items[n].call)
      <4>1. items[n].call # Prose
        BY <1>3, <1>4, <1>p, <3>2
      <4> QED BY <1>4, <3>2, <4>1
    <3> QED BY <1>6, <3>1, <3>2
  <2> QED BY <2>1
<1>13. ASSUME NEW n \in 1 .. N, NEW m \in 1 .. N, NEW i \in 1 .. L, NEW j \in 1 .. L,
              n < m, items[n].call = s.opened[i], items[m].call = s.opened[j]
       PROVE  i < j
  <2>1. i - 1 \in I /\ (i - 1) + 1 = i /\ j - 1 \in I /\ (j - 1) + 1 = j
    BY <1>k
  <2>2. s.opened[i] # Prose /\ s.opened[j] # Prose
    BY <1>3, <1>p, <2>1
  <2>3. items[n] # Message(f) /\ items[m] # Message(f)
    BY <1>5, <1>13, <2>2
  <2>4. PICK a \in I : items[n] = ItemOf(f, a)
    BY <1>6, <2>3
  <2>5. PICK b \in I : items[m] = ItemOf(f, b)
    BY <1>6, <2>3
  <2>6. a = i - 1 /\ b = j - 1
    BY <1>4, <1>9, <1>13, <2>1, <2>4, <2>5
  <2>7. f.slots[i - 1].out < f.slots[j - 1].out
    <3>1. items[n].out < items[m].out
      BY <1>6, <1>13
    <3> QED BY <1>4, <2>4, <2>5, <2>6, <3>1
  <2>8. f.slots[i - 1].out \in Nat /\ f.slots[j - 1].out \in Nat
    BY <1>2, <2>1
  <2>9. ~(j - 1 < i - 1) /\ i - 1 # j - 1
    BY <1>1, <2>1, <2>7, <2>8
  <2>10. i \in Int /\ j \in Int
    OBVIOUS
  <2> QED BY <2>9, <2>10
<1>14. Complete(items, s)
  BY <1>10, <1>11, <1>12, <1>13 DEF Complete, N, L
<1> QED BY <1>7, <1>8, <1>14 DEF N

(* What is told in two runs of events is what each tells, for all runs at  *)
(* once.                                                                   *)
LEMMA ToldTogether ==
  \A s, u \in History : s \o u \in History
    /\ \A out : Told(s \o u, out) = Told(s, out) \o Told(u, out)
<1>1. ASSUME NEW s \in Seq(Event), NEW u \in Seq(Event), NEW out
      PROVE Told(s \o u, out) = Told(s, out) \o Told(u, out)
  BY ToldOfConcat
<1>2. ASSUME NEW s \in Seq(Event), NEW u \in Seq(Event) PROVE s \o u \in Seq(Event)
  OBVIOUS
<1> QED BY <1>1, <1>2 DEF History

FourParts(all, a, b, c, d) ==
  /\ all \in Seq(Event)
  /\ \A out : Told(all, out) = Told(a, out) \o Told(b, out) \o Told(c, out) \o Told(d, out)
  /\ \A e : Once(a, e) /\ None(b, e.type, e.out) /\ None(c, e.type, e.out) /\ None(d, e.type, e.out)
     => Once(all, e)
  /\ \A e : None(a, e.type, e.out) /\ Once(b, e) /\ None(c, e.type, e.out) /\ None(d, e.type, e.out)
     => Once(all, e)
  /\ \A e : None(a, e.type, e.out) /\ None(b, e.type, e.out) /\ Once(c, e) /\ None(d, e.type, e.out)
     => Once(all, e)
  /\ \A n \in 1 .. Len(all) :
       \/ \E m \in 1 .. Len(a) : all[n] = a[m]
       \/ \E m \in 1 .. Len(b) : all[n] = b[m]
       \/ \E m \in 1 .. Len(c) : all[n] = c[m]
       \/ n > Len(all) - Len(d) /\ \E m \in 1 .. Len(d) : all[n] = d[m]

(* What the events of a finished stream say, from those of its parts.      *)
LEMMA PartsTogether ==
  ASSUME NEW a \in Seq(Event), NEW b \in Seq(Event), NEW c \in Seq(Event), NEW d \in Seq(Event),
         NEW all, all = a \o b \o c \o d
  PROVE  FourParts(all, a, b, c, d)
<1> DEFINE ab == a \o b
           abc == ab \o c
<1>1. ab \in Seq(Event) /\ abc \in Seq(Event) /\ all \in Seq(Event) /\ all = abc \o d
      /\ Len(all) = Len(abc) + Len(d)
  OBVIOUS
<1>h. a \in History /\ b \in History /\ c \in History /\ d \in History /\ ab \in History
      /\ abc \in History
  BY <1>1 DEF History
<1>2. \A out : Told(ab, out) = Told(a, out) \o Told(b, out)
  BY <1>h, ToldTogether, Zenon
<1>c. abc = ab \o c
  OBVIOUS
<1> HIDE DEF abc, ab
<1>3. \A out : Told(abc, out) = Told(ab, out) \o Told(c, out)
  <2>1. \A out : Told(ab \o c, out) = Told(ab, out) \o Told(c, out)
    BY <1>h, ToldTogether, Zenon
  <2> QED BY <1>c, <2>1
<1>a. all = abc \o d
  BY <1>1
<1>4. \A out : Told(all, out) = Told(abc, out) \o Told(d, out)
  <2>1. \A out : Told(abc \o d, out) = Told(abc, out) \o Told(d, out)
    BY <1>h, ToldTogether, Zenon
  <2> QED BY <1>a, <2>1
<1>5. \A out : Told(all, out) = Told(a, out) \o Told(b, out) \o Told(c, out) \o Told(d, out)
  BY <1>2, <1>3, <1>4, Zenon
<1>6. /\ \A type, out : None(a, type, out) /\ None(b, type, out) => None(ab, type, out)
      /\ \A e : Once(a, e) /\ None(b, e.type, e.out) => Once(ab, e)
      /\ \A e : None(a, e.type, e.out) /\ Once(b, e) => Once(ab, e)
  BY OnceOfConcat, Zenon DEF ab
<1>7. /\ \A type, out : None(ab, type, out) /\ None(c, type, out) => None(abc, type, out)
      /\ \A e : Once(ab, e) /\ None(c, e.type, e.out) => Once(abc, e)
      /\ \A e : None(ab, e.type, e.out) /\ Once(c, e) => Once(abc, e)
  BY <1>1, OnceOfConcat, Zenon DEF abc
<1>8. /\ \A e : Once(abc, e) /\ None(d, e.type, e.out) => Once(all, e)
  <2>1. \A e : Once(abc, e) /\ None(d, e.type, e.out) => Once(abc \o d, e)
    BY <1>1, OnceOfConcat, Zenon
  <2> QED BY <1>1, <2>1, Zenon
<1>9. /\ \A e : Once(a, e) /\ None(b, e.type, e.out) /\ None(c, e.type, e.out)
         /\ None(d, e.type, e.out) => Once(all, e)
      /\ \A e : None(a, e.type, e.out) /\ Once(b, e) /\ None(c, e.type, e.out)
         /\ None(d, e.type, e.out) => Once(all, e)
      /\ \A e : None(a, e.type, e.out) /\ None(b, e.type, e.out) /\ Once(c, e)
         /\ None(d, e.type, e.out) => Once(all, e)
  BY <1>6, <1>7, <1>8, Zenon
<1>10. ASSUME NEW n \in 1 .. Len(all)
       PROVE  \/ \E m \in 1 .. Len(a) : all[n] = a[m]
              \/ \E m \in 1 .. Len(b) : all[n] = b[m]
              \/ \E m \in 1 .. Len(c) : all[n] = c[m]
              \/ n > Len(all) - Len(d) /\ \E m \in 1 .. Len(d) : all[n] = d[m]
  <2>1. \/ n \in 1 .. Len(abc) /\ all[n] = abc[n]
        \/ n - Len(abc) \in 1 .. Len(d) /\ all[n] = d[n - Len(abc)]
    <3>1. n \in 1 .. Len(abc \o d)
      BY <1>1
    <3>2. \/ n \in 1 .. Len(abc) /\ (abc \o d)[n] = abc[n]
          \/ n - Len(abc) \in 1 .. Len(d) /\ (abc \o d)[n] = d[n - Len(abc)]
      BY <1>1, <3>1, ElementOfConcat
    <3> QED BY <1>1, <3>2
  <2>2. CASE n \in 1 .. Len(abc) /\ all[n] = abc[n]
    <3>1. \/ n \in 1 .. Len(ab) /\ abc[n] = ab[n]
          \/ n - Len(ab) \in 1 .. Len(c) /\ abc[n] = c[n - Len(ab)]
      BY <1>1, <2>2, ElementOfConcat DEF abc
    <3>2. CASE n \in 1 .. Len(ab) /\ abc[n] = ab[n]
      <4>1. \/ n \in 1 .. Len(a) /\ ab[n] = a[n]
            \/ n - Len(a) \in 1 .. Len(b) /\ ab[n] = b[n - Len(a)]
        BY <3>2, ElementOfConcat DEF ab
      <4> QED BY <2>2, <3>2, <4>1
    <3> QED BY <2>2, <3>1, <3>2
  <2>3. CASE n - Len(abc) \in 1 .. Len(d) /\ all[n] = d[n - Len(abc)]
    <3>1. n > Len(all) - Len(d)
      <4>1. Len(abc) \in Nat /\ Len(d) \in Nat
        BY <1>1
      <4> QED BY <1>1, <2>3, <4>1
    <3> QED BY <2>3, <3>1
  <2> QED BY <2>1, <2>2, <2>3
<1> QED BY <1>1, <1>5, <1>9, <1>10 DEF FourParts

(* A finished stream object: what it holds is all in its events.           *)
Done(f, s) ==
  /\ f \in Flow /\ f.stopped /\ SlotsInv(f, s)
  /\ Len(f.events) > 0 /\ f.events[Len(f.events)] = Completed(Items(f))
  /\ \A n \in 1 .. (Len(f.events) - 1) : f.events[n].type # "completed"
  /\ Followed(f.events, Items(f))

(* What the client has been told so far of the items of an answer.         *)
Heard(f, items) ==
  /\ Outs(f.events) = {items[n].out : n \in 1 .. Len(items)}
  /\ \A n \in 1 .. Len(f.events) : f.events[n].type \in {"opened", "grown"}
  /\ \A n \in 1 .. Len(items) :
       /\ items[n].call # NoCall
       /\ Once(f.events, Opened(items[n].out, items[n].call))
       /\ Raw(items[n]) \in {<<>>, items[n].args}
       /\ Told(f.events, items[n].out) = IF Raw(items[n]) = <<>> THEN items[n].args ELSE <<>>
       /\ items[n].call = Prose => f.prose # -1 /\ items[n] = Message(f)
       /\ items[n].call # Prose => items[n].out # f.prose

(* Before it finishes, the client has been told of each item but what only *)
(* the end tells.                                                          *)
LEMMA HeardBeforeFinish ==
  ASSUME NEW f \in Flow, NEW s, Providing(s), Sound(f, s), protocol \in {"responses", "messages"},
         protocol = "responses" => \A i \in DOMAIN f.slots : f.slots[i].added,
         NEW items, ListsItems(items, f, Len(s.opened))
  PROVE  Heard(f, items)
<1> DEFINE L == Len(s.opened)
           I == 0 .. (L - 1)
           N == Len(items)
<1>0. s \in Source
  BY DEF Providing
<1>1. /\ L \in Nat /\ DOMAIN f.slots = I
      /\ \A i \in I : /\ f.slots[i].call = s.opened[i + 1] /\ f.slots[i].out # f.prose
      /\ f.prose \in Int
  BY <1>0, OpenedCalls, SlotTypes DEF Sound, SlotsInv
<1>2. \A i \in I : f.slots[i].out \in Nat /\ f.slots[i].added \in BOOLEAN
  BY <1>1, SlotTypes
<1>3. \A i \in I : f.slots[i].call \in ToolCalls
  <2>1. s.opened \in Seq(ToolCalls) /\ \A i \in I : i + 1 \in 1 .. L
    BY <1>0, <1>1 DEF Source
  <2> QED BY <1>1, <2>1
<1>4. \A i \in I : SlotTold(f.slots[i], f.events) /\ f.slots[i].added
  <2>1. \A i \in I : SlotTold(f.slots[i], f.events)
    BY <1>1 DEF Sound, EventsInv
  <2>2. \A i \in I : protocol = "messages" => f.slots[i].added
    BY <2>1, Zenon DEF SlotTold
  <2> QED BY <1>1, <2>1, <2>2, Zenon
<1>5. \A i \in I : /\ ItemOf(f, i).out = f.slots[i].out /\ ItemOf(f, i).call = f.slots[i].call
                   /\ ItemOf(f, i).args = f.slots[i].args
  BY ClosedFacts DEF ItemOf
<1>6. /\ Message(f).out = f.prose /\ Message(f).call = Prose
         /\ Message(f).args = [n \in 1 .. f.texts |-> Prose]
  BY ClosedFacts DEF Message
<1>7. /\ \A n \in 1 .. N : (f.prose # -1 /\ items[n] = Message(f))
         \/ \E i \in I : items[n] = ItemOf(f, i)
      /\ \A i \in I : \E n \in 1 .. N : items[n] = ItemOf(f, i)
      /\ f.prose # -1 => \E n \in 1 .. N : items[n] = Message(f)
  BY ZenonT(60) DEF ListsItems
<1>8. /\ f.prose # -1 => /\ Once(f.events, Opened(f.prose, Prose))
                         /\ Told(f.events, f.prose) = [n \in 1 .. f.texts |-> Prose]
      /\ \A n \in 1 .. Len(f.events) :
           /\ f.events[n].type \in {"opened", "grown"}
           /\ f.events[n].out >= 0
           /\ f.events[n].type = "opened" =>
                f.events[n].out = f.prose \/ \E i \in I : f.events[n].out = f.slots[i].out
  BY <1>1 DEF Sound, EventsInv
<1>p. Prose \notin ToolCalls /\ NoCall \notin ToolCalls /\ Prose # NoCall
      /\ CustomCalls \subseteq ToolCalls
  BY StreamAssumption
<1>9. \A n \in 1 .. Len(f.events) : f.events[n].out # -1
  <2>1. \A n \in 1 .. Len(f.events) : f.events[n].out >= 0
    BY <1>8
  <2>2. ~(-1 >= 0)
    OBVIOUS
  <2> QED BY <2>1, <2>2
<1>e. \A e : e \in Outs(f.events) <=> \E n \in 1 .. Len(f.events) : f.events[n].type = "opened"
      /\ f.events[n].out = e
  BY DEF Outs
<1> HIDE DEF I, N, L
<1>10. ASSUME NEW e \in Outs(f.events) PROVE \E n \in 1 .. N : items[n].out = e
  <2>1. PICK n \in 1 .. Len(f.events) : f.events[n].type = "opened" /\ f.events[n].out = e
    BY <1>10, <1>e
  <2>2. CASE e = f.prose
    <3>1. f.prose # -1
      BY <1>9, <2>1, <2>2
    <3> QED BY <1>6, <1>7, <2>2, <3>1
  <2>3. ASSUME NEW i \in I, e = f.slots[i].out PROVE \E m \in 1 .. N : items[m].out = e
    BY <1>5, <1>7, <2>3
  <2> QED BY <1>8, <2>1, <2>2, <2>3
<1>11. ASSUME NEW n \in 1 .. N PROVE items[n].out \in Outs(f.events)
  <2>1. \E k : Once(f.events, Opened(items[n].out, k))
    <3>1. CASE f.prose # -1 /\ items[n] = Message(f)
      BY <1>6, <1>8, <3>1
    <3>2. ASSUME NEW i \in I, items[n] = ItemOf(f, i)
          PROVE \E k : Once(f.events, Opened(items[n].out, k))
      BY <1>4, <1>5, <3>2, Zenon DEF SlotTold
    <3> QED BY <1>7, <3>1, <3>2
  <2>2. PICK k : Once(f.events, Opened(items[n].out, k))
    BY <2>1
  <2>3. PICK m \in 1 .. Len(f.events) : f.events[m] = Opened(items[n].out, k)
    BY <2>2 DEF Once
  <2>4. f.events[m].type = "opened" /\ f.events[m].out = items[n].out
    BY <2>3 DEF Opened
  <2> QED BY <1>e, <2>4
<1>12. Outs(f.events) = {items[n].out : n \in 1 .. N}
  BY <1>10, <1>11
<1>13. ASSUME NEW n \in 1 .. N
       PROVE  /\ items[n].call # NoCall
              /\ Once(f.events, Opened(items[n].out, items[n].call))
              /\ Raw(items[n]) \in {<<>>, items[n].args}
              /\ Told(f.events, items[n].out) = IF Raw(items[n]) = <<>> THEN items[n].args ELSE <<>>
              /\ items[n].call = Prose => f.prose # -1 /\ items[n] = Message(f)
              /\ items[n].call # Prose => items[n].out # f.prose
  <2>0. Raw(items[n]) = IF protocol = "responses" /\ items[n].call \in CustomCalls
        THEN items[n].args ELSE <<>>
    BY DEF Raw
  <2>1. CASE f.prose # -1 /\ items[n] = Message(f)
    <3>1. Raw(items[n]) = <<>>
      BY <1>6, <1>p, <2>0, <2>1
    <3> QED BY <1>6, <1>8, <1>p, <2>1, <3>1
  <2>2. ASSUME NEW i \in I, items[n] = ItemOf(f, i)
        PROVE  /\ items[n].call # NoCall
               /\ Once(f.events, Opened(items[n].out, items[n].call))
               /\ Raw(items[n]) \in {<<>>, items[n].args}
               /\ Told(f.events, items[n].out) = IF Raw(items[n]) = <<>> THEN items[n].args
                  ELSE <<>>
               /\ items[n].call = Prose => f.prose # -1 /\ items[n] = Message(f)
               /\ items[n].call # Prose => items[n].out # f.prose
    <3>1. items[n].out = f.slots[i].out /\ items[n].call = f.slots[i].call
          /\ items[n].args = f.slots[i].args
      BY <1>5, <2>2
    <3>2. items[n].call # NoCall /\ items[n].call # Prose /\ items[n].out # f.prose
      BY <1>1, <1>3, <1>p, <3>1
    <3>3. Once(f.events, Opened(items[n].out, items[n].call))
      BY <1>4, <3>1, Zenon DEF SlotTold
    <3>4. Told(f.events, items[n].out) =
          IF protocol = "responses" => items[n].call \notin CustomCalls THEN items[n].args ELSE <<>>
      BY <1>4, <3>1, Zenon DEF SlotTold, Streams
    <3>5. Told(f.events, items[n].out) = IF Raw(items[n]) = <<>> THEN items[n].args ELSE <<>>
      BY <2>0, <3>4
    <3> QED BY <2>0, <3>2, <3>3, <3>5
  <2> QED BY <1>7, <2>1, <2>2
<1>14. \A n \in 1 .. Len(f.events) : f.events[n].type \in {"opened", "grown"}
  BY <1>8
<1> QED BY <1>12, <1>13, <1>14 DEF Heard, N

(* What finishing adds tells the rest, once.                               *)
LEMMA PartsTell ==
  ASSUME NEW f, NEW items \in Seq(Item), Heard(f, items),
         \A n \in 1 .. Len(items) : items[n].type = "closed",
         NEW a, a = f.events, NEW b \in Seq(Event), NEW c, NEW d \in Seq(Event), NEW all,
           FourParts(all, a, b, c, d),
         \A n \in 1 .. Len(b) : b[n] = Message(f) /\ protocol = "responses" /\ f.prose # -1,
         protocol = "responses" /\ f.prose # -1 => Once(b, Message(f)),
         \A n \in 1 .. Len(c) : c[n].type \in {"grown", "closed"},
         \A n \in 1 .. Len(items) : Shut(c, items[n]),
         Len(d) = 1, d[1].type = "completed", Len(all) \in Nat
  PROVE  /\ \A n \in 1 .. (Len(all) - 1) : all[n].type # "completed"
         /\ Followed(all, items)
<1> DEFINE N == Len(items)
<1>2. /\ \A n \in 1 .. Len(c) : c[n].type \in {"grown", "closed"}
      /\ \A n \in 1 .. N : Shut(c, items[n])
  OBVIOUS
<1>3. Message(f).type = "closed" /\ Message(f).out = f.prose /\ Message(f).call = Prose
  BY ClosedFacts DEF Message
<1>d. Len(d) = 1 /\ d[1].type = "completed"
  OBVIOUS
<1>4. \A n \in 1 .. Len(b) : b[n] = Message(f) /\ protocol = "responses" /\ f.prose # -1
  OBVIOUS
<1>b. protocol = "responses" /\ f.prose # -1 => Once(b, Message(f))
  OBVIOUS
<1>h. /\ Outs(a) = {items[n].out : n \in 1 .. N}
      /\ \A n \in 1 .. Len(a) : a[n].type \in {"opened", "grown"}
      /\ \A n \in 1 .. N :
           /\ Once(a, Opened(items[n].out, items[n].call))
           /\ Raw(items[n]) \in {<<>>, items[n].args}
           /\ Told(a, items[n].out) = IF Raw(items[n]) = <<>> THEN items[n].args ELSE <<>>
           /\ items[n].call = Prose => f.prose # -1 /\ items[n] = Message(f)
           /\ items[n].call # Prose => items[n].out # f.prose
  BY Zenon DEF Heard
<1> HIDE DEF N
<1>6. /\ all \in Seq(Event)
      /\ \A out : Told(all, out) = Told(a, out) \o Told(b, out) \o Told(c, out) \o Told(d, out)
      /\ \A e : Once(a, e) /\ None(b, e.type, e.out) /\ None(c, e.type, e.out)
         /\ None(d, e.type, e.out) => Once(all, e)
      /\ \A e : None(a, e.type, e.out) /\ Once(b, e) /\ None(c, e.type, e.out)
         /\ None(d, e.type, e.out) => Once(all, e)
      /\ \A e : None(a, e.type, e.out) /\ None(b, e.type, e.out) /\ Once(c, e)
         /\ None(d, e.type, e.out) => Once(all, e)
      /\ \A n \in 1 .. Len(all) :
           \/ \E m \in 1 .. Len(a) : all[n] = a[m]
           \/ \E m \in 1 .. Len(b) : all[n] = b[m]
           \/ \E m \in 1 .. Len(c) : all[n] = c[m]
           \/ n > Len(all) - Len(d) /\ \E m \in 1 .. Len(d) : all[n] = d[m]
  BY Zenon DEF FourParts
<1>7. \A n \in 1 .. (Len(all) - 1) : all[n].type # "completed"
  <2>1. ASSUME NEW n \in 1 .. (Len(all) - 1) PROVE all[n].type # "completed"
    <3>1. n \in 1 .. Len(all) /\ ~(n > Len(all) - Len(d))
      BY <1>d
    <3>2. \/ \E m \in 1 .. Len(a) : all[n] = a[m]
          \/ \E m \in 1 .. Len(b) : all[n] = b[m]
          \/ \E m \in 1 .. Len(c) : all[n] = c[m]
      BY <1>6, <3>1
    <3> QED BY <1>2, <1>3, <1>4, <1>h, <3>2
  <2> QED BY <2>1
<1>8. \A type, out : type \notin {"opened", "grown"} => None(a, type, out)
  BY <1>h DEF None
<1>9. \A type, out : type # "closed" \/ out # f.prose \/ protocol # "responses" \/ f.prose = -1
      => None(b, type, out)
  BY <1>3, <1>4 DEF None
<1>10. \A type, out : type \notin {"grown", "closed"} => None(c, type, out)
  BY <1>2 DEF None
<1>11. \A type, out : type # "completed" => None(d, type, out)
  <2>1. \A n \in 1 .. Len(d) : d[n].type = "completed"
    BY <1>d
  <2> QED BY <2>1 DEF None
<1>12. ASSUME NEW n \in 1 .. N
       PROVE  /\ Once(all, Opened(items[n].out, items[n].call))
              /\ Told(all, items[n].out) = items[n].args
              /\ Once(all, items[n])
  <2> DEFINE e == items[n]
  <2>0. e \in Item /\ e.type = "closed" /\ e.args \in Seq(Fragment)
    <3>1. e \in Item /\ e.type = "closed"
      BY DEF N
    <3> QED BY <3>1, ItemFacts
  <2>1. /\ Told(c, e.out) = Raw(e)
        /\ Skipped(e) => None(c, "closed", e.out)
        /\ ~Skipped(e) => Once(c, e)
    BY <1>2, Zenon DEF Shut
  <2>2. /\ Once(a, Opened(e.out, e.call)) /\ Raw(e) \in {<<>>, e.args}
        /\ Told(a, e.out) = IF Raw(e) = <<>> THEN e.args ELSE <<>>
        /\ e.call = Prose => f.prose # -1 /\ e = Message(f)
        /\ e.call # Prose => e.out # f.prose
    BY <1>h
  <2> HIDE DEF e
  <2>3. Once(all, Opened(e.out, e.call))
    <3>1. Opened(e.out, e.call).type = "opened"
      BY DEF Opened
    <3>2. \A out : None(b, "opened", out) /\ None(c, "opened", out) /\ None(d, "opened", out)
      BY <1>9, <1>10, <1>11
    <3> QED BY <1>6, <2>2, <3>1, <3>2, Zenon
  <2>4. Told(b, e.out) = <<>> /\ Told(d, e.out) = <<>>
    <3>1. None(b, "grown", e.out) /\ None(d, "grown", e.out)
      BY <1>9, <1>11
    <3> QED BY <3>1, ToldOfNone
  <2>5. Told(all, e.out) = e.args
    <3>1. Told(all, e.out) = Told(a, e.out) \o <<>> \o Raw(e) \o <<>>
      BY <1>6, <2>1, <2>4, Zenon
    <3>2. CASE Raw(e) = <<>>
      <4>1. e.args \o <<>> \o <<>> \o <<>> = e.args
        BY <2>0
      <4> QED BY <2>2, <3>1, <3>2, <4>1
    <3>3. CASE Raw(e) # <<>>
      <4>1. <<>> \o <<>> \o e.args \o <<>> = e.args
        BY <2>0
      <4> QED BY <2>2, <3>1, <3>3, <4>1
    <3> QED BY <3>2, <3>3
  <2>6. Once(all, e)
    <3>1. None(a, "closed", e.out) /\ None(d, "closed", e.out)
      BY <1>8, <1>11
    <3>2. CASE Skipped(e)
      <4>1. protocol = "responses" /\ e.call = Prose
        BY <3>2 DEF Skipped
      <4>2. Once(b, e)
        BY <1>b, <2>2, <4>1
      <4> QED BY <1>6, <2>0, <2>1, <3>1, <3>2, <4>2, Zenon
    <3>3. CASE ~Skipped(e)
      <4>1. None(b, "closed", e.out)
        <5>1. protocol # "responses" \/ e.call # Prose
          BY <3>3 DEF Skipped
        <5> QED BY <1>9, <2>2, <5>1
      <4> QED BY <1>6, <2>0, <2>1, <3>1, <3>3, <4>1, Zenon
    <3> QED BY <3>2, <3>3
  <2> QED BY <2>3, <2>5, <2>6 DEF e
<1>e. \A h, o : o \in Outs(h) <=> \E n \in 1 .. Len(h) : h[n].type = "opened" /\ h[n].out = o
  BY DEF Outs
<1>13. Outs(all) = {items[n].out : n \in 1 .. N}
  <2>1. ASSUME NEW o \in Outs(all) PROVE \E n \in 1 .. N : items[n].out = o
    <3>1. PICK n \in 1 .. Len(all) : all[n].type = "opened" /\ all[n].out = o
      BY <2>1, <1>e
    <3>2. \E m \in 1 .. Len(a) : all[n] = a[m]
      <4>1. \A m \in 1 .. Len(d) : d[m].type = "completed"
        BY <1>d
      <4> QED BY <1>2, <1>3, <1>4, <1>6, <3>1, <4>1
    <3>3. o \in Outs(a)
      BY <1>e, <3>1, <3>2
    <3> QED BY <1>h, <3>3
  <2>2. ASSUME NEW n \in 1 .. N PROVE items[n].out \in Outs(all)
    <3>1. Once(all, Opened(items[n].out, items[n].call))
      BY <1>12
    <3>2. PICK m \in 1 .. Len(all) : all[m] = Opened(items[n].out, items[n].call)
      BY <3>1 DEF Once
    <3>3. all[m].type = "opened" /\ all[m].out = items[n].out
      BY <3>2 DEF Opened
    <3> QED BY <1>e, <3>3
  <2> QED BY <2>1, <2>2
<1>14. Followed(all, items)
  BY <1>12, <1>13 DEF Followed, N
<1> QED BY <1>7, <1>14

(* The last event of a run that ends with one.                             *)
LEMMA EndsWithOne ==
  ASSUME NEW E, NEW u \in Seq(E), NEW v \in Seq(E), Len(v) = 1
  PROVE  Len(u \o v) = Len(u) + 1 /\ Len(u) \in Nat /\ (u \o v)[Len(u) + 1] = v[1]
    /\ u \o v \in Seq(E)
<1>1. Len(u) \in Nat
  OBVIOUS
<1>2. /\ u \o v \in Seq(E) /\ Len(u \o v) = Len(u) + Len(v)
      /\ \A i \in 1 .. Len(u) + Len(v) : (u \o v)[i] = IF i <= Len(u) THEN u[i] ELSE v[i - Len(u)]
  BY ConcatProperties
<1>3. \A n \in Nat : n + 1 \in 1 .. n + 1 /\ ~(n + 1 <= n) /\ (n + 1) - n = 1
  OBVIOUS
<1>4. (u \o v)[Len(u) + 1] = v[1]
  BY <1>1, <1>2, <1>3, Zenon
<1> QED BY <1>1, <1>2, <1>4, Zenon

(* With what finish() adds, the events tell of each item in whole, and end *)
(* with the completion.                                                    *)
LEMMA FinishTells ==
  ASSUME NEW f \in Flow, NEW items \in Seq(Item), Heard(f, items),
         \A n \in 1 .. Len(items) : items[n].type = "closed",
         \A m, n \in 1 .. Len(items) : items[m].out = items[n].out => m = n,
         f.prose = -1 \/ Message(f) \in Item
  PROVE  \E all \in Seq(Event) :
           /\ all = f.events \o (IF protocol = "responses" /\ f.prose # -1 THEN <<Message(f)>>
              ELSE <<>>)
                             \o Closings(items) \o <<Completed(items)>>
           /\ Len(all) > 0 /\ all[Len(all)] = Completed(items)
           /\ \A n \in 1 .. (Len(all) - 1) : all[n].type # "completed"
           /\ Followed(all, items)
<1> DEFINE a == f.events
           b == IF protocol = "responses" /\ f.prose # -1 THEN <<Message(f)>> ELSE <<>>
           c == Closings(items)
           d == <<Completed(items)>>
           x == a \o b \o c
           all == x \o d
<1>1. a \in Seq(Event) /\ b \in Seq(Event) /\ d \in Seq(Event)
  <2>1. a \in Seq(Event)
    BY SlotTypes
  <2>2. Completed(items) \in Event
    BY EventFacts
  <2>3. f.prose # -1 => Message(f) \in Event
    BY EventFacts
  <2>4. b \in Seq(Event)
    BY <2>3
  <2> QED BY <2>1, <2>2, <2>4
<1>2. /\ c \in Seq(Event)
      /\ \A n \in 1 .. Len(c) : c[n].type \in {"grown", "closed"}
      /\ \A n \in 1 .. Len(items) : Shut(c, items[n])
  BY ClosingsShut
<1>d. Len(d) = 1 /\ d[1] = Completed(items) /\ d[1].type = "completed"
  BY DEF Completed
<1>4. \A n \in 1 .. Len(b) : b[n] = Message(f) /\ protocol = "responses" /\ f.prose # -1
  OBVIOUS
<1>b. protocol = "responses" /\ f.prose # -1 => Once(b, Message(f))
  BY OnceOfOne, Zenon
<1> HIDE DEF a, b, c, d
<1>x. x \in Seq(Event)
  BY <1>1, <1>2
<1>5. FourParts(all, a, b, c, d)
  BY <1>1, <1>2, PartsTogether
<1> HIDE DEF x
<1>l. Len(all) = Len(x) + 1 /\ Len(x) \in Nat /\ all[Len(x) + 1] = Completed(items)
      /\ all \in Seq(Event)
  <2>1. \A u, v \in Seq(Event) : Len(v) = 1 => Len(u \o v) = Len(u) + 1 /\ Len(u) \in Nat
        /\ (u \o v)[Len(u) + 1] = v[1] /\ u \o v \in Seq(Event)
    BY EndsWithOne
  <2> HIDE DEF all
  <2>2. Len(x \o d) = Len(x) + 1 /\ Len(x) \in Nat /\ (x \o d)[Len(x) + 1] = d[1]
        /\ x \o d \in Seq(Event)
    BY <1>1, <1>x, <1>d, <2>1, Zenon
  <2> QED BY <1>d, <2>2, Zenon DEF all
<1> HIDE DEF all
<1>m. Len(all) > 0 /\ all[Len(all)] = Completed(items) /\ Len(all) \in Nat
  <2> DEFINE l == Len(x)
  <2>1. Len(all) = l + 1 /\ l \in Nat /\ all[l + 1] = Completed(items)
    BY <1>l
  <2> HIDE DEF l
  <2> QED BY <2>1
<1>6. /\ \A n \in 1 .. (Len(all) - 1) : all[n].type # "completed"
      /\ Followed(all, items)
  <2>1. a = f.events
    BY DEF a
  <2> QED BY <1>1, <1>2, <1>4, <1>5, <1>b, <1>d, <1>m, <2>1, PartsTell
<1>7. all = f.events \o (IF protocol = "responses" /\ f.prose # -1 THEN <<Message(f)>> ELSE <<>>)
                     \o Closings(items) \o <<Completed(items)>>
  BY DEF all, x, a, b, c, d
<1> QED BY <1>6, <1>7, <1>l, <1>m, Zenon

(* finish() changes nothing of the calls and of the text.                  *)
LEMMA FinishKeeps ==
  ASSUME NEW f \in Flow
  PROVE  /\ Finish(f).slots = f.slots /\ Finish(f).prose = f.prose /\ Finish(f).texts = f.texts /\ Finish(f).ok = f.ok
         /\ Finish(f).next = f.next
         /\ f.stopped => Finish(f) = f
         /\ Finish(f).stopped
<1> DEFINE events == f.events \o (IF protocol = "responses" /\ f.prose # -1 THEN <<Message(f)>>
                     ELSE <<>>)
                              \o Closings(Items(f)) \o <<Completed(Items(f))>>
<1>1. DOMAIN f = {"slots", "next", "prose", "texts", "events", "stopped", "ok"}
  BY DEF Flow
<1>2. f.stopped \/ Finish(f) = [f EXCEPT !.stopped = TRUE]
      \/ Finish(f) = [f EXCEPT !.stopped = TRUE, !.events = events]
  BY DEF Finish
<1>3. f.stopped => Finish(f) = f
  BY DEF Finish
<1> HIDE DEF events
<1> QED BY <1>1, <1>2, <1>3

(* A stream that can be finished is told in whole.                         *)
LEMMA FinishIsDone ==
  ASSUME protocol \in {"responses", "messages"}, NEW s, NEW f, Ready(f, s), Sound(f, s),
         protocol = "messages" \/ Unfit(f, FALSE) = {}
  PROVE  Done(Finish(f), s)
<1> DEFINE L == Len(s.opened)
           items == Items(f)
           g == Finish(f)
<1>1. Providing(s) /\ s \in Source /\ f \in Flow /\ ~f.stopped /\ SlotsInv(f, s)
  BY DEF Ready, Providing, Sound
<1>2. ListsItems(items, f, L)
  BY <1>1, ItemsListed
<1>3. /\ \A n \in 1 .. Len(items) : items[n].type = "closed"
      /\ \A m, n \in 1 .. Len(items) : items[m].out = items[n].out => m = n
      /\ items \in Seq(Item)
  <2>1. items \in Seq(Item)
    BY <1>2 DEF ListsItems
  <2>2. OpensOnce(s)
    BY <1>1 DEF Providing, OpensOnce
  <2> QED BY <1>1, <1>2, <2>1, <2>2, ItemsAreTheCalls
<1>4. protocol = "responses" => \A i \in DOMAIN f.slots : f.slots[i].added
  BY DEF Unfit
<1> HIDE DEF items
<1>5. Heard(f, items)
  BY <1>1, <1>2, <1>4, HeardBeforeFinish
<1>6. f.prose = -1 \/ Message(f) \in Item
  <2>1. f.prose # -1 => \E n \in 1 .. Len(items) : items[n] = Message(f)
    BY <1>2, ZenonT(60) DEF ListsItems
  <2>2. \A n \in 1 .. Len(items) : items[n] \in Item
    BY <1>3
  <2> QED BY <2>1, <2>2
<1>7. PICK events \in Seq(Event) :
        /\ events = f.events \o (IF protocol = "responses" /\ f.prose # -1 THEN <<Message(f)>>
           ELSE <<>>)
                             \o Closings(items) \o <<Completed(items)>>
        /\ Len(events) > 0 /\ events[Len(events)] = Completed(items)
        /\ \A n \in 1 .. (Len(events) - 1) : events[n].type # "completed"
        /\ Followed(events, items)
  BY <1>1, <1>3, <1>5, <1>6, FinishTells
<1>8. g = [f EXCEPT !.stopped = TRUE, !.events = events]
  <2>1. ~(protocol = "responses" /\ Unfit(f, FALSE) # {})
    OBVIOUS
  <2>2. g = [f EXCEPT !.stopped = TRUE,
                 !.events = f.events \o (IF protocol = "responses" /\ f.prose # -1
                   THEN <<Message(f)>> ELSE <<>>)
                              \o Closings(items) \o <<Completed(items)>>]
    BY <1>1, <2>1, Zenon DEF Finish, items
  <2> QED BY <1>7, <2>2, Zenon
<1>9. /\ g.slots = f.slots /\ g.prose = f.prose /\ g.texts = f.texts /\ g.next = f.next /\ g.stopped
         /\ g.ok = f.ok
  BY <1>1, FinishKeeps
<1>10. g.events = events
  <2>1. DOMAIN f = {"slots", "next", "prose", "texts", "events", "stopped", "ok"}
    BY <1>1 DEF Flow
  <2> HIDE DEF g
  <2> QED BY <1>8, <2>1
<1>11. g \in Flow
  <2>1. f.slots \in SlotMap /\ f.next \in Nat /\ f.prose \in Int /\ f.texts \in Nat
        /\ f.ok \in BOOLEAN
    BY <1>1, SlotTypes
  <2>2. g = [slots |-> f.slots, next |-> f.next, prose |-> f.prose, texts |-> f.texts,
        events |-> events, stopped |-> TRUE, ok |-> f.ok]
    <3>1. f = [slots |-> f.slots, next |-> f.next, prose |-> f.prose, texts |-> f.texts,
          events |-> f.events, stopped |-> f.stopped, ok |-> f.ok]
      BY <1>1 DEF Flow
    <3> HIDE DEF g
    <3> QED BY <1>8, <3>1
  <2>3. events \in History
    BY DEF History
  <2>4. Flow = [slots : SlotMap, next : Nat, prose : Int, texts : Nat, events : History,
        stopped : BOOLEAN, ok : BOOLEAN]
    BY DEF Flow
  <2> HIDE DEF g
  <2> QED BY <2>1, <2>2, <2>3, <2>4
<1>12. Items(g) = items
  BY <1>9, Zenon DEF Items, Message, items
<1>13. SlotsInv(g, s)
  BY <1>1, <1>9, Zenon DEF SlotsInv
<1> HIDE DEF g
<1>14. Done(g, s)
  BY <1>7, <1>9, <1>10, <1>11, <1>12, <1>13 DEF Done
<1> QED BY <1>14 DEF g

(* A stray slot is one finish() throws at.                                 *)
LEMMA DoomedIsUnfit ==
  ASSUME NEW f \in Flow, NEW s, Doomed(f, s), NEW whole
  PROVE  Unfit(f, whole) # {}
<1>1. PICK i \in DOMAIN f.slots : Orphan(f.slots[i])
  BY DEF Doomed
<1>2. i \in Unfit(f, whole)
  BY <1>1 DEF Unfit, Orphan, Doomed
<1> QED BY <1>2

(* What is kept of a memory.                                                *)
LEMMA WithoutKeeps ==
  ASSUME NEW E, NEW known \in Seq(E), NEW call
  PROVE  Without(known, call) \in Seq(E)
<1> DEFINE N == Len(known)
           Values == Seq(E)
           F == [x \in Values \X (1 .. N) |-> IF known[x[2]].call = call THEN x[1]
                ELSE Append(x[1], known[x[2]])]
           Steps(f) == [n \in 0 .. N |-> IF n = 0 THEN <<>> ELSE IF known[n].call = call
                       THEN f[n - 1] ELSE Append(f[n - 1], known[n])]
           upto == CHOOSE f : f = Steps(f)
<1>0. N \in Nat /\ <<>> \in Values /\ \A n \in 1 .. N : known[n] \in E
  OBVIOUS
<1>1. F \in [Values \X (1 .. N) -> Values]
  <2> HIDE DEF N
  <2>1. ASSUME NEW v \in Values, NEW n \in 1 .. N
        PROVE (IF known[n].call = call THEN v ELSE Append(v, known[n])) \in Values
    <3>1. known[n] \in E
      BY <1>0
    <3>2. \A e \in E : Append(v, e) \in Values
      OBVIOUS
    <3> QED BY <3>1, <3>2
  <2> HIDE DEF Values
  <2>2. \A x \in Values \X (1 .. N) : x[1] \in Values /\ x[2] \in 1 .. N
    OBVIOUS
  <2>3. \A x \in Values \X (1 .. N) : (IF known[x[2]].call = call THEN x[1]
        ELSE Append(x[1], known[x[2]])) \in Values
    BY <2>1, <2>2
  <2> QED BY <2>3
<1>2. Without(known, call) = upto[N]
  BY DEF Without
<1>3. \A a \in Values, n \in 1 .. N : F[<<a, n>>] = IF known[n].call = call THEN a
      ELSE Append(a, known[n])
  OBVIOUS
<1> HIDE DEF F, N, upto, Values
<1>g. \E g : MadeInSteps(g, Values, <<>>, N, F)
  BY <1>0, <1>1, StepByStep
<1>4. PICK g \in [0 .. N -> Values] :
        g[0] = <<>> /\ \A n \in 1 .. N : g[n] = F[<<g[n - 1], n>>]
  BY <1>g DEF MadeInSteps
<1>5. \A n \in 1 .. N : n # 0 /\ n \in 0 .. N /\ n - 1 \in 0 .. N /\ g[n - 1] \in Values
  BY <1>0, <1>4
<1>6. \A n \in 0 .. N : g[n] = IF n = 0 THEN <<>> ELSE IF known[n].call = call THEN g[n - 1]
      ELSE Append(g[n - 1], known[n])
  <2>1. \A n \in 0 .. N : n = 0 \/ n \in 1 .. N
    BY <1>0
  <2>2. ASSUME NEW n \in 1 .. N
        PROVE g[n] = IF known[n].call = call THEN g[n - 1] ELSE Append(g[n - 1], known[n])
    BY <1>3, <1>4, <1>5, Zenon
  <2> QED BY <1>4, <1>5, <2>1, <2>2, Zenon
<1>7. g = [n \in 0 .. N |-> g[n]]
  BY <1>4
<1>8. g = Steps(g)
  BY <1>6, <1>7, Zenon
<1>9. upto = Steps(upto)
  BY <1>8, Zenon DEF upto
<1>10. upto[0] = <<>> /\ \A n \in 1 .. N : upto[n] = IF known[n].call = call THEN upto[n - 1]
       ELSE Append(upto[n - 1], known[n])
  <2>1. \A n \in 0 .. N : upto[n] = IF n = 0 THEN <<>> ELSE IF known[n].call = call THEN upto[n - 1]
        ELSE Append(upto[n - 1], known[n])
    BY <1>9, Zenon
  <2>2. 0 \in 0 .. N
    BY <1>0
  <2> QED BY <1>5, <2>1, <2>2, Zenon
<1>12. upto = [n \in 0 .. N |-> upto[n]]
  <2>1. \A f : Steps(f) = [n \in 0 .. N |-> Steps(f)[n]]
    OBVIOUS
  <2> QED BY <1>9, <2>1, Zenon
<1> HIDE DEF Steps
<1>11. \A n \in 0 .. N : upto[n] \in Values
  <2> DEFINE T == {n \in 0 .. N : upto[n] \in Values}
  <2>1. 0 \in T
    BY <1>0, <1>10
  <2>2. ASSUME NEW n \in 1 .. N, n - 1 \in T PROVE n \in T
    <3>1. upto[n - 1] \in Values
      BY <2>2
    <3>2. F[<<upto[n - 1], n>>] \in Values
      BY <1>1, <3>1
    <3>3. upto[n] = F[<<upto[n - 1], n>>]
      BY <1>3, <1>10, <3>1, Zenon
    <3> QED BY <1>5, <3>2, <3>3
  <2> HIDE DEF T
  <2>3. \A n \in 0 .. N : n \in T
    BY <1>0, <2>1, <2>2, EachStep
  <2> QED BY <2>3 DEF T
<1>13. upto \in [0 .. N -> Values]
  BY <1>11, <1>12
<1>14. N \in 0 .. N
  BY <1>0
<1> QED BY <1>2, <1>11, <1>14 DEF Values

(* Remembering a call keeps the memory one of such entries.                *)
LEMMA RememberKeeps ==
  ASSUME NEW E, NEW known \in Seq(E), NEW entry \in E
  PROVE  Remember(known, entry) \in Seq(E)
<1> DEFINE all == Append(Without(known, entry.call), entry)
<1>1. Without(known, entry.call) \in Seq(E)
  BY WithoutKeeps
<1>2. all \in Seq(E) /\ all # <<>>
  BY <1>1
<1> HIDE DEF all
<1>3. Tail(all) \in Seq(E)
  BY <1>2
<1> QED BY <1>2, <1>3 DEF Remember, all

(* What the bridge remembers after an answer.                              *)
LEMMA RememberedKeeps ==
  ASSUME protocol = "responses", NEW E, memory \in Seq(E), NEW f, Len(InOrder(f)) \in Nat,
         \A n \in 1 .. Len(InOrder(f)) : Finishes(InOrder(f)[n]) => Entry(InOrder(f)[n]) \in E
  PROVE  Remembered(f) \in Seq(E)
<1> DEFINE order == InOrder(f)
           N == Len(order)
           Values == Seq(E)
           F == [x \in Values \X (1 .. N) |-> IF \A m \in 1 .. x[2] : Finishes(order[m])
                THEN Remember(x[1], Entry(order[x[2]])) ELSE x[1]]
           Steps(h) == [n \in 0 .. N |-> IF n = 0 THEN memory
                       ELSE IF \A m \in 1 .. n : Finishes(order[m])
                       THEN Remember(h[n - 1], Entry(order[n])) ELSE h[n - 1]]
           upto == CHOOSE h : h = Steps(h)
<1>0. N \in Nat /\ memory \in Values /\ \A n \in 1 .. N : Finishes(order[n])
      => Entry(order[n]) \in E
  OBVIOUS
<1>1. F \in [Values \X (1 .. N) -> Values]
  <2> HIDE DEF N
  <2>1. ASSUME NEW v \in Values, NEW n \in 1 .. N
        PROVE (IF \A m \in 1 .. n : Finishes(order[m]) THEN Remember(v, Entry(order[n]))
        ELSE v) \in Values
    <3>1. n \in 1 .. n
      BY <1>0
    <3>2. Finishes(order[n]) => Entry(order[n]) \in E
      BY <1>0
    <3>3. \A e \in E : Remember(v, e) \in Values
      <4>1. ASSUME NEW e \in E PROVE Remember(v, e) \in Seq(E)
        BY RememberKeeps
      <4> QED BY <4>1
    <3> QED BY <3>1, <3>2, <3>3, Zenon
  <2> HIDE DEF Values
  <2>2. \A x \in Values \X (1 .. N) : x[1] \in Values /\ x[2] \in 1 .. N
    OBVIOUS
  <2>3. \A x \in Values \X (1 .. N) : (IF \A m \in 1 .. x[2] : Finishes(order[m])
        THEN Remember(x[1], Entry(order[x[2]])) ELSE x[1]) \in Values
    BY <2>1, <2>2
  <2> QED BY <2>3
<1>2. Remembered(f) = upto[N]
  BY DEF Remembered
<1>3. \A a \in Values, n \in 1 .. N : F[<<a, n>>] = IF \A m \in 1 .. n : Finishes(order[m])
      THEN Remember(a, Entry(order[n])) ELSE a
  OBVIOUS
<1> HIDE DEF F, N, upto, Values, order
<1>g. \E g : MadeInSteps(g, Values, memory, N, F)
  BY <1>0, <1>1, StepByStep
<1>4. PICK g \in [0 .. N -> Values] :
        g[0] = memory /\ \A n \in 1 .. N : g[n] = F[<<g[n - 1], n>>]
  BY <1>g DEF MadeInSteps
<1>5. \A n \in 1 .. N : n # 0 /\ n \in 0 .. N /\ n - 1 \in 0 .. N /\ g[n - 1] \in Values
  BY <1>0, <1>4
<1>6. \A n \in 0 .. N : g[n] = IF n = 0 THEN memory ELSE IF \A m \in 1 .. n : Finishes(order[m])
      THEN Remember(g[n - 1], Entry(order[n])) ELSE g[n - 1]
  <2>1. \A n \in 0 .. N : n = 0 \/ n \in 1 .. N
    BY <1>0
  <2>2. ASSUME NEW n \in 1 .. N
        PROVE g[n] = IF \A m \in 1 .. n : Finishes(order[m])
        THEN Remember(g[n - 1], Entry(order[n])) ELSE g[n - 1]
    BY <1>3, <1>4, <1>5, Zenon
  <2> QED BY <1>4, <1>5, <2>1, <2>2, Zenon
<1>7. g = [n \in 0 .. N |-> g[n]]
  BY <1>4
<1>8. g = Steps(g)
  BY <1>6, <1>7, Zenon
<1>9. upto = Steps(upto)
  BY <1>8, Zenon DEF upto
<1>10. upto[0] = memory /\ \A n \in 1 .. N : upto[n] = IF \A m \in 1 .. n : Finishes(order[m])
       THEN Remember(upto[n - 1], Entry(order[n])) ELSE upto[n - 1]
  <2>1. \A n \in 0 .. N : upto[n] = IF n = 0 THEN memory
        ELSE IF \A m \in 1 .. n : Finishes(order[m]) THEN Remember(upto[n - 1], Entry(order[n]))
        ELSE upto[n - 1]
    BY <1>9, Zenon
  <2>2. 0 \in 0 .. N
    BY <1>0
  <2> QED BY <1>5, <2>1, <2>2, Zenon
<1>12. upto = [n \in 0 .. N |-> upto[n]]
  <2>1. \A h : Steps(h) = [n \in 0 .. N |-> Steps(h)[n]]
    OBVIOUS
  <2> QED BY <1>9, <2>1, Zenon
<1> HIDE DEF Steps
<1>11. \A n \in 0 .. N : upto[n] \in Values
  <2> DEFINE T == {n \in 0 .. N : upto[n] \in Values}
  <2>1. 0 \in T
    BY <1>0, <1>10
  <2>2. ASSUME NEW n \in 1 .. N, n - 1 \in T PROVE n \in T
    <3>1. upto[n - 1] \in Values
      BY <2>2
    <3>2. F[<<upto[n - 1], n>>] \in Values
      BY <1>1, <3>1
    <3>3. upto[n] = F[<<upto[n - 1], n>>]
      BY <1>3, <1>10, <3>1, Zenon
    <3> QED BY <1>5, <3>2, <3>3
  <2> HIDE DEF T
  <2>3. \A n \in 0 .. N : n \in T
    BY <1>0, <2>1, <2>2, EachStep
  <2> QED BY <2>3 DEF T
<1>13. upto \in [0 .. N -> Values]
  BY <1>11, <1>12
<1>14. N \in 0 .. N
  BY <1>0
<1> QED BY <1>2, <1>11, <1>14 DEF Values

(* The calls finish() goes through are the slots.                          *)
LEMMA CallsInOrder ==
  ASSUME NEW f, f.slots \in SlotMap, \A i, j \in DOMAIN f.slots : i < j
    => f.slots[i].out < f.slots[j].out
  PROVE  /\ Len(InOrder(f)) \in Nat
         /\ \A n \in 1 .. Len(InOrder(f)) : \E i \in DOMAIN f.slots : InOrder(f)[n] = f.slots[i]
<1>1. PICK L \in Nat : f.slots \in [0 .. (L - 1) -> ToolSlot]
  BY DEF SlotMap
<1> DEFINE I == 0 .. (L - 1)
           S == {f.slots[i] : i \in I}
<1>2. DOMAIN f.slots = I /\ \A i \in I : f.slots[i] \in ToolSlot
  BY <1>1
<1>3. \A i \in I : f.slots[i].out \in Nat /\ i \in Int
  <2>1. \A slot \in ToolSlot : slot.out \in Nat
    <3> DEFINE Args == Arguments
    <3>1. ToolSlot = [call : ToolCalls \cup {NoCall}, name : ToolCalls \cup {NoCall}, args : Args,
                      out : Nat, told : Nat, added : BOOLEAN]
      BY DEF ToolSlot
    <3> HIDE DEF Args
    <3> QED BY <3>1
  <2> QED BY <1>2, <2>1
<1>4. IsFiniteSet(S)
  <2>1. IsFiniteSet(I)
    <3>1. 0 \in Int /\ L - 1 \in Int
      OBVIOUS
    <3> QED BY <3>1, FS_Interval
  <2> DEFINE h == [i \in I |-> f.slots[i]]
  <2>2. h \in [I -> S] /\ \A y \in S : \E i \in I : h[i] = y
    OBVIOUS
  <2> HIDE DEF h, S, I
  <2> QED BY <2>1, <2>2, FiniteImage
<1> HIDE DEF I
<1>5. Distinct(S)
  <2>1. ASSUME NEW i \in I, NEW j \in I, f.slots[i].out = f.slots[j].out PROVE i = j
    <3>1. ~(i < j) /\ ~(j < i)
      BY <1>2, <1>3, <2>1
    <3> QED BY <1>3, <3>1
  <2> QED BY <1>3, <2>1 DEF Distinct
<1> HIDE DEF S
<1>6. /\ Len(ByOut(S)) \in Nat
      /\ \A n \in 1 .. Len(ByOut(S)) : ByOut(S)[n] \in S
  <2>1. S \in SUBSET S
    OBVIOUS
  <2> QED BY <1>4, <1>5, <2>1, ByOutIsOrdered
<1>7. InOrder(f) = ByOut(S)
  BY <1>2 DEF InOrder, S
<1>8. \A n \in 1 .. Len(ByOut(S)) : \E i \in I : ByOut(S)[n] = f.slots[i]
  BY <1>6 DEF S
<1> QED BY <1>2, <1>6, <1>7, <1>8

Signature == [call : ToolCalls, args : Arguments, signature : Nat \X ToolCalls]

(* What the bridge may remember of the calls the provider made.            *)
Known(calls) ==
  {e \in Signature : \E c \in calls : /\ c.signature = e.signature /\ c.call = e.call
                                      /\ c.heard => c.args = e.args}

(* What may be remembered may be remembered when more calls are made.      *)
LEMMA KnownGrows ==
  ASSUME NEW calls, NEW more, NEW known \in Seq(Known(calls))
  PROVE  known \in Seq(Known(calls \cup more))
<1>1. Known(calls) \subseteq Known(calls \cup more)
  BY DEF Known
<1>2. \A A, B, s : A \subseteq B /\ s \in Seq(A) => s \in Seq(B)
  OBVIOUS
<1> QED BY <1>1, <1>2, Zenon

(* Whatever its end, an answer leaves in the memory only calls the         *)
(* provider made, with their arguments if the client has heard the answer. *)
LEMMA MemoryKept ==
  ASSUME protocol \in {"responses", "messages"}, turns \in Nat, NEW s \in Source,
    NEW f, f.slots \in SlotMap,
         SlotsInv(f, s) \/ Loose(f, s), NEW heard \in BOOLEAN, heard => SlotsInv(f, s),
         memory \in Seq(Known(issued))
  PROVE  Remembered(f) \in Seq(Known(issued \cup Signed(s, heard)))
<1> DEFINE all == issued \cup Signed(s, heard)
           E == Known(all)
<1>0. s \in Source
  OBVIOUS
<1>1. memory \in Seq(E)
  BY KnownGrows
<1>2. Loose(f, s)
  BY <1>0, SoundIsLoose
<1>3. \A i, j \in DOMAIN f.slots : i < j => f.slots[i].out < f.slots[j].out
  BY <1>2 DEF Loose
<1>t. \A i \in DOMAIN f.slots : f.slots[i].args \in Arguments /\ f.slots[i].added \in BOOLEAN
  <2>1. \A slot \in ToolSlot : slot.args \in Arguments /\ slot.added \in BOOLEAN
    <3> DEFINE Args == Arguments
    <3>1. ToolSlot = [call : ToolCalls \cup {NoCall}, name : ToolCalls \cup {NoCall}, args : Args,
                      out : Nat, told : Nat, added : BOOLEAN]
      BY DEF ToolSlot
    <3> HIDE DEF Args
    <3>2. \A slot \in ToolSlot : slot.args \in Args /\ slot.added \in BOOLEAN
      BY <3>1
    <3> QED BY <3>2 DEF Args
  <2>2. \A i \in DOMAIN f.slots : f.slots[i] \in ToolSlot
    BY DEF SlotMap
  <2> QED BY <2>1, <2>2
<1>4. ASSUME NEW i \in DOMAIN f.slots, Finishes(f.slots[i]) PROVE Entry(f.slots[i]) \in E
  <2> DEFINE slot == f.slots[i]
             k == slot.call
             c == [call |-> k, args |-> Given(s, k), signature |-> <<turns, k>>, heard |-> heard]
  <2>1. k \in ToSet(s.opened)
    <3>1. slot.added
      BY <1>4 DEF Finishes
    <3>2. k \in ToSet(s.opened) \cup {NoCall} /\ (slot.added => k # NoCall)
      BY <1>2 DEF Loose
    <3> QED BY <3>1, <3>2
  <2>2. k \in ToolCalls
    BY <1>0, <2>1, OpenedCalls
  <2>3. heard => Given(s, k) = slot.args
    BY DEF SlotsInv
  <2>4. c \in Signed(s, heard)
    BY <2>1 DEF Signed
  <2>5. slot.args \in Arguments
    BY <1>t
  <2> DEFINE e == Entry(slot)
  <2>6. e.call = k /\ e.args = slot.args /\ e.signature = <<turns, k>>
    BY DEF Entry
  <2>7. e \in Signature
    <3> DEFINE Args == Arguments
    <3>1. Signature = [call : ToolCalls, args : Args, signature : Nat \X ToolCalls]
      BY DEF Signature
    <3>2. slot.args \in Args
      BY <2>5
    <3> HIDE DEF Args, slot
    <3>3. e = [call |-> slot.call, args |-> slot.args, signature |-> <<turns, slot.call>>]
      BY DEF Entry
    <3> HIDE DEF e
    <3> QED BY <2>2, <3>1, <3>2, <3>3
  <2>8. c.signature = e.signature /\ c.call = e.call /\ (c.heard => c.args = e.args)
    <3>1. c.signature = <<turns, k>> /\ c.call = k /\ c.heard = heard /\ c.args = Given(s, k)
      OBVIOUS
    <3> HIDE DEF c, e, k, slot
    <3> QED BY <2>3, <2>6, <3>1, Zenon
  <2> HIDE DEF c, e
  <2>9. e \in E
    BY <2>4, <2>7, <2>8, Zenon DEF Known
  <2> QED BY <2>9 DEF e
<1>5. /\ Len(InOrder(f)) \in Nat
      /\ \A n \in 1 .. Len(InOrder(f)) : \E i \in DOMAIN f.slots : InOrder(f)[n] = f.slots[i]
  BY <1>3, CallsInOrder
<1> HIDE DEF E
<1>6. \A n \in 1 .. Len(InOrder(f)) : Finishes(InOrder(f)[n]) => Entry(InOrder(f)[n]) \in E
  BY <1>4, <1>5, Zenon
<1>7. CASE protocol = "responses"
  <2>1. Remembered(f) \in Seq(E)
    BY <1>1, <1>5, <1>6, <1>7, RememberedKeeps
  <2> QED BY <2>1 DEF E
<1>8. CASE protocol = "messages"
  <2>1. Remembered(f) = memory
    BY <1>8 DEF Remembered
  <2> QED BY <1>1, <2>1 DEF E
<1> QED BY <1>7, <1>8

(* A call gets back no signature, or one it may have.                      *)
LEMMA SignatureFits ==
  ASSUME memory \in Seq(Known(issued)), NEW call, NEW args, ThoughtSignature(call, args) # <<>>
  PROVE  \E c \in issued : /\ c.signature = ThoughtSignature(call, args) /\ c.call = call
                           /\ c.heard => c.args = args
<1> DEFINE stored == {n \in 1 .. Len(memory) : memory[n].call = call /\ memory[n].args = args}
           n == CHOOSE n \in stored : TRUE
<1>1. ThoughtSignature(call, args) = IF stored = {} THEN <<>> ELSE memory[n].signature
  BY DEF ThoughtSignature
<1>2. stored # {} /\ ThoughtSignature(call, args) = memory[n].signature
  BY <1>1
<1>3. n \in stored
  BY <1>2
<1> HIDE DEF n
<1>4. memory[n] \in Known(issued) /\ memory[n].call = call /\ memory[n].args = args
  BY <1>3
<1> QED BY <1>2, <1>4 DEF Known

(* Counting the parts of a stream afresh changes nothing else of it.       *)
LEMMA Recount ==
  ASSUME NEW a, NEW b, NEW c, NEW d, NEW p, NEW e, NEW n, NEW r,
         r = [opened |-> a, named |-> b, given |-> c, texts |-> d, pieces |-> p, ended |-> e]
  PROVE  [r EXCEPT !.pieces = n]
           = [opened |-> a, named |-> b, given |-> c, texts |-> d, pieces |-> n, ended |-> e]
  OBVIOUS

(* Nothing streamed yet.                                                   *)
LEMMA StartIsReady ==
  ASSUME NEW n \in Nat
  PROVE  /\ Ready(NoFlow, [NoSource EXCEPT !.pieces = n])
         /\ Providing([NoSource EXCEPT !.pieces = n]) /\ [NoSource EXCEPT !.pieces = n].pieces = n
<1> DEFINE s == [NoSource EXCEPT !.pieces = n]
           f == NoFlow
           Calls == Seq(ToolCalls)
           none == [k \in ToolCalls |-> 0]
<1>1. s = [opened |-> <<>>, named |-> {}, given |-> none, texts |-> 0, pieces |-> n,
      ended |-> FALSE]
  <2> DEFINE nothing == {}
             empty == <<>>
             no == FALSE
  <2>1. NoSource = [opened |-> empty, named |-> nothing, given |-> none, texts |-> 0, pieces |-> 0,
        ended |-> no]
    BY DEF NoSource
  <2> HIDE DEF none, nothing, empty, no
  <2>2. s = [opened |-> empty, named |-> nothing, given |-> none, texts |-> 0, pieces |-> n,
        ended |-> no]
    BY <2>1, Recount
  <2> QED BY <2>2 DEF nothing, empty, no
<1>2. <<>> \in Calls /\ none \in [ToolCalls -> Nat]
  OBVIOUS
<1>3. Source = [opened : Calls, named : SUBSET ToolCalls, given : [ToolCalls -> Nat], texts : Nat,
      pieces : Nat, ended : BOOLEAN]
  BY DEF Source
<1>n. \A k \in ToolCalls : none[k] = 0
  OBVIOUS
<1>l. Len(<<>>) = 0
  OBVIOUS
<1> HIDE DEF s, Calls, none
<1>4. s.opened = <<>> /\ s.given = none /\ s.texts = 0 /\ s.pieces = n
  BY <1>1
<1>5. s \in Source
  BY <1>1, <1>2, <1>3
<1>6. Providing(s)
  <2>1. \A k \in ToolCalls : ~(s.given[k] > 0)
    BY <1>4, <1>n
  <2>2. \A i, j \in 1 .. Len(s.opened) : s.opened[i] = s.opened[j] => i = j
    BY <1>4
  <2>3. Len(s.opened) <= 1
    BY <1>4
  <2> QED BY <1>5, <2>1, <2>2, <2>3 DEF Providing
<1>7. f = [slots |-> <<>>, next |-> 0, prose |-> -1, texts |-> 0, events |-> <<>>,
      stopped |-> FALSE, ok |-> TRUE]
  BY DEF NoFlow
<1>8. <<>> \in SlotMap
  <2>1. <<>> \in [0 .. (0 - 1) -> ToolSlot]
    <3>1. 0 .. (0 - 1) = {} /\ DOMAIN <<>> = {}
      OBVIOUS
    <3>2. <<>> = [i \in {} |-> 0]
      OBVIOUS
    <3> QED BY <3>1, <3>2
  <2> QED BY <2>1 DEF SlotMap
<1>9. f \in Flow
  <2>1. <<>> \in History
    BY DEF History
  <2>2. Flow = [slots : SlotMap, next : Nat, prose : Int, texts : Nat, events : History,
        stopped : BOOLEAN, ok : BOOLEAN]
    BY DEF Flow
  <2>3. -1 \in Int
    OBVIOUS
  <2> HIDE DEF f
  <2> QED BY <1>7, <1>8, <2>1, <2>2, <2>3
<1>10. f.slots = <<>> /\ f.next = 0 /\ f.prose = -1 /\ f.texts = 0 /\ f.events = <<>> /\ ~f.stopped
       /\ f.ok
  BY <1>7
<1> HIDE DEF f
<1>11. SlotsInv(f, s)
  <2>1. DOMAIN f.slots = {} /\ 0 .. (Len(s.opened) - 1) = {}
    BY <1>4, <1>10
  <2>2. f.prose >= -1 /\ f.prose < f.next
    BY <1>10
  <2> QED BY <1>4, <1>10, <2>1, <2>2 DEF SlotsInv
<1>12. EventsInv(f)
  <2>1. DOMAIN f.slots = {} /\ 1 .. Len(f.events) = {}
    BY <1>10
  <2> QED BY <1>10, <2>1 DEF EventsInv
<1>13. Ready(f, s)
  BY <1>6, <1>9, <1>10, <1>11, <1>12 DEF Ready, Sound
<1> QED BY <1>4, <1>6, <1>13 DEF f, s

Finished(f, s) == protocol = "messages" /\ s.ended /\ f.ok /\ Done(f, s)

FlowInv ==
  streaming =>
    /\ reply = "none" /\ (supervised => seen = <<>>)
    /\ Providing(source)
    /\ Ready(flow, source) \/ Finished(flow, source)

TypesInv ==
  /\ Dialects /\ supervised \in BOOLEAN /\ turns \in Nat /\ source.pieces \in Nat

MemoryInv == memory \in Seq(Known(issued))

(* The inductive invariant of the bridge.                                  *)
BridgeInv ==
  TypesInv /\ FlowInv /\ MemoryInv /\ StreamIsFaithful /\ SignatureIsTheCalls /\ NothingUnapproved

(* The bridge starts with the invariant.                                   *)
LEMMA BridgeStarts == StreamInit => BridgeInv
<1> SUFFICES ASSUME StreamInit PROVE BridgeInv
  OBVIOUS
<1>1. TypesInv
  <2>1. source.pieces = 0
    BY DEF StreamInit, NoSource
  <2> QED BY <2>1 DEF StreamInit, TypesInv, Dialects
<1>2. FlowInv
  BY DEF StreamInit, FlowInv
<1>3. MemoryInv
  <2>1. memory = <<>>
    BY DEF StreamInit
  <2> QED BY <2>1 DEF MemoryInv
<1>4. StreamIsFaithful
  BY DEF StreamInit, StreamIsFaithful
<1>5. SignatureIsTheCalls
  BY DEF StreamInit, SignatureIsTheCalls
<1>6. NothingUnapproved
  <2>1. seen = <<>>
    BY DEF StreamInit
  <2>2. 1 .. Len(seen) = {}
    BY <2>1
  <2> QED BY <2>2 DEF NothingUnapproved
<1> QED BY <1>1, <1>2, <1>3, <1>4, <1>5, <1>6 DEF BridgeInv

(* An answer not yet begun keeps the invariant, if the signatures sent     *)
(* with the request do.                                                    *)
LEMMA FreshKeeps ==
  ASSUME BridgeInv, Fresh, protocol' = protocol, style' = style, supervised' = supervised, turns' \in Nat,
         memory' = memory, issued' = issued, SignatureIsTheCalls',
         reply' # "answered", streaming' => reply' = "none"
  PROVE  BridgeInv'
<1> DEFINE s == [NoSource EXCEPT !.pieces = source.pieces]
<1>1. source' = s /\ flow' = NoFlow /\ seen' = <<>>
  BY DEF Fresh
<1>2. source.pieces \in Nat
  BY DEF BridgeInv, TypesInv
<1>3. Ready(NoFlow, s) /\ Providing(s) /\ s.pieces = source.pieces
  BY <1>2, StartIsReady
<1> HIDE DEF s
<1>4. TypesInv'
  BY <1>1, <1>2, <1>3 DEF BridgeInv, TypesInv, Dialects
<1>5. Providing(source)'
  BY <1>1, <1>3 DEF Providing
<1>6. Ready(flow, source)'
  BY <1>1, <1>3, <1>5 DEF Ready, Sound, EventsInv, SlotTold, Streams, Doomed
<1>7. FlowInv'
  BY <1>1, <1>5, <1>6 DEF FlowInv
<1>8. MemoryInv'
  BY DEF BridgeInv, MemoryInv
<1>9. StreamIsFaithful'
  BY DEF StreamIsFaithful
<1>10. NothingUnapproved'
  <2>1. 1 .. Len(seen') = {}
    BY <1>1
  <2> QED BY <2>1 DEF NothingUnapproved
<1> QED BY <1>4, <1>7, <1>8, <1>9, <1>10 DEF BridgeInv

(* The provider keeps counting its parts.                                  *)
LEMMA SentCounts ==
  ASSUME NEW s \in Source, NEW p
  PROVE  Sent(s, p).pieces \in Nat
<1> DEFINE Calls == Seq(ToolCalls)
<1>1. Source = [opened : Calls, named : SUBSET ToolCalls, given : [ToolCalls -> Nat], texts : Nat,
                pieces : Nat, ended : BOOLEAN]
  BY DEF Source
<1> HIDE DEF Calls
<1>2. s.pieces \in Nat /\ DOMAIN s = {"opened", "named", "given", "texts", "pieces", "ended"}
  BY <1>1
<1>3. \A opened, named,
      given : [s EXCEPT !.opened = opened, !.named = named, !.given = given, !.pieces = @ + 1].pieces
                                  = s.pieces + 1
  BY <1>2
<1>4. Sent(s, p).pieces = s.pieces + 1
  <2> DEFINE opened == IF Contains(s.opened, p.call) THEN s.opened ELSE Append(s.opened, p.call)
             named == IF p.name THEN s.named \cup {p.call} ELSE s.named
             given == [s.given EXCEPT ![p.call] = IF p.more THEN @ + 1 ELSE @]
  <2>1. Sent(s, p) = [s EXCEPT !.opened = opened, !.named = named, !.given = given, !.pieces = @ + 1]
    BY <1>2, ZenonT(30) DEF Sent
  <2> HIDE DEF opened, named, given
  <2> QED BY <1>3, <2>1
<1> QED BY <1>2, <1>4

(* What a stream is ready for says nothing of the rest of the state.       *)
LEMMA ReadyStays ==
  ASSUME protocol' = protocol, style' = style, Providing(source'),
         Ready(flow', source') \/ Finished(flow', source')
  PROVE  Providing(source)' /\ (Ready(flow, source) \/ Finished(flow, source))'
<1>1. Providing(source)'
  BY DEF Providing
<1>2. CASE Ready(flow', source')
  <2>1. Ready(flow, source)'
    BY <1>1, <1>2 DEF Ready, Sound, EventsInv, SlotTold, Streams, Doomed
  <2> QED BY <1>1, <2>1
<1>3. CASE Finished(flow', source')
  <2>1. Finished(flow, source)'
    BY <1>3 DEF Finished, Done
  <2> QED BY <1>1, <2>1
<1> QED BY <1>2, <1>3

(* A step of the stream keeps the invariant if it leaves the stream ready  *)
(* or finished, or loses it.                                               *)
LEMMA FollowKeeps ==
  ASSUME BridgeInv, streaming, NEW s, NEW f, Follow(s, f), s.pieces \in Nat,
         ~f.ok \/ (Providing(s) /\ (Ready(f, s) \/ Finished(f, s)))
  PROVE  BridgeInv'
<1>1. source' = s /\ flow' = f /\ upstream' = upstream /\ supervised' = supervised
      /\ protocol' = protocol /\ style' = style
      /\ turns' = turns /\ memory' = memory /\ issued \subseteq issued' /\ reply' # "answered"
  BY DEF Follow, Lose, BridgeInv, FlowInv
<1>2. TypesInv'
  BY <1>1 DEF BridgeInv, TypesInv, Dialects
<1>3. supervised => seen' = <<>>
  BY DEF Follow, BridgeInv, FlowInv
<1>4. FlowInv'
  <2>1. CASE f.ok
    <3>1. Providing(source)' /\ (Ready(flow, source) \/ Finished(flow, source))'
      BY <1>1, <2>1, ReadyStays
    <3>2. reply' = "none"
      BY <2>1 DEF Follow, BridgeInv, FlowInv
    <3> QED BY <1>1, <1>3, <3>1, <3>2 DEF FlowInv
  <2>2. CASE ~f.ok
    <3>1. streaming' = FALSE
      BY <2>2 DEF Follow, Lose
    <3> QED BY <3>1 DEF FlowInv
  <2> QED BY <2>1, <2>2
<1>5. MemoryInv'
  <2>1. memory \in Seq(Known(issued))
    BY DEF BridgeInv, MemoryInv
  <2>2. issued' = issued \cup issued'
    BY <1>1
  <2>3. memory \in Seq(Known(issued \cup issued'))
    BY <2>1, KnownGrows
  <2>4. memory' \in Seq(Known(issued'))
    BY <1>1, <2>2, <2>3
  <2> QED BY <2>4 DEF MemoryInv, Known
<1>6. StreamIsFaithful'
  BY <1>1 DEF StreamIsFaithful
<1>7. SignatureIsTheCalls'
  BY <1>1 DEF BridgeInv, SignatureIsTheCalls
<1>8. NothingUnapproved'
  <2>1. ASSUME supervised' PROVE 1 .. Len(seen') = {}
    BY <1>1, <1>3, <2>1
  <2> QED BY <2>1 DEF NothingUnapproved
<1> QED BY <1>2, <1>4, <1>5, <1>6, <1>7, <1>8 DEF BridgeInv

(* Until its end a stream is ready for more.                               *)
LEMMA StillReady ==
  ASSUME BridgeInv, streaming, ~source.ended
  PROVE  Dialects /\ Ready(flow, source) /\ Providing(source) /\ source \in Source /\ ~flow.stopped
  BY DEF BridgeInv, FlowInv, TypesInv, Finished, Ready, Providing

(* A text keeps the invariant.                                             *)
LEMMA TextKeepsBridge ==
  ASSUME BridgeInv, ChunkOfText
  PROVE  BridgeInv'
<1>1. streaming /\ ~source.ended
  BY DEF ChunkOfText
<1>2. Ready(flow, source) /\ ~flow.stopped
  BY <1>1, StillReady
<1>3. Follow(SentText(source), TakeText(flow))
  BY <1>2 DEF ChunkOfText
<1>4. Ready(TakeText(flow), SentText(source))
  BY <1>1, <1>2, TextKept
<1>5. Providing(SentText(source)) /\ SentText(source).pieces \in Nat
  BY <1>4 DEF Ready, Providing, Source
<1> QED BY <1>1, <1>3, <1>4, <1>5, FollowKeeps

(* A chunk of one part keeps it.                                           *)
LEMMA PartKeepsBridge ==
  ASSUME BridgeInv, ChunkOfOne
  PROVE  BridgeInv'
<1>1. PICK p \in Parts(source) :
        Sendable(source, p) /\ Follow(Sent(source, p), TakePart(flow, source, p, 0, 1))
  BY DEF ChunkOfOne
<1>2. streaming /\ ~source.ended
  BY <1>1 DEF ChunkOfOne, Sendable
<1>3. Dialects /\ Ready(flow, source) /\ source \in Source
  BY <1>2, StillReady
<1> DEFINE g == TakePart(flow, source, p, 0, 1)
           t == Sent(source, p)
<1>4. t.pieces \in Nat
  BY <1>3, SentCounts
<1>5. ~g.ok \/ Ready(g, t)
  <2>1. 0 \in {0, 1} /\ 0 # 1 /\ 1 \in Nat
    OBVIOUS
  <2> QED BY <1>1, <1>3, <2>1, PartKept
<1>6. Ready(g, t) => Providing(t)
  BY DEF Ready
<1>7. Follow(t, g)
  BY <1>1
<1> HIDE DEF t, g
<1> QED BY <1>2, <1>4, <1>5, <1>6, <1>7, FollowKeeps

(* A chunk of two parts keeps it: the first one leaves a slot, so the      *)
(* place of the second means something.                                    *)
LEMMA TwoPartsKeepBridge ==
  ASSUME BridgeInv, ChunkOfTwo
  PROVE  BridgeInv'
<1>1. PICK p \in Parts(source) :
        /\ Sendable(source, p)
        /\ LET s == Sent(source, p)
               f == TakePart(flow, source, p, 0, 2)
           IN  \E q \in Parts(s) : Sendable(s, q) /\ Follow(Sent(s, q), TakePart(f, s, q, 1, 2))
  BY DEF ChunkOfTwo
<1> DEFINE s == Sent(source, p)
           f == TakePart(flow, source, p, 0, 2)
<1>2. PICK q \in Parts(s) : Sendable(s, q) /\ Follow(Sent(s, q), TakePart(f, s, q, 1, 2))
  BY <1>1
<1>3. streaming /\ ~source.ended
  BY <1>1 DEF ChunkOfTwo, Sendable
<1>4. Dialects /\ Ready(flow, source) /\ Providing(source) /\ source \in Source
  BY <1>3, StillReady
<1>5. s \in Source
  BY <1>1, <1>4, SentFacts DEF Providing
<1>6. ~f.ok \/ (Ready(f, s) /\ DOMAIN f.slots # {})
  <2>1. 0 \in {0, 1} /\ 0 # 1 /\ 2 \in Nat
    OBVIOUS
  <2> QED BY <1>1, <1>4, <2>1, PartKept
<1> DEFINE g == TakePart(f, s, q, 1, 2)
           t == Sent(s, q)
<1>7. Follow(t, g) /\ Sendable(s, q)
  BY <1>2
<1> HIDE DEF s
<1>8. t.pieces \in Nat
  BY <1>5, SentCounts
<1>9. ~g.ok \/ Ready(g, t)
  <2>1. 1 \in {0, 1} /\ 2 \in Nat
    OBVIOUS
  <2>2. CASE ~f.ok
    BY <2>2 DEF TakePart
  <2>3. CASE Ready(f, s) /\ DOMAIN f.slots # {}
    <3> HIDE DEF f
    <3> QED BY <1>4, <1>7, <2>1, <2>3, PartKept
  <2> QED BY <1>6, <2>2, <2>3
<1>10. Ready(g, t) => Providing(t)
  BY DEF Ready
<1> HIDE DEF t, g
<1> QED BY <1>3, <1>7, <1>8, <1>9, <1>10, FollowKeeps

(* What a stream is ready for is a matter of the calls and of the text.    *)
LEMMA SameAnswer ==
  ASSUME NEW s, NEW t \in Source, t.opened = s.opened, t.given = s.given, t.texts = s.texts,
         NEW f, Ready(f, s)
  PROVE  Providing(t) /\ Ready(f, t) /\ (Sound(f, s) => Sound(f, t))
<1>1. Providing(t)
  BY DEF Providing, Ready
<1>2. \A k : Given(t, k) = Given(s, k)
  BY DEF Given
<1>3. Sound(f, s) => Sound(f, t)
  BY <1>2 DEF Sound, SlotsInv
<1>4. Doomed(f, s) => Doomed(f, t)
  BY DEF Doomed, Loose
<1> QED BY <1>1, <1>3, <1>4 DEF Ready

(* The end of a stream changes nothing of its calls and of its text.       *)
LEMMA EndKeepsAnswer ==
  ASSUME NEW s \in Source, NEW b \in BOOLEAN, NEW t, t = [s EXCEPT !.ended = b]
  PROVE  t \in Source /\ t.opened = s.opened /\ t.given = s.given /\ t.texts = s.texts
    /\ t.pieces \in Nat /\ t.ended = b
<1> DEFINE Calls == Seq(ToolCalls)
<1>1. Source = [opened : Calls, named : SUBSET ToolCalls, given : [ToolCalls -> Nat], texts : Nat,
                pieces : Nat, ended : BOOLEAN]
  BY DEF Source
<1> HIDE DEF Calls
<1> QED BY <1>1

(* finish_reason keeps the invariant: a Messages stream is told in whole   *)
(* from then on.                                                           *)
LEMMA FinishReasonKeepsBridge ==
  ASSUME BridgeInv, FinishReason
  PROVE  BridgeInv'
<1> DEFINE t == [source EXCEPT !.ended = TRUE]
           g == IF protocol = "messages" THEN Finish(flow) ELSE flow
<1>1. streaming /\ ~source.ended /\ Follow(t, g)
  BY DEF FinishReason
<1>2. Dialects /\ Ready(flow, source) /\ source \in Source
  BY <1>1, StillReady
<1>3. t \in Source /\ t.opened = source.opened /\ t.given = source.given /\ t.texts = source.texts
      /\ t.pieces \in Nat
      /\ t.ended = TRUE
  <2>1. TRUE \in BOOLEAN
    OBVIOUS
  <2> QED BY <1>2, <2>1, EndKeepsAnswer
<1> HIDE DEF t
<1>4. Providing(t) /\ Ready(flow, t) /\ (Sound(flow, source) => Sound(flow, t))
  BY <1>2, <1>3, SameAnswer
<1>5. CASE protocol = "messages"
  <2>1. g = Finish(flow)
    BY <1>5
  <2>2. Sound(flow, t)
    BY <1>4, <1>5 DEF Ready, Doomed
  <2>3. Done(Finish(flow), t)
    BY <1>4, <1>5, <2>2, FinishIsDone
  <2>4. flow \in Flow /\ flow.ok
    BY <1>2 DEF Ready
  <2>5. Finish(flow).ok
    BY <2>4, FinishKeeps
  <2>6. Finished(g, t)
    BY <1>3, <1>5, <2>1, <2>3, <2>5 DEF Finished
  <2> HIDE DEF g
  <2> QED BY <1>1, <1>3, <1>4, <2>6, FollowKeeps
<1>6. CASE protocol # "messages"
  <2>1. g = flow
    BY <1>6
  <2> HIDE DEF g
  <2> QED BY <1>1, <1>3, <1>4, <2>1, FollowKeeps
<1> QED BY <1>5, <1>6

(* A stream that breaks keeps it.                                          *)
LEMMA BreakKeepsBridge ==
  ASSUME BridgeInv, StreamBreaks
  PROVE  BridgeInv'
<1>1. source' = source /\ upstream' = upstream /\ supervised' = supervised /\ protocol' = protocol
      /\ style' = style
      /\ turns' = turns /\ memory' = memory /\ issued \subseteq issued' /\ reply' = "failed"
         /\ streaming' = FALSE /\ seen' = seen
      /\ streaming
  BY DEF StreamBreaks, Lose
<1>2. TypesInv'
  BY <1>1 DEF BridgeInv, TypesInv, Dialects
<1>4. FlowInv'
  BY <1>1 DEF FlowInv
<1>5. MemoryInv'
  <2>1. memory \in Seq(Known(issued))
    BY DEF BridgeInv, MemoryInv
  <2>2. issued' = issued \cup issued'
    BY <1>1
  <2>3. memory \in Seq(Known(issued \cup issued'))
    BY <2>1, KnownGrows
  <2>4. memory' \in Seq(Known(issued'))
    BY <1>1, <2>2, <2>3
  <2> QED BY <2>4 DEF MemoryInv, Known
<1>6. StreamIsFaithful'
  BY <1>1 DEF StreamIsFaithful
<1>7. SignatureIsTheCalls'
  BY <1>1 DEF BridgeInv, SignatureIsTheCalls
<1>8. NothingUnapproved'
  <2>1. ASSUME supervised' PROVE 1 .. Len(seen') = {}
    <3>1. seen' = <<>>
      BY <1>1, <2>1 DEF BridgeInv, FlowInv
    <3> QED BY <3>1
  <2> QED BY <2>1 DEF NothingUnapproved
<1> QED BY <1>2, <1>4, <1>5, <1>6, <1>7, <1>8 DEF BridgeInv

(* A step that changes only the rate limit keeps the invariant.            *)
LEMMA SameBridge ==
  ASSUME BridgeInv,
         UNCHANGED <<protocol, style, supervised, turns, streaming, reply, source, flow, seen, shown, memory,
                     repeated, issued, upstream>>
  PROVE  BridgeInv'
<1>0. /\ protocol' = protocol /\ style' = style /\ supervised' = supervised /\ turns' = turns
         /\ streaming' = streaming
      /\ reply' = reply /\ source' = source /\ flow' = flow /\ seen' = seen /\ shown' = shown
         /\ memory' = memory
      /\ issued' = issued /\ upstream' = upstream
  OBVIOUS
<1>2. TypesInv'
  BY <1>0 DEF BridgeInv, TypesInv, Dialects
<1>4. FlowInv'
  <2>1. CASE streaming
    <3>1. Providing(source)' /\ (Ready(flow, source) \/ Finished(flow, source))'
      BY <1>0, <2>1, ReadyStays DEF BridgeInv, FlowInv
    <3> QED BY <1>0, <2>1, <3>1 DEF BridgeInv, FlowInv
  <2>2. CASE ~streaming
    BY <1>0, <2>2 DEF FlowInv
  <2> QED BY <2>1, <2>2
<1>5. MemoryInv'
  BY <1>0 DEF BridgeInv, MemoryInv
<1>6. StreamIsFaithful'
  <2>1. reply = "answered" =>
          /\ Last(seen).type = "completed"
          /\ \A n \in 1 .. (Len(seen) - 1) : seen[n].type # "completed"
          /\ Complete(Last(seen).args, source)
          /\ Len(seen) > 1 => Followed(seen, Last(seen).args)
          /\ supervised => shown = {[call |-> k,
             args |-> Given(source, k)] : k \in ToSet(source.opened)}
    BY DEF BridgeInv, StreamIsFaithful
  <2>2. reply' = "answered" =>
          /\ Last(seen').type = "completed"
          /\ \A n \in 1 .. (Len(seen') - 1) : seen'[n].type # "completed"
          /\ Complete(Last(seen').args, source')
          /\ Len(seen') > 1 => Followed(seen', Last(seen').args)
          /\ supervised' => shown' = {[call |-> k,
             args |-> Given(source', k)] : k \in ToSet(source'.opened)}
    BY <1>0, <2>1
  <2> QED BY <2>2, Zenon DEF StreamIsFaithful
<1>7. SignatureIsTheCalls'
  BY <1>0 DEF BridgeInv, SignatureIsTheCalls
<1>8. NothingUnapproved'
  BY <1>0 DEF BridgeInv, NothingUnapproved
<1> QED BY <1>2, <1>4, <1>5, <1>6, <1>7, <1>8 DEF BridgeInv

(* A request that is refused keeps it.                                     *)
LEMMA RefusalKeepsBridge ==
  ASSUME BridgeInv, RefuseRequest \/ RefuseLimited
  PROVE  BridgeInv'
<1>1. /\ protocol' = protocol /\ style' = style /\ supervised' = supervised /\ turns' = turns
         /\ memory' = memory
      /\ issued' = issued /\ upstream' = upstream /\ Fresh /\ reply' # "answered" /\ ~streaming'
  BY DEF RefuseRequest, RefuseLimited
<1>2. turns' \in Nat
  BY <1>1 DEF BridgeInv, TypesInv
<1>3. SignatureIsTheCalls'
  BY <1>1 DEF BridgeInv, SignatureIsTheCalls
<1> QED BY <1>1, <1>2, <1>3, FreshKeeps

(* A request sent to the provider keeps it: a signature comes from the     *)
(* memory, which knows whose it is.                                        *)
LEMMA RequestKeepsBridge ==
  ASSUME BridgeInv, NEW edited, Stream(edited) \/ ProviderRefuses(edited)
  PROVE  BridgeInv'
<1>1. Forward(edited) /\ reply' # "answered" /\ (streaming' => reply' = "none")
  BY DEF Stream, ProviderRefuses, Forward
<1>2. /\ protocol' = protocol /\ style' = style /\ supervised' = supervised /\ turns' = turns + 1
         /\ memory' = memory
      /\ issued' = issued /\ Fresh
      /\ upstream' = {[call |-> c.call, args |-> c.args,
                       signature |-> ThoughtSignature(c.call, c.args)] : c \in Kept(edited)}
  BY <1>1 DEF Forward
<1>3. turns' \in Nat
  BY <1>2 DEF BridgeInv, TypesInv
<1>4. SignatureIsTheCalls'
  <2>1. memory \in Seq(Known(issued))
    BY DEF BridgeInv, MemoryInv
  <2>2. ASSUME NEW u \in upstream', u.signature # <<>>
        PROVE  \E c \in issued' : c.signature = u.signature /\ c.call = u.call /\ (c.heard
          => c.args = u.args)
    <3>1. PICK k \in Kept(edited) : u = [call |-> k.call, args |-> k.args,
          signature |-> ThoughtSignature(k.call, k.args)]
      BY <1>2, <2>2
    <3>2. u.call = k.call /\ u.args = k.args /\ u.signature = ThoughtSignature(u.call, u.args)
      BY <3>1
    <3>3. \E c \in issued : /\ c.signature = ThoughtSignature(u.call, u.args) /\ c.call = u.call
                            /\ c.heard => c.args = u.args
      BY <2>1, <2>2, <3>2, SignatureFits
    <3> QED BY <1>2, <3>2, <3>3
  <2> QED BY <2>2 DEF SignatureIsTheCalls
<1> QED BY <1>1, <1>2, <1>3, <1>4, FreshKeeps

(* The events of an answer that reached its end.                           *)
Conclusive(events, items, s) ==
  /\ Len(events) > 0 /\ events[Len(events)] = Completed(items)
  /\ \A n \in 1 .. (Len(events) - 1) : events[n].type # "completed"
  /\ Len(events) > 1 => Followed(events, items)
  /\ Complete(items, s)

(* What a projection is asked about are the provider's calls.              *)
LEMMA ProposalsAreTheCalls ==
  ASSUME NEW s \in Source, NEW f, SlotsInv(f, s)
  PROVE  Proposals(f) = {[call |-> k, args |-> Given(s, k)] : k \in ToSet(s.opened)}
<1> DEFINE L == Len(s.opened)
           I == 0 .. (L - 1)
<1>1. /\ L \in Nat /\ DOMAIN f.slots = I
      /\ \A i \in I : f.slots[i].call = s.opened[i + 1]
         /\ f.slots[i].args = Given(s, s.opened[i + 1])
  BY OpenedCalls DEF SlotsInv
<1>2. \A c : c \in ToSet(s.opened) <=> \E j \in 1 .. L : s.opened[j] = c
  BY OpenedCalls
<1>3. (\A i \in I : i + 1 \in 1 .. L) /\ (\A j \in 1 .. L : j - 1 \in I /\ (j - 1) + 1 = j)
  BY <1>1
<1> HIDE DEF I, L
<1>4. ASSUME NEW i \in I
      PROVE  \E k \in ToSet(s.opened) : [call |-> f.slots[i].call,
        args |-> f.slots[i].args] = [call |-> k, args |-> Given(s, k)]
  BY <1>1, <1>2, <1>3, Zenon
<1>5. ASSUME NEW k \in ToSet(s.opened)
      PROVE  \E i \in I : [call |-> f.slots[i].call, args |-> f.slots[i].args] = [call |-> k,
        args |-> Given(s, k)]
  <2>1. PICK j \in 1 .. L : s.opened[j] = k
    BY <1>2
  <2>2. j - 1 \in I /\ s.opened[(j - 1) + 1] = k
    BY <1>3, <2>1
  <2>3. f.slots[j - 1].call = k /\ f.slots[j - 1].args = Given(s, k)
    BY <1>1, <2>2, Zenon
  <2> QED BY <2>2, <2>3, Zenon
<1> DEFINE own(i) == [call |-> f.slots[i].call, args |-> f.slots[i].args]
           given(k) == [call |-> k, args |-> Given(s, k)]
           K == ToSet(s.opened)
<1>6. (\A i \in I : \E k \in K : own(i) = given(k)) /\ (\A k \in K : \E i \in I : own(i) = given(k))
  BY <1>4, <1>5, Zenon
<1>7. Proposals(f) = {own(i) : i \in I}
  BY <1>1 DEF Proposals
<1> HIDE DEF own, given, K
<1>8. {own(i) : i \in I} = {given(k) : k \in K}
  BY <1>6
<1> QED BY <1>7, <1>8 DEF given, K

(* The events of a denial tell of no call.                                 *)
LEMMA DenialTellsNoCall ==
  ASSUME NEW events, events = <<Opened(0, Prose), Grown(0, <<Prose>>), Denial,
    Completed(<<Denial>>)>>
  PROVE  \A n \in 1 .. Len(events) : events[n].call \in {NoCall, Prose}
<1>1. /\ Opened(0, Prose).call = Prose /\ Grown(0, <<Prose>>).call = NoCall
      /\ Denial.call = Prose /\ Completed(<<Denial>>).call = NoCall
  BY DEF Opened, Grown, Denial, Closed, Completed
<1> QED BY <1>1

(* The end of an answer keeps the invariant: if it is given to the client  *)
(* it is the whole answer, and if it cannot be, finish() or the projection *)
(* throws.                                                                 *)
LEMMA ConcludeKeeps ==
  ASSUME BridgeInv, streaming, NEW verdict, NEW s \in Source, NEW f, f.slots \in SlotMap,
    NEW events,
         NEW whole, Conclude(verdict, s, f, events, whole), verdict \in {"answered", "denied", "failed"},
         SlotsInv(f, s) \/ (Loose(f, s) /\ Unfit(f, whole) # {}),
         Unfit(f, whole) = {} => Conclusive(events, Items(f), s)
  PROVE  BridgeInv'
<1> DEFINE how == IF Unfit(f, whole) # {} THEN "failed" ELSE IF supervised THEN verdict
                  ELSE "answered"
           items == Items(f)
<1>1. /\ source' = s /\ upstream' = upstream /\ supervised' = supervised /\ protocol' = protocol
         /\ style' = style
      /\ turns' = turns /\ streaming' = FALSE /\ reply' = how
      /\ memory' = Remembered(f) /\ issued' = issued \cup Signed(s, how = "answered")
  BY DEF Conclude
<1>2. seen' = CASE how = "answered" -> events
                [] how = "denied"   -> <<Opened(0, Prose), Grown(0, <<Prose>>), Denial,
                  Completed(<<Denial>>)>>
                [] how = "failed"   -> seen
  BY DEF Conclude
<1>3. shown' = IF supervised /\ Unfit(f, whole) = {} THEN Proposals(f) ELSE shown
  BY DEF Conclude
<1>h. how \in {"answered", "denied", "failed"} /\ (how = "answered" => Unfit(f, whole) = {})
  OBVIOUS
<1> HIDE DEF how, items
<1>4. TypesInv'
  <2>1. s.pieces \in Nat
    BY DEF Source
  <2> QED BY <1>1, <2>1 DEF BridgeInv, TypesInv, Dialects
<1>5. FlowInv'
  BY <1>1 DEF FlowInv
<1>6. how = "answered" => SlotsInv(f, s) /\ Conclusive(events, items, s)
  BY <1>h DEF items
<1>7. MemoryInv'
  <2> DEFINE heard == how = "answered"
  <2>1. heard \in BOOLEAN /\ (heard => SlotsInv(f, s))
    BY <1>6
  <2>2. SlotsInv(f, s) \/ Loose(f, s)
    OBVIOUS
  <2>3. protocol \in {"responses", "messages"} /\ turns \in Nat /\ memory \in Seq(Known(issued))
    BY DEF BridgeInv, TypesInv, Dialects, MemoryInv
  <2> HIDE DEF heard
  <2>4. Remembered(f) \in Seq(Known(issued \cup Signed(s, heard)))
    BY <2>1, <2>2, <2>3, MemoryKept
  <2>5. memory' \in Seq(Known(issued'))
    BY <1>1, <2>4 DEF heard
  <2> QED BY <2>5 DEF MemoryInv, Known
<1>8. StreamIsFaithful'
  <2> SUFFICES ASSUME reply' = "answered"
               PROVE  /\ Last(seen').type = "completed"
                      /\ \A n \in 1 .. (Len(seen') - 1) : seen'[n].type # "completed"
                      /\ Complete(Last(seen').args, source')
                      /\ Len(seen') > 1 => Followed(seen', Last(seen').args)
                      /\ supervised' => shown' = {[call |-> k,
                         args |-> Given(source', k)] : k \in ToSet(source'.opened)}
    BY Zenon DEF StreamIsFaithful
  <2>1. how = "answered" /\ seen' = events
    BY <1>1, <1>2
  <2>2. SlotsInv(f, s) /\ Conclusive(events, items, s) /\ Unfit(f, whole) = {}
    BY <1>6, <1>h, <2>1
  <2>3. Last(events) = Completed(items)
    BY <2>2 DEF Last, Conclusive
  <2>4. Last(events).type = "completed" /\ Last(events).args = items
    BY <2>3 DEF Completed
  <2>5. supervised => shown' = {[call |-> k, args |-> Given(s, k)] : k \in ToSet(s.opened)}
    BY <1>3, <2>2, ProposalsAreTheCalls
  <2>6. /\ \A n \in 1 .. (Len(events) - 1) : events[n].type # "completed"
        /\ Complete(items, s) /\ (Len(events) > 1 => Followed(events, items))
    BY <2>2 DEF Conclusive
  <2> QED BY <1>1, <2>1, <2>4, <2>5, <2>6
<1>9. SignatureIsTheCalls'
  BY <1>1 DEF BridgeInv, SignatureIsTheCalls
<1>10. NothingUnapproved'
  <2> SUFFICES ASSUME supervised', reply' # "answered"
               PROVE  \A n \in 1 .. Len(seen') : seen'[n].call \in {NoCall, Prose}
    BY DEF NothingUnapproved
  <2>1. CASE how = "denied"
    <3>1. seen' = <<Opened(0, Prose), Grown(0, <<Prose>>), Denial, Completed(<<Denial>>)>>
      BY <1>2, <2>1
    <3> QED BY <3>1, DenialTellsNoCall
  <2>2. CASE how = "failed"
    <3>1. seen' = seen
      BY <1>2, <2>2
    <3>2. seen = <<>>
      BY <1>1 DEF BridgeInv, FlowInv
    <3>3. 1 .. Len(seen') = {}
      BY <3>1, <3>2
    <3> QED BY <3>3
  <2> QED BY <1>1, <1>h, <2>1, <2>2
<1> QED BY <1>4, <1>5, <1>7, <1>8, <1>9, <1>10 DEF BridgeInv

(* [DONE] keeps the invariant: a sound stream is told in whole, a doomed   *)
(* one fails.                                                              *)
LEMMA EndKeepsBridge ==
  ASSUME BridgeInv, NEW verdict \in {"answered", "denied", "failed"}, EndOfStream(verdict)
  PROVE  BridgeInv'
<1> DEFINE g == Finish(flow)
           s == source
<1>1. streaming /\ Conclude(verdict, s, g, g.events, FALSE)
  BY DEF EndOfStream
<1>2. Providing(s) /\ s \in Source /\ protocol \in {"responses", "messages"} /\ (Ready(flow, s)
      \/ Finished(flow, s))
  BY <1>1 DEF BridgeInv, FlowInv, TypesInv, Dialects, Providing
<1>3. flow \in Flow
  BY <1>2 DEF Ready, Finished, Done
<1>4. g.slots = flow.slots /\ (flow.stopped => g = flow)
  BY <1>3, FinishKeeps
<1>5. g.slots \in SlotMap
  BY <1>3, <1>4, SlotTypes
<1>6. Unfit(g, FALSE) = Unfit(flow, FALSE)
  BY <1>4 DEF Unfit
<1>7. ASSUME Done(g, s) PROVE Conclusive(g.events, Items(g), s) /\ SlotsInv(g, s)
  <2> HIDE DEF g
  <2>1. g \in Flow /\ SlotsInv(g, s)
    BY <1>7 DEF Done
  <2>2. ListsItems(Items(g), g, Len(s.opened))
    BY <1>2, <2>1, ItemsListed
  <2>3. OpensOnce(s)
    BY <1>2 DEF Providing, OpensOnce
  <2> DEFINE items == Items(g)
  <2>4. Complete(items, s)
    <3> HIDE DEF items
    <3>1. ListsItems(items, g, Len(s.opened))
      BY <2>2 DEF items
    <3> QED BY <1>2, <2>1, <2>3, <3>1, ItemsAreTheCalls
  <2> QED BY <1>7, <2>1, <2>4 DEF Done, Conclusive
<1> HIDE DEF g
<1>8. CASE Finished(flow, s)
  <2>1. Done(g, s)
    BY <1>4, <1>8 DEF Finished, Done
  <2> QED BY <1>1, <1>2, <1>5, <1>7, <2>1, ConcludeKeeps
<1>9. CASE Ready(flow, s)
  <2>1. CASE Sound(flow, s)
    <3>1. protocol = "messages" \/ Unfit(flow, FALSE) = {} => Done(g, s)
      BY <1>2, <1>9, <2>1, FinishIsDone DEF g
    <3>2. SlotsInv(g, s)
      <4>1. /\ g.slots = flow.slots /\ g.prose = flow.prose /\ g.texts = flow.texts
               /\ g.next = flow.next
        BY <1>3, FinishKeeps DEF g
      <4>2. SlotsInv(flow, s)
        BY <2>1 DEF Sound
      <4> QED BY <4>1, <4>2 DEF SlotsInv
    <3>3. Unfit(g, FALSE) = {} => Conclusive(g.events, Items(g), s)
      BY <1>6, <1>7, <3>1
    <3> QED BY <1>1, <1>2, <1>5, <3>2, <3>3, ConcludeKeeps
  <2>2. CASE Doomed(flow, s)
    <3>1. Unfit(g, FALSE) # {}
      BY <1>3, <1>6, <2>2, DoomedIsUnfit
    <3>2. Loose(g, s)
      <4>1. g.slots = flow.slots /\ g.next = flow.next
        BY <1>3, FinishKeeps DEF g
      <4> QED BY <2>2, <4>1 DEF Doomed, Loose
    <3> QED BY <1>1, <1>2, <1>5, <3>1, <3>2, ConcludeKeeps
  <2> QED BY <1>9, <2>1, <2>2 DEF Ready
<1> QED BY <1>2, <1>8, <1>9

(* An answer in one piece is the provider's, all at once.                  *)
LEMMA WholeAnswerIsOne ==
  ASSUME source \in Source, NEW order \in Seq(ToolCalls), ToSet(order) \in SUBSET ToolCalls,
    NEW texts \in Nat,
         NEW cut
  PROVE  /\ WholeAnswer(order, texts, cut) \in Source /\ WholeAnswer(order, texts, cut).opened = order
         /\ WholeAnswer(order, texts, cut).texts = texts
<1> DEFINE a == source
           s == WholeAnswer(order, texts, cut)
           given == [k \in ToolCalls |-> IF k \notin ToSet(order) THEN 0
                                         ELSE IF k \in cut THEN Fragments - 1 ELSE Fragments]
           b == TRUE
           named == ToSet(order)
<1>7. given \in [ToolCalls -> Nat] /\ b \in BOOLEAN /\ named \in SUBSET ToolCalls
  BY StreamAssumption
<1> DEFINE Calls == Seq(ToolCalls)
           L == Len(order)
<1>1. Source = [opened : Calls, named : SUBSET ToolCalls, given : [ToolCalls -> Nat], texts : Nat,
                pieces : Nat, ended : BOOLEAN]
  BY DEF Source
<1>2. L \in Nat /\ order \in Calls
  OBVIOUS
<1>3. s = [a EXCEPT !.opened = order, !.named = named, !.texts = texts, !.pieces = @ + L + texts,
                    !.ended = b, !.given = given]
  BY DEF WholeAnswer
<1> HIDE DEF Calls, L, given, b, named, s, a
<1>8. a \in Source
  BY DEF a
<1>4. /\ a.pieces \in Nat /\ DOMAIN a = {"opened", "named", "given", "texts", "pieces", "ended"}
      /\ a = [opened |-> a.opened, named |-> a.named, given |-> a.given, texts |-> a.texts,
              pieces |-> a.pieces, ended |-> a.ended]
  BY <1>1, <1>8
<1>5. s = [opened |-> order, named |-> named, given |-> given, texts |-> texts,
      pieces |-> a.pieces + L + texts, ended |-> b]
  BY <1>3, <1>4
<1>6. a.pieces + L + texts \in Nat
  BY <1>2, <1>4
<1>9. s \in Source /\ s.opened = order /\ s.texts = texts
  BY <1>1, <1>2, <1>5, <1>6, <1>7
<1> QED BY <1>9 DEF s

(* Of an answer in one piece each call has its slot.                       *)
LEMMA WholeFlowIsTheCalls ==
  ASSUME NEW s \in Source, s.texts \in {0, 1}
  PROVE  WholeFlow(s) \in Flow /\ SlotsInv(WholeFlow(s), s)
<1> DEFINE order == s.opened
           texts == s.texts
           f == WholeFlow(s)
           b == TRUE
           L == Len(order)
           I == 0 .. (L - 1)
           slot(i) == [call |-> order[i + 1], name |-> order[i + 1],
                      args |-> Given(s, order[i + 1]),
                       out |-> texts + i, told |-> 0, added |-> b]
           slots == [i \in I |-> slot(i)]
           Args == Arguments
           Events == History
<1>1. L \in Nat /\ texts \in Nat /\ texts \in {0, 1} /\ \A i \in I : i + 1 \in 1 .. L /\ i \in Nat
  BY OpenedCalls
<1>2. \A i \in I : order[i + 1] \in ToolCalls
  <2>1. order \in Seq(ToolCalls)
    BY DEF Source
  <2> QED BY <1>1, <2>1
<1>3. \A k \in ToolCalls : Given(s, k) \in Args
  <2>1. \A k \in ToolCalls : s.given[k] \in Nat
    BY DEF Source
  <2> QED BY <2>1, GivenFacts
<1>4. ToolSlot = [call : ToolCalls \cup {NoCall}, name : ToolCalls \cup {NoCall}, args : Args,
                  out : Nat, told : Nat, added : BOOLEAN]
  BY DEF ToolSlot
<1>5. Flow = [slots : SlotMap, next : Nat, prose : Int, texts : Nat, events : Events,
      stopped : BOOLEAN, ok : BOOLEAN]
  BY DEF Flow
<1>6. NoFlow \in Flow
  BY StartIsReady DEF Ready
<1>7. f = [NoFlow EXCEPT !.prose = texts - 1, !.texts = texts, !.next = texts + L, !.stopped = b, !.slots = slots]
  BY DEF WholeFlow
<1>b. b \in BOOLEAN
  OBVIOUS
<1> HIDE DEF Args, Events, b, f, texts
<1>8. \A i \in I : slot(i) \in ToolSlot
  <2>1. ASSUME NEW i \in I PROVE slot(i) \in ToolSlot
    <3>1. /\ order[i + 1] \in ToolCalls /\ Given(s, order[i + 1]) \in Args /\ texts + i \in Nat
             /\ 0 \in Nat
      BY <1>1, <1>2, <1>3
    <3> QED BY <1>4, <1>b, <3>1
  <2> QED BY <2>1
<1>9. \A i \in I : /\ slot(i).call = order[i + 1] /\ slot(i).args = Given(s, order[i + 1])
                   /\ slot(i).name = order[i + 1] /\ slot(i).out = texts + i
  OBVIOUS
<1> HIDE DEF slot
<1>10. slots \in SlotMap
  <2>1. slots \in [0 .. (L - 1) -> ToolSlot]
    BY <1>8
  <2> QED BY <1>1, <2>1 DEF SlotMap
<1>11. DOMAIN slots = I /\ \A i \in I : slots[i] = slot(i)
  OBVIOUS
<1> HIDE DEF slots, L
<1>12. f = [slots |-> slots, next |-> texts + L, prose |-> texts - 1, texts |-> texts,
       events |-> NoFlow.events,
            stopped |-> b, ok |-> NoFlow.ok]
  BY <1>5, <1>6, <1>7
<1>13. texts + L \in Nat /\ texts - 1 \in Int /\ NoFlow.events \in Events /\ NoFlow.ok \in BOOLEAN
  BY <1>1, <1>5, <1>6
<1>14. f \in Flow
  BY <1>1, <1>5, <1>10, <1>12, <1>13, <1>b
<1>15. f.slots = slots /\ f.next = texts + L /\ f.prose = texts - 1 /\ f.texts = texts
  BY <1>12
<1>16. \A i \in I : f.slots[i].call = order[i + 1] /\ f.slots[i].args = Given(s, order[i + 1])
                    /\ f.slots[i].name = order[i + 1] /\ f.slots[i].out = texts + i
  BY <1>9, <1>11, <1>15
<1>17. \A i \in I : f.slots[i].out < f.next /\ f.slots[i].out # f.prose
  BY <1>1, <1>15, <1>16
<1>18. \A i, j \in I : i < j => f.slots[i].out < f.slots[j].out
  BY <1>1, <1>16
<1>19. f.prose >= -1 /\ f.prose < f.next /\ (f.prose = -1 <=> texts = 0)
  BY <1>1, <1>15
<1>20. DOMAIN f.slots = I
  BY <1>11, <1>15
<1> HIDE DEF I
<1>21. /\ DOMAIN f.slots = I
       /\ \A i \in I : /\ f.slots[i].call = order[i + 1] /\ f.slots[i].args = Given(s, order[i + 1])
                       /\ f.slots[i].name \in {NoCall, order[i + 1]}
                       /\ f.slots[i].out < f.next /\ f.slots[i].out # f.prose
       /\ \A i, j \in I : i < j => f.slots[i].out < f.slots[j].out
       /\ f.texts = s.texts /\ f.prose >= -1 /\ f.prose < f.next
       /\ f.prose = -1 <=> s.texts = 0
  BY <1>15, <1>16, <1>17, <1>18, <1>19, <1>20 DEF texts
<1> QED BY <1>14, <1>21 DEF SlotsInv, I, L, f

(* An answer in one piece keeps the invariant.                             *)
LEMMA WholeKeepsBridge ==
  ASSUME BridgeInv, NEW verdict \in {"answered", "denied", "failed"}, AnswerWhole(verdict)
  PROVE  BridgeInv'
<1>n. PICK n \in 0 .. (MaxPieces - source.pieces), texts \in 0 .. 1 :
        \E order \in {o \in [1 .. n -> ToolCalls] : IsInjective(o)} : \E cut \in SUBSET ToSet(order) :
          Conclude(verdict, WholeAnswer(order, texts, cut),
            WholeFlow(WholeAnswer(order, texts, cut)),
                   <<Completed(Items(WholeFlow(WholeAnswer(order, texts, cut))))>>, TRUE)
  BY Zenon DEF AnswerWhole
<1>o. PICK order \in {o \in [1 .. n -> ToolCalls] : IsInjective(o)} : \E cut \in SUBSET ToSet(order) :
          Conclude(verdict, WholeAnswer(order, texts, cut),
            WholeFlow(WholeAnswer(order, texts, cut)),
                   <<Completed(Items(WholeFlow(WholeAnswer(order, texts, cut))))>>, TRUE)
  BY <1>n, Zenon
<1>1. PICK cut \in SUBSET ToSet(order) :
          Conclude(verdict, WholeAnswer(order, texts, cut),
            WholeFlow(WholeAnswer(order, texts, cut)),
                   <<Completed(Items(WholeFlow(WholeAnswer(order, texts, cut))))>>, TRUE)
  BY <1>o, Zenon
<1>2. streaming /\ Providing(source)
  BY DEF AnswerWhole, BridgeInv, FlowInv
<1> DEFINE s == WholeAnswer(order, texts, cut)
           f == WholeFlow(s)
           items == Items(f)
<1>3. Conclude(verdict, s, f, <<Completed(items)>>, TRUE)
  BY <1>1
<1>4. order \in Seq(ToolCalls) /\ ToSet(order) \in SUBSET ToolCalls
      /\ \A i, j \in 1 .. Len(order) : order[i] = order[j] => i = j
  <2>1. n \in Nat /\ order \in [1 .. n -> ToolCalls]
    OBVIOUS
  <2>2. order \in Seq(ToolCalls) /\ DOMAIN order = 1 .. Len(order)
    BY <2>1
  <2>3. IsInjective(order)
    OBVIOUS
  <2>4. ToSet(order) \in SUBSET ToolCalls
    BY <2>2 DEF ToSet
  <2> QED BY <2>2, <2>3, <2>4 DEF IsInjective
<1>6. texts \in Nat /\ texts \in {0, 1}
  OBVIOUS
<1>7. source \in Source
  BY <1>2 DEF Providing
<1>8. s \in Source /\ s.opened = order /\ s.texts = texts
  <2> HIDE DEF s, f, items
  <2>1. \A o \in Seq(ToolCalls), t \in Nat : \A c : ToSet(o) \in SUBSET ToolCalls =>
          /\ WholeAnswer(o, t, c) \in Source /\ WholeAnswer(o, t, c).opened = o
          /\ WholeAnswer(o, t, c).texts = t
    BY <1>7, WholeAnswerIsOne
  <2>2. ToSet(order) \in SUBSET ToolCalls /\ order \in Seq(ToolCalls)
    BY <1>4
  <2>3. /\ WholeAnswer(order, texts, cut) \in Source
           /\ WholeAnswer(order, texts, cut).opened = order
        /\ WholeAnswer(order, texts, cut).texts = texts
    BY <1>6, <2>1, <2>2
  <2> QED BY <2>3 DEF s
<1> HIDE DEF s
<1>9. f \in Flow /\ SlotsInv(f, s)
  BY <1>6, <1>8, WholeFlowIsTheCalls
<1>10. OpensOnce(s)
  BY <1>4, <1>8 DEF OpensOnce
<1> HIDE DEF f
<1>11. ListsItems(items, f, Len(s.opened))
  BY <1>8, <1>9, ItemsListed
<1>12. Complete(items, s)
  <2> HIDE DEF items
  <2> QED BY <1>8, <1>9, <1>10, <1>11, ItemsAreTheCalls
<1>13. Conclusive(<<Completed(items)>>, items, s)
  <2> DEFINE e == Completed(items)
  <2> HIDE DEF e, items
  <2>1. Len(<<e>>) = 1 /\ <<e>>[1] = e /\ 1 .. (1 - 1) = {}
    OBVIOUS
  <2>2. Conclusive(<<e>>, items, s)
    BY <1>12, <2>1 DEF Conclusive, e
  <2> QED BY <2>2 DEF e
<1>14. f.slots \in SlotMap
  BY <1>9, SlotTypes
<1> QED BY <1>2, <1>3, <1>8, <1>9, <1>13, <1>14, ConcludeKeeps

(* Whatever the bridge does, it keeps the invariant.                       *)
LEMMA BridgeSteps == BridgeInv /\ [StreamNext]_streamVars => BridgeInv'
<1> SUFFICES ASSUME BridgeInv, [StreamNext]_streamVars PROVE BridgeInv'
  OBVIOUS
<1>1. CASE RefuseRequest \/ RefuseLimited
  BY <1>1, RefusalKeepsBridge
<1>2. CASE Cool
  <2>1. UNCHANGED <<protocol, style, supervised, turns, streaming, reply, source, flow, seen, shown, memory,
                    repeated, issued, upstream>>
    BY <1>2 DEF Cool
  <2> QED BY <2>1, SameBridge
<1>3. ASSUME NEW edited \in repeated \cup {NoCall}, Stream(edited) \/ ProviderRefuses(edited)
      PROVE  BridgeInv'
  BY <1>3, RequestKeepsBridge
<1>4. CASE ChunkOfText
  BY <1>4, TextKeepsBridge
<1>5. CASE ChunkOfOne
  BY <1>5, PartKeepsBridge
<1>6. CASE ChunkOfTwo
  BY <1>6, TwoPartsKeepBridge
<1>7. CASE FinishReason
  BY <1>7, FinishReasonKeepsBridge
<1>8. CASE StreamBreaks
  BY <1>8, BreakKeepsBridge
<1>9. ASSUME NEW verdict \in IF supervised THEN {"answered", "denied", "failed"} ELSE {"answered"},
             EndOfStream(verdict) \/ AnswerWhole(verdict)
      PROVE  BridgeInv'
  <2>1. verdict \in {"answered", "denied", "failed"}
    OBVIOUS
  <2> QED BY <1>9, <2>1, EndKeepsBridge, WholeKeepsBridge
<1>10. CASE UNCHANGED streamVars
  <2>1. UNCHANGED <<protocol, style, supervised, turns, streaming, reply, source, flow, seen, shown, memory,
                    repeated, issued, upstream>>
    BY <1>10 DEF streamVars
  <2> QED BY <2>1, SameBridge
<1> QED BY <1>1, <1>2, <1>3, <1>4, <1>5, <1>6, <1>7, <1>8, <1>9, <1>10 DEF StreamNext

(* A client that is told the answer is complete has the provider's calls   *)
(* and text, a signature goes back only with the call it was issued for,   *)
(* and nothing unapproved is heard (responses-chat-bridge.ts,              *)
(* anthropic-chat-bridge.ts, inference-broker.ts #bridgeStream).           *)
THEOREM BridgeFaithful == StreamSpec => []BridgeIsFaithful
<1>1. StreamInit => BridgeInv
  BY BridgeStarts
<1>2. BridgeInv /\ [StreamNext]_streamVars => BridgeInv'
  BY BridgeSteps
<1>3. BridgeInv => BridgeIsFaithful
  BY DEF BridgeInv, BridgeIsFaithful
<1> QED BY <1>1, <1>2, <1>3, PTL DEF StreamSpec
=============================================================================
