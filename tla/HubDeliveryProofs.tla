-------------------------- MODULE HubDeliveryProofs --------------------------
(***************************************************************************)
(* Proofs about HubDelivery for any sessions, items and number of crashes. *)
(*                                                                         *)
(* The properties are strengthened by what is true in the middle of an     *)
(* admission and of a flush: the event an actor awaits a call for is       *)
(* durable and was heard, its record goes only after its ACK (AwaitInv),   *)
(* and once the ledger is restored whatever is settled is seen or off the  *)
(* hub's inbox (OfferInv).                                                 *)
(***************************************************************************)
EXTENDS HubDelivery, TLAPS

AwaitInv ==
  /\ \A a \in Actors :
       /\ pc[a] \in {"mark", "remove", "recorded"} =>
            /\ cur[a] \in HubEvents
            /\ cur[a] \in ledger \cup hubRead
       /\ pc[a] = "remove" => cur[a] \in hubRead
       /\ pc[a] = "recorded" => a \in Sessions
       /\ pc[a] \in {"restore", "fetch", "fetched"} => a = Refresh
  /\ RecordedUntilAcked /\ DueIsDurable

OfferInv ==
  /\ hub \cap settled \subseteq seen
  /\ page.hub \cap settled \subseteq seen
  /\ loaded => settled \subseteq seen \cup hubRead

HeardInv ==
  /\ ReadMeansHeard
  /\ ledger \cup due \subseteq heard
  /\ \A a \in Actors : pc[a] \in {"mark", "remove", "recorded"} => cur[a] \in heard
  /\ \A s \in Sessions : pc[s] \in {"admit", "recorded"} => left[s] \subseteq heard

Inv == TypeOK /\ AwaitInv /\ OfferInv /\ HeardInv

-----------------------------------------------------------------------------
LEMMA InitInv == Init => Inv
<1> SUFFICES ASSUME Init PROVE Inv
  OBVIOUS
<1>1. page \in [hub : SUBSET HubEvents, relay : SUBSET RelayFiles]
  BY DEF Init
<1>2. crashes \in 0 .. MaxCrashes
  BY CrashBound DEF Init
<1>3. TypeOK
  BY <1>1, <1>2 DEF Init, TypeOK, Items, Places
<1>4. AwaitInv /\ OfferInv /\ HeardInv
  BY DEF Init, AwaitInv, OfferInv, HeardInv, RecordedUntilAcked, DueIsDurable,
         ReadMeansHeard, Actors
<1> QED BY <1>3, <1>4 DEF Inv

(* What a refresh fetches: a fresh page only when the ledger was restored.   *)
LEMMA FetchedPage ==
  ASSUME TypeOK, Fetch
  PROVE  /\ page' \in [hub : SUBSET HubEvents, relay : SUBSET RelayFiles]
         /\ page'.hub \subseteq hub \/ (loaded /\ page'.hub \subseteq HubEvents \ hubRead)
<1>1. PICK h \in {hub} \cup (SUBSET (HubEvents \ hubRead)),
           r \in {relay} \cup (SUBSET (RelayFiles \ relayRead)) :
        (loaded \/ h = hub) /\ page' = [hub |-> h, relay |-> r]
  BY DEF Fetch
<1>2. h \subseteq HubEvents /\ r \subseteq RelayFiles
  BY <1>1 DEF TypeOK
<1>3. page'.hub = h /\ page' \in [hub : SUBSET HubEvents, relay : SUBSET RelayFiles]
  BY <1>1, <1>2
<1> QED BY <1>1, <1>3

(* Every step keeps the types. *)
LEMMA TypeStep ==
  ASSUME Inv, Next PROVE TypeOK'
<1> USE RefreshIsNoSession, KindsAreDisjoint, NothingIsNoItem, CrashBound
       DEF
           Inv, TypeOK, AwaitInv, Places, Offered, Asked, Goto, AckFails,
           Forgotten, Actors, Items, durable, entry, actors, history
<1>1. ASSUME NEW s \in Sessions, Poll(s) PROVE TypeOK'
  BY <1>1 DEF Poll
<1>2. ASSUME NEW s \in Sessions, Stage(s) PROVE TypeOK'
  BY <1>2 DEF Stage
<1>3. ASSUME NEW s \in Sessions, Discard(s) PROVE TypeOK'
  BY <1>3 DEF Discard
<1>4. ASSUME NEW s \in Sessions, Admit(s) PROVE TypeOK'
  BY <1>4 DEF Admit
<1>5. ASSUME NEW s \in Sessions, MarkRelayRead(s) PROVE TypeOK'
  BY <1>5 DEF MarkRelayRead
<1>6. ASSUME NEW s \in Sessions, MarkRelayFails(s) PROVE TypeOK'
  BY <1>6 DEF MarkRelayFails
<1>7. ASSUME NEW s \in Sessions, Record(s) PROVE TypeOK'
  BY <1>7 DEF Record
<1>8. ASSUME NEW s \in Sessions, RecordFails(s) PROVE TypeOK'
  BY <1>8 DEF RecordFails
<1>9. ASSUME NEW s \in Sessions, Recorded(s) PROVE TypeOK'
  BY <1>9 DEF Recorded
<1>10. ASSUME NEW s \in Sessions, Admitted(s) PROVE TypeOK'
  BY <1>10 DEF Admitted
<1>11. ASSUME NEW a \in Actors, FlushNext(a) PROVE TypeOK'
  BY <1>11 DEF FlushNext
<1>12. ASSUME NEW a \in Actors, FlushEnds(a) PROVE TypeOK'
  BY <1>12 DEF FlushEnds
<1>13. ASSUME NEW a \in Actors, MarkHubRead(a) PROVE TypeOK'
  BY <1>13 DEF MarkHubRead
<1>14. ASSUME NEW a \in Actors, MarkHubFails(a) PROVE TypeOK'
  BY <1>14 DEF MarkHubFails
<1>15. ASSUME NEW a \in Actors, RemoveRecord(a) PROVE TypeOK'
  BY <1>15 DEF RemoveRecord
<1>16. ASSUME NEW a \in Actors, RemoveFails(a) PROVE TypeOK'
  BY <1>16 DEF RemoveFails
<1>17. CASE Restore BY <1>17 DEF Restore
<1>18. CASE RestoreFails BY <1>18 DEF RestoreFails
<1>19. CASE Fetch BY <1>19, FetchedPage DEF Fetch
<1>20. CASE Install BY <1>20 DEF Install
<1>21. CASE Crash
  <2>1. crashes' \in 0 .. MaxCrashes
    BY <1>21 DEF Crash
  <2>2. page' \in [hub : SUBSET HubEvents, relay : SUBSET RelayFiles]
    BY <1>21 DEF Crash
  <2>3. hubRead' \subseteq HubEvents
    BY <1>21 DEF Crash
  <2> QED BY <1>21, <2>1, <2>2, <2>3 DEF Crash
<1> QED BY <1>1, <1>2, <1>3, <1>4, <1>5, <1>6, <1>7, <1>8, <1>9, <1>10, <1>11,
          <1>12, <1>13, <1>14, <1>15, <1>16, <1>17, <1>18, <1>19, <1>20, <1>21
        DEF Next, SessionStep, FlushStep, RefreshStep

(* An awaited event stays durable, and a due one with it. *)
LEMMA AwaitStep ==
  ASSUME Inv, Next PROVE AwaitInv'
<1> USE RefreshIsNoSession, KindsAreDisjoint, NothingIsNoItem, CrashBound
       DEF
           Inv, TypeOK, AwaitInv, RecordedUntilAcked, DueIsDurable, Asked,
           Goto, AckFails, Forgotten, Actors, Items, durable, entry, actors,
           history
<1>1. ASSUME NEW s \in Sessions, Poll(s) PROVE AwaitInv'
  BY <1>1 DEF Poll
<1>2. ASSUME NEW s \in Sessions, Stage(s) PROVE AwaitInv'
  BY <1>2 DEF Stage
<1>3. ASSUME NEW s \in Sessions, Discard(s) PROVE AwaitInv'
  BY <1>3 DEF Discard
<1>4. ASSUME NEW s \in Sessions, Admit(s) PROVE AwaitInv'
  BY <1>4 DEF Admit
<1>5. ASSUME NEW s \in Sessions, MarkRelayRead(s) PROVE AwaitInv'
  BY <1>5 DEF MarkRelayRead
<1>6. ASSUME NEW s \in Sessions, MarkRelayFails(s) PROVE AwaitInv'
  BY <1>6 DEF MarkRelayFails
<1>7. ASSUME NEW s \in Sessions, Record(s) PROVE AwaitInv'
  BY <1>7 DEF Record
<1>8. ASSUME NEW s \in Sessions, RecordFails(s) PROVE AwaitInv'
  BY <1>8 DEF RecordFails
<1>9. ASSUME NEW s \in Sessions, Recorded(s) PROVE AwaitInv'
  BY <1>9 DEF Recorded
<1>10. ASSUME NEW s \in Sessions, Admitted(s) PROVE AwaitInv'
  BY <1>10 DEF Admitted
<1>11. ASSUME NEW a \in Actors, FlushNext(a) PROVE AwaitInv'
  BY <1>11 DEF FlushNext
<1>12. ASSUME NEW a \in Actors, FlushEnds(a) PROVE AwaitInv'
  BY <1>12 DEF FlushEnds
<1>13. ASSUME NEW a \in Actors, MarkHubRead(a) PROVE AwaitInv'
  BY <1>13 DEF MarkHubRead
<1>14. ASSUME NEW a \in Actors, MarkHubFails(a) PROVE AwaitInv'
  BY <1>14 DEF MarkHubFails
<1>15. ASSUME NEW a \in Actors, RemoveRecord(a) PROVE AwaitInv'
  BY <1>15 DEF RemoveRecord
<1>16. ASSUME NEW a \in Actors, RemoveFails(a) PROVE AwaitInv'
  BY <1>16 DEF RemoveFails
<1>17. CASE Restore BY <1>17 DEF Restore
<1>18. CASE RestoreFails BY <1>18 DEF RestoreFails
<1>19. CASE Fetch BY <1>19, FetchedPage DEF Fetch
<1>20. CASE Install BY <1>20 DEF Install
<1>21. CASE Crash BY <1>21 DEF Crash
<1> QED BY <1>1, <1>2, <1>3, <1>4, <1>5, <1>6, <1>7, <1>8, <1>9, <1>10, <1>11,
          <1>12, <1>13, <1>14, <1>15, <1>16, <1>17, <1>18, <1>19, <1>20, <1>21
        DEF Next, SessionStep, FlushStep, RefreshStep

(* No step puts a settled event back on offer. *)
LEMMA OfferStep ==
  ASSUME Inv, Next PROVE OfferInv'
<1> USE RefreshIsNoSession, KindsAreDisjoint, NothingIsNoItem, CrashBound
       DEF
           Inv, TypeOK, AwaitInv, OfferInv, RecordedUntilAcked, Goto,
           AckFails, Forgotten, Actors, Items, durable, entry, actors, history
<1>1. ASSUME NEW s \in Sessions, Poll(s) PROVE OfferInv'
  BY <1>1 DEF Poll
<1>2. ASSUME NEW s \in Sessions, Stage(s) PROVE OfferInv'
  BY <1>2 DEF Stage
<1>3. ASSUME NEW s \in Sessions, Discard(s) PROVE OfferInv'
  BY <1>3 DEF Discard
<1>4. ASSUME NEW s \in Sessions, Admit(s) PROVE OfferInv'
  BY <1>4 DEF Admit
<1>5. ASSUME NEW s \in Sessions, MarkRelayRead(s) PROVE OfferInv'
  BY <1>5 DEF MarkRelayRead
<1>6. ASSUME NEW s \in Sessions, MarkRelayFails(s) PROVE OfferInv'
  BY <1>6 DEF MarkRelayFails
<1>7. ASSUME NEW s \in Sessions, Record(s) PROVE OfferInv'
  BY <1>7 DEF Record
<1>8. ASSUME NEW s \in Sessions, RecordFails(s) PROVE OfferInv'
  BY <1>8 DEF RecordFails
<1>9. ASSUME NEW s \in Sessions, Recorded(s) PROVE OfferInv'
  BY <1>9 DEF Recorded
<1>10. ASSUME NEW s \in Sessions, Admitted(s) PROVE OfferInv'
  BY <1>10 DEF Admitted
<1>11. ASSUME NEW a \in Actors, FlushNext(a) PROVE OfferInv'
  BY <1>11 DEF FlushNext
<1>12. ASSUME NEW a \in Actors, FlushEnds(a) PROVE OfferInv'
  BY <1>12 DEF FlushEnds
<1>13. ASSUME NEW a \in Actors, MarkHubRead(a) PROVE OfferInv'
  BY <1>13 DEF MarkHubRead
<1>14. ASSUME NEW a \in Actors, MarkHubFails(a) PROVE OfferInv'
  BY <1>14 DEF MarkHubFails
<1>15. ASSUME NEW a \in Actors, RemoveRecord(a) PROVE OfferInv'
  BY <1>15 DEF RemoveRecord
<1>16. ASSUME NEW a \in Actors, RemoveFails(a) PROVE OfferInv'
  BY <1>16 DEF RemoveFails
<1>17. CASE Restore BY <1>17 DEF Restore
<1>18. CASE RestoreFails BY <1>18 DEF RestoreFails
<1>19. CASE Fetch BY <1>19, FetchedPage DEF Fetch
<1>20. CASE Install BY <1>20 DEF Install
<1>21. CASE Crash BY <1>21 DEF Crash
<1> QED BY <1>1, <1>2, <1>3, <1>4, <1>5, <1>6, <1>7, <1>8, <1>9, <1>10, <1>11,
          <1>12, <1>13, <1>14, <1>15, <1>16, <1>17, <1>18, <1>19, <1>20, <1>21
        DEF Next, SessionStep, FlushStep, RefreshStep

(* No step marks what was not heard. *)
LEMMA HeardStep ==
  ASSUME Inv, Next PROVE HeardInv'
<1> USE RefreshIsNoSession, KindsAreDisjoint, NothingIsNoItem, CrashBound
       DEF
           Inv, TypeOK, AwaitInv, HeardInv, ReadMeansHeard, Asked, Goto,
           AckFails, Forgotten, Actors, Items, durable, entry, actors, history
<1>1. ASSUME NEW s \in Sessions, Poll(s) PROVE HeardInv'
  BY <1>1 DEF Poll
<1>2. ASSUME NEW s \in Sessions, Stage(s) PROVE HeardInv'
  BY <1>2 DEF Stage
<1>3. ASSUME NEW s \in Sessions, Discard(s) PROVE HeardInv'
  BY <1>3 DEF Discard
<1>4. ASSUME NEW s \in Sessions, Admit(s) PROVE HeardInv'
  BY <1>4 DEF Admit
<1>5. ASSUME NEW s \in Sessions, MarkRelayRead(s) PROVE HeardInv'
  BY <1>5 DEF MarkRelayRead
<1>6. ASSUME NEW s \in Sessions, MarkRelayFails(s) PROVE HeardInv'
  BY <1>6 DEF MarkRelayFails
<1>7. ASSUME NEW s \in Sessions, Record(s) PROVE HeardInv'
  BY <1>7 DEF Record
<1>8. ASSUME NEW s \in Sessions, RecordFails(s) PROVE HeardInv'
  BY <1>8 DEF RecordFails
<1>9. ASSUME NEW s \in Sessions, Recorded(s) PROVE HeardInv'
  BY <1>9 DEF Recorded
<1>10. ASSUME NEW s \in Sessions, Admitted(s) PROVE HeardInv'
  BY <1>10 DEF Admitted
<1>11. ASSUME NEW a \in Actors, FlushNext(a) PROVE HeardInv'
  BY <1>11 DEF FlushNext
<1>12. ASSUME NEW a \in Actors, FlushEnds(a) PROVE HeardInv'
  BY <1>12 DEF FlushEnds
<1>13. ASSUME NEW a \in Actors, MarkHubRead(a) PROVE HeardInv'
  BY <1>13 DEF MarkHubRead
<1>14. ASSUME NEW a \in Actors, MarkHubFails(a) PROVE HeardInv'
  BY <1>14 DEF MarkHubFails
<1>15. ASSUME NEW a \in Actors, RemoveRecord(a) PROVE HeardInv'
  BY <1>15 DEF RemoveRecord
<1>16. ASSUME NEW a \in Actors, RemoveFails(a) PROVE HeardInv'
  BY <1>16 DEF RemoveFails
<1>17. CASE Restore BY <1>17 DEF Restore
<1>18. CASE RestoreFails BY <1>18 DEF RestoreFails
<1>19. CASE Fetch BY <1>19, FetchedPage DEF Fetch
<1>20. CASE Install BY <1>20 DEF Install
<1>21. CASE Crash BY <1>21 DEF Crash
<1> QED BY <1>1, <1>2, <1>3, <1>4, <1>5, <1>6, <1>7, <1>8, <1>9, <1>10, <1>11,
          <1>12, <1>13, <1>14, <1>15, <1>16, <1>17, <1>18, <1>19, <1>20, <1>21
        DEF Next, SessionStep, FlushStep, RefreshStep

LEMMA StepInv ==
  ASSUME Inv, [Next]_vars PROVE Inv'
<1>1. CASE UNCHANGED vars
  BY <1>1 DEF vars, durable, entry, actors, history, Inv, TypeOK, AwaitInv, OfferInv,
              HeardInv, RecordedUntilAcked, DueIsDurable, ReadMeansHeard
<1>2. CASE Next
  BY <1>2, TypeStep, AwaitStep, OfferStep, HeardStep DEF Inv
<1> QED BY <1>1, <1>2

(* Entry, ledger and inboxes stay consistent, whatever fails or stops.       *)
THEOREM Invariance == Spec => []Inv
<1>1. Init => Inv
  BY InitInv
<1>2. Inv /\ [Next]_vars => Inv'
  BY StepInv
<1> QED BY <1>1, <1>2, PTL DEF Spec

(* Every reachable state is well typed.                                      *)
THEOREM TypeCorrect == Spec => []TypeOK
<1>1. Inv => TypeOK BY DEF Inv
<1> QED BY <1>1, Invariance, PTL

(* A durably admitted event is not offered to a model again.                 *)
THEOREM NoSecondOffer == Spec => []NeverOfferedAgain
<1>1. Inv => NeverOfferedAgain BY DEF Inv, OfferInv, NeverOfferedAgain
<1> QED BY <1>1, Invariance, PTL

(* An admitted event stays on record until the hub has its ACK.              *)
THEOREM NothingLost == Spec => []RecordedUntilAcked
<1>1. Inv => RecordedUntilAcked BY DEF Inv, AwaitInv
<1> QED BY <1>1, Invariance, PTL

(* What is due for an ACK would be found by a restart.                       *)
THEOREM DueSurvives == Spec => []DueIsDurable
<1>1. Inv => DueIsDurable BY DEF Inv, AwaitInv
<1> QED BY <1>1, Invariance, PTL

(* What is marked read was in the packet of a turn its model has answered.   *)
THEOREM NoBlindAck == Spec => []ReadMeansHeard
<1>1. Inv => ReadMeansHeard BY DEF Inv, HeardInv
<1> QED BY <1>1, Invariance, PTL
=============================================================================
