----------------------------- MODULE CastBroker -----------------------------
(***************************************************************************)
(* One cast lane: the request handler of the loopback inference broker     *)
(* (src/src/inference-broker.ts, InferenceBroker and                       *)
(* BrokerCapabilityGuard), the coordination lifecycle it calls around      *)
(* every provider request (src/src/organism-cast-broker-coordination.ts)   *)
(* and the turn that lifecycle prepares, admits and discards               *)
(* (src/src/native-product-lifecycle.ts).                                  *)
(*                                                                         *)
(* A coordination turn puts a packet of messages into one provider         *)
(* request.  The turn is admitted, which acknowledges the messages, when   *)
(* the NEXT request or the end of the run finds that request answered to   *)
(* its end; a request that fails discards its turn, and the messages are   *)
(* offered again.  Requests arrive concurrently, a client, a timer or the  *)
(* settlement may abort any of them at any await, and all of them share    *)
(* one slot of the lifecycle.  The code runs on one thread: a step below   *)
(* is the code between two awaits.                                         *)
(***************************************************************************)
EXTENDS Naturals, Sequences, FiniteSets

CONSTANTS
  Requests,       \* provider requests, retries included
  Nobody,         \* the null request
  MaxRequests,    \* limits.maxRequests
  MaxConcurrent,  \* limits.maxConcurrent
  MaxResponses    \* the execution budget's maximumResponses

ASSUME NobodyIsNoRequest == Nobody \notin Requests
ASSUME RequestsAreFinite == IsFiniteSet(Requests)
ASSUME LimitsArePositive ==
  /\ MaxRequests \in Nat \ {0} /\ MaxConcurrent \in Nat \ {0}
  /\ MaxResponses \in Nat \ {0}

NoTurn == 0   \* turn ids are <prefix>:provider-<n>; the CLI prepared turn 1

(***************************************************************************)
(* The handler of one request.  "waiting" and "granted" are the await of   *)
(* the slot, "admitting" and "preparing" the awaits of the lifecycle's two *)
(* CLI conversations, "fetching" and "streaming" those of the provider,    *)
(* "succeeded" and "failed" the finally clause about to call complete().   *)
(***************************************************************************)
Working  == {"prepared", "fetching", "streaming", "succeeded", "failed"}
Holding  == {"granted", "admitting", "preparing"} \cup Working
Reserved == {"waiting"} \cup Holding

VARIABLES
  pc, aborted, recorded, mine, \* per request: where it is, its signal, whether
                               \* its usage was recorded, the turn it handles
  admitted, active, responses, \* the guard's counters and the recorded usage
  slotHeld, waiters,           \* the lifecycle's slot and its queue
  turnID, requestID, completed, sequence,  \* the lifecycle's current turn
  activeTurn,                  \* the turn staged in the product lifecycle
  run,                         \* the CLI around it
  answered, acked              \* history: turns whose request was answered to
                               \* its end; turns whose messages were admitted

requestVars == <<pc, aborted, recorded, mine>>
guardVars   == <<admitted, active, responses>>
slotVars    == <<slotHeld, waiters>>
turnVars    == <<turnID, requestID, completed, sequence>>
history     == <<answered, acked>>
vars == <<requestVars, guardVars, slotVars, turnVars, activeTurn, run, history>>

Init ==
  /\ pc = [r \in Requests |-> "idle"]
  /\ aborted = [r \in Requests |-> FALSE]
  /\ recorded = [r \in Requests |-> FALSE]
  /\ mine = [r \in Requests |-> NoTurn]
  /\ admitted = 0 /\ active = 0 /\ responses = 0
  /\ slotHeld = FALSE /\ waiters = <<>>
  /\ turnID = 1 /\ requestID = Nobody /\ completed = FALSE /\ sequence = 1
  /\ activeTurn = 1
  /\ run = "open"
  /\ answered = {} /\ acked = {}

Goto(r, label) == pc' = [pc EXCEPT ![r] = label]
-----------------------------------------------------------------------------
(***************************************************************************)
(* The slot.  A waiter that was cancelled stays in the queue and is        *)
(* skipped when its turn comes.                                            *)
(***************************************************************************)
IsNext(i) == /\ pc[waiters[i]] = "waiting"
             /\ \A j \in 1 .. i - 1 : pc[waiters[j]] # "waiting"

(* Fault: the slot is freed without waking a waiter. *)
ReleaseWithoutWaking(r, label) ==
  Goto(r, label) /\ slotHeld' = FALSE /\ UNCHANGED waiters

(* r leaves the slot and its handler goes on to label. *)
ReleaseSlot(r, label) ==
  \/ \E i \in 1 .. Len(waiters) :
       /\ IsNext(i)
       /\ pc' = [pc EXCEPT ![r] = label, ![waiters[i]] = "granted"]
       /\ waiters' = SubSeq(waiters, i + 1, Len(waiters))
       /\ UNCHANGED slotHeld
  \/ /\ \A i \in 1 .. Len(waiters) : pc[waiters[i]] # "waiting"
     /\ Goto(r, label)
     /\ slotHeld' = FALSE /\ waiters' = <<>>

Clear == turnID' = NoTurn /\ requestID' = Nobody /\ completed' = FALSE

ReleaseGuard == active' = IF active > 0 THEN active - 1 ELSE 0
-----------------------------------------------------------------------------
(***************************************************************************)
(* Admission.  The capability is checked on arrival, the body is awaited,  *)
(* and the budget check, the reservation and the attempt to take the slot  *)
(* follow without an await.                                                *)
(***************************************************************************)
Arrive(r) ==
  /\ run = "open" /\ pc[r] = "idle"
  /\ Goto(r, "reading")
  /\ UNCHANGED <<aborted, recorded, mine, guardVars, slotVars, turnVars,
                 activeTurn, run, history>>

(* A malformed body, an exhausted budget, a reached limit. *)
Refuse(r) ==
  /\ pc[r] = "reading"
  /\ Goto(r, "done")
  /\ UNCHANGED <<aborted, recorded, mine, guardVars, slotVars, turnVars,
                 activeTurn, run, history>>

WithinBudget == responses < MaxResponses

Reservable == admitted < MaxRequests /\ active < MaxConcurrent

Reserve(r) ==
  /\ pc[r] = "reading" /\ WithinBudget /\ Reservable
  /\ admitted' = admitted + 1 /\ active' = active + 1
  /\ \/ ~slotHeld /\ slotHeld' = TRUE /\ Goto(r, "granted") /\ UNCHANGED waiters
     \/ slotHeld /\ waiters' = Append(waiters, r) /\ Goto(r, "waiting")
        /\ UNCHANGED slotHeld
  /\ UNCHANGED <<aborted, recorded, mine, responses, turnVars, activeTurn, run, history>>
-----------------------------------------------------------------------------
(***************************************************************************)
(* prepare() with the slot held: the first request carries the turn the    *)
(* CLI prepared; a later one admits the answered turn it finds and         *)
(* prepares the next.  A failure on this path leaves the slot, and         *)
(* complete() is not called for the request.  The code also throws when    *)
(* the turn it finds is unanswered, not staged, or another one is staged:  *)
(* TurnMatchesRequest shows that these throws are never reached.           *)
(***************************************************************************)
ClaimFirst(r) ==
  /\ pc[r] = "granted" /\ turnID # NoTurn /\ requestID = Nobody
  /\ requestID' = r
  /\ mine' = [mine EXCEPT ![r] = turnID]
  /\ Goto(r, "prepared")
  /\ UNCHANGED <<aborted, recorded, guardVars, slotVars, turnID, completed,
                 sequence, activeTurn, run, history>>

AdmitPrevious(r) ==
  /\ pc[r] = "granted" /\ turnID # NoTurn /\ requestID # Nobody
  /\ completed /\ activeTurn = turnID
  /\ mine' = [mine EXCEPT ![r] = turnID]
  /\ Goto(r, "admitting")
  /\ UNCHANGED <<aborted, recorded, guardVars, slotVars, turnVars, activeTurn,
                 run, history>>

StartTurn(r) ==
  /\ pc[r] = "granted" /\ turnID = NoTurn /\ activeTurn = NoTurn
  /\ sequence' = sequence + 1
  /\ mine' = [mine EXCEPT ![r] = sequence']
  /\ Goto(r, "preparing")
  /\ UNCHANGED <<aborted, recorded, guardVars, slotVars, turnID, requestID,
                 completed, activeTurn, run, history>>

(* The poller has admitted the turn; with the turn still staged, the next    *)
(* one is started at once.  If the run was wound up meanwhile, the staged    *)
(* turn is null and reading it throws.                                       *)
PreviousAdmitted(r) ==
  /\ pc[r] = "admitting"
  /\ acked' = acked \cup {mine[r]}
  /\ \/ /\ activeTurn # NoTurn
        /\ activeTurn' = NoTurn
        /\ Clear /\ sequence' = sequence + 1
        /\ mine' = [mine EXCEPT ![r] = sequence']
        /\ Goto(r, "preparing")
        /\ UNCHANGED <<active, slotVars>>
     \/ /\ activeTurn = NoTurn
        /\ ReleaseSlot(r, "done") /\ ReleaseGuard
        /\ UNCHANGED <<mine, activeTurn, turnVars>>
  /\ UNCHANGED <<aborted, recorded, admitted, responses, run, answered>>

LifecycleFails(r) ==
  /\ pc[r] \in {"admitting", "preparing"}
  /\ ReleaseSlot(r, "done") /\ ReleaseGuard
  /\ UNCHANGED <<aborted, recorded, mine, admitted, responses, turnVars,
                 activeTurn, run, history>>

TurnPrepared(r) ==
  /\ pc[r] = "preparing"
  /\ activeTurn' = mine[r] /\ turnID' = mine[r] /\ requestID' = r
  /\ Goto(r, "prepared")
  /\ UNCHANGED <<aborted, recorded, mine, guardVars, slotVars, completed,
                 sequence, run, history>>
-----------------------------------------------------------------------------
(***************************************************************************)
(* The provider.  A transform, the byte limit or the quota guard may stop  *)
(* a prepared request; fetch() refuses an aborted signal; a response       *)
(* stream may end well even while its client goes away.                    *)
(***************************************************************************)
Dispatch(r) ==
  /\ pc[r] = "prepared"
  /\ \E label \in {"fetching", "failed"} : Goto(r, label)
  /\ UNCHANGED <<aborted, recorded, mine, guardVars, slotVars, turnVars,
                 activeTurn, run, history>>

Answer(r) ==
  /\ pc[r] = "fetching" /\ ~aborted[r]
  /\ Goto(r, "streaming")
  /\ UNCHANGED <<aborted, recorded, mine, guardVars, slotVars, turnVars,
                 activeTurn, run, history>>

(* Fault: every item of the stream that reports usage is recorded. *)
RecordEveryItem(r) ==
  /\ pc[r] = "streaming"
  /\ responses' = responses + 1
  /\ UNCHANGED <<pc, aborted, recorded, mine, admitted, active, slotVars,
                 turnVars, activeTurn, run, history>>

(* The first item of the stream that reports usage is recorded. *)
RecordUsage(r) ==
  /\ pc[r] = "streaming" /\ ~recorded[r]
  /\ recorded' = [recorded EXCEPT ![r] = TRUE]
  /\ responses' = responses + 1
  /\ UNCHANGED <<pc, aborted, mine, admitted, active, slotVars, turnVars,
                 activeTurn, run, history>>

StreamEnds(r) ==
  /\ pc[r] = "streaming"
  /\ Goto(r, "succeeded")
  /\ UNCHANGED <<aborted, recorded, mine, guardVars, slotVars, turnVars,
                 activeTurn, run, history>>

ProviderFails(r) ==
  /\ pc[r] \in {"fetching", "streaming"}
  /\ Goto(r, "failed")
  /\ UNCHANGED <<aborted, recorded, mine, guardVars, slotVars, turnVars,
                 activeTurn, run, history>>
-----------------------------------------------------------------------------
(***************************************************************************)
(* The finally clause.  complete() keeps an answered turn for the next     *)
(* request and discards an unanswered one.  For a request that no longer   *)
(* matches the turn it throws before it leaves the slot, and the throw     *)
(* skips the broker's own release as well.                                 *)
(***************************************************************************)
Matches(r) == turnID # NoTurn /\ requestID = r

CompleteAnswered(r) ==
  /\ pc[r] = "succeeded" /\ Matches(r)
  /\ completed' = TRUE
  /\ answered' = answered \cup {turnID}
  /\ ReleaseSlot(r, "done") /\ ReleaseGuard
  /\ UNCHANGED <<aborted, recorded, mine, admitted, responses, turnID,
                 requestID, sequence, activeTurn, run, acked>>

(* Fault: the turn of a failed request is kept like that of an answered one. *)
KeepUnanswered(r) ==
  /\ pc[r] = "failed" /\ Matches(r)
  /\ completed' = TRUE
  /\ ReleaseSlot(r, "done") /\ ReleaseGuard
  /\ UNCHANGED <<aborted, recorded, mine, admitted, responses, turnID,
                 requestID, sequence, activeTurn, run, history>>

(* Fault: the turn is forgotten but stays staged. *)
LeaveStaged(r) ==
  /\ pc[r] = "failed" /\ Matches(r)
  /\ Clear
  /\ ReleaseSlot(r, "done") /\ ReleaseGuard
  /\ UNCHANGED <<aborted, recorded, mine, admitted, responses, sequence,
                 activeTurn, run, history>>

CompleteUnanswered(r) ==
  /\ pc[r] = "failed" /\ Matches(r)
  /\ activeTurn' = NoTurn /\ Clear
  /\ ReleaseSlot(r, "done") /\ ReleaseGuard
  /\ UNCHANGED <<aborted, recorded, mine, admitted, responses, sequence, run, history>>

CompleteThrows(r) ==
  /\ pc[r] \in {"succeeded", "failed"} /\ ~Matches(r)
  /\ Goto(r, "done")
  /\ UNCHANGED <<aborted, recorded, mine, guardVars, slotVars, turnVars,
                 activeTurn, run, history>>

(***************************************************************************)
(* The client goes away, the request timer fires or the settlement forces  *)
(* the request closed.  Only the await of the slot listens to the signal;  *)
(* the other awaits run on and meet it later.                              *)
(***************************************************************************)
Abort(r) ==
  /\ pc[r] \in Reserved \ {"succeeded", "failed"} /\ ~aborted[r]
  /\ aborted' = [aborted EXCEPT ![r] = TRUE]
  /\ \/ pc[r] = "waiting" /\ Goto(r, "done") /\ ReleaseGuard
     \/ pc[r] # "waiting" /\ UNCHANGED <<pc, active>>
  /\ UNCHANGED <<recorded, mine, admitted, responses, slotVars, turnVars,
                 activeTurn, run, history>>
-----------------------------------------------------------------------------
(***************************************************************************)
(* The end of the run: the native process has exited, so nothing arrives   *)
(* any more; settle() waits, aborts what is left, waits again, and         *)
(* finish() admits or discards the turn it finds, whether or not every     *)
(* request has returned.                                                   *)
(***************************************************************************)
Exit ==
  /\ run = "open" /\ \A r \in Requests : pc[r] # "reading"
  /\ run' = "settling"
  /\ UNCHANGED <<requestVars, guardVars, slotVars, turnVars, activeTurn, history>>

Settled == /\ run = "settling"
           /\ \A r \in Requests : pc[r] \in Reserved => aborted[r]

FinishAdmits ==
  /\ Settled /\ active = 0
  /\ turnID # NoTurn /\ completed /\ activeTurn = turnID
  /\ run' = "finishing"
  /\ UNCHANGED <<requestVars, guardVars, slotVars, turnVars, activeTurn, history>>

FinishAdmitted ==
  /\ run = "finishing"
  /\ acked' = acked \cup {turnID}
  /\ activeTurn' = NoTurn /\ Clear /\ run' = "finished"
  /\ UNCHANGED <<requestVars, guardVars, slotVars, sequence, answered>>

(* The poller fails, and the CLI with it. *)
FinishFails ==
  /\ run = "finishing" /\ run' = "finished"
  /\ UNCHANGED <<requestVars, guardVars, slotVars, turnVars, activeTurn, history>>

(* An unclean exit, a forced abort, an unanswered turn, or no turn at all. *)
FinishDiscards ==
  /\ Settled
  /\ \/ turnID # NoTurn /\ activeTurn' = NoTurn /\ Clear
     \/ turnID = NoTurn /\ UNCHANGED <<activeTurn, turnID, requestID, completed>>
  /\ run' = "finished"
  /\ UNCHANGED <<requestVars, guardVars, slotVars, sequence, history>>
-----------------------------------------------------------------------------
Handle(r) ==
  \/ Refuse(r) \/ Reserve(r)
  \/ ClaimFirst(r) \/ AdmitPrevious(r) \/ StartTurn(r)
  \/ PreviousAdmitted(r) \/ LifecycleFails(r) \/ TurnPrepared(r)
  \/ Dispatch(r) \/ Answer(r) \/ RecordUsage(r) \/ StreamEnds(r) \/ ProviderFails(r)
  \/ CompleteAnswered(r) \/ CompleteUnanswered(r) \/ CompleteThrows(r)

WindUp == Exit \/ FinishAdmits \/ FinishAdmitted \/ FinishFails \/ FinishDiscards

Next == (\E r \in Requests : Arrive(r) \/ Handle(r) \/ Abort(r)) \/ WindUp

Spec == Init /\ [][Next]_vars

(* The CLI calls, the request timer and the provider's socket all have       *)
(* deadlines, so every await of a handler ends.                              *)
FairSpec == Spec /\ \A r \in Requests : WF_vars(Handle(r))
-----------------------------------------------------------------------------
(* Every variable has its type. *)
TypeOK ==
  /\ pc \in [Requests -> {"idle", "reading", "done"} \cup Reserved]
  /\ aborted \in [Requests -> BOOLEAN] /\ recorded \in [Requests -> BOOLEAN]
  /\ mine \in [Requests -> Nat]
  /\ admitted \in Nat /\ active \in Nat /\ responses \in Nat
  /\ slotHeld \in BOOLEAN /\ waiters \in Seq(Requests)
  /\ turnID \in Nat /\ requestID \in Requests \cup {Nobody}
  /\ completed \in BOOLEAN /\ sequence \in Nat
  /\ activeTurn \in Nat
  /\ run \in {"open", "settling", "finishing", "finished"}
  /\ answered \subseteq Nat /\ acked \subseteq Nat

(* The messages of a turn are acknowledged only when the provider request    *)
(* that carried them was answered to its end, across failures, aborts at any *)
(* await, retries and the winding-up of the run.                             *)
AckedMeansAnswered == acked \subseteq answered

(* Until the run is wound up no wake-up of the slot is lost: the slot is     *)
(* held exactly while one request works under it, at most one does, and      *)
(* nobody waits for a free slot.                                             *)
SlotNeverLost ==
  run # "finished" =>
    /\ slotHeld <=> \E r \in Requests : pc[r] \in Holding
    /\ \A r, s \in Requests : pc[r] \in Holding /\ pc[s] \in Holding => r = s
    /\ \A r \in Requests : pc[r] = "waiting" => slotHeld

(* Until the run is wound up the errors of the lifecycle are unreachable: a  *)
(* request that completes owns the turn, which is also the staged one, and a *)
(* granted slot finds the previous turn answered, or gone and not staged.    *)
TurnMatchesRequest ==
  run # "finished" =>
    \A r \in Requests :
      /\ pc[r] \in Working => Matches(r) /\ activeTurn = turnID
      /\ pc[r] = "granted" => activeTurn = turnID
      /\ pc[r] = "granted" /\ requestID # Nobody => completed

(* The concurrency counter counts the reservations held, so that no sequence *)
(* of failures and aborts makes the lane refuse for ever or overfill.        *)
ReservationsExact ==
  run # "finished" => active = Cardinality({r \in Requests : pc[r] \in Reserved})

(* The execution budget is read before the request is sent and counted when  *)
(* it is answered: it is overshot by at most the concurrency limit less one. *)
OvershootBounded == responses < MaxResponses + MaxConcurrent

(* Both limits of a lane, on what is in flight and on what was answered.     *)
LimitsHold == ReservationsExact /\ OvershootBounded

(* A handler that holds a reservation comes to its end.                      *)
EveryRequestEnds ==
  \A r \in Requests : pc[r] \in Reserved ~> pc[r] = "done"
=============================================================================
