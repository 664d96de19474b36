---------------------------- MODULE MCCastBroker ----------------------------
(***************************************************************************)
(* Model values for the inference broker: the requests of a lane           *)
(* (CastBroker) and the bridge one of them goes through (StreamBridge),    *)
(* which share no state; the checker explores each alone, as part chooses. *)
(* With room for two reservations the third request gets in when one of    *)
(* the others is cancelled in the queue.  Four pieces make two calls of    *)
(* two fragments, in one answer or one call in each of two; two calls and  *)
(* one remembered signature evict one another.  Of the last request only   *)
(* what is sent with it matters: its answer is not followed.               *)
(***************************************************************************)
EXTENDS CastBroker, StreamBridge

CONSTANTS r1, r2, r3, k1, k2

MCRequests == {r1, r2, r3}
MCCalls    == {k1, k2}
MCCustom   == {k2}

VARIABLE part

MCInit ==
  /\ part \in {"lane", "bridge"}
  /\ Init
  /\ StreamInit
  /\ part = "lane" => protocol = "responses" /\ style = "bare"

MCNext ==
  /\ \/ part = "lane" /\ Next /\ UNCHANGED streamVars
     \/ part = "bridge" /\ ~(streaming /\ turns = MaxTurns) /\ StreamNext /\ UNCHANGED vars
  /\ UNCHANGED part

MCSpec ==
  MCInit /\ [][MCNext]_<<vars, streamVars, part>> /\ \A r \in Requests : WF_vars(Handle(r))
=============================================================================
