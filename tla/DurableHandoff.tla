--------------------------- MODULE DurableHandoff ---------------------------
(***************************************************************************)
(* What the publication surface promises, whatever happens inside it       *)
(* (docs/adr/0002, gate S9: "substantive success requires one durable,     *)
(* idempotent Organum receipt and terminal handoff state").                *)
(*                                                                         *)
(* The hub stores envelopes and a session that is ended once, with one of  *)
(* them; a caller is told of success only when what it asked for is        *)
(* durable, and of a shipped handoff only when the session was ended with  *)
(* what it asked for.                                                      *)
(***************************************************************************)
CONSTANTS Contents, Calls, Envelopes, ContentOf(_), Nothing

VARIABLES durable, ended, told
vars == <<durable, ended, told>>

Success(x)  == [content |-> x, shipped |-> FALSE]
Shipment(x) == [content |-> x, shipped |-> TRUE]

Init == durable = {} /\ ended = Nothing /\ told = [c \in Calls |-> Nothing]

(* One envelope may become durable. *)
Store == \/ UNCHANGED durable
         \/ \E e \in Envelopes : durable' = durable \cup {e}

(* The open session may be ended with an envelope that is durable already. *)
EndSession == \/ UNCHANGED ended
              \/ ended = Nothing /\ ended' \in durable

(* The answers a caller may hold after the step. *)
Truthful(answer) ==
  \/ answer = Nothing
  \/ \E e \in durable' : answer = Success(ContentOf(e))
  \/ ended' # Nothing /\ answer = Shipment(ContentOf(ended'))

Tell == /\ told' = [c \in Calls |-> told'[c]]
        /\ \A c \in Calls : told'[c] = told[c] \/ Truthful(told'[c])

Next == Store /\ EndSession /\ Tell

Spec == Init /\ [][Next]_vars
=============================================================================
