------------------------ MODULE AtMostOnceDelivery ------------------------
(***************************************************************************)
(* What the Signed Hub supervisor promises for one admitted event: a model *)
(* sees the body at most once, the outcome of that turn is fixed once, and *)
(* the Hub is told that outcome and no other                               *)
(* (src/src/signed-hub-supervisor.ts, class SignedHubSupervisor).  All of  *)
(* it rests on the event's lock.  Once that has failed, one promise is     *)
(* left: nothing is decided or acknowledged of an event no model has seen. *)
(***************************************************************************)
CONSTANTS Workers, Outcomes, Undecided

VARIABLES
  intact,   \* the lock has kept the runs apart so far
  exposed,  \* the workers whose model saw the body
  verdict,  \* the semantic outcome on record
  acks      \* the semantic ACKs the Hub holds
vars == <<intact, exposed, verdict, acks>>

Init == intact = TRUE /\ exposed = {} /\ verdict = Undecided /\ acks = {}

Expose(w) ==
  /\ exposed = {} /\ verdict = Undecided
  /\ exposed' = {w}
  /\ UNCHANGED <<verdict, acks>>

Decide(o) ==
  /\ exposed # {} /\ verdict = Undecided
  /\ verdict' = o
  /\ UNCHANGED <<exposed, acks>>

Acknowledge ==
  /\ verdict # Undecided
  /\ acks' = {verdict}
  /\ UNCHANGED <<exposed, verdict>>

(* The failing of the lock, and whatever comes after it. *)
Fail ==
  /\ ~intact'
  /\ exposed \subseteq exposed' /\ acks \subseteq acks'
  /\ verdict' # Undecided \/ acks' # {} => exposed' # {}

Deliver == \/ \E w \in Workers : Expose(w)
           \/ \E o \in Outcomes : Decide(o)
           \/ Acknowledge

Next == \/ intact /\ intact' /\ Deliver
        \/ Fail

Spec == Init /\ [][Next]_vars
=============================================================================
