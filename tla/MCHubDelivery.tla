--------------------------- MODULE MCHubDelivery ---------------------------
(***************************************************************************)
(* One hub event, one stop of the program, and either one session with a   *)
(* relay file next to the event, or two sessions and a relay that always   *)
(* answers that it has nothing: the first has an admission of several      *)
(* items that fails half way, the second two admissions that overlap.      *)
(***************************************************************************)
EXTENDS HubDelivery

CONSTANTS s1, s2, e1, f1

MCSessions == {s1, s2}

VARIABLE both

Allowed ==
  /\ both => page'.relay = {}
  /\ ~both => pc'[s2] = "idle"
  /\ both' = both

MCInit == Init /\ both \in BOOLEAN
MCNext == Next /\ Allowed
MCvars == <<vars, both>>

(* The fairness of HubDelivery, on the steps that are allowed.             *)
MCFairness ==
  /\ WF_MCvars(RefreshStep /\ Allowed) /\ SF_MCvars(Restore /\ Allowed)
  /\ \A s \in Sessions : WF_MCvars(SessionStep(s) /\ Allowed) /\ SF_MCvars(Poll(s) /\ Allowed)
  /\ \A a \in Actors : /\ WF_MCvars(FlushStep(a) /\ Allowed)
                      /\ \A e \in HubEvents : SF_MCvars(MarkRead(a, e) /\ Allowed)

MCSpec == MCInit /\ [][MCNext]_MCvars /\ MCFairness
=============================================================================
