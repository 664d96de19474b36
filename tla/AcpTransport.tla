---------------------------- MODULE AcpTransport ----------------------------
(***************************************************************************)
(* JSON-RPC with an ACP agent over its stdio: AcpNdjsonTransport and       *)
(* spawnAcpProcess() (src/src/acp-client.ts:130-424, 701-787).             *)
(* A request is pending until an answer, its timeout, its abort or the     *)
(* failure of the transport settles it; writes go out one after the other  *)
(* (writeTail) and wait for the agent to drain them; the read loop waits   *)
(* for the handler of an inbound request or notification.  The agent may   *)
(* answer late, twice or not at all, emit garbage, and die.                *)
(***************************************************************************)
EXTENDS Naturals, Sequences

CONSTANTS
  Dispatches,   \* requests of the client
  MaxAnswers    \* bound: answers the agent sends

ASSUME MaxAnswersIsNat == MaxAnswers \in Nat

VARIABLES
  failed,       \* failure is set, and with it closed
  waiting,      \* the map pending
  settled,      \* history: per request, how often its promise was settled
  outbox,       \* writeTail: messages not yet written
  received,     \* what the agent has read
  inbox,        \* lines of the agent not yet read
  answersSent,
  handling,     \* the read loop waits for a handler
  child, closing  \* the agent's process; how far close() of the connection is

transportVars == <<failed, waiting, settled, outbox, received, inbox, answersSent,
                   handling, child, closing>>

TransportInit ==
  /\ failed = FALSE /\ waiting = {} /\ settled = [i \in Dispatches |-> 0]
  /\ outbox = <<>> /\ received = {} /\ inbox = <<>> /\ answersSent = 0
  /\ handling = FALSE /\ child = "alive" /\ closing = "no"

Issued(i)  == i \in waiting \/ settled[i] > 0
Settles(S) == settled' = [i \in Dispatches |-> settled[i] + (IF i \in S THEN 1 ELSE 0)]

(* fail(): every pending promise is rejected, once. *)
Fails == failed' = TRUE /\ Settles(waiting) /\ waiting' = {}

Dispatch(i) ==
  /\ ~failed /\ ~Issued(i)
  /\ waiting' = waiting \cup {i} /\ outbox' = Append(outbox, <<"request", i>>)
  /\ UNCHANGED <<failed, settled, received, inbox, answersSent, handling, child, closing>>

(* A queued write of a failed transport throws, and so does one that waits *)
(* for an agent that has died to drain it; request() rejects what is still *)
(* pending.  A write that does not wait is lost with the agent; the error  *)
(* it causes has no listener then and may end the program at any time.     *)
WriteOut ==
  /\ outbox # <<>> /\ outbox' = Tail(outbox)
  /\ \/ /\ ~failed /\ child = "alive" /\ received' = received \cup {Head(outbox)}
        /\ UNCHANGED <<waiting, settled>>
     \/ ~failed /\ child = "dead" /\ UNCHANGED <<received, waiting, settled>>
     \/ /\ failed \/ child = "dead"
        /\ UNCHANGED received
        /\ LET gone == waiting \cap {Head(outbox)[2]} IN
           waiting' = waiting \ gone /\ Settles(gone)
  /\ UNCHANGED <<failed, inbox, answersSent, handling, child, closing>>

(* The timeout or the abort of a request that is still pending.            *)
RejectLocally(i) ==
  /\ i \in waiting /\ Settles({i}) /\ waiting' = waiting \ {i}
  /\ outbox' = IF failed THEN outbox ELSE Append(outbox, <<"cancel", i>>)

TimesOut(i) ==
  /\ RejectLocally(i)
  /\ UNCHANGED <<failed, received, inbox, answersSent, handling, child, closing>>

AgentAnswers(i) ==
  /\ child = "alive" /\ <<"request", i>> \in received /\ answersSent < MaxAnswers
  /\ inbox' = Append(inbox, <<"answer", i>>) /\ answersSent' = answersSent + 1
  /\ UNCHANGED <<failed, waiting, settled, outbox, received, handling, child, closing>>

AgentCalls ==
  /\ child = "alive" /\ answersSent < MaxAnswers
  /\ \E line \in {<<"call", 0>>, <<"garbage", 0>>} : inbox' = Append(inbox, line)
  /\ answersSent' = answersSent + 1
  /\ UNCHANGED <<failed, waiting, settled, outbox, received, handling, child, closing>>

(* consumeLine(): an answer nobody waits for is dropped; a line that is no *)
(* message fails the transport; a call is handed to its handler.           *)
ReadLine ==
  /\ inbox # <<>> /\ ~handling /\ inbox' = Tail(inbox)
  /\ LET kind == Head(inbox)[1]
         i    == Head(inbox)[2] IN
     \/ /\ kind = "answer" /\ i \in waiting
        /\ waiting' = waiting \ {i} /\ Settles({i}) /\ UNCHANGED <<failed, handling>>
     \/ /\ kind = "answer" /\ i \notin waiting
        /\ UNCHANGED <<waiting, settled, failed, handling>>
     \/ /\ kind = "garbage" /\ ~failed /\ Fails /\ UNCHANGED handling
     \/ /\ kind = "garbage" /\ failed /\ UNCHANGED <<waiting, settled, failed, handling>>
     \/ /\ kind = "call" /\ handling' = TRUE /\ UNCHANGED <<waiting, settled, failed>>
  /\ UNCHANGED <<outbox, received, answersSent, child, closing>>

(* The handler's result or error is written; a notification handler that   *)
(* throws fails the transport.                                             *)
HandlerReturns ==
  /\ handling /\ handling' = FALSE
  /\ \/ /\ outbox' = IF failed THEN outbox ELSE Append(outbox, <<"reply", 0>>)
        /\ UNCHANGED <<failed, waiting, settled>>
     \/ ~failed /\ Fails /\ UNCHANGED outbox
  /\ UNCHANGED <<received, inbox, answersSent, child, closing>>

ChildDies ==
  /\ child = "alive" /\ child' = "dead"
  /\ UNCHANGED <<failed, waiting, settled, outbox, received, inbox, answersSent, handling, closing>>

EndOfOutput ==
  /\ child = "dead" /\ inbox = <<>> /\ ~handling /\ ~failed /\ Fails
  /\ UNCHANGED <<outbox, received, inbox, answersSent, handling, child, closing>>

(***************************************************************************)
(* close() of the connection: the transport first, then half a second, a   *)
(* SIGTERM, a second, a SIGKILL.  A child that ended is not signalled.     *)
(***************************************************************************)
CloseBegins ==
  /\ closing = "no" /\ closing' = "ending"
  /\ IF failed THEN UNCHANGED <<failed, waiting, settled>> ELSE Fails
  /\ UNCHANGED <<outbox, received, inbox, answersSent, handling, child>>

After(step) == CASE step = "ending" -> "grace" [] step = "grace" -> "terminated"
                 [] step = "terminated" -> "killed"

CloseGoesOn ==
  /\ closing \in {"ending", "grace", "terminated"}
  /\ closing' = IF child = "dead" THEN "closed" ELSE After(closing)
  /\ UNCHANGED <<failed, waiting, settled, outbox, received, inbox, answersSent, handling, child>>

CloseAwaitsExit ==
  /\ closing = "killed" /\ child = "dead" /\ closing' = "closed"
  /\ UNCHANGED <<failed, waiting, settled, outbox, received, inbox, answersSent, handling, child>>

TransportNext ==
  \/ \E i \in Dispatches : Dispatch(i) \/ TimesOut(i) \/ AgentAnswers(i)
  \/ WriteOut \/ AgentCalls \/ ReadLine \/ HandlerReturns \/ ChildDies \/ EndOfOutput
  \/ CloseBegins \/ CloseGoesOn \/ CloseAwaitsExit

TransportSpec == TransportInit /\ [][TransportNext]_transportVars
-----------------------------------------------------------------------------
(* Whichever of the answer, a second answer, the timeout, the abort and    *)
(* the failure of the transport comes first settles a request, and no      *)
(* other does; after a failure nobody waits; and close() returns only when *)
(* the agent's process has ended.                                          *)
RequestsSettleOnce ==
  /\ \A i \in Dispatches : settled[i] + (IF i \in waiting THEN 1 ELSE 0) <= 1
  /\ failed => waiting = {}
  /\ closing = "closed" => child = "dead"
=============================================================================
