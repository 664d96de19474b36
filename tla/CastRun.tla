------------------------------ MODULE CastRun -------------------------------
(***************************************************************************)
(* Running an organism cast: runOrganismCast() and the executor that       *)
(* spawns one child per lane (src/src/organism-cast.ts), the PTY bridge a  *)
(* Deep Code child runs under with its questions to a human                *)
(* (src/src/pty-bridge.ts), and the reading of those records afterwards    *)
(* (src/src/organism-cast-human-input.ts).  A run is one process; several  *)
(* may be started on the same run directory, any of them may die, and its  *)
(* detached children then go on without it.                                *)
(***************************************************************************)
EXTENDS Naturals, FiniteSets

CONSTANTS
  Runs,       \* calls of runOrganismCast() on one run directory
  Lanes,      \* the lanes of the manifest
  Bridged,    \* the lanes that run under the PTY bridge
  Questions,  \* texts a child may ask, by digest
  Oversized,  \* those of them whose record is too large for the reader
  NoRun

ASSUME BridgedAreLanes == Bridged \subseteq Lanes
ASSUME NoRunIsNone     == NoRun \notin Runs
ASSUME OversizedAreQuestions == Oversized \subseteq Questions

VARIABLES
  run,       \* per run: where it is, its timer, whether the deadline passed
  lane,      \* per run and lane: the executor's promise and its child
  records,   \* per lane, in the shared state directory: requests, responses
             \* and receipts of human input
  result,    \* cast-result.json
  done       \* DONE

runVars == <<run, lane, records, result, done>>

NoResult == [by |-> NoRun, completed |-> FALSE]

RunInit ==
  /\ run = [r \in Runs |-> [pc |-> "idle", timer |-> FALSE, deadline |-> FALSE]]
  /\ lane = [r \in Runs |-> [l \in Lanes |->
              [at |-> "none", ok |-> FALSE, active |-> {}, observed |-> {},
               blocked |-> FALSE, missed |-> FALSE]]]
  /\ records = [l \in Lanes |-> [requests |-> {}, responses |-> {}, receipts |-> {}]]
  /\ result = NoResult
  /\ done = NoRun

LanesAt(r, states) == {l \in Lanes : lane[r][l].at \in states}
-----------------------------------------------------------------------------
(* DONE and result must not exist.  The timer starts, then every executor. *)
BeginRun(r) ==
  /\ run[r].pc = "idle"
  /\ IF done = NoRun /\ result = NoResult
       THEN /\ run' = [run EXCEPT ![r].pc = "lanes", ![r].timer = TRUE]
            /\ lane' = [lane EXCEPT ![r] = [l \in Lanes |->
                         [@[l] EXCEPT !.at = "checking"]]]
       ELSE /\ run' = [run EXCEPT ![r].pc = "refused"]
            /\ UNCHANGED lane
  /\ UNCHANGED <<records, result, done>>

(* The human-input directories of the lane must be empty. *)
CheckFresh(r, l) ==
  /\ run[r].pc \in {"lanes", "rejected"} /\ lane[r][l].at = "checking"
  /\ LET fresh == /\ records[l].requests = {} /\ records[l].responses = {}
                  /\ records[l].receipts = {}
     IN lane' = [lane EXCEPT ![r][l].at = IF fresh THEN "fresh" ELSE "threw"]
  /\ UNCHANGED <<run, records, result, done>>

(* spawn(), and the listener for an abort that comes from now on; a child  *)
(* that cannot be spawned counts as one that failed.                       *)
SpawnLane(r, l) ==
  /\ run[r].pc \in {"lanes", "rejected"} /\ lane[r][l].at = "fresh"
  /\ \E at \in {"running", "resolved"} :
       lane' = [lane EXCEPT ![r][l].at = at]
  /\ UNCHANGED <<run, records, result, done>>

(* The timer fires.  A lane that listens sends its child SIGTERM, which    *)
(* may end it like anything else does; one that is not spawned yet starts  *)
(* to listen too late and never hears of it.                               *)
Deadline(r) ==
  /\ run[r].pc = "lanes" /\ run[r].timer
  /\ run' = [run EXCEPT ![r].timer = FALSE, ![r].deadline = TRUE]
  /\ UNCHANGED <<lane, records, result, done>>

(* The child ends: by itself, after SIGTERM, or for too much output.  What *)
(* is on its terminal stays unanswered.                                    *)
ChildEnds(r, l) ==
  /\ lane[r][l].at = "running"
  /\ \E ok \in BOOLEAN :
       lane' = [lane EXCEPT ![r][l].at = "closing", ![r][l].ok = ok,
                            ![r][l].active = {}]
  /\ UNCHANGED <<run, records, result, done>>
-----------------------------------------------------------------------------
(***************************************************************************)
(* The bridge: detect_human_input() writes a request for a question the    *)
(* bridge has not seen while none is active; accept_human_response() hands *)
(* the answer to the child and writes the receipt.                         *)
(***************************************************************************)
Ask(r, l, q) ==
  /\ l \in Bridged /\ lane[r][l].at = "running"
  /\ lane[r][l].active = {} /\ q \notin lane[r][l].observed
  /\ lane' = [lane EXCEPT ![r][l].active = {q}, ![r][l].observed = @ \cup {q}]
  /\ records' = [records EXCEPT ![l].requests = @ \cup {q}]
  /\ UNCHANGED <<run, result, done>>

HumanAnswers(l, q) ==
  /\ q \in records[l].requests
  /\ records' = [records EXCEPT ![l].responses = @ \cup {q}]
  /\ UNCHANGED <<run, lane, result, done>>

AcceptAnswer(r, l) ==
  /\ lane[r][l].at = "running"
  /\ \E q \in lane[r][l].active \cap records[l].responses :
       records' = [records EXCEPT ![l].receipts = @ \cup {q}]
  /\ lane' = [lane EXCEPT ![r][l].active = {}]
  /\ UNCHANGED <<run, result, done>>

(* readOrganismCastHumanInputEvents() skips what it cannot parse.  The     *)
(* bridge cuts a question after 8192 characters, the reader drops a record *)
(* of more than 16 KiB, or a question of more than 8192 UTF-16 units.      *)
Readable(l)   == records[l].requests \ Oversized
Unresolved(l) == ~ (Readable(l) \subseteq records[l].receipts)

(* The close handler reads the records and resolves the lane.  A request,  *)
(* or their directory, that cannot be read counts for nothing, and a       *)
(* receipt that cannot for a missing one.                                  *)
LaneResolves(r, l) ==
  /\ run[r].pc \in {"lanes", "rejected"} /\ lane[r][l].at = "closing"
  /\ \E blocked \in {Unresolved(l), Readable(l) # {}, FALSE} :
       lane' = [lane EXCEPT ![r][l].at = "resolved", ![r][l].blocked = blocked,
                            ![r][l].missed = Unresolved(l) /\ ~blocked]
  /\ UNCHANGED <<run, records, result, done>>
-----------------------------------------------------------------------------
(* An executor threw: the call rejects and clears the timer; the children  *)
(* of the other lanes are nobody's.                                        *)
RunRejects(r) ==
  /\ run[r].pc = "lanes" /\ LanesAt(r, {"threw"}) # {}
  /\ run' = [run EXCEPT ![r].pc = "rejected", ![r].timer = FALSE]
  /\ UNCHANGED <<lane, records, result, done>>

LanesSettle(r) ==
  /\ run[r].pc = "lanes" /\ LanesAt(r, {"resolved"}) = Lanes
  /\ run' = [run EXCEPT ![r].pc = "settled", ![r].timer = FALSE]
  /\ UNCHANGED <<lane, records, result, done>>

Completed(r) ==
  /\ ~run[r].deadline
  /\ \A l \in Lanes : lane[r][l].ok /\ ~lane[r][l].blocked

(* Fault: the temporary file is renamed over what is there. *)
ReplaceResult(r) ==
  /\ run[r].pc = "settled"
  /\ result' = [by |-> r, completed |-> Completed(r)]
  /\ run' = [run EXCEPT ![r].pc = IF Completed(r) THEN "linked" ELSE "returned"]
  /\ UNCHANGED <<lane, records, done>>

(* writeAtomicPrivateJson() links: the second of two runs fails here. *)
WriteResult(r) ==
  /\ run[r].pc = "settled"
  /\ IF result = NoResult
       THEN /\ result' = [by |-> r, completed |-> Completed(r)]
            /\ run' = [run EXCEPT ![r].pc =
                        IF Completed(r) THEN "linked" ELSE "returned"]
       ELSE run' = [run EXCEPT ![r].pc = "refused"] /\ UNCHANGED result
  /\ UNCHANGED <<lane, records, done>>

(* DONE names the digest of the result file as it is now. *)
WriteDone(r) ==
  /\ run[r].pc = "linked"
  /\ done = NoRun
  /\ done' = r
  /\ run' = [run EXCEPT ![r].pc = "returned"]
  /\ UNCHANGED <<lane, records, result>>

RunDies(r) ==
  /\ run[r].pc \notin {"idle", "refused", "returned", "dead"}
  /\ run' = [run EXCEPT ![r].pc = "dead", ![r].timer = FALSE]
  /\ UNCHANGED <<lane, records, result, done>>

RunNext ==
  \/ \E r \in Runs :
       \/ BeginRun(r) \/ Deadline(r) \/ RunRejects(r) \/ LanesSettle(r)
       \/ WriteResult(r) \/ WriteDone(r) \/ RunDies(r)
       \/ \E l \in Lanes :
            \/ CheckFresh(r, l) \/ SpawnLane(r, l) \/ ChildEnds(r, l)
            \/ AcceptAnswer(r, l) \/ LaneResolves(r, l)
            \/ \E q \in Questions : Ask(r, l, q)
  \/ \E l \in Lanes, q \in Questions : HumanAnswers(l, q)

RunSpec == RunInit /\ [][RunNext]_runVars
-----------------------------------------------------------------------------
(* DONE is earned: it belongs to the run whose result is on disk, which    *)
(* completed before its deadline with every lane at exit 0, and every      *)
(* question of that run that the reader admits has its receipt, unless the *)
(* disk failed the reader; also when another run of the same directory     *)
(* overlapped, died or was refused.  A question too long for the reader may *)
(* be left without an answer.                                              *)
DoneIsEarned ==
  done # NoRun =>
    /\ result = [by |-> done, completed |-> TRUE]
    /\ ~run[done].deadline
    /\ \A l \in Lanes :
         /\ lane[done][l].at = "resolved" /\ lane[done][l].ok
         /\ \/ lane[done][l].missed
            \/ lane[done][l].observed \ Oversized \subseteq records[l].receipts
=============================================================================
