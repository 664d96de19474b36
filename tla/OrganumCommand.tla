--------------------------- MODULE OrganumCommand ---------------------------
(***************************************************************************)
(* A call of the Organum CLI client (organum-cli.ts): the request is       *)
(* checked, a child process is started with a time limit, output limits    *)
(* and an abort signal, and what it prints is checked against the request  *)
(* before the caller sees it.  A call that gives up stops the child and    *)
(* waits for it, so that a retry never runs beside it.                     *)
(*                                                                         *)
(* The child is Organum's own command: it acts on the shared field, prints *)
(* an answer and exits, with code 0 only after it did both.  Its answer    *)
(* may be for another member, lack a field, or be no JSON at all; it may   *)
(* leave a process behind that holds its pipes open.                       *)
(***************************************************************************)
EXTENDS Naturals

CONSTANTS MaxCommands   \* bound: calls one after the other

ASSUME CommandAssumption == MaxCommands \in Nat \ {0}

VARIABLES
  command,      \* the call in progress, or the last one
  commands,     \* calls made
  cli,          \* "none", "running", "exited" or "closed"
  acted,        \* the child has changed the field
  printed,      \* what its standard output holds
  code,         \* its exit code
  heldOpen,     \* a process it left behind holds its pipes
  forced,       \* forcedError
  timing,       \* the time limit is armed
  killing,      \* the kill timer is armed
  listening,    \* the abort listener is registered
  answered,     \* the outcome, or "no"
  settlements   \* how often the promise of this call was settled

commandVars ==
  <<command, commands, cli, acted, printed, code, heldOpen, forced, timing, killing, listening,
    answered, settlements>>

childVars == <<cli, acted, printed, code, heldOpen>>
hostVars  == <<forced, timing, killing, listening, answered, settlements>>

(***************************************************************************)
(* The operations: whether they act, whether their answer is read, whether *)
(* it must name the caller, and whether a request can break a rule that is *)
(* checked before anything runs.                                           *)
(***************************************************************************)
Op(name, acts, answers, bound, refuses) ==
  [name |-> name, acts |-> acts, answers |-> answers, bound |-> bound, refuses |-> refuses]

Join          == Op("join", TRUE, TRUE, TRUE, TRUE)
ReadField     == Op("read", FALSE, TRUE, FALSE, FALSE)
CurrentGoal   == Op("goal", FALSE, TRUE, FALSE, FALSE)
ReadHubInbox  == Op("inbox", FALSE, TRUE, TRUE, TRUE)
MarkHubRead   == Op("ack", TRUE, TRUE, TRUE, TRUE)
SendHub       == Op("send", TRUE, TRUE, TRUE, TRUE)
SessionStatus == Op("status", FALSE, TRUE, FALSE, FALSE)
PublishField  == Op("publish", TRUE, TRUE, TRUE, FALSE)
SendRelay     == Op("relay", TRUE, TRUE, TRUE, TRUE)
Effect        == Op("effect", TRUE, FALSE, FALSE, TRUE)

Commands ==
  {Join, ReadField, CurrentGoal, ReadHubInbox, MarkHubRead, SendHub, SessionStatus, PublishField,
   SendRelay, Effect}

CommandInit ==
  /\ command = ReadField /\ commands = 0
  /\ cli = "none" /\ acted = FALSE /\ printed = "nothing" /\ code = 0 /\ heldOpen = FALSE
  /\ forced = "none" /\ timing = FALSE /\ killing = FALSE /\ listening = FALSE
  /\ answered = "idle" /\ settlements = 0

SettleCall(how) == answered' = how /\ settlements' = settlements + 1

(* Refused before anything runs: an inadmissible argument, or a signal     *)
(* that is aborted already.                                                *)
RefuseCall(op, why) ==
  /\ answered # "no" /\ commands < MaxCommands
  /\ why = "contract" => op.refuses
  /\ command' = op /\ commands' = commands + 1
  /\ cli' = "none" /\ acted' = FALSE /\ printed' = "nothing" /\ code' = 0 /\ heldOpen' = FALSE
  /\ answered' = why /\ settlements' = 1
  /\ UNCHANGED <<forced, timing, killing, listening>>

Run(op) ==
  /\ answered # "no" /\ commands < MaxCommands
  /\ command' = op /\ commands' = commands + 1
  /\ cli' = "running" /\ acted' = FALSE /\ printed' = "nothing" /\ code' = 0 /\ heldOpen' = FALSE
  /\ forced' = "none" /\ timing' = TRUE /\ killing' = FALSE /\ listening' = TRUE
  /\ answered' = "no" /\ settlements' = 0

(***************************************************************************)
(* The child.                                                              *)
(***************************************************************************)
Act ==
  /\ cli = "running" /\ command.acts /\ ~acted
  /\ acted' = TRUE
  /\ UNCHANGED <<command, commands, cli, printed, code, heldOpen, hostVars>>

PrintAnswer(text) ==
  /\ cli = "running" /\ command.answers /\ printed = "nothing" /\ (command.acts => acted)
  /\ text = "other" => command.bound
  /\ printed' = text
  /\ UNCHANGED <<command, commands, cli, acted, code, heldOpen, hostVars>>

Detach ==
  /\ cli = "running" /\ ~heldOpen
  /\ heldOpen' = TRUE
  /\ UNCHANGED <<command, commands, cli, acted, printed, code, hostVars>>

Release ==
  /\ heldOpen /\ heldOpen' = FALSE
  /\ UNCHANGED <<command, commands, cli, acted, printed, code, hostVars>>

ExitOfChild(c) ==
  /\ cli = "running"
  /\ c = 0 => (command.acts => acted) /\ (command.answers => printed # "nothing")
  /\ cli' = "exited" /\ code' = c
  /\ UNCHANGED <<command, commands, acted, printed, heldOpen, hostVars>>

(***************************************************************************)
(* The host.                                                               *)
(***************************************************************************)
(* finish(): the first settlement counts, and takes the timers down.       *)
FinishCall(how) ==
  IF answered = "no"
  THEN SettleCall(how) /\ timing' = FALSE /\ killing' = FALSE /\ listening' = FALSE
  ELSE UNCHANGED <<answered, settlements, timing, killing, listening>>

(* Fault: the call is given up at once.                                    *)
FailAtOnce(why) ==
  /\ forced' = (IF forced = "none" THEN why ELSE forced)
  /\ FinishCall(why)

(* failAndStop: the child is asked to end; the call waits for it.  The     *)
(* first reason counts.                                                    *)
FailAndStop(why) ==
  /\ forced' = (IF forced = "none" THEN why ELSE forced)
  /\ killing' = (killing \/ forced = "none")
  /\ timing' = (timing /\ why # "timeout")
  /\ UNCHANGED <<listening, answered, settlements>>

TimeOut ==
  /\ timing
  /\ FailAndStop("timeout")
  /\ UNCHANGED <<command, commands, childVars>>

AbortCall ==
  /\ listening /\ forced = "none"
  /\ FailAndStop("aborted")
  /\ UNCHANGED <<command, commands, childVars>>

(* More output than is admitted, on either stream.                         *)
Overflow ==
  /\ cli \in {"running", "exited"} /\ forced = "none"
  /\ FailAndStop("output_limit")
  /\ UNCHANGED <<command, commands, childVars>>

(* Stopped by SIGTERM, or by the SIGKILL of the kill timer.                *)
Terminated ==
  /\ cli = "running" /\ forced # "none"
  /\ cli' = "exited" /\ code' = 1
  /\ killing' \in {killing, FALSE}
  /\ UNCHANGED <<command, commands, acted, printed, heldOpen, forced, timing, listening, answered,
                 settlements>>

(* The "error" event of a child that could not be started.                 *)
SpawnFails ==
  /\ cli = "running" /\ ~acted /\ printed = "nothing" /\ ~heldOpen
  /\ cli' = "none" /\ FinishCall("spawn")
  /\ UNCHANGED <<command, commands, acted, printed, code, heldOpen, forced>>

(* What an answer is checked for before the caller sees it: its fields,    *)
(* the names of the files in it, and that it is for the caller.            *)
HasItsFields(text)       == text # "partial"
NamesPlainFiles(text)    == text # "unsafe"
IsForTheCaller(op, text) == op.bound => text # "other"

(* What the end of the child is worth.                                     *)
Outcome ==
  IF forced # "none" THEN forced
  ELSE IF code # 0 THEN "exit"
  ELSE IF ~command.answers THEN "resolved"
  ELSE IF printed = "garbage" THEN "invalid_json"
  ELSE IF HasItsFields(printed) /\ NamesPlainFiles(printed) /\ IsForTheCaller(command, printed)
       THEN "resolved" ELSE "contract"

(* The "close" event: the child is gone and so are its pipes.              *)
Close ==
  /\ cli = "exited" /\ ~heldOpen
  /\ cli' = "closed"
  /\ FinishCall(Outcome)
  /\ UNCHANGED <<command, commands, acted, printed, code, heldOpen, forced>>

CommandNext ==
  \/ \E op \in Commands :
       Run(op) \/ \E why \in {"contract", "aborted"} : RefuseCall(op, why)
  \/ Act \/ Detach \/ Release
  \/ \E text \in {"own", "other", "partial", "unsafe", "garbage"} : PrintAnswer(text)
  \/ \E c \in {0, 1} : ExitOfChild(c)
  \/ TimeOut \/ AbortCall \/ Overflow \/ Terminated \/ SpawnFails \/ Close

CommandSpec == CommandInit /\ [][CommandNext]_commandVars

(***************************************************************************)
(* Properties.                                                             *)
(***************************************************************************)
(* A call settles once; when it has, its child and its timers are gone, so *)
(* that no retry runs beside it; it is refused in advance only with        *)
(* nothing done; and it resolves only if the command acted and its answer  *)
(* is the answer to this request (organum-cli.ts executeOrganumCommand and *)
(* the checks after json()).                                               *)
CommandsSettleOnce ==
  /\ settlements <= 1
  /\ answered # "no" => cli \in {"none", "closed"} /\ ~timing /\ ~killing /\ ~listening
  /\ answered # "no" /\ cli = "none" => ~acted
  /\ answered = "resolved" =>
       /\ command.acts => acted
       /\ command.answers => printed = "own"
=============================================================================
