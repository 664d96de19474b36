-------------------------- MODULE ProductHostProofs -------------------------
(***************************************************************************)
(* Proofs about the other machines around a launch, and about all of them  *)
(* together. The machines share no state: every behaviour of the host is   *)
(* one of each of them (HostIsItsMachines), so that what is true of two of *)
(* them is true of the host, in whatever order they move.                  *)
(***************************************************************************)
EXTENDS
  ProductHost, NativeHostProofs, FiniteSetTheorems, SequenceTheorems,
  WellFoundedInduction

(***************************************************************************)
(* AcpTransport: requests to the agent settle once.                        *)
(***************************************************************************)
(* What waits is dispatched, and settles once.                             *)
TransportInv ==
  /\ failed \in BOOLEAN /\ waiting \subseteq Dispatches /\ settled \in [Dispatches -> Nat]
  /\ RequestsSettleOnce

LEMMA TransportInitInv == TransportInit => TransportInv
<1> SUFFICES ASSUME TransportInit PROVE TransportInv
  OBVIOUS
<1>1. ASSUME NEW i \in Dispatches PROVE settled[i] = 0 /\ i \notin waiting
  BY DEF TransportInit
<1>2. ASSUME NEW i \in Dispatches PROVE settled[i] + (IF i \in waiting THEN 1 ELSE 0) <= 1
  BY <1>1
<1>3. RequestsSettleOnce
  BY <1>2 DEF TransportInit, RequestsSettleOnce
<1> QED BY <1>3 DEF TransportInit, TransportInv

(* Whoever settles requests that wait, and stops their waiting, settles    *)
(* each of them once.                                                      *)
LEMMA SettlingKeeps ==
  ASSUME TransportInv, NEW S \in SUBSET waiting, Settles(S), waiting' = waiting \ S,
         failed' = failed \/ S = waiting, failed' \in BOOLEAN,
         closing' = "closed" => child' = "dead"
  PROVE  TransportInv'
<1>1. /\ settled' \in [Dispatches -> Nat] /\ waiting' \subseteq Dispatches
  BY DEF TransportInv, Settles
<1>2. ASSUME NEW i \in Dispatches PROVE settled'[i] + (IF i \in waiting' THEN 1 ELSE 0) <= 1
  <2>1. /\ settled'[i] = settled[i] + (IF i \in S THEN 1 ELSE 0) /\ settled[i] \in Nat
        /\ settled[i] + (IF i \in waiting THEN 1 ELSE 0) <= 1
    BY DEF TransportInv, Settles, RequestsSettleOnce
  <2> QED BY <2>1
<1>3. failed' => waiting' = {}
  BY DEF TransportInv, RequestsSettleOnce
<1> QED BY <1>1, <1>2, <1>3 DEF TransportInv, RequestsSettleOnce

LEMMA TransportStep == TransportInv /\ [TransportNext]_transportVars => TransportInv'
<1> SUFFICES ASSUME TransportInv, [TransportNext]_transportVars PROVE TransportInv'
  OBVIOUS
<1> DEFINE Silent == UNCHANGED <<failed, waiting, settled>>
           Ended == closing' = "closed" => child' = "dead"
<1>0. ASSUME Silent, Ended PROVE TransportInv'
  BY <1>0 DEF TransportInv, RequestsSettleOnce
<1>1. ASSUME Fails, Ended PROVE TransportInv'
  BY <1>1, SettlingKeeps DEF Fails
<1>2. closing = "closed" => child = "dead"
  BY DEF TransportInv, RequestsSettleOnce
<1>3. ASSUME NEW i \in Dispatches, Dispatch(i) PROVE TransportInv'
  <2>1. /\ settled[i] = 0 /\ i \notin waiting /\ ~failed /\ settled' = settled
        /\ waiting' = waiting \cup {i} /\ failed' = failed /\ closing' = closing /\ child' = child
    BY <1>3 DEF Dispatch, Issued, TransportInv
  <2>2. ASSUME NEW j \in Dispatches PROVE settled'[j] + (IF j \in waiting' THEN 1 ELSE 0) <= 1
    BY <2>1 DEF TransportInv, RequestsSettleOnce
  <2> QED BY <1>2, <2>1, <2>2 DEF TransportInv, RequestsSettleOnce
<1>4. ASSUME NEW i \in Dispatches, TimesOut(i) PROVE TransportInv'
  <2>1. /\ {i} \in SUBSET waiting /\ Settles({i}) /\ waiting' = waiting \ {i} /\ failed' = failed
        /\ failed = FALSE /\ closing' = closing /\ child' = child
    BY <1>4 DEF TimesOut, RejectLocally, TransportInv, RequestsSettleOnce
  <2> QED BY <1>2, <2>1, SettlingKeeps
<1>5. ASSUME NEW i \in Dispatches, AgentAnswers(i) PROVE TransportInv'
  BY <1>0, <1>2, <1>5 DEF AgentAnswers
<1>6. CASE WriteOut
  <2>1. failed' = failed /\ closing' = closing /\ child' = child /\ Ended
    BY <1>2, <1>6 DEF WriteOut
  <2>2. CASE UNCHANGED <<waiting, settled>>
    BY <1>0, <2>1, <2>2
  <2>3. ASSUME NEW gone \in SUBSET waiting, waiting' = waiting \ gone, Settles(gone)
        PROVE  TransportInv'
    <3>1. CASE failed
      <4>1. waiting = {}
        BY <3>1 DEF TransportInv, RequestsSettleOnce
      <4> QED BY <2>1, <2>3, <4>1, SettlingKeeps DEF TransportInv
    <3>2. CASE ~failed
      BY <2>1, <2>3, <3>2, SettlingKeeps DEF TransportInv
    <3> QED BY <3>1, <3>2
  <2> QED BY <1>6, <2>2, <2>3 DEF WriteOut
<1>7. CASE AgentCalls
  BY <1>0, <1>2, <1>7 DEF AgentCalls
<1>8. CASE ReadLine
  <2>1. closing' = closing /\ child' = child /\ Ended
    BY <1>2, <1>8 DEF ReadLine
  <2>2. \/ Silent \/ Fails
        \/ \E i \in waiting : waiting' = waiting \ {i} /\ Settles({i}) /\ failed' = failed
    BY <1>8 DEF ReadLine
  <2>3. ASSUME NEW i \in waiting, waiting' = waiting \ {i}, Settles({i}), failed' = failed
        PROVE  TransportInv'
    <3>1. {i} \in SUBSET waiting /\ failed = FALSE
      BY <2>3 DEF TransportInv, RequestsSettleOnce
    <3> QED BY <2>1, <2>3, <3>1, SettlingKeeps
  <2> QED BY <1>0, <1>1, <2>1, <2>2, <2>3
<1>9. CASE HandlerReturns
  <2>1. Ended /\ (Silent \/ Fails)
    BY <1>2, <1>9 DEF HandlerReturns
  <2> QED BY <1>0, <1>1, <2>1
<1>10. CASE ChildDies
  BY <1>0, <1>10 DEF ChildDies
<1>11. CASE EndOfOutput
  BY <1>1, <1>11 DEF EndOfOutput
<1>12. CASE CloseBegins
  <2>1. Ended /\ (Silent \/ Fails)
    BY <1>12 DEF CloseBegins
  <2> QED BY <1>0, <1>1, <2>1
<1>13. CASE CloseGoesOn
  BY <1>0, <1>13 DEF CloseGoesOn, After
<1>14. CASE CloseAwaitsExit
  BY <1>0, <1>14 DEF CloseAwaitsExit
<1>15. CASE UNCHANGED transportVars
  BY <1>0, <1>2, <1>15 DEF transportVars
<1> QED BY <1>3, <1>4, <1>5, <1>6, <1>7, <1>8, <1>9, <1>10, <1>11, <1>12, <1>13, <1>14,
           <1>15 DEF TransportNext

(* Whichever of answer, timeout, abort and failure comes first settles a   *)
(* request to the ACP agent, and no other does (acp-client.ts).            *)
THEOREM TransportInvariance == TransportSpec => []TransportInv
  BY TransportInitInv, TransportStep, PTL DEF TransportSpec

(***************************************************************************)
(* OrganumCommand: calls of the command settle once.                       *)
(***************************************************************************)
(* What has become of the child while the call is still open, and what its *)
(* clean exit is worth.                                                    *)
CommandInv ==
  /\ command \in Commands
  /\ forced \in {"none", "timeout", "aborted", "output_limit"}
  /\ printed \in {"nothing", "own", "other", "partial", "unsafe", "garbage"}
  /\ answered = "no" => settlements = 0
  /\ printed = "other" => command.bound
  /\ cli = "exited" /\ code = 0 =>
       (command.acts => acted) /\ (command.answers => printed # "nothing")
  /\ CommandsSettleOnce

LEMMA CommandInitInv == CommandInit => CommandInv
  BY DEF CommandInit, CommandInv, CommandsSettleOnce, Commands

LEMMA CommandStep == CommandInv /\ [CommandNext]_commandVars => CommandInv'
<1> SUFFICES ASSUME CommandInv, [CommandNext]_commandVars PROVE CommandInv'
  OBVIOUS
<1> USE DEF CommandInv, CommandsSettleOnce, childVars, hostVars, FinishCall, FailAndStop, SettleCall
<1>1. ASSUME NEW op \in Commands, Run(op) PROVE CommandInv'
  BY <1>1 DEF Run
<1>2. ASSUME NEW op \in Commands, NEW why \in {"contract", "aborted"}, RefuseCall(op, why) PROVE CommandInv'
  BY <1>2 DEF RefuseCall
<1>3. ASSUME NEW text \in {"own", "other", "partial", "unsafe", "garbage"}, PrintAnswer(text) PROVE CommandInv'
  BY <1>3 DEF PrintAnswer
<1>4. ASSUME NEW c \in {0, 1}, ExitOfChild(c) PROVE CommandInv'
  BY <1>4 DEF ExitOfChild
<1>5. CASE Act BY <1>5 DEF Act
<1>6. CASE Detach BY <1>6 DEF Detach
<1>7. CASE Release BY <1>7 DEF Release
<1>8. CASE TimeOut BY <1>8 DEF TimeOut
<1>9. CASE AbortCall BY <1>9 DEF AbortCall
<1>10. CASE Overflow BY <1>10 DEF Overflow
<1>11. CASE Terminated BY <1>11 DEF Terminated
<1>12. CASE SpawnFails BY <1>12 DEF SpawnFails
<1>13. CASE Close
  <2>1. answered = "no" /\ answered' = Outcome
    BY <1>13 DEF Close
  <2>2. /\ Outcome # "no"
        /\ Outcome = "resolved" =>
             (command.acts => acted) /\ (command.answers => printed = "own")
    BY <1>13 DEF Close, Outcome, HasItsFields, NamesPlainFiles, IsForTheCaller
  <2> QED BY <1>13, <2>1, <2>2 DEF Close
<1>14. CASE UNCHANGED commandVars BY <1>14 DEF commandVars
<1> QED BY <1>1, <1>2, <1>3, <1>4, <1>5, <1>6, <1>7, <1>8, <1>9, <1>10, <1>11, <1>12, <1>13,
           <1>14 DEF CommandNext

(* A call of the Organum command settles once, and resolves only with what *)
(* its child did and printed (organum-cli.ts).                             *)
THEOREM CommandInvariance == CommandSpec => []CommandInv
  BY CommandInitInv, CommandStep, PTL DEF CommandSpec

(***************************************************************************)
(* ReleaseInstallation: an installation is whole, or as it was.            *)
(***************************************************************************)
StoredContents == {"absent", "empty", "whole"}
Ledgers ==
  [generation : Nat, active : Releases \cup {NoRelease}, previous : Releases \cup {NoRelease},
   releases : SUBSET Releases]
Steps ==
  {"idle", "check", "archive", "copy", "activate", "write", "restore", "cleanup", "remove", "done",
   "failed"}
Runs ==
  [verb : Verbs, target : Releases \cup {NoRelease}, pc : Steps, archived : BOOLEAN,
   twice : BOOLEAN,
   found : [state : Ledgers, exe : Releases \cup {NoRelease, Unmanaged},
            stored : [Releases -> StoredContents]]]

(* A ledger that is there names the releases it knows as active and as the *)
(* one before.                                                             *)
LedgerOk(s) ==
  IF s.generation = 0 THEN s = NotInstalled
  ELSE /\ s.active \in s.releases
       /\ s.previous \in s.releases \cup {NoRelease}

InstallTypes ==
  /\ installState \in Ledgers /\ LedgerOk(installState)
  /\ executable \in Releases \cup {NoRelease, Unmanaged}
  /\ stored \in [Releases -> StoredContents] /\ verbRun \in Runs

Changing == {"archive", "copy", "activate", "write", "restore", "cleanup"}
Working  == Changing \cup {"remove"}

AllStored == \A r \in installState.releases : stored[r] = "whole"

(* A command that changes files began with an installation that verified,  *)
(* or with none, and every release of the ledger is stored.                *)
ChangingInv ==
  /\ verbRun.verb \in {"install", "upgrade"} => verbRun.target \in Releases
  /\ At("remove") => verbRun.verb = "uninstall"
  /\ verbRun.pc \in Changing =>
       /\ verbRun.verb \in {"install", "upgrade", "rollback"} /\ AllStored
       /\ verbRun.verb = "rollback" => installState.previous # NoRelease
  /\ verbRun.pc \in {"archive", "copy"} => verbRun.verb # "rollback"
  /\ verbRun.pc \in {"archive", "copy"} /\ Installed => executable = installState.active
  /\ At("copy") => verbRun.target \notin installState.releases
  /\ verbRun.pc \in {"activate", "write"} => stored[NextActive] = "whole"
  /\ At("write") => executable = NextActive
  /\ verbRun.archived /\ verbRun.pc \in Changing =>
       verbRun.target \notin installState.releases

(* What it found is still there until it changes it.                       *)
FoundInv ==
  /\ verbRun.pc \in {"check", "archive", "copy", "activate"} =>
       installState = verbRun.found.state /\ executable = verbRun.found.exe
  /\ At("check") => stored = verbRun.found.stored
  /\ At("check") => ~verbRun.twice /\ ~verbRun.archived
  /\ verbRun.pc \in {"write", "restore", "cleanup"} => installState = verbRun.found.state
  /\ verbRun.pc \in Working => verbRun.found.exe = verbRun.found.state.active
  /\ At("cleanup") /\ ~verbRun.twice => executable = verbRun.found.exe

InstallInv == InstallTypes /\ ChangingInv /\ FoundInv /\ InstallIsWhole

LEMMA InstallIdle == Idle \in Runs
<1>1. NotInstalled \in Ledgers
  BY DEF NotInstalled, Ledgers
<1>2. [r \in Releases |-> "absent"] \in [Releases -> StoredContents]
  BY DEF StoredContents
<1>3. [state |-> NotInstalled, exe |-> NoRelease, stored |-> [r \in Releases |-> "absent"]]
      \in [state : Ledgers, exe : Releases \cup {NoRelease, Unmanaged},
           stored : [Releases -> StoredContents]]
  BY <1>1, <1>2
<1> QED BY <1>3 DEF Idle, Runs, Verbs, Steps

LEMMA InstallInitInv == InstallInit => InstallInv
<1> SUFFICES ASSUME InstallInit PROVE InstallInv
  OBVIOUS
<1>1. NotInstalled \in Ledgers
  BY DEF NotInstalled, Ledgers
<1>2. Idle \in Runs
  BY InstallIdle
<1>3. /\ Idle.pc = "idle" /\ Idle.found.exe = NoRelease /\ Idle.found.state.active = NoRelease
      /\ NotInstalled.generation = 0
  BY DEF Idle, NotInstalled
<1>4. InstallTypes
  BY <1>1, <1>2, <1>3 DEF InstallInit, InstallTypes, LedgerOk, StoredContents
<1>5. ChangingInv /\ FoundInv
  BY <1>3 DEF InstallInit, ChangingInv, FoundInv, Changing, Working, At, Idle
<1>6. InstallIsWhole
  BY <1>3 DEF InstallInit, InstallIsWhole, RegisteredIsStored, FailureChangesNothing,
              DriftIsLeftAlone, At, Installed
<1> QED BY <1>4, <1>5, <1>6 DEF InstallInv

(* The command goes on to l and is otherwise what it was. *)
SameCommand ==
  /\ verbRun'.verb = verbRun.verb /\ verbRun'.target = verbRun.target
  /\ verbRun'.archived = verbRun.archived /\ verbRun'.twice = verbRun.twice
  /\ verbRun'.found = verbRun.found

LEMMA OnwardEdit ==
  ASSUME verbRun \in Runs, NEW l \in Steps, Onward(l)
  PROVE  verbRun' \in Runs /\ verbRun'.pc = l /\ SameCommand
  BY DEF Onward, Runs, SameCommand

LEMMA InstallStep == InstallInv /\ [InstallNext]_installVars => InstallInv'
<1> SUFFICES ASSUME InstallInv, [InstallNext]_installVars PROVE InstallInv'
  OBVIOUS
<1>0. /\ verbRun \in Runs /\ installState \in Ledgers /\ LedgerOk(installState)
      /\ stored \in [Releases -> StoredContents] /\ executable \in Releases \cup {NoRelease, Unmanaged}
      /\ verbRun.verb \in Verbs /\ verbRun.target \in Releases \cup {NoRelease}
      /\ verbRun.twice \in BOOLEAN
  BY DEF InstallInv, InstallTypes, Runs
<1>00. /\ ~Installed => installState = NotInstalled /\ installState.releases = {}
                        /\ installState.active = NoRelease
       /\ Installed => installState.active \in installState.releases
       /\ installState.releases \subseteq Releases
       /\ installState.previous \in installState.releases \cup {NoRelease}
  BY <1>0 DEF Installed, Ledgers, LedgerOk, NotInstalled
<1>1. ASSUME NEW v \in Verbs, NEW t \in Releases \cup {NoRelease},
                NEW d \in {{}} \cup {{x} : x \in Drifts}, Begin(v, t, d) PROVE InstallInv'
  <2>1. /\ verbRun.pc = "idle" /\ verbRun' \in Runs /\ verbRun'.pc \in {"check", "failed"}
        /\ verbRun'.verb = v /\ verbRun'.target = t /\ ~verbRun'.archived /\ ~verbRun'.twice
        /\ v \in {"install", "upgrade"} => t \in Releases
        /\ verbRun'.found = [state |-> installState, exe |-> executable, stored |-> stored]
        /\ installState' = installState /\ executable' = executable /\ stored' = stored
    <3> DEFINE f == [state |-> installState, exe |-> executable, stored |-> stored]
               r == [verb |-> v, target |-> t, archived |-> FALSE, twice |-> FALSE,
                     pc |-> IF VerifiedBundle(d) THEN "check" ELSE "failed", found |-> f]
    <3>1. f \in [state : Ledgers, exe : Releases \cup {NoRelease, Unmanaged},
                 stored : [Releases -> StoredContents]]
      BY <1>0
    <3>2. r \in Runs
      <4> HIDE DEF f
      <4> QED BY <3>1 DEF Runs, Steps
    <3>3. verbRun' = r /\ verbRun.pc = "idle" /\ DiskKept
      BY <1>1 DEF Begin, At
    <3>4. v \in {"install", "upgrade"} => t \in Releases
      BY <1>1 DEF Begin
    <3> QED BY <3>2, <3>3, <3>4 DEF DiskKept
  <2>20. InstallTypes'
    BY <1>0, <1>00, <2>1 DEF InstallTypes, StoredContents
  <2>21. ChangingInv'
    BY <1>0, <1>00, <2>1, ReleaseAssumption
    DEF InstallInv, ChangingInv, FoundInv, InstallIsWhole, RegisteredIsStored,
        FailureChangesNothing, DriftIsLeftAlone, Changing, Working, AllStored, At,
        NextActive, Installed
  <2>22. FoundInv'
    BY <1>0, <1>00, <2>1, ReleaseAssumption
    DEF InstallInv, ChangingInv, FoundInv, InstallIsWhole, RegisteredIsStored,
        FailureChangesNothing, DriftIsLeftAlone, Changing, Working, AllStored, At,
        NextActive, Installed
  <2>23. RegisteredIsStored'
    BY <1>0, <1>00, <2>1, ReleaseAssumption
    DEF InstallInv, ChangingInv, FoundInv, InstallIsWhole, RegisteredIsStored,
        FailureChangesNothing, DriftIsLeftAlone, Changing, Working, AllStored, At,
        NextActive, Installed
  <2>24. FailureChangesNothing' /\ DriftIsLeftAlone'
    BY <1>0, <1>00, <2>1, ReleaseAssumption
    DEF InstallInv, ChangingInv, FoundInv, InstallIsWhole, RegisteredIsStored,
        FailureChangesNothing, DriftIsLeftAlone, Changing, Working, AllStored, At,
        NextActive, Installed
  <2> QED BY <2>20, <2>21, <2>22, <2>23, <2>24 DEF InstallInv, InstallIsWhole
<1>2. CASE Check
  <2> DEFINE l == IF MayProceed THEN FirstStep ELSE "failed"
  <2>1. /\ verbRun.pc = "check" /\ verbRun' \in Runs /\ SameCommand
        /\ installState' = installState /\ executable' = executable /\ stored' = stored
        /\ verbRun'.pc \in {"archive", "activate", "remove", "done", "failed"}
        /\ verbRun'.pc \in {"archive", "activate", "remove"} =>
             /\ executable = installState.active /\ (Installed => stored[installState.active] = "whole")
             /\ verbRun.verb \in {"install", "upgrade", "rollback", "uninstall"}
        /\ verbRun'.pc = "remove" => verbRun.verb = "uninstall"
        /\ verbRun'.pc = "archive" => verbRun.verb \in {"install", "upgrade"}
        /\ verbRun'.pc = "activate" => verbRun.verb = "rollback" /\ installState.previous # NoRelease
    <3>1. MayProceed /\ verbRun.verb \in {"install", "upgrade", "rollback", "uninstall"} =>
            executable = installState.active /\ (Installed => stored[installState.active] = "whole")
      BY <1>00 DEF MayProceed, Fresh, Current
    <3>2. FirstStep \in {"archive", "activate", "remove", "done"}
      BY <1>0 DEF FirstStep, Verbs
    <3>3. /\ FirstStep = "remove" => verbRun.verb = "uninstall"
          /\ FirstStep = "archive" => verbRun.verb \in {"install", "upgrade"}
          /\ FirstStep = "activate" => verbRun.verb = "rollback"
      BY <1>0 DEF FirstStep, Verbs
    <3>4. MayProceed /\ verbRun.verb = "rollback" => installState.previous # NoRelease
      BY DEF MayProceed
    <3>5. l \in Steps /\ Onward(l) /\ verbRun.pc = "check" /\ DiskKept
      BY <1>2, <3>2 DEF Check, At, Steps
    <3>6. verbRun' \in Runs /\ SameCommand /\ verbRun'.pc = l
      <4> HIDE DEF l
      <4> QED BY <1>0, <3>5, OnwardEdit
    <3> HIDE DEF l
    <3>7. l = "failed" \/ (l = FirstStep /\ MayProceed)
      BY DEF l
    <3> QED BY <3>1, <3>2, <3>3, <3>4, <3>5, <3>6, <3>7 DEF DiskKept
  <2>3. AllStored \/ verbRun'.pc \notin Working
    BY <1>00, <2>1
    DEF InstallInv, InstallIsWhole, RegisteredIsStored, AllStored, Working, Changing
  <2>20. InstallTypes'
    BY <1>0, <1>00, <2>1, <2>3 DEF InstallTypes, StoredContents
  <2>21. ChangingInv'
    BY <1>0, <1>00, <2>1, <2>3, ReleaseAssumption
    DEF InstallInv, ChangingInv, FoundInv, InstallIsWhole, RegisteredIsStored,
        FailureChangesNothing, DriftIsLeftAlone, Changing, Working, AllStored, At,
        NextActive, Installed, SameCommand
  <2>22. FoundInv'
    BY <1>0, <1>00, <2>1, <2>3, ReleaseAssumption
    DEF InstallInv, ChangingInv, FoundInv, InstallIsWhole, RegisteredIsStored,
        FailureChangesNothing, DriftIsLeftAlone, Changing, Working, AllStored, At,
        NextActive, Installed, SameCommand
  <2>23. RegisteredIsStored'
    BY <1>0, <1>00, <2>1, <2>3, ReleaseAssumption
    DEF InstallInv, ChangingInv, FoundInv, InstallIsWhole, RegisteredIsStored,
        FailureChangesNothing, DriftIsLeftAlone, Changing, Working, AllStored, At,
        NextActive, Installed, SameCommand
  <2>24. FailureChangesNothing' /\ DriftIsLeftAlone'
    BY <1>0, <1>00, <2>1, <2>3, ReleaseAssumption
    DEF InstallInv, ChangingInv, FoundInv, InstallIsWhole, RegisteredIsStored,
        FailureChangesNothing, DriftIsLeftAlone, Changing, Working, AllStored, At,
        NextActive, Installed, SameCommand
  <2> QED BY <2>20, <2>21, <2>22, <2>23, <2>24 DEF InstallInv, InstallIsWhole
<1>3. CASE Archive
  <2>1. /\ verbRun.pc = "archive" /\ verbRun' \in Runs /\ SameCommand
        /\ installState' = installState /\ executable' = executable
        /\ \/ stored[verbRun.target] = "whole" /\ verbRun'.pc = "activate" /\ stored' = stored
           \/ /\ stored[verbRun.target] # "whole" /\ verbRun'.pc = "copy"
              /\ stored' = [stored EXCEPT ![verbRun.target] = "empty"]
    BY <1>0, <1>3, OnwardEdit DEF Archive, At, DiskKept, Steps
  <2>2. verbRun.target \in Releases
    BY <2>1 DEF InstallInv, ChangingInv, Changing
  <2>3. stored[verbRun.target] # "whole" => verbRun.target \notin installState.releases
    BY <2>1 DEF InstallInv, ChangingInv, Changing, AllStored
  <2>20. InstallTypes'
    BY <1>0, <1>00, <2>1, <2>2, <2>3 DEF InstallTypes, StoredContents
  <2>21. ChangingInv'
    BY <1>0, <1>00, <2>1, <2>2, <2>3, ReleaseAssumption
    DEF InstallInv, ChangingInv, FoundInv, InstallIsWhole, RegisteredIsStored,
        FailureChangesNothing, DriftIsLeftAlone, Changing, Working, AllStored, At,
        NextActive, Installed, SameCommand
  <2>22. FoundInv'
    BY <1>0, <1>00, <2>1, <2>2, <2>3, ReleaseAssumption
    DEF InstallInv, ChangingInv, FoundInv, InstallIsWhole, RegisteredIsStored,
        FailureChangesNothing, DriftIsLeftAlone, Changing, Working, AllStored, At,
        NextActive, Installed, SameCommand
  <2>23. RegisteredIsStored'
    BY <1>0, <1>00, <2>1, <2>2, <2>3, ReleaseAssumption
    DEF InstallInv, ChangingInv, FoundInv, InstallIsWhole, RegisteredIsStored,
        FailureChangesNothing, DriftIsLeftAlone, Changing, Working, AllStored, At,
        NextActive, Installed, SameCommand
  <2>24. FailureChangesNothing' /\ DriftIsLeftAlone'
    BY <1>0, <1>00, <2>1, <2>2, <2>3, ReleaseAssumption
    DEF InstallInv, ChangingInv, FoundInv, InstallIsWhole, RegisteredIsStored,
        FailureChangesNothing, DriftIsLeftAlone, Changing, Working, AllStored, At,
        NextActive, Installed, SameCommand
  <2> QED BY <2>20, <2>21, <2>22, <2>23, <2>24 DEF InstallInv, InstallIsWhole
<1>4. CASE CopyArtifact
  <2>1. /\ verbRun.pc = "copy" /\ verbRun' \in Runs /\ verbRun'.pc = "activate" /\ verbRun'.archived
        /\ verbRun'.verb = verbRun.verb /\ verbRun'.target = verbRun.target
        /\ verbRun'.twice = verbRun.twice /\ verbRun'.found = verbRun.found
        /\ installState' = installState /\ executable' = executable
        /\ stored' = [stored EXCEPT ![verbRun.target] = "whole"]
    BY <1>0, <1>4 DEF CopyArtifact, At, Runs, Steps
  <2>2. verbRun.target \in Releases
    BY <2>1 DEF InstallInv, ChangingInv, Changing
  <2>20. InstallTypes'
    BY <1>0, <1>00, <2>1, <2>2 DEF InstallTypes, StoredContents
  <2>21. ChangingInv'
    BY <1>0, <1>00, <2>1, <2>2, ReleaseAssumption
    DEF InstallInv, ChangingInv, FoundInv, InstallIsWhole, RegisteredIsStored,
        FailureChangesNothing, DriftIsLeftAlone, Changing, Working, AllStored, At,
        NextActive, Installed
  <2>22. FoundInv'
    BY <1>0, <1>00, <2>1, <2>2, ReleaseAssumption
    DEF InstallInv, ChangingInv, FoundInv, InstallIsWhole, RegisteredIsStored,
        FailureChangesNothing, DriftIsLeftAlone, Changing, Working, AllStored, At,
        NextActive, Installed
  <2>23. RegisteredIsStored'
    BY <1>0, <1>00, <2>1, <2>2, ReleaseAssumption
    DEF InstallInv, ChangingInv, FoundInv, InstallIsWhole, RegisteredIsStored,
        FailureChangesNothing, DriftIsLeftAlone, Changing, Working, AllStored, At,
        NextActive, Installed
  <2>24. FailureChangesNothing' /\ DriftIsLeftAlone'
    BY <1>0, <1>00, <2>1, <2>2, ReleaseAssumption
    DEF InstallInv, ChangingInv, FoundInv, InstallIsWhole, RegisteredIsStored,
        FailureChangesNothing, DriftIsLeftAlone, Changing, Working, AllStored, At,
        NextActive, Installed
  <2> QED BY <2>20, <2>21, <2>22, <2>23, <2>24 DEF InstallInv, InstallIsWhole
<1>5. CASE CopyFails
  <2>1. /\ verbRun.pc = "copy" /\ verbRun' \in Runs /\ verbRun'.pc = "failed" /\ SameCommand
        /\ installState' = installState /\ executable' = executable /\ stored' = stored
    BY <1>0, <1>5, OnwardEdit DEF CopyFails, At, DiskKept, Steps
  <2>20. InstallTypes'
    BY <1>0, <1>00, <2>1 DEF InstallTypes, StoredContents
  <2>21. ChangingInv'
    BY <1>0, <1>00, <2>1, ReleaseAssumption
    DEF InstallInv, ChangingInv, FoundInv, InstallIsWhole, RegisteredIsStored,
        FailureChangesNothing, DriftIsLeftAlone, Changing, Working, AllStored, At,
        NextActive, Installed, SameCommand
  <2>22. FoundInv'
    BY <1>0, <1>00, <2>1, ReleaseAssumption
    DEF InstallInv, ChangingInv, FoundInv, InstallIsWhole, RegisteredIsStored,
        FailureChangesNothing, DriftIsLeftAlone, Changing, Working, AllStored, At,
        NextActive, Installed, SameCommand
  <2>23. RegisteredIsStored'
    BY <1>0, <1>00, <2>1, ReleaseAssumption
    DEF InstallInv, ChangingInv, FoundInv, InstallIsWhole, RegisteredIsStored,
        FailureChangesNothing, DriftIsLeftAlone, Changing, Working, AllStored, At,
        NextActive, Installed, SameCommand
  <2>24. FailureChangesNothing' /\ DriftIsLeftAlone'
    BY <1>0, <1>00, <2>1, ReleaseAssumption
    DEF InstallInv, ChangingInv, FoundInv, InstallIsWhole, RegisteredIsStored,
        FailureChangesNothing, DriftIsLeftAlone, Changing, Working, AllStored, At,
        NextActive, Installed, SameCommand
  <2> QED BY <2>20, <2>21, <2>22, <2>23, <2>24 DEF InstallInv, InstallIsWhole
<1>6. CASE Activate
  <2>1. /\ verbRun.pc = "activate" /\ verbRun' \in Runs /\ verbRun'.pc = "write" /\ SameCommand
        /\ installState' = installState /\ executable' = NextActive /\ stored' = stored
    BY <1>0, <1>6, OnwardEdit DEF Activate, At, Steps
  <2>2. NextActive \in Releases
    BY <1>0, <1>00, <2>1 DEF NextActive, InstallInv, ChangingInv, Changing
  <2>20. InstallTypes'
    BY <1>0, <1>00, <2>1, <2>2 DEF InstallTypes, StoredContents
  <2>21. ChangingInv'
    BY <1>0, <1>00, <2>1, <2>2, ReleaseAssumption
    DEF InstallInv, ChangingInv, FoundInv, InstallIsWhole, RegisteredIsStored,
        FailureChangesNothing, DriftIsLeftAlone, Changing, Working, AllStored, At,
        NextActive, Installed, SameCommand
  <2>22. FoundInv'
    BY <1>0, <1>00, <2>1, <2>2, ReleaseAssumption
    DEF InstallInv, ChangingInv, FoundInv, InstallIsWhole, RegisteredIsStored,
        FailureChangesNothing, DriftIsLeftAlone, Changing, Working, AllStored, At,
        NextActive, Installed, SameCommand
  <2>23. RegisteredIsStored'
    BY <1>0, <1>00, <2>1, <2>2, ReleaseAssumption
    DEF InstallInv, ChangingInv, FoundInv, InstallIsWhole, RegisteredIsStored,
        FailureChangesNothing, DriftIsLeftAlone, Changing, Working, AllStored, At,
        NextActive, Installed, SameCommand
  <2>24. FailureChangesNothing' /\ DriftIsLeftAlone'
    BY <1>0, <1>00, <2>1, <2>2, ReleaseAssumption
    DEF InstallInv, ChangingInv, FoundInv, InstallIsWhole, RegisteredIsStored,
        FailureChangesNothing, DriftIsLeftAlone, Changing, Working, AllStored, At,
        NextActive, Installed, SameCommand
  <2> QED BY <2>20, <2>21, <2>22, <2>23, <2>24 DEF InstallInv, InstallIsWhole
<1>7. CASE ActivateFails
  <2>1. /\ verbRun.pc = "activate" /\ verbRun' \in Runs /\ verbRun'.pc = "cleanup" /\ SameCommand
        /\ installState' = installState /\ executable' = executable /\ stored' = stored
    BY <1>0, <1>7, OnwardEdit DEF ActivateFails, At, DiskKept, Steps
  <2>20. InstallTypes'
    BY <1>0, <1>00, <2>1 DEF InstallTypes, StoredContents
  <2>21. ChangingInv'
    BY <1>0, <1>00, <2>1, ReleaseAssumption
    DEF InstallInv, ChangingInv, FoundInv, InstallIsWhole, RegisteredIsStored,
        FailureChangesNothing, DriftIsLeftAlone, Changing, Working, AllStored, At,
        NextActive, Installed, SameCommand
  <2>22. FoundInv'
    BY <1>0, <1>00, <2>1, ReleaseAssumption
    DEF InstallInv, ChangingInv, FoundInv, InstallIsWhole, RegisteredIsStored,
        FailureChangesNothing, DriftIsLeftAlone, Changing, Working, AllStored, At,
        NextActive, Installed, SameCommand
  <2>23. RegisteredIsStored'
    BY <1>0, <1>00, <2>1, ReleaseAssumption
    DEF InstallInv, ChangingInv, FoundInv, InstallIsWhole, RegisteredIsStored,
        FailureChangesNothing, DriftIsLeftAlone, Changing, Working, AllStored, At,
        NextActive, Installed, SameCommand
  <2>24. FailureChangesNothing' /\ DriftIsLeftAlone'
    BY <1>0, <1>00, <2>1, ReleaseAssumption
    DEF InstallInv, ChangingInv, FoundInv, InstallIsWhole, RegisteredIsStored,
        FailureChangesNothing, DriftIsLeftAlone, Changing, Working, AllStored, At,
        NextActive, Installed, SameCommand
  <2> QED BY <2>20, <2>21, <2>22, <2>23, <2>24 DEF InstallInv, InstallIsWhole
<1>8. CASE WriteState
  <2>1. /\ verbRun.pc = "write" /\ verbRun' \in Runs /\ verbRun'.pc = "done" /\ SameCommand
        /\ installState' = NextState /\ executable' = executable /\ stored' = stored
    BY <1>0, <1>8, OnwardEdit DEF WriteState, At, Steps
  <2>2. NextActive \in Releases /\ executable = NextActive /\ stored[NextActive] = "whole" /\ AllStored
    BY <1>0, <1>00, <2>1 DEF NextActive, InstallInv, ChangingInv, Changing, At
  <2>3. /\ NextState \in Ledgers /\ NextState.generation > 0 /\ NextState.active = NextActive
        /\ NextState.previous = installState.active
        /\ NextState.releases = installState.releases \cup {NextActive}
    BY <1>0, <1>00, <2>2 DEF NextState, Ledgers
  <2>4. LedgerOk(NextState)
    BY <1>00, <2>3 DEF LedgerOk
  <2>5. verbRun.found.exe = verbRun.found.state.active
    BY <2>1 DEF InstallInv, FoundInv, Working, Changing
  <2>20. InstallTypes'
    BY <1>0, <1>00, <2>1, <2>2, <2>3, <2>4, <2>5 DEF InstallTypes, StoredContents
  <2>21. ChangingInv'
    BY <1>0, <1>00, <2>1, <2>2, <2>3, <2>4, <2>5, ReleaseAssumption
    DEF InstallInv, ChangingInv, FoundInv, InstallIsWhole, RegisteredIsStored,
        FailureChangesNothing, DriftIsLeftAlone, Changing, Working, AllStored, At,
        NextActive, Installed, SameCommand
  <2>22. FoundInv'
    BY <1>0, <1>00, <2>1, <2>2, <2>3, <2>4, <2>5, ReleaseAssumption
    DEF InstallInv, ChangingInv, FoundInv, InstallIsWhole, RegisteredIsStored,
        FailureChangesNothing, DriftIsLeftAlone, Changing, Working, AllStored, At,
        NextActive, Installed, SameCommand
  <2>23. RegisteredIsStored'
    BY <1>0, <1>00, <2>1, <2>2, <2>3, <2>4, <2>5, ReleaseAssumption
    DEF InstallInv, ChangingInv, FoundInv, InstallIsWhole, RegisteredIsStored,
        FailureChangesNothing, DriftIsLeftAlone, Changing, Working, AllStored, At,
        NextActive, Installed, SameCommand
  <2>24. FailureChangesNothing' /\ DriftIsLeftAlone'
    BY <1>0, <1>00, <2>1, <2>2, <2>3, <2>4, <2>5, ReleaseAssumption
    DEF InstallInv, ChangingInv, FoundInv, InstallIsWhole, RegisteredIsStored,
        FailureChangesNothing, DriftIsLeftAlone, Changing, Working, AllStored, At,
        NextActive, Installed, SameCommand
  <2> QED BY <2>20, <2>21, <2>22, <2>23, <2>24 DEF InstallInv, InstallIsWhole
<1>9. CASE WriteStateFails
  <2>1. /\ verbRun.pc = "write" /\ verbRun' \in Runs /\ verbRun'.pc = "restore" /\ SameCommand
        /\ installState' = installState /\ executable' = executable /\ stored' = stored
    BY <1>0, <1>9, OnwardEdit DEF WriteStateFails, At, DiskKept, Steps
  <2>20. InstallTypes'
    BY <1>0, <1>00, <2>1 DEF InstallTypes, StoredContents
  <2>21. ChangingInv'
    BY <1>0, <1>00, <2>1, ReleaseAssumption
    DEF InstallInv, ChangingInv, FoundInv, InstallIsWhole, RegisteredIsStored,
        FailureChangesNothing, DriftIsLeftAlone, Changing, Working, AllStored, At,
        NextActive, Installed, SameCommand
  <2>22. FoundInv'
    BY <1>0, <1>00, <2>1, ReleaseAssumption
    DEF InstallInv, ChangingInv, FoundInv, InstallIsWhole, RegisteredIsStored,
        FailureChangesNothing, DriftIsLeftAlone, Changing, Working, AllStored, At,
        NextActive, Installed, SameCommand
  <2>23. RegisteredIsStored'
    BY <1>0, <1>00, <2>1, ReleaseAssumption
    DEF InstallInv, ChangingInv, FoundInv, InstallIsWhole, RegisteredIsStored,
        FailureChangesNothing, DriftIsLeftAlone, Changing, Working, AllStored, At,
        NextActive, Installed, SameCommand
  <2>24. FailureChangesNothing' /\ DriftIsLeftAlone'
    BY <1>0, <1>00, <2>1, ReleaseAssumption
    DEF InstallInv, ChangingInv, FoundInv, InstallIsWhole, RegisteredIsStored,
        FailureChangesNothing, DriftIsLeftAlone, Changing, Working, AllStored, At,
        NextActive, Installed, SameCommand
  <2> QED BY <2>20, <2>21, <2>22, <2>23, <2>24 DEF InstallInv, InstallIsWhole
<1>10. CASE Restore
  <2>1. /\ verbRun.pc = "restore" /\ verbRun' \in Runs /\ verbRun'.pc = "cleanup" /\ SameCommand
        /\ installState' = installState /\ executable' = installState.active /\ stored' = stored
    BY <1>0, <1>10, OnwardEdit DEF Restore, At, Steps
  <2>20. InstallTypes'
    BY <1>0, <1>00, <2>1 DEF InstallTypes, StoredContents
  <2>21. ChangingInv'
    BY <1>0, <1>00, <2>1, ReleaseAssumption
    DEF InstallInv, ChangingInv, FoundInv, InstallIsWhole, RegisteredIsStored,
        FailureChangesNothing, DriftIsLeftAlone, Changing, Working, AllStored, At,
        NextActive, Installed, SameCommand
  <2>22. FoundInv'
    BY <1>0, <1>00, <2>1, ReleaseAssumption
    DEF InstallInv, ChangingInv, FoundInv, InstallIsWhole, RegisteredIsStored,
        FailureChangesNothing, DriftIsLeftAlone, Changing, Working, AllStored, At,
        NextActive, Installed, SameCommand
  <2>23. RegisteredIsStored'
    BY <1>0, <1>00, <2>1, ReleaseAssumption
    DEF InstallInv, ChangingInv, FoundInv, InstallIsWhole, RegisteredIsStored,
        FailureChangesNothing, DriftIsLeftAlone, Changing, Working, AllStored, At,
        NextActive, Installed, SameCommand
  <2>24. FailureChangesNothing' /\ DriftIsLeftAlone'
    BY <1>0, <1>00, <2>1, ReleaseAssumption
    DEF InstallInv, ChangingInv, FoundInv, InstallIsWhole, RegisteredIsStored,
        FailureChangesNothing, DriftIsLeftAlone, Changing, Working, AllStored, At,
        NextActive, Installed, SameCommand
  <2> QED BY <2>20, <2>21, <2>22, <2>23, <2>24 DEF InstallInv, InstallIsWhole
<1>11. CASE RestoreFails
  <2>1. /\ verbRun.pc = "restore" /\ verbRun' \in Runs /\ verbRun'.pc = "cleanup" /\ verbRun'.twice
        /\ verbRun'.verb = verbRun.verb /\ verbRun'.target = verbRun.target
        /\ verbRun'.archived = verbRun.archived /\ verbRun'.found = verbRun.found
        /\ installState' = installState /\ executable' = executable /\ stored' = stored
    BY <1>0, <1>11 DEF RestoreFails, At, DiskKept, Runs, Steps
  <2>20. InstallTypes'
    BY <1>0, <1>00, <2>1 DEF InstallTypes, StoredContents
  <2>21. ChangingInv'
    BY <1>0, <1>00, <2>1, ReleaseAssumption
    DEF InstallInv, ChangingInv, FoundInv, InstallIsWhole, RegisteredIsStored,
        FailureChangesNothing, DriftIsLeftAlone, Changing, Working, AllStored, At,
        NextActive, Installed
  <2>22. FoundInv'
    BY <1>0, <1>00, <2>1, ReleaseAssumption
    DEF InstallInv, ChangingInv, FoundInv, InstallIsWhole, RegisteredIsStored,
        FailureChangesNothing, DriftIsLeftAlone, Changing, Working, AllStored, At,
        NextActive, Installed
  <2>23. RegisteredIsStored'
    BY <1>0, <1>00, <2>1, ReleaseAssumption
    DEF InstallInv, ChangingInv, FoundInv, InstallIsWhole, RegisteredIsStored,
        FailureChangesNothing, DriftIsLeftAlone, Changing, Working, AllStored, At,
        NextActive, Installed
  <2>24. FailureChangesNothing' /\ DriftIsLeftAlone'
    BY <1>0, <1>00, <2>1, ReleaseAssumption
    DEF InstallInv, ChangingInv, FoundInv, InstallIsWhole, RegisteredIsStored,
        FailureChangesNothing, DriftIsLeftAlone, Changing, Working, AllStored, At,
        NextActive, Installed
  <2> QED BY <2>20, <2>21, <2>22, <2>23, <2>24 DEF InstallInv, InstallIsWhole
<1>12. CASE Cleanup
  <2>1. /\ verbRun.pc = "cleanup" /\ verbRun' \in Runs /\ verbRun'.pc = "failed" /\ SameCommand
        /\ installState' = installState /\ executable' = executable
        /\ stored' = IF verbRun.archived THEN [stored EXCEPT ![verbRun.target] = "empty"] ELSE stored
    BY <1>0, <1>12, OnwardEdit DEF Cleanup, At, Steps
  <2>2. verbRun.archived => verbRun.target \notin installState.releases
    BY <2>1 DEF InstallInv, ChangingInv, Changing
  <2>3. /\ stored' \in [Releases -> StoredContents]
        /\ \A r \in installState.releases : stored'[r] = stored[r]
    BY <1>0, <1>00, <2>1, <2>2 DEF StoredContents
  <2>20. InstallTypes'
    BY <1>0, <1>00, <2>1, <2>2, <2>3 DEF InstallTypes, StoredContents
  <2>21. ChangingInv'
    BY <1>0, <1>00, <2>1, <2>2, <2>3, ReleaseAssumption
    DEF InstallInv, ChangingInv, FoundInv, InstallIsWhole, RegisteredIsStored,
        FailureChangesNothing, DriftIsLeftAlone, Changing, Working, AllStored, At,
        NextActive, Installed, SameCommand
  <2>22. FoundInv'
    BY <1>0, <1>00, <2>1, <2>2, <2>3, ReleaseAssumption
    DEF InstallInv, ChangingInv, FoundInv, InstallIsWhole, RegisteredIsStored,
        FailureChangesNothing, DriftIsLeftAlone, Changing, Working, AllStored, At,
        NextActive, Installed, SameCommand
  <2>23. RegisteredIsStored'
    BY <1>0, <1>00, <2>1, <2>2, <2>3, ReleaseAssumption
    DEF InstallInv, ChangingInv, FoundInv, InstallIsWhole, RegisteredIsStored,
        FailureChangesNothing, DriftIsLeftAlone, Changing, Working, AllStored, At,
        NextActive, Installed, SameCommand
  <2>24. FailureChangesNothing' /\ DriftIsLeftAlone'
    BY <1>0, <1>00, <2>1, <2>2, <2>3, ReleaseAssumption
    DEF InstallInv, ChangingInv, FoundInv, InstallIsWhole, RegisteredIsStored,
        FailureChangesNothing, DriftIsLeftAlone, Changing, Working, AllStored, At,
        NextActive, Installed, SameCommand
  <2> QED BY <2>20, <2>21, <2>22, <2>23, <2>24 DEF InstallInv, InstallIsWhole
<1>13. CASE CleanupFails
  <2>1. /\ verbRun.pc = "cleanup" /\ verbRun' \in Runs /\ verbRun'.pc = "failed" /\ SameCommand
        /\ installState' = installState /\ executable' = executable /\ stored' = stored
    BY <1>0, <1>13, OnwardEdit DEF CleanupFails, At, DiskKept, Steps
  <2>20. InstallTypes'
    BY <1>0, <1>00, <2>1 DEF InstallTypes, StoredContents
  <2>21. ChangingInv'
    BY <1>0, <1>00, <2>1, ReleaseAssumption
    DEF InstallInv, ChangingInv, FoundInv, InstallIsWhole, RegisteredIsStored,
        FailureChangesNothing, DriftIsLeftAlone, Changing, Working, AllStored, At,
        NextActive, Installed, SameCommand
  <2>22. FoundInv'
    BY <1>0, <1>00, <2>1, ReleaseAssumption
    DEF InstallInv, ChangingInv, FoundInv, InstallIsWhole, RegisteredIsStored,
        FailureChangesNothing, DriftIsLeftAlone, Changing, Working, AllStored, At,
        NextActive, Installed, SameCommand
  <2>23. RegisteredIsStored'
    BY <1>0, <1>00, <2>1, ReleaseAssumption
    DEF InstallInv, ChangingInv, FoundInv, InstallIsWhole, RegisteredIsStored,
        FailureChangesNothing, DriftIsLeftAlone, Changing, Working, AllStored, At,
        NextActive, Installed, SameCommand
  <2>24. FailureChangesNothing' /\ DriftIsLeftAlone'
    BY <1>0, <1>00, <2>1, ReleaseAssumption
    DEF InstallInv, ChangingInv, FoundInv, InstallIsWhole, RegisteredIsStored,
        FailureChangesNothing, DriftIsLeftAlone, Changing, Working, AllStored, At,
        NextActive, Installed, SameCommand
  <2> QED BY <2>20, <2>21, <2>22, <2>23, <2>24 DEF InstallInv, InstallIsWhole
<1>14. CASE RemoveExecutable
  <2>1. /\ verbRun.pc = "remove" /\ verbRun' = verbRun
        /\ installState' = installState /\ executable' = NoRelease /\ stored' = stored
    BY <1>14 DEF RemoveExecutable, At
  <2>20. InstallTypes'
    BY <1>0, <1>00, <2>1 DEF InstallTypes, StoredContents
  <2>21. ChangingInv'
    BY <1>0, <1>00, <2>1, ReleaseAssumption
    DEF InstallInv, ChangingInv, FoundInv, InstallIsWhole, RegisteredIsStored,
        FailureChangesNothing, DriftIsLeftAlone, Changing, Working, AllStored, At,
        NextActive, Installed
  <2>22. FoundInv'
    BY <1>0, <1>00, <2>1, ReleaseAssumption
    DEF InstallInv, ChangingInv, FoundInv, InstallIsWhole, RegisteredIsStored,
        FailureChangesNothing, DriftIsLeftAlone, Changing, Working, AllStored, At,
        NextActive, Installed
  <2>23. RegisteredIsStored'
    BY <1>0, <1>00, <2>1, ReleaseAssumption
    DEF InstallInv, ChangingInv, FoundInv, InstallIsWhole, RegisteredIsStored,
        FailureChangesNothing, DriftIsLeftAlone, Changing, Working, AllStored, At,
        NextActive, Installed
  <2>24. FailureChangesNothing' /\ DriftIsLeftAlone'
    BY <1>0, <1>00, <2>1, ReleaseAssumption
    DEF InstallInv, ChangingInv, FoundInv, InstallIsWhole, RegisteredIsStored,
        FailureChangesNothing, DriftIsLeftAlone, Changing, Working, AllStored, At,
        NextActive, Installed
  <2> QED BY <2>20, <2>21, <2>22, <2>23, <2>24 DEF InstallInv, InstallIsWhole
<1>15. ASSUME NEW r \in Releases, RemoveRelease(r) PROVE InstallInv'
  <2>1. /\ verbRun.pc = "remove" /\ verbRun' = verbRun /\ executable = NoRelease
        /\ installState' = installState /\ executable' = executable
        /\ stored' \in [Releases -> StoredContents]
    BY <1>0, <1>15 DEF RemoveRelease, At, StoredContents
  <2>20. InstallTypes'
    BY <1>0, <1>00, <2>1 DEF InstallTypes, StoredContents
  <2>21. ChangingInv'
    BY <1>0, <1>00, <2>1, ReleaseAssumption
    DEF InstallInv, ChangingInv, FoundInv, InstallIsWhole, RegisteredIsStored,
        FailureChangesNothing, DriftIsLeftAlone, Changing, Working, AllStored, At,
        NextActive, Installed
  <2>22. FoundInv'
    BY <1>0, <1>00, <2>1, ReleaseAssumption
    DEF InstallInv, ChangingInv, FoundInv, InstallIsWhole, RegisteredIsStored,
        FailureChangesNothing, DriftIsLeftAlone, Changing, Working, AllStored, At,
        NextActive, Installed
  <2>23. RegisteredIsStored'
    BY <1>0, <1>00, <2>1, ReleaseAssumption
    DEF InstallInv, ChangingInv, FoundInv, InstallIsWhole, RegisteredIsStored,
        FailureChangesNothing, DriftIsLeftAlone, Changing, Working, AllStored, At,
        NextActive, Installed
  <2>24. FailureChangesNothing' /\ DriftIsLeftAlone'
    BY <1>0, <1>00, <2>1, ReleaseAssumption
    DEF InstallInv, ChangingInv, FoundInv, InstallIsWhole, RegisteredIsStored,
        FailureChangesNothing, DriftIsLeftAlone, Changing, Working, AllStored, At,
        NextActive, Installed
  <2> QED BY <2>20, <2>21, <2>22, <2>23, <2>24 DEF InstallInv, InstallIsWhole
<1>16. CASE RemoveState
  <2>1. /\ verbRun.pc = "remove" /\ verbRun' = verbRun /\ installState' = NotInstalled
        /\ executable' = executable /\ stored' = stored
    BY <1>16 DEF RemoveState, At
  <2>2. NotInstalled \in Ledgers /\ NotInstalled.generation = 0 /\ LedgerOk(NotInstalled)
    BY DEF NotInstalled, Ledgers, LedgerOk
  <2>20. InstallTypes'
    BY <1>0, <1>00, <2>1, <2>2 DEF InstallTypes, StoredContents
  <2>21. ChangingInv'
    BY <1>0, <1>00, <2>1, <2>2, ReleaseAssumption
    DEF InstallInv, ChangingInv, FoundInv, InstallIsWhole, RegisteredIsStored,
        FailureChangesNothing, DriftIsLeftAlone, Changing, Working, AllStored, At,
        NextActive, Installed
  <2>22. FoundInv'
    BY <1>0, <1>00, <2>1, <2>2, ReleaseAssumption
    DEF InstallInv, ChangingInv, FoundInv, InstallIsWhole, RegisteredIsStored,
        FailureChangesNothing, DriftIsLeftAlone, Changing, Working, AllStored, At,
        NextActive, Installed
  <2>23. RegisteredIsStored'
    BY <1>0, <1>00, <2>1, <2>2, ReleaseAssumption
    DEF InstallInv, ChangingInv, FoundInv, InstallIsWhole, RegisteredIsStored,
        FailureChangesNothing, DriftIsLeftAlone, Changing, Working, AllStored, At,
        NextActive, Installed
  <2>24. FailureChangesNothing' /\ DriftIsLeftAlone'
    BY <1>0, <1>00, <2>1, <2>2, ReleaseAssumption
    DEF InstallInv, ChangingInv, FoundInv, InstallIsWhole, RegisteredIsStored,
        FailureChangesNothing, DriftIsLeftAlone, Changing, Working, AllStored, At,
        NextActive, Installed
  <2> QED BY <2>20, <2>21, <2>22, <2>23, <2>24 DEF InstallInv, InstallIsWhole
<1>17. CASE RemoveRoot
  <2>1. /\ verbRun.pc = "remove" /\ verbRun' \in Runs /\ verbRun'.pc \in {"done", "failed"}
        /\ SameCommand
        /\ installState' = installState /\ executable' = executable /\ stored' = stored
    BY <1>0, <1>17, OnwardEdit DEF RemoveRoot, At, Steps
  <2>20. InstallTypes'
    BY <1>0, <1>00, <2>1 DEF InstallTypes, StoredContents
  <2>21. ChangingInv'
    BY <1>0, <1>00, <2>1, ReleaseAssumption
    DEF InstallInv, ChangingInv, FoundInv, InstallIsWhole, RegisteredIsStored,
        FailureChangesNothing, DriftIsLeftAlone, Changing, Working, AllStored, At,
        NextActive, Installed, SameCommand
  <2>22. FoundInv'
    BY <1>0, <1>00, <2>1, ReleaseAssumption
    DEF InstallInv, ChangingInv, FoundInv, InstallIsWhole, RegisteredIsStored,
        FailureChangesNothing, DriftIsLeftAlone, Changing, Working, AllStored, At,
        NextActive, Installed, SameCommand
  <2>23. RegisteredIsStored'
    BY <1>0, <1>00, <2>1, ReleaseAssumption
    DEF InstallInv, ChangingInv, FoundInv, InstallIsWhole, RegisteredIsStored,
        FailureChangesNothing, DriftIsLeftAlone, Changing, Working, AllStored, At,
        NextActive, Installed, SameCommand
  <2>24. FailureChangesNothing' /\ DriftIsLeftAlone'
    BY <1>0, <1>00, <2>1, ReleaseAssumption
    DEF InstallInv, ChangingInv, FoundInv, InstallIsWhole, RegisteredIsStored,
        FailureChangesNothing, DriftIsLeftAlone, Changing, Working, AllStored, At,
        NextActive, Installed, SameCommand
  <2> QED BY <2>20, <2>21, <2>22, <2>23, <2>24 DEF InstallInv, InstallIsWhole
<1>18. CASE RemoveFails
  <2>1. /\ verbRun.pc = "remove" /\ verbRun' \in Runs /\ verbRun'.pc = "failed" /\ SameCommand
        /\ installState' = installState /\ executable' = executable /\ stored' = stored
    BY <1>0, <1>18, OnwardEdit DEF RemoveFails, At, DiskKept, Steps
  <2>20. InstallTypes'
    BY <1>0, <1>00, <2>1 DEF InstallTypes, StoredContents
  <2>21. ChangingInv'
    BY <1>0, <1>00, <2>1, ReleaseAssumption
    DEF InstallInv, ChangingInv, FoundInv, InstallIsWhole, RegisteredIsStored,
        FailureChangesNothing, DriftIsLeftAlone, Changing, Working, AllStored, At,
        NextActive, Installed, SameCommand
  <2>22. FoundInv'
    BY <1>0, <1>00, <2>1, ReleaseAssumption
    DEF InstallInv, ChangingInv, FoundInv, InstallIsWhole, RegisteredIsStored,
        FailureChangesNothing, DriftIsLeftAlone, Changing, Working, AllStored, At,
        NextActive, Installed, SameCommand
  <2>23. RegisteredIsStored'
    BY <1>0, <1>00, <2>1, ReleaseAssumption
    DEF InstallInv, ChangingInv, FoundInv, InstallIsWhole, RegisteredIsStored,
        FailureChangesNothing, DriftIsLeftAlone, Changing, Working, AllStored, At,
        NextActive, Installed, SameCommand
  <2>24. FailureChangesNothing' /\ DriftIsLeftAlone'
    BY <1>0, <1>00, <2>1, ReleaseAssumption
    DEF InstallInv, ChangingInv, FoundInv, InstallIsWhole, RegisteredIsStored,
        FailureChangesNothing, DriftIsLeftAlone, Changing, Working, AllStored, At,
        NextActive, Installed, SameCommand
  <2> QED BY <2>20, <2>21, <2>22, <2>23, <2>24 DEF InstallInv, InstallIsWhole
<1>19. CASE Killed
  <2>1. verbRun' = Idle /\ installState' = installState /\ executable' = executable /\ stored' = stored
    BY <1>19 DEF Killed
  <2>2. Idle \in Runs
    BY InstallIdle
  <2>3. /\ Idle.pc = "idle" /\ Idle.found.exe = NoRelease /\ Idle.found.state.active = NoRelease
        /\ Idle.verb = "status"
    BY DEF Idle, NotInstalled
  <2>20. InstallTypes'
    BY <1>0, <1>00, <2>1, <2>2, <2>3 DEF InstallTypes, StoredContents
  <2>21. ChangingInv'
    BY <1>0, <1>00, <2>1, <2>2, <2>3, ReleaseAssumption
    DEF InstallInv, ChangingInv, FoundInv, InstallIsWhole, RegisteredIsStored,
        FailureChangesNothing, DriftIsLeftAlone, Changing, Working, AllStored, At,
        NextActive, Installed
  <2>22. FoundInv'
    BY <1>0, <1>00, <2>1, <2>2, <2>3, ReleaseAssumption
    DEF InstallInv, ChangingInv, FoundInv, InstallIsWhole, RegisteredIsStored,
        FailureChangesNothing, DriftIsLeftAlone, Changing, Working, AllStored, At,
        NextActive, Installed
  <2>23. RegisteredIsStored'
    BY <1>0, <1>00, <2>1, <2>2, <2>3, ReleaseAssumption
    DEF InstallInv, ChangingInv, FoundInv, InstallIsWhole, RegisteredIsStored,
        FailureChangesNothing, DriftIsLeftAlone, Changing, Working, AllStored, At,
        NextActive, Installed
  <2>24. FailureChangesNothing' /\ DriftIsLeftAlone'
    BY <1>0, <1>00, <2>1, <2>2, <2>3, ReleaseAssumption
    DEF InstallInv, ChangingInv, FoundInv, InstallIsWhole, RegisteredIsStored,
        FailureChangesNothing, DriftIsLeftAlone, Changing, Working, AllStored, At,
        NextActive, Installed
  <2> QED BY <2>20, <2>21, <2>22, <2>23, <2>24 DEF InstallInv, InstallIsWhole
<1>20. CASE Return
  <2>1. verbRun' = Idle /\ installState' = installState /\ executable' = executable /\ stored' = stored
    BY <1>20 DEF Return, DiskKept
  <2>2. Idle \in Runs
    BY InstallIdle
  <2>3. /\ Idle.pc = "idle" /\ Idle.found.exe = NoRelease /\ Idle.found.state.active = NoRelease
        /\ Idle.verb = "status"
    BY DEF Idle, NotInstalled
  <2>20. InstallTypes'
    BY <1>0, <1>00, <2>1, <2>2, <2>3 DEF InstallTypes, StoredContents
  <2>21. ChangingInv'
    BY <1>0, <1>00, <2>1, <2>2, <2>3, ReleaseAssumption
    DEF InstallInv, ChangingInv, FoundInv, InstallIsWhole, RegisteredIsStored,
        FailureChangesNothing, DriftIsLeftAlone, Changing, Working, AllStored, At,
        NextActive, Installed
  <2>22. FoundInv'
    BY <1>0, <1>00, <2>1, <2>2, <2>3, ReleaseAssumption
    DEF InstallInv, ChangingInv, FoundInv, InstallIsWhole, RegisteredIsStored,
        FailureChangesNothing, DriftIsLeftAlone, Changing, Working, AllStored, At,
        NextActive, Installed
  <2>23. RegisteredIsStored'
    BY <1>0, <1>00, <2>1, <2>2, <2>3, ReleaseAssumption
    DEF InstallInv, ChangingInv, FoundInv, InstallIsWhole, RegisteredIsStored,
        FailureChangesNothing, DriftIsLeftAlone, Changing, Working, AllStored, At,
        NextActive, Installed
  <2>24. FailureChangesNothing' /\ DriftIsLeftAlone'
    BY <1>0, <1>00, <2>1, <2>2, <2>3, ReleaseAssumption
    DEF InstallInv, ChangingInv, FoundInv, InstallIsWhole, RegisteredIsStored,
        FailureChangesNothing, DriftIsLeftAlone, Changing, Working, AllStored, At,
        NextActive, Installed
  <2> QED BY <2>20, <2>21, <2>22, <2>23, <2>24 DEF InstallInv, InstallIsWhole
<1>21. CASE Tamper
  <2>1. verbRun.pc = "idle" /\ verbRun' = verbRun /\ installState' = installState
        /\ executable' = Unmanaged /\ stored' = stored
    BY <1>21 DEF Tamper, At
  <2>20. InstallTypes'
    BY <1>0, <1>00, <2>1 DEF InstallTypes, StoredContents
  <2>21. ChangingInv'
    BY <1>0, <1>00, <2>1, ReleaseAssumption
    DEF InstallInv, ChangingInv, FoundInv, InstallIsWhole, RegisteredIsStored,
        FailureChangesNothing, DriftIsLeftAlone, Changing, Working, AllStored, At,
        NextActive, Installed
  <2>22. FoundInv'
    BY <1>0, <1>00, <2>1, ReleaseAssumption
    DEF InstallInv, ChangingInv, FoundInv, InstallIsWhole, RegisteredIsStored,
        FailureChangesNothing, DriftIsLeftAlone, Changing, Working, AllStored, At,
        NextActive, Installed
  <2>23. RegisteredIsStored'
    BY <1>0, <1>00, <2>1, ReleaseAssumption
    DEF InstallInv, ChangingInv, FoundInv, InstallIsWhole, RegisteredIsStored,
        FailureChangesNothing, DriftIsLeftAlone, Changing, Working, AllStored, At,
        NextActive, Installed
  <2>24. FailureChangesNothing' /\ DriftIsLeftAlone'
    BY <1>0, <1>00, <2>1, ReleaseAssumption
    DEF InstallInv, ChangingInv, FoundInv, InstallIsWhole, RegisteredIsStored,
        FailureChangesNothing, DriftIsLeftAlone, Changing, Working, AllStored, At,
        NextActive, Installed
  <2> QED BY <2>20, <2>21, <2>22, <2>23, <2>24 DEF InstallInv, InstallIsWhole
<1>22. CASE UNCHANGED installVars
  <2>1. verbRun' = verbRun /\ installState' = installState /\ executable' = executable /\ stored' = stored
    BY <1>22 DEF installVars
  <2>20. InstallTypes'
    BY <1>0, <1>00, <2>1 DEF InstallTypes, StoredContents
  <2>21. ChangingInv'
    BY <1>0, <1>00, <2>1, ReleaseAssumption
    DEF InstallInv, ChangingInv, FoundInv, InstallIsWhole, RegisteredIsStored,
        FailureChangesNothing, DriftIsLeftAlone, Changing, Working, AllStored, At,
        NextActive, Installed
  <2>22. FoundInv'
    BY <1>0, <1>00, <2>1, ReleaseAssumption
    DEF InstallInv, ChangingInv, FoundInv, InstallIsWhole, RegisteredIsStored,
        FailureChangesNothing, DriftIsLeftAlone, Changing, Working, AllStored, At,
        NextActive, Installed
  <2>23. RegisteredIsStored'
    BY <1>0, <1>00, <2>1, ReleaseAssumption
    DEF InstallInv, ChangingInv, FoundInv, InstallIsWhole, RegisteredIsStored,
        FailureChangesNothing, DriftIsLeftAlone, Changing, Working, AllStored, At,
        NextActive, Installed
  <2>24. FailureChangesNothing' /\ DriftIsLeftAlone'
    BY <1>0, <1>00, <2>1, ReleaseAssumption
    DEF InstallInv, ChangingInv, FoundInv, InstallIsWhole, RegisteredIsStored,
        FailureChangesNothing, DriftIsLeftAlone, Changing, Working, AllStored, At,
        NextActive, Installed
  <2> QED BY <2>20, <2>21, <2>22, <2>23, <2>24 DEF InstallInv, InstallIsWhole
<1> QED BY <1>1, <1>2, <1>3, <1>4, <1>5, <1>6, <1>7, <1>8, <1>9, <1>10, <1>11, <1>12, <1>13,
           <1>14, <1>15, <1>16, <1>17, <1>18, <1>19, <1>20, <1>21, <1>22 DEF InstallNext

(* A command over an installed release changes files only from an          *)
(* installation that verified, or from none, and where it fails it leaves  *)
(* them as it found them (release-installation.ts).                        *)
THEOREM InstallInvariance == InstallSpec => []InstallInv
  BY InstallInitInv, InstallStep, PTL DEF InstallSpec

(***************************************************************************)
(* Configuration: the configuration loads, and its key is there.           *)
(***************************************************************************)
References == {Environment} \cup {Dotenv(f) : f \in IDs} \cup {Keychain(s) : s \in IDs}
Profiles ==
  [id : IDs, protocol : {"chat", "responses"}, key : IDs, routing : {"none", "body", "headers"},
   secret : References]
Wizarding ==
  [pc : {"idle", "profile", "secret", "type", "verify", "save"},
   existing : Profiles \cup {NoConfig}, draft : Profiles \cup {NoConfig}]

(* The key of a profile c is where c says. *)
KeyThere(c) ==
  \/ c.secret.source = "environment"
  \/ c.secret.source = "dotenv" /\ c.secret.place \in overwritten
  \/ KeyFound(c.secret, c.key)

(* A wizard that was told a provider keeps a draft that loads, and saves   *)
(* one whose key it saw.                                                   *)
TellsWell(x) ==
  /\ x.pc \in {"secret", "type", "verify", "save"} => x.draft \in Profiles /\ ProfileLoads(x.draft)
  /\ x.pc = "secret" => x.draft.secret = Environment
  /\ x.pc = "save" => KeyThere(x.draft)

ConfigInv ==
  /\ keyFile \in [IDs -> IDs \cup {"none"}] /\ wizard \in [Wizards -> Wizarding] /\ started \in Nat
  /\ started = 0 => \A w \in Wizards : wizard[w].pc = "idle"
  /\ \A w \in Wizards : TellsWell(wizard[w])
  /\ saved # NoConfig => saved \in Profiles /\ ProfileLoads(saved) /\ KeyThere(saved)

LEMMA NoIDIsNone == "none" \notin IDs
  BY PresetsAssumption DEF IDs

LEMMA NoProfile == NoConfig \notin Profiles
<1>1. NoConfig.id = "none"
  BY DEF NoConfig
<1> QED BY <1>1, NoIDIsNone DEF Profiles

LEMMA ReferenceCases ==
  ASSUME NEW r \in References
  PROVE  /\ r.source \in {"environment", "dotenv", "keychain"}
         /\ r.source # "environment" => r.place \in IDs
         /\ r.source = "environment" => r = Environment
  BY DEF References, Environment, Dotenv, Keychain

LEMMA ConfigInitInv == ConfigInit => ConfigInv
<1> SUFFICES ASSUME ConfigInit PROVE ConfigInv
  OBVIOUS
<1>1. NoWizard \in Wizarding /\ NoWizard.pc = "idle"
  BY DEF NoWizard, Wizarding
<1>2. keyFile \in [IDs -> IDs \cup {"none"}] /\ wizard \in [Wizards -> Wizarding]
  BY <1>1 DEF ConfigInit
<1>3. \A w \in Wizards : wizard[w].pc = "idle"
  BY <1>1 DEF ConfigInit
<1> QED BY <1>2, <1>3 DEF ConfigInit, ConfigInv, TellsWell

(* What is written leaves the key of every profile where it was, or says   *)
(* that the file was overwritten.                                          *)
KeysKept ==
  \A c \in Profiles : KeyThere(c) => KeyThere(c)'

(* One wizard moves, and writes nothing that would hide a key.             *)
LEMMA WizardMoves ==
  ASSUME ConfigInv, NEW w \in Wizards, NEW x \in Wizarding, wizard' = [wizard EXCEPT ![w] = x],
         keyFile' \in [IDs -> IDs \cup {"none"}], started' \in Nat, started' > 0, KeysKept,
         TellsWell(x)', \/ saved' = saved
                        \/ (saved' \in Profiles /\ ProfileLoads(saved') /\ KeyThere(saved)')
  PROVE  ConfigInv'
<1> USE DEF KeyThere, KeyFound, FileDefines, KeychainHas, ProfileLoads
<1>1. wizard' \in [Wizards -> Wizarding]
  BY DEF ConfigInv
<1>2. ASSUME NEW v \in Wizards PROVE TellsWell(wizard[v])'
  <2>1. CASE v = w
    <3>1. wizard'[v] = x
      BY <2>1 DEF ConfigInv
    <3> QED BY <3>1 DEF TellsWell
  <2>2. CASE v # w
    <3>1. wizard'[v] = wizard[v] /\ TellsWell(wizard[v])
      BY <2>2 DEF ConfigInv
    <3>2. wizard[v].draft \in Profiles =>
            (KeyThere(wizard[v].draft) => KeyThere(wizard[v].draft)')
      <4> SUFFICES ASSUME NEW c \in Profiles, c = wizard[v].draft
                   PROVE  KeyThere(wizard[v].draft) => KeyThere(wizard[v].draft)'
        OBVIOUS
      <4>1. KeyThere(c) => KeyThere(c)'
        BY DEF KeysKept
      <4> QED BY <3>1, <4>1
    <3> QED BY <3>1, <3>2 DEF TellsWell
  <2> QED BY <2>1, <2>2
<1>3. saved' # NoConfig => saved' \in Profiles /\ ProfileLoads(saved') /\ KeyThere(saved)'
  <2>1. CASE saved' = saved /\ saved # NoConfig
    <3>1. saved \in Profiles /\ ProfileLoads(saved) /\ KeyThere(saved)
      BY <2>1 DEF ConfigInv
    <3> SUFFICES ASSUME NEW c \in Profiles, c = saved
                 PROVE  saved' \in Profiles /\ ProfileLoads(saved') /\ KeyThere(saved)'
      BY <3>1
    <3>2. KeyThere(c) => KeyThere(c)'
      BY DEF KeysKept
    <3> QED BY <2>1, <3>1, <3>2
  <2> QED BY <2>1
<1> QED BY <1>1, <1>2, <1>3 DEF ConfigInv

(* A step that writes no key keeps every key. *)
LEMMA NothingWritten ==
  ASSUME UNCHANGED <<keyFile, keychain, overwritten>>
  PROVE  KeysKept /\ \A c \in Profiles : KeyThere(c)' <=> KeyThere(c)
  BY DEF KeysKept, KeyThere, KeyFound, FileDefines, KeychainHas

LEMMA TellEdit ==
  ASSUME ConfigInv, NEW w \in Wizards, NEW d \in Profiles,
         NEW l \in {"secret", "type", "verify", "save"}, Tell(w, l, d)
  PROVE  \E x \in Wizarding : wizard' = [wizard EXCEPT ![w] = x] /\ x.pc = l /\ x.draft = d
<1> DEFINE x == [wizard[w] EXCEPT !.pc = l, !.draft = d]
<1>1. x \in Wizarding /\ x.pc = l /\ x.draft = d
  BY DEF ConfigInv, Wizarding
<1>2. wizard' = [wizard EXCEPT ![w] = x]
  BY DEF Tell
<1> QED BY <1>1, <1>2

(* A wizard that is told more, and writes no key. *)
LEMMA WizardTold ==
  ASSUME ConfigInv, NEW w \in Wizards, started > 0, NEW d \in Profiles, ProfileLoads(d),
         NEW l \in {"secret", "type", "verify", "save"}, Tell(w, l, d),
         UNCHANGED <<saved, keyFile, keychain, overwritten, started>>,
         l = "secret" => d.secret = Environment, l = "save" => KeyThere(d)
  PROVE  ConfigInv'
<1>1. PICK x \in Wizarding : wizard' = [wizard EXCEPT ![w] = x] /\ x.pc = l /\ x.draft = d
  BY TellEdit
<1>2. KeysKept /\ (KeyThere(d)' <=> KeyThere(d))
  BY NothingWritten
<1>3. TellsWell(x)'
  <2>1. x.pc = "save" => KeyThere(x.draft)'
    BY <1>1, <1>2 DEF KeyThere, KeyFound, FileDefines, KeychainHas
  <2> QED BY <1>1, <2>1
          DEF TellsWell, ProfileLoads, KeyThere, KeyFound, FileDefines, KeychainHas
<1>4. keyFile' \in [IDs -> IDs \cup {"none"}] /\ started' \in Nat /\ started' > 0 /\ saved' = saved
  BY DEF ConfigInv
<1> QED BY <1>1, <1>2, <1>3, <1>4, WizardMoves

LEMMA WizardStops ==
  ASSUME ConfigInv, NEW w \in Wizards, started > 0, Stop(w),
         UNCHANGED <<keyFile, keychain, overwritten, started>>,
         \/ saved' = saved
         \/ (saved' \in Profiles /\ ProfileLoads(saved') /\ KeyThere(saved)')
  PROVE  ConfigInv'
<1>1. NoWizard \in Wizarding /\ NoWizard.pc = "idle"
  BY DEF NoWizard, Wizarding
<1>2. wizard' = [wizard EXCEPT ![w] = NoWizard]
  BY DEF Stop
<1>3. KeysKept
  BY NothingWritten
<1>4. \A x \in Wizarding : x.pc = "idle" => TellsWell(x)'
  BY DEF TellsWell
<1>5. keyFile' \in [IDs -> IDs \cup {"none"}] /\ started' \in Nat /\ started' > 0
  BY DEF ConfigInv
<1>6. SUFFICES ASSUME NEW x \in Wizarding, x = NoWizard PROVE ConfigInv'
  BY <1>1
<1>7. TellsWell(x)' /\ wizard' = [wizard EXCEPT ![w] = x]
  BY <1>1, <1>2, <1>4, <1>6
<1> QED BY <1>3, <1>5, <1>7, WizardMoves

(* A wizard that is open was started.                                      *)
LEMMA OpenWizard ==
  ASSUME ConfigInv, NEW w \in Wizards, wizard[w].pc # "idle"
  PROVE  started > 0 /\ wizard[w] \in Wizarding /\ TellsWell(wizard[w])
  BY DEF ConfigInv

(* The file and the service offered are named after a provider. *)
LEMMA OfferedPlaces ==
  ASSUME ConfigInv, NEW w \in Wizards, wizard[w].draft \in Profiles
  PROVE  OfferedFile(w) \in IDs /\ OfferedService(w) \in IDs
<1> DEFINE old == wizard[w].existing
           d == wizard[w].draft
<1>1. old \in Profiles \/ old = NoConfig
  BY DEF ConfigInv, Wizarding
<1>2. d.id \in IDs
  BY DEF Profiles
<1>3. CASE old \in Profiles
  <2>1. /\ old.secret \in References
    BY <1>3 DEF Profiles
  <2> QED BY <1>2, <2>1, ReferenceCases DEF OfferedFile, OfferedService
<1>4. CASE old = NoConfig
  <2>1. ~SameProvider(old, d.id)
    BY <1>2, <1>4, NoIDIsNone DEF SameProvider, NoConfig
  <2> QED BY <1>2, <2>1 DEF OfferedFile, OfferedService
<1> QED BY <1>1, <1>3, <1>4

(* A draft that says where its key is loads as it did before. *)
LEMMA DraftEdit ==
  ASSUME NEW c \in Profiles, ProfileLoads(c), NEW r \in References
  PROVE  LET d == [c EXCEPT !.secret = r]
         IN  d \in Profiles /\ ProfileLoads(d) /\ d.secret = r /\ d.key = c.key
  BY DEF Profiles, ProfileLoads

LEMMA ConfigStep == ConfigInv /\ [ConfigNext]_configVars => ConfigInv'
<1> SUFFICES ASSUME ConfigInv, [ConfigNext]_configVars PROVE ConfigInv'
  OBVIOUS
<1>1. ASSUME NEW c \in OldConfigs, Inherit(c) PROVE ConfigInv'
  <2>1. /\ c \in Profiles /\ ProfileLoads(c) /\ c.key \in IDs /\ c.secret \in References
        /\ c.secret.source = "environment" \/ (c.secret.source = "dotenv" /\ c.secret.place \in IDs)
    BY DEF OldConfigs, Profiles, References, Environment, Dotenv, ProfileLoads
  <2>2. /\ started = 0 /\ started' = started /\ saved' = c /\ wizard' = wizard
        /\ keyFile' = IF c.secret.source = "dotenv" THEN [keyFile EXCEPT ![c.secret.place] = c.key]
                      ELSE keyFile
    BY <1>1 DEF Inherit
  <2>3. keyFile' \in [IDs -> IDs \cup {"none"}]
    <3>1. keyFile \in [IDs -> IDs \cup {"none"}]
      BY DEF ConfigInv
    <3>2. CASE c.secret.source = "dotenv"
      <4>1. keyFile' = [keyFile EXCEPT ![c.secret.place] = c.key] /\ c.secret.place \in IDs
        BY <2>1, <2>2, <3>2
      <4> QED BY <2>1, <3>1, <4>1
    <3>3. CASE c.secret.source # "dotenv"
      BY <2>2, <3>1, <3>3
    <3> QED BY <3>2, <3>3
  <2>4. KeyThere(saved)'
    BY <2>1, <2>2 DEF ConfigInv, KeyThere, KeyFound, FileDefines
  <2>5. ASSUME NEW w \in Wizards PROVE TellsWell(wizard[w])' /\ wizard'[w].pc = "idle"
    BY <2>2 DEF ConfigInv, TellsWell
  <2>6. wizard' \in [Wizards -> Wizarding] /\ started' \in Nat
    BY <2>2 DEF ConfigInv
  <2>7. saved' \in Profiles /\ ProfileLoads(saved')
    BY <2>1, <2>2 DEF ProfileLoads
  <2>8. \A w \in Wizards : TellsWell(wizard[w])'
    BY <2>5
  <2> QED BY <2>3, <2>4, <2>5, <2>6, <2>7, <2>8 DEF ConfigInv, ProfileLoads
<1>2. ASSUME NEW w \in Wizards, StartWizard(w) PROVE ConfigInv'
  <2> DEFINE y == [NoWizard EXCEPT !.pc = "profile", !.existing = saved]
  <2>1. y \in Wizarding /\ y.pc = "profile"
    BY DEF ConfigInv, NoWizard, Wizarding
  <2>2. /\ wizard' = [wizard EXCEPT ![w] = y] /\ started' = started + 1 /\ started \in Nat
        /\ UNCHANGED <<saved, keyFile, keychain, overwritten>>
        /\ keyFile' \in [IDs -> IDs \cup {"none"}]
    BY <1>2 DEF StartWizard, ConfigInv
  <2>3. \A x \in Wizarding : x.pc = "profile" => TellsWell(x)'
    BY DEF TellsWell
  <2>4. SUFFICES ASSUME NEW x \in Wizarding, x = y PROVE ConfigInv'
    BY <2>1
  <2>5. TellsWell(x)' /\ wizard' = [wizard EXCEPT ![w] = x]
    BY <2>1, <2>2, <2>3, <2>4
  <2>6. KeysKept /\ started' \in Nat /\ started' > 0 /\ saved' = saved
    BY <2>2, NothingWritten
  <2> QED BY <2>2, <2>5, <2>6, WizardMoves
<1>3. ASSUME NEW w \in Wizards, NEW preset \in Presets, NEW id \in IDs,
             NEW wire \in {"chat", "responses"}, ChooseProvider(w, preset, id, wire)
      PROVE  ConfigInv'
  <2> DEFINE old == wizard[w].existing
             d == Draft(preset, old, id, wire)
  <2>1. started > 0 /\ (old \in Profiles \/ old = NoConfig)
    BY <1>3, OpenWizard DEF ChooseProvider, Wizarding
  <2>2. RoutingOf(preset, old, id, wire) \in {"none", "body", "headers"}
    <3>1. SameProvider(old, id) => old.routing \in {"none", "body", "headers"}
      BY <2>1, NoIDIsNone DEF SameProvider, NoConfig, Profiles
    <3> QED BY <3>1, PresetsAssumption DEF RoutingOf
  <2>3. d \in Profiles /\ d.secret = Environment
    BY <2>2 DEF Draft, Profiles, IDs, References
  <2>4. CASE ProfileLoads(d)
    <3>1. Tell(w, "secret", d) /\ UNCHANGED <<saved, keyFile, keychain, overwritten, started>>
      BY <1>3, <2>4 DEF ChooseProvider
    <3> HIDE DEF d
    <3> QED BY <2>1, <2>3, <2>4, <3>1, WizardTold
  <2>5. CASE ~ProfileLoads(d)
    <3>1. Stop(w) /\ UNCHANGED <<saved, keyFile, keychain, overwritten, started>>
      BY <1>3, <2>5 DEF ChooseProvider
    <3> QED BY <2>1, <3>1, WizardStops
  <2> QED BY <2>4, <2>5
<1>4. ASSUME NEW w \in Wizards, wizard[w].pc = "secret",
             UNCHANGED <<saved, keyFile, keychain, overwritten, started>>,
             UseEnvironment(w) \/ UseFile(w) \/ UseKeychain(w)
      PROVE  ConfigInv'
  <2>1. /\ started > 0 /\ wizard[w].draft \in Profiles /\ ProfileLoads(wizard[w].draft)
        /\ wizard[w].draft.secret = Environment
    BY <1>4, OpenWizard DEF TellsWell
  <2>2. OfferedFile(w) \in IDs /\ OfferedService(w) \in IDs
    BY <2>1, OfferedPlaces
  <2>3. CASE UseEnvironment(w)
    <3>1. KeyThere(wizard[w].draft) /\ Tell(w, "save", wizard[w].draft)
      BY <2>1, <2>3 DEF UseEnvironment, KeyThere, Environment
    <3> QED BY <1>4, <2>1, <3>1, WizardTold
  <2>4. CASE UseFile(w)
    <3> DEFINE r == Dotenv(OfferedFile(w))
               d == [wizard[w].draft EXCEPT !.secret = r]
    <3>1. r \in References
      BY <2>2 DEF References
    <3>2. d \in Profiles /\ ProfileLoads(d)
      <4> HIDE DEF r
      <4> QED BY <2>1, <3>1, DraftEdit
    <3>3. \/ Tell(w, "type", d) \/ Stop(w)
          \/ (KeyFound(d.secret, d.key) /\ Tell(w, "save", d))
      BY <2>4 DEF UseFile
    <3> HIDE DEF d
    <3>4. KeyFound(d.secret, d.key) => KeyThere(d)
      BY DEF KeyThere
    <3> QED BY <1>4, <2>1, <3>2, <3>3, <3>4, WizardTold, WizardStops
  <2>5. CASE UseKeychain(w)
    <3> DEFINE r == Keychain(OfferedService(w))
               d == [wizard[w].draft EXCEPT !.secret = r]
    <3>1. r \in References
      BY <2>2 DEF References
    <3>2. d \in Profiles /\ ProfileLoads(d)
      <4> HIDE DEF r
      <4> QED BY <2>1, <3>1, DraftEdit
    <3>3. \/ Tell(w, "type", d)
          \/ (KeyFound(d.secret, d.key) /\ Tell(w, "save", d))
      BY <2>5 DEF UseKeychain
    <3> HIDE DEF d
    <3>4. KeyFound(d.secret, d.key) => KeyThere(d)
      BY DEF KeyThere
    <3> QED BY <1>4, <2>1, <3>2, <3>3, <3>4, WizardTold
  <2> QED BY <1>4, <2>3, <2>4, <2>5
<1>5. ASSUME NEW w \in Wizards, StoreKeyFile(w) PROVE ConfigInv'
  <2> DEFINE d == wizard[w].draft
             f == d.secret.place
  <2>1. /\ started > 0 /\ d \in Profiles /\ ProfileLoads(d) /\ d.secret.source = "dotenv"
        /\ Tell(w, "verify", d)
    BY <1>5, OpenWizard DEF StoreKeyFile, TellsWell
  <2>2. f \in IDs /\ d.key \in IDs
    BY <2>1, ReferenceCases DEF Profiles
  <2>3. /\ keyFile' = [keyFile EXCEPT ![f] = d.key] /\ UNCHANGED <<saved, keychain, started>>
        /\ overwritten' = IF keyFile[f] = "none" THEN overwritten ELSE overwritten \cup {f}
    BY <1>5 DEF StoreKeyFile
  <2>4. PICK x \in Wizarding : wizard' = [wizard EXCEPT ![w] = x] /\ x.pc = "verify" /\ x.draft = d
    BY <2>1, TellEdit
  <2>5. KeysKept
    <3> SUFFICES ASSUME NEW c \in Profiles, KeyThere(c) PROVE KeyThere(c)'
      BY DEF KeysKept
    <3> HIDE DEF d, f
    <3>1. c.key \in IDs /\ keyFile \in [IDs -> IDs \cup {"none"}]
      BY DEF ConfigInv, Profiles
    <3>2. c.secret.source # "environment" => c.secret.place \in IDs
      BY ReferenceCases DEF Profiles
    <3> QED BY <2>2, <2>3, <3>1, <3>2, NoIDIsNone
            DEF KeyThere, KeyFound, FileDefines, KeychainHas
  <2>6. TellsWell(x)'
    BY <2>1, <2>4 DEF TellsWell
  <2>7. keyFile' \in [IDs -> IDs \cup {"none"}] /\ started' \in Nat /\ started' > 0 /\ saved' = saved
    BY <2>1, <2>2, <2>3 DEF ConfigInv
  <2> QED BY <2>4, <2>5, <2>6, <2>7, WizardMoves
<1>6. ASSUME NEW w \in Wizards, StoreInKeychain(w) PROVE ConfigInv'
  <2> DEFINE d == wizard[w].draft
  <2>1. /\ started > 0 /\ d \in Profiles /\ ProfileLoads(d) /\ Tell(w, "verify", d)
    BY <1>6, OpenWizard DEF StoreInKeychain, TellsWell
  <2>2. PICK x \in Wizarding : wizard' = [wizard EXCEPT ![w] = x] /\ x.pc = "verify" /\ x.draft = d
    BY <2>1, TellEdit
  <2>3. keychain \subseteq keychain' /\ UNCHANGED <<saved, keyFile, overwritten, started>>
    BY <1>6 DEF StoreInKeychain
  <2>4. KeysKept
    BY <2>3 DEF KeysKept, KeyThere, KeyFound, FileDefines, KeychainHas
  <2>5. TellsWell(x)'
    BY <2>1, <2>2 DEF TellsWell
  <2>6. keyFile' \in [IDs -> IDs \cup {"none"}] /\ started' \in Nat /\ started' > 0 /\ saved' = saved
    BY <2>1, <2>3 DEF ConfigInv
  <2> QED BY <2>2, <2>4, <2>5, <2>6, WizardMoves
<1>7. ASSUME NEW w \in Wizards, VerifyKey(w) PROVE ConfigInv'
  <2> DEFINE d == wizard[w].draft
  <2>1. /\ started > 0 /\ d \in Profiles /\ ProfileLoads(d)
        /\ UNCHANGED <<saved, keyFile, keychain, overwritten, started>>
        /\ (KeyFound(d.secret, d.key) /\ Tell(w, "save", d)) \/ Stop(w)
    BY <1>7, OpenWizard DEF VerifyKey, TellsWell
  <2>2. KeyFound(d.secret, d.key) => KeyThere(d)
    BY DEF KeyThere
  <2> HIDE DEF d
  <2> QED BY <2>1, <2>2, WizardTold, WizardStops
<1>8. ASSUME NEW w \in Wizards, SaveConfig(w) PROVE ConfigInv'
  <2>1. /\ started > 0 /\ wizard[w].draft \in Profiles /\ ProfileLoads(wizard[w].draft)
        /\ KeyThere(wizard[w].draft) /\ saved' = wizard[w].draft /\ Stop(w)
        /\ UNCHANGED <<keyFile, keychain, overwritten, started>>
    BY <1>8, OpenWizard DEF SaveConfig, TellsWell
  <2> SUFFICES ASSUME NEW c \in Profiles, c = wizard[w].draft PROVE ConfigInv'
    BY <2>1
  <2>2. KeyThere(c)'
    BY <2>1, NothingWritten
  <2>3. KeyThere(saved)' /\ saved' \in Profiles /\ ProfileLoads(saved')
    BY <2>1, <2>2 DEF KeyThere, KeyFound, FileDefines, KeychainHas
  <2> QED BY <2>1, <2>3, WizardStops
<1>9. ASSUME NEW w \in Wizards, Abandon(w) PROVE ConfigInv'
  <2>1. /\ started > 0 /\ Stop(w) /\ UNCHANGED <<saved, keyFile, keychain, overwritten, started>>
    BY <1>9, OpenWizard DEF Abandon, Closed
  <2> QED BY <2>1, WizardStops
<1>10. CASE UNCHANGED configVars
  BY <1>10
  DEF configVars, ConfigInv, TellsWell, ProfileLoads, KeyThere, KeyFound, FileDefines,
      KeychainHas
<1>11. ASSUME NEW w \in Wizards, UseEnvironment(w) \/ UseFile(w) \/ UseKeychain(w) PROVE ConfigInv'
  <2>1. wizard[w].pc = "secret" /\ UNCHANGED <<saved, keyFile, keychain, overwritten, started>>
    BY <1>11 DEF UseEnvironment, UseFile, UseKeychain
  <2> QED BY <1>4, <1>11, <2>1
<1> QED BY <1>1, <1>2, <1>3, <1>5, <1>6, <1>7, <1>8, <1>9, <1>10, <1>11 DEF ConfigNext

(* The configuration on disk loads, and the key of its profile is where it *)
(* says, whatever two wizards that overlap write (configurator.ts, user-   *)
(* config.ts).                                                             *)
THEOREM ConfigInvariance == ConfigSpec => []ConfigInv
  BY ConfigInitInv, ConfigStep, PTL DEF ConfigSpec

LEMMA ConfigInvUsable == ConfigInv => ConfigIsUsable
  BY DEF ConfigInv, ConfigIsUsable, KeyThere

(***************************************************************************)
(* OpenCodePlugin: the reads of a reviewer after its command.              *)
(***************************************************************************)
(* What a reviewer's root may still read.                                  *)
GateInv ==
  /\ closeOut \in [Roots -> Nat \cup {NoGate}] /\ investigated \in [Roots -> Nat]
  /\ evidence \in [Roots -> [files : BOOLEAN, reproduced : BOOLEAN]]
  /\ shipping \in [Roots -> {"working", "published", "shipped"}]
  /\ reviewer \in BOOLEAN
  /\ reviewer => \A r \in Roots :
       /\ investigated[r] <= Budget
       /\ shipping[r] # "shipped" =>
            IF closeOut[r] = NoGate
            THEN investigated[r] = 0 /\ ~evidence[r].reproduced
            ELSE investigated[r] + closeOut[r] <= Budget

gateVars == <<reviewer, closeOut, investigated, evidence, shipping>>

LEMMA GateInit == PluginInit => GateInv
BY PluginAssumption DEF PluginInit, GateInv, NoGate, NoProof

(* A read behind the gate takes one from what is left.                     *)
LEMMA GateBegin ==
  ASSUME GateInv, NEW c \in Calls, BeginTool(c)
  PROVE  GateInv'
<1> DEFINE r == Root(c)
<1> reviewer' = reviewer /\ evidence' = evidence /\ shipping' = shipping
  BY DEF BeginTool, ConfigKept
<1>1. CASE r \in Roots /\ reviewer /\ evidence[r].reproduced /\ hook[c].kind # "organum_handoff"
  <2>1. shipping[r] # "shipped" /\ closeOut[r] # NoGate
    BY <1>1 DEF BeginTool, Passes, GateInv
  <2>2. hook[c].kind = "read" /\ closeOut[r] > 0
    BY <1>1, <2>1 DEF BeginTool, Passes
  <2>3. /\ closeOut' = [closeOut EXCEPT ![r] = @ - 1]
        /\ investigated' = [investigated EXCEPT ![r] = @ + 1]
    BY <1>1, <2>1, <2>2 DEF BeginTool
  <2> HIDE DEF r
  <2> QED
    BY <1>1, <2>1, <2>2, <2>3, PluginAssumption DEF GateInv, NoGate
<1>2. CASE r \in Roots /\ reviewer /\ ~(evidence[r].reproduced /\ hook[c].kind # "organum_handoff")
  <2>1. /\ investigated' = investigated
        /\ \/ closeOut' = closeOut
           \/ closeOut[r] # NoGate /\ hook[c].kind = "read" /\ closeOut' = [closeOut EXCEPT ![r] = @ - 1]
    BY <1>2 DEF BeginTool
  <2>2. hook[c].kind = "read" /\ closeOut[r] # NoGate => closeOut[r] > 0
    BY <1>2 DEF BeginTool, Passes
  <2> HIDE DEF r
  <2> QED
    BY <1>2, <2>1, <2>2, PluginAssumption DEF GateInv, NoGate
<1>3. CASE r \in Roots /\ ~reviewer
  <2>1. closeOut' = closeOut
    BY <1>3 DEF BeginTool
  <2>2. \/ investigated' = investigated
        \/ investigated' = [investigated EXCEPT ![r] = @ + 1]
    BY DEF BeginTool
  <2> HIDE DEF r
  <2> QED
    BY <1>3, <2>1, <2>2 DEF GateInv
<1>4. CASE r \notin Roots
  <2>1. /\ \/ closeOut' = closeOut \/ closeOut' = [closeOut EXCEPT ![r] = closeOut[r] - 1]
        /\ \/ investigated' = investigated
           \/ investigated' = [investigated EXCEPT ![r] = investigated[r] + 1]
    BY DEF BeginTool
  <2> HIDE DEF r
  <2>2. closeOut' = closeOut /\ investigated' = investigated
    BY <1>4, <2>1 DEF GateInv
  <2> QED
    BY <2>2 DEF GateInv
<1> QED
  BY <1>1, <1>2, <1>3, <1>4 DEF GateInv

(* The declared command that succeeds opens the gate once.                 *)
LEMMA GateAfter ==
  ASSUME GateInv, NEW c \in Calls, NEW success \in BOOLEAN, AfterTool(c, success)
  PROVE  GateInv'
<1> DEFINE r == Root(c)
<1> reviewer' = reviewer /\ investigated' = investigated /\ shipping' = shipping
  BY DEF AfterTool, ConfigKept
<1>1. CASE ~reviewer
  <2>1. evidence' = evidence /\ closeOut' = closeOut
    BY <1>1 DEF AfterTool
  <2> QED  BY <2>1 DEF GateInv
<1>2. CASE reviewer
  <2> DEFINE f == hook[c].kind = "read"
  <2>1. /\ evidence' = [evidence EXCEPT ![r].files = @ \/ f, ![r].reproduced = @ \/ success]
        /\ closeOut' = IF success /\ closeOut[r] = NoGate
                       THEN [closeOut EXCEPT ![r] = Budget] ELSE closeOut
    BY <1>2 DEF AfterTool
  <2> f \in BOOLEAN  OBVIOUS
  <2> HIDE DEF r, f
  <2>2. CASE r \notin Roots
    <3>1. evidence' = evidence /\ closeOut' = closeOut
      BY <2>1, <2>2 DEF GateInv
    <3> QED  BY <3>1 DEF GateInv
  <2>3. CASE r \in Roots
    <3>0. evidence[r].files \in BOOLEAN /\ evidence[r].reproduced \in BOOLEAN
      BY <2>3 DEF GateInv
    <3>1. /\ DOMAIN evidence' = Roots
          /\ \A q \in Roots : q # r => evidence'[q] = evidence[q]
          /\ evidence'[r] = [files |-> evidence[r].files \/ f,
                            reproduced |-> evidence[r].reproduced \/ success]
      <4> DEFINE a == [evidence EXCEPT ![r].files = @ \/ f]
      <4>1. /\ a \in [Roots -> [files : BOOLEAN, reproduced : BOOLEAN]]
            /\ a[r] = [files |-> evidence[r].files \/ f, reproduced |-> evidence[r].reproduced]
            /\ \A q \in Roots : q # r => a[q] = evidence[q]
        BY <2>3, <3>0, Zenon DEF GateInv
      <4>2. evidence' = [a EXCEPT ![r].reproduced = @ \/ success]
        BY <2>1
      <4> HIDE DEF a
      <4> QED  BY <4>1, <4>2, <2>3, <3>0
    <3>2. /\ evidence' \in [Roots -> [files : BOOLEAN, reproduced : BOOLEAN]]
          /\ \A q \in Roots : q # r => evidence'[q] = evidence[q]
          /\ ~success => evidence'[r].reproduced = evidence[r].reproduced
      BY <3>1, <3>0, <2>1, <2>3 DEF GateInv
    <3>3. /\ closeOut' \in [Roots -> Nat \cup {NoGate}]
          /\ \A q \in Roots : q # r => closeOut'[q] = closeOut[q]
          /\ success => closeOut'[r] # NoGate
          /\ closeOut[r] # NoGate \/ ~success => closeOut'[r] = closeOut[r]
          /\ closeOut[r] = NoGate /\ success => closeOut'[r] = Budget
      BY <2>1, <2>3, PluginAssumption DEF GateInv, NoGate
    <3> QED
      BY <1>2, <2>3, <3>2, <3>3, PluginAssumption DEF GateInv, NoGate
  <2> QED  BY <2>2, <2>3
<1> QED  BY <1>1, <1>2

LEMMA GatePublish ==
  ASSUME GateInv, NEW c \in Calls, NEW given \in BOOLEAN, Publish(c, given)
  PROVE  GateInv'
<1> DEFINE r == Root(c)
<1>1. /\ reviewer' = reviewer /\ investigated' = investigated
      /\ \/ /\ shipping' = [shipping EXCEPT ![r] = "shipped"]
            /\ closeOut' = [closeOut EXCEPT ![r] = NoGate]
            /\ evidence' = [evidence EXCEPT ![r] = NoProof]
         \/ /\ shipping' = [shipping EXCEPT ![r] = "published"] /\ shipping[r] # "shipped"
            /\ closeOut' = closeOut /\ evidence' = evidence
  BY DEF Publish, ConfigKept
<1> HIDE DEF r
<1>2. CASE r \notin Roots
  <2>1. shipping' = shipping /\ closeOut' = closeOut /\ evidence' = evidence
    BY <1>1, <1>2 DEF GateInv
  <2> QED  BY <1>1, <2>1 DEF GateInv
<1>3. CASE r \in Roots
  <2>1. /\ shipping' \in [Roots -> {"working", "published", "shipped"}]
        /\ closeOut' \in [Roots -> Nat \cup {NoGate}]
        /\ evidence' \in [Roots -> [files : BOOLEAN, reproduced : BOOLEAN]]
        /\ \A q \in Roots : q # r =>
             shipping'[q] = shipping[q] /\ closeOut'[q] = closeOut[q] /\ evidence'[q] = evidence[q]
        /\ \/ shipping'[r] = "shipped"
           \/ shipping[r] # "shipped" /\ closeOut' = closeOut /\ evidence' = evidence
    <3>1. NoProof \in [files : BOOLEAN, reproduced : BOOLEAN]
      BY DEF NoProof
    <3> HIDE DEF r
    <3>2. CASE shipping' = [shipping EXCEPT ![r] = "shipped"]
               /\ closeOut' = [closeOut EXCEPT ![r] = NoGate]
               /\ evidence' = [evidence EXCEPT ![r] = NoProof]
      BY <1>3, <3>1, <3>2 DEF GateInv
    <3>3. CASE shipping' = [shipping EXCEPT ![r] = "published"] /\ shipping[r] # "shipped"
               /\ closeOut' = closeOut /\ evidence' = evidence
      BY <1>3, <3>3 DEF GateInv
    <3> QED  BY <1>1, <3>2, <3>3
  <2> QED  BY <1>1, <1>3, <2>1 DEF GateInv
<1> QED  BY <1>2, <1>3

LEMMA GateStep == GateInv /\ [PluginNext]_pluginVars => GateInv'
<1> SUFFICES ASSUME GateInv, [PluginNext]_pluginVars PROVE GateInv'
  OBVIOUS
<1>1. CASE UNCHANGED gateVars
  BY <1>1 DEF gateVars, GateInv
<1>2. CASE PluginNext
  <2>1. CASE WriteReceipt \/ WriteReceiptFails
    BY <2>1, <1>1 DEF WriteReceipt, WriteReceiptFails, ClosingKept, ConfigKept, gateVars
  <2>2. ASSUME NEW c \in Calls, NEW s \in OCSessions,
               \/ \E shown \in SUBSET Unseen(s) : Transform(c, s, shown)
               \/ \E text \in Texts : CompleteText(c, s, text)
               \/ \E tool \in Tools : AskTool(c, s, tool)
               \/ IdleEvent(c, s)
        PROVE  GateInv'
    BY <2>2, <1>1
    DEF Transform, CompleteText, AskTool, IdleEvent, ClosingKept, ConfigKept, gateVars
  <2>3. ASSUME NEW c \in Calls,
               \/ Push(c) \/ Confirm(c) \/ (\E x \in RelayItems : MarkRead(c, x))
               \/ MarkFails(c) \/ AdmitStaged(c) \/ Restage(c) \/ TextDone(c)
               \/ RefuseTool(c) \/ PublishFails(c)
        PROVE  GateInv'
    BY <2>3, <1>1 DEF Push, Confirm, MarkRead, MarkFails, AdmitStaged, Restage, TextDone,
       RefuseTool, PublishFails, ClosingKept, ConfigKept, gateVars
  <2> QED
    BY <1>2, <2>1, <2>2, <2>3, GateBegin, GateAfter, GatePublish DEF PluginNext
<1> QED
  BY <1>1, <1>2 DEF pluginVars, gateVars

(* What a reviewer's root has read since its declared command succeeded,   *)
(* and what it may still read, stay within the budget (opencode-           *)
(* plugin.ts).                                                             *)
THEOREM GateInvariance == PluginSpec => []GateInv
BY GateInit, GateStep, PTL DEF PluginSpec

(* Once its declared command succeeded a reviewer's root begins no more    *)
(* than the budget of reads, however hooks of its sessions overlap.        *)
THEOREM PluginBounded == PluginSpec => []PluginIsBounded
<1>1. GateInv => PluginIsBounded
  BY DEF GateInv, PluginIsBounded
<1> QED  BY <1>1, GateInvariance, PTL

(***************************************************************************)
(* OpenCodePlugin: the receipt that the cast reads.                        *)
(***************************************************************************)
(* A set of numbers that is not empty has a least one.                     *)
LEMMA LeastNatural ==
  ASSUME NEW T \in SUBSET Nat, T # {}
  PROVE  \E m \in T : \A k \in T : ~(k < m)
<1>1. \E m \in T : \A k \in T : <<k, m>> \notin OpToRel(<, Nat)
  BY NatLessThanWellFounded, WFMin
<1>2. PICK m \in T : \A k \in T : <<k, m>> \notin OpToRel(<, Nat)
  BY <1>1
<1>3. ASSUME NEW k \in T, k < m PROVE <<k, m>> \in OpToRel(<, Nat)
  BY <1>3 DEF OpToRel
<1> QED BY <1>2, <1>3

(* Wherever the climb from a session ends, it ends at a session: the first *)
(* step of the climb, and the first number of steps, at which it did not   *)
(* would have one before it (opencode-session.ts).                         *)
LEMMA RootsAreSessions == Roots \subseteq OCSessions
<1> DEFINE parent(t) == IF ParentOf[t] = NoSession THEN t ELSE ParentOf[t]
           first     == [s \in OCSessions |-> s]
           Climb(f, n) == IF n = 0 THEN first
                          ELSE [s \in OCSessions |-> parent(f[n - 1][s])]
           IsClimb(f, m) == f = [n \in 0..m |-> Climb(f, n)]
           Unclimbed == {m \in Nat : \A f : ~IsClimb(f, m)}
           up == CHOOSE f : IsClimb(f, MaxDepth - 1)
           Astray == {n \in 0..(MaxDepth - 1) : \E s \in OCSessions : up[n][s] \notin OCSessions}
<1>1. RootOf = up[MaxDepth - 1]
  BY DEF RootOf
<1>2. MaxDepth - 1 \in Nat
  BY PluginAssumption
<1> HIDE DEF up, IsClimb, Unclimbed, Astray
<1>3. Unclimbed = {}
  <2> SUFFICES ASSUME Unclimbed # {} PROVE FALSE
    OBVIOUS
  <2>1. Unclimbed \in SUBSET Nat
    BY DEF Unclimbed
  <2>2. PICK m \in Unclimbed : \A k \in Unclimbed : ~(k < m)
    BY <2>1, LeastNatural
  <2>3. m \in Nat
    BY <2>1, <2>2
  <2>4. ASSUME NEW f PROVE ~IsClimb(f, m)
    BY <2>2 DEF Unclimbed
  <2>5. CASE m = 0
    <3>1. IsClimb([n \in 0..0 |-> first], 0)
      BY DEF IsClimb
    <3> QED BY <2>4, <2>5, <3>1
  <2>6. CASE m # 0
    <3>1. m - 1 \in Nat /\ m - 1 < m
      BY <2>3, <2>6
    <3>2. m - 1 \notin Unclimbed
      BY <2>2, <3>1
    <3>3. PICK f : IsClimb(f, m - 1)
      BY <3>1, <3>2 DEF Unclimbed
    <3> DEFINE last == [s \in OCSessions |-> parent(f[m - 1][s])]
               g == [n \in 0..m |-> IF n < m THEN f[n] ELSE last]
    <3>4. \A n \in 0..(m - 1) : f[n] = Climb(f, n)
      BY <3>3 DEF IsClimb
    <3>5. /\ \A n \in 0..m : g[n] = IF n < m THEN f[n] ELSE last
          /\ g = [n \in 0..m |-> g[n]]
      OBVIOUS
    <3> HIDE DEF g
    <3>6. ASSUME NEW n \in 0..m PROVE g[n] = Climb(g, n)
      <4>0. n \in Int /\ 0 <= n /\ n <= m
        BY <2>3
      <4>1. CASE n = 0
        <5>1. n < m /\ n \in 0..(m - 1)
          BY <4>0, <4>1, <2>3, <2>6
        <5>2. g[n] = f[n] /\ f[n] = Climb(f, n)
          BY <5>1, <3>4, <3>5
        <5> QED BY <5>2, <4>1
      <4>2. CASE n # 0 /\ n < m
        <5>1. /\ n \in 0..(m - 1) /\ n - 1 \in 0..m /\ n - 1 < m
          BY <4>0, <4>2, <2>3
        <5>2. g[n] = f[n] /\ g[n - 1] = f[n - 1]
          BY <5>1, <4>2, <3>5
        <5>3. f[n] = Climb(f, n)
          BY <5>1, <3>4
        <5> QED BY <5>2, <5>3, <4>2
      <4>3. CASE n = m
        <5>1. n - 1 \in 0..m /\ n - 1 < m
          BY <4>0, <4>3, <2>3, <2>6
        <5>2. g[n] = last /\ g[n - 1] = f[m - 1]
          BY <5>1, <4>3, <2>3, <3>5
        <5> QED BY <5>2, <4>3, <2>6
      <4> QED BY <4>0, <4>1, <4>2, <4>3, <2>3
    <3>7. g = [n \in 0..m |-> Climb(g, n)]
      BY <3>5, <3>6, Zenon
    <3> QED BY <3>7, <2>4 DEF IsClimb
  <2> QED BY <2>5, <2>6
<1>4. IsClimb(up, MaxDepth - 1)
  <2>1. \E f : IsClimb(f, MaxDepth - 1)
    BY <1>2, <1>3 DEF Unclimbed
  <2> QED BY <2>1, Zenon DEF up
<1>5. \A n \in 0..(MaxDepth - 1) : up[n] = Climb(up, n)
  BY <1>4 DEF IsClimb
<1>6. Astray = {}
  <2> SUFFICES ASSUME Astray # {} PROVE FALSE
    OBVIOUS
  <2>1. Astray \in SUBSET Nat
    BY <1>2 DEF Astray
  <2>2. PICK m \in Astray : \A k \in Astray : ~(k < m)
    BY <2>1, LeastNatural
  <2>3. m \in 0..(MaxDepth - 1)
    BY <2>2 DEF Astray
  <2>4. PICK s \in OCSessions : up[m][s] \notin OCSessions
    BY <2>2 DEF Astray
  <2>5. CASE m = 0
    BY <2>3, <2>4, <2>5, <1>5
  <2>6. CASE m # 0
    <3>1. m - 1 \in 0..(MaxDepth - 1) /\ m - 1 < m
      BY <1>2, <2>3, <2>6
    <3>2. m - 1 \notin Astray
      BY <2>2, <3>1
    <3>3. up[m - 1][s] \in OCSessions
      BY <3>1, <3>2 DEF Astray
    <3>4. up[m] = Climb(up, m)
      BY <1>5, <2>3
    <3>5. up[m][s] = parent(up[m - 1][s])
      BY <3>4, <2>6
    <3> QED BY <2>4, <3>3, <3>5, PluginAssumption
  <2> QED BY <2>5, <2>6
<1>7. \A s \in OCSessions : up[MaxDepth - 1][s] \in OCSessions
  BY <1>2, <1>6 DEF Astray
<1> QED BY <1>1, <1>7 DEF Roots

(* What the records of the model range over.                               *)
Items   == RelayItems \cup OtherItems
Stages  == [turn : Nat, relay : Nat]
Counts  == [prepared : Nat, turns : Nat, exposed : Nat, items : Nat, acks : Nat]
Receipts == [delivery : Counts, shipped : BOOLEAN]
HookPlaces == {"none", "writing", "push", "ensure", "marking", "threw", "admitted", "executing"}
Hooks == [at : HookPlaces, kind : Tools \cup {"none", "text", "transform", "idle"},
          session : OCSessions \cup {NoSession}, taken : Stages,
          packet : SUBSET Items, left : SUBSET Items]
Writes == [call : Calls, next : {"push", "admitted", "done"}, body : Receipts]

(* The type of every variable the proof needs.                             *)
PluginTypeOK ==
  /\ receipted \in BOOLEAN /\ poisoned \in BOOLEAN
  /\ prompted \subseteq OCSessions
  /\ hook \in [Calls -> Hooks]
  /\ pendingItems \in [OCSessions -> SUBSET Items] /\ staged \in [OCSessions -> Stages]
  /\ seenItems \in [Roots -> SUBSET Items] /\ marked \subseteq Items
  /\ delivery \in Counts
  /\ receiptRoot \in Roots \cup {NoSession}
  /\ chain \in Seq(Writes) /\ receiptFile \in Receipts
  /\ shipping \in [Roots -> {"working", "published", "shipped"}]
  /\ told \subseteq OCSessions \X Items /\ admitted \subseteq OCSessions \X Items

(* Call c makes a prompt; belongs to a turn whose model reads one; holds a *)
(* turn that it took and has not counted.                                  *)
Prompting(c) == ~Free(c) /\ hook[c].kind = "transform"
Reading(c) ==
  \/ hook[c].at \in {"ensure", "marking", "threw", "admitted", "executing"}
  \/ hook[c].at = "writing" /\ hook[c].taken # Unstaged
Held(c) == hook[c].at \in {"marking", "threw"}

(* A prompt is made for a session that reads none; whoever admits one      *)
(* heard from a model that reads it.                                       *)
CallInv(c) ==
  /\ ~Free(c) => Session(c) \in OCSessions
  /\ hook[c].at = "push" => Prompting(c)
  /\ Prompting(c) =>
       /\ hook[c].at \in {"writing", "push"} /\ hook[c].taken = Unstaged
       /\ Session(c) \notin prompted /\ hook[c].packet = pendingItems[Session(c)]
       /\ receipted => receiptRoot = RootOf[Session(c)]
       /\ \A d \in Calls : Prompting(d) /\ Session(d) = Session(c) => d = c
  /\ Reading(c) => Session(c) \in prompted /\ ~Prompting(c)
  /\ hook[c].at \in {"ensure", "marking", "threw"} => hook[c].taken # Unstaged
  /\ hook[c].at = "executing" => hook[c].taken = Unstaged
  /\ hook[c].at = "marking" =>
       hook[c].left \subseteq hook[c].packet /\ {Session(c)} \X hook[c].packet \subseteq told

HooksInv == \A c \in Calls : CallInv(c)

(* What was told, admitted, seen and marked agree.                         *)
ReaderInv(s) ==
  /\ s \in prompted => /\ {s} \X pendingItems[s] \subseteq told
                       /\ receipted => receiptRoot = RootOf[s]
  /\ \A x \in pendingItems[s] : <<s, x>> \notin admitted
  /\ \A x \in Items : <<s, x>> \in admitted => x \in seenItems[RootOf[s]]
PairsInv ==
  /\ \A s \in OCSessions : ReaderInv(s)
  /\ admitted \subseteq told
  /\ \A x \in marked : \E s \in OCSessions : <<s, x>> \in told

(* Every item a model was told, or is about to be, was counted.            *)
Shown == told \cup {p \in OCSessions \X Items :
                      \E c \in Calls : Prompting(c) /\ p[1] = Session(c) /\ p[2] \in hook[c].packet}
ShownInv == IsFiniteSet(Shown) /\ Cardinality(Shown) <= delivery.exposed

(* While no write failed, the counters are exact, and a turn is staged, or *)
(* in the hands of one call, until it is counted.                          *)
RelayPart(S) == Cardinality(S \cap RelayItems)
Acked == {p \in admitted : p[2] \in RelayItems /\ p[2] \in marked}
Open  == {s \in OCSessions :
            staged[s] # Unstaged \/ \E c \in Calls : Held(c) /\ Session(c) = s}
HeldInv(c) ==
  Held(c) =>
    /\ staged[Session(c)] = Unstaged
    /\ \A d \in Calls : Held(d) /\ Session(d) = Session(c) => d = c
    /\ hook[c].taken.relay = RelayPart(pendingItems[Session(c)])
    /\ hook[c].at = "marking" =>
         /\ hook[c].packet = pendingItems[Session(c)]
         /\ hook[c].packet \cap RelayItems \subseteq marked \cup hook[c].left
CountInv ==
  ~poisoned =>
    /\ delivery.items = Cardinality(admitted)
    /\ delivery.acks <= Cardinality(Acked)
    /\ IsFiniteSet(Open) /\ delivery.turns + Cardinality(Open) <= delivery.prepared
    /\ \A s \in OCSessions : staged[s] # Unstaged => staged[s].relay = RelayPart(pendingItems[s])
    /\ \A c \in Calls : HeldInv(c)

(* No write claims more than came to pass when it was queued.              *)
Behind(body) ==
  /\ body.delivery.items <= Cardinality(admitted)
  /\ body.delivery.acks <= Cardinality(Acked)
  /\ body.shipped => receiptRoot \in Roots /\ shipping[receiptRoot] = "shipped"
WriteInv(i) ==
  LET w == chain[i]
  IN  /\ hook[w.call].at = "writing" /\ Behind(w.body)
      /\ w.next = "push" => Prompting(w.call)
      /\ w.next = "admitted" => hook[w.call].taken # Unstaged
ChainInv ==
  /\ Behind(receiptFile)
  /\ \A i \in DOMAIN chain : WriteInv(i)
  /\ \A i, j \in DOMAIN chain : chain[i].call = chain[j].call => i = j

(* The inductive invariant of the plugin.                                  *)
PluginInv == PluginTypeOK /\ HooksInv /\ PairsInv /\ ShownInv /\ CountInv /\ ChainInv

(***************************************************************************)
(* What only one call changes.                                             *)
(***************************************************************************)
(* Every session has a root, and it is not NoSession.                      *)
LEMMA RootIsSomebody ==
  ASSUME NEW s \in OCSessions
  PROVE  RootOf[s] \in Roots /\ RootOf[s] # NoSession
BY RootsAreSessions, PluginAssumption DEF Roots

(* The sets of pairs are finite, and no more was admitted than exposed.    *)
SetsCounted ==
  /\ IsFiniteSet(told) /\ IsFiniteSet(admitted) /\ IsFiniteSet(Acked)
  /\ Cardinality(admitted) \in Nat /\ Cardinality(Acked) \in Nat
  /\ Cardinality(Acked) <= Cardinality(admitted)
  /\ Cardinality(admitted) <= delivery.exposed

(* So they are where every pair that was shown is counted.                 *)
LEMMA SetsAreCounted == PluginTypeOK /\ PairsInv /\ ShownInv => SetsCounted
<1> SUFFICES ASSUME PluginTypeOK, PairsInv, ShownInv PROVE SetsCounted
  OBVIOUS
<1>1. told \subseteq Shown /\ admitted \subseteq Shown /\ Acked \subseteq admitted
  BY DEF Shown, PairsInv, Acked
<1>2. IsFiniteSet(Shown) /\ Cardinality(Shown) <= delivery.exposed /\ delivery.exposed \in Nat
  BY DEF ShownInv, PluginTypeOK, Counts
<1>3. IsFiniteSet(told)
  BY <1>1, <1>2, FS_Subset
<1>4. IsFiniteSet(admitted) /\ Cardinality(admitted) <= Cardinality(Shown)
  BY <1>1, <1>2, FS_Subset
<1>5. IsFiniteSet(Acked) /\ Cardinality(Acked) <= Cardinality(admitted)
  BY <1>1, <1>4, FS_Subset
<1>6. /\ Cardinality(admitted) \in Nat /\ Cardinality(Acked) \in Nat
      /\ Cardinality(Shown) \in Nat
  BY <1>2, <1>4, <1>5, FS_CardinalityType
<1>7. Cardinality(admitted) <= delivery.exposed
  BY <1>2, <1>4, <1>6
<1> QED BY <1>3, <1>4, <1>5, <1>6, <1>7 DEF SetsCounted

(* Whatever a call does, the others hold what they held.                   *)
OnlyMoves(c) ==
  /\ hook' \in [Calls -> Hooks] /\ \A d \in Calls : d # c => hook'[d] = hook[d]

(* The root whose receipt it is stays, once there is one.                  *)
RootStays == receiptRoot # NoSession => receiptRoot' = receiptRoot

(* The other calls keep what they rely on.                                 *)
LEMMA OthersKeep ==
  ASSUME PluginInv, NEW c \in Calls, OnlyMoves(c), RootStays, receipted' = receipted,
         told \subseteq told', CallInv(c)',
         \A d \in Calls : d # c /\ Prompting(d) =>
           /\ Session(d) \notin prompted' /\ pendingItems'[Session(d)] = pendingItems[Session(d)]
           /\ ~(Prompting(c)' /\ Session(c)' = Session(d)),
         \A d \in Calls : d # c /\ Reading(d) => Session(d) \in prompted'
  PROVE  HooksInv'
<1> SUFFICES ASSUME NEW d \in Calls, d # c PROVE CallInv(d)'
  BY DEF HooksInv
<1>1. CallInv(d)
  BY DEF PluginInv, HooksInv
<1>2. /\ hook'[d] = hook[d]
      /\ Free(d)' <=> Free(d)
      /\ Session(d)' = Session(d) /\ (Prompting(d)' <=> Prompting(d)) /\ (Reading(d)' <=> Reading(d))
  BY DEF OnlyMoves, Free, Session, Prompting, Reading
<1>3. ASSUME Prompting(d)'
      PROVE  /\ Session(d)' \notin prompted' /\ hook'[d].packet = pendingItems'[Session(d)']
             /\ receipted' => receiptRoot' = RootOf[Session(d)']
             /\ \A e \in Calls : Prompting(e)' /\ Session(e)' = Session(d)' => e = d
  <2>1. Prompting(d)
    BY <1>2, <1>3
  <2>2. Session(d) \in OCSessions
    BY <1>1, <2>1 DEF CallInv, Prompting
  <2>3. /\ Session(d)' \notin prompted' /\ hook'[d].packet = pendingItems'[Session(d)']
    BY <1>1, <1>2, <2>1 DEF CallInv
  <2>4. receipted' => receiptRoot' = RootOf[Session(d)']
    BY <1>1, <1>2, <2>1, <2>2, RootIsSomebody DEF CallInv, RootStays
  <2>5. ASSUME NEW e \in Calls, Prompting(e)', Session(e)' = Session(d)' PROVE e = d
    <3>1. e # c
      BY <2>1, <2>5, <1>2
    <3>2. hook'[e] = hook[e]
      BY <3>1 DEF OnlyMoves
    <3>3. Prompting(e) /\ Session(e) = Session(d)
      BY <2>5, <1>2, <3>2 DEF Prompting, Session, Free
    <3> QED BY <3>3, <1>1, <2>1 DEF CallInv
  <2> QED BY <2>3, <2>4, <2>5
<1>4. Reading(d)' => Session(d)' \in prompted' /\ ~Prompting(d)'
  BY <1>1, <1>2 DEF CallInv
<1>5. hook'[d].at = "marking" =>
        hook'[d].left \subseteq hook'[d].packet /\ {Session(d)'} \X hook'[d].packet \subseteq told'
  BY <1>1, <1>2 DEF CallInv
<1> QED BY <1>1, <1>2, <1>3, <1>4, <1>5 DEF CallInv

(* What was shown stays counted when there is no more of it.               *)
LEMMA ShownShrinks ==
  ASSUME PluginInv, delivery' \in Counts, delivery'.exposed >= delivery.exposed, Shown' \subseteq Shown
  PROVE  ShownInv'
<1>1. IsFiniteSet(Shown) /\ Cardinality(Shown) <= delivery.exposed /\ delivery.exposed \in Nat
  BY DEF PluginInv, ShownInv, PluginTypeOK, Counts
<1>2. IsFiniteSet(Shown') /\ Cardinality(Shown') <= Cardinality(Shown)
  BY <1>1, FS_Subset
<1>3. Cardinality(Shown) \in Nat /\ Cardinality(Shown') \in Nat
  BY <1>1, <1>2, FS_CardinalityType
<1>4. delivery'.exposed \in Nat
  BY DEF Counts
<1> QED BY <1>1, <1>2, <1>3, <1>4 DEF ShownInv

(* So it does when no prompt is made or pushed.                            *)
LEMMA ShownKeeps ==
  ASSUME PluginInv, told' = told, delivery' \in Counts, delivery'.exposed >= delivery.exposed,
         \A c \in Calls : Prompting(c)' =>
           Prompting(c) /\ Session(c)' = Session(c) /\ hook'[c].packet = hook[c].packet
  PROVE  ShownInv'
<1>1. Shown' \subseteq Shown
  BY DEF Shown
<1> QED BY <1>1, ShownShrinks

(* What was told and admitted agrees when none of it changes.              *)
LEMMA PairsKeep ==
  ASSUME PluginInv, receipted' = receipted, RootStays, prompted' \subseteq prompted,
         UNCHANGED <<pendingItems, seenItems, marked, told, admitted>>
  PROVE  PairsInv'
<1>1. ASSUME NEW s \in OCSessions PROVE ReaderInv(s)'
  <2>1. ReaderInv(s)
    BY DEF PluginInv, PairsInv
  <2>2. s \in prompted' /\ receipted' => receiptRoot' = RootOf[s]
    BY <2>1, RootIsSomebody DEF ReaderInv, RootStays
  <2> QED BY <2>1, <2>2 DEF ReaderInv
<1> QED BY <1>1 DEF PluginInv, PairsInv

(* The counters, when no call comes to hold a turn.                        *)
LEMMA CountsKeep ==
  ASSUME PluginInv, poisoned' = poisoned,
         UNCHANGED <<pendingItems, staged, marked, delivery, admitted>>,
         \A d \in Calls : Held(d)' => hook'[d] = hook[d]
  PROVE  CountInv'
<1> SUFFICES ASSUME ~poisoned PROVE CountInv'
  BY DEF CountInv
<1>1. CountInv
  BY DEF PluginInv
<1>2. ASSUME NEW d \in Calls, Held(d)' PROVE Held(d) /\ Session(d)' = Session(d)
  BY <1>2 DEF Held, Session
<1>3. Open' \subseteq Open
  BY <1>2 DEF Open
<1>4. IsFiniteSet(Open') /\ Cardinality(Open') <= Cardinality(Open)
  BY <1>1, <1>3, FS_Subset DEF CountInv
<1>5. Cardinality(Open) \in Nat /\ Cardinality(Open') \in Nat
  BY <1>1, <1>4, FS_CardinalityType DEF CountInv
<1>6. delivery.turns \in Nat /\ delivery.prepared \in Nat
  BY DEF PluginInv, PluginTypeOK, Counts
<1>7. delivery.turns + Cardinality(Open') <= delivery.prepared
  BY <1>1, <1>4, <1>5, <1>6 DEF CountInv
<1>8. ASSUME NEW c \in Calls PROVE HeldInv(c)'
  BY <1>1, <1>2 DEF CountInv, HeldInv
<1>9. Acked' = Acked
  BY DEF Acked
<1> QED BY <1>1, <1>4, <1>7, <1>8, <1>9 DEF CountInv

(* What was true of a receipt stays true.                                  *)
ClaimsStay ==
  /\ Cardinality(admitted) <= Cardinality(admitted')
  /\ Cardinality(Acked) <= Cardinality(Acked)'
  /\ receiptRoot \in Roots /\ shipping[receiptRoot] = "shipped" =>
       receiptRoot' \in Roots /\ shipping'[receiptRoot'] = "shipped"
  /\ Cardinality(admitted') \in Nat /\ Cardinality(Acked)' \in Nat

(* A receipt that claims no more than came to pass never will.             *)
LEMMA ReceiptStays ==
  ASSUME PluginInv, ClaimsStay, NEW b \in Receipts, Behind(b)
  PROVE  /\ b.delivery.items <= Cardinality(admitted')
         /\ b.delivery.acks <= Cardinality(Acked)'
         /\ b.shipped => receiptRoot' \in Roots /\ shipping'[receiptRoot'] = "shipped"
<1>1. SetsCounted
  BY SetsAreCounted DEF PluginInv
<1>2. b.delivery.items \in Nat /\ b.delivery.acks \in Nat
  BY DEF Receipts, Counts
<1> QED BY <1>1, <1>2 DEF Behind, ClaimsStay, SetsCounted

(* A call whose write is not queued moves.                                 *)
LEMMA ChainKeeps ==
  ASSUME PluginInv, ClaimsStay, NEW c \in Calls, OnlyMoves(c), hook[c].at # "writing",
         UNCHANGED <<chain, receiptFile>>
  PROVE  ChainInv'
<1>1. ChainInv /\ chain \in Seq(Writes) /\ receiptFile \in Receipts
  BY DEF PluginInv, PluginTypeOK
<1>2. ASSUME NEW i \in DOMAIN chain PROVE WriteInv(i)'
  <2>1. WriteInv(i) /\ chain[i] \in Writes
    BY <1>1 DEF ChainInv
  <2>2. chain[i].call \in Calls /\ chain[i].body \in Receipts
    BY <2>1 DEF Writes
  <2>3. hook'[chain[i].call] = hook[chain[i].call]
    BY <2>1, <2>2 DEF WriteInv, OnlyMoves
  <2>4. Prompting(chain[i].call) <=> (Prompting(chain[i].call))'
    BY <2>3 DEF Prompting, Free
  <2> QED BY <2>1, <2>2, <2>3, <2>4, ReceiptStays DEF WriteInv, Behind
<1>3. Behind(receiptFile)'
  BY <1>1, ReceiptStays DEF ChainInv, Behind
<1> QED BY <1>1, <1>2, <1>3 DEF ChainInv

(* A queued write of call c comes last in the chain.                       *)
LEMMA ChainGrows ==
  ASSUME PluginInv, ClaimsStay, NEW c \in Calls, OnlyMoves(c), hook[c].at # "writing",
         receiptFile' = receiptFile, NEW w \in Writes, chain' = Append(chain, w), w.call = c,
         hook'[c].at = "writing", w.next = "push" => Prompting(c)',
         w.next = "admitted" => hook'[c].taken # Unstaged,
         /\ w.body.delivery.items <= Cardinality(admitted')
         /\ w.body.delivery.acks <= Cardinality(Acked)'
         /\ w.body.shipped => receiptRoot' \in Roots /\ shipping'[receiptRoot'] = "shipped"
  PROVE  ChainInv'
<1>1. ChainInv /\ chain \in Seq(Writes) /\ receiptFile \in Receipts
  BY DEF PluginInv, PluginTypeOK
<1> PICK n \in Nat : n = Len(chain)
  BY <1>1
<1>2. /\ DOMAIN chain = 1..n /\ DOMAIN chain' = 1..(n + 1) /\ chain'[n + 1] = w
      /\ \A i \in 1..n : chain'[i] = chain[i]
  BY <1>1
<1>3. ASSUME NEW i \in 1..n PROVE WriteInv(i)' /\ chain[i].call # c
  <2>1. WriteInv(i) /\ chain[i] \in Writes
    BY <1>1, <1>2 DEF ChainInv
  <2>2. chain[i].call \in Calls /\ chain[i].body \in Receipts
    BY <2>1 DEF Writes
  <2>3. hook'[chain[i].call] = hook[chain[i].call] /\ chain[i].call # c
    BY <2>1, <2>2 DEF WriteInv, OnlyMoves
  <2>4. Prompting(chain[i].call) <=> (Prompting(chain[i].call))'
    BY <2>3 DEF Prompting, Free
  <2>5. chain'[i] = chain[i]
    BY <1>2
  <2>6. Behind(chain[i].body)
    BY <2>1 DEF WriteInv
  <2>7. /\ chain'[i].body.delivery.items <= Cardinality(admitted')
        /\ chain'[i].body.delivery.acks <= Cardinality(Acked)'
        /\ chain'[i].body.shipped => receiptRoot' \in Roots /\ shipping'[receiptRoot'] = "shipped"
    BY <2>2, <2>5, <2>6, ReceiptStays
  <2> QED BY <2>1, <2>3, <2>4, <2>5, <2>7 DEF WriteInv, Behind, Prompting, Free
<1>4. WriteInv(n + 1)'
  BY <1>2 DEF WriteInv, Behind
<1>5. Behind(receiptFile)'
  BY <1>1, ReceiptStays DEF ChainInv, Behind
<1>6. \A i, j \in DOMAIN chain' : chain'[i].call = chain'[j].call => i = j
  <2>1. SUFFICES ASSUME NEW i \in 1..(n + 1), NEW j \in 1..(n + 1),
                        chain'[i].call = chain'[j].call
                 PROVE  i = j
    BY <1>2
  <2>2. CASE i \in 1..n /\ j \in 1..n
    BY <2>1, <2>2, <1>1, <1>2 DEF ChainInv
  <2>3. CASE i \in 1..n /\ j = n + 1
    BY <2>1, <2>3, <1>2, <1>3
  <2>4. CASE i = n + 1 /\ j \in 1..n
    BY <2>1, <2>4, <1>2, <1>3
  <2> QED BY <2>2, <2>3, <2>4, <1>1
<1>7. \A i \in DOMAIN chain' : WriteInv(i)'
  <2>1. \A i \in 1..(n + 1) : i \in 1..n \/ i = n + 1
    BY <1>1
  <2> QED BY <2>1, <1>2, <1>3, <1>4
<1> QED BY <1>5, <1>6, <1>7 DEF ChainInv

(* A call goes on that neither makes a prompt, nor holds a turn, nor waits *)
(* for a write, before and after.                                          *)
LEMMA CallGoesOn ==
  ASSUME PluginInv, NEW c \in Calls, OnlyMoves(c), CallInv(c)', ~Prompting(c)', ~Held(c)',
         hook[c].at # "writing", UNCHANGED <<prompted, shipping>>,
         ConfigKept, ReceiptKept, StagingKept
  PROVE  PluginInv'
<1> USE DEF ConfigKept, ReceiptKept, StagingKept
<1>1. PluginTypeOK'
  BY DEF PluginInv, PluginTypeOK, OnlyMoves
<1>2. HooksInv'
  <2>1. \A d \in Calls : CallInv(d)
    BY DEF PluginInv, HooksInv
  <2> QED BY <2>1, OthersKeep DEF CallInv, RootStays
<1>3. ShownInv'
  <2>1. ASSUME NEW d \in Calls, Prompting(d)' PROVE hook'[d] = hook[d]
    BY <2>1 DEF OnlyMoves
  <2>2. delivery' \in Counts /\ delivery'.exposed >= delivery.exposed
    BY DEF PluginInv, PluginTypeOK, Counts
  <2> QED BY <2>1, <2>2, ShownKeeps DEF Prompting, Session, Free
<1>4. PairsInv'
  BY PairsKeep DEF RootStays
<1>5. CountInv'
  BY CountsKeep DEF OnlyMoves
<1>6. ChainInv'
  <2>1. ClaimsStay
    BY SetsAreCounted DEF PluginInv, ClaimsStay, SetsCounted, Acked
  <2> QED BY <2>1, ChainKeeps
<1> QED BY <1>1, <1>2, <1>3, <1>4, <1>5, <1>6 DEF PluginInv

(* A call that does nothing is one, and no turn is one.                    *)
LEMMA NoHookIsOne == NoHook \in Hooks /\ Unstaged \in Stages
BY DEF NoHook, Hooks, HookPlaces, Unstaged, Stages, Items

(* A call that does nothing claims nothing.                                *)
LEMMA FreeCallInv ==
  ASSUME NEW c \in Calls, hook'[c] = NoHook
  PROVE  CallInv(c)' /\ ~Prompting(c)' /\ ~Held(c)' /\ Free(c)'
BY DEF NoHook, CallInv, Prompting, Held, Reading, Free

(* An answer of the model, whatever it is, starts with the admission.      *)
LEMMA AdmittingKeeps ==
  ASSUME PluginInv, NEW c \in Calls, NEW s \in OCSessions, NEW kind \in Tools \cup {"text"},
         Free(c), s \in prompted, hook' = [hook EXCEPT ![c] = Admitting(s, kind)],
         UNCHANGED <<prompted, shipping>>, ConfigKept, StagingKept, ReceiptKept
  PROVE  PluginInv'
<1> DEFINE h == Admitting(s, kind)
<1>1. hook \in [Calls -> Hooks] /\ staged[s] \in Stages
  BY DEF PluginInv, PluginTypeOK
<1>2. kind # "transform" /\ kind \in Tools \cup {"none", "text", "transform", "idle"}
  BY DEF Tools
<1>3. h \in Hooks
  BY <1>1, <1>2, NoHookIsOne DEF Admitting, Hooks, HookPlaces
<1>4. /\ h.at = (IF staged[s] = Unstaged THEN "admitted" ELSE "ensure") /\ h.kind = kind
      /\ h.session = s /\ h.taken = staged[s]
  BY DEF Admitting, NoHook
<1> HIDE DEF h
<1>5. hook' = [hook EXCEPT ![c] = h]
  BY DEF h
<1>6. OnlyMoves(c) /\ hook'[c] = h
  BY <1>1, <1>3, <1>5 DEF OnlyMoves
<1>7. ~Prompting(c)' /\ ~Held(c)' /\ hook[c].at # "writing"
  BY <1>2, <1>4, <1>6 DEF Prompting, Held, Free
<1>8. CallInv(c)'
  BY <1>2, <1>4, <1>6, <1>7 DEF CallInv, Reading, Session
<1> QED BY <1>6, <1>7, <1>8, CallGoesOn

(* A text completed, or a tool asked for.                                  *)
LEMMA TextOrToolStep ==
  ASSUME PluginInv, NEW c \in Calls, NEW s \in OCSessions,
         \/ \E text \in Texts : CompleteText(c, s, text)
         \/ \E tool \in Tools : AskTool(c, s, tool)
  PROVE  PluginInv'
<1>1. PICK kind \in Tools \cup {"text"} :
        /\ Free(c) /\ s \in prompted /\ hook' = [hook EXCEPT ![c] = Admitting(s, kind)]
        /\ UNCHANGED <<prompted, shipping>> /\ ConfigKept /\ StagingKept /\ ReceiptKept
  BY DEF CompleteText, AskTool
<1> QED BY <1>1, AdmittingKeeps

(* A call ends that waits for no write.                                    *)
LEMMA FreedKeeps ==
  ASSUME PluginInv, NEW c \in Calls, hook[c].at # "writing", hook' = [hook EXCEPT ![c] = NoHook],
         UNCHANGED <<prompted, shipping>>, ConfigKept, StagingKept, ReceiptKept
  PROVE  PluginInv'
<1>1. hook \in [Calls -> Hooks]
  BY DEF PluginInv, PluginTypeOK
<1>2. OnlyMoves(c) /\ hook'[c] = NoHook
  BY <1>1, NoHookIsOne DEF OnlyMoves
<1> QED BY <1>2, FreeCallInv, CallGoesOn

(* A tool ends, was refused, or could not publish.                         *)
LEMMA ToolEndsStep ==
  ASSUME PluginInv, NEW c \in Calls,
         \/ RefuseTool(c) \/ PublishFails(c) \/ \E success \in BOOLEAN : AfterTool(c, success)
  PROVE  PluginInv'
<1>1. /\ hook[c].at # "writing" /\ hook' = [hook EXCEPT ![c] = NoHook]
      /\ UNCHANGED <<prompted, shipping>> /\ ConfigKept /\ StagingKept /\ ReceiptKept
  BY DEF RefuseTool, PublishFails, AfterTool, Running, ClosingKept
<1> QED BY <1>1, FreedKeeps

(* A tool begins.                                                          *)
LEMMA BeginToolStep ==
  ASSUME PluginInv, NEW c \in Calls, BeginTool(c)
  PROVE  PluginInv'
<1> DEFINE h == [NoHook EXCEPT !.at = "executing", !.kind = hook[c].kind, !.session = Session(c)]
<1>1. hook \in [Calls -> Hooks] /\ CallInv(c)
  BY DEF PluginInv, PluginTypeOK, HooksInv
<1>2. hook[c].at = "admitted" /\ hook' = [hook EXCEPT ![c] = h] /\ hook[c].kind \in Tools
  BY DEF BeginTool, Running
<1>3. Session(c) \in prompted /\ Session(c) \in OCSessions /\ hook[c].kind # "transform"
  BY <1>1, <1>2 DEF CallInv, Reading, Free, Tools
<1>4. h \in Hooks
  BY <1>2, <1>3, NoHookIsOne DEF Hooks, HookPlaces
<1>5. /\ h.at = "executing" /\ h.kind = hook[c].kind /\ h.session = Session(c)
      /\ h.taken = Unstaged
  BY DEF NoHook
<1> HIDE DEF h
<1>6. OnlyMoves(c) /\ hook'[c] = h
  BY <1>1, <1>2, <1>4 DEF OnlyMoves
<1>7. ~Prompting(c)' /\ ~Held(c)'
  BY <1>3, <1>5, <1>6 DEF Prompting, Held
<1>8. UNCHANGED <<prompted, shipping>> /\ ConfigKept /\ StagingKept /\ ReceiptKept
  BY DEF BeginTool
<1>9. CallInv(c)'
  BY <1>3, <1>5, <1>6, <1>7, <1>8 DEF CallInv, Reading, Session
<1> QED BY <1>2, <1>6, <1>7, <1>8, <1>9, CallGoesOn

(***************************************************************************)
(* What waits for the receipt.                                             *)
(***************************************************************************)
(* The write that a call queues.                                           *)
Written(c, d, p, next) ==
  [call |-> c, next |-> next, body |-> [delivery |-> d, shipped |-> p = "shipped"]]

(* A call that keeps the receipt goes on, throws, or has queued a write    *)
(* that conserves the counters.                                            *)
LEMMA PersistOutcome ==
  ASSUME PluginInv, NEW c \in Calls, NEW h \in Hooks, NEW root \in Roots, NEW d \in Counts,
         NEW p, NEW next \in {"push", "admitted", "done"}, Persist(c, h, root, d, p, next)
  PROVE  /\ OnlyMoves(c) /\ RootStays /\ receiptRoot' \in Roots \cup {NoSession}
         /\ chain' \in Seq(Writes) /\ UNCHANGED <<poisoned, receiptFile>>
         /\ \/ ~receipted /\ chain' = chain /\ hook'[c] = Resume(h, next)
            \/ /\ receipted /\ chain' = chain /\ hook'[c] = Resume(h, "threw")
               /\ receiptRoot' # root \/ ~Conserved(d) \/ poisoned
            \/ /\ receipted /\ receiptRoot' = root /\ Conserved(d) /\ ~poisoned
               /\ hook'[c] = [h EXCEPT !.at = "writing"]
               /\ Written(c, d, p, next) \in Writes
               /\ chain' = Append(chain, Written(c, d, p, next))
<1>1. /\ hook \in [Calls -> Hooks] /\ chain \in Seq(Writes)
      /\ receiptRoot \in Roots \cup {NoSession} /\ receipted \in BOOLEAN
  BY DEF PluginInv, PluginTypeOK
<1>2. /\ receiptRoot' = IF receipted /\ receiptRoot = NoSession THEN root ELSE receiptRoot
      /\ UNCHANGED <<poisoned, receiptFile>>
  BY DEF Persist
<1>3. Written(c, d, p, next) \in Writes
  BY DEF Written, Writes, Receipts
<1>4. \/ /\ ~receipted /\ chain' = chain /\ hook' = [hook EXCEPT ![c] = Resume(h, next)]
      \/ /\ receipted /\ chain' = chain /\ hook' = [hook EXCEPT ![c] = Resume(h, "threw")]
         /\ receiptRoot' # root \/ ~Conserved(d) \/ poisoned
      \/ /\ receipted /\ receiptRoot' = root /\ Conserved(d) /\ ~poisoned
         /\ hook' = [hook EXCEPT ![c] = [h EXCEPT !.at = "writing"]]
         /\ chain' = Append(chain, Written(c, d, p, next))
  BY <1>1, Zenon DEF Persist, Written
<1>5. /\ Resume(h, next) \in Hooks /\ Resume(h, "threw") \in Hooks
      /\ [h EXCEPT !.at = "writing"] \in Hooks
  BY NoHookIsOne DEF Resume, Hooks, HookPlaces
<1>6. PICK k \in Hooks : hook' = [hook EXCEPT ![c] = k]
  BY <1>4, <1>5
<1>7. OnlyMoves(c)
  BY <1>1, <1>6 DEF OnlyMoves
<1>8. chain' \in Seq(Writes)
  BY <1>1, <1>3, <1>4
<1>9. RootStays /\ receiptRoot' \in Roots \cup {NoSession}
  BY <1>1, <1>2 DEF RootStays
<1>10. ASSUME NEW g, hook' = [hook EXCEPT ![c] = g] PROVE hook'[c] = g
  BY <1>1, <1>10
<1> QED BY <1>2, <1>3, <1>4, <1>7, <1>8, <1>9, <1>10

(* No root is NoSession.                                                   *)
LEMMA RootsAreSomebody == NoSession \notin Roots
BY RootsAreSessions, PluginAssumption

(* A receipt is written with the counters as they are, and the call ends.  *)
LEMMA DoneKeeps ==
  ASSUME PluginInv, NEW c \in Calls, NEW h \in Hooks, NEW root \in Roots, NEW p,
         h.taken = Unstaged, h.kind # "transform", h.session \in OCSessions,
         hook[c].at # "writing", Persist(c, h, root, delivery, p, "done"),
         p = shipping'[root], shipping' \in [Roots -> {"working", "published", "shipped"}],
         \A r \in Roots : shipping[r] = "shipped" => shipping'[r] = "shipped",
         ConfigKept, StagingKept, prompted' \subseteq prompted,
         \A d \in Calls : d # c /\ Reading(d) => Session(d) \in prompted'
  PROVE  PluginInv'
<1> USE DEF ConfigKept, StagingKept
<1> DEFINE w == Written(c, delivery, p, "done")
<1>1. delivery \in Counts /\ receipted \in BOOLEAN
  BY DEF PluginInv, PluginTypeOK
<1>2. /\ OnlyMoves(c) /\ RootStays /\ receiptRoot' \in Roots \cup {NoSession}
      /\ chain' \in Seq(Writes) /\ UNCHANGED <<poisoned, receiptFile>>
      /\ \/ chain' = chain /\ hook'[c] \in {Resume(h, "done"), Resume(h, "threw")}
         \/ /\ receiptRoot' = root /\ ~poisoned /\ hook'[c] = [h EXCEPT !.at = "writing"]
            /\ w \in Writes /\ chain' = Append(chain, w)
  BY <1>1, PersistOutcome
<1>3. Resume(h, "done") = NoHook /\ Resume(h, "threw") = NoHook
  BY DEF Resume
<1>4. ASSUME hook'[c] = [h EXCEPT !.at = "writing"]
      PROVE  /\ hook'[c].at = "writing" /\ hook'[c].taken = Unstaged
             /\ hook'[c].kind # "transform" /\ Session(c)' \in OCSessions
  BY <1>4 DEF Hooks, Session
<1>5. CallInv(c)' /\ ~Prompting(c)' /\ ~Held(c)'
  <2>1. CASE hook'[c] = NoHook
    BY <2>1, FreeCallInv
  <2>2. CASE hook'[c] = [h EXCEPT !.at = "writing"]
    BY <2>2, <1>4 DEF CallInv, Prompting, Held, Reading, Free
  <2> QED BY <1>2, <1>3, <2>1, <2>2
<1>6. PluginTypeOK'
  BY <1>2 DEF PluginInv, PluginTypeOK, OnlyMoves
<1>7. HooksInv'
  <2>1. \A d \in Calls : CallInv(d)
    BY DEF PluginInv, HooksInv
  <2> QED BY <2>1, <1>2, <1>5, OthersKeep DEF CallInv
<1>8. ShownInv'
  <2>1. ASSUME NEW d \in Calls, Prompting(d)' PROVE hook'[d] = hook[d]
    BY <2>1, <1>2, <1>5 DEF OnlyMoves
  <2>2. delivery' \in Counts /\ delivery'.exposed >= delivery.exposed
    BY <1>1 DEF Counts
  <2> QED BY <2>1, <2>2, ShownKeeps DEF Prompting, Session, Free
<1>9. PairsInv'
  BY <1>2, PairsKeep
<1>10. CountInv'
  BY <1>2, <1>5, CountsKeep DEF OnlyMoves
<1>11. ChainInv'
  <2>1. ClaimsStay
    <3>1. receiptRoot \in Roots => receiptRoot' = receiptRoot
      BY <1>2, RootsAreSomebody DEF RootStays
    <3> QED BY <3>1, SetsAreCounted DEF PluginInv, ClaimsStay, SetsCounted, Acked
  <2>2. CASE chain' = chain
    BY <2>1, <2>2, <1>2, ChainKeeps
  <2>3. CASE /\ receiptRoot' = root /\ ~poisoned /\ hook'[c] = [h EXCEPT !.at = "writing"]
             /\ w \in Writes /\ chain' = Append(chain, w)
    <3>1. /\ w.call = c /\ w.next = "done" /\ w.body.delivery = delivery
          /\ w.body.shipped <=> p = "shipped"
      BY DEF Written
    <3> HIDE DEF w
    <3>2. /\ delivery.items <= Cardinality(admitted) /\ delivery.acks <= Cardinality(Acked)
      BY <2>3, <1>1, SetsAreCounted DEF PluginInv, CountInv, SetsCounted
    <3>3. Acked' = Acked /\ admitted' = admitted
      BY DEF Acked
    <3> QED BY <2>1, <2>3, <3>1, <3>2, <3>3, <1>2, <1>4, ChainGrows
  <2> QED BY <1>2, <2>2, <2>3
<1> QED BY <1>6, <1>7, <1>8, <1>9, <1>10, <1>11 DEF PluginInv

(* A text was admitted: its call keeps the receipt and ends.               *)
LEMMA TextDoneStep ==
  ASSUME PluginInv, NEW c \in Calls, TextDone(c)
  PROVE  PluginInv'
<1> DEFINE h == [NoHook EXCEPT !.kind = "text", !.session = Session(c)]
<1>1. hook[c].at = "admitted" /\ CallInv(c) /\ Persist(c, h, Root(c), delivery, shipping[Root(c)], "done")
  BY DEF TextDone, Running, PluginInv, HooksInv
<1>2. Session(c) \in OCSessions
  BY <1>1 DEF CallInv, Free
<1>3. h \in Hooks
  BY <1>2, NoHookIsOne DEF Hooks
<1>4. h.taken = Unstaged /\ h.kind # "transform" /\ h.session \in OCSessions
  BY <1>2 DEF NoHook
<1> HIDE DEF h
<1>5. /\ prompted' = prompted /\ shipping' = shipping /\ ConfigKept /\ StagingKept
  BY DEF TextDone, ClosingKept
<1>6. Root(c) \in Roots
  BY <1>2, RootIsSomebody DEF Root
<1>7. /\ shipping \in [Roots -> {"working", "published", "shipped"}]
      /\ \A d \in Calls : Reading(d) => Session(d) \in prompted
  BY DEF PluginInv, PluginTypeOK, HooksInv, CallInv
<1> QED BY <1>1, <1>3, <1>4, <1>5, <1>6, <1>7, DoneKeeps

(* A publication, or the handoff that ships.                               *)
LEMMA PublishStep ==
  ASSUME PluginInv, NEW c \in Calls, NEW given \in BOOLEAN, Publish(c, given)
  PROVE  PluginInv'
<1>1. /\ hook[c].at = "executing" /\ CallInv(c) /\ hook[c] \in Hooks
      /\ hook[c].kind \in {"organum_publish", "organum_handoff"}
      /\ Persist(c, hook[c], Root(c), delivery, shipping'[Root(c)], "done")
  BY DEF Publish, Running, PluginInv, HooksInv, PluginTypeOK
<1>2. Session(c) \in OCSessions /\ hook[c].taken = Unstaged
  BY <1>1 DEF CallInv, Free
<1>3. Root(c) \in Roots
  BY <1>2, RootIsSomebody DEF Root
<1>4. /\ shipping \in [Roots -> {"working", "published", "shipped"}]
      /\ \A d \in Calls : Reading(d) => Session(d) \in prompted
  BY DEF PluginInv, PluginTypeOK, HooksInv, CallInv
<1>5. /\ prompted' = prompted /\ ConfigKept /\ StagingKept
      /\ shipping[Root(c)] # "shipped"
      /\ \/ shipping' = [shipping EXCEPT ![Root(c)] = "shipped"]
         \/ shipping' = [shipping EXCEPT ![Root(c)] = "published"]
  BY DEF Publish
<1>6. /\ shipping' \in [Roots -> {"working", "published", "shipped"}]
      /\ \A r \in Roots : shipping[r] = "shipped" => shipping'[r] = "shipped"
  BY <1>3, <1>4, <1>5
<1>7. hook[c].session \in OCSessions /\ hook[c].kind # "transform"
  BY <1>1, <1>2 DEF Session
<1> QED BY <1>1, <1>2, <1>3, <1>4, <1>5, <1>6, <1>7, DoneKeeps

(* A turn ends.                                                            *)
LEMMA IdleStep ==
  ASSUME PluginInv, NEW c \in Calls, NEW s \in OCSessions, IdleEvent(c, s)
  PROVE  PluginInv'
<1> DEFINE h == [NoHook EXCEPT !.kind = "idle", !.session = s]
<1>1. hook[c].at = "none" /\ Persist(c, h, RootOf[s], delivery, shipping[RootOf[s]], "done")
  BY DEF IdleEvent, Free
<1>2. h \in Hooks
  BY NoHookIsOne DEF Hooks
<1>3. h.taken = Unstaged /\ h.kind # "transform" /\ h.session \in OCSessions
  BY DEF NoHook
<1> HIDE DEF h
<1>4. /\ prompted' = prompted \ {s} /\ shipping' = shipping /\ ConfigKept /\ StagingKept
      /\ Quiet(s)
  BY DEF IdleEvent, ClosingKept
<1>5. RootOf[s] \in Roots
  BY RootIsSomebody
<1>6. /\ shipping \in [Roots -> {"working", "published", "shipped"}]
      /\ \A d \in Calls : Reading(d) => Session(d) \in prompted
  BY DEF PluginInv, PluginTypeOK, HooksInv, CallInv
<1>7. ASSUME NEW d \in Calls, Reading(d) PROVE Session(d) \in prompted'
  BY <1>4, <1>6, <1>7 DEF Quiet, Reading, Free, Session
<1> QED BY <1>1, <1>2, <1>3, <1>4, <1>5, <1>6, <1>7, DoneKeeps

(***************************************************************************)
(* The turn that a call admits.                                            *)
(***************************************************************************)
(* A call that admits moves; nothing is admitted or counted yet.           *)
LEMMA AdmittingMoves ==
  ASSUME PluginInv, NEW c \in Calls, OnlyMoves(c), CallInv(c)', ~Prompting(c)',
         hook[c].at # "writing", UNCHANGED <<prompted, shipping, pendingItems, seenItems>>,
         UNCHANGED <<delivery, told, admitted>>, ConfigKept, ReceiptKept,
         staged' \in [OCSessions -> Stages], marked \subseteq marked', marked' \subseteq Items,
         \A x \in marked' : \E s \in OCSessions : <<s, x>> \in told, CountInv'
  PROVE  PluginInv'
<1> USE DEF ConfigKept, ReceiptKept
<1>1. PluginTypeOK'
  BY DEF PluginInv, PluginTypeOK, OnlyMoves
<1>2. HooksInv'
  <2>1. \A d \in Calls : CallInv(d)
    BY DEF PluginInv, HooksInv
  <2> QED BY <2>1, OthersKeep DEF CallInv, RootStays
<1>3. ShownInv'
  <2>1. ASSUME NEW d \in Calls, Prompting(d)' PROVE hook'[d] = hook[d]
    BY <2>1 DEF OnlyMoves
  <2>2. delivery' \in Counts /\ delivery'.exposed >= delivery.exposed
    BY DEF PluginInv, PluginTypeOK, Counts
  <2> QED BY <2>1, <2>2, ShownKeeps DEF Prompting, Session, Free
<1>4. PairsInv'
  BY DEF PluginInv, PairsInv, ReaderInv
<1>5. ChainInv'
  <2>1. (PluginTypeOK /\ PairsInv /\ ShownInv)' => SetsCounted'
    BY SetsAreCounted, PTL
  <2>2. SetsCounted /\ SetsCounted'
    BY <1>1, <1>3, <1>4, <2>1, SetsAreCounted DEF PluginInv
  <2>3. Acked \subseteq Acked'
    BY DEF Acked
  <2>4. Cardinality(Acked) <= Cardinality(Acked')
    BY <2>2, <2>3, FS_Subset DEF SetsCounted
  <2>5. ClaimsStay
    BY <2>2, <2>4 DEF ClaimsStay, SetsCounted
  <2> QED BY <2>5, ChainKeeps
<1> QED BY <1>1, <1>2, <1>3, <1>4, <1>5 DEF PluginInv

(* The counters, when a turn moves from the stage to the call that holds   *)
(* it, or back.                                                            *)
LEMMA CountsMove ==
  ASSUME PluginInv, poisoned' = poisoned, UNCHANGED <<pendingItems, delivery, admitted>>,
         marked \subseteq marked', ~poisoned => Open' \subseteq Open,
         ~poisoned => \A s \in OCSessions :
           staged'[s] # Unstaged => staged'[s].relay = RelayPart(pendingItems[s]),
         ~poisoned => \A c \in Calls : HeldInv(c)'
  PROVE  CountInv'
<1> SUFFICES ASSUME ~poisoned PROVE CountInv'
  BY DEF CountInv
<1>1. CountInv /\ SetsCounted
  BY SetsAreCounted DEF PluginInv
<1>2. IsFiniteSet(Open') /\ Cardinality(Open') <= Cardinality(Open)
  BY <1>1, FS_Subset DEF CountInv
<1>3. Cardinality(Open) \in Nat /\ Cardinality(Open') \in Nat
  BY <1>1, <1>2, FS_CardinalityType DEF CountInv
<1>4. delivery.turns \in Nat /\ delivery.prepared \in Nat /\ delivery.acks \in Nat
  BY DEF PluginInv, PluginTypeOK, Counts
<1>5. delivery.turns + Cardinality(Open') <= delivery.prepared
  BY <1>1, <1>2, <1>3, <1>4 DEF CountInv
<1>6. Acked \subseteq Acked' /\ Acked' \subseteq admitted
  BY DEF Acked
<1>7. IsFiniteSet(Acked')
  BY <1>1, <1>6, FS_Subset DEF SetsCounted
<1>8. Cardinality(Acked) <= Cardinality(Acked')
  BY <1>6, <1>7, FS_Subset
<1>9. Cardinality(Acked') \in Nat
  BY <1>7, FS_CardinalityType
<1>10. delivery.acks <= Cardinality(Acked')
  BY <1>1, <1>4, <1>8, <1>9 DEF CountInv, SetsCounted
<1> QED BY <1>1, <1>2, <1>5, <1>10 DEF CountInv

(* An admission that finds its turn still staged takes it.                 *)
LEMMA ConfirmStep ==
  ASSUME PluginInv, NEW c \in Calls, Confirm(c)
  PROVE  PluginInv'
<1>1. /\ hook \in [Calls -> Hooks] /\ staged \in [OCSessions -> Stages]
      /\ pendingItems \in [OCSessions -> SUBSET Items] /\ CallInv(c)
  BY DEF PluginInv, PluginTypeOK, HooksInv
<1>2. hook[c].at = "ensure"
  BY DEF Confirm, Running
<1> PICK s \in OCSessions : s = Session(c)
  BY <1>1, <1>2 DEF CallInv, Free
<1>3. hook[c].taken # Unstaged /\ s \in prompted /\ hook[c].kind # "transform"
  BY <1>1, <1>2 DEF CallInv, Reading, Prompting, Free
<1>4. /\ UNCHANGED <<prompted, pendingItems, seenItems, marked, delivery, told, admitted>>
      /\ ConfigKept /\ ReceiptKept /\ shipping' = shipping
  BY DEF Confirm, ClosingKept
<1>5. CASE staged[s] # hook[c].taken
  <2> DEFINE h == [hook[c] EXCEPT !.at = "admitted", !.taken = Unstaged]
  <2>1. hook' = [hook EXCEPT ![c].at = "admitted", ![c].taken = Unstaged] /\ staged' = staged
    BY <1>5 DEF Confirm
  <2>2. h \in Hooks
    BY <1>1, NoHookIsOne DEF Hooks, HookPlaces
  <2>3. h.at = "admitted" /\ h.session = hook[c].session /\ h.kind = hook[c].kind
    BY <1>1 DEF Hooks
  <2>4. OnlyMoves(c) /\ hook'[c] = h
    BY <1>1, <2>1, <2>2 DEF OnlyMoves
  <2> HIDE DEF h
  <2>5. CallInv(c)' /\ ~Prompting(c)' /\ ~Held(c)'
    BY <1>3, <1>4, <2>3, <2>4 DEF CallInv, Prompting, Held, Reading, Free, Session
  <2>6. StagingKept
    BY <1>4, <2>1 DEF StagingKept
  <2> QED BY <1>2, <1>4, <2>4, <2>5, <2>6, CallGoesOn
<1>6. CASE staged[s] = hook[c].taken
  <2> DEFINE h == [hook[c] EXCEPT !.at = "marking", !.packet = pendingItems[s],
                                  !.left = pendingItems[s] \cap RelayItems]
  <2>1. /\ hook' = [hook EXCEPT ![c].at = "marking", ![c].packet = pendingItems[s],
                                ![c].left = pendingItems[s] \cap RelayItems]
        /\ staged' = [staged EXCEPT ![s] = Unstaged]
    BY <1>6 DEF Confirm
  <2>2. h \in Hooks
    BY <1>1 DEF Hooks, HookPlaces
  <2>3. /\ h.at = "marking" /\ h.session = s /\ h.kind = hook[c].kind /\ h.taken = hook[c].taken
        /\ h.packet = pendingItems[s] /\ h.left = pendingItems[s] \cap RelayItems
    BY <1>1 DEF Hooks, Session
  <2>4. OnlyMoves(c) /\ hook'[c] = h
    BY <1>1, <2>1, <2>2 DEF OnlyMoves
  <2> HIDE DEF h
  <2>5. {s} \X pendingItems[s] \subseteq told
    BY <1>3 DEF PluginInv, PairsInv, ReaderInv
  <2>6. CallInv(c)' /\ ~Prompting(c)'
    BY <1>3, <1>4, <2>3, <2>4, <2>5 DEF CallInv, Prompting, Reading, Free, Session
  <2>7. staged' \in [OCSessions -> Stages] /\ staged'[s] = Unstaged
        /\ \A t \in OCSessions : t # s => staged'[t] = staged[t]
    BY <1>1, <2>1, NoHookIsOne
  <2>8. CountInv'
    <3>1. SUFFICES ASSUME ~poisoned
                   PROVE  /\ Open' \subseteq Open
                          /\ \A t \in OCSessions : staged'[t] # Unstaged =>
                               staged'[t].relay = RelayPart(pendingItems[t])
                          /\ \A d \in Calls : HeldInv(d)'
      BY <1>4, CountsMove DEF ReceiptKept
    <3>2. CountInv
      BY DEF PluginInv
    <3>3. ASSUME NEW d \in Calls, d # c, Held(d)'
          PROVE  Held(d) /\ Session(d)' = Session(d) /\ hook'[d] = hook[d]
      BY <3>3, <2>4 DEF Held, OnlyMoves, Session
    <3>4. Session(c)' = s
      BY <2>3, <2>4 DEF Session
    <3>5. Open' \subseteq Open
      BY <1>3, <1>6, <3>3, <3>4, <2>7 DEF Open
    <3>6. ASSUME NEW d \in Calls, d # c PROVE ~(Held(d) /\ Session(d) = s)
      BY <3>1, <3>2, <1>3, <1>6 DEF CountInv, HeldInv
    <3>7. ASSUME NEW d \in Calls, d # c PROVE HeldInv(d)'
      <4> SUFFICES ASSUME Held(d)' PROVE HeldInv(d)'
        BY DEF HeldInv
      <4>1. HeldInv(d) /\ Held(d) /\ Session(d)' = Session(d) /\ hook'[d] = hook[d]
            /\ Session(d) # s
        BY <3>1, <3>2, <3>3, <3>6, <3>7 DEF CountInv
      <4>2. Session(d) \in OCSessions
        BY <4>1 DEF PluginInv, HooksInv, CallInv, Held, Free
      <4>3. staged'[Session(d)'] = Unstaged
        BY <4>1, <4>2, <2>7 DEF HeldInv
      <4>4. \A e \in Calls : Held(e)' /\ Session(e)' = Session(d)' => e = d
        BY <4>1, <3>3, <3>4 DEF HeldInv
      <4> QED BY <4>1, <4>3, <4>4, <1>4 DEF HeldInv
    <3>8. HeldInv(c)'
      <4>1. \A e \in Calls : Held(e)' /\ Session(e)' = Session(c)' => e = c
        BY <3>3, <3>4, <3>6
      <4>2. hook[c].taken.relay = RelayPart(pendingItems[s])
        BY <3>1, <3>2, <1>3, <1>6 DEF CountInv
      <4> QED BY <4>1, <4>2, <1>4, <2>3, <2>4, <2>7, <3>4 DEF HeldInv, RelayPart
    <3> QED BY <3>1, <3>2, <3>5, <3>7, <3>8, <2>7 DEF CountInv
  <2>9. \A x \in marked : \E t \in OCSessions : <<t, x>> \in told
    BY DEF PluginInv, PairsInv
  <2>10. marked \subseteq Items
    BY DEF PluginInv, PluginTypeOK
  <2> QED BY <1>2, <1>4, <2>4, <2>6, <2>7, <2>8, <2>9, <2>10, AdmittingMoves
<1> QED BY <1>5, <1>6

(* An item of the relay is marked read.                                    *)
LEMMA MarkReadStep ==
  ASSUME PluginInv, NEW c \in Calls, NEW x \in RelayItems, MarkRead(c, x)
  PROVE  PluginInv'
<1>1. hook \in [Calls -> Hooks] /\ CallInv(c) /\ staged \in [OCSessions -> Stages]
  BY DEF PluginInv, PluginTypeOK, HooksInv
<1>2. /\ hook[c].at = "marking" /\ x \in hook[c].left /\ marked' = marked \cup {x}
      /\ hook' = [hook EXCEPT ![c].left = @ \ {x}]
      /\ UNCHANGED <<prompted, pendingItems, staged, seenItems, delivery, told, admitted>>
      /\ ConfigKept /\ ReceiptKept /\ shipping' = shipping
  BY DEF MarkRead, Running, ClosingKept
<1> PICK s \in OCSessions : s = Session(c)
  BY <1>1, <1>2 DEF CallInv, Free
<1>3. /\ hook[c].taken # Unstaged /\ s \in prompted /\ hook[c].kind # "transform"
      /\ hook[c].left \subseteq hook[c].packet /\ {s} \X hook[c].packet \subseteq told
  BY <1>1, <1>2 DEF CallInv, Reading, Prompting, Free
<1> DEFINE h == [hook[c] EXCEPT !.left = @ \ {x}]
<1>4. /\ h \in Hooks /\ h.at = "marking" /\ h.session = s /\ h.kind = hook[c].kind
      /\ h.taken = hook[c].taken /\ h.packet = hook[c].packet /\ h.left = hook[c].left \ {x}
  BY <1>1, <1>2 DEF Hooks, Session
<1>5. OnlyMoves(c) /\ hook'[c] = h
  BY <1>1, <1>2, <1>4 DEF OnlyMoves
<1> HIDE DEF h
<1>6. CallInv(c)' /\ ~Prompting(c)'
  BY <1>2, <1>3, <1>4, <1>5 DEF CallInv, Prompting, Reading, Free, Session
<1>7. marked' \subseteq Items /\ marked \subseteq marked'
  BY <1>2 DEF PluginInv, PluginTypeOK, Items
<1>8. \A y \in marked' : \E t \in OCSessions : <<t, y>> \in told
  BY <1>2, <1>3 DEF PluginInv, PairsInv
<1>9. CountInv'
  <2>1. ASSUME NEW d \in Calls
        PROVE  /\ (Held(d)' <=> Held(d)) /\ Session(d)' = Session(d)
               /\ hook'[d].taken = hook[d].taken /\ hook'[d].packet = hook[d].packet
               /\ hook'[d].at = hook[d].at
    BY <1>2, <1>4, <1>5 DEF Held, Session, OnlyMoves
  <2>2. Open' \subseteq Open
    BY <1>2, <2>1 DEF Open
  <2>3. ASSUME ~poisoned, NEW d \in Calls PROVE HeldInv(d)'
    <3>1. HeldInv(d)
      BY <2>3 DEF PluginInv, CountInv
    <3>2. hook[d].left \subseteq hook'[d].left \cup {x}
      BY <1>4, <1>5 DEF OnlyMoves
    <3> QED BY <3>1, <3>2, <2>1, <1>2 DEF HeldInv
  <2>4. ~poisoned => \A t \in OCSessions :
          staged'[t] # Unstaged => staged'[t].relay = RelayPart(pendingItems[t])
    BY <1>2 DEF PluginInv, CountInv
  <2> QED BY <1>2, <1>7, <2>2, <2>3, <2>4, CountsMove DEF ReceiptKept
<1> QED BY <1>1, <1>2, <1>5, <1>6, <1>7, <1>8, <1>9, AdmittingMoves

(* An item of the relay cannot be marked read.                             *)
LEMMA MarkFailsStep ==
  ASSUME PluginInv, NEW c \in Calls, MarkFails(c)
  PROVE  PluginInv'
<1>1. hook \in [Calls -> Hooks] /\ CallInv(c) /\ staged \in [OCSessions -> Stages]
      /\ marked \subseteq Items
  BY DEF PluginInv, PluginTypeOK, HooksInv
<1>2. /\ hook[c].at = "marking" /\ hook' = [hook EXCEPT ![c].at = "threw"]
      /\ UNCHANGED <<prompted, pendingItems, staged, seenItems, marked, delivery, told, admitted>>
      /\ ConfigKept /\ ReceiptKept /\ shipping' = shipping
  BY DEF MarkFails, Running, ClosingKept, StagingKept
<1>3. /\ hook[c].taken # Unstaged /\ Session(c) \in prompted /\ hook[c].kind # "transform"
      /\ Session(c) \in OCSessions
  BY <1>1, <1>2 DEF CallInv, Reading, Prompting, Free
<1> DEFINE h == [hook[c] EXCEPT !.at = "threw"]
<1>4. /\ h \in Hooks /\ h.at = "threw" /\ h.session = hook[c].session /\ h.kind = hook[c].kind
      /\ h.taken = hook[c].taken
  BY <1>1 DEF Hooks, HookPlaces
<1>5. OnlyMoves(c) /\ hook'[c] = h
  BY <1>1, <1>2, <1>4 DEF OnlyMoves
<1> HIDE DEF h
<1>6. CallInv(c)' /\ ~Prompting(c)'
  BY <1>2, <1>3, <1>4, <1>5 DEF CallInv, Prompting, Reading, Free, Session
<1>7. \A y \in marked : \E t \in OCSessions : <<t, y>> \in told
  BY DEF PluginInv, PairsInv
<1>8. CountInv'
  <2>1. ASSUME NEW d \in Calls
        PROVE  /\ (Held(d)' <=> Held(d)) /\ Session(d)' = Session(d)
               /\ hook'[d].taken = hook[d].taken
               /\ hook'[d].at = "marking" => hook'[d] = hook[d]
    BY <1>2, <1>4, <1>5 DEF Held, Session, OnlyMoves
  <2>2. Open' \subseteq Open
    BY <1>2, <2>1 DEF Open
  <2>3. ASSUME ~poisoned, NEW d \in Calls PROVE HeldInv(d)'
    <3>1. HeldInv(d)
      BY <2>3 DEF PluginInv, CountInv
    <3> QED BY <3>1, <2>1, <1>2 DEF HeldInv
  <2>4. ~poisoned => \A t \in OCSessions :
          staged'[t] # Unstaged => staged'[t].relay = RelayPart(pendingItems[t])
    BY <1>2 DEF PluginInv, CountInv
  <2> QED BY <1>2, <2>2, <2>3, <2>4, CountsMove DEF ReceiptKept
<1> QED BY <1>1, <1>2, <1>5, <1>6, <1>7, <1>8, AdmittingMoves

(* An admission that failed stages its turn again.                         *)
LEMMA RestageStep ==
  ASSUME PluginInv, NEW c \in Calls, Restage(c)
  PROVE  PluginInv'
<1>1. hook \in [Calls -> Hooks] /\ CallInv(c) /\ staged \in [OCSessions -> Stages]
      /\ marked \subseteq Items
  BY DEF PluginInv, PluginTypeOK, HooksInv
<1>2. /\ hook[c].at = "threw" /\ hook[c].taken # Unstaged /\ hook' = [hook EXCEPT ![c] = NoHook]
      /\ staged' = IF staged[Session(c)] = Unstaged
                   THEN [staged EXCEPT ![Session(c)] = hook[c].taken] ELSE staged
      /\ UNCHANGED <<prompted, pendingItems, seenItems, marked, delivery, told, admitted>>
      /\ ConfigKept /\ ReceiptKept /\ shipping' = shipping
  BY DEF Restage, Running, ClosingKept
<1> PICK s \in OCSessions : s = Session(c)
  BY <1>1, <1>2 DEF CallInv, Free
<1>3. OnlyMoves(c) /\ hook'[c] = NoHook
  BY <1>1, <1>2, NoHookIsOne DEF OnlyMoves
<1>4. CallInv(c)' /\ ~Prompting(c)' /\ ~Held(c)'
  BY <1>3, FreeCallInv
<1>5. hook[c].taken \in Stages
  BY <1>1 DEF Hooks
<1>6. staged' \in [OCSessions -> Stages]
  BY <1>1, <1>2, <1>5
<1>7. \A y \in marked : \E t \in OCSessions : <<t, y>> \in told
  BY DEF PluginInv, PairsInv
<1>8. CountInv'
  <2>1. SUFFICES ASSUME ~poisoned
                 PROVE  /\ Open' \subseteq Open
                        /\ \A t \in OCSessions : staged'[t] # Unstaged =>
                             staged'[t].relay = RelayPart(pendingItems[t])
                        /\ \A d \in Calls : HeldInv(d)'
    BY <1>2, CountsMove DEF ReceiptKept
  <2>2. CountInv /\ HeldInv(c) /\ Held(c)
    BY <1>2, <2>1 DEF PluginInv, CountInv, Held
  <2>3. /\ staged'[s] = hook[c].taken /\ \A t \in OCSessions : t # s => staged'[t] = staged[t]
    BY <1>1, <1>2, <2>2 DEF HeldInv
  <2>4. ASSUME NEW d \in Calls, Held(d)'
        PROVE  /\ Held(d) /\ Session(d)' = Session(d) /\ hook'[d] = hook[d] /\ Session(d) # s
               /\ Session(d) \in OCSessions
    <3>1. d # c /\ hook'[d] = hook[d]
      BY <1>3, <1>4, <2>4 DEF OnlyMoves
    <3>2. Held(d) /\ Session(d)' = Session(d)
      BY <2>4, <3>1 DEF Held, Session
    <3>3. Session(d) # s
      BY <2>2, <3>1, <3>2 DEF HeldInv
    <3>4. Session(d) \in OCSessions
      BY <3>2 DEF PluginInv, HooksInv, CallInv, Held, Free
    <3> QED BY <3>1, <3>2, <3>3, <3>4
  <2>5. Open' \subseteq Open
    BY <2>2, <2>3, <2>4 DEF Open
  <2>6. ASSUME NEW d \in Calls PROVE HeldInv(d)'
    <3> SUFFICES ASSUME Held(d)' PROVE HeldInv(d)'
      BY DEF HeldInv
    <3>1. HeldInv(d) /\ Held(d) /\ Session(d)' = Session(d) /\ hook'[d] = hook[d]
      BY <2>1, <2>2, <2>4 DEF CountInv
    <3>2. staged'[Session(d)'] = Unstaged
      BY <3>1, <2>3, <2>4 DEF HeldInv
    <3>3. \A e \in Calls : Held(e)' /\ Session(e)' = Session(d)' => e = d
      BY <3>1, <2>4 DEF HeldInv
    <3> QED BY <3>1, <3>2, <3>3, <1>2 DEF HeldInv
  <2>7. ASSUME NEW t \in OCSessions, staged'[t] # Unstaged
        PROVE  staged'[t].relay = RelayPart(pendingItems[t])
    BY <2>1, <2>2, <2>3, <2>7 DEF HeldInv, CountInv
  <2> QED BY <2>5, <2>6, <2>7
<1> QED BY <1>1, <1>2, <1>3, <1>4, <1>6, <1>7, <1>8, AdmittingMoves

(***************************************************************************)
(* A prompt is pushed; a receipt is written, or cannot be.                 *)
(***************************************************************************)
(* A prompt is pushed: its items are told.                                 *)
LEMMA PushStep ==
  ASSUME PluginInv, NEW c \in Calls, Push(c)
  PROVE  PluginInv'
<1>1. PluginTypeOK /\ \A d \in Calls : CallInv(d)
  BY DEF PluginInv, HooksInv
<1>2. /\ hook[c].at = "push" /\ hook' = [hook EXCEPT ![c] = NoHook]
      /\ told' = told \cup ({Session(c)} \X hook[c].packet) /\ prompted' = prompted \cup {Session(c)}
      /\ UNCHANGED <<pendingItems, staged, seenItems, marked, delivery, admitted, shipping>>
      /\ ConfigKept /\ ReceiptKept
  BY DEF Push, Running, ClosingKept
<1>3. Prompting(c) /\ Session(c) \in OCSessions
  BY <1>1, <1>2 DEF CallInv, Prompting
<1> PICK s \in OCSessions : s = Session(c)
  BY <1>3
<1>4. /\ hook[c].packet = pendingItems[s]
      /\ receipted => receiptRoot = RootOf[s]
      /\ \A d \in Calls : Prompting(d) /\ Session(d) = s => d = c
  BY <1>1, <1>3 DEF CallInv
<1>0. /\ pendingItems[s] \subseteq Items /\ told' = told \cup ({s} \X pendingItems[s])
      /\ prompted' = prompted \cup {s}
  BY <1>1, <1>2, <1>4 DEF PluginTypeOK
<1>5. OnlyMoves(c) /\ hook'[c] = NoHook
  BY <1>1, <1>2, NoHookIsOne DEF PluginTypeOK, OnlyMoves
<1>6. CallInv(c)' /\ ~Prompting(c)' /\ ~Held(c)'
  BY <1>5, FreeCallInv
<1>7. PluginTypeOK'
  BY <1>0, <1>1, <1>2, <1>5 DEF PluginTypeOK, OnlyMoves, ConfigKept, ReceiptKept
<1>8. HooksInv'
  BY <1>1, <1>2, <1>4, <1>5, <1>6, OthersKeep DEF CallInv, RootStays, ConfigKept, ReceiptKept
<1>9. PairsInv'
  <2>1. ASSUME NEW t \in OCSessions PROVE ReaderInv(t)'
    <3>1. ReaderInv(t)
      BY DEF PluginInv, PairsInv
    <3>2. CASE t = s
      <4>1. {t} \X pendingItems'[t] \subseteq told'
        BY <3>2, <1>0, <1>2
      <4>2. receipted' => receiptRoot' = RootOf[t]
        BY <3>2, <1>2, <1>4 DEF ConfigKept, ReceiptKept
      <4> QED BY <3>1, <4>1, <4>2, <1>2 DEF ReaderInv
    <3>3. CASE t # s
      BY <3>1, <3>3, <1>0, <1>2 DEF ReaderInv, ConfigKept, ReceiptKept
    <3> QED BY <3>2, <3>3
  <2> QED BY <2>1, <1>2 DEF PluginInv, PairsInv
<1>10. ShownInv'
  <2>1. ASSUME NEW d \in Calls, Prompting(d)' PROVE Prompting(d) /\ hook'[d] = hook[d]
    BY <2>1, <1>5, <1>6 DEF OnlyMoves, Prompting, Free
  <2>2. {s} \X pendingItems[s] \subseteq Shown
    BY <1>0, <1>3, <1>4 DEF Shown
  <2>3. Shown' \subseteq Shown
    BY <2>1, <2>2, <1>0 DEF Shown, Session
  <2>4. delivery' \in Counts /\ delivery'.exposed >= delivery.exposed
    BY <1>1, <1>2 DEF PluginTypeOK, Counts
  <2> QED BY <2>3, <2>4, ShownShrinks
<1>11. CountInv'
  BY <1>2, <1>5, <1>6, CountsKeep DEF OnlyMoves, ReceiptKept
<1>12. ChainInv'
  <2>1. ClaimsStay
    BY <1>2, SetsAreCounted DEF PluginInv, ClaimsStay, SetsCounted, Acked, ReceiptKept
  <2> QED BY <2>1, <1>2, <1>5, ChainKeeps DEF ReceiptKept
<1> QED BY <1>7, <1>8, <1>9, <1>10, <1>11, <1>12 DEF PluginInv

(* The first write of the chain is done.                                   *)
LEMMA WriteReceiptStep ==
  ASSUME PluginInv, WriteReceipt
  PROVE  PluginInv'
<1>1. /\ PluginTypeOK /\ \A d \in Calls : CallInv(d)
      /\ ChainInv /\ chain \in Seq(Writes) /\ chain # <<>>
  BY DEF PluginInv, HooksInv, PluginTypeOK, WriteReceipt
<1>2. /\ 1 \in DOMAIN chain /\ Head(chain) = chain[1] /\ chain[1] \in Writes
      /\ DOMAIN Tail(chain) = 1..(Len(chain) - 1) /\ Tail(chain) \in Seq(Writes)
      /\ \A i \in 1..(Len(chain) - 1) : Tail(chain)[i] = chain[i + 1] /\ i + 1 \in DOMAIN chain
  BY <1>1
<1>3. PICK w \in Writes : w = chain[1]
  BY <1>2
<1>4. PICK c \in Calls : c = w.call
  BY DEF Writes
<1>5. /\ receiptFile' = w.body /\ hook' = [hook EXCEPT ![c] = Resume(hook[c], w.next)]
      /\ chain' = Tail(chain) /\ UNCHANGED <<prompted, receiptRoot, poisoned, shipping>>
      /\ ConfigKept /\ StagingKept
  BY <1>2, <1>3, <1>4 DEF WriteReceipt, ClosingKept
<1>6. /\ hook[c].at = "writing" /\ Behind(w.body)
      /\ w.next = "push" => Prompting(c)
      /\ w.next = "admitted" => hook[c].taken # Unstaged
  BY <1>1, <1>2, <1>3, <1>4 DEF ChainInv, WriteInv
<1>7. w.next \in {"push", "admitted", "done"} /\ w.body \in Receipts
  BY DEF Writes
<1>8. hook[c] \in Hooks
  BY <1>1 DEF PluginTypeOK
<1>9. /\ Resume(hook[c], w.next) \in Hooks
      /\ \/ Resume(hook[c], w.next) = NoHook
         \/ /\ Resume(hook[c], w.next) = [hook[c] EXCEPT !.at = w.next]
            /\ w.next \in {"push", "admitted"}
  BY <1>7, <1>8, NoHookIsOne DEF Resume, Hooks, HookPlaces
<1>10. OnlyMoves(c) /\ hook'[c] = Resume(hook[c], w.next)
  BY <1>1, <1>5, <1>9 DEF PluginTypeOK, OnlyMoves
<1>11. /\ CallInv(c)' /\ ~Held(c)'
       /\ Prompting(c)' => Prompting(c) /\ hook'[c].session = hook[c].session
                           /\ hook'[c].packet = hook[c].packet
  <2>1. CASE hook'[c] = NoHook
    BY <2>1, FreeCallInv
  <2>2. CASE hook'[c] = [hook[c] EXCEPT !.at = w.next] /\ w.next \in {"push", "admitted"}
    <3>1. /\ hook'[c].at = w.next /\ hook'[c].session = hook[c].session
          /\ hook'[c].kind = hook[c].kind /\ hook'[c].taken = hook[c].taken
          /\ hook'[c].packet = hook[c].packet
      BY <2>2, <1>8 DEF Hooks
    <3>2. CallInv(c) /\ Session(c)' = Session(c) /\ ~Free(c) /\ ~Free(c)' /\ ~Held(c)'
          /\ (Prompting(c)' <=> Prompting(c))
      BY <1>1, <1>6, <2>2, <3>1 DEF Free, Held, Prompting, Session
    <3>3. CASE w.next = "push"
      <4>1. ASSUME NEW d \in Calls, Prompting(d)', Session(d)' = Session(c)', d # c PROVE FALSE
        <5>1. hook'[d] = hook[d]
          BY <4>1, <1>10 DEF OnlyMoves
        <5>2. Prompting(d) /\ Session(d) = Session(c)
          BY <4>1, <5>1, <3>2 DEF Prompting, Session, Free
        <5> QED BY <4>1, <5>2, <3>2, <3>3, <1>6 DEF CallInv
      <4>2. \A d \in Calls : Prompting(d)' /\ Session(d)' = Session(c)' => d = c
        BY <4>1
      <4> QED BY <3>1, <3>2, <3>3, <4>2, <1>5, <1>6
              DEF CallInv, Reading, ConfigKept, StagingKept
    <3>4. CASE w.next = "admitted"
      <4>1. Reading(c)
        BY <1>6, <3>4 DEF Reading
      <4>2. ~Prompting(c) /\ Session(c) \in prompted
        BY <3>2, <4>1 DEF CallInv
      <4> QED BY <3>1, <3>2, <3>4, <4>2, <1>5 DEF CallInv, Reading
    <3> QED BY <2>2, <3>1, <3>2, <3>3, <3>4
  <2> QED BY <1>9, <1>10, <2>1, <2>2
<1>12. PluginTypeOK'
  BY <1>1, <1>2, <1>5, <1>7, <1>10 DEF PluginTypeOK, OnlyMoves, ConfigKept, StagingKept
<1>13. HooksInv'
  <2>1. ASSUME NEW d \in Calls, d # c, Prompting(d), Prompting(c)' PROVE Session(c)' # Session(d)
    BY <2>1, <1>1, <1>11 DEF CallInv, Session
  <2> QED BY <2>1, <1>1, <1>5, <1>10, <1>11, OthersKeep
          DEF CallInv, RootStays, ConfigKept, StagingKept
<1>14. PairsInv'
  BY <1>5, PairsKeep DEF RootStays, ConfigKept, StagingKept
<1>15. ShownInv'
  <2>1. ASSUME NEW d \in Calls, Prompting(d)'
        PROVE  Prompting(d) /\ Session(d)' = Session(d) /\ hook'[d].packet = hook[d].packet
    BY <2>1, <1>10, <1>11 DEF OnlyMoves, Prompting, Session, Free
  <2>2. delivery' \in Counts /\ delivery'.exposed >= delivery.exposed
    BY <1>1, <1>5 DEF PluginTypeOK, Counts, StagingKept
  <2> QED BY <2>1, <2>2, <1>5, ShownKeeps DEF StagingKept
<1>16. CountInv'
  BY <1>5, <1>10, <1>11, CountsKeep DEF OnlyMoves, StagingKept
<1>17. ChainInv'
  <2>1. /\ DOMAIN chain' = 1..(Len(chain) - 1)
        /\ \A i \in 1..(Len(chain) - 1) : chain'[i] = chain[i + 1] /\ i + 1 \in DOMAIN chain
    BY <1>2, <1>5
  <2>2. ASSUME NEW i \in DOMAIN chain' PROVE WriteInv(i)'
    <3>1. /\ chain'[i] = chain[i + 1] /\ WriteInv(i + 1) /\ i + 1 # 1
          /\ chain[i + 1] \in Writes
      BY <1>1, <2>1, <2>2 DEF ChainInv
    <3>2. chain[i + 1].call # c /\ chain[i + 1].call \in Calls
      BY <1>1, <1>2, <1>3, <1>4, <2>1, <2>2, <3>1 DEF ChainInv, Writes
    <3>3. hook'[chain[i + 1].call] = hook[chain[i + 1].call]
      BY <3>2, <1>10 DEF OnlyMoves
    <3> QED BY <3>1, <3>3, <1>5
            DEF WriteInv, Behind, Acked, Prompting, Free, StagingKept
  <2>3. Behind(receiptFile)'
    BY <1>5, <1>6 DEF Behind, Acked, StagingKept
  <2>4. ASSUME NEW i \in DOMAIN chain', NEW j \in DOMAIN chain', chain'[i].call = chain'[j].call
        PROVE  i = j
    <3>1. i + 1 \in DOMAIN chain /\ j + 1 \in DOMAIN chain /\ chain[i + 1].call = chain[j + 1].call
          /\ i \in Int /\ j \in Int
      BY <2>1, <2>4
    <3>2. i + 1 = j + 1
      BY <1>1, <3>1 DEF ChainInv
    <3> QED BY <3>1, <3>2
  <2> QED BY <2>2, <2>3, <2>4 DEF ChainInv
<1> QED BY <1>12, <1>13, <1>14, <1>15, <1>16, <1>17 DEF PluginInv

(* A write fails, and with it all that follow.                             *)
LEMMA WriteFailsStep ==
  ASSUME PluginInv, WriteReceiptFails
  PROVE  PluginInv'
<1> DEFINE Waits(d) == \E i \in DOMAIN chain : chain[i].call = d
<1>1. /\ PluginTypeOK /\ ChainInv /\ chain \in Seq(Writes) /\ hook \in [Calls -> Hooks]
      /\ \A d \in Calls : CallInv(d)
  BY DEF PluginInv, HooksInv, PluginTypeOK
<1>2. /\ poisoned' = TRUE /\ chain' = <<>>
      /\ hook' = [d \in Calls |-> IF Waits(d) THEN Resume(hook[d], "threw") ELSE hook[d]]
      /\ UNCHANGED <<prompted, receiptRoot, receiptFile, shipping>> /\ ConfigKept /\ StagingKept
  BY DEF WriteReceiptFails, ClosingKept
<1>3. ASSUME NEW d \in Calls, Waits(d) PROVE hook[d].at = "writing"
  BY <1>1, <1>3 DEF ChainInv, WriteInv
<1> HIDE DEF Waits
<1>4. ASSUME NEW d \in Calls
      PROVE  \/ hook'[d] = hook[d]
             \/ hook'[d] = NoHook
             \/ /\ hook[d].at = "writing" /\ hook[d].taken # Unstaged
                /\ hook'[d] = [hook[d] EXCEPT !.at = "threw"]
  BY <1>2, <1>3 DEF Resume
<1>5. ASSUME NEW d \in Calls PROVE hook'[d] \in Hooks
  <2>1. hook[d] \in Hooks
    BY <1>1
  <2>2. [hook[d] EXCEPT !.at = "threw"] \in Hooks
    BY <2>1 DEF Hooks, HookPlaces
  <2> QED BY <2>1, <2>2, <1>4, NoHookIsOne
<1>6. ASSUME NEW d \in Calls, Prompting(d)' PROVE hook'[d] = hook[d] /\ Prompting(d)
  <2>1. hook'[d] # NoHook
    BY <1>6 DEF Prompting, Free, NoHook
  <2>2. CASE hook[d].at = "writing" /\ hook[d].taken # Unstaged
             /\ hook'[d] = [hook[d] EXCEPT !.at = "threw"]
    <3>1. hook[d] \in Hooks /\ CallInv(d)
      BY <1>1
    <3>2. hook'[d].kind = hook[d].kind
      BY <2>2, <3>1 DEF Hooks
    <3>3. Prompting(d) /\ Reading(d)
      BY <1>6, <2>2, <3>2 DEF Prompting, Free, Reading
    <3> QED BY <3>1, <3>3 DEF CallInv
  <2>3. CASE hook'[d] = hook[d]
    BY <1>6, <2>3 DEF Prompting, Free
  <2> QED BY <1>4, <2>1, <2>2, <2>3
<1>7. ASSUME NEW d \in Calls PROVE CallInv(d)'
  <2>1. CASE hook'[d] = NoHook
    BY <2>1, FreeCallInv
  <2>2. CASE hook'[d] = hook[d]
    <3>1. CallInv(d) /\ Session(d)' = Session(d) /\ (Free(d)' <=> Free(d))
          /\ (Prompting(d)' <=> Prompting(d)) /\ (Reading(d)' <=> Reading(d))
      BY <1>1, <2>2 DEF Session, Free, Prompting, Reading
    <3>2. ASSUME Prompting(d)', NEW e \in Calls, Prompting(e)', Session(e)' = Session(d)' PROVE e = d
      BY <3>1, <3>2, <1>6 DEF CallInv, Session
    <3> QED BY <3>1, <3>2, <2>2, <1>2 DEF CallInv, ConfigKept, StagingKept
  <2>3. CASE hook[d].at = "writing" /\ hook[d].taken # Unstaged
             /\ hook'[d] = [hook[d] EXCEPT !.at = "threw"]
    <3>1. hook[d] \in Hooks /\ CallInv(d) /\ Reading(d)
      BY <1>1, <2>3 DEF Reading
    <3>2. hook'[d].at = "threw" /\ hook'[d].session = hook[d].session
          /\ hook'[d].kind = hook[d].kind /\ hook'[d].taken = hook[d].taken
      BY <2>3, <3>1 DEF Hooks
    <3>3. ~Prompting(d) /\ Session(d) \in prompted /\ Session(d) \in OCSessions
      BY <2>3, <3>1 DEF CallInv, Free
    <3>4. ~Prompting(d)'
      BY <3>3, <1>6
    <3> QED BY <2>3, <3>2, <3>3, <3>4, <1>2 DEF CallInv, Reading, Session, Free
  <2> QED BY <1>4, <2>1, <2>2, <2>3
<1>8. PluginTypeOK'
  <2>1. hook' \in [Calls -> Hooks]
    BY <1>2, <1>5
  <2> QED BY <1>1, <1>2, <2>1 DEF PluginTypeOK, ConfigKept, StagingKept
<1>9. PairsInv'
  BY <1>2, PairsKeep DEF RootStays, ConfigKept, StagingKept
<1>10. ShownInv'
  <2>1. delivery' \in Counts /\ delivery'.exposed >= delivery.exposed
    BY <1>1, <1>2 DEF PluginTypeOK, Counts, StagingKept
  <2> QED BY <1>2, <1>6, <2>1, ShownKeeps DEF Session, StagingKept
<1>11. CountInv'
  BY <1>2 DEF CountInv
<1>12. ChainInv'
  BY <1>1, <1>2 DEF ChainInv, Behind, Acked, StagingKept
<1> QED BY <1>7, <1>8, <1>9, <1>10, <1>11, <1>12 DEF PluginInv, HooksInv

(***************************************************************************)
(* A prompt is made.                                                       *)
(***************************************************************************)
(* Every set of items is finite.                                           *)
LEMMA SomeItems ==
  ASSUME NEW S \in SUBSET Items
  PROVE  /\ IsFiniteSet(S) /\ Cardinality(S) \in Nat /\ RelayPart(S) \in Nat
         /\ IsFiniteSet(S \cap RelayItems)
<1>1. IsFiniteSet(S)
  BY PluginAssumption, FS_Subset DEF Items
<1>2. IsFiniteSet(S \cap RelayItems)
  BY <1>1, FS_Intersection
<1> QED BY <1>1, <1>2, FS_CardinalityType DEF RelayPart

(* A session has as many pairs with items as there are items.              *)
LEMMA PairsWith ==
  ASSUME NEW s, NEW S \in SUBSET Items
  PROVE  IsFiniteSet({s} \X S) /\ Cardinality({s} \X S) = Cardinality(S)
<1>1. IsFiniteSet({s}) /\ Cardinality({s}) = 1
  BY FS_Singleton
<1>2. IsFiniteSet({s} \X S) /\ Cardinality({s} \X S) = Cardinality({s}) * Cardinality(S)
  BY <1>1, SomeItems, FS_Product
<1>3. Cardinality(S) \in Nat
  BY SomeItems
<1> QED BY <1>1, <1>2, <1>3

(* A set of pairs that takes in what one prompt shows.                     *)
LEMMA ShownGrows ==
  ASSUME PluginInv, NEW s \in OCSessions, NEW shown \in SUBSET Items,
         Shown' \subseteq Shown \cup ({s} \X shown), delivery' \in Counts,
         delivery'.exposed = delivery.exposed + Cardinality(shown)
  PROVE  ShownInv'
<1>1. IsFiniteSet(Shown) /\ Cardinality(Shown) <= delivery.exposed /\ delivery.exposed \in Nat
  BY DEF PluginInv, ShownInv, PluginTypeOK, Counts
<1>2. /\ IsFiniteSet({s} \X shown) /\ Cardinality({s} \X shown) = Cardinality(shown)
      /\ Cardinality(shown) \in Nat
  BY PairsWith, SomeItems
<1> DEFINE B == Shown \cup ({s} \X shown)
<1>3. IsFiniteSet(B) /\ Cardinality(B) \in Nat /\ Cardinality(Shown) \in Nat
      /\ Cardinality(Shown \cap ({s} \X shown)) \in Nat
  BY <1>1, <1>2, FS_Union, FS_Intersection, FS_CardinalityType
<1>4. Cardinality(B) = Cardinality(Shown) + Cardinality({s} \X shown)
                         - Cardinality(Shown \cap ({s} \X shown))
  BY <1>1, <1>2, FS_Union
<1>5. Cardinality(B) <= delivery.exposed + Cardinality(shown)
  BY <1>1, <1>2, <1>3, <1>4
<1>6. Shown' \subseteq B
  OBVIOUS
<1> HIDE DEF B
<1>7. IsFiniteSet(Shown') /\ Cardinality(Shown') <= Cardinality(B)
  BY <1>3, <1>6, FS_Subset
<1>8. Cardinality(Shown') \in Nat
  BY <1>7, FS_CardinalityType
<1> QED BY <1>1, <1>2, <1>3, <1>5, <1>7, <1>8 DEF ShownInv

(* The counters of a prompt.                                               *)
LEMMA PromptCounts ==
  ASSUME NEW v \in Counts, NEW n \in Nat
  PROVE  LET d == [v EXCEPT !.prepared = @ + 1, !.exposed = @ + n]
         IN  /\ d \in Counts /\ d.prepared = v.prepared + 1 /\ d.exposed = v.exposed + n
             /\ d.turns = v.turns /\ d.items = v.items /\ d.acks = v.acks
<1>1. v.prepared + 1 \in Nat /\ v.exposed + n \in Nat
  BY DEF Counts
<1>2. [v EXCEPT !.prepared = @ + 1, !.exposed = @ + n] \in Counts
  BY <1>1 DEF Counts
<1> QED BY <1>2 DEF Counts

(* A prompt is made, and its receipt queued.                               *)
LEMMA TransformStep ==
  ASSUME PluginInv, NEW c \in Calls, NEW s \in OCSessions, NEW shown \in SUBSET Unseen(s),
         Transform(c, s, shown)
  PROVE  PluginInv'
<1> DEFINE h == [NoHook EXCEPT !.kind = "transform", !.session = s, !.packet = shown]
           d == [delivery EXCEPT !.prepared = @ + 1, !.exposed = @ + Cardinality(shown)]
           fresh == [turn |-> d.prepared, relay |-> RelayPart(shown)]
           w == Written(c, d, shipping[RootOf[s]], "push")
<1>1. /\ PluginTypeOK /\ \A e \in Calls : CallInv(e)
      /\ delivery \in Counts /\ hook \in [Calls -> Hooks]
  BY DEF PluginInv, HooksInv, PluginTypeOK
<1>2. /\ hook[c].at = "none" /\ Quiet(s) /\ s \notin prompted
      /\ pendingItems' = [pendingItems EXCEPT ![s] = shown]
      /\ staged' = [staged EXCEPT ![s] = fresh] /\ delivery' = d
      /\ Persist(c, h, RootOf[s], d, shipping[RootOf[s]], "push")
      /\ UNCHANGED <<prompted, seenItems, marked, told, admitted, shipping>> /\ ConfigKept
  BY DEF Transform, Free, ClosingKept, RelayPart
<1>3. /\ shown \subseteq Items /\ Cardinality(shown) \in Nat /\ RelayPart(shown) \in Nat
      /\ \A x \in shown : x \notin seenItems[RootOf[s]]
  BY SomeItems DEF Unseen, Items
<1>4. /\ d \in Counts /\ d.prepared = delivery.prepared + 1
      /\ d.exposed = delivery.exposed + Cardinality(shown)
      /\ d.turns = delivery.turns /\ d.items = delivery.items /\ d.acks = delivery.acks
  BY <1>1, <1>3, PromptCounts
<1>5. fresh \in Stages /\ fresh.relay = RelayPart(shown)
  BY <1>3, <1>4 DEF Stages, Counts
<1>6. h \in Hooks
  BY <1>3, NoHookIsOne DEF Hooks
<1>7. /\ h.kind = "transform" /\ h.session = s /\ h.packet = shown /\ h.taken = Unstaged
  BY DEF NoHook
<1> HIDE DEF h, d, fresh
<1>8. RootOf[s] \in Roots
  BY RootIsSomebody
<1>9. /\ OnlyMoves(c) /\ RootStays /\ receiptRoot' \in Roots \cup {NoSession}
      /\ chain' \in Seq(Writes) /\ UNCHANGED <<poisoned, receiptFile>>
      /\ \/ ~receipted /\ chain' = chain /\ hook'[c] = Resume(h, "push")
         \/ chain' = chain /\ hook'[c] = Resume(h, "threw")
         \/ /\ receipted /\ receiptRoot' = RootOf[s] /\ ~poisoned
            /\ hook'[c] = [h EXCEPT !.at = "writing"]
            /\ w \in Writes /\ chain' = Append(chain, w)
  BY <1>2, <1>4, <1>6, <1>8, PersistOutcome
<1>10. Resume(h, "threw") = NoHook /\ Resume(h, "push") = [h EXCEPT !.at = "push"]
  BY <1>7 DEF Resume
<1>11. \/ hook'[c] = NoHook /\ chain' = chain
       \/ /\ hook'[c].at \in {"push", "writing"} /\ hook'[c].kind = "transform"
          /\ hook'[c].session = s /\ hook'[c].packet = shown /\ hook'[c].taken = Unstaged
          /\ receipted => receiptRoot' = RootOf[s]
  BY <1>6, <1>7, <1>9, <1>10 DEF Hooks
<1>12. ASSUME NEW e \in Calls, e # c, Prompting(e) \/ Prompting(e)' \/ Held(e) \/ Held(e)'
       PROVE  /\ hook'[e] = hook[e] /\ Session(e)' = Session(e) /\ Session(e) # s
              /\ Session(e) \in OCSessions
              /\ (Prompting(e)' <=> Prompting(e)) /\ (Held(e)' <=> Held(e))
  <2>1. hook'[e] = hook[e]
    BY <1>9, <1>12 DEF OnlyMoves
  <2>2. /\ Session(e)' = Session(e) /\ (Prompting(e)' <=> Prompting(e)) /\ (Held(e)' <=> Held(e))
        /\ ~Free(e)
    BY <1>12, <2>1 DEF Session, Prompting, Held, Free
  <2>3. Session(e) # s /\ Session(e) \in OCSessions
    BY <1>1, <1>2, <2>2 DEF Quiet, CallInv, Session
  <2> QED BY <2>1, <2>2, <2>3
<1>13. pendingItems'[s] = shown /\ \A t \in OCSessions : t # s => pendingItems'[t] = pendingItems[t]
  BY <1>1, <1>2 DEF PluginTypeOK
<1>14. staged'[s] = fresh /\ \A t \in OCSessions : t # s => staged'[t] = staged[t]
  BY <1>1, <1>2 DEF PluginTypeOK
<1>15. ~Held(c)' /\ (Prompting(c)' => Session(c)' = s /\ hook'[c].packet = shown)
  BY <1>11 DEF Held, Prompting, Session, NoHook, Free
<1>16. PluginTypeOK'
  <2>1. pendingItems' \in [OCSessions -> SUBSET Items] /\ staged' \in [OCSessions -> Stages]
    BY <1>1, <1>2, <1>3, <1>5 DEF PluginTypeOK
  <2> QED BY <1>1, <1>2, <1>4, <1>9, <2>1 DEF PluginTypeOK, OnlyMoves, ConfigKept
<1>17. CallInv(c)'
  <2>1. CASE hook'[c] = NoHook
    BY <2>1, FreeCallInv
  <2>2. CASE /\ hook'[c].at \in {"push", "writing"} /\ hook'[c].kind = "transform"
             /\ hook'[c].session = s /\ hook'[c].packet = shown /\ hook'[c].taken = Unstaged
             /\ receipted => receiptRoot' = RootOf[s]
    <3>1. Prompting(c)' /\ Session(c)' = s /\ ~Reading(c)' /\ ~Free(c)'
      BY <2>2 DEF Prompting, Session, Reading, Free
    <3>2. \A e \in Calls : Prompting(e)' /\ Session(e)' = s => e = c
      BY <1>12
    <3> QED BY <2>2, <3>1, <3>2, <1>2, <1>13 DEF CallInv, ConfigKept
  <2> QED BY <1>11, <2>1, <2>2
<1>18. HooksInv'
  <2>1. ASSUME NEW e \in Calls, e # c, Prompting(e)
        PROVE  /\ Session(e) \notin prompted'
               /\ pendingItems'[Session(e)] = pendingItems[Session(e)]
               /\ ~(Prompting(c)' /\ Session(c)' = Session(e))
    BY <1>1, <1>2, <1>12, <1>13, <1>15, <2>1 DEF CallInv
  <2>2. \A e \in Calls : Reading(e) => Session(e) \in prompted'
    BY <1>1, <1>2 DEF CallInv
  <2> QED BY <1>2, <1>9, <1>17, <2>1, <2>2, OthersKeep DEF ConfigKept
<1>19. PairsInv'
  <2>1. ASSUME NEW t \in OCSessions PROVE ReaderInv(t)'
    <3>1. ReaderInv(t)
      BY DEF PluginInv, PairsInv
    <3>2. CASE t = s
      <4>1. \A x \in pendingItems'[s] : <<s, x>> \notin admitted
        BY <1>3, <1>13, <3>1, <3>2 DEF ReaderInv
      <4> QED BY <3>1, <3>2, <4>1, <1>2 DEF ReaderInv
    <3>3. CASE t # s
      <4>1. t \in prompted /\ receipted => receiptRoot' = RootOf[t]
        BY <3>1, <1>9, RootIsSomebody DEF ReaderInv, RootStays
      <4> QED BY <3>1, <3>3, <4>1, <1>2, <1>13 DEF ReaderInv, ConfigKept
    <3> QED BY <3>2, <3>3
  <2> QED BY <2>1, <1>2 DEF PluginInv, PairsInv
<1>20. ShownInv'
  <2>1. Shown' \subseteq Shown \cup ({s} \X shown)
    <3>1. SUFFICES ASSUME NEW p \in Shown', p \notin told PROVE p \in Shown \cup ({s} \X shown)
      BY DEF Shown
    <3>2. PICK e \in Calls : /\ Prompting(e)' /\ p[1] = Session(e)' /\ p[2] \in hook'[e].packet
                             /\ p \in OCSessions \X Items
      BY <3>1, <1>2 DEF Shown
    <3>3. CASE e = c
      BY <3>2, <3>3, <1>15
    <3>4. CASE e # c
      BY <3>2, <3>4, <1>12 DEF Shown
    <3> QED BY <3>3, <3>4
  <2> QED BY <2>1, <1>2, <1>3, <1>4, ShownGrows
<1>21. CountInv'
  <2> SUFFICES ASSUME ~poisoned PROVE CountInv'
    BY <1>9 DEF CountInv
  <2>1. CountInv
    BY DEF PluginInv
  <2>2. Open' \subseteq Open \cup {s}
    <3>1. ASSUME NEW t \in OCSessions, t # s, NEW e \in Calls, Held(e)', Session(e)' = t
          PROVE  Held(e) /\ Session(e) = t
      BY <3>1, <1>12, <1>15
    <3> QED BY <3>1, <1>14 DEF Open
  <2>3. /\ IsFiniteSet(Open \cup {s}) /\ Cardinality(Open \cup {s}) <= Cardinality(Open) + 1
        /\ Cardinality(Open) \in Nat
    <3>1. IsFiniteSet(Open) /\ Cardinality(Open) \in Nat
      BY <2>1, FS_CardinalityType DEF CountInv
    <3> QED BY <3>1, FS_AddElement
  <2>4. IsFiniteSet(Open') /\ Cardinality(Open') <= Cardinality(Open \cup {s})
    BY <2>2, <2>3, FS_Subset
  <2>5. Cardinality(Open') \in Nat /\ Cardinality(Open \cup {s}) \in Nat
    BY <2>3, <2>4, FS_CardinalityType
  <2>6. delivery'.turns + Cardinality(Open') <= delivery'.prepared
    <3>1. delivery.turns \in Nat /\ delivery.prepared \in Nat
      BY <1>1 DEF Counts
    <3> QED BY <3>1, <1>2, <1>4, <2>1, <2>3, <2>4, <2>5 DEF CountInv
  <2>7. ASSUME NEW t \in OCSessions, staged'[t] # Unstaged
        PROVE  staged'[t].relay = RelayPart(pendingItems'[t])
    BY <2>1, <2>7, <1>5, <1>13, <1>14 DEF CountInv
  <2>8. ASSUME NEW e \in Calls PROVE HeldInv(e)'
    <3> SUFFICES ASSUME Held(e)' PROVE HeldInv(e)'
      BY DEF HeldInv
    <3>1. e # c
      BY <1>15
    <3>2. /\ HeldInv(e) /\ Held(e) /\ Session(e)' = Session(e) /\ hook'[e] = hook[e]
          /\ Session(e) # s /\ Session(e) \in OCSessions
      BY <2>1, <3>1, <1>12 DEF CountInv
    <3>3. staged'[Session(e)'] = Unstaged /\ pendingItems'[Session(e)'] = pendingItems[Session(e)]
      BY <3>2, <1>13, <1>14 DEF HeldInv
    <3>4. \A f \in Calls : Held(f)' /\ Session(f)' = Session(e)' => f = e
      BY <3>2, <1>12, <1>15 DEF HeldInv
    <3> QED BY <3>2, <3>3, <3>4, <1>2 DEF HeldInv
  <2>9. delivery'.items = Cardinality(admitted') /\ delivery'.acks <= Cardinality(Acked')
    <3>1. Acked' = Acked /\ admitted' = admitted
      BY <1>2 DEF Acked
    <3> QED BY <3>1, <2>1, <1>2, <1>4 DEF CountInv
  <2> QED BY <2>4, <2>6, <2>7, <2>8, <2>9 DEF CountInv
<1>22. ChainInv'
  <2>1. Acked' = Acked /\ admitted' = admitted /\ SetsCounted
    BY <1>2, SetsAreCounted DEF Acked, PluginInv
  <2>2. ClaimsStay
    <3>1. receiptRoot \in Roots => receiptRoot' = receiptRoot
      BY <1>9, RootsAreSomebody DEF RootStays
    <3> QED BY <2>1, <3>1, <1>2 DEF ClaimsStay, SetsCounted
  <2>3. CASE chain' = chain
    BY <2>2, <2>3, <1>2, <1>9, ChainKeeps
  <2>4. CASE /\ receipted /\ receiptRoot' = RootOf[s] /\ ~poisoned
             /\ hook'[c] = [h EXCEPT !.at = "writing"]
             /\ w \in Writes /\ chain' = Append(chain, w)
    <3>1. /\ w.call = c /\ w.next = "push" /\ w.body.delivery = d
          /\ w.body.shipped <=> shipping[RootOf[s]] = "shipped"
      BY DEF Written
    <3> HIDE DEF w
    <3>2. d.items <= Cardinality(admitted') /\ d.acks <= Cardinality(Acked)'
      BY <2>1, <2>4, <1>1, <1>4 DEF PluginInv, CountInv, SetsCounted, Counts
    <3>3. hook'[c].at = "writing" /\ Prompting(c)'
      BY <2>4, <1>6, <1>7 DEF Hooks, Prompting, Free
    <3> QED BY <2>2, <2>4, <3>1, <3>2, <3>3, <1>2, <1>8, <1>9, ChainGrows
  <2> QED BY <1>9, <2>3, <2>4
<1> QED BY <1>16, <1>18, <1>19, <1>20, <1>21, <1>22 DEF PluginInv

(* The counters of a turn that was admitted.                               *)
LEMMA TurnCounts ==
  ASSUME NEW v \in Counts, NEW n \in Nat, NEW k \in Nat
  PROVE  LET d == [v EXCEPT !.turns = @ + 1, !.items = @ + n, !.acks = @ + k]
         IN  /\ d \in Counts /\ d.prepared = v.prepared /\ d.exposed = v.exposed
             /\ d.turns = v.turns + 1 /\ d.items = v.items + n /\ d.acks = v.acks + k
<1>1. v.turns + 1 \in Nat /\ v.items + n \in Nat /\ v.acks + k \in Nat
  BY DEF Counts
<1>2. [v EXCEPT !.turns = @ + 1, !.items = @ + n, !.acks = @ + k] \in Counts
  BY <1>1 DEF Counts
<1> QED BY <1>2 DEF Counts

(* Pairs of a session with items it had none of are as many more.          *)
LEMMA PairsAdd ==
  ASSUME NEW s, NEW S \in SUBSET Items, NEW P, IsFiniteSet(P), \A x \in S : <<s, x>> \notin P
  PROVE  /\ IsFiniteSet(P \cup ({s} \X S))
         /\ Cardinality(P \cup ({s} \X S)) = Cardinality(P) + Cardinality(S)
<1>1. P \cap ({s} \X S) = {}
  OBVIOUS
<1>2. IsFiniteSet({s} \X S) /\ Cardinality({s} \X S) = Cardinality(S)
  BY PairsWith
<1>3. Cardinality({}) = 0 /\ Cardinality(P) \in Nat /\ Cardinality(S) \in Nat
  BY FS_EmptySet, FS_CardinalityType, SomeItems
<1>4. /\ IsFiniteSet(P \cup ({s} \X S))
      /\ Cardinality(P \cup ({s} \X S))
           = Cardinality(P) + Cardinality({s} \X S) - Cardinality(P \cap ({s} \X S))
  BY <1>2, FS_Union
<1>5. Cardinality(P \cap ({s} \X S)) = 0
  BY <1>1, <1>3
<1> QED BY <1>2, <1>3, <1>4, <1>5

(* A turn is admitted: what it counts was told, was not admitted before,   *)
(* and its relay items are marked, unless a write failed.                  *)
LEMMA AdmitStagedStep ==
  ASSUME PluginInv, NEW c \in Calls, AdmitStaged(c)
  PROVE  PluginInv'
<1>1. /\ PluginTypeOK /\ \A e \in Calls : CallInv(e)
      /\ SetsCounted /\ PairsInv
  BY SetsAreCounted DEF PluginInv, HooksInv
<1> PICK h \in Hooks : h = hook[c]
  BY <1>1 DEF PluginTypeOK
<1>p. PICK S \in SUBSET Items : S = h.packet
  BY DEF Hooks
<1>r. PICK k \in Nat : k = h.taken.relay
  BY DEF Hooks, Stages
<1>2. h.at = "marking" /\ h.left = {}
  BY DEF AdmitStaged, Running
<1>3. Session(c) \in OCSessions
  BY <1>1, <1>2 DEF CallInv, Free
<1> PICK s \in OCSessions : s = Session(c)
  BY <1>3
<1> DEFINE d == [delivery EXCEPT !.turns = @ + 1, !.items = @ + Cardinality(S), !.acks = @ + k]
           w == Written(c, d, shipping[RootOf[s]], "admitted")
<1>4. /\ pendingItems' = [pendingItems EXCEPT ![s] = {}]
      /\ seenItems' = [seenItems EXCEPT ![RootOf[s]] = @ \cup S]
      /\ delivery' = d /\ admitted' = admitted \cup ({s} \X S)
      /\ Persist(c, h, RootOf[s], d, shipping[RootOf[s]], "admitted")
      /\ UNCHANGED <<prompted, staged, marked, told, shipping>> /\ ConfigKept
  BY <1>p, <1>r DEF AdmitStaged, ClosingKept
<1>5. /\ h.taken # Unstaged /\ h.kind # "transform" /\ h.session = s
      /\ s \in prompted /\ {s} \X S \subseteq told
      /\ receipted => receiptRoot = RootOf[s]
  BY <1>p, <1>1, <1>2 DEF CallInv, Reading, Prompting, Free, Session, PairsInv, ReaderInv
<1>6. /\ RootOf[s] \in Roots /\ RootOf[s] # NoSession /\ Cardinality(S) \in Nat
      /\ delivery \in Counts
  BY <1>1, RootIsSomebody, SomeItems DEF PluginTypeOK
<1>7. /\ d \in Counts /\ d.prepared = delivery.prepared /\ d.exposed = delivery.exposed
      /\ d.turns = delivery.turns + 1 /\ d.items = delivery.items + Cardinality(S)
      /\ d.acks = delivery.acks + k
  BY <1>6, TurnCounts
<1> HIDE DEF d
<1>8. /\ OnlyMoves(c) /\ RootStays /\ receiptRoot' \in Roots \cup {NoSession}
      /\ chain' \in Seq(Writes) /\ UNCHANGED <<poisoned, receiptFile>>
      /\ \/ ~receipted /\ chain' = chain /\ hook'[c] = Resume(h, "admitted")
         \/ /\ receipted /\ chain' = chain /\ hook'[c] = Resume(h, "threw")
            /\ receiptRoot' # RootOf[s] \/ ~Conserved(d) \/ poisoned
         \/ /\ receipted /\ receiptRoot' = RootOf[s] /\ ~poisoned
            /\ hook'[c] = [h EXCEPT !.at = "writing"]
            /\ w \in Writes /\ chain' = Append(chain, w)
  BY <1>4, <1>6, <1>7, PersistOutcome
<1>9. receipted => receiptRoot' = receiptRoot
  BY <1>5, <1>6, <1>8 DEF RootStays
<1>10. /\ Resume(h, "threw") = [h EXCEPT !.at = "threw"]
       /\ Resume(h, "admitted") = [h EXCEPT !.at = "admitted"]
  BY <1>5 DEF Resume
<1>11. /\ hook'[c].at \in {"admitted", "threw", "writing"} /\ hook'[c].session = s
       /\ hook'[c].kind = h.kind /\ hook'[c].taken = h.taken
       /\ hook'[c].at = "threw" => receiptRoot' # RootOf[s] \/ ~Conserved(d) \/ poisoned
  BY <1>5, <1>8, <1>10 DEF Hooks
<1>12. pendingItems'[s] = {} /\ \A t \in OCSessions : t # s => pendingItems'[t] = pendingItems[t]
  BY <1>1, <1>4 DEF PluginTypeOK
<1>13. CallInv(c)' /\ ~Prompting(c)'
  BY <1>4, <1>5, <1>11 DEF CallInv, Prompting, Reading, Free, Session
<1>14. PluginTypeOK'
  <2>1. admitted' \subseteq OCSessions \X Items
    BY <1>1, <1>4 DEF PluginTypeOK
  <2>2. pendingItems' \in [OCSessions -> SUBSET Items] /\ seenItems' \in [Roots -> SUBSET Items]
    BY <1>1, <1>4 DEF PluginTypeOK
  <2> QED BY <1>1, <1>4, <1>7, <1>8, <2>1, <2>2 DEF PluginTypeOK, OnlyMoves, ConfigKept
<1>15. HooksInv'
  <2>1. ASSUME NEW e \in Calls, Prompting(e)
        PROVE  Session(e) \notin prompted' /\ pendingItems'[Session(e)] = pendingItems[Session(e)]
    BY <1>1, <1>4, <1>5, <1>12, <2>1 DEF CallInv, Prompting
  <2>2. \A e \in Calls : Reading(e) => Session(e) \in prompted'
    BY <1>1, <1>4 DEF CallInv
  <2> QED BY <1>4, <1>8, <1>13, <2>1, <2>2, OthersKeep DEF ConfigKept
<1>16. PairsInv'
  <2>1. ASSUME NEW t \in OCSessions PROVE ReaderInv(t)'
    <3>1. ReaderInv(t)
      BY <1>1 DEF PairsInv
    <3>2. receipted' => receiptRoot' = receiptRoot
      BY <1>4, <1>9 DEF ConfigKept
    <3>3. \A x \in Items : <<t, x>> \in admitted' => x \in seenItems'[RootOf[t]]
      <4>1. seenItems \in [Roots -> SUBSET Items] /\ RootOf[t] \in Roots
        BY <1>1, RootIsSomebody DEF PluginTypeOK
      <4> QED BY <3>1, <4>1, <1>4, <1>6 DEF ReaderInv
    <3>4. \A x \in pendingItems'[t] : t # s /\ x \in pendingItems[t]
      BY <1>12
    <3>5. \A x \in pendingItems'[t] : <<t, x>> \notin admitted'
      BY <3>1, <3>4, <1>4 DEF ReaderInv
    <3>6. t \in prompted' => {t} \X pendingItems'[t] \subseteq told'
      BY <3>1, <3>4, <1>4 DEF ReaderInv
    <3>7. t \in prompted' => (receipted' => receiptRoot' = RootOf[t])
      BY <3>1, <3>2, <1>4 DEF ReaderInv, ConfigKept
    <3> QED BY <3>3, <3>5, <3>6, <3>7 DEF ReaderInv
  <2> QED BY <2>1, <1>1, <1>4, <1>5 DEF PairsInv
<1>17. ShownInv'
  <2>1. ASSUME NEW e \in Calls, Prompting(e)' PROVE hook'[e] = hook[e]
    BY <2>1, <1>8, <1>13 DEF OnlyMoves
  <2>2. delivery' \in Counts /\ delivery'.exposed >= delivery.exposed
    BY <1>4, <1>6, <1>7 DEF Counts
  <2> QED BY <2>1, <2>2, <1>4, ShownKeeps DEF Prompting, Session, Free
<1>18. SetsCounted' /\ Cardinality(admitted') <= delivery'.exposed
       /\ Cardinality(Acked') <= Cardinality(admitted')
  <2>1. (PluginTypeOK /\ PairsInv /\ ShownInv)' => SetsCounted'
    BY SetsAreCounted, PTL
  <2> QED BY <1>14, <1>16, <1>17, <2>1 DEF SetsCounted
<1>19. ASSUME ~poisoned
       PROVE  /\ staged[s] = Unstaged /\ k = RelayPart(S) /\ S = pendingItems[s]
              /\ S \cap RelayItems \subseteq marked
              /\ \A e \in Calls : Held(e) /\ Session(e) = s => e = c
              /\ s \in Open /\ CountInv
  <2>1. CountInv /\ HeldInv(c) /\ Held(c)
    BY <1>2, <1>19 DEF PluginInv, CountInv, Held
  <2> QED BY <2>1, <1>p, <1>r, <1>2 DEF HeldInv, Open
<1>20. ASSUME ~poisoned
       PROVE  /\ d.items = Cardinality(admitted') /\ d.acks <= Cardinality(Acked')
              /\ d.acks <= d.items
  <2>1. \A x \in S : <<s, x>> \notin admitted
    BY <1>1, <1>19, <1>20 DEF PairsInv, ReaderInv
  <2>2. Cardinality(admitted') = Cardinality(admitted) + Cardinality(S)
    <3>1. IsFiniteSet(admitted) /\ admitted' = admitted \cup ({s} \X S)
      BY <1>1, <1>4 DEF SetsCounted
    <3>2. Cardinality(admitted \cup ({s} \X S)) = Cardinality(admitted) + Cardinality(S)
      BY <2>1, <3>1, PairsAdd, ZenonT(60)
    <3> QED BY <3>1, <3>2
  <2> DEFINE R == S \cap RelayItems
  <2>3. Acked' = Acked \cup ({s} \X R)
    BY <1>4, <1>19, <1>20 DEF Acked
  <2>4. R \in SUBSET Items /\ (\A x \in R : <<s, x>> \notin Acked) /\ Cardinality(R) = k
    BY <2>1, <1>19, <1>20 DEF Acked, RelayPart
  <2> HIDE DEF R
  <2>5. Cardinality(Acked') = Cardinality(Acked) + k
    <3>a. IsFiniteSet(Acked)
      BY <1>1 DEF SetsCounted
    <3>b. R \in SUBSET Items /\ \A x \in R : <<s, x>> \notin Acked
      BY <2>4
    <3> HIDE DEF Acked
    <3>1. Cardinality(Acked \cup ({s} \X R)) = Cardinality(Acked) + Cardinality(R)
      BY <3>a, <3>b, PairsAdd, ZenonT(60)
    <3> QED BY <2>3, <2>4, <3>1, Zenon
  <2>6. delivery.items = Cardinality(admitted) /\ delivery.acks <= Cardinality(Acked)
    BY <1>19, <1>20 DEF CountInv
  <2>7. /\ delivery.acks \in Nat /\ delivery.items \in Nat /\ Cardinality(Acked) \in Nat
        /\ Cardinality(admitted) \in Nat
    BY <1>1, <1>6 DEF Counts, SetsCounted
  <2> QED BY <1>6, <1>7, <1>18, <2>2, <2>5, <2>6, <2>7
<1>21. ASSUME ~poisoned PROVE d.turns + Cardinality(Open \ {s}) <= d.prepared
                              /\ IsFiniteSet(Open \ {s}) /\ Cardinality(Open \ {s}) \in Nat
  <2>1. /\ IsFiniteSet(Open) /\ delivery.turns + Cardinality(Open) <= delivery.prepared
        /\ s \in Open /\ delivery.turns \in Nat /\ delivery.prepared \in Nat
    BY <1>6, <1>19, <1>21 DEF CountInv, Counts
  <2>2. /\ IsFiniteSet(Open \ {s}) /\ Cardinality(Open \ {s}) = Cardinality(Open) - 1
        /\ Cardinality(Open) \in Nat
    BY <2>1, FS_RemoveElement, FS_CardinalityType
  <2>3. Cardinality(Open \ {s}) \in Nat
    BY <2>2, FS_CardinalityType
  <2> QED BY <1>7, <2>1, <2>2, <2>3
<1>22. ~poisoned => Conserved(d)
  <2>1. d.turns \in Nat /\ d.prepared \in Nat /\ d.exposed \in Nat /\ d.items \in Nat
    BY <1>7 DEF Counts
  <2> QED BY <2>1, <1>4, <1>18, <1>20, <1>21 DEF Conserved
<1>23. ~poisoned => ~Held(c)'
  <2> SUFFICES ASSUME ~poisoned, Held(c)' PROVE FALSE
    OBVIOUS
  <2>1. hook'[c].at = "threw"
    BY <1>11 DEF Held
  <2>2. receipted /\ receiptRoot' # RootOf[s]
    BY <2>1, <1>8, <1>10, <1>11, <1>22 DEF Hooks
  <2> QED BY <2>2, <1>5, <1>9
<1>24. CountInv'
  <2> SUFFICES ASSUME ~poisoned PROVE CountInv'
    BY <1>8 DEF CountInv
  <2>1. CountInv
    BY <1>19
  <2>2. ASSUME NEW e \in Calls, Held(e)'
        PROVE  /\ Held(e) /\ Session(e)' = Session(e) /\ hook'[e] = hook[e] /\ e # c
               /\ Session(e) # s /\ Session(e) \in OCSessions
    <3>1. e # c /\ hook'[e] = hook[e]
      BY <2>2, <1>8, <1>23 DEF OnlyMoves
    <3>2. Held(e) /\ Session(e)' = Session(e)
      BY <2>2, <3>1 DEF Held, Session
    <3>3. Session(e) \in OCSessions
      BY <1>1, <3>2 DEF CallInv, Held, Free
    <3> QED BY <3>1, <3>2, <3>3, <1>19
  <2>3. Open' \subseteq Open \ {s}
    BY <2>2, <1>4, <1>19 DEF Open
  <2>4. IsFiniteSet(Open') /\ Cardinality(Open') <= Cardinality(Open \ {s})
    BY <2>3, <1>21, FS_Subset
  <2>5. delivery'.turns + Cardinality(Open') <= delivery'.prepared
    <3>1. Cardinality(Open') \in Nat /\ d.turns \in Nat /\ d.prepared \in Nat
      BY <2>4, <1>7, FS_CardinalityType DEF Counts
    <3> QED BY <3>1, <2>4, <1>4, <1>21
  <2>6. ASSUME NEW t \in OCSessions, staged'[t] # Unstaged
        PROVE  staged'[t].relay = RelayPart(pendingItems'[t])
    BY <2>1, <2>6, <1>4, <1>12, <1>19 DEF CountInv
  <2>7. ASSUME NEW e \in Calls PROVE HeldInv(e)'
    <3> SUFFICES ASSUME Held(e)' PROVE HeldInv(e)'
      BY DEF HeldInv
    <3>1. HeldInv(e) /\ Held(e) /\ Session(e)' = Session(e) /\ hook'[e] = hook[e]
      BY <2>1, <2>2 DEF CountInv
    <3>2. staged'[Session(e)'] = Unstaged /\ pendingItems'[Session(e)'] = pendingItems[Session(e)]
      BY <3>1, <2>2, <1>4, <1>12 DEF HeldInv
    <3>3. \A f \in Calls : Held(f)' /\ Session(f)' = Session(e)' => f = e
      BY <3>1, <2>2 DEF HeldInv
    <3> QED BY <3>1, <3>2, <3>3, <1>4 DEF HeldInv
  <2>8. delivery'.items = Cardinality(admitted') /\ delivery'.acks <= Cardinality(Acked')
    BY <1>4, <1>20
  <2> QED BY <2>4, <2>5, <2>6, <2>7, <2>8 DEF CountInv
<1>25. ChainInv'
  <2>1. Acked \subseteq Acked' /\ admitted \subseteq admitted'
    BY <1>4 DEF Acked
  <2>2. /\ Cardinality(Acked) <= Cardinality(Acked')
        /\ Cardinality(admitted) <= Cardinality(admitted')
    BY <2>1, <1>18, FS_Subset DEF SetsCounted
  <2>3. ClaimsStay
    <3>1. receiptRoot \in Roots => receiptRoot' = receiptRoot
      BY <1>8, RootsAreSomebody DEF RootStays
    <3> QED BY <2>2, <3>1, <1>4, <1>18 DEF ClaimsStay, SetsCounted
  <2>4. hook[c].at # "writing"
    BY <1>2
  <2>5. CASE chain' = chain
    BY <2>3, <2>4, <2>5, <1>8, ChainKeeps
  <2>6. CASE /\ receipted /\ receiptRoot' = RootOf[s] /\ ~poisoned
             /\ hook'[c] = [h EXCEPT !.at = "writing"]
             /\ w \in Writes /\ chain' = Append(chain, w)
    <3>1. /\ w.call = c /\ w.next = "admitted" /\ w.body.delivery = d
          /\ w.body.shipped <=> shipping[RootOf[s]] = "shipped"
      BY DEF Written
    <3> HIDE DEF w
    <3>2. d.items <= Cardinality(admitted') /\ d.acks <= Cardinality(Acked)'
      BY <2>6, <1>20, <1>7 DEF Counts
    <3>3. hook'[c].at = "writing" /\ hook'[c].taken # Unstaged
      BY <2>6, <1>5 DEF Hooks
    <3> QED BY <2>3, <2>4, <2>6, <3>1, <3>2, <3>3, <1>4, <1>6, <1>8, ChainGrows
  <2> QED BY <1>8, <2>5, <2>6
<1> QED BY <1>14, <1>15, <1>16, <1>17, <1>24, <1>25 DEF PluginInv

(* The invariant holds before the first hook.                              *)
LEMMA PluginInvInit == PluginInit => PluginInv
<1> SUFFICES ASSUME PluginInit PROVE PluginInv
  OBVIOUS
<1> USE DEF PluginInit
<1>1. PluginTypeOK
  <2>1. hook \in [Calls -> Hooks] /\ staged \in [OCSessions -> Stages]
    BY NoHookIsOne
  <2>2. delivery \in Counts /\ receiptFile \in Receipts
    BY DEF NoCounts, Counts, Receipts
  <2>3. /\ pendingItems \in [OCSessions -> SUBSET Items] /\ seenItems \in [Roots -> SUBSET Items]
        /\ shipping \in [Roots -> {"working", "published", "shipped"}]
    OBVIOUS
  <2>4. chain \in Seq(Writes)
    OBVIOUS
  <2> HIDE DEF PluginInit
  <2>5. /\ receipted \in BOOLEAN /\ poisoned \in BOOLEAN /\ prompted = {} /\ marked = {}
        /\ receiptRoot = NoSession /\ told = {} /\ admitted = {}
    BY DEF PluginInit
  <2> QED BY <2>1, <2>2, <2>3, <2>4, <2>5 DEF PluginTypeOK
<1>2. ASSUME NEW c \in Calls
      PROVE  Free(c) /\ ~Prompting(c) /\ ~Reading(c) /\ ~Held(c) /\ CallInv(c)
  BY DEF NoHook, Free, Prompting, Reading, Held, CallInv
<1>3. PairsInv
  BY DEF PairsInv, ReaderInv
<1>4. Shown = {} /\ Acked = {}
  BY <1>2 DEF Shown, Acked
<1>5. Open = {}
  BY <1>2 DEF Open
<1>6. IsFiniteSet({}) /\ Cardinality({}) = 0
  BY FS_EmptySet
<1>7. ShownInv
  BY <1>4, <1>6 DEF ShownInv, NoCounts
<1>8. CountInv
  <2>1. \A c \in Calls : HeldInv(c)
    BY <1>2 DEF HeldInv
  <2> QED BY <2>1, <1>4, <1>5, <1>6 DEF CountInv, NoCounts
<1>9. ChainInv
  BY <1>4, <1>6 DEF ChainInv, Behind, NoCounts
<1> QED BY <1>1, <1>2, <1>3, <1>7, <1>8, <1>9 DEF PluginInv, HooksInv

(* It holds when nothing moves.                                            *)
LEMMA PluginInvUnchanged ==
  ASSUME PluginInv, UNCHANGED pluginVars
  PROVE  PluginInv'
<1> USE DEF pluginVars
<1>1. PluginTypeOK'
  BY DEF PluginInv, PluginTypeOK
<1>2. HooksInv'
  BY DEF PluginInv, HooksInv, CallInv, Free, Session, Prompting, Reading
<1>3. PairsInv' /\ ShownInv'
  BY DEF PluginInv, PairsInv, ReaderInv, ShownInv, Shown, Prompting, Free, Session
<1>4. CountInv'
  BY DEF PluginInv, CountInv, HeldInv, Held, Session, Open, Acked
<1>5. ChainInv'
  BY DEF PluginInv, ChainInv, WriteInv, Behind, Acked, Prompting, Free
<1> QED BY <1>1, <1>2, <1>3, <1>4, <1>5 DEF PluginInv

(* Every hook keeps it.                                                    *)
LEMMA PluginStep == PluginInv /\ [PluginNext]_pluginVars => PluginInv'
<1> SUFFICES ASSUME PluginInv, [PluginNext]_pluginVars PROVE PluginInv'
  OBVIOUS
<1>1. CASE WriteReceipt
  BY <1>1, WriteReceiptStep
<1>2. CASE WriteReceiptFails
  BY <1>2, WriteFailsStep
<1>3. ASSUME NEW c \in Calls, NEW s \in OCSessions,
             \/ \E shown \in SUBSET Unseen(s) : Transform(c, s, shown)
             \/ \E text \in Texts : CompleteText(c, s, text)
             \/ \E tool \in Tools : AskTool(c, s, tool)
             \/ IdleEvent(c, s)
      PROVE  PluginInv'
  BY <1>3, TransformStep, TextOrToolStep, IdleStep
<1>4. ASSUME NEW c \in Calls,
             \/ Push(c) \/ Confirm(c) \/ (\E x \in RelayItems : MarkRead(c, x)) \/ MarkFails(c)
             \/ AdmitStaged(c) \/ Restage(c)
      PROVE  PluginInv'
  BY <1>4, PushStep, ConfirmStep, MarkReadStep, MarkFailsStep, AdmitStagedStep, RestageStep
<1>5. ASSUME NEW c \in Calls,
             \/ TextDone(c) \/ BeginTool(c) \/ RefuseTool(c)
             \/ (\E success \in BOOLEAN : AfterTool(c, success))
             \/ (\E given \in BOOLEAN : Publish(c, given)) \/ PublishFails(c)
      PROVE  PluginInv'
  BY <1>5, TextDoneStep, BeginToolStep, ToolEndsStep, PublishStep
<1>6. CASE UNCHANGED pluginVars
  BY <1>6, PluginInvUnchanged
<1> QED BY <1>1, <1>2, <1>3, <1>4, <1>5, <1>6, Zenon DEF PluginNext

(* The invariant of the plugin.                                            *)
LEMMA PluginInvariance == PluginSpec => []PluginInv
BY PluginInvInit, PluginStep, PTL DEF PluginSpec

(* The receipt the cast reads never claims more than came to pass.         *)
THEOREM ReceiptTrue == PluginSpec => []CastReceiptIsTrue
<1>1. PluginInv => CastReceiptIsTrue
  BY DEF PluginInv, PairsInv, ChainInv, Behind, Acked, CastReceiptIsTrue
<1> QED BY <1>1, PluginInvariance, PTL

(***************************************************************************)
(* CoordinationContext: the checkpoint is the root's.                      *)
(***************************************************************************)
(* A root that has not joined has no packet, and no process no root.       *)
CheckpointInv ==
  /\ ~running => ~rooted
  /\ ~rooted => packet = NoPacket
  /\ checkpoint.document.ids = checkpoint.document.shown
  /\ CheckpointIsTheRoots

LEMMA CheckpointInit == ContextInit => CheckpointInv
BY DEF ContextInit, CheckpointInv, CheckpointIsTheRoots, NoCheckpoint, NoPacket

(* A checkpoint written is the one asked for, and it can be read back.     *)
LEMMA SaveWrites ==
  ASSUME NEW r, NEW source, NEW gs, NEW rest, NEW p, Save(r, Document(source, gs, rest), p),
         protocol' = protocol
  PROVE  /\ IsValidFor(r, checkpoint)'
         /\ checkpoint'.document.source = source /\ checkpoint'.publication = p
         /\ checkpoint'.document.ids = checkpoint'.document.shown
<1>1. IsValidFor(r, checkpoint') /\ protocol' = protocol
  BY DEF Save
<1>2. IsValidFor(r, checkpoint)'
  BY <1>1 DEF IsValidFor, Restorable
<1>3. checkpoint'.document = Document(source, gs, rest) /\ checkpoint'.publication = p
  BY DEF Save
<1> QED
  BY <1>2, <1>3 DEF Document, PacketOf

LEMMA CheckpointStep == CheckpointInv /\ [ContextNext]_packetVars => CheckpointInv'
<1> SUFFICES ASSUME CheckpointInv, [ContextNext]_packetVars PROVE CheckpointInv'
  OBVIOUS
<1> DEFINE kept == <<running, rooted, role, joined, checkpoint, protocol>>
<1>1. ASSUME UNCHANGED kept, packet' = packet \/ packet' = NoPacket \/ rooted
      PROVE  CheckpointInv'
  BY <1>1 DEF CheckpointInv, CheckpointIsTheRoots, IsValidFor, Restorable
<1>2. ASSUME NEW i \in FieldItems, ArriveItem(i) PROVE CheckpointInv'
  BY <1>2, <1>1 DEF ArriveItem
<1>3. ASSUME NEW r \in Roles, NEW gs \in Goals, NEW rest \in Rests, StartProduct(r, gs, rest)
      PROVE  CheckpointInv'
  <2>1. /\ Save(r, Document(unread, gs, rest), checkpoint.publication) /\ protocol' = protocol
        /\ running' /\ rooted' /\ role' = r /\ joined' = unread /\ packet' = packet
    BY <1>3 DEF StartProduct
  <2> QED
    BY <2>1, SaveWrites DEF CheckpointInv, CheckpointIsTheRoots
<1>4. ASSUME NEW r \in Roles, StartClosed(r) PROVE CheckpointInv'
  <2>1. checkpoint # NoCheckpoint
    BY <1>4 DEF StartClosed, IsTerminal, NoCheckpoint, NoPublication
  <2>2. IsValidFor(r, checkpoint)'
    BY <1>4, <2>1 DEF StartClosed, Loads, IsValidFor, Restorable
  <2> QED
    BY <1>4, <2>2 DEF StartClosed, CheckpointInv, CheckpointIsTheRoots
<1>5. ASSUME NEW rest \in Rests, PreparePacket(rest) PROVE CheckpointInv'
  BY <1>5, <1>1 DEF PreparePacket
<1>6. ASSUME NEW rest \in Rests, NEW p \in Publications, Checkpoint(rest, p)
      PROVE  CheckpointInv'
  <2>1. /\ Save(role, Document(joined, goals, rest), p) /\ protocol' = protocol
        /\ running /\ rooted
        /\ UNCHANGED <<running, rooted, role, joined, packet>>
    BY <1>6 DEF Checkpoint
  <2> QED
    BY <2>1, SaveWrites DEF CheckpointInv, CheckpointIsTheRoots
<1>7. CASE AdmitPacket \/ DiscardPacket
  BY <1>7, <1>1 DEF AdmitPacket, DiscardPacket
<1>8. ASSUME NEW p \in {1, 2}, EndProduct(p) PROVE CheckpointInv'
  BY <1>8 DEF EndProduct, CheckpointInv, CheckpointIsTheRoots
<1>9. CASE UNCHANGED packetVars
  BY <1>9, <1>1 DEF packetVars
<1> QED
  BY <1>2, <1>3, <1>4, <1>5, <1>6, <1>7, <1>8, <1>9 DEF ContextNext

(* A process that runs has its checkpoint in the store, one it could       *)
(* restart from, made in its own role from what it joined with             *)
(* (coordination-continuity.ts, native-product-lifecycle.ts).              *)
THEOREM CheckpointKept == ContextSpec => []CheckpointIsTheRoots
<1>1. CheckpointInv => CheckpointIsTheRoots
  BY DEF CheckpointInv
<1> QED
  BY <1>1, CheckpointInit, CheckpointStep, PTL DEF ContextSpec

(***************************************************************************)
(* CoordinationContext: the packet of a turn is honest.                    *)
(***************************************************************************)
(* f is what is made of base by N steps of F: the form of every recursive  *)
(* function of the packet (a sum, the items that are admitted, the goal).  *)
MadeInSteps(f, A, base, N, F) ==
  /\ f \in [0 .. N -> A] /\ f[0] = base
  /\ \A n \in 1 .. N : f[n] = F[<<f[n - 1], n>>]

(* A function that is made step by step: F says what becomes of a value at *)
(* each step.  Were there none, there would be a least number of steps     *)
(* that has none, and one step less could be continued.                    *)
LEMMA StepByStep ==
  ASSUME NEW A, NEW base \in A, NEW N \in Nat, NEW F \in [A \X (1 .. N) -> A]
  PROVE  \E f : MadeInSteps(f, A, base, N, F)
<1> DEFINE Step(f, n) == IF n = 0 THEN base ELSE F[<<f[n - 1], n>>]
           IsMade(f, m) == f \in [0 .. m -> A] /\ f = [n \in 0 .. m |-> Step(f, n)]
           Stuck == {m \in Nat : m <= N /\ \A f : ~IsMade(f, m)}
<1> HIDE DEF IsMade, Stuck
<1>1. Stuck = {}
  <2> SUFFICES ASSUME Stuck # {} PROVE FALSE
    OBVIOUS
  <2>1. Stuck \in SUBSET Nat
    BY DEF Stuck
  <2>2. PICK m \in Stuck : \A k \in Stuck : ~(k < m)
    BY <2>1, LeastNatural
  <2>3. m \in Nat /\ m <= N
    BY <2>2 DEF Stuck
  <2>4. ASSUME NEW f PROVE ~IsMade(f, m)
    BY <2>2 DEF Stuck
  <2>5. CASE m = 0
    <3>1. IsMade([n \in 0 .. 0 |-> base], 0)
      BY DEF IsMade
    <3> QED BY <2>4, <2>5, <3>1
  <2>6. CASE m # 0
    <3>1. m - 1 \in Nat /\ m - 1 < m /\ m - 1 <= N /\ m \in 1 .. N
      BY <2>3, <2>6
    <3>2. m - 1 \notin Stuck
      BY <2>2, <3>1
    <3>3. PICK f : IsMade(f, m - 1)
      BY <3>1, <3>2 DEF Stuck
    <3> DEFINE last == F[<<f[m - 1], m>>]
               g == [n \in 0 .. m |-> IF n < m THEN f[n] ELSE last]
    <3>4. f \in [0 .. (m - 1) -> A] /\ \A n \in 0 .. (m - 1) : f[n] = Step(f, n)
      BY <3>3 DEF IsMade
    <3>5. f[m - 1] \in A /\ last \in A
      BY <3>1, <3>4
    <3>6. g \in [0 .. m -> A]
      BY <2>3, <3>4, <3>5
    <3>7. /\ \A n \in 0 .. m : g[n] = IF n < m THEN f[n] ELSE last
          /\ g = [n \in 0 .. m |-> g[n]]
      OBVIOUS
    <3> HIDE DEF g
    <3>8. ASSUME NEW n \in 0 .. m PROVE g[n] = Step(g, n)
      <4>0. n \in Int /\ 0 <= n /\ n <= m
        BY <2>3
      <4>1. CASE n = 0
        <5>1. n < m /\ n \in 0 .. (m - 1)
          BY <4>0, <4>1, <2>3, <2>6
        <5>2. g[n] = f[n] /\ f[n] = Step(f, n)
          BY <5>1, <3>4, <3>7
        <5> QED BY <5>2, <4>1
      <4>2. CASE n # 0 /\ n < m
        <5>1. n \in 0 .. (m - 1) /\ n - 1 \in 0 .. m /\ n - 1 < m
          BY <4>0, <4>2, <2>3
        <5>2. g[n] = f[n] /\ g[n - 1] = f[n - 1]
          BY <5>1, <4>2, <3>7
        <5>3. f[n] = Step(f, n)
          BY <5>1, <3>4
        <5> QED BY <5>2, <5>3, <4>2
      <4>3. CASE n = m
        <5>1. n - 1 \in 0 .. m /\ n - 1 < m
          BY <4>0, <4>3, <2>3, <2>6
        <5>2. g[n] = last /\ g[n - 1] = f[m - 1]
          BY <5>1, <4>3, <2>3, <3>7
        <5> QED BY <5>2, <4>3, <2>6
      <4> QED BY <4>0, <4>1, <4>2, <4>3, <2>3
    <3>9. g = [n \in 0 .. m |-> Step(g, n)]
      BY <3>7, <3>8, Zenon
    <3> QED BY <3>6, <3>9, <2>4 DEF IsMade
  <2> QED BY <2>5, <2>6
<1>2. PICK f : IsMade(f, N)
  BY <1>1 DEF Stuck
<1>3. f \in [0 .. N -> A] /\ \A n \in 0 .. N : f[n] = Step(f, n)
  BY <1>2 DEF IsMade
<1>4. f[0] = base /\ \A n \in 1 .. N : f[n] = F[<<f[n - 1], n>>]
  <2>1. 0 \in 0 .. N /\ \A n \in 1 .. N : n \in 0 .. N /\ n # 0
    OBVIOUS
  <2> QED BY <1>3, <2>1
<1> QED BY <1>3, <1>4 DEF MadeInSteps

(* What holds at the start and is kept by each step holds of every step.   *)
LEMMA EachStep ==
  ASSUME NEW N \in Nat, NEW T, 0 \in T, \A n \in 1 .. N : n - 1 \in T => n \in T
  PROVE  \A n \in 0 .. N : n \in T
<1> DEFINE Missed == {n \in 0 .. N : n \notin T}
<1>1. Missed = {}
  <2> SUFFICES ASSUME Missed # {} PROVE FALSE
    OBVIOUS
  <2>1. Missed \in SUBSET Nat
    OBVIOUS
  <2> HIDE DEF Missed
  <2>2. PICK m \in Missed : \A k \in Missed : ~(k < m)
    BY <2>1, LeastNatural
  <2>3. m \in 0 .. N /\ m \notin T
    BY <2>2 DEF Missed
  <2>4. m \in 1 .. N /\ m - 1 \in 0 .. N /\ m - 1 < m
    BY <2>3
  <2>5. m - 1 \in Missed
    BY <2>3, <2>4 DEF Missed
  <2> QED BY <2>2, <2>4, <2>5
<1> QED BY <1>1

(* The size of an item is a number, and no more than its text and its      *)
(* metadata.                                                               *)
LEMMA SizeIsNat == \A i \in FieldItems : Size(i) \in Nat /\ Size(i) <= Meta[i] + Text[i]
BY PacketAssumption DEF Size, Cut

(* The total of a sequence of items is summed one item after the other.    *)
LEMMA TotalStepByStep ==
  ASSUME NEW items \in Seq(FieldItems)
  PROVE  \E f \in [0 .. Len(items) -> Nat] :
           /\ Total(items) = f[Len(items)] /\ f[0] = 0
           /\ \A n \in 1 .. Len(items) : f[n] = f[n - 1] + Size(items[n])
<1> DEFINE N == Len(items)
           Values == Nat
           F == [x \in Values \X (1 .. N) |-> x[1] + Size(items[x[2]])]
           Sum(f) == [n \in 0 .. N |-> IF n = 0 THEN 0 ELSE f[n - 1] + Size(items[n])]
           sum == CHOOSE f : f = Sum(f)
<1>0. 0 \in Nat /\ N \in Nat /\ \A n \in 1 .. N : items[n] \in FieldItems /\ Size(items[n]) \in Nat
  BY SizeIsNat
<1>1. F \in [Values \X (1 .. N) -> Values] /\ 0 \in Values
  <2> HIDE DEF N
  <2>1. \A x \in Nat \X (1 .. N) : x[1] + Size(items[x[2]]) \in Nat
    BY <1>0
  <2> QED BY <2>1
<1>2. Total(items) = sum[N]
  BY DEF Total
<1>3. \A a \in Nat, n \in 1 .. N : F[<<a, n>>] = a + Size(items[n])
  OBVIOUS
<1> HIDE DEF F, N, sum, Values
<1>g. \E g : MadeInSteps(g, Values, 0, N, F)
  BY <1>0, <1>1, StepByStep
<1>4. PICK g \in [0 .. N -> Nat] :
        g[0] = 0 /\ \A n \in 1 .. N : g[n] = F[<<g[n - 1], n>>]
  BY <1>g DEF Values, MadeInSteps
<1>5. \A n \in 1 .. N : n # 0 /\ n \in 0 .. N /\ g[n - 1] \in Nat
  BY <1>0, <1>4
<1>6. \A n \in 0 .. N : g[n] = IF n = 0 THEN 0 ELSE g[n - 1] + Size(items[n])
  <2>1. \A n \in 0 .. N : n = 0 \/ n \in 1 .. N
    BY <1>0
  <2> QED BY <1>0, <1>3, <1>4, <1>5, <2>1
<1>7. g = [n \in 0 .. N |-> g[n]]
  BY <1>4
<1>8. g = Sum(g)
  BY <1>6, <1>7, Zenon
<1>9. sum = Sum(sum)
  BY <1>8, Zenon DEF sum
<1>10. sum[0] = 0 /\ \A n \in 1 .. N : sum[n] = sum[n - 1] + Size(items[n])
  <2>1. \A n \in 0 .. N : sum[n] = IF n = 0 THEN 0 ELSE sum[n - 1] + Size(items[n])
    BY <1>9
  <2> QED BY <1>0, <1>5, <2>1
<1> HIDE DEF Sum
<1>11. \A n \in 0 .. N : sum[n] \in Nat
  <2> DEFINE T == {n \in 0 .. N : sum[n] \in Nat}
  <2>1. 0 \in T
    BY <1>0, <1>10
  <2>2. \A n \in 1 .. N : n - 1 \in T => n \in T
    BY <1>0, <1>10
  <2> HIDE DEF T
  <2>3. \A n \in 0 .. N : n \in T
    BY <1>0, <2>1, <2>2, EachStep
  <2> QED BY <2>3 DEF T
<1>12. sum = [n \in 0 .. N |-> sum[n]]
  BY <1>9 DEF Sum
<1>13. sum \in [0 .. N -> Nat]
  BY <1>11, <1>12
<1> QED BY <1>2, <1>10, <1>13 DEF N

(* The total of a sequence and one item more, and that of a beginning.     *)
LEMMA TotalOfAppend ==
  ASSUME NEW items \in Seq(FieldItems), NEW i \in FieldItems
  PROVE  Total(items) \in Nat /\ Total(Append(items, i)) = Total(items) + Size(i)
<1> DEFINE N == Len(items)
           more == Append(items, i)
<1>1. /\ more \in Seq(FieldItems) /\ Len(more) = N + 1 /\ N \in Nat
      /\ more[N + 1] = i /\ \A n \in 1 .. N : more[n] = items[n]
  OBVIOUS
<1> HIDE DEF N, more
<1>2. PICK f \in [0 .. N -> Nat] :
        /\ Total(items) = f[N] /\ f[0] = 0
        /\ \A n \in 1 .. N : f[n] = f[n - 1] + Size(items[n])
  BY TotalStepByStep DEF N
<1>m. \E g \in [0 .. Len(more) -> Nat] :
        /\ Total(more) = g[Len(more)] /\ g[0] = 0
        /\ \A n \in 1 .. Len(more) : g[n] = g[n - 1] + Size(more[n])
  BY <1>1, TotalStepByStep
<1>3. PICK g \in [0 .. (N + 1) -> Nat] :
        /\ Total(more) = g[N + 1] /\ g[0] = 0
        /\ \A n \in 1 .. (N + 1) : g[n] = g[n - 1] + Size(more[n])
  BY <1>1, <1>m
<1> DEFINE T == {n \in 0 .. N : f[n] = g[n]}
<1>4. 0 \in T
  BY <1>1, <1>2, <1>3
<1>5. ASSUME NEW n \in 1 .. N, n - 1 \in T PROVE n \in T
  <2>1. n \in 1 .. (N + 1) /\ n \in 0 .. N
    BY <1>1
  <2> QED BY <1>1, <1>2, <1>3, <1>5, <2>1
<1> HIDE DEF T
<1>6. \A n \in 0 .. N : n \in T
  BY <1>1, <1>4, <1>5, EachStep
<1>7. f[N] = g[N] /\ N + 1 \in 1 .. (N + 1) /\ N + 1 - 1 = N
  BY <1>1, <1>6 DEF T
<1>8. g[N + 1] = g[N] + Size(i)
  BY <1>1, <1>3, <1>7
<1> QED BY <1>1, <1>2, <1>3, <1>7, <1>8 DEF more

LEMMA TotalOfBeginning ==
  ASSUME NEW items \in Seq(FieldItems), NEW k \in 0 .. Len(items)
  PROVE  /\ SubSeq(items, 1, k) \in Seq(FieldItems) /\ Len(SubSeq(items, 1, k)) = k
         /\ \A n \in 1 .. k : SubSeq(items, 1, k)[n] = items[n]
         /\ Total(SubSeq(items, 1, k)) \in Nat /\ Total(SubSeq(items, 1, k)) <= Total(items)
         /\ Total(items) \in Nat
<1> DEFINE N == Len(items)
           start == SubSeq(items, 1, k)
<1>1. /\ start \in Seq(FieldItems) /\ Len(start) = k /\ N \in Nat /\ k \in Nat /\ k <= N
      /\ \A n \in 1 .. k : start[n] = items[n]
  OBVIOUS
<1> HIDE DEF N, start
<1>m. \E f \in [0 .. Len(start) -> Nat] :
        /\ Total(start) = f[Len(start)] /\ f[0] = 0
        /\ \A n \in 1 .. Len(start) : f[n] = f[n - 1] + Size(start[n])
  BY <1>1, TotalStepByStep
<1>2. PICK f \in [0 .. k -> Nat] :
        /\ Total(start) = f[k] /\ f[0] = 0
        /\ \A n \in 1 .. k : f[n] = f[n - 1] + Size(start[n])
  BY <1>1, <1>m
<1>3. PICK g \in [0 .. N -> Nat] :
        /\ Total(items) = g[N] /\ g[0] = 0
        /\ \A n \in 1 .. N : g[n] = g[n - 1] + Size(items[n])
  BY TotalStepByStep DEF N
<1>s. \A n \in 1 .. N : Size(items[n]) \in Nat
  BY SizeIsNat DEF N
<1> DEFINE T == {n \in 0 .. N : (n <= k => f[n] = g[n]) /\ (k <= n => g[k] <= g[n])}
<1>4. 0 \in T
  BY <1>1, <1>2, <1>3
<1>5. ASSUME NEW n \in 1 .. N, n - 1 \in T PROVE n \in T
  <2>0. n \in Int /\ 1 <= n /\ n <= N /\ n \in 0 .. N /\ n - 1 \in 0 .. N
    BY <1>1
  <2>1. g[n] = g[n - 1] + Size(items[n]) /\ g[n - 1] \in Nat /\ g[n] \in Nat /\ Size(items[n]) \in Nat
    BY <1>3, <1>s, <2>0
  <2>2. /\ n - 1 <= k => f[n - 1] = g[n - 1]
        /\ k <= n - 1 => g[k] <= g[n - 1]
    BY <1>5
  <2>3. ASSUME n <= k PROVE f[n] = g[n]
    <3>1. n \in 1 .. k /\ n - 1 <= k
      BY <1>1, <2>0, <2>3
    <3>2. f[n - 1] = g[n - 1] /\ start[n] = items[n]
      BY <1>1, <2>2, <3>1
    <3>3. f[n] = f[n - 1] + Size(start[n])
      BY <1>2, <3>1
    <3> QED BY <2>1, <3>2, <3>3, Zenon
  <2>4. ASSUME k <= n PROVE g[k] <= g[n]
    <3>1. g[k] \in Nat
      BY <1>1, <1>3
    <3>2. CASE k = n
      BY <3>1, <3>2
    <3>3. CASE k <= n - 1
      BY <2>1, <2>2, <3>1, <3>3
    <3> QED BY <1>1, <2>0, <2>4, <3>2, <3>3
  <2> QED BY <2>0, <2>3, <2>4
<1> HIDE DEF T
<1>6. \A n \in 0 .. N : n \in T
  BY <1>1, <1>4, <1>5, EachStep
<1>7. f[k] = g[k] /\ g[k] <= g[N]
  <2>1. k \in 0 .. N /\ N \in 0 .. N
    BY <1>1
  <2>2. k \in T /\ N \in T
    BY <1>6, <2>1
  <2> QED BY <1>1, <2>2 DEF T
<1>8. f[k] \in Nat /\ g[N] \in Nat
  BY <1>1, <1>2, <1>3
<1> QED BY <1>1, <1>2, <1>3, <1>7, <1>8 DEF N, start

(* The order of the items (relevance, then the newest) is strict and       *)
(* total.                                                                  *)
LEMMA BeforeIsAnOrder ==
  /\ \A i \in FieldItems : ~Before(i, i)
  /\ \A i, j \in FieldItems : i # j => Before(i, j) \/ Before(j, i)
  /\ \A i, j, k \in FieldItems : Before(i, j) /\ Before(j, k) => Before(i, k)
<1>1. \A i \in FieldItems : Relevance[i] \in Nat /\ Newer[i] \in Nat
  BY PacketAssumption
<1>2. \A i, j \in FieldItems : Newer[i] = Newer[j] => i = j
  BY PacketAssumption
<1> QED BY <1>1, <1>2 DEF Before

(* s lists the items of S in their order.                                  *)
Ordered(s, S) ==
  /\ s \in [1 .. Cardinality(S) -> S]
  /\ \A m, n \in 1 .. Cardinality(S) : m < n => Before(s[m], s[n])

(* An item can be put in its place among those that are in order. *)
LEMMA PutInOrder ==
  ASSUME NEW S \in SUBSET FieldItems, IsFiniteSet(S), NEW x \in FieldItems, x \notin S,
         NEW s, Ordered(s, S)
  PROVE  \E t : Ordered(t, S \cup {x})
<1> DEFINE N == Cardinality(S)
           Later == {k \in 1 .. N + 1 : k = N + 1 \/ Before(x, s[k])}
<1>1. N \in Nat /\ Cardinality(S \cup {x}) = N + 1
  BY FS_CardinalityType, FS_AddElement
<1>2. /\ \A i \in 1 .. N : s[i] \in S /\ s[i] \in FieldItems /\ s[i] # x
      /\ \A m, n \in 1 .. N : m < n => Before(s[m], s[n])
  BY DEF Ordered
<1> HIDE DEF N
<1>3. Later \in SUBSET Nat /\ Later # {}
  <2>1. N + 1 \in Later
    BY <1>1
  <2> QED BY <1>1, <2>1
<1> HIDE DEF Later
<1>4. PICK k \in Later : \A l \in Later : ~(l < k)
  BY <1>3, LeastNatural
<1>5. k \in Int /\ 1 <= k /\ k <= N + 1 /\ (k = N + 1 \/ Before(x, s[k]))
  BY <1>1, <1>4 DEF Later
<1>6. ASSUME NEW i \in 1 .. N, i < k PROVE Before(s[i], x)
  <2>1. i \notin Later
    BY <1>4, <1>6
  <2>2. ~Before(x, s[i])
    BY <1>1, <2>1 DEF Later
  <2> QED BY <1>2, <2>2, BeforeIsAnOrder
<1>7. ASSUME NEW i \in 1 .. N, k <= i PROVE Before(x, s[i])
  <2>0. i \in Int /\ 1 <= i /\ i <= N
    BY <1>1
  <2>1. k \in 1 .. N /\ Before(x, s[k])
    BY <1>1, <1>5, <1>7, <2>0
  <2>2. CASE k = i
    BY <2>1, <2>2
  <2>3. CASE k < i
    BY <1>2, <2>1, <2>3, BeforeIsAnOrder
  <2> QED BY <1>5, <1>7, <2>0, <2>2, <2>3
<1> DEFINE t == [i \in 1 .. N + 1 |-> IF i < k THEN s[i] ELSE IF i = k THEN x ELSE s[i - 1]]
<1>8. \A i \in 1 .. N + 1 :
        /\ i \in Int /\ 1 <= i /\ i <= N + 1
        /\ i < k => i \in 1 .. N
        /\ i > k => i - 1 \in 1 .. N
  BY <1>1, <1>5
<1>9. \A i \in 1 .. N + 1 :
        /\ i < k => t[i] = s[i]
        /\ i = k => t[i] = x
        /\ i > k => t[i] = s[i - 1]
  BY <1>5, <1>8
<1>10. t \in [1 .. N + 1 -> S \cup {x}]
  <2>1. \A i \in 1 .. N + 1 : t[i] \in S \cup {x}
    BY <1>2, <1>5, <1>8, <1>9
  <2>2. t = [i \in 1 .. N + 1 |-> t[i]]
    OBVIOUS
  <2> HIDE DEF t
  <2> QED BY <2>1, <2>2
<1> HIDE DEF t
<1>11. ASSUME NEW m \in 1 .. N + 1, NEW n \in 1 .. N + 1, m < n
       PROVE  Before(t[m], t[n])
  <2>0. /\ m \in Int /\ n \in Int
        /\ m < k \/ m = k \/ m > k
        /\ n < k \/ n = k \/ n > k
    BY <1>5, <1>8
  <2>1. CASE n < k
    <3>1. m < k /\ m \in 1 .. N /\ n \in 1 .. N
      BY <1>5, <1>8, <1>11, <2>0, <2>1
    <3> QED BY <1>2, <1>9, <1>11, <2>1, <3>1
  <2>2. CASE n = k
    <3>1. m < k /\ m \in 1 .. N
      BY <1>8, <1>11, <2>2
    <3> QED BY <1>6, <1>9, <2>2, <3>1
  <2>3. CASE n > k /\ m < k
    <3>1. m \in 1 .. N /\ n - 1 \in 1 .. N /\ m < n - 1
      BY <1>5, <1>8, <2>0, <2>3
    <3> QED BY <1>2, <1>9, <2>3, <3>1
  <2>4. CASE n > k /\ m = k
    <3>1. n - 1 \in 1 .. N /\ k <= n - 1
      BY <1>5, <1>8, <2>0, <2>4
    <3> QED BY <1>7, <1>9, <2>4, <3>1
  <2>5. CASE m > k
    <3>1. n > k /\ n - 1 \in 1 .. N /\ m - 1 \in 1 .. N /\ m - 1 < n - 1
      BY <1>5, <1>8, <1>11, <2>0, <2>5
    <3> QED BY <1>2, <1>9, <2>5, <3>1
  <2> QED BY <1>5, <1>11, <2>0, <2>1, <2>2, <2>3, <2>4, <2>5
<1>12. Ordered(t, S \cup {x})
  BY <1>1, <1>10, <1>11 DEF Ordered
<1> QED BY <1>12

(* The items of a finite source have their order. *)
LEMMA CanBeOrdered ==
  ASSUME NEW N \in Nat, NEW S \in SUBSET FieldItems, IsFiniteSet(S), Cardinality(S) = N
  PROVE  \E s : Ordered(s, S)
<1> DEFINE Sortable(n) == \A R \in SUBSET FieldItems :
             IsFiniteSet(R) /\ Cardinality(R) = n => \E s : Ordered(s, R)
           T == {n \in 0 .. N : Sortable(n)}
<1>1. 0 \in T
  <2>1. ASSUME NEW R \in SUBSET FieldItems, IsFiniteSet(R), Cardinality(R) = 0
        PROVE  \E s : Ordered(s, R)
    <3>1. R = {}
      BY <2>1, FS_EmptySet
    <3>2. [i \in 1 .. 0 |-> i] \in [1 .. 0 -> R] /\ \A m \in 1 .. 0 : FALSE
      OBVIOUS
    <3>3. Ordered([i \in 1 .. 0 |-> i], R)
      BY <2>1, <3>2 DEF Ordered
    <3> QED BY <3>3
  <2> QED BY <2>1
<1>2. ASSUME NEW n \in 1 .. N, n - 1 \in T PROVE n \in T
  <2>1. ASSUME NEW R \in SUBSET FieldItems, IsFiniteSet(R), Cardinality(R) = n
        PROVE  \E s : Ordered(s, R)
    <3>1. R # {}
      BY <2>1, FS_EmptySet
    <3>2. PICK x \in R : TRUE
      BY <3>1
    <3> DEFINE Q == R \ {x}
    <3>3. IsFiniteSet(Q) /\ Cardinality(Q) = n - 1 /\ Q \cup {x} = R /\ x \notin Q
      BY <2>1, <3>2, FS_RemoveElement
    <3>4. Q \in SUBSET FieldItems /\ x \in FieldItems
      OBVIOUS
    <3> HIDE DEF Q
    <3>5. PICK s : Ordered(s, Q)
      BY <1>2, <3>3, <3>4
    <3>6. \E t : Ordered(t, Q \cup {x})
      BY <3>3, <3>4, <3>5, PutInOrder
    <3> QED BY <3>3, <3>6
  <2> QED BY <2>1
<1> HIDE DEF T
<1>3. N \in T
  BY <1>1, <1>2, EachStep
<1> QED BY <1>3 DEF T

(* What the model sorts a source into is its items, each once and in       *)
(* order.                                                                  *)
LEMMA InOrderIsOrdered ==
  ASSUME NEW S \in SUBSET FieldItems, IsFiniteSet(S)
  PROVE  /\ Cardinality(S) \in Nat
         /\ InOrder(S) \in Seq(FieldItems) /\ Len(InOrder(S)) = Cardinality(S)
         /\ \A m, n \in 1 .. Cardinality(S) : m < n => Before(InOrder(S)[m], InOrder(S)[n])
         /\ \A n \in 1 .. Cardinality(S) : InOrder(S)[n] \in S
         /\ \A i \in S : \E n \in 1 .. Cardinality(S) : InOrder(S)[n] = i
<1> DEFINE N == Cardinality(S)
           s == InOrder(S)
           Placed == {s[n] : n \in 1 .. N}
<1>1. N \in Nat
  BY FS_CardinalityType
<1>2. \E t : Ordered(t, S)
  BY <1>1, CanBeOrdered
<1>3. Ordered(s, S)
  BY <1>2 DEF Ordered, InOrder
<1>4. s \in [1 .. N -> S] /\ \A m, n \in 1 .. N : m < n => Before(s[m], s[n])
  BY <1>3 DEF Ordered
<1> HIDE DEF N, s
<1>5. \A m, n \in 1 .. N : m # n => s[m] # s[n]
  <2> SUFFICES ASSUME NEW m \in 1 .. N, NEW n \in 1 .. N, m # n, s[m] = s[n] PROVE FALSE
    OBVIOUS
  <2>1. m < n \/ n < m
    BY <1>1
  <2> QED BY <1>4, <2>1, BeforeIsAnOrder
<1>6. s \in Bijection(1 .. N, Placed)
  BY <1>4, <1>5 DEF Bijection, Injection, Surjection, IsInjective
<1>7. IsFiniteSet(1 .. N) /\ Cardinality(1 .. N) = N
  BY <1>1, FS_Interval
<1>8. IsFiniteSet(Placed) /\ Cardinality(Placed) = N
  BY <1>6, <1>7, FS_Bijection DEF ExistsBijection
<1>9. Placed = S
  <2>1. Placed \subseteq S
    BY <1>4
  <2> HIDE DEF Placed
  <2> QED BY <1>8, <2>1, FS_Subset DEF N
<1>10. s \in Seq(FieldItems) /\ Len(s) = N
  BY <1>1, <1>4
<1> QED BY <1>1, <1>4, <1>9, <1>10 DEF s, N

(* Admitting an item leaves a sequence of items.                           *)
LEMMA AdmitsOneOrNone ==
  ASSUME NEW items \in Seq(FieldItems), NEW i \in FieldItems
  PROVE  AdmitItem(items, i) \in Seq(FieldItems)
BY DEF AdmitItem

(* The items of a packet are admitted one after the other, in their order. *)
LEMMA ItemsStepByStep ==
  ASSUME NEW S, NEW order \in Seq(FieldItems), order = InOrder(S)
  PROVE  \E f \in [0 .. Len(order) -> Seq(FieldItems)] :
           /\ BoundItems(S) = f[Len(order)] /\ f[0] = <<>>
           /\ \A n \in 1 .. Len(order) : f[n] = AdmitItem(f[n - 1], order[n])
<1> DEFINE N == Len(order)
           Values == Seq(FieldItems)
           F == [x \in Values \X (1 .. N) |-> AdmitItem(x[1], order[x[2]])]
           ByStep(f) == [n \in 0 .. N |-> IF n = 0 THEN <<>> ELSE AdmitItem(f[n - 1], order[n])]
           upto == CHOOSE f : f = ByStep(f)
<1>0. N \in Nat /\ <<>> \in Values /\ \A n \in 1 .. N : order[n] \in FieldItems
  OBVIOUS
<1>1. F \in [Values \X (1 .. N) -> Values]
  <2> HIDE DEF N, Values
  <2>1. \A x \in Values \X (1 .. N) : x[1] \in Values /\ x[2] \in 1 .. N
    OBVIOUS
  <2>2. \A x \in Values \X (1 .. N) : AdmitItem(x[1], order[x[2]]) \in Values
    BY <1>0, <2>1, AdmitsOneOrNone DEF Values
  <2> QED BY <2>2
<1>2. BoundItems(S) = upto[N]
  BY DEF BoundItems
<1>3. \A a \in Values, n \in 1 .. N : F[<<a, n>>] = AdmitItem(a, order[n])
  OBVIOUS
<1> HIDE DEF F, N, upto, Values
<1>g. \E g : MadeInSteps(g, Values, <<>>, N, F)
  BY <1>0, <1>1, StepByStep
<1>4. PICK g \in [0 .. N -> Values] :
        g[0] = <<>> /\ \A n \in 1 .. N : g[n] = F[<<g[n - 1], n>>]
  BY <1>g DEF MadeInSteps
<1>5. \A n \in 1 .. N : n # 0 /\ n \in 0 .. N /\ n - 1 \in 0 .. N /\ g[n - 1] \in Values
  BY <1>0, <1>4
<1>6. \A n \in 0 .. N : g[n] = IF n = 0 THEN <<>> ELSE AdmitItem(g[n - 1], order[n])
  <2>1. \A n \in 0 .. N : n = 0 \/ n \in 1 .. N
    BY <1>0
  <2> QED BY <1>0, <1>3, <1>4, <1>5, <2>1
<1>7. g = [n \in 0 .. N |-> g[n]]
  BY <1>4
<1>8. g = ByStep(g)
  BY <1>6, <1>7, Zenon
<1>9. upto = ByStep(upto)
  BY <1>8, Zenon DEF upto
<1>10. upto[0] = <<>> /\ \A n \in 1 .. N : upto[n] = AdmitItem(upto[n - 1], order[n])
  <2>1. \A n \in 0 .. N : upto[n] = IF n = 0 THEN <<>> ELSE AdmitItem(upto[n - 1], order[n])
    BY <1>9
  <2> QED BY <1>0, <1>5, <2>1
<1>12. upto = [n \in 0 .. N |-> upto[n]]
  BY <1>9
<1> HIDE DEF ByStep
<1>11. \A n \in 0 .. N : upto[n] \in Values
  <2> DEFINE T == {n \in 0 .. N : upto[n] \in Values}
  <2>1. 0 \in T
    BY <1>0, <1>10
  <2>2. \A n \in 1 .. N : n - 1 \in T => n \in T
    BY <1>0, <1>5, <1>10, AdmitsOneOrNone DEF Values
  <2> HIDE DEF T
  <2>3. \A n \in 0 .. N : n \in T
    BY <1>0, <2>1, <2>2, EachStep
  <2> QED BY <2>3 DEF T
<1>13. upto \in [0 .. N -> Values]
  BY <1>11, <1>12
<1> QED BY <1>2, <1>10, <1>13 DEF N, Values

(* The total of no item is nothing.                                        *)
LEMMA NothingIsNothing == Total(<<>>) = 0
<1>1. <<>> \in Seq(FieldItems) /\ Len(<<>>) = 0
  OBVIOUS
<1>2. PICK f \in [0 .. Len(<<>>) -> Nat] : Total(<<>>) = f[Len(<<>>)] /\ f[0] = 0
  BY <1>1, TotalStepByStep
<1> QED BY <1>1, <1>2

(* The item i is not among those chosen.                                   *)
Left(items, i) == \A k \in 1 .. Len(items) : items[k] # i

(* Of the first n items in order, those chosen: they keep the order and    *)
(* the limits.                                                             *)
ChosenWithin(order, n, items) ==
  /\ items \in Seq(FieldItems) /\ Len(items) <= MaxItems /\ Total(items) <= FieldRoom
  /\ \A k \in 1 .. Len(items) : Fits(items[k]) /\ \E m \in 1 .. n : items[k] = order[m]
  /\ \A k, l \in 1 .. Len(items) : k < l => Before(items[k], items[l])
(* An item that was left had no room, or is larger than every later one    *)
(* that was chosen, and the first that fits is chosen.                     *)
ChosenByRank(order, n, items) ==
  /\ \A m \in 1 .. n : Fits(order[m]) /\ Left(items, order[m]) =>
       /\ Len(items) = MaxItems \/ Total(items) + Size(order[m]) > FieldRoom
       /\ \A k \in 1 .. Len(items) :
            Before(order[m], items[k]) => Size(order[m]) > Size(items[k])
  /\ \A m \in 1 .. n : Fits(order[m]) /\ Size(order[m]) <= FieldRoom =>
       items # <<>> /\ (order[m] = items[1] \/ Before(items[1], order[m]))
(* The invariant of boundCoordinationItems after n items.                  *)
Chosen(order, n, items) == ChosenWithin(order, n, items) /\ ChosenByRank(order, n, items)

(* One item more keeps what is said of those chosen, whether it is         *)
(* admitted or not.                                                        *)
LEMMA ChooseOneMore ==
  ASSUME NEW order \in Seq(FieldItems), NEW n \in 1 .. Len(order), NEW items,
         \A k, l \in 1 .. Len(order) : k < l => Before(order[k], order[l]),
         Chosen(order, n - 1, items)
  PROVE  Chosen(order, n, AdmitItem(items, order[n]))
<1> DEFINE x == order[n]
           more == Append(items, x)
<1>1. /\ n \in Int /\ 1 <= n /\ x \in FieldItems /\ Size(x) \in Nat
      /\ \A m \in 1 .. n : m \in 1 .. (n - 1) \/ m = n
      /\ \A m \in 1 .. (n - 1) : m \in 1 .. n /\ order[m] \in FieldItems /\ Before(order[m], x)
  <2>1. Len(order) \in Nat /\ n \in Int /\ 1 <= n /\ n <= Len(order)
    OBVIOUS
  <2>2. \A m \in 1 .. (n - 1) : m \in 1 .. Len(order) /\ m < n
    BY <2>1
  <2> QED BY <2>1, <2>2, SizeIsNat
<1>2. /\ items \in Seq(FieldItems) /\ Len(items) \in Nat
      /\ \A k \in 1 .. Len(items) : items[k] \in FieldItems /\ Size(items[k]) \in Nat
      /\ \A k \in 1 .. Len(items) : Before(items[k], x)
      /\ Left(items, x)
  <2>1. items \in Seq(FieldItems) /\ Len(items) \in Nat
    BY DEF Chosen, ChosenWithin
  <2>2. \A k \in 1 .. Len(items) : items[k] \in FieldItems /\ Size(items[k]) \in Nat
    BY <2>1, SizeIsNat
  <2>3. \A k \in 1 .. Len(items) : Before(items[k], x)
    BY <1>1, Zenon DEF Chosen, ChosenWithin
  <2>4. Left(items, x)
    BY <1>1, <2>3, BeforeIsAnOrder DEF Left
  <2> QED BY <2>1, <2>2, <2>3, <2>4
<1>3. /\ MaxItems \in Nat /\ MaxItems >= 1 /\ FieldRoom \in Nat
      /\ Total(items) \in Nat /\ Total(more) = Total(items) + Size(x)
      /\ Len(items) <= MaxItems /\ Total(items) <= FieldRoom
  <2>1. MaxItems \in Nat /\ MaxItems >= 1 /\ FieldRoom \in Nat
    BY PacketAssumption
  <2>2. Total(items) \in Nat /\ Total(more) = Total(items) + Size(x)
    BY <1>1, <1>2, TotalOfAppend
  <2>3. Len(items) <= MaxItems /\ Total(items) <= FieldRoom
    BY DEF Chosen, ChosenWithin
  <2> QED BY <2>1, <2>2, <2>3
<1> DEFINE hasRoom == Len(items) < MaxItems /\ Fits(x) /\ Total(more) <= FieldRoom
<1>4. CASE ~hasRoom
  <2>1. AdmitItem(items, x) = items
    BY <1>4 DEF AdmitItem
  <2> HIDE DEF x, more
  <2>2. ChosenWithin(order, n, items)
    BY <1>1, Zenon DEF Chosen, ChosenWithin
  <2>3. ASSUME Fits(x)
        PROVE  Len(items) = MaxItems \/ Total(items) + Size(x) > FieldRoom
    BY <1>1, <1>2, <1>3, <1>4, <2>3
  <2>4. \A k \in 1 .. Len(items) : ~Before(x, items[k])
    <3> SUFFICES ASSUME NEW k \in 1 .. Len(items), Before(x, items[k]) PROVE FALSE
      OBVIOUS
    <3>1. Before(x, x)
      BY <1>1, <1>2, BeforeIsAnOrder
    <3> QED BY <1>1, <3>1, BeforeIsAnOrder
  <2>5. ASSUME Fits(x), Size(x) <= FieldRoom
        PROVE  items # <<>> /\ Before(items[1], x)
    <3>1. items # <<>>
      <4> SUFFICES ASSUME items = <<>> PROVE FALSE
        OBVIOUS
      <4>1. Total(items) = 0 /\ Len(items) = 0
        BY NothingIsNothing
      <4> QED BY <1>1, <1>3, <2>3, <2>5, <4>1
    <3>2. 1 \in 1 .. Len(items)
      BY <1>2, <3>1
    <3> QED BY <1>2, <3>1, <3>2
  <2>6. x = order[n]
    BY DEF x
  <2>7. ASSUME NEW m \in 1 .. n, Fits(order[m]), Left(items, order[m])
        PROVE  /\ Len(items) = MaxItems \/ Total(items) + Size(order[m]) > FieldRoom
               /\ \A k \in 1 .. Len(items) :
                    Before(order[m], items[k]) => Size(order[m]) > Size(items[k])
    <3>1. CASE m \in 1 .. (n - 1)
      BY <2>7, <3>1, Zenon DEF Chosen, ChosenByRank
    <3>2. CASE m = n
      BY <2>3, <2>4, <2>6, <2>7, <3>2
    <3> QED BY <1>1, <3>1, <3>2
  <2>8. ASSUME NEW m \in 1 .. n, Fits(order[m]), Size(order[m]) <= FieldRoom
        PROVE  items # <<>> /\ (order[m] = items[1] \/ Before(items[1], order[m]))
    <3>1. CASE m \in 1 .. (n - 1)
      BY <2>8, <3>1, Zenon DEF Chosen, ChosenByRank
    <3>2. CASE m = n
      BY <2>5, <2>6, <2>8, <3>2
    <3> QED BY <1>1, <3>1, <3>2
  <2>9. ChosenByRank(order, n, items)
    BY <2>7, <2>8, Zenon DEF ChosenByRank
  <2> QED BY <2>1, <2>2, <2>6, <2>9 DEF Chosen
<1>5. CASE hasRoom
  <2>1. AdmitItem(items, x) = more
    BY <1>5 DEF AdmitItem
  <2>2. /\ more \in Seq(FieldItems) /\ Len(more) = Len(items) + 1 /\ more # <<>>
        /\ more[Len(more)] = x /\ Len(more) \in 1 .. Len(more)
        /\ \A k \in 1 .. Len(items) : k \in 1 .. Len(more) /\ more[k] = items[k]
        /\ \A k \in 1 .. Len(more) : k \in Int /\ (k \in 1 .. Len(items) \/ k = Len(more))
    BY <1>1, <1>2
  <2>3. x = order[n]
    OBVIOUS
  <2>4. Fits(x) /\ Len(more) <= MaxItems /\ Total(more) <= FieldRoom
    BY <1>2, <1>3, <1>5, <2>2
  <2>5. Len(items) < MaxItems
    BY <1>5
  <2> HIDE DEF x, more
  <2>6. ASSUME NEW k \in 1 .. Len(more)
        PROVE  Fits(more[k]) /\ \E m \in 1 .. n : more[k] = order[m]
    <3>1. CASE k \in 1 .. Len(items)
      <4>1. Fits(items[k]) /\ \E m \in 1 .. (n - 1) : items[k] = order[m]
        BY <3>1, Zenon DEF Chosen, ChosenWithin
      <4> QED BY <1>1, <2>2, <3>1, <4>1
    <3>2. CASE k = Len(more)
      <4>1. n \in 1 .. n
        BY <1>1
      <4> QED BY <2>2, <2>3, <2>4, <3>2, <4>1
    <3> QED BY <2>2, <3>1, <3>2
  <2>7. ASSUME NEW k \in 1 .. Len(more), NEW l \in 1 .. Len(more), k < l
        PROVE  Before(more[k], more[l])
    <3>1. k \in 1 .. Len(items)
      BY <1>2, <2>2, <2>7
    <3>2. CASE l \in 1 .. Len(items)
      <4>1. Before(items[k], items[l])
        BY <2>7, <3>1, <3>2, Zenon DEF Chosen, ChosenWithin
      <4> QED BY <2>2, <3>1, <3>2, <4>1
    <3>3. CASE l = Len(more)
      BY <1>2, <2>2, <3>1, <3>3
    <3> QED BY <2>2, <3>2, <3>3
  <2>8. ChosenWithin(order, n, more)
    BY <2>2, <2>4, <2>6, <2>7, Zenon DEF ChosenWithin
  <2>9. ASSUME NEW m \in 1 .. n, Fits(order[m]), Left(more, order[m])
        PROVE  /\ Len(more) = MaxItems \/ Total(more) + Size(order[m]) > FieldRoom
               /\ \A k \in 1 .. Len(more) :
                    Before(order[m], more[k]) => Size(order[m]) > Size(more[k])
    <3>1. m # n
      BY <2>2, <2>3, <2>9 DEF Left
    <3>2. m \in 1 .. (n - 1) /\ Size(order[m]) \in Nat
      BY <1>1, <3>1, SizeIsNat
    <3>3. Left(items, order[m])
      BY <2>2, <2>9 DEF Left
    <3>4. /\ Len(items) = MaxItems \/ Total(items) + Size(order[m]) > FieldRoom
          /\ \A k \in 1 .. Len(items) :
               Before(order[m], items[k]) => Size(order[m]) > Size(items[k])
      BY <2>9, <3>2, <3>3, Zenon DEF Chosen, ChosenByRank
    <3>5. Total(items) + Size(order[m]) > FieldRoom
      BY <1>2, <1>3, <2>5, <3>4
    <3>6. Total(more) + Size(order[m]) > FieldRoom /\ Size(order[m]) > Size(x)
      BY <1>1, <1>3, <2>4, <3>2, <3>5
    <3>7. ASSUME NEW k \in 1 .. Len(more), Before(order[m], more[k])
          PROVE  Size(order[m]) > Size(more[k])
      BY <2>2, <3>4, <3>6, <3>7
    <3> QED BY <3>6, <3>7
  <2>10. ASSUME NEW m \in 1 .. n, Fits(order[m]), Size(order[m]) <= FieldRoom
         PROVE  more # <<>> /\ (order[m] = more[1] \/ Before(more[1], order[m]))
    <3>1. CASE items = <<>>
      <4>1. Len(more) = 1 /\ more[1] = x
        BY <2>2, <3>1
      <4>2. m = n
        <5>1. m \in 1 .. (n - 1) => items # <<>>
          BY <2>10, Zenon DEF Chosen, ChosenByRank
        <5> QED BY <1>1, <3>1, <5>1
      <4> QED BY <2>2, <2>3, <4>1, <4>2
    <3>2. CASE items # <<>>
      <4>1. 1 \in 1 .. Len(items)
        BY <1>2, <3>2
      <4>2. more[1] = items[1] /\ Before(items[1], x)
        BY <1>2, <2>2, <4>1
      <4>3. m \in 1 .. (n - 1) => order[m] = items[1] \/ Before(items[1], order[m])
        BY <2>10, Zenon DEF Chosen, ChosenByRank
      <4> QED BY <1>1, <2>2, <2>3, <4>2, <4>3
    <3> QED BY <3>1, <3>2
  <2>11. ChosenByRank(order, n, more)
    BY <2>9, <2>10, Zenon DEF ChosenByRank
  <2> QED BY <2>1, <2>3, <2>8, <2>11 DEF Chosen
<1> QED BY <1>4, <1>5

(* What boundCoordinationItems returns is chosen of the whole source.      *)
LEMMA BoundItemsAreChosen ==
  ASSUME NEW S \in SUBSET FieldItems, IsFiniteSet(S)
  PROVE  Chosen(InOrder(S), Cardinality(S), BoundItems(S))
<1> DEFINE order == InOrder(S)
           N == Len(order)
<1>1. /\ order \in Seq(FieldItems) /\ N = Cardinality(S) /\ N \in Nat
      /\ \A k, l \in 1 .. N : k < l => Before(order[k], order[l])
  BY InOrderIsOrdered
<1>2. PICK f \in [0 .. Len(order) -> Seq(FieldItems)] :
        /\ BoundItems(S) = f[Len(order)] /\ f[0] = <<>>
        /\ \A n \in 1 .. Len(order) : f[n] = AdmitItem(f[n - 1], order[n])
  BY <1>1, ItemsStepByStep
<1>3. Chosen(order, 0, <<>>)
  <2>1. <<>> \in Seq(FieldItems) /\ Len(<<>>) = 0 /\ Total(<<>>) = 0
    BY NothingIsNothing
  <2>2. 0 <= MaxItems /\ 0 <= FieldRoom /\ \A m \in 1 .. 0 : FALSE
    BY PacketAssumption
  <2>3. ChosenWithin(order, 0, <<>>)
    BY <2>1, <2>2, Zenon DEF ChosenWithin
  <2>4. ChosenByRank(order, 0, <<>>)
    BY <2>1, <2>2, Zenon DEF ChosenByRank
  <2> QED BY <2>3, <2>4 DEF Chosen
<1> HIDE DEF order, N
<1> DEFINE T == {n \in 0 .. N : Chosen(order, n, f[n])}
<1>4. 0 \in T
  BY <1>1, <1>2, <1>3
<1>5. ASSUME NEW n \in 1 .. N, n - 1 \in T PROVE n \in T
  <2>1. n \in 1 .. Len(order) /\ n \in 0 .. N
    BY <1>1 DEF N
  <2>2. Chosen(order, n - 1, f[n - 1])
    BY <1>5
  <2>3. \A k, l \in 1 .. Len(order) : k < l => Before(order[k], order[l])
    BY <1>1 DEF N
  <2>4. Chosen(order, n, AdmitItem(f[n - 1], order[n]))
    BY <1>1, <2>1, <2>2, <2>3, ChooseOneMore
  <2>5. Chosen(order, n, f[n])
    BY <1>2, <2>1, <2>4
  <2> QED BY <2>1, <2>5
<1> HIDE DEF T
<1>6. N \in T
  <2>1. \A n \in 0 .. N : n \in T
    BY <1>1, <1>4, <1>5, EachStep
  <2>2. N \in 0 .. N
    BY <1>1
  <2> QED BY <2>1, <2>2
<1>7. Chosen(order, N, f[N])
  BY <1>6 DEF T
<1> QED BY <1>1, <1>2, <1>7 DEF order, N

(* What boundCoordinationGoal has given so far.                            *)
Given == [size : Nat, count : Nat, stopped : BOOLEAN]

(* The messages that state the goal stay within their room.                *)
LEMMA GoalsFit ==
  ASSUME NEW gs \in Seq([meta : Nat, text : Nat])
  PROVE  BoundGoal(gs).size \in Nat /\ BoundGoal(gs).size <= GoalRoom
<1> DEFINE N == Len(gs)
           none == [size |-> 0, count |-> 0, stopped |-> FALSE]
           Values == {acc \in Given : acc.size <= GoalRoom}
           F == [x \in Values \X (1 .. N) |-> AdmitGoal(x[1], gs[x[2]])]
           ByStep(f) == [n \in 0 .. N |-> IF n = 0 THEN none ELSE AdmitGoal(f[n - 1], gs[n])]
           given == CHOOSE f : f = ByStep(f)
<1>0. N \in Nat /\ none \in Values /\ \A n \in 1 .. N : gs[n] \in [meta : Nat, text : Nat]
  <2>1. GoalRoom \in Nat /\ 0 <= GoalRoom
    BY PacketAssumption
  <2>2. none \in Given /\ none.size = 0
    BY DEF Given
  <2>3. none \in Values
    BY <2>1, <2>2
  <2> DEFINE G == [meta : Nat, text : Nat]
  <2>4. gs \in Seq(G)
    OBVIOUS
  <2> HIDE DEF none, Values, G
  <2>5. Len(gs) \in Nat /\ \A n \in 1 .. Len(gs) : gs[n] \in G
    BY <2>4
  <2> QED BY <2>3, <2>5 DEF G
<1>a. ASSUME NEW acc \in Values, NEW g \in [meta : Nat, text : Nat]
      PROVE  AdmitGoal(acc, g) \in Values
  <2> DEFINE left == GoalRoom - acc.size
             size == IF g.meta + g.text > left THEN left ELSE g.meta + g.text
  <2>1. /\ acc \in Given /\ acc.size \in Nat /\ acc.size <= GoalRoom /\ acc.count \in Nat
        /\ g.meta \in Nat /\ g.text \in Nat /\ GoalRoom \in Nat
    BY PacketAssumption DEF Given
  <2>2. size \in Nat /\ acc.size + size \in Nat /\ acc.size + size <= GoalRoom
    <3>1. left \in Nat /\ acc.size + left = GoalRoom
      BY <2>1
    <3>2. size \in Nat /\ size <= left
      BY <2>1, <3>1
    <3> HIDE DEF left, size
    <3> QED BY <2>1, <3>1, <3>2
  <2>3. CASE acc.stopped \/ left < LeastGoal
    <3>1. AdmitGoal(acc, g) = [acc EXCEPT !.stopped = TRUE]
      BY <2>3 DEF AdmitGoal
    <3> QED BY <2>1, <3>1 DEF Given
  <2>4. CASE ~(acc.stopped \/ left < LeastGoal) /\ g.meta > left
    <3>1. AdmitGoal(acc, g) = acc
      BY <2>4 DEF AdmitGoal
    <3> QED BY <3>1
  <2>5. CASE ~(acc.stopped \/ left < LeastGoal) /\ ~(g.meta > left)
    <3> DEFINE more == acc.size + size
               next == acc.count + 1
    <3>1. AdmitGoal(acc, g) = [acc EXCEPT !.size = more, !.count = next]
      BY <2>5 DEF AdmitGoal
    <3>2. more \in Nat /\ more <= GoalRoom /\ next \in Nat
      BY <2>1, <2>2
    <3> HIDE DEF more, next
    <3>3. /\ [acc EXCEPT !.size = more, !.count = next] \in Given
          /\ [acc EXCEPT !.size = more, !.count = next].size = more
      BY <2>1, <3>2 DEF Given
    <3> QED BY <3>1, <3>2, <3>3
  <2> QED BY <2>3, <2>4, <2>5
<1>1. F \in [Values \X (1 .. N) -> Values]
  <2> HIDE DEF N, Values
  <2>1. \A x \in Values \X (1 .. N) : x[1] \in Values /\ x[2] \in 1 .. N
    OBVIOUS
  <2>2. \A x \in Values \X (1 .. N) : AdmitGoal(x[1], gs[x[2]]) \in Values
    BY <1>0, <1>a, <2>1
  <2> QED BY <2>2
<1>2. BoundGoal(gs) = given[N]
  BY DEF BoundGoal
<1>3. \A a \in Values, n \in 1 .. N : F[<<a, n>>] = AdmitGoal(a, gs[n])
  OBVIOUS
<1> HIDE DEF F, N, given, Values, none
<1>g. \E g : MadeInSteps(g, Values, none, N, F)
  BY <1>0, <1>1, StepByStep
<1>4. PICK g \in [0 .. N -> Values] :
        g[0] = none /\ \A n \in 1 .. N : g[n] = F[<<g[n - 1], n>>]
  BY <1>g DEF MadeInSteps
<1>5. \A n \in 1 .. N : n # 0 /\ n \in 0 .. N /\ n - 1 \in 0 .. N /\ g[n - 1] \in Values
  BY <1>0, <1>4
<1>6. \A n \in 0 .. N : g[n] = IF n = 0 THEN none ELSE AdmitGoal(g[n - 1], gs[n])
  <2>1. \A n \in 0 .. N : n = 0 \/ n \in 1 .. N
    BY <1>0
  <2> QED BY <1>0, <1>3, <1>4, <1>5, <2>1
<1>7. g = [n \in 0 .. N |-> g[n]]
  BY <1>4
<1>8. g = ByStep(g)
  BY <1>6, <1>7, Zenon
<1>9. given = ByStep(given)
  BY <1>8, Zenon DEF given
<1>10. given[0] = none /\ \A n \in 1 .. N : given[n] = AdmitGoal(given[n - 1], gs[n])
  <2>1. \A n \in 0 .. N : given[n] = IF n = 0 THEN none ELSE AdmitGoal(given[n - 1], gs[n])
    BY <1>9
  <2> QED BY <1>0, <1>5, <2>1
<1> HIDE DEF ByStep
<1> DEFINE T == {n \in 0 .. N : given[n] \in Values}
<1>11. 0 \in T
  BY <1>0, <1>10
<1>12. \A n \in 1 .. N : n - 1 \in T => n \in T
  BY <1>0, <1>5, <1>10, <1>a
<1> HIDE DEF T
<1>13. N \in T
  <2>1. \A n \in 0 .. N : n \in T
    BY <1>0, <1>11, <1>12, EachStep
  <2>2. N \in 0 .. N
    BY <1>0
  <2> QED BY <2>1, <2>2
<1>14. given[N] \in Values
  BY <1>13 DEF T
<1> QED BY <1>2, <1>14 DEF Values, Given

(* A packet of one item is as long as the item and its separator.          *)
LEMMA OneItemRendered ==
  ASSUME NEW items \in Seq(FieldItems), items # <<>>
  PROVE  /\ 1 \in 0 .. Len(items) /\ Size(items[1]) \in Nat
         /\ Rendered(SubSeq(items, 1, 1)) = Size(items[1]) + 1
<1> DEFINE one == SubSeq(items, 1, 1)
<1>1. 1 \in 0 .. Len(items) /\ 1 \in 1 .. 1 /\ items[1] \in FieldItems
  OBVIOUS
<1>2. one \in Seq(FieldItems) /\ Len(one) = 1 /\ one[1] = items[1]
  BY <1>1, TotalOfBeginning
<1> HIDE DEF one
<1>3. PICK f \in [0 .. Len(one) -> Nat] :
        /\ Total(one) = f[Len(one)] /\ f[0] = 0
        /\ \A n \in 1 .. Len(one) : f[n] = f[n - 1] + Size(one[n])
  BY <1>2, TotalStepByStep
<1>4. Size(items[1]) \in Nat
  BY <1>1, SizeIsNat
<1>5. f[1] = f[1 - 1] + Size(items[1])
  BY <1>2, <1>3
<1>6. Total(one) = Size(items[1])
  BY <1>2, <1>3, <1>4, <1>5
<1>7. Rendered(one) = Size(items[1]) + 1
  BY <1>2, <1>6 DEF Rendered
<1> QED BY <1>1, <1>4, <1>7 DEF one

(* The items that are not popped are a beginning of those that were        *)
(* chosen, and there is one of them at least if the first fits.            *)
LEMMA ShortenedIsABeginning ==
  ASSUME NEW items \in Seq(FieldItems), NEW rest \in Nat
  PROVE  \E k \in 0 .. Len(items) :
           /\ Shortened(items, rest) = SubSeq(items, 1, k)
           /\ items # <<>> /\ rest + Size(items[1]) + 1 <= PacketRoom => k >= 1
<1> DEFINE N == Len(items)
           fit == {n \in 0 .. N : rest + Rendered(SubSeq(items, 1, n)) <= PacketRoom}
<1>1. N \in Nat /\ 0 \in 0 .. N /\ SubSeq(items, 1, 0) = <<>>
  OBVIOUS
<1>2. CASE fit = {}
  <2>1. Shortened(items, rest) = SubSeq(items, 1, 0)
    BY <1>1, <1>2 DEF Shortened
  <2>2. ASSUME items # <<>>, rest + Size(items[1]) + 1 <= PacketRoom PROVE 1 \in fit
    BY <2>2, OneItemRendered
  <2> HIDE DEF fit
  <2> QED BY <1>1, <1>2, <2>1, <2>2
<1>3. CASE fit # {}
  <2> DEFINE Dropped == {d \in 0 .. N : N - d \in fit}
  <2>1. Dropped \in SUBSET Nat /\ Dropped # {}
    <3>1. PICK n \in fit : TRUE
      BY <1>3
    <3>2. n \in 0 .. N /\ N - n \in 0 .. N /\ N - (N - n) = n
      BY <1>1
    <3> HIDE DEF fit
    <3>3. N - n \in Dropped
      BY <3>1, <3>2
    <3> QED BY <1>1, <3>3
  <2>2. fit \subseteq 0 .. N
    OBVIOUS
  <2>s. Shortened(items, rest) = SubSeq(items, 1, Max(fit))
    BY <1>3 DEF Shortened
  <2>o. ASSUME items # <<>>, rest + Size(items[1]) + 1 <= PacketRoom PROVE 1 \in fit
    BY <2>o, OneItemRendered
  <2> HIDE DEF fit, Dropped
  <2>3. PICK d \in Dropped : \A e \in Dropped : ~(e < d)
    BY <2>1, LeastNatural
  <2>4. d \in 0 .. N /\ N - d \in fit
    BY <2>3 DEF Dropped
  <2>5. ASSUME NEW n \in fit PROVE N - d >= n
    <3>1. n \in 0 .. N /\ N - n \in 0 .. N /\ N - (N - n) = n
      BY <1>1, <2>2
    <3>2. N - n \in Dropped
      BY <3>1 DEF Dropped
    <3> QED BY <1>1, <2>3, <2>4, <3>1, <3>2
  <2>6. Max(fit) \in fit /\ \A n \in fit : Max(fit) >= n
    <3>1. \E m \in fit : \A n \in fit : m >= n
      BY <2>4, <2>5
    <3> QED BY <3>1 DEF Max
  <2> DEFINE k == Max(fit)
  <2>7. k \in 0 .. N
    BY <2>2, <2>6
  <2>8. items # <<>> /\ rest + Size(items[1]) + 1 <= PacketRoom => k >= 1
    BY <2>6, <2>o
  <2> HIDE DEF k
  <2> QED BY <2>7, <2>8, <2>s DEF k
<1> QED BY <1>2, <1>3

(* What a packet made of a finite source holds. *)
LEMMA PacketsAreHonest ==
  ASSUME NEW S \in SUBSET FieldItems, IsFiniteSet(S),
         NEW gs \in Seq([meta : Nat, text : Nat]), NEW rest \in Nat,
         NEW p, p = SystemPacket(S, gs, rest), p.size <= PacketRoom
  PROVE  IsHonest(p)
<1> DEFINE items == BoundItems(S)
           N == Cardinality(S)
           order == InOrder(S)
           goal == BoundGoal(gs).size
           room == rest + goal
           kept == Shortened(items, room)
<1>1. /\ N \in Nat
      /\ \A m, n \in 1 .. N : m < n => Before(order[m], order[n])
      /\ \A n \in 1 .. N : order[n] \in S
      /\ \A i \in S : \E n \in 1 .. N : order[n] = i
  BY InOrderIsOrdered
<1>2. Chosen(order, N, items)
  BY BoundItemsAreChosen
<1>3. goal \in Nat /\ goal <= GoalRoom /\ room \in Nat
  BY GoalsFit
<1>4. items \in Seq(FieldItems) /\ Len(items) \in Nat
  BY <1>2 DEF Chosen, ChosenWithin
<1>5. PICK k \in 0 .. Len(items) :
        /\ kept = SubSeq(items, 1, k)
        /\ items # <<>> /\ room + Size(items[1]) + 1 <= PacketRoom => k >= 1
  BY <1>3, <1>4, ShortenedIsABeginning
<1>6. /\ kept \in Seq(FieldItems) /\ Len(kept) = k /\ k \in Nat /\ k <= Len(items)
      /\ \A n \in 1 .. k : n \in 1 .. Len(items) /\ kept[n] = items[n]
      /\ Total(kept) \in Nat /\ Total(kept) <= Total(items) /\ Total(items) \in Nat
      /\ DOMAIN kept = 1 .. k
  <2> HIDE DEF items, kept
  <2>1. k \in Nat /\ k <= Len(items) /\ \A n \in 1 .. k : n \in 1 .. Len(items)
    BY <1>4
  <2> DEFINE start == SubSeq(items, 1, k)
  <2>2. /\ start \in Seq(FieldItems) /\ Len(start) = k
        /\ \A n \in 1 .. k : start[n] = items[n]
        /\ Total(start) \in Nat /\ Total(start) <= Total(items) /\ Total(items) \in Nat
    BY <1>4, TotalOfBeginning
  <2>3. kept = start
    BY <1>5
  <2> HIDE DEF start
  <2>4. DOMAIN start = 1 .. k
    BY <2>2
  <2> QED BY <2>1, <2>2, <2>3, <2>4
<1>7. /\ p.source = S /\ p.shown = kept /\ p.ids = kept
      /\ p.goal = goal /\ p.size = room + Rendered(kept)
      /\ p.truncated <=> (Len(kept) # N \/ \E n \in 1 .. Len(kept) : Cut(kept[n]))
  BY DEF SystemPacket, PacketOf
<1> HIDE DEF items, N, order, goal, room, kept
<1> DEFINE shown == ToSet(kept)
<1>8. Rendered(kept) \in Nat /\ p.size - Rendered(kept) = room
  BY <1>3, <1>6, <1>7 DEF Rendered
<1>9. /\ \A n \in 1 .. k : kept[n] \in shown
      /\ \A i \in shown : \E n \in 1 .. k : kept[n] = i
  BY <1>6 DEF ToSet
<1>10. \A n \in 1 .. k : kept[n] \in S /\ Fits(kept[n])
  <2>1. ASSUME NEW n \in 1 .. k PROVE kept[n] \in S /\ Fits(kept[n])
    <3>1. Fits(items[n]) /\ \E m \in 1 .. N : items[n] = order[m]
      BY <1>2, <1>6, Zenon DEF Chosen, ChosenWithin
    <3> QED BY <1>1, <1>6, <3>1
  <2> QED BY <2>1
<1>11. \A m, n \in 1 .. Len(items) : m < n => Before(items[m], items[n])
  BY <1>2, Zenon DEF Chosen, ChosenWithin
<1>12. /\ p.size <= PacketRoom /\ p.goal <= GoalRoom
       /\ p.ids = p.shown /\ Len(p.shown) <= MaxItems
       /\ Total(p.shown) <= FieldRoom
  <2>1. Len(items) <= MaxItems /\ Total(items) <= FieldRoom /\ MaxItems \in Nat /\ FieldRoom \in Nat
    BY <1>2, PacketAssumption DEF Chosen, ChosenWithin
  <2> QED BY <1>3, <1>4, <1>6, <1>7, <2>1
<1>13. ASSUME ~p.truncated
       PROVE  shown = S /\ \A i \in shown : Size(i) = Meta[i] + Text[i]
  <2>1. k = N /\ \A n \in 1 .. k : ~Cut(kept[n])
    BY <1>6, <1>7, <1>13
  <2>2. \A i \in shown : Size(i) = Meta[i] + Text[i]
    BY <1>9, <2>1 DEF Size
  <2>3. \A m, n \in 1 .. k : m # n => kept[m] # kept[n]
    <3> SUFFICES ASSUME NEW m \in 1 .. k, NEW n \in 1 .. k, m # n, kept[m] = kept[n]
                 PROVE  FALSE
      OBVIOUS
    <3>1. m < n \/ n < m
      BY <1>6
    <3>2. items[m] \in FieldItems /\ items[m] = items[n] /\ m \in 1 .. Len(items) /\ n \in 1 .. Len(items)
      BY <1>4, <1>6
    <3> QED BY <1>11, <3>1, <3>2, BeforeIsAnOrder
  <2>4. kept \in Bijection(1 .. k, shown)
    <3>1. kept = [n \in 1 .. k |-> kept[n]]
      BY <1>6
    <3>2. kept \in [1 .. k -> shown]
      BY <1>9, <3>1
    <3> QED BY <1>9, <2>3, <3>2 DEF Bijection, Injection, Surjection, IsInjective
  <2>5. IsFiniteSet(1 .. k) /\ Cardinality(1 .. k) = k
    BY <1>6, FS_Interval
  <2>6. IsFiniteSet(shown) /\ Cardinality(shown) = k
    BY <2>4, <2>5, FS_Bijection DEF ExistsBijection
  <2>7. shown \subseteq S
    BY <1>9, <1>10
  <2> HIDE DEF shown
  <2>8. shown = S
    BY <2>1, <2>6, <2>7, FS_Subset DEF N
  <2> QED BY <2>2, <2>8
<1>14. ASSUME NEW i \in S, NEW j \in shown, Before(i, j), i \notin shown, Fits(i)
       PROVE  Size(i) > Size(j)
  <2>1. PICK m \in 1 .. N : order[m] = i
    BY <1>1
  <2>2. PICK n \in 1 .. k : kept[n] = j
    BY <1>9
  <2>3. n \in 1 .. Len(items) /\ items[n] = j /\ i \in FieldItems /\ j \in FieldItems
    BY <1>6, <1>10, <2>2
  <2>4. Left(items, i)
    <3> SUFFICES ASSUME NEW l \in 1 .. Len(items), items[l] = i PROVE FALSE
      BY DEF Left
    <3>1. l \notin 1 .. k
      BY <1>6, <1>9, <1>14
    <3>2. n < l
      BY <1>4, <1>6, <3>1
    <3>3. Before(j, i)
      BY <1>11, <2>3, <3>2
    <3>4. Before(i, i)
      BY <1>14, <2>3, <3>3, BeforeIsAnOrder
    <3> QED BY <2>3, <3>4, BeforeIsAnOrder
  <2>5. \A l \in 1 .. Len(items) : Before(order[m], items[l]) => Size(order[m]) > Size(items[l])
    BY <1>2, <1>14, <2>1, <2>4, Zenon DEF Chosen, ChosenByRank
  <2> QED BY <1>14, <2>1, <2>3, <2>5
<1>15. ASSUME NEW i \in S, Fits(i), Size(i) <= FieldRoom, room + Size(i) + 1 <= PacketRoom,
              \A j \in S : Fits(j) /\ j # i => Before(i, j)
       PROVE  i \in shown
  <2>1. PICK m \in 1 .. N : order[m] = i
    BY <1>1
  <2>2. items # <<>> /\ (i = items[1] \/ Before(items[1], i))
    <3>1. items # <<>> /\ (order[m] = items[1] \/ Before(items[1], order[m]))
      BY <1>2, <1>15, <2>1, Zenon DEF Chosen, ChosenByRank
    <3> QED BY <2>1, <3>1
  <2>3. 1 \in 1 .. Len(items) /\ items[1] \in FieldItems /\ i \in FieldItems
    BY <1>4, <2>2
  <2>4. Fits(items[1]) /\ items[1] \in S
    <3>1. Fits(items[1]) /\ \E n \in 1 .. N : items[1] = order[n]
      BY <1>2, <2>3, Zenon DEF Chosen, ChosenWithin
    <3> QED BY <1>1, <3>1
  <2>5. i = items[1]
    <3> SUFFICES ASSUME i # items[1] PROVE FALSE
      OBVIOUS
    <3>1. Before(i, items[1]) /\ Before(items[1], i)
      BY <1>15, <2>2, <2>4
    <3> QED BY <2>3, <3>1, BeforeIsAnOrder
  <2>6. k >= 1
    BY <1>5, <1>15, <2>2, <2>5
  <2>7. 1 \in 1 .. k
    BY <1>6, <2>6
  <2> QED BY <1>6, <1>9, <2>5, <2>7
<1> HIDE DEF shown
<1>16. IsHonest(p)
  BY <1>7, <1>8, <1>12, <1>13, <1>14, <1>15 DEF IsHonest, shown
<1> QED BY <1>16

(* The field is finite, and a packet in hand was made of what was unread.  *)
PacketInv ==
  /\ unread \in SUBSET FieldItems /\ IsFiniteSet(unread)
  /\ goals \in Goals \cup {<<>>}
  /\ PacketIsHonest

(* Every action keeps a packet as it is, drops it, or makes it of what is  *)
(* unread now.                                                             *)
LEMMA PacketInvInductive ==
  /\ ContextInit => PacketInv
  /\ PacketInv /\ [ContextNext]_packetVars => PacketInv'
<1>1. ContextInit => PacketInv
  BY FS_EmptySet DEF ContextInit, PacketInv, PacketIsHonest
<1>2. ASSUME PacketInv, [ContextNext]_packetVars PROVE PacketInv'
  <2>1. ASSUME unread' \in SUBSET FieldItems, IsFiniteSet(unread'),
               goals' \in Goals \cup {<<>>}, packet' = packet \/ packet' = NoPacket
        PROVE  PacketInv'
    <3>1. CASE packet' = NoPacket
      BY <2>1, <3>1 DEF PacketInv, PacketIsHonest
    <3>2. CASE packet' = packet
      <4>1. PacketIsHonest'
        BY <1>2, <3>2 DEF PacketInv, PacketIsHonest
      <4> QED BY <2>1, <4>1 DEF PacketInv
    <3> QED BY <2>1, <3>1, <3>2
  <2>2. ASSUME NEW i \in FieldItems, ArriveItem(i) PROVE PacketInv'
    BY <1>2, <2>1, <2>2, FS_AddElement DEF ArriveItem, PacketInv
  <2>3. ASSUME NEW r \in Roles, NEW gs \in Goals, NEW rest \in Rests, StartProduct(r, gs, rest)
        PROVE  PacketInv'
    BY <1>2, <2>1, <2>3 DEF StartProduct, PacketInv
  <2>4. ASSUME NEW r \in Roles, StartClosed(r) PROVE PacketInv'
    BY <1>2, <2>1, <2>4 DEF StartClosed, PacketInv
  <2>5. ASSUME NEW rest \in Rests, PreparePacket(rest) PROVE PacketInv'
    <3> DEFINE G == [meta : Nat, text : Nat]
    <3>p. Goals \subseteq Seq(G) /\ rest \in Nat
      BY PacketAssumption
    <3> HIDE DEF G
    <3>1. /\ goals \in Seq(G) /\ unread \in SUBSET FieldItems /\ IsFiniteSet(unread)
      <4>1. <<>> \in Seq(G)
        OBVIOUS
      <4>2. goals \in Goals \cup {<<>>}
        BY <1>2 DEF PacketInv
      <4>3. goals \in Seq(G)
        BY <3>p, <4>1, <4>2, Zenon
      <4>4. unread \in SUBSET FieldItems /\ IsFiniteSet(unread)
        BY <1>2, Zenon DEF PacketInv
      <4> QED BY <4>3, <4>4, Zenon
    <3>2. /\ packet' = SystemPacket(unread, goals, rest) /\ packet'.size <= PacketRoom
          /\ unread' = unread /\ goals' = goals
      BY <2>5 DEF PreparePacket
    <3>3. PacketIsHonest'
      <4>1. IsHonest(packet')
        BY <3>p, <3>1, <3>2, PacketsAreHonest DEF G
      <4> QED BY <4>1 DEF PacketIsHonest
    <3> QED BY <1>2, <3>2, <3>3 DEF PacketInv
  <2>6. ASSUME NEW rest \in Rests, NEW p \in Publications, Checkpoint(rest, p)
        PROVE  PacketInv'
    BY <1>2, <2>1, <2>6 DEF Checkpoint, PacketInv
  <2>7. CASE AdmitPacket
    <3>1. unread' \in SUBSET unread
      BY <2>7 DEF AdmitPacket
    <3>2. IsFiniteSet(unread')
      BY <1>2, <3>1, FS_Subset DEF PacketInv
    <3> QED BY <1>2, <2>1, <2>7, <3>1, <3>2 DEF AdmitPacket, PacketInv
  <2>8. CASE DiscardPacket
    BY <1>2, <2>1, <2>8 DEF DiscardPacket, PacketInv
  <2>9. ASSUME NEW p \in {1, 2}, EndProduct(p) PROVE PacketInv'
    BY <1>2, <2>1, <2>9 DEF EndProduct, PacketInv
  <2>10. CASE UNCHANGED packetVars
    BY <1>2, <2>1, <2>10 DEF packetVars, PacketInv
  <2> QED
    BY <1>2, <2>2, <2>3, <2>4, <2>5, <2>6, <2>7, <2>8, <2>9, <2>10, Zenon DEF ContextNext
<1> QED BY <1>1, <1>2

(* What a packet shows is within every limit, its receipt names exactly    *)
(* what it shows, it is whole unless it says that it is truncated, what is *)
(* left out is larger than any later item that is shown, and the item that *)
(* comes first is shown if it fits.                                        *)
THEOREM PacketHonest == ContextSpec => []PacketIsHonest
<1>1. PacketInv => PacketIsHonest
  BY DEF PacketInv
<1> QED BY <1>1, PacketInvInductive, PTL DEF ContextSpec

(***************************************************************************)
(* The host.                                                               *)
(***************************************************************************)
(* A behaviour of the host is one of each of its machines.                 *)
LEMMA HostIsItsMachines ==
  HostSpec => /\ ProductSpec /\ NativeSpec /\ ToolsSpec /\ AcpSpec /\ TransportSpec
              /\ PluginSpec /\ InstallSpec /\ CommandSpec /\ ContextSpec /\ ConfigSpec
<1>1. HostInit => /\ ProductInit /\ NativeInit /\ ToolsInit /\ AcpInit /\ TransportInit
                  /\ PluginInit /\ InstallInit /\ CommandInit /\ ContextInit /\ ConfigInit
  BY DEF HostInit
<1>2. ASSUME [HostNext]_allVars
      PROVE  /\ [ProductNext]_productVars /\ [NativeNext]_nativeVars /\ [ToolsNext]_toolsVars
             /\ [AcpNext]_acpVars /\ [TransportNext]_transportVars /\ [PluginNext]_pluginVars
             /\ [InstallNext]_installVars /\ [CommandNext]_commandVars
             /\ [ContextNext]_packetVars /\ [ConfigNext]_configVars
  BY <1>2, Zenon
  DEF allVars, HostNext, MoveRun, MoveNative, MoveTools, MoveAcp, MoveTransport, MovePlugin,
      MoveInstall, MoveCommand, MovePacket, MoveConfig
<1> QED
  BY <1>1, <1>2, PTL
  DEF HostSpec, ProductSpec, NativeSpec, ToolsSpec, AcpSpec, TransportSpec, PluginSpec,
      InstallSpec, CommandSpec, ContextSpec, ConfigSpec

(* After its declared command succeeded a critic is bounded, whichever of  *)
(* the ACP host and the plugin runs it.                                    *)
THEOREM CloseOutBounded == HostSpec => []CloseOutIsBounded
  BY HostIsItsMachines, CriticBounded, PluginBounded, PTL DEF CloseOutIsBounded

(* A request to the ACP agent and a call of the Organum command settle     *)
(* once, with what became of it.                                           *)
THEOREM CallsSettled == HostSpec => []CallsSettleOnce
<1>1. TransportInv => RequestsSettleOnce
  BY DEF TransportInv
<1>2. CommandInv => CommandsSettleOnce
  BY DEF CommandInv
<1> QED
  BY <1>1, <1>2, HostIsItsMachines, TransportInvariance, CommandInvariance, PTL
  DEF CallsSettleOnce

(* A command that stops half way leaves a release whole or its prefix as   *)
(* it was, and a configuration that loads.                                 *)
THEOREM FilesWhole == HostSpec => []FilesAreWhole
<1>1. InstallInv => InstallIsWhole
  BY DEF InstallInv
<1> QED
  BY <1>1, ConfigInvUsable, HostIsItsMachines, InstallInvariance, ConfigInvariance, PTL
  DEF FilesAreWhole

(* What the program says a model was told is what the model was shown: the *)
(* receipt of the plugin, the packet of a turn and the checkpoint that is  *)
(* taken from it.                                                          *)
THEOREM ExposureTrue == HostSpec => []ExposureIsTrue
  BY HostIsItsMachines, ReceiptTrue, PacketHonest, CheckpointKept, PTL
  DEF ExposureIsTrue
=============================================================================
