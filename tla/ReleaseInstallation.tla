------------------------- MODULE ReleaseInstallation -------------------------
(***************************************************************************)
(* The installation of a release under a prefix: a ledger                  *)
(* (install-state.json), the stored releases it registers, and a copy of   *)
(* the active one as the executable.  A command is a sequence of file      *)
(* operations, each of which may fail or be the last before a crash; every *)
(* file is written to a temporary name and renamed, so that it is whole or *)
(* absent.  Nothing locks the prefix: one command runs at a time.          *)
(*                                                                         *)
(* A release stands for its bytes: two releases differ in their digest,    *)
(* and VersionOf is the version each of them carries.                      *)
(***************************************************************************)
EXTENDS Integers, FiniteSets

CONSTANTS
  Releases,        \* the releases there are bundles of
  VersionOf,       \* the version of each
  NoRelease,       \* no release: nothing active, nothing previous
  Unmanaged,       \* bytes that are no release's
  MaxGeneration    \* bound: commands that may replace the executable

ASSUME ReleaseAssumption ==
  /\ NoRelease \notin Releases /\ Unmanaged \notin Releases
  /\ MaxGeneration \in Nat \ {0}

VARIABLES
  installState,    \* the ledger; its generation is 0 when there is none
  executable,      \* what bin/organum-code holds
  stored,          \* of every release: no directory, an empty one, or the artifact
  litter,          \* temporary files a crash left in the managed root
  managed,         \* does the managed root hold anything
  verbRun          \* the command under way

installVars == <<installState, executable, stored, litter, managed, verbRun>>

Verbs == {"install", "upgrade", "rollback", "status", "uninstall"}

NotInstalled ==
  [generation |-> 0, active |-> NoRelease, previous |-> NoRelease, releases |-> {}]

Idle ==
  [verb |-> "status", target |-> NoRelease, pc |-> "idle", archived |-> FALSE, twice |-> FALSE,
   found |-> [state |-> NotInstalled, exe |-> NoRelease, stored |-> [r \in Releases |-> "absent"]]]

(* What a bundle's files may have against them.                            *)
Drifts == {"manifest", "target", "name", "bytes", "mode", "checksum", "changed", "sha256"}

(* A bundle is installable when its manifest, its checksum file and its    *)
(* artifact agree with each other and with the host, and the artifact did  *)
(* not change while it was read.                                           *)
VerifiedBundle(drift) == drift \cap Drifts = {}

(* The stored artifact and the executable are both the active release.     *)
Current(state) == stored[state.active] = "whole" /\ executable = state.active

Installed == installState.generation > 0

(* A first installation adopts nothing: no ledger, no managed root with    *)
(* anything in it, no executable.                                          *)
Fresh == ~Installed /\ ~managed /\ executable = NoRelease

(* One version has one digest for ever.                                    *)
Rebinds(t) == \E r \in installState.releases : r # t /\ VersionOf[r] = VersionOf[t]

(* Only what the ledger registers is in the managed root.                  *)
InventoryIsExact ==
  /\ litter = {}
  /\ \A r \in Releases : stored[r] = IF r \in installState.releases THEN "whole" ELSE "absent"

At(pc) == verbRun.pc = pc
Onward(pc) == verbRun' = [verbRun EXCEPT !.pc = pc]
DiskKept == UNCHANGED <<installState, executable, stored, litter, managed>>

Begin(v, t, drift) ==
  /\ At("idle")
  /\ installState.generation < MaxGeneration \/ v \in {"status", "uninstall"}
  /\ t \in Releases <=> v \in {"install", "upgrade"}
  /\ drift # {} => t \in Releases
  /\ verbRun' = [verb |-> v, target |-> t, archived |-> FALSE, twice |-> FALSE,
                 pc |-> IF VerifiedBundle(drift) THEN "check" ELSE "failed",
                 found |-> [state |-> installState, exe |-> executable, stored |-> stored]]
  /\ DiskKept

(* The refusals of each command, all of them before it writes.             *)
MayProceed ==
  CASE verbRun.verb = "install" -> Fresh
    [] verbRun.verb = "upgrade" -> Installed /\ Current(installState) /\ ~Rebinds(verbRun.target)
    [] verbRun.verb = "rollback" ->
         Installed /\ Current(installState) /\ installState.previous # NoRelease
    [] verbRun.verb = "status" -> Installed => Current(installState)
    [] verbRun.verb = "uninstall" -> Installed /\ Current(installState) /\ InventoryIsExact

FirstStep ==
  CASE verbRun.verb = "install" -> "archive"
    [] verbRun.verb = "upgrade" ->
         IF installState.active = verbRun.target THEN "done" ELSE "archive"
    [] verbRun.verb = "rollback" -> "activate"
    [] verbRun.verb = "status" -> "done"
    [] verbRun.verb = "uninstall" -> "remove"

Check ==
  /\ At("check")
  /\ Onward(IF MayProceed THEN FirstStep ELSE "failed")
  /\ DiskKept

(* A stored artifact is used as it is; otherwise its directory is made and *)
(* the bundle copied into it.                                              *)
Archive ==
  /\ At("archive")
  /\ IF stored[verbRun.target] = "whole"
     THEN Onward("activate") /\ DiskKept
     ELSE /\ Onward("copy")
          /\ managed' = TRUE
          /\ stored' = [stored EXCEPT ![verbRun.target] = "empty"]
          /\ UNCHANGED <<installState, executable, litter>>

CopyArtifact ==
  /\ At("copy")
  /\ stored' = [stored EXCEPT ![verbRun.target] = "whole"]
  /\ verbRun' = [verbRun EXCEPT !.pc = "activate", !.archived = TRUE]
  /\ UNCHANGED <<installState, executable, litter, managed>>

CopyFails == At("copy") /\ Onward("failed") /\ DiskKept

NextActive == IF verbRun.verb = "rollback" THEN installState.previous ELSE verbRun.target

NextState ==
  [generation |-> installState.generation + 1, active |-> NextActive,
   previous |-> installState.active, releases |-> installState.releases \cup {NextActive}]

(* What is installed is verified once more, or found absent, and replaced. *)
Activate ==
  /\ At("activate")
  /\ IF Installed THEN Current(installState) ELSE executable = NoRelease
  /\ executable' = NextActive
  /\ Onward("write")
  /\ UNCHANGED <<installState, stored, litter, managed>>

ActivateFails == At("activate") /\ Onward("cleanup") /\ DiskKept

WriteState ==
  /\ At("write")
  /\ installState' = NextState
  /\ Onward("done")
  /\ UNCHANGED <<executable, stored, litter, managed>>

WriteStateFails == At("write") /\ Onward("restore") /\ DiskKept

(* The ledger that could not be written is followed by the executable.     *)
Restore ==
  /\ At("restore")
  /\ executable' = installState.active
  /\ Onward("cleanup")
  /\ UNCHANGED <<installState, stored, litter, managed>>

RestoreFails ==
  /\ At("restore")
  /\ verbRun' = [verbRun EXCEPT !.pc = "cleanup", !.twice = TRUE]
  /\ DiskKept

(* Only the artifact this command stored is taken back, and its directory  *)
(* stays.                                                                  *)
Cleanup ==
  /\ At("cleanup")
  /\ Onward("failed")
  /\ stored' = IF verbRun.archived THEN [stored EXCEPT ![verbRun.target] = "empty"] ELSE stored
  /\ UNCHANGED <<installState, executable, litter, managed>>

CleanupFails == At("cleanup") /\ Onward("failed") /\ DiskKept

(* Removal takes the executable first, so that what is left of a removal   *)
(* that stops never verifies as current; then every artifact and its       *)
(* directory, the ledger, and the managed root.  An empty root that a      *)
(* failing or missing last step leaves is adopted by the next installation.*)
RemoveExecutable ==
  /\ At("remove") /\ executable # NoRelease
  /\ executable' = NoRelease
  /\ UNCHANGED <<installState, stored, litter, managed, verbRun>>

RemoveRelease(r) ==
  /\ At("remove") /\ executable = NoRelease
  /\ r \in installState.releases /\ stored[r] # "absent"
  /\ stored' = [stored EXCEPT ![r] = IF @ = "whole" THEN "empty" ELSE "absent"]
  /\ UNCHANGED <<installState, executable, litter, managed, verbRun>>

RemoveState ==
  /\ At("remove") /\ executable = NoRelease /\ Installed
  /\ \A r \in installState.releases : stored[r] = "absent"
  /\ installState' = NotInstalled
  /\ UNCHANGED <<executable, stored, litter, managed, verbRun>>

RemoveRoot ==
  /\ At("remove") /\ executable = NoRelease /\ ~Installed
  /\ managed' = FALSE
  /\ Onward("done") \/ Onward("failed")
  /\ UNCHANGED <<installState, executable, stored, litter>>

RemoveFails == At("remove") /\ Onward("failed") /\ DiskKept

(* The temporary file of an artifact or of the ledger stays where a crash  *)
(* leaves it.                                                              *)
Killed ==
  /\ ~At("idle")
  /\ litter' = IF At("copy") \/ At("write") THEN litter \cup {verbRun.pc} ELSE litter
  /\ verbRun' = Idle
  /\ UNCHANGED <<installState, executable, stored, managed>>

Return == verbRun.pc \in {"done", "failed"} /\ verbRun' = Idle /\ DiskKept

(* Someone else puts bytes of his own where the executable belongs.        *)
Tamper ==
  /\ At("idle")
  /\ executable' = Unmanaged
  /\ UNCHANGED <<installState, stored, litter, managed, verbRun>>

InstallInit ==
  /\ installState = NotInstalled /\ executable = NoRelease
  /\ stored = [r \in Releases |-> "absent"]
  /\ litter = {} /\ managed = FALSE /\ verbRun = Idle

InstallNext ==
  \/ \E v \in Verbs, t \in Releases \cup {NoRelease}, d \in {{}} \cup {{x} : x \in Drifts} :
       Begin(v, t, d)
  \/ Check \/ Archive \/ CopyArtifact \/ CopyFails
  \/ Activate \/ ActivateFails \/ WriteState \/ WriteStateFails
  \/ Restore \/ RestoreFails \/ Cleanup \/ CleanupFails
  \/ RemoveExecutable \/ (\E r \in Releases : RemoveRelease(r))
  \/ RemoveState \/ RemoveRoot \/ RemoveFails
  \/ Killed \/ Return \/ Tamper

InstallSpec == InstallInit /\ [][InstallNext]_installVars

-----------------------------------------------------------------------------

(* As long as an installation verifies, every release it registers can     *)
(* still be activated: neither the way back of a failed upgrade nor a      *)
(* removal that stopped takes one away (upgradeRelease, uninstallRelease). *)
RegisteredIsStored ==
  Installed /\ executable = installState.active =>
    \A r \in installState.releases : stored[r] = "whole"

(* A command that failed left the ledger and the executable as it found    *)
(* them, unless restoring them failed too; a removal never goes back.      *)
FailureChangesNothing ==
  At("failed") /\ ~verbRun.twice /\ verbRun.verb # "uninstall" =>
    installState = verbRun.found.state /\ executable = verbRun.found.exe

(* What drifted is neither overwritten nor deleted: a command that finds   *)
(* an executable the ledger does not name, or one without a ledger,        *)
(* changes nothing (docs/release-installation-lifecycle.md).               *)
DriftIsLeftAlone ==
  verbRun.found.exe # verbRun.found.state.active =>
    /\ ~At("idle") => /\ installState = verbRun.found.state
                      /\ executable = verbRun.found.exe
                      /\ stored = verbRun.found.stored

(* However many of its file operations fail, and wherever it is killed, a  *)
(* command never leaves an installation that verifies and yet lacks a      *)
(* release, never reports a failure over changed bytes, and never touches  *)
(* what it does not own.                                                   *)
InstallIsWhole == RegisteredIsStored /\ FailureChangesNothing /\ DriftIsLeftAlone
=============================================================================
