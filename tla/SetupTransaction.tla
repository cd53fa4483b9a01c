-------------------------- MODULE SetupTransaction --------------------------
(***************************************************************************)
(* The environment transaction of setup.py: one Install/Repair run replaces *)
(* the extension's venv, its dependency state and its runtime configuration *)
(* by a new generation, through staging and backup names and renames.       *)
(*                                                                         *)
(* The run is one process holding the setup lock (SetupLease), so there is  *)
(* one control point, pc.  Every label stands for the next persisted effect *)
(* of the code: a rename, an unlink, a tree removal or a whole-file write.  *)
(* At each of them the process may die (Crash), raise before the effect     *)
(* (Fault), or raise after the effect and before the assignment that        *)
(* records it (the Raises disjunct of Effect: KeyboardInterrupt is raised   *)
(* between two bytecodes, and the handlers catch BaseException).            *)
(***************************************************************************)
EXTENDS Naturals, FiniteSets

CONSTANTS
  Plans,       \* dependency plans a run may select (select_dependency_plan)
  Absent,      \* nothing has this name
  Foreign,     \* the name is a symlink, a junction or not a directory
  MaxFaults,   \* bound: exceptions injected over a behaviour
  MaxCrashes   \* bound: process deaths over a behaviour

(* A tree or a file carries the plan it was built for or describes.  A tree *)
(* is whole or torn: shutil.rmtree and venv creation are not atomic.  Files *)
(* are written to a temporary name and renamed, so they are always whole.   *)
Content == [plan : Plans, whole : BOOLEAN]
Whole(p) == [plan |-> p, whole |-> TRUE]
Torn(p)  == [plan |-> p, whole |-> FALSE]

ASSUME ContentAssumption ==
  /\ Absent \notin Content
  /\ Foreign \notin Content
  /\ Absent # Foreign
ASSUME BoundAssumption == MaxFaults \in Nat /\ MaxCrashes \in Nat

Trees == {"venv", "staging", "backup"}
Files == {"config", "config_backup", "state", "state_backup", "state_staging"}
Paths == Trees \cup Files

(* What _promote_environment records of its own moves in local variables.   *)
Moves == {"config", "old_venv", "new_venv", "old_state", "new_state"}

VARIABLES
  fs,        \* the extension directory: Paths -> Content, Absent or Foreign
  pc,        \* the next persisted effect of the run, or how the last one ended
  want,      \* the plan this run installs
  moved,     \* the moves recorded by _promote_environment
  faults,    \* exceptions so far
  crashes,   \* process deaths so far
  before,    \* history: fs when this run's promotion started
  cause      \* history: the label of this run's first exception, if any

vars == <<fs, pc, want, moved, faults, crashes, before, cause>>

Exists(path) == fs[path] # Absent
IsTree(path) == fs[path] \in Content

Idle == {"fresh", "ok", "failed", "crashed"}
RecoverLabels ==
  {"recover", "rec_drop_venv", "rec_restore_venv", "rec_restore_config",
   "rec_restore_state", "rec_settle_backup", "rec_settle_config",
   "rec_staging", "rec_state_staging", "rec_state_backup", "rec_config_backup"}
BuildLabels == {"build", "write_state", "promote"}
SwapLabels ==
  {"move_config", "move_venv", "promote_venv", "check", "move_state",
   "promote_state"}
UndoLabels ==
  {"undo_new_state", "undo_old_state", "undo_venv", "undo_swap", "undo_config"}
CleanupLabels == {"cleanup_staging", "cleanup_state"}
RollbackLabels ==
  {"rb_config", "rb_drop_backup", "rb_state", "rb_venv", "rb_swap", "rb_restore_state",
   "rb_restore_config", "rb_drop_state", "rb_drop_config"}
CommitLabels == {"cm_backup", "cm_state", "cm_config"}
Running ==
  {"prepare", "reuse", "install", "publish"} \cup RecoverLabels
    \cup BuildLabels \cup SwapLabels \cup UndoLabels \cup CleanupLabels
    \cup RollbackLabels \cup CommitLabels

-----------------------------------------------------------------------------
(* Control: how one effect of the code ends.                               *)

(* EnvironmentResult.promotion is not None: this run promoted a new venv.   *)
Promoted == "new_state" \in moved

(* The except clause that an exception raised at a label reaches.           *)
Handler(label) ==
  CASE label \in BuildLabels \cup UndoLabels -> "cleanup_staging"
    [] label \in SwapLabels                  -> "undo_new_state"
    [] label = "publish" /\ Promoted         -> "rb_config"
    [] OTHER                                 -> "failed"

Completes(next, flags) ==
  /\ pc' = next
  /\ moved' = moved \cup flags
  /\ UNCHANGED <<faults, cause>>

Raise ==
  /\ pc' = Handler(pc)
  /\ cause' = IF cause = "none" THEN pc ELSE "several"
  /\ UNCHANGED moved

Raises ==
  /\ faults < MaxFaults
  /\ faults' = faults + 1
  /\ Raise

Effect(newFs, flags, next) ==
  /\ fs' = newFs
  /\ Completes(next, flags) \/ Raises
  /\ UNCHANGED <<crashes, want, before>>

(* A check or a no-op: nothing persisted.                                  *)
Skip(next) ==
  /\ Completes(next, {})
  /\ UNCHANGED <<fs, crashes, want, before>>

(* A guard of the code refuses: it raises without any injected fault.       *)
Refuse ==
  /\ Raise
  /\ UNCHANGED <<fs, faults, crashes, want, before>>

(* _invalidate_generated_file: unlink when present.                        *)
DropFile(file, next) ==
  IF Exists(file) THEN Effect([fs EXCEPT ![file] = Absent], {}, next)
                  ELSE Skip(next)

(* _move_generated_file: FALSE if the source is absent; a stale destination *)
(* is a conflict; else one os.replace.                                     *)
MoveFile(src, dst, flags, next) ==
  CASE ~Exists(src)                -> Skip(next)
    [] Exists(src) /\ Exists(dst)  -> Refuse
    [] OTHER -> Effect([fs EXCEPT ![dst] = fs[src], ![src] = Absent], flags, next)

(* _restore_generated_file: drop the destination, then move the backup, if  *)
(* there is one.  The two effects are two steps at the same label.          *)
RestoreFile(src, dst, next) ==
  CASE Exists(dst)  -> Effect([fs EXCEPT ![dst] = Absent], {},
                              IF Exists(src) THEN pc ELSE next)
    [] OTHER        -> MoveFile(src, dst, {}, next)

(* _remove_venv: an alias is unlinked; a tree is torn before it is gone.    *)
RemoveTree(path, next) ==
  CASE ~Exists(path) -> Skip(next)
    [] IsTree(path) /\ fs[path].whole ->
         Effect([fs EXCEPT ![path] = Torn(fs[path].plan)], {}, pc)
    [] OTHER -> Effect([fs EXCEPT ![path] = Absent], {}, next)

(* _replace_owned_venv: refuses an existing destination, a missing source   *)
(* or one that is not a directory; else one os.replace.                    *)
MoveTree(src, dst, flags, next) ==
  IF Exists(dst) \/ ~IsTree(src)
    THEN Refuse
    ELSE Effect([fs EXCEPT ![dst] = fs[src], ![src] = Absent], flags, next)

-----------------------------------------------------------------------------
(* Starting a run, and the ways it can be broken off.                      *)

(* main and run_setup: a new process takes the setup lock and selects its   *)
(* plan.  Nothing of an earlier run survives but the directory.             *)
Begin(p) ==
  /\ pc \in Idle
  /\ pc' = "prepare"
  /\ want' = p
  /\ moved' = {}
  /\ cause' = "none"
  /\ UNCHANGED <<fs, faults, crashes, before>>

(* The process dies: everything but the directory is lost.                  *)
Crash ==
  /\ pc \in Running
  /\ crashes < MaxCrashes
  /\ crashes' = crashes + 1
  /\ pc' = "crashed"
  /\ moved' = {}
  /\ UNCHANGED <<fs, want, faults, before, cause>>

(* The code at a label raises before its effect: an I/O error, a full disk, *)
(* a failed download or verification, a signal.                            *)
Fault ==
  /\ pc \in Running
  /\ Raises
  /\ UNCHANGED <<fs, crashes, want, before>>

(* _run_setup_locked up to install_or_reuse_environment: preflights, model  *)
(* snapshot and portable runtime; none of it touches the venv, the state or *)
(* the configuration.                                                      *)
Prepare == pc = "prepare" /\ Skip("recover")

-----------------------------------------------------------------------------
(* _recover_environment_transaction                                        *)

(* Mutant: a swap interrupted with the new tree in place looks finished.    *)
SwapLooksFinished ==
  Exists("backup") /\ ~Exists("venv") /\ Exists("config_backup")

InterruptedSwap ==
  Exists("backup") /\ ~Exists("config") /\ Exists("config_backup")

Recover ==
  /\ pc = "recover"
  /\ Skip(CASE InterruptedSwap     -> "rec_drop_venv"
            [] ~InterruptedSwap /\ Exists("backup") -> "rec_settle_backup"
            [] OTHER               -> "rec_staging")

(* Mutant: the half-promoted venv stays in the way of the backup.           *)
RecDropVenvSkipped == pc = "rec_drop_venv" /\ Skip("rec_restore_venv")

RecDropVenv == pc = "rec_drop_venv" /\ RemoveTree("venv", "rec_restore_venv")

RecRestoreVenv ==
  /\ pc = "rec_restore_venv"
  /\ MoveTree("backup", "venv", {}, "rec_restore_config")

RecRestoreConfig ==
  /\ pc = "rec_restore_config"
  /\ RestoreFile("config_backup", "config",
                 IF Exists("state_backup") THEN "rec_restore_state"
                                           ELSE "rec_staging")

RecRestoreState ==
  /\ pc = "rec_restore_state"
  /\ RestoreFile("state_backup", "state", "rec_staging")

RecSettleBackup ==
  /\ pc = "rec_settle_backup"
  /\ IF Exists("venv")
       THEN RemoveTree("backup", "rec_settle_config")
       ELSE MoveTree("backup", "venv", {}, "rec_settle_config")

RecSettleConfig ==
  /\ pc = "rec_settle_config"
  /\ IF Exists("config")
       THEN DropFile("config_backup", "rec_staging")
       ELSE MoveFile("config_backup", "config", {}, "rec_staging")

RecStaging == pc = "rec_staging" /\ RemoveTree("staging", "rec_state_staging")
RecStateStaging ==
  pc = "rec_state_staging" /\ DropFile("state_staging", "rec_state_backup")
RecStateBackup ==
  pc = "rec_state_backup" /\ DropFile("state_backup", "rec_config_backup")
(* Mutant: the configuration backup is left out of the final cleanup.       *)
RecConfigBackupKept == pc = "rec_config_backup" /\ Skip("reuse")

RecConfigBackup ==
  pc = "rec_config_backup" /\ DropFile("config_backup", "reuse")

Recovery ==
  \/ Recover \/ RecDropVenv \/ RecRestoreVenv \/ RecRestoreConfig
  \/ RecRestoreState \/ RecSettleBackup \/ RecSettleConfig \/ RecStaging
  \/ RecStateStaging \/ RecStateBackup \/ RecConfigBackup

-----------------------------------------------------------------------------
(* _reusable_environment.  Verification is sound (a tree that is torn or    *)
(* was built for another plan does not pass) but not complete.             *)

StateMatches == fs["state"] = Whole(want)
NoPython == IsTree("venv") => ~fs["venv"].whole

(* No venv, an alias, or no python in it (a torn tree may have lost it).    *)
RejectUnusable ==
  /\ pc = "reuse"
  /\ NoPython
  /\ DropFile("config", "install")

(* A tree whose recorded state is not the wanted one: the configuration     *)
(* stays until the replacement is ready.                                   *)
RejectOtherState ==
  /\ pc = "reuse"
  /\ IsTree("venv")
  /\ ~StateMatches
  /\ Skip("install")

(* The recorded state matches and the tree fails its checks.                *)
RejectUnverified ==
  /\ pc = "reuse"
  /\ IsTree("venv")
  /\ StateMatches
  /\ fs["venv"] # Whole(want)
  /\ DropFile("config", "install")

(* The same verdict on a good tree: a probe that timed out.                 *)
RejectSpuriously ==
  /\ pc = "reuse"
  /\ StateMatches
  /\ fs["venv"] = Whole(want)
  /\ faults < MaxFaults
  /\ faults' = faults + 1
  /\ fs' = [fs EXCEPT !["config"] = Absent]
  /\ pc' = "install"
  /\ cause' = IF cause = "none" THEN pc ELSE "several"
  /\ UNCHANGED <<moved, crashes, want, before>>

ReuseVenv ==
  /\ pc = "reuse"
  /\ StateMatches
  /\ fs["venv"] = Whole(want)
  /\ Skip("publish")

Reuse ==
  \/ RejectUnusable \/ RejectOtherState \/ RejectUnverified
  \/ RejectSpuriously \/ ReuseVenv

-----------------------------------------------------------------------------
(* _install_environment                                                    *)

(* Drop stale staging, then the storage preflight.                         *)
Install ==
  /\ pc = "install"
  /\ CASE Exists("staging")       -> RemoveTree("staging", pc)
       [] ~Exists("staging") /\ Exists("state_staging") ->
            DropFile("state_staging", pc)
       [] OTHER                   -> Skip("build")

(* _create_venv, install_dependencies, _install_cpu_operator and the        *)
(* verification of the staging tree.                                       *)
Build ==
  /\ pc = "build"
  /\ IF Exists("staging")
       THEN Effect([fs EXCEPT !["staging"] = Whole(want)], {}, "write_state")
       ELSE Effect([fs EXCEPT !["staging"] = Torn(want)], {}, pc)

WriteState ==
  /\ pc = "write_state"
  /\ Effect([fs EXCEPT !["state_staging"] = Whole(want)], {}, "promote")

(* The except clause of _install_environment.                              *)
CleanupStaging ==
  pc = "cleanup_staging" /\ RemoveTree("staging", "cleanup_state")
CleanupState == pc = "cleanup_state" /\ DropFile("state_staging", "failed")

(* The head of _promote_environment drops stale backups.                   *)
Promote ==
  /\ pc = "promote"
  /\ \/ \E file \in {"state_backup", "config_backup"} :
          Exists(file) /\ DropFile(file, pc)
     \/ /\ ~Exists("state_backup") /\ ~Exists("config_backup")
        /\ Exists("backup")
        /\ RemoveTree("backup", pc)
     \/ /\ \A path \in {"state_backup", "config_backup", "backup"} : ~Exists(path)
        /\ before' = fs
        /\ Completes("move_config", {})
        /\ UNCHANGED <<fs, crashes, want>>

-----------------------------------------------------------------------------
(* _promote_environment: the swap, and its except clause                   *)

(* Mutant: the venv is replaced under a published configuration.            *)
MoveConfigForgotten == pc = "move_config" /\ Skip("move_venv")

MoveConfig ==
  pc = "move_config" /\ MoveFile("config", "config_backup", {"config"}, "move_venv")

MoveVenv ==
  /\ pc = "move_venv"
  /\ IF IsTree("venv")
       THEN MoveTree("venv", "backup", {"old_venv"}, "promote_venv")
       ELSE RemoveTree("venv", "promote_venv")

PromoteVenv ==
  pc = "promote_venv" /\ MoveTree("staging", "venv", {"new_venv"}, "check")

(* ABI fingerprint, pip check and both verifications of the promoted tree.  *)
Check ==
  /\ pc = "check"
  /\ IF fs["venv"] = Whole(want) THEN Skip("move_state") ELSE Refuse

(* Mutant: the move of the old state is not recorded.                       *)
MoveStateUnrecorded ==
  pc = "move_state" /\ MoveFile("state", "state_backup", {}, "promote_state")

MoveState ==
  pc = "move_state" /\ MoveFile("state", "state_backup", {"old_state"}, "promote_state")

PromoteState ==
  pc = "promote_state" /\ MoveFile("state_staging", "state", {"new_state"}, "publish")

Swap ==
  MoveConfig \/ MoveVenv \/ PromoteVenv \/ Check \/ MoveState \/ PromoteState

UndoNewState ==
  /\ pc = "undo_new_state"
  /\ IF "new_state" \in moved THEN DropFile("state", "undo_old_state")
                              ELSE Skip("undo_old_state")
UndoOldState ==
  /\ pc = "undo_old_state"
  /\ IF "old_state" \in moved THEN RestoreFile("state_backup", "state", "undo_venv")
                              ELSE Skip("undo_venv")
UndoVenv ==
  /\ pc = "undo_venv"
  /\ IF "new_venv" \in moved THEN RemoveTree("venv", "undo_swap")
                             ELSE Skip("undo_swap")
UndoSwap ==
  /\ pc = "undo_swap"
  /\ IF "old_venv" \in moved THEN MoveTree("backup", "venv", {}, "undo_config")
                             ELSE Skip("undo_config")
(* Without a restored venv the previous configuration is dropped.           *)
UndoConfig ==
  /\ pc = "undo_config"
  /\ CASE {"config", "old_venv"} \subseteq moved ->
            RestoreFile("config_backup", "config", "cleanup_staging")
       [] "config" \in moved /\ "old_venv" \notin moved ->
            DropFile("config_backup", "cleanup_staging")
       [] OTHER -> Skip("cleanup_staging")

Undo == UndoNewState \/ UndoOldState \/ UndoVenv \/ UndoSwap \/ UndoConfig

-----------------------------------------------------------------------------
(* write_runtime_config is the commit point.                               *)

Publish ==
  /\ pc = "publish"
  /\ Effect([fs EXCEPT !["config"] = Whole(want)], {},
            IF Promoted THEN "cm_backup" ELSE "ok")

(* _commit_environment_promotion                                           *)
CommitBackup == pc = "cm_backup" /\ RemoveTree("backup", "cm_state")
CommitState  == pc = "cm_state" /\ DropFile("state_backup", "cm_config")
CommitConfig == pc = "cm_config" /\ DropFile("config_backup", "ok")

Commit == CommitBackup \/ CommitState \/ CommitConfig

(* _rollback_environment_promotion                                         *)
(* Mutant: a publication that raised is taken to have written nothing.      *)
RbConfigKept ==
  /\ pc = "rb_config"
  /\ Skip(IF "old_venv" \in moved THEN "rb_state" ELSE "rb_drop_backup")

RbConfig ==
  /\ pc = "rb_config"
  /\ DropFile("config", IF "old_venv" \in moved THEN "rb_state" ELSE "rb_drop_backup")
RbDropBackup ==
  pc = "rb_drop_backup" /\ RemoveTree("backup", "rb_drop_state")
RbState == pc = "rb_state" /\ DropFile("state", "rb_venv")
RbVenv  == pc = "rb_venv" /\ RemoveTree("venv", "rb_swap")
RbSwap  == pc = "rb_swap" /\ MoveTree("backup", "venv", {}, "rb_restore_state")
RbRestoreState ==
  /\ pc = "rb_restore_state"
  /\ IF "old_state" \in moved
       THEN RestoreFile("state_backup", "state", "rb_restore_config")
       ELSE Skip("rb_restore_config")
RbRestoreConfig ==
  /\ pc = "rb_restore_config"
  /\ IF "config" \in moved
       THEN RestoreFile("config_backup", "config", "rb_drop_state")
       ELSE Skip("rb_drop_state")
RbDropState  == pc = "rb_drop_state" /\ DropFile("state_backup", "rb_drop_config")
RbDropConfig == pc = "rb_drop_config" /\ DropFile("config_backup", "failed")

Rollback ==
  \/ RbConfig \/ RbDropBackup \/ RbState \/ RbVenv \/ RbSwap \/ RbRestoreState
  \/ RbRestoreConfig \/ RbDropState \/ RbDropConfig

-----------------------------------------------------------------------------
Step ==
  \/ Prepare \/ Recovery \/ Reuse
  \/ Install \/ Build \/ WriteState \/ CleanupStaging \/ CleanupState \/ Promote
  \/ Swap \/ Undo \/ Publish \/ Commit \/ Rollback

Next == (\E p \in Plans : Begin(p)) \/ Step \/ Fault \/ Crash

(* The directory as the first run finds it: empty, an installation that a   *)
(* finished run left, or the remains of one whose configuration is gone     *)
(* (a venv of any condition, with or without its state).                    *)
InitialDirectory ==
  LET Empty == [path \in Paths |-> Absent]
      Remains == {[Empty EXCEPT !["venv"] = v, !["state"] = s] :
                    v \in Content \cup {Absent, Foreign},
                    s \in {Whole(p) : p \in Plans} \cup {Absent}}
  IN  Remains \cup {[Empty EXCEPT !["venv"] = Whole(p), !["state"] = Whole(p),
                                  !["config"] = Whole(p)] : p \in Plans}

Init ==
  /\ fs \in InitialDirectory
  /\ pc = "fresh"
  /\ want \in Plans
  /\ moved = {}
  /\ faults = 0
  /\ crashes = 0
  /\ before = fs
  /\ cause = "none"

Spec == Init /\ [][Next]_vars

(* The operating system runs the setup process; nobody has to start one.    *)
FairSpec == Spec /\ WF_vars(Step)

-----------------------------------------------------------------------------
(* Properties                                                              *)

(* Every variable has its type.                                            *)
TypeOK ==
  /\ fs \in [Paths -> Content \cup {Absent, Foreign}]
  /\ \A file \in Files : fs[file] \in {Whole(p) : p \in Plans} \cup {Absent}
  /\ pc \in Idle \cup Running
  /\ want \in Plans
  /\ moved \subseteq Moves
  /\ faults \in 0..MaxFaults
  /\ crashes \in 0..MaxCrashes
  /\ before \in [Paths -> Content \cup {Absent, Foreign}]
  /\ cause \in Running \cup {"none", "several"}

(* Whenever runtime_config.json exists, in the middle of a run and after    *)
(* any crash, the venv is whole and is the one the configuration describes: *)
(* the runtime reads the configuration and never checks the venv against it *)
(* (runtime.py _validate_state).                                           *)
ConfigDescribesEnvironment == Exists("config") => fs["venv"] = fs["config"]

(* While a replaced configuration waits in its backup name, the environment *)
(* it describes is still there, whole, under the name from which recovery   *)
(* and rollback take it.                                                   *)
BackupIsRestorable ==
  ~Exists("config") /\ Exists("config_backup") =>
    fs["config_backup"] = IF Exists("backup") THEN fs["backup"] ELSE fs["venv"]

(* A run that reports success leaves one generation, the wanted one, and no *)
(* staging or backup of any other.                                         *)
SuccessIsClean ==
  pc = "ok" =>
    fs = [path \in Paths |->
            IF path \in {"venv", "state", "config"} THEN Whole(want) ELSE Absent]

(* A promoted tree that fails its checks, or a configuration that cannot be *)
(* published, puts back the venv, state and configuration of before the     *)
(* promotion.                                                              *)
FailedRepairRestores ==
  /\ pc = "failed"
  /\ cause \in {"check", "publish"}
  /\ before["venv"] \in Content
  /\ "old_venv" \in moved
  => \A path \in {"venv", "state", "config"} : fs[path] = before[path]

(* Nothing a run leaves behind, however it ended, wedges the next one: once *)
(* failures and crashes have stopped, a Repair that starts succeeds.        *)
RepairConverges ==
  (pc = "prepare" /\ faults = MaxFaults /\ crashes = MaxCrashes) ~> pc = "ok"

(* The docstring of _promote_environment: the previous configuration stays  *)
(* in its backup until the new one is published.  So a run that fails in    *)
(* the swap leaves the previous configuration in place or in its backup.    *)
FailedSwapKeepsConfiguration ==
  pc = "failed" /\ cause \in SwapLabels /\ before["config"] # Absent =>
    before["config"] \in {fs["config"], fs["config_backup"]}

-----------------------------------------------------------------------------
(* The promise to the runtime: the environment named by the configuration   *)
(* is reworked only while no configuration exists, whatever crashes.        *)
Promise == INSTANCE Installation WITH
  Environments <- {Whole(p) : p \in Plans},
  Remains <- {Torn(p) : p \in Plans} \cup {Absent, Foreign},
  offered <- fs["config"],
  env <- fs["venv"]

(* SetupTransaction implements Installation.                               *)
ImplementsInstallation == Promise!Spec

-----------------------------------------------------------------------------
(* The inductive invariant of ConfigDescribesEnvironment.  Each part says   *)
(* what the directory holds at the labels where the code relies on it.      *)

(* Between the withdrawal of the configuration and its return.              *)
WithdrawnAt ==
  /\ pc \in {"rec_drop_venv", "rec_restore_venv", "rec_restore_config",
            "move_venv", "promote_venv", "check", "move_state", "promote_state",
            "rb_state", "rb_venv", "rb_swap", "rb_restore_state",
            "rb_restore_config"}
       => ~Exists("config")
  /\ pc \in UndoLabels /\ moved # {} => ~Exists("config")

(* The local flags are set by the swap and by nothing before it.            *)
MovedAt ==
  /\ pc \in RecoverLabels \cup BuildLabels
              \cup {"prepare", "reuse", "install", "move_config"} => moved = {}
  /\ pc \in {"move_venv", "promote_venv"} => "new_venv" \notin moved

(* Where the previous environment is while the new one is in the venv name. *)
BackupAt ==
  /\ pc \in {"rec_drop_venv", "rec_restore_venv"} => Exists("backup")
  /\ pc \in {"rec_restore_config", "move_config", "move_venv",
            "rb_restore_state", "rb_restore_config"} => ~Exists("backup")
  /\ pc = "undo_config" /\ "old_venv" \in moved => ~Exists("backup")
  /\ (pc \in {"promote_venv", "check", "move_state", "promote_state", "rb_config",
             "rb_drop_backup"} \/ (pc = "publish" /\ Promoted))
       => (Exists("backup") => "old_venv" \in moved)
  /\ pc = "rb_drop_backup" => "old_venv" \notin moved
  /\ pc \in {"check", "move_state", "promote_state", "rb_state", "rb_venv"}
       => (Exists("config_backup") => Exists("backup"))
  /\ (pc \in {"undo_new_state", "undo_old_state", "undo_venv"}
        /\ "new_venv" \in moved)
       => (Exists("config_backup") => Exists("backup"))
  /\ pc \in {"publish", "rb_config"} /\ Exists("config_backup")
       => fs["config_backup"] = fs["backup"]

(* Where no replaced configuration is waiting, or a published one covers it.*)
ConfigBackupAt ==
  /\ pc \in BuildLabels \cup {"reuse", "install", "move_config"}
       => ~Exists("config_backup")
  /\ pc \in {"rec_settle_backup", "rec_settle_config"}
       => (Exists("config_backup") => Exists("config"))
  /\ pc \in CommitLabels => Exists("config")

(* What is about to be published was verified.                             *)
VerifiedAt ==
  pc \in {"move_state", "promote_state", "publish"} => fs["venv"] = Whole(want)

IInv ==
  /\ TypeOK
  /\ ConfigDescribesEnvironment
  /\ BackupIsRestorable
  /\ WithdrawnAt
  /\ MovedAt
  /\ BackupAt
  /\ ConfigBackupAt
  /\ VerifiedAt
=============================================================================
