------------------------------- MODULE Snapshot -------------------------------
(***************************************************************************)
(* ensure_snapshot of assets.py: the pinned files, the source trees         *)
(* extracted from those that are archives, the exact inventory, and the     *)
(* ready marker that is removed first and written last.                     *)
(*                                                                         *)
(* A label of pc stands for the next persisted effect.  At each of them the *)
(* process may die (Die) or an exception may be raised (Fault), which the    *)
(* handlers of _extract_source_tree answer.  What ensure_asset does to one  *)
(* file is AssetDownload; here it is a step that installs the pinned file   *)
(* or gives up and may leave a .part file.                                  *)
(***************************************************************************)
EXTENDS Naturals, FiniteSets

CONSTANTS
  Weights,    \* the pinned files that are no archives
  Sources,    \* the source trees; each stands for its archive among the files
  MaxFaults   \* bound: exceptions and process deaths over a behaviour

ASSUME SourceAssumption == Weights \cap Sources = {}
ASSUME BoundAssumption == MaxFaults \in Nat

Files == Weights \cup Sources
Contents == {"absent", "other", "pinned"}   \* other: torn, or anything else

\* unsafe: a directory or an alias; as .part also a hard link.
FileContents == Contents \cup {"unsafe"}
PartContents == {"absent", "file", "unsafe"}

VARIABLES
  marked,    \* the ready marker is there, for this revision
  file,      \* the content of each pinned file
  part,      \* what each pinned file has as .part
  tree,      \* the content of each source tree
  staging,   \* the extraction directory: "none", "torn" or "whole"
  backup,    \* the tree moved away by this extraction, or "none"
  litter,    \* entries that no pinned layout has: what dead runs left
  pc,        \* the next effect, or how the last run ended
  todo,      \* the files, then the trees, that are still to be ensured
  current,   \* the tree that is extracted
  faults,    \* exceptions and deaths so far
  trusted    \* history: the marker was not there, or was right, from the start

diskVars == <<marked, file, part, tree, staging, backup, litter>>
vars == <<diskVars, pc, todo, current, faults, trusted>>

Idle == {"idle", "ready", "failed", "dead"}
Extracting == {"stage", "fill", "move_old", "move_new", "drop_backup", "verify_tree"}
Handling == {"restore", "drop_staging"}
Labels ==
  Idle \cup Extracting \cup Handling \cup
  {"verify", "unmark", "prune", "files", "trees", "unmark_again", "prune_again",
   "inventory", "write_marker", "publish_marker", "verify_marker", "withdraw_marker"}

Complete ==
  /\ \A f \in Files : file[f] = "pinned"
  /\ \A s \in Sources : tree[s] = "pinned"

(* verify_snapshot without the marker: contents and the exact layout.       *)
Exact == Complete /\ (\A f \in Files : part[f] = "absent") /\ ~litter

(* What ensure_asset refuses, and no step of a Repair removes.              *)
Blocked(f) == "unsafe" \in {file[f], part[f]}

(* verify_source_tree: the tree equals its archive, which must be readable. *)
TreeValid(s) == file[s] = "pinned" /\ tree[s] = "pinned"

-----------------------------------------------------------------------------
(* Control                                                                 *)

GoTo(next) == pc' = next /\ UNCHANGED <<faults, current>>

(* The directory names of an extraction and the temporary name of the marker *)
(* are fresh: once a run has ended nothing but pruning finds them again.     *)
Ends(outcome) ==
  /\ pc' = outcome
  /\ litter' = (litter \/ staging # "none" \/ backup # "none" \/ pc = "publish_marker")
  /\ staging' = "none"
  /\ backup' = "none"
  /\ UNCHANGED <<marked, file, part, tree, todo, current, trusted>>

Refuse == Ends("failed") /\ UNCHANGED faults

Costs == faults < MaxFaults /\ faults' = faults + 1

-----------------------------------------------------------------------------
(* ensure_snapshot                                                         *)

Begin ==
  /\ pc \in Idle
  /\ GoTo("verify")
  /\ UNCHANGED <<diskVars, todo, trusted>>

Verify ==
  /\ pc = "verify"
  /\ GoTo(IF marked /\ Exact THEN "ready" ELSE "unmark")
  /\ UNCHANGED <<diskVars, todo, trusted>>

(* A file that is right cannot be read: repaired like a wrong one.          *)
VerifySpuriously ==
  /\ pc = "verify"
  /\ Costs
  /\ pc' = "unmark"
  /\ UNCHANGED <<diskVars, todo, current, trusted>>

(* Mutant: the marker stays until it is replaced.                           *)
KeepMarker(label, next) ==
  /\ pc = label
  /\ GoTo(next)
  /\ UNCHANGED <<diskVars, todo, trusted>>

(* _reconcile_fixed_layout: the marker first.                              *)
Unmark(label, next) ==
  /\ pc = label
  /\ marked' = FALSE
  /\ trusted' = TRUE
  /\ GoTo(next)
  /\ UNCHANGED <<file, part, tree, staging, backup, litter, todo>>

(* Mutant: only the first reconciliation prunes.                            *)
PruneKnown(label, next, work) ==
  /\ pc = label
  /\ GoTo(next)
  /\ todo' = work
  /\ UNCHANGED <<diskVars, trusted>>

(* Then every entry that no pinned layout has.  The name of a pinned file or *)
(* of its .part is kept, whatever is there.                                 *)
Prune(label, next, work) ==
  /\ pc = label
  /\ litter' = FALSE
  /\ todo' = work
  /\ GoTo(next)
  /\ UNCHANGED <<marked, file, part, tree, staging, backup, trusted>>

Reconcile ==
  \/ Unmark("unmark", "prune")
  \/ Prune("prune", "files", Files)

ReconcileAgain ==
  \/ Unmark("unmark_again", "prune_again")
  \/ Prune("prune_again", "inventory", {})

(* ensure_asset returns.  That a call returns, refuses or gives up as here   *)
(* is shown in AssetDownload, EnsuresAsAssumed.                             *)
InstallFile(f) ==
  /\ pc = "files" /\ f \in todo
  /\ ~Blocked(f)
  /\ file' = [file EXCEPT ![f] = "pinned"]
  /\ part' = [part EXCEPT ![f] = "absent"]
  /\ todo' = todo \ {f}
  /\ GoTo("files")
  /\ UNCHANGED <<marked, tree, staging, backup, litter, trusted>>

(* PATH_ASSET_INVALID or ASSET_PART_INVALID, in every call.                 *)
RefuseFile(f) ==
  /\ pc = "files" /\ f \in todo
  /\ Blocked(f)
  /\ Refuse

(* ensure_asset gives up, or is stopped; the file may be promoted by then.   *)
GiveUpFile(f, outcome) ==
  /\ pc = "files" /\ f \in todo
  /\ Costs
  /\ IF Blocked(f)
       THEN UNCHANGED <<file, part>>
       ELSE /\ file' \in {file, [file EXCEPT ![f] = "pinned"]}
            /\ part' \in {[part EXCEPT ![f] = "absent"], [part EXCEPT ![f] = "file"]}
  /\ pc' = outcome
  /\ UNCHANGED <<marked, tree, staging, backup, litter, todo, current, trusted>>

FilesDone ==
  /\ pc = "files" /\ todo = {}
  /\ todo' = Sources
  /\ GoTo("trees")
  /\ UNCHANGED <<diskVars, trusted>>

(* ensure_source_tree: a valid tree is kept.                                *)
KeepTree(s) ==
  /\ pc = "trees" /\ s \in todo
  /\ TreeValid(s)
  /\ todo' = todo \ {s}
  /\ GoTo("trees")
  /\ UNCHANGED <<diskVars, trusted>>

ReplaceTree(s) ==
  /\ pc = "trees" /\ s \in todo
  /\ IF TreeValid(s) THEN Costs ELSE UNCHANGED faults
  /\ current' = s
  /\ pc' = "stage"
  /\ UNCHANGED <<diskVars, todo, trusted>>

TreesDone ==
  /\ pc = "trees" /\ todo = {}
  /\ GoTo("unmark_again")
  /\ UNCHANGED <<diskVars, todo, trusted>>

-----------------------------------------------------------------------------
(* _extract_source_tree                                                    *)

Stage ==
  /\ pc = "stage"
  /\ staging' = "torn"
  /\ GoTo("fill")
  /\ UNCHANGED <<marked, file, part, tree, backup, litter, todo, trusted>>

Fill ==
  /\ pc = "fill"
  /\ staging' = "whole"
  /\ GoTo("move_old")
  /\ UNCHANGED <<marked, file, part, tree, backup, litter, todo, trusted>>

MoveOld ==
  /\ pc = "move_old"
  /\ backup' = IF tree[current] = "absent" THEN "none" ELSE tree[current]
  /\ tree' = [tree EXCEPT ![current] = "absent"]
  /\ GoTo("move_new")
  /\ UNCHANGED <<marked, file, part, staging, litter, todo, trusted>>

MoveNew ==
  /\ pc = "move_new"
  /\ tree' = [tree EXCEPT ![current] = "pinned"]
  /\ staging' = "none"
  /\ GoTo("drop_backup")
  /\ UNCHANGED <<marked, file, part, backup, litter, todo, trusted>>

DropBackup ==
  /\ pc = "drop_backup"
  /\ backup' = "none"
  /\ GoTo("verify_tree")
  /\ UNCHANGED <<marked, file, part, tree, staging, litter, todo, trusted>>

VerifyTree ==
  /\ pc = "verify_tree"
  /\ TreeValid(current)
  /\ todo' = todo \ {current}
  /\ GoTo("trees")
  /\ UNCHANGED <<diskVars, trusted>>

(* The inner handler, after a failed promotion.  A new tree that is already *)
(* there cannot be replaced, and the backup stays.                          *)
Restore ==
  /\ pc = "restore"
  /\ IF backup # "none" /\ tree[current] = "absent"
       THEN tree' = [tree EXCEPT ![current] = backup] /\ backup' = "none"
       ELSE UNCHANGED <<tree, backup>>
  /\ GoTo("drop_staging")
  /\ UNCHANGED <<marked, file, part, staging, litter, todo, trusted>>

DropStaging ==
  /\ pc = "drop_staging"
  /\ pc' = "failed"
  /\ staging' = "none"
  /\ litter' = (litter \/ backup # "none")
  /\ backup' = "none"
  /\ UNCHANGED <<marked, file, part, tree, todo, current, faults, trusted>>

Extract ==
  Stage \/ Fill \/ MoveOld \/ MoveNew \/ DropBackup \/ VerifyTree \/ Restore \/ DropStaging

-----------------------------------------------------------------------------
(* The marker                                                              *)

Inventory ==
  /\ pc = "inventory"
  /\ IF Exact THEN GoTo("write_marker") /\ UNCHANGED <<diskVars, todo, trusted>>
              ELSE Refuse

(* _atomic_json: a temporary file, then a rename.                           *)
WriteMarker ==
  /\ pc = "write_marker"
  /\ GoTo("publish_marker")
  /\ UNCHANGED <<diskVars, todo, trusted>>

PublishMarker ==
  /\ pc = "publish_marker"
  /\ marked' = TRUE
  /\ GoTo("verify_marker")
  /\ UNCHANGED <<file, part, tree, staging, backup, litter, todo, trusted>>

VerifyMarker ==
  /\ pc = "verify_marker"
  /\ GoTo(IF Exact THEN "ready" ELSE "withdraw_marker")
  /\ UNCHANGED <<diskVars, todo, trusted>>

VerifyMarkerSpuriously ==
  /\ pc = "verify_marker"
  /\ Costs
  /\ pc' = "withdraw_marker"
  /\ UNCHANGED <<diskVars, todo, current, trusted>>

WithdrawMarker ==
  /\ pc = "withdraw_marker"
  /\ marked' = FALSE
  /\ GoTo("failed")
  /\ UNCHANGED <<file, part, tree, staging, backup, litter, todo, trusted>>

Mark ==
  \/ Inventory \/ WriteMarker \/ PublishMarker \/ VerifyMarker
  \/ VerifyMarkerSpuriously \/ WithdrawMarker

-----------------------------------------------------------------------------
(* Where an exception raised at a label is answered.  A signal can come      *)
(* before the inner try is entered or after it is left.                     *)
Handlers(label) ==
  CASE label \in {"move_new", "drop_backup"} -> {"restore", "drop_staging"}
    [] label \in {"stage", "fill", "move_old", "restore"} -> {"drop_staging"}
    [] OTHER -> {}

Fault ==
  /\ pc \notin Idle
  /\ Costs
  /\ IF Handlers(pc) = {} THEN Ends("failed")
       ELSE /\ pc' \in Handlers(pc)
            /\ UNCHANGED <<diskVars, todo, current, trusted>>

(* A removal that is cut short leaves a torn tree, which has no pinned name. *)
Die ==
  /\ pc \notin Idle
  /\ Costs
  /\ Ends("dead")

Step ==
  \/ Verify \/ Reconcile \/ ReconcileAgain \/ FilesDone \/ TreesDone
  \/ Extract \/ Mark
  \/ \E f \in Files : InstallFile(f) \/ RefuseFile(f)
  \/ \E s \in Sources : KeepTree(s) \/ (~TreeValid(s) /\ ReplaceTree(s))

Next ==
  \/ Begin \/ Step \/ VerifySpuriously
  \/ \E f \in Files, outcome \in {"failed", "dead"} : GiveUpFile(f, outcome)
  \/ \E s \in Sources : ReplaceTree(s)
  \/ Fault \/ Die

(* Any directory: a new one, what a dead run left, or one damaged since.    *)
Init ==
  /\ marked \in BOOLEAN
  /\ file \in [Files -> FileContents]
  /\ part \in [Files -> PartContents]
  /\ tree \in [Sources -> Contents]
  /\ staging = "none" /\ backup = "none"
  /\ litter \in BOOLEAN
  /\ pc = "idle"
  /\ todo = {}
  /\ current \in Sources
  /\ faults = 0
  /\ trusted = (marked => Complete)

Spec == Init /\ [][Next]_vars

(* The operating system runs the setup process; downloads succeed once the   *)
(* faults are used up (AssetDownload, HonestServerSuffices).                *)
FairSpec == Spec /\ WF_vars(Step)

-----------------------------------------------------------------------------
(* Properties                                                              *)

(* Every variable has its type.                                            *)
TypeOK ==
  /\ marked \in BOOLEAN
  /\ file \in [Files -> FileContents]
  /\ part \in [Files -> PartContents]
  /\ tree \in [Sources -> Contents]
  /\ staging \in {"none", "torn", "whole"}
  /\ backup \in {"none", "other", "pinned"}
  /\ litter \in BOOLEAN
  /\ pc \in Labels
  /\ todo \subseteq Files
  /\ current \in Sources
  /\ faults \in 0..MaxFaults
  /\ trusted \in BOOLEAN

(* ensure_snapshot returns only over the exact snapshot, marked.            *)
EnsuredIsExact == pc = "ready" => marked /\ Exact

(* README "Repair is safe to rerun": a Repair that meets no more faults ends *)
(* with a ready snapshot, whatever contents, leftovers and marker it finds,  *)
(* but for one case: a directory or an alias at the name of a pinned file or *)
(* of its .part, or a hard link as .part.  Pruning keeps such an entry for   *)
(* its name and ensure_asset refuses it, in this Repair and in every other   *)
(* one (assets.py 408-411, 418-423, 850-852; paths.py 358-361).             *)
RepairCompletes ==
  pc = "verify" /\ faults = MaxFaults ~>
    IF \E f \in Files : Blocked(f) THEN pc = "failed" ELSE pc = "ready"

(* What the runtime is promised: the marker is the offer of a complete       *)
(* snapshot, and neither a file nor a tree of it changes while it is offered.*)
Pinned == <<[f \in Files |-> "pinned"], [s \in Sources |-> "pinned"]>>
NoOffer == <<>>
Promise == INSTANCE Installation WITH
  Environments <- {Pinned},
  Remains <- ([Files -> FileContents] \X [Sources -> Contents]) \ {Pinned},
  Absent <- NoOffer,
  offered <- IF marked /\ trusted THEN Pinned ELSE NoOffer,
  env <- <<file, tree>>

(* Snapshot implements Installation.                                       *)
ImplementsInstallation == Promise!Spec

-----------------------------------------------------------------------------
(* The inductive invariant.                                                *)

(* A marker that a run wrote, or found right, is over a complete snapshot.   *)
MarkerMeansComplete == marked /\ trusted => Complete

(* Between the removal of the marker and its return.                        *)
UnmarkedAt ==
  /\ pc \in Extracting \cup Handling \cup
           {"prune", "files", "trees", "unmark_again", "prune_again", "inventory",
            "write_marker", "publish_marker"}
       => ~marked /\ trusted
  /\ pc \in {"verify_marker", "withdraw_marker"} => marked /\ trusted

(* Nothing changes after the inventory.                                    *)
ExactAt ==
  pc \in {"write_marker", "publish_marker", "verify_marker", "withdraw_marker"} => Exact

IInv ==
  /\ TypeOK
  /\ EnsuredIsExact
  /\ MarkerMeansComplete
  /\ UnmarkedAt
  /\ ExactAt
=============================================================================
