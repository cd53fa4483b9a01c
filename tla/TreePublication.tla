--------------------------- MODULE TreePublication ---------------------------
(***************************************************************************)
(* How the derived trees and files reach their place: one publisher, called *)
(* again and again on one destination.                                     *)
(*                                                                         *)
(*   derived      the portable runtime (portable.py) and the CPU build      *)
(*                (ovoxel_cpu.py): reuse, or stage and swap with a backup   *)
(*   sources      the native and the CPU sources (dependencies.py): the     *)
(*                same from verified archives, with other handlers          *)
(*   constraints  the constraints file of pip: reuse, or remove and rename  *)
(*   workspace    a build workspace: never reused, remove and rename, in a  *)
(*                directory that is keyed by the dependency lock            *)
(*                                                                         *)
(* Labels of pc stand for the next persisted effect.  An error or a signal   *)
(* is raised there and goes to the handlers of that line; a death goes to   *)
(* none.  Staging and backup names are fresh, so what a call leaves under   *)
(* them is never looked at again.                                          *)
(***************************************************************************)
EXTENDS Naturals

CONSTANTS
  Archives,   \* the pinned archives of a source tree
  MaxFaults   \* bound: errors, signals and deaths over a behaviour

ASSUME BoundAssumption == MaxFaults \in Nat

Kinds == {"derived", "sources", "constraints", "workspace"}
Swapping == {"derived", "sources"}   \* the kinds that move the old one aside

(* other: whole but not what is derived, as an older version, or a workspace *)
(* that a build has been run in.                                           *)
Trees == {"absent", "torn", "other", "derived"}

VARIABLES
  kind,      \* the publisher
  dest,      \* the destination
  staging,   \* the tree or temporary file in preparation
  aside,     \* the backup or quarantine of this call
  archive,   \* the content of each archive
  keyed,     \* the lock directory of the workspace has its marker
  pc,        \* the next effect, or how the last call ended
  raising,   \* what the handlers answer
  faults,    \* errors, signals and deaths so far
  old,       \* history: the destination when the call began
  raised,    \* history: exceptions of the call
  at,        \* history: where the last of them was raised
  left       \* history: what the last call left under fresh names

disk == <<dest, staging, aside, archive, keyed>>
history == <<old, raised, at, left>>
vars == <<kind, disk, pc, raising, faults, history>>

Idle == {"idle", "done", "failed", "dead"}
Labels ==
  Idle \cup {"lock", "rekey", "key", "validate", "download", "clear", "clearing", "copy",
             "enter", "fill", "aside", "gap", "publish", "drop_aside", "confirm",
             "restore", "drop_staging"}

(* The validation that precedes reuse and, but for workspaces, a return.     *)
Trusted == \A a \in Archives : archive[a] = "pinned"
Valid == dest = "derived" /\ (kind = "sources" => Trusted)

-----------------------------------------------------------------------------
(* Control                                                                 *)

GoTo(next) == pc' = next /\ UNCHANGED <<kind, raising, faults, history>>

Ends(outcome) ==
  /\ pc' = outcome
  /\ left' = (IF staging # "absent" THEN {"staging"} ELSE {})
               \cup (IF aside # "absent" THEN {"aside"} ELSE {})
  /\ staging' = "absent"
  /\ aside' = "absent"
  /\ UNCHANGED <<kind, dest, archive, keyed>>

Costs == faults < MaxFaults /\ faults' = faults + 1

-----------------------------------------------------------------------------
(* The way to a staged tree                                                *)

Begin ==
  /\ pc \in Idle
  /\ pc' = IF kind = "workspace" THEN "lock" ELSE "validate"
  /\ raising' = "none"
  /\ old' = dest
  /\ raised' = 0
  /\ at' = "idle"
  /\ left' = {}
  /\ UNCHANGED <<kind, disk, faults>>

(* _prepare_build_lock_directory: output of another lock is never kept.     *)
CheckLock ==
  /\ pc = "lock"
  /\ GoTo(IF keyed THEN "copy" ELSE "rekey")
  /\ UNCHANGED disk

RemoveLockRoot ==
  /\ pc = "rekey"
  /\ dest' = "absent"
  /\ keyed' = FALSE
  /\ GoTo("key")
  /\ UNCHANGED <<staging, aside, archive>>

WriteKey ==
  /\ pc = "key"
  /\ keyed' = TRUE
  /\ GoTo("copy")
  /\ UNCHANGED <<dest, staging, aside, archive>>

(* Mutant: what has its marker is reused.                                   *)
ValidateMarker ==
  /\ pc = "validate"
  /\ \/ dest \in {"derived", "other"} /\ GoTo("done")
     \/ ~Valid /\ kind = "sources" /\ GoTo("download")
     \/ ~Valid /\ kind = "constraints" /\ GoTo("clear")
     \/ ~Valid /\ kind = "derived" /\ GoTo("copy")
  /\ UNCHANGED disk

Validate ==
  /\ pc = "validate"
  /\ \/ Valid /\ GoTo("done")
     \/ ~Valid /\ kind = "sources" /\ GoTo("download")
     \/ ~Valid /\ kind = "constraints" /\ GoTo("clear")
     \/ ~Valid /\ kind = "derived" /\ GoTo("copy")
  /\ UNCHANGED disk

(* What is right cannot be read, which its validation reports as not valid.  *)
ValidateSpuriously ==
  /\ \/ pc = "validate" /\ Valid
     \/ pc = "lock" /\ keyed
  /\ Costs
  /\ \/ kind = "sources" /\ pc' = "download"
     \/ kind = "constraints" /\ pc' = "clear"
     \/ kind = "derived" /\ pc' = "copy"
     \/ kind = "workspace" /\ pc' = "rekey"
  /\ UNCHANGED <<kind, disk, raising, history>>

(* _download_archive: a temporary file, verified and renamed.               *)
Download(a) ==
  /\ pc = "download"
  /\ archive[a] # "pinned"
  /\ archive' = [archive EXCEPT ![a] = "pinned"]
  /\ GoTo("download")
  /\ UNCHANGED <<dest, staging, aside, keyed>>

(* Mutant: a download is answered by another validation.                    *)
DownloadedAgain ==
  /\ pc = "download"
  /\ Trusted
  /\ GoTo("validate")
  /\ UNCHANGED disk

Downloaded ==
  /\ pc = "download"
  /\ Trusted
  /\ GoTo("copy")
  /\ UNCHANGED disk

(* The first effect on the staging name.                                    *)
Copy ==
  /\ pc = "copy"
  /\ staging' = "torn"
  /\ GoTo(IF kind = "sources" THEN "enter" ELSE "fill")
  /\ UNCHANGED <<dest, aside, archive, keyed>>

(* The source publishers make their staging before they enter their try.     *)
Enter ==
  /\ pc = "enter"
  /\ GoTo("fill")
  /\ UNCHANGED disk

Fill ==
  /\ pc = "fill"
  /\ staging' = "derived"
  /\ \/ kind \in Swapping /\ GoTo("aside")
     \/ kind = "constraints" /\ GoTo("publish")
     \/ kind = "workspace" /\ GoTo("clear")
  /\ UNCHANGED <<dest, aside, archive, keyed>>

-----------------------------------------------------------------------------
(* Publication                                                             *)

(* constraints, workspace: the old entry is removed, a tree piece by piece.  *)
Clear ==
  /\ pc = "clear"
  /\ dest' = IF dest = "absent" THEN "absent" ELSE "torn"
  /\ GoTo("clearing")
  /\ UNCHANGED <<staging, aside, archive, keyed>>

Cleared ==
  /\ pc = "clearing"
  /\ dest' = "absent"
  /\ GoTo(IF kind = "constraints" THEN "copy" ELSE "publish")
  /\ UNCHANGED <<staging, aside, archive, keyed>>

(* Mutant: the old tree is removed to make room.                            *)
RemoveAside ==
  /\ pc = "aside"
  /\ dest' = "absent"
  /\ GoTo(IF dest = "absent" THEN "publish" ELSE "gap")
  /\ UNCHANGED <<staging, aside, archive, keyed>>

(* derived, sources: the old tree is renamed.                               *)
MoveAside ==
  /\ pc = "aside"
  /\ aside' = dest
  /\ dest' = "absent"
  /\ GoTo(IF dest = "absent" THEN "publish" ELSE "gap")
  /\ UNCHANGED <<staging, archive, keyed>>

(* Between that rename and the try that would undo it.                      *)
EnterTry ==
  /\ pc = "gap"
  /\ GoTo("publish")
  /\ UNCHANGED disk

Publish ==
  /\ pc = "publish"
  /\ dest' = staging
  /\ staging' = "absent"
  /\ \/ kind \in Swapping /\ GoTo("drop_aside")
     \/ kind = "constraints" /\ GoTo("confirm")
     \/ kind = "workspace" /\ GoTo("done")
  /\ UNCHANGED <<aside, archive, keyed>>

DropAside ==
  /\ pc = "drop_aside"
  /\ aside' = "absent"
  /\ GoTo("confirm")
  /\ UNCHANGED <<dest, staging, archive, keyed>>

(* A publication that is not valid is refused by an error (Raise).          *)
Confirm ==
  /\ pc = "confirm"
  /\ Valid
  /\ GoTo("done")
  /\ UNCHANGED disk

-----------------------------------------------------------------------------
(* Exceptions                                                              *)

(* Mutant: the old tree is left under its backup name.                      *)
RestoreNothing ==
  /\ pc = "restore"
  /\ GoTo("drop_staging")
  /\ UNCHANGED disk

(* The inner handler, for any exception of the second rename.               *)
Restore ==
  /\ pc = "restore"
  /\ IF aside # "absent" /\ dest = "absent"
       THEN dest' = aside /\ aside' = "absent"
       ELSE UNCHANGED <<dest, aside>>
  /\ GoTo("drop_staging")
  /\ UNCHANGED <<staging, archive, keyed>>

(* Mutant: the staging is left to the next call.                            *)
KeepStaging ==
  /\ pc = "drop_staging"
  /\ Ends("failed")
  /\ UNCHANGED <<raising, faults, old, raised, at>>

(* finally of derived; of the others only `except Exception` (OSError for    *)
(* constraints), which a signal passes.                                    *)
DropStaging ==
  /\ pc = "drop_staging"
  /\ pc' = "failed"
  /\ staging' = "absent"
  /\ aside' = "absent"
  /\ left' = (IF staging # "absent" /\ raising = "signal" /\ kind # "derived"
                THEN {"staging"} ELSE {})
               \cup (IF aside # "absent" THEN {"aside"} ELSE {})
  /\ UNCHANGED <<kind, dest, archive, keyed, raising, faults, old, raised, at>>

(* Where an exception goes.  The rename of the second try may be done when a *)
(* signal arrives, or the try left.                                        *)
Handlers(sort) ==
  {h \in {"restore", "drop_staging"} :
     \/ /\ h = "restore"
        /\ \/ pc = "publish" /\ aside # "absent"
           \/ pc = "drop_aside" /\ sort = "signal"
     \/ /\ h = "drop_staging"
        /\ \/ pc \in {"fill", "aside", "gap", "drop_aside", "restore"}
           \/ pc = "copy" /\ kind # "sources"
           \/ pc = "publish" /\ aside = "absent"
           \/ pc \in {"clear", "clearing"} /\ kind = "workspace"}

Raise(sort) ==
  /\ pc \notin Idle
  /\ pc = "gap" => sort = "signal"
  /\ Costs
  /\ raising' = sort
  /\ raised' = raised + 1
  /\ at' = pc
  /\ IF Handlers(sort) = {}
       THEN Ends("failed") /\ UNCHANGED old
       ELSE pc' \in Handlers(sort) /\ UNCHANGED <<kind, disk, old, left>>

Die ==
  /\ pc \notin Idle
  /\ Costs
  /\ Ends("dead")
  /\ UNCHANGED <<raising, old, raised, at>>

(* pip builds in a workspace.                                              *)
Build ==
  /\ kind = "workspace" /\ pc = "done" /\ dest = "derived"
  /\ dest' = "other"
  /\ GoTo("idle")
  /\ UNCHANGED <<staging, aside, archive, keyed>>

Step ==
  \/ CheckLock \/ RemoveLockRoot \/ WriteKey
  \/ Validate \/ Downloaded \/ \E a \in Archives : Download(a)
  \/ Copy \/ Enter \/ Fill \/ Clear \/ Cleared \/ MoveAside \/ EnterTry \/ Publish
  \/ DropAside \/ Confirm \/ Restore \/ DropStaging

Next ==
  \/ Begin \/ Step \/ ValidateSpuriously \/ Build \/ Die
  \/ \E sort \in {"error", "signal"} : Raise(sort)

Init ==
  /\ kind \in Kinds
  /\ dest \in Trees
  /\ staging = "absent" /\ aside = "absent"
  /\ archive \in [Archives -> {"absent", "other", "pinned"}]
  /\ keyed \in BOOLEAN
  /\ pc = "idle"
  /\ raising = "none"
  /\ faults = 0
  /\ old = dest /\ raised = 0 /\ at = "idle" /\ left = {}

Spec == Init /\ [][Next]_vars

(* The operating system runs the setup process.  Nobody must call again.     *)
FairSpec == Spec /\ WF_vars(Step)

-----------------------------------------------------------------------------
(* Properties                                                              *)

(* Every variable has its type.                                            *)
TypeOK ==
  /\ kind \in Kinds
  /\ dest \in Trees
  /\ staging \in {"absent", "torn", "derived"}
  /\ aside \in Trees
  /\ archive \in [Archives -> {"absent", "other", "pinned"}]
  /\ keyed \in BOOLEAN
  /\ pc \in Labels
  /\ raising \in {"none", "error", "signal"}
  /\ faults \in 0..MaxFaults
  /\ old \in Trees
  /\ raised \in 0..MaxFaults
  /\ at \in Labels
  /\ left \subseteq {"staging", "aside"}

(* A publisher returns only over the trusted derivation, and a build never   *)
(* starts in a workspace that another build or another lock has touched      *)
(* (dependencies.py:3059).                                                 *)
DoneIsDerived ==
  pc = "done" => Valid /\ (kind = "workspace" => keyed)

(* While a publisher swaps, the old tree or the new one exists, whatever      *)
(* is raised.                                                              *)
OldOrNewExists ==
  kind \in Swapping /\ old # "absent" /\ pc \notin Idle =>
    dest \in {old, "derived"} \/ aside = old

(* After one exception the old tree or the new one is at its place, but for  *)
(* a signal between the first rename and the try, which loses both.          *)
FailedCallRestores ==
  kind \in Swapping /\ pc = "failed" /\ raised <= 1 /\ at # "gap" =>
    dest \in {old, "derived"}

(* After one error nothing is left under a fresh name but a backup that       *)
(* could not be removed, and the staging made before the try is entered.     *)
FailedCallIsClean ==
  pc = "failed" /\ raised <= 1 /\ raising # "signal" =>
    left = {} \/ (at = "drop_aside" /\ left = {"aside"})
              \/ (at = "enter" /\ left = {"staging"})

(* A call without further faults publishes, whatever earlier ones left.      *)
CallCompletes == pc \in {"lock", "validate"} /\ faults = MaxFaults ~> pc = "done"

-----------------------------------------------------------------------------
(* The inductive invariant of the proofs                                   *)

Handling == {"restore", "drop_staging"}

(* Which publishers come to a label.                                        *)
KindAt ==
  /\ pc \in {"lock", "rekey", "key"} => kind = "workspace"
  /\ pc = "validate" => kind # "workspace"
  /\ pc \in {"download", "enter"} => kind = "sources"
  /\ pc \in {"aside", "gap", "drop_aside", "restore"} => kind \in Swapping
  /\ pc \in {"clear", "clearing"} => kind \notin Swapping
  /\ pc = "confirm" => kind # "workspace"

(* The marker of the lock directory is there while a workspace is prepared.  *)
KeyedAt ==
  kind = "workspace" /\ pc \in {"copy", "fill", "clear", "clearing", "publish", "done"} =>
    keyed

(* Where the names of a call stand.                                         *)
NamesAt ==
  /\ pc \in Idle \cup {"lock", "rekey", "key", "validate", "download", "copy",
                       "drop_aside", "confirm"} => staging = "absent"
  /\ pc \in {"clear", "clearing"} /\ kind = "constraints" => staging = "absent"
  /\ pc \in {"clear", "clearing"} /\ kind = "workspace" => staging = "derived"
  /\ pc \in {"aside", "gap", "publish"} => staging = "derived"
  /\ pc \notin Handling \cup {"gap", "publish", "drop_aside"} => aside = "absent"
  /\ kind \notin Swapping => aside = "absent"
  /\ pc \in {"drop_aside", "confirm"} \/ pc = "done" => dest = "derived"

(* What a swap has done to the old tree.                                    *)
SwapAt ==
  kind \in Swapping =>
    /\ pc \in {"validate", "download", "copy", "enter", "fill", "aside"} => dest = old
    /\ pc = "gap" => aside = old /\ dest = "absent"
    /\ pc = "publish" => aside = old /\ dest = "absent"
    /\ pc = "restore" => dest = "derived" \/ (dest = "absent" /\ aside = old)
    /\ pc = "drop_staging" => dest \in {old, "derived"} \/ aside = old
    /\ pc = "drop_staging" /\ raised = 1 /\ at # "gap" => dest \in {old, "derived"}

(* What one error has left to its handlers.                                 *)
ErrorAt ==
  /\ raised <= faults
  /\ pc \notin Idle \cup Handling => raised = 0
  /\ pc \in Handling => raised >= 1
  /\ pc = "restore" /\ raised = 1 /\ raising # "signal" => dest = "absent"
  /\ pc = "drop_staging" /\ raised = 1 /\ raising # "signal" =>
       aside = "absent" \/ at = "drop_aside"

IInv ==
  /\ TypeOK /\ KindAt /\ KeyedAt /\ NamesAt /\ SwapAt /\ ErrorAt
  /\ DoneIsDerived /\ OldOrNewExists /\ FailedCallRestores /\ FailedCallIsClean
=============================================================================
