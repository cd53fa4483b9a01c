------------------------ MODULE MetadataNormalization ------------------------
(***************************************************************************)
(* The correction of one installed wheel (dependencies.py 1281-2269): its   *)
(* WHEEL and RECORD carry a platform tag that pip must see normalized.       *)
(*                                                                         *)
(*   inspection   every file of the package and of its dist-info is opened   *)
(*                relative to an open directory, hashed, and found again     *)
(*                unchanged under its name after all have been hashed        *)
(*   publication  two temporaries are written beside WHEEL and RECORD, the   *)
(*                originals read once more, and replaced, WHEEL first         *)
(*                                                                         *)
(* Another process may write into the tree meanwhile: the pip of a setup     *)
(* that was killed.  An identity (inode, size, times) that is unchanged       *)
(* stands for content that is unchanged, so a file that is hashed between    *)
(* two equal identities is read in one step.                                *)
(***************************************************************************)
EXTENDS Naturals

CONSTANTS
  Package,     \* the files of the package, the library among them
  Library,
  Fixed,       \* the files of dist-info that the correction leaves alone
  MaxWrites,   \* bound: what the other process does over a behaviour
  MaxFaults    \* bound: errors, signals and deaths over a behaviour

Metadata == {"WHEEL", "RECORD"}
Dist == Fixed \cup Metadata
Names == Package \cup Dist

ASSUME FilesAssumption ==
  /\ Library \in Package
  /\ Package \cap Dist = {} /\ Fixed \cap Metadata = {}
ASSUME BoundAssumption == MaxWrites \in Nat /\ MaxFaults \in Nat

Contents == {"original", "normalized", "other", "absent"}
States == {"original", "normalized"}

VARIABLES
  file,      \* the content under each name
  extra,     \* the directories with entries of no audited name
  bound,     \* the path of the venv still leads to the opened directories
  staging,   \* the venv is the staging one
  task,      \* normalize or verify
  round,     \* the first inspection of a call or the final one
  pc,
  todo,      \* the names that the phase has not reached
  seen,      \* the content that was hashed
  same,      \* the hashed names that are as they were hashed
  state,     \* what the inspection has judged
  leaf,      \* which of WHEEL and RECORD the publication is at
  temp,      \* their temporaries
  ours,      \* the names that are linked to our temporaries
  writes, faults,
  whole,     \* history: the states the tree was in since the inspection began
  broken     \* history: the call was interrupted while it wrote or cleaned up

locals == <<todo, seen, same>>
inspection == <<locals, state, round>>
publication == <<leaf, temp, ours>>
vars == <<file, extra, bound, staging, task, pc, inspection, publication, writes, faults,
          whole, broken>>

Idle == {"idle", "done", "failed", "dead"}
Inspecting == {"inspect", "package", "package_again", "list_dist", "dist", "dist_again",
               "judge", "load", "again", "conclude"}
Publishing == {"publish", "create", "fill", "unstage", "rebind", "read", "replace",
               "confirm", "sync"}
Labels == Idle \cup {"open", "cleanup"} \cup Inspecting \cup Publishing

-----------------------------------------------------------------------------
(* The tree                                                                *)

(* The exact content of a name in an audited state.                         *)
Audited(s, n) == IF n \in Metadata THEN s ELSE "original"

StatesOf(files) == {s \in States : \A n \in Names : files[n] = Audited(s, n)}
Sees == whole' = whole \cup StatesOf(file')

-----------------------------------------------------------------------------
(* Control                                                                 *)

Unchanged(n) == n \in same

(* The inventories are closed.                                             *)
Forget ==
  /\ todo' = {}
  /\ seen' = [n \in Names |-> "absent"]
  /\ same' = {}

(* An exception: the publication cleans up, the rest closes descriptors.     *)
Ends(outcome, kept) ==
  /\ pc' = outcome
  /\ extra' = IF \E n \in kept : temp[n] \in {"torn", "staged"}
                THEN extra \cup {"dist"} ELSE extra
  /\ temp' = [n \in Metadata |-> "none"]
  /\ leaf' = "WHEEL" /\ ours' = {}
  /\ Forget
  /\ UNCHANGED <<file, bound, staging, task, state, round>>

Escapes ==
  IF pc \in Publishing
    THEN /\ pc' = "cleanup"
         /\ UNCHANGED <<file, extra, bound, staging, task, inspection, publication>>
    ELSE Ends("failed", Metadata)

Fails ==
  /\ Escapes
  /\ Sees
  /\ UNCHANGED <<writes, faults, broken>>

(* A check that goes on or raises.                                          *)
Check(condition, next) ==
  \/ ~condition /\ Fails
  \/ /\ condition
     /\ pc' = next
     /\ UNCHANGED <<file, extra, bound, staging, task, inspection, publication,
                    writes, faults, broken>>
     /\ Sees

Silent == UNCHANGED <<extra, bound, staging, task, writes, faults, broken>>

-----------------------------------------------------------------------------
(* Calls and inspection                                                    *)

Call(t) ==
  /\ pc \in Idle
  /\ pc' = "open"
  /\ task' = t
  /\ round' = 1
  /\ broken' = FALSE
  /\ UNCHANGED <<file, extra, bound, staging, todo, seen, same, state, publication,
                 writes, faults>>
  /\ Sees

Open == pc = "open" /\ Check(bound, "inspect")

Inspect ==
  /\ pc = "inspect"
  /\ IF "package" \in extra
       THEN Ends("failed", Metadata)
       ELSE /\ pc' = "package"
            /\ todo' = Package
            /\ same' = {}
            /\ UNCHANGED <<file, extra, bound, staging, task, seen, state, round, publication>>
  /\ whole' = StatesOf(file)
  /\ UNCHANGED <<writes, faults, broken>>

(* _snapshot_open_file                                                      *)
Hash(n) ==
  /\ pc \in {"package", "dist"} /\ n \in todo
  /\ IF file[n] = "absent"
       THEN Ends("failed", Metadata)
       ELSE /\ seen' = [seen EXCEPT ![n] = file[n]]
            /\ same' = same \cup {n}
            /\ todo' = todo \ {n}
            /\ UNCHANGED <<pc, file, extra, bound, staging, task, state, round, publication>>
  /\ Sees
  /\ UNCHANGED <<writes, faults, broken>>

Hashed(here, names, next) ==
  /\ pc = here /\ todo = {}
  /\ pc' = next
  /\ todo' = names
  /\ Silent
  /\ UNCHANGED <<file, seen, same, state, round, publication>>
  /\ Sees

HashedPackage == Hashed("package", Package, "package_again")
RecheckedPackage == Hashed("package_again", Dist, "list_dist")
HashedDist == Hashed("dist", Dist, "dist_again")
RecheckedDist == Hashed("dist_again", Names, "judge")

ListDist == pc = "list_dist" /\ Check("dist" \notin extra, "dist")

(* Mutant: the last revalidation takes the first one's word.                *)
RecheckTrusting(n) ==
  /\ pc \in {"package_again", "dist_again", "again"} /\ n \in todo
  /\ pc = "again" /\ n \in Dist => todo \cap Package = {}
  /\ IF Unchanged(n) \/ pc = "again"
       THEN /\ todo' = todo \ {n}
            /\ UNCHANGED <<pc, file, extra, bound, staging, task, seen, same, state, round,
                           publication>>
       ELSE Ends("failed", Metadata)
  /\ Sees
  /\ UNCHANGED <<writes, faults, broken>>

(* _verify_file_snapshot, in an inventory and in the last revalidation.      *)
Recheck(n) ==
  /\ pc \in {"package_again", "dist_again", "again"} /\ n \in todo
  /\ pc = "again" /\ n \in Dist => todo \cap Package = {}
  /\ IF Unchanged(n)
       THEN /\ todo' = todo \ {n}
            /\ UNCHANGED <<pc, file, extra, bound, staging, task, seen, same, state, round,
                           publication>>
       ELSE Ends("failed", Metadata)
  /\ Sees
  /\ UNCHANGED <<writes, faults, broken>>

Judge ==
  /\ pc = "judge"
  /\ \/ /\ state' \in {s \in States : \A n \in Names : seen[n] = Audited(s, n)}
        /\ pc' = "load"
        /\ UNCHANGED <<file, extra, bound, staging, task, todo, seen, same, round, publication>>
     \/ /\ \A s \in States : \E n \in Names : seen[n] # Audited(s, n)
        /\ Ends("failed", Metadata)
  /\ Sees
  /\ UNCHANGED <<writes, faults, broken>>

Load == pc = "load" /\ Check(Unchanged(Library), "again")

RecheckedAll == Hashed("again", {}, "conclude")

(* The directories lead to the opened ones; what the caller does with the    *)
(* report.                                                                 *)
Report(next) ==
  /\ pc' = next
  /\ Forget
  /\ Silent
  /\ UNCHANGED <<file, state, round, publication>>
  /\ Sees

Refuse ==
  /\ pc = "conclude"
  /\ ~bound \/ (state = "original" /\ (task = "verify" \/ ~staging \/ round = 2))
  /\ Fails

Conclude ==
  /\ pc = "conclude" /\ bound
  /\ \/ state = "normalized" /\ Report("done")
     \/ state = "original" /\ task = "normalize" /\ staging /\ round = 1 /\ Report("publish")

-----------------------------------------------------------------------------
(* Publication                                                             *)

To(next, at) == pc' = next /\ leaf' = at

Publish ==
  /\ pc = "publish" /\ bound
  /\ ours' = {}
  /\ To("create", "WHEEL")
  /\ Silent /\ UNCHANGED <<file, inspection, temp>> /\ Sees

Create ==
  /\ pc = "create"
  /\ temp' = [temp EXCEPT ![leaf] = "torn"]
  /\ To("fill", leaf)
  /\ Silent /\ UNCHANGED <<file, inspection, ours>> /\ Sees

Fill ==
  /\ pc = "fill"
  /\ temp' = [temp EXCEPT ![leaf] = "staged"]
  /\ IF leaf = "WHEEL" THEN To("create", "RECORD") ELSE To("rebind", "WHEEL")
  /\ Silent /\ UNCHANGED <<file, inspection, ours>> /\ Sees

(* The handler of _write_fsynced_temporary_at.                              *)
Unstage ==
  /\ pc = "unstage"
  /\ temp' = [temp EXCEPT ![leaf] = "none"]
  /\ To("cleanup", leaf)
  /\ Silent /\ UNCHANGED <<file, inspection, ours>> /\ Sees

Unbound == pc \in {"publish", "rebind"} /\ ~bound /\ Fails

Rebind ==
  /\ pc = "rebind" /\ bound
  /\ To("read", "WHEEL")
  /\ Silent /\ UNCHANGED <<file, inspection, temp, ours>> /\ Sees

Read ==
  /\ pc = "read" /\ file[leaf] = "original"
  /\ IF leaf = "WHEEL" THEN To("read", "RECORD") ELSE To("replace", "WHEEL")
  /\ Silent /\ UNCHANGED <<file, inspection, temp, ours>> /\ Sees

ReadOther == pc = "read" /\ file[leaf] # "original" /\ Fails

(* Mutant: RECORD first.                                                    *)
ReplaceRecordFirst ==
  /\ pc = "replace"
  /\ LET n == IF leaf = "WHEEL" THEN "RECORD" ELSE "WHEEL" IN
       /\ file' = [file EXCEPT ![n] = "normalized"]
       /\ temp' = [temp EXCEPT ![n] = "moved"]
       /\ ours' = ours \cup {n}
       /\ same' = same \ {n}
  /\ To("confirm", leaf)
  /\ Silent /\ UNCHANGED <<todo, seen, state, round>> /\ Sees

Replace ==
  /\ pc = "replace"
  /\ file' = [file EXCEPT ![leaf] = "normalized"]
  /\ temp' = [temp EXCEPT ![leaf] = "moved"]
  /\ ours' = ours \cup {leaf}
  /\ same' = same \ {leaf}
  /\ To("confirm", leaf)
  /\ Silent /\ UNCHANGED <<todo, seen, state, round>> /\ Sees

(* Mutant: the whole identity is compared, which a rename changes.           *)
ConfirmIdentity == pc = "confirm" /\ Check(leaf \in ours \cap same, "sync")

(* _verify_published_leaf                                                   *)
Confirm == pc = "confirm" /\ Check(leaf \in ours, "sync")

Sync ==
  /\ pc = "sync" /\ bound
  /\ IF leaf = "WHEEL"
       THEN To("replace", "RECORD") /\ UNCHANGED round
       ELSE To("inspect", leaf) /\ round' = 2
  /\ Silent /\ UNCHANGED <<file, todo, seen, same, state, temp, ours>> /\ Sees

SyncUnbound == pc = "sync" /\ ~bound /\ Fails

(* finally: what was staged and not published is unlinked.                   *)
Cleanup ==
  /\ pc = "cleanup"
  /\ Ends("failed", {n \in Metadata : temp[n] = "torn"})
  /\ Sees
  /\ UNCHANGED <<writes, faults, broken>>

-----------------------------------------------------------------------------
(* Exceptions, deaths and the other process                                *)

Costs == faults < MaxFaults /\ faults' = faults + 1

(* An OSError, a failed load or a signal.  A signal that comes while a        *)
(* temporary is written passes its handler, and an unlink that fails is       *)
(* ignored.                                                                *)
Raise(sort) ==
  /\ pc \notin Idle
  /\ Costs
  /\ broken' = (broken \/ pc \in {"unstage", "cleanup"} \/ (pc = "fill" /\ sort = "signal"))
  /\ \/ /\ pc = "fill" /\ sort = "error"
        /\ pc' = "unstage"
        /\ UNCHANGED <<file, extra, bound, staging, task, inspection, publication>>
     \/ /\ pc = "cleanup"
        /\ Ends("failed", Metadata)
     \/ /\ ~(pc = "fill" /\ sort = "error") /\ pc # "cleanup"
        /\ Escapes
  /\ Sees
  /\ UNCHANGED writes

Die ==
  /\ pc \notin Idle
  /\ Costs
  /\ Ends("dead", Metadata)
  /\ Sees
  /\ UNCHANGED <<writes, broken>>

Interferes == writes < MaxWrites /\ writes' = writes + 1

Write(n, c) ==
  /\ Interferes
  /\ file' = [file EXCEPT ![n] = c]
  /\ same' = same \ {n}
  /\ ours' = ours \ {n}
  /\ Sees
  /\ UNCHANGED <<extra, bound, staging, task, pc, todo, seen, state, round, leaf, temp,
                 faults, broken>>

AddEntry(d) ==
  /\ Interferes
  /\ extra' = extra \cup {d}
  /\ UNCHANGED <<file, bound, staging, task, pc, inspection, publication, faults, broken>>
  /\ Sees

Relink ==
  /\ Interferes
  /\ bound' = ~bound
  /\ UNCHANGED <<file, extra, staging, task, pc, inspection, publication, faults, broken>>
  /\ Sees

Step ==
  \/ Open \/ Inspect \/ \E n \in Names : Hash(n) \/ Recheck(n)
  \/ HashedPackage \/ RecheckedPackage \/ ListDist \/ HashedDist \/ RecheckedDist
  \/ Judge \/ Load \/ RecheckedAll \/ Refuse \/ Conclude
  \/ Publish \/ Create \/ Fill \/ Unstage \/ Unbound \/ Rebind \/ Read \/ ReadOther
  \/ Replace \/ Confirm \/ Sync \/ SyncUnbound \/ Cleanup

Next ==
  \/ Step \/ Die
  \/ \E t \in {"normalize", "verify"} : Call(t)
  \/ \E sort \in {"error", "signal"} : Raise(sort)
  \/ \E n \in Names, c \in {"original", "other", "absent"} : Write(n, c)
  \/ \E d \in {"package", "dist"} : AddEntry(d)
  \/ Relink

Init ==
  /\ file \in [Names -> Contents \ {"absent"}]
  /\ \A n \in Package \cup Fixed : file[n] # "normalized"
  /\ extra = {}
  /\ bound = TRUE
  /\ staging \in BOOLEAN
  /\ task = "verify" /\ round = 1
  /\ pc = "idle"
  /\ todo = {} /\ same = {}
  /\ seen = [n \in Names |-> "absent"]
  /\ state = "original"
  /\ leaf = "WHEEL"
  /\ temp = [n \in Metadata |-> "none"]
  /\ ours = {}
  /\ writes = 0 /\ faults = 0
  /\ whole = StatesOf(file)
  /\ broken = FALSE

Spec == Init /\ [][Next]_vars

(* The operating system runs the setup process.  Nobody must call, and the   *)
(* other process may do nothing.                                           *)
FairSpec == Spec /\ WF_vars(Step)

-----------------------------------------------------------------------------
(* Properties                                                              *)

(* Every variable has its type.                                            *)
TypeOK ==
  /\ file \in [Names -> Contents] /\ seen \in [Names -> Contents]
  /\ extra \subseteq {"package", "dist"}
  /\ bound \in BOOLEAN /\ staging \in BOOLEAN /\ broken \in BOOLEAN
  /\ task \in {"normalize", "verify"} /\ round \in 1..2
  /\ pc \in Labels
  /\ todo \subseteq Names /\ same \subseteq Names
  /\ state \in States /\ whole \subseteq States
  /\ leaf \in Metadata
  /\ temp \in [Metadata -> {"none", "torn", "staged", "moved"}]
  /\ ours \subseteq Metadata
  /\ writes \in 0..MaxWrites /\ faults \in 0..MaxFaults

(* What an inspection reports was there: at some moment since it began every *)
(* audited file had its content of the reported state at once, whatever      *)
(* another process wrote.  So nothing is published but over the whole        *)
(* original.                                                               *)
ReportedWasThere ==
  pc \in {"conclude", "done", "cleanup"} \cup Publishing => state \in whole

(* Undisturbed, what is written begins with the whole original and ends with *)
(* the whole normalized metadata, RECORD last, and never outside the staging *)
(* venv.                                                                   *)
PublicationIsOrdered ==
  [][writes' = 0 /\ file' # file =>
       /\ staging
       /\ \/ StatesOf(file) = {"original"} /\ file' = [file EXCEPT !["WHEEL"] = "normalized"]
          \/ StatesOf(file') = {"normalized"}]_vars

(* A call that fails leaves a temporary, which every later inspection would   *)
(* refuse, only if it was interrupted while it wrote or cleaned up.          *)
FailureIsClean ==
  [][pc # "failed" /\ pc' = "failed" /\ extra' # extra =>
       broken']_vars

(* Undisturbed, a normalization of the original in a staging venv succeeds,   *)
(* and so does every later call.                                           *)
Applicable ==
  /\ bound /\ extra = {}
  /\ \/ StatesOf(file) = {"normalized"}
     \/ StatesOf(file) = {"original"} /\ task = "normalize" /\ staging

UndisturbedCallCompletes ==
  pc = "open" /\ writes = MaxWrites /\ faults = MaxFaults /\ Applicable ~> pc = "done"

-----------------------------------------------------------------------------
(* The inductive invariant of the proofs                                   *)

(* A name that is as it was hashed holds what was hashed.                   *)
Collected == \A n \in same : file[n] = seen[n]

(* Once all names are hashed, either all were as hashed at that moment, or    *)
(* one was not: it never will be again, and the last revalidation has yet    *)
(* to come to it.                                                          *)
JudgedAt ==
  /\ pc = "judge" => todo = Names
  /\ pc \in {"load", "again"} => state \in whole \/ \E n \in todo : n \notin same

Unpublished ==
  pc \in {"publish", "create", "fill", "unstage", "rebind", "read"}
    \/ (pc = "replace" /\ leaf = "WHEEL")

HalfPublished ==
  \/ pc = "replace" /\ leaf = "RECORD"
  \/ pc \in {"confirm", "sync"} /\ leaf = "WHEEL"

(* Undisturbed, an inspection sees one state, and the publication adds one   *)
(* file to it at a time.                                                   *)
OrderedAt ==
  /\ pc \in Publishing => staging /\ state = "original"
  /\ (writes = 0 /\ (pc \in Inspecting \ {"inspect"} \/ Unpublished)) =>
       whole \subseteq StatesOf(file)
  /\ (writes = 0 /\ HalfPublished) =>
       \A n \in Names : file[n] = IF n = "WHEEL" THEN "normalized" ELSE "original"

(* Which temporaries there are.                                            *)
TempAt ==
  /\ pc \notin Publishing \cup {"cleanup"} => \A n \in Metadata : temp[n] \in {"none", "moved"}
  /\ \A n \in Metadata :
       temp[n] = "torn" => broken \/ (pc \in {"fill", "unstage"} /\ n = leaf)
  /\ pc \in {"confirm", "sync"} => temp[leaf] = "moved"
  /\ pc \in {"replace", "confirm", "sync"} /\ leaf = "RECORD" => temp["WHEEL"] = "moved"

IInv == TypeOK /\ Collected /\ JudgedAt /\ ReportedWasThere /\ OrderedAt /\ TempAt
=============================================================================
