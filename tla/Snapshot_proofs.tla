--------------------------- MODULE Snapshot_proofs ---------------------------
(***************************************************************************)
(* For every set of files and trees and every number of faults: the types,  *)
(* the exactness of what ensure_snapshot returns over, and the refinement   *)
(* of Installation.                                                        *)
(*                                                                         *)
(* What makes the invariant inductive is the order of the code: whatever is *)
(* changed is changed between the removal of the marker and its return      *)
(* (UnmarkedAt), and nothing is changed after the inventory (ExactAt).      *)
(***************************************************************************)
EXTENDS Snapshot, TLAPS

LEMMA HandlerFacts ==
  /\ Handlers(pc) \subseteq Handling
  /\ Handlers(pc) # {} => pc \in Extracting \cup Handling
<1>1. CASE pc \in {"move_new", "drop_backup"}
  BY <1>1 DEF Handlers, Handling, Extracting
<1>2. CASE pc \in {"stage", "fill", "move_old", "restore"}
  BY <1>2 DEF Handlers, Handling, Extracting
<1>3. CASE pc \notin {"move_new", "drop_backup", "stage", "fill", "move_old", "restore"}
  <2>1. Handlers(pc) = {}
    BY <1>3 DEF Handlers
  <2> QED
    BY <2>1
<1> QED
  BY <1>1, <1>2, <1>3

LEMMA InitInvariant == Init => IInv
<1> SUFFICES ASSUME Init PROVE IInv
  OBVIOUS
<1>1. TypeOK
  <2>1. trusted \in BOOLEAN /\ marked \in BOOLEAN /\ litter \in BOOLEAN
    BY Zenon DEF Init
  <2>2. faults \in 0..MaxFaults
    BY BoundAssumption DEF Init
  <2> QED
    BY <2>1, <2>2 DEF Init, TypeOK, Labels, Idle
<1>2. EnsuredIsExact /\ UnmarkedAt /\ ExactAt
  BY DEF Init, EnsuredIsExact, UnmarkedAt, ExactAt, Extracting, Handling
<1>3. MarkerMeansComplete
  BY DEF Init, MarkerMeansComplete
<1> QED
  BY <1>1, <1>2, <1>3 DEF IInv

(* A step from label to label that leaves the directory alone.              *)
LEMMA WalkInvariant ==
  ASSUME IInv, NEW next \in Labels, pc' = next,
         UNCHANGED <<diskVars, trusted>>,
         todo' \subseteq Files, current' \in Sources, faults' \in 0..MaxFaults,
         \/ next \in (Idle \ {"ready"}) \cup {"verify", "unmark"}
         \/ next = "ready" /\ marked /\ Exact
         \/ /\ next \in Extracting \cup Handling \cup {"files", "trees", "unmark_again"}
            /\ ~marked /\ trusted
         \/ next \in {"write_marker", "publish_marker"} /\ ~marked /\ trusted /\ Exact
         \/ next \in {"verify_marker", "withdraw_marker"} /\ marked /\ trusted /\ Exact
  PROVE  IInv'
<1> USE DEF diskVars
<1>0. (Complete' <=> Complete) /\ (Exact' <=> Exact)
  BY DEF Exact, Complete
<1>1. TypeOK'
  BY DEF IInv, TypeOK
<1>2. EnsuredIsExact' /\ MarkerMeansComplete'
  BY <1>0 DEF IInv, EnsuredIsExact, MarkerMeansComplete, Idle, Extracting, Handling
<1>3. UnmarkedAt'
  BY DEF UnmarkedAt, Idle, Extracting, Handling
<1>4. ExactAt'
  BY <1>0 DEF ExactAt, Idle, Extracting, Handling
<1> QED
  BY <1>1, <1>2, <1>3, <1>4 DEF IInv

(* A step that changes files, trees or their companions without a marker.   *)
LEMMA WorkInvariant ==
  ASSUME IInv, ~marked, trusted, UNCHANGED <<marked, trusted>>, TypeOK',
         pc' \in (Idle \ {"ready"}) \cup Extracting \cup Handling
                   \cup {"files", "trees", "inventory", "prune", "prune_again"}
  PROVE  IInv'
<1>1. ~marked' /\ trusted'
  OBVIOUS
<1>2. EnsuredIsExact' /\ MarkerMeansComplete' /\ UnmarkedAt' /\ ExactAt'
  BY <1>1
  DEF EnsuredIsExact, MarkerMeansComplete, UnmarkedAt, ExactAt, Idle, Extracting, Handling
<1> QED
  BY <1>2 DEF IInv

(* A run that ends leaves the files, the trees and the marker alone.        *)
LEMMA EndInvariant ==
  ASSUME IInv, NEW outcome \in {"failed", "dead"}, Ends(outcome), faults' \in 0..MaxFaults
  PROVE  IInv'
<1> USE DEF Ends
<1>1. TypeOK'
  <2>1. litter' \in BOOLEAN
    BY Zenon
  <2> QED
    BY <2>1 DEF IInv, TypeOK, Labels, Idle
<1>2. MarkerMeansComplete'
  BY DEF IInv, MarkerMeansComplete, Complete
<1>3. EnsuredIsExact' /\ UnmarkedAt' /\ ExactAt'
  BY DEF EnsuredIsExact, UnmarkedAt, ExactAt, Extracting, Handling
<1> QED
  BY <1>1, <1>2, <1>3 DEF IInv

LEMMA CostFacts ==
  ASSUME Costs PROVE faults' \in 0..MaxFaults \/ faults \notin 0..MaxFaults
BY BoundAssumption DEF Costs

LEMMA EnsureInvariant ==
  ASSUME IInv,
         \/ Begin \/ Verify \/ VerifySpuriously \/ FilesDone \/ TreesDone
         \/ \E s \in Sources : KeepTree(s) \/ ReplaceTree(s)
  PROVE  IInv'
<1>f. /\ faults \in 0..MaxFaults /\ todo \subseteq Files /\ current \in Sources
      /\ Sources \subseteq Files
  BY DEF IInv, TypeOK, Files
<1>1. CASE Begin
  BY <1>1, <1>f, WalkInvariant DEF Begin, GoTo, Labels
<1>2. CASE Verify
  BY <1>2, <1>f, WalkInvariant DEF Verify, GoTo, Labels, Idle
<1>3. CASE VerifySpuriously
  BY <1>3, <1>f, CostFacts, WalkInvariant DEF VerifySpuriously, Labels
<1>4. CASE FilesDone
  BY <1>4, <1>f, WalkInvariant DEF FilesDone, GoTo, Labels, IInv, UnmarkedAt
<1>5. CASE TreesDone
  BY <1>5, <1>f, WalkInvariant DEF TreesDone, GoTo, Labels, IInv, UnmarkedAt
<1>6. ASSUME NEW s \in Sources, KeepTree(s) PROVE IInv'
  BY <1>6, <1>f, WalkInvariant DEF KeepTree, GoTo, Labels, IInv, UnmarkedAt
<1>7. ASSUME NEW s \in Sources, ReplaceTree(s) PROVE IInv'
  <2>1. faults' \in 0..MaxFaults
    BY <1>7, <1>f, CostFacts DEF ReplaceTree
  <2> QED
    BY <1>7, <1>f, <2>1, WalkInvariant
    DEF ReplaceTree, Labels, Extracting, IInv, UnmarkedAt
<1> QED
  BY <1>1, <1>2, <1>3, <1>4, <1>5, <1>6, <1>7

LEMMA ReconcileInvariant ==
  ASSUME IInv, Reconcile \/ ReconcileAgain
  PROVE  IInv'
<1>1. ASSUME NEW label, NEW next \in {"prune", "prune_again"}, Unmark(label, next)
      PROVE  IInv'
  <2>1. TypeOK'
    BY <1>1 DEF Unmark, GoTo, IInv, TypeOK, Labels
  <2>2. EnsuredIsExact' /\ MarkerMeansComplete' /\ UnmarkedAt' /\ ExactAt'
    BY <1>1
    DEF Unmark, GoTo, EnsuredIsExact, MarkerMeansComplete, UnmarkedAt, ExactAt,
        Extracting, Handling
  <2> QED
    BY <2>1, <2>2 DEF IInv
<1>2. ASSUME NEW label \in {"prune", "prune_again"}, NEW next \in {"files", "inventory"},
             NEW work \in SUBSET Files, Prune(label, next, work)
      PROVE  IInv'
  <2>1. ~marked /\ trusted
    BY <1>2 DEF Prune, IInv, UnmarkedAt
  <2>2. TypeOK'
    BY <1>2 DEF Prune, GoTo, IInv, TypeOK, Labels
  <2> QED
    BY <1>2, <2>1, <2>2, WorkInvariant DEF Prune, GoTo
<1> QED
  BY <1>1, <1>2 DEF Reconcile, ReconcileAgain

LEMMA FileInvariant ==
  ASSUME IInv, NEW f \in Files,
         \/ InstallFile(f) \/ RefuseFile(f)
         \/ \E outcome \in {"failed", "dead"} : GiveUpFile(f, outcome)
  PROVE  IInv'
<1>1. InstallFile(f) \/ (\E outcome \in {"failed", "dead"} : GiveUpFile(f, outcome))
      => ~marked /\ trusted
  BY DEF InstallFile, GiveUpFile, IInv, UnmarkedAt
<1>2. CASE InstallFile(f)
  <2>1. TypeOK'
    BY <1>2 DEF InstallFile, GoTo, IInv, TypeOK, Labels, FileContents, Contents, PartContents
  <2> QED
    BY <1>1, <1>2, <2>1, WorkInvariant DEF InstallFile, GoTo
<1>3. ASSUME NEW outcome \in {"failed", "dead"}, GiveUpFile(f, outcome) PROVE IInv'
  <2>1. faults' \in 0..MaxFaults
    BY <1>3, CostFacts DEF GiveUpFile, IInv, TypeOK
  <2>2. TypeOK'
    BY <1>3, <2>1
    DEF GiveUpFile, IInv, TypeOK, Labels, Idle, FileContents, Contents, PartContents
  <2> QED
    BY <1>1, <1>3, <2>2, WorkInvariant DEF GiveUpFile, Idle
<1>4. CASE RefuseFile(f)
  <2>1. faults' \in 0..MaxFaults
    BY <1>4 DEF RefuseFile, Refuse, IInv, TypeOK
  <2> QED
    BY <1>4, <2>1, EndInvariant DEF RefuseFile, Refuse
<1> QED
  BY <1>2, <1>3, <1>4

LEMMA ExtractInvariant ==
  ASSUME IInv, Extract
  PROVE  IInv'
<1> USE DEF GoTo
<1>1. ~marked /\ trusted
  BY DEF Extract, Stage, Fill, MoveOld, MoveNew, DropBackup, VerifyTree, Restore,
         DropStaging, IInv, UnmarkedAt, Extracting, Handling
<1>2. CASE Stage \/ Fill \/ DropBackup
  <2>1. TypeOK'
    BY <1>2 DEF Stage, Fill, DropBackup, IInv, TypeOK, Labels, Extracting
  <2> QED
    BY <1>1, <1>2, <2>1, WorkInvariant DEF Stage, Fill, DropBackup, Extracting
<1>3. CASE MoveOld \/ MoveNew
  <2>1. TypeOK'
    BY <1>3 DEF MoveOld, MoveNew, IInv, TypeOK, Labels, Extracting, Contents
  <2> QED
    BY <1>1, <1>3, <2>1, WorkInvariant DEF MoveOld, MoveNew, Extracting
<1>4. CASE VerifyTree
  <2>1. TypeOK'
    BY <1>4 DEF VerifyTree, diskVars, IInv, TypeOK, Labels
  <2> QED
    BY <1>1, <1>4, <2>1, WorkInvariant DEF VerifyTree, diskVars
<1>5. CASE Restore
  <2>1. tree' \in [Sources -> Contents] /\ backup' \in {"none", "other", "pinned"}
    BY <1>5 DEF Restore, IInv, TypeOK, Contents
  <2>2. TypeOK'
    BY <1>5, <2>1 DEF Restore, IInv, TypeOK, Labels, Handling
  <2> QED
    BY <1>1, <1>5, <2>2, WorkInvariant DEF Restore, Handling
<1>6. CASE DropStaging
  <2>1. litter' \in BOOLEAN
    BY <1>6, Zenon DEF DropStaging
  <2>2. TypeOK'
    BY <1>6, <2>1 DEF DropStaging, IInv, TypeOK, Labels, Idle
  <2> QED
    BY <1>1, <1>6, <2>2, WorkInvariant DEF DropStaging, Idle
<1> QED
  BY <1>2, <1>3, <1>4, <1>5, <1>6 DEF Extract

LEMMA MarkInvariant ==
  ASSUME IInv, Mark
  PROVE  IInv'
<1>f. /\ faults \in 0..MaxFaults /\ todo \subseteq Files /\ current \in Sources
  BY DEF IInv, TypeOK
<1>1. CASE Inventory
  <2>1. CASE Exact
    BY <1>1, <2>1, <1>f, WalkInvariant DEF Inventory, GoTo, Labels, IInv, UnmarkedAt
  <2>2. CASE ~Exact
    BY <1>1, <2>2, <1>f, EndInvariant DEF Inventory, Refuse
  <2> QED
    BY <2>1, <2>2
<1>2. CASE WriteMarker
  BY <1>2, <1>f, WalkInvariant DEF WriteMarker, GoTo, Labels, IInv, UnmarkedAt, ExactAt
<1>3. CASE PublishMarker
  <2> USE <1>3 DEF PublishMarker, GoTo
  <2>1. Exact /\ trusted
    BY DEF IInv, UnmarkedAt, ExactAt
  <2>2. Exact' /\ Complete' /\ marked' /\ trusted'
    BY <2>1 DEF Exact, Complete
  <2>3. TypeOK'
    BY DEF IInv, TypeOK, Labels
  <2>4. EnsuredIsExact' /\ MarkerMeansComplete' /\ UnmarkedAt' /\ ExactAt'
    BY <2>2
    DEF EnsuredIsExact, MarkerMeansComplete, UnmarkedAt, ExactAt, Extracting, Handling
  <2> QED
    BY <2>3, <2>4 DEF IInv
<1>4. CASE VerifyMarker
  BY <1>4, <1>f, WalkInvariant DEF VerifyMarker, GoTo, Labels, Idle, IInv, UnmarkedAt, ExactAt
<1>5. CASE VerifyMarkerSpuriously
  <2>1. faults' \in 0..MaxFaults
    BY <1>5, <1>f, CostFacts DEF VerifyMarkerSpuriously
  <2> QED
    BY <1>5, <1>f, <2>1, WalkInvariant
    DEF VerifyMarkerSpuriously, Labels, IInv, UnmarkedAt, ExactAt
<1>6. CASE WithdrawMarker
  <2> USE <1>6 DEF WithdrawMarker, GoTo
  <2>1. TypeOK'
    BY DEF IInv, TypeOK, Labels, Idle
  <2>2. EnsuredIsExact' /\ MarkerMeansComplete' /\ UnmarkedAt' /\ ExactAt'
    BY DEF EnsuredIsExact, MarkerMeansComplete, UnmarkedAt, ExactAt, Extracting, Handling
  <2> QED
    BY <2>1, <2>2 DEF IInv
<1> QED
  BY <1>1, <1>2, <1>3, <1>4, <1>5, <1>6 DEF Mark

LEMMA BreakInvariant ==
  ASSUME IInv, Fault \/ Die
  PROVE  IInv'
<1>f. /\ faults \in 0..MaxFaults /\ todo \subseteq Files /\ current \in Sources
  BY DEF IInv, TypeOK
<1>1. faults' \in 0..MaxFaults
  BY <1>f, CostFacts DEF Fault, Die
<1>2. CASE Die
  BY <1>1, <1>2, EndInvariant DEF Die
<1>3. CASE Fault /\ Handlers(pc) = {}
  BY <1>1, <1>3, EndInvariant DEF Fault
<1>4. CASE Fault /\ Handlers(pc) # {}
  <2>1. pc' \in Handling /\ ~marked /\ trusted
    BY <1>4, HandlerFacts DEF Fault, IInv, UnmarkedAt
  <2>2. TypeOK'
    BY <1>1, <1>4, <2>1 DEF Fault, diskVars, IInv, TypeOK, Labels
  <2> QED
    BY <1>4, <2>1, <2>2, WorkInvariant DEF Fault, diskVars
<1> QED
  BY <1>2, <1>3, <1>4

LEMMA NextInvariant == IInv /\ [Next]_vars => IInv'
<1> SUFFICES ASSUME IInv, [Next]_vars PROVE IInv'
  OBVIOUS
<1>1. CASE UNCHANGED vars
  BY <1>1
  DEF vars, diskVars, IInv, TypeOK, EnsuredIsExact, MarkerMeansComplete, UnmarkedAt,
      ExactAt, Exact, Complete
<1>2. CASE Begin \/ Verify \/ VerifySpuriously \/ FilesDone \/ TreesDone
             \/ \E s \in Sources : KeepTree(s) \/ ReplaceTree(s)
  BY <1>2, EnsureInvariant
<1>3. CASE Reconcile \/ ReconcileAgain
  BY <1>3, ReconcileInvariant
<1>4. CASE \E f \in Files :
             \/ InstallFile(f) \/ RefuseFile(f)
             \/ \E outcome \in {"failed", "dead"} : GiveUpFile(f, outcome)
  BY <1>4, FileInvariant
<1>5. CASE Extract
  BY <1>5, ExtractInvariant
<1>6. CASE Mark
  BY <1>6, MarkInvariant
<1>7. CASE Fault \/ Die
  BY <1>7, BreakInvariant
<1> QED
  BY <1>1, <1>2, <1>3, <1>4, <1>5, <1>6, <1>7 DEF Next, Step

LEMMA Invariant == Spec => []IInv
BY InitInvariant, NextInvariant, PTL DEF Spec

(* Type correctness, for any sets of files and trees and any faults.        *)
THEOREM SnapshotTypeCorrect == Spec => []TypeOK
<1>1. IInv => TypeOK
  BY DEF IInv
<1> QED
  BY <1>1, Invariant, PTL

(* ensure_snapshot (assets.py 920-964) returns only over the exact pinned    *)
(* layout with its marker, after any faults, deaths and earlier runs.       *)
THEOREM EnsuredSnapshotIsExact == Spec => []EnsuredIsExact
<1>1. IInv => EnsuredIsExact
  BY DEF IInv
<1> QED
  BY <1>1, Invariant, PTL

-----------------------------------------------------------------------------
(* The refinement.                                                         *)

LEMMA CompleteIsPinned == ASSUME TypeOK, Complete PROVE <<file, tree>> = Pinned
<1>1. file = [f \in Files |-> "pinned"]
  BY DEF TypeOK, Complete
<1>2. tree = [s \in Sources |-> "pinned"]
  BY DEF TypeOK, Complete
<1> QED
  BY <1>1, <1>2 DEF Pinned

(* A file or a tree changes only while there is no marker.                  *)
LEMMA ChangesAreUnmarked ==
  ASSUME IInv, Next, <<file, tree>>' # <<file, tree>>
  PROVE  ~marked /\ ~marked'
<1>1. \/ \E f \in Files : InstallFile(f)
      \/ \E f \in Files, outcome \in {"failed", "dead"} : GiveUpFile(f, outcome)
      \/ MoveOld \/ MoveNew \/ Restore
  <2>1. CASE Extract
    BY <2>1 DEF Extract, Stage, Fill, DropBackup, VerifyTree, DropStaging, diskVars
  <2>2. CASE Mark
    BY <2>2 DEF Mark, Inventory, Refuse, Ends, WriteMarker, PublishMarker, VerifyMarker,
                VerifyMarkerSpuriously, WithdrawMarker, diskVars
  <2>3. CASE Reconcile \/ ReconcileAgain
    BY <2>3 DEF Reconcile, ReconcileAgain, Unmark, Prune
  <2>4. CASE Fault \/ Die \/ \E f \in Files : RefuseFile(f)
    BY <2>4 DEF Fault, Die, RefuseFile, Refuse, Ends, diskVars
  <2>5. CASE Begin \/ Verify \/ VerifySpuriously \/ FilesDone \/ TreesDone
               \/ \E s \in Sources : KeepTree(s) \/ ReplaceTree(s)
    BY <2>5 DEF Begin, Verify, VerifySpuriously, FilesDone, TreesDone, KeepTree, ReplaceTree,
                diskVars
  <2> QED
    BY <2>1, <2>2, <2>3, <2>4, <2>5 DEF Next, Step
<1>2. marked' = marked
  BY <1>1 DEF InstallFile, GiveUpFile, MoveOld, MoveNew, Restore
<1>3. ~marked
  BY <1>1 DEF InstallFile, GiveUpFile, MoveOld, MoveNew, Restore, IInv, UnmarkedAt, Extracting, Handling
<1> QED
  BY <1>2, <1>3

(* The marker is set over a complete snapshot, and trusted only when set so. *)
LEMMA MarkerSteps ==
  ASSUME IInv, Next
  PROVE  trusted' = trusted \/ ~marked'
<1>1. CASE Extract
  BY <1>1 DEF Extract, Stage, Fill, MoveOld, MoveNew, DropBackup, VerifyTree, Restore,
              DropStaging
<1>2. CASE Mark
  BY <1>2 DEF Mark, Inventory, Refuse, Ends, WriteMarker, PublishMarker, VerifyMarker,
              VerifyMarkerSpuriously, WithdrawMarker
<1>3. CASE Reconcile \/ ReconcileAgain
  BY <1>3 DEF Reconcile, ReconcileAgain, Unmark, Prune
<1>4. CASE Fault \/ Die
  BY <1>4 DEF Fault, Die, Ends
<1>5. CASE Begin \/ Verify \/ VerifySpuriously \/ FilesDone \/ TreesDone
             \/ \E s \in Sources : KeepTree(s) \/ ReplaceTree(s)
  BY <1>5 DEF Begin, Verify, VerifySpuriously, FilesDone, TreesDone, KeepTree, ReplaceTree
<1>6. CASE \E f \in Files :
             \/ InstallFile(f) \/ RefuseFile(f)
             \/ \E outcome \in {"failed", "dead"} : GiveUpFile(f, outcome)
  BY <1>6 DEF InstallFile, RefuseFile, Refuse, Ends, GiveUpFile
<1> QED
  BY <1>1, <1>2, <1>3, <1>4, <1>5, <1>6 DEF Next, Step

(* A marker offers a complete snapshot that does not change while it is      *)
(* offered: the run that works on it has withdrawn the offer first.         *)
THEOREM SnapshotImplementsInstallation == Spec => ImplementsInstallation
<1> DEFINE offer == IF marked /\ trusted THEN Pinned ELSE NoOffer
           env == <<file, tree>>
<1>0. TypeOK => env \in {Pinned} \cup (([Files -> FileContents] \X [Sources -> Contents]) \ {Pinned})
  BY DEF TypeOK
<1>1. Init => Promise!Init
  <2> SUFFICES ASSUME Init PROVE Promise!Init
    OBVIOUS
  <2>1. TypeOK /\ MarkerMeansComplete
    BY InitInvariant DEF IInv
  <2>2. offer # NoOffer => offer = env
    BY <2>1, CompleteIsPinned DEF MarkerMeansComplete
  <2>3. offer \in {Pinned} \cup {NoOffer}
    OBVIOUS
  <2> QED
    BY <1>0, <2>1, <2>2, <2>3 DEF Promise!Init, Promise!TypeOK
<1>2. IInv /\ IInv' /\ [Next]_vars => [Promise!Next]_<<offer, env>>
  <2> SUFFICES ASSUME IInv, IInv', [Next]_vars PROVE [Promise!Next]_<<offer, env>>
    OBVIOUS
  <2>1. CASE UNCHANGED vars
    BY <2>1 DEF vars, diskVars
  <2>2. CASE Next /\ env' # env
    <3>1. offer = NoOffer /\ offer' = NoOffer
      BY <2>2, ChangesAreUnmarked
    <3>2. env' \in [Files -> FileContents] \X [Sources -> Contents]
      BY DEF IInv, TypeOK
    <3>3. Promise!Rework
      BY <3>1, <3>2 DEF Promise!Rework
    <3> QED
      BY <3>3 DEF Promise!Next
  <2>3. CASE Next /\ env' = env /\ marked' /\ trusted'
    <3>1. env' = Pinned
      BY <2>3, CompleteIsPinned DEF IInv, TypeOK, MarkerMeansComplete, Complete
    <3> QED
      BY <2>3, <3>1 DEF Promise!Next, Promise!Offer
  <2>4. CASE Next /\ env' = env /\ ~(marked' /\ trusted')
    BY <2>4 DEF Promise!Next, Promise!Withdraw
  <2> QED
    BY <2>1, <2>2, <2>3, <2>4
<1> QED
  BY <1>1, <1>2, Invariant, PTL DEF Spec, ImplementsInstallation, Promise!Spec
=============================================================================
