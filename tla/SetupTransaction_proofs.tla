----------------------- MODULE SetupTransaction_proofs -----------------------
(***************************************************************************)
(* Proofs about SetupTransaction for every set of plans and every bound on  *)
(* exceptions and crashes: type correctness, the invariant that a published *)
(* configuration always describes a whole environment, that what waits in   *)
(* the backup names can be restored, that the transaction implements        *)
(* Installation, and how a run ends: with one generation if it succeeds,    *)
(* with the previous one if its check or its publication fails.             *)
(*                                                                         *)
(* IInv is proved inductive function by function of setup.py.  The leaves   *)
(* use the content records only through ContentFacts.                      *)
(***************************************************************************)
EXTENDS SetupTransaction, TLAPS

(* What a content record is, without its fields.                           *)
LEMMA ContentFacts ==
  /\ \A p \in Plans : /\ Whole(p) \in Content /\ Torn(p) \in Content
                      /\ Whole(p).plan = p /\ Torn(p).plan = p
                      /\ Whole(p).whole /\ ~Torn(p).whole
                      /\ Whole(p) # Absent /\ Whole(p) # Foreign
                      /\ Torn(p) # Absent /\ Torn(p) # Foreign
  /\ \A c \in Content : c.plan \in Plans /\ c # Absent /\ c # Foreign
  /\ Absent # Foreign /\ Absent \notin Content /\ Foreign \notin Content
<1>1. \A p \in Plans : Whole(p) \in Content /\ Torn(p) \in Content
  BY DEF Content, Whole, Torn
<1>2. \A p \in Plans : /\ Whole(p).plan = p /\ Torn(p).plan = p
                       /\ Whole(p).whole /\ ~Torn(p).whole
  BY DEF Whole, Torn
<1>3. \A c \in Content : c.plan \in Plans
  BY DEF Content
<1>4. QED
  BY <1>1, <1>2, <1>3, ContentAssumption

(* The initial directory satisfies the invariant.                          *)
LEMMA InitInvariant == Init => IInv
<1> SUFFICES ASSUME Init PROVE IInv
  OBVIOUS
<1>1. TypeOK
  BY ContentFacts, BoundAssumption
  DEF Init, InitialDirectory, TypeOK, Paths, Trees, Files, Idle, Moves
<1>2. ConfigDescribesEnvironment /\ BackupIsRestorable
  BY ContentFacts
  DEF Init, InitialDirectory, ConfigDescribesEnvironment, BackupIsRestorable,
      Exists, Paths, Trees, Files
<1>3. WithdrawnAt /\ MovedAt /\ BackupAt /\ ConfigBackupAt /\ VerifiedAt
  BY DEF Init, WithdrawnAt, MovedAt, BackupAt, ConfigBackupAt, VerifiedAt,
         RecoverLabels, BuildLabels, UndoLabels, CommitLabels, Promoted
<1>4. QED
  BY <1>1, <1>2, <1>3 DEF IInv

-----------------------------------------------------------------------------
(* The operators every step is made of, the label sets and the parts of the *)
(* invariant: the step lemmas are about these.                             *)
USE DEF Effect, Skip, Refuse, Raise, Raises, Completes, Handler, Promoted,
        DropFile, MoveFile, RestoreFile, RemoveTree, MoveTree, Exists, IsTree,
        Paths, Trees, Files, Moves, Idle, Running, RecoverLabels, BuildLabels,
        SwapLabels, UndoLabels, CleanupLabels, RollbackLabels, CommitLabels,
        IInv, TypeOK, ConfigDescribesEnvironment, BackupIsRestorable,
        WithdrawnAt, MovedAt, BackupAt, ConfigBackupAt, VerifiedAt

(* Every step of _recover_environment_transaction keeps the invariant. *)
LEMMA RecoveryStep ==
  ASSUME IInv, Recovery
  PROVE  IInv'
<1>1. CASE Recover
  <2>1. TypeOK'
    BY <1>1, SMTT(60), ContentFacts, BoundAssumption DEF Recover, InterruptedSwap
  <2>2. (ConfigDescribesEnvironment /\ BackupIsRestorable)'
    BY <1>1, SMTT(60), ContentFacts DEF Recover, InterruptedSwap
  <2>3. (WithdrawnAt /\ MovedAt /\ BackupAt /\ ConfigBackupAt /\ VerifiedAt)'
    BY <1>1, SMTT(60), ContentFacts DEF Recover, InterruptedSwap
  <2>4. QED
    BY <2>1, <2>2, <2>3
<1>2. CASE RecDropVenv
  <2>1. TypeOK'
    BY <1>2, SMTT(60), ContentFacts, BoundAssumption DEF RecDropVenv
  <2>2. (ConfigDescribesEnvironment /\ BackupIsRestorable)'
    BY <1>2, SMTT(60), ContentFacts DEF RecDropVenv
  <2>3. (WithdrawnAt /\ MovedAt /\ BackupAt /\ ConfigBackupAt /\ VerifiedAt)'
    BY <1>2, SMTT(60), ContentFacts DEF RecDropVenv
  <2>4. QED
    BY <2>1, <2>2, <2>3
<1>3. CASE RecRestoreVenv
  <2>1. TypeOK'
    BY <1>3, SMTT(60), ContentFacts, BoundAssumption DEF RecRestoreVenv
  <2>2. (ConfigDescribesEnvironment /\ BackupIsRestorable)'
    BY <1>3, SMTT(60), ContentFacts DEF RecRestoreVenv
  <2>3. (WithdrawnAt /\ MovedAt /\ BackupAt /\ ConfigBackupAt /\ VerifiedAt)'
    BY <1>3, SMTT(60), ContentFacts DEF RecRestoreVenv
  <2>4. QED
    BY <2>1, <2>2, <2>3
<1>4. CASE RecRestoreConfig
  <2>1. TypeOK'
    BY <1>4, SMTT(60), ContentFacts, BoundAssumption DEF RecRestoreConfig
  <2>2. (ConfigDescribesEnvironment /\ BackupIsRestorable)'
    BY <1>4, SMTT(60), ContentFacts DEF RecRestoreConfig
  <2>3. (WithdrawnAt /\ MovedAt /\ BackupAt /\ ConfigBackupAt /\ VerifiedAt)'
    BY <1>4, SMTT(60), ContentFacts DEF RecRestoreConfig
  <2>4. QED
    BY <2>1, <2>2, <2>3
<1>5. CASE RecRestoreState
  <2>1. TypeOK'
    BY <1>5, SMTT(60), ContentFacts, BoundAssumption DEF RecRestoreState
  <2>2. (ConfigDescribesEnvironment /\ BackupIsRestorable)'
    BY <1>5, SMTT(60), ContentFacts DEF RecRestoreState
  <2>3. (WithdrawnAt /\ MovedAt /\ BackupAt /\ ConfigBackupAt /\ VerifiedAt)'
    BY <1>5, SMTT(60), ContentFacts DEF RecRestoreState
  <2>4. QED
    BY <2>1, <2>2, <2>3
<1>6. CASE RecSettleBackup
  <2>1. TypeOK'
    BY <1>6, SMTT(60), ContentFacts, BoundAssumption DEF RecSettleBackup
  <2>2. (ConfigDescribesEnvironment /\ BackupIsRestorable)'
    BY <1>6, SMTT(60), ContentFacts DEF RecSettleBackup
  <2>3. (WithdrawnAt /\ MovedAt /\ BackupAt /\ ConfigBackupAt /\ VerifiedAt)'
    BY <1>6, SMTT(60), ContentFacts DEF RecSettleBackup
  <2>4. QED
    BY <2>1, <2>2, <2>3
<1>7. CASE RecSettleConfig
  <2>1. TypeOK'
    BY <1>7, SMTT(60), ContentFacts, BoundAssumption DEF RecSettleConfig
  <2>2. (ConfigDescribesEnvironment /\ BackupIsRestorable)'
    BY <1>7, SMTT(60), ContentFacts DEF RecSettleConfig
  <2>3. (WithdrawnAt /\ MovedAt /\ BackupAt /\ ConfigBackupAt /\ VerifiedAt)'
    BY <1>7, SMTT(60), ContentFacts DEF RecSettleConfig
  <2>4. QED
    BY <2>1, <2>2, <2>3
<1>8. CASE RecStaging
  <2>1. TypeOK'
    BY <1>8, SMTT(60), ContentFacts, BoundAssumption DEF RecStaging
  <2>2. (ConfigDescribesEnvironment /\ BackupIsRestorable)'
    BY <1>8, SMTT(60), ContentFacts DEF RecStaging
  <2>3. (WithdrawnAt /\ MovedAt /\ BackupAt /\ ConfigBackupAt /\ VerifiedAt)'
    BY <1>8, SMTT(60), ContentFacts DEF RecStaging
  <2>4. QED
    BY <2>1, <2>2, <2>3
<1>9. CASE RecStateStaging
  <2>1. TypeOK'
    BY <1>9, SMTT(60), ContentFacts, BoundAssumption DEF RecStateStaging
  <2>2. (ConfigDescribesEnvironment /\ BackupIsRestorable)'
    BY <1>9, SMTT(60), ContentFacts DEF RecStateStaging
  <2>3. (WithdrawnAt /\ MovedAt /\ BackupAt /\ ConfigBackupAt /\ VerifiedAt)'
    BY <1>9, SMTT(60), ContentFacts DEF RecStateStaging
  <2>4. QED
    BY <2>1, <2>2, <2>3
<1>10. CASE RecStateBackup
  <2>1. TypeOK'
    BY <1>10, SMTT(60), ContentFacts, BoundAssumption DEF RecStateBackup
  <2>2. (ConfigDescribesEnvironment /\ BackupIsRestorable)'
    BY <1>10, SMTT(60), ContentFacts DEF RecStateBackup
  <2>3. (WithdrawnAt /\ MovedAt /\ BackupAt /\ ConfigBackupAt /\ VerifiedAt)'
    BY <1>10, SMTT(60), ContentFacts DEF RecStateBackup
  <2>4. QED
    BY <2>1, <2>2, <2>3
<1>11. CASE RecConfigBackup
  <2>1. TypeOK'
    BY <1>11, SMTT(60), ContentFacts, BoundAssumption DEF RecConfigBackup
  <2>2. (ConfigDescribesEnvironment /\ BackupIsRestorable)'
    BY <1>11, SMTT(60), ContentFacts DEF RecConfigBackup
  <2>3. (WithdrawnAt /\ MovedAt /\ BackupAt /\ ConfigBackupAt /\ VerifiedAt)'
    BY <1>11, SMTT(60), ContentFacts DEF RecConfigBackup
  <2>4. QED
    BY <2>1, <2>2, <2>3
<1> QED
  BY <1>1, <1>2, <1>3, <1>4, <1>5, <1>6, <1>7, <1>8, <1>9, <1>10, <1>11 DEF Recovery

(* Every step of _reusable_environment keeps the invariant. *)
LEMMA ReuseStep ==
  ASSUME IInv, Reuse
  PROVE  IInv'
<1>1. CASE RejectUnusable
  <2>1. TypeOK'
    BY <1>1, SMTT(60), ContentFacts, BoundAssumption DEF RejectUnusable, NoPython
  <2>2. (ConfigDescribesEnvironment /\ BackupIsRestorable)'
    BY <1>1, SMTT(60), ContentFacts DEF RejectUnusable, NoPython
  <2>3. (WithdrawnAt /\ MovedAt /\ BackupAt /\ ConfigBackupAt /\ VerifiedAt)'
    BY <1>1, SMTT(60), ContentFacts DEF RejectUnusable, NoPython
  <2>4. QED
    BY <2>1, <2>2, <2>3
<1>2. CASE RejectOtherState
  <2>1. TypeOK'
    BY <1>2, SMTT(60), ContentFacts, BoundAssumption DEF RejectOtherState, StateMatches
  <2>2. (ConfigDescribesEnvironment /\ BackupIsRestorable)'
    BY <1>2, SMTT(60), ContentFacts DEF RejectOtherState, StateMatches
  <2>3. (WithdrawnAt /\ MovedAt /\ BackupAt /\ ConfigBackupAt /\ VerifiedAt)'
    BY <1>2, SMTT(60), ContentFacts DEF RejectOtherState, StateMatches
  <2>4. QED
    BY <2>1, <2>2, <2>3
<1>3. CASE RejectUnverified
  <2>1. TypeOK'
    BY <1>3, SMTT(60), ContentFacts, BoundAssumption DEF RejectUnverified, StateMatches
  <2>2. (ConfigDescribesEnvironment /\ BackupIsRestorable)'
    BY <1>3, SMTT(60), ContentFacts DEF RejectUnverified, StateMatches
  <2>3. (WithdrawnAt /\ MovedAt /\ BackupAt /\ ConfigBackupAt /\ VerifiedAt)'
    BY <1>3, SMTT(60), ContentFacts DEF RejectUnverified, StateMatches
  <2>4. QED
    BY <2>1, <2>2, <2>3
<1>4. CASE RejectSpuriously
  <2>1. TypeOK'
    BY <1>4, SMTT(60), ContentFacts, BoundAssumption DEF RejectSpuriously, StateMatches
  <2>2. (ConfigDescribesEnvironment /\ BackupIsRestorable)'
    BY <1>4, SMTT(60), ContentFacts DEF RejectSpuriously, StateMatches
  <2>3. (WithdrawnAt /\ MovedAt /\ BackupAt /\ ConfigBackupAt /\ VerifiedAt)'
    BY <1>4, SMTT(60), ContentFacts DEF RejectSpuriously, StateMatches
  <2>4. QED
    BY <2>1, <2>2, <2>3
<1>5. CASE ReuseVenv
  <2>1. TypeOK'
    BY <1>5, SMTT(60), ContentFacts, BoundAssumption DEF ReuseVenv, StateMatches
  <2>2. (ConfigDescribesEnvironment /\ BackupIsRestorable)'
    BY <1>5, SMTT(60), ContentFacts DEF ReuseVenv, StateMatches
  <2>3. (WithdrawnAt /\ MovedAt /\ BackupAt /\ ConfigBackupAt /\ VerifiedAt)'
    BY <1>5, SMTT(60), ContentFacts DEF ReuseVenv, StateMatches
  <2>4. QED
    BY <2>1, <2>2, <2>3
<1> QED
  BY <1>1, <1>2, <1>3, <1>4, <1>5 DEF Reuse

(* Every step of _install_environment and the head of _promote_environment keeps the invariant. *)
LEMMA InstallingStep ==
  ASSUME IInv, Install \/ Build \/ WriteState \/ CleanupStaging \/ CleanupState \/ Promote
  PROVE  IInv'
<1>1. CASE Install
  <2>1. TypeOK'
    BY <1>1, SMTT(60), ContentFacts, BoundAssumption DEF Install
  <2>2. (ConfigDescribesEnvironment /\ BackupIsRestorable)'
    BY <1>1, SMTT(60), ContentFacts DEF Install
  <2>3. (WithdrawnAt /\ MovedAt /\ BackupAt /\ ConfigBackupAt /\ VerifiedAt)'
    BY <1>1, SMTT(60), ContentFacts DEF Install
  <2>4. QED
    BY <2>1, <2>2, <2>3
<1>2. CASE Build
  <2>1. TypeOK'
    BY <1>2, SMTT(60), ContentFacts, BoundAssumption DEF Build
  <2>2. (ConfigDescribesEnvironment /\ BackupIsRestorable)'
    BY <1>2, SMTT(60), ContentFacts DEF Build
  <2>3. (WithdrawnAt /\ MovedAt /\ BackupAt /\ ConfigBackupAt /\ VerifiedAt)'
    BY <1>2, SMTT(60), ContentFacts DEF Build
  <2>4. QED
    BY <2>1, <2>2, <2>3
<1>3. CASE WriteState
  <2>1. TypeOK'
    BY <1>3, SMTT(60), ContentFacts, BoundAssumption DEF WriteState
  <2>2. (ConfigDescribesEnvironment /\ BackupIsRestorable)'
    BY <1>3, SMTT(60), ContentFacts DEF WriteState
  <2>3. (WithdrawnAt /\ MovedAt /\ BackupAt /\ ConfigBackupAt /\ VerifiedAt)'
    BY <1>3, SMTT(60), ContentFacts DEF WriteState
  <2>4. QED
    BY <2>1, <2>2, <2>3
<1>4. CASE CleanupStaging
  <2>1. TypeOK'
    BY <1>4, SMTT(60), ContentFacts, BoundAssumption DEF CleanupStaging
  <2>2. (ConfigDescribesEnvironment /\ BackupIsRestorable)'
    BY <1>4, SMTT(60), ContentFacts DEF CleanupStaging
  <2>3. (WithdrawnAt /\ MovedAt /\ BackupAt /\ ConfigBackupAt /\ VerifiedAt)'
    BY <1>4, SMTT(60), ContentFacts DEF CleanupStaging
  <2>4. QED
    BY <2>1, <2>2, <2>3
<1>5. CASE CleanupState
  <2>1. TypeOK'
    BY <1>5, SMTT(60), ContentFacts, BoundAssumption DEF CleanupState
  <2>2. (ConfigDescribesEnvironment /\ BackupIsRestorable)'
    BY <1>5, SMTT(60), ContentFacts DEF CleanupState
  <2>3. (WithdrawnAt /\ MovedAt /\ BackupAt /\ ConfigBackupAt /\ VerifiedAt)'
    BY <1>5, SMTT(60), ContentFacts DEF CleanupState
  <2>4. QED
    BY <2>1, <2>2, <2>3
<1>6. CASE Promote
  <2>1. TypeOK'
    BY <1>6, SMTT(60), ContentFacts, BoundAssumption DEF Promote
  <2>2. (ConfigDescribesEnvironment /\ BackupIsRestorable)'
    BY <1>6, SMTT(60), ContentFacts DEF Promote
  <2>3. (WithdrawnAt /\ MovedAt /\ BackupAt /\ ConfigBackupAt /\ VerifiedAt)'
    BY <1>6, SMTT(60), ContentFacts DEF Promote
  <2>4. QED
    BY <2>1, <2>2, <2>3
<1> QED
  BY <1>1, <1>2, <1>3, <1>4, <1>5, <1>6

(* Every step of the swap of _promote_environment keeps the invariant. *)
LEMMA SwapStep ==
  ASSUME IInv, Swap
  PROVE  IInv'
<1>1. CASE MoveConfig
  <2>1. TypeOK'
    BY <1>1, SMTT(60), ContentFacts, BoundAssumption DEF MoveConfig
  <2>2. (ConfigDescribesEnvironment /\ BackupIsRestorable)'
    BY <1>1, SMTT(60), ContentFacts DEF MoveConfig
  <2>3. (WithdrawnAt /\ MovedAt /\ BackupAt /\ ConfigBackupAt /\ VerifiedAt)'
    BY <1>1, SMTT(60), ContentFacts DEF MoveConfig
  <2>4. QED
    BY <2>1, <2>2, <2>3
<1>2. CASE MoveVenv
  <2>1. TypeOK'
    BY <1>2, SMTT(60), ContentFacts, BoundAssumption DEF MoveVenv
  <2>2. (ConfigDescribesEnvironment /\ BackupIsRestorable)'
    BY <1>2, SMTT(60), ContentFacts DEF MoveVenv
  <2>3. (WithdrawnAt /\ MovedAt /\ BackupAt /\ ConfigBackupAt /\ VerifiedAt)'
    BY <1>2, SMTT(60), ContentFacts DEF MoveVenv
  <2>4. QED
    BY <2>1, <2>2, <2>3
<1>3. CASE PromoteVenv
  <2>1. TypeOK'
    BY <1>3, SMTT(60), ContentFacts, BoundAssumption DEF PromoteVenv
  <2>2. (ConfigDescribesEnvironment /\ BackupIsRestorable)'
    BY <1>3, SMTT(60), ContentFacts DEF PromoteVenv
  <2>3. (WithdrawnAt /\ MovedAt /\ BackupAt /\ ConfigBackupAt /\ VerifiedAt)'
    BY <1>3, SMTT(60), ContentFacts DEF PromoteVenv
  <2>4. QED
    BY <2>1, <2>2, <2>3
<1>4. CASE Check
  <2>1. TypeOK'
    BY <1>4, SMTT(60), ContentFacts, BoundAssumption DEF Check
  <2>2. (ConfigDescribesEnvironment /\ BackupIsRestorable)'
    BY <1>4, SMTT(60), ContentFacts DEF Check
  <2>3. (WithdrawnAt /\ MovedAt /\ BackupAt /\ ConfigBackupAt /\ VerifiedAt)'
    BY <1>4, SMTT(60), ContentFacts DEF Check
  <2>4. QED
    BY <2>1, <2>2, <2>3
<1>5. CASE MoveState
  <2>1. TypeOK'
    BY <1>5, SMTT(60), ContentFacts, BoundAssumption DEF MoveState
  <2>2. (ConfigDescribesEnvironment /\ BackupIsRestorable)'
    BY <1>5, SMTT(60), ContentFacts DEF MoveState
  <2>3. (WithdrawnAt /\ MovedAt /\ BackupAt /\ ConfigBackupAt /\ VerifiedAt)'
    BY <1>5, SMTT(60), ContentFacts DEF MoveState
  <2>4. QED
    BY <2>1, <2>2, <2>3
<1>6. CASE PromoteState
  <2>1. TypeOK'
    BY <1>6, SMTT(60), ContentFacts, BoundAssumption DEF PromoteState
  <2>2. (ConfigDescribesEnvironment /\ BackupIsRestorable)'
    BY <1>6, SMTT(60), ContentFacts DEF PromoteState
  <2>3. (WithdrawnAt /\ MovedAt /\ BackupAt /\ ConfigBackupAt /\ VerifiedAt)'
    BY <1>6, SMTT(60), ContentFacts DEF PromoteState
  <2>4. QED
    BY <2>1, <2>2, <2>3
<1> QED
  BY <1>1, <1>2, <1>3, <1>4, <1>5, <1>6 DEF Swap

(* Every step of the except clause of _promote_environment keeps the invariant. *)
LEMMA UndoStep ==
  ASSUME IInv, Undo
  PROVE  IInv'
<1>1. CASE UndoNewState
  <2>1. TypeOK'
    BY <1>1, SMTT(60), ContentFacts, BoundAssumption DEF UndoNewState
  <2>2. (ConfigDescribesEnvironment /\ BackupIsRestorable)'
    BY <1>1, SMTT(60), ContentFacts DEF UndoNewState
  <2>3. (WithdrawnAt /\ MovedAt /\ BackupAt /\ ConfigBackupAt /\ VerifiedAt)'
    BY <1>1, SMTT(60), ContentFacts DEF UndoNewState
  <2>4. QED
    BY <2>1, <2>2, <2>3
<1>2. CASE UndoOldState
  <2>1. TypeOK'
    BY <1>2, SMTT(60), ContentFacts, BoundAssumption DEF UndoOldState
  <2>2. (ConfigDescribesEnvironment /\ BackupIsRestorable)'
    BY <1>2, SMTT(60), ContentFacts DEF UndoOldState
  <2>3. (WithdrawnAt /\ MovedAt /\ BackupAt /\ ConfigBackupAt /\ VerifiedAt)'
    BY <1>2, SMTT(60), ContentFacts DEF UndoOldState
  <2>4. QED
    BY <2>1, <2>2, <2>3
<1>3. CASE UndoVenv
  <2>1. TypeOK'
    BY <1>3, SMTT(60), ContentFacts, BoundAssumption DEF UndoVenv
  <2>2. (ConfigDescribesEnvironment /\ BackupIsRestorable)'
    BY <1>3, SMTT(60), ContentFacts DEF UndoVenv
  <2>3. (WithdrawnAt /\ MovedAt /\ BackupAt /\ ConfigBackupAt /\ VerifiedAt)'
    BY <1>3, SMTT(60), ContentFacts DEF UndoVenv
  <2>4. QED
    BY <2>1, <2>2, <2>3
<1>4. CASE UndoSwap
  <2>1. TypeOK'
    BY <1>4, SMTT(60), ContentFacts, BoundAssumption DEF UndoSwap
  <2>2. (ConfigDescribesEnvironment /\ BackupIsRestorable)'
    BY <1>4, SMTT(60), ContentFacts DEF UndoSwap
  <2>3. (WithdrawnAt /\ MovedAt /\ BackupAt /\ ConfigBackupAt /\ VerifiedAt)'
    BY <1>4, SMTT(60), ContentFacts DEF UndoSwap
  <2>4. QED
    BY <2>1, <2>2, <2>3
<1>5. CASE UndoConfig
  <2>1. TypeOK'
    BY <1>5, SMTT(60), ContentFacts, BoundAssumption DEF UndoConfig
  <2>2. (ConfigDescribesEnvironment /\ BackupIsRestorable)'
    BY <1>5, SMTT(60), ContentFacts DEF UndoConfig
  <2>3. (WithdrawnAt /\ MovedAt /\ BackupAt /\ ConfigBackupAt /\ VerifiedAt)'
    BY <1>5, SMTT(60), ContentFacts DEF UndoConfig
  <2>4. QED
    BY <2>1, <2>2, <2>3
<1> QED
  BY <1>1, <1>2, <1>3, <1>4, <1>5 DEF Undo

(* Every step of publication and _commit_environment_promotion keeps the invariant. *)
LEMMA PublishingStep ==
  ASSUME IInv, Publish \/ CommitBackup \/ CommitState \/ CommitConfig
  PROVE  IInv'
<1>1. CASE Publish
  <2>1. TypeOK'
    BY <1>1, SMTT(60), ContentFacts, BoundAssumption DEF Publish
  <2>2. (ConfigDescribesEnvironment /\ BackupIsRestorable)'
    BY <1>1, SMTT(60), ContentFacts DEF Publish
  <2>3. (WithdrawnAt /\ MovedAt /\ BackupAt /\ ConfigBackupAt /\ VerifiedAt)'
    BY <1>1, SMTT(60), ContentFacts DEF Publish
  <2>4. QED
    BY <2>1, <2>2, <2>3
<1>2. CASE CommitBackup
  <2>1. TypeOK'
    BY <1>2, SMTT(60), ContentFacts, BoundAssumption DEF CommitBackup
  <2>2. (ConfigDescribesEnvironment /\ BackupIsRestorable)'
    BY <1>2, SMTT(60), ContentFacts DEF CommitBackup
  <2>3. (WithdrawnAt /\ MovedAt /\ BackupAt /\ ConfigBackupAt /\ VerifiedAt)'
    BY <1>2, SMTT(60), ContentFacts DEF CommitBackup
  <2>4. QED
    BY <2>1, <2>2, <2>3
<1>3. CASE CommitState
  <2>1. TypeOK'
    BY <1>3, SMTT(60), ContentFacts, BoundAssumption DEF CommitState
  <2>2. (ConfigDescribesEnvironment /\ BackupIsRestorable)'
    BY <1>3, SMTT(60), ContentFacts DEF CommitState
  <2>3. (WithdrawnAt /\ MovedAt /\ BackupAt /\ ConfigBackupAt /\ VerifiedAt)'
    BY <1>3, SMTT(60), ContentFacts DEF CommitState
  <2>4. QED
    BY <2>1, <2>2, <2>3
<1>4. CASE CommitConfig
  <2>1. TypeOK'
    BY <1>4, SMTT(60), ContentFacts, BoundAssumption DEF CommitConfig
  <2>2. (ConfigDescribesEnvironment /\ BackupIsRestorable)'
    BY <1>4, SMTT(60), ContentFacts DEF CommitConfig
  <2>3. (WithdrawnAt /\ MovedAt /\ BackupAt /\ ConfigBackupAt /\ VerifiedAt)'
    BY <1>4, SMTT(60), ContentFacts DEF CommitConfig
  <2>4. QED
    BY <2>1, <2>2, <2>3
<1> QED
  BY <1>1, <1>2, <1>3, <1>4

(* Every step of _rollback_environment_promotion keeps the invariant. *)
LEMMA RollbackStep ==
  ASSUME IInv, Rollback
  PROVE  IInv'
<1>1. CASE RbConfig
  <2>1. TypeOK'
    BY <1>1, SMTT(60), ContentFacts, BoundAssumption DEF RbConfig
  <2>2. (ConfigDescribesEnvironment /\ BackupIsRestorable)'
    BY <1>1, SMTT(60), ContentFacts DEF RbConfig
  <2>3. (WithdrawnAt /\ MovedAt /\ BackupAt /\ ConfigBackupAt /\ VerifiedAt)'
    BY <1>1, SMTT(60), ContentFacts DEF RbConfig
  <2>4. QED
    BY <2>1, <2>2, <2>3
<1>2. CASE RbDropBackup
  <2>1. TypeOK'
    BY <1>2, SMTT(60), ContentFacts, BoundAssumption DEF RbDropBackup
  <2>2. (ConfigDescribesEnvironment /\ BackupIsRestorable)'
    BY <1>2, SMTT(60), ContentFacts DEF RbDropBackup
  <2>3. (WithdrawnAt /\ MovedAt /\ BackupAt /\ ConfigBackupAt /\ VerifiedAt)'
    BY <1>2, SMTT(60), ContentFacts DEF RbDropBackup
  <2>4. QED
    BY <2>1, <2>2, <2>3
<1>3. CASE RbState
  <2>1. TypeOK'
    BY <1>3, SMTT(60), ContentFacts, BoundAssumption DEF RbState
  <2>2. (ConfigDescribesEnvironment /\ BackupIsRestorable)'
    BY <1>3, SMTT(60), ContentFacts DEF RbState
  <2>3. (WithdrawnAt /\ MovedAt /\ BackupAt /\ ConfigBackupAt /\ VerifiedAt)'
    BY <1>3, SMTT(60), ContentFacts DEF RbState
  <2>4. QED
    BY <2>1, <2>2, <2>3
<1>4. CASE RbVenv
  <2>1. TypeOK'
    BY <1>4, SMTT(60), ContentFacts, BoundAssumption DEF RbVenv
  <2>2. (ConfigDescribesEnvironment /\ BackupIsRestorable)'
    BY <1>4, SMTT(60), ContentFacts DEF RbVenv
  <2>3. (WithdrawnAt /\ MovedAt /\ BackupAt /\ ConfigBackupAt /\ VerifiedAt)'
    BY <1>4, SMTT(60), ContentFacts DEF RbVenv
  <2>4. QED
    BY <2>1, <2>2, <2>3
<1>5. CASE RbSwap
  <2>1. TypeOK'
    BY <1>5, SMTT(60), ContentFacts, BoundAssumption DEF RbSwap
  <2>2. (ConfigDescribesEnvironment /\ BackupIsRestorable)'
    BY <1>5, SMTT(60), ContentFacts DEF RbSwap
  <2>3. (WithdrawnAt /\ MovedAt /\ BackupAt /\ ConfigBackupAt /\ VerifiedAt)'
    BY <1>5, SMTT(60), ContentFacts DEF RbSwap
  <2>4. QED
    BY <2>1, <2>2, <2>3
<1>6. CASE RbRestoreState
  <2>1. TypeOK'
    BY <1>6, SMTT(60), ContentFacts, BoundAssumption DEF RbRestoreState
  <2>2. (ConfigDescribesEnvironment /\ BackupIsRestorable)'
    BY <1>6, SMTT(60), ContentFacts DEF RbRestoreState
  <2>3. (WithdrawnAt /\ MovedAt /\ BackupAt /\ ConfigBackupAt /\ VerifiedAt)'
    BY <1>6, SMTT(60), ContentFacts DEF RbRestoreState
  <2>4. QED
    BY <2>1, <2>2, <2>3
<1>7. CASE RbRestoreConfig
  <2>1. TypeOK'
    BY <1>7, SMTT(60), ContentFacts, BoundAssumption DEF RbRestoreConfig
  <2>2. (ConfigDescribesEnvironment /\ BackupIsRestorable)'
    BY <1>7, SMTT(60), ContentFacts DEF RbRestoreConfig
  <2>3. (WithdrawnAt /\ MovedAt /\ BackupAt /\ ConfigBackupAt /\ VerifiedAt)'
    BY <1>7, SMTT(60), ContentFacts DEF RbRestoreConfig
  <2>4. QED
    BY <2>1, <2>2, <2>3
<1>8. CASE RbDropState
  <2>1. TypeOK'
    BY <1>8, SMTT(60), ContentFacts, BoundAssumption DEF RbDropState
  <2>2. (ConfigDescribesEnvironment /\ BackupIsRestorable)'
    BY <1>8, SMTT(60), ContentFacts DEF RbDropState
  <2>3. (WithdrawnAt /\ MovedAt /\ BackupAt /\ ConfigBackupAt /\ VerifiedAt)'
    BY <1>8, SMTT(60), ContentFacts DEF RbDropState
  <2>4. QED
    BY <2>1, <2>2, <2>3
<1>9. CASE RbDropConfig
  <2>1. TypeOK'
    BY <1>9, SMTT(60), ContentFacts, BoundAssumption DEF RbDropConfig
  <2>2. (ConfigDescribesEnvironment /\ BackupIsRestorable)'
    BY <1>9, SMTT(60), ContentFacts DEF RbDropConfig
  <2>3. (WithdrawnAt /\ MovedAt /\ BackupAt /\ ConfigBackupAt /\ VerifiedAt)'
    BY <1>9, SMTT(60), ContentFacts DEF RbDropConfig
  <2>4. QED
    BY <2>1, <2>2, <2>3
<1> QED
  BY <1>1, <1>2, <1>3, <1>4, <1>5, <1>6, <1>7, <1>8, <1>9 DEF Rollback

(* A new run, an exception before an effect and a crash keep the invariant: *)
(* none of them touches the directory, and the labels they lead to demand   *)
(* no more of it than the label they leave.                                 *)
LEMMA BreakStep ==
  ASSUME IInv, (\E p \in Plans : Begin(p)) \/ Fault \/ Crash
  PROVE  IInv'
<1>1. CASE \E p \in Plans : Begin(p)
  BY <1>1, SMTT(60), BoundAssumption DEF Begin
<1>2. CASE Fault
  <2>1. TypeOK'
    BY <1>2, SMTT(60), BoundAssumption DEF Fault
  <2>2. (ConfigDescribesEnvironment /\ BackupIsRestorable)'
    BY <1>2, SMTT(60) DEF Fault
  <2>3. (WithdrawnAt /\ MovedAt /\ BackupAt /\ ConfigBackupAt /\ VerifiedAt)'
    BY <1>2, SMTT(60) DEF Fault
  <2>4. QED
    BY <2>1, <2>2, <2>3
<1>3. CASE Crash
  BY <1>3, SMTT(60), BoundAssumption DEF Crash
<1> QED
  BY <1>1, <1>2, <1>3

(* IInv is inductive.                                                      *)
LEMMA NextInvariant == IInv /\ [Next]_vars => IInv'
<1> SUFFICES ASSUME IInv, [Next]_vars PROVE IInv'
  OBVIOUS
<1> USE DEF Step
<1>1. CASE \E p \in Plans : Begin(p)
  BY <1>1, BreakStep
<1>2. CASE Fault \/ Crash
  BY <1>2, BreakStep
<1>3. CASE Prepare
  BY <1>3, SMTT(60) DEF Prepare
<1>4. CASE Recovery
  BY <1>4, RecoveryStep
<1>5. CASE Reuse
  BY <1>5, ReuseStep
<1>6. CASE \/ Install \/ Build \/ WriteState
           \/ CleanupStaging \/ CleanupState \/ Promote
  BY <1>6, InstallingStep
<1>7. CASE Swap
  BY <1>7, SwapStep
<1>8. CASE Undo
  BY <1>8, UndoStep
<1>9. CASE Publish \/ Commit
  BY <1>9, PublishingStep DEF Commit
<1>10. CASE Rollback
  BY <1>10, RollbackStep
<1>11. CASE UNCHANGED vars
  BY <1>11 DEF vars
<1> QED
  BY <1>1, <1>2, <1>3, <1>4, <1>5, <1>6, <1>7, <1>8, <1>9, <1>10, <1>11
  DEF Next

-----------------------------------------------------------------------------
HIDE DEF IInv, TypeOK, ConfigDescribesEnvironment, BackupIsRestorable

LEMMA Invariant == Spec => []IInv
BY InitInvariant, NextInvariant, PTL DEF Spec

(* Every variable keeps its type.                                          *)
THEOREM TypeCorrect == Spec => []TypeOK
<1>1. IInv => TypeOK
  BY DEF IInv
<1> QED
  BY <1>1, Invariant, PTL

(* runtime_config.json never exists beside an environment other than the    *)
(* whole one it describes: not while setup moves trees, not after an        *)
(* exception in any handler, not after any number of crashes.               *)
THEOREM PublishedIsWhole == Spec => []ConfigDescribesEnvironment
<1>1. IInv => ConfigDescribesEnvironment
  BY DEF IInv
<1> QED
  BY <1>1, Invariant, PTL

(* The environment a waiting configuration backup describes is whole and    *)
(* under the name recovery and rollback take it from.                       *)
THEOREM ReplacedIsRestorable == Spec => []BackupIsRestorable
<1>1. IInv => BackupIsRestorable
  BY DEF IInv
<1> QED
  BY <1>1, Invariant, PTL

-----------------------------------------------------------------------------
(* No step changes the configuration and the venv together.                 *)
LEMMA OneNamePerStep ==
  ASSUME TypeOK, [Next]_vars
  PROVE  fs'["venv"] = fs["venv"] \/ fs'["config"] = fs["config"]
<1> USE DEF TypeOK, Step
<1>1. CASE Recovery
  BY <1>1, SMTT(60)
  DEF Recovery, Recover, RecDropVenv, RecRestoreVenv, RecRestoreConfig,
      RecRestoreState, RecSettleBackup, RecSettleConfig, RecStaging,
      RecStateStaging, RecStateBackup, RecConfigBackup
<1>2. CASE Reuse
  BY <1>2, SMTT(60)
  DEF Reuse, RejectUnusable, RejectOtherState, RejectUnverified,
      RejectSpuriously, ReuseVenv
<1>3. CASE \/ Install \/ Build \/ WriteState
           \/ CleanupStaging \/ CleanupState \/ Promote
  BY <1>3, SMTT(60)
  DEF Install, Build, WriteState, CleanupStaging, CleanupState, Promote
<1>4. CASE Swap
  BY <1>4, SMTT(60)
  DEF Swap, MoveConfig, MoveVenv, PromoteVenv, Check, MoveState, PromoteState
<1>5. CASE Undo
  BY <1>5, SMTT(60)
  DEF Undo, UndoNewState, UndoOldState, UndoVenv, UndoSwap, UndoConfig
<1>6. CASE Publish \/ Commit
  BY <1>6, SMTT(60) DEF Publish, Commit, CommitBackup, CommitState, CommitConfig
<1>7. CASE Rollback
  BY <1>7, SMTT(60)
  DEF Rollback, RbConfig, RbDropBackup, RbState, RbVenv, RbSwap,
      RbRestoreState, RbRestoreConfig, RbDropState, RbDropConfig
<1>8. CASE (\E p \in Plans : Begin(p)) \/ Fault \/ Crash \/ Prepare
  BY <1>8 DEF Begin, Fault, Crash, Prepare
<1>9. CASE UNCHANGED vars
  BY <1>9 DEF vars
<1> QED
  BY <1>1, <1>2, <1>3, <1>4, <1>5, <1>6, <1>7, <1>8, <1>9 DEF Next

(* A content record is whole or torn.                                      *)
LEMMA ContentCases ==
  Content = {Whole(p) : p \in Plans} \cup {Torn(p) : p \in Plans}
<1>1. ASSUME NEW c \in Content
      PROVE  c.plan \in Plans /\ (c = Whole(c.plan) \/ c = Torn(c.plan))
  <2>1. c = [plan |-> c.plan, whole |-> c.whole] /\ c.plan \in Plans
    BY DEF Content
  <2>2. c.whole = TRUE \/ c.whole = FALSE
    BY DEF Content
  <2> QED
    BY <2>1, <2>2 DEF Whole, Torn
<1>2. \A p \in Plans : Whole(p) \in Content /\ Torn(p) \in Content
  BY ContentFacts
<1> QED
  BY <1>1, <1>2

(* The transaction keeps the promise: it implements Installation, in which  *)
(* an offered environment never changes.                                   *)
THEOREM SetupImplementsInstallation == Spec => ImplementsInstallation
<1>1. Init => Promise!Init
  <2> SUFFICES ASSUME Init PROVE Promise!Init
    OBVIOUS
  <2>1. TypeOK /\ ConfigDescribesEnvironment
    BY InitInvariant DEF IInv
  <2> QED
    BY <2>1, ContentCases
    DEF TypeOK, ConfigDescribesEnvironment, Promise!Init, Promise!TypeOK
<1>2. IInv /\ IInv' /\ [Next]_vars => [Promise!Next]_<<fs["config"], fs["venv"]>>
  <2> SUFFICES ASSUME IInv, IInv', [Next]_vars
               PROVE  [Promise!Next]_<<fs["config"], fs["venv"]>>
    OBVIOUS
  <2>1. fs'["venv"] = fs["venv"] \/ fs'["config"] = fs["config"]
    BY OneNamePerStep DEF IInv
  <2>2. /\ fs["config"] # Absent => fs["venv"] = fs["config"]
        /\ fs'["config"] # Absent => fs'["venv"] = fs'["config"]
    BY DEF IInv, ConfigDescribesEnvironment
  <2>3. /\ fs'["config"] \in {Whole(p) : p \in Plans} \cup {Absent}
        /\ fs'["venv"] \in Content \cup {Absent, Foreign}
    BY DEF IInv, TypeOK
  <2> QED
    BY <2>1, <2>2, <2>3, ContentCases
    DEF Promise!Next, Promise!Withdraw, Promise!Rework, Promise!Offer
<1> QED
  BY <1>1, <1>2, Invariant, PTL DEF Spec, ImplementsInstallation, Promise!Spec

-----------------------------------------------------------------------------
(* Two more invariants on top of IInv, for the end of a run.                *)
(* The names that are empty, and the files that are the wanted ones, at the  *)
(* labels on the way to success.                                           *)
None(names) == \A path \in names : fs[path] = Absent

CleanedAt ==
  /\ pc \in RecoverLabels \ {"recover", "rec_drop_venv", "rec_restore_venv",
                             "rec_settle_backup"} => None({"backup"})
  /\ pc \in {"rec_state_staging", "rec_state_backup", "rec_config_backup"} => None({"staging"})
  /\ pc \in {"rec_state_backup", "rec_config_backup"} => None({"state_staging"})
  /\ pc = "rec_config_backup" => None({"state_backup"})
  /\ pc = "reuse" \/ (pc = "publish" /\ ~Promoted)
       => None({"backup", "staging", "state_staging", "state_backup", "config_backup"})

InstalledAt ==
  /\ pc \in {"promote"} \cup SwapLabels => fs["state_staging"] = Whole(want)
  /\ pc = "promote_state" => None({"state"})
  /\ pc \in {"check", "move_state", "promote_state"} => None({"staging"})
  /\ pc = "publish" => fs["state"] = Whole(want)
  /\ (pc = "publish" /\ Promoted) \/ pc \in CommitLabels =>
       fs["state"] = Whole(want) /\ None({"staging", "state_staging"})
  /\ pc \in CommitLabels => fs["config"] = Whole(want)
  /\ pc \in {"cm_state", "cm_config"} => None({"backup"})
  /\ pc = "cm_config" => None({"state_backup"})

CleanInv == CleanedAt /\ InstalledAt /\ SuccessIsClean
-----------------------------------------------------------------------------
(* Where the environment, state and configuration of before the promotion   *)
(* are, while it succeeds, and while a failed check or publication is taken  *)
(* back without a further exception.                                       *)
Same(path) == fs[path] = before[path]
Kept(backup, path) == fs[backup] = before[path]

ConfigKept ==
  IF "config" \in moved THEN Kept("config_backup", "config") ELSE before["config"] = Absent
StateKept ==
  IF "old_state" \in moved THEN Kept("state_backup", "state") ELSE before["state"] = Absent

UndoAt ==
  /\ pc \in UndoLabels \cup CleanupLabels =>
       {"old_state", "new_state"} \cap moved = {} /\ Same("state")
  /\ pc \in {"undo_new_state", "undo_old_state", "undo_venv", "undo_swap"} =>
       Kept("backup", "venv") /\ ConfigKept /\ "new_venv" \in moved
  /\ pc = "undo_swap" => ~Exists("venv")
  /\ pc = "undo_config" => Same("venv") /\ ConfigKept
  /\ pc \in CleanupLabels => Same("venv") /\ Same("config")

RollbackAt ==
  /\ pc \in {"rb_config", "rb_state", "rb_venv", "rb_swap"} => Kept("backup", "venv")
  /\ pc \in RollbackLabels \ {"rb_drop_state", "rb_drop_config", "rb_restore_config"} => StateKept
  /\ pc \in RollbackLabels \ {"rb_drop_state", "rb_drop_config"} => ConfigKept
  /\ pc \in {"rb_restore_state", "rb_restore_config", "rb_drop_state", "rb_drop_config"} =>
       Same("venv")
  /\ pc \in {"rb_restore_config", "rb_drop_state", "rb_drop_config"} => Same("state")
  /\ pc \in {"rb_drop_state", "rb_drop_config"} => Same("config")
  /\ pc \in {"rb_venv", "rb_swap"} => fs["state"] = Absent
  /\ pc = "rb_restore_state" /\ "old_state" \notin moved => fs["state"] = Absent

PromotingAt ==
  /\ pc \in {"move_venv", "promote_venv", "check", "move_state"} => Same("state")
  /\ pc \in (SwapLabels \ {"move_config"}) \cup {"publish"} => ConfigKept
  /\ pc \in {"promote_state", "publish"} => StateKept
  /\ pc \in {"promote_venv", "check", "move_state", "promote_state", "publish"} =>
       Kept("backup", "venv")
  /\ pc = "publish" => Promoted

CauseAt ==
  /\ cause = "check" => pc \in UndoLabels \cup CleanupLabels \cup Idle
  /\ cause = "publish" => pc \in RollbackLabels \cup Idle

RestoreInv ==
  /\ CauseAt
  /\ pc = "move_config" => before = fs
  /\ pc = "move_venv" => Same("venv") /\ Same("state") /\ ConfigKept /\ "old_venv" \notin moved
  /\ pc \in {"move_venv", "promote_venv", "check", "move_state"} =>
       {"old_state", "new_state"} \cap moved = {}
  /\ pc \in {"check", "move_state", "promote_state"} => "new_venv" \in moved
  /\ "old_venv" \in moved =>
       /\ PromotingAt
       /\ cause = "check" => UndoAt
       /\ cause = "publish" => RollbackAt
  /\ FailedRepairRestores

USE DEF IInv, TypeOK, None, CleanedAt, InstalledAt, CleanInv, SuccessIsClean

LEMMA OneGeneration ==
  ASSUME NEW f \in [Paths -> Content \cup {Absent, Foreign}], NEW p,
         \A path \in {"venv", "state", "config"} : f[path] = Whole(p),
         \A path \in Paths \ {"venv", "state", "config"} : f[path] = Absent
  PROVE  f = [path \in Paths |->
                IF path \in {"venv", "state", "config"} THEN Whole(p) ELSE Absent]
  OBVIOUS

(* No name of another generation is left on the way to success.            *)
LEMMA CleanInvNext == IInv /\ CleanInv /\ [Next]_vars => CleanInv'
<1> SUFFICES ASSUME IInv, CleanInv, [Next]_vars PROVE CleanInv'
  OBVIOUS
<1>0. TypeOK'
  BY NextInvariant
<1>1. CASE Recovery
  <2>1. CASE Recover
    BY <2>1, SMTT(60), ContentFacts DEF Recover, InterruptedSwap
  <2>2. CASE RecDropVenv
    BY <2>2, SMTT(60), ContentFacts DEF RecDropVenv
  <2>3. CASE RecRestoreVenv
    BY <2>3, SMTT(60), ContentFacts DEF RecRestoreVenv
  <2>4. CASE RecRestoreConfig
    BY <2>4, SMTT(60), ContentFacts DEF RecRestoreConfig
  <2>5. CASE RecRestoreState
    BY <2>5, SMTT(60), ContentFacts DEF RecRestoreState
  <2>6. CASE RecSettleBackup
    BY <2>6, SMTT(60), ContentFacts DEF RecSettleBackup
  <2>7. CASE RecSettleConfig
    BY <2>7, SMTT(60), ContentFacts DEF RecSettleConfig
  <2>8. CASE RecStaging
    BY <2>8, SMTT(60), ContentFacts DEF RecStaging
  <2>9. CASE RecStateStaging
    BY <2>9, SMTT(60), ContentFacts DEF RecStateStaging
  <2>10. CASE RecStateBackup
    BY <2>10, SMTT(60), ContentFacts DEF RecStateBackup
  <2>11. CASE RecConfigBackup
    BY <2>11, SMTT(60), ContentFacts DEF RecConfigBackup
  <2> QED
    BY <1>1, <2>1, <2>2, <2>3, <2>4, <2>5, <2>6, <2>7, <2>8, <2>9, <2>10, <2>11 DEF Recovery
<1>2. CASE Reuse
  <2>1. CASE RejectUnusable
    BY <2>1, SMTT(60), ContentFacts DEF RejectUnusable, NoPython
  <2>2. CASE RejectOtherState
    BY <2>2, SMTT(60), ContentFacts DEF RejectOtherState, StateMatches
  <2>3. CASE RejectUnverified
    BY <2>3, SMTT(60), ContentFacts DEF RejectUnverified, StateMatches
  <2>4. CASE RejectSpuriously
    BY <2>4, SMTT(60), ContentFacts DEF RejectSpuriously, StateMatches
  <2>5. CASE ReuseVenv
    BY <2>5, SMTT(60), ContentFacts DEF ReuseVenv, StateMatches
  <2> QED
    BY <1>2, <2>1, <2>2, <2>3, <2>4, <2>5 DEF Reuse
<1>3. CASE Install \/ Build \/ WriteState \/ CleanupStaging \/ CleanupState \/ Promote
  <2>1. CASE Install
    BY <2>1, SMTT(60), ContentFacts DEF Install
  <2>2. CASE Build
    BY <2>2, SMTT(60), ContentFacts DEF Build
  <2>3. CASE WriteState
    BY <2>3, SMTT(60), ContentFacts DEF WriteState
  <2>4. CASE CleanupStaging
    BY <2>4, SMTT(60), ContentFacts DEF CleanupStaging
  <2>5. CASE CleanupState
    BY <2>5, SMTT(60), ContentFacts DEF CleanupState
  <2>6. CASE Promote
    BY <2>6, SMTT(60), ContentFacts DEF Promote
  <2> QED
    BY <1>3, <2>1, <2>2, <2>3, <2>4, <2>5, <2>6
<1>4. CASE Swap
  <2>1. CASE MoveConfig
    BY <2>1, SMTT(60), ContentFacts DEF MoveConfig
  <2>2. CASE MoveVenv
    BY <2>2, SMTT(60), ContentFacts DEF MoveVenv
  <2>3. CASE PromoteVenv
    BY <2>3, SMTT(60), ContentFacts DEF PromoteVenv
  <2>4. CASE Check
    BY <2>4, SMTT(60), ContentFacts DEF Check
  <2>5. CASE MoveState
    BY <2>5, SMTT(60), ContentFacts DEF MoveState
  <2>6. CASE PromoteState
    BY <2>6, SMTT(60), ContentFacts DEF PromoteState
  <2> QED
    BY <1>4, <2>1, <2>2, <2>3, <2>4, <2>5, <2>6 DEF Swap
<1>5. CASE Undo
  <2>1. CASE UndoNewState
    BY <2>1, SMTT(60), ContentFacts DEF UndoNewState
  <2>2. CASE UndoOldState
    BY <2>2, SMTT(60), ContentFacts DEF UndoOldState
  <2>3. CASE UndoVenv
    BY <2>3, SMTT(60), ContentFacts DEF UndoVenv
  <2>4. CASE UndoSwap
    BY <2>4, SMTT(60), ContentFacts DEF UndoSwap
  <2>5. CASE UndoConfig
    BY <2>5, SMTT(60), ContentFacts DEF UndoConfig
  <2> QED
    BY <1>5, <2>1, <2>2, <2>3, <2>4, <2>5 DEF Undo
<1>6. CASE Publish \/ Commit
  <2>1. CASE Publish
    <3>1. (CleanedAt /\ InstalledAt)'
      BY <2>1, SMTT(60), ContentFacts DEF Publish
    <3>2. ASSUME pc' = "ok"
          PROVE  /\ \A path \in {"venv", "state", "config"} : fs'[path] = Whole(want')
                 /\ \A path \in Paths \ {"venv", "state", "config"} : fs'[path] = Absent
      <4>1. /\ fs'["venv"] = Whole(want') /\ fs'["state"] = Whole(want')
            /\ fs'["config"] = Whole(want')
        <5>1. fs["venv"] = Whole(want) /\ fs["state"] = Whole(want)
          BY <2>1, SMTT(60), ContentFacts DEF Publish, ConfigDescribesEnvironment
        <5> QED
          BY <2>1, <3>2, <5>1, SMTT(60), ContentFacts DEF Publish
      <4>2. /\ fs'["backup"] = Absent /\ fs'["staging"] = Absent
            /\ fs'["state_staging"] = Absent /\ fs'["state_backup"] = Absent
            /\ fs'["config_backup"] = Absent
        BY <2>1, <3>2, SMTT(60), ContentFacts DEF Publish
      <4> QED
        BY <4>1, <4>2
    <3>3. fs' \in [Paths -> Content \cup {Absent, Foreign}]
      BY <1>0
    <3>4. SuccessIsClean'
      BY <3>2, <3>3, OneGeneration
    <3> QED
      BY <3>1, <3>4
  <2>2. CASE CommitBackup
    BY <2>2, SMTT(60), ContentFacts DEF CommitBackup
  <2>3. CASE CommitState
    BY <2>3, SMTT(60), ContentFacts DEF CommitState
  <2>4. CASE CommitConfig
    <3>1. (CleanedAt /\ InstalledAt)'
      BY <2>4, SMTT(60), ContentFacts DEF CommitConfig
    <3>2. ASSUME pc' = "ok"
          PROVE  /\ \A path \in {"venv", "state", "config"} : fs'[path] = Whole(want')
                 /\ \A path \in Paths \ {"venv", "state", "config"} : fs'[path] = Absent
      <4>1. /\ fs'["venv"] = Whole(want') /\ fs'["state"] = Whole(want')
            /\ fs'["config"] = Whole(want')
        <5>1. fs["venv"] = Whole(want) /\ fs["state"] = Whole(want)
          BY <2>4, SMTT(60), ContentFacts DEF CommitConfig, ConfigDescribesEnvironment
        <5> QED
          BY <2>4, <3>2, <5>1, SMTT(60), ContentFacts DEF CommitConfig
      <4>2. /\ fs'["backup"] = Absent /\ fs'["staging"] = Absent
            /\ fs'["state_staging"] = Absent /\ fs'["state_backup"] = Absent
            /\ fs'["config_backup"] = Absent
        BY <2>4, <3>2, SMTT(60), ContentFacts DEF CommitConfig
      <4> QED
        BY <4>1, <4>2
    <3>3. fs' \in [Paths -> Content \cup {Absent, Foreign}]
      BY <1>0
    <3>4. SuccessIsClean'
      BY <3>2, <3>3, OneGeneration
    <3> QED
      BY <3>1, <3>4
  <2> QED
    BY <1>6, <2>1, <2>2, <2>3, <2>4 DEF Commit
<1>7. CASE Rollback
  <2>1. CASE RbConfig
    BY <2>1, SMTT(60), ContentFacts DEF RbConfig
  <2>2. CASE RbDropBackup
    BY <2>2, SMTT(60), ContentFacts DEF RbDropBackup
  <2>3. CASE RbState
    BY <2>3, SMTT(60), ContentFacts DEF RbState
  <2>4. CASE RbVenv
    BY <2>4, SMTT(60), ContentFacts DEF RbVenv
  <2>5. CASE RbSwap
    BY <2>5, SMTT(60), ContentFacts DEF RbSwap
  <2>6. CASE RbRestoreState
    BY <2>6, SMTT(60), ContentFacts DEF RbRestoreState
  <2>7. CASE RbRestoreConfig
    BY <2>7, SMTT(60), ContentFacts DEF RbRestoreConfig
  <2>8. CASE RbDropState
    BY <2>8, SMTT(60), ContentFacts DEF RbDropState
  <2>9. CASE RbDropConfig
    BY <2>9, SMTT(60), ContentFacts DEF RbDropConfig
  <2> QED
    BY <1>7, <2>1, <2>2, <2>3, <2>4, <2>5, <2>6, <2>7, <2>8, <2>9 DEF Rollback
<1>8. CASE (\E p \in Plans : Begin(p)) \/ Prepare \/ Fault \/ Crash
  <2>1. CASE \E p \in Plans : Begin(p)
    BY <2>1, SMTT(60), ContentFacts DEF Begin
  <2>2. CASE Prepare
    BY <2>2, SMTT(60), ContentFacts DEF Prepare
  <2>3. CASE Fault
    BY <2>3, SMTT(60), ContentFacts DEF Fault
  <2>4. CASE Crash
    BY <2>4, SMTT(60), ContentFacts DEF Crash
  <2> QED
    BY <1>8, <2>1, <2>2, <2>3, <2>4
<1>9. CASE UNCHANGED vars
  BY <1>9 DEF vars
<1> QED
  BY <1>1, <1>2, <1>3, <1>4, <1>5, <1>6, <1>7, <1>8, <1>9 DEF Next, Step

HIDE DEF CleanedAt, SuccessIsClean

USE DEF Same, Kept, ConfigKept, StateKept, CauseAt, PromotingAt, UndoAt, RollbackAt,
        RestoreInv, FailedRepairRestores

(* The previous generation can be told at every label of its return.         *)
LEMMA RestoreInvNext == IInv /\ CleanInv /\ RestoreInv /\ [Next]_vars => RestoreInv'
<1> SUFFICES ASSUME IInv, CleanInv, RestoreInv, [Next]_vars PROVE RestoreInv'
  OBVIOUS
<1>0. TypeOK'
  BY NextInvariant
<1>1. CASE Recovery
  <2>1. CASE Recover
    BY <2>1, SMTT(60), ContentFacts DEF Recover, InterruptedSwap
  <2>2. CASE RecDropVenv
    BY <2>2, SMTT(60), ContentFacts DEF RecDropVenv
  <2>3. CASE RecRestoreVenv
    BY <2>3, SMTT(60), ContentFacts DEF RecRestoreVenv
  <2>4. CASE RecRestoreConfig
    BY <2>4, SMTT(60), ContentFacts DEF RecRestoreConfig
  <2>5. CASE RecRestoreState
    BY <2>5, SMTT(60), ContentFacts DEF RecRestoreState
  <2>6. CASE RecSettleBackup
    BY <2>6, SMTT(60), ContentFacts DEF RecSettleBackup
  <2>7. CASE RecSettleConfig
    BY <2>7, SMTT(60), ContentFacts DEF RecSettleConfig
  <2>8. CASE RecStaging
    BY <2>8, SMTT(60), ContentFacts DEF RecStaging
  <2>9. CASE RecStateStaging
    BY <2>9, SMTT(60), ContentFacts DEF RecStateStaging
  <2>10. CASE RecStateBackup
    BY <2>10, SMTT(60), ContentFacts DEF RecStateBackup
  <2>11. CASE RecConfigBackup
    BY <2>11, SMTT(60), ContentFacts DEF RecConfigBackup
  <2> QED
    BY <1>1, <2>1, <2>2, <2>3, <2>4, <2>5, <2>6, <2>7, <2>8, <2>9, <2>10, <2>11 DEF Recovery
<1>2. CASE Reuse
  <2>1. CASE RejectUnusable
    BY <2>1, SMTT(60), ContentFacts DEF RejectUnusable, NoPython
  <2>2. CASE RejectOtherState
    BY <2>2, SMTT(60), ContentFacts DEF RejectOtherState, StateMatches
  <2>3. CASE RejectUnverified
    BY <2>3, SMTT(60), ContentFacts DEF RejectUnverified, StateMatches
  <2>4. CASE RejectSpuriously
    BY <2>4, SMTT(60), ContentFacts DEF RejectSpuriously, StateMatches
  <2>5. CASE ReuseVenv
    BY <2>5, SMTT(60), ContentFacts DEF ReuseVenv, StateMatches
  <2> QED
    BY <1>2, <2>1, <2>2, <2>3, <2>4, <2>5 DEF Reuse
<1>3. CASE Install \/ Build \/ WriteState \/ CleanupStaging \/ CleanupState \/ Promote
  <2>1. CASE Install
    BY <2>1, SMTT(60), ContentFacts DEF Install
  <2>2. CASE Build
    BY <2>2, SMTT(60), ContentFacts DEF Build
  <2>3. CASE WriteState
    BY <2>3, SMTT(60), ContentFacts DEF WriteState
  <2>4. CASE CleanupStaging
    BY <2>4, SMTT(60), ContentFacts DEF CleanupStaging
  <2>5. CASE CleanupState
    BY <2>5, SMTT(60), ContentFacts DEF CleanupState
  <2>6. CASE Promote
    BY <2>6, SMTT(60), ContentFacts DEF Promote
  <2> QED
    BY <1>3, <2>1, <2>2, <2>3, <2>4, <2>5, <2>6
<1>4. CASE Swap
  <2>1. CASE MoveConfig
    BY <2>1, SMTT(60), ContentFacts DEF MoveConfig
  <2>2. CASE MoveVenv
    BY <2>2, SMTT(60), ContentFacts DEF MoveVenv
  <2>3. CASE PromoteVenv
    BY <2>3, SMTT(60), ContentFacts DEF PromoteVenv
  <2>4. CASE Check
    BY <2>4, SMTT(60), ContentFacts DEF Check
  <2>5. CASE MoveState
    BY <2>5, SMTT(60), ContentFacts DEF MoveState
  <2>6. CASE PromoteState
    BY <2>6, SMTT(60), ContentFacts DEF PromoteState
  <2> QED
    BY <1>4, <2>1, <2>2, <2>3, <2>4, <2>5, <2>6 DEF Swap
<1>5. CASE Undo
  <2>1. CASE UndoNewState
    BY <2>1, SMTT(60), ContentFacts DEF UndoNewState
  <2>2. CASE UndoOldState
    BY <2>2, SMTT(60), ContentFacts DEF UndoOldState
  <2>3. CASE UndoVenv
    BY <2>3, SMTT(60), ContentFacts DEF UndoVenv
  <2>4. CASE UndoSwap
    BY <2>4, SMTT(60), ContentFacts DEF UndoSwap
  <2>5. CASE UndoConfig
    BY <2>5, SMTT(60), ContentFacts DEF UndoConfig
  <2> QED
    BY <1>5, <2>1, <2>2, <2>3, <2>4, <2>5 DEF Undo
<1>6. CASE Publish \/ Commit
  <2>1. CASE Publish
    BY <2>1, SMTT(60), ContentFacts DEF Publish
  <2>2. CASE CommitBackup
    BY <2>2, SMTT(60), ContentFacts DEF CommitBackup
  <2>3. CASE CommitState
    BY <2>3, SMTT(60), ContentFacts DEF CommitState
  <2>4. CASE CommitConfig
    BY <2>4, SMTT(60), ContentFacts DEF CommitConfig
  <2> QED
    BY <1>6, <2>1, <2>2, <2>3, <2>4 DEF Commit
<1>7. CASE Rollback
  <2>1. CASE RbConfig
    BY <2>1, SMTT(60), ContentFacts DEF RbConfig
  <2>2. CASE RbDropBackup
    BY <2>2, SMTT(60), ContentFacts DEF RbDropBackup
  <2>3. CASE RbState
    BY <2>3, SMTT(60), ContentFacts DEF RbState
  <2>4. CASE RbVenv
    BY <2>4, SMTT(60), ContentFacts DEF RbVenv
  <2>5. CASE RbSwap
    BY <2>5, SMTT(60), ContentFacts DEF RbSwap
  <2>6. CASE RbRestoreState
    BY <2>6, SMTT(60), ContentFacts DEF RbRestoreState
  <2>7. CASE RbRestoreConfig
    BY <2>7, SMTT(60), ContentFacts DEF RbRestoreConfig
  <2>8. CASE RbDropState
    BY <2>8, SMTT(60), ContentFacts DEF RbDropState
  <2>9. CASE RbDropConfig
    BY <2>9, SMTT(60), ContentFacts DEF RbDropConfig
  <2> QED
    BY <1>7, <2>1, <2>2, <2>3, <2>4, <2>5, <2>6, <2>7, <2>8, <2>9 DEF Rollback
<1>8. CASE (\E p \in Plans : Begin(p)) \/ Prepare \/ Fault \/ Crash
  <2>1. CASE \E p \in Plans : Begin(p)
    BY <2>1, SMTT(60), ContentFacts DEF Begin
  <2>2. CASE Prepare
    BY <2>2, SMTT(60), ContentFacts DEF Prepare
  <2>3. CASE Fault
    BY <2>3, SMTT(60), ContentFacts DEF Fault
  <2>4. CASE Crash
    BY <2>4, SMTT(60), ContentFacts DEF Crash
  <2> QED
    BY <1>8, <2>1, <2>2, <2>3, <2>4
<1>9. CASE UNCHANGED vars
  BY <1>9 DEF vars
<1> QED
  BY <1>1, <1>2, <1>3, <1>4, <1>5, <1>6, <1>7, <1>8, <1>9 DEF Next, Step

EndInv == IInv /\ CleanInv /\ RestoreInv

LEMMA InitEndInv == Init => EndInv
<1> SUFFICES ASSUME Init PROVE EndInv
  OBVIOUS
<1>1. pc = "fresh" /\ moved = {} /\ cause = "none"
  BY DEF Init
<1>2. CleanInv
  BY <1>1 DEF CleanedAt, SuccessIsClean
<1>3. RestoreInv
  BY <1>1
<1> QED
  BY <1>2, <1>3, InitInvariant DEF EndInv

HIDE DEF IInv, CleanInv, RestoreInv, SuccessIsClean, FailedRepairRestores

LEMMA EndInvariant == Spec => []EndInv
<1>1. EndInv /\ [Next]_vars => EndInv'
  BY NextInvariant, CleanInvNext, RestoreInvNext DEF EndInv
<1> QED
  BY <1>1, InitEndInv, PTL DEF Spec

(* A run of setup.py that ends well leaves one generation, the wanted one,   *)
(* and nothing under a staging or backup name, whatever earlier runs left.   *)
THEOREM SuccessLeavesOneGeneration == Spec => []SuccessIsClean
<1>1. EndInv => SuccessIsClean
  BY DEF EndInv, CleanInv
<1> QED
  BY <1>1, EndInvariant, PTL

(* _promote_environment's except clause and _rollback_environment_promotion  *)
(* put back all three names when the check or the publication fails.         *)
THEOREM FailureRestores == Spec => []FailedRepairRestores
<1>1. EndInv => FailedRepairRestores
  BY DEF EndInv, RestoreInv
<1> QED
  BY <1>1, EndInvariant, PTL
====
