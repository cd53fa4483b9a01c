----------------------- MODULE TreePublication_proofs -----------------------
(***************************************************************************)
(* For any archives and any number of faults: the types, that a publisher    *)
(* returns only over the trusted derivation, that a swap never loses both    *)
(* trees while it runs, and what one exception costs.                        *)
(*                                                                         *)
(* The invariant is a picture of each label: which publishers come there     *)
(* (KindAt), which of the three names are taken (NamesAt), what has become   *)
(* of the old tree (SwapAt), and what the handlers find (ErrorAt).           *)
(***************************************************************************)
EXTENDS TreePublication, TLAPS

LEMMA InitInvariant == Init => IInv
<1> SUFFICES ASSUME Init PROVE IInv
  OBVIOUS
<1> USE DEF Init, Idle, Handling
<1>1. TypeOK
  <2>1. keyed \in BOOLEAN
    BY Zenon
  <2>2. raised \in 0..MaxFaults /\ faults \in 0..MaxFaults
    BY BoundAssumption
  <2>3. pc \in Labels /\ at \in Labels
    BY DEF Labels
  <2> QED
    BY <2>1, <2>2, <2>3 DEF TypeOK, Trees
<1>2. KindAt /\ KeyedAt /\ NamesAt /\ SwapAt /\ ErrorAt
  BY DEF KindAt, KeyedAt, NamesAt, SwapAt, ErrorAt
<1>3. DoneIsDerived /\ OldOrNewExists /\ FailedCallRestores /\ FailedCallIsClean
  BY DEF DoneIsDerived, OldOrNewExists, FailedCallRestores, FailedCallIsClean
<1> QED
  BY <1>1, <1>2, <1>3 DEF IInv

(* While a call runs, the picture of its names says where the old tree is.   *)
LEMMA SwapKeepsOne ==
  ASSUME TypeOK', KindAt', NamesAt', SwapAt'
  PROVE  OldOrNewExists'
BY DEF KindAt, NamesAt, SwapAt, TypeOK, OldOrNewExists, Labels, Idle, Handling, Swapping

(* The way to a staged tree. *)
LEMMA PrepareInvariant ==
  ASSUME IInv,
         \/ Begin \/ CheckLock \/ RemoveLockRoot \/ WriteKey \/ Validate
         \/ ValidateSpuriously \/ (\E a \in Archives : Download(a)) \/ Downloaded
         \/ Copy \/ Enter \/ Fill
  PROVE  IInv'
<1> USE DEF disk, history, Idle, Labels, Handling, Swapping, Kinds, Trees
<1>1. CASE Begin
  <2>1. pc' \in Labels
    BY <1>1 DEF Begin
  <2>2. TypeOK'
    BY <1>1, <2>1, BoundAssumption DEF Begin, IInv, TypeOK, NamesAt
  <2>3. KindAt' /\ KeyedAt' /\ NamesAt' /\ SwapAt' /\ ErrorAt'
    BY <1>1 DEF Begin, IInv, TypeOK, KindAt, KeyedAt, NamesAt, SwapAt, ErrorAt
  <2>4. DoneIsDerived' /\ FailedCallRestores' /\ FailedCallIsClean'
    BY <1>1 DEF Begin, DoneIsDerived, FailedCallRestores, FailedCallIsClean
  <2> QED
    BY <2>2, <2>3, <2>4, SwapKeepsOne DEF IInv
<1>2. CASE CheckLock
  <2>1. TypeOK'
    BY <1>2 DEF CheckLock, GoTo, IInv, TypeOK, NamesAt
  <2>2. KindAt' /\ KeyedAt' /\ NamesAt' /\ SwapAt' /\ ErrorAt'
    BY <1>2 DEF CheckLock, GoTo, IInv, TypeOK, KindAt, KeyedAt, NamesAt, SwapAt, ErrorAt
  <2>3. DoneIsDerived' /\ FailedCallRestores' /\ FailedCallIsClean'
    BY <1>2 DEF CheckLock, GoTo, DoneIsDerived, FailedCallRestores, FailedCallIsClean
  <2> QED
    BY <2>1, <2>2, <2>3, SwapKeepsOne DEF IInv
<1>3. CASE RemoveLockRoot
  <2>1. keyed' \in BOOLEAN
    BY <1>3, Zenon DEF RemoveLockRoot
  <2>2. TypeOK'
    BY <1>3, <2>1 DEF RemoveLockRoot, GoTo, IInv, TypeOK, NamesAt
  <2>3. KindAt' /\ KeyedAt' /\ NamesAt' /\ SwapAt' /\ ErrorAt'
    BY <1>3
    DEF RemoveLockRoot, GoTo, IInv, TypeOK, KindAt, KeyedAt, NamesAt, SwapAt, ErrorAt
  <2>4. DoneIsDerived' /\ FailedCallRestores' /\ FailedCallIsClean'
    BY <1>3
    DEF RemoveLockRoot, GoTo, DoneIsDerived, FailedCallRestores, FailedCallIsClean
  <2> QED
    BY <2>2, <2>3, <2>4, SwapKeepsOne DEF IInv
<1>4. CASE WriteKey
  <2>1. keyed' \in BOOLEAN
    BY <1>4, Zenon DEF WriteKey
  <2>2. TypeOK'
    BY <1>4, <2>1 DEF WriteKey, GoTo, IInv, TypeOK, NamesAt
  <2>3. KindAt' /\ KeyedAt' /\ NamesAt' /\ SwapAt' /\ ErrorAt'
    BY <1>4 DEF WriteKey, GoTo, IInv, TypeOK, KindAt, KeyedAt, NamesAt, SwapAt, ErrorAt
  <2>4. DoneIsDerived' /\ FailedCallRestores' /\ FailedCallIsClean'
    BY <1>4 DEF WriteKey, GoTo, DoneIsDerived, FailedCallRestores, FailedCallIsClean
  <2> QED
    BY <2>2, <2>3, <2>4, SwapKeepsOne DEF IInv
<1>5. CASE Validate
  <2>1. pc' \in Labels /\ UNCHANGED <<kind, raising, faults, old, raised, at, left>>
    BY <1>5 DEF Validate, GoTo
  <2>2. TypeOK'
    BY <1>5, <2>1 DEF Validate, IInv, TypeOK, NamesAt, Valid
  <2>3. KindAt' /\ KeyedAt' /\ NamesAt' /\ SwapAt' /\ ErrorAt'
    BY <1>5
    DEF Validate, GoTo, IInv, TypeOK, KindAt, KeyedAt, NamesAt, SwapAt, ErrorAt, Valid
  <2>4. DoneIsDerived' /\ FailedCallRestores' /\ FailedCallIsClean'
    BY <1>5
    DEF Validate, GoTo, IInv, TypeOK, KindAt, NamesAt, KeyedAt, SwapAt, ErrorAt,
        DoneIsDerived, FailedCallRestores, FailedCallIsClean, Valid, Trusted
  <2> QED
    BY <2>2, <2>3, <2>4, SwapKeepsOne DEF IInv
<1>6. CASE ValidateSpuriously
  <2>1. TypeOK'
    BY <1>6, BoundAssumption DEF ValidateSpuriously, Costs, IInv, TypeOK, NamesAt
  <2>2. KindAt' /\ KeyedAt' /\ NamesAt' /\ SwapAt' /\ ErrorAt'
    BY <1>6
    DEF ValidateSpuriously, Costs, IInv, TypeOK, KindAt, KeyedAt, NamesAt, SwapAt,
        ErrorAt
  <2>3. DoneIsDerived' /\ FailedCallRestores' /\ FailedCallIsClean'
    BY <1>6
    DEF ValidateSpuriously, Costs, DoneIsDerived, FailedCallRestores, FailedCallIsClean
  <2> QED
    BY <2>1, <2>2, <2>3, SwapKeepsOne DEF IInv
<1>7. ASSUME NEW a \in Archives, Download(a) PROVE IInv'
  <2>1. TypeOK'
    BY <1>7 DEF Download, GoTo, IInv, TypeOK, NamesAt
  <2>2. KindAt' /\ KeyedAt' /\ NamesAt' /\ SwapAt' /\ ErrorAt'
    BY <1>7 DEF Download, GoTo, IInv, TypeOK, KindAt, KeyedAt, NamesAt, SwapAt, ErrorAt
  <2>3. DoneIsDerived' /\ FailedCallRestores' /\ FailedCallIsClean'
    BY <1>7 DEF Download, GoTo, DoneIsDerived, FailedCallRestores, FailedCallIsClean
  <2> QED
    BY <2>1, <2>2, <2>3, SwapKeepsOne DEF IInv
<1>8. CASE Downloaded
  <2>1. TypeOK'
    BY <1>8 DEF Downloaded, GoTo, IInv, TypeOK, NamesAt
  <2>2. KindAt' /\ KeyedAt' /\ NamesAt' /\ SwapAt' /\ ErrorAt'
    BY <1>8
    DEF Downloaded, GoTo, IInv, TypeOK, KindAt, KeyedAt, NamesAt, SwapAt, ErrorAt
  <2>3. DoneIsDerived' /\ FailedCallRestores' /\ FailedCallIsClean'
    BY <1>8 DEF Downloaded, GoTo, DoneIsDerived, FailedCallRestores, FailedCallIsClean
  <2> QED
    BY <2>1, <2>2, <2>3, SwapKeepsOne DEF IInv
<1>9. CASE Copy
  <2>1. TypeOK'
    BY <1>9 DEF Copy, GoTo, IInv, TypeOK, NamesAt
  <2>2. KindAt' /\ KeyedAt' /\ NamesAt' /\ SwapAt' /\ ErrorAt'
    BY <1>9 DEF Copy, GoTo, IInv, TypeOK, KindAt, KeyedAt, NamesAt, SwapAt, ErrorAt
  <2>3. DoneIsDerived' /\ FailedCallRestores' /\ FailedCallIsClean'
    BY <1>9 DEF Copy, GoTo, DoneIsDerived, FailedCallRestores, FailedCallIsClean
  <2> QED
    BY <2>1, <2>2, <2>3, SwapKeepsOne DEF IInv
<1>10. CASE Enter
  <2>1. TypeOK'
    BY <1>10 DEF Enter, GoTo, IInv, TypeOK, NamesAt
  <2>2. KindAt' /\ KeyedAt' /\ NamesAt' /\ SwapAt' /\ ErrorAt'
    BY <1>10 DEF Enter, GoTo, IInv, TypeOK, KindAt, KeyedAt, NamesAt, SwapAt, ErrorAt
  <2>3. DoneIsDerived' /\ FailedCallRestores' /\ FailedCallIsClean'
    BY <1>10 DEF Enter, GoTo, DoneIsDerived, FailedCallRestores, FailedCallIsClean
  <2> QED
    BY <2>1, <2>2, <2>3, SwapKeepsOne DEF IInv
<1>11. CASE Fill
  <2>1. pc' \in Labels /\ UNCHANGED <<kind, raising, faults, old, raised, at, left>>
    BY <1>11 DEF Fill, GoTo
  <2>2. TypeOK'
    BY <1>11, <2>1 DEF Fill, IInv, TypeOK, NamesAt
  <2>3. KindAt' /\ KeyedAt' /\ NamesAt' /\ SwapAt' /\ ErrorAt'
    BY <1>11 DEF Fill, GoTo, IInv, TypeOK, KindAt, KeyedAt, NamesAt, SwapAt, ErrorAt
  <2>4. DoneIsDerived' /\ FailedCallRestores' /\ FailedCallIsClean'
    BY <1>11 DEF Fill, GoTo, DoneIsDerived, FailedCallRestores, FailedCallIsClean
  <2> QED
    BY <2>2, <2>3, <2>4, SwapKeepsOne DEF IInv
<1> QED
  BY <1>1, <1>2, <1>3, <1>4, <1>5, <1>6, <1>7, <1>8, <1>9, <1>10, <1>11

(* The publication. *)
LEMMA PublishInvariant ==
  ASSUME IInv,
         \/ Clear \/ Cleared \/ MoveAside \/ EnterTry \/ Publish \/ DropAside
         \/ Confirm
  PROVE  IInv'
<1> USE DEF disk, history, Idle, Labels, Handling, Swapping, Kinds, Trees
<1>1. CASE Clear
  <2>1. TypeOK'
    BY <1>1 DEF Clear, GoTo, IInv, TypeOK, NamesAt
  <2>2. KindAt' /\ KeyedAt' /\ NamesAt' /\ SwapAt' /\ ErrorAt'
    BY <1>1 DEF Clear, GoTo, IInv, TypeOK, KindAt, KeyedAt, NamesAt, SwapAt, ErrorAt
  <2>3. DoneIsDerived' /\ FailedCallRestores' /\ FailedCallIsClean'
    BY <1>1 DEF Clear, GoTo, DoneIsDerived, FailedCallRestores, FailedCallIsClean
  <2> QED
    BY <2>1, <2>2, <2>3, SwapKeepsOne DEF IInv
<1>2. CASE Cleared
  <2>1. TypeOK'
    BY <1>2 DEF Cleared, GoTo, IInv, TypeOK, NamesAt
  <2>2. KindAt' /\ KeyedAt' /\ NamesAt' /\ SwapAt' /\ ErrorAt'
    BY <1>2 DEF Cleared, GoTo, IInv, TypeOK, KindAt, KeyedAt, NamesAt, SwapAt, ErrorAt
  <2>3. DoneIsDerived' /\ FailedCallRestores' /\ FailedCallIsClean'
    BY <1>2 DEF Cleared, GoTo, DoneIsDerived, FailedCallRestores, FailedCallIsClean
  <2> QED
    BY <2>1, <2>2, <2>3, SwapKeepsOne DEF IInv
<1>3. CASE MoveAside
  <2>1. TypeOK'
    BY <1>3 DEF MoveAside, GoTo, IInv, TypeOK, NamesAt
  <2>2. KindAt' /\ KeyedAt' /\ NamesAt' /\ SwapAt' /\ ErrorAt'
    BY <1>3 DEF MoveAside, GoTo, IInv, TypeOK, KindAt, KeyedAt, NamesAt, SwapAt, ErrorAt
  <2>3. DoneIsDerived' /\ FailedCallRestores' /\ FailedCallIsClean'
    BY <1>3 DEF MoveAside, GoTo, DoneIsDerived, FailedCallRestores, FailedCallIsClean
  <2> QED
    BY <2>1, <2>2, <2>3, SwapKeepsOne DEF IInv
<1>4. CASE EnterTry
  <2>1. TypeOK'
    BY <1>4 DEF EnterTry, GoTo, IInv, TypeOK, NamesAt
  <2>2. KindAt' /\ KeyedAt' /\ NamesAt' /\ SwapAt' /\ ErrorAt'
    BY <1>4 DEF EnterTry, GoTo, IInv, TypeOK, KindAt, KeyedAt, NamesAt, SwapAt, ErrorAt
  <2>3. DoneIsDerived' /\ FailedCallRestores' /\ FailedCallIsClean'
    BY <1>4 DEF EnterTry, GoTo, DoneIsDerived, FailedCallRestores, FailedCallIsClean
  <2> QED
    BY <2>1, <2>2, <2>3, SwapKeepsOne DEF IInv
<1>5. CASE Publish
  <2>1. pc' \in Labels /\ UNCHANGED <<kind, raising, faults, old, raised, at, left>>
    BY <1>5 DEF Publish, GoTo
  <2>2. TypeOK'
    BY <1>5, <2>1 DEF Publish, IInv, TypeOK, NamesAt
  <2>3. KindAt' /\ KeyedAt' /\ NamesAt' /\ SwapAt' /\ ErrorAt'
    BY <1>5 DEF Publish, GoTo, IInv, TypeOK, KindAt, KeyedAt, NamesAt, SwapAt, ErrorAt
  <2>4. DoneIsDerived' /\ FailedCallRestores' /\ FailedCallIsClean'
    BY <1>5
    DEF Publish, GoTo, IInv, TypeOK, KindAt, NamesAt, KeyedAt, SwapAt, ErrorAt,
        DoneIsDerived, FailedCallRestores, FailedCallIsClean, Valid, Trusted
  <2> QED
    BY <2>2, <2>3, <2>4, SwapKeepsOne DEF IInv
<1>6. CASE DropAside
  <2>1. TypeOK'
    BY <1>6 DEF DropAside, GoTo, IInv, TypeOK, NamesAt
  <2>2. KindAt' /\ KeyedAt' /\ NamesAt' /\ SwapAt' /\ ErrorAt'
    BY <1>6 DEF DropAside, GoTo, IInv, TypeOK, KindAt, KeyedAt, NamesAt, SwapAt, ErrorAt
  <2>3. DoneIsDerived' /\ FailedCallRestores' /\ FailedCallIsClean'
    BY <1>6 DEF DropAside, GoTo, DoneIsDerived, FailedCallRestores, FailedCallIsClean
  <2> QED
    BY <2>1, <2>2, <2>3, SwapKeepsOne DEF IInv
<1>7. CASE Confirm
  <2>1. TypeOK'
    BY <1>7 DEF Confirm, GoTo, IInv, TypeOK, NamesAt
  <2>2. KindAt' /\ KeyedAt' /\ NamesAt' /\ SwapAt' /\ ErrorAt'
    BY <1>7
    DEF Confirm, GoTo, IInv, TypeOK, KindAt, KeyedAt, NamesAt, SwapAt, ErrorAt, Valid
  <2>3. DoneIsDerived' /\ FailedCallRestores' /\ FailedCallIsClean'
    BY <1>7
    DEF Confirm, GoTo, IInv, TypeOK, KindAt, NamesAt, KeyedAt, SwapAt, ErrorAt,
        DoneIsDerived, FailedCallRestores, FailedCallIsClean, Valid, Trusted
  <2> QED
    BY <2>1, <2>2, <2>3, SwapKeepsOne DEF IInv
<1> QED
  BY <1>1, <1>2, <1>3, <1>4, <1>5, <1>6, <1>7

(* Handlers, deaths and builds. *)
LEMMA EndInvariant ==
  ASSUME IInv,
         \/ Restore \/ DropStaging \/ Die \/ Build
  PROVE  IInv'
<1> USE DEF disk, history, Idle, Labels, Handling, Swapping, Kinds, Trees
<1>1. CASE Restore
  <2>1. TypeOK'
    BY <1>1 DEF Restore, GoTo, IInv, TypeOK, NamesAt
  <2>2. KindAt' /\ KeyedAt' /\ NamesAt' /\ SwapAt' /\ ErrorAt'
    BY <1>1 DEF Restore, GoTo, IInv, TypeOK, KindAt, KeyedAt, NamesAt, SwapAt, ErrorAt
  <2>3. DoneIsDerived' /\ FailedCallRestores' /\ FailedCallIsClean'
    BY <1>1 DEF Restore, GoTo, DoneIsDerived, FailedCallRestores, FailedCallIsClean
  <2> QED
    BY <2>1, <2>2, <2>3, SwapKeepsOne DEF IInv
<1>2. CASE DropStaging
  <2>1. TypeOK'
    BY <1>2 DEF DropStaging, IInv, TypeOK, NamesAt
  <2>2. KindAt' /\ KeyedAt' /\ NamesAt' /\ SwapAt' /\ ErrorAt'
    BY <1>2 DEF DropStaging, IInv, TypeOK, KindAt, KeyedAt, NamesAt, SwapAt, ErrorAt
  <2>3. DoneIsDerived' /\ FailedCallRestores' /\ FailedCallIsClean'
    BY <1>2
    DEF DropStaging, IInv, TypeOK, KindAt, NamesAt, KeyedAt, SwapAt, ErrorAt,
        DoneIsDerived, FailedCallRestores, FailedCallIsClean
  <2> QED
    BY <2>1, <2>2, <2>3, SwapKeepsOne DEF IInv
<1>3. CASE Die
  <2>1. TypeOK'
    BY <1>3, BoundAssumption DEF Die, Costs, Ends, IInv, TypeOK, NamesAt
  <2>2. KindAt' /\ KeyedAt' /\ NamesAt' /\ SwapAt' /\ ErrorAt'
    BY <1>3
    DEF Die, Costs, Ends, IInv, TypeOK, KindAt, KeyedAt, NamesAt, SwapAt, ErrorAt
  <2>3. DoneIsDerived' /\ FailedCallRestores' /\ FailedCallIsClean'
    BY <1>3
    DEF Die, Costs, Ends, IInv, TypeOK, KindAt, NamesAt, KeyedAt, SwapAt, ErrorAt,
        DoneIsDerived, FailedCallRestores, FailedCallIsClean
  <2> QED
    BY <2>1, <2>2, <2>3, SwapKeepsOne DEF IInv
<1>4. CASE Build
  <2>1. TypeOK'
    BY <1>4 DEF Build, GoTo, IInv, TypeOK, NamesAt
  <2>2. KindAt' /\ KeyedAt' /\ NamesAt' /\ SwapAt' /\ ErrorAt'
    BY <1>4 DEF Build, GoTo, IInv, TypeOK, KindAt, KeyedAt, NamesAt, SwapAt, ErrorAt
  <2>3. DoneIsDerived' /\ FailedCallRestores' /\ FailedCallIsClean'
    BY <1>4
    DEF Build, GoTo, IInv, TypeOK, KindAt, NamesAt, KeyedAt, SwapAt, ErrorAt,
        DoneIsDerived, FailedCallRestores, FailedCallIsClean
  <2> QED
    BY <2>1, <2>2, <2>3, SwapKeepsOne DEF IInv
<1> QED
  BY <1>1, <1>2, <1>3, <1>4

LEMMA RaiseInvariant ==
  ASSUME IInv, NEW sort \in {"error", "signal"}, Raise(sort)
  PROVE  IInv'
<1>1. /\ pc \in Labels \ Idle /\ (pc = "gap" => sort = "signal")
      /\ raising' = sort /\ raised' = raised + 1 /\ at' = pc /\ faults' = faults + 1
      /\ raised' \in 0..MaxFaults /\ faults' \in 0..MaxFaults
      /\ raised \in Nat /\ (raised = 0 <=> pc \notin Handling)
  BY BoundAssumption DEF Raise, Costs, IInv, TypeOK, ErrorAt
<1>2. CASE Handlers(sort) = {}
  <2>1. /\ \/ pc \in {"lock", "rekey", "key", "validate", "download", "enter", "confirm",
                       "drop_staging"}
           \/ pc = "copy" /\ kind = "sources"
           \/ pc \in {"clear", "clearing"} /\ kind # "workspace"
        /\ Ends("failed") /\ UNCHANGED old
    <3>1. "restore" \notin Handlers(sort) /\ "drop_staging" \notin Handlers(sort)
      BY <1>2
    <3> QED
      BY <1>1, <1>2, <3>1 DEF Raise, Handlers, Labels, Idle
  <2>2. TypeOK'
    <3>1. keyed' \in BOOLEAN
      BY <2>1, Zenon DEF Ends, IInv, TypeOK
    <3> QED
      BY <1>1, <2>1, <3>1 DEF Ends, IInv, TypeOK, Labels, Idle, Trees
  <2>3. KindAt' /\ KeyedAt' /\ NamesAt' /\ SwapAt'
    BY <2>1 DEF Ends, KindAt, KeyedAt, NamesAt, SwapAt, Idle, Handling, IInv
  <2>4. ErrorAt'
    BY <1>1, <2>1 DEF Ends, ErrorAt, TypeOK, Idle, Handling, IInv
  <2>5. FailedCallRestores'
    BY <1>1, <2>1
    DEF Ends, FailedCallRestores, IInv, TypeOK, KindAt, NamesAt, SwapAt, Swapping, Handling, Kinds
  <2>6. FailedCallIsClean'
    BY <1>1, <2>1 DEF Ends, FailedCallIsClean, IInv, TypeOK, NamesAt, Handling, Idle, Kinds, KindAt, Swapping
  <2>7. DoneIsDerived'
    BY <2>1 DEF Ends, DoneIsDerived
  <2> QED
    BY <2>2, <2>3, <2>4, <2>5, <2>6, <2>7, SwapKeepsOne DEF IInv
<1>3. CASE Handlers(sort) # {}
  <2>1. pc' \in Handlers(sort) /\ UNCHANGED <<kind, disk, old, left>>
    BY <1>3 DEF Raise
  <2>2. pc' \in Handling
    BY <2>1 DEF Handlers, Handling
  <2>3. TypeOK'
    <3>1. keyed' \in BOOLEAN
      BY <2>1, Zenon DEF disk, IInv, TypeOK
    <3> QED
      BY <1>1, <2>1, <2>2, <3>1 DEF disk, IInv, TypeOK, Labels, Handling
  <2>4. KindAt' /\ KeyedAt' /\ NamesAt'
    BY <1>1, <2>1, <2>2
    DEF disk, KindAt, KeyedAt, NamesAt, Idle, Handling, IInv, Handlers, Swapping
  <2>5. SwapAt'
    BY <1>1, <2>1
    DEF disk, Handlers, SwapAt, NamesAt, KindAt, IInv, Swapping, Idle, Handling
  <2>6. ErrorAt'
    BY <1>1, <2>1
    DEF disk, Handlers, ErrorAt, NamesAt, KindAt, SwapAt, IInv, TypeOK, Swapping, Idle, Handling
  <2>7. DoneIsDerived' /\ FailedCallRestores' /\ FailedCallIsClean'
    BY <2>2 DEF Handling, DoneIsDerived, FailedCallRestores, FailedCallIsClean
  <2> QED
    BY <2>3, <2>4, <2>5, <2>6, <2>7, SwapKeepsOne DEF IInv
<1> QED
  BY <1>2, <1>3

LEMMA StutterInvariant == ASSUME IInv, UNCHANGED vars PROVE IInv'
BY DEF vars, disk, history, IInv, TypeOK, KindAt, KeyedAt, NamesAt, SwapAt, ErrorAt,
       DoneIsDerived, OldOrNewExists, FailedCallRestores, FailedCallIsClean, Valid, Trusted

THEOREM InductiveInvariant == Spec => []IInv
<1>1. IInv /\ [Next]_vars => IInv'
  <2> SUFFICES ASSUME IInv, [Next]_vars PROVE IInv'
    OBVIOUS
  <2>1. CASE Step
    BY <2>1, PrepareInvariant, PublishInvariant, EndInvariant DEF Step
  <2>2. CASE Begin \/ ValidateSpuriously
    BY <2>2, PrepareInvariant
  <2>3. CASE Build \/ Die
    BY <2>3, EndInvariant
  <2>4. ASSUME NEW sort \in {"error", "signal"}, Raise(sort) PROVE IInv'
    BY <2>4, RaiseInvariant
  <2>5. CASE UNCHANGED vars
    BY <2>5, StutterInvariant
  <2> QED
    BY <2>1, <2>2, <2>3, <2>4, <2>5 DEF Next
<1> QED
  BY InitInvariant, <1>1, PTL DEF Spec

(* Every variable keeps its type (portable.py, ovoxel_cpu.py and the caches   *)
(* of dependencies.py).                                                    *)
THEOREM PublicationTypeCorrect == Spec => []TypeOK
<1>1. IInv => TypeOK
  BY DEF IInv
<1> QED
  BY <1>1, InductiveInvariant, PTL

(* A publisher returns only over the trusted derivation.                    *)
THEOREM PublishedIsDerived == Spec => []DoneIsDerived
<1>1. IInv => DoneIsDerived
  BY DEF IInv
<1> QED
  BY <1>1, InductiveInvariant, PTL

(* While a publisher swaps, the old tree or the new one exists.              *)
THEOREM OldOrNewAlwaysExists == Spec => []OldOrNewExists
<1>1. IInv => OldOrNewExists
  BY DEF IInv
<1> QED
  BY <1>1, InductiveInvariant, PTL

(* One exception leaves the old tree or the new one at its place, but for a   *)
(* signal in the gap.                                                      *)
THEOREM OneExceptionRestores == Spec => []FailedCallRestores
<1>1. IInv => FailedCallRestores
  BY DEF IInv
<1> QED
  BY <1>1, InductiveInvariant, PTL

(* One error leaves nothing under a fresh name but what could not be removed. *)
THEOREM OneErrorIsClean == Spec => []FailedCallIsClean
<1>1. IInv => FailedCallIsClean
  BY DEF IInv
<1> QED
  BY <1>1, InductiveInvariant, PTL
=============================================================================
