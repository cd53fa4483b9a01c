-------------------- MODULE MetadataNormalization_proofs --------------------
(***************************************************************************)
(* For any package, any number of writes of another process and any number   *)
(* of errors, signals and deaths: the types, that a report was true of the   *)
(* whole tree at one moment, the order of the publication, and what a         *)
(* failure leaves.                                                          *)
(*                                                                         *)
(* The report rests on two passes over the tree: all names are hashed before *)
(* any is looked at again.  At the judgement either all are as they were      *)
(* hashed, and the tree was then in the reported state, or one is not; it    *)
(* never will be again, and the pass that follows has yet to come to it       *)
(* (JudgedAt).                                                             *)
(***************************************************************************)
EXTENDS MetadataNormalization, TLAPS

LEMMA StatesOfType == \A files : StatesOf(files) \subseteq States
BY DEF StatesOf

LEMMA InitInvariant == Init => IInv
<1> SUFFICES ASSUME Init PROVE IInv
  OBVIOUS
<1> USE DEF Init, Idle, Inspecting, Publishing, Metadata, States
<1>1. TypeOK
  <2>1. bound \in BOOLEAN /\ staging \in BOOLEAN /\ broken \in BOOLEAN
    BY Zenon
  <2>2. file \in [Names -> Contents] /\ seen \in [Names -> Contents]
    BY DEF Contents
  <2> QED
    BY <2>1, <2>2, StatesOfType, BoundAssumption DEF TypeOK, Labels
<1>2. Collected /\ JudgedAt /\ ReportedWasThere
  BY DEF Collected, JudgedAt, ReportedWasThere
<1>3. OrderedAt /\ TempAt
  BY DEF OrderedAt, TempAt, Unpublished, HalfPublished
<1> QED
  BY <1>1, <1>2, <1>3 DEF IInv

-----------------------------------------------------------------------------
(* Steps that end a call, whatever they are steps of                        *)

(* Where the call has ended there is nothing left to say.                   *)
LEMMA EndsInvariant ==
  ASSUME IInv, NEW outcome \in {"failed", "dead"}, NEW kept, Ends(outcome, kept),
         whole' \subseteq States, broken' \in BOOLEAN,
         writes' \in 0..MaxWrites, faults' \in 0..MaxFaults
  PROVE  IInv'
<1> USE DEF Ends, Forget, Idle, Inspecting, Publishing, Metadata, States
<1>1. TypeOK'
  <2>1. bound' \in BOOLEAN /\ staging' \in BOOLEAN
    BY Zenon DEF IInv, TypeOK
  <2>2. seen' \in [Names -> Contents]
    BY DEF Contents
  <2>3. extra' \subseteq {"package", "dist"}
    BY DEF IInv, TypeOK
  <2>4. temp' \in [Metadata -> {"none", "torn", "staged", "moved"}]
    OBVIOUS
  <2> QED
    BY <2>1, <2>2, <2>3, <2>4 DEF IInv, TypeOK, Labels
<1>2. Collected' /\ JudgedAt' /\ ReportedWasThere'
  BY DEF Collected, JudgedAt, ReportedWasThere
<1>3. OrderedAt' /\ TempAt'
  BY DEF OrderedAt, TempAt, Unpublished, HalfPublished
<1> QED
  BY <1>1, <1>2, <1>3 DEF IInv

(* The publication goes to its clean-up.                                    *)
LEMMA LeavesInvariant ==
  ASSUME IInv, pc \in Publishing, pc' = "cleanup",
         UNCHANGED <<file, extra, bound, staging, task, inspection, publication>>,
         UNCHANGED writes, faults' \in 0..MaxFaults, broken' \in BOOLEAN,
         broken \/ pc \in {"fill", "unstage"} => broken', Sees
  PROVE  IInv'
<1> USE DEF locals, inspection, publication, Idle, Inspecting, Publishing, Metadata, States
<1>1. TypeOK'
  BY StatesOfType DEF Sees, IInv, TypeOK, Labels
<1>2. Collected' /\ JudgedAt' /\ ReportedWasThere'
  BY DEF Sees, IInv, Collected, JudgedAt, ReportedWasThere
<1>3. OrderedAt' /\ TempAt'
  BY DEF IInv, OrderedAt, TempAt, Unpublished, HalfPublished
<1> QED
  BY <1>1, <1>2, <1>3 DEF IInv

LEMMA FailsInvariant ==
  ASSUME IInv, Fails, pc \notin Idle \cup {"fill", "unstage", "cleanup"}
  PROVE  IInv'
<1>1. /\ whole' \subseteq States /\ broken' \in BOOLEAN /\ broken' = broken
      /\ writes' \in 0..MaxWrites /\ faults' \in 0..MaxFaults
  <2>1. broken' \in BOOLEAN /\ broken' = broken
    BY Zenon DEF Fails, IInv, TypeOK
  <2> QED
    BY <2>1, StatesOfType DEF Fails, Sees, IInv, TypeOK
<1>2. CASE pc \in Publishing
  BY <1>1, <1>2, LeavesInvariant DEF Fails, Escapes
<1>3. CASE pc \notin Publishing
  BY <1>1, <1>3, EndsInvariant DEF Fails, Escapes
<1> QED
  BY <1>2, <1>3

(* The inspection up to its judgement. *)
LEMMA InspectInvariant ==
  ASSUME IInv, Open \/ Inspect \/ (\E n \in Names : Hash(n)) \/ HashedPackage \/
         RecheckedPackage \/ ListDist \/ HashedDist \/ RecheckedDist
  PROVE  IInv'
<1> USE DEF locals, inspection, publication, Idle, Inspecting, Publishing, Metadata, States, Labels
<1>1. CASE Open
  <2>1. CASE Fails
    BY <1>1, <2>1, FailsInvariant DEF Open
  <2>2. CASE ~Fails
    <3>1. TypeOK'
      BY <1>1, <2>2, StatesOfType DEF Open, Check, Silent, Sees, IInv, TypeOK
    <3>2. Collected' /\ JudgedAt'
      BY <1>1, <2>2 DEF Open, Check, Silent, Sees, IInv, TypeOK, Collected, JudgedAt
    <3>3. ReportedWasThere'
      BY <1>1, <2>2 DEF Open, Check, Silent, Sees, IInv, JudgedAt, ReportedWasThere
    <3>4. OrderedAt' /\ TempAt'
      BY <1>1, <2>2
      DEF Open, Check, Silent, Sees, Unpublished, HalfPublished, IInv, TypeOK,
          OrderedAt, TempAt
    <3> QED
      BY <3>1, <3>2, <3>3, <3>4 DEF IInv
  <2> QED
    BY <2>1, <2>2
<1>2. CASE Inspect
  <2>1. whole' \subseteq States /\ UNCHANGED <<writes, faults, broken>>
    BY <1>2, StatesOfType DEF Inspect, Sees, IInv, TypeOK
  <2>2. broken' \in BOOLEAN
    BY <2>1, Zenon DEF IInv, TypeOK
  <2>3. CASE Ends("failed", Metadata)
    BY <2>1, <2>2, <2>3, EndsInvariant DEF IInv, TypeOK
  <2>4. CASE ~Ends("failed", Metadata)
    <3>1. TypeOK'
      BY <1>2, <2>4, StatesOfType DEF Inspect, Silent, Sees, IInv, TypeOK, Names, Dist
    <3>2. Collected' /\ JudgedAt'
      BY <1>2, <2>4 DEF Inspect, Silent, Sees, IInv, TypeOK, Collected, JudgedAt
    <3>3. ReportedWasThere'
      BY <1>2, <2>4 DEF Inspect, Silent, Sees, IInv, JudgedAt, ReportedWasThere
    <3>4. OrderedAt' /\ TempAt'
      BY <1>2, <2>4
      DEF Inspect, Silent, Sees, Unpublished, HalfPublished, IInv, TypeOK, OrderedAt,
          TempAt
    <3> QED
      BY <3>1, <3>2, <3>3, <3>4 DEF IInv
  <2> QED
    BY <2>3, <2>4
<1>3. ASSUME NEW n \in Names, Hash(n) PROVE IInv'
  <2>1. whole' \subseteq States /\ UNCHANGED <<writes, faults, broken>>
    BY <1>3, StatesOfType DEF Hash, Sees, IInv, TypeOK
  <2>2. broken' \in BOOLEAN
    BY <2>1, Zenon DEF IInv, TypeOK
  <2>3. CASE Ends("failed", Metadata)
    BY <2>1, <2>2, <2>3, EndsInvariant DEF IInv, TypeOK
  <2>4. CASE ~Ends("failed", Metadata)
    <3>1. TypeOK'
      BY <1>3, <2>4, StatesOfType DEF Hash, Silent, Sees, IInv, TypeOK
    <3>2. Collected' /\ JudgedAt'
      BY <1>3, <2>4 DEF Hash, Silent, Sees, IInv, TypeOK, Collected, JudgedAt
    <3>3. ReportedWasThere'
      BY <1>3, <2>4 DEF Hash, Silent, Sees, IInv, JudgedAt, ReportedWasThere
    <3>4. OrderedAt' /\ TempAt'
      BY <1>3, <2>4
      DEF Hash, Silent, Sees, Unpublished, HalfPublished, IInv, TypeOK, OrderedAt,
          TempAt
    <3> QED
      BY <3>1, <3>2, <3>3, <3>4 DEF IInv
  <2> QED
    BY <2>3, <2>4
<1>4. CASE HashedPackage
  <2>1. TypeOK'
    BY <1>4, StatesOfType
    DEF HashedPackage, Hashed, Silent, Sees, IInv, TypeOK, Names, Dist
  <2>2. Collected' /\ JudgedAt'
    BY <1>4 DEF HashedPackage, Hashed, Silent, Sees, IInv, TypeOK, Collected, JudgedAt
  <2>3. ReportedWasThere'
    BY <1>4 DEF HashedPackage, Hashed, Silent, Sees, IInv, JudgedAt, ReportedWasThere
  <2>4. OrderedAt' /\ TempAt'
    BY <1>4
    DEF HashedPackage, Hashed, Silent, Sees, Unpublished, HalfPublished, IInv, TypeOK,
        OrderedAt, TempAt
  <2> QED
    BY <2>1, <2>2, <2>3, <2>4 DEF IInv
<1>5. CASE RecheckedPackage
  <2>1. TypeOK'
    BY <1>5, StatesOfType
    DEF RecheckedPackage, Hashed, Silent, Sees, IInv, TypeOK, Names, Dist
  <2>2. Collected' /\ JudgedAt'
    BY <1>5
    DEF RecheckedPackage, Hashed, Silent, Sees, IInv, TypeOK, Collected, JudgedAt
  <2>3. ReportedWasThere'
    BY <1>5 DEF RecheckedPackage, Hashed, Silent, Sees, IInv, JudgedAt, ReportedWasThere
  <2>4. OrderedAt' /\ TempAt'
    BY <1>5
    DEF RecheckedPackage, Hashed, Silent, Sees, Unpublished, HalfPublished, IInv,
        TypeOK, OrderedAt, TempAt
  <2> QED
    BY <2>1, <2>2, <2>3, <2>4 DEF IInv
<1>6. CASE ListDist
  <2>1. CASE Fails
    BY <1>6, <2>1, FailsInvariant DEF ListDist
  <2>2. CASE ~Fails
    <3>1. TypeOK'
      BY <1>6, <2>2, StatesOfType DEF ListDist, Check, Silent, Sees, IInv, TypeOK
    <3>2. Collected' /\ JudgedAt'
      BY <1>6, <2>2 DEF ListDist, Check, Silent, Sees, IInv, TypeOK, Collected, JudgedAt
    <3>3. ReportedWasThere'
      BY <1>6, <2>2 DEF ListDist, Check, Silent, Sees, IInv, JudgedAt, ReportedWasThere
    <3>4. OrderedAt' /\ TempAt'
      BY <1>6, <2>2
      DEF ListDist, Check, Silent, Sees, Unpublished, HalfPublished, IInv, TypeOK,
          OrderedAt, TempAt
    <3> QED
      BY <3>1, <3>2, <3>3, <3>4 DEF IInv
  <2> QED
    BY <2>1, <2>2
<1>7. CASE HashedDist
  <2>1. TypeOK'
    BY <1>7, StatesOfType
    DEF HashedDist, Hashed, Silent, Sees, IInv, TypeOK, Names, Dist
  <2>2. Collected' /\ JudgedAt'
    BY <1>7 DEF HashedDist, Hashed, Silent, Sees, IInv, TypeOK, Collected, JudgedAt
  <2>3. ReportedWasThere'
    BY <1>7 DEF HashedDist, Hashed, Silent, Sees, IInv, JudgedAt, ReportedWasThere
  <2>4. OrderedAt' /\ TempAt'
    BY <1>7
    DEF HashedDist, Hashed, Silent, Sees, Unpublished, HalfPublished, IInv, TypeOK,
        OrderedAt, TempAt
  <2> QED
    BY <2>1, <2>2, <2>3, <2>4 DEF IInv
<1>8. CASE RecheckedDist
  <2>1. TypeOK'
    BY <1>8, StatesOfType DEF RecheckedDist, Hashed, Silent, Sees, IInv, TypeOK
  <2>2. Collected' /\ JudgedAt'
    BY <1>8 DEF RecheckedDist, Hashed, Silent, Sees, IInv, TypeOK, Collected, JudgedAt
  <2>3. ReportedWasThere'
    BY <1>8 DEF RecheckedDist, Hashed, Silent, Sees, IInv, JudgedAt, ReportedWasThere
  <2>4. OrderedAt' /\ TempAt'
    BY <1>8
    DEF RecheckedDist, Hashed, Silent, Sees, Unpublished, HalfPublished, IInv, TypeOK,
        OrderedAt, TempAt
  <2> QED
    BY <2>1, <2>2, <2>3, <2>4 DEF IInv
<1> QED
  BY <1>1, <1>2, <1>3, <1>4, <1>5, <1>6, <1>7, <1>8

(* The judgement, the last revalidation and the report. *)
LEMMA JudgeInvariant ==
  ASSUME IInv, (\E n \in Names : Recheck(n)) \/ Judge \/ Load \/ RecheckedAll \/ Refuse
         \/ Conclude
  PROVE  IInv'
<1> USE DEF locals, inspection, publication, Idle, Inspecting, Publishing, Metadata, States, Labels
<1>1. ASSUME NEW n \in Names, Recheck(n) PROVE IInv'
  <2>1. whole' \subseteq States /\ UNCHANGED <<writes, faults, broken>>
    BY <1>1, StatesOfType DEF Recheck, Sees, IInv, TypeOK
  <2>2. broken' \in BOOLEAN
    BY <2>1, Zenon DEF IInv, TypeOK
  <2>3. CASE Ends("failed", Metadata)
    BY <2>1, <2>2, <2>3, EndsInvariant DEF IInv, TypeOK
  <2>4. CASE ~Ends("failed", Metadata)
    <3>1. TypeOK'
      BY <1>1, <2>4, StatesOfType DEF Recheck, Unchanged, Silent, Sees, IInv, TypeOK
    <3>2. Collected' /\ JudgedAt'
      BY <1>1, <2>4
      DEF Recheck, Unchanged, Silent, Sees, IInv, TypeOK, Collected, JudgedAt
    <3>3. ReportedWasThere'
      BY <1>1, <2>4
      DEF Recheck, Unchanged, Silent, Sees, IInv, JudgedAt, ReportedWasThere
    <3>4. OrderedAt' /\ TempAt'
      BY <1>1, <2>4
      DEF Recheck, Unchanged, Silent, Sees, Unpublished, HalfPublished, IInv, TypeOK,
          OrderedAt, TempAt
    <3> QED
      BY <3>1, <3>2, <3>3, <3>4 DEF IInv
  <2> QED
    BY <2>3, <2>4
<1>2. CASE Judge
  <2>1. whole' \subseteq States /\ UNCHANGED <<writes, faults, broken>>
    BY <1>2, StatesOfType DEF Judge, Sees, IInv, TypeOK
  <2>2. broken' \in BOOLEAN
    BY <2>1, Zenon DEF IInv, TypeOK
  <2>3. CASE Ends("failed", Metadata)
    BY <2>1, <2>2, <2>3, EndsInvariant DEF IInv, TypeOK
  <2>4. CASE ~Ends("failed", Metadata)
    <3>1. TypeOK'
      BY <1>2, <2>4, StatesOfType DEF Judge, Silent, Sees, IInv, TypeOK
    <3>2. Collected' /\ JudgedAt'
      BY <1>2, <2>4, StatesOfType
      DEF Judge, Silent, Sees, StatesOf, IInv, TypeOK, Collected, JudgedAt
    <3>3. ReportedWasThere'
      BY <1>2, <2>4 DEF Judge, Silent, Sees, IInv, JudgedAt, ReportedWasThere
    <3>4. OrderedAt' /\ TempAt'
      BY <1>2, <2>4
      DEF Judge, Silent, Sees, Unpublished, HalfPublished, IInv, TypeOK, OrderedAt,
          TempAt
    <3> QED
      BY <3>1, <3>2, <3>3, <3>4 DEF IInv
  <2> QED
    BY <2>3, <2>4
<1>3. CASE Load
  <2>1. CASE Fails
    BY <1>3, <2>1, FailsInvariant DEF Load
  <2>2. CASE ~Fails
    <3>1. TypeOK'
      BY <1>3, <2>2, StatesOfType DEF Load, Check, Silent, Sees, IInv, TypeOK
    <3>2. Collected' /\ JudgedAt'
      BY <1>3, <2>2 DEF Load, Check, Silent, Sees, IInv, TypeOK, Collected, JudgedAt
    <3>3. ReportedWasThere'
      BY <1>3, <2>2 DEF Load, Check, Silent, Sees, IInv, JudgedAt, ReportedWasThere
    <3>4. OrderedAt' /\ TempAt'
      BY <1>3, <2>2
      DEF Load, Check, Silent, Sees, Unpublished, HalfPublished, IInv, TypeOK,
          OrderedAt, TempAt
    <3> QED
      BY <3>1, <3>2, <3>3, <3>4 DEF IInv
  <2> QED
    BY <2>1, <2>2
<1>4. CASE RecheckedAll
  <2>1. TypeOK'
    BY <1>4, StatesOfType DEF RecheckedAll, Hashed, Silent, Sees, IInv, TypeOK
  <2>2. Collected' /\ JudgedAt'
    BY <1>4 DEF RecheckedAll, Hashed, Silent, Sees, IInv, TypeOK, Collected, JudgedAt
  <2>3. ReportedWasThere'
    BY <1>4 DEF RecheckedAll, Hashed, Silent, Sees, IInv, JudgedAt, ReportedWasThere
  <2>4. OrderedAt' /\ TempAt'
    BY <1>4
    DEF RecheckedAll, Hashed, Silent, Sees, Unpublished, HalfPublished, IInv, TypeOK,
        OrderedAt, TempAt
  <2> QED
    BY <2>1, <2>2, <2>3, <2>4 DEF IInv
<1>5. CASE Refuse
  BY <1>5, FailsInvariant DEF Refuse
<1>6. CASE Conclude
  <2>0. /\ pc = "conclude" /\ (pc' = "done" \/ (pc' = "publish" /\ staging /\ state = "original"))
       /\ UNCHANGED <<file, extra, bound, staging, task, state, round, leaf, temp, ours, writes, faults, broken>>
       /\ todo' = {} /\ same' = {} /\ seen' = [n \in Names |-> "absent"]
       /\ Sees
    BY <1>6 DEF Conclude, Report, Forget, Silent, IInv, TypeOK
  <2>1. TypeOK'
    BY <2>0, StatesOfType DEF Sees, IInv, TypeOK, Contents
  <2>2. Collected' /\ JudgedAt'
    BY <2>0 DEF Silent, Sees, IInv, TypeOK, Collected, JudgedAt
  <2>3. ReportedWasThere'
    BY <2>0 DEF Silent, Sees, IInv, JudgedAt, ReportedWasThere
  <2>4. OrderedAt' /\ TempAt'
    BY <2>0
    DEF Silent, Sees, Unpublished, HalfPublished, IInv, TypeOK, OrderedAt, TempAt
  <2> QED
    BY <2>1, <2>2, <2>3, <2>4 DEF IInv
<1> QED
  BY <1>1, <1>2, <1>3, <1>4, <1>5, <1>6

(* The publication. *)
LEMMA PublishInvariant ==
  ASSUME IInv, Publish \/ Create \/ Fill \/ Unstage \/ Unbound \/ Rebind \/ Read \/
         ReadOther \/ Replace \/ Confirm \/ Sync \/ SyncUnbound \/ Cleanup
  PROVE  IInv'
<1> USE DEF locals, inspection, publication, Idle, Inspecting, Publishing, Metadata, States, Labels
<1>1. CASE Publish
  <2>1. TypeOK'
    BY <1>1, StatesOfType DEF Publish, To, Silent, Sees, IInv, TypeOK
  <2>2. Collected' /\ JudgedAt'
    BY <1>1 DEF Publish, To, Silent, Sees, IInv, TypeOK, Collected, JudgedAt
  <2>3. ReportedWasThere'
    BY <1>1 DEF Publish, To, Silent, Sees, IInv, JudgedAt, ReportedWasThere
  <2>4. OrderedAt' /\ TempAt'
    BY <1>1
    DEF Publish, To, Silent, Sees, Unpublished, HalfPublished, IInv, TypeOK, OrderedAt,
        TempAt
  <2> QED
    BY <2>1, <2>2, <2>3, <2>4 DEF IInv
<1>2. CASE Create
  <2>1. TypeOK'
    BY <1>2, StatesOfType DEF Create, To, Silent, Sees, IInv, TypeOK
  <2>2. Collected' /\ JudgedAt'
    BY <1>2 DEF Create, To, Silent, Sees, IInv, TypeOK, Collected, JudgedAt
  <2>3. ReportedWasThere'
    BY <1>2 DEF Create, To, Silent, Sees, IInv, JudgedAt, ReportedWasThere
  <2>4. OrderedAt' /\ TempAt'
    BY <1>2
    DEF Create, To, Silent, Sees, Unpublished, HalfPublished, IInv, TypeOK, OrderedAt,
        TempAt
  <2> QED
    BY <2>1, <2>2, <2>3, <2>4 DEF IInv
<1>3. CASE Fill
  <2>1. TypeOK'
    BY <1>3, StatesOfType DEF Fill, To, Silent, Sees, IInv, TypeOK
  <2>2. Collected' /\ JudgedAt'
    BY <1>3 DEF Fill, To, Silent, Sees, IInv, TypeOK, Collected, JudgedAt
  <2>3. ReportedWasThere'
    BY <1>3 DEF Fill, To, Silent, Sees, IInv, JudgedAt, ReportedWasThere
  <2>4. OrderedAt' /\ TempAt'
    BY <1>3
    DEF Fill, To, Silent, Sees, Unpublished, HalfPublished, IInv, TypeOK, OrderedAt,
        TempAt
  <2> QED
    BY <2>1, <2>2, <2>3, <2>4 DEF IInv
<1>4. CASE Unstage
  <2>1. TypeOK'
    BY <1>4, StatesOfType DEF Unstage, To, Silent, Sees, IInv, TypeOK
  <2>2. Collected' /\ JudgedAt'
    BY <1>4 DEF Unstage, To, Silent, Sees, IInv, TypeOK, Collected, JudgedAt
  <2>3. ReportedWasThere'
    BY <1>4 DEF Unstage, To, Silent, Sees, IInv, JudgedAt, ReportedWasThere
  <2>4. OrderedAt' /\ TempAt'
    BY <1>4
    DEF Unstage, To, Silent, Sees, Unpublished, HalfPublished, IInv, TypeOK, OrderedAt,
        TempAt
  <2> QED
    BY <2>1, <2>2, <2>3, <2>4 DEF IInv
<1>5. CASE Unbound
  BY <1>5, FailsInvariant DEF Unbound
<1>6. CASE Rebind
  <2>1. TypeOK'
    BY <1>6, StatesOfType DEF Rebind, To, Silent, Sees, IInv, TypeOK
  <2>2. Collected' /\ JudgedAt'
    BY <1>6 DEF Rebind, To, Silent, Sees, IInv, TypeOK, Collected, JudgedAt
  <2>3. ReportedWasThere'
    BY <1>6 DEF Rebind, To, Silent, Sees, IInv, JudgedAt, ReportedWasThere
  <2>4. OrderedAt' /\ TempAt'
    BY <1>6
    DEF Rebind, To, Silent, Sees, Unpublished, HalfPublished, IInv, TypeOK, OrderedAt,
        TempAt
  <2> QED
    BY <2>1, <2>2, <2>3, <2>4 DEF IInv
<1>7. CASE Read
  <2>1. TypeOK'
    BY <1>7, StatesOfType DEF Read, To, Silent, Sees, IInv, TypeOK
  <2>2. Collected' /\ JudgedAt'
    BY <1>7 DEF Read, To, Silent, Sees, IInv, TypeOK, Collected, JudgedAt
  <2>3. ReportedWasThere'
    BY <1>7 DEF Read, To, Silent, Sees, IInv, JudgedAt, ReportedWasThere
  <2>4. OrderedAt' /\ TempAt'
    BY <1>7
    DEF Read, To, Silent, Sees, Unpublished, HalfPublished, IInv, TypeOK, OrderedAt,
        TempAt
  <2> QED
    BY <2>1, <2>2, <2>3, <2>4 DEF IInv
<1>8. CASE ReadOther
  BY <1>8, FailsInvariant DEF ReadOther
<1>9. CASE Replace
  <2>1. TypeOK'
    BY <1>9, StatesOfType
    DEF Replace, To, Silent, Sees, IInv, TypeOK, Names, Dist, Contents
  <2>2. Collected' /\ JudgedAt'
    BY <1>9 DEF Replace, To, Silent, Sees, IInv, TypeOK, Collected, JudgedAt
  <2>3. ReportedWasThere'
    BY <1>9 DEF Replace, To, Silent, Sees, IInv, JudgedAt, ReportedWasThere
  <2>4. OrderedAt' /\ TempAt'
    BY <1>9
    DEF Replace, To, Silent, Sees, Unpublished, HalfPublished, IInv, TypeOK, OrderedAt,
        TempAt, StatesOf, Audited, ReportedWasThere
  <2> QED
    BY <2>1, <2>2, <2>3, <2>4 DEF IInv
<1>10. CASE Confirm
  <2>1. CASE Fails
    BY <1>10, <2>1, FailsInvariant DEF Confirm
  <2>2. CASE ~Fails
    <3>0. /\ pc = "confirm" /\ pc' = "sync" /\ Sees
         /\ UNCHANGED <<file, extra, bound, staging, task, inspection, publication, writes, faults, broken>>
      BY <1>10, <2>2 DEF Confirm, Check, Silent, IInv, TypeOK
    <3>1. TypeOK'
      BY <3>0, StatesOfType DEF Sees, IInv, TypeOK
    <3>2. Collected' /\ JudgedAt'
      BY <3>0 DEF Silent, Sees, IInv, TypeOK, Collected, JudgedAt
    <3>3. ReportedWasThere'
      BY <3>0 DEF Silent, Sees, IInv, JudgedAt, ReportedWasThere
    <3>4. OrderedAt' /\ TempAt'
      BY <3>0
      DEF Silent, Sees, Unpublished, HalfPublished, IInv, TypeOK, OrderedAt, TempAt
    <3> QED
      BY <3>1, <3>2, <3>3, <3>4 DEF IInv
  <2> QED
    BY <2>1, <2>2
<1>11. CASE Sync
  <2>1. /\ pc = "sync" /\ Sees
        /\ UNCHANGED <<file, extra, bound, staging, task, locals, state, temp, ours, writes,
                        faults, broken>>
    BY <1>11 DEF Sync, Silent
  <2>2. CASE leaf = "WHEEL"
    <3>1. pc' = "replace" /\ leaf' = "RECORD" /\ UNCHANGED round
      BY <1>11, <2>2 DEF Sync, To
    <3>2. TypeOK'
      BY <2>1, <2>2, <3>1, StatesOfType DEF Sees, IInv, TypeOK
    <3>3. Collected' /\ JudgedAt'
      BY <2>1, <2>2, <3>1 DEF Sees, IInv, TypeOK, Collected, JudgedAt
    <3>4. ReportedWasThere'
      BY <2>1, <2>2, <3>1 DEF Sees, IInv, JudgedAt, ReportedWasThere
    <3>5. OrderedAt' /\ TempAt'
      BY <2>1, <2>2, <3>1
      DEF Sees, Unpublished, HalfPublished, IInv, TypeOK, OrderedAt, TempAt
    <3> QED
      BY <3>2, <3>3, <3>4, <3>5 DEF IInv
  <2>3. CASE leaf # "WHEEL"
    <3>1. pc' = "inspect" /\ leaf' = leaf /\ round' = 2
      BY <1>11, <2>3 DEF Sync, To
    <3>2. TypeOK'
      <4>1. whole' \subseteq States
        BY <2>1, StatesOfType DEF Sees, IInv, TypeOK
      <4>2. bound' \in BOOLEAN /\ staging' \in BOOLEAN /\ broken' \in BOOLEAN
        BY <2>1, Zenon DEF IInv, TypeOK
      <4>3. pc' \in Labels /\ round' \in 1..2 /\ leaf' \in Metadata
        BY <3>1 DEF IInv, TypeOK
      <4> QED
        BY <2>1, <4>1, <4>2, <4>3 DEF IInv, TypeOK
    <3>3. Collected' /\ JudgedAt'
      BY <2>1, <2>3, <3>1 DEF Sees, IInv, TypeOK, Collected, JudgedAt
    <3>4. ReportedWasThere'
      BY <2>1, <2>3, <3>1 DEF Sees, IInv, JudgedAt, ReportedWasThere
    <3>5. OrderedAt' /\ TempAt'
      BY <2>1, <2>3, <3>1
      DEF Sees, Unpublished, HalfPublished, IInv, TypeOK, OrderedAt, TempAt
    <3> QED
      BY <3>2, <3>3, <3>4, <3>5 DEF IInv
  <2> QED
    BY <2>2, <2>3
<1>12. CASE SyncUnbound
  BY <1>12, FailsInvariant DEF SyncUnbound
<1>13. CASE Cleanup
  <2>1. whole' \subseteq States /\ UNCHANGED <<writes, faults, broken>>
    BY <1>13, StatesOfType DEF Cleanup, Sees, IInv, TypeOK
  <2>2. broken' \in BOOLEAN
    BY <2>1, Zenon DEF IInv, TypeOK
  <2> QED
    BY <1>13, <2>1, <2>2, EndsInvariant DEF Cleanup, IInv, TypeOK
<1> QED
  BY <1>1, <1>2, <1>3, <1>4, <1>5, <1>6, <1>7, <1>8, <1>9, <1>10, <1>11, <1>12, <1>13

(* Calls, exceptions, deaths and the other process.                         *)
LEMMA OutsideInvariant ==
  ASSUME IInv,
         \/ \E t \in {"normalize", "verify"} : Call(t)
         \/ \E n \in Names, c \in {"original", "other", "absent"} : Write(n, c)
         \/ \E d \in {"package", "dist"} : AddEntry(d)
         \/ Relink
  PROVE  IInv'
<1> USE DEF locals, inspection, publication, Idle, Inspecting, Publishing, Metadata, States, Labels
<1>1. ASSUME NEW t \in {"normalize", "verify"}, Call(t) PROVE IInv'
  <2>1. broken' \in BOOLEAN
    BY <1>1, Zenon DEF Call
  <2>2. TypeOK'
    <3>1. /\ pc' = "open" /\ task' = t /\ round' = 1
          /\ UNCHANGED <<file, extra, bound, staging, todo, seen, same, state, publication, writes, faults>>
          /\ Sees
      BY <1>1 DEF Call
    <3>2. whole' \subseteq States
      BY <3>1, StatesOfType DEF Sees, IInv, TypeOK
    <3>3. bound' \in BOOLEAN /\ staging' \in BOOLEAN
      BY <3>1, Zenon DEF IInv, TypeOK
    <3> QED
      BY <2>1, <3>1, <3>2, <3>3 DEF IInv, TypeOK
  <2>3. Collected' /\ JudgedAt' /\ ReportedWasThere'
    BY <1>1 DEF Call, IInv, Collected, JudgedAt, ReportedWasThere
  <2>4. OrderedAt' /\ TempAt'
    BY <1>1 DEF Call, IInv, OrderedAt, TempAt, Unpublished, HalfPublished
  <2> QED
    BY <2>2, <2>3, <2>4 DEF IInv
<1>2. ASSUME NEW n \in Names, NEW c \in {"original", "other", "absent"}, Write(n, c)
      PROVE  IInv'
  <2>1. writes' \in 0..MaxWrites /\ writes' # 0
    BY <1>2, BoundAssumption DEF Write, Interferes, IInv, TypeOK
  <2>2. TypeOK'
    <3>1. /\ file' \in [Names -> Contents] /\ same' \subseteq Names /\ ours' \subseteq Metadata
          /\ whole' \subseteq States
      BY <1>2, StatesOfType DEF Write, Sees, IInv, TypeOK, Contents
    <3>2. UNCHANGED <<extra, bound, staging, task, pc, todo, seen, state, round, leaf, temp,
                      faults, broken>>
      BY <1>2 DEF Write
    <3> QED
      BY <2>1, <3>1, <3>2 DEF IInv, TypeOK
  <2>3. Collected' /\ JudgedAt' /\ ReportedWasThere'
    BY <1>2 DEF Write, Sees, IInv, TypeOK, Collected, JudgedAt, ReportedWasThere
  <2>4. OrderedAt' /\ TempAt'
    BY <1>2, <2>1 DEF Write, IInv, OrderedAt, TempAt
  <2> QED
    BY <2>2, <2>3, <2>4 DEF IInv
<1>3. ASSUME NEW d \in {"package", "dist"}, AddEntry(d) PROVE IInv'
  <2>1. writes' \in 0..MaxWrites /\ writes' # 0
    BY <1>3, BoundAssumption DEF AddEntry, Interferes, IInv, TypeOK
  <2>2. TypeOK'
    <3>1. extra' \subseteq {"package", "dist"} /\ whole' \subseteq States
      BY <1>3, StatesOfType DEF AddEntry, Sees, IInv, TypeOK
    <3>2. UNCHANGED <<file, bound, staging, task, pc, inspection, publication, faults, broken>>
      BY <1>3 DEF AddEntry
    <3> QED
      BY <2>1, <3>1, <3>2 DEF IInv, TypeOK
  <2>3. Collected' /\ JudgedAt' /\ ReportedWasThere'
    BY <1>3 DEF AddEntry, Sees, IInv, Collected, JudgedAt, ReportedWasThere
  <2>4. OrderedAt' /\ TempAt'
    BY <1>3, <2>1 DEF AddEntry, IInv, OrderedAt, TempAt
  <2> QED
    BY <2>2, <2>3, <2>4 DEF IInv
<1>4. CASE Relink
  <2>1. writes' \in 0..MaxWrites /\ writes' # 0
    BY <1>4, BoundAssumption DEF Relink, Interferes, IInv, TypeOK
  <2>2. bound' \in BOOLEAN
    BY <1>4, Zenon DEF Relink
  <2>3. TypeOK'
    <3>1. whole' \subseteq States
      BY <1>4, StatesOfType DEF Relink, Sees, IInv, TypeOK
    <3>2. UNCHANGED <<file, extra, staging, task, pc, inspection, publication, faults, broken>>
      BY <1>4 DEF Relink
    <3> QED
      BY <2>1, <2>2, <3>1, <3>2 DEF IInv, TypeOK
  <2>4. Collected' /\ JudgedAt' /\ ReportedWasThere'
    BY <1>4 DEF Relink, Sees, IInv, Collected, JudgedAt, ReportedWasThere
  <2>5. OrderedAt' /\ TempAt'
    BY <1>4, <2>1 DEF Relink, IInv, OrderedAt, TempAt
  <2> QED
    BY <2>3, <2>4, <2>5 DEF IInv
<1> QED
  BY <1>1, <1>2, <1>3, <1>4

LEMMA FaultInvariant ==
  ASSUME IInv, (\E sort \in {"error", "signal"} : Raise(sort)) \/ Die
  PROVE  IInv'
<1>1. ASSUME NEW sort \in {"error", "signal"}, Raise(sort) PROVE IInv'
  <2>1. faults' \in 0..MaxFaults
    BY <1>1, BoundAssumption DEF Raise, Costs, IInv, TypeOK
  <2>2. whole' \subseteq States /\ writes' = writes /\ writes \in 0..MaxWrites
    BY <1>1, StatesOfType DEF Raise, Sees, IInv, TypeOK
  <2>3. broken' \in BOOLEAN
    BY <1>1, Zenon DEF Raise
  <2>4. broken => broken'
    BY <1>1, Zenon DEF Raise
  <2>5. CASE pc = "fill" /\ sort = "error"
    <3>1. /\ pc' = "unstage" /\ Sees
          /\ UNCHANGED <<file, extra, bound, staging, task, inspection, publication, writes>>
      BY <1>1, <2>5 DEF Raise
    <3> USE DEF locals, inspection, publication, Idle, Inspecting, Publishing, Metadata, States,
                Labels
    <3>2. TypeOK'
      BY <2>1, <2>2, <2>3, <3>1 DEF IInv, TypeOK
    <3>3. Collected' /\ JudgedAt' /\ ReportedWasThere'
      BY <2>5, <3>1 DEF Sees, IInv, Collected, JudgedAt, ReportedWasThere
    <3>4. OrderedAt' /\ TempAt'
      BY <2>4, <2>5, <3>1 DEF Sees, IInv, OrderedAt, TempAt, Unpublished, HalfPublished
    <3> QED
      BY <3>2, <3>3, <3>4 DEF IInv
  <2>6. CASE Ends("failed", Metadata)
    BY <2>1, <2>2, <2>3, <2>6, EndsInvariant
  <2>7. CASE ~(pc = "fill" /\ sort = "error") /\ ~Ends("failed", Metadata)
    <3>1. /\ pc \in Publishing /\ pc' = "cleanup"
          /\ UNCHANGED <<file, extra, bound, staging, task, inspection, publication>>
      BY <1>1, <2>7 DEF Raise, Escapes
    <3>2. pc \in {"fill", "unstage"} => broken'
      BY <1>1, <2>7, Zenon DEF Raise
    <3> QED
      BY <1>1, <2>1, <2>2, <2>3, <2>4, <3>1, <3>2, LeavesInvariant DEF Raise
  <2> QED
    BY <2>5, <2>6, <2>7
<1>2. CASE Die
  <2>1. faults' \in 0..MaxFaults /\ whole' \subseteq States /\ writes' \in 0..MaxWrites
    BY <1>2, StatesOfType, BoundAssumption DEF Die, Costs, Sees, IInv, TypeOK
  <2>2. broken' \in BOOLEAN
    BY <1>2, Zenon DEF Die, IInv, TypeOK
  <2> QED
    BY <1>2, <2>1, <2>2, EndsInvariant DEF Die
<1> QED
  BY <1>1, <1>2

LEMMA StutterInvariant == ASSUME IInv, UNCHANGED vars PROVE IInv'
BY DEF vars, locals, inspection, publication, IInv, TypeOK, Collected, JudgedAt,
       ReportedWasThere, OrderedAt, Unpublished, HalfPublished, TempAt

THEOREM InductiveInvariant == Spec => []IInv
<1>1. IInv /\ [Next]_vars => IInv'
  <2> SUFFICES ASSUME IInv, [Next]_vars PROVE IInv'
    OBVIOUS
  <2>1. CASE Step
    BY <2>1, InspectInvariant, JudgeInvariant, PublishInvariant DEF Step
  <2>2. CASE (\E sort \in {"error", "signal"} : Raise(sort)) \/ Die
    BY <2>2, FaultInvariant
  <2>3. CASE UNCHANGED vars
    BY <2>3, StutterInvariant
  <2>4. CASE Next /\ ~Step /\ ~((\E sort \in {"error", "signal"} : Raise(sort)) \/ Die)
    BY <2>4, OutsideInvariant DEF Next
  <2> QED
    BY <2>1, <2>2, <2>3, <2>4
<1> QED
  BY InitInvariant, <1>1, PTL DEF Spec

(* Every variable keeps its type (dependencies.py 1281-2269).                *)
THEOREM NormalizationTypeCorrect == Spec => []TypeOK
<1>1. IInv => TypeOK
  BY DEF IInv
<1> QED
  BY <1>1, InductiveInvariant, PTL

(* What an inspection reports was true of all files at one moment since it    *)
(* began.                                                                  *)
THEOREM ReportsWhatWasThere == Spec => []ReportedWasThere
<1>1. IInv => ReportedWasThere
  BY DEF IInv
<1> QED
  BY <1>1, InductiveInvariant, PTL

-----------------------------------------------------------------------------
(* The order of the publication                                            *)

(* Files are written by Replace and by the other process alone.              *)
LEMMA FileWriters ==
  ASSUME Next, file' # file
  PROVE  Replace \/ \E n \in Names, c \in {"original", "other", "absent"} : Write(n, c)
<1>1. CASE Step
  <2>1. /\ ~Open /\ ~Inspect /\ (\A n \in Names : ~Hash(n) /\ ~Recheck(n)) /\ ~HashedPackage
        /\ ~RecheckedPackage /\ ~ListDist /\ ~HashedDist /\ ~RecheckedDist
    BY DEF Open, Inspect, Hash, Recheck, HashedPackage, RecheckedPackage, ListDist, HashedDist,
           RecheckedDist, Hashed, Check, Fails, Escapes, Ends
  <2>2. ~Judge /\ ~Load /\ ~RecheckedAll /\ ~Refuse /\ ~Conclude
    BY DEF Judge, Load, RecheckedAll, Refuse, Conclude, Hashed, Report, Check, Fails, Escapes, Ends
  <2>3. /\ ~Publish /\ ~Create /\ ~Fill /\ ~Unstage /\ ~Unbound /\ ~Rebind /\ ~Read /\ ~ReadOther
        /\ ~Confirm /\ ~Sync /\ ~SyncUnbound /\ ~Cleanup
    BY DEF Publish, Create, Fill, Unstage, Unbound, Rebind, Read, ReadOther, Confirm, Sync,
           SyncUnbound, Cleanup, Check, Fails, Escapes, Ends
  <2> QED
    BY <1>1, <2>1, <2>2, <2>3 DEF Step
<1>2. ASSUME NEW sort \in {"error", "signal"}, Raise(sort) PROVE FALSE
  BY <1>2 DEF Raise, Escapes, Ends
<1>3. ~Die /\ ~Relink
  BY DEF Die, Relink, Ends
<1>4. (\A t \in {"normalize", "verify"} : ~Call(t)) /\ \A d \in {"package", "dist"} : ~AddEntry(d)
  BY DEF Call, AddEntry
<1> QED
  BY <1>1, <1>2, <1>3, <1>4 DEF Next

LEMMA OrderedReplacement ==
  ASSUME IInv, Replace, writes = 0
  PROVE  /\ staging
         /\ \/ StatesOf(file) = {"original"} /\ file' = [file EXCEPT !["WHEEL"] = "normalized"]
            \/ StatesOf(file') = {"normalized"}
<1>1. pc = "replace" /\ staging /\ state = "original" /\ state \in whole /\ leaf \in Metadata
  BY DEF Replace, Publishing, IInv, TypeOK, OrderedAt, ReportedWasThere
<1>2. file' = [file EXCEPT ![leaf] = "normalized"] /\ file \in [Names -> Contents]
  BY DEF Replace, IInv, TypeOK
<1>3. CASE leaf = "WHEEL"
  <2>1. whole \subseteq StatesOf(file)
    BY <1>1, <1>3 DEF Unpublished, IInv, OrderedAt
  <2>2. "original" \in StatesOf(file)
    BY <1>1, <2>1
  <2>3. file["WHEEL"] = "original"
    BY <2>2 DEF StatesOf, Audited, Names, Dist, Metadata
  <2>4. "normalized" \notin StatesOf(file)
    BY <2>3 DEF StatesOf, Audited, Names, Dist, Metadata
  <2> QED
    BY <1>1, <1>2, <1>3, <2>2, <2>4, StatesOfType DEF States
<1>4. CASE leaf = "RECORD"
  <2>1. \A n \in Names : file[n] = IF n = "WHEEL" THEN "normalized" ELSE "original"
    BY <1>1, <1>4 DEF HalfPublished, IInv, OrderedAt
  <2>2. \A n \in Names : file'[n] = Audited("normalized", n)
    BY <1>2, <1>4, <2>1 DEF Audited, Metadata
  <2>3. "normalized" \in StatesOf(file')
    BY <2>2 DEF StatesOf, States
  <2>4. file'["WHEEL"] = "normalized"
    BY <2>2 DEF Audited, Names, Dist, Metadata
  <2>5. "original" \notin StatesOf(file')
    BY <2>4 DEF StatesOf, Audited, Names, Dist, Metadata
  <2> QED
    BY <1>1, <2>3, <2>5, StatesOfType DEF States
<1> QED
  BY <1>1, <1>3, <1>4 DEF Metadata

(* Undisturbed, the tree is written WHEEL first from the whole original to    *)
(* the whole normalized metadata, in the staging venv.                       *)
THEOREM PublishesInOrder == Spec => PublicationIsOrdered
<1>1. ASSUME IInv, [Next]_vars, writes' = 0, file' # file
      PROVE  /\ staging
             /\ \/ StatesOf(file) = {"original"} /\ file' = [file EXCEPT !["WHEEL"] = "normalized"]
                \/ StatesOf(file') = {"normalized"}
  <2>1. Next
    BY <1>1 DEF vars
  <2>2. ASSUME NEW n \in Names, NEW c \in {"original", "other", "absent"}, Write(n, c)
        PROVE  FALSE
    BY <1>1, <2>2, BoundAssumption DEF Write, Interferes, IInv, TypeOK
  <2>3. Replace
    BY <1>1, <2>1, <2>2, FileWriters
  <2>4. writes = 0
    BY <1>1, <2>3 DEF Replace, Silent
  <2> QED
    BY <1>1, <2>3, <2>4, OrderedReplacement
<1>2. IInv /\ [Next]_vars => [writes' = 0 /\ file' # file =>
       /\ staging
       /\ \/ StatesOf(file) = {"original"} /\ file' = [file EXCEPT !["WHEEL"] = "normalized"]
          \/ StatesOf(file') = {"normalized"}]_vars
  BY <1>1
<1> QED
  BY <1>2, InductiveInvariant, PTL DEF Spec, PublicationIsOrdered

-----------------------------------------------------------------------------
(* What a failure leaves                                                   *)

(* Outside of the clean-up no temporary of ours is left to become an entry.   *)
LEMMA EndsClean ==
  ASSUME IInv, pc \notin Publishing \cup {"cleanup"}, Ends("failed", Metadata)
  PROVE  extra' = extra
BY DEF Ends, IInv, TempAt

LEMMA FailsClean ==
  ASSUME IInv, Fails, pc # "cleanup", pc' = "failed"
  PROVE  extra' = extra
<1>1. pc \notin Publishing /\ Ends("failed", Metadata)
  BY DEF Fails, Escapes
<1> QED
  BY <1>1, EndsClean

LEMMA CleanStep ==
  ASSUME IInv, Next, pc # "failed", pc' = "failed", extra' # extra
  PROVE  broken'
<1>1. CASE Step
  <2>1. ~Open /\ ~ListDist /\ ~Load /\ ~Confirm /\ ~Refuse /\ ~Unbound /\ ~ReadOther /\ ~SyncUnbound
    BY FailsClean DEF Open, ListDist, Load, Confirm, Refuse, Unbound, ReadOther, SyncUnbound, Check
  <2>2. ~Inspect /\ ~Judge /\ \A n \in Names : ~Hash(n) /\ ~Recheck(n)
    BY EndsClean DEF Inspect, Judge, Hash, Recheck, Publishing
  <2>3. /\ ~HashedPackage /\ ~RecheckedPackage /\ ~HashedDist /\ ~RecheckedDist /\ ~RecheckedAll
        /\ ~Conclude
    BY DEF HashedPackage, RecheckedPackage, HashedDist, RecheckedDist, RecheckedAll, Conclude,
           Hashed, Report
  <2>4. ~Publish /\ ~Create /\ ~Fill /\ ~Unstage /\ ~Rebind /\ ~Read /\ ~Replace /\ ~Sync
    BY DEF Publish, Create, Fill, Unstage, Rebind, Read, Replace, Sync, To, Silent
  <2>5. Cleanup
    BY <1>1, <2>1, <2>2, <2>3, <2>4 DEF Step
  <2>6. PICK n \in Metadata : temp[n] = "torn"
    BY <2>5 DEF Cleanup, Ends
  <2>7. broken
    BY <2>5, <2>6 DEF Cleanup, IInv, TempAt
  <2>8. broken' = broken
    BY <2>5, Zenon DEF Cleanup
  <2> QED
    BY <2>7, <2>8, Zenon
<1>2. ASSUME NEW sort \in {"error", "signal"}, Raise(sort) PROVE broken'
  <2>1. CASE pc = "cleanup"
    BY <1>2, <2>1, Zenon DEF Raise
  <2>2. CASE pc # "cleanup"
    <3>1. Escapes
      BY <1>2, <2>2 DEF Raise
    <3>2. pc \notin Publishing /\ Ends("failed", Metadata)
      BY <3>1 DEF Escapes
    <3> QED
      BY <2>2, <3>2, EndsClean
  <2> QED
    BY <2>1, <2>2
<1>3. ~Die
  BY DEF Die, Ends
<1>4. \A t \in {"normalize", "verify"} : ~Call(t)
  BY DEF Call
<1>5. \A n \in Names, c \in {"original", "other", "absent"} : ~Write(n, c)
  BY DEF Write
<1>6. ~Relink /\ \A d \in {"package", "dist"} : ~AddEntry(d)
  BY DEF Relink, AddEntry
<1> QED
  BY <1>1, <1>2, <1>3, <1>4, <1>5, <1>6 DEF Next

(* A failure leaves a temporary only if it was interrupted while it wrote or  *)
(* cleaned up.                                                             *)
THEOREM FailuresAreClean == Spec => FailureIsClean
<1>1. IInv /\ [Next]_vars => [pc # "failed" /\ pc' = "failed" /\ extra' # extra => broken']_vars
  BY CleanStep
<1> QED
  BY <1>1, InductiveInvariant, PTL DEF Spec, FailureIsClean

=============================================================================
