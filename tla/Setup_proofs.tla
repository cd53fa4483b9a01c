---------------------------- MODULE Setup_proofs ----------------------------
(***************************************************************************)
(* Proofs about a setup: that it works alone (SetupLease, for any sets of   *)
(* setups, inferences and environments, any deadline and any number of      *)
(* killed processes), and what it installs (DependencyInstall, for any      *)
(* contexts, hosts and operator wheels and any number of faults and changes *)
(* of the world).                                                          *)
(***************************************************************************)
EXTENDS SetupLease, DependencyInstall, FiniteSetTheorems, TLAPS

-----------------------------------------------------------------------------
(* SetupLease                                                              *)

(* The disk part of the state is well typed initially.                      *)
LEMMA LeaseInitInvariant == LeaseInit => LeaseInv
  <1> SUFFICES ASSUME LeaseInit PROVE LeaseInv
    OBVIOUS
  <1> USE LeaseBoundAssumption, NothingAssumption
  <1>1. LeaseTypeOK
    BY DEF LeaseInit, LeaseTypeOK, Disk!Init, Disk!TypeOK, Processes, Places, Idle
  <1>2. PlacesAt /\ HoldersAt /\ ExclusiveIsAlone
    BY DEF LeaseInit, PlacesAt, HoldersAt, ExclusiveIsAlone, Processes, SetupHolding,
           JobHolding
  <1>3. OfferIsInPlace
    BY DEF LeaseInit, Disk!Init, OfferIsInPlace
  <1>4. LeasedEnvironmentIsStable
    BY DEF LeaseInit, LeasedEnvironmentIsStable, JobHolding, Processes
  <1> QED
    BY <1>1, <1>2, <1>3, <1>4 DEF LeaseInv

-----------------------------------------------------------------------------
(* What a process that does not touch the disk has to preserve.             *)

(* A process that gets the lock: the operating system's grant is what makes *)
(* an exclusive holder alone.                                              *)
LEMMA AcquireInvariant ==
  ASSUME LeaseInv, NEW p \in Processes, NEW place \in Places, Acquire(p, place),
         place = IF p \in Setups THEN "snapshot" ELSE "leased"
  PROVE  LeaseInv'
  <1> USE ProcessAssumption DEF Acquire
  <1>1. LeaseTypeOK'
    BY LeaseBoundAssumption DEF LeaseInv, LeaseTypeOK, Disk!TypeOK, diskVars, jobVars
  <1>2. PlacesAt'
    BY DEF LeaseInv, LeaseTypeOK, PlacesAt, SetupHolding, JobHolding, Processes
  <1>3. HoldersAt'
    BY DEF LeaseInv, LeaseTypeOK, HoldersAt, SetupHolding, JobHolding, Processes
  <1>4. ExclusiveIsAlone'
    BY DEF LeaseInv, ExclusiveIsAlone, Grants, Processes
  <1>5. OfferIsInPlace' /\ LeasedEnvironmentIsStable'
    BY DEF LeaseInv, LeaseTypeOK, OfferIsInPlace, LeasedEnvironmentIsStable, diskVars, jobVars,
           JobHolding, Processes
  <1> QED
    BY <1>1, <1>2, <1>3, <1>4, <1>5 DEF LeaseInv

(* A process that leaves the lock, at the end of its work or killed, cannot *)
(* disturb the others; what it authenticated no longer counts.              *)
LEMMA ReleaseInvariant ==
  ASSUME LeaseInv, NEW p \in Processes, NEW outcome \in Idle,
         at' = [at EXCEPT ![p] = outcome],
         holders' = holders \ {p},
         UNCHANGED <<size, diskVars>>,
         seen' \in [Processes -> Nat], tries' \in [Processes -> 0..MaxTries],
         kills' \in 0..MaxKills, child' \subseteq Jobs,
         used' \in [Jobs -> Environments \cup {Nothing}],
         \A j \in Jobs \ {p} : used'[j] = used[j]
  PROVE  LeaseInv'
  <1> USE ProcessAssumption
  <1>1. LeaseTypeOK'
    BY DEF LeaseInv, LeaseTypeOK, Disk!TypeOK, diskVars, Places, Idle
  <1>2. PlacesAt'
    BY DEF LeaseInv, LeaseTypeOK, PlacesAt, SetupHolding, JobHolding, Processes, Idle
  <1>3. HoldersAt'
    BY DEF LeaseInv, LeaseTypeOK, HoldersAt, SetupHolding, JobHolding, Processes, Idle
  <1>4. ExclusiveIsAlone'
    BY DEF LeaseInv, ExclusiveIsAlone
  <1>5. OfferIsInPlace' /\ LeasedEnvironmentIsStable'
    BY DEF LeaseInv, LeaseTypeOK, OfferIsInPlace, LeasedEnvironmentIsStable, diskVars,
           JobHolding, Processes, Idle
  <1> QED
    BY <1>1, <1>2, <1>3, <1>4, <1>5 DEF LeaseInv

(* A process outside the lock moves between labels outside the lock.        *)
LEMMA OutsideInvariant ==
  ASSUME LeaseInv, NEW p \in Processes,
         at[p] \notin SetupHolding \cup JobHolding,
         NEW place \in Places \ (SetupHolding \cup JobHolding),
         at' = [at EXCEPT ![p] = place],
         UNCHANGED <<holders, diskVars, child, kills>>,
         size' \in Nat,
         seen' \in [Processes -> Nat], tries' \in [Processes -> 0..MaxTries],
         used' \in [Jobs -> Environments \cup {Nothing}],
         \A j \in Jobs \ {p} : used'[j] = used[j]
  PROVE  LeaseInv'
  <1>1. LeaseTypeOK'
    BY DEF LeaseInv, LeaseTypeOK, Disk!TypeOK, diskVars
  <1>2. PlacesAt' /\ HoldersAt'
    BY DEF LeaseInv, LeaseTypeOK, PlacesAt, HoldersAt, Processes
  <1>3. ExclusiveIsAlone'
    BY DEF LeaseInv, ExclusiveIsAlone
  <1>4. OfferIsInPlace' /\ LeasedEnvironmentIsStable'
    BY DEF LeaseInv, LeaseTypeOK, OfferIsInPlace, LeasedEnvironmentIsStable, diskVars,
       Processes
  <1> QED
    BY <1>1, <1>2, <1>3, <1>4 DEF LeaseInv

-----------------------------------------------------------------------------
(* A working setup is alone, so no inference relies on the disk.            *)
LEMMA NoLeaseBesideSetup ==
  ASSUME LeaseInv, NEW s \in Setups, at[s] \in SetupHolding
  PROVE  \A j \in Jobs : at[j] \notin JobHolding
  BY ProcessAssumption DEF LeaseInv, HoldersAt, ExclusiveIsAlone, Processes

(* Repair of the snapshot, and the environment transaction as Installation. *)
LEMMA SetupWorkInvariant ==
  ASSUME LeaseInv, NEW s \in Setups, Unready(s) \/ MakeReady(s) \/ Rework(s)
  PROVE  LeaseInv'
  <1> USE ProcessAssumption, NothingAssumption
  <1>1. \A j \in Jobs : at[j] \notin JobHolding
    BY NoLeaseBesideSetup DEF Unready, MakeReady, Rework, SetupHolding
  <1>2. /\ UNCHANGED <<size, seen, holders, tries, used, child, kills>>
        /\ \/ UNCHANGED at
           \/ at[s] = "snapshot" /\ at' = [at EXCEPT ![s] = "environment"]
        /\ ready' \in BOOLEAN
        /\ UNCHANGED <<offered, env>> \/ Disk!Next
    BY DEF Unready, MakeReady, Rework, lockVars, jobVars, LeaseInv, LeaseTypeOK
  <1>3. Disk!TypeOK' /\ OfferIsInPlace'
    BY <1>2 DEF LeaseInv, LeaseTypeOK, Disk!TypeOK, OfferIsInPlace, Disk!Next, Disk!Withdraw,
                Disk!Rework, Disk!Offer
  <1>4. LeaseTypeOK'
    BY <1>2, <1>3 DEF LeaseInv, LeaseTypeOK, Places, SetupHolding
  <1>5. PlacesAt' /\ HoldersAt'
    BY <1>2 DEF LeaseInv, LeaseTypeOK, PlacesAt, HoldersAt, Processes, SetupHolding, JobHolding
  <1>6. ExclusiveIsAlone'
    BY <1>2 DEF LeaseInv, ExclusiveIsAlone
  <1>7. LeasedEnvironmentIsStable'
    BY <1>1, <1>2 DEF LeaseInv, LeaseTypeOK, LeasedEnvironmentIsStable, Processes
  <1> QED
    BY <1>3, <1>4, <1>5, <1>6, <1>7 DEF LeaseInv

(* An inference under its lease only reads the disk.                        *)
LEMMA JobWorkInvariant ==
  ASSUME LeaseInv, NEW j \in Jobs,
         Authenticate(j) \/ Spawn(j) \/ EndChild(j) \/ OrphanEnds(j)
  PROVE  LeaseInv'
  <1> USE ProcessAssumption, NothingAssumption
  <1>1. PICK place \in JobHolding \cup {"killed"} :
          /\ at' = [at EXCEPT ![j] = place]
          /\ at[j] \in JobHolding <=> place \in JobHolding
    BY DEF Authenticate, Spawn, EndChild, OrphanEnds, JobHolding, LeaseInv, LeaseTypeOK,
       Processes
  <1>2. UNCHANGED <<size, seen, holders, tries, diskVars, kills>>
    BY DEF Authenticate, Spawn, EndChild, OrphanEnds, lockVars
  <1>3. LeaseTypeOK'
    BY <1>1, <1>2 DEF LeaseInv, LeaseTypeOK, Disk!TypeOK, diskVars, Places, Idle, JobHolding,
                      Authenticate, Spawn, EndChild, OrphanEnds
  <1>4. PlacesAt'
    BY <1>1 DEF LeaseInv, LeaseTypeOK, PlacesAt, Processes, JobHolding, SetupHolding
  <1>5. HoldersAt'
    BY <1>1, <1>2 DEF LeaseInv, LeaseTypeOK, HoldersAt, Processes, JobHolding, SetupHolding
  <1>6. ExclusiveIsAlone' /\ OfferIsInPlace'
    BY <1>2 DEF LeaseInv, ExclusiveIsAlone, OfferIsInPlace, diskVars
  <1>7. LeasedEnvironmentIsStable'
    BY <1>2 DEF LeaseInv, LeaseTypeOK, LeasedEnvironmentIsStable, OfferIsInPlace, diskVars,
                JobHolding, Processes, Authenticate, Spawn, EndChild, OrphanEnds
  <1> QED
    BY <1>3, <1>4, <1>5, <1>6, <1>7 DEF LeaseInv

-----------------------------------------------------------------------------
LEMMA LeaseNextInvariant ==
  ASSUME LeaseInv, [LeaseNext]_leaseVars
  PROVE  LeaseInv'
  <1> USE ProcessAssumption
  <1>1. ASSUME NEW p \in Processes, Retry(p) PROVE LeaseInv'
    <2>1. tries' \in [Processes -> 0..MaxTries]
      BY <1>1, LeaseBoundAssumption DEF Retry, LeaseInv, LeaseTypeOK
    <2>2. CASE tries[p] < MaxTries
      <3>1. at' = [at EXCEPT ![p] = "waiting"]
        BY <1>1, <2>2 DEF Retry, LeaseInv, LeaseTypeOK
      <3> QED
        BY <1>1, <2>1, <2>2, <3>1, OutsideInvariant
           DEF Retry, LeaseInv, LeaseTypeOK, jobVars, Places, Idle, Waiting, SetupHolding, JobHolding
    <2>3. CASE ~(tries[p] < MaxTries)
      BY <1>1, <2>1, <2>3, OutsideInvariant
         DEF Retry, LeaseInv, LeaseTypeOK, jobVars, Places, Idle, Waiting, SetupHolding, JobHolding
    <2> QED
      BY <2>2, <2>3
  <1>2. ASSUME NEW s \in Setups, OpenLock(s) \/ WriteByte(s) PROVE LeaseInv'
    <2>1. /\ s \in Processes
          /\ size' \in Nat
          /\ seen' \in [Processes -> Nat]
      BY <1>2 DEF OpenLock, WriteByte, LeaseInv, LeaseTypeOK, Processes
    <2>2. CASE OpenLock(s)
      BY <2>1, <2>2, OutsideInvariant
         DEF OpenLock, LeaseInv, LeaseTypeOK, jobVars, Places, Idle, SetupHolding, JobHolding
    <2>3. CASE WriteByte(s)
      BY <2>1, <2>3, OutsideInvariant
         DEF WriteByte, LeaseInv, LeaseTypeOK, jobVars, Places, Idle, Waiting, SetupHolding,
             JobHolding
    <2> QED
      BY <1>2, <2>2, <2>3
  <1>3. ASSUME NEW j \in Jobs, ExamineLock(j) \/ OpenExamined(j) PROVE LeaseInv'
    <2>1. /\ j \in Processes
          /\ seen' \in [Processes -> Nat]
          /\ used' \in [Jobs -> Environments \cup {Nothing}]
          /\ \A k \in Jobs \ {j} : used'[k] = used[k]
      BY <1>3 DEF ExamineLock, OpenExamined, LeaseInv, LeaseTypeOK, Processes, jobVars
    <2>2. CASE ExamineLock(j)
      <3> DEFINE place == IF size = 0 THEN "invalid" ELSE "examined"
      <3>1. /\ place \in Places \ (SetupHolding \cup JobHolding)
            /\ at[j] \notin SetupHolding \cup JobHolding
        BY <2>2 DEF ExamineLock, Places, Idle, SetupHolding, JobHolding
      <3> QED
        BY <2>1, <2>2, <3>1, OutsideInvariant DEF ExamineLock, LeaseInv, LeaseTypeOK
    <2>3. CASE OpenExamined(j)
      <3> DEFINE place == IF size = seen[j] THEN "waiting" ELSE "invalid"
      <3>1. /\ place \in Places \ (SetupHolding \cup JobHolding)
            /\ at[j] \notin SetupHolding \cup JobHolding
        BY <2>3 DEF OpenExamined, Places, Idle, Waiting, SetupHolding, JobHolding
      <3> QED
        BY <2>1, <2>3, <3>1, OutsideInvariant DEF OpenExamined, LeaseInv, LeaseTypeOK, jobVars
    <2> QED
      BY <1>3, <2>2, <2>3
  <1>4. ASSUME NEW s \in Setups, LockExclusive(s) PROVE LeaseInv'
    BY <1>4, AcquireInvariant DEF LockExclusive, Processes, Places, SetupHolding
  <1>5. ASSUME NEW j \in Jobs, LockShared(j) PROVE LeaseInv'
    BY <1>5, AcquireInvariant DEF LockShared, Processes, Places, JobHolding
  <1>6. ASSUME NEW s \in Setups, FinishSetup(s) PROVE LeaseInv'
    <2>1. PICK outcome \in Idle : Release(s, outcome)
      BY <1>6 DEF FinishSetup, Idle
    <2> QED
      BY <1>6, <2>1, ReleaseInvariant
         DEF FinishSetup, Release, LeaseInv, LeaseTypeOK, jobVars, Processes
  <1>7. ASSUME NEW j \in Jobs, RefuseRequest(j) \/ FinishJob(j) PROVE LeaseInv'
    <2>1. PICK outcome \in Idle : Release(j, outcome)
      BY <1>7 DEF RefuseRequest, FinishJob, Idle
    <2>2. /\ used' \in [Jobs -> Environments \cup {Nothing}]
          /\ \A k \in Jobs \ {j} : used'[k] = used[k]
          /\ UNCHANGED <<diskVars, child>>
      BY <1>7 DEF RefuseRequest, FinishJob, LeaseInv, LeaseTypeOK, jobVars
    <2> QED
      BY <2>1, <2>2, ReleaseInvariant DEF Release, LeaseInv, LeaseTypeOK, Processes
  <1>8. ASSUME NEW p \in Processes, Kill(p) PROVE LeaseInv'
    <2>1. /\ "killed" \in Idle
          /\ kills' \in 0..MaxKills
          /\ seen' \in [Processes -> Nat]
          /\ tries' \in [Processes -> 0..MaxTries]
      BY <1>8, LeaseBoundAssumption DEF Kill, LeaseInv, LeaseTypeOK, Idle
    <2> QED
      BY <1>8, <2>1, ReleaseInvariant DEF Kill, LeaseInv, LeaseTypeOK, jobVars
  <1>9. CASE UNCHANGED leaseVars
    BY <1>9 DEF leaseVars, lockVars, diskVars, jobVars, LeaseInv, LeaseTypeOK,
       Disk!TypeOK, PlacesAt,
                HoldersAt, ExclusiveIsAlone, OfferIsInPlace, LeasedEnvironmentIsStable
  <1> QED
    BY <1>1, <1>2, <1>3, <1>4, <1>5, <1>6, <1>7, <1>8, <1>9, SetupWorkInvariant,
       JobWorkInvariant DEF LeaseNext, SetupStep, JobStep, Processes

LEMMA LeaseInvariant == LeaseSpec => []LeaseInv
  BY LeaseInitInvariant, LeaseNextInvariant, PTL DEF LeaseSpec

(* Type correctness of the lease protocol.                                  *)
THEOREM LeaseTypeCorrect == LeaseSpec => []LeaseTypeOK
  <1>1. LeaseInv => LeaseTypeOK
    BY DEF LeaseInv
  <1> QED
    BY <1>1, LeaseInvariant, PTL

(* setup_lock and _setup_read_lock exclude each other however many          *)
(* processes race for the file, time out or are killed.                     *)
THEOREM SetupExclusion == LeaseSpec => []SetupWorksAlone
  <1>1. LeaseInv => SetupWorksAlone
    BY ProcessAssumption
       DEF LeaseInv, HoldersAt, PlacesAt, ExclusiveIsAlone, SetupWorksAlone, Processes
  <1> QED
    BY <1>1, LeaseInvariant, PTL

(* What _authenticate_request saw stays true until handle_request has ended.*)
THEOREM LeaseProtectsInference == LeaseSpec => []LeasedEnvironmentIsStable
  <1>1. LeaseInv => LeasedEnvironmentIsStable
    BY DEF LeaseInv
  <1> QED
    BY <1>1, LeaseInvariant, PTL

-----------------------------------------------------------------------------
(* DependencyInstall: what the plans and their commands are                 *)

(* A context that is not refused gets a plan with an audited closure.       *)
LEMMA SelectionIsCoherent ==
  ASSUME NEW c \in Contexts, ~Refused(c)
  PROVE  PlanFor(c) \in Plans /\ Coherent(PlanFor(c))
  <1> DEFINE p == PlanFor(c)
  <1> USE DEF Contexts, Systems, Archs, Profiles, Lanes
  <1>1. /\ c.sm \in Nat /\ c.sm > 0
        /\ c.system \in {"linux", "win32"}
        /\ c.arch \in {"x64", "arm64"}
        /\ c.system = "win32" => c.arch = "x64"
        /\ Profile(c) \in {"portable", "exact-upstream"}
        /\ Profile(c) = "exact-upstream" => c.arch = "x64" /\ c.sm \in 80..99
    BY DEF Refused, Profile
  <1>2. /\ Lane(c) \in Lanes
        /\ Profile(c) = "exact-upstream" => Lane(c) = "cu124"
        /\ Profile(c) = "portable" =>
             Lane(c) = IF c.sm >= 100 THEN "cu128" ELSE IF c.arch = "arm64" THEN "cu126" ELSE "cu124"
    BY <1>1 DEF Lane, PortableLane
  <1>3. p \in Plans
    BY <1>1, <1>2 DEF PlanFor, Plans
  <1>4. <<p.lane, p.system, p.arch>> \in TorchPlatforms
    BY <1>1, <1>2 DEF PlanFor, TorchPlatforms
  <1>5. Coherent(p)
    <2>1. CASE Profile(c) = "exact-upstream"
      <3>1. p.native /\ p.profile = "exact-upstream"
        BY <2>1 DEF PlanFor
      <3>2. p.lane = "cu124" /\ p.arch = "x64" /\ p.sm \in 80..99
        BY <1>1, <1>2, <2>1 DEF PlanFor
      <3>3. p.flash = (p.system = "linux")
        BY <1>1, <2>1 DEF PlanFor
      <3>4. p.attention = IF p.system = "linux" THEN "flash_attn" ELSE "xformers"
        BY <1>1, <2>1 DEF PlanFor
      <3> QED
        BY <1>4, <3>1, <3>2, <3>3, <3>4 DEF Coherent
    <2>2. CASE Profile(c) = "portable"
      <3>1. ~p.native /\ ~p.flash /\ p.profile = "portable" /\ p.attention = "sdpa"
        BY <2>2 DEF PlanFor
      <3>2. (p.lane = "cu128") = (p.sm >= 100)
        BY <1>1, <1>2, <2>2 DEF PlanFor
      <3> QED
        BY <1>4, <3>1, <3>2 DEF Coherent
    <2> QED
      BY <1>1, <2>1, <2>2
  <1> QED
    BY <1>3, <1>5

(* Such a plan has an operator wheel.                                       *)
LEMMA KeyIsPublished ==
  ASSUME NEW p \in Plans, Coherent(p)
  PROVE  WheelKey(p) \in PublishedKeys
  BY DEF Plans, Coherent, TorchPlatforms, WheelKey, PublishedKeys, Systems, Archs, ABIs, Lanes

(* The commands of every plan, one by one.                                  *)
LEMMA RuntimeSteps ==
  ASSUME NEW p
  PROVE  /\ LastCommand(p) \in Nat
         /\ LastCommand(p) >= 3
         /\ ~p.native => LastCommand(p) = 3
         /\ Commands(p)[1] = Binary({"bootstrap"}, {})
         /\ Commands(p)[2] = BaseCommand(p)
         /\ Commands(p)[3] = Binary({"torch"}, {"torch_platform"})
  BY DEF LastCommand, Commands, RuntimeCommands, NativeCommands

(* The commands that only a native plan has.                                *)
LEMMA NativeSteps ==
  ASSUME NEW p, p.native
  PROVE  /\ Commands(p)[4] = Binary({"sparse"}, {"exact_transitive"})
         /\ Commands(p)[5] = Binary({"torch_scatter"}, {})
         /\ Commands(p)[6] = Binary({"triton"}, {})
         /\ Commands(p)[7] = Binary({"xformers"}, {})
         /\ IF p.flash
              THEN /\ LastCommand(p) = 12
                   /\ Commands(p)[8] = Compiled("flash_attn")
                   /\ Commands(p)[9] = Compiled("nvdiffrast")
                   /\ Commands(p)[10] = Compiled("cumesh")
                   /\ Commands(p)[11] = Compiled("flex_gemm")
                   /\ Commands(p)[12] = Compiled("o_voxel")
              ELSE /\ LastCommand(p) = 11
                   /\ Commands(p)[8] = Compiled("nvdiffrast")
                   /\ Commands(p)[9] = Compiled("cumesh")
                   /\ Commands(p)[10] = Compiled("flex_gemm")
                   /\ Commands(p)[11] = Compiled("o_voxel")
  BY DEF LastCommand, Commands, RuntimeCommands, NativeCommands

(* What a command is about, for every command of a plan.                    *)
LEMMA CommandFacts ==
  ASSUME NEW p \in Plans, Coherent(p), NEW n \in 1..LastCommand(p)
  PROVE  LET command == Commands(p)[n] IN
         /\ command.installs \cup command.pulls \subseteq Locked(p)
         /\ ~p.native => command.binary /\ n <= 3
  <1>0. n \in Nat /\ n >= 1 /\ n <= LastCommand(p)
    BY RuntimeSteps
  <1>1. CASE n <= 3
    <2>1. CASE n = 1
      BY <2>1, RuntimeSteps DEF Binary, Locked
    <2>2. CASE n = 2
      <3>1. Commands(p)[n] = BaseCommand(p)
        BY <2>2, RuntimeSteps
      <3>2. BaseCommand(p).installs \cup BaseCommand(p).pulls \subseteq Locked(p)
        BY DEF Binary, BaseCommand, Locked
      <3>3. BaseCommand(p).binary
        BY DEF Binary, BaseCommand
      <3> QED
        BY <1>1, <3>1, <3>2, <3>3
    <2>3. CASE n = 3
      BY <2>3, RuntimeSteps DEF Binary, Locked
    <2> QED
      BY <1>0, <1>1, <2>1, <2>2, <2>3
  <1>2. CASE n > 3
    <2>1. p.native
      BY <1>0, <1>2, RuntimeSteps
    <2>2. CASE p.flash
      <3>1. n \in {4, 5, 6, 7, 8, 9, 10, 11, 12}
        BY <1>0, <1>2, <2>1, <2>2, NativeSteps
      <3> QED
        BY <2>1, <2>2, <3>1, NativeSteps DEF Binary, Compiled, Locked, Sources
    <2>3. CASE ~p.flash
      <3>1. n \in {4, 5, 6, 7, 8, 9, 10, 11}
        BY <1>0, <1>2, <2>1, <2>3, NativeSteps
      <3> QED
        BY <2>1, <2>3, <3>1, NativeSteps DEF Binary, Compiled, Locked, Sources
    <2> QED
      BY <2>2, <2>3
  <1> QED
    BY <1>0, <1>1, <1>2

(* What some commands have installed, element by element.                   *)
LEMMA InstalledBy ==
  ASSUME NEW p, NEW n \in Nat, NEW r
  PROVE  r \in Installed(p, n) <=>
           \E i \in 1..(n - 1) : r \in Commands(p)[i].installs \cup Commands(p)[i].pulls
  BY DEF Installed

(* What one more command adds.                                              *)
LEMMA InstalledNext ==
  ASSUME NEW p, NEW n \in Nat \ {0}
  PROVE  /\ Installed(p, 1) = {}
         /\ Installed(p, n + 1) =
              Installed(p, n) \cup Commands(p)[n].installs \cup Commands(p)[n].pulls
  <1>1. Installed(p, 1) = {}
    BY InstalledBy
  <1>2. ASSUME NEW r
        PROVE  r \in Installed(p, n + 1) <=>
                 r \in Installed(p, n) \cup Commands(p)[n].installs \cup Commands(p)[n].pulls
    <2>1. \A i \in Nat : i \in 1..n <=> i \in 1..(n - 1) \/ i = n
      OBVIOUS
    <2> QED
      BY <2>1, InstalledBy
  <1> QED
    BY <1>1, <1>2

(* All the commands together install the lock, no more and no less.         *)
LEMMA CommandsInstallLock ==
  ASSUME NEW p \in Plans, Coherent(p)
  PROVE  Installed(p, LastCommand(p) + 1) = Locked(p)
  <1> DEFINE last == LastCommand(p)
  <1>0. last \in Nat /\ last >= 3
    BY RuntimeSteps, NativeSteps
  <1>1. Installed(p, last + 1) \subseteq Locked(p)
    BY <1>0, InstalledBy, CommandFacts
  <1>2. ASSUME NEW r \in Locked(p) PROVE r \in Installed(p, last + 1)
    <2> HIDE DEF last
    <2>1. \A i \in 1..last :
            r \in Commands(p)[i].installs \cup Commands(p)[i].pulls => r \in Installed(p, last + 1)
      BY <1>0, InstalledBy
    <2>2. CASE r \in {"bootstrap", "base", "transitive", "render", "render_transitive",
                   "torch", "torch_platform"}
      <3>1. CASE r \in {"bootstrap", "torch", "torch_platform"}
        BY <1>0, <2>1, <3>1, RuntimeSteps DEF Binary, last
      <3>2. CASE r \in {"base", "transitive", "render", "render_transitive"}
        <4>1. r \in BaseCommand(p).installs \cup BaseCommand(p).pulls
          BY <3>2 DEF Binary, BaseCommand
        <4> QED
          BY <1>0, <2>1, <4>1, RuntimeSteps DEF last
      <3> QED
        BY <2>2, <3>1, <3>2
    <2>3. CASE r \notin {"bootstrap", "base", "transitive", "render", "render_transitive",
                   "torch", "torch_platform"}
      <3>1. p.native
        BY <2>3 DEF Locked, Coherent
      <3>2. CASE p.flash
        BY <1>0, <2>1, <2>3, <3>1, <3>2, NativeSteps DEF Binary, Compiled, Locked,
           Sources, last
      <3>3. CASE ~p.flash
        BY <1>0, <2>1, <2>3, <3>1, <3>3, NativeSteps DEF Binary, Compiled, Locked,
           Sources, last
      <3> QED
        BY <3>2, <3>3
    <2> QED
      BY <2>2, <2>3
  <1> QED
    BY <1>1, <1>2

(* The commands are numbered from one.                                      *)
LEMMA CommandDomain ==
  ASSUME NEW p
  PROVE  DOMAIN Commands(p) = 1..LastCommand(p)
  BY DEF LastCommand, Commands, RuntimeCommands, NativeCommands

(* What the runtime makes of a plan with an audited closure.                *)
LEMMA PlanIsSupported ==
  ASSUME plan \in Plans, Coherent(plan)
  PROVE  SelectedPlanIsSupported
  <1> DEFINE offer == Offer(plan)
  <1>1. WheelKey(plan) \in PublishedKeys
    BY KeyIsPublished
  <1>2. Locked(plan) = UNION {command.installs \cup command.pulls :
                                command \in {Commands(plan)[i] : i \in DOMAIN Commands(plan)}}
    <2>1. (LastCommand(plan) + 1) - 1 = LastCommand(plan)
      BY RuntimeSteps
    <2>2. DOMAIN Commands(plan) = 1..((LastCommand(plan) + 1) - 1)
      BY <2>1, CommandDomain
    <2>3. {Commands(plan)[i] : i \in DOMAIN Commands(plan)}
            = {Commands(plan)[i] : i \in 1..((LastCommand(plan) + 1) - 1)}
      BY <2>2
    <2>4. Locked(plan) = Installed(plan, LastCommand(plan) + 1)
      BY CommandsInstallLock
    <2>5. Installed(plan, LastCommand(plan) + 1)
            = UNION {command.installs \cup command.pulls :
                       command \in {Commands(plan)[i] : i \in 1..((LastCommand(plan) + 1) - 1)}}
      BY DEF Installed
    <2> QED
      BY <2>3, <2>4, <2>5, Zenon
  <1>3. /\ offer.backends = IF plan.native THEN {"upstream", "portable"} ELSE {"portable"}
        /\ offer.default = IF plan.native THEN "upstream" ELSE "portable"
        /\ offer.attention = plan.attention
        /\ offer.precisions = {"auto", "float16"} \cup (IF plan.sm >= 80 THEN {"bfloat16"} ELSE {})
    BY DEF Offer
  <1>4. /\ plan.native \in BOOLEAN /\ plan.sm \in Nat
        /\ plan.native => plan.sm >= 80 /\ plan.attention \in {"flash_attn", "xformers"}
        /\ ~plan.native => plan.attention = "sdpa"
    BY DEF Plans, Coherent
  <1> HIDE DEF offer
  <1>5. Accepts(offer)
    BY <1>3, <1>4 DEF Accepts
  <1>6. \A backend \in offer.backends \cup {"auto"} : Serves(offer, backend, "auto")
    BY <1>3, <1>4 DEF Serves
  <1>7. ASSUME plan.sm < 80
        PROVE  /\ ~Serves(offer, "upstream", "auto")
               /\ \A backend \in {"auto", "upstream", "portable"} :
                    ~Serves(offer, backend, "bfloat16")
    BY <1>3, <1>4, <1>7 DEF Serves
  <1> QED
    BY <1>1, <1>2, <1>5, <1>6, <1>7 DEF SelectedPlanIsSupported, offer

-----------------------------------------------------------------------------
(* DependencyInstall: what its steps do                                     *)

(* How many commands a plan has.                                            *)
LEMMA LastCommandIs ==
  ASSUME NEW p
  PROVE  LastCommand(p) = IF ~p.native THEN 3 ELSE IF p.flash THEN 12 ELSE 11
  BY RuntimeSteps, NativeSteps

(* A fresh venv has nothing in it.                                          *)
LEMMA NewTreeIsTree ==
  /\ NewTree \in Trees /\ NewTree # Absent
  /\ NewTree.installed = {} /\ NewTree.wrong = {} /\ NewTree.broken = {}
  /\ NewTree.operator = Absent
  <1>1. /\ NewTree \in Trees
        /\ NewTree.installed = {} /\ NewTree.wrong = {} /\ NewTree.broken = {}
        /\ NewTree.operator = Absent
    BY DEF NewTree, Trees, Operators
  <1> QED
    BY <1>1, AbsentAssumption

(* What comes after a command that is not normalized.                       *)
LEMMA Followed ==
  ASSUME NEW n
  PROVE  Following(n) = IF n = LastCommand(plan) THEN "check"
                        ELSE IF n = 3 /\ plan.native THEN "toolchain" ELSE "validate"
  BY DEF Following, TorchCommand

(* The storage preflight, volume by volume, asks for the room that the      *)
(* largest download needs.                                                  *)
LEMMA FitsIsRoom == ASSUME host \in Hosts PROVE Fits <=> Room
  <1>1. host.models \in Nat /\ host.extension \in Nat /\ host.shared \in BOOLEAN
    BY DEF Hosts
  <1> DEFINE stores == {"environment", "cache"}
             volume == [s \in stores |-> IF s = "cache" \/ host.shared THEN "models"
                                           ELSE "extension"]
             on(v) == {s \in stores : volume[s] = v}
  <1>2. Cardinality({}) = 0 /\ Cardinality({"environment"}) = 1 /\ Cardinality({"cache"}) = 1
    BY FS_EmptySet, FS_Singleton
  <1>3. Cardinality({"environment", "cache"}) = 2
    <2>1. IsFiniteSet({"cache"}) /\ "environment" \notin {"cache"}
      BY FS_Singleton
    <2>2. {"cache"} \cup {"environment"} = {"environment", "cache"}
      OBVIOUS
    <2> QED
      BY <1>2, <2>1, <2>2, FS_AddElement
  <1>4. CASE host.shared
    <2>1. on("models") = {"environment", "cache"} /\ on("extension") = {}
      BY <1>4
    <2> HIDE DEF on
    <2>2. Fits <=> Cardinality(on("models")) <= host.models
                     /\ Cardinality(on("extension")) <= host.extension
      BY DEF Fits, on
    <2> QED
      BY <1>1, <1>2, <1>3, <1>4, <2>1, <2>2 DEF Room
  <1>5. CASE ~host.shared
    <2>1. on("models") = {"cache"} /\ on("extension") = {"environment"}
      BY <1>5
    <2> HIDE DEF on
    <2>2. Fits <=> Cardinality(on("models")) <= host.models
                     /\ Cardinality(on("extension")) <= host.extension
      BY DEF Fits, on
    <2> QED
      BY <1>1, <1>2, <1>5, <2>1, <2>2 DEF Room
  <1> QED
    BY <1>4, <1>5

(* What a selected plan is.                                                 *)
LEMMA PlanFacts ==
  ASSUME InstallInv, plan # Absent
  PROVE  /\ plan \in Plans /\ Coherent(plan)
         /\ Locked(plan) \subseteq Requirements
         /\ Normalizes(plan) => ~plan.native
         /\ plan.native \in BOOLEAN
  <1>1. plan \in Plans /\ Coherent(plan)
    BY DEF InstallInv, TypeOK, ControlAt
  <1>2. Locked(plan) \subseteq Requirements
    BY DEF Locked, Requirements
  <1>3. Normalizes(plan) => ~plan.native
    BY <1>1 DEF Normalizes, Coherent
  <1> QED
    BY <1>1, <1>2, <1>3 DEF Plans

(* A complete tree is verified as soon as it works.                         *)
LEMMA CompleteTree ==
  ASSUME InstallInv, pc \in {"check", "verify"} \cup Completing
  PROVE  /\ tree \in Trees /\ tree.installed = Locked(plan)
         /\ Normalizes(plan) => tree.normalized
  <1>1. /\ plan # Absent /\ tree # Absent /\ tree \in Trees
        /\ next = LastCommand(plan) + 1
        /\ tree.installed = Installed(plan, next)
        /\ next > TorchCommand /\ Normalizes(plan) => tree.normalized
    BY DEF InstallInv, TypeOK, ControlAt, TreeAt, Building, Installing, Completing, Working
  <1> QED
    BY <1>1, PlanFacts, CommandsInstallLock, LastCommandIs DEF TorchCommand

(* Undisturbed, pip fails for a missing pin only: the lock, the tools and   *)
(* the room are there.                                                      *)
LEMMA NoPipFailure ==
  ASSUME InstallInv, pc = "pip", ~Disturbed, PipFails(Commands(plan)[next])
  PROVE  Locked(plan) \cap host.missing # {}
  <1> DEFINE command == Commands(plan)[next]
  <1>1. /\ plan # Absent /\ next \in 1..LastCommand(plan)
        /\ Room /\ host.constraints = "locked"
        /\ plan.native => NativeTools(plan) \subseteq host.tools
    BY RuntimeSteps DEF InstallInv, TypeOK, ControlAt, UndisturbedAt, Building,
       Installing, Completing, Working
  <1>2. /\ command.installs \cup command.pulls \subseteq Locked(plan)
        /\ ~plan.native => command.binary
    BY <1>1, PlanFacts, CommandFacts
  <1> HIDE DEF command
  <1> QED
    BY <1>1, <1>2 DEF PipFails, ToCompile, command

(* A pip command fails, or installs what it is about; a portable one        *)
(* compiles nothing.                                                        *)
LEMMA PipEffect ==
  ASSUME InstallInv, RunPip
  PROVE  /\ pc = "pip" /\ next \in 1..LastCommand(plan)
         /\ UNCHANGED <<context, plan, operator, record, host, changes, updates>>
         /\ \/ /\ PipFails(Commands(plan)[next])
               /\ pc' = "cleanup" /\ cause' = "pip"
               /\ UNCHANGED <<next, tree, compiled, faults>>
            \/ /\ pc' = IF next = 3 /\ Normalizes(plan) THEN "normalize" ELSE Following(next)
               /\ next' = next + 1
               /\ cause' = cause
               /\ tree' \in Trees
               /\ tree'.installed = Installed(plan, next + 1)
               /\ tree'.installed \subseteq Locked(plan)
               /\ tree'.wrong \cup tree'.broken \subseteq tree'.installed
               /\ tree'.operator = tree.operator
               /\ tree'.normalized = tree.normalized
               /\ host.constraints # "altered" => tree'.wrong = tree.wrong
               /\ faults' \in faults..MaxFaults
               /\ faults' = faults => tree'.broken = tree.broken
               /\ compiled' \subseteq Requirements \cup {"operator"}
               /\ ~plan.native => compiled' = compiled
  <1> DEFINE command == Commands(plan)[next]
  <1>1. /\ pc = "pip" /\ plan # Absent /\ tree # Absent /\ tree \in Trees
        /\ next \in 1..LastCommand(plan)
        /\ tree.installed = Installed(plan, next)
        /\ tree.installed \subseteq Locked(plan)
        /\ tree.wrong \cup tree.broken \subseteq tree.installed
        /\ compiled \subseteq Requirements \cup {"operator"}
        /\ faults \in 0..MaxFaults
    BY RuntimeSteps DEF RunPip, InstallInv, TypeOK, ControlAt, TreeAt, Building,
       Installing, Completing, Working
  <1>2. /\ command.installs \cup command.pulls \subseteq Locked(plan)
        /\ ~plan.native => command.binary
        /\ Locked(plan) \subseteq Requirements
    BY <1>1, PlanFacts, CommandFacts
  <1>3. /\ ToCompile(command) \subseteq Requirements
        /\ ~plan.native => ToCompile(command) = {}
    BY <1>2 DEF ToCompile
  <1>4. Installed(plan, next + 1) = Installed(plan, next) \cup command.installs \cup command.pulls
    BY <1>1, RuntimeSteps, InstalledNext
  <1> HIDE DEF command
  <1>5. CASE PipFails(command)
    BY <1>1, <1>5 DEF RunPip, command, Raise, decided, Building, Installing
  <1>6. CASE ~PipFails(command)
    <2>1. PICK broken \in {{}, command.installs} :
              /\ broken # {} => faults < MaxFaults
              /\ faults' = IF broken = {} THEN faults ELSE faults + 1
              /\ tree' = [tree EXCEPT
                   !.installed = @ \cup command.installs \cup command.pulls,
                   !.wrong = IF host.constraints = "altered" THEN @ \cup command.pulls ELSE @,
                   !.broken = @ \cup broken]
              /\ compiled' = compiled \cup ToCompile(command)
              /\ next' = next + 1
              /\ Advance(IF next = TorchCommand /\ Normalizes(plan)
                           THEN "normalize" ELSE Following(next))
      BY <1>6 DEF RunPip, command
    <2>2. /\ tree' \in Trees
          /\ tree'.installed = Installed(plan, next + 1)
          /\ tree'.installed \subseteq Locked(plan)
          /\ tree'.wrong \cup tree'.broken \subseteq tree'.installed
          /\ tree'.operator = tree.operator
          /\ tree'.normalized = tree.normalized
          /\ host.constraints # "altered" => tree'.wrong = tree.wrong
          /\ broken = {} => tree'.broken = tree.broken
      BY <1>1, <1>2, <1>4, <2>1 DEF Trees
    <2>3. /\ faults' \in faults..MaxFaults
          /\ faults' = faults => broken = {}
      BY <1>1, <2>1, BoundAssumption
    <2>4. /\ compiled' \subseteq Requirements \cup {"operator"}
          /\ ~plan.native => compiled' = compiled
      BY <1>1, <1>3, <2>1
    <2>5. /\ pc' = IF next = 3 /\ Normalizes(plan) THEN "normalize" ELSE Following(next)
          /\ next' = next + 1
          /\ cause' = cause
          /\ UNCHANGED <<context, plan, operator, record, host, changes, updates>>
      BY <2>1 DEF RunPip, Advance, decided, TorchCommand
    <2> QED
      BY <1>1, <2>2, <2>3, <2>4, <2>5
  <1> QED
    BY <1>5, <1>6

(* The normalization touches one closure, which is portable and whose last  *)
(* command is the third.                                                    *)
LEMMA NormalizeEffect ==
  ASSUME InstallInv, Normalize
  PROVE  /\ pc = "normalize" /\ next = 4 /\ LastCommand(plan) = 3
         /\ UNCHANGED <<context, plan, operator, record, host, next, compiled,
                      faults, changes, updates>>
         /\ tree' \in Trees
         /\ tree'.installed = tree.installed /\ tree'.operator = tree.operator
         /\ tree'.wrong = tree.wrong /\ tree'.broken = tree.broken
         /\ \/ tree.wrong # {} /\ pc' = "cleanup" /\ cause' = "normalize"
            \/ tree'.normalized /\ pc' = "check" /\ cause' = cause
  <1>1. /\ pc = "normalize" /\ next = 4 /\ plan # Absent /\ Normalizes(plan)
        /\ tree \in Trees
    BY DEF Normalize, InstallInv, TypeOK, ControlAt, TreeAt, TorchCommand, Working,
       Building, Installing
  <1>2. LastCommand(plan) = 3
    BY <1>1, PlanFacts, LastCommandIs
  <1>3. Following(TorchCommand) = "check"
    BY <1>2, Followed DEF TorchCommand
  <1>4. UNCHANGED <<context, plan, operator, record, host, next, compiled,
                      faults, changes, updates>>
    BY DEF Normalize, decided, counters
  <1>5. CASE "torch_platform" \in tree.wrong
    BY <1>1, <1>2, <1>4, <1>5 DEF Normalize, Raise, Building, Installing
  <1>6. CASE "torch_platform" \notin tree.wrong
    <2>1. pc' = "check" /\ cause' = cause /\ tree' = [tree EXCEPT !.normalized = TRUE]
      BY <1>3, <1>6 DEF Normalize, Advance
    <2>2. /\ tree' \in Trees /\ tree'.normalized
          /\ tree'.installed = tree.installed /\ tree'.operator = tree.operator
          /\ tree'.wrong = tree.wrong /\ tree'.broken = tree.broken
      BY <1>1, <2>1 DEF Trees
    <2> QED
      BY <1>1, <1>2, <1>4, <2>1, <2>2
  <1> QED
    BY <1>5, <1>6

-----------------------------------------------------------------------------
(* DependencyInstall: the inductive invariant.  Every step preserves each   *)
(* of its parts.                                                            *)

(* Where a run is, and which command is next.                               *)
LEMMA ControlStep ==
  ASSUME InstallInv, Next
  PROVE  ControlAt'
  <1> USE DEF InstallInv, TypeOK, ControlAt, Hosts,
              Check, Pass, Advance, Raise, decided, counters, Change,
              Labels, Working, Building, Preparing, Installing, Completing
  <1>1. CASE Select
    BY <1>1, SelectionIsCoherent, AbsentAssumption DEF Select
  <1>2. CASE Preflight
    BY <1>2 DEF Preflight
  <1>3. CASE PreflightAssets
    BY <1>3 DEF PreflightAssets
  <1>4. CASE Assets
    BY <1>4 DEF Assets
  <1>5. CASE Prepare
    BY <1>5 DEF Prepare
  <1>6. CASE Record
    BY <1>6 DEF Record
  <1>7. CASE PreflightStorage
    BY <1>7 DEF PreflightStorage
  <1>8. CASE CreateVenv
    BY <1>8 DEF CreateVenv
  <1>9. CASE DropVenv
    BY <1>9 DEF DropVenv
  <1>10. CASE TargetPython
    BY <1>10 DEF TargetPython
  <1>11. CASE Constrain
    BY <1>11, RuntimeSteps DEF Constrain
  <1>12. CASE Validate
    BY <1>12, RuntimeSteps DEF Validate
  <1>13. CASE RunPip
    BY <1>13, PipEffect, Followed, PlanFacts, RuntimeSteps DEF TorchCommand
  <1>14. CASE Normalize
    BY <1>14, NormalizeEffect DEF TorchCommand
  <1>15. CASE Toolchain
    <2>1. pc = "toolchain" /\ next = 4 /\ plan.native /\ plan # Absent
      BY <1>15 DEF Toolchain, TorchCommand
    <2>2. 4 <= LastCommand(plan)
      BY <1>15, <2>1, LastCommandIs
    <2> QED
      BY <1>15, <2>1, <2>2 DEF Toolchain
  <1>16. CASE PipCheck
    BY <1>16 DEF PipCheck
  <1>17. CASE Verify
    BY <1>17 DEF Verify
  <1>18. CASE OperatorValidate
    BY <1>18 DEF OperatorValidate
  <1>19. CASE OperatorFetch
    BY <1>19 DEF OperatorFetch
  <1>20. CASE OperatorVerify
    BY <1>20 DEF OperatorVerify
  <1>21. CASE OperatorPip
    BY <1>21 DEF OperatorPip
  <1>22. CASE OperatorCheck
    BY <1>22 DEF OperatorCheck
  <1>23. CASE Smoke
    BY <1>23 DEF Smoke
  <1>24. CASE OperatorSmoke
    BY <1>24 DEF OperatorSmoke
  <1>25. CASE Cleanup
    BY <1>25 DEF Cleanup
  <1>26. CASE CleanupState
    BY <1>26 DEF CleanupState
  <1>27. CASE Fault
    BY <1>27 DEF Fault
  <1>28. CASE UpdateExtension
    BY <1>28 DEF UpdateExtension
  <1>29. CASE DisturbConstraints
    BY <1>29 DEF DisturbConstraints
  <1>30. CASE DisturbWheel
    BY <1>30 DEF DisturbWheel
  <1>31. CASE ReplaceDevice
    BY <1>31 DEF ReplaceDevice
  <1>32. CASE RemoveTool
    BY <1>32 DEF RemoveTool
  <1> QED
    BY <1>1, <1>2, <1>3, <1>4, <1>5, <1>6, <1>7, <1>8, <1>9, <1>10, <1>11, <1>12,
       <1>13, <1>14, <1>15, <1>16, <1>17, <1>18, <1>19, <1>20, <1>21, <1>22, <1>23,
       <1>24, <1>25, <1>26, <1>27, <1>28, <1>29, <1>30, <1>31, <1>32
       DEF Next, Step, World

(* The operator is decided, and recorded, by the inventory of the moment.   *)
LEMMA OperatorStep ==
  ASSUME InstallInv, Next
  PROVE  OperatorAt'
  <1> USE DEF InstallInv, TypeOK, ControlAt, OperatorAt, Hosts, Operators,
              Check, Pass, Advance, Raise, decided, counters, Change,
              Labels, Working, Building, Preparing, Installing, Completing
  <1>1. CASE Select
    BY <1>1, SelectionIsCoherent, AbsentAssumption DEF Select
  <1>2. CASE Preflight
    BY <1>2 DEF Preflight
  <1>3. CASE PreflightAssets
    BY <1>3 DEF PreflightAssets
  <1>4. CASE Assets
    BY <1>4 DEF Assets
  <1>5. CASE Prepare
    BY <1>5, WheelAssumption DEF Prepare, Selectable
  <1>6. CASE Record
    BY <1>6, WheelAssumption DEF Record, Selectable
  <1>7. CASE PreflightStorage
    BY <1>7 DEF PreflightStorage
  <1>8. CASE CreateVenv
    BY <1>8 DEF CreateVenv
  <1>9. CASE DropVenv
    BY <1>9 DEF DropVenv
  <1>10. CASE TargetPython
    BY <1>10 DEF TargetPython
  <1>11. CASE Constrain
    BY <1>11 DEF Constrain
  <1>12. CASE Validate
    BY <1>12 DEF Validate
  <1>13. CASE RunPip
    BY <1>13, PipEffect, Followed
  <1>14. CASE Normalize
    BY <1>14, NormalizeEffect
  <1>15. CASE Toolchain
    BY <1>15 DEF Toolchain
  <1>16. CASE PipCheck
    BY <1>16 DEF PipCheck
  <1>17. CASE Verify
    BY <1>17 DEF Verify
  <1>18. CASE OperatorValidate
    BY <1>18 DEF OperatorValidate
  <1>19. CASE OperatorFetch
    BY <1>19 DEF OperatorFetch
  <1>20. CASE OperatorVerify
    BY <1>20 DEF OperatorVerify
  <1>21. CASE OperatorPip
    BY <1>21 DEF OperatorPip
  <1>22. CASE OperatorCheck
    BY <1>22 DEF OperatorCheck
  <1>23. CASE Smoke
    BY <1>23 DEF Smoke
  <1>24. CASE OperatorSmoke
    BY <1>24 DEF OperatorSmoke
  <1>25. CASE Cleanup
    BY <1>25 DEF Cleanup
  <1>26. CASE CleanupState
    BY <1>26 DEF CleanupState
  <1>27. CASE Fault
    BY <1>27 DEF Fault
  <1>28. CASE UpdateExtension
    BY <1>28 DEF UpdateExtension
  <1>29. CASE DisturbConstraints
    BY <1>29 DEF DisturbConstraints
  <1>30. CASE DisturbWheel
    BY <1>30 DEF DisturbWheel
  <1>31. CASE ReplaceDevice
    BY <1>31 DEF ReplaceDevice
  <1>32. CASE RemoveTool
    BY <1>32 DEF RemoveTool
  <1> QED
    BY <1>1, <1>2, <1>3, <1>4, <1>5, <1>6, <1>7, <1>8, <1>9, <1>10, <1>11, <1>12,
       <1>13, <1>14, <1>15, <1>16, <1>17, <1>18, <1>19, <1>20, <1>21, <1>22, <1>23,
       <1>24, <1>25, <1>26, <1>27, <1>28, <1>29, <1>30, <1>31, <1>32
       DEF Next, Step, World

(* What the staging venv holds.                                             *)
LEMMA TreeStep ==
  ASSUME InstallInv, Next
  PROVE  TreeAt'
  <1> USE DEF InstallInv, TypeOK, ControlAt, OperatorAt, TreeAt, Hosts, Operators, Trees,
              Check, Pass, Advance, Raise, decided, counters, Change,
              Labels, Working, Building, Preparing, Installing, Completing
  <1>1. CASE Select
    BY <1>1 DEF Select
  <1>2. CASE Preflight
    BY <1>2 DEF Preflight
  <1>3. CASE PreflightAssets
    BY <1>3 DEF PreflightAssets
  <1>4. CASE Assets
    BY <1>4 DEF Assets
  <1>5. CASE Prepare
    BY <1>5 DEF Prepare
  <1>6. CASE Record
    BY <1>6 DEF Record
  <1>7. CASE PreflightStorage
    BY <1>7 DEF PreflightStorage
  <1>8. CASE CreateVenv
    BY <1>8, NewTreeIsTree, InstalledNext DEF CreateVenv, TorchCommand
  <1>9. CASE DropVenv
    BY <1>9 DEF DropVenv
  <1>10. CASE TargetPython
    BY <1>10 DEF TargetPython
  <1>11. CASE Constrain
    BY <1>11 DEF Constrain
  <1>12. CASE Validate
    BY <1>12 DEF Validate
  <1>13. CASE RunPip
    <2>1. tree # Absent /\ tree \in Trees /\ plan # Absent
      BY <1>13, PipEffect 
    <2>2. CASE pc' = "cleanup"
      BY <1>13, <2>1, <2>2, PipEffect, Followed
    <2>3. CASE pc' # "cleanup"
      <3>1. /\ tree' \in Trees /\ tree' # Absent
            /\ tree'.installed = Installed(plan, next')
            /\ tree'.operator = tree.operator /\ tree'.normalized = tree.normalized
        BY <1>13, <2>3, PipEffect, AbsentAssumption
      <3>2. pc' \in {"validate", "toolchain", "check", "normalize"}
        BY <1>13, <2>3, PipEffect, Followed
      <3>3. next' > TorchCommand /\ pc' # "normalize" /\ Normalizes(plan) => tree.normalized
        BY <1>13, <2>1, <2>3, PipEffect DEF TorchCommand
      <3> QED
        BY <1>13, <2>1, <3>1, <3>2, <3>3, PipEffect
    <2> QED
      BY <1>13, <2>2, <2>3
  <1>14. CASE Normalize
    <2>1. tree # Absent /\ plan # Absent /\ tree' # Absent
      BY <1>14, NormalizeEffect, AbsentAssumption
    <2> QED
      BY <1>14, <2>1, NormalizeEffect DEF TorchCommand
  <1>15. CASE Toolchain
    BY <1>15 DEF Toolchain
  <1>16. CASE PipCheck
    BY <1>16 DEF PipCheck
  <1>17. CASE Verify
    BY <1>17 DEF Verify
  <1>18. CASE OperatorValidate
    BY <1>18 DEF OperatorValidate
  <1>19. CASE OperatorFetch
    BY <1>19 DEF OperatorFetch
  <1>20. CASE OperatorVerify
    BY <1>20 DEF OperatorVerify
  <1>21. CASE OperatorPip
    BY <1>21, AbsentAssumption DEF OperatorPip
  <1>22. CASE OperatorCheck
    BY <1>22 DEF OperatorCheck
  <1>23. CASE Smoke
    BY <1>23 DEF Smoke, SmokePasses
  <1>24. CASE OperatorSmoke
    BY <1>24, WheelAssumption DEF OperatorSmoke, Selectable
  <1>25. CASE Cleanup
    BY <1>25 DEF Cleanup
  <1>26. CASE CleanupState
    BY <1>26 DEF CleanupState
  <1>27. CASE Fault
    BY <1>27 DEF Fault
  <1>28. CASE UpdateExtension
    BY <1>28 DEF UpdateExtension
  <1>29. CASE DisturbConstraints
    BY <1>29 DEF DisturbConstraints
  <1>30. CASE DisturbWheel
    BY <1>30 DEF DisturbWheel
  <1>31. CASE ReplaceDevice
    BY <1>31 DEF ReplaceDevice
  <1>32. CASE RemoveTool
    BY <1>32 DEF RemoveTool
  <1> QED
    BY <1>1, <1>2, <1>3, <1>4, <1>5, <1>6, <1>7, <1>8, <1>9, <1>10, <1>11, <1>12,
       <1>13, <1>14, <1>15, <1>16, <1>17, <1>18, <1>19, <1>20, <1>21, <1>22, <1>23,
       <1>24, <1>25, <1>26, <1>27, <1>28, <1>29, <1>30, <1>31, <1>32
       DEF Next, Step, World

(* A portable plan has no command that compiles, and no operator of sources. *)
LEMMA CompiledStep ==
  ASSUME InstallInv, Next
  PROVE  PortableNeverCompiles'
  <1> USE DEF InstallInv, TypeOK, ControlAt, OperatorAt, PortableNeverCompiles, Hosts,
             Operators,
              Check, Pass, Advance, Raise, decided, counters, Change,
              Labels, Working, Building, Preparing, Installing, Completing
  <1>1. CASE Select
    BY <1>1, WheelAssumption DEF Select
  <1>2. CASE Preflight
    BY <1>2 DEF Preflight
  <1>3. CASE PreflightAssets
    BY <1>3 DEF PreflightAssets
  <1>4. CASE Assets
    BY <1>4 DEF Assets
  <1>5. CASE Prepare
    BY <1>5, WheelAssumption DEF Prepare, Selectable
  <1>6. CASE Record
    BY <1>6 DEF Record
  <1>7. CASE PreflightStorage
    BY <1>7 DEF PreflightStorage
  <1>8. CASE CreateVenv
    BY <1>8 DEF CreateVenv
  <1>9. CASE DropVenv
    BY <1>9 DEF DropVenv
  <1>10. CASE TargetPython
    BY <1>10 DEF TargetPython
  <1>11. CASE Constrain
    BY <1>11 DEF Constrain
  <1>12. CASE Validate
    BY <1>12 DEF Validate
  <1>13. CASE RunPip
    BY <1>13, PipEffect, Followed
  <1>14. CASE Normalize
    BY <1>14, NormalizeEffect
  <1>15. CASE Toolchain
    BY <1>15 DEF Toolchain
  <1>16. CASE PipCheck
    BY <1>16 DEF PipCheck
  <1>17. CASE Verify
    BY <1>17 DEF Verify
  <1>18. CASE OperatorValidate
    BY <1>18 DEF OperatorValidate
  <1>19. CASE OperatorFetch
    BY <1>19 DEF OperatorFetch
  <1>20. CASE OperatorVerify
    BY <1>20 DEF OperatorVerify
  <1>21. CASE OperatorPip
    BY <1>21 DEF OperatorPip
  <1>22. CASE OperatorCheck
    BY <1>22 DEF OperatorCheck
  <1>23. CASE Smoke
    BY <1>23 DEF Smoke
  <1>24. CASE OperatorSmoke
    BY <1>24 DEF OperatorSmoke
  <1>25. CASE Cleanup
    BY <1>25 DEF Cleanup
  <1>26. CASE CleanupState
    BY <1>26 DEF CleanupState
  <1>27. CASE Fault
    BY <1>27 DEF Fault
  <1>28. CASE UpdateExtension
    BY <1>28 DEF UpdateExtension
  <1>29. CASE DisturbConstraints
    BY <1>29 DEF DisturbConstraints
  <1>30. CASE DisturbWheel
    BY <1>30 DEF DisturbWheel
  <1>31. CASE ReplaceDevice
    BY <1>31 DEF ReplaceDevice
  <1>32. CASE RemoveTool
    BY <1>32 DEF RemoveTool
  <1> QED
    BY <1>1, <1>2, <1>3, <1>4, <1>5, <1>6, <1>7, <1>8, <1>9, <1>10, <1>11, <1>12,
       <1>13, <1>14, <1>15, <1>16, <1>17, <1>18, <1>19, <1>20, <1>21, <1>22, <1>23,
       <1>24, <1>25, <1>26, <1>27, <1>28, <1>29, <1>30, <1>31, <1>32
       DEF Next, Step, World

(* What an undisturbed run has checked stays so.                            *)
LEMMA UndisturbedStep ==
  ASSUME InstallInv, Next
  PROVE  UndisturbedAt'
  <1> USE DEF InstallInv, TypeOK, ControlAt, OperatorAt, TreeAt, UndisturbedAt,
             Unforeseen, Disturbed,
              Room, Selectable, Hosts, Operators, Trees,
              Check, Pass, Advance, Raise, decided, counters, Change,
              Labels, Working, Building, Preparing, Installing, Completing
  <1>1. CASE Select
    BY <1>1 DEF Select
  <1>2. CASE Preflight
    BY <1>2 DEF Preflight
  <1>3. CASE PreflightAssets
    BY <1>3 DEF PreflightAssets
  <1>4. CASE Assets
    BY <1>4 DEF Assets
  <1>5. CASE Prepare
    BY <1>5 DEF Prepare
  <1>6. CASE Record
    BY <1>6 DEF Record
  <1>7. CASE PreflightStorage
    BY <1>7, FitsIsRoom DEF PreflightStorage
  <1>8. CASE CreateVenv
    BY <1>8, NewTreeIsTree DEF CreateVenv
  <1>9. CASE DropVenv
    BY <1>9 DEF DropVenv
  <1>10. CASE TargetPython
    BY <1>10 DEF TargetPython, TorchGlibc
  <1>11. CASE Constrain
    BY <1>11 DEF Constrain
  <1>12. CASE Validate
    BY <1>12 DEF Validate
  <1>13. CASE RunPip
    BY <1>13, PipEffect, Followed, NoPipFailure
  <1>14. CASE Normalize
    BY <1>14, NormalizeEffect
  <1>15. CASE Toolchain
    BY <1>15 DEF Toolchain
  <1>16. CASE PipCheck
    BY <1>16, CompleteTree DEF PipCheck
  <1>17. CASE Verify
    BY <1>17, CompleteTree DEF Verify, SmokePasses
  <1>18. CASE OperatorValidate
    BY <1>18 DEF OperatorValidate
  <1>19. CASE OperatorFetch
    BY <1>19 DEF OperatorFetch
  <1>20. CASE OperatorVerify
    BY <1>20 DEF OperatorVerify
  <1>21. CASE OperatorPip
    BY <1>21 DEF OperatorPip
  <1>22. CASE OperatorCheck
    BY <1>22, CompleteTree DEF OperatorCheck
  <1>23. CASE Smoke
    BY <1>23, CompleteTree DEF Smoke, SmokePasses
  <1>24. CASE OperatorSmoke
    BY <1>24 DEF OperatorSmoke
  <1>25. CASE Cleanup
    BY <1>25 DEF Cleanup
  <1>26. CASE CleanupState
    BY <1>26 DEF CleanupState
  <1>27. CASE Fault
    BY <1>27 DEF Fault
  <1>28. CASE UpdateExtension
    BY <1>28 DEF UpdateExtension
  <1>29. CASE DisturbConstraints
    BY <1>29 DEF DisturbConstraints
  <1>30. CASE DisturbWheel
    BY <1>30 DEF DisturbWheel
  <1>31. CASE ReplaceDevice
    BY <1>31 DEF ReplaceDevice
  <1>32. CASE RemoveTool
    BY <1>32 DEF RemoveTool
  <1> QED
    BY <1>1, <1>2, <1>3, <1>4, <1>5, <1>6, <1>7, <1>8, <1>9, <1>10, <1>11, <1>12,
       <1>13, <1>14, <1>15, <1>16, <1>17, <1>18, <1>19, <1>20, <1>21, <1>22, <1>23,
       <1>24, <1>25, <1>26, <1>27, <1>28, <1>29, <1>30, <1>31, <1>32
       DEF Next, Step, World

(* The types, and the order in which things are decided.                    *)
LEMMA TypeStep ==
  ASSUME InstallInv, Next
  PROVE  TypeOK'
  <1> USE DEF InstallInv, TypeOK, ControlAt, OperatorAt, TreeAt, Hosts, Operators, Trees,
              Check, Pass, Advance, Raise, decided, counters, Change,
              Labels, Working, Building, Preparing, Installing, Completing
  <1>1. CASE Select
    <2>1. /\ pc = "select" /\ context \in Contexts /\ next = 1
          /\ operator = Absent /\ record = Absent /\ tree = Absent
      BY <1>1 DEF Select
    <2>2. ~Refused(context) => /\ PlanFor(context) \in Plans /\ PlanFor(context) # Absent
                               /\ LastCommand(PlanFor(context)) \in Nat
      BY <1>1, <2>1, SelectionIsCoherent, AbsentAssumption, RuntimeSteps
    <2>3. CASE Refused(context)
      BY <1>1, <2>1, <2>3 DEF Select
    <2>4. CASE ~Refused(context)
      BY <1>1, <2>1, <2>2, <2>4 DEF Select
    <2> QED
      BY <1>1, <2>3, <2>4
  <1>2. CASE Preflight
    BY <1>2 DEF Preflight
  <1>3. CASE PreflightAssets
    BY <1>3 DEF PreflightAssets
  <1>4. CASE Assets
    <2>1. host' \in Hosts
      <3>1. /\ host.models \in Nat /\ host.snapshot \in BOOLEAN
            /\ ~host.snapshot => host.models - 1 \in Nat
        BY <1>4 DEF Assets
      <3> QED
        BY <1>4, <3>1 DEF Assets
    <2> HIDE DEF Hosts
    <2> QED
      BY <1>4, <2>1 DEF Assets
  <1>5. CASE Prepare
    BY <1>5 DEF Prepare
  <1>6. CASE Record
    BY <1>6 DEF Record
  <1>7. CASE PreflightStorage
    BY <1>7 DEF PreflightStorage
  <1>8. CASE CreateVenv
    BY <1>8, NewTreeIsTree, BoundAssumption DEF CreateVenv
  <1>9. CASE DropVenv
    BY <1>9 DEF DropVenv
  <1>10. CASE TargetPython
    BY <1>10 DEF TargetPython
  <1>11. CASE Constrain
    BY <1>11 DEF Constrain
  <1>12. CASE Validate
    BY <1>12 DEF Validate
  <1>13. CASE RunPip
    <2>1. tree # Absent /\ tree \in Trees /\ plan # Absent
      BY <1>13, PipEffect 
    <2>2. /\ pc' \in {"cleanup", "validate", "toolchain", "check", "normalize"}
          /\ pc' = "cleanup" <=> cause' = "pip"
      BY <1>13, PipEffect, Followed
    <2>3. /\ tree' \in Trees /\ tree' # Absent
          /\ tree'.installed \subseteq Locked(plan)
          /\ tree'.wrong \cup tree'.broken \subseteq tree'.installed
      BY <1>13, <2>1, PipEffect, AbsentAssumption
    <2>4. next' \in 1..(LastCommand(plan) + 1)
      BY <1>13, PipEffect, LastCommandIs
    <2>5. faults' \in 0..MaxFaults /\ compiled' \subseteq Requirements \cup {"operator"}
      BY <1>13, PipEffect, BoundAssumption
    <2> QED
      BY <1>13, <2>1, <2>2, <2>3, <2>4, <2>5, PipEffect
  <1>14. CASE Normalize
    <2>1. tree # Absent /\ plan # Absent /\ tree' # Absent
      BY <1>14, NormalizeEffect, AbsentAssumption
    <2> QED
      BY <1>14, <2>1, NormalizeEffect
  <1>15. CASE Toolchain
    BY <1>15 DEF Toolchain
  <1>16. CASE PipCheck
    BY <1>16 DEF PipCheck
  <1>17. CASE Verify
    BY <1>17 DEF Verify
  <1>18. CASE OperatorValidate
    BY <1>18 DEF OperatorValidate
  <1>19. CASE OperatorFetch
    BY <1>19 DEF OperatorFetch
  <1>20. CASE OperatorVerify
    BY <1>20 DEF OperatorVerify
  <1>21. CASE OperatorPip
    BY <1>21 DEF OperatorPip
  <1>22. CASE OperatorCheck
    BY <1>22 DEF OperatorCheck
  <1>23. CASE Smoke
    BY <1>23 DEF Smoke
  <1>24. CASE OperatorSmoke
    BY <1>24 DEF OperatorSmoke
  <1>25. CASE Cleanup
    BY <1>25 DEF Cleanup
  <1>26. CASE CleanupState
    BY <1>26 DEF CleanupState
  <1>27. CASE Fault
    BY <1>27, BoundAssumption DEF Fault
  <1>28. CASE UpdateExtension
    BY <1>28, BoundAssumption DEF UpdateExtension
  <1>29. CASE DisturbConstraints
    BY <1>29, BoundAssumption DEF DisturbConstraints
  <1>30. CASE DisturbWheel
    BY <1>30, BoundAssumption DEF DisturbWheel
  <1>31. CASE ReplaceDevice
    BY <1>31, BoundAssumption DEF ReplaceDevice
  <1>32. CASE RemoveTool
    BY <1>32, BoundAssumption DEF RemoveTool
  <1> QED
    BY <1>1, <1>2, <1>3, <1>4, <1>5, <1>6, <1>7, <1>8, <1>9, <1>10, <1>11, <1>12,
       <1>13, <1>14, <1>15, <1>16, <1>17, <1>18, <1>19, <1>20, <1>21, <1>22, <1>23,
       <1>24, <1>25, <1>26, <1>27, <1>28, <1>29, <1>30, <1>31, <1>32
       DEF Next, Step, World

(* The start of a run.                                                      *)
LEMMA InstallInitInvariant == Init => InstallInv
  <1> SUFFICES ASSUME Init PROVE InstallInv
    OBVIOUS
  <1>1. /\ context \in Contexts /\ host \in Hosts /\ context # Absent
    BY StartAssumption, AbsentAssumption DEF Init
  <1>2. TypeOK
    BY <1>1, BoundAssumption DEF Init, TypeOK, Labels, Working, Preparing, Operators
  <1> QED
    BY <1>1, <1>2 DEF Init, InstallInv, ControlAt, OperatorAt, TreeAt, PortableNeverCompiles,
       UndisturbedAt, Working, Preparing, Building, Installing, Completing

(* What the invariant says at the end of a run, and of its plan.            *)
LEMMA InvariantImplies ==
  ASSUME InstallInv
  PROVE  SelectedPlanIsSupported /\ RecordDescribesTree /\ LateFailureIsUnforeseen
  <1>1. SelectedPlanIsSupported
    <2>1. CASE plan = Absent
      BY <2>1 DEF SelectedPlanIsSupported
    <2>2. CASE plan # Absent
      BY <2>2, PlanFacts, PlanIsSupported
    <2> QED
      BY <2>1, <2>2
  <1>2. RecordDescribesTree
    BY DEF InstallInv, TypeOK, ControlAt, OperatorAt, TreeAt, RecordDescribesTree, Building
  <1>3. LateFailureIsUnforeseen
    BY DEF InstallInv, UndisturbedAt, LateFailureIsUnforeseen
  <1> QED
    BY <1>1, <1>2, <1>3

-----------------------------------------------------------------------------
(* DependencyInstall: the steps of SetupTransaction                         *)

(* The labels as SetupTransaction knows them.                               *)
LEMMA StageOf ==
  /\ \A label \in Preparing : Stage(label) = "install"
  /\ \A label \in Building : Stage(label) = "build"
  /\ Stage("drop_venv") = "cleanup_staging" /\ Stage("cleanup") = "cleanup_staging"
  /\ Stage("cleanup_state") = "cleanup_state"
  /\ Stage("done") = "write_state" /\ Stage("failed") = "failed"
  BY DEF Stage, Preparing, Building, Installing, Completing

(* The staging venv as SetupTransaction sees it, before and after a step.    *)
LEMMA StagingIs ==
  /\ tree = Absent => Staging = Absent
  /\ tree # Absent => Staging # Absent /\ Staging \in Transaction!Content
  /\ tree # Absent /\ pc # "done" => Staging = Transaction!Torn("plan")
  /\ tree' = Absent => Staging' = Absent
  /\ tree' # Absent /\ pc' # "done" => Staging' = Transaction!Torn("plan")
  /\ tree' # Absent /\ pc' = "done" /\ Right' => Staging' = Transaction!Whole("plan")
  <1>1. Right \in BOOLEAN
    BY DEF Right
  <1>2. [plan |-> "plan", whole |-> pc = "done" /\ Right] \in Transaction!Content
    BY <1>1 DEF Transaction!Content
  <1>3. tree # Absent => Staging # Absent /\ Staging \in Transaction!Content
    BY <1>2, ContentAssumption DEF Staging
  <1> QED
    BY <1>3 DEF Staging, Transaction!Torn, Transaction!Whole

(* The staging venv is all that is ever in the directory.                   *)
LEMMA DirectoryIs ==
  /\ Directory["state_staging"] = Absent
  /\ Directory["staging"] = Staging
  /\ Directory' = [Directory EXCEPT !["staging"] = Staging']
  /\ Staging' = Staging => Directory' = Directory
  BY DEF Directory

(* Where SetupTransaction's exceptions go.                                  *)
LEMMA HandlerIs ==
  /\ Transaction!Handler("build") = "cleanup_staging"
  /\ Transaction!Handler("install") = "failed"
  BY DEF Transaction!Handler, Transaction!BuildLabels, Transaction!UndoLabels,
         Transaction!SwapLabels

(* An exception, from a tree that is not there or torn, is a fault.         *)
LEMMA RaiseIsFault ==
  ASSUME InstallInv, pc \in Working, tree = Absent <=> tree' = Absent, cause' = pc,
         IF pc \in Building THEN pc' \in {"drop_venv", "cleanup"} ELSE pc' = "failed"
  PROVE  Transaction!Fault
  <1>1. cause = "none" /\ pc # "none" /\ pc # "done" /\ pc' # "done"
    BY DEF InstallInv, ControlAt, Working, Preparing, Building, Installing, Completing
  <1>2. /\ Stage(pc) = IF pc \in Building THEN "build" ELSE "install"
        /\ Stage(pc') = IF pc \in Building THEN "cleanup_staging" ELSE "failed"
    BY StageOf DEF Working
  <1>3. Transaction!Raise
    BY <1>1, <1>2, HandlerIs DEF Transaction!Raise
  <1>4. Stage(pc) \in Transaction!Running
    BY <1>2 DEF Transaction!Running, Transaction!BuildLabels
  <1>5. Directory' = Directory
    BY <1>1, StagingIs, DirectoryIs
  <1> QED
    BY <1>1, <1>3, <1>4, <1>5 DEF Transaction!Fault, Transaction!Raises

(* A step within the preparation or within the build, or an exception.      *)
LEMMA OrdinaryStep ==
  ASSUME InstallInv, pc \in Working, tree = Absent <=> tree' = Absent,
         \/ Raise
         \/ /\ cause' = cause
            /\ \/ pc \in Preparing /\ pc' \in Preparing
               \/ pc \in Building /\ pc' \in Building
  PROVE  [TransactionStep]_(Transaction!vars)
  <1>1. CASE Raise
    <2>1. Transaction!Fault
      BY <1>1, RaiseIsFault DEF Raise
    <2> QED
      BY <2>1 DEF TransactionStep
  <1>2. CASE /\ cause' = cause
             /\ \/ pc \in Preparing /\ pc' \in Preparing
                \/ pc \in Building /\ pc' \in Building
    <2>1. Stage(pc') = Stage(pc) /\ pc # "done" /\ pc' # "done"
      BY <1>2, StageOf DEF Preparing, Building, Installing, Completing
    <2>2. Directory' = Directory
      BY <2>1, StagingIs, DirectoryIs
    <2> QED
      BY <1>2, <2>1, <2>2 DEF TransactionStep, Transaction!vars
  <1> QED
    BY <1>1, <1>2

(* The last check before the venv is the step from install to build.        *)
LEMMA StorageStep ==
  ASSUME InstallInv, PreflightStorage
  PROVE  [TransactionStep]_(Transaction!vars)
  <1>1. pc = "storage" /\ UNCHANGED tree /\ tree = Absent /\ pc \in Working \ Building
    BY DEF PreflightStorage, Check, decided, InstallInv, TypeOK, Working, Preparing, Building,
           Installing, Completing
  <1>2. CASE Raise
    BY <1>1, <1>2, OrdinaryStep
  <1>3. CASE Advance("venv")
    <2>1. /\ Stage(pc) = "install" /\ Stage(pc') = "build" /\ cause' = cause
          /\ Directory' = Directory
          /\ Directory["staging"] = Absent /\ Directory["state_staging"] = Absent
      BY <1>1, <1>3, StageOf, StagingIs, DirectoryIs
         DEF Advance, Preparing, Building, Installing
    <2>2. Transaction!Install
      BY <2>1 DEF Transaction!Install, Transaction!Exists, Transaction!Skip,
                  Transaction!Completes
    <2> QED
      BY <2>2 DEF TransactionStep
  <1> QED
    BY <1>2, <1>3 DEF PreflightStorage, Check, Pass

(* The venv is created torn; an interpreter that was replaced raises.       *)
LEMMA CreateStep ==
  ASSUME InstallInv, CreateVenv
  PROVE  [TransactionStep]_(Transaction!vars)
  <1>1. /\ pc = "venv" /\ tree = Absent /\ tree' # Absent /\ cause = "none"
        /\ pc' \in {"python", "drop_venv"}
    BY NewTreeIsTree DEF CreateVenv, Advance, InstallInv, TreeAt, ControlAt, Working, Building,
           Installing
  <1>2. /\ Stage(pc) = "build"
        /\ Stage(pc') = IF pc' = "python" THEN "build" ELSE "cleanup_staging"
        /\ cause' = IF pc' = "python" THEN "none" ELSE "venv"
        /\ Stage("venv") = "build"
    BY <1>1, StageOf DEF CreateVenv, Advance, Building, Installing
  <1>3. /\ Directory["staging"] = Absent
        /\ Directory' = [Directory EXCEPT !["staging"] = Transaction!Torn("plan")]
    BY <1>1, StagingIs, DirectoryIs
  <1>5. CASE pc' = "python"
    <2>1. Transaction!Completes("build", {})
      BY <1>1, <1>2, <1>5 DEF Transaction!Completes
    <2> QED
      BY <1>2, <1>3, <2>1 DEF Transaction!Build, Transaction!Exists, Transaction!Effect,
         TransactionStep
  <1>6. CASE pc' # "python"
    <2>1. Transaction!Raises
      BY <1>1, <1>2, <1>6, HandlerIs DEF Transaction!Raises, Transaction!Raise
    <2> QED
      BY <1>2, <1>3, <2>1 DEF Transaction!Build, Transaction!Exists, Transaction!Effect,
         TransactionStep
  <1> QED
    BY <1>5, <1>6

(* The last check says that the tree is whole, and it is.                   *)
LEMMA VerifiedStep ==
  ASSUME InstallInv, OperatorSmoke, InstallInv'
  PROVE  [TransactionStep]_(Transaction!vars)
  <1>1. pc = "op_smoke" /\ pc \in Building /\ pc \in Working /\ UNCHANGED <<plan, operator, tree>>
    BY DEF OperatorSmoke, Check, decided, Working, Building, Completing
  <1>2. CASE Raise
    BY <1>1, <1>2, OrdinaryStep
  <1>3. CASE Advance("done")
    <2>1. /\ tree # Absent /\ tree.wrong = {} /\ tree.broken = {} /\ tree'.operator = operator'
      BY <1>1, <1>3 DEF InstallInv, TreeAt, Advance
    <2>2. tree.installed = Locked(plan) /\ (Normalizes(plan) => tree.normalized)
      BY <1>1, CompleteTree DEF Completing
    <2>3. Right'
      BY <1>1, <2>1, <2>2 DEF Right
    <2>4. /\ Directory["staging"] # Absent
          /\ Directory' = [Directory EXCEPT !["staging"] = Transaction!Whole("plan")]
      BY <1>1, <1>3, <2>1, <2>3, StagingIs, DirectoryIs DEF Advance
    <2>5. Stage(pc) = "build" /\ Stage(pc') = "write_state" /\ cause' = cause
      BY <1>1, <1>3, StageOf DEF Advance
    <2> QED
      BY <2>4, <2>5 DEF Transaction!Build, Transaction!Exists, Transaction!Effect,
                        Transaction!Completes, TransactionStep
  <1> QED
    BY <1>2, <1>3 DEF OperatorSmoke, Check, Pass

(* Both handlers of a failed build drop what is there.                      *)
LEMMA DropStep ==
  ASSUME InstallInv, DropVenv \/ Cleanup
  PROVE  [TransactionStep]_(Transaction!vars)
  <1>1. /\ pc \in {"drop_venv", "cleanup"} /\ pc # "done" /\ tree' = Absent
        /\ pc' = "cleanup_state" /\ cause' = cause
    BY DEF DropVenv, Cleanup
  <1>2. /\ Stage(pc) = "cleanup_staging" /\ Stage(pc') = "cleanup_state"
        /\ Staging' = Absent
        /\ Directory["staging"] = Staging
        /\ Directory' = [Directory EXCEPT !["staging"] = Absent]
    BY <1>1, StageOf, StagingIs, DirectoryIs
  <1>3. Transaction!Completes("cleanup_state", {})
    BY <1>1, <1>2 DEF Transaction!Completes
  <1>4. CASE tree = Absent
    <2>1. Staging = Absent /\ Directory' = Directory
      BY <1>2, <1>4, StagingIs, DirectoryIs
    <2>2. ~Transaction!Exists("staging") /\ ~Transaction!IsTree("staging")
      BY <1>2, <2>1, ContentAssumption DEF Transaction!Exists, Transaction!IsTree
    <2>3. Transaction!Skip("cleanup_state")
      BY <1>3, <2>1 DEF Transaction!Skip
    <2>4. Transaction!RemoveTree("staging", "cleanup_state")
      BY <2>2, <2>3 DEF Transaction!RemoveTree
    <2> QED
      BY <1>2, <2>4 DEF Transaction!CleanupStaging, TransactionStep
  <1>5. CASE tree # Absent
    <2>1. Directory["staging"] # Absent /\ ~Directory["staging"].whole
      BY <1>1, <1>2, <1>5, StagingIs DEF Transaction!Torn
    <2>2. Transaction!Effect([Directory EXCEPT !["staging"] = Absent], {}, "cleanup_state")
      BY <1>2, <1>3 DEF Transaction!Effect
    <2>3. Transaction!RemoveTree("staging", "cleanup_state")
      BY <2>1, <2>2 DEF Transaction!RemoveTree, Transaction!Exists, Transaction!IsTree
    <2> QED
      BY <1>2, <2>3 DEF Transaction!CleanupStaging, TransactionStep
  <1> QED
    BY <1>4, <1>5

(* No dependency state was staged, so nothing is left to drop.              *)
LEMMA FailStep ==
  ASSUME InstallInv, CleanupState
  PROVE  [TransactionStep]_(Transaction!vars)
  <1>1. /\ Stage(pc) = "cleanup_state" /\ Stage(pc') = "failed" /\ cause' = cause
        /\ pc # "done" /\ pc' # "done" /\ tree' = tree
    BY StageOf DEF CleanupState
  <1>2. Directory' = Directory /\ Directory["state_staging"] = Absent
    BY <1>1, StagingIs, DirectoryIs
  <1>3. Transaction!CleanupState
    BY <1>1, <1>2 DEF Transaction!CleanupState, Transaction!DropFile, Transaction!Exists,
       Transaction!Skip, Transaction!Completes
  <1> QED
    BY <1>3 DEF TransactionStep

(* Every step is one of SetupTransaction's.                                 *)
LEMMA BuildStep ==
  ASSUME InstallInv, InstallInv', [Next]_vars
  PROVE  [TransactionStep]_(Transaction!vars)
  <1> USE DEF Check, Pass, Advance, decided, Working, Preparing, Building, Installing,
             Completing
  <1>1. CASE Select
    BY <1>1, OrdinaryStep DEF Select
  <1>2. CASE Preflight
    BY <1>2, OrdinaryStep DEF Preflight
  <1>3. CASE PreflightAssets
    BY <1>3, OrdinaryStep DEF PreflightAssets
  <1>4. CASE Assets
    BY <1>4, OrdinaryStep DEF Assets
  <1>5. CASE Prepare
    BY <1>5, OrdinaryStep DEF Prepare
  <1>6. CASE Record
    BY <1>6, OrdinaryStep DEF Record
  <1>7. CASE PreflightStorage
    BY <1>7, StorageStep
  <1>8. CASE CreateVenv
    BY <1>8, CreateStep
  <1>9. CASE DropVenv
    BY <1>9, DropStep
  <1>10. CASE TargetPython
    BY <1>10, OrdinaryStep DEF TargetPython
  <1>11. CASE Constrain
    BY <1>11, OrdinaryStep DEF Constrain
  <1>12. CASE Validate
    BY <1>12, OrdinaryStep DEF Validate
  <1>13. CASE RunPip
    BY <1>13, PipEffect, Followed, OrdinaryStep, AbsentAssumption DEF Raise, InstallInv,
       TreeAt, ControlAt
  <1>14. CASE Normalize
    BY <1>14, NormalizeEffect, OrdinaryStep, AbsentAssumption DEF Raise, InstallInv, TreeAt
  <1>15. CASE Toolchain
    BY <1>15, OrdinaryStep DEF Toolchain
  <1>16. CASE PipCheck
    BY <1>16, OrdinaryStep DEF PipCheck
  <1>17. CASE Verify
    BY <1>17, OrdinaryStep DEF Verify
  <1>18. CASE OperatorValidate
    BY <1>18, OrdinaryStep DEF OperatorValidate
  <1>19. CASE OperatorFetch
    BY <1>19, OrdinaryStep DEF OperatorFetch
  <1>20. CASE OperatorVerify
    BY <1>20, OrdinaryStep DEF OperatorVerify
  <1>21. CASE OperatorPip
    BY <1>21, OrdinaryStep DEF OperatorPip, InstallInv, TreeAt, TypeOK
  <1>22. CASE OperatorCheck
    BY <1>22, OrdinaryStep DEF OperatorCheck
  <1>23. CASE Smoke
    BY <1>23, OrdinaryStep DEF Smoke
  <1>24. CASE OperatorSmoke
    BY <1>24, VerifiedStep
  <1>25. CASE Cleanup
    BY <1>25, DropStep
  <1>26. CASE CleanupState
    BY <1>26, FailStep
  <1>27. CASE Fault
    BY <1>27, OrdinaryStep DEF Fault
  <1>28. CASE World
    BY <1>28, OrdinaryStep DEF World, Change, UpdateExtension, DisturbConstraints,
       DisturbWheel, ReplaceDevice, RemoveTool
  <1>29. CASE UNCHANGED vars
    <2>1. Directory' = Directory /\ pc' = pc /\ cause' = cause
      BY <1>29 DEF vars, Directory, Staging, Right
    <2> QED
      BY <2>1 DEF TransactionStep, Transaction!vars
  <1> QED
    BY <1>1, <1>2, <1>3, <1>4, <1>5, <1>6, <1>7, <1>8, <1>9, <1>10, <1>11, <1>12, <1>13,
       <1>14, <1>15, <1>16, <1>17, <1>18, <1>19, <1>20, <1>21, <1>22, <1>23, <1>24, <1>25,
       <1>26, <1>27, <1>28, <1>29 DEF Next, Step

-----------------------------------------------------------------------------
(* DependencyInstall: the theorems                                          *)

LEMMA InstallNextInvariant ==
  ASSUME InstallInv, [Next]_vars
  PROVE  InstallInv'
  <1>1. CASE Next
    BY <1>1, TypeStep, ControlStep, OperatorStep, TreeStep, CompiledStep, UndisturbedStep
       DEF InstallInv
  <1>2. CASE UNCHANGED vars
    BY <1>2 DEF vars, decided, counters, InstallInv, TypeOK, ControlAt, OperatorAt, TreeAt,
       PortableNeverCompiles, UndisturbedAt, Disturbed, Selectable, Room, Unforeseen
  <1> QED
    BY <1>1, <1>2

LEMMA InstallInvariant == Spec => []InstallInv
  BY InstallInitInvariant, InstallNextInvariant, PTL DEF Spec

(* What a run has decided, it has decided in order, and its staging venv     *)
(* holds nothing the lock does not name (setup.py 640-760, dependencies.py   *)
(* 4032-4205).                                                              *)
THEOREM InstallTypeCorrect == Spec => []TypeOK
  <1>1. InstallInv => TypeOK
    BY DEF InstallInv
  <1> QED
    BY <1>1, InstallInvariant, PTL

(* Selection, lock, wheel keys, pip commands, configuration and request      *)
(* validation agree, whatever the context.                                  *)
THEOREM EveryPlanIsSupported == Spec => []SelectedPlanIsSupported
  BY InvariantImplies, InstallInvariant, PTL

(* No portable installation compiles anything, in any world.                *)
THEOREM NothingIsBuilt == Spec => []PortableNeverCompiles
  <1>1. InstallInv => PortableNeverCompiles
    BY DEF InstallInv
  <1> QED
    BY <1>1, InstallInvariant, PTL

(* The record names the operator in the tree, however the lock, the cache,   *)
(* the device and the tools change, and through one update.                 *)
THEOREM RecordIsTrue == Spec => []RecordDescribesTree
  BY InvariantImplies, InstallInvariant, PTL

(* The preflights are complete: what they do not look at is the only reason  *)
(* for an undisturbed run to fail late.                                     *)
THEOREM PreflightsAreComplete == Spec => []LateFailureIsUnforeseen
  BY InvariantImplies, InstallInvariant, PTL

(* An installation is the Build of SetupTransaction: whatever changes        *)
(* meanwhile, the tree it calls whole is whole.                             *)
THEOREM InstallRefinesBuild == Spec => BuildsAsAssumed
  BY InstallInvariant, InstallNextInvariant, BuildStep, PTL DEF Spec, BuildsAsAssumed
=============================================================================
