----------------------------- MODULE SetupLease -----------------------------
(***************************************************************************)
(* The coordination of setup.py and runtime.py through .setup.lock.         *)
(*                                                                         *)
(* A setup holds the lock exclusively while it repairs the model snapshot   *)
(* and reworks the environment; what it may do to the environment is        *)
(* Installation, the promise that SetupTransaction implements.  An          *)
(* inference holds the lock shared from before it authenticates the         *)
(* configuration and the snapshot until its child process has ended.        *)
(* Every process may be killed: the operating system then releases its      *)
(* lock, but the child of an inference runs in a session of its own.        *)
(***************************************************************************)
EXTENDS Naturals, FiniteSets

CONSTANTS
  Setups,        \* setup processes
  Jobs,          \* inference processes
  Environments,  \* whole environments that can be offered
  Remains,       \* everything else the venv name can hold
  Nothing,        \* no offer, no environment in use
  MaxTries,      \* bound: failed attempts to lock before the deadline
  MaxKills       \* bound: processes killed over a behaviour

ASSUME ProcessAssumption == Setups \cap Jobs = {}
ASSUME NothingAssumption == Nothing \notin Environments
ASSUME LeaseBoundAssumption == MaxTries \in Nat /\ MaxKills \in Nat

VARIABLES
  at,        \* where each process is
  size,      \* bytes in .setup.lock; a missing file has none
  seen,      \* the size each process saw when it opened or examined the file
  holders,   \* the processes to which the operating system granted the lock
  tries,     \* failed attempts of a waiting process
  offered,   \* the environment runtime_config.json describes, or Nothing
  env,       \* what the venv name holds
  ready,     \* the snapshot is complete and carries its ready marker
  used,      \* the environment an inference authenticated
  child,     \* the inferences whose child process is alive
  kills      \* processes killed so far

lockVars == <<size, seen, holders, tries>>
diskVars == <<offered, env, ready>>
jobVars  == <<used, child>>
leaseVars == <<at, lockVars, diskVars, jobVars, kills>>

Processes == Setups \cup Jobs
Idle == {"idle", "done", "failed", "busy", "invalid", "killed"}
SetupHolding == {"snapshot", "environment"}
JobHolding == {"leased", "authenticated", "inferring", "collecting"}
Waiting == {"waiting"}
Places == Idle \cup SetupHolding \cup JobHolding \cup Waiting
            \cup {"opened", "examined"}

Disk == INSTANCE Installation WITH Absent <- Nothing

-----------------------------------------------------------------------------
(* Locking.  A local variable of the code returns to its initial value when *)
(* its function is left.                                                   *)

(* Mutant: setup asks for a shared lock as well.                            *)
GrantsShared(p) == holders \cap Setups = {}

(* flock or LockFileEx without blocking: exclusive against everybody, shared*)
(* against setups only.                                                    *)
Grants(p) == IF p \in Setups THEN holders = {} ELSE holders \cap Setups = {}

Acquire(p, next) ==
  /\ at[p] = "waiting"
  /\ Grants(p)
  /\ holders' = holders \cup {p}
  /\ at' = [at EXCEPT ![p] = next]
  /\ tries' = [tries EXCEPT ![p] = 0]
  /\ UNCHANGED <<size, seen, diskVars, jobVars, kills>>

(* Mutant: the deadline is computed again for every attempt.                *)
RetryForever(p) == at[p] = "waiting" /\ ~Grants(p) /\ UNCHANGED leaseVars

(* A failed attempt: wait and try again until the deadline, then SETUP_BUSY.*)
Retry(p) ==
  /\ at[p] = "waiting"
  /\ ~Grants(p)
  /\ IF tries[p] < MaxTries
       THEN tries' = [tries EXCEPT ![p] = @ + 1] /\ UNCHANGED at
       ELSE tries' = [tries EXCEPT ![p] = 0] /\ at' = [at EXCEPT ![p] = "busy"]
  /\ UNCHANGED <<size, seen, holders, diskVars, jobVars, kills>>

Release(p, outcome) ==
  /\ holders' = holders \ {p}
  /\ at' = [at EXCEPT ![p] = outcome]
  /\ UNCHANGED <<size, seen, tries, kills>>

-----------------------------------------------------------------------------
(* setup.py: setup_lock and _run_setup_locked                              *)

(* Open for appending; the file exists afterwards.                         *)
OpenLock(s) ==
  /\ at[s] \in Idle
  /\ at' = [at EXCEPT ![s] = "opened"]
  /\ seen' = [seen EXCEPT ![s] = size]
  /\ UNCHANGED <<size, holders, tries, diskVars, jobVars, kills>>

(* One byte is appended if the file was empty when it was opened.          *)
WriteByte(s) ==
  /\ at[s] = "opened"
  /\ size' = IF seen[s] = 0 THEN size + 1 ELSE size
  /\ seen' = [seen EXCEPT ![s] = 0]
  /\ at' = [at EXCEPT ![s] = "waiting"]
  /\ UNCHANGED <<holders, tries, diskVars, jobVars, kills>>

LockExclusive(s) == Acquire(s, "snapshot")

(* ensure_snapshot and the derived trees: the marker is removed first and   *)
(* written last, and nothing else happens before the snapshot is ready.     *)
Unready(s) ==
  /\ at[s] = "snapshot"
  /\ ready' = FALSE
  /\ UNCHANGED <<at, lockVars, offered, env, jobVars, kills>>

MakeReady(s) ==
  /\ at[s] = "snapshot"
  /\ ready' = TRUE
  /\ at' = [at EXCEPT ![s] = "environment"]
  /\ UNCHANGED <<lockVars, offered, env, jobVars, kills>>

(* The environment transaction.                                            *)
Rework(s) ==
  /\ at[s] = "environment"
  /\ Disk!Next
  /\ UNCHANGED <<at, lockVars, ready, jobVars, kills>>

FinishSetup(s) ==
  /\ \/ at[s] \in SetupHolding /\ Release(s, "failed")
     \/ at[s] = "environment" /\ offered # Nothing /\ Release(s, "done")
  /\ UNCHANGED <<diskVars, jobVars>>

-----------------------------------------------------------------------------
(* runtime.py: _setup_read_lock and handle_request                         *)

(* An empty or missing lock file is SETUP_INVALID.                         *)
ExamineLock(j) ==
  /\ at[j] \in Idle
  /\ j \notin child
  /\ at' = [at EXCEPT ![j] = IF size = 0 THEN "invalid" ELSE "examined"]
  /\ seen' = [seen EXCEPT ![j] = size]
  /\ used' = [used EXCEPT ![j] = Nothing]
  /\ UNCHANGED <<size, holders, tries, diskVars, child, kills>>

(* The opened file must be the examined one, and its size counts.           *)
OpenExamined(j) ==
  /\ at[j] = "examined"
  /\ at' = [at EXCEPT ![j] = IF size = seen[j] THEN "waiting" ELSE "invalid"]
  /\ seen' = [seen EXCEPT ![j] = 0]
  /\ UNCHANGED <<size, holders, tries, diskVars, jobVars, kills>>

LockShared(j) == Acquire(j, "leased")

(* Mutant: the configuration is trusted without its ready marker.           *)
AuthenticateUnready(j) ==
  /\ at[j] = "leased"
  /\ offered # Nothing
  /\ used' = [used EXCEPT ![j] = offered]
  /\ at' = [at EXCEPT ![j] = "authenticated"]
  /\ UNCHANGED <<lockVars, diskVars, child, kills>>

(* _validate_state and _authenticate_request read the configuration, the    *)
(* marker and the snapshot; the venv is taken from the configuration.       *)
Authenticate(j) ==
  /\ at[j] = "leased"
  /\ offered # Nothing
  /\ ready
  /\ used' = [used EXCEPT ![j] = offered]
  /\ at' = [at EXCEPT ![j] = "authenticated"]
  /\ UNCHANGED <<lockVars, diskVars, child, kills>>

RefuseRequest(j) ==
  /\ at[j] = "leased"
  /\ offered = Nothing \/ ~ready
  /\ Release(j, "failed")
  /\ UNCHANGED <<diskVars, jobVars>>

Spawn(j) ==
  /\ at[j] = "authenticated"
  /\ child' = child \cup {j}
  /\ at' = [at EXCEPT ![j] = "inferring"]
  /\ UNCHANGED <<lockVars, diskVars, used, kills>>

(* The child has ended, by itself or terminated with its group by the job.   *)
(* A descendant that outlives a child's success is not in the model.        *)
EndChild(j) ==
  /\ at[j] = "inferring"
  /\ child' = child \ {j}
  /\ at' = [at EXCEPT ![j] = "collecting"]
  /\ UNCHANGED <<lockVars, diskVars, used, kills>>

(* The result is published, or the request failed, and the lease ends: both *)
(* on the way out of the with statement.                                   *)
FinishJob(j) ==
  /\ at[j] \in JobHolding \ {"inferring"}
  /\ \/ Release(j, "failed")
     \/ at[j] = "collecting" /\ Release(j, "done")
  /\ used' = [used EXCEPT ![j] = Nothing]
  /\ UNCHANGED <<diskVars, child>>

-----------------------------------------------------------------------------
(* A process is killed.  Its lock goes, its child stays.                   *)
Kill(p) ==
  /\ at[p] \notin Idle
  /\ kills < MaxKills
  /\ kills' = kills + 1
  /\ at' = [at EXCEPT ![p] = "killed"]
  /\ holders' = holders \ {p}
  /\ seen' = [seen EXCEPT ![p] = 0]
  /\ tries' = [tries EXCEPT ![p] = 0]
  /\ UNCHANGED <<size, diskVars, jobVars>>

(* A child without its parent ends some time later.                        *)
OrphanEnds(j) ==
  /\ j \in child
  /\ at[j] = "killed"
  /\ child' = child \ {j}
  /\ UNCHANGED <<at, lockVars, diskVars, used, kills>>

SetupStep(s) ==
  \/ WriteByte(s) \/ LockExclusive(s) \/ Retry(s)
  \/ Unready(s) \/ MakeReady(s) \/ Rework(s) \/ FinishSetup(s)

JobStep(j) ==
  \/ OpenExamined(j) \/ LockShared(j) \/ Retry(j)
  \/ Authenticate(j) \/ RefuseRequest(j) \/ Spawn(j) \/ EndChild(j) \/ FinishJob(j)

LeaseNext ==
  \/ \E s \in Setups : OpenLock(s) \/ SetupStep(s)
  \/ \E j \in Jobs : ExamineLock(j) \/ JobStep(j) \/ OrphanEnds(j)
  \/ \E p \in Processes : Kill(p)

LeaseInit ==
  /\ at = [p \in Processes |-> "idle"]
  /\ size \in {0, 1}
  /\ seen = [p \in Processes |-> 0]
  /\ holders = {}
  /\ tries = [p \in Processes |-> 0]
  /\ Disk!Init
  /\ ready \in BOOLEAN
  /\ size = 0 => offered = Nothing
  /\ used = [j \in Jobs |-> Nothing]
  /\ child = {}
  /\ kills = 0

LeaseSpec == LeaseInit /\ [][LeaseNext]_leaseVars

(* A waiting process keeps trying; nobody has to finish, or to let go.      *)
Locking(p) == LockExclusive(p) \/ LockShared(p) \/ Retry(p)
LeaseFairSpec == LeaseSpec /\ \A p \in Processes : WF_leaseVars(Locking(p))

-----------------------------------------------------------------------------
(* Properties                                                              *)

(* Every variable has its type.                                            *)
LeaseTypeOK ==
  /\ at \in [Processes -> Places]
  /\ size \in Nat
  /\ seen \in [Processes -> Nat]
  /\ holders \subseteq Processes
  /\ tries \in [Processes -> 0..MaxTries]
  /\ Disk!TypeOK
  /\ ready \in BOOLEAN
  /\ used \in [Jobs -> Environments \cup {Nothing}]
  /\ child \subseteq Jobs
  /\ kills \in 0..MaxKills

(* While a setup works, no other setup and no inference holds the lease,    *)
(* whoever was killed in between ("Serialize Install/Repair across          *)
(* processes").                                                            *)
SetupWorksAlone ==
  \A s \in Setups, p \in Processes :
    at[s] \in SetupHolding /\ at[p] \in SetupHolding \cup JobHolding => p = s

(* From authentication to the end of the lease the environment, the         *)
(* configuration and the snapshot stay what the inference authenticated.    *)
LeasedEnvironmentIsStable ==
  \A j \in Jobs :
    at[j] \in JobHolding \ {"leased"} =>
      env = used[j] /\ offered = used[j] /\ ready

(* A process that waits for the lock gets it or is told that setup is busy, *)
(* although nobody who holds the lock need ever release it.                 *)
EveryWaiterIsAnswered ==
  \A p \in Processes : at[p] = "waiting" ~> at[p] # "waiting"

(* The docstring of _setup_read_lock: "Hold a shared lease so Repair cannot *)
(* mutate a running inference".  So as long as a child runs, the venv is    *)
(* the one it was started from.                                            *)
RunningChildIsStable == \A j \in child : env = used[j]

-----------------------------------------------------------------------------
(* The inductive invariant: the place of a process tells whether it holds   *)
(* the lock, an exclusive holder is alone, and what is offered is in place. *)
HoldersAt ==
  \A p \in Processes :
    p \in holders <=>
      at[p] \in IF p \in Setups THEN SetupHolding ELSE JobHolding
PlacesAt ==
  /\ \A s \in Setups : at[s] \notin JobHolding
  /\ \A j \in Jobs : at[j] \notin SetupHolding
ExclusiveIsAlone == \A s \in Setups : s \in holders => holders = {s}
OfferIsInPlace == offered # Nothing => offered = env

LeaseInv ==
  /\ LeaseTypeOK
  /\ PlacesAt
  /\ HoldersAt
  /\ ExclusiveIsAlone
  /\ OfferIsInPlace
  /\ LeasedEnvironmentIsStable
=============================================================================
