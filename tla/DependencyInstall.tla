-------------------------- MODULE DependencyInstall --------------------------
(***************************************************************************)
(* How setup.py gets from the description of a host to a staging venv that  *)
(* may be promoted: plan selection, preflights, the model snapshot, the pip *)
(* commands, the operator wheel and the verifications.                     *)
(*                                                                         *)
(* SetupTransaction takes all of this for two steps, Prepare and Build; its *)
(* assumption that a built tree is the wanted one is what is checked here   *)
(* (BuildsAsAssumed).  The recovery and the reuse of an installed tree,     *)
(* which lie between "prepare" and "storage", are modelled there.          *)
(*                                                                         *)
(* Labels of pc stand for a check or a subprocess of the run.  Between any  *)
(* two of them the world may change: the run holds the setup lock, which    *)
(* keeps other setups and inferences away, but not a cache cleaner, an      *)
(* update of the extension, the user or a replaced GPU.                    *)
(***************************************************************************)
EXTENDS DependencyPlan, FiniteSets

CONSTANTS
  Starts,      \* the contexts and hosts a run may begin with
  Wheels,      \* operator wheels the packaged inventory may list for a plan
  Absent,      \* no plan, wheel, tree, ...
  Foreign,     \* unused by a build; a name SetupTransaction needs
  MaxFaults,   \* bound: failures and broken packages over a behaviour
  MaxChanges   \* bound: changes of the world over a behaviour

VARIABLES
  context,   \* the metadata of the host application; dropped once it is read
  host,      \* the world, see Hosts
  pc,        \* the next check or subprocess, or how the run ended
  plan,      \* the selected plan
  next,      \* the number of the next pip command
  operator,  \* cpu_build: the wheel record, or the sources, of the operator
  record,    \* the operator that expected_state names
  tree,      \* the staging venv
  compiled,  \* history: what was compiled on this host
  faults,    \* failures and broken packages so far
  changes,   \* changes of the world so far
  updates,   \* those of them that updated the inventory
  cause      \* history: the label that raised

decided == <<context, plan, operator, record>>
counters == <<faults, changes, updates>>
vars == <<decided, host, pc, next, tree, compiled, counters, cause>>

ASSUME BoundAssumption == MaxFaults \in Nat /\ MaxChanges \in Nat
ASSUME WheelAssumption ==
  /\ Wheels \cap {Absent, "sources", "other"} = {}
  /\ Absent \notin {"sources", "other"}

(* Storage is counted in units: the snapshot, its headroom, the environment *)
(* and the build cache need one each.  The snapshot and the cache are on    *)
(* the volume of the models root, the environment on that of the extension, *)
(* which may be the same.                                                  *)
Hosts ==
  [glibc : Nat,                       \* minor number of the C library
   tools : SUBSET {"nvcc", "cxx", "openmp", "msvc"},
   device : {"reported", "other"},    \* whose capability the GPU has
   inventory : Wheels \cup {Absent},  \* the wheel listed for the plan's key
   cached : SUBSET Wheels,            \* wheels whose cached file is right
   constraints : {"absent", "locked", "altered"},  \* the materialized lock
   missing : SUBSET Requirements,     \* pins without a wheel at their index
   snapshot : BOOLEAN,                \* the model snapshot is there
   shared : BOOLEAN,                  \* one volume holds everything
   models : Nat,                      \* free units on the models volume
   extension : Nat]                   \* free units on the other volume

(* The staging venv: what pip has installed, what of it has another version *)
(* than the lock or does not work, and the CPU operator.                    *)
Operators == Wheels \cup {Absent, "sources"}
Trees ==
  [installed : SUBSET Requirements, wrong : SUBSET Requirements,
   broken : SUBSET Requirements, operator : Operators \cup {"other"},
   normalized : BOOLEAN]

ASSUME StartAssumption == Starts \subseteq Contexts \X Hosts
ASSUME AbsentAssumption == Absent \notin Contexts \cup Plans \cup Trees

Preparing == {"select", "preflight", "space", "assets", "prepare", "record", "storage"}
Installing ==
  {"venv", "python", "constrain", "validate", "pip", "normalize",
   "toolchain", "check", "verify"}
Completing ==
  {"op_validate", "op_fetch", "op_verify", "op_pip", "op_check", "smoke", "op_smoke"}
Building == Installing \cup Completing
Working == Preparing \cup Building
Labels == Working \cup {"drop_venv", "cleanup", "cleanup_state", "done", "failed"}

NewTree == [installed |-> {}, wrong |-> {}, broken |-> {}, operator |-> Absent,
            normalized |-> FALSE]

-----------------------------------------------------------------------------
(* How a step ends.                                                        *)

Advance(label) == pc' = label /\ UNCHANGED cause

(* The except clause of _install_environment drops the staging venv; an     *)
(* exception before its try leaves nothing to drop.                        *)
Raise ==
  /\ pc' = IF pc \in Building THEN "cleanup" ELSE "failed"
  /\ cause' = pc

Pass(condition, label) == IF condition THEN Advance(label) ELSE Raise

(* A check: nothing but the control changes.                               *)
Check(condition, label) ==
  /\ Pass(condition, label)
  /\ UNCHANGED <<decided, host, next, tree, compiled, counters>>

(* select_wheel: the packaged inventory is read again at every call.        *)
Selectable ==
  /\ host.inventory # Absent
  /\ WheelKey(plan) \in PublishedKeys
  /\ host.glibc >= WheelGlibc(plan)

-----------------------------------------------------------------------------
(* _run_setup_locked up to install_or_reuse_environment                    *)

Select ==
  /\ pc = "select"
  /\ IF Refused(context)
       THEN Raise /\ UNCHANGED plan
       ELSE Advance("preflight") /\ plan' = PlanFor(context)
  /\ context' = Absent
  /\ UNCHANGED <<host, next, operator, record, tree, compiled, counters>>

(* _preflight_plan.                                                        *)
Preflight ==
  /\ pc = "preflight"
  /\ Check(IF plan.native
             THEN NativeTools(plan) \cup CpuTools(plan) \subseteq host.tools
             ELSE Selectable, "space")

(* Mutant: space is asked for though nothing is missing.                    *)
PreflightAllAssets == pc = "space" /\ Check(host.models >= 2, "assets")

(* _preflight_assets.                                                      *)
PreflightAssets == pc = "space" /\ Check(host.snapshot \/ host.models >= 2, "assets")

(* ensure_snapshot, verify_snapshot and materialize_portable_runtime.       *)
Assets ==
  /\ pc = "assets"
  /\ host' = [host EXCEPT !.snapshot = TRUE, !.models = IF host.snapshot THEN @ ELSE @ - 1]
  /\ Advance("prepare")
  /\ UNCHANGED <<decided, next, tree, compiled, counters>>

(* _prepare_cpu_operator.                                                  *)
Prepare ==
  /\ pc = "prepare"
  /\ IF plan.native \/ Selectable
       THEN /\ operator' = IF plan.native THEN "sources" ELSE host.inventory
            /\ Advance("record")
       ELSE Raise /\ UNCHANGED operator
  /\ UNCHANGED <<context, plan, record, host, next, tree, compiled, counters>>

(* dependency_state_payload: the inventory is asked again.                 *)
Record ==
  /\ pc = "record"
  /\ IF plan.native \/ Selectable
       THEN /\ record' = IF plan.native THEN "sources" ELSE host.inventory
            /\ Advance("storage")
       ELSE Raise /\ UNCHANGED record
  /\ UNCHANGED <<context, plan, operator, host, next, tree, compiled, counters>>

(* Mutant: the environment and the cache are checked one by one.            *)
PreflightStorageApart ==
  /\ pc = "storage"
  /\ Check(host.models >= 1 /\ (host.shared \/ host.extension >= 1), "venv")

(* _preflight_install_storage groups what it needs by volume.              *)
Fits ==
  LET stores == {"environment", "cache"}
      volume == [s \in stores |-> IF s = "cache" \/ host.shared THEN "models" ELSE "extension"]
      needed(v) == Cardinality({s \in stores : volume[s] = v})
  IN  \A v \in {"models", "extension"} : needed(v) <= host[v]
PreflightStorage == pc = "storage" /\ Check(Fits, "venv")

-----------------------------------------------------------------------------
(* _create_venv and install_dependencies                                   *)

(* The interpreter may have been replaced since it was fingerprinted.       *)
CreateVenv ==
  /\ pc = "venv"
  /\ tree' = NewTree
  /\ \/ Advance("python") /\ UNCHANGED faults
     \/ /\ faults < MaxFaults
        /\ faults' = faults + 1
        /\ pc' = "drop_venv" /\ cause' = "venv"
  /\ UNCHANGED <<decided, host, next, compiled, changes, updates>>

(* VENV_ABI_MISMATCH: removed here, so the handler finds no staging venv.   *)
DropVenv ==
  /\ pc = "drop_venv"
  /\ tree' = Absent
  /\ pc' = "cleanup_state"
  /\ UNCHANGED <<decided, host, next, compiled, counters, cause>>

(* _assert_target_python, which sees what CreateVenv saw, and              *)
(* _validate_linux_glibc.                                                  *)
TargetPython == pc = "python" /\ Check(host.glibc >= TorchGlibc(plan), "constrain")

(* materialize_dependency_constraints.                                     *)
Constrain ==
  /\ pc = "constrain"
  /\ host' = [host EXCEPT !.constraints = "locked"]
  /\ Advance("validate")
  /\ UNCHANGED <<decided, next, tree, compiled, counters>>

(* _pip validates the constraints file, and pip opens it again by name.     *)
Validate == pc = "validate" /\ Check(host.constraints = "locked", "pip")

Following(command) ==
  IF command = LastCommand(plan) THEN "check"
  ELSE IF command = TorchCommand /\ plan.native THEN "toolchain" ELSE "validate"

(* What pip has to compile, and the ways it refuses: no file, no wheel, no  *)
(* compiler, no space for the largest of the downloads.                    *)
ToCompile(command) ==
  IF command.binary THEN {} ELSE command.installs \cap (host.missing \cup Sources \cup {"flash_attn"})
Room == IF host.shared THEN host.models >= 2 ELSE host.models >= 1 /\ host.extension >= 1
PipFails(command) ==
  \/ host.constraints = "absent"
  \/ command.binary /\ (command.installs \cup command.pulls) \cap host.missing # {}
  \/ ToCompile(command) # {} /\ ~(NativeTools(plan) \subseteq host.tools)
  \/ command.installs = {"torch"} /\ ~Room

(* The command line pins what it installs; only the constraints pin what    *)
(* that pulls in.  A package may be installed and not work: a fault.        *)
RunPip ==
  /\ pc = "pip"
  /\ LET command == Commands(plan)[next] IN
     IF PipFails(command)
       THEN Raise /\ UNCHANGED <<next, tree, compiled, faults>>
       ELSE \E broken \in {{}, command.installs} :
              /\ broken # {} => faults < MaxFaults
              /\ faults' = IF broken = {} THEN faults ELSE faults + 1
              /\ tree' = [tree EXCEPT
                   !.installed = @ \cup command.installs \cup command.pulls,
                   !.wrong = IF host.constraints = "altered" THEN @ \cup command.pulls ELSE @,
                   !.broken = @ \cup broken]
              /\ compiled' = compiled \cup ToCompile(command)
              /\ next' = next + 1
              /\ Advance(IF next = TorchCommand /\ Normalizes(plan)
                           THEN "normalize" ELSE Following(next))
  /\ UNCHANGED <<decided, host, changes, updates>>

(* normalize_cusparselt_metadata (MetadataNormalization): it knows one      *)
(* version of the package.                                                 *)
Normalize ==
  /\ pc = "normalize"
  /\ IF "torch_platform" \in tree.wrong
       THEN Raise /\ UNCHANGED tree
       ELSE Advance(Following(TorchCommand)) /\ tree' = [tree EXCEPT !.normalized = TRUE]
  /\ UNCHANGED <<decided, host, next, compiled, counters>>

(* native_build_environment once more, and prepare_native_sources.          *)
Toolchain == pc = "toolchain" /\ Check(NativeTools(plan) \subseteq host.tools, "validate")

PipCheck == pc = "check" /\ Check(Locked(plan) \subseteq tree.installed, "verify")

(* Mutant: the versions are compared and nothing is imported.               *)
SmokePassesByVersion ==
  /\ Locked(plan) \subseteq tree.installed
  /\ tree.wrong = {}
  /\ Normalizes(plan) => tree.normalized
  /\ host.device = "reported"

(* verify_dependencies: the versions the plan locks, the imports and the    *)
(* kernels, the corrected metadata, and the capability of the device.       *)
SmokePasses ==
  /\ Locked(plan) \subseteq tree.installed
  /\ tree.wrong = {}
  /\ tree.broken = {}
  /\ Normalizes(plan) => tree.normalized
  /\ host.device = "reported"

Verify == pc = "verify" /\ Check(SmokePasses, "op_validate")

-----------------------------------------------------------------------------
(* _install_cpu_operator and the checks of the complete tree               *)

OperatorValidate ==
  pc = "op_validate" /\ Check(host.constraints = "locked", "op_fetch")

(* ensure_wheel, or a build workspace and the compiler once more.           *)
OperatorFetch ==
  /\ pc = "op_fetch"
  /\ IF plan.native
       THEN Pass(CpuTools(plan) \subseteq host.tools, "op_pip") /\ UNCHANGED host
       ELSE /\ host' = [host EXCEPT !.cached = @ \cup {operator}]
            /\ Advance("op_verify")
  /\ UNCHANGED <<decided, next, tree, compiled, counters>>

(* verify_wheel once more, before pip opens the file by name.               *)
OperatorVerify == pc = "op_verify" /\ Check(operator \in host.cached, "op_pip")

(* pip opens the constraints and the wheel by name; what it installs of a   *)
(* wheel that is not the verified one is "other", if it takes it at all.    *)
OperatorPip ==
  LET genuine == plan.native \/ operator \in host.cached
      possible == /\ host.constraints # "absent"
                  /\ plan.native => CpuTools(plan) \subseteq host.tools
  IN /\ pc = "op_pip"
     /\ \/ Raise /\ UNCHANGED <<tree, compiled>> /\ ~(possible /\ genuine)
        \/ /\ possible
           /\ tree' = [tree EXCEPT !.operator = IF genuine THEN operator ELSE "other"]
           /\ compiled' = IF plan.native THEN compiled \cup {"operator"} ELSE compiled
           /\ Advance("op_check")
     /\ UNCHANGED <<decided, host, next, counters>>

OperatorCheck == pc = "op_check" /\ Check(Locked(plan) \subseteq tree.installed, "smoke")
Smoke == pc = "smoke" /\ Check(SmokePasses, "op_smoke")

(* Mutant: the operator that imports is taken for the recorded one.         *)
OperatorSmokeImports ==
  pc = "op_smoke" /\ Check(tree.operator # Absent /\ (plan.native \/ Selectable), "done")

(* verify_portable_cpu_extension: a wheel's files are those the inventory   *)
(* lists now (verify_installed).                                           *)
OperatorSmoke ==
  /\ pc = "op_smoke"
  /\ Check(IF plan.native THEN tree.operator = "sources"
                          ELSE Selectable /\ tree.operator = host.inventory, "done")

(* The except clause; how it can fail is in SetupTransaction.               *)
Cleanup ==
  /\ pc = "cleanup"
  /\ tree' = Absent
  /\ pc' = "cleanup_state"
  /\ UNCHANGED <<decided, host, next, compiled, counters, cause>>
CleanupState ==
  /\ pc = "cleanup_state"
  /\ pc' = "failed"
  /\ UNCHANGED <<decided, host, tree, next, compiled, counters, cause>>

-----------------------------------------------------------------------------
(* What else may happen.                                                   *)

(* Any check or subprocess fails: a download, a full disk, a timeout.       *)
Fault ==
  /\ pc \in Working
  /\ faults < MaxFaults
  /\ faults' = faults + 1
  /\ Raise
  /\ UNCHANGED <<decided, host, next, tree, compiled, changes, updates>>

Change(newHost, update) ==
  /\ pc \in Working
  /\ changes < MaxChanges
  /\ newHost # host
  /\ host' = newHost
  /\ changes' = changes + 1
  /\ updates' = updates + update
  /\ UNCHANGED <<decided, pc, next, tree, compiled, faults, cause>>

UpdateExtension ==
  \E wheel \in Wheels \cup {Absent} : Change([host EXCEPT !.inventory = wheel], 1)
DisturbConstraints ==
  \E found \in {"absent", "altered"} : Change([host EXCEPT !.constraints = found], 0)
DisturbWheel == Change([host EXCEPT !.cached = {}], 0)
ReplaceDevice ==
  \E device \in {"reported", "other"} : Change([host EXCEPT !.device = device], 0)
RemoveTool ==
  \E tool \in host.tools : Change([host EXCEPT !.tools = @ \ {tool}], 0)

World ==
  UpdateExtension \/ DisturbConstraints \/ DisturbWheel \/ ReplaceDevice \/ RemoveTool

Init ==
  /\ \E start \in Starts : context = start[1] /\ host = start[2]
  /\ pc = "select"
  /\ plan = Absent /\ operator = Absent /\ record = Absent /\ tree = Absent
  /\ next = 1
  /\ compiled = {}
  /\ faults = 0 /\ changes = 0 /\ updates = 0
  /\ cause = "none"

Step ==
  \/ Select \/ Preflight \/ PreflightAssets \/ Assets \/ Prepare \/ Record
  \/ PreflightStorage \/ CreateVenv \/ DropVenv \/ TargetPython \/ Constrain
  \/ Validate \/ RunPip \/ Normalize \/ Toolchain \/ PipCheck \/ Verify
  \/ OperatorValidate \/ OperatorFetch \/ OperatorVerify \/ OperatorPip
  \/ OperatorCheck \/ Smoke \/ OperatorSmoke \/ Cleanup \/ CleanupState

Next == Step \/ Fault \/ World

(* Every subprocess has a timeout, so a run that is alive goes on.          *)
Spec == Init /\ [][Next]_vars /\ WF_vars(Step)

-----------------------------------------------------------------------------
(* Properties                                                              *)

(* The staging venv exists only while it is built, and what a run has       *)
(* decided is decided in order.                                            *)
TypeOK ==
  /\ context \in Contexts \cup {Absent} /\ (pc = "select" => context # Absent)
  /\ host \in Hosts
  /\ pc \in Labels
  /\ plan \in Plans \cup {Absent}
  /\ plan = Absent <=> (pc = "select" \/ cause = "select")
  /\ operator \in Operators
  /\ record \in Operators /\ (record # Absent => operator # Absent)
  /\ tree \in Trees \cup {Absent}
  /\ tree # Absent =>
       /\ pc \in Building \cup {"drop_venv", "cleanup", "done"}
       /\ tree.installed \subseteq Locked(plan)
       /\ tree.wrong \cup tree.broken \subseteq tree.installed
  /\ next \in 1..(IF plan = Absent THEN 1 ELSE LastCommand(plan) + 1)
  /\ compiled \subseteq Requirements \cup {"operator"}
  /\ faults \in 0..MaxFaults /\ changes \in 0..MaxChanges /\ updates \in 0..changes
  /\ cause \in Working \cup {"none"}

(* Selection, lock, wheel keys, pip commands and runtime agree on every plan *)
(* that can be selected.  It has an audited closure, which its commands     *)
(* install exactly, and an operator wheel under its key (dependencies.py    *)
(* 2483-2575 and 4032-4205, binary_wheels.py 76-100).  The runtime accepts   *)
(* its configuration and serves a request that leaves the precision open on *)
(* every offered backend; BF16, which the upstream backend always uses, it   *)
(* serves only where the host reported a GPU that has it (setup.py           *)
(* 1265-1284, runtime.py 845-881 and 1454-1464).                            *)
SelectedPlanIsSupported ==
  plan # Absent =>
    LET offer == Offer(plan)
    IN  /\ Coherent(plan)
        /\ WheelKey(plan) \in PublishedKeys
        /\ Locked(plan) = UNION {command.installs \cup command.pulls :
                                   command \in {Commands(plan)[i] : i \in DOMAIN Commands(plan)}}
        /\ Accepts(offer)
        /\ \A backend \in offer.backends \cup {"auto"} : Serves(offer, backend, "auto")
        /\ plan.sm < 80 =>
             /\ ~Serves(offer, "upstream", "auto")
             /\ \A backend \in {"auto", "upstream", "portable"} :
                  ~Serves(offer, backend, "bfloat16")

(* "never build on users' PCs" (binary_wheels.py:1): whatever the indexes   *)
(* and the inventory lack, a portable installation compiles nothing.        *)
PortableNeverCompiles ==
  plan # Absent /\ ~plan.native => compiled = {} /\ operator # "sources"

(* The recorded state names the operator that is in the tree, though the    *)
(* inventory is read at four points of a run and the extension may be       *)
(* updated between any two (setup.py:663, 1201, dependencies.py:2735, 4262).  *)
(* Two updates that undo each other are not noticed; the next Repair then   *)
(* finds a record it does not expect and installs again.                   *)
RecordDescribesTree ==
  pc = "done" /\ updates <= 1 => tree.operator = operator /\ record = operator

Disturbed == faults > 0 \/ changes > 0

(* What no preflight looks at, and a lack of storage.                       *)
Unforeseen ==
  \/ host.glibc < TorchGlibc(plan)
  \/ Locked(plan) \cap host.missing # {}
  \/ host.device = "other"
  \/ cause = "storage" /\ ~Room

(* "Fail before multi-gigabyte installs" (setup.py:657): an undisturbed run *)
(* that has downloaded the models fails only for what no preflight looks    *)
(* at (the C library of the Torch wheels, the indexes, the real device) or, *)
(* before anything is installed, for lack of storage.                       *)
LateFailureIsUnforeseen ==
  pc = "failed" /\ ~Disturbed /\ cause \in Working \ {"select", "preflight", "space"} =>
    Unforeseen

(* SetupTransaction for one run that wants this plan.  Its tree is whole    *)
(* when it holds what the plan locks and the operator it was prepared with. *)
Right ==
  /\ tree.installed = Locked(plan)
  /\ tree.wrong = {} /\ tree.broken = {}
  /\ Normalizes(plan) => tree.normalized
  /\ tree.operator = operator
Stage(label) ==
  CASE label \in Preparing            -> "install"
    [] label \in {"drop_venv", "cleanup"} -> "cleanup_staging"
    [] label \in Building              -> "build"
    [] label = "done"                 -> "write_state"
    [] OTHER                          -> label

Staging ==
  IF tree = Absent THEN Absent ELSE [plan |-> "plan", whole |-> pc = "done" /\ Right]
Directory ==
  [path \in {"venv", "staging", "backup", "config", "config_backup", "state",
             "state_backup", "state_staging"} |-> IF path = "staging" THEN Staging ELSE Absent]

Transaction == INSTANCE SetupTransaction WITH
  Plans <- {"plan"}, MaxFaults <- 1, MaxCrashes <- 0,
  fs <- Directory, pc <- Stage(pc), want <- "plan", moved <- {}, crashes <- 0, before <- Absent,
  faults <- IF cause = "none" THEN 0 ELSE 1,
  cause <- IF cause = "none" THEN "none" ELSE Stage(cause)

ASSUME ContentAssumption == Absent \notin Transaction!Content

(* The steps of SetupTransaction that stand for an installation.            *)
TransactionStep ==
  \/ Transaction!Install \/ Transaction!Build \/ Transaction!Fault
  \/ Transaction!CleanupStaging \/ Transaction!CleanupState
(* Every step is one that SetupTransaction assumes of an installation: the  *)
(* tree is torn until the run says it is whole, and then it is whole,       *)
(* whatever happened to the lock, the cache, the inventory, the tools or    *)
(* the packages meanwhile; and a failure leaves no tree behind.             *)
BuildsAsAssumed == [][TransactionStep]_(Transaction!vars)

(* A host that has what the plan of its context needs.                     *)
Serviceable ==
  /\ context # Absent /\ ~Refused(context)
  /\ LET wanted == PlanFor(context) IN
     /\ wanted.native =>
          NativeTools(wanted) \cup CpuTools(wanted) \subseteq host.tools
     /\ ~wanted.native => host.inventory # Absent
     /\ host.glibc >= TorchGlibc(wanted)
     /\ host.device = "reported"
     /\ Locked(wanted) \cap host.missing \subseteq {"flash_attn"}
     /\ host.models >= (IF host.snapshot THEN 0 ELSE 1) + (IF host.shared THEN 2 ELSE 1)
     /\ host.shared \/ host.extension >= 1

(* Unless something fails or changes, a host that has what its plan needs   *)
(* gets its installation, through every preflight and verification.         *)
ServiceableHostIsServed == Serviceable => <>(pc = "done" \/ Disturbed)

-----------------------------------------------------------------------------
(* The inductive invariant                                                 *)

(* What the first n - 1 pip commands have installed.                        *)
Installed(p, n) ==
  UNION {command.installs \cup command.pulls : command \in {Commands(p)[i] : i \in 1..(n - 1)}}

ControlAt ==
  /\ plan # Absent => Coherent(plan)
  /\ cause = "none" <=> pc \in Working \cup {"done"}
  /\ pc \in Preparing \cup {"venv", "python", "constrain"} => next = 1
  /\ pc \in {"validate", "pip"} => next <= LastCommand(plan)
  /\ pc \in {"normalize", "toolchain"} => next = TorchCommand + 1
  /\ pc = "normalize" => Normalizes(plan)
  /\ pc = "toolchain" => plan.native
  /\ pc = "op_verify" => ~plan.native
  /\ pc = "assets" => host.snapshot \/ host.models >= 2
  /\ pc = "select" => compiled = {}
  /\ pc \in {"check", "verify", "done"} \cup Completing => next = LastCommand(plan) + 1

(* What has been decided about the operator, and what the inventory said    *)
(* when it was: one update that is not undone shows in it.                  *)
OperatorAt ==
  /\ operator # Absent => plan # Absent /\ (plan.native <=> operator = "sources")
  /\ record # Absent /\ plan.native => record = "sources"
  /\ pc \in Preparing => (operator # Absent <=> pc \in {"record", "storage"})
  /\ pc \in Preparing => (record # Absent <=> pc = "storage")
  /\ pc \in Building \cup {"done"} => operator # Absent /\ record # Absent
  /\ operator # Absent /\ ~plan.native =>
       /\ updates = 0 => host.inventory = operator
       /\ record # Absent /\ updates <= 1 /\ host.inventory = operator =>
            record = operator

(* What the staging venv holds, and what its verification has established.  *)
TreeAt ==
  /\ pc \in (Building \ {"venv"}) \cup {"done"} =>
       /\ tree # Absent
       /\ tree.installed = Installed(plan, next)
       /\ next > TorchCommand /\ pc # "normalize" /\ Normalizes(plan) => tree.normalized
  /\ pc = "venv" => tree = Absent
  /\ tree # Absent => tree.operator \in {Absent, "other", operator}
  /\ pc \in {"op_smoke", "done"} => tree.wrong = {} /\ tree.broken = {}
  /\ pc = "done" =>
       /\ tree.operator = operator
       /\ ~plan.native => host.inventory = operator

(* What an undisturbed run may rely on after each of its checks.            *)
UndisturbedAt ==
  ~Disturbed =>
    /\ pc \in Working \ {"select", "preflight"} =>
         IF plan.native THEN NativeTools(plan) \cup CpuTools(plan) \subseteq host.tools
                        ELSE Selectable
    /\ pc \in Building => Room
    /\ pc \in Building \ {"venv", "python", "constrain"} => host.constraints = "locked"
    /\ pc \in {"op_verify", "op_pip"} /\ ~plan.native => operator \in host.cached
    /\ pc \in Building \ {"venv"} => tree.wrong = {} /\ tree.broken = {}
    /\ pc \in {"op_check", "smoke", "op_smoke"} => tree.operator = operator
    /\ cause \in Working \ {"select", "preflight", "space"} => Unforeseen

InstallInv ==
  /\ TypeOK
  /\ ControlAt
  /\ OperatorAt
  /\ TreeAt
  /\ PortableNeverCompiles
  /\ UndisturbedAt
=============================================================================
