--------------------------- MODULE DependencyPlan ---------------------------
(***************************************************************************)
(* What dependencies.py decides before anything is installed: which plan a  *)
(* host gets (select_dependency_plan), what that plan locks                 *)
(* (constraint_requirements), which pip commands install it                 *)
(* (install_dependencies) and which operator wheel belongs to it            *)
(* (binary_wheels.wheel_key).  Selection, lock, commands and wheel keys are  *)
(* four places of the source that have to agree.                           *)
(*                                                                         *)
(* A requirement is the name of the tuple of pins it belongs to; the pins   *)
(* themselves are data.                                                    *)
(***************************************************************************)
EXTENDS Naturals, Sequences

Systems == {"linux", "win32", "darwin"}
Archs == {"x64", "arm64"}
ABIs == {"cp311", "cp312"}
Profiles == {"auto", "portable", "exact-upstream"}
Lanes == {"cu124", "cu126", "cu128"}

(* A context: what validate_context has established about the host.  sm is  *)
(* the compute capability, times ten, that the host application reports and *)
(* hint the CUDA version of its driver, 0 when it does not know.           *)
Contexts ==
  [system : Systems, arch : Archs, abi : ABIs, accelerator : STRING,
   sm : Nat, hint : Nat, profile : Profiles]

MinDriver(lane) == CASE lane = "cu124" -> 124
                     [] lane = "cu126" -> 126
                     [] lane = "cu128" -> 128

(* A normal installation is the portable one.                              *)
Profile(c) == IF c.profile = "auto" THEN "portable" ELSE c.profile

(* Mutant: the architecture is looked at before the GPU generation.         *)
PortableLaneByArch(c) == IF c.arch = "arm64" THEN "cu126"
                         ELSE IF c.sm >= 100 THEN "cu128" ELSE "cu124"

PortableLane(c) == IF c.sm >= 100 THEN "cu128"
                   ELSE IF c.arch = "arm64" THEN "cu126" ELSE "cu124"

Lane(c) == IF Profile(c) = "exact-upstream" THEN "cu124" ELSE PortableLane(c)

(* The refusals of select_dependency_plan.                                 *)
Refused(c) ==
  \/ c.system \notin {"linux", "win32"}
  \/ c.system = "win32" /\ c.arch # "x64"
  \/ c.accelerator # "cuda"
  \/ c.sm = 0
  \/ Profile(c) = "exact-upstream" /\ (c.arch # "x64" \/ c.sm \notin 80..99)
  \/ c.hint # 0 /\ c.hint < MinDriver(Lane(c))

Plans ==
  [profile : {"portable", "exact-upstream"}, system : Systems, arch : Archs, abi : ABIs,
   sm : Nat, lane : Lanes, native : BOOLEAN, flash : BOOLEAN,
   attention : {"sdpa", "flash_attn", "xformers"}]

PlanFor(c) ==
  LET exact == Profile(c) = "exact-upstream"
      flash == exact /\ c.system = "linux" /\ c.sm >= 80
  IN [profile |-> Profile(c), system |-> c.system, arch |-> c.arch, abi |-> c.abi,
      sm |-> c.sm, lane |-> Lane(c), native |-> exact, flash |-> flash,
      attention |-> IF ~exact THEN "sdpa" ELSE IF flash THEN "flash_attn" ELSE "xformers"]

-----------------------------------------------------------------------------
(* The lock.                                                               *)

(* The keys of torch_platform, the same in both Python lanes.               *)
TorchPlatforms ==
  {<<"cu124", "linux", "x64">>, <<"cu124", "win32", "x64">>,
   <<"cu126", "linux", "arm64">>, <<"cu128", "linux", "x64">>,
   <<"cu128", "linux", "arm64">>, <<"cu128", "win32", "x64">>}

(* _torch_platform_transitive_requirements: the plan has an audited closure *)
(* and its flags are those of its profile.                                 *)
Coherent(plan) ==
  /\ <<plan.lane, plan.system, plan.arch>> \in TorchPlatforms
  /\ plan.native => plan.lane = "cu124" /\ plan.arch = "x64"
  /\ \/ /\ plan.profile = "exact-upstream"
        /\ plan.native
        /\ plan.flash = (plan.system = "linux")
        /\ plan.attention = IF plan.system = "linux" THEN "flash_attn" ELSE "xformers"
        /\ plan.sm \in 80..99
     \/ /\ plan.profile = "portable"
        /\ ~plan.native /\ ~plan.flash
        /\ plan.attention = "sdpa"
        /\ (plan.lane = "cu128") = (plan.sm >= 100)

Sources == {"nvdiffrast", "cumesh", "flex_gemm", "o_voxel"}
Requirements ==
  {"bootstrap", "base", "transitive", "render", "render_transitive", "torch",
   "torch_platform", "sparse", "exact_transitive", "torch_scatter", "triton",
   "xformers", "flash_attn"} \cup Sources

(* constraint_requirements, without the operator, which is checked apart.   *)
Locked(plan) ==
  {"bootstrap", "base", "transitive", "torch", "torch_platform"}
    \cup (IF plan.arch = "x64" THEN {"render", "render_transitive"} ELSE {})
    \cup (IF plan.native
            THEN {"sparse", "exact_transitive", "torch_scatter", "triton", "xformers"}
                   \cup Sources
            ELSE {})
    \cup (IF plan.flash THEN {"flash_attn"} ELSE {})

(* The one closure whose installed metadata is corrected                    *)
(* (_cusparselt_normalization_identity).                                   *)
Normalizes(plan) ==
  plan.system = "linux" /\ plan.arch = "arm64" /\ plan.lane = "cu128"

-----------------------------------------------------------------------------
(* The pip commands.  A command installs requirements it names exactly and  *)
(* pulls in others that only the constraints pin; binary is                *)
(* --only-binary=:all:, without which pip may compile.                     *)

Binary(names, pulled) == [installs |-> names, pulls |-> pulled, binary |-> TRUE]
Compiled(name) == [installs |-> {name}, pulls |-> {}, binary |-> FALSE]

BaseCommand(plan) ==
  Binary({"base"} \cup (Locked(plan) \cap {"render"}),
         {"transitive"} \cup (Locked(plan) \cap {"render_transitive"}))

RuntimeCommands(plan) ==
  <<Binary({"bootstrap"}, {}), BaseCommand(plan), Binary({"torch"}, {"torch_platform"})>>
TorchCommand == 3

NativeCommands(plan) ==
  <<Binary({"sparse"}, {"exact_transitive"}), Binary({"torch_scatter"}, {}),
    Binary({"triton"}, {}), Binary({"xformers"}, {})>>
  \o (IF plan.flash THEN <<Compiled("flash_attn")>> ELSE <<>>)
  \o <<Compiled("nvdiffrast"), Compiled("cumesh"), Compiled("flex_gemm"), Compiled("o_voxel")>>

Commands(plan) ==
  RuntimeCommands(plan) \o (IF plan.native THEN NativeCommands(plan) ELSE <<>>)
LastCommand(plan) == Len(Commands(plan))

-----------------------------------------------------------------------------
(* What the plan needs of the host.                                        *)

(* native_build_environment and cpu_build_environment.                     *)
NativeTools(plan) ==
  IF plan.system = "win32" THEN {"nvcc", "msvc"} ELSE {"nvcc", "cxx", "openmp"}
CpuTools(plan) == IF plan.system = "win32" THEN {"msvc"} ELSE {"cxx"}

(* _validate_linux_glibc; the minor number of the C library, 2.x.           *)
TorchGlibc(plan) ==
  IF plan.system # "linux" THEN 0 ELSE IF plan.arch = "x64" THEN 31 ELSE 28
(* glibc_min of every Linux wheel of binary-wheels.json.                   *)
WheelGlibc(plan) == IF plan.system # "linux" THEN 0 ELSE 28

(* wheel_key, and the keys that parse_spec accepts, all of them published.  *)
WheelKey(plan) ==
  <<plan.system, plan.arch, plan.abi,
    IF plan.lane = "cu128" THEN "2.9.1" ELSE "2.6.0", plan.lane>>
PublishedKeys ==
  {key \in {"linux", "win32"} \X Archs \X ABIs \X {"2.6.0", "2.9.1"} \X Lanes :
     /\ key[1] = "win32" => key[2] = "x64"
     /\ (key[4] = "2.9.1") = (key[5] = "cu128")
     /\ (key[5] = "cu126") = (key[1] = "linux" /\ key[2] = "arm64" /\ key[4] = "2.6.0")}

-----------------------------------------------------------------------------
(* What an installation offers to requests, and what requests get of it.    *)

(* The fields of runtime_config.json that come from the plan.               *)
Offer(plan) ==
  [backends |-> IF plan.native THEN {"upstream", "portable"} ELSE {"portable"},
   default |-> IF plan.native THEN "upstream" ELSE "portable",
   attention |-> plan.attention,
   precisions |-> {"auto", "float16"} \cup (IF plan.sm >= 80 THEN {"bfloat16"} ELSE {})]

(* _validate_state: the runtime takes the configuration for a valid one.    *)
Accepts(offer) ==
  /\ offer.default \in offer.backends
  /\ offer.attention \in (IF "upstream" \in offer.backends
                            THEN {"flash_attn", "xformers"} ELSE {"sdpa"})
  /\ "auto" \in offer.precisions

(* validate_request: a request for a backend and a precision is not refused. *)
Serves(offer, requested, precision) ==
  LET backend == IF requested = "auto" THEN offer.default ELSE requested
  IN  /\ backend \in offer.backends
      /\ precision \in (IF backend = "upstream" THEN {"auto", "bfloat16"} ELSE offer.precisions)
=============================================================================
