----------------------------- MODULE ModelsRoot -----------------------------
(***************************************************************************)
(* How setup and runtime find the models directory, each on its own, and    *)
(* what makes them agree: setup resolves the directory from the settings of *)
(* its host, provisions the snapshot below it and records it in             *)
(* runtime_config.json; a later run resolves it again, from the settings of *)
(* that time, and refuses to work if anything does not match.               *)
(*                                                                         *)
(* In between, and between any two steps, the host's settings change, the   *)
(* directories are moved, unmounted or relinked, the snapshot is damaged or *)
(* taken over by another installation, and the extension is updated.  The   *)
(* lease keeps setups and runs of one installation apart (SetupLease); what *)
(* happens to a snapshot within a setup is Snapshot, to the configuration   *)
(* SetupTransaction.                                                       *)
(***************************************************************************)
EXTENDS Naturals, FiniteSets

CONSTANTS
  Paths,      \* locations that a models directory may have, links resolved
  Links,      \* names that lead to one of them
  Dirs,       \* the models directories there are
  Versions,   \* releases of the extension
  Views,      \* what payload and environment of a process may say, see Sources
  Endpoints,  \* what the settings endpoint of Modly may answer
  Absent,     \* no value, directory, configuration, ...
  Malformed,  \* a declared value that is no absolute path
  Alias,      \* a link in the place of the revision directory
  Starts,     \* the hosts on which the extension is first installed
  MaxChanges  \* bound: changes of the world and broken setups

VARIABLES
  view,      \* the settings a process that starts now is given
  api,       \* what GET /settings/paths answers; Absent: no usable answer
  beside,    \* <extensions>/../models, Absent if not below "extensions"
  at,        \* the directory mounted at each location
  to,        \* where each link leads
  tree,      \* the revision directory below each models directory
  version,   \* EXTENSION_VERSION of the installed release
  config,    \* runtime_config.json
  setup,     \* the setup process: its label, its settings, models_root
  run,       \* the inference process: label, settings, `current`, the state's root
  steady,    \* history: nothing has changed since the run began
  settled,   \* history: what is known since the last setup began, see below
  changes

world == <<view, api, beside, at, to>>
history == <<steady, settled>>
rootVars == <<world, tree, version, config, setup, run, history, changes>>

Names == Paths \cup Links
Declared == Names \cup {Malformed}
Unusable == "unusable"        \* a setting is declared and cannot be used
Unavailable == "unavailable"  \* PATH_MODELS_UNAVAILABLE: nothing is declared

Snapshots == [marker : Versions \cup {Absent}, whole : BOOLEAN]
Trees == Snapshots \cup {Absent, Alias}
Configurations == [version : Versions, models : Paths]
Setups == [pc : {"idle", "resolve", "provision", "publish"},
           view : Views \cup {Absent}, root : Paths \cup {Absent}]
Runs == [pc : {"idle", "resolve", "compare", "check", "state", "authenticate", "served",
               "refused"},
         view : Views \cup {Absent}, current : Names \cup {Absent},
         root : Paths \cup {Absent},
         code : {Absent, "SETUP_INVALID", "MODELS_UNAVAILABLE", "REQUEST_PATHS"}]

ASSUME RootAssumption ==
  /\ MaxChanges \in Nat
  /\ Paths \cap Links = {}
  /\ \A v \in Views :
       /\ v.payload \in [{"modelsDir", "models_dir"} -> Declared \cup {Absent}]
       /\ {v.modly, v.legacy} \subseteq Declared \cup {Absent}
       /\ v.hosted \in BOOLEAN    \* WORKSPACE_DIR or EXTENSIONS_DIR is set
  /\ Endpoints \subseteq Declared \cup {Absent}
  /\ Starts \subseteq
       [view : Views, api : Endpoints, beside : Paths \cup {Absent},
        at : [Paths -> Dirs \cup {Absent}], to : [Links -> Paths],
        tree : [Dirs -> {Absent, Alias}]]

ASSUME NameAssumption ==
  /\ Names \cap {Absent, Malformed, Unusable, Unavailable} = {}
  /\ Absent \notin Dirs \cup Configurations \cup {Alias, Malformed, Unusable, Unavailable}
  /\ Snapshots \cap {Absent, Alias} = {}

-----------------------------------------------------------------------------
(* paths.py                                                                *)

Canonical(name) == IF name \in Links THEN to[name] ELSE name
IsDir(name) == name \in Names /\ at[Canonical(name)] # Absent

Native(value) == IF IsDir(value) THEN value ELSE Unusable

(* The settings under several keys must name one location, letter by letter. *)
Candidate(values) ==
  LET declared == values \ {Absent}
  IN  IF declared = {} THEN Absent
      ELSE IF Cardinality(declared) = 1 THEN Native(CHOOSE d \in declared : TRUE)
      ELSE Unusable

(* _models_root_from_modly_api: a value that the endpoint supplies counts    *)
(* like any other setting; no answer, or another one, is no setting.        *)
Answered == Candidate({api})

Conventional == IF IsDir(beside) THEN beside ELSE Unavailable

(* Mutant: MODELS_DIR is taken before the endpoint, whoever set it.         *)
SourcesByEnvironment(v) ==
  <<Candidate({v.payload["modelsDir"], v.payload["models_dir"]}),
    Candidate({v.modly}), Candidate({v.legacy}), Answered, Conventional>>

(* The sources in their order.  MODELS_DIR comes twice: before the endpoint *)
(* where a host exports it with its other directories, else after it.       *)
Sources(v) ==
  <<Candidate({v.payload["modelsDir"], v.payload["models_dir"]}),
    Candidate({v.modly}),
    IF v.hosted THEN Candidate({v.legacy}) ELSE Absent,
    Answered,
    Candidate({v.legacy}),
    Conventional>>

Resolve(v) ==
  LET source == Sources(v)
  IN  source[CHOOSE i \in DOMAIN source :
               /\ source[i] # Absent
               /\ \A j \in 1..(i - 1) : source[j] = Absent]

Below(name) == IF IsDir(name) THEN tree[at[Canonical(name)]] ELSE Absent
Owned(name) == Below(name) \notin {Absent, Alias}

-----------------------------------------------------------------------------
(* setup.py: _run_setup_locked                                             *)

(* What ends a setup early leaves nothing that the next one relies on.      *)
SetupEnds ==
  /\ setup' = [pc |-> "idle", view |-> Absent, root |-> Absent]
  /\ settled' = "no"

(* The payload and the environment are those of the start of the process;   *)
(* the lock admits it when no run holds the lease.                          *)
SetupBegin ==
  /\ setup.pc = "idle"
  /\ run.pc = "idle"
  /\ setup' = [pc |-> "resolve", view |-> view, root |-> Absent]
  /\ settled' = "begun"
  /\ UNCHANGED <<world, tree, version, config, run, steady, changes>>

(* resolve_models_root, owned_snapshot_directory with create.               *)
SetupResolve ==
  /\ setup.pc = "resolve"
  /\ LET found == Resolve(setup.view)
     IN  IF IsDir(found) /\ Below(found) # Alias
           THEN /\ setup' = [setup EXCEPT !.pc = "provision", !.root = Canonical(found)]
                /\ tree' = [tree EXCEPT ![at[Canonical(found)]] =
                              IF @ = Absent THEN [marker |-> Absent, whole |-> FALSE] ELSE @]
                /\ UNCHANGED settled
           ELSE SetupEnds /\ UNCHANGED tree
  /\ UNCHANGED <<world, version, config, run, steady, changes>>

(* Mutant: a snapshot whose files are right is left as it is.               *)
SetupProvisionFiles ==
  /\ setup.pc = "provision"
  /\ IF Owned(setup.root)
       THEN /\ tree' = IF Below(setup.root).whole /\ Below(setup.root).marker # Absent THEN tree
                       ELSE [tree EXCEPT ![at[setup.root]] = [marker |-> version, whole |-> TRUE]]
            /\ setup' = [setup EXCEPT !.pc = "publish"]
            /\ UNCHANGED settled
       ELSE SetupEnds /\ UNCHANGED tree
  /\ UNCHANGED <<world, version, config, run, steady, changes>>

(* ensure_snapshot, verify_snapshot and materialize_portable_runtime.       *)
SetupProvision ==
  /\ setup.pc = "provision"
  /\ IF Owned(setup.root)
       THEN /\ tree' = [tree EXCEPT ![at[setup.root]] = [marker |-> version, whole |-> TRUE]]
            /\ setup' = [setup EXCEPT !.pc = "publish"]
            /\ UNCHANGED settled
       ELSE SetupEnds /\ UNCHANGED tree
  /\ UNCHANGED <<world, version, config, run, steady, changes>>

(* Mutant: a rename that does not replace, as os.rename on Windows.         *)
SetupPublishNew ==
  /\ setup.pc = "publish"
  /\ IF Owned(setup.root) /\ config = Absent
       THEN /\ config' = [version |-> version, models |-> setup.root]
            /\ setup' = [pc |-> "idle", view |-> Absent, root |-> Absent]
            /\ settled' = IF settled = "begun" THEN "done" ELSE settled
       ELSE SetupEnds /\ UNCHANGED config
  /\ UNCHANGED <<world, tree, version, run, steady, changes>>

(* runtime_config_payload and write_runtime_config; that a publication that *)
(* raises leaves the previous configuration is SetupTransaction's matter.   *)
SetupPublish ==
  /\ setup.pc = "publish"
  /\ IF Owned(setup.root)
       THEN /\ config' = [version |-> version, models |-> setup.root]
            /\ setup' = [pc |-> "idle", view |-> Absent, root |-> Absent]
            /\ settled' = IF settled = "begun" THEN "done" ELSE settled
       ELSE SetupEnds /\ UNCHANGED config
  /\ UNCHANGED <<world, tree, version, run, steady, changes>>

SetupStep == SetupResolve \/ SetupProvision \/ SetupPublish

-----------------------------------------------------------------------------
(* runtime.py: validate_request and _authenticate_request                  *)

NoRun == [pc |-> "idle", view |-> Absent, current |-> Absent, root |-> Absent, code |-> Absent]

Refuse(code) == run' = [NoRun EXCEPT !.pc = "refused", !.code = code]

RunBegin ==
  /\ run.pc = "idle"
  /\ setup.pc = "idle"
  /\ run' = [NoRun EXCEPT !.pc = "resolve", !.view = view]
  /\ steady' = TRUE
  /\ UNCHANGED <<world, tree, version, config, setup, settled, changes>>

(* _runtime_config and the first half of _resolve_models: only where no     *)
(* setting is declared does the run take the recorded directory.            *)
RunResolve ==
  /\ run.pc = "resolve"
  /\ LET found == Resolve(run.view)
         current == IF found = Unavailable /\ config # Absent THEN Native(config.models) ELSE found
     IN  IF config = Absent \/ (found = Unavailable /\ ~IsDir(current))
           THEN Refuse("SETUP_INVALID")
         ELSE IF ~IsDir(current) THEN Refuse("MODELS_UNAVAILABLE")
         ELSE run' = [run EXCEPT !.pc = "compare", !.current = current]
  /\ UNCHANGED <<world, tree, version, config, setup, history, changes>>

(* Mutant: the names are compared.                                         *)
RunCompareNames ==
  /\ run.pc = "compare"
  /\ IF ~IsDir(config.models) THEN Refuse("SETUP_INVALID")
     ELSE IF ~IsDir(run.current) THEN Refuse("REQUEST_PATHS")
     ELSE IF run.current # config.models THEN Refuse("SETUP_INVALID")
     ELSE run' = [run EXCEPT !.pc = "check"]
  /\ UNCHANGED <<world, tree, version, config, setup, history, changes>>

(* The second half: the directories are compared with their links resolved, *)
(* and `current` is used further as it was found.                           *)
RunCompare ==
  /\ run.pc = "compare"
  /\ IF ~IsDir(config.models) THEN Refuse("SETUP_INVALID")
     ELSE IF ~IsDir(run.current) THEN Refuse("REQUEST_PATHS")
     ELSE IF Canonical(run.current) # config.models THEN Refuse("SETUP_INVALID")
     ELSE run' = [run EXCEPT !.pc = "check"]
  /\ UNCHANGED <<world, tree, version, config, setup, history, changes>>

(* _validate_runtime_config_identity, after the comparison of the recorded  *)
(* revision: written by this release for this directory.                    *)
Identified ==
  /\ config.version = version
  /\ config.models = Canonical(run.current)

(* _validate_marker, and verify_source_tree for every source: marked by     *)
(* this release, and the trees are exact and the assets of their size.      *)
Ready == Below(run.current) = [marker |-> version, whole |-> TRUE]

(* _validate_state: revision, identity of the configuration, marker, trees. *)
RunCheck ==
  /\ run.pc = "check"
  /\ IF Owned(run.current) /\ Identified /\ Ready
       THEN run' = [run EXCEPT !.pc = "state"]
       ELSE Refuse("SETUP_INVALID")
  /\ UNCHANGED <<world, tree, version, config, setup, history, changes>>

(* RuntimeState: the paths that the child is given.                         *)
RunState ==
  /\ run.pc = "state"
  /\ IF Owned(run.current)
       THEN run' = [run EXCEPT !.pc = "authenticate", !.root = Canonical(run.current)]
       ELSE Refuse("REQUEST_PATHS")
  /\ UNCHANGED <<world, tree, version, config, setup, history, changes>>

(* _authenticate_request: every file the child loads, under those paths.    *)
RunAuthenticate ==
  /\ run.pc = "authenticate"
  /\ IF Owned(run.root) /\ Below(run.root).whole
       THEN run' = [run EXCEPT !.pc = "served"]
       ELSE Refuse("SETUP_INVALID")
  /\ UNCHANGED <<world, tree, version, config, setup, history, changes>>

RunEnds ==
  /\ run.pc \in {"served", "refused"}
  /\ run' = NoRun
  /\ UNCHANGED <<world, tree, version, config, setup, history, changes>>

RunStep ==
  \/ RunResolve \/ RunCompare \/ RunCheck \/ RunState \/ RunAuthenticate
  \/ RunEnds

-----------------------------------------------------------------------------
(* The world                                                               *)

Changes ==
  /\ changes < MaxChanges
  /\ changes' = changes + 1
  /\ steady' = FALSE
  /\ settled' = "no"

(* The user, or an update of Modly, changes what the host tells.            *)
ChangeSettings ==
  /\ Changes
  /\ \/ view' \in Views \ {view} /\ UNCHANGED api
     \/ api' \in Endpoints \ {api} /\ UNCHANGED view
  /\ UNCHANGED <<beside, at, to, tree, version, config, setup, run>>

Unmount(p) ==
  /\ Changes
  /\ at[p] # Absent
  /\ at' = [at EXCEPT ![p] = Absent]
  /\ UNCHANGED <<view, api, beside, to, tree, version, config, setup, run>>

(* A directory comes back, where it was or elsewhere.                       *)
Mount(d, p) ==
  /\ Changes
  /\ at[p] = Absent
  /\ \A q \in Paths : at[q] # d
  /\ at' = [at EXCEPT ![p] = d]
  /\ UNCHANGED <<view, api, beside, to, tree, version, config, setup, run>>

Relink(l, p) ==
  /\ Changes
  /\ to[l] # p
  /\ to' = [to EXCEPT ![l] = p]
  /\ UNCHANGED <<view, api, beside, at, tree, version, config, setup, run>>

(* A file of the snapshot is lost or altered; the marker does not tell.     *)
Damage(d) ==
  /\ Changes
  /\ tree[d] \notin {Absent, Alias}
  /\ tree' = [tree EXCEPT ![d].whole = FALSE]
  /\ UNCHANGED <<world, version, config, setup, run>>

(* Another installation, with a lock of its own, has finished a setup in a  *)
(* directory that both are configured for.                                  *)
OtherInstallation(d, v) ==
  /\ Changes
  /\ tree[d] # Alias
  /\ tree' = [tree EXCEPT ![d] = [marker |-> v, whole |-> TRUE]]
  /\ UNCHANGED <<world, version, config, setup, run>>

(* An update of the extension, in place or by installing it anew; not while *)
(* it works, as README 141 asks.                                            *)
Update(v) ==
  /\ Changes
  /\ setup.pc = "idle"
  /\ run.pc = "idle"
  /\ v # version
  /\ version' = v
  /\ config' \in {config, Absent}
  /\ UNCHANGED <<world, tree, setup, run>>

(* A setup fails or dies.  On the way it may have torn the snapshot, the    *)
(* marker first, or withdrawn the configuration.                            *)
SetupBreaks ==
  /\ changes < MaxChanges
  /\ changes' = changes + 1
  /\ setup.pc # "idle"
  /\ SetupEnds
  /\ \/ UNCHANGED <<tree, config>>
     \/ /\ setup.pc = "provision" /\ Owned(setup.root)
        /\ \E rest \in BOOLEAN :
             tree' = [tree EXCEPT ![at[setup.root]] = [marker |-> Absent, whole |-> rest]]
        /\ UNCHANGED config
     \/ setup.pc = "publish" /\ config' = Absent /\ UNCHANGED tree
  /\ UNCHANGED <<world, version, run, steady>>

World ==
  \/ ChangeSettings
  \/ \E p \in Paths : Unmount(p) \/ (\E d \in Dirs : Mount(d, p)) \/ (\E l \in Links : Relink(l, p))
  \/ \E d \in Dirs : Damage(d) \/ (\E v \in Versions : OtherInstallation(d, v))
  \/ \E v \in Versions : Update(v)
  \/ SetupBreaks

-----------------------------------------------------------------------------
RootInit ==
  /\ \E s \in Starts :
       /\ view = s.view /\ api = s.api /\ beside = s.beside
       /\ at = s.at /\ to = s.to /\ tree = s.tree
  /\ version \in Versions
  /\ config = Absent
  /\ setup = [pc |-> "idle", view |-> Absent, root |-> Absent]
  /\ run = NoRun
  /\ steady = FALSE
  /\ settled = "no"
  /\ changes = 0

RootNext == SetupBegin \/ SetupStep \/ RunBegin \/ RunStep \/ World

(* The processes run; a user who wants a result starts runs and Repairs     *)
(* again and again.                                                        *)
Fairness ==
  /\ WF_rootVars(SetupStep)
  /\ WF_rootVars(RunStep)
  /\ SF_rootVars(SetupBegin)
  /\ SF_rootVars(RunBegin)

RootSpec == RootInit /\ [][RootNext]_rootVars /\ Fairness

-----------------------------------------------------------------------------
(* Properties                                                              *)

(* The configuration names a location, never a link (runtime_config_payload *)
(* resolves it), and so does the state of a run.                            *)
RootTypeOK ==
  /\ view \in Views
  /\ api \in Endpoints
  /\ beside \in Paths \cup {Absent}
  /\ at \in [Paths -> Dirs \cup {Absent}]
  /\ to \in [Links -> Paths]
  /\ tree \in [Dirs -> Trees]
  /\ version \in Versions
  /\ config \in Configurations \cup {Absent}
  /\ setup \in Setups /\ run \in Runs
  /\ steady \in BOOLEAN
  /\ settled \in {"no", "begun", "done"}
  /\ changes \in 0..MaxChanges

(* A run that nothing disturbed works in the directory that its host means: *)
(* the one of the payload; without one that of MODLY_MODELS_DIR; without    *)
(* that the one of the settings endpoint, which a MODELS_DIR does not       *)
(* shadow unless the host exports it (paths.py 220-223).  Setup by the      *)
(* installed release has recorded that directory, and its snapshot is whole *)
(* and marked by that release (_resolve_models, _validate_state).           *)
ServedIsDesignated ==
  run.pc = "served" /\ steady =>
    LET v == run.view
        payload == {v.payload[key] : key \in DOMAIN v.payload} \ {Absent}
        Means(values) == \A name \in values : Canonical(name) = run.root
    IN  /\ config = [version |-> version, models |-> run.root]
        /\ Below(run.root) = [marker |-> version, whole |-> TRUE]
        /\ Means(payload)
        /\ payload = {} => Means({v.modly} \ {Absent})
        /\ payload = {} /\ v.modly = Absent /\ ~v.hosted => Means({api} \ {Absent})

(* Setup and runtime agree: after a completed setup, and until something    *)
(* changes, no run is refused for the models directory, its snapshot or the *)
(* configuration, although the two resolve the directory from settings of   *)
(* their own, setup resolves links and the run does not (setup.py 1211-1217, *)
(* runtime.py 695-709).                                                     *)
SetupSatisfiesRuns == settled = "done" => run.pc # "refused"

(* Whatever has been moved, damaged, updated or broken: once the settings   *)
(* stay and mean a usable directory, runs are served again, after Repairs   *)
(* that need nothing but to be started (README 133-143).                    *)
RunsAreServedAgain ==
  LET Usable == IsDir(Resolve(view)) /\ Below(Resolve(view)) # Alias
  IN  <>[]Usable => []<>(run.pc = "served")

-----------------------------------------------------------------------------
(* The inductive invariant                                                 *)

(* The labels after the resolution, and the comparisons after each label.   *)
Resolved == {"compare", "check", "state", "authenticate", "served"}
Compared == Resolved \ {"compare"}
Checked == Compared \ {"check"}
Rooted == Checked \ {"state"}

(* The lease keeps setups and runs apart, and a process knows what it has   *)
(* found.                                                                  *)
ProcessAt ==
  /\ setup.pc = "idle" \/ run.pc = "idle"
  /\ setup.pc # "idle" => setup.view \in Views
  /\ setup.pc \in {"provision", "publish"} => setup.root \in Paths
  /\ run.pc \in {"resolve"} \cup Resolved => run.view \in Views
  /\ run.pc \in Resolved => config # Absent /\ run.current \in Names
  /\ run.pc \in Rooted => run.root \in Paths

(* What a run that nothing disturbs has found out so far.                   *)
RunAt ==
  steady =>
    LET v == run.view
        payload == {v.payload["modelsDir"], v.payload["models_dir"]} \ {Absent}
    IN  /\ run.pc \in Resolved =>
             /\ payload \subseteq {run.current}
             /\ payload = {} => v.modly \in {Absent, run.current}
             /\ payload = {} /\ v.modly = Absent /\ ~v.hosted => api \in {Absent, run.current}
        /\ run.pc \in Compared => Canonical(run.current) = config.models
        /\ run.pc \in Checked => Identified /\ Ready
        /\ run.pc \in Rooted => run.root = Canonical(run.current)

(* The directory that the present settings mean.  A setup that nothing has  *)
(* disturbed works in it, and leaves it as a run that finds it will want it. *)
Found == Resolve(view)
Settled == Below(Found) = [marker |-> version, whole |-> TRUE]
SettledAt ==
  /\ settled = "begun" =>
       /\ setup.pc # "idle" /\ setup.view = view
       /\ setup.pc \in {"provision", "publish"} =>
            IsDir(Found) /\ setup.root = Canonical(Found) /\ Owned(Found)
       /\ setup.pc = "publish" => Settled
  /\ settled = "done" =>
       /\ setup.pc = "idle" /\ run.pc # "refused"
       /\ IsDir(Found) /\ Settled
       /\ config = [version |-> version, models |-> Canonical(Found)]
       /\ run.pc # "idle" => run.view = view
       /\ run.pc \in Resolved => run.current = Found
       /\ run.pc \in Rooted => run.root = Canonical(Found)

RootInv == RootTypeOK /\ ProcessAt /\ RunAt /\ SettledAt
=============================================================================
