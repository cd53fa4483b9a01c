# Verification of the LATO.2 extension for Modly

TLA+ models, model-checking configurations and machine-checked proofs for the
LATO.2 process extension: the program that installs and repairs a Python
environment and a pinned model snapshot (`setup.py`, `lato2_modly/`), and the
process that serves one inference request from them (`processor.py`,
`lato2_modly/runtime.py`).

Everything here is translated from the source; line numbers are those of the
files under `src/`.

## 1. Inventory

The system is a set of short-lived processes that share one extension
directory and one model snapshot on disk.

| Part | State it keeps | Operations | Speaks to |
|---|---|---|---|
| Setup transaction (`setup.py` 61-67, 114-120, 483-563, 724-1318; `state.py`) | ten names in the extension directory: `venv`, staging and backup trees, configuration and backup, state, its staging and backup; local "moved" flags | recover, reuse, install, promote, publish, commit, roll back | lease (held throughout), dependencies, runtime (through `runtime_config.json`) |
| Setup lock and inference lease (`setup.py` 123-298; `runtime.py` 409-599) | `.setup.lock`: its byte and the OS lock on it | exclusive lock with a deadline, shared lock with a deadline, identity checks | every setup and every inference process |
| Inference run (`runtime.py` 2417-2570, `processor.py`) | temporary input, hidden staging directory, published run directory, failure directory; the protocol channel | authenticate, prepare, run the child, validate, publish, report | host (NDJSON on stdout), lease, child process |
| Child process control (`runtime.py` 1912-2250) | the child's process group, signal handlers, capture thread, log file | spawn, poll, cancel, terminate the group, bound and sanitize the log | inference run |
| Asset provisioning (`assets.py`) | asset files, `.part` files, source trees, ready marker | resume/restart/verify/promote a download, extract and swap a tree, reconcile the layout, mark ready last | network, setup |
| Derived trees (`portable.py`, `ovoxel_cpu.py`, `integrity.py`) | portable runtime tree, CPU build tree, their markers, staging and backup siblings | materialize or reuse, validate | assets, setup, runtime |
| Dependencies (`dependencies.py`, `binary_wheels.py`, `python_abi.py`, `dependency_probe.py`) | plan, lock files, wheel and build caches, installed metadata | select a plan, download, build, install, verify | pip, network, setup |
| Paths and state (`paths.py`, `state.py`) | none of their own; they read payload, environment, the settings endpoint and the disk, each process anew | resolve the models root by precedence, build the configuration; `_validate_state` compares | setup, runtime, Modly's settings endpoint |
| Request validation (`runtime.py` 787-1500) | none | parse and bound one request | inference run |
| Portable overlay (`portable_overrides/`) | renderer choice made once | fall back to the software renderer, precision policy, torch replacements of CUDA operators | the LATO.2 sources, in the child |
| Build tools, native template, workflows | none at run time | build and check wheels in CI | - |

How they interact. One setup process holds the exclusive lock from before it
looks at anything until its configuration is published or the previous
generation is back. An inference process reads its request, then holds the
shared lock from before it authenticates the configuration and the snapshot
until its child has ended and its result is published; it reports to the host
after it let go. The two sides communicate through
`runtime_config.json`: setup publishes it last, and the runtime takes it, the
state file and the ready marker for the truth about an environment it does not
check again (`runtime.py` `_validate_state`).

### What is hard here

* **Crashes at every line.** Setup replaces three objects by three renames, and
  the next run has only the names left on disk to find out how far it came.
* **Handlers that can fail.** The swap, its undo, the publication, its rollback
  and the commit all run file-system operations, and `KeyboardInterrupt` is
  raised between an effect and the assignment that records it.
* **Trees are not atomic.** `shutil.rmtree` and venv creation leave torn trees.
* **Several processes.** Setups race to create the lock file, inferences race
  with setups, any of them can be killed, and the OS releases a dead process's
  lock although its child, in its own session, lives on.
* **Signals while a child is being spawned, waited for or killed.**
* **Downloads.** Resume, ignored ranges, rejected ranges, short and wrong
  bodies, retries over a partial file that may be wrong.
* **A run of an hour over a world that moves.** Between two subprocesses of an
  installation a cache cleaner may take the constraints file or the wheel, the
  extension may be updated with its wheel inventory, a compiler may be
  uninstalled, the GPU replaced: what was checked is used later, by name.
* **Two resolutions of one directory.** Setup and every run find the models
  directory on their own, from settings of different moments; it may have been
  moved, relinked, damaged, or taken over by another release in between.
* **One terminal record** on a channel whose write can fail, and a result that
  is published before the last checks.

### What makes each part correct

| Part | Properties |
|---|---|
| Setup transaction | a published configuration always describes the whole environment in place; a replaced one stays restorable until the new one is published; a failed promotion restores the previous generation; success is clean; no leftover wedges the next run |
| Lock and lease | no environment or snapshot is changed while an inference that authenticated it runs; every waiter gets an answer |
| Inference run | at most one terminal record; a reported result is published, whole and valid; no staging directory survives but one whose removal failed; the diagnostic appears whole or not at all |
| Child control | when `_run_upstream` raises, the child's process group has ended; when it returns, the child has exited with 0 and its whole output is captured |
| Assets | a promoted asset is the pinned one; the ready marker is present only over a complete snapshot; bounded retries; a wrong partial file does not wedge the download |
| Derived trees | a published tree is the trusted derivation; a failed publication keeps the previous tree |
| Dependencies | selection, lock, pip commands and wheel keys agree for every host; a portable installation compiles nothing; a staging tree is only called built when it is the locked one, whatever changed meanwhile; an undisturbed run fails early or not at all; what is inspected while another process may write was there at one moment; metadata is corrected in an order that a failure cannot make look finished |
| Models root | an undisturbed run works in the directory its host means, which the installed release has provisioned; what setup resolves and records satisfies the runs that follow; whatever has changed, Repairs lead back to served runs |

## 2. How the project is laid out

| Module | Models | Proofs in | Runs |
|---|---|---|---|
| `SetupTransaction` | `setup.py` 483-563, 724-1318: recovery, reuse, installation, promotion, publication, commit, rollback | `SetupTransaction_proofs` | `setup`, `setup_failed_swap` |
| `Installation` | the promise of setup to the runtime, without names, crashes or rollback (abstract) | - | as a property of `setup` and `snapshot`; composed into `lease` |
| `SetupLease` | `.setup.lock`: setups and inferences of several processes; each setup reworks the disk as `Installation` | `Setup_proofs` | `lease`, `lease_orphan` |
| `InferenceChild` | `_run_upstream`, `_terminate_process_group`, the output thread (POSIX) | `Request_proofs` | `child` |
| `InferenceRun` | `processor._main`, `run_protocol`, `handle_request`, the diagnostic, the protocol channel | `InferenceRun_proofs` | `run` |
| `AssetDownload` | `ensure_asset`, `_stream_download` | `AssetDownload_proofs` | `download` |
| `Snapshot` | `ensure_snapshot`, `_extract_source_tree`, pruning, the ready marker | `Snapshot_proofs` | `snapshot` |
| `TreePublication` | the six publishers of derived trees, caches and workspaces | `TreePublication_proofs` | `publish` |
| `MetadataNormalization` | the correction of one audited wheel (`dependencies.py` 1281-2269) | `MetadataNormalization_proofs` | `normalize` |
| `DependencyPlan` | what is decided from the host's description: plan, refusals, lock, pip commands, wheel key (`dependencies.py` 847-1024, 2296-2602, 4019-4215; `binary_wheels.py` 79-127) | `Setup_proofs` | used by `install` |
| `DependencyInstall` | the run from the plan to the verified staging tree (`setup.py` 514-721, 866-992, 1192-1259; `dependencies.py` 3343-4632; `binary_wheels.py`) | `Setup_proofs` | `install` |
| `ModelsRoot` | setup and runs that resolve and validate the models directory, over a changing host (`paths.py`; `state.py` 68-148; `runtime.py` 628-893; `setup.py` 1205-1318) | `Request_proofs` | `models` |

`MCSetupTransaction` and `MCSetupLease` add the symmetry of plans and of
processes to the runs that check safety only; `MCDependencyInstall` and
`MCModelsRoot` name the hosts of `install` and `models`. Two proof modules
each extend two components, which is why the initial states, next-state relation
and specification of `SetupLease` and `ModelsRoot` carry a prefix of their own
(`LeaseSpec`, `RootSpec`): `Setup_proofs` is about what a setup relies on, the
lease and the installation, `Request_proofs` about what a request relies on, the
child and the models directory.

How they fit together. `SetupTransaction` implements `Installation` (checked
in `setup`, proved in `SetupImplementsInstallation`), and so does `Snapshot`
with the ready marker for the offer (`snapshot`, `SnapshotImplementsInstallation`).
`SetupLease` takes the environment part of a setup to be `Installation` and
shows what the lock adds: an offered environment may be withdrawn and reworked
at any time by `Installation`, but not while an inference holds its lease.
`InferenceRun` takes a whole `_run_upstream` as one step with a verdict and an
output thread that may outlive it; `InferenceChild` is that step in detail, with
`InferenceRun` instantiated over its variables (`InfersAsAssumed`, proved in
`ChildImplementsInfer`): a log is sanitized when the call returns, the channel
has not failed then, a thread left behind has not made the log or is writing
it, and a kill may leave any log (`InferKilled`). What such a thread does after
the call has ended is `InferenceRun`'s alone, where its directory is being
removed meanwhile.
`Snapshot` takes `ensure_asset` as a step that installs the pinned file, or
refuses an entry of the wrong type and changes nothing, or gives up, with or
without a `.part` file and with or without the pinned file (a call may fail or
be stopped between its promotion and its return);
`AssetDownload` is that step in detail, with `Snapshot` instantiated over its
variables (`EnsuresAsAssumed`, proved in `DownloadImplementsEnsure`).
`SetupTransaction` in turn takes a whole
installation for two steps, `Install` and `Build`, of which the second makes
the staging tree whole; `DependencyInstall` is those steps in detail, with
`SetupTransaction` instantiated over its variables: every step of it is one of
`SetupTransaction`'s (`BuildsAsAssumed`, proved in `InstallRefinesBuild`), where "whole" means the locked
packages, all of the locked version and working, and the operator the run was
prepared with. `ModelsRoot` takes a whole `ensure_snapshot` and a whole
environment transaction for one step each, `SetupProvision` and `SetupPublish`,
relies on the lease to keep setups and runs of one installation apart, and shows
what validation makes of the rest: `InferenceRun` and `SetupLease` take its
verdict for granted.

### State and actions against the code

In every module `pc` is the place of one process in its code. A label is named
for the next effect the code has on something that outlives the step: a rename,
an unlink, a write, a signal sent, a local variable that a handler will read.
Python raises `KeyboardInterrupt` between two bytecodes, so an exception at a
label comes before its effect; where the assignment that records an effect
comes after it, the model has either a label between the two (`bind` in
`InferenceChild`, `gap` in `TreePublication`) or a disjunct in which the effect
has happened and its record has not (`Raises` in `SetupTransaction`).

* **SetupTransaction.** `fs` maps the ten names of the extension directory
  (`venv`, its staging and backup; configuration, state, their backups and
  staging) to a content: absent, foreign, or a plan with a mark whether the
  tree is whole. `moved` is the set of local flags of `_promote_environment`
  and `EnvironmentResult`. One action per persisted effect; `RemoveTree` tears
  a tree before it is gone. `Refuse` is an exception that the code raises
  itself, `Fault` one from outside, `Crash` the death of the process, after
  which `Begin` starts another Repair, for any plan, on what is left.
* **SetupLease.** `size`, `seen` and `holders` are the lock file's length, what
  a process examined of it, and the lock of the operating system. Deadlines are
  counted in failed attempts (`tries`). `env`, `offered` and `ready` are the
  disk; `used` and `child` say what an inference took and what runs.
* **InferenceChild.** `bound` is `process is not None`; `handler` the
  disposition of SIGTERM; `alive`, `stubborn` and `reaped` the child's process
  group, and `holding` those of its members that hold the write end of the
  output pipe, whose end is all that the output thread sees; `capture` the output thread and `log` what it has made of
  `upstream.log`; `exc` and `failed` what leaves the call with an exception.
  `HandlerOf` gives the except clause of a label, `Raise` what it does.
* **InferenceRun.** The directories (`temp`, `staging`, `part`, `final`,
  `diag`) with the state of their three kinds of files, the local name
  `named`, the exception on its way up, and the emitter's two flags with the
  records that reached the channel. `kept` remembers which of the three hidden
  directories a removal failed on: `rmtree` ignores errors there, so a removal
  may leave anything of what it should remove.
* **AssetDownload.** A file is a number of blocks that are right as far as they
  go, or wrong. `Request` and the block actions (`RightBlock`, `WrongBlock`, `BodyEnds`) are
  the server's; `trouble` remembers what
  went wrong in a call, for the properties that need a well-behaved server.
* **Snapshot.** Contents of files, of their `.part` names and of trees (`unsafe`
  is a directory or an alias, and as `.part` also a hard link), one staging and
  one backup tree, `litter` for anything under names nobody knows, and `trusted`:
  FALSE in the initial states in which somebody else's marker is there.
* **TreePublication.** `kind` selects the publisher; `dest`, `staging`, `aside`
  the three names of a publication, `left` what stays under fresh names.
* **MetadataNormalization.** `file` the content under each audited name, `seen`
  what was hashed, `same` the hashed names that have not changed since (what
  comparing device, inode, size and times tells), `ours` the names that still
  lead to the staged inode.

* **DependencyInstall.** `host` is the world: C library, toolchain, real GPU,
  packaged inventory, cached wheel, constraints file, what the package indexes
  lack, free storage in units on one or two volumes. `plan`, `operator` and
  `record` are the local variables `plan`, `cpu_build` and `expected_state`;
  `tree` is the staging venv with what is installed, of a wrong version, or
  broken. The `World` actions change the host between any two steps.
* **ModelsRoot.** `view` and `api` are what the host tells a process in payload
  and environment and through its settings endpoint, `beside` the conventional
  place. `at`, `to` and `tree` are the disk: which directory is mounted at a
  location, where a link leads, and the revision directory below it with its
  marker's release and whether its files are right. A process takes `view` at
  its start and `api` when it resolves. `steady` and `settled` remember whether
  anything has changed since the run, or the last setup, began.

`PROJECT.json` maps every definition to the lines it stands for.

## 3. What each run shows

| Run | Bounds | Shows |
|---|---|---|
| `setup` | two plans, two exceptions and two crashes over any number of Repairs | `ConfigDescribesEnvironment`: while a configuration exists, at every persisted effect and after every crash, the venv is whole and the one it describes. `BackupIsRestorable`: a replaced configuration always has its environment where recovery and rollback look for it. `SuccessIsClean`, `FailedRepairRestores`: what a Repair leaves that succeeded, and that was refused after its swap. `ImplementsInstallation`. `RepairConverges`: nothing a run leaves behind wedges the next |
| `setup_failed_swap` | one exception | a disagreement with a docstring, see below |
| `lease` | two setups, two inferences, one failed attempt each, one process killed | `SetupWorksAlone`, `LeasedEnvironmentIsStable` whoever is killed where; `EveryWaiterIsAnswered` although no holder ever need let go |
| `lease_orphan` | the same | a disagreement, see below |
| `child` | two signals, a leader and a descendant, each of which may ignore SIGTERM, and either of which may let go of the output pipe | `GroupEndsWithCall`: no member survives a call that raises unless a signal hit one of six named steps; `ReturnMeansCompleteRun`: a call returns only for a child that exited with 0 and whose whole output was captured; `CallEnds`: neither a stubborn member nor an open pipe keeps the call from ending; `InfersAsAssumed`: a call is one step of `InferenceRun` |
| `run` | none: no step repeats | `PublishedIsComplete`: what is visible is whole and its log sanitized, and a run never has both a result and a diagnostic. `DoneMeansResult`, `AnsweredOnce`, `FirstErrorIsSent`: what the host is told. `NothingIsLeft`, with the steps that are excepted named, and a directory whose own removal failed |
| `download` | a file of two blocks, three attempts | `EnsuresAsAssumed`: with any server and any stop a call is one step of `Snapshot`; `HonestServerSuffices`: a wrong `.part` file costs an attempt and no more; `ProgressIsKept`; `DoneIsClean` |
| `snapshot` | a weight file and two archives with trees, two faults | `ImplementsInstallation`, with the marker as the offer; `RepairCompletes`, whatever contents, leftovers and marker a Repair finds, unless an entry of the wrong type is at a pinned name or its `.part`: then it ends with a failure |
| `publish` | two archives, three faults over any number of calls of each of the publishers | `DoneIsDerived`, `OldOrNewExists`, `FailedCallRestores`, `FailedCallIsClean`, `CallCompletes` |
| `install` | all contexts of five machines (two ABIs, five compute capabilities, four driver hints, three profiles) on a host that has what it needs, and for one context of each kind of plan some thirty hosts that lack one thing or have another amount of storage; one fault or broken package, two changes of the world | `SelectedPlanIsSupported`: selection, lock, commands, wheel keys and runtime agree; `RecordDescribesTree`, `BuildsAsAssumed`, whatever changes; `LateFailureIsUnforeseen` and `ServiceableHostIsServed` for a run that nothing disturbs |
| `models` | eight combinations of payload and environment, four answers of the endpoint, two directories at two locations, one link, two releases; two changes of the world or broken setups | `ServedIsDesignated`, `SetupSatisfiesRuns`; `RunsAreServedAgain`, from everything that two changes can make |
| `normalize` | two package files, WHEEL and RECORD, two writes of another process, one error, signal or death | `ReportedWasThere`, `PublicationIsOrdered`, `UndisturbedCallCompletes` |

The type invariants hold in their runs too, but are left out of the cfgs: they
are proved for all of the constants' values (section 4). Every property has a
mutant in `PROJECT.json`, an operator of the module that a plausible slip in
the code would give, which violates it.

**Why the bounds are enough.** A swap needs a second plan to have something to
replace; the hard cases are a failure while an earlier one is handled, and a
run over what an earlier one left. So two exceptions and two crashes, or three faults in the shared
protocol of `TreePublication`. Two processes of each sort give every
interleaving of the lock, which has no state that a third could enlarge. Two
blocks give a `.part` file that is empty, partial, complete or too long, and
three attempts one more than the two of `HonestServerSuffices`. Two archives
tell whether the trees go wrong one after the other. Two writes give a reader
one change and its reversal, and so do two changes of a host: between a check
and a use one is enough to go wrong and a second one to undo it; one broken
package shows whether the last smoke finds it. Storage in units of what one
purpose needs gives every order of the requirements and the free space. Two changes are also what a run over
a wrong configuration needs: an update, and the other installation that marks
the directory for the new release. What depends on a number is also proved for every
number (section 4).

**Fairness.** `SetupTransaction`, `Snapshot`, `TreePublication` and
`MetadataNormalization` assume weak fairness of the process's own next step:
the operating system runs it. Nobody must start a Repair, no fault must or must
not come (the bound on faults lets them stop; `RepairCompletes` and the like
are about calls that start after the last one). `SetupLease` assumes only that
a process that waits for the lock keeps trying: holders need never let go.
`InferenceChild` assumes that the main thread runs, since every wait in it has
a timeout; nothing is assumed of the child, its descendants, or the output
thread. `DependencyInstall` assumes weak fairness of the run's own step, since every
subprocess it waits for has a timeout. `ModelsRoot` assumes it of setup and run,
and strong fairness of their start: a user who wants a result tries and repairs
again and again, each of the two possible only while the other is not running.
`InferenceRun` and `AssetDownload` state
safety only. Deadlock is checked but for `InferenceChild`, `InferenceRun` and
`DependencyInstall`, whose process ends.

### Where the code and its documentation disagree

1. `setup_failed_swap` (`setup.py` 1082): a promotion that fails after the
   configuration was moved and before the venv was deletes the configuration in
   its backup; the untouched environment is refused until a full Repair
   succeeds. A crash between the same two renames (`setup.py` 1034 and 1042)
   ends alike: recovery sees no backup tree and drops the configuration's
   backup as stale (817-823).
2. `lease_orphan` (`runtime.py` 2003): the lease is held by the inference
   process and not by its child, which is in a session of its own; when the
   process is killed a Repair replaces the venv under the running child.

Observed while modelling, and visible in the statement of a property:

* A signal after the fork and before the assignment of `Popen`'s result
  (`runtime.py` 2142) unwinds without terminating the group, although the
  docstring of the signal (218) says it unwinds into that cleanup: the step is
  named among the exceptions of `GroupEndsWithCall`.
* A call of `_run_upstream` that succeeds sends the group no signal
  (`runtime.py` 2170-2214). A descendant that has redirected its output, such as
  a compile worker, is no longer seen at the end of the pipe and runs on after
  the return, outside of the lease that is released then
  (`GroupEndsWithCall` is about calls that raise, and `ReturnMeansCompleteRun`
  about the pipe).
* The removals of a run's input copy and hidden directories ignore their errors
  (`runtime.py` 1551, 2414, 2539, 2541), and a "done" follows all the same: a
  directory whose own removal failed is excepted in `NothingIsLeft`, and for the
  input copy in `DoneMeansResult`.
* "Corrupt or incomplete owned artifacts are repaired" (`src/README.md` 138) is
  true of files. A directory or an alias at the name of a pinned file or of its
  `.part`, or a hard link as `.part`, is kept by the pruning for its name
  (`assets.py` 850-852) and refused by every Repair (`assets.py` 408-411,
  418-423; `paths.py` 358-361) until somebody removes it: the second case of
  `RepairCompletes`.
* `src/README.md` 227 says that both profiles build the voxelizer locally, its
  lines 103-107 that a normal installation downloads it and never compiles. The
  code does the latter (`NothingIsBuilt`).
* An `OSError` of the request itself, on a full disk for instance, passes
  through the lease's context manager (`runtime.py` 590) and is reported as
  `SETUP_INVALID`, with the advice to run Repair (`FirstErrorIsSent`).
* `_preflight_plan` means to "fail before multi-gigabyte installs" (`setup.py`
  657) but asks for the C library of the operator wheel, 2.28, while the Torch
  wheels of x64 need 2.31 and are asked about (`dependencies.py` 3982) in the
  staging venv, after the 4.49 GiB of models: `LateFailureIsUnforeseen` lists it
  among what no preflight looks at. The storage of the environment, too, is
  asked for after the models are there.
* Two updates of the extension that undo each other, one before and one after
  the recorded state is computed, leave a record that does not name the
  installed operator (`RecordDescribesTree` allows one update). The runtime does
  not notice; the next Repair installs again.
* The constraints file is validated and then opened by pip by name. What slips
  through is caught by the version check of the smoke, which takes the versions
  from the plan and not from the file (`BuildsAsAssumed`).

* The lock is in the extension's directory and the snapshot below a models
  directory that another installation may be configured for: a marker of
  another release makes every run refuse until a Repair takes it back, which the
  other installation's runs then refuse (`RunsAreServedAgain` needs the other
  one to stop).
* `_resolve_models` compares canonical paths and returns the one it found
  (`runtime.py` 710-712). A link that is pointed elsewhere between there and
  `RuntimeState` gives a run whose files are authenticated in a directory whose
  marker and configuration were not looked at.

Exceptions named in a property: a signal between the first rename of a swap
and the `try` that would undo it leaves neither tree in place (`portable.py` 649-651, and the same lines of the
other swapping publishers; label `gap`). A killed publisher leaves staging and
quarantine trees under random names that no later call removes, and the source
and workspace publishers' `except Exception` leaves theirs on
`KeyboardInterrupt` too (`FailedCallIsClean` is about errors). A wheel
correction that is interrupted between WHEEL and RECORD leaves a hybrid that
every later inspection refuses; the staging venv is built anew by the next
setup.

## 4. What is proved

The theorems hold for every value of the constants: any plans, processes,
files, archives, packages, and any number of faults, crashes, signals, kills
and writes, and for every description of a host that a setup may be given. The
assumptions on constants are the `ASSUME`s of the modules, which TLC evaluates
in their runs: bounds are naturals, sets of names are disjoint, sentinels are no
contents. The two larger sets of them say what the inputs are and no more:

* *DependencyInstall.* A run starts with a context and a host of the described
  shape (`StartAssumption`); the packaged wheels are distinguishable from "no
  operator", "built from sources" and "something else" (`WheelAssumption`: in the
  code the record says which of these it is, `dependencies.py` 2720-2738);
  "nothing" is no context, plan or tree (`AbsentAssumption`: it is Python's
  `None`), nor a content of a path (`ContentAssumption`). The compute capability
  and the driver hint are any numbers: `validate_context` bounds them by 999,
  which the theorems do not need.
* *ModelsRoot.* Settings, answers and starting hosts have the described shape, and
  no name is both a location and a link (`RootAssumption`; a location is a path
  whose links are resolved). A name, a malformed value and the verdicts of the
  resolution differ, and so do a snapshot, an alias and nothing
  (`NameAssumption`: in the code these are values of different types, or an
  exception).

| Theorem | About |
|---|---|
| `SetupTransaction_proofs`: `TypeCorrect`, `PublishedIsWhole`, `ReplacedIsRestorable`, `SetupImplementsInstallation`, `SuccessLeavesOneGeneration`, `FailureRestores` | a published configuration describes the whole environment in place; a replaced one can be restored; no step reworks an offered environment; success leaves one generation, a failed check or publication the previous one |
| `Setup_proofs`, lease: `LeaseTypeCorrect`, `SetupExclusion`, `LeaseProtectsInference` | exclusion and stability for any number of processes |
| `Setup_proofs`, installation: `InstallTypeCorrect`, `EveryPlanIsSupported`, `NothingIsBuilt`, `RecordIsTrue`, `PreflightsAreComplete`, `InstallRefinesBuild` | for every context and host, and any number of faults and changes: the places that decide about a plan agree; a portable installation compiles nothing; the record names the operator in the tree; the preflights miss nothing but what is listed; an installation is `SetupTransaction`'s `Install` and `Build` |
| `Request_proofs`, child: `ChildTypeCorrect`, `GroupContainment`, `CompleteRuns`, `ChildImplementsInfer` | containment of the group in a call that raises, and a complete output in one that returns, for any number of signals; a call is the step `InferenceRun` takes `_run_upstream` for |
| `Request_proofs`, models directory: `RootTypeCorrect`, `ServedAsDesignated`, `SetupSufficesForRuns` | for any directories, links, settings, releases and changes: an undisturbed run works where its host means it to; a completed setup satisfies the runs that follow |
| `InferenceRun_proofs`: `RunTypeCorrect`, `PublicationIsComplete`, `DoneIsTrue`, `OneAnswer`, `FirstErrorWins`, `RunLeavesNothing` | nothing incomplete or raw becomes visible; what the host is told is true, told once and not masked; nothing hidden is left but what its own failed removal leaves |
| `AssetDownload_proofs`: `DownloadTypeCorrect`, `HonestServerInstalls`, `BoundedRequests`, `KeptProgress`, `CleanDownload`, `OnlyPinnedIsPromoted`, `DownloadImplementsEnsure` | the `.part` protocol for any size and number of attempts; a call of it is the step `Snapshot` takes `ensure_asset` for |
| `Snapshot_proofs`: `SnapshotTypeCorrect`, `EnsuredSnapshotIsExact`, `SnapshotImplementsInstallation` | the marker is over a complete snapshot that does not change |
| `TreePublication_proofs`: `PublicationTypeCorrect`, `PublishedIsDerived`, `OldOrNewAlwaysExists`, `OneExceptionRestores`, `OneErrorIsClean` | the publication protocol |
| `MetadataNormalization_proofs`: `NormalizationTypeCorrect`, `ReportsWhatWasThere`, `PublishesInOrder`, `FailuresAreClean` | inspection under interference, order of publication |

Each component has an inductive invariant, `IInv`, `LeaseInv`, `InstallInv` or
`RootInv` (at the end of the component's module, checked by TLC first), a lemma that the initial states
satisfy it, one lemma per group of actions with one step per action, and a
temporal theorem; the listed theorems follow from it. Three modules have a
second invariant on top of `IInv`: `RunInv` for what a run answers and leaves,
`EndInv` for how a setup ends, `FoundAt` for what a download changes.

Why strengthening is needed, module by module:

* *SetupTransaction.* `ConfigDescribesEnvironment` alone is not inductive:
  publishing relies on `VerifiedAt` (what is about to be published was
  verified), every step that reworks the venv on `WithdrawnAt` (there is no
  configuration then), and the four ways back on `BackupAt`, which says where
  the previous environment is while each of the local flags holds. The
  refinement follows from the invariant alone: an action changes either `config`
  or `venv`, never both, and the invariant gives the guard of the abstract
  action. For the end of a run, `CleanInv` says which names are empty at each
  label on the way to success, and `RestoreInv` where each of the three things
  of before the promotion is: in place before its move, in its backup (or known
  to have been absent) after it, in place again after its undo. It speaks only
  of runs whose single exception came from the check or the publication, which
  `cause` tells.
* *SetupLease.* The label of a process tells whether it holds the lock
  (`HoldersAt`); an exclusive holder is alone; what is offered is in place.
* *InferenceChild.* Which labels have a bound process, that a finished capture
  means that nobody holds the pipe any more, and that after the probe or the
  kill the group is empty unless one of the six steps was hit. For the
  refinement, how far the thread has come says what the log can be (`LogAt`: a
  log that exists means that nobody holds the pipe, a sanitized one a finished
  thread), and the way a label was reached
  what leaves the call (`VerdictAt`).
* *InferenceRun.* What is known of the hidden directories at each label before
  the renames that make them visible (`StagingAt`, `DiagnosticAt`), and that a
  run with a result never turns to the diagnostic (`OneOutcomeAt`). For the
  answers: no terminal record before `done`, and a handler that can tell a
  record that was tried (`AnswerInv`); no exception in the try and one in its
  handlers (`ExceptionAt`), so that "done" is reached through `complete` only
  (`ResultAt`) and `exc` is the first exception (`FirstInv`). For what is left:
  each directory is there only at labels whose way out still removes it, with
  the variable that names it set, or where a removal of it has failed
  (`NothingAt`).
* *AssetDownload.* The count in memory is the length of the `.part` file; with
  an honest server there is no wrong `.part` file in the second attempt. For the
  refinement, the asset is what the call found or the pinned one, and an entry
  of the wrong type is met before the first attempt and left as it was found
  (`FoundAt`): a call that meets one can only refuse it or be stopped.
* *Snapshot.* No marker from the first change to the inventory; nothing changes
  after it.
* *TreePublication.* A picture of the three names at each label for each kind
  of publisher, and of what one exception leaves to its handlers.
* *MetadataNormalization.* All names are hashed before any is looked at again.
  At the judgement either every name is as it was hashed, so the tree was in
  the reported state at that moment, or one is not; it never will be again, and
  the pass that follows has yet to come to it (`JudgedAt`).

* *DependencyInstall.* Five parts beside the types. `ControlAt`: which command is
  next at each label, and that a failure has a cause exactly outside the working
  labels. `OperatorAt`: what has been decided about the operator by then, and
  that one update of the inventory which is not undone still shows when the
  record is computed, which is what `RecordDescribesTree` rests on. `TreeAt`: the
  staging venv holds exactly what the first commands of the plan install, and
  from the smoke on nothing in it is wrong or broken. `UndisturbedAt`: what each
  check has established and no world has changed since, so that a late failure is
  one of `Unforeseen`. Apart from the state machine stand the lemmas about the
  plan: selection yields a coherent plan for every context (`SelectionIsCoherent`),
  the commands of a coherent plan install what is locked and nothing else
  (`CommandsInstallLock`), and its wheel key is published (`KeyIsPublished`). The
  refinement takes one lemma per step of `SetupTransaction` that an action maps
  to; only the completed verification makes the staging tree whole.
* *ModelsRoot.* `RunAt` says what an undisturbed run has compared at each label:
  after the resolution that its directory is the designated one (`DesignatedIs`, from
  the order of the six sources), later that the configuration records it, that
  its snapshot is whole and marked, and that the root is its location.
  `SettledAt` follows an undisturbed setup to the directory that the present
  settings mean, and keeps after its end what makes every guard of a run true.
  Between the two, a link and the location it leads to have to be the same
  directory in all that is looked up (`CanonicalIs`).

Only model-checked: liveness (`ServiceableHostIsServed`, `RunsAreServedAgain`,
`RepairConverges`, `EveryWaiterIsAnswered`, `CallEnds`, `RepairCompletes`,
`CallCompletes`, `UndisturbedCallCompletes`), which is out of the provers' reach,
since it needs the fairness of actions and so their `ENABLED`. Every other
property of a passing run is stated by a theorem. The two disagreements of section
3 are counterexamples and stay with TLC.

## 5. What the models abstract, and what is not modelled

* Verdicts of checks (hashes, probes, pip, validation of a request or a result)
  are sound and may fail spuriously; contents are a few values: right, wrong,
  torn, absent.
* A crash is the death of a process. The order in which a power loss would
  persist renames is not modelled, although the code syncs directories.
* Nobody but setup writes its own names: a published venv is not damaged from
  outside. `MetadataNormalization` is the exception, because there the code
  defends itself: a killed setup's pip goes on writing.
* In `Snapshot` the revision directory itself is a plain one (an alias is
  refused at once, `assets.py` 928-933), and entries of the wrong type at the
  names of its known subdirectories and of the source trees, which are replaced,
  are litter or a wrong tree. A hard link at the name of an asset is a wrong
  file, which the download replaces.
* The lock is the operating system's. Setup lock and lease branches for POSIX
  and Windows agree on what is modelled; process groups are POSIX only.
* Members of the inference child's group do not leave its session, and process
  numbers are not reused. In `SetupLease` the child stands for its whole group:
  a descendant that outlives a successful call (section 3) is not in it, and is
  not protected by the lease.
* An unchanged identity of a file (device, inode, size, times) stands for an
  unchanged content, and a file that is hashed between two equal identities is
  read in one step.
* The order of files and trees in `Snapshot` is arbitrary; the code's is sorted.
* The standard library imports and `processor.py`'s own start precede the
  lease; `run_protocol` reads its payload (`runtime.py` 2554) before it.
* In `DependencyInstall` a requirement stands for the tuple of pins it belongs
  to, so that two pins of one tuple are missing, wrong or broken together; pip
  takes the newest allowed version of what it pulls in, which is the locked one
  unless the constraints were changed. A first run is modelled: reuse of an
  environment and recovery are in `SetupTransaction`. The preflight of the
  models measures what is missing; here all of it is missing or none.
* In `ModelsRoot` the syntax of a path, its aliases and the containment of its
  components are one verdict, one REVISION_ID serves all releases, the six paths
  of `RuntimeState` are taken in one step, and the overlap of workspace and
  models directory (`runtime.py` 1465) belongs to the validation of a request.
  Setup and runs are told the same by their host. Another installation is a
  completed setup in one step: two that work in one directory at once are not
  modelled. A damaged revision directory is one that a Repair can complete (what
  it refuses instead is in `Snapshot`).

Not modelled: the sanitizing of subprocess environments,
parsing and bounds of a request, the bounded log and its redaction, the
portable overlay inside the child, the Windows termination branch, and the
build tools and workflows, which do not run in the program.

## 6. Plan

Done: the core (`SetupTransaction`, `Installation`), the lease, the child, the
run, assets and snapshot, the publication of derived trees, the metadata
correction, the install sequence from plan selection to the verified tree, and
setups and runs composed over a changing host; a proof of every safety property
that a passing run checks, among them the two refinements of `Installation`,
the one of `SetupTransaction`'s `Install` and `Build`, the one of `Snapshot`'s
`ensure_asset` and the one of `InferenceRun`'s `_run_upstream`.

Next, in this order:

1. *Two installations over one models directory*: `Snapshot` with two writers.
2. *Pure algorithms* against reference definitions in one run: the bounded log
   (`runtime.py` 1824-1857), progress clamping, the renderer fallback.
