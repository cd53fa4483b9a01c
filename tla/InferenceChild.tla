--------------------------- MODULE InferenceChild ---------------------------
(***************************************************************************)
(* _run_upstream of runtime.py: one inference child in its own session, the *)
(* thread that drains its output into the log, cancellation by signals and   *)
(* termination of the whole process group (POSIX).                         *)
(*                                                                         *)
(* A label of pc stands for the code up to its next effect on another       *)
(* process, on the signal handlers or on a local variable.  Python runs a   *)
(* signal handler between two bytecodes of the main thread, so a signal may *)
(* raise at any label, before the effect of the label.                      *)
(***************************************************************************)
EXTENDS Naturals, FiniteSets

CONSTANT MaxSignals  \* bound: signals sent to the process
ASSUME SignalAssumption == MaxSignals \in Nat

Members == {"leader", "worker"}   \* the child and what it may start itself

VARIABLES
  pc,         \* the next effect of _run_upstream, or how it ended
  handler,    \* disposition of SIGTERM: the default or _ChildCancellation
  bound,      \* Popen has returned: the local variable process is not None
  spawned,    \* the child was forked
  alive,      \* the members of the child's process group that run
  holding,    \* those of them that hold the write end of the output pipe
  reaped,     \* the leader's exit status was collected (poll, wait)
  status,     \* the exit status of the leader
  stubborn,   \* members that do not end on SIGTERM
  capture,    \* the output thread
  log,        \* upstream.log: none, as the thread wrote it, or sanitized
  failed,     \* ProtocolEmitter: the channel has failed
  exc,        \* the exception that leaves the call, or "none"
  signals,    \* signals sent so far
  cut         \* history: the labels at which a signal raised

osVars == <<spawned, alive, holding, status, stubborn>>
callVars == <<failed, exc, signals, cut>>
vars == <<pc, handler, bound, osVars, reaped, capture, log, callVars>>

Body == {"install", "spawn", "bind", "capture", "poll", "join", "status", "log"}
Unwinding == {"term", "wait", "probe", "kill", "reap", "drain"}
Ended == {"returned", "raised", "dead"}
Labels == Body \cup Unwinding \cup {"restore", "restore_raise"} \cup Ended

Running == pc \notin Ended

(* The except clause: terminate the group if there is a process.           *)
HandlerOf(label) ==
  CASE label \in Body -> IF bound THEN "term" ELSE "restore_raise"
    [] label \in Unwinding -> "restore_raise"
    [] OTHER -> "raised"

GoTo(next) == pc' = next /\ UNCHANGED <<log, callVars>>

(* The log of a child that has failed or is done is being sanitized.        *)
Sanitizing == pc = "log" \/ (pc = "status" /\ status # "ok")

(* The except clause makes a ProcessFailure of whatever the try raises; what  *)
(* is raised in it or in the finally clause takes its place.  The channel or *)
(* the log may have been reached by then.                                  *)
Raise ==
  /\ pc' = HandlerOf(pc)
  /\ exc' = IF pc \in Body THEN "INFERENCE_FAILED" ELSE "Interrupt"
  /\ failed' \in IF Sanitizing \/ pc = "poll" THEN {failed, TRUE} ELSE {failed}
  /\ log' \in IF Sanitizing THEN {log, "clean"} ELSE {log}

-----------------------------------------------------------------------------
(* The main thread                                                         *)

(* _install_child_cancel_handlers                                          *)
InstallHandlers ==
  /\ pc = "install"
  /\ handler' = "cancel"
  /\ GoTo("spawn")
  /\ UNCHANGED <<bound, osVars, reaped, capture>>

(* Popen forks, and the child starts a session and a group of its own.      *)
Spawn ==
  /\ pc = "spawn"
  /\ spawned' = TRUE
  /\ alive' = {"leader"}
  /\ holding' = {"leader"}
  /\ GoTo("bind")
  /\ UNCHANGED <<handler, bound, reaped, status, stubborn, capture>>

(* Popen returns and its result is assigned.                               *)
Bind ==
  /\ pc = "bind"
  /\ bound' = TRUE
  /\ GoTo("capture")
  /\ UNCHANGED <<handler, osVars, reaped, capture>>

StartCapture ==
  /\ pc = "capture"
  /\ capture' = "running"
  /\ GoTo("poll")
  /\ UNCHANGED <<handler, bound, osVars, reaped>>

(* process.poll() finds that the leader has ended.                          *)
PollEnded ==
  /\ pc = "poll"
  /\ "leader" \notin alive
  /\ reaped' = TRUE
  /\ GoTo("join")
  /\ UNCHANGED <<handler, bound, osVars, capture>>

(* capture.join(timeout=30): the thread has ended.                         *)
Joined ==
  /\ pc = "join"
  /\ capture # "running"
  /\ IF capture = "done" THEN GoTo("status") ELSE Raise /\ UNCHANGED <<signals, cut>>
  /\ UNCHANGED <<handler, bound, osVars, reaped, capture>>

(* Mutant: the thread is joined without a timeout.                         *)
JoinForever ==
  /\ pc = "join"
  /\ capture # "running"
  /\ Raise
  /\ UNCHANGED <<signals, cut>>
  /\ UNCHANGED <<handler, bound, osVars, reaped, capture>>

(* It is still draining after thirty seconds.                              *)
JoinTimesOut ==
  /\ pc = "join"
  /\ capture = "running"
  /\ Raise
  /\ UNCHANGED <<signals, cut>>
  /\ UNCHANGED <<handler, bound, osVars, reaped, capture>>

(* A non-zero exit status is INFERENCE_FAILED.                             *)
CheckStatus ==
  /\ pc = "status"
  /\ IF status = "ok" THEN GoTo("log") ELSE Raise /\ UNCHANGED <<signals, cut>>
  /\ UNCHANGED <<handler, bound, osVars, reaped, capture>>

(* Mutant: the log of a child that succeeded keeps its paths.               *)
RecordOnly ==
  /\ pc = "log"
  /\ GoTo("restore")
  /\ UNCHANGED <<handler, bound, osVars, reaped, capture>>

RecordAndSanitize ==
  /\ pc = "log"
  /\ log' = "clean"
  /\ pc' = "restore"
  /\ UNCHANGED <<handler, bound, osVars, reaped, capture, callVars>>

(* Popen, the emitter, the log checks and the log writers raise by          *)
(* themselves: no executable, a closed protocol channel, a full disk.       *)
Fails ==
  /\ pc \in {"spawn", "capture", "poll", "join", "log"}
  /\ Raise
  /\ UNCHANGED <<signals, cut>>
  /\ UNCHANGED <<handler, bound, osVars, reaped, capture>>

(* _terminate_process_group                                                *)
SendTerm ==
  /\ pc = "term"
  /\ alive' = alive \cap stubborn
  /\ holding' = holding \cap stubborn
  /\ status' = IF "leader" \in alive \ stubborn THEN "error" ELSE status
  /\ GoTo("wait")
  /\ UNCHANGED <<handler, bound, spawned, reaped, stubborn, capture>>

(* _wait_for_child: the leader has ended, or ten seconds have passed.       *)
WaitTen ==
  /\ pc = "wait"
  /\ reaped' = (reaped \/ "leader" \notin alive)
  /\ GoTo("probe")
  /\ UNCHANGED <<handler, bound, osVars, capture>>

(* killpg(pid, 0) finds a member, or the leader that was not yet reaped.    *)
GroupAlive == alive # {} \/ ~reaped

(* Mutant: only the leader decides whether the group is killed.             *)
ProbeLeaderOnly ==
  /\ pc = "probe"
  /\ GoTo(IF ~reaped THEN "kill" ELSE "reap")
  /\ UNCHANGED <<handler, bound, osVars, reaped, capture>>

Probe ==
  /\ pc = "probe"
  /\ GoTo(IF GroupAlive THEN "kill" ELSE "reap")
  /\ UNCHANGED <<handler, bound, osVars, reaped, capture>>

SendKill ==
  /\ pc = "kill"
  /\ alive' = {}
  /\ holding' = {}
  /\ status' = IF "leader" \in alive THEN "error" ELSE status
  /\ GoTo("reap")
  /\ UNCHANGED <<handler, bound, spawned, reaped, stubborn, capture>>

WaitFive ==
  /\ pc = "reap"
  /\ reaped' = (reaped \/ "leader" \notin alive)
  /\ GoTo("drain")
  /\ UNCHANGED <<handler, bound, osVars, capture>>

(* capture.join(timeout=5), whatever its outcome.                          *)
Drain ==
  /\ pc = "drain"
  /\ GoTo("restore_raise")
  /\ UNCHANGED <<handler, bound, osVars, reaped, capture>>

(* The finally clause, on the way to the return or of the exception.        *)
RestoreHandlers ==
  /\ pc \in {"restore", "restore_raise"}
  /\ handler' = "default"
  /\ GoTo(IF pc = "restore" THEN "returned" ELSE "raised")
  /\ UNCHANGED <<bound, osVars, reaped, capture>>

Main ==
  \/ InstallHandlers \/ Spawn \/ Bind \/ StartCapture \/ PollEnded
  \/ Joined \/ JoinTimesOut \/ CheckStatus \/ RecordAndSanitize
  \/ SendTerm \/ WaitTen \/ Probe \/ SendKill \/ WaitFive \/ Drain
  \/ RestoreHandlers

-----------------------------------------------------------------------------
(* Signals: KeyboardInterrupt or _ChildCancellation in the main thread, or  *)
(* the end of the process.                                                 *)
SignalRaises ==
  /\ Running
  /\ signals < MaxSignals
  /\ signals' = signals + 1
  /\ cut' = cut \cup {pc}
  /\ Raise
  /\ UNCHANGED <<handler, bound, osVars, reaped, capture>>

(* _wait_for_child catches what is raised inside process.wait.              *)
InterruptsWait ==
  /\ pc \in {"wait", "reap"}
  /\ signals < MaxSignals
  /\ signals' = signals + 1
  /\ reaped' = (reaped \/ "leader" \notin alive)
  /\ pc' = IF pc = "wait" THEN "probe" ELSE "drain"
  /\ UNCHANGED <<handler, bound, osVars, capture, log, failed, exc, cut>>

TerminatesProcess ==
  /\ Running
  /\ handler = "default"
  /\ signals < MaxSignals
  /\ signals' = signals + 1
  /\ pc' = "dead"
  /\ UNCHANGED <<handler, bound, osVars, reaped, capture, log, failed, exc, cut>>

(* SIGKILL, or the end of the machine: no handler is asked.                 *)
Killed ==
  /\ Running
  /\ GoTo("dead")
  /\ UNCHANGED <<handler, bound, osVars, reaped, capture>>

-----------------------------------------------------------------------------
(* The child's group and the output thread                                 *)

(* A descendant has the output of the leader, or is started with another.   *)
StartWorker ==
  /\ "leader" \in alive
  /\ "worker" \notin alive
  /\ alive' = Members
  /\ holding' \in {holding, IF "leader" \in holding THEN Members ELSE holding}
  /\ UNCHANGED <<pc, handler, bound, spawned, reaped, status, stubborn, capture, log,
                 callVars>>

(* A member closes its output, or redirects it, and runs on.                *)
LetsGo(m) ==
  /\ m \in holding
  /\ holding' = holding \ {m}
  /\ UNCHANGED <<pc, handler, bound, spawned, alive, reaped, status, stubborn, capture,
                 log, callVars>>

LeaderEnds ==
  /\ "leader" \in alive
  /\ alive' = alive \ {"leader"}
  /\ holding' = holding \ {"leader"}
  /\ status' \in {"ok", "error"}
  /\ UNCHANGED <<pc, handler, bound, spawned, reaped, stubborn, capture, log, callVars>>

WorkerEnds ==
  /\ "worker" \in alive
  /\ alive' = alive \ {"worker"}
  /\ holding' = holding \ {"worker"}
  /\ UNCHANGED <<pc, handler, bound, spawned, reaped, status, stubborn, capture, log,
                 callVars>>

(* Mutant: the thread does not read to the end of the pipe.                 *)
CaptureOpensEarly ==
  /\ capture = "running"
  /\ log = "none"
  /\ log' = "raw"
  /\ UNCHANGED <<pc, handler, bound, osVars, reaped, capture, callVars>>

(* The pipe ends when nobody holds its write end any more, whoever runs; only *)
(* then is the log made ...                                                *)
CaptureOpens ==
  /\ capture = "running"
  /\ holding = {}
  /\ log = "none"
  /\ log' = "raw"
  /\ UNCHANGED <<pc, handler, bound, osVars, reaped, capture, callVars>>

(* ... and written.                                                        *)
CaptureEnds ==
  /\ capture = "running"
  /\ log = "raw"
  /\ capture' = "done"
  /\ UNCHANGED <<pc, handler, bound, osVars, reaped, log, callVars>>

(* Whatever the thread raises is kept in its result.                       *)
CaptureFails ==
  /\ capture = "running"
  /\ capture' = "error"
  /\ UNCHANGED <<pc, handler, bound, osVars, reaped, log, callVars>>

Next ==
  \/ Main \/ Fails \/ SignalRaises \/ InterruptsWait \/ TerminatesProcess \/ Killed
  \/ StartWorker \/ LeaderEnds \/ WorkerEnds \/ (\E m \in Members : LetsGo(m))
  \/ CaptureOpens \/ CaptureEnds \/ CaptureFails

Init ==
  /\ pc = "install"
  /\ handler = "default"
  /\ bound = FALSE
  /\ spawned = FALSE
  /\ alive = {}
  /\ holding = {}
  /\ reaped = FALSE
  /\ status = "none"
  /\ stubborn \in SUBSET Members
  /\ capture = "none"
  /\ log = "none"
  /\ failed = FALSE
  /\ exc = "none"
  /\ signals = 0
  /\ cut = {}

Spec == Init /\ [][Next]_vars

(* The interpreter runs the main thread, and every wait in it has a timeout.*)
FairSpec == Spec /\ WF_vars(Main)

-----------------------------------------------------------------------------
(* Properties                                                              *)

(* Every variable has its type.                                            *)
TypeOK ==
  /\ pc \in Labels
  /\ handler \in {"default", "cancel"}
  /\ bound \in BOOLEAN
  /\ spawned \in BOOLEAN
  /\ alive \subseteq Members
  /\ holding \subseteq alive
  /\ reaped \in BOOLEAN
  /\ status \in {"none", "ok", "error"}
  /\ stubborn \subseteq Members
  /\ capture \in {"none", "running", "done", "error"}
  /\ log \in {"none", "raw", "clean"}
  /\ failed \in BOOLEAN
  /\ exc \in {"none", "INFERENCE_FAILED", "Interrupt"}
  /\ signals \in 0..MaxSignals
  /\ cut \subseteq Labels

(* Where a signal takes the group out of the reach of the except clause: in *)
(* the middle of Popen, between the steps of the termination ("wait" is the  *)
(* way into process.wait, InterruptsWait is the wait itself), and in the      *)
(* finally clause after a run that succeeded.                              *)
Unprotected == {"bind", "term", "wait", "probe", "kill", "restore"}

(* When _run_upstream raises, nothing of the child's group runs any more,    *)
(* whatever its members ignore, wherever their output goes and whatever      *)
(* failed, unless a signal hit one of the unprotected labels.  (When it       *)
(* returns nothing was terminated: ReturnMeansCompleteRun.)                 *)
GroupEndsWithCall ==
  pc = "raised" /\ cut \cap Unprotected = {} => alive = {}

(* A renderer is reported only for a child that has exited with status 0 and *)
(* whose whole output was captured: nobody is left that could write more of  *)
(* it.  A descendant that has redirected its output may still run then, since *)
(* no signal is sent on this path (runtime.py:2170-2214).                   *)
ReturnMeansCompleteRun ==
  pc = "returned" =>
    status = "ok" /\ "leader" \notin alive /\ capture = "done" /\ holding = {}

(* A child that has ended is noticed, although a descendant may still hold  *)
(* the pipe; and once an exception unwinds, a member that ignores SIGTERM    *)
(* cannot keep the call from ending.                                       *)
CallEnds ==
  pc \in Unwinding \/ (spawned /\ "leader" \notin alive) ~> pc \in Ended

(* For handle_request the call is one step, with a verdict, a log and an     *)
(* output thread that may outlive it: until it ends nothing has happened.   *)
Verdict == pc \in {"returned", "raised"}
Hidden == [log |-> IF Running THEN "none" ELSE log, glb |-> "none", meta |-> "none",
           there |-> TRUE]
Upstream == INSTANCE InferenceRun WITH
  pc <- IF Running THEN "infer" ELSE IF pc = "returned" THEN "select"
        ELSE IF pc = "raised" THEN "except" ELSE "killed",
  exc <- IF Verdict THEN exc ELSE "none",
  staging <- Hidden,
  capture <- IF ~Verdict \/ capture # "running" THEN "none"
             ELSE IF log = "none" THEN "late" ELSE "writing",
  failed <- Verdict /\ failed,
  cause <- IF Verdict /\ exc # "none" THEN [exc |-> exc, step |-> "infer"]
           ELSE [exc |-> "none", step |-> "import"],
  cut <- IF Verdict /\ cut # {} THEN {"infer"} ELSE {},
  temp <- "named", named <- TRUE, kept <- {}, terminal <- FALSE, sent <- <<>>,
  part <- "none", final <- "none", diag <- "none"

InferStep ==
  Upstream!Infer \/ Upstream!InferFails \/ Upstream!InferInterrupted \/ Upstream!InferKilled

(* The steps of a call are those that InferenceRun takes _run_upstream for:  *)
(* it returns with a sanitized log only; without a signal it raises nothing  *)
(* but INFERENCE_FAILED; a thread that is still at work has not made the log *)
(* or is writing it, never one that was sanitized; and nobody is told of a   *)
(* result over a channel that has failed.                                  *)
InfersAsAssumed == [][Running => InferStep]_(Upstream!vars)

-----------------------------------------------------------------------------
(* The inductive invariant.                                                *)
SpawnedAt ==
  /\ pc \in {"install", "spawn"} => ~spawned
  /\ pc = "bind" => spawned
  /\ pc \in {"install", "spawn", "bind"} => ~bound
  /\ pc \in (Body \ {"install", "spawn", "bind"}) \cup Unwinding => bound
  /\ bound => spawned
  /\ ~spawned => alive = {}
  /\ pc \in {"join", "status", "log", "restore", "returned"} => "leader" \notin alive
CaptureAt ==
  /\ pc \in {"install", "spawn", "bind", "capture"} => capture = "none"
  /\ capture # "none" => spawned
  /\ pc \in {"status", "log", "restore", "returned"} => capture = "done"
  /\ pc \in {"log", "restore", "returned"} => status = "ok"
GroupAt ==
  /\ pc \in {"reap", "drain"} => alive = {}
  /\ pc \in {"restore_raise", "raised"} /\ cut \cap Unprotected = {} => alive = {}

LogAt ==
  /\ capture = "none" => log = "none"
  /\ capture = "done" => log # "none"
  /\ log = "clean" => capture = "done"
  /\ log # "none" => spawned /\ holding = {}
  /\ pc \in {"restore", "returned"} => log = "clean"
VerdictAt ==
  /\ pc \in Body \cup {"restore", "returned"} => exc = "none" /\ ~failed /\ cut = {}
  /\ pc \in Unwinding \cup {"restore_raise", "raised"} => exc # "none"
  /\ exc = "Interrupt" => cut # {}

IInv == TypeOK /\ SpawnedAt /\ CaptureAt /\ GroupAt /\ LogAt /\ VerdictAt
=============================================================================
