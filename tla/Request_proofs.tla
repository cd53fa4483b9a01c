--------------------------- MODULE Request_proofs ---------------------------
(***************************************************************************)
(* Proofs for the two things a request of the extension rests on: the child *)
(* process that does the work (InferenceChild, for any number of signals)   *)
(* and the models directory that its request is validated against           *)
(* (ModelsRoot, for any directories, links, settings, releases and changes). *)
(***************************************************************************)
EXTENDS InferenceChild, ModelsRoot, FiniteSetTheorems, TLAPS

-----------------------------------------------------------------------------
(* InferenceChild.  GroupEndsWithCall and ReturnMeansCompleteRun are not     *)
(* inductive: IInv says what is known of the group and of the output thread  *)
(* at each label on the way to the end.                                     *)

LEMMA InitInvariant == Init => IInv
  <1> SUFFICES ASSUME Init PROVE IInv
    OBVIOUS
  <1> USE DEF Init
  <1>1. TypeOK
    <2>1. pc \in Labels
      BY DEF Labels, Body
    <2>2. signals \in 0..MaxSignals
      BY SignalAssumption
    <2>3. alive \subseteq Members /\ holding \subseteq alive /\ cut \subseteq Labels
      OBVIOUS
    <2>4. bound \in BOOLEAN /\ spawned \in BOOLEAN /\ reaped \in BOOLEAN
      OBVIOUS
    <2>5. handler \in {"default", "cancel"} /\ status \in {"none", "ok", "error"}
      OBVIOUS
    <2>6. capture \in {"none", "running", "done", "error"} /\ stubborn \subseteq Members
      OBVIOUS
    <2>7. /\ log \in {"none", "raw", "clean"} /\ failed \in BOOLEAN
          /\ exc \in {"none", "INFERENCE_FAILED", "Interrupt"}
      OBVIOUS
    <2> QED
      BY <2>1, <2>2, <2>3, <2>4, <2>5, <2>6, <2>7 DEF TypeOK
  <1>2. SpawnedAt
    <2>1. /\ pc \notin (Body \ {"install", "spawn", "bind"}) \cup Unwinding
          /\ pc \notin {"join", "status", "log", "restore", "returned"}
      BY DEF Body, Unwinding
    <2> QED
      BY <2>1 DEF SpawnedAt
  <1>3. CaptureAt
    BY DEF CaptureAt
  <1>4. GroupAt /\ LogAt
    BY DEF GroupAt, LogAt
  <1>5. VerdictAt
    BY DEF VerdictAt, Unwinding
  <1> QED
    BY <1>1, <1>2, <1>3, <1>4, <1>5 DEF IInv

-----------------------------------------------------------------------------
(* Up to the end of the child: signals may come, none has been handled.      *)
LEMMA StartInvariant ==
  ASSUME IInv, InstallHandlers \/ Spawn \/ Bind \/ StartCapture \/ PollEnded
  PROVE  IInv'
  <1> USE DEF IInv, TypeOK, SpawnedAt, CaptureAt, GroupAt, LogAt, VerdictAt, Labels,
              Body, Unwinding, Ended, Members, Unprotected, GoTo, osVars, callVars
  <1>1. CASE InstallHandlers
    BY <1>1 DEF InstallHandlers
  <1>2. CASE Spawn
    <2>1. TypeOK'
      BY <1>2 DEF Spawn
    <2>2. SpawnedAt'
      BY <1>2 DEF Spawn
    <2>3. CaptureAt'
      BY <1>2 DEF Spawn
    <2>4. GroupAt'
      BY <1>2 DEF Spawn
    <2>5. LogAt' /\ VerdictAt'
      BY <1>2 DEF Spawn
    <2> QED
      BY <2>1, <2>2, <2>3, <2>4, <2>5
  <1>3. CASE Bind
    BY <1>3 DEF Bind
  <1>4. CASE StartCapture
    BY <1>4 DEF StartCapture
  <1>5. CASE PollEnded
    BY <1>5 DEF PollEnded
  <1> QED
    BY <1>1, <1>2, <1>3, <1>4, <1>5

(* The checks after the end of the child.                                   *)
LEMMA CheckInvariant ==
  ASSUME IInv, Joined \/ JoinTimesOut \/ CheckStatus \/ RecordAndSanitize \/ Fails
  PROVE  IInv'
  <1> USE DEF IInv, TypeOK, SpawnedAt, CaptureAt, GroupAt, LogAt, VerdictAt, Labels,
              Body, Unwinding, Ended, Members, Unprotected, GoTo, osVars, callVars, HandlerOf,
              Raise, Sanitizing
  <1>1. CASE Joined
    BY <1>1 DEF Joined
  <1>2. CASE JoinTimesOut
    BY <1>2 DEF JoinTimesOut
  <1>3. CASE CheckStatus
    BY <1>3 DEF CheckStatus
  <1>4. CASE RecordAndSanitize
    BY <1>4 DEF RecordAndSanitize
  <1>5. CASE Fails
    BY <1>5 DEF Fails
  <1> QED
    BY <1>1, <1>2, <1>3, <1>4, <1>5

(* The termination of the group: killpg(pid, 0) sees every member that runs. *)
LEMMA TerminationInvariant ==
  ASSUME IInv,
         SendTerm \/ WaitTen \/ Probe \/ SendKill \/ WaitFive \/ Drain \/ RestoreHandlers
  PROVE  IInv'
  <1> USE DEF IInv, TypeOK, SpawnedAt, CaptureAt, GroupAt, LogAt, VerdictAt, Labels,
              Body, Unwinding, Ended, Members, Unprotected, GoTo, osVars, callVars
  <1>1. CASE SendTerm
    BY <1>1 DEF SendTerm
  <1>2. CASE WaitTen
    BY <1>2 DEF WaitTen
  <1>3. CASE Probe
    BY <1>3 DEF Probe, GroupAlive
  <1>4. CASE SendKill
    BY <1>4 DEF SendKill
  <1>5. CASE WaitFive
    BY <1>5 DEF WaitFive
  <1>6. CASE Drain
    BY <1>6 DEF Drain
  <1>7. CASE RestoreHandlers
    BY <1>7 DEF RestoreHandlers
  <1> QED
    BY <1>1, <1>2, <1>3, <1>4, <1>5, <1>6, <1>7

(* A signal at any label.                                                   *)
LEMMA SignalInvariant ==
  ASSUME IInv, SignalRaises \/ InterruptsWait \/ TerminatesProcess \/ Killed
  PROVE  IInv'
  <1> USE SignalAssumption
      DEF IInv, TypeOK, SpawnedAt, CaptureAt, GroupAt, LogAt, VerdictAt, Labels,
          Body, Unwinding, Ended, Members, Unprotected, Running, GoTo, osVars, callVars
  <1>1. CASE SignalRaises
    <2> USE <1>1 DEF SignalRaises, Raise, Sanitizing
    <2>1. pc' \in {"term", "restore_raise", "raised"}
      BY DEF HandlerOf
    <2>2. TypeOK'
      <3>1. pc' \in Labels /\ signals' \in 0..MaxSignals /\ cut' \subseteq Labels
        BY <2>1
      <3>2. /\ log' \in {"none", "raw", "clean"}
            /\ exc' \in {"none", "INFERENCE_FAILED", "Interrupt"}
        OBVIOUS
      <3>3. failed' \in BOOLEAN
        OBVIOUS
      <3> QED
        BY <3>1, <3>2, <3>3
    <2>3. SpawnedAt'
      BY DEF HandlerOf
    <2>4. CaptureAt'
      BY <2>1
    <2>5. GroupAt'
      BY DEF HandlerOf
    <2>6. LogAt'
      BY <2>1
    <2>7. VerdictAt'
      BY <2>1
    <2> QED
      BY <2>2, <2>3, <2>4, <2>5, <2>6, <2>7
  <1>2. CASE InterruptsWait
    BY <1>2 DEF InterruptsWait
  <1>3. CASE TerminatesProcess
    BY <1>3 DEF TerminatesProcess
  <1>4. CASE Killed
    BY <1>4 DEF Killed
  <1> QED
    BY <1>1, <1>2, <1>3, <1>4

(* The child, what it started, and the output thread.  The pipe ends only   *)
(* when nobody holds its write end, and only who holds it passes it on.      *)
LEMMA ChildInvariant ==
  ASSUME IInv, \/ StartWorker \/ LeaderEnds \/ WorkerEnds \/ \E m \in Members : LetsGo(m)
               \/ CaptureOpens \/ CaptureEnds \/ CaptureFails
  PROVE  IInv'
  <1> USE DEF IInv, TypeOK, SpawnedAt, CaptureAt, GroupAt, LogAt, VerdictAt, Labels,
              Body, Unwinding, Ended, Members, Unprotected, osVars, callVars
  <1>1. CASE StartWorker
    BY <1>1 DEF StartWorker
  <1>2. CASE LeaderEnds
    BY <1>2 DEF LeaderEnds
  <1>3. CASE WorkerEnds
    BY <1>3 DEF WorkerEnds
  <1>4. CASE CaptureEnds
    BY <1>4 DEF CaptureEnds
  <1>5. CASE CaptureFails
    BY <1>5 DEF CaptureFails
  <1>6. CASE CaptureOpens
    BY <1>6 DEF CaptureOpens
  <1>7. ASSUME NEW m \in Members, LetsGo(m) PROVE IInv'
    BY <1>7 DEF LetsGo
  <1> QED
    BY <1>1, <1>2, <1>3, <1>4, <1>5, <1>6, <1>7

LEMMA NextInvariant == IInv /\ [Next]_vars => IInv'
  <1> SUFFICES ASSUME IInv, [Next]_vars PROVE IInv'
    OBVIOUS
  <1>1. CASE Main
    BY <1>1, StartInvariant, CheckInvariant, TerminationInvariant DEF Main
  <1>2. CASE Fails
    BY <1>2, CheckInvariant
  <1>3. CASE SignalRaises \/ InterruptsWait \/ TerminatesProcess \/ Killed
    BY <1>3, SignalInvariant
  <1>4. CASE \/ StartWorker \/ LeaderEnds \/ WorkerEnds \/ \E m \in Members : LetsGo(m)
            \/ CaptureOpens \/ CaptureEnds \/ CaptureFails
    BY <1>4, ChildInvariant
  <1>5. CASE UNCHANGED vars
    BY <1>5 DEF vars, osVars, callVars, IInv, TypeOK, SpawnedAt, CaptureAt, GroupAt,
       LogAt, VerdictAt
  <1> QED
    BY <1>1, <1>2, <1>3, <1>4, <1>5 DEF Next

LEMMA Invariant == Spec => []IInv
  BY InitInvariant, NextInvariant, PTL DEF Spec

-----------------------------------------------------------------------------
(* Every variable has its type, however many signals arrive.                *)
THEOREM ChildTypeCorrect == Spec => []TypeOK
  <1>1. IInv => TypeOK
    BY DEF IInv
  <1> QED
    BY <1>1, Invariant, PTL

(* _run_upstream leaves no member of the child's group running when it       *)
(* raises, wherever the output of a member goes, unless a signal hit one of   *)
(* the unprotected labels.                                                 *)
THEOREM GroupContainment == Spec => []GroupEndsWithCall
  <1>1. IInv => GroupEndsWithCall
    BY DEF IInv, GroupAt, GroupEndsWithCall
  <1> QED
    BY <1>1, Invariant, PTL

(* _run_upstream returns a renderer only for a child that has exited with 0   *)
(* and whose whole output was captured; a descendant that redirected its      *)
(* output may outlive the call.                                            *)
THEOREM CompleteRuns == Spec => []ReturnMeansCompleteRun
  <1>1. IInv => ReturnMeansCompleteRun
    BY DEF IInv, SpawnedAt, CaptureAt, LogAt, ReturnMeansCompleteRun
  <1> QED
    BY <1>1, Invariant, PTL

-----------------------------------------------------------------------------
(* For handle_request a call is one step.  How it ended tells what is known   *)
(* of the log, the thread, the channel and the exception.                   *)

(* Only the log of the hidden directory changes.                            *)
LEMMA WithLog ==
  ASSUME NEW d \in Upstream!Directories, NEW e \in Upstream!Directories,
         e.glb = d.glb, e.meta = d.meta, e.there = d.there
  PROVE  e = [d EXCEPT !.log = e.log]
  BY DEF Upstream!Directories

LEMMA HiddenLog ==
  ASSUME TypeOK, TypeOK', Running, ~Running'
  PROVE  Hidden' = [Hidden EXCEPT !.log = log']
  <1>1. Hidden \in Upstream!Directories /\ Hidden' \in Upstream!Directories
    BY DEF TypeOK, Hidden, Upstream!Directories
  <1>2. /\ Hidden'.glb = Hidden.glb /\ Hidden'.meta = Hidden.meta
        /\ Hidden'.there = Hidden.there /\ Hidden'.log = log'
    BY DEF Hidden
  <1> QED
    BY <1>1, <1>2, WithLog

(* A step of a running call that does not end it shows nothing; one that     *)
(* ends it is the return, one of the two ways to raise, or a kill.          *)
LEMMA EndsAsAssumed ==
  ASSUME IInv, IInv', [Next]_vars, Running
  PROVE  InferStep \/ UNCHANGED Upstream!vars
  <1>0. TypeOK /\ TypeOK' /\ CaptureAt' /\ LogAt' /\ VerdictAt'
    BY DEF IInv
  <1>1. CASE Running'
    BY <1>1 DEF Running, Verdict, Ended, Hidden, Upstream!vars, Upstream!fileVars,
       Upstream!emitterVars
  <1>2. CASE ~Running'
    <2>1. Hidden' = [Hidden EXCEPT !.log = log']
      BY <1>0, <1>2, HiddenLog
    <2>2. pc' \in {"returned", "raised", "dead"} /\ log' \in {"none", "raw", "clean"}
      BY <1>0, <1>2 DEF TypeOK, Running, Ended
    <2>3. CASE pc' = "returned"
      <3>1. log' = "clean" /\ capture' = "done" /\ exc' = "none" /\ ~failed' /\ cut' = {}
        BY <1>0, <2>3 DEF CaptureAt, LogAt, VerdictAt
      <3> QED
        BY <2>1, <2>3, <3>1 DEF InferStep, Running, Verdict, Ended, Upstream!Infer,
           Upstream!Proceed, Upstream!emitterVars
    <2>4. CASE pc' = "raised"
      <3>1. exc' \in {"INFERENCE_FAILED", "Interrupt"}
        BY <1>0, <2>4 DEF TypeOK, VerdictAt
      <3>2. Upstream!Raise(exc')
        <4>1. Upstream!Catcher("infer") = "except"
          BY DEF Upstream!Catcher, Upstream!Guarded, Upstream!Removing, Upstream!Diagnosing
        <4> QED
          BY <2>4, <3>1, <4>1 DEF Upstream!Raise, Running, Verdict, Ended
      <3>3. (IF ~Verdict \/ capture # "running" THEN "none"
             ELSE IF log = "none" THEN "late" ELSE "writing")' \in
              CASE log' = "none" -> {"none", "late"}
                [] log' = "raw" -> {"none", "writing"}
                [] OTHER -> {"none"}
        BY <1>0, <2>2, <2>4 DEF LogAt, Verdict
      <3>4. Upstream!InferRaises(exc')
        BY <2>1, <2>2, <2>4, <3>2, <3>3 DEF Running, Verdict, Ended, Upstream!InferRaises
      <3>5. CASE cut' = {}
        <4>1. exc' = "INFERENCE_FAILED"
          BY <1>0, <3>1, <3>5 DEF VerdictAt
        <4> QED
          BY <2>4, <3>4, <3>5, <4>1 DEF InferStep, Upstream!InferFails, Running, Verdict, Ended
      <3>6. CASE cut' # {}
        BY <2>4, <3>1, <3>4, <3>6
           DEF InferStep, Upstream!InferInterrupted, Running, Verdict, Ended
      <3> QED
        BY <3>5, <3>6
    <2>5. CASE pc' = "dead"
      BY <2>1, <2>2, <2>5 DEF InferStep, Running, Verdict, Ended, Upstream!InferKilled,
         Upstream!Proceed, Upstream!emitterVars
    <2> QED
      BY <2>2, <2>3, <2>4, <2>5
  <1> QED
    BY <1>1, <1>2

(* _run_upstream does what handle_request takes it for: InferenceRun's steps *)
(* Infer, InferFails, InferInterrupted and InferKilled, for any number of     *)
(* signals and any stubborn members.                                       *)
THEOREM ChildImplementsInfer == Spec => InfersAsAssumed
  <1>1. IInv /\ IInv' /\ [Next]_vars => [Running => InferStep]_(Upstream!vars)
    BY EndsAsAssumed
  <1> QED
    BY <1>1, Invariant, PTL DEF Spec, InfersAsAssumed

-----------------------------------------------------------------------------
(* ModelsRoot.  RootInv says what an undisturbed run has found out at each   *)
(* label, and what an undisturbed setup has reached and then leaves.  First  *)
(* the settings: what they mean, and which of them decides.                 *)

(* The directory that is meant depends on the world only.                   *)
LEMMA FoundStable ==
  ASSUME UNCHANGED world
  PROVE  Found' = Found
  BY DEF world, Found, Resolve, Sources, Candidate, Answered, Conventional, Native, IsDir,
     Canonical

(* What the settings under two keys mean.                                   *)
LEMMA CandidateIs ==
  ASSUME NEW a, NEW b
  PROVE  Candidate({a, b}) = IF a = Absent THEN IF b = Absent THEN Absent ELSE Native(b)
                            ELSE IF b = Absent \/ a = b THEN Native(a) ELSE Unusable
  <1> DEFINE declared == {a, b} \ {Absent}
  <1>1. CASE a = Absent /\ b = Absent
    BY <1>1 DEF Candidate
  <1>2. ASSUME NEW d, declared = {d}, d # Absent PROVE Candidate({a, b}) = Native(d)
    <2>1. Cardinality(declared) = 1 /\ (CHOOSE e \in declared : TRUE) = d
      BY <1>2, FS_Singleton
    <2> QED
      BY <1>2, <2>1 DEF Candidate
  <1>3. CASE a = Absent /\ b # Absent
    BY <1>3, <1>2
  <1>4. CASE a # Absent /\ (b = Absent \/ a = b)
    BY <1>4, <1>2
  <1>5. CASE a # Absent /\ b # Absent /\ a # b
    <2>1. declared = {a, b} /\ declared # {}
      BY <1>5
    <2>2. IsFiniteSet(declared)
      <3>1. IsFiniteSet({a}) /\ IsFiniteSet({b})
        BY FS_Singleton
      <3>2. IsFiniteSet({a} \cup {b})
        BY <3>1, FS_Union
      <3>3. declared = {a} \cup {b}
        BY <2>1
      <3> QED
        BY <3>2, <3>3, Zenon
    <2>3. Cardinality(declared) # 1
      BY <1>5, <2>1, <2>2, FS_Singleton
    <2> QED
      BY <1>5, <2>1, <2>3 DEF Candidate
  <1> QED
    BY <1>1, <1>3, <1>4, <1>5

(* A single setting.                                                        *)
LEMMA SettingIs ==
  ASSUME NEW a
  PROVE  Candidate({a}) = IF a = Absent THEN Absent ELSE Native(a)
  <1>1. {a} = {a, a}
    OBVIOUS
  <1> QED
    BY <1>1, CandidateIs

(* A declared setting is a directory or unusable, and is never passed over. *)
LEMMA NativeIs ==
  ASSUME NEW a
  PROVE  /\ Native(a) = IF IsDir(a) THEN a ELSE Unusable
         /\ Native(a) # Absent /\ Native(a) # Unavailable
  BY NameAssumption DEF Native, IsDir, Unusable, Unavailable

(* The last source always says something.                                   *)
LEMMA ConventionalIs ==
  /\ Conventional # Absent
  /\ Conventional = Unavailable \/ IsDir(Conventional)
  BY NameAssumption DEF Conventional, IsDir

(* The first source that says something decides.                            *)
LEMMA ResolveIs ==
  ASSUME NEW v, NEW s, s = Sources(v)
  PROVE  Resolve(v) = IF s[1] # Absent THEN s[1] ELSE IF s[2] # Absent THEN s[2]
                     ELSE IF s[3] # Absent THEN s[3] ELSE IF s[4] # Absent THEN s[4]
                     ELSE IF s[5] # Absent THEN s[5] ELSE s[6]
  <1> DEFINE First(i) == s[i] # Absent /\ \A j \in 1..(i - 1) : s[j] = Absent
  <1>1. DOMAIN s = 1..6 /\ s[6] # Absent
    BY ConventionalIs DEF Sources
  <1>2. Resolve(v) = s[CHOOSE i \in DOMAIN s : First(i)]
    BY DEF Resolve
  <1>3. ASSUME NEW i \in 1..6, First(i)
        PROVE  Resolve(v) = s[i]
    <2>1. \A j \in 1..6 : First(j) => j = i
      BY <1>3
    <2>2. (CHOOSE j \in DOMAIN s : First(j)) = i
      BY <1>1, <1>3, <2>1
    <2> QED
      BY <1>2, <2>2
  <1>4. \A j \in 1..0 : s[j] = Absent
    OBVIOUS
  <1>5. s[1] # Absent => First(1)
    BY <1>4
  <1>6. s[1] = Absent /\ s[2] # Absent => First(2)
    OBVIOUS
  <1>7. s[1] = Absent /\ s[2] = Absent /\ s[3] # Absent => First(3)
    OBVIOUS
  <1>8. s[1] = Absent /\ s[2] = Absent /\ s[3] = Absent /\ s[4] # Absent => First(4)
    OBVIOUS
  <1>9. s[1] = Absent /\ s[2] = Absent /\ s[3] = Absent /\ s[4] = Absent
        /\ s[5] # Absent => First(5)
    OBVIOUS
  <1>10. s[1] = Absent /\ s[2] = Absent /\ s[3] = Absent /\ s[4] = Absent
         /\ s[5] = Absent => First(6)
    BY <1>1
  <1> HIDE DEF First
  <1> QED
    BY <1>1, <1>3, <1>5, <1>6, <1>7, <1>8, <1>9, <1>10

(* What a run resolves is what its host designates.                         *)
LEMMA DesignatedIs ==
  ASSUME NEW v \in Views, NEW current, IsDir(current),
         Resolve(v) = Unavailable \/ current = Resolve(v)
  PROVE  LET payload == {v.payload["modelsDir"], v.payload["models_dir"]} \ {Absent}
         IN  /\ payload \subseteq {current}
             /\ payload = {} => v.modly \in {Absent, current}
             /\ payload = {} /\ v.modly = Absent /\ ~v.hosted => api \in {Absent, current}
  <1> DEFINE new == v.payload["modelsDir"]
             old == v.payload["models_dir"]
             s == Sources(v)
  <1>1. /\ s[1] = IF new = Absent THEN IF old = Absent THEN Absent ELSE Native(old)
                  ELSE IF old = Absent \/ new = old THEN Native(new) ELSE Unusable
        /\ s[2] = IF v.modly = Absent THEN Absent ELSE Native(v.modly)
        /\ ~v.hosted => s[3] = Absent
        /\ s[4] = IF api = Absent THEN Absent ELSE Native(api)
    BY CandidateIs, SettingIs DEF Sources, Answered
  <1>2. /\ current # Unusable /\ current # Unavailable /\ current # Absent
        /\ Unusable # Unavailable /\ Unusable # Absent
    BY NameAssumption DEF IsDir, Unusable, Unavailable
  <1>3. Resolve(v) = IF s[1] # Absent THEN s[1] ELSE IF s[2] # Absent THEN s[2]
                     ELSE IF s[3] # Absent THEN s[3] ELSE IF s[4] # Absent THEN s[4]
                     ELSE IF s[5] # Absent THEN s[5] ELSE s[6]
    BY ResolveIs
  <1> HIDE DEF s, new, old
  <1>4. CASE new # Absent \/ old # Absent
    <2>1. s[1] # Absent /\ s[1] # Unavailable /\ current = s[1]
      BY <1>1, <1>2, <1>3, <1>4, NativeIs
    <2>2. {new, old} \ {Absent} \subseteq {current}
      BY <1>1, <1>2, <1>4, <2>1, NativeIs
    <2> QED
      BY <1>4, <2>2 DEF new, old
  <1>5. CASE new = Absent /\ old = Absent
    <2>1. s[1] = Absent
      BY <1>1, <1>5
    <2>2. v.modly # Absent => current = v.modly
      BY <1>1, <1>2, <1>3, <2>1, NativeIs
    <2>3. v.modly = Absent /\ ~v.hosted /\ api # Absent => current = api
      BY <1>1, <1>2, <1>3, <2>1, NativeIs
    <2> QED
      BY <1>5, <2>2, <2>3 DEF new, old
  <1> QED
    BY <1>4, <1>5

-----------------------------------------------------------------------------
(* Directories, and the steps of setups, runs and of the world.              *)

(* The bound, apart from the shape of the constants.                        *)
LEMMA BoundIs == MaxChanges \in Nat
  BY RootAssumption

(* The labels of setups and runs.                                           *)
LEMMA RecordsAre ==
  /\ \A e \in Setups : e.pc \in {"idle", "resolve", "provision", "publish"}
  /\ \A r \in Runs : r.pc \in {"idle", "resolve", "refused"} \cup Resolved
  /\ NoRun \in Runs /\ NoRun.pc = "idle"
  BY DEF Setups, Runs, NoRun, Resolved

(* A run that goes on keeps what it has found.                              *)
LEMMA Moves ==
  ASSUME NEW r \in Runs, NEW place \in {"check", "state", "served"}, NEW moved,
         moved = [r EXCEPT !.pc = place]
  PROVE  /\ moved \in Runs /\ moved.pc = place
         /\ moved.view = r.view /\ moved.current = r.current /\ moved.root = r.root
  BY DEF Runs

(* A refusal.                                                               *)
LEMMA RefuseIs ==
  ASSUME NEW code \in {"SETUP_INVALID", "MODELS_UNAVAILABLE", "REQUEST_PATHS"}, Refuse(code)
  PROVE  run' \in Runs /\ run'.pc = "refused"
  BY DEF Refuse, NoRun, Runs

(* A directory and the location it leads to are the same directory.         *)
LEMMA CanonicalIs ==
  ASSUME RootTypeOK, NEW name, IsDir(name)
  PROVE  /\ Canonical(name) \in Paths
         /\ Canonical(Canonical(name)) = Canonical(name)
         /\ at[Canonical(name)] \in Dirs
         /\ IsDir(Canonical(name))
         /\ Below(name) = tree[at[Canonical(name)]]
         /\ Below(Canonical(name)) = Below(name)
         /\ Owned(Canonical(name)) <=> Owned(name)
  BY RootAssumption DEF RootTypeOK, IsDir, Canonical, Below, Owned, Names

(* A snapshot is below a directory.                                         *)
LEMMA OwnedIs ==
  ASSUME NEW name, Owned(name)
  PROVE  IsDir(name)
  BY DEF Owned, Below

(* What a step of a run may do, each with what it has found out.            *)
LEMMA RunStepEffect ==
  ASSUME RootInv, RunStep
  PROVE  /\ UNCHANGED <<view, api, beside, at, to, tree, version, config, setup>>
         /\ UNCHANGED <<steady, settled, changes>>
         /\ run.pc # "idle" /\ run' \in Runs
         /\ \/ run.pc \in {"resolve"} \cup (Resolved \ {"served"}) /\ run'.pc = "refused"
            \/ run.pc \in {"served", "refused"} /\ run' = NoRun
            \/ /\ run.pc = "resolve" /\ run'.pc = "compare" /\ run'.view = run.view
               /\ config # Absent /\ IsDir(run'.current)
               /\ Resolve(run.view) = Unavailable \/ run'.current = Resolve(run.view)
            \/ /\ run.pc = "compare" /\ run'.pc = "check"
               /\ run'.view = run.view /\ run'.current = run.current /\ run'.root = run.root
               /\ Canonical(run.current) = config.models
            \/ /\ run.pc = "check" /\ run'.pc = "state"
               /\ run'.view = run.view /\ run'.current = run.current /\ run'.root = run.root
               /\ Identified /\ Ready
            \/ /\ run.pc = "state" /\ run'.pc = "authenticate"
               /\ run'.view = run.view /\ run'.current = run.current
               /\ run'.root = Canonical(run.current) /\ run'.root \in Paths
            \/ /\ run.pc = "authenticate" /\ run'.pc = "served"
               /\ run'.view = run.view /\ run'.current = run.current /\ run'.root = run.root
  <1> DEFINE same == /\ UNCHANGED <<view, api, beside, at, to, tree, version, config, setup>>
                     /\ UNCHANGED <<steady, settled, changes>>
  <1>0. run \in Runs
    BY DEF RootInv, RootTypeOK
  <1>1. CASE RunResolve
    <2>1. run.pc = "resolve" /\ same
      BY <1>1 DEF RunResolve, world, history
    <2>2. CASE Refuse("SETUP_INVALID") \/ Refuse("MODELS_UNAVAILABLE")
      <3>1. run' \in Runs /\ run'.pc = "refused"
        BY <2>2, RefuseIs
      <3> QED
        BY <2>1, <3>1
    <2>3. ASSUME NEW name, IsDir(name), config # Absent,
                 Resolve(run.view) = Unavailable \/ name = Resolve(run.view),
                 run' = [run EXCEPT !.pc = "compare", !.current = name]
          PROVE  /\ run' \in Runs /\ run'.pc = "compare"
                 /\ run'.view = run.view /\ run'.current = name
      BY <1>0, <2>3 DEF Runs, IsDir
    <2>4. ~(Refuse("SETUP_INVALID") \/ Refuse("MODELS_UNAVAILABLE")) =>
            \E name : /\ IsDir(name) /\ config # Absent
                      /\ Resolve(run.view) = Unavailable \/ name = Resolve(run.view)
                      /\ run' = [run EXCEPT !.pc = "compare", !.current = name]
      BY <1>1 DEF RunResolve
    <2> QED
      BY <2>1, <2>2, <2>3, <2>4
  <1>2. CASE RunCompare
    <2>1. run.pc = "compare" /\ same
      BY <1>2 DEF RunCompare, world, history
    <2>2. CASE Refuse("SETUP_INVALID") \/ Refuse("REQUEST_PATHS")
      <3>1. run' \in Runs /\ run'.pc = "refused"
        BY <2>2, RefuseIs
      <3> QED
        BY <2>1, <3>1 DEF Resolved
    <2>3. CASE run' = [run EXCEPT !.pc = "check"] /\ Canonical(run.current) = config.models
      <3>1. /\ run' \in Runs /\ run'.pc = "check"
            /\ run'.view = run.view /\ run'.current = run.current /\ run'.root = run.root
        BY <1>0, <2>3, Moves
      <3> QED
        BY <2>1, <2>3, <3>1
    <2> QED
      BY <1>2, <2>2, <2>3 DEF RunCompare
  <1>3. CASE RunCheck
    <2>1. run.pc = "check" /\ same
      BY <1>3 DEF RunCheck, world, history
    <2>2. CASE Refuse("SETUP_INVALID")
      <3>1. run' \in Runs /\ run'.pc = "refused"
        BY <2>2, RefuseIs
      <3> QED
        BY <2>1, <3>1 DEF Resolved
    <2>3. CASE run' = [run EXCEPT !.pc = "state"] /\ Identified /\ Ready
      <3>1. /\ run' \in Runs /\ run'.pc = "state"
            /\ run'.view = run.view /\ run'.current = run.current /\ run'.root = run.root
        BY <1>0, <2>3, Moves
      <3> QED
        BY <2>1, <2>3, <3>1
    <2> QED
      BY <1>3, <2>2, <2>3 DEF RunCheck
  <1>4. CASE RunState
    <2>1. run.pc = "state" /\ same
      BY <1>4 DEF RunState, world, history
    <2>2. CASE Refuse("REQUEST_PATHS")
      <3>1. run' \in Runs /\ run'.pc = "refused"
        BY <2>2, RefuseIs
      <3> QED
        BY <2>1, <3>1 DEF Resolved
    <2>3. CASE /\ Owned(run.current)
               /\ run' = [run EXCEPT !.pc = "authenticate", !.root = Canonical(run.current)]
      <3>1. Canonical(run.current) \in Paths
        BY <2>3, OwnedIs, CanonicalIs DEF RootInv
      <3>2. /\ run' \in Runs /\ run'.pc = "authenticate" /\ run'.root = Canonical(run.current)
            /\ run'.view = run.view /\ run'.current = run.current
        BY <1>0, <2>3, <3>1 DEF Runs
      <3> QED
        BY <2>1, <3>1, <3>2
    <2> QED
      BY <1>4, <2>2, <2>3 DEF RunState
  <1>5. CASE RunAuthenticate
    <2>1. run.pc = "authenticate" /\ same
      BY <1>5 DEF RunAuthenticate, world, history
    <2>2. CASE Refuse("SETUP_INVALID")
      <3>1. run' \in Runs /\ run'.pc = "refused"
        BY <2>2, RefuseIs
      <3> QED
        BY <2>1, <3>1 DEF Resolved
    <2>3. CASE run' = [run EXCEPT !.pc = "served"]
      <3>1. /\ run' \in Runs /\ run'.pc = "served"
            /\ run'.view = run.view /\ run'.current = run.current /\ run'.root = run.root
        BY <1>0, <2>3, Moves
      <3> QED
        BY <2>1, <2>3, <3>1
    <2> QED
      BY <1>5, <2>2, <2>3 DEF RunAuthenticate
  <1>6. CASE RunEnds
    BY <1>6, RecordsAre DEF RunEnds, world, history
  <1> QED
    BY <1>1, <1>2, <1>3, <1>4, <1>5, <1>6 DEF RunStep

(* What a step of a setup may do, a setup that is disturbed included.       *)
LEMMA SetupStepEffect ==
  ASSUME RootInv, SetupStep
  PROVE  /\ UNCHANGED <<view, api, beside, at, to, version, run, steady, changes>>
         /\ setup.pc # "idle" /\ setup' \in Setups
         /\ tree' \in [Dirs -> Trees] /\ config' \in Configurations \cup {Absent}
         /\ \/ /\ setup'.pc = "idle" /\ settled' = "no"
               /\ UNCHANGED <<tree, config>>
            \/ /\ setup.pc = "resolve" /\ setup'.pc = "provision" /\ setup'.view = setup.view
               /\ IsDir(Resolve(setup.view))
               /\ setup'.root = Canonical(Resolve(setup.view)) /\ setup'.root \in Paths
               /\ tree'[at[setup'.root]] \in Snapshots
               /\ UNCHANGED <<config, settled>>
            \/ /\ setup.pc = "provision" /\ setup'.pc = "publish"
               /\ setup'.view = setup.view /\ setup'.root = setup.root
               /\ tree'[at[setup.root]] = [marker |-> version, whole |-> TRUE]
               /\ UNCHANGED <<config, settled>>
            \/ /\ setup.pc = "publish" /\ setup'.pc = "idle"
               /\ config' = [version |-> version, models |-> setup.root]
               /\ settled' = IF settled = "begun" THEN "done" ELSE settled
               /\ UNCHANGED tree
  <1> DEFINE same == UNCHANGED <<view, api, beside, at, to, version, run, steady, changes>>
  <1>0. /\ setup \in Setups /\ tree \in [Dirs -> Trees] /\ config \in Configurations \cup {Absent}
        /\ version \in Versions
        /\ setup.pc \in {"provision", "publish"} => setup.root \in Paths
        /\ RootTypeOK
    BY DEF RootInv, RootTypeOK, ProcessAt
  <1>1. ASSUME SetupEnds
        PROVE  setup' \in Setups /\ setup'.pc = "idle" /\ settled' = "no"
    BY <1>1 DEF SetupEnds, Setups
  <1>2. CASE SetupResolve
    <2> DEFINE found == Resolve(setup.view)
    <2>1. setup.pc = "resolve" /\ same /\ UNCHANGED config
      BY <1>2 DEF SetupResolve, world
    <2> HIDE DEF found
    <2>2. CASE SetupEnds /\ UNCHANGED tree
      BY <1>0, <1>1, <2>1, <2>2
    <2>3. CASE /\ IsDir(found) /\ Below(found) # Alias
               /\ setup' = [setup EXCEPT !.pc = "provision", !.root = Canonical(found)]
               /\ tree' = [tree EXCEPT ![at[Canonical(found)]] =
                             IF @ = Absent THEN [marker |-> Absent, whole |-> FALSE] ELSE @]
               /\ UNCHANGED settled
      <3> DEFINE d == at[Canonical(found)]
      <3>1. Canonical(found) \in Paths /\ d \in Dirs /\ tree[d] # Alias
        BY <1>0, <2>3, CanonicalIs
      <3>2. /\ setup' \in Setups /\ setup'.pc = "provision"
            /\ setup'.view = setup.view /\ setup'.root = Canonical(found)
        BY <1>0, <2>3, <3>1 DEF Setups
      <3> HIDE DEF d
      <3>3. [marker |-> Absent, whole |-> FALSE] \in Snapshots
        BY DEF Snapshots
      <3>4. tree' \in [Dirs -> Trees] /\ tree'[d] \in Snapshots
        BY <1>0, <2>3, <3>1, <3>3 DEF Trees, d
      <3> QED
        BY <1>0, <2>1, <2>3, <3>1, <3>2, <3>4 DEF d, found
    <2> QED
      BY <1>2, <2>2, <2>3 DEF SetupResolve, found
  <1>3. CASE SetupProvision
    <2>1. setup.pc = "provision" /\ same /\ UNCHANGED config
      BY <1>3 DEF SetupProvision, world
    <2>2. CASE SetupEnds /\ UNCHANGED tree
      BY <1>0, <1>1, <2>1, <2>2
    <2>3. CASE /\ Owned(setup.root)
               /\ tree' = [tree EXCEPT ![at[setup.root]] = [marker |-> version, whole |-> TRUE]]
               /\ setup' = [setup EXCEPT !.pc = "publish"]
               /\ UNCHANGED settled
      <3>1. setup.root \in Paths /\ Canonical(setup.root) = setup.root
        BY <1>0, <2>1, RootAssumption DEF Canonical
      <3>2. at[setup.root] \in Dirs
        BY <1>0, <2>3, <3>1, OwnedIs, CanonicalIs
      <3>3. [marker |-> version, whole |-> TRUE] \in Trees
        BY <1>0 DEF Trees, Snapshots, RootTypeOK
      <3>4. /\ tree' \in [Dirs -> Trees]
            /\ tree'[at[setup.root]] = [marker |-> version, whole |-> TRUE]
        BY <1>0, <2>3, <3>2, <3>3
      <3>5. /\ setup' \in Setups /\ setup'.pc = "publish"
            /\ setup'.view = setup.view /\ setup'.root = setup.root
        BY <1>0, <2>3 DEF Setups
      <3> QED
        BY <1>0, <2>1, <2>3, <3>4, <3>5
    <2> QED
      BY <1>3, <2>2, <2>3 DEF SetupProvision
  <1>4. CASE SetupPublish
    <2>1. setup.pc = "publish" /\ same /\ UNCHANGED tree
      BY <1>4 DEF SetupPublish, world
    <2>2. CASE SetupEnds /\ UNCHANGED config
      BY <1>0, <1>1, <2>1, <2>2
    <2>3. CASE /\ config' = [version |-> version, models |-> setup.root]
               /\ setup' = [pc |-> "idle", view |-> Absent, root |-> Absent]
               /\ settled' = IF settled = "begun" THEN "done" ELSE settled
      BY <1>0, <2>1, <2>3 DEF Setups, Configurations
    <2> QED
      BY <1>4, <2>2, <2>3 DEF SetupPublish
  <1> QED
    BY <1>2, <1>3, <1>4 DEF SetupStep

(* The world counts its changes.                                            *)
LEMMA ChangesCount ==
  ASSUME RootInv, changes < MaxChanges, changes' = changes + 1
  PROVE  changes' \in 0..MaxChanges
  BY BoundIs DEF RootInv, RootTypeOK

(* Whatever changes: nothing is known any more of a setup, nor of a run     *)
(* that goes on.                                                            *)
LEMMA WorldEffect ==
  ASSUME RootInv, World
  PROVE  /\ RootTypeOK'
         /\ settled' = "no" /\ run' = run
         /\ \/ steady' = FALSE
            \/ run.pc = "idle" /\ steady' = steady
         /\ \/ setup' = setup
            \/ setup'.pc = "idle" /\ setup' \in Setups
         /\ config' = config \/ run.pc = "idle"
  <1> DEFINE Typed ==
        /\ view' \in Views /\ api' \in Endpoints /\ beside' \in Paths \cup {Absent}
        /\ at' \in [Paths -> Dirs \cup {Absent}] /\ to' \in [Links -> Paths]
        /\ tree' \in [Dirs -> Trees] /\ version' \in Versions
        /\ config' \in Configurations \cup {Absent}
        /\ setup' = setup /\ run' = run
        /\ config' = config \/ run.pc = "idle"
  <1>0. ASSUME Typed, Changes
        PROVE  /\ RootTypeOK' /\ settled' = "no" /\ run' = run /\ steady' = FALSE
               /\ setup' = setup
               /\ config' = config \/ run.pc = "idle"
    BY <1>0, ChangesCount DEF Changes, RootInv, RootTypeOK
  <1>1. CASE ChangeSettings
    <2>1. Typed /\ Changes
      BY <1>1 DEF ChangeSettings, RootInv, RootTypeOK
    <2> QED
      BY <2>1, <1>0
  <1>2. ASSUME NEW p \in Paths, Unmount(p)
        PROVE  Typed /\ Changes
    BY <1>2 DEF Unmount, RootInv, RootTypeOK
  <1>3. ASSUME NEW d \in Dirs, NEW p \in Paths, Mount(d, p)
        PROVE  Typed /\ Changes
    BY <1>3 DEF Mount, RootInv, RootTypeOK
  <1>4. ASSUME NEW l \in Links, NEW p \in Paths, Relink(l, p)
        PROVE  Typed /\ Changes
    BY <1>4 DEF Relink, RootInv, RootTypeOK
  <1>5. ASSUME NEW d \in Dirs, Damage(d)
        PROVE  Typed /\ Changes
    <2>1. tree[d] \in Snapshots
      BY <1>5 DEF Damage, Trees, RootInv, RootTypeOK
    <2>2. [tree[d] EXCEPT !.whole = FALSE] \in Trees
      BY <2>1 DEF Snapshots, Trees
    <2>3. tree' = [tree EXCEPT ![d] = [tree[d] EXCEPT !.whole = FALSE]]
      BY <1>5 DEF Damage
    <2> QED
      BY <1>5, <2>2, <2>3 DEF Damage, world, RootInv, RootTypeOK
  <1>6. ASSUME NEW d \in Dirs, NEW v \in Versions, OtherInstallation(d, v)
        PROVE  Typed /\ Changes
    <2>1. [marker |-> v, whole |-> TRUE] \in Trees
      BY DEF Snapshots, Trees
    <2> QED
      BY <1>6, <2>1 DEF OtherInstallation, world, RootInv, RootTypeOK
  <1>7. ASSUME NEW v \in Versions, Update(v)
        PROVE  Typed /\ Changes
    BY <1>7 DEF Update, world, RootInv, RootTypeOK
  <1>8. CASE SetupBreaks
    <2>1. [pc |-> "idle", view |-> Absent, root |-> Absent] \in Setups
      BY DEF Setups
    <2>2. tree' \in [Dirs -> Trees]
      <3>1. \A rest \in BOOLEAN : [marker |-> Absent, whole |-> rest] \in Trees
        BY DEF Snapshots, Trees
      <3> QED
        BY <1>8, <3>1 DEF SetupBreaks, RootInv, RootTypeOK
    <2>3. config' \in Configurations \cup {Absent}
      BY <1>8 DEF SetupBreaks, RootInv, RootTypeOK
    <2>4. /\ setup' \in Setups /\ setup'.pc = "idle" /\ settled' = "no"
          /\ run.pc = "idle" /\ UNCHANGED <<view, api, beside, at, to, version, run, steady>>
          /\ changes < MaxChanges /\ changes' = changes + 1
      BY <1>8, <2>1 DEF SetupBreaks, SetupEnds, world, RootInv, ProcessAt
    <2> QED
      BY <2>2, <2>3, <2>4, ChangesCount DEF RootInv, RootTypeOK
  <1> HIDE DEF Typed
  <1> QED
    BY <1>0, <1>1, <1>2, <1>3, <1>4, <1>5, <1>6, <1>7, <1>8 DEF World

(* The start of a setup or of a run.                                        *)
LEMMA BeginEffect ==
  ASSUME RootInv, SetupBegin \/ RunBegin
  PROVE  /\ RootTypeOK' /\ UNCHANGED <<view, api, beside, at, to, tree, version, config, changes>>
         /\ setup.pc = "idle" /\ run.pc = "idle"
         /\ \/ /\ setup'.pc = "resolve" /\ setup'.view = view /\ settled' = "begun"
               /\ UNCHANGED <<run, steady>>
            \/ /\ run'.pc = "resolve" /\ run'.view = view /\ steady' = TRUE
               /\ UNCHANGED <<setup, settled>>
  <1>1. CASE SetupBegin
    <2>1. [pc |-> "resolve", view |-> view, root |-> Absent] \in Setups
      BY DEF Setups, RootInv, RootTypeOK
    <2> QED
      BY <1>1, <2>1 DEF SetupBegin, world, RootInv, RootTypeOK
  <1>2. CASE RunBegin
    <2>1. /\ run' \in Runs /\ run'.pc = "resolve" /\ run'.view = view
      BY <1>2 DEF RunBegin, NoRun, Runs, RootInv, RootTypeOK
    <2> QED
      BY <1>2, <2>1 DEF RunBegin, world, RootInv, RootTypeOK
  <1> QED
    BY <1>1, <1>2

-----------------------------------------------------------------------------
(* Each part of the invariant.                                              *)

(* Types and labels.                                                        *)
LEMMA ProcessStep ==
  ASSUME RootInv, RootNext
  PROVE  RootTypeOK' /\ ProcessAt'
  <1>0. RootTypeOK /\ ProcessAt
    BY DEF RootInv
  <1>1. CASE SetupBegin \/ RunBegin
    <2>1. RootTypeOK'
      BY <1>1, BeginEffect
    <2>2. ProcessAt'
      BY <1>0, <1>1, BeginEffect DEF ProcessAt, RootTypeOK, Resolved, Rooted, Checked, Compared
    <2> QED
      BY <2>1, <2>2
  <1>2. CASE SetupStep
    <2>1. RootTypeOK'
      BY <1>0, <1>2, SetupStepEffect DEF RootTypeOK
    <2>2. ProcessAt'
      BY <1>0, <1>2, SetupStepEffect DEF ProcessAt, Resolved, Rooted, Checked, Compared
    <2> QED
      BY <2>1, <2>2
  <1>3. CASE RunStep
    <2>1. RootTypeOK'
      BY <1>0, <1>3, RunStepEffect DEF RootTypeOK
    <2>2. ProcessAt'
      BY <1>0, <1>3, RunStepEffect, RecordsAre
         DEF ProcessAt, IsDir, Resolved, Rooted, Checked, Compared
    <2> QED
      BY <2>1, <2>2
  <1>4. CASE World
    BY <1>0, <1>4, WorldEffect DEF ProcessAt, Resolved, Rooted, Checked, Compared
  <1> QED
    BY <1>1, <1>2, <1>3, <1>4 DEF RootNext

(* What an undisturbed run has found out stays true.                        *)
LEMMA RunAtStep ==
  ASSUME RootInv, RootNext
  PROVE  RunAt'
  <1>0. RootTypeOK /\ ProcessAt /\ RunAt
    BY DEF RootInv
  <1> USE DEF Resolved, Rooted, Checked, Compared
  <1>1. CASE SetupBegin \/ RunBegin
    BY <1>0, <1>1, BeginEffect DEF RunAt
  <1>2. CASE SetupStep
    BY <1>0, <1>2, SetupStepEffect DEF RunAt, ProcessAt
  <1>3. CASE RunStep
    <2>1. CASE run.pc = "resolve" /\ run'.pc = "compare"
      <3>1. /\ run'.view = run.view /\ run.view \in Views /\ IsDir(run'.current)
            /\ Resolve(run.view) = Unavailable \/ run'.current = Resolve(run.view)
            /\ UNCHANGED api
        BY <1>0, <1>3, <2>1, RunStepEffect DEF ProcessAt
      <3>2. LET v == run.view
                payload == {v.payload["modelsDir"], v.payload["models_dir"]} \ {Absent}
            IN  /\ payload \subseteq {run'.current}
                /\ payload = {} => v.modly \in {Absent, run'.current}
                /\ payload = {} /\ v.modly = Absent /\ ~v.hosted => api \in {Absent, run'.current}
        BY <3>1, DesignatedIs
      <3> QED
        BY <2>1, <3>1, <3>2 DEF RunAt
    <2>2. CASE ~(run.pc = "resolve" /\ run'.pc = "compare")
      BY <1>0, <1>3, <2>2, RunStepEffect, RecordsAre DEF RunAt, Canonical, Identified,
         Ready, Below, IsDir
    <2> QED
      BY <2>1, <2>2
  <1>4. CASE World
    BY <1>0, <1>4, WorldEffect DEF RunAt
  <1> QED
    BY <1>1, <1>2, <1>3, <1>4 DEF RootNext

(* What the settings mean is looked up anew in the next state.              *)
LEMMA FoundNext ==
  ASSUME RootInv, UNCHANGED world, IsDir(Found)
  PROVE  /\ Found' = Found /\ IsDir(Found)' /\ Canonical(Found)' = Canonical(Found)
         /\ Below(Found)' = tree'[at[Canonical(Found)]]
         /\ tree' = tree => Below(Found)' = Below(Found)
  <1>1. Found' = Found
    BY FoundStable
  <1>2. IsDir(Found)' /\ Canonical(Found)' = Canonical(Found)
    BY <1>1 DEF world, IsDir, Canonical
  <1>3. Below(Found)' = tree'[at[Canonical(Found)]]
    BY <1>1, <1>2 DEF world, Below
  <1>4. Below(Found) = tree[at[Canonical(Found)]]
    BY DEF Below
  <1> QED
    BY <1>1, <1>2, <1>3, <1>4

(* A completed setup leaves a run no reason to refuse.                      *)
LEMMA RunIsServed ==
  ASSUME RootInv, RunStep, settled = "done"
  PROVE  run'.pc # "refused"
  <1>0. /\ run \in Runs /\ RootTypeOK
        /\ IsDir(Found) /\ Settled
        /\ config = [version |-> version, models |-> Canonical(Found)]
        /\ run.pc # "idle" => run.view = view
        /\ run.pc \in Resolved => run.current = Found
        /\ run.pc \in Rooted => run.root = Canonical(Found)
    BY DEF RootInv, RootTypeOK, SettledAt
  <1>1. /\ IsDir(Canonical(Found)) /\ Canonical(Canonical(Found)) = Canonical(Found)
        /\ Below(Canonical(Found)) = Below(Found)
    BY <1>0, CanonicalIs
  <1>2. Owned(Found) /\ Owned(Canonical(Found))
    <2>1. [marker |-> version, whole |-> TRUE] \in Snapshots
      BY <1>0 DEF Snapshots, RootTypeOK
    <2> QED
      BY <1>0, <1>1, <2>1, NameAssumption DEF Settled, Owned
  <1>3. /\ config.version = version /\ config.models = Canonical(Found)
        /\ [marker |-> version, whole |-> TRUE].whole
    BY <1>0
  <1>4. config # Absent
    <2>1. config \in Configurations
      BY <1>0, <1>1, CanonicalIs DEF Configurations, RootTypeOK
    <2> QED
      BY <2>1, NameAssumption
  <1> USE DEF Resolved, Rooted, Checked, Compared
  <1>5. CASE RunResolve
    <2>1. Resolve(run.view) = Found
      BY <1>0, <1>5 DEF RunResolve, Found
    <2>2. Found # Unavailable
      BY <1>0, NameAssumption DEF IsDir
    <2>3. run' = [run EXCEPT !.pc = "compare", !.current = Found]
      BY <1>0, <1>4, <1>5, <2>1, <2>2 DEF RunResolve
    <2> QED
      BY <1>0, <2>3 DEF Runs
  <1>6. CASE RunCompare
    <2>1. run.pc = "compare" /\ run.current = Found
      BY <1>0, <1>6 DEF RunCompare
    <2>2. run' = [run EXCEPT !.pc = "check"]
      BY <1>0, <1>1, <1>3, <1>6, <2>1 DEF RunCompare
    <2> QED
      BY <1>0, <2>2, Moves
  <1>7. CASE RunCheck
    <2>1. run.pc = "check" /\ run.current = Found
      BY <1>0, <1>7 DEF RunCheck
    <2>2. Identified /\ Ready
      BY <1>0, <1>3, <2>1 DEF Identified, Ready, Settled
    <2>3. run' = [run EXCEPT !.pc = "state"]
      BY <1>2, <1>7, <2>1, <2>2 DEF RunCheck
    <2> QED
      BY <1>0, <2>3, Moves
  <1>8. CASE RunState
    <2>1. run.pc = "state" /\ run.current = Found
      BY <1>0, <1>8 DEF RunState
    <2>2. run' = [run EXCEPT !.pc = "authenticate", !.root = Canonical(Found)]
      BY <1>2, <1>8, <2>1 DEF RunState
    <2> QED
      BY <1>0, <2>2 DEF Runs
  <1>9. CASE RunAuthenticate
    <2>1. run.pc = "authenticate" /\ run.root = Canonical(Found)
      BY <1>0, <1>9 DEF RunAuthenticate
    <2>2. Below(run.root).whole
      BY <1>0, <1>1, <1>3, <2>1 DEF Settled
    <2>3. run' = [run EXCEPT !.pc = "served"]
      BY <1>2, <1>9, <2>1, <2>2 DEF RunAuthenticate
    <2> QED
      BY <1>0, <2>3, Moves
  <1>10. CASE RunEnds
    BY <1>10, RecordsAre DEF RunEnds
  <1> QED
    BY <1>5, <1>6, <1>7, <1>8, <1>9, <1>10 DEF RunStep

(* What an undisturbed setup has reached, and a completed one leaves,       *)
(* stays true.                                                              *)
LEMMA SettledStep ==
  ASSUME RootInv, RootNext
  PROVE  SettledAt'
  <1>0. RootTypeOK /\ ProcessAt /\ SettledAt
    BY DEF RootInv
  <1> USE DEF Resolved, Rooted, Checked, Compared
  <1>1. CASE SetupBegin \/ RunBegin
    <2>1. Found' = Found /\ UNCHANGED world
      BY <1>1, BeginEffect, FoundStable DEF world
    <2> QED
      BY <1>0, <1>1, <2>1, BeginEffect, FoundNext DEF SettledAt, Settled
  <1>2. CASE SetupStep
    <2>1. UNCHANGED world /\ settled # "done" /\ run.pc = "idle" /\ UNCHANGED <<run, version, view>>
      BY <1>0, <1>2, SetupStepEffect DEF SettledAt, ProcessAt, world
    <2>2. CASE settled = "no"
      <3>1. settled' = "no"
        BY <1>2, <2>2, SetupStepEffect
      <3> QED
        BY <3>1 DEF SettledAt
    <2>3. CASE settled = "begun" /\ setup'.pc = "idle" /\ settled' = "no"
      BY <2>3 DEF SettledAt
    <2>4. CASE /\ settled = "begun" /\ settled' = settled
               /\ setup.pc = "resolve" /\ setup'.pc = "provision"
      <3>1. /\ setup'.view = setup.view /\ setup.view = view /\ IsDir(Found)
            /\ setup'.root = Canonical(Found) /\ tree'[at[Canonical(Found)]] \in Snapshots
        BY <1>0, <1>2, <2>4, SetupStepEffect DEF SettledAt, Found
      <3>2. Owned(Found)'
        BY <2>1, <3>1, FoundNext, NameAssumption DEF Owned
      <3> QED
        BY <2>1, <2>4, <3>1, <3>2, FoundNext DEF SettledAt
    <2>5. CASE /\ settled = "begun" /\ settled' = settled
               /\ setup.pc = "provision" /\ setup'.pc = "publish"
      <3>1. /\ setup'.view = setup.view /\ setup.view = view /\ IsDir(Found)
            /\ setup.root = Canonical(Found) /\ setup'.root = setup.root
            /\ tree'[at[Canonical(Found)]] = [marker |-> version, whole |-> TRUE]
        BY <1>0, <1>2, <2>5, SetupStepEffect DEF SettledAt
      <3>2. [marker |-> version, whole |-> TRUE] \in Snapshots
        BY <1>0 DEF Snapshots, RootTypeOK
      <3>3. Owned(Found)' /\ Settled'
        BY <2>1, <3>1, <3>2, FoundNext, NameAssumption DEF Owned, Settled
      <3> QED
        BY <2>1, <2>5, <3>1, <3>3, FoundNext DEF SettledAt
    <2>6. CASE settled = "begun" /\ setup.pc = "publish" /\ settled' = "done"
      <3>1. /\ IsDir(Found) /\ setup.root = Canonical(Found) /\ Settled
            /\ setup'.pc = "idle" /\ UNCHANGED tree
            /\ config' = [version |-> version, models |-> Canonical(Found)]
        BY <1>0, <1>2, <2>6, SetupStepEffect DEF SettledAt
      <3>2. Settled'
        BY <2>1, <3>1, FoundNext DEF Settled
      <3> QED
        BY <2>1, <2>6, <3>1, <3>2, FoundNext DEF SettledAt
    <2> QED
      BY <1>0, <1>2, <2>1, <2>2, <2>3, <2>4, <2>5, <2>6, SetupStepEffect DEF RootTypeOK
  <1>3. CASE RunStep
    <2>1. /\ UNCHANGED world /\ settled # "begun" /\ settled' = settled /\ run.pc # "idle"
          /\ UNCHANGED <<setup, tree, config, version, view>>
      BY <1>0, <1>3, RunStepEffect DEF SettledAt, ProcessAt, world
    <2>2. CASE settled = "done"
      <3>1. /\ setup.pc = "idle" /\ run.view = view /\ IsDir(Found) /\ Settled
            /\ config = [version |-> version, models |-> Canonical(Found)]
            /\ run.pc \in Resolved => run.current = Found
            /\ run.pc \in Rooted => run.root = Canonical(Found)
        BY <1>0, <2>1, <2>2 DEF SettledAt
      <3>2. Found' = Found /\ IsDir(Found)' /\ Canonical(Found)' = Canonical(Found) /\ Settled'
        BY <2>1, <3>1, FoundNext DEF Settled
      <3>3. run'.pc # "refused"
        BY <1>3, <2>2, RunIsServed
      <3>4. Resolve(run.view) = Found /\ Found # Unavailable
        BY <3>1, NameAssumption DEF Found, IsDir
      <3>5. /\ run'.pc # "idle" => run'.view = view
            /\ run'.pc \in Resolved => run'.current = Found
            /\ run'.pc \in Rooted => run'.root = Canonical(Found)
        BY <1>3, <3>1, <3>3, <3>4, RunStepEffect, RecordsAre
      <3> QED
        BY <2>1, <2>2, <3>1, <3>2, <3>3, <3>5 DEF SettledAt
    <2> QED
      BY <1>0, <2>1, <2>2 DEF SettledAt
  <1>4. CASE World
    BY <1>0, <1>4, WorldEffect DEF SettledAt
  <1> QED
    BY <1>1, <1>2, <1>3, <1>4 DEF RootNext

(* The invariant holds at the start ...                                     *)
LEMMA RootStart ==
  ASSUME RootInit
  PROVE  RootInv
  <1>1. /\ setup.pc = "idle" /\ run.pc = "idle" /\ steady = FALSE /\ settled = "no"
        /\ setup \in Setups /\ run \in Runs
    BY RecordsAre DEF RootInit, Setups
  <1>2. RootTypeOK
    <2>1. PICK s \in Starts : /\ view = s.view /\ api = s.api /\ beside = s.beside
                              /\ at = s.at /\ to = s.to /\ tree = s.tree
      BY DEF RootInit
    <2>2. s \in [view : Views, api : Endpoints, beside : Paths \cup {Absent},
                 at : [Paths -> Dirs \cup {Absent}], to : [Links -> Paths],
                 tree : [Dirs -> {Absent, Alias}]]
      BY RootAssumption
    <2>3. /\ s.view \in Views /\ s.api \in Endpoints /\ s.beside \in Paths \cup {Absent}
          /\ s.at \in [Paths -> Dirs \cup {Absent}] /\ s.to \in [Links -> Paths]
          /\ s.tree \in [Dirs -> {Absent, Alias}]
      BY <2>2
    <2>4. tree \in [Dirs -> Trees]
      BY <2>1, <2>3 DEF Trees
    <2>5. changes \in 0..MaxChanges
      BY BoundIs DEF RootInit
    <2>6. version \in Versions /\ config = Absent
      BY DEF RootInit
    <2> QED
      BY <1>1, <2>1, <2>3, <2>4, <2>5, <2>6 DEF RootTypeOK
  <1> QED
    BY <1>1, <1>2 DEF RootInv, ProcessAt, RunAt, SettledAt, Resolved, Rooted, Checked, Compared

(* ... and every step keeps it.                                             *)
LEMMA RootStep ==
  ASSUME RootInv, [RootNext]_rootVars
  PROVE  RootInv'
  <1>1. CASE RootNext
    BY <1>1, ProcessStep, RunAtStep, SettledStep DEF RootInv
  <1>2. CASE UNCHANGED rootVars
    <2>1. /\ UNCHANGED <<view, api, beside, at, to, tree, version, config, setup, run>>
          /\ UNCHANGED <<steady, settled, changes>>
      BY <1>2 DEF rootVars, world, history
    <2>2. RootTypeOK' /\ ProcessAt'
      BY <2>1 DEF RootInv, RootTypeOK, ProcessAt
    <2>3. RunAt'
      BY <2>1 DEF RootInv, RunAt, Identified, Ready, Below, IsDir, Canonical
    <2>4. SettledAt'
      <3>1. Found' = Found
        BY <2>1, FoundStable DEF world
      <3> QED
        BY <2>1, <3>1 DEF RootInv, SettledAt, Settled, Owned, Below, IsDir, Canonical
    <2> QED
      BY <2>2, <2>3, <2>4 DEF RootInv
  <1> QED
    BY <1>1, <1>2

LEMMA RootInvariant == RootSpec => []RootInv
  BY RootStart, RootStep, PTL DEF RootSpec

(* Every variable has its type: the configuration and the state of a run     *)
(* name a location, never a link, whatever is moved or relinked.            *)
THEOREM RootTypeCorrect == RootSpec => []RootTypeOK
  <1>1. RootInv => RootTypeOK
    BY DEF RootInv
  <1> QED
    BY <1>1, RootInvariant, PTL

(* After a completed setup, and until something changes, no run is refused     *)
(* for its directory, snapshot or configuration (runtime.py                 *)
(* validate_request, _authenticate_request).                               *)
THEOREM SetupSufficesForRuns == RootSpec => []SetupSatisfiesRuns
  <1>1. RootInv => SetupSatisfiesRuns
    BY DEF RootInv, SettledAt, SetupSatisfiesRuns
  <1> QED
    BY <1>1, RootInvariant, PTL

(* A run that nothing disturbed works in the directory its host designates, *)
(* recorded by setup of the same release, with a whole snapshot of it.      *)
THEOREM ServedAsDesignated == RootSpec => []ServedIsDesignated
  <1>1. ASSUME RootInv, run.pc = "served", steady
        PROVE  ServedIsDesignated
    <2> DEFINE v == run.view
               payload == {v.payload["modelsDir"], v.payload["models_dir"]} \ {Absent}
    <2>1. /\ RootTypeOK /\ v \in Views /\ run.current \in Names
          /\ config # Absent /\ config \in Configurations
          /\ run.root = Canonical(run.current)
          /\ Canonical(run.current) = config.models /\ Identified /\ Ready
      BY <1>1 DEF RootInv, RootTypeOK, ProcessAt, RunAt, Resolved, Compared, Checked, Rooted
    <2>2. /\ payload \subseteq {run.current}
          /\ payload = {} => v.modly \in {Absent, run.current}
          /\ payload = {} /\ v.modly = Absent /\ ~v.hosted => api \in {Absent, run.current}
      BY <1>1 DEF RootInv, RunAt, Resolved
    <2>3. {v.payload[key] : key \in DOMAIN v.payload} =
            {v.payload["modelsDir"], v.payload["models_dir"]}
      <3>1. DOMAIN v.payload = {"modelsDir", "models_dir"}
        BY <2>1, RootAssumption
      <3> QED
        BY <3>1
    <2>4. config = [version |-> version, models |-> run.root]
      BY <2>1 DEF Configurations, Identified
    <2>5. Below(run.root) = [marker |-> version, whole |-> TRUE]
      <3>1. Below(run.current) = [marker |-> version, whole |-> TRUE]
        BY <2>1 DEF Ready
      <3>2. IsDir(run.current)
        <4>1. [marker |-> version, whole |-> TRUE] \in Snapshots
          BY <2>1 DEF Snapshots, RootTypeOK
        <4> QED
          BY <3>1, <4>1, NameAssumption DEF Below
      <3> QED
        BY <2>1, <3>1, <3>2, CanonicalIs
    <2> HIDE DEF payload
    <2> QED
      BY <2>1, <2>2, <2>3, <2>4, <2>5 DEF ServedIsDesignated, payload
  <1>2. RootInv => ServedIsDesignated
    BY <1>1 DEF ServedIsDesignated
  <1> QED
    BY <1>2, RootInvariant, PTL
=============================================================================
