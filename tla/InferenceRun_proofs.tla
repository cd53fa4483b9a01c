------------------------ MODULE InferenceRun_proofs ------------------------
(***************************************************************************)
(* Proofs for InferenceRun.  PublishedIsComplete needs what IInv knows of    *)
(* the hidden directories on the way to their rename, and that a late        *)
(* output thread has lost the log by the time a diagnostic copies it.  What  *)
(* the host is told, and what is left behind, needs RunInv, built on IInv:   *)
(* the terminal records, the exception on its way up, and what the handlers  *)
(* can still remove at each step.                                          *)
(***************************************************************************)
EXTENDS InferenceRun, TLAPS

-----------------------------------------------------------------------------
(* Where an exception goes, and which ones there are.                       *)
LEMMA CatcherLabels ==
  ASSUME NEW step \in Labels
  PROVE  /\ Catcher(step) \in {"bootstrap", "report", "unlease", "except", "rm_temp",
                               "d_clean", "exit"}
         /\ step \in Guarded => Catcher(step) = "except"
         /\ Catcher(step) = "except" => step \in Guarded
  BY DEF Catcher, Labels, Guarded, Diagnosing, Removing

LEMMA RaisedTypes ==
  ASSUME TypeOK, NEW step \in Labels
  PROVE  /\ Raises(step) \subseteq Exceptions
         /\ Interrupted(step) \in Exceptions \cup {"none"}
         /\ step = "published" => Raises(step) = {} /\ Interrupted(step) = "Interrupt"
         /\ step \in {"recheck", "complete", "done"} => Interrupted(step) = "Interrupt"
  BY DEF TypeOK, Raises, Interrupted, Exceptions, ProcessFailures, Diagnosed, Refusals,
         Labels, Guarded, Diagnosing, Removing

(* What a removal leaves is a directory.                                    *)
LEMMA RemainsAre ==
  ASSUME NEW d \in Directories, NEW e \in Remains(d)
  PROVE  e \in Directories /\ e.there
  BY DEF Remains, Directories

LEMMA DropsInputTypes ==
  ASSUME TypeOK, DropsInput
  PROVE  temp' \in {"absent", "unnamed", "named"} /\ kept' \subseteq Removable
  BY DEF DropsInput, TypeOK, Removable

LEMMA InitInvariant == Init => IInv
  <1> SUFFICES ASSUME Init PROVE IInv
    OBVIOUS
  <1> USE DEF Init
  <1>1. Absent \in Directories
    BY DEF Absent, Directories
  <1>2. TypeOK
    <2>1. pc \in Labels /\ exc \in Exceptions \cup {"none"} /\ sent \in Seq(Records)
      BY DEF Labels
    <2>2. cause \in [exc : Exceptions \cup {"none"}, step : Labels]
      BY DEF Labels
    <2>3. {staging, part, final, diag} \subseteq Directories
      BY <1>1
    <2>4. /\ temp \in {"absent", "unnamed", "named"} /\ kept \subseteq Removable
          /\ capture \in {"none", "late", "writing", "done"}
      OBVIOUS
    <2> QED
      BY <2>1, <2>2, <2>3, <2>4 DEF TypeOK
  <1>3. PublishedIsComplete
    BY DEF PublishedIsComplete, Absent
  <1>4. StagingAt /\ DiagnosticAt /\ OneOutcomeAt
    BY DEF StagingAt, DiagnosticAt, OneOutcomeAt, Absent
  <1> QED
    BY <1>2, <1>3, <1>4 DEF IInv

-----------------------------------------------------------------------------
(* An exception at a step that leaves the directories alone.  It has passed  *)
(* the lease's body or is about to be examined: no diagnostic is under way. *)
LEMMA RaiseInvariant ==
  ASSUME IInv, pc \notin {"exit", "killed"},
         NEW e \in Exceptions \cup {"none"}, Raise(e),
         pc = "published" => e = "Interrupt",
         UNCHANGED <<part, final, diag>>,
         capture' \in {"none", "late", "writing", "done"},
         staging' \in Directories, named' \in BOOLEAN, failed' \in BOOLEAN,
         terminal' \in BOOLEAN, sent' \in Seq(Records),
         temp' \in {"absent", "unnamed", "named"}, kept' \subseteq Removable,
         cut' \subseteq Labels,
         named' # named => pc = "staging"
  PROVE  IInv'
  <1>1. pc \in Labels /\ cause \in [exc : Exceptions \cup {"none"}, step : Labels]
    BY DEF IInv, TypeOK
  <1>2. /\ pc' \in {"bootstrap", "report", "unlease", "except", "rm_temp", "d_clean", "exit"}
        /\ pc' = "except" => pc \in Guarded
    BY <1>1, CatcherLabels DEF Raise
  <1>3. pc' \in Labels /\ exc' = e /\ cause' \in [exc : Exceptions \cup {"none"}, step : Labels]
    <2>1. [exc |-> e, step |-> pc] \in [exc : Exceptions \cup {"none"}, step : Labels]
      BY <1>1
    <2>2. cause' \in [exc : Exceptions \cup {"none"}, step : Labels]
      BY <1>1, <2>1, Zenon DEF Raise
    <2>3. pc' \in Labels
      BY <1>2 DEF Labels, Removing
    <2>4. exc' = e
      BY DEF Raise
    <2> QED
      BY <2>2, <2>3, <2>4
  <1>4. TypeOK'
    <2>1. {staging', part', final', diag'} \subseteq Directories
      BY DEF IInv, TypeOK
    <2>2. temp' \in {"absent", "unnamed", "named"} /\ capture' \in {"none", "late", "writing", "done"}
      BY DEF IInv, TypeOK
    <2> QED
      BY <1>3, <2>1, <2>2 DEF TypeOK
  <1>5. PublishedIsComplete' /\ StagingAt'
    BY <1>2 DEF IInv, PublishedIsComplete, StagingAt
  <1>6. DiagnosticAt'
    BY <1>2 DEF IInv, DiagnosticAt, Leaving, Removing
  <1>7. OneOutcomeAt'
    <2>1. pc' \in Leaving \ Diagnosing /\ pc' \notin {"recheck", "complete"}
      BY <1>2 DEF Leaving, Removing, Diagnosing
    <2>2. ASSUME final.there, pc' = "except" PROVE ~named' \/ exc' \notin Diagnosed
      <3>1. pc \in {"published", "recheck", "complete"}
        BY <1>2, <2>2 DEF IInv, OneOutcomeAt, Leaving, Guarded, Diagnosing, Removing
      <3>2. CASE pc = "published"
        BY <3>2, <1>3 DEF Diagnosed
      <3>3. CASE pc \in {"recheck", "complete"}
        BY <3>3 DEF IInv, OneOutcomeAt
      <3> QED
        BY <3>1, <3>2, <3>3
    <2>3. diag.there => pc' # "except"
      BY <1>2 DEF IInv, OneOutcomeAt, Leaving, Guarded, Diagnosing, Removing
    <2> QED
      BY <2>1, <2>2, <2>3 DEF OneOutcomeAt
  <1> QED
    BY <1>4, <1>5, <1>6, <1>7 DEF IInv
-----------------------------------------------------------------------------
(* Steps that leave the directories alone and raise nothing.                *)
LEMMA MoveInvariant ==
  ASSUME IInv, UNCHANGED fileVars,
         pc' \in Labels, exc' \in Exceptions \cup {"none"}, UNCHANGED cause,
         failed' \in BOOLEAN, terminal' \in BOOLEAN, sent' \in Seq(Records),
         UNCHANGED cut,
         StagingAt', DiagnosticAt', OneOutcomeAt'
  PROVE  IInv'
  <1>1. {staging', part', final', diag'} \subseteq Directories
    BY DEF IInv, TypeOK, fileVars
  <1>2. TypeOK'
    BY <1>1 DEF IInv, TypeOK, fileVars
  <1>3. PublishedIsComplete'
    BY DEF IInv, PublishedIsComplete, fileVars
  <1> QED
    BY <1>2, <1>3 DEF IInv

LEMMA PassInvariant ==
  ASSUME IInv, Pass
  PROVE  IInv'
  <1> USE DEF Pass, Proceed, Following, fileVars, emitterVars
  <1>1. /\ pc' \in Labels
        /\ exc' \in Exceptions \cup {"none"} /\ failed' \in BOOLEAN
        /\ terminal' \in BOOLEAN /\ sent' \in Seq(Records)
    BY DEF IInv, TypeOK, Labels, Guarded, Removing
  <1>2. StagingAt' /\ DiagnosticAt'
    BY DEF IInv, StagingAt, DiagnosticAt, Leaving, Removing, Diagnosing
  <1>3. OneOutcomeAt'
    BY DEF IInv, OneOutcomeAt, Leaving, Removing, Diagnosing
  <1> QED
    BY <1>1, <1>2, <1>3, MoveInvariant

(* The handlers and the emitter: no exit from them leads back into the try.  *)
LEMMA HandlerInvariant ==
  ASSUME IInv, \/ DiagnosticFails \/ AnnounceDiagnostic \/ Unlease \/ Done \/ Report
               \/ ReportFails \/ Bootstrap \/ Kill
  PROVE  IInv'
  <1>1. /\ pc' \in {"d_clean", "rm_temp", "done", "report", "exit", "killed"}
        /\ UNCHANGED <<fileVars, cause, cut>>
    BY DEF DiagnosticFails, AnnounceDiagnostic, Unlease, Done, Report, ReportFails, Bootstrap,
           Kill, Proceed, emitterVars
  <1>2. /\ exc' \in Exceptions \cup {"none"}
        /\ failed' \in BOOLEAN /\ terminal' \in BOOLEAN
    BY DEF IInv, TypeOK, DiagnosticFails, AnnounceDiagnostic, Unlease, Done, Report,
           ReportFails, Bootstrap, Kill, Proceed, emitterVars, Exceptions, ProcessFailures,
           Refusals
  <1>3. sent' \in Seq(Records)
    <2>1. Public(exc) \in Records /\ "done" \in Records /\ "BOOTSTRAP" \in Records
      BY DEF Public, Records
    <2>2. sent' \in {sent, Append(sent, "done"), Append(sent, Public(exc)),
                      Append(sent, "BOOTSTRAP")}
      BY DEF DiagnosticFails, AnnounceDiagnostic, Unlease, Done, Report, ReportFails,
             Bootstrap, Kill, emitterVars
    <2>3. sent \in Seq(Records)
      BY DEF IInv, TypeOK
    <2> QED
      BY <2>1, <2>2, <2>3
  <1>4. pc' \in Labels
    BY <1>1 DEF Labels, Removing
  <1>5. StagingAt'
    BY <1>1 DEF StagingAt
  <1>6. DiagnosticAt'
    BY <1>1 DEF IInv, DiagnosticAt, Leaving, Removing, fileVars
  <1>7. OneOutcomeAt'
    BY <1>1 DEF IInv, OneOutcomeAt, Leaving, Removing, Diagnosing, fileVars
  <1> QED
    BY <1>1, <1>2, <1>3, <1>4, <1>5, <1>6, <1>7, MoveInvariant
(* The except clause: the diagnostic starts only before staging = None.      *)
LEMMA ExceptInvariant ==
  ASSUME IInv, Except
  PROVE  IInv'
  <1> USE DEF Except, Proceed, fileVars, emitterVars
  <1>1. /\ pc' \in Labels
        /\ exc' \in Exceptions \cup {"none"} /\ failed' \in BOOLEAN
        /\ terminal' \in BOOLEAN /\ sent' \in Seq(Records)
    BY DEF IInv, TypeOK, Labels, Diagnosing, Removing
  <1>2. StagingAt' /\ DiagnosticAt'
    BY DEF IInv, StagingAt, DiagnosticAt, Leaving, Removing, Diagnosing
  <1>3. OneOutcomeAt'
    BY DEF IInv, OneOutcomeAt, Leaving, Removing, Diagnosing
  <1> QED
    BY <1>1, <1>2, <1>3, MoveInvariant

(* Steps that raise.                                                       *)
LEMMA RefuseInvariant ==
  ASSUME IInv, Refuse \/ EmitFails \/ DoneFails \/ Interrupt
  PROVE  IInv'
  <1>1. TypeOK /\ pc \in Labels /\ staging \in Directories /\ sent \in Seq(Records)
    BY DEF IInv, TypeOK
  <1>2. /\ named \in BOOLEAN /\ failed \in BOOLEAN /\ terminal \in BOOLEAN
        /\ cut \subseteq Labels /\ capture \in {"none", "late", "writing", "done"}
        /\ temp \in {"absent", "unnamed", "named"} /\ kept \subseteq Removable
    BY DEF IInv, TypeOK
  <1>3. CASE Refuse
    <2>1. PICK e \in Raises(pc) : Raise(e)
      BY <1>3 DEF Refuse
    <2>2. e \in Exceptions /\ pc # "published"
      BY <1>1, <2>1, RaisedTypes
    <2>3. pc \notin {"exit", "killed"}
      BY <2>1 DEF Raises
    <2> QED
      BY <1>1, <1>2, <1>3, <2>1, <2>2, <2>3, DropsInputTypes, RaiseInvariant
         DEF Refuse, emitterVars
  <1>4. CASE EmitFails
    BY <1>1, <1>2, <1>4, RaiseInvariant DEF EmitFails, Emitting, fileVars, Exceptions
  <1>5. CASE DoneFails
    <2>1. PICK e \in {"OSError", "Interrupt"} : Raise(e)
      BY <1>5 DEF DoneFails
    <2>2. sent' \in Seq(Records)
      BY <1>1, <1>5 DEF DoneFails, Records
    <2> QED
      BY <1>1, <1>2, <1>5, <2>1, <2>2, RaiseInvariant DEF DoneFails, fileVars, Exceptions
  <1>6. CASE Interrupt
    <2>1. Interrupted(pc) \in Exceptions \cup {"none"}
      BY <1>1, RaisedTypes
    <2>2. pc = "published" => Interrupted(pc) = "Interrupt"
      BY <1>1, RaisedTypes
    <2>3. cut' \subseteq Labels /\ failed' \in BOOLEAN /\ named' \in BOOLEAN
      BY <1>1, <1>2, <1>6 DEF Interrupt
    <2> QED
      BY <1>1, <1>2, <1>6, <2>1, <2>2, <2>3, DropsInputTypes, RaiseInvariant DEF Interrupt
  <1> QED
    BY <1>3, <1>4, <1>5, <1>6

-----------------------------------------------------------------------------
(* Steps on the directories, before the first exception.                    *)
LEMMA RunInvariant ==
  ASSUME IInv, Prepare \/ Prepared \/ Infer \/ Convert \/ Published \/ Publish
  PROVE  IInv'
  <1> USE DEF Prepare, Prepared, Infer, Convert, Published, Publish, Proceed, emitterVars
  <1>1. staging \in Directories /\ Absent \in Directories /\ {part, final, diag} \subseteq Directories
    BY DEF IInv, TypeOK, Absent, Directories
  <1>2. /\ staging' \in Directories /\ final' \in Directories
        /\ UNCHANGED <<part, diag, capture, exc, cause, cut, failed, terminal, sent>>
    BY <1>1 DEF Directories
  <1>3. pc' \in Labels
    BY DEF Labels, Guarded
  <1>4. TypeOK'
    <2>1. {staging', part', final', diag'} \subseteq Directories
      BY <1>1, <1>2
    <2>2. temp' \in {"absent", "unnamed", "named"} /\ named' \in BOOLEAN
      BY DEF IInv, TypeOK
    <2> QED
      BY <1>2, <1>3, <2>1, <2>2 DEF IInv, TypeOK
  <1>5. capture = "none" /\ ~diag.there /\ pc \notin Leaving
    BY DEF IInv, DiagnosticAt, OneOutcomeAt, Leaving, Diagnosing, Removing
  <1>6. StagingAt'
    BY <1>1 DEF IInv, StagingAt, Directories
  <1>7. DiagnosticAt'
    BY <1>5, <1>2 DEF DiagnosticAt
  <1>8. PublishedIsComplete'
    BY <1>2, <1>5 DEF IInv, StagingAt, PublishedIsComplete
  <1>9. OneOutcomeAt'
    BY <1>2, <1>5 DEF IInv, OneOutcomeAt, Leaving
  <1> QED
    BY <1>4, <1>6, <1>7, <1>8, <1>9 DEF IInv

(* MakeStaging and WriteMetadata either go on or raise.                     *)
LEMMA MakeStagingInvariant ==
  ASSUME IInv, MakeStaging
  PROVE  IInv'
  <1> USE DEF MakeStaging
  <1>1. Empty \in Directories /\ staging \in Directories
    BY DEF IInv, TypeOK, Empty, Absent, Directories
  <1>2. CASE staging' = Empty /\ Proceed("command")
    <2> USE <1>2 DEF Proceed, emitterVars
    <2>1. {staging', part', final', diag'} \subseteq Directories
      BY <1>1 DEF IInv, TypeOK
    <2>2. TypeOK'
      BY <2>1 DEF IInv, TypeOK, Labels, Guarded
    <2>3. PublishedIsComplete' /\ StagingAt'
      BY DEF IInv, PublishedIsComplete, StagingAt
    <2>4. capture = "none" /\ ~diag.there /\ ~final.there
      BY DEF IInv, DiagnosticAt, OneOutcomeAt, Leaving, Diagnosing, Removing
    <2>5. DiagnosticAt' /\ OneOutcomeAt'
      BY <2>4 DEF DiagnosticAt, OneOutcomeAt
    <2> QED
      BY <2>2, <2>3, <2>5 DEF IInv
  <1>3. CASE UNCHANGED staging /\ \E e \in Raises(pc) : Raise(e)
    <2>1. PICK e \in Raises(pc) : Raise(e)
      BY <1>3
    <2>2. e \in Exceptions
      BY <2>1, RaisedTypes DEF IInv, TypeOK
    <2> QED
      BY <1>1, <1>3, <2>1, <2>2, RaiseInvariant DEF IInv, TypeOK, emitterVars
  <1> QED
    BY <1>2, <1>3

LEMMA WriteMetadataInvariant ==
  ASSUME IInv, WriteMetadata
  PROVE  IInv'
  <1> USE DEF WriteMetadata
  <1>1. staging \in Directories
    BY DEF IInv, TypeOK
  <1>2. CASE staging' = [staging EXCEPT !.meta = "whole"] /\ Proceed("check")
    <2> USE <1>2 DEF Proceed, emitterVars
    <2>1. {staging', part', final', diag'} \subseteq Directories
      BY <1>1 DEF IInv, TypeOK, Directories
    <2>2. TypeOK'
      BY <2>1 DEF IInv, TypeOK, Labels, Guarded
    <2>3. PublishedIsComplete' /\ StagingAt'
      BY <1>1 DEF IInv, PublishedIsComplete, StagingAt, Directories
    <2>4. capture = "none" /\ ~diag.there /\ ~final.there
      BY DEF IInv, DiagnosticAt, OneOutcomeAt, Leaving, Diagnosing, Removing
    <2>5. DiagnosticAt' /\ OneOutcomeAt'
      BY <2>4 DEF DiagnosticAt, OneOutcomeAt
    <2> QED
      BY <2>2, <2>3, <2>5 DEF IInv
  <1>3. CASE \E written \in {"none", "torn"}, e \in Raises(pc) :
               staging' = [staging EXCEPT !.meta = written] /\ Raise(e)
    <2>1. PICK written \in {"none", "torn"}, e \in Raises(pc) :
            staging' = [staging EXCEPT !.meta = written] /\ Raise(e)
      BY <1>3
    <2>2. e \in Exceptions
      BY <2>1, RaisedTypes DEF IInv, TypeOK
    <2>3. staging' \in Directories
      BY <1>1, <2>1 DEF Directories
    <2> QED
      BY <2>1, <2>2, <2>3, RaiseInvariant DEF IInv, TypeOK, emitterVars
  <1> QED
    BY <1>2, <1>3

(* A kill in _run_upstream leaves a hidden directory with any log.           *)
LEMMA InferKilledInvariant ==
  ASSUME IInv, InferKilled
  PROVE  IInv'
  <1> USE DEF InferKilled, Proceed, emitterVars
  <1>1. /\ staging' \in Directories
        /\ UNCHANGED <<temp, named, part, final, diag, capture, exc, cause, cut, emitterVars>>
    BY DEF IInv, TypeOK, Directories
  <1>2. TypeOK'
    BY <1>1 DEF IInv, TypeOK, Labels
  <1>3. capture = "none" /\ ~diag.there /\ ~final.there
    BY DEF IInv, DiagnosticAt, OneOutcomeAt, Leaving, Diagnosing, Removing
  <1>4. PublishedIsComplete' /\ StagingAt' /\ DiagnosticAt' /\ OneOutcomeAt'
    BY <1>3 DEF PublishedIsComplete, StagingAt, DiagnosticAt, OneOutcomeAt
  <1> QED
    BY <1>2, <1>4 DEF IInv

LEMMA InferRaisesInvariant ==
  ASSUME IInv, NEW e \in {"INFERENCE_FAILED", "Interrupt"}, InferRaises(e),
         cut' \subseteq Labels
  PROVE  IInv'
  <1> USE DEF InferRaises
  <1>1. staging \in Directories
    BY DEF IInv, TypeOK
  <1>2. PICK log \in {"none", "raw", "clean"} :
          /\ staging' = [staging EXCEPT !.log = log]
          /\ capture' \in CASE log = "none" -> {"none", "late"}
                            [] log = "raw" -> {"none", "writing"}
                            [] OTHER -> {"none"}
    OBVIOUS
  <1>3. staging' \in Directories
    BY <1>1, <1>2 DEF Directories
  <1>4. capture' \in {"none", "late", "writing", "done"}
    BY <1>2
  <1>5. e \in Exceptions
    BY DEF Exceptions, ProcessFailures, Diagnosed
  <1> QED
    BY <1>3, <1>4, <1>5, RaiseInvariant DEF IInv, TypeOK

-----------------------------------------------------------------------------
(* The diagnostic: no result exists, and the log copied is the sanitized one.*)
LEMMA DiagnosticInvariant ==
  ASSUME IInv, Sanitize \/ MakePart \/ CopyLog \/ WriteFailure \/ PublishDiagnostic
  PROVE  IInv'
  <1> USE DEF Sanitize, MakePart, CopyLog, WriteFailure, PublishDiagnostic, Proceed, emitterVars
  <1>1. /\ staging \in Directories /\ part \in Directories
        /\ {final, diag} \subseteq Directories
        /\ Absent \in Directories /\ Empty \in Directories
    BY DEF IInv, TypeOK, Absent, Empty, Directories
  <1>2. /\ staging' \in Directories /\ part' \in Directories /\ diag' \in Directories
        /\ UNCHANGED <<final, exc, cause, cut, failed, terminal, sent, temp, named>>
    BY <1>1 DEF Directories
  <1>3. pc \in Diagnosing /\ pc' \in {"d_part", "d_copy", "d_meta", "d_rename", "d_log"}
    BY DEF Diagnosing
  <1>4. ~final.there /\ ~diag.there
    BY <1>3 DEF IInv, OneOutcomeAt, Diagnosing, Removing, Leaving
  <1>5. TypeOK'
    <2>1. {staging', part', final', diag'} \subseteq Directories
      BY <1>1, <1>2
    <2>2. pc' \in Labels
      BY <1>3 DEF Labels, Diagnosing
    <2>3. capture' \in {"none", "late", "writing", "done"}
      BY DEF IInv, TypeOK
    <2> QED
      BY <1>2, <2>1, <2>2, <2>3 DEF IInv, TypeOK
  <1>6. StagingAt'
    BY <1>3 DEF StagingAt
  <1>7. DiagnosticAt'
    BY <1>1, <1>3 DEF IInv, DiagnosticAt, Diagnosing, Leaving, Directories
  <1>8. PublishedIsComplete'
    BY <1>2, <1>4 DEF IInv, DiagnosticAt, PublishedIsComplete
  <1>9. OneOutcomeAt'
    BY <1>2, <1>3, <1>4 DEF OneOutcomeAt, Leaving, Diagnosing
  <1> QED
    BY <1>5, <1>6, <1>7, <1>8, <1>9 DEF IInv

(* The removals.                                                           *)
LEMMA RemoveInvariant ==
  ASSUME IInv, DropPart \/ RemoveTemp \/ RemoveFiles \/ RemoveDirectory
  PROVE  IInv'
  <1> USE DEF DropPart, RemoveTemp, RemoveFiles, RemoveDirectory, Proceed, emitterVars
  <1>1. /\ Absent \in Directories /\ staging \in Directories /\ part \in Directories
        /\ kept \subseteq Removable
    BY DEF IInv, TypeOK, Absent, Directories
  <1>2. /\ staging' \in Directories /\ part' \in Directories
        /\ UNCHANGED <<final, diag, exc, cause, cut, failed, terminal, sent, named>>
    BY <1>1, RemainsAre
  <1>3. /\ pc \in {"d_clean", "rm_temp", "rm_files", "rm_dir"}
        /\ pc' \in {"rm_temp", "rm_files", "rm_dir", "unlease"}
    OBVIOUS
  <1>4. TypeOK'
    <2>1. {staging', part', final', diag'} \subseteq Directories
      BY <1>2 DEF IInv, TypeOK
    <2>2. pc' \in Labels
      BY <1>3 DEF Labels, Removing
    <2>3. /\ capture' \in {"none", "late", "writing", "done"}
          /\ temp' \in {"absent", "unnamed", "named"}
      BY DEF IInv, TypeOK
    <2>4. kept' \subseteq Removable
      BY <1>1 DEF Removable
    <2> QED
      BY <1>2, <2>1, <2>2, <2>3, <2>4 DEF IInv, TypeOK
  <1>5. StagingAt' /\ DiagnosticAt'
    BY <1>3 DEF StagingAt, DiagnosticAt, Leaving, Removing
  <1>6. PublishedIsComplete'
    BY <1>2 DEF IInv, PublishedIsComplete
  <1>7. OneOutcomeAt'
    BY <1>2, <1>3 DEF IInv, OneOutcomeAt, Leaving, Removing, Diagnosing
  <1> QED
    BY <1>4, <1>5, <1>6, <1>7 DEF IInv

(* The late thread: it runs after an exception only, and it does not hold    *)
(* the log any more once that is sanitized.                                *)
LEMMA CaptureInvariant ==
  ASSUME IInv, CaptureOpens \/ CaptureWrites
  PROVE  IInv'
  <1> USE DEF CaptureOpens, CaptureWrites, emitterVars
  <1>1. pc \in Leaving /\ staging \in Directories
    BY DEF IInv, TypeOK, DiagnosticAt
  <1>2. /\ staging' \in Directories
        /\ UNCHANGED <<pc, part, final, diag, exc, cause, cut, failed, terminal, sent, temp,
                       named>>
    BY <1>1 DEF Directories
  <1>3. TypeOK'
    <2>1. {staging', part', final', diag'} \subseteq Directories
      BY <1>2 DEF IInv, TypeOK
    <2>2. capture' \in {"none", "late", "writing", "done"}
      OBVIOUS
    <2> QED
      BY <1>2, <2>1, <2>2 DEF IInv, TypeOK
  <1>4. StagingAt'
    BY <1>1, <1>2 DEF StagingAt, Leaving, Diagnosing, Removing
  <1>5. DiagnosticAt'
    BY <1>1, <1>2 DEF IInv, DiagnosticAt
  <1>6. PublishedIsComplete' /\ OneOutcomeAt'
    BY <1>2 DEF IInv, PublishedIsComplete, OneOutcomeAt
  <1> QED
    BY <1>3, <1>4, <1>5, <1>6 DEF IInv

-----------------------------------------------------------------------------
LEMMA NextInvariant == IInv /\ [Next]_vars => IInv'
  <1> SUFFICES ASSUME IInv, [Next]_vars PROVE IInv'
    OBVIOUS
  <1>1. CASE Pass \/ Except
    BY <1>1, PassInvariant, ExceptInvariant
  <1>2. CASE Refuse \/ EmitFails \/ DoneFails \/ Interrupt
    BY <1>2, RefuseInvariant
  <1>3. CASE Prepare \/ Prepared \/ Infer \/ Convert \/ Published \/ Publish
    BY <1>3, RunInvariant
  <1>4. CASE MakeStaging \/ WriteMetadata
    BY <1>4, MakeStagingInvariant, WriteMetadataInvariant
  <1>5. CASE InferFails
    BY <1>5, InferRaisesInvariant DEF InferFails, IInv, TypeOK
  <1>6. CASE InferInterrupted
    <2>1. cut' \subseteq Labels
      BY <1>6 DEF InferInterrupted, IInv, TypeOK
    <2> QED
      BY <1>6, <2>1, InferRaisesInvariant DEF InferInterrupted
  <1>7. CASE Sanitize \/ MakePart \/ CopyLog \/ WriteFailure \/ PublishDiagnostic
    BY <1>7, DiagnosticInvariant
  <1>8. CASE DropPart \/ RemoveTemp \/ RemoveFiles \/ RemoveDirectory
    BY <1>8, RemoveInvariant
  <1>9. CASE \/ DiagnosticFails \/ AnnounceDiagnostic \/ Unlease \/ Done \/ Report
             \/ ReportFails \/ Bootstrap \/ Kill
    BY <1>9, HandlerInvariant
  <1>10. CASE CaptureOpens \/ CaptureWrites
    BY <1>10, CaptureInvariant
  <1>11. CASE InferKilled
    BY <1>11, InferKilledInvariant
  <1>12. CASE UNCHANGED vars
    BY <1>12 DEF vars, fileVars, emitterVars, IInv, TypeOK, PublishedIsComplete, StagingAt,
                 DiagnosticAt, OneOutcomeAt
  <1> QED
    BY <1>1, <1>2, <1>3, <1>4, <1>5, <1>6, <1>7, <1>8, <1>9, <1>10, <1>11, <1>12 DEF Next

LEMMA Invariant == Spec => []IInv
  BY InitInvariant, NextInvariant, PTL DEF Spec

(* Every variable of a run has its type.                                   *)
THEOREM RunTypeCorrect == Spec => []TypeOK
  <1>1. IInv => TypeOK
    BY DEF IInv
  <1> QED
    BY <1>1, Invariant, PTL

(* handle_request and _publish_failure_diagnostic show complete directories  *)
(* with sanitized logs only, whatever fails, is interrupted or is killed.    *)
THEOREM PublicationIsComplete == Spec => []PublishedIsComplete
  <1>1. IInv => PublishedIsComplete
    BY DEF IInv
  <1> QED
    BY <1>1, Invariant, PTL
-----------------------------------------------------------------------------
(* A second invariant on top of IInv: the terminal records, the exception on *)
(* its way up and what is left to remove, at each step.                     *)
Answering == {"report", "bootstrap", "exit", "killed"}
Settled == {"unlease", "done"} \cup Answering

(* No terminal record is tried before done, and the handler that runs after  *)
(* one has failed can see that it was tried.                                *)
AnswerInv ==
  /\ pc \notin Answering => sent = <<>> /\ ~terminal
  /\ pc = "report" => (terminal => failed) /\ (sent # <<>> => terminal)
  /\ pc = "bootstrap" => sent = <<>> \/ "report" \in cut
  /\ AnsweredOnce

(* No exception in the try, one in its handlers.                            *)
ExceptionAt ==
  /\ pc \notin Leaving \/ pc = "done" => exc = "none"
  /\ pc \in Diagnosing \cup {"except", "d_clean", "d_log"} => exc # "none"

(* The directories on the way to a result, and after it without exception.  *)
Result == final.there /\ ~staging.there /\ ~part.there
CopyIsGone == temp = "absent" \/ "temp" \in kept
ResultAt ==
  /\ pc \notin Leaving => ~part.there
  /\ pc \in {"command", "infer", "select", "convert", "metadata", "check", "publish"} =>
       staging.there
  /\ pc \in Guarded \ {"prepare", "prepared"} => temp = "named"
  /\ pc \in {"published", "recheck", "complete"} => Result
  /\ pc \in Removing \cup {"unlease", "done"} /\ exc = "none" =>
       Result /\ IF pc = "rm_temp" THEN temp = "named" ELSE CopyIsGone

(* The exception raised first is the one on its way, and the one reported.  *)
FirstInv ==
  cut = {} =>
    /\ pc \notin Answering => exc = cause.exc
    /\ pc = "report" =>
         terminal \/ exc = IF cause.exc = "OSError" THEN "SETUP_INVALID" ELSE cause.exc

(* What the handlers still have to remove, and can, or failed to remove.     *)
NothingAt ==
  /\ temp = "unnamed" => pc = "prepared" \/ "temp" \in kept
  /\ temp = "named" => \/ "temp" \in kept
                       \/ pc \in (Guarded \ {"prepare", "prepared"}) \cup Diagnosing
                                \cup {"except", "d_clean", "d_log", "rm_temp"}
  /\ staging.there => named /\ pc \in Guarded \cup Leaving
  /\ part.there => pc \in Diagnosing \cup {"d_clean"} \/ "part" \in kept
  /\ staging.there /\ capture = "none" =>
       pc \in Guarded \cup (Leaving \ Settled) \/ "staging" \in kept
  /\ pc = "rm_dir" /\ staging.there /\ capture = "none" =>
       staging = Empty \/ "staging" \in kept

NothingInv == cut \cap Unprotected = {} /\ pc # "killed" => NothingAt

-----------------------------------------------------------------------------
(* What a Raise does, for the cases above.                                  *)
LEMMA CatcherCases ==
  ASSUME NEW step \in Labels
  PROVE  /\ step \notin Answering => Catcher(step) \notin {"exit", "killed"}
         /\ step \in {"import", "report"} => Catcher(step) = "bootstrap"
         /\ Catcher(step) = "bootstrap" => step \in {"import", "report"}
         /\ step \in {"read", "lease", "unlease", "done"} => Catcher(step) = "report"
         /\ Catcher(step) = "report" => step \in {"read", "lease", "unlease", "done"}
         /\ step \in {"validate", "authenticate"} \cup Removing => Catcher(step) = "unlease"
         /\ Catcher(step) = "unlease" => step \in {"validate", "authenticate"} \cup Removing
         /\ step \in {"except", "d_clean", "d_log"} => Catcher(step) = "rm_temp"
         /\ Catcher(step) = "rm_temp" => step \in {"except", "d_clean", "d_log"}
         /\ step \in Diagnosing => Catcher(step) = "d_clean"
         /\ Catcher(step) = "d_clean" => step \in Diagnosing
  BY DEF Catcher, Labels, Guarded, Diagnosing, Removing, Answering

LEMMA RaisesCases ==
  ASSUME NEW step \in Labels
  PROVE  /\ step \in Leaving => Raises(step) = {}
         /\ "none" \notin Raises(step)
         /\ Raises(step) # {} => step \notin Answering
         /\ step \in {"read", "lease"} => "OSError" \notin Raises(step)
  BY DEF Raises, Labels, Guarded, Diagnosing, Removing, Leaving, Answering,
         ProcessFailures, Diagnosed, Refusals

-----------------------------------------------------------------------------
(* One terminal record.                                                    *)
LEMMA AppendOne ==
  ASSUME NEW r, NEW s, s \in {<<>>, Append(<<>>, r)}
  PROVE  Len(s) <= 1 /\ (s = Append(<<>>, r) => Len(s) = 1)
  <1>1. <<>> \in Seq({r})
    OBVIOUS
  <1>2. Len(Append(<<>>, r)) = 1 /\ Len(<<>>) = 0
    BY <1>1
  <1>3. Len(s) = 0 \/ Len(s) = 1
    BY <1>2
  <1>4. s = Append(<<>>, r) => Len(s) = 1
    BY <1>2
  <1>5. 0 <= 1 /\ 1 <= 1
    OBVIOUS
  <1> QED
    BY <1>3, <1>4, <1>5, Zenon

LEMMA AnswerQuiet ==
  ASSUME IInv, AnswerInv, pc \notin Answering, pc' # "exit",
         UNCHANGED <<terminal, sent>>
  PROVE  AnswerInv'
  BY DEF AnswerInv, AnsweredOnce, Answering

LEMMA AnswerRaise ==
  ASSUME IInv, AnswerInv, pc \notin Answering, NEW e, Raise(e),
         UNCHANGED <<terminal, sent>>
  PROVE  AnswerInv'
  <1>1. pc \in Labels
    BY DEF IInv, TypeOK
  <1> QED
    BY <1>1, CatcherCases, AnswerQuiet DEF Raise

LEMMA AnswerStep == IInv /\ AnswerInv /\ [Next]_vars => AnswerInv'
  <1> SUFFICES ASSUME IInv, AnswerInv, [Next]_vars PROVE AnswerInv'
    OBVIOUS
  <1>0. pc \in Labels /\ sent \in Seq(Records)
    BY DEF IInv, TypeOK
  <1>1. CASE Pass \/ Except
    BY <1>1, AnswerQuiet DEF Pass, Except, Proceed, Following, emitterVars, Answering
  <1>2. CASE Refuse
    <2>1. PICK e \in Raises(pc) : Raise(e)
      BY <1>2 DEF Refuse
    <2> QED
      BY <1>0, <1>2, <2>1, RaisesCases, AnswerRaise DEF Refuse, emitterVars
  <1>3. CASE EmitFails
    BY <1>3, AnswerRaise DEF EmitFails, Emitting, Answering
  <1>4. CASE Prepare \/ Prepared \/ Infer \/ Convert \/ Publish \/ Published
    BY <1>4, AnswerQuiet DEF Prepare, Prepared, Infer, Convert, Publish, Published, Proceed,
       emitterVars, Answering
  <1>5. CASE MakeStaging \/ WriteMetadata
    BY <1>5, AnswerQuiet, AnswerRaise DEF MakeStaging, WriteMetadata, Proceed, emitterVars,
       Answering
  <1>6. CASE InferFails \/ InferInterrupted
    BY <1>6, AnswerRaise DEF InferFails, InferInterrupted, InferRaises, Answering
  <1>7. CASE Sanitize \/ MakePart \/ CopyLog \/ WriteFailure \/ PublishDiagnostic
    BY <1>7, AnswerQuiet DEF Sanitize, MakePart, CopyLog, WriteFailure, PublishDiagnostic,
       Proceed, emitterVars, Answering
  <1>8. CASE DiagnosticFails \/ DropPart \/ AnnounceDiagnostic
    BY <1>8, AnswerQuiet DEF DiagnosticFails, DropPart, AnnounceDiagnostic, Diagnosing,
       Proceed, emitterVars, Answering
  <1>9. CASE RemoveTemp \/ RemoveFiles \/ RemoveDirectory \/ Unlease
    BY <1>9, AnswerQuiet DEF RemoveTemp, RemoveFiles, RemoveDirectory, Unlease, Proceed,
       emitterVars, Answering
  <1>10. CASE Done \/ DoneFails
    <2>1. pc = "done" /\ sent = <<>> /\ terminal'
      BY <1>10 DEF Done, DoneFails, AnswerInv, Answering
    <2>2. Len(sent') <= 1 /\ (Done => Len(sent') = 1)
      BY <1>10, <2>1, AppendOne DEF Done, DoneFails
    <2>3. \/ pc' = "exit" /\ Done
          \/ pc' = "report" /\ failed'
      BY <1>10, <2>1 DEF Done, DoneFails, Proceed, Raise, Catcher, Guarded, Diagnosing, Removing
    <2> QED
      BY <2>1, <2>2, <2>3 DEF AnswerInv, AnsweredOnce, Answering
  <1>11. CASE Report \/ ReportFails
    <2>1. pc = "report" /\ pc' = "exit" /\ cut' = cut
      BY <1>11 DEF Report, ReportFails, Proceed
    <2>2. CASE terminal \/ failed
      <3>1. UNCHANGED <<terminal, sent, failed>> /\ failed
        BY <1>11, <2>1, <2>2 DEF Report, ReportFails, AnswerInv
      <3> QED
        BY <2>1, <3>1 DEF AnswerInv, AnsweredOnce, Answering
    <2>3. CASE ~terminal /\ ~failed
      <3>1. sent = <<>>
        BY <2>1, <2>3 DEF AnswerInv
      <3>2. Len(sent') <= 1 /\ (~failed' => Len(sent') = 1)
        BY <1>11, <2>3, <3>1, AppendOne DEF Report, ReportFails
      <3> QED
        BY <2>1, <3>2 DEF AnswerInv, AnsweredOnce, Answering
    <2> QED
      BY <2>2, <2>3
  <1>12. CASE Bootstrap
    <2>1. pc = "bootstrap" /\ pc' = "exit" /\ cut' = cut
      BY <1>12 DEF Bootstrap, Proceed
    <2>2. CASE sent = <<>>
      <3>1. Len(sent') <= 1 /\ (~failed' => Len(sent') = 1)
        BY <1>12, <2>2 DEF Bootstrap
      <3> QED
        BY <2>1, <3>1 DEF AnswerInv, AnsweredOnce, Answering
    <2>3. CASE "report" \in cut
      BY <2>1, <2>3 DEF AnswerInv, AnsweredOnce, Answering
    <2> QED
      BY <2>1, <2>2, <2>3 DEF AnswerInv
  <1>13. CASE Interrupt
    <2>1. CASE pc \in {"report", "bootstrap"}
      <3>1. pc' = (IF pc = "report" THEN "bootstrap" ELSE "exit") /\ pc \in cut'
        BY <1>13, <2>1 DEF Interrupt, Raise, Catcher, Guarded, Diagnosing, Removing
      <3> QED
        BY <2>1, <3>1 DEF AnswerInv, AnsweredOnce, Answering
    <2>2. CASE pc \notin Answering
      BY <1>13, <2>2, AnswerRaise DEF Interrupt
    <2> QED
      BY <1>13, <2>1, <2>2 DEF Interrupt, Answering
  <1>14. CASE Kill \/ InferKilled \/ CaptureOpens \/ CaptureWrites \/ UNCHANGED vars
    BY <1>14 DEF Kill, InferKilled, CaptureOpens, CaptureWrites, vars, Proceed, emitterVars,
       AnswerInv, AnsweredOnce, Answering
  <1> QED
    BY <1>1, <1>2, <1>3, <1>4, <1>5, <1>6, <1>7, <1>8, <1>9, <1>10, <1>11, <1>12, <1>13,
       <1>14 DEF Next

-----------------------------------------------------------------------------
(* The way to a result, and "done" after it.                                *)
DoneInv == ExceptionAt /\ ResultAt /\ DoneMeansResult

LEMMA AppendElements ==
  ASSUME NEW s \in Seq(Records), NEW r \in Records, NEW i \in 1..Len(Append(s, r))
  PROVE  Append(s, r)[i] = r \/ (i \in 1..Len(s) /\ Append(s, r)[i] = s[i])
  OBVIOUS

(* Before an answer nothing is claimed of it.                               *)
LEMMA DoneUnsaid ==
  ASSUME AnswerInv, pc \notin Answering, UNCHANGED sent
  PROVE  DoneMeansResult'
  <1>1. sent' = <<>>
    BY DEF AnswerInv
  <1>2. 1..Len(sent') = {}
    BY <1>1
  <1> QED
    BY <1>2 DEF DoneMeansResult

LEMMA DoneRaise ==
  ASSUME IInv, AnswerInv, DoneInv, pc \notin Answering, UNCHANGED sent,
         NEW e, e # "none", Raise(e)
  PROVE  DoneInv'
  <1>1. pc \in Labels
    BY DEF IInv, TypeOK
  <1>2. pc' \in {"bootstrap", "report", "unlease", "except", "rm_temp", "d_clean", "exit"}
    BY <1>1, CatcherLabels DEF Raise
  <1>3. exc' # "none"
    BY DEF Raise
  <1>4. ExceptionAt'
    BY <1>2, <1>3 DEF ExceptionAt, Leaving, Removing
  <1>5. ResultAt'
    BY <1>2, <1>3 DEF ResultAt, Leaving, Removing, Guarded
  <1> QED
    BY <1>4, <1>5, DoneUnsaid DEF DoneInv

(* After an answer: the directories it speaks of stay as they are.           *)
LEMMA DoneAnswering ==
  ASSUME IInv, DoneInv, pc \in Answering, pc' \in Answering, UNCHANGED final,
         UNCHANGED <<part, temp, kept>>, staging'.there = staging.there,
         NEW r \in Records \ {"done"}, sent' \in {sent, Append(sent, r)}
  PROVE  DoneInv'
  <1>1. ExceptionAt' /\ ResultAt'
    BY DEF ExceptionAt, ResultAt, Answering, Leaving, Diagnosing, Removing, Guarded
  <1>2. sent \in Seq(Records)
    BY DEF IInv, TypeOK
  <1>3. ASSUME NEW i \in 1..Len(sent'), sent'[i] = "done"
        PROVE  i \in 1..Len(sent) /\ sent[i] = "done"
    BY <1>2, <1>3, AppendElements
  <1>4. DoneMeansResult'
    BY <1>3 DEF DoneInv, DoneMeansResult
  <1> QED
    BY <1>1, <1>4 DEF DoneInv

LEMMA DoneStep == IInv /\ AnswerInv /\ DoneInv /\ [Next]_vars => DoneInv'
  <1> SUFFICES ASSUME IInv, AnswerInv, DoneInv, [Next]_vars PROVE DoneInv'
    OBVIOUS
  <1>0. /\ pc \in Labels /\ {staging, part, final} \subseteq Directories
        /\ Empty.there /\ ~Absent.there
    BY DEF IInv, TypeOK, Empty, Absent
  <1>1. CASE Pass
    <2> USE <1>1 DEF Pass, Proceed, Following, fileVars, emitterVars
    <2>1. pc \notin Answering
      BY DEF Answering
    <2>2. ExceptionAt' /\ ResultAt'
      BY DEF DoneInv, ExceptionAt, ResultAt, Result, Leaving, Diagnosing, Removing, Guarded
    <2> QED
      BY <2>1, <2>2, DoneUnsaid DEF DoneInv
  <1>2. CASE Refuse \/ EmitFails
    <2>1. PICK e \in Exceptions : Raise(e) /\ e # "none" /\ pc \notin Answering
      <3>1. CASE Refuse
        <4>1. PICK e \in Raises(pc) : Raise(e)
          BY <3>1 DEF Refuse
        <4> QED
          BY <1>0, <4>1, RaisesCases, RaisedTypes DEF IInv
      <3>2. CASE EmitFails
        BY <3>2 DEF EmitFails, Emitting, Answering, Exceptions
      <3> QED
        BY <1>2, <3>1, <3>2
    <2>2. UNCHANGED sent
      BY <1>2 DEF Refuse, EmitFails, emitterVars
    <2> QED
      BY <2>1, <2>2, DoneRaise
  <1>3. CASE Prepare \/ Prepared \/ Infer \/ Convert \/ Publish \/ Published
    <2> USE <1>3 DEF Prepare, Prepared, Infer, Convert, Publish, Published, Proceed, emitterVars
    <2>1. pc \notin Answering /\ UNCHANGED <<part, sent, exc>>
      BY DEF Answering
    <2>2. ExceptionAt'
      BY DEF DoneInv, ExceptionAt, Leaving, Diagnosing, Removing
    <2>3. ResultAt'
      BY <1>0 DEF DoneInv, ResultAt, Result, Leaving, Diagnosing, Removing, Guarded, Directories
    <2> QED
      BY <2>1, <2>2, <2>3, DoneUnsaid DEF DoneInv
  <1>4. CASE MakeStaging \/ WriteMetadata
    <2>1. pc \in {"staging", "metadata"} /\ pc \notin Answering /\ UNCHANGED <<part, sent, temp>>
      BY <1>4 DEF MakeStaging, WriteMetadata, Answering, emitterVars
    <2>2. CASE \E e \in Raises(pc) : Raise(e)
      <3>1. PICK e \in Raises(pc) : Raise(e)
        BY <2>2
      <3> QED
        BY <1>0, <2>1, <3>1, RaisesCases, DoneRaise
    <2>3. CASE pc = "staging" /\ staging' = Empty /\ Proceed("command")
      <3>1. ExceptionAt' /\ ResultAt'
        BY <1>0, <2>1, <2>3 DEF Proceed, DoneInv, ExceptionAt, ResultAt, Leaving, Diagnosing,
           Removing, Guarded
      <3> QED
        BY <2>1, <3>1, DoneUnsaid DEF DoneInv
    <2>4. CASE /\ pc = "metadata" /\ staging' = [staging EXCEPT !.meta = "whole"]
               /\ Proceed("check")
      <3>1. staging'.there = staging.there
        BY <1>0, <2>4 DEF Directories
      <3>2. ExceptionAt' /\ ResultAt'
        BY <2>1, <2>4, <3>1 DEF Proceed, DoneInv, ExceptionAt, ResultAt, Leaving, Diagnosing,
           Removing, Guarded
      <3> QED
        BY <2>1, <3>2, DoneUnsaid DEF DoneInv
    <2> QED
      BY <1>4, <2>2, <2>3, <2>4 DEF MakeStaging, WriteMetadata
  <1>5. CASE InferFails \/ InferInterrupted
    <2>1. PICK e \in {"INFERENCE_FAILED", "Interrupt"} : InferRaises(e)
      BY <1>5 DEF InferFails, InferInterrupted
    <2> QED
      BY <2>1, DoneRaise DEF InferRaises, Answering
  <1>6. CASE \/ Except \/ Sanitize \/ MakePart \/ CopyLog \/ WriteFailure
             \/ PublishDiagnostic \/ DiagnosticFails \/ DropPart \/ AnnounceDiagnostic
    <2>1. /\ pc \in Diagnosing \cup {"except", "d_clean", "d_log"}
          /\ pc' \in Diagnosing \cup {"d_clean", "d_log", "rm_temp"}
          /\ UNCHANGED <<exc, sent>>
      BY <1>6 DEF Except, Sanitize, MakePart, CopyLog, WriteFailure, PublishDiagnostic,
         DiagnosticFails, DropPart, AnnounceDiagnostic, Proceed, emitterVars, Diagnosing
    <2>2. exc' # "none" /\ pc \notin Answering
      BY <2>1 DEF DoneInv, ExceptionAt, Answering, Diagnosing
    <2>3. ExceptionAt' /\ ResultAt'
      BY <2>1, <2>2 DEF ExceptionAt, ResultAt, Leaving, Diagnosing, Removing, Guarded
    <2> QED
      BY <2>1, <2>2, <2>3, DoneUnsaid DEF DoneInv
  <1>7. CASE RemoveTemp \/ RemoveFiles \/ RemoveDirectory \/ Unlease
    <2> USE <1>7 DEF RemoveTemp, RemoveFiles, RemoveDirectory, Unlease, Proceed, emitterVars,
        fileVars
    <2>1. pc \notin Answering /\ UNCHANGED <<part, final, sent>>
      BY DEF Answering
    <2>2. exc' = "none" => exc = "none"
      OBVIOUS
    <2>3. ~staging.there => ~staging'.there
      BY <1>0
    <2>4. ExceptionAt'
      BY DEF ExceptionAt, Leaving, Diagnosing, Removing
    <2>5. ResultAt'
      BY <2>1, <2>2, <2>3 DEF DoneInv, ResultAt, Result, CopyIsGone, Leaving, Diagnosing,
         Removing, Guarded
    <2> QED
      BY <2>1, <2>4, <2>5, DoneUnsaid DEF DoneInv
  <1>8. CASE Done
    <2> USE <1>8 DEF Done, Proceed, fileVars
    <2>1. Result /\ CopyIsGone
      BY DEF DoneInv, ExceptionAt, ResultAt, Removing
    <2>2. ExceptionAt' /\ ResultAt'
      BY DEF ExceptionAt, ResultAt, Leaving, Diagnosing, Removing, Guarded
    <2> QED
      BY <2>1, <2>2 DEF DoneInv, DoneMeansResult, Result, CopyIsGone
  <1>9. CASE DoneFails
    <2> USE <1>9 DEF DoneFails, fileVars
    <2>1. Result /\ CopyIsGone
      BY DEF DoneInv, ExceptionAt, ResultAt, Removing
    <2>2. pc' = "report"
      BY DEF Raise, Catcher, Guarded, Diagnosing, Removing
    <2>3. ExceptionAt' /\ ResultAt'
      BY <2>2 DEF ExceptionAt, ResultAt, Leaving, Diagnosing, Removing, Guarded
    <2> QED
      BY <2>1, <2>3 DEF DoneInv, DoneMeansResult, Result, CopyIsGone
  <1>10. CASE Report \/ ReportFails \/ Bootstrap
    <2>1. PICK r \in Records \ {"done"} : sent' \in {sent, Append(sent, r)}
      <3>1. Public(exc) \in Records \ {"done"} /\ "BOOTSTRAP" \in Records \ {"done"}
        BY DEF Public, Records, ProcessFailures, Diagnosed, Refusals
      <3> QED
        BY <1>10, <3>1 DEF Report, ReportFails, Bootstrap
    <2>2. pc \in Answering /\ pc' \in Answering /\ UNCHANGED fileVars
      BY <1>10 DEF Report, ReportFails, Bootstrap, Proceed, Answering
    <2> QED
      BY <2>1, <2>2, DoneAnswering DEF fileVars
  <1>11. CASE Interrupt
    <2>1. /\ Raise(Interrupted(pc)) /\ UNCHANGED <<sent, staging, final, part>>
          /\ pc \notin {"exit", "killed"}
      BY <1>11 DEF Interrupt
    <2>2. CASE pc \in Answering
      <3>1. pc' \in Answering
        BY <2>1, <2>2 DEF Raise, Catcher, Guarded, Diagnosing, Removing, Answering
      <3>2. "UNEXPECTED" \in Records \ {"done"}
        BY DEF Records
      <3> QED
        BY <1>11, <2>1, <2>2, <3>1, <3>2, DoneAnswering DEF Interrupt, DropsInput, Answering
    <2>3. CASE pc \notin Answering
      <3>1. Interrupted(pc) # "none"
        BY DEF Interrupted, DoneInv, ExceptionAt
      <3> QED
        BY <2>1, <2>3, <3>1, DoneRaise
    <2> QED
      BY <2>2, <2>3
  <1>12. CASE Kill \/ InferKilled
    <2>1. /\ pc' = "killed" /\ UNCHANGED sent /\ "UNEXPECTED" \in Records \ {"done"}
          /\ pc \in Answering => UNCHANGED fileVars
      BY <1>12 DEF Kill, InferKilled, Proceed, emitterVars, Records, Answering
    <2>2. CASE pc \in Answering
      BY <2>1, <2>2, DoneAnswering DEF fileVars, Answering
    <2>3. CASE pc \notin Answering
      <3>1. ExceptionAt' /\ ResultAt'
        BY <2>1 DEF ExceptionAt, ResultAt, Leaving, Diagnosing, Removing, Guarded
      <3> QED
        BY <2>1, <2>3, <3>1, DoneUnsaid DEF DoneInv
    <2> QED
      BY <2>2, <2>3
  <1>13. CASE CaptureOpens \/ CaptureWrites
    <2>1. /\ staging'.there = staging.there
          /\ UNCHANGED <<pc, exc, temp, part, final, kept, sent>>
      BY <1>0, <1>13 DEF CaptureOpens, CaptureWrites, emitterVars, Directories
    <2> QED
      BY <2>1 DEF DoneInv, ExceptionAt, ResultAt, Result, CopyIsGone, DoneMeansResult
  <1>14. CASE UNCHANGED vars
    BY <1>14 DEF vars, fileVars, emitterVars, DoneInv, ExceptionAt, ResultAt, Result,
       CopyIsGone, DoneMeansResult
  <1> QED
    BY <1>1, <1>2, <1>3, <1>4, <1>5, <1>6, <1>7, <1>8, <1>9, <1>10, <1>11, <1>12, <1>13,
       <1>14 DEF Next

-----------------------------------------------------------------------------
(* The first exception is the one reported.                                 *)
LEMMA FirstUnsaid ==
  ASSUME AnswerInv, pc \notin Answering, UNCHANGED sent
  PROVE  FirstErrorIsSent'
  <1>1. sent' = <<>>
    BY DEF AnswerInv
  <1>2. 1..Len(sent') = {}
    BY <1>1
  <1> QED
    BY <1>2 DEF FirstErrorIsSent

(* A raise in the try is the first one: the body has none on its way.        *)
LEMMA FirstRaise ==
  ASSUME IInv, AnswerInv, DoneInv, FirstInv, pc \notin Leaving, UNCHANGED <<sent, cut>>,
         NEW e, Raise(e),
         pc \in {"read", "lease"} => e # "OSError"
  PROVE  FirstInv' /\ FirstErrorIsSent'
  <1>1. pc \in Labels /\ pc \notin Answering
    BY DEF IInv, TypeOK, Leaving, Answering
  <1>2. FirstErrorIsSent'
    BY <1>1, FirstUnsaid
  <1>3. exc = "none"
    BY DEF DoneInv, ExceptionAt
  <1>4. cut = {} => exc' = e /\ cause'.exc = e
    BY <1>1, <1>3 DEF FirstInv, Raise
  <1>5. pc' = "report" => e # "OSError"
    BY <1>1, CatcherCases DEF Raise, Leaving
  <1> QED
    BY <1>2, <1>4, <1>5 DEF FirstInv

(* Steps that raise nothing before the answer.                              *)
LEMMA FirstQuiet ==
  ASSUME AnswerInv, FirstInv, pc \notin Answering, pc' # "report",
         UNCHANGED <<exc, cause, cut, sent>>
  PROVE  FirstInv' /\ FirstErrorIsSent'
  BY FirstUnsaid DEF FirstInv

LEMMA FirstStep ==
  /\ IInv /\ AnswerInv /\ DoneInv /\ FirstInv /\ FirstErrorIsSent
  /\ [Next]_vars
  => FirstInv' /\ FirstErrorIsSent'
  <1> SUFFICES ASSUME IInv, AnswerInv, DoneInv, FirstInv, FirstErrorIsSent, [Next]_vars
               PROVE  FirstInv' /\ FirstErrorIsSent'
    OBVIOUS
  <1>0. pc \in Labels /\ sent \in Seq(Records) /\ exc \in Exceptions \cup {"none"}
    BY DEF IInv, TypeOK
  <1>1. CASE Pass \/ Except
    BY <1>1, FirstQuiet DEF Pass, Except, Proceed, Following, emitterVars, Answering
  <1>2. CASE Refuse
    <2>1. PICK e \in Raises(pc) : Raise(e)
      BY <1>2 DEF Refuse
    <2> QED
      BY <1>0, <1>2, <2>1, RaisesCases, FirstRaise DEF Refuse, emitterVars
  <1>3. CASE EmitFails
    BY <1>3, FirstRaise DEF EmitFails, Emitting, Leaving, Diagnosing, Removing
  <1>4. CASE Prepare \/ Prepared \/ Infer \/ Convert \/ Publish \/ Published
    BY <1>4, FirstQuiet DEF Prepare, Prepared, Infer, Convert, Publish, Published, Proceed,
       emitterVars, Answering
  <1>5. CASE MakeStaging \/ WriteMetadata
    <2>1. /\ pc \in {"staging", "metadata"} /\ pc \notin Answering /\ pc \notin Leaving
          /\ UNCHANGED <<sent, cut>>
      BY <1>5 DEF MakeStaging, WriteMetadata, Answering, Leaving, Diagnosing, Removing,
         emitterVars
    <2> QED
      BY <1>5, <2>1, FirstQuiet, FirstRaise DEF MakeStaging, WriteMetadata, Proceed
  <1>6. CASE InferFails
    BY <1>6, FirstRaise DEF InferFails, InferRaises, Leaving, Diagnosing, Removing
  <1>7. CASE InferInterrupted \/ Interrupt
    <2>1. cut' # {}
      BY <1>7 DEF InferInterrupted, Interrupt
    <2> QED
      BY <2>1 DEF FirstInv, FirstErrorIsSent
  <1>8. CASE \/ Sanitize \/ MakePart \/ CopyLog \/ WriteFailure
             \/ PublishDiagnostic \/ DiagnosticFails \/ DropPart \/ AnnounceDiagnostic
             \/ RemoveTemp \/ RemoveFiles \/ RemoveDirectory
    <2>1. /\ pc \in Diagnosing \cup {"d_clean", "d_log"} \cup Removing
          /\ pc' # "report"
          /\ UNCHANGED <<exc, cause, cut, sent>>
      BY <1>8 DEF Sanitize, MakePart, CopyLog, WriteFailure, PublishDiagnostic,
         DiagnosticFails, DropPart, AnnounceDiagnostic, RemoveTemp, RemoveFiles,
         RemoveDirectory, Proceed, emitterVars, Diagnosing, Removing
    <2> QED
      BY <2>1, FirstQuiet DEF Answering, Diagnosing, Removing
  <1>9. CASE Unlease
    <2>1. pc \notin Answering /\ UNCHANGED sent
      BY <1>9 DEF Unlease, emitterVars, Answering
    <2>2. FirstInv'
      BY <1>9, <2>1 DEF Unlease, FirstInv, Answering
    <2> QED
      BY <2>1, <2>2, FirstUnsaid
  <1>10. CASE Done \/ DoneFails
    <2>1. /\ sent = <<>> /\ cut' = cut /\ terminal'
          /\ pc' \in {"exit", "report"}
      BY <1>10 DEF Done, DoneFails, AnswerInv, Answering, Proceed, Raise, Catcher, Guarded,
         Diagnosing, Removing
    <2>2. sent' \in {<<>>, <<"done">>}
      BY <1>10, <2>1 DEF Done, DoneFails
    <2>3. \A i \in 1..Len(sent') : sent'[i] = "done"
      BY <2>2
    <2> QED
      BY <2>1, <2>3 DEF FirstInv, FirstErrorIsSent, Answering
  <1>11. CASE Report \/ ReportFails \/ Bootstrap
    <2>1. /\ pc \in {"report", "bootstrap"} /\ pc' = "exit"
          /\ UNCHANGED <<exc, cause, cut>>
          /\ \/ UNCHANGED sent
             \/ pc = "report" /\ ~terminal /\ sent' = Append(sent, Public(exc))
             \/ sent' = Append(sent, "BOOTSTRAP")
      BY <1>11 DEF Report, ReportFails, Bootstrap, Proceed
    <2>2. FirstInv'
      BY <2>1 DEF FirstInv, Answering
    <2>3. Public(exc) \in Records /\ "BOOTSTRAP" \in Records
      BY DEF Public, Records
    <2>4. CASE UNCHANGED sent
      BY <2>1, <2>2, <2>4 DEF FirstErrorIsSent
    <2>5. CASE pc = "report" /\ ~terminal /\ sent' = Append(sent, Public(exc))
      <3>1. cut = {} =>
              Public(exc) = IF cause.exc = "OSError" THEN "SETUP_INVALID" ELSE Public(cause.exc)
        BY <2>5 DEF FirstInv, Public, ProcessFailures, Refusals
      <3>2. \A i \in 1..Len(sent') :
              sent'[i] = Public(exc) \/ (i \in 1..Len(sent) /\ sent'[i] = sent[i])
        BY <1>0, <2>3, <2>5, AppendElements
      <3> QED
        BY <2>1, <2>2, <3>1, <3>2 DEF FirstErrorIsSent
    <2>6. CASE sent' = Append(sent, "BOOTSTRAP")
      <3>1. \A i \in 1..Len(sent') :
              sent'[i] = "BOOTSTRAP" \/ (i \in 1..Len(sent) /\ sent'[i] = sent[i])
        BY <1>0, <2>3, <2>6, AppendElements
      <3> QED
        BY <2>1, <2>2, <3>1 DEF FirstErrorIsSent
    <2> QED
      BY <2>1, <2>4, <2>5, <2>6
  <1>12. CASE Kill \/ InferKilled
    <2>1. pc' = "killed" /\ UNCHANGED <<exc, cause, cut, sent>>
      BY <1>12 DEF Kill, InferKilled, Proceed, emitterVars
    <2> QED
      BY <2>1 DEF FirstInv, FirstErrorIsSent, Answering
  <1>13. CASE CaptureOpens \/ CaptureWrites \/ UNCHANGED vars
    BY <1>13 DEF CaptureOpens, CaptureWrites, vars, emitterVars, FirstInv, FirstErrorIsSent
  <1> QED
    BY <1>1, <1>2, <1>3, <1>4, <1>5, <1>6, <1>7, <1>8, <1>9, <1>10, <1>11, <1>12, <1>13
       DEF Next

-----------------------------------------------------------------------------
(* Nothing is left.  An exception at a protected step goes to a handler that *)
(* removes what the step has made.                                         *)
LEMMA NothingRaise ==
  ASSUME IInv, NothingInv, pc \notin {"exit", "killed"}, NEW e, Raise(e),
         cut \subseteq cut', pc \in Unprotected => pc \in cut',
         DropsInput, part' = part, staging'.there = staging.there,
         named' \in BOOLEAN, named => named', pc = "infer" \/ capture' = capture
  PROVE  NothingInv'
  <1>1. pc \in Labels /\ named \in BOOLEAN
    BY DEF IInv, TypeOK
  <1> SUFFICES ASSUME cut' \cap Unprotected = {} PROVE NothingAt'
    BY DEF NothingInv
  <1>2. NothingAt /\ pc \notin Unprotected
    BY DEF NothingInv
  <1>3. pc' = Catcher(pc)
    BY DEF Raise
  <1>4. /\ pc' \in {"bootstrap", "report", "unlease", "except", "rm_temp", "d_clean", "exit"}
        /\ pc \in Guarded => pc' = "except"
        /\ pc \in {"except", "d_log"} => pc' = "rm_temp"
        /\ pc \in Diagnosing => pc' = "d_clean"
    BY <1>1, <1>3, CatcherLabels, CatcherCases
  <1>5. /\ temp \in {"absent", "unnamed", "named"} /\ kept \subseteq kept'
        /\ temp' = temp \/ (temp' = "unnamed" /\ "temp" \in kept')
    BY DEF IInv, TypeOK, DropsInput
  <1>6. /\ temp' = "unnamed" => "temp" \in kept'
        /\ temp' = "named" => pc' \in {"except", "d_clean", "rm_temp"} \/ "temp" \in kept'
    BY <1>2, <1>4, <1>5 DEF NothingAt, Unprotected, Removing
  <1>7. /\ part'.there => pc' = "d_clean" \/ "part" \in kept'
        /\ staging'.there => named'
    BY <1>2, <1>4, <1>5 DEF NothingAt, Unprotected
  <1>8. staging'.there /\ capture' = "none" =>
          pc' \in {"except", "d_clean", "rm_temp"} \/ "staging" \in kept'
    <2>1. CASE pc = "infer"
      BY <2>1, <1>4 DEF Guarded
    <2>2. CASE capture' = capture
      BY <2>2, <1>2, <1>4, <1>5 DEF NothingAt, Unprotected, Removing, Leaving, Settled, Answering
    <2> QED
      BY <2>1, <2>2
  <1>9. pc' \in Leaving /\ pc' # "rm_dir"
    BY <1>4 DEF Leaving, Removing
  <1> QED
    BY <1>6, <1>7, <1>8, <1>9 DEF NothingAt, Leaving, Settled, Answering

LEMMA NothingStep == IInv /\ AnswerInv /\ DoneInv /\ NothingInv /\ [Next]_vars => NothingInv'
  <1> SUFFICES ASSUME IInv, AnswerInv, DoneInv, NothingInv, [Next]_vars PROVE NothingInv'
    OBVIOUS
  <1>0. /\ pc \in Labels /\ {staging, part} \subseteq Directories /\ named \in BOOLEAN
        /\ temp \in {"absent", "unnamed", "named"}
        /\ Empty \in Directories /\ Empty.there /\ Absent \in Directories /\ ~Absent.there
    BY DEF IInv, TypeOK, Empty, Absent, Directories
  <1>1. CASE Pass
    BY <1>1 DEF Pass, Proceed, Following, fileVars, emitterVars, NothingInv, NothingAt,
       Guarded, Leaving, Diagnosing, Removing, Settled, Answering, DoneInv, ResultAt, Result
  <1>2. CASE Refuse
    <2>1. PICK e \in Raises(pc) : Raise(e)
      BY <1>2 DEF Refuse
    <2>2. pc \notin Unprotected /\ pc \notin {"exit", "killed"}
      BY <2>1 DEF Raises, Unprotected, Removing
    <2> QED
      BY <1>0, <1>2, <2>1, <2>2, NothingRaise DEF Refuse
  <1>3. CASE EmitFails
    BY <1>0, <1>3, NothingRaise
    DEF EmitFails, Emitting, DropsInput, fileVars, Unprotected, Removing
  <1>4. CASE Prepare \/ Prepared \/ Infer \/ Convert \/ Publish \/ Published
    <2> USE <1>4 DEF Prepare, Prepared, Infer, Convert, Publish, Published, Proceed, emitterVars
    <2>1. /\ staging'.there => staging.there
          /\ UNCHANGED <<part, capture, cut, kept>>
      BY <1>0 DEF Directories
    <2>2. ~part.there /\ (pc = "published" => ~staging.there)
      BY DEF DoneInv, ResultAt, Result, Leaving, Diagnosing, Removing
    <2> QED
      BY <2>1, <2>2 DEF NothingInv, NothingAt, Guarded, Leaving, Diagnosing, Removing, Settled,
         Answering
  <1>5. CASE MakeStaging \/ WriteMetadata
    <2>1. /\ pc \in {"staging", "metadata"} /\ pc \notin Unprotected
          /\ UNCHANGED <<part, temp, cut, capture, kept>> /\ named' \in BOOLEAN /\ (named => named')
      BY <1>0, <1>5 DEF MakeStaging, WriteMetadata, Unprotected, Removing
    <2>2. CASE \E e \in Raises(pc) : Raise(e) /\ staging'.there = staging.there
      BY <2>1, <2>2, NothingRaise DEF DropsInput
    <2>3. CASE pc = "staging" /\ named' /\ staging' = Empty /\ Proceed("command")
      BY <1>0, <2>1, <2>3 DEF Proceed, NothingInv, NothingAt, Guarded, Leaving, Diagnosing,
         Removing, Settled, Answering
    <2>4. CASE pc = "metadata" /\ staging'.there = staging.there /\ Proceed("check")
      BY <2>1, <2>4 DEF Proceed, NothingInv, NothingAt, Guarded, Leaving, Diagnosing,
         Removing, Settled, Answering
    <2> QED
      BY <1>0, <1>5, <2>2, <2>3, <2>4 DEF MakeStaging, WriteMetadata, Directories
  <1>6. CASE InferFails \/ InferInterrupted
    <2>1. PICK e \in {"INFERENCE_FAILED", "Interrupt"} : InferRaises(e)
      BY <1>6 DEF InferFails, InferInterrupted
    <2>2. cut \subseteq cut' /\ pc = "infer"
      BY <1>6 DEF InferFails, InferInterrupted, InferRaises
    <2>3. staging'.there = staging.there
      BY <1>0, <2>1 DEF InferRaises, Directories
    <2> QED
      BY <1>0, <2>1, <2>2, <2>3, NothingRaise DEF InferRaises, DropsInput, Unprotected, Removing
  <1>7. CASE Except \/ DiagnosticFails \/ AnnounceDiagnostic
    <2>1. /\ UNCHANGED <<fileVars, cut>>
          /\ pc \in Diagnosing \cup {"except", "d_log"}
          /\ pc' \in {"d_sanitize", "d_clean", "rm_temp"}
          /\ pc \in Diagnosing => pc' = "d_clean"
      BY <1>7 DEF Except, DiagnosticFails, AnnounceDiagnostic, Proceed, Diagnosing
    <2> QED
      BY <2>1 DEF fileVars, NothingInv, NothingAt, Guarded, Leaving, Diagnosing, Removing,
         Settled, Answering
  <1>8. CASE Sanitize \/ MakePart \/ CopyLog \/ WriteFailure \/ PublishDiagnostic \/ DropPart
    <2> USE <1>8 DEF Sanitize, MakePart, CopyLog, WriteFailure, PublishDiagnostic, DropPart,
        Proceed, emitterVars
    <2>1. /\ UNCHANGED <<temp, named, cut>> /\ staging'.there = staging.there
          /\ capture' = "none" => capture = "none"
          /\ pc \in Diagnosing \cup {"d_clean"}
          /\ pc' \in {"d_part", "d_copy", "d_meta", "d_rename", "d_log", "rm_temp"}
      BY <1>0 DEF Directories, Diagnosing
    <2>2. /\ pc' \in {"d_log", "rm_temp"} => part' = Absent \/ "part" \in kept'
          /\ kept \subseteq kept'
      OBVIOUS
    <2> QED
      BY <1>0, <2>1, <2>2 DEF NothingInv, NothingAt, Guarded, Leaving, Diagnosing, Removing,
         Settled, Answering
  <1>9. CASE RemoveTemp \/ RemoveFiles \/ RemoveDirectory
    <2> USE <1>9 DEF RemoveTemp, RemoveFiles, RemoveDirectory, Proceed, emitterVars
    <2>1. /\ UNCHANGED <<part, named, cut>> /\ (staging'.there => staging.there)
          /\ capture' = "none" => capture = "none"
          /\ kept \subseteq kept'
      BY <1>0
    <2>2. CASE RemoveTemp
      BY <1>0, <2>1, <2>2 DEF NothingInv, NothingAt, Guarded, Leaving, Diagnosing, Removing,
         Settled, Answering
    <2>3. CASE RemoveFiles
      BY <1>0, <2>1, <2>3 DEF NothingInv, NothingAt, Guarded, Leaving, Diagnosing, Removing,
         Settled, Answering
    <2>4. CASE RemoveDirectory
      BY <1>0, <2>1, <2>4 DEF NothingInv, NothingAt, Guarded, Leaving, Diagnosing, Removing,
         Settled, Answering
    <2> QED
      BY <2>2, <2>3, <2>4
  <1>10. CASE Unlease \/ Done \/ Report \/ ReportFails \/ Bootstrap
    <2>1. /\ UNCHANGED <<fileVars, cut>> /\ pc \in Settled /\ pc # "killed"
          /\ pc' \in {"done", "report", "exit"}
      BY <1>10 DEF Unlease, Done, Report, ReportFails, Bootstrap, Proceed, Settled, Answering
    <2> QED
      BY <2>1 DEF fileVars, NothingInv, NothingAt, Guarded, Leaving, Diagnosing, Removing,
         Settled, Answering
  <1>11. CASE DoneFails
    BY <1>0, <1>11, NothingRaise DEF DoneFails, DropsInput, fileVars, Unprotected, Removing
  <1>12. CASE Interrupt
    <2>1. named' \in BOOLEAN /\ (named => named')
      BY <1>0, <1>12 DEF Interrupt
    <2> QED
      BY <1>12, <2>1, NothingRaise DEF Interrupt
  <1>13. CASE Kill \/ InferKilled
    BY <1>13 DEF Kill, InferKilled, Proceed, NothingInv
  <1>14. CASE CaptureOpens \/ CaptureWrites
    <2>1. /\ staging'.there = staging.there /\ capture' # "none"
          /\ UNCHANGED <<pc, temp, named, part, cut, kept>>
      BY <1>0, <1>14 DEF CaptureOpens, CaptureWrites, Directories
    <2> QED
      BY <2>1 DEF NothingInv, NothingAt
  <1>15. CASE UNCHANGED vars
    BY <1>15 DEF vars, fileVars, NothingInv, NothingAt
  <1> QED
    BY <1>1, <1>2, <1>3, <1>4, <1>5, <1>6, <1>7, <1>8, <1>9, <1>10, <1>11, <1>12, <1>13,
       <1>14, <1>15 DEF Next

-----------------------------------------------------------------------------
RunInv == IInv /\ AnswerInv /\ DoneInv /\ FirstInv /\ FirstErrorIsSent /\ NothingInv

LEMMA InitRunInv == Init => RunInv
  <1> SUFFICES ASSUME Init PROVE RunInv
    OBVIOUS
  <1> USE DEF Init
  <1>1. 1..Len(sent) = {} /\ Len(sent) = 0 /\ ~Absent.there
    BY DEF Absent
  <1>2. AnswerInv
    BY <1>1 DEF AnswerInv, AnsweredOnce, Answering
  <1>3. DoneInv
    BY <1>1 DEF DoneInv, ExceptionAt, ResultAt, DoneMeansResult, Leaving, Diagnosing, Removing,
       Guarded
  <1>4. FirstInv /\ FirstErrorIsSent
    BY <1>1 DEF FirstInv, FirstErrorIsSent
  <1>5. NothingInv
    BY <1>1 DEF NothingInv, NothingAt
  <1> QED
    BY <1>2, <1>3, <1>4, <1>5, InitInvariant DEF RunInv

LEMMA RunInvariantHolds == Spec => []RunInv
  <1>1. RunInv /\ [Next]_vars => RunInv'
    BY NextInvariant, AnswerStep, DoneStep, FirstStep, NothingStep DEF RunInv
  <1> QED
    BY <1>1, InitRunInv, PTL DEF Spec

(* run_protocol says "done" only when the result is published, no hidden      *)
(* directory of the run is there, and the input copy is gone or its removal   *)
(* has failed.                                                             *)
THEOREM DoneIsTrue == Spec => []DoneMeansResult
  <1>1. RunInv => DoneMeansResult
    BY DEF RunInv, DoneInv
  <1> QED
    BY <1>1, RunInvariantHolds, PTL

(* run_protocol and _main send one terminal record, never two, and none only *)
(* when the channel has failed.                                            *)
THEOREM OneAnswer == Spec => []AnsweredOnce
  <1>1. RunInv => AnsweredOnce
    BY DEF RunInv, AnswerInv
  <1> QED
    BY <1>1, RunInvariantHolds, PTL

(* Neither _publish_failure_diagnostic nor the finally clause of             *)
(* handle_request masks the failure that the application is told of.         *)
THEOREM FirstErrorWins == Spec => []FirstErrorIsSent
  <1>1. RunInv => FirstErrorIsSent
    BY DEF RunInv
  <1> QED
    BY <1>1, RunInvariantHolds, PTL

(* Whichever protected step fails or is interrupted, the handlers try to      *)
(* remove the input copy and both hidden directories: of these, only those   *)
(* are left whose own removal failed.                                       *)
THEOREM RunLeavesNothing == Spec => []NothingIsLeft
  <1>1. ASSUME RunInv PROVE NothingIsLeft
    <2>1. temp \in {"absent", "unnamed", "named"}
      BY <1>1 DEF RunInv, IInv, TypeOK
    <2> QED
      BY <1>1, <2>1 DEF RunInv, NothingInv, NothingAt, NothingIsLeft, Guarded, Leaving,
         Diagnosing, Removing, Settled, Answering
  <1> QED
    BY <1>1, RunInvariantHolds, PTL
=============================================================================
