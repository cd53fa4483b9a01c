---------------------------- MODULE InferenceRun ----------------------------
(***************************************************************************)
(* One inference process: _main of processor.py, run_protocol and           *)
(* handle_request of runtime.py, with the protocol channel, the directories *)
(* of the run and the publication of a result or of a failure diagnostic.   *)
(*                                                                         *)
(* The checks and the inference are steps with a verdict: Authenticate is    *)
(* SetupLease's, and Infer stands for a whole _run_upstream (InferenceChild).*)
(* A process runs one request and no step repeats, so nothing needs a bound. *)
(***************************************************************************)
EXTENDS Sequences, Naturals

VARIABLES
  pc,           \* the next step, or how the process ended
  exc,          \* the exception on its way up, or "none"
  temp,         \* the input copy: absent, or there, or there and in temp_run
  staging,      \* the hidden run directory, or Absent
  named,        \* the local variable staging is not None
  part,         \* the hidden diagnostic directory, or Absent
  final, diag,  \* the published run and diagnostic directories, or Absent
  capture,      \* an output thread that outlives _run_upstream
  failed,       \* ProtocolEmitter: the channel has failed
  terminal,     \* ProtocolEmitter: a terminal record was attempted
  sent,         \* the terminal records that reached the channel
  kept,         \* history: the directories of which a removal failed
  cause,        \* history: the first exception and the step that raised it
  cut           \* history: the steps at which a signal was raised

fileVars == <<temp, staging, named, part, final, diag, capture, kept>>
emitterVars == <<failed, terminal, sent>>
vars == <<pc, exc, fileVars, emitterVars, cause, cut>>

Absent == [log |-> "none", glb |-> "none", meta |-> "none", there |-> FALSE]
Empty == [Absent EXCEPT !.there = TRUE]
Directories ==
  [log : {"none", "raw", "clean"}, glb : {"none", "whole"},
   meta : {"none", "torn", "whole"}, there : BOOLEAN]

(* What a removal that fails may leave of a directory.  Every removal is a    *)
(* rmtree with ignore_errors: it does what it can and tells nobody.         *)
Remains(d) ==
  [log : {d.log, "none"}, glb : {d.glb, "none"}, meta : {d.meta, "none"}, there : {TRUE}]
Removable == {"temp", "staging", "part"}

(* The failures that are worth a diagnostic.                               *)
Diagnosed == {"INFERENCE_FAILED", "OUTPUT_MISSING", "OUTPUT_CONVERSION", "OUTPUT_INVALID"}
(* The other codes of ProcessFailure; REQUEST stands for every refusal of   *)
(* the request, its parameters, paths, backend or models directory.         *)
Refusals == {"REQUEST", "SETUP_INVALID", "SETUP_BUSY", "INPUT_CONVERSION"}
ProcessFailures == Diagnosed \cup Refusals
Exceptions == ProcessFailures \cup {"OSError", "Other", "Interrupt"}
Records == ProcessFailures \cup {"done", "UNEXPECTED", "BOOTSTRAP"}

(* The steps of handle_request inside its try, in their order.              *)
Guarded == {"prepare", "prepared", "parent", "staging", "command", "infer", "select",
            "convert", "metadata", "check", "publish", "published", "recheck", "complete"}
Diagnosing == {"d_sanitize", "d_part", "d_copy", "d_meta", "d_rename"}
Removing == {"rm_temp", "rm_files", "rm_dir"}
Labels ==
  {"import", "read", "lease", "validate", "authenticate", "except", "d_clean", "d_log",
   "unlease", "done", "report", "bootstrap", "exit", "killed"}
  \cup Guarded \cup Diagnosing \cup Removing

(* What a step may raise by itself.                                        *)
Raises(step) ==
  CASE step = "import" -> {"Other"}
    [] step = "read" -> {"REQUEST", "Other"}
    [] step = "lease" -> {"SETUP_INVALID", "SETUP_BUSY"}
    [] step = "validate" -> {"REQUEST", "SETUP_INVALID"}
    [] step = "authenticate" -> {"SETUP_INVALID"}
    [] step = "prepare" -> {"REQUEST", "INPUT_CONVERSION"}
    [] step = "parent" -> {"OUTPUT_INVALID"}
    [] step = "staging" -> {"OSError"}
    [] step = "command" -> {"SETUP_INVALID"}
    [] step = "infer" -> {"INFERENCE_FAILED"}
    [] step = "select" -> {"OUTPUT_MISSING", "OUTPUT_INVALID"}
    [] step = "convert" -> {"OUTPUT_CONVERSION"}
    [] step = "metadata" -> {"OSError"}
    [] step \in {"check", "publish", "recheck"} -> {"OUTPUT_INVALID"}
    [] OTHER -> {}

(* Who catches it: the except clauses of _main, run_protocol, the lease,     *)
(* handle_request and _publish_failure_diagnostic.                         *)
Catcher(step) ==
  CASE step \in {"import", "report"} -> "bootstrap"
    [] step \in {"read", "lease", "unlease", "done"} -> "report"
    [] step \in {"validate", "authenticate"} \cup Removing -> "unlease"
    [] step \in Guarded -> "except"
    [] step \in {"except", "d_clean", "d_log"} -> "rm_temp"
    [] step \in Diagnosing -> "d_clean"
    [] OTHER -> "exit"

(* These steps catch BaseException and raise a ProcessFailure of their own,  *)
(* a KeyboardInterrupt included; the diagnostic swallows it.                *)
Interrupted(step) ==
  CASE step = "prepare" -> "INPUT_CONVERSION"
    [] step = "infer" -> "INFERENCE_FAILED"
    [] step = "convert" -> "OUTPUT_CONVERSION"
    [] step \in Diagnosing \cup {"d_clean", "d_log"} -> exc
    [] OTHER -> "Interrupt"

Raise(e) ==
  /\ exc' = e
  /\ pc' = Catcher(pc)
  /\ cause' = IF cause.exc = "none" THEN [exc |-> e, step |-> pc] ELSE cause

Proceed(next) == pc' = next /\ UNCHANGED <<exc, cause>>

-----------------------------------------------------------------------------
(* Steps that only pass a verdict                                          *)

Following ==
  [import |-> "read", read |-> "lease", lease |-> "validate",
   validate |-> "authenticate", authenticate |-> "prepare", parent |-> "staging",
   command |-> "infer", select |-> "convert", check |-> "publish",
   recheck |-> "complete", complete |-> "rm_temp"]

Pass ==
  /\ pc \in DOMAIN Following
  /\ Proceed(Following[pc])
  /\ UNCHANGED <<fileVars, emitterVars, cut>>

(* _prepare_input removes the input copy that it has begun; when that fails  *)
(* the copy stays, under a name that no variable holds.                     *)
DropsInput ==
  \/ UNCHANGED <<temp, kept>>
  \/ pc = "prepare" /\ temp' = "unnamed" /\ kept' = kept \cup {"temp"}

(* Any other step that refuses has made nothing outside the hidden directory.*)
Refuse ==
  /\ pc \notin {"staging", "infer", "metadata"}
  /\ \E e \in Raises(pc) : Raise(e)
  /\ DropsInput
  /\ UNCHANGED <<staging, named, part, final, diag, capture, emitterVars, cut>>

(* A progress or log record of handle_request that cannot be written.       *)
Emitting ==
  {"validate", "authenticate", "parent", "command", "select", "convert", "complete"}

EmitFails ==
  /\ pc \in Emitting
  /\ failed' = TRUE
  /\ Raise("OSError")
  /\ UNCHANGED <<fileVars, terminal, sent, cut>>

-----------------------------------------------------------------------------
(* Steps of handle_request that change the disk                            *)

Prepare ==
  /\ pc = "prepare"
  /\ temp' = "unnamed"
  /\ Proceed("prepared")
  /\ UNCHANGED <<staging, named, part, final, diag, capture, kept, emitterVars, cut>>

Prepared ==
  /\ pc = "prepared"
  /\ temp' = "named"
  /\ Proceed("parent")
  /\ UNCHANGED <<staging, named, part, final, diag, capture, kept, emitterVars, cut>>

(* The variable is assigned before the directory is made.                  *)
MakeStaging ==
  /\ pc = "staging"
  /\ named' = TRUE
  /\ \/ staging' = Empty /\ Proceed("command")
     \/ UNCHANGED staging /\ \E e \in Raises(pc) : Raise(e)
  /\ UNCHANGED <<temp, part, final, diag, capture, kept, emitterVars, cut>>

(* _run_upstream returns with a captured and sanitized log, or raises with   *)
(* any log; its output thread may still be at work after the last join.     *)
Infer ==
  /\ pc = "infer"
  /\ staging' = [staging EXCEPT !.log = "clean"]
  /\ Proceed("select")
  /\ UNCHANGED <<temp, named, part, final, diag, capture, kept, emitterVars, cut>>

InferRaises(e) ==
  /\ pc = "infer"
  /\ Raise(e)
  /\ \E log \in {"none", "raw", "clean"} :
       /\ staging' = [staging EXCEPT !.log = log]
       /\ capture' \in CASE log = "none" -> {"none", "late"}
                         [] log = "raw" -> {"none", "writing"}
                         [] OTHER -> {"none"}
  /\ failed' \in {failed, TRUE}
  /\ UNCHANGED <<temp, named, part, final, diag, kept, terminal, sent>>

InferFails == InferRaises("INFERENCE_FAILED") /\ UNCHANGED cut

(* A signal in the call, or in its finally clause.                         *)
InferInterrupted ==
  /\ \E e \in {"INFERENCE_FAILED", "Interrupt"} : InferRaises(e)
  /\ cut' = cut \cup {pc}

Convert ==
  /\ pc = "convert"
  /\ staging' = [staging EXCEPT !.glb = "whole"]
  /\ Proceed("metadata")
  /\ UNCHANGED <<temp, named, part, final, diag, capture, kept, emitterVars, cut>>

WriteMetadata ==
  /\ pc = "metadata"
  /\ \/ staging' = [staging EXCEPT !.meta = "whole"] /\ Proceed("check")
     \/ \E written \in {"none", "torn"}, e \in Raises(pc) :
          staging' = [staging EXCEPT !.meta = written] /\ Raise(e)
  /\ UNCHANGED <<temp, named, part, final, diag, capture, kept, emitterVars, cut>>

(* os.replace, and staging = None after it.                                *)
Publish ==
  /\ pc = "publish"
  /\ final' = staging
  /\ staging' = Absent
  /\ Proceed("published")
  /\ UNCHANGED <<temp, named, part, diag, capture, kept, emitterVars, cut>>

Published ==
  /\ pc = "published"
  /\ named' = FALSE
  /\ Proceed("recheck")
  /\ UNCHANGED <<temp, staging, part, final, diag, capture, kept, emitterVars, cut>>

-----------------------------------------------------------------------------
(* The diagnostic                                                          *)

(* except ProcessFailure: whether the failure deserves a diagnostic.        *)
Except ==
  /\ pc = "except"
  /\ Proceed(IF exc \in Diagnosed /\ named THEN "d_sanitize" ELSE "rm_temp")
  /\ UNCHANGED <<fileVars, emitterVars, cut>>

(* Mutant: the log is rewritten in place, in the file a late thread holds.  *)
SanitizeInPlace ==
  /\ pc = "d_sanitize"
  /\ staging.log # "none"
  /\ staging' = [staging EXCEPT !.log = "clean"]
  /\ Proceed("d_part")
  /\ UNCHANGED <<temp, named, part, final, diag, capture, kept, emitterVars, cut>>

(* _sanitize_persistent_log replaces the log by a new file: what a late      *)
(* thread still writes goes to the file that has lost its name.             *)
Sanitize ==
  /\ pc = "d_sanitize"
  /\ staging.log # "none"
  /\ staging' = [staging EXCEPT !.log = "clean"]
  /\ capture' = IF capture = "writing" THEN "done" ELSE capture
  /\ Proceed("d_part")
  /\ UNCHANGED <<temp, named, part, final, diag, kept, emitterVars, cut>>

MakePart ==
  /\ pc = "d_part"
  /\ part' = Empty
  /\ Proceed("d_copy")
  /\ UNCHANGED <<temp, staging, named, final, diag, capture, kept, emitterVars, cut>>

CopyLog ==
  /\ pc = "d_copy"
  /\ part' = [part EXCEPT !.log = staging.log]
  /\ Proceed("d_meta")
  /\ UNCHANGED <<temp, staging, named, final, diag, capture, kept, emitterVars, cut>>

WriteFailure ==
  /\ pc = "d_meta"
  /\ part' = [part EXCEPT !.meta = "whole"]
  /\ Proceed("d_rename")
  /\ UNCHANGED <<temp, staging, named, final, diag, capture, kept, emitterVars, cut>>

PublishDiagnostic ==
  /\ pc = "d_rename"
  /\ diag' = part
  /\ part' = Absent
  /\ Proceed("d_log")
  /\ UNCHANGED <<temp, staging, named, final, capture, kept, emitterVars, cut>>

(* Mutant: what goes wrong in the diagnostic is raised.                     *)
DiagnosticRaises ==
  /\ pc \in Diagnosing
  /\ Raise("OSError")
  /\ UNCHANGED <<fileVars, emitterVars, cut>>

(* No log, a log that changes, a directory that exists, a full disk: each    *)
(* gives up the diagnostic and keeps the failure.                          *)
DiagnosticFails ==
  /\ pc \in Diagnosing
  /\ Proceed("d_clean")
  /\ UNCHANGED <<fileVars, emitterVars, cut>>

(* Mutant: the unpublished directory is kept.                              *)
KeepPart ==
  /\ pc = "d_clean"
  /\ Proceed("rm_temp")
  /\ UNCHANGED <<fileVars, emitterVars, cut>>

DropPart ==
  /\ pc = "d_clean"
  /\ \/ part' = Absent /\ UNCHANGED kept
     \/ part.there /\ part' \in Remains(part) /\ kept' = kept \cup {"part"}
  /\ Proceed("rm_temp")
  /\ UNCHANGED <<temp, staging, named, final, diag, capture, emitterVars, cut>>

(* The log record about it; a failure of the channel is swallowed here.     *)
AnnounceDiagnostic ==
  /\ pc = "d_log"
  /\ failed' \in {failed, TRUE}
  /\ Proceed("rm_temp")
  /\ UNCHANGED <<fileVars, terminal, sent, cut>>

-----------------------------------------------------------------------------
(* The finally clause, and the way out through the lease                    *)

RemoveTemp ==
  /\ pc = "rm_temp"
  /\ \/ temp' = (IF temp = "named" THEN "absent" ELSE temp) /\ UNCHANGED kept
     \/ temp = "named" /\ kept' = kept \cup {"temp"} /\ UNCHANGED temp
  /\ Proceed("rm_files")
  /\ UNCHANGED <<staging, named, part, final, diag, capture, emitterVars, cut>>

(* rmtree removes the files it has listed; a late thread that loses its file  *)
(* goes on writing to one without a name.                                  *)
RemoveFiles ==
  /\ pc = "rm_files"
  /\ IF named /\ staging.there
       THEN /\ staging' \in Remains(staging)
            /\ kept' = IF staging' = Empty THEN kept ELSE kept \cup {"staging"}
       ELSE UNCHANGED <<staging, kept>>
  /\ capture' = IF named /\ capture = "writing" /\ staging'.log = "none" THEN "done"
                ELSE capture
  /\ Proceed("rm_dir")
  /\ UNCHANGED <<temp, named, part, final, diag, emitterVars, cut>>

(* Then the directory, if nothing is left or has been created in it.         *)
RemoveDirectory ==
  /\ pc = "rm_dir"
  /\ \/ staging' = (IF named /\ staging = Empty THEN Absent ELSE staging) /\ UNCHANGED kept
     \/ named /\ staging.there /\ kept' = kept \cup {"staging"} /\ UNCHANGED staging
  /\ Proceed("unlease")
  /\ UNCHANGED <<temp, named, part, final, diag, capture, emitterVars, cut>>

(* Mutant: the lease swallows the OSError of its body.                      *)
LeaseSwallows ==
  /\ pc = "unlease"
  /\ exc' = IF exc = "OSError" THEN "none" ELSE exc
  /\ pc' = IF exc \in {"none", "OSError"} THEN "done" ELSE "report"
  /\ UNCHANGED <<cause, fileVars, emitterVars, cut>>

(* The body of the lease is the yield inside its try: an OSError of the      *)
(* request becomes the lease's SETUP_INVALID.                              *)
Unlease ==
  /\ pc = "unlease"
  /\ exc' = IF exc = "OSError" THEN "SETUP_INVALID" ELSE exc
  /\ pc' = IF exc = "none" THEN "done" ELSE "report"
  /\ UNCHANGED <<cause, fileVars, emitterVars, cut>>

-----------------------------------------------------------------------------
(* run_protocol's terminal records, and the last resort of _main            *)

Done ==
  /\ pc = "done"
  /\ terminal' = TRUE
  /\ sent' = Append(sent, "done")
  /\ Proceed("exit")
  /\ UNCHANGED <<failed, fileVars, cut>>

(* The write or the flush raises; the record may have reached the channel.  *)
DoneFails ==
  /\ pc = "done"
  /\ terminal' = TRUE
  /\ failed' = TRUE
  /\ sent' \in {sent, Append(sent, "done")}
  /\ \E e \in {"OSError", "Interrupt"} : Raise(e)
  /\ UNCHANGED <<fileVars, cut>>

Public(e) == IF e \in ProcessFailures THEN e ELSE "UNEXPECTED"

(* Mutant: the handler does not ask whether a terminal record was tried.    *)
ReportAgain ==
  /\ pc = "report"
  /\ terminal' = TRUE
  /\ sent' = Append(sent, Public(exc))
  /\ Proceed("exit")
  /\ UNCHANGED <<failed, fileVars, cut>>

Report ==
  /\ pc = "report"
  /\ IF terminal \/ failed
       THEN UNCHANGED <<terminal, sent>>
       ELSE terminal' = TRUE /\ sent' = Append(sent, Public(exc))
  /\ Proceed("exit")
  /\ UNCHANGED <<failed, fileVars, cut>>

ReportFails ==
  /\ pc = "report"
  /\ ~terminal /\ ~failed
  /\ terminal' = TRUE
  /\ failed' = TRUE
  /\ sent' \in {sent, Append(sent, Public(exc))}
  /\ Proceed("exit")
  /\ UNCHANGED <<fileVars, cut>>

(* _emit_bootstrap_error writes past the emitter.                          *)
Bootstrap ==
  /\ pc = "bootstrap"
  /\ \/ sent' = Append(sent, "BOOTSTRAP") /\ UNCHANGED failed
     \/ sent' \in {sent, Append(sent, "BOOTSTRAP")} /\ failed' = TRUE
  /\ Proceed("exit")
  /\ UNCHANGED <<terminal, fileVars, cut>>

-----------------------------------------------------------------------------
(* A KeyboardInterrupt at a step, before its effect.  (SIGTERM is converted   *)
(* only inside _run_upstream; elsewhere it kills the process.)              *)
Interrupt ==
  /\ pc \notin {"infer", "exit", "killed"}
  /\ cut' = cut \cup {pc}
  /\ Raise(Interrupted(pc))
  /\ failed' \in IF pc \in Emitting \cup {"d_log"} THEN {failed, TRUE} ELSE {failed}
  /\ named' \in IF pc = "staging" THEN {named, TRUE} ELSE {named}
  /\ DropsInput
  /\ UNCHANGED <<staging, part, final, diag, capture, terminal, sent>>

(* Killed in _run_upstream, with any log.                                  *)
InferKilled ==
  /\ pc = "infer"
  /\ \E log \in {"none", "raw", "clean"} : staging' = [staging EXCEPT !.log = log]
  /\ Proceed("killed")
  /\ UNCHANGED <<temp, named, part, final, diag, capture, kept, emitterVars, cut>>

Kill ==
  /\ pc \notin {"infer", "exit", "killed"}
  /\ Proceed("killed")
  /\ UNCHANGED <<fileVars, emitterVars, cut>>

(* The output thread of a failed _run_upstream: it creates the log with "xb", *)
(* writes it and ends, as long as the process lives.                        *)
CaptureOpens ==
  /\ capture = "late"
  /\ pc \notin {"exit", "killed"}
  /\ IF staging.there /\ staging.log = "none"
       THEN staging' = [staging EXCEPT !.log = "raw"] /\ capture' = "writing"
       ELSE capture' = "done" /\ UNCHANGED staging
  /\ UNCHANGED <<pc, exc, temp, named, part, final, diag, kept, emitterVars, cause, cut>>

CaptureWrites ==
  /\ capture = "writing"
  /\ pc \notin {"exit", "killed"}
  /\ staging' = [staging EXCEPT !.log = "raw"]
  /\ capture' \in {"writing", "done"}
  /\ UNCHANGED <<pc, exc, temp, named, part, final, diag, kept, emitterVars, cause, cut>>

Next ==
  \/ Pass \/ Refuse \/ EmitFails
  \/ Prepare \/ Prepared \/ MakeStaging
  \/ Infer \/ InferFails \/ InferInterrupted \/ InferKilled
  \/ Convert \/ WriteMetadata \/ Publish \/ Published
  \/ Except \/ Sanitize \/ MakePart \/ CopyLog \/ WriteFailure \/ PublishDiagnostic
  \/ DiagnosticFails \/ DropPart \/ AnnounceDiagnostic
  \/ RemoveTemp \/ RemoveFiles \/ RemoveDirectory \/ Unlease
  \/ Done \/ DoneFails \/ Report \/ ReportFails \/ Bootstrap
  \/ Interrupt \/ Kill \/ CaptureOpens \/ CaptureWrites

Init ==
  /\ pc = "import"
  /\ exc = "none"
  /\ temp = "absent"
  /\ staging = Absent /\ part = Absent /\ final = Absent /\ diag = Absent
  /\ named = FALSE
  /\ capture = "none"
  /\ failed = FALSE /\ terminal = FALSE
  /\ sent = <<>>
  /\ kept = {}
  /\ cause = [exc |-> "none", step |-> "import"]
  /\ cut = {}

Spec == Init /\ [][Next]_vars

-----------------------------------------------------------------------------
(* Properties                                                              *)

(* Every variable has its type.                                            *)
TypeOK ==
  /\ pc \in Labels
  /\ exc \in Exceptions \cup {"none"}
  /\ temp \in {"absent", "unnamed", "named"}
  /\ {staging, part, final, diag} \subseteq Directories
  /\ named \in BOOLEAN
  /\ capture \in {"none", "late", "writing", "done"}
  /\ failed \in BOOLEAN /\ terminal \in BOOLEAN
  /\ sent \in Seq(Records)
  /\ kept \subseteq Removable
  /\ cause \in [exc : Exceptions \cup {"none"}, step : Labels]
  /\ cut \subseteq Labels

(* Whatever is visible under Workflows/LATO2 is whole, and its log is        *)
(* sanitized, even while the output thread of a failed inference still       *)
(* writes; and no run has both a result and a diagnostic.                   *)
PublishedIsComplete ==
  /\ final.there => final.glb = "whole" /\ final.meta = "whole" /\ final.log = "clean"
  /\ diag.there => diag.meta = "whole" /\ diag.log = "clean"
  /\ ~(final.there /\ diag.there)

(* The application is told "done" only for a published result: the hidden    *)
(* directory has become that result, no diagnostic was begun, and the input   *)
(* copy is gone, unless its removal failed, which is ignored (runtime.py:2539).*)
DoneMeansResult ==
  \A i \in 1..Len(sent) : sent[i] = "done" =>
    /\ final.there /\ ~staging.there /\ ~part.there
    /\ temp = "absent" \/ "temp" \in kept

(* A process that ends by itself has sent exactly one terminal record; at    *)
(* most one if its channel failed.  A signal in run_protocol's handler, or   *)
(* in the last resort of _main, is excepted.                               *)
AnsweredOnce ==
  cut \cap {"report", "bootstrap"} = {} =>
    /\ Len(sent) <= 1
    /\ pc = "exit" /\ ~failed => Len(sent) = 1

(* Signals at these steps leave a directory that no variable names yet, or   *)
(* cut its removal short.                                                  *)
Unprotected == {"prepared", "d_clean"} \cup Removing

(* A process that ends by itself leaves no input copy and no hidden          *)
(* directory, unless a signal hit an unprotected step, the output thread     *)
(* outlived _run_upstream, or the removal of that very directory failed: the  *)
(* errors of a removal are ignored (runtime.py:1551, 2414, 2539 and 2541).    *)
NothingIsLeft ==
  pc = "exit" /\ cut \cap Unprotected = {} /\ capture = "none" =>
    /\ temp # "absent" => "temp" \in kept
    /\ staging.there => "staging" \in kept
    /\ part.there => "part" \in kept

(* The error sent is that of the first failure: neither the diagnostic nor   *)
(* the removals mask it.  But an OSError of the request, on a full disk for  *)
(* instance, meets the lease's own handler and is sent as a broken setup     *)
(* (runtime.py:590).                                                        *)
FirstErrorIsSent ==
  cut = {} =>
    \A i \in 1..Len(sent) :
      \/ sent[i] \in {"done", "BOOTSTRAP"}
      \/ sent[i] = IF cause.exc = "OSError" THEN "SETUP_INVALID" ELSE Public(cause.exc)

-----------------------------------------------------------------------------
(* The inductive invariant: what is known of the directories at each step.   *)

(* The labels after the body of handle_request's try.                       *)
Leaving == Diagnosing \cup Removing \cup
  {"except", "d_clean", "d_log", "unlease", "done", "report", "bootstrap", "exit", "killed"}

StagingAt ==
  /\ pc \in {"select", "convert", "metadata", "check", "publish"} => staging.log = "clean"
  /\ pc \in {"metadata", "check", "publish"} => staging.glb = "whole"
  /\ pc \in {"check", "publish"} => staging.meta = "whole"

DiagnosticAt ==
  /\ pc \in {"d_part", "d_copy"} => staging.log = "clean" /\ capture # "writing"
  /\ pc \in {"d_meta", "d_rename"} => part.log = "clean"
  /\ pc = "d_rename" => part.meta = "whole"
  /\ capture # "none" => pc \in Leaving

(* A run with a result never turns to the diagnostic: staging is None, or a  *)
(* signal came before it was.                                              *)
OneOutcomeAt ==
  /\ final.there => pc \in (Leaving \ Diagnosing) \cup {"published", "recheck", "complete"}
  /\ final.there /\ pc = "except" => ~named \/ exc \notin Diagnosed
  /\ pc \in {"recheck", "complete"} => ~named
  /\ diag.there => pc \in Leaving \ (Diagnosing \cup {"except"})

IInv == TypeOK /\ PublishedIsComplete /\ StagingAt /\ DiagnosticAt /\ OneOutcomeAt
=============================================================================
