---------------------------- MODULE AssetDownload ----------------------------
(***************************************************************************)
(* ensure_asset and _stream_download of assets.py: one pinned file, its     *)
(* .part file, and a server that may resume, restart, refuse, cut short or  *)
(* corrupt what it sends.  The call can be stopped anywhere, by a signal or *)
(* by the death of the process, and made again on what is left.             *)
(*                                                                         *)
(* Files are counted in blocks.  A content is right as far as it goes, or   *)
(* wrong; SHA-256 tells a right file of full length from everything else.   *)
(* The setup lock keeps other writers away (SetupLease).                    *)
(***************************************************************************)
EXTENDS Naturals

CONSTANTS
  Size,     \* blocks of the pinned file
  Retries   \* attempts of one call

ASSUME SizeAssumption == Size \in Nat \ {0}
ASSUME RetriesAssumption == Retries \in Nat \ {0}

Partial == [len : 0..(Size + 1), right : BOOLEAN]
Pinned == [len |-> Size, right |-> TRUE]
Nothing == [len |-> 0, right |-> TRUE]
Absent == [len |-> 0, right |-> FALSE]       \* no file: an empty file is right
\* No regular file; as .part also a hard link, which as dest is like Other.
Unsafe == [len |-> Size + 2, right |-> FALSE]
Exists(file) == file # Absent

VARIABLES
  dest,        \* the asset: Absent, Unsafe, or a regular file
  part,        \* the .part file
  pc,          \* the next step, or how the last call ended
  attempt,     \* the attempt of the call
  restarted,   \* range_restart_used
  downloaded,  \* blocks the download has so far; existing_size before it
  found,       \* history: both files when the call began
  requests,    \* history: requests of the call
  trouble      \* history: what went wrong in the call

vars == <<dest, part, pc, attempt, restarted, downloaded, found, requests, trouble>>
history == <<found, requests, trouble>>

Idle == {"idle", "done", "failed", "stopped"}
Attempting ==
  {"size", "request", "reject", "clear", "create", "stream", "verify", "discard", "promote",
   "confirm"}
Labels == Idle \cup {"begin", "stale", "recover"} \cup Attempting

(* The ways a call can go wrong: the server restarts a file, refuses, cuts a *)
(* body short, sends other bytes; or a local operation fails.               *)
Troubles == {"restart", "refusal", "cut", "corruption", "fault"}

-----------------------------------------------------------------------------
(* Control                                                                 *)

Note(kind) == trouble' = trouble \cup {kind}

(* The except clause around an attempt; the first two conditions of the     *)
(* procedure are outside of it.                                            *)
FailAttempt ==
  IF pc \in Attempting /\ attempt < Retries
    THEN pc' = "size" /\ attempt' = attempt + 1
    ELSE pc' = "failed" /\ UNCHANGED attempt

(* An attempt, or what precedes the first one, raises.                      *)
Fails(kind) ==
  /\ FailAttempt
  /\ Note(kind)
  /\ UNCHANGED <<dest, part, restarted, downloaded, found, requests>>

(* A guard raises and nothing has gone wrong but what it found.             *)
Refuse ==
  /\ FailAttempt
  /\ UNCHANGED <<dest, part, restarted, downloaded, history>>

GoTo(next) ==
  /\ pc' = next
  /\ UNCHANGED <<dest, part, attempt, restarted, downloaded, history>>

(* part.unlink                                                             *)
Unlink(next) ==
  /\ part' = Absent
  /\ pc' = next
  /\ UNCHANGED <<dest, attempt, restarted, downloaded, history>>

Replace(next) ==
  /\ dest' = part
  /\ part' = Absent
  /\ pc' = next
  /\ UNCHANGED <<attempt, restarted, downloaded, history>>

-----------------------------------------------------------------------------
(* ensure_asset up to its first attempt                                    *)

(* A call of ensure_asset; the .part file may be what an earlier one left.   *)
Begin ==
  /\ pc \in Idle
  /\ pc' = "begin"
  /\ attempt' = 1
  /\ restarted' = FALSE
  /\ downloaded' = 0
  /\ found' = [dest |-> dest, part |-> part]
  /\ requests' = 0
  /\ trouble' = {}
  /\ UNCHANGED <<dest, part>>

(* safe_snapshot_file refuses an alias; verify_asset tells the rest.        *)
Examine ==
  /\ pc = "begin"
  /\ CASE dest = Unsafe -> Refuse
       [] dest = Pinned -> GoTo("stale")
       [] OTHER -> GoTo("recover")

(* Mutant: a valid asset is enough.                                        *)
KeepStale == pc = "stale" /\ GoTo("done")

(* A valid asset needs no .part file.                                       *)
DropStale ==
  /\ pc = "stale"
  /\ CASE part = Unsafe -> Refuse
       [] part # Unsafe /\ Exists(part) -> Unlink("done")
       [] OTHER -> GoTo("done")

(* Mutant: a .part file of full length is taken for the asset.              *)
RecoverBySize ==
  /\ pc = "recover"
  /\ CASE part = Unsafe -> Refuse
       [] part.len = Size -> Replace("done")
       [] part.len = Size + 1 -> Unlink("size")
       [] OTHER -> GoTo("size")

(* A complete .part file is the asset; one that is too large is of no use.  *)
Recover ==
  /\ pc = "recover"
  /\ CASE part = Unsafe -> Refuse
       [] part = Pinned -> Replace("done")
       [] part \notin {Unsafe, Pinned} /\ part.len >= Size -> Unlink("size")
       [] OTHER -> GoTo("size")

-----------------------------------------------------------------------------
(* _stream_download                                                        *)

(* The first size decides whether to ask for a range.                       *)
TakeSize ==
  /\ pc = "size"
  /\ CASE part = Unsafe -> Refuse
       [] part # Unsafe /\ part.len >= Size ->
            /\ part' = Absent
            /\ downloaded' = 0
            /\ pc' = "request"
            /\ UNCHANGED <<dest, attempt, restarted, history>>
       [] OTHER ->
            /\ downloaded' = part.len
            /\ pc' = "request"
            /\ UNCHANGED <<dest, part, attempt, restarted, history>>

Requested(next) ==
  /\ pc = "request"
  /\ requests' = requests + 1
  /\ pc' = next

(* 206 with the range that was asked for.                                  *)
Resumes ==
  /\ downloaded > 0
  /\ Requested("stream")
  /\ UNCHANGED <<dest, part, attempt, restarted, downloaded, found, trouble>>

(* 200: the whole file, whether a range was asked for or not.               *)
SendsAll ==
  /\ Requested("clear")
  /\ downloaded' = 0
  /\ IF downloaded > 0 THEN Note("restart") ELSE UNCHANGED trouble
  /\ UNCHANGED <<dest, part, attempt, restarted, found>>

(* Mutant: the .part file is given up before the response is validated.     *)
RefusesAndClears ==
  /\ pc = "request"
  /\ requests' = requests + 1
  /\ part' = Absent
  /\ FailAttempt
  /\ Note("refusal")
  /\ UNCHANGED <<dest, restarted, downloaded, found>>

(* Any other status, range or length, or no answer: _validate_response and  *)
(* the opener raise before the .part file is touched.                       *)
Refuses ==
  /\ pc = "request"
  /\ requests' = requests + 1
  /\ FailAttempt
  /\ Note("refusal")
  /\ UNCHANGED <<dest, part, restarted, downloaded, found>>

(* Mutant: a rejected range is an error like any other.                     *)
RejectionIsFailure ==
  /\ downloaded > 0
  /\ pc = "request"
  /\ requests' = requests + 1
  /\ FailAttempt
  /\ Note("restart")
  /\ UNCHANGED <<dest, part, restarted, downloaded, found>>

(* 416 for a range: once in a call, the .part file is given up and the file *)
(* is asked for again in the same attempt.                                  *)
RejectsRange ==
  /\ downloaded > 0 /\ ~restarted
  /\ Requested("reject")
  /\ restarted' = TRUE
  /\ Note("restart")
  /\ UNCHANGED <<dest, part, attempt, downloaded, found>>

Restart == pc = "reject" /\ Unlink("size")

Request == Resumes \/ SendsAll \/ Refuses \/ RejectsRange

(* Mode "wb": the old file is unlinked, and the new one created exclusively. *)
Clear == pc = "clear" /\ Unlink("create")

Create ==
  /\ pc = "create"
  /\ part' = Nothing
  /\ pc' = "stream"
  /\ UNCHANGED <<dest, attempt, restarted, downloaded, history>>

(* One block of the body is written; one too many ends the attempt.         *)
Written(right) ==
  /\ part' = [len |-> part.len + 1, right |-> part.right /\ right]
  /\ downloaded' = downloaded + 1
  /\ UNCHANGED <<dest, restarted, found, requests>>

RightBlock ==
  /\ pc = "stream"
  /\ downloaded < Size
  /\ Written(TRUE)
  /\ UNCHANGED <<pc, attempt, trouble>>

WrongBlock ==
  /\ pc = "stream"
  /\ Written(FALSE)
  /\ Note("corruption")
  /\ IF downloaded < Size THEN UNCHANGED <<pc, attempt>> ELSE FailAttempt

(* The body ends, or the connection does.                                  *)
BodyEnds ==
  /\ pc = "stream"
  /\ IF downloaded = Size THEN GoTo("verify") ELSE Fails("cut")

-----------------------------------------------------------------------------
(* The rest of an attempt                                                  *)

Verify ==
  /\ pc = "verify"
  /\ GoTo(IF part = Pinned THEN "promote" ELSE "discard")

(* A complete file with other content is removed, and the attempt fails.    *)
Discard ==
  /\ pc = "discard"
  /\ part' = Absent
  /\ FailAttempt
  /\ UNCHANGED <<dest, restarted, downloaded, history>>

Promote == pc = "promote" /\ Replace("confirm")

Confirm == pc = "confirm" /\ dest = Pinned /\ GoTo("done")

(* A local operation fails, or a file that is right cannot be read, which    *)
(* verify_asset reports as not valid.                                      *)
Fault ==
  /\ pc \in {"begin", "stale", "recover"} \cup (Attempting \ {"request", "verify"})
  /\ Fails("fault")

Unreadable ==
  /\ pc \in {"begin", "recover", "verify"}
  /\ Note("fault")
  /\ \/ pc = "begin" /\ dest # Unsafe /\ pc' = "recover" /\ UNCHANGED part
     \/ /\ pc = "recover" /\ part # Unsafe /\ Exists(part) /\ pc' = "size"
        /\ part' = IF part.len >= Size THEN Absent ELSE part
     \/ pc = "verify" /\ pc' = "discard" /\ UNCHANGED part
  /\ UNCHANGED <<dest, attempt, restarted, downloaded, found, requests>>

(* KeyboardInterrupt, which no handler of the procedure keeps, or the death  *)
(* of the process.                                                         *)
Stop ==
  /\ pc \notin Idle
  /\ GoTo("stopped")

Next ==
  \/ Begin \/ Examine \/ DropStale \/ Recover
  \/ TakeSize \/ Request \/ Restart \/ Clear \/ Create \/ RightBlock \/ WrongBlock \/ BodyEnds
  \/ Verify \/ Discard \/ Promote \/ Confirm
  \/ Fault \/ Unreadable \/ Stop

(* Other is any regular file that is not the asset.  The .part file may be   *)
(* one that an older version or another program left.                       *)
Other == [len |-> Size, right |-> FALSE]
Assets == {Absent, Unsafe, Other, Pinned}

Init ==
  /\ dest \in Assets
  /\ part \in (Partial \cup {Unsafe}) \ {[len |-> Size + 1, right |-> TRUE]}
  /\ pc = "idle"
  /\ attempt = 1
  /\ restarted = FALSE
  /\ downloaded = 0
  /\ found = [dest |-> dest, part |-> part]
  /\ requests = 0
  /\ trouble = {}

Spec == Init /\ [][Next]_vars

-----------------------------------------------------------------------------
(* Properties                                                              *)

(* Every variable has its type.                                            *)
TypeOK ==
  /\ dest \in Assets
  /\ part \in Partial \cup {Unsafe}
  /\ pc \in Labels
  /\ attempt \in 1..Retries
  /\ restarted \in BOOLEAN
  /\ downloaded \in 0..(Size + 1)
  /\ found \in [dest : Assets, part : Partial \cup {Unsafe}]
  /\ requests \in Nat
  /\ trouble \subseteq Troubles

(* Nothing is ever put under the asset's name but the pinned content,        *)
(* whatever the server sent and wherever earlier calls were stopped.        *)
PromotedIsPinned == [][dest' # dest => dest' = Pinned]_vars

(* A server that serves the whole file, a range, or rejects ranges is enough *)
(* to install the asset in two attempts, whatever .part file is there: a     *)
(* wrong one costs an attempt and does not wedge the call.                  *)
HonestServerSuffices ==
  pc = "failed" /\ trouble \subseteq {"restart"} =>
    Retries < 2 \/ Unsafe \in {dest, part}

(* Every attempt makes one request, and one of them a second one.           *)
RequestsAreBounded == requests <= Retries + 1

(* "Successful downloads leave no .part files" (assets.py:945): the exact    *)
(* inventory that follows in ensure_snapshot would refuse one.              *)
DoneIsClean == pc = "done" => dest = Pinned /\ part = Absent

(* A right .part file is never given up because a connection broke or a      *)
(* server refused: the next attempt, or the next Repair, goes on from it.    *)
Useful(file) == file.right /\ file.len \in 1..Size
ProgressIsKept ==
  Useful(found.part) /\ trouble \subseteq {"refusal", "cut"} =>
    dest = Pinned \/ (part.right /\ part.len >= found.part.len)

(* For ensure_snapshot a call is one step: until it ends there is what it    *)
(* found, and then it has installed the pinned file and left no .part file,  *)
(* or it has refused an entry that no call can use and changed nothing, or   *)
(* it has given up, whatever the server sent, wherever it was stopped and    *)
(* whatever earlier calls had left.  A refusal is no fault there.           *)
Shown == IF pc \in Idle THEN [dest |-> dest, part |-> part] ELSE found
Refused == pc = "failed" /\ Unsafe \in {dest, part}
ShownDest == CASE Shown.dest = Absent -> "absent"
               [] Shown.dest = Pinned -> "pinned"
               [] Shown.dest = Unsafe -> "unsafe"
               [] OTHER -> "other"
ShownPart == CASE Shown.part = Absent -> "absent"
               [] Shown.part = Unsafe -> "unsafe"
               [] OTHER -> "file"
Ensured == INSTANCE Snapshot WITH
  Weights <- {"asset"}, Sources <- {}, MaxFaults <- 1,
  file <- [f \in {"asset"} |-> ShownDest],
  part <- [f \in {"asset"} |-> ShownPart],
  todo <- IF pc = "done" THEN {} ELSE {"asset"},
  pc <- IF pc = "failed" THEN "failed" ELSE IF pc = "stopped" THEN "dead" ELSE "files",
  faults <- IF pc \in {"failed", "stopped"} /\ ~Refused THEN 1 ELSE 0,
  marked <- FALSE, tree <- <<>>, staging <- "none", backup <- "none", litter <- FALSE,
  current <- "none", trusted <- TRUE

EnsureStep ==
  \/ Ensured!InstallFile("asset") \/ Ensured!RefuseFile("asset")
  \/ \E outcome \in {"failed", "dead"} : Ensured!GiveUpFile("asset", outcome)

(* The steps of a call are those that Snapshot takes ensure_asset for.       *)
EnsuresAsAssumed == [][pc \notin Idle => EnsureStep]_(Ensured!vars)

-----------------------------------------------------------------------------
(* The inductive invariant.                                                *)

(* The steps of an attempt after its (last) request.                        *)
Sent == {"clear", "create", "stream", "verify", "discard", "promote", "confirm"}

Restarts == IF restarted THEN 1 ELSE 0

RequestsAt ==
  /\ pc \in {"begin", "stale", "recover"} => attempt = 1 /\ requests = 0 /\ ~restarted
  /\ pc \in {"size", "request"} => requests <= attempt - 1 + Restarts
  /\ pc = "reject" => restarted /\ requests <= attempt
  /\ pc \in Sent => requests <= attempt + Restarts

(* A call changes the asset to the pinned one and to nothing else, and what  *)
(* it refuses it leaves alone.                                             *)
FoundAt ==
  pc \notin Idle =>
    /\ dest \in {found.dest, Pinned}
    /\ part = Unsafe <=> found.part = Unsafe
    /\ Unsafe \in {found.dest, found.part} =>
         dest = found.dest /\ part = found.part /\ pc \in {"begin", "stale", "recover"}

(* What was verified, until the next step relies on it.                     *)
VerifiedAt ==
  /\ pc \notin Idle \cup {"begin"} => dest # Unsafe
  /\ pc = "stale" => dest = Pinned
  /\ pc = "promote" => part = Pinned
  /\ pc = "confirm" => dest = Pinned /\ part = Absent

(* The count in memory is that of the .part file.                           *)
LengthAt ==
  /\ pc = "request" => part.len = downloaded /\ downloaded < Size
  /\ pc \in {"clear", "create"} => downloaded = 0 /\ part # Unsafe
  /\ pc = "create" => part = Absent
  /\ pc = "reject" => part # Unsafe
  /\ pc = "stream" => part.len = downloaded /\ downloaded <= Size /\ part # Absent
  /\ pc \in {"verify", "discard"} => part.len = Size

(* With an honest server only a wrong .part file costs an attempt, and there *)
(* is none in the second one.                                              *)
HonestAt ==
  trouble \subseteq {"restart"} /\ Unsafe \notin {dest, part} =>
    /\ pc \in Attempting => attempt <= 2
    /\ pc \in Attempting /\ attempt = 2 =>
         /\ pc \in {"size", "request", "clear", "create"} => part = Absent
         /\ pc = "stream" => part.right
         /\ pc = "verify" => part = Pinned
         /\ pc \notin {"reject", "discard"}
    /\ pc = "failed" => Retries < 2

(* A useful .part file grows until it is the asset.                         *)
ProgressAt ==
  Useful(found.part) /\ trouble \subseteq {"refusal", "cut"} /\ dest # Pinned =>
    /\ part.len <= Size
    /\ pc = "size" => part.len < Size
    /\ pc \notin {"clear", "create", "discard", "reject"}

IInv ==
  /\ TypeOK
  /\ RequestsAreBounded
  /\ DoneIsClean
  /\ ProgressIsKept
  /\ RequestsAt
  /\ VerifiedAt
  /\ LengthAt
  /\ HonestAt
  /\ ProgressAt
=============================================================================
