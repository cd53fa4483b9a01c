------------------------- MODULE AssetDownload_proofs -------------------------
(***************************************************************************)
(* Proofs for AssetDownload, for every size of the file and every number of *)
(* attempts.                                                               *)
(***************************************************************************)
EXTENDS AssetDownload, TLAPS

(* What the five named files are, and that length and rightness determine a *)
(* content.                                                                *)
LEMMA Contents ==
  /\ Pinned \in Partial /\ Pinned.len = Size /\ Pinned.right = TRUE
  /\ Nothing \in Partial /\ Nothing.len = 0 /\ Nothing.right = TRUE
  /\ Absent \in Partial /\ Absent.len = 0 /\ Absent.right = FALSE
  /\ Other \in Partial /\ Other.len = Size /\ Other.right = FALSE
  /\ Unsafe \notin Partial /\ Unsafe.len = Size + 2 /\ Unsafe.right = FALSE
<1> USE SizeAssumption
<1>1. Pinned \in Partial /\ Pinned.len = Size /\ Pinned.right = TRUE
  BY DEF Pinned, Partial
<1>2. Nothing \in Partial /\ Nothing.len = 0 /\ Nothing.right = TRUE
  BY DEF Nothing, Partial
<1>3. Absent \in Partial /\ Absent.len = 0 /\ Absent.right = FALSE
  BY DEF Absent, Partial
<1>4. Other \in Partial /\ Other.len = Size /\ Other.right = FALSE
  BY DEF Other, Partial
<1>5. Unsafe \notin Partial /\ Unsafe.len = Size + 2 /\ Unsafe.right = FALSE
  BY DEF Unsafe, Partial
<1> QED
  BY <1>1, <1>2, <1>3, <1>4, <1>5

LEMMA FileFacts ==
  ASSUME NEW f \in Partial \cup {Unsafe}
  PROVE  /\ f.len \in Nat /\ f.right \in BOOLEAN
         /\ f # Unsafe => f.len <= Size + 1
         /\ f.len = Size /\ f.right => f = Pinned
         /\ f.len = 0 /\ ~f.right => f = Absent
<1> USE SizeAssumption
<1>1. CASE f = Unsafe
  <2>1. f.right \in BOOLEAN
    BY <1>1, Contents, Zenon
  <2>2. f.len = Size + 2
    BY <1>1, Contents
  <2> QED
    BY <1>1, <2>1, <2>2
<1>2. CASE f \in Partial
  <2>1. f = [len |-> f.len, right |-> f.right] /\ f.len \in 0..(Size + 1)
          /\ f.right \in BOOLEAN
    BY <1>2 DEF Partial
  <2> QED
    BY <2>1 DEF Pinned, Absent
<1> QED
  BY <1>1, <1>2

(* One more block.                                                         *)
LEMMA BlockFacts ==
  ASSUME NEW f \in Partial, NEW right \in BOOLEAN, NEW g, f.len <= Size,
         g = [len |-> f.len + 1, right |-> f.right /\ right]
  PROVE  /\ g \in Partial /\ g.len = f.len + 1
         /\ g.right <=> (f.right /\ right)
         /\ g # Absent /\ g # Unsafe
<1> USE SizeAssumption
<1>1. f.len \in 0..(Size + 1) /\ f.right \in BOOLEAN
  BY DEF Partial
<1>2. g.len = f.len + 1 /\ (g.right <=> (f.right /\ right))
  OBVIOUS
<1>3. g \in Partial
  BY <1>1 DEF Partial
<1> QED
  BY <1>1, <1>2, <1>3, Contents

LEMMA InitInvariant == Init => IInv
<1> SUFFICES ASSUME Init PROVE IInv
  OBVIOUS
<1> USE SizeAssumption, RetriesAssumption
<1>1. TypeOK
  <2>1. part \in Partial \cup {Unsafe} /\ found \in [dest : Assets, part : Partial \cup {Unsafe}]
    BY DEF Init
  <2>2. pc \in Labels /\ attempt \in 1..Retries /\ downloaded \in 0..(Size + 1)
    BY DEF Init, Labels, Idle
  <2> QED
    BY <2>1, <2>2 DEF Init, TypeOK
<1>2. RequestsAreBounded /\ DoneIsClean
  BY DEF Init, RequestsAreBounded, DoneIsClean
<1>3. ProgressIsKept /\ ProgressAt
  <2>1. part.len \in Nat
    BY <1>1, FileFacts DEF TypeOK
  <2> QED
    BY <2>1 DEF Init, ProgressIsKept, ProgressAt, Useful
<1>4. RequestsAt /\ VerifiedAt /\ LengthAt /\ HonestAt
  BY DEF Init, RequestsAt, Sent, VerifiedAt, Idle, LengthAt, HonestAt, Attempting
<1> QED
  BY <1>1, <1>2, <1>3, <1>4 DEF IInv

-----------------------------------------------------------------------------
(* The steps that move the control only.                                   *)

LEMMA FailInvariant ==
  ASSUME IInv, NEW kind \in {"refusal", "cut", "fault"}, pc \notin Idle, Fails(kind),
         kind = "fault" \/ (kind = "cut" /\ pc = "stream" /\ downloaded # Size)
           \/ (kind = "refusal" /\ pc = "request")
  PROVE  IInv'
<1> USE SizeAssumption, RetriesAssumption DEF Fails, FailAttempt, Note
<1>f. /\ part.len \in Nat /\ part.right \in BOOLEAN /\ attempt \in 1..Retries
      /\ requests \in Nat /\ downloaded \in Nat /\ trouble \subseteq Troubles
  BY FileFacts DEF IInv, TypeOK
<1>1. TypeOK'
  BY DEF IInv, TypeOK, Labels, Attempting, Idle, Troubles
<1>2. RequestsAreBounded' /\ RequestsAt'
  BY <1>f DEF IInv, RequestsAreBounded, RequestsAt, Restarts, Sent, Attempting, Idle
<1>3. DoneIsClean' /\ VerifiedAt'
  BY DEF IInv, DoneIsClean, VerifiedAt, Idle, Attempting
<1>4. LengthAt'
  BY DEF IInv, LengthAt
<1>5. HonestAt'
  BY DEF IInv, HonestAt
<1>6. ProgressIsKept' /\ ProgressAt'
  BY <1>f DEF IInv, ProgressIsKept, ProgressAt, Useful, LengthAt
<1> QED
  BY <1>1, <1>2, <1>3, <1>4, <1>5, <1>6 DEF IInv

(* A step that reaches another label without touching a file or a count.    *)
LEMMA ExamineInvariant ==
  ASSUME IInv, Examine \/ Verify \/ Confirm \/ BodyEnds \/ Stop \/ Fault
  PROVE  IInv'
<1> USE SizeAssumption, RetriesAssumption
<1>f. /\ part.len \in Nat /\ part.right \in BOOLEAN /\ attempt \in 1..Retries
      /\ requests \in Nat /\ downloaded \in Nat
  BY FileFacts DEF IInv, TypeOK
<1>1. CASE Fault
  BY <1>1, FailInvariant DEF Fault, Idle, Attempting
<1>2. CASE BodyEnds /\ downloaded # Size
  BY <1>2, FailInvariant DEF BodyEnds, Idle
<1>3. CASE Examine /\ dest = Unsafe
  BY <1>3, <1>f, Contents
  DEF Examine, Refuse, FailAttempt, history, IInv, TypeOK, Labels, Idle, Attempting,
      RequestsAreBounded, DoneIsClean, ProgressIsKept, RequestsAt, VerifiedAt, LengthAt,
      HonestAt, ProgressAt, Sent, Restarts
<1>4. ASSUME NEW next \in Labels, GoTo(next),
             \/ pc = "begin" /\ next = "stale" /\ dest = Pinned
             \/ pc = "begin" /\ next = "recover" /\ dest # Unsafe
             \/ pc = "verify" /\ next = "promote" /\ part = Pinned
             \/ pc = "verify" /\ next = "discard" /\ part # Pinned
             \/ pc = "confirm" /\ next = "done" /\ dest = Pinned
             \/ pc = "stream" /\ next = "verify" /\ downloaded = Size
             \/ pc \notin Idle /\ next = "stopped"
      PROVE  IInv'
  <2> USE <1>4 DEF GoTo, history
  <2>1. TypeOK'
    BY DEF IInv, TypeOK
  <2>2. RequestsAreBounded' /\ RequestsAt'
    BY <1>f DEF IInv, RequestsAreBounded, RequestsAt, Restarts, Sent, Idle
  <2>3. DoneIsClean' /\ VerifiedAt' /\ LengthAt'
    BY <1>f, Contents DEF IInv, DoneIsClean, VerifiedAt, Idle, LengthAt
  <2>4. HonestAt'
    BY <1>f, FileFacts DEF IInv, TypeOK, HonestAt, LengthAt, Attempting
  <2>5. ProgressIsKept' /\ ProgressAt'
    BY <1>f, FileFacts DEF IInv, TypeOK, ProgressIsKept, ProgressAt, LengthAt
  <2> QED
    BY <2>1, <2>2, <2>3, <2>4, <2>5 DEF IInv
<1>5. CASE Examine /\ dest # Unsafe
  BY <1>5, <1>4 DEF Examine, Labels
<1>6. CASE Verify \/ Confirm \/ Stop \/ (BodyEnds /\ downloaded = Size)
  BY <1>6, <1>4 DEF Verify, Confirm, Stop, BodyEnds, Labels, Idle, Attempting
<1> QED
  BY <1>1, <1>2, <1>3, <1>5, <1>6

-----------------------------------------------------------------------------
(* The steps that change a file.                                           *)

LEMMA BeginInvariant ==
  ASSUME IInv, Begin
  PROVE  IInv'
<1> USE SizeAssumption, RetriesAssumption DEF Begin
<1>f. part.len \in Nat
  BY FileFacts DEF IInv, TypeOK
<1>1. TypeOK'
  <2>1. pc' \in Labels /\ attempt' \in 1..Retries /\ downloaded' \in 0..(Size + 1)
    BY DEF Labels
  <2> QED
    BY <2>1 DEF IInv, TypeOK
<1>2. RequestsAreBounded' /\ RequestsAt' /\ DoneIsClean' /\ VerifiedAt' /\ LengthAt'
  BY DEF RequestsAreBounded, RequestsAt, DoneIsClean, VerifiedAt, Idle, LengthAt, Sent
<1>3. HonestAt' /\ ProgressIsKept' /\ ProgressAt'
  BY <1>f DEF HonestAt, ProgressIsKept, ProgressAt, Useful, Attempting
<1> QED
  BY <1>1, <1>2, <1>3 DEF IInv

(* The .part file is removed.  Where it happens, it was of no use, or the    *)
(* trouble is of a kind that excuses it.                                   *)
LEMMA UnlinkInvariant ==
  ASSUME IInv, NEW next \in Labels, Unlink(next),
         \/ pc = "stale" /\ next = "done"
         \/ pc = "recover" /\ next = "size" /\ part \notin {Unsafe, Pinned} /\ part.len >= Size
         \/ pc = "reject" /\ next = "size"
         \/ pc = "clear" /\ next = "create"
  PROVE  IInv'
<1> USE SizeAssumption, RetriesAssumption, Contents DEF Unlink, history
<1>f. /\ part.len \in Nat /\ part.right \in BOOLEAN /\ attempt \in 1..Retries
      /\ requests \in Nat /\ downloaded \in Nat /\ found.part.len \in Nat
  BY FileFacts DEF IInv, TypeOK
<1>1. TypeOK'
  BY DEF IInv, TypeOK
<1>2. RequestsAreBounded' /\ RequestsAt'
  BY <1>f DEF IInv, RequestsAreBounded, RequestsAt, Restarts, Sent, Idle
<1>3. DoneIsClean' /\ VerifiedAt' /\ LengthAt'
  BY <1>f DEF IInv, DoneIsClean, VerifiedAt, Idle, LengthAt
<1>4. HonestAt'
  BY <1>f DEF IInv, HonestAt, LengthAt, RequestsAt, Attempting
<1>5. ProgressIsKept' /\ ProgressAt'
  <2>1. CASE pc = "recover"
    <3>1. part.len = Size => ~part.right
      BY <1>f, <2>1, FileFacts DEF IInv, TypeOK
    <3> QED
      BY <1>f, <2>1, <3>1 DEF IInv, ProgressIsKept, ProgressAt, Useful
  <2>2. CASE pc = "stale"
    BY <2>2 DEF IInv, VerifiedAt, Idle, ProgressIsKept, ProgressAt
  <2>3. CASE pc \in {"reject", "clear"}
    BY <2>3 DEF IInv, ProgressIsKept, ProgressAt
  <2> QED
    BY <2>1, <2>2, <2>3
<1> QED
  BY <1>1, <1>2, <1>3, <1>4, <1>5 DEF IInv

(* A guard that refuses an alias, or a .part file that stays.               *)
LEMMA KeepInvariant ==
  ASSUME IInv,
         \/ pc \in {"stale", "recover", "size"} /\ part = Unsafe /\ Refuse
         \/ pc = "stale" /\ part = Absent /\ GoTo("done")
         \/ pc = "recover" /\ part \notin {Unsafe, Pinned} /\ part.len < Size /\ GoTo("size")
  PROVE  IInv'
<1> USE SizeAssumption, RetriesAssumption, Contents DEF Refuse, GoTo, FailAttempt, history
<1>f. /\ part.len \in Nat /\ part.right \in BOOLEAN /\ attempt \in 1..Retries
      /\ requests \in Nat /\ downloaded \in Nat /\ found.part.len \in Nat
  BY FileFacts DEF IInv, TypeOK
<1>1. TypeOK'
  BY DEF IInv, TypeOK, Labels, Attempting, Idle
<1>2. RequestsAreBounded' /\ RequestsAt'
  BY <1>f DEF IInv, RequestsAreBounded, RequestsAt, Restarts, Sent, Attempting
<1>3. DoneIsClean' /\ VerifiedAt' /\ LengthAt'
  BY <1>f DEF IInv, DoneIsClean, VerifiedAt, Idle, LengthAt
<1>4. HonestAt'
  BY <1>f DEF IInv, HonestAt, RequestsAt, Attempting
<1>5. ProgressIsKept'
  BY <1>f DEF IInv, ProgressIsKept
<1>6. ProgressAt'
  BY <1>f DEF IInv, ProgressAt, ProgressIsKept, VerifiedAt, Idle
<1> QED
  BY <1>1, <1>2, <1>3, <1>4, <1>5, <1>6 DEF IInv

LEMMA ReplaceInvariant ==
  ASSUME IInv, part = Pinned,
         (pc = "recover" /\ Replace("done")) \/ (pc = "promote" /\ Replace("confirm"))
  PROVE  IInv'
<1> USE SizeAssumption, RetriesAssumption, Contents DEF Replace, history
<1>1. TypeOK'
  BY DEF IInv, TypeOK, Labels, Attempting, Idle, Assets
<1>2. RequestsAreBounded' /\ RequestsAt'
  BY DEF IInv, TypeOK, RequestsAreBounded, RequestsAt, Restarts, Sent
<1>3. DoneIsClean' /\ VerifiedAt' /\ LengthAt'
  BY DEF IInv, DoneIsClean, VerifiedAt, LengthAt, Idle
<1>4. HonestAt'
  BY DEF IInv, HonestAt, VerifiedAt, Attempting, Idle
<1>5. ProgressIsKept' /\ ProgressAt'
  BY DEF IInv, ProgressIsKept, ProgressAt
<1> QED
  BY <1>1, <1>2, <1>3, <1>4, <1>5 DEF IInv

LEMMA SizeInvariant ==
  ASSUME IInv, TakeSize
  PROVE  IInv'
<1> USE SizeAssumption, RetriesAssumption, Contents
<1>f. /\ part.len \in Nat /\ part.right \in BOOLEAN /\ attempt \in 1..Retries
      /\ requests \in Nat /\ downloaded \in Nat /\ found.part.len \in Nat
      /\ part # Unsafe => part.len <= Size + 1
  BY FileFacts DEF IInv, TypeOK
<1>1. CASE part = Unsafe
  BY <1>1, KeepInvariant DEF TakeSize
<1>2. ASSUME part # Unsafe PROVE IInv'
  <2> USE <1>2 DEF TakeSize, history
  <2>0. part'.len = downloaded' /\ downloaded' < Size /\ pc' = "request"
    BY <1>f
  <2>1. TypeOK'
    <3>1. pc' \in Labels /\ part' \in Partial \cup {Unsafe} /\ downloaded' \in 0..(Size + 1)
      BY <1>f DEF IInv, TypeOK, Labels, Attempting
    <3> QED
      BY <3>1 DEF IInv, TypeOK
  <2>2. RequestsAreBounded' /\ RequestsAt'
    BY <1>f DEF IInv, RequestsAreBounded, RequestsAt, Restarts, Sent
  <2>3. DoneIsClean' /\ VerifiedAt' /\ LengthAt'
    BY <2>0 DEF IInv, DoneIsClean, VerifiedAt, Idle, LengthAt
  <2>4. HonestAt'
    BY <1>f DEF IInv, HonestAt, Attempting
  <2>5. ProgressIsKept' /\ ProgressAt'
    BY <1>f DEF IInv, ProgressIsKept, ProgressAt
  <2> QED
    BY <2>1, <2>2, <2>3, <2>4, <2>5 DEF IInv
<1> QED
  BY <1>1, <1>2

LEMMA DiscardInvariant ==
  ASSUME IInv, Discard
  PROVE  IInv'
<1> USE SizeAssumption, RetriesAssumption, Contents DEF Discard, FailAttempt, history
<1>f. /\ attempt \in 1..Retries /\ requests \in Nat /\ downloaded \in Nat
  BY DEF IInv, TypeOK
<1>1. TypeOK'
  BY DEF IInv, TypeOK, Labels, Attempting, Idle
<1>2. RequestsAreBounded' /\ RequestsAt'
  BY <1>f DEF IInv, RequestsAreBounded, RequestsAt, Restarts, Sent, Attempting
<1>3. DoneIsClean' /\ VerifiedAt' /\ LengthAt'
  BY DEF IInv, DoneIsClean, VerifiedAt, Idle, LengthAt
<1>4. HonestAt'
  <2>1. part # Unsafe
    BY DEF IInv, LengthAt
  <2> QED
    BY <1>f, <2>1 DEF IInv, HonestAt, Attempting
<1>5. ProgressIsKept' /\ ProgressAt'
  BY <1>f DEF IInv, ProgressIsKept, ProgressAt
<1> QED
  BY <1>1, <1>2, <1>3, <1>4, <1>5 DEF IInv

LEMMA UnreadableInvariant ==
  ASSUME IInv, Unreadable
  PROVE  IInv'
<1> USE SizeAssumption, RetriesAssumption, Contents DEF Unreadable, Note
<1>f. /\ part.len \in Nat /\ attempt \in 1..Retries /\ requests \in Nat
  BY FileFacts DEF IInv, TypeOK
<1>1. TypeOK'
  <2>1. part' \in Partial \cup {Unsafe} /\ pc' \in Labels /\ trouble' \subseteq Troubles
    BY DEF IInv, TypeOK, Labels, Attempting, Troubles
  <2> QED
    BY <2>1 DEF IInv, TypeOK
<1>2. RequestsAreBounded' /\ RequestsAt'
  BY <1>f DEF IInv, RequestsAreBounded, RequestsAt, Restarts, Sent
<1>3. DoneIsClean' /\ VerifiedAt' /\ LengthAt'
  BY DEF IInv, DoneIsClean, VerifiedAt, Idle, LengthAt
<1>4. HonestAt' /\ ProgressIsKept' /\ ProgressAt'
  BY DEF HonestAt, ProgressIsKept, ProgressAt
<1> QED
  BY <1>1, <1>2, <1>3, <1>4 DEF IInv

-----------------------------------------------------------------------------
(* The request and the body.                                               *)

LEMMA RequestInvariant ==
  ASSUME IInv, Request
  PROVE  IInv'
<1> USE SizeAssumption, RetriesAssumption, Contents DEF Requested, Note
<1>f. /\ part.len \in Nat /\ part.right \in BOOLEAN /\ attempt \in 1..Retries
      /\ requests \in Nat /\ downloaded \in Nat /\ found.part.len \in Nat
      /\ pc = "request" => part # Unsafe
  BY FileFacts DEF IInv, TypeOK, LengthAt
<1>1. CASE Resumes
  <2> USE <1>1 DEF Resumes
  <2>1. TypeOK'
    BY DEF IInv, TypeOK, Labels, Attempting
  <2>2. RequestsAreBounded' /\ RequestsAt'
    BY <1>f DEF IInv, RequestsAreBounded, RequestsAt, Restarts, Sent
  <2>3. DoneIsClean' /\ VerifiedAt' /\ LengthAt'
    BY <1>f DEF IInv, DoneIsClean, VerifiedAt, Idle, LengthAt
  <2>4. HonestAt'
    BY <1>f DEF IInv, HonestAt, LengthAt, Attempting
  <2>5. ProgressIsKept' /\ ProgressAt'
    BY <1>f DEF IInv, ProgressIsKept, ProgressAt
  <2> QED
    BY <2>1, <2>2, <2>3, <2>4, <2>5 DEF IInv
<1>2. CASE SendsAll
  <2> USE <1>2 DEF SendsAll
  <2>1. TypeOK'
    <3>1. pc' \in Labels
      BY DEF Labels, Attempting
    <3>2. downloaded' \in 0..(Size + 1)
      OBVIOUS
    <3>3. trouble' \subseteq Troubles
      <4>1. CASE downloaded > 0
        BY <4>1 DEF IInv, TypeOK, Troubles
      <4>2. CASE ~(downloaded > 0)
        BY <4>2 DEF IInv, TypeOK
      <4> QED
        BY <4>1, <4>2
    <3> QED
      BY <3>1, <3>2, <3>3, <1>f DEF IInv, TypeOK
  <2>2. RequestsAreBounded' /\ RequestsAt'
    BY <1>f DEF IInv, RequestsAreBounded, RequestsAt, Restarts, Sent
  <2>3. DoneIsClean' /\ VerifiedAt' /\ LengthAt'
    BY <1>f DEF IInv, DoneIsClean, VerifiedAt, Idle, LengthAt
  <2>4. HonestAt'
    BY <1>f DEF IInv, HonestAt, LengthAt, Attempting
  <2>5. ProgressIsKept'
    BY <1>f DEF IInv, ProgressIsKept, ProgressAt, LengthAt, Useful
  <2>6. ProgressAt'
    <3>1. CASE downloaded > 0
      BY <3>1 DEF ProgressAt
    <3>2. CASE ~(downloaded > 0)
      <4>1. part.len = 0
        BY <1>f, <3>2 DEF IInv, LengthAt, TypeOK
      <4>2. Useful(found.part) /\ trouble \subseteq {"refusal", "cut"} => dest = Pinned
        BY <1>f, <4>1 DEF IInv, ProgressIsKept, Useful
      <4> QED
        BY <3>2, <4>2 DEF ProgressAt
    <3> QED
      BY <3>1, <3>2
  <2> QED
    BY <2>1, <2>2, <2>3, <2>4, <2>5, <2>6 DEF IInv
<1>3. CASE Refuses
  <2> USE <1>3 DEF Refuses, FailAttempt
  <2>1. TypeOK'
    <3>1. pc' \in Labels /\ attempt' \in 1..Retries /\ trouble' \subseteq Troubles
      BY <1>f DEF IInv, TypeOK, Labels, Attempting, Idle, Troubles
    <3> QED
      BY <3>1, <1>f DEF IInv, TypeOK
  <2>2. RequestsAreBounded' /\ RequestsAt'
    BY <1>f DEF IInv, RequestsAreBounded, RequestsAt, Restarts, Sent, Attempting
  <2>3. DoneIsClean' /\ VerifiedAt' /\ LengthAt'
    BY <1>f DEF IInv, DoneIsClean, VerifiedAt, Idle, LengthAt
  <2>4. HonestAt'
    BY <1>f DEF HonestAt
  <2>5. ProgressIsKept' /\ ProgressAt'
    BY <1>f DEF IInv, ProgressIsKept, ProgressAt, LengthAt
  <2> QED
    BY <2>1, <2>2, <2>3, <2>4, <2>5 DEF IInv
<1>4. CASE RejectsRange
  <2> USE <1>4 DEF RejectsRange
  <2>1. TypeOK'
    <3>1. pc' \in Labels /\ trouble' \subseteq Troubles
      BY DEF IInv, TypeOK, Labels, Attempting, Troubles
    <3> QED
      BY <3>1, <1>f DEF IInv, TypeOK
  <2>2. RequestsAreBounded' /\ RequestsAt'
    BY <1>f DEF IInv, RequestsAreBounded, RequestsAt, Restarts, Sent
  <2>3. DoneIsClean' /\ VerifiedAt' /\ LengthAt'
    BY <1>f DEF IInv, DoneIsClean, VerifiedAt, Idle, LengthAt
  <2>4. HonestAt'
    BY <1>f DEF IInv, HonestAt, LengthAt, Attempting
  <2>5. ProgressIsKept' /\ ProgressAt'
    BY DEF ProgressIsKept, ProgressAt
  <2> QED
    BY <2>1, <2>2, <2>3, <2>4, <2>5 DEF IInv
<1> QED
  BY <1>1, <1>2, <1>3, <1>4 DEF Request

LEMMA CreateInvariant ==
  ASSUME IInv, Create
  PROVE  IInv'
<1> USE SizeAssumption, RetriesAssumption, Contents DEF Create, history
<1>1. TypeOK'
  BY DEF IInv, TypeOK, Labels, Attempting
<1>2. RequestsAreBounded' /\ RequestsAt'
  BY DEF IInv, TypeOK, RequestsAreBounded, RequestsAt, Restarts, Sent
<1>3. DoneIsClean' /\ VerifiedAt' /\ LengthAt'
  BY DEF IInv, DoneIsClean, VerifiedAt, Idle, LengthAt
<1>4. HonestAt'
  BY DEF IInv, HonestAt, LengthAt, Attempting
<1>5. ProgressIsKept' /\ ProgressAt'
  BY DEF IInv, ProgressIsKept, ProgressAt
<1> QED
  BY <1>1, <1>2, <1>3, <1>4, <1>5 DEF IInv

LEMMA BlockInvariant ==
  ASSUME IInv, RightBlock \/ WrongBlock
  PROVE  IInv'
<1> USE SizeAssumption, RetriesAssumption, Contents DEF Written
<1>f. /\ part \in Partial /\ part.len \in Nat /\ part.right \in BOOLEAN
      /\ part.len = downloaded /\ downloaded <= Size
      /\ attempt \in 1..Retries /\ requests \in Nat /\ found.part.len \in Nat
  BY FileFacts DEF IInv, TypeOK, LengthAt, RightBlock, WrongBlock
<1>1. CASE RightBlock
  <2> USE <1>1 DEF RightBlock
  <2>f. /\ part' \in Partial /\ part'.len = part.len + 1 /\ part'.right = part.right
        /\ part' # Absent /\ part' # Unsafe
    BY <1>f, BlockFacts
  <2>1. TypeOK'
    BY <1>f, <2>f DEF IInv, TypeOK
  <2>2. RequestsAreBounded' /\ RequestsAt'
    BY DEF IInv, RequestsAreBounded, RequestsAt, Restarts, Sent
  <2>3. DoneIsClean' /\ VerifiedAt' /\ LengthAt'
    BY <1>f, <2>f DEF IInv, DoneIsClean, VerifiedAt, Idle, LengthAt
  <2>4. HonestAt'
    BY <1>f, <2>f DEF IInv, HonestAt
  <2>5. ProgressIsKept' /\ ProgressAt'
    BY <1>f, <2>f DEF IInv, ProgressIsKept, ProgressAt
  <2> QED
    BY <2>1, <2>2, <2>3, <2>4, <2>5 DEF IInv
<1>2. CASE WrongBlock
  <2> USE <1>2 DEF WrongBlock, Note
  <2>f. /\ part' \in Partial /\ part'.len = part.len + 1
        /\ part' # Absent /\ part' # Unsafe
    BY <1>f, BlockFacts
  <2>1. TypeOK'
    <3>1. pc' \in Labels /\ attempt' \in 1..Retries
      BY <1>f DEF IInv, TypeOK, FailAttempt, Labels, Attempting, Idle
    <3> QED
      BY <1>f, <2>f, <3>1 DEF IInv, TypeOK, Troubles
  <2>2. RequestsAreBounded' /\ RequestsAt'
    BY <1>f DEF IInv, RequestsAreBounded, RequestsAt, Restarts, Sent, FailAttempt, Attempting
  <2>3. DoneIsClean' /\ VerifiedAt' /\ LengthAt'
    BY <1>f, <2>f DEF IInv, DoneIsClean, VerifiedAt, Idle, LengthAt, FailAttempt
  <2>4. HonestAt' /\ ProgressIsKept' /\ ProgressAt'
    BY DEF HonestAt, ProgressIsKept, ProgressAt
  <2> QED
    BY <2>1, <2>2, <2>3, <2>4 DEF IInv
<1> QED
  BY <1>1, <1>2

-----------------------------------------------------------------------------
(* The theorems.                                                           *)

LEMMA NextInvariant == IInv /\ [Next]_vars => IInv'
<1> SUFFICES ASSUME IInv, [Next]_vars PROVE IInv'
  OBVIOUS
<1> USE DEF Labels, Idle, Attempting
<1>1. CASE Begin
  BY <1>1, BeginInvariant
<1>2. CASE Examine \/ Verify \/ Confirm \/ BodyEnds \/ Stop \/ Fault
  BY <1>2, ExamineInvariant
<1>3. CASE DropStale
  BY <1>3, KeepInvariant, UnlinkInvariant DEF DropStale, Exists
<1>4. CASE Recover
  <2>1. part.len \in Nat
    BY FileFacts DEF IInv, TypeOK
  <2> QED
    BY <1>4, <2>1, SizeAssumption, KeepInvariant, UnlinkInvariant, ReplaceInvariant DEF Recover
<1>5. CASE TakeSize
  BY <1>5, SizeInvariant
<1>6. CASE Request
  BY <1>6, RequestInvariant
<1>7. CASE Restart \/ Clear
  BY <1>7, UnlinkInvariant DEF Restart, Clear
<1>8. CASE Create
  BY <1>8, CreateInvariant
<1>9. CASE RightBlock \/ WrongBlock
  BY <1>9, BlockInvariant
<1>10. CASE Discard
  BY <1>10, DiscardInvariant
<1>11. CASE Promote
  BY <1>11, ReplaceInvariant DEF Promote, IInv, VerifiedAt, Idle
<1>12. CASE Unreadable
  BY <1>12, UnreadableInvariant
<1>13. CASE UNCHANGED vars
  BY <1>13
  DEF vars, IInv, TypeOK, RequestsAreBounded, DoneIsClean, ProgressIsKept, RequestsAt,
      VerifiedAt, LengthAt, HonestAt, ProgressAt, Useful, Restarts, Sent
<1> QED
  BY <1>1, <1>2, <1>3, <1>4, <1>5, <1>6, <1>7, <1>8, <1>9, <1>10, <1>11, <1>12, <1>13
  DEF Next

LEMMA Invariant == Spec => []IInv
  BY InitInvariant, NextInvariant, PTL DEF Spec

(* Every reachable state of a download is well typed.                       *)
THEOREM DownloadTypeCorrect == Spec => []TypeOK
<1>1. IInv => TypeOK
  BY DEF IInv
<1> QED
  BY <1>1, Invariant, PTL

(* For any size and number of attempts, a server that serves the file, a     *)
(* range of it or a rejection of ranges installs it in two attempts.        *)
THEOREM HonestServerInstalls == Spec => []HonestServerSuffices
<1>1. IInv => HonestServerSuffices
  BY DEF IInv, HonestAt, HonestServerSuffices
<1> QED
  BY <1>1, Invariant, PTL

(* A call makes one request per attempt, and at most one more.              *)
THEOREM BoundedRequests == Spec => []RequestsAreBounded
<1>1. IInv => RequestsAreBounded
  BY DEF IInv
<1> QED
  BY <1>1, Invariant, PTL

(* Broken connections and refusals never cost a right .part file.           *)
THEOREM KeptProgress == Spec => []ProgressIsKept
<1>1. IInv => ProgressIsKept
  BY DEF IInv
<1> QED
  BY <1>1, Invariant, PTL

(* A call that returns leaves the pinned file and no .part file.            *)
THEOREM CleanDownload == Spec => []DoneIsClean
<1>1. IInv => DoneIsClean
  BY DEF IInv
<1> QED
  BY <1>1, Invariant, PTL

-----------------------------------------------------------------------------
(* ensure_asset for ensure_snapshot: within a call the asset is what it was  *)
(* when the call began, or the pinned one.                                  *)
LEMMA PinnedOnly ==
  ASSUME IInv, [Next]_vars, dest' # dest
  PROVE  dest' = Pinned /\ pc \in {"recover", "promote"} /\ pc' \in {"done", "confirm"}
<1>1. CASE Recover \/ Promote
  BY <1>1
  DEF Recover, Promote, Replace, Unlink, GoTo, Refuse, FailAttempt, history, IInv, VerifiedAt, Idle
<1>2. CASE Begin \/ Examine \/ DropStale \/ TakeSize \/ Request \/ Restart \/ Clear \/ Create
  BY <1>2
  DEF Begin, Examine, DropStale, TakeSize, Request, Resumes, SendsAll, Refuses,
      RejectsRange, Requested, Restart, Clear, Create, Unlink, GoTo, Refuse
<1>3. CASE \/ RightBlock \/ WrongBlock \/ BodyEnds \/ Verify \/ Discard \/ Confirm
           \/ Fault \/ Unreadable \/ Stop \/ UNCHANGED vars
  BY <1>3
  DEF RightBlock, WrongBlock, Written, BodyEnds, Verify, Discard, Confirm, Fault,
      Unreadable, Stop, Fails, GoTo, vars
<1> QED
  BY <1>1, <1>2, <1>3 DEF Next

(* The history is written by Begin only, which alone leaves an idle label.   *)
LEMMA FoundStable ==
  ASSUME [Next]_vars
  PROVE  \/ /\ pc \in Idle /\ found' = [dest |-> dest, part |-> part]
            /\ pc' = "begin" /\ UNCHANGED <<dest, part>>
         \/ pc \notin Idle /\ found' = found /\ pc' # "idle"
         \/ UNCHANGED <<pc, found, dest, part>>
<1> USE DEF Idle
<1>1. CASE Begin
  BY <1>1 DEF Begin
<1>2. CASE Examine \/ DropStale \/ Recover \/ TakeSize \/ Request \/ Restart \/ Clear \/ Create
  BY <1>2
  DEF Examine, DropStale, Recover, TakeSize, Request, Resumes, SendsAll, Refuses, RejectsRange,
      Requested, Restart, Clear, Create, Replace, Unlink, GoTo, Refuse, FailAttempt, history
<1>3. CASE \/ RightBlock \/ WrongBlock \/ BodyEnds \/ Verify \/ Discard \/ Promote \/ Confirm
           \/ Fault \/ Unreadable \/ Stop
  BY <1>3
  DEF RightBlock, WrongBlock, Written, BodyEnds, Verify, Discard, Promote, Confirm, Fault,
      Unreadable, Stop, Fails, FailAttempt, Replace, GoTo, history, Attempting
<1>4. CASE UNCHANGED vars
  BY <1>4 DEF vars
<1> QED
  BY <1>1, <1>2, <1>3, <1>4 DEF Next

(* A step of a call neither makes nor removes an unsafe .part.              *)
LEMMA UnsafePartStays ==
  ASSUME IInv, [Next]_vars, pc \notin Idle
  PROVE  part' = Unsafe <=> part = Unsafe
<1> USE SizeAssumption, Contents DEF GoTo, Unlink, Replace, Refuse, Fails
<1>1. CASE Begin \/ Examine \/ Verify \/ Confirm \/ Fault \/ BodyEnds \/ Stop \/ UNCHANGED vars
  BY <1>1 DEF Begin, Examine, Verify, Confirm, Fault, BodyEnds, Stop, vars
<1>2. CASE DropStale \/ Recover \/ TakeSize \/ Unreadable
  BY <1>2 DEF DropStale, Recover, TakeSize, Unreadable
<1>3. CASE Request
  BY <1>3 DEF Request, Resumes, SendsAll, Refuses, RejectsRange
<1>4. CASE Restart \/ Clear \/ Create
  BY <1>4 DEF Restart, Clear, Create, IInv, LengthAt
<1>5. CASE Discard \/ Promote
  BY <1>5 DEF Discard, Promote, IInv, LengthAt, VerifiedAt, Unsafe, Absent
<1>6. CASE RightBlock \/ WrongBlock
  <2>1. part.len = downloaded /\ downloaded <= Size /\ downloaded \in 0..(Size + 1)
    BY <1>6 DEF RightBlock, WrongBlock, IInv, TypeOK, LengthAt
  <2>2. part.len + 1 # Size + 2 /\ part.len # Size + 2
    BY <2>1
  <2> QED
    BY <1>6, <2>2 DEF RightBlock, WrongBlock, Written, Unsafe
<1> QED
  BY <1>1, <1>2, <1>3, <1>4, <1>5, <1>6 DEF Next

(* Before the first attempt an unsafe entry is refused, or nothing happens.  *)
LEMMA UnsafeIsRefused ==
  ASSUME IInv, [Next]_vars, pc \in {"begin", "stale", "recover"}, Unsafe \in {dest, part}
  PROVE  UNCHANGED <<dest, part>> /\ pc' \in {"begin", "stale", "recover"} \cup Idle
<1> USE DEF Idle, Attempting
<1>1. CASE Examine \/ DropStale \/ Recover
  BY <1>1, Contents
  DEF Examine, DropStale, Recover, GoTo, Refuse, FailAttempt, IInv, VerifiedAt, Idle
<1>2. CASE Fault \/ Stop
  BY <1>2 DEF Fault, Fails, FailAttempt, Stop, GoTo
<1>3. CASE Unreadable
  BY <1>3 DEF Unreadable, IInv, VerifiedAt
<1>4. CASE UNCHANGED vars
  BY <1>4 DEF vars
<1>5. CASE TakeSize \/ Request \/ Restart \/ Clear \/ Create \/ Begin
  BY <1>5
  DEF TakeSize, Request, Resumes, SendsAll, Refuses, RejectsRange, Requested, Restart, Clear,
      Create, Begin
<1>6. CASE RightBlock \/ WrongBlock \/ BodyEnds \/ Verify \/ Discard \/ Promote \/ Confirm
  BY <1>6 DEF RightBlock, WrongBlock, BodyEnds, Verify, Discard, Promote, Confirm
<1> QED
  BY <1>1, <1>2, <1>3, <1>4, <1>5, <1>6 DEF Next

(* What was found, or the pinned asset: nothing else is ever in its place,   *)
(* and an unsafe entry is only met before the first attempt.                *)
LEMMA FoundInvariant == Spec => []FoundAt
<1>1. Init => FoundAt
  BY DEF Init, FoundAt, Idle
<1>2. IInv /\ FoundAt /\ [Next]_vars => FoundAt'
  <2> SUFFICES ASSUME IInv, FoundAt, [Next]_vars PROVE FoundAt'
    OBVIOUS
  <2>1. CASE pc \in Idle
    BY <2>1, FoundStable DEF FoundAt, Idle
  <2>2. CASE pc \notin Idle
    <3>1. found' = found /\ (part' = Unsafe <=> found'.part = Unsafe)
      BY <2>2, FoundStable, UnsafePartStays DEF FoundAt
    <3>2. dest' \in {found'.dest, Pinned} /\ (dest' = Unsafe => dest = Unsafe)
      BY <2>2, <3>1, PinnedOnly, Contents DEF FoundAt
    <3>3. Unsafe \in {found'.dest, found'.part} /\ pc' \notin Idle
          => dest' = found'.dest /\ part' = found'.part /\ pc' \in {"begin", "stale", "recover"}
      <4>1. Unsafe \in {found.dest, found.part} =>
              /\ Unsafe \in {dest, part} /\ dest = found.dest /\ part = found.part
              /\ pc \in {"begin", "stale", "recover"}
        BY <2>2 DEF FoundAt
      <4> QED
        BY <3>1, <4>1, UnsafeIsRefused
    <3> QED
      BY <3>1, <3>2, <3>3 DEF FoundAt
  <2> QED
    BY <2>1, <2>2
<1> QED
  BY <1>1, <1>2, Invariant, PTL DEF Spec

LEMMA AssetEntry ==
  ASSUME NEW a, NEW b
  PROVE  [[f \in {"asset"} |-> a] EXCEPT !["asset"] = b] = [f \in {"asset"} |-> b]
OBVIOUS

(* A step within a call shows nothing of it; the last one shows what became  *)
(* of both files.                                                          *)
LEMMA EnsureStepOrNone ==
  ASSUME IInv, FoundAt, IInv', FoundAt', [Next]_vars, pc \notin Idle
  PROVE  EnsureStep \/ UNCHANGED Ensured!vars
<1>0. found' = found
  BY FoundStable
<1>1. CASE pc' \notin Idle
  <2>1. Shown' = Shown
    BY <1>0, <1>1 DEF Shown
  <2>2. ~Refused /\ ~Refused'
    BY <1>1 DEF Refused, Idle
  <2> QED
    BY <1>1, <2>1, <2>2 DEF Ensured!vars, Ensured!diskVars, ShownDest, ShownPart, Idle
<1>2. CASE pc' = "done"
  <2>1. dest' = Pinned /\ part' = Absent
    BY <1>2 DEF IInv, DoneIsClean
  <2>2. Unsafe \notin {dest, part}
    <3>1. Unsafe \notin {dest', part'}
      BY <2>1, Contents
    <3>2. Unsafe \in {dest, part} => Unsafe \in {found.dest, found.part}
      BY Contents DEF FoundAt
    <3> QED
      BY <2>1, <3>1, <3>2, UnsafeIsRefused, UnsafePartStays, Contents DEF FoundAt
  <2>3. Unsafe \notin {Shown.dest, Shown.part}
    BY <2>2, Contents DEF FoundAt, Shown
  <2>4. ShownDest # "unsafe" /\ ShownPart # "unsafe"
    BY <2>3 DEF ShownDest, ShownPart
  <2>5. ShownDest' = "pinned" /\ ShownPart' = "absent" /\ ~Refused /\ ~Refused'
    BY <1>2, <2>1, Contents DEF ShownDest, ShownPart, Shown, Refused, Idle
  <2> QED
    BY <1>2, <2>4, <2>5
    DEF EnsureStep, Ensured!InstallFile, Ensured!Blocked, Ensured!GoTo, Idle
<1>3. CASE pc' \in {"failed", "stopped"}
  <2>1. Shown = found /\ Shown' = [dest |-> dest', part |-> part'] /\ pc # "done"
    BY <1>3 DEF Shown, Idle
  <2>2. ~Refused
    BY DEF Refused, Idle
  <2>3. CASE Unsafe \in {dest, part}
    <3>1. dest' = dest /\ part' = part /\ dest = found.dest /\ part = found.part
      <4>1. Unsafe \in {found.dest, found.part}
        BY <2>3, Contents DEF FoundAt
      <4> QED
        BY <2>3, <4>1, UnsafeIsRefused DEF FoundAt
    <3>2. ShownDest' = ShownDest /\ ShownPart' = ShownPart
      BY <2>1, <3>1 DEF ShownDest, ShownPart
    <3>3. "unsafe" \in {ShownDest, ShownPart}
      BY <2>1, <2>3, <3>1, Contents DEF ShownDest, ShownPart
    <3>4. CASE pc' = "failed"
      <4>1. Refused'
        BY <2>3, <3>1, <3>4 DEF Refused
      <4>2. Ensured!RefuseFile("asset")
        BY <2>1, <2>2, <3>2, <3>3, <3>4, <4>1
        DEF Ensured!RefuseFile, Ensured!Refuse, Ensured!Ends, Ensured!Blocked, Idle
      <4> QED
        BY <4>2 DEF EnsureStep
    <3>5. CASE pc' = "stopped"
      <4>1. ~Refused'
        BY <3>5 DEF Refused
      <4>2. Ensured!GiveUpFile("asset", "dead")
        BY <2>1, <2>2, <3>2, <3>3, <3>5, <4>1
        DEF Ensured!GiveUpFile, Ensured!Costs, Ensured!Blocked, Idle
      <4> QED
        BY <4>2 DEF EnsureStep
    <3> QED
      BY <1>3, <3>4, <3>5
  <2>4. CASE Unsafe \notin {dest, part}
    <3>1. Unsafe \notin {dest', part'} /\ Unsafe \notin {found.dest, found.part}
      <4>1. Unsafe \notin {dest', part'}
        BY <2>4, UnsafePartStays, PinnedOnly, Contents
      <4>2. Unsafe \notin {found.dest, found.part}
        BY <2>4 DEF FoundAt
      <4> QED
        BY <4>1, <4>2
    <3>2. ShownDest # "unsafe" /\ ShownPart # "unsafe" /\ ~Refused'
      BY <2>1, <3>1 DEF ShownDest, ShownPart, Refused
    <3>3. ShownDest' \in {ShownDest, "pinned"}
      <4>1. dest' \in {found.dest, Pinned} /\ Pinned # Absent /\ Pinned # Unsafe
        BY PinnedOnly, Contents DEF FoundAt
      <4>2. CASE dest' = found.dest
        BY <2>1, <4>2 DEF ShownDest
      <4>3. CASE dest' = Pinned
        BY <2>1, <4>1, <4>3 DEF ShownDest
      <4> QED
        BY <4>1, <4>2, <4>3
    <3>4. ShownPart' \in {"absent", "file"}
      BY <2>1, <3>1 DEF ShownPart
    <3>5. PICK outcome \in {"failed", "dead"} :
            outcome = IF pc' = "failed" THEN "failed" ELSE "dead"
      OBVIOUS
    <3>6. Ensured!GiveUpFile("asset", outcome)
      <4>1. ~Ensured!Blocked("asset")
        BY <3>2 DEF Ensured!Blocked
      <4>2. Ensured!Costs
        BY <1>3, <2>2, <3>2 DEF Ensured!Costs, Idle
      <4>3. [f \in {"asset"} |-> ShownDest'] \in
              {[f \in {"asset"} |-> ShownDest],
               [[f \in {"asset"} |-> ShownDest] EXCEPT !["asset"] = "pinned"]}
        BY <3>3, AssetEntry
      <4>4. [f \in {"asset"} |-> ShownPart'] \in
              {[[f \in {"asset"} |-> ShownPart] EXCEPT !["asset"] = "absent"],
               [[f \in {"asset"} |-> ShownPart] EXCEPT !["asset"] = "file"]}
        BY <3>4, AssetEntry
      <4> QED
        BY <1>3, <2>1, <3>5, <4>1, <4>2, <4>3, <4>4 DEF Ensured!GiveUpFile, Idle
    <3> QED
      BY <3>6 DEF EnsureStep
  <2> QED
    BY <2>3, <2>4
<1>4. pc' # "idle"
  BY FoundStable DEF Idle
<1> QED
  BY <1>1, <1>2, <1>3, <1>4 DEF Idle

(* A call of ensure_asset is the step that ensure_snapshot is modelled with,  *)
(* for any size, number of attempts, server and leftover of earlier calls.   *)
THEOREM DownloadImplementsEnsure == Spec => EnsuresAsAssumed
<1>1. /\ IInv /\ FoundAt /\ IInv' /\ FoundAt' /\ [Next]_vars
      => [pc \notin Idle => EnsureStep]_(Ensured!vars)
  BY EnsureStepOrNone
<1> QED
  BY <1>1, Invariant, FoundInvariant, PTL DEF Spec, EnsuresAsAssumed

(* Only the pinned content is ever put under the asset's name.              *)
THEOREM OnlyPinnedIsPromoted == Spec => PromotedIsPinned
<1>1. IInv /\ [Next]_vars => [dest' # dest => dest' = Pinned]_vars
  BY PinnedOnly
<1> QED
  BY <1>1, Invariant, PTL DEF Spec, PromotedIsPinned
===============================================================================
