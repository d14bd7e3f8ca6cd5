--------------------------- MODULE AudioFilesProofs ---------------------------
(***************************************************************************)
(* Theorems about AudioFiles, for every set of handlers and of failures.   *)
(* What a finished handler leaves behind, and what one that reads its      *)
(* files finds, follow from an invariant that says where between two calls *)
(* each file is and who knows of it.                                       *)
(***************************************************************************)
EXTENDS AudioFiles, TLAPS

(* Why a file may be left by a handler whose finally block failed nowhere.  *)
Explained(h, role) ==
  \/ failed[h] = "write" /\ role = "input"
  \/ /\ failed[h] \in {"spawn", "discard"}
     /\ role = "output" /\ kind[h] = "transcription"

(* A file is made once: none before the first call, no output before the    *)
(* input is known.                                                          *)
NotYetMade(h) ==
  /\ At(h, "start") => \A role \in Roles : <<h, role>> \notin files
  /\ pc[h] \in {"start", "write", "output"} => <<h, "output">> \notin files

(* From its call to the finally block a file is there, or was cleaned.      *)
Present(h) ==
  /\ pc[h] \in {"write", "output", "ffmpeg", "use"}
       => <<h, "input">> \in files \cup cleaned
  /\ pc[h] \in {"ffmpeg", "use"} => <<h, "output">> \in files \cup cleaned

(* Whatever is there is known to the finally block - the decoder's output   *)
(* only once the decoder has returned.                                      *)
Known(h) ==
  /\ pc[h] \in {"output", "ffmpeg", "use"} => "input" \in known[h]
  /\ At(h, "ffmpeg") /\ kind[h] = "encoding" => "output" \in known[h]
  /\ At(h, "use") => "output" \in known[h]

(* What is left to unlink, or left behind.                                  *)
Left(h) ==
  \A role \in Roles :
    <<h, role>> \in files =>
      /\ At(h, "cleanup") => role \in known[h] \/ Explained(h, role)
      /\ At(h, "done")    => failed[h] = "unlink" \/ Explained(h, role)

HandlerInv(h) == NotYetMade(h) /\ Present(h) /\ Known(h) /\ Left(h)

IInv == TypeOK /\ \A h \in Handlers : HandlerInv(h)
-----------------------------------------------------------------------------
LEMMA InitInv == Init => IInv
BY DEF Init, IInv, TypeOK, HandlerPc, Roles, HandlerInv, NotYetMade, Present,
       Known, Left, At

(* A step of a handler, or of the cleaner, keeps the types.                 *)
LEMMA StepType ==
  ASSUME TypeOK, NEW h \in Handlers, Step(h), UNCHANGED cleaned
  PROVE  TypeOK'
<1> USE AudioAssumption
    DEF TypeOK, AllFailures, HandlerPc, Roles, At, Goto, Know, Raise
<1>1. CASE CreateInput(h)
  BY <1>1 DEF CreateInput
<1>2. CASE WriteInput(h)
  BY <1>2 DEF WriteInput
<1>3. CASE CreateOutput(h)
  BY <1>3 DEF CreateOutput
<1>4. CASE Ffmpeg(h)
  BY <1>4 DEF Ffmpeg
<1>5. CASE Use(h)
  BY <1>5 DEF Use
<1>6. CASE Unlink(h)
  BY <1>6 DEF Unlink
<1> QED BY <1>1, <1>2, <1>3, <1>4, <1>5, <1>6 DEF Step

LEMMA CleanType ==
  ASSUME TypeOK, Clean
  PROVE  TypeOK'
BY DEF TypeOK, Clean

(* A step of h concerns its own files and its own fields.                   *)
LEMMA StepsAreLocal ==
  ASSUME TypeOK, NEW h \in Handlers, Step(h), UNCHANGED cleaned,
         NEW k \in Handlers, k # h
  PROVE  /\ pc'[k] = pc[k] /\ kind'[k] = kind[k]
         /\ known'[k] = known[k] /\ failed'[k] = failed[k]
         /\ \A role \in Roles : <<k, role>> \in files' <=> <<k, role>> \in files
<1> USE DEF TypeOK, Goto, Know, Raise
<1>1. CASE CreateInput(h)
  BY <1>1 DEF CreateInput
<1>2. CASE WriteInput(h)
  BY <1>2 DEF WriteInput
<1>3. CASE CreateOutput(h)
  BY <1>3 DEF CreateOutput
<1>4. CASE Ffmpeg(h)
  BY <1>4 DEF Ffmpeg
<1>5. CASE Use(h)
  BY <1>5 DEF Use
<1>6. CASE Unlink(h)
  BY <1>6 DEF Unlink
<1> QED BY <1>1, <1>2, <1>3, <1>4, <1>5, <1>6 DEF Step

(* What a step leaves alone keeps its invariant.                            *)
LEMMA SameInv ==
  ASSUME NEW k \in Handlers, HandlerInv(k), UNCHANGED cleaned,
         pc'[k] = pc[k], kind'[k] = kind[k],
         known'[k] = known[k], failed'[k] = failed[k],
         \A role \in Roles : <<k, role>> \in files' <=> <<k, role>> \in files
  PROVE  HandlerInv(k)'
BY DEF HandlerInv, NotYetMade, Present, Known, Left, Explained, At, Roles
-----------------------------------------------------------------------------
(* The step of a handler keeps its own invariant, call by call.             *)
LEMMA StepInv ==
  ASSUME TypeOK, NEW h \in Handlers, HandlerInv(h), Step(h), UNCHANGED cleaned
  PROVE  HandlerInv(h)'
<1> USE DEF TypeOK, At, Goto, Know, Raise, Roles,
            HandlerInv, NotYetMade, Present, Known, Left, Explained
<1>1. CASE CreateInput(h)
  BY <1>1 DEF CreateInput
<1>2. CASE WriteInput(h)
  BY <1>2 DEF WriteInput
<1>3. CASE CreateOutput(h)
  BY <1>3 DEF CreateOutput
<1>4. CASE Ffmpeg(h)
  BY <1>4 DEF Ffmpeg
<1>5. CASE Use(h)
  BY <1>5 DEF Use
<1>6. CASE Unlink(h)
  BY <1>6 DEF Unlink
<1> QED BY <1>1, <1>2, <1>3, <1>4, <1>5, <1>6 DEF Step

(* The cleaner takes files away, and remembers which.                       *)
LEMMA CleanInv ==
  ASSUME NEW h \in Handlers, HandlerInv(h), Clean
  PROVE  HandlerInv(h)'
BY DEF Clean, HandlerInv, NotYetMade, Present, Known, Left, Explained, At

LEMMA NextInv == IInv /\ [Next]_vars => IInv'
<1> SUFFICES ASSUME IInv, [Next]_vars PROVE IInv'
  OBVIOUS
<1>1. ASSUME NEW h \in Handlers, Step(h), UNCHANGED cleaned PROVE IInv'
  <2>1. TypeOK'
    BY <1>1, StepType DEF IInv
  <2>2. HandlerInv(h)'
    BY <1>1, StepInv DEF IInv
  <2>3. ASSUME NEW k \in Handlers, k # h PROVE HandlerInv(k)'
    BY <1>1, <2>3, StepsAreLocal, SameInv DEF IInv
  <2> QED BY <2>1, <2>2, <2>3 DEF IInv
<1>2. CASE Clean
  BY <1>2, CleanType, CleanInv DEF IInv
<1>3. CASE UNCHANGED vars
  BY <1>3 DEF vars, IInv, TypeOK, HandlerInv, NotYetMade, Present, Known, Left,
              Explained, At
<1> QED BY <1>1, <1>2, <1>3 DEF Next

(* The inductive invariant: where each file is and who knows of it.         *)
THEOREM FileInvariant == Spec => []IInv
BY InitInv, NextInv, PTL DEF Spec
-----------------------------------------------------------------------------
(* Every variable of the handlers has its type. *)
THEOREM TypeCorrect == Spec => []TypeOK
<1>1. IInv => TypeOK
  BY DEF IInv
<1> QED BY <1>1, FileInvariant, PTL

(* A handler leaves a file behind only by one of the four failures.         *)
THEOREM LeaksExplained == Spec => []LeaksAreExplained
<1>1. IInv => LeaksAreExplained
  BY DEF IInv, HandlerInv, Left, Explained, LeaksAreExplained
<1> QED BY <1>1, FileInvariant, PTL

(* No handler removes a file that it, or another, still has to read.        *)
THEOREM NoFileInUseIsRemoved == Spec => []FilesInUseExist
<1>1. IInv => FilesInUseExist
  BY DEF IInv, HandlerInv, Present, FilesInUseExist, Roles, At
<1> QED BY <1>1, FileInvariant, PTL
=============================================================================
