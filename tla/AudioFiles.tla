------------------------------ MODULE AudioFiles ------------------------------
(***************************************************************************)
(* The temporary files of the audio endpoints: the upload and the decoded  *)
(* WAV of audio_transcriptions, and the input and output of ffmpeg when    *)
(* audio_speech encodes its answer.  They are created with delete=False,   *)
(* so that whoever knows a path has to unlink it.                          *)
(*                                                                         *)
(* Every call that can raise does so or not; Failures names the ones that  *)
(* may.  The handlers run at the same time and share the directory; a      *)
(* cleaner of temporary directories may take a file away.                  *)
(***************************************************************************)
EXTENDS Naturals, FiniteSets

CONSTANTS
  Handlers,  \* the handlers of audio requests
  Failures,  \* which of AllFailures happen
  None

(* NamedTemporaryFile; write(); ffmpeg not installed or with a non-zero     *)
(* exit status; subprocess.run() with another OSError; what follows a       *)
(* successful run (the check of the samples, the inference lock, inference, *)
(* reading the output back); unlink() with another error than "not found",  *)
(* in the decoder after ffmpeg has failed and in the finally block.         *)
AllFailures ==
  {"create", "write", "ffmpeg", "spawn", "use", "discard", "unlink"}

ASSUME AudioAssumption == Failures \subseteq AllFailures

VARIABLES
  files,  \* the files that exist: pairs of a handler and a role
  pc,     \* where a handler is
  kind,   \* "transcription" or "encoding"
  known,  \* known[h]: the paths its finally block will see
  failed, \* failed[h]: the last failure it met, or None
  cleaned \* the files the cleaner took

vars == <<files, pc, kind, known, failed, cleaned>>

Roles == {"input", "output"}
HandlerPc == {"start", "write", "output", "ffmpeg", "use", "cleanup", "done"}

Init ==
  /\ files  = {}
  /\ pc     = [h \in Handlers |-> "start"]
  /\ kind   \in [Handlers -> {"transcription", "encoding"}]
  /\ known  = [h \in Handlers |-> {}]
  /\ failed = [h \in Handlers |-> None]
  /\ cleaned = {}

At(h, where) == pc[h] = where
Goto(h, where) == pc' = [pc EXCEPT ![h] = where]

(* Mutant: the file object is kept in place of its path. *)
KnowObject(h, role) == known' = [known EXCEPT ![h] = @ \cup {<<h, role>>}]

(* A path is assigned to the variable that the finally block looks at.      *)
Know(h, role) == known' = [known EXCEPT ![h] = @ \cup {role}]

(* The call at from raises; the exception reaches the finally block.        *)
Raise(h, from, failure) ==
  /\ At(h, from) /\ failure \in Failures
  /\ failed' = [failed EXCEPT ![h] = failure]
  /\ Goto(h, "cleanup")
-----------------------------------------------------------------------------
(* Mutants: the path is forgotten; the decoder unlinks its output whether   *)
(* or not ffmpeg succeeds.                                                  *)
WriteForgets(h) ==
  \/ /\ At(h, "write")
     /\ Goto(h, "output")
     /\ UNCHANGED <<files, kind, known, failed>>
  \/ /\ Raise(h, "write", "write")
     /\ UNCHANGED <<files, kind, known>>

FfmpegUnlinks(h) ==
  \/ /\ At(h, "ffmpeg")
     /\ Know(h, "output")
     /\ files' = IF kind[h] = "encoding" THEN files
                                         ELSE files \ {<<h, "output">>}
     /\ Goto(h, "use")
     /\ UNCHANGED <<kind, failed>>
  \/ /\ Raise(h, "ffmpeg", "ffmpeg") \/ Raise(h, "ffmpeg", "spawn")
     /\ UNCHANGED <<files, kind, known>>

(* "with NamedTemporaryFile(...) as temp_file": create, write, then assign. *)
CreateInput(h) ==
  \/ /\ At(h, "start")
     /\ files' = files \cup {<<h, "input">>}
     /\ Goto(h, "write")
     /\ UNCHANGED <<kind, known, failed>>
  \/ /\ Raise(h, "start", "create")
     /\ UNCHANGED <<files, kind, known>>

WriteInput(h) ==
  \/ /\ At(h, "write")
     /\ Know(h, "input")
     /\ Goto(h, "output")
     /\ UNCHANGED <<files, kind, failed>>
  \/ /\ Raise(h, "write", "write")
     /\ UNCHANGED <<files, kind, known>>

(* The encoder's path is known at once, the decoder's only to               *)
(* _transcode_asr_audio_to_wav until that returns.                          *)
CreateOutput(h) ==
  \/ /\ At(h, "output")
     /\ files' = files \cup {<<h, "output">>}
     /\ IF kind[h] = "encoding" THEN Know(h, "output") ELSE UNCHANGED known
     /\ Goto(h, "ffmpeg")
     /\ UNCHANGED <<kind, failed>>
  \/ /\ Raise(h, "output", "create")
     /\ UNCHANGED <<files, kind, known>>

(* subprocess.run.  The decoder unlinks its output itself when ffmpeg is    *)
(* missing or fails, and only then; when that unlink raises, the file stays *)
(* and nobody learns its path.                                              *)
Ffmpeg(h) ==
  \/ /\ At(h, "ffmpeg")
     /\ Know(h, "output")
     /\ Goto(h, "use")
     /\ UNCHANGED <<files, kind, failed>>
  \/ /\ Raise(h, "ffmpeg", "ffmpeg")
     /\ files' = IF kind[h] = "encoding" THEN files
                                         ELSE files \ {<<h, "output">>}
     /\ UNCHANGED <<kind, known>>
  \/ /\ Raise(h, "ffmpeg", "spawn")
     /\ UNCHANGED <<files, kind, known>>
  \/ /\ kind[h] = "transcription"
     /\ Raise(h, "ffmpeg", "discard")
     /\ UNCHANGED <<files, kind, known>>

(* The output is validated and transcribed, or read back.                   *)
Use(h) ==
  \/ /\ At(h, "use")
     /\ Goto(h, "cleanup")
     /\ UNCHANGED <<files, kind, known, failed>>
  \/ /\ Raise(h, "use", "use")
     /\ UNCHANGED <<files, kind, known>>

(* The finally block unlinks what it knows, in the order of a set; a file   *)
(* that is gone already is no error, any other error ends the loop.         *)
Unlink(h) ==
  /\ At(h, "cleanup")
  /\ \/ \E role \in known[h] :
          /\ files' = files \ {<<h, role>>}
          /\ known' = [known EXCEPT ![h] = @ \ {role}]
          /\ UNCHANGED <<pc, failed>>
     \/ /\ known[h] = {}
        /\ Goto(h, "done")
        /\ UNCHANGED <<files, known, failed>>
     \/ /\ "unlink" \in Failures /\ known[h] # {}
        /\ failed' = [failed EXCEPT ![h] = "unlink"]
        /\ Goto(h, "done")
        /\ UNCHANGED <<files, known>>
  /\ UNCHANGED kind

Clean ==
  /\ \E f \in files : files' = files \ {f} /\ cleaned' = cleaned \cup {f}
  /\ UNCHANGED <<pc, kind, known, failed>>
-----------------------------------------------------------------------------
Step(h) ==
  \/ CreateInput(h) \/ WriteInput(h) \/ CreateOutput(h)
  \/ Ffmpeg(h) \/ Use(h) \/ Unlink(h)

Next ==
  \/ \E h \in Handlers : Step(h) /\ UNCHANGED cleaned
  \/ Clean

Spec == Init /\ [][Next]_vars
-----------------------------------------------------------------------------
(* Every variable has its type. *)
TypeOK ==
  /\ files \subseteq Handlers \X Roles
  /\ pc \in [Handlers -> HandlerPc]
  /\ kind \in [Handlers -> {"transcription", "encoding"}]
  /\ known \in [Handlers -> SUBSET Roles]
  /\ failed \in [Handlers -> AllFailures \cup {None}]
  /\ cleaned \subseteq Handlers \X Roles

(* A handler that is done leaves a file behind only when an unlink of the   *)
(* finally block failed, when the upload could not be written, or, for a    *)
(* transcription, when ffmpeg is installed but could not be started or the  *)
(* decoder could not unlink its output: every other way out of the handlers *)
(* removes what it made.                                                    *)
LeaksAreExplained ==
  \A h \in Handlers, role \in Roles :
    At(h, "done") /\ <<h, role>> \in files =>
      \/ failed[h] = "unlink"
      \/ failed[h] = "write" /\ role = "input"
      \/ /\ failed[h] \in {"spawn", "discard"}
         /\ role = "output" /\ kind[h] = "transcription"

(* What a handler still has to read is not removed under it, by itself or   *)
(* by another handler: both files are there from the run of ffmpeg to the   *)
(* finally block, unless the cleaner took them.                             *)
FilesInUseExist ==
  \A h \in Handlers, role \in Roles :
    At(h, "use") => <<h, role>> \in files \cup cleaned
=============================================================================
