------------------------------ MODULE AsrSignal ------------------------------
(***************************************************************************)
(* _validate_asr_audio_has_signal: one pass over a decoded WAV file, in    *)
(* chunks of frames, that counts the samples of the first channel only.    *)
(* A file is its header and its data: the samples of all channels,         *)
(* interleaved, of whole frames.  The data may be shorter than the header  *)
(* says, when the file was cut off, or the header itself may be.           *)
(***************************************************************************)
EXTENDS Integers, Sequences, FiniteSets, FiniteSetsExt, Functions

CONSTANTS
  Files,       \* the WAV files of a run, see File
  ChunkFrames  \* frames of one readframes, 8192 in the code

VARIABLES
  wav,        \* the file that is read, and where its reader stands
  peak, sampleCount, squareSum,  \* the local variables of the loop
  verdict     \* "reading", "accepted", the reason of the ValueError, or
              \* "raised" for an exception that the handler does not catch

vars == <<wav, peak, sampleCount, squareSum, verdict>>

Samples == -32768..32767

Headers == {"wave", "not wave", "cut off"}

File == [header : Headers, sampleWidth : Nat, frameCount : Nat,
         frameRate : Nat, channelCount : Nat \ {0}, data : Seq(Samples)]

ASSUME AsrSignalAssumption ==
  /\ ChunkFrames \in Nat \ {0}
  /\ Files \subseteq File
  /\ \A f \in Files : /\ Len(f.data) % f.channelCount = 0
                      /\ Len(f.data) <= f.frameCount * f.channelCount

Init ==
  /\ wav \in [file : Files, opened : {FALSE}, position : {0}]
  /\ peak = 0 /\ sampleCount = 0 /\ squareSum = 0
  /\ verdict = "reading"

Abs(x) == IF x < 0 THEN -x ELSE x

Refuse(reason) ==
  /\ verdict' = reason
  /\ UNCHANGED <<wav, peak, sampleCount, squareSum>>
-----------------------------------------------------------------------------
(* frame_count / frame_rate < 0.25; both numbers are exact in a float.      *)
TooShort(f) == 4 * f.frameCount < f.frameRate

(* wave.open and the tests of the header, in the order they are made.  A    *)
(* wave.Error is made a ValueError, the EOFError of a header that ends too  *)
(* soon is not.                                                             *)
Open ==
  /\ verdict = "reading" /\ ~wav.opened
  /\ LET f == wav.file
     IN \/ f.header = "not wave" /\ Refuse("undecodable")
        \/ f.header = "cut off"  /\ Refuse("raised")
        \/ /\ f.header = "wave"
           /\ \/ f.sampleWidth # 2 /\ Refuse("not normalized")
              \/ /\ f.sampleWidth = 2 /\ (f.frameRate <= 0 \/ f.frameCount <= 0)
                 /\ Refuse("silent")
              \/ /\ f.sampleWidth = 2 /\ f.frameRate > 0 /\ f.frameCount > 0
                 /\ TooShort(f) /\ Refuse("too short")
              \/ /\ f.sampleWidth = 2 /\ f.frameRate > 0 /\ f.frameCount > 0
                 /\ ~TooShort(f)
                 /\ wav' = [wav EXCEPT !.opened = TRUE]
                 /\ UNCHANGED <<peak, sampleCount, squareSum, verdict>>

(* Opening and reading may raise an OSError at any time.                    *)
ReadFails == verdict = "reading" /\ Refuse("raised")

(* Mutant: an odd number of samples is read, rather than of frames, so that *)
(* the channels change places.                                              *)
ChunkOfSamples ==
  SubSeq(wav.file.data, wav.position + 1,
         Min({wav.position + ChunkFrames + 1, Len(wav.file.data)}))

(* wav.readframes(8192): the next frames, fewer at the end of the data.     *)
Chunk ==
  LET end == wav.position + ChunkFrames * wav.file.channelCount
  IN SubSeq(wav.file.data, wav.position + 1, Min({end, Len(wav.file.data)}))

(* "if channel_count > 1 and index % channel_count != 0: continue"          *)
Counted(samples) ==
  {i \in DOMAIN samples :
     wav.file.channelCount > 1 => (i - 1) % wav.file.channelCount = 0}

ReadChunk ==
  /\ verdict = "reading" /\ wav.opened /\ Chunk # <<>>
  /\ LET counted == Counted(Chunk)
         squares == [i \in counted |-> Chunk[i] * Chunk[i]]
     IN /\ peak' = Max({peak} \cup {Abs(Chunk[i]) : i \in counted})
        /\ squareSum'   = squareSum + SumFunction(squares)
        /\ sampleCount' = sampleCount + Cardinality(counted)
  /\ wav' = [wav EXCEPT !.position = @ + Len(Chunk)]
  /\ UNCHANGED verdict

(* Mutant: a file is too quiet only if both tests say so.                   *)
TooQuietBoth == peak <= 1 /\ squareSum < sampleCount

(* "peak <= 1 or rms < 1": the root of the mean square is below one exactly *)
(* if the sum of the squares is below the number of samples.                *)
TooQuiet == peak <= 1 \/ squareSum < sampleCount

Conclude ==
  /\ verdict = "reading" /\ wav.opened /\ Chunk = <<>>
  /\ verdict' = IF sampleCount <= 0 \/ TooQuiet THEN "silent" ELSE "accepted"
  /\ UNCHANGED <<wav, peak, sampleCount, squareSum>>

Next == Open \/ ReadFails \/ ReadChunk \/ Conclude

Spec == Init /\ [][Next]_vars
-----------------------------------------------------------------------------
(* What the check is for, said of the whole file at once: its first channel *)
(* taken out of the interleaved data.                                       *)
FirstChannel(f) ==
  [k \in 1..(Len(f.data) \div f.channelCount) |->
     f.data[(k - 1) * f.channelCount + 1]]

SquaresOf(s) == SumFunction([k \in DOMAIN s |-> s[k] * s[k]])

HasSignal(f) ==
  LET s == FirstChannel(f)
  IN /\ \E k \in DOMAIN s : s[k] \notin -1..1
     /\ SquaresOf(s) >= Len(s)

(* Whatever the chunks, the loop has counted exactly the samples of the     *)
(* first channel that lie before the reader, which stands between frames:   *)
(* no chunk boundary makes the channels change places or drops a sample.    *)
CountsFirstChannel ==
  LET f    == wav.file
      seen == SubSeq(FirstChannel(f), 1, wav.position \div f.channelCount)
  IN /\ wav.position % f.channelCount = 0
     /\ sampleCount = Len(seen)
     /\ squareSum = SquaresOf(seen)
     /\ peak = Max({0} \cup {Abs(seen[k]) : k \in DOMAIN seen})

(* The check accepts a file only if it is a WAV of 16 bits that lasts at    *)
(* least a quarter of a second by its header, and its first channel has a   *)
(* sample beyond one and a mean square of at least one; it refuses a file   *)
(* as silent, too short, not normalized or undecodable only if it is so.    *)
(* One whose header is cut off gets none of these verdicts.                 *)
VerdictIsRight ==
  LET f == wav.file
  IN /\ verdict \notin {"reading", "raised", "undecodable"} => f.header = "wave"
     /\ verdict = "accepted" =>
          /\ f.sampleWidth = 2
          /\ f.frameRate > 0 /\ 4 * f.frameCount >= f.frameRate
          /\ HasSignal(f)
     /\ verdict = "silent" =>
          f.frameRate = 0 \/ f.frameCount = 0 \/ ~HasSignal(f)
     /\ verdict = "too short"      => 0 < f.frameCount /\ 4 * f.frameCount < f.frameRate
     /\ verdict = "not normalized" => f.sampleWidth # 2
     /\ verdict = "undecodable"    => f.header = "not wave"
=============================================================================
