----------------------------- MODULE MCAsrSignal -----------------------------
(***************************************************************************)
(* AsrSignal on every short file of one or two channels with few sample    *)
(* values, rates around the quarter of a second, and data that is complete *)
(* or cut off.                                                             *)
(***************************************************************************)
EXTENDS AsrSignal, TLC

CONSTANTS
  MaxMono, MaxStereo, \* the longest data of one and of two channels, in frames
  Values              \* sample values

Data(channels, frames) == UNION {[1..(channels * k) -> Values] : k \in 0..frames}

Wav(width, channels, rate, cut, data) ==
  [header |-> "wave", sampleWidth |-> width, channelCount |-> channels,
   frameRate |-> rate, frameCount |-> Len(data) \div channels + cut, data |-> data]

Rates == {0, 12, 16, 17}
SampleValues == {-2, 0, 1}

MCFiles ==
  {Wav(2, 1, rate, cut, d) : rate \in Rates, cut \in {0, 4}, d \in Data(1, MaxMono)}
    \cup
  {Wav(2, 2, rate, cut, d) : rate \in Rates, cut \in {0, 4}, d \in Data(2, MaxStereo)}
    \cup {Wav(1, 1, 16, 4, <<>>), Wav(3, 1, 16, 0, <<0, 0, 0, 0>>)}
    \cup {[Wav(2, 1, 16, 4, <<>>) EXCEPT !.header = h] : h \in Headers}
    \cup {Wav(2, 1, 12, 0, d) : d \in {<<-32768, 0, 0, 0>>, <<32767, 1, 0, 0>>}}
=============================================================================
