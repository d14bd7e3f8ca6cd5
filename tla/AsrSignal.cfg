SPECIFICATION Spec
CONSTANTS
  Files <- MCFiles
  ChunkFrames = 2
  MaxMono = 5
  MaxStereo = 4
  Values <- SampleValues
CHECK_DEADLOCK FALSE
INVARIANTS
  CountsFirstChannel
  VerdictIsRight
