\* One file, played to its end; then every thread polls or waits.
SPECIFICATION Spec
CONSTANTS
  File <- LongFile
  Bytes <- MCBytes
  MaxQueued <- MCMaxQueued
  Capacity = 2
  Delay = 1
  Modulus = 8
  CanFail = {}
  MaxOpens = 1
  MaxSeeks = 0
  MaxErrors = 1
CHECK_DEADLOCK FALSE
INVARIANTS NeverCrashes EventLoopNeverSleepsForFrames
PROPERTY PlaybackCompletes
