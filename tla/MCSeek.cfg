\* One file and two jumps, at any moment; the second may be asked for during the
\* first.  Threads may block for good: MCSeekClears.cfg shows how.
SPECIFICATION Safety
CONSTANTS
  File <- ShortFile
  Bytes <- MCBytes
  MaxQueued <- MCMaxQueued
  Capacity = 2
  Delay = 1
  Modulus = 8
  CanFail = {}
  MaxOpens = 1
  MaxSeeks = 2
  MaxErrors = 0
CHECK_DEADLOCK FALSE
INVARIANTS SeekLeavesFewPictures OneWaitsForFrames JumpsAreAsked
