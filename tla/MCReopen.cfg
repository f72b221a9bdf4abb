\* Three files that open, each at any moment of the one before.  Threads may
\* block for good: MCOpenReturns.cfg shows how.
SPECIFICATION Safety
CONSTANTS
  File <- ShortFile
  Bytes <- MCBytes
  MaxQueued <- MCMaxQueued
  Capacity = 2
  Delay = 1
  Modulus = 8
  CanFail = {}
  MaxOpens = 3
  MaxSeeks = 0
  MaxErrors = 1
CHECK_DEADLOCK FALSE
INVARIANTS FramesBounded CallbackUsesOpenStream
PROPERTIES ShownInOrder QueuesAreChannels
