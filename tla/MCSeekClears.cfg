\* One file and one jump; the jump does not end.
SPECIFICATION Spec
CONSTANTS
  File <- ShortFile
  Bytes <- MCBytes
  MaxQueued <- MCMaxQueued
  Capacity = 2
  Delay = 1
  Modulus = 8
  CanFail = {}
  MaxOpens = 1
  MaxSeeks = 1
  MaxErrors = 0
CHECK_DEADLOCK FALSE
PROPERTY SeekClearsQueues
