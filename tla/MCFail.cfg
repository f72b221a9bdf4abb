\* Three files, each of which may fail to open at any step, and a device that
\* may be missing.
SPECIFICATION Safety
CONSTANTS
  File <- ShortFile
  Bytes <- MCBytes
  MaxQueued <- MCMaxQueued
  Capacity = 2
  Delay = 0
  Modulus = 8
  CanFail = {"open", "info", "streams", "audio", "video", "device"}
  MaxOpens = 3
  MaxSeeks = 0
  MaxErrors = 0
CHECK_DEADLOCK FALSE
INVARIANTS TypeOK BytesBounded
PROPERTIES ShownInOrder
