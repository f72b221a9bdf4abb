\* Two files that open; the open of the second does not return.
SPECIFICATION Spec
CONSTANTS
  File <- ShortFile
  Bytes <- MCBytes
  MaxQueued <- MCMaxQueued
  Capacity = 2
  Delay = 1
  Modulus = 8
  CanFail = {}
  MaxOpens = 2
  MaxSeeks = 0
  MaxErrors = 0
CHECK_DEADLOCK FALSE
PROPERTY OpenReturns
