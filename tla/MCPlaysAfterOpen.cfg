\* Two files that open; the second does not play.
SPECIFICATION Spec
CONSTANTS
  File <- ShortFile
  Bytes <- MCBytes
  MaxQueued <- MCMaxQueued
  Capacity = 2
  Delay = 1
  Modulus = 8
  CanFail = {}
  MaxOpens = 2
  MaxSeeks = 0
  MaxErrors = 0
CHECK_DEADLOCK FALSE
INVARIANT PlaysAfterOpen
