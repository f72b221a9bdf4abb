\* A packet that cannot be decoded; the sound before it is mixed once more.
SPECIFICATION SyncSpec
CONSTANTS
  Length = 4
  FrameLen = 3
  Packets = 14
  Untimed = {5}
  MaxErrors = 1
  Clocks = {0, 30}
  Frames = 10
  FrameDelay = 4
  TimeBase = 2
  Unstamped = {3, 4}
  Repeated = {6}
  NoSync = 25
  OneSecond = 16
  MaxQueued = 2
  MaxAhead = 3
  MaxLate = 1
  MaxStall = 2
  Settle = 4
  Drift = 18
CHECK_DEADLOCK FALSE
INVARIANT SilenceOnError
