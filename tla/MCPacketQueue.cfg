\* Two queues, two consumers; it ends when both queues are destroyed.
SPECIFICATION MCSpec
CONSTANTS
  Queues = {qa, qv}
  Threads = {t1, t2}
  Packets = {small, large}
  small = small
  large = large
  NoPacket = NoPacket
  Modulus = 4
  MaxLen = 2
  Bytes <- MCBytes
CHECK_DEADLOCK FALSE
INVARIANTS TypeOK SizeIsSum NoLostWakeup
PROPERTY ImplementsChannel
