\* Two threads with two records each, and buffers that overflow.
SPECIFICATION Spec
CONSTANTS
  Threads = {t1, t2}
  Slots = {s1, s2}
  Entities = {e1, e2, e3, e4, e5}
  None = None
  Modules = {m}
  Capacity = 1
  MaxRecords <- MCMaxRecords
  t1 = t1
  t2 = t2
  MaxWrites = 2
SYMMETRY Symmetry
CHECK_DEADLOCK FALSE
INVARIANTS TypeOK OneOwner NoEntityLost NothingLostWithoutOverflow TornByOthersOnly
PROPERTY ImplementsLogSink
