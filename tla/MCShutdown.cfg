\* Sessions with any number of files, ended at any moment.
SPECIFICATION Spec
CONSTANTS
  MaxQueued <- MCMaxQueued
  Capacity = 1
CHECK_DEADLOCK FALSE
INVARIANTS TypeOK CallbackOutlived
PROPERTIES HangsAreFinal ExitEnds
