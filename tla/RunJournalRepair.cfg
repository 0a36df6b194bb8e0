\* One log, over restarts that find a torn record.
SPECIFICATION Spec
CONSTANTS
  Run = {r1}
  MaxSeq = 3
  MaxBoots = 3
INVARIANT FlushedLoaded
CHECK_DEADLOCK FALSE
