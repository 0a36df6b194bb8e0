\* One claim over three starts of the process, of any harness and in any phase.
SPECIFICATION FairSpec
CONSTANTS
  MaxBoots = 3
INVARIANTS SettledTruly
PROPERTIES UnsafeIsFinal CancelFenced DrainedIsQuiet Concludes
CHECK_DEADLOCK FALSE
