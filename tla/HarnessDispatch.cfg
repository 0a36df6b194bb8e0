SPECIFICATION Spec
INVARIANTS
  SentIsRecorded
  ReconciledBeforeNext
  NothingKeptForever
PROPERTIES
  ProofsHold
CHECK_DEADLOCK FALSE
