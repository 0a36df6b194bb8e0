\* Two queued prompts and one run that does not come from the queue.
SPECIFICATION FairSpec
CONSTANTS
  NumPrompts = 2
  Foreign = {f1}
INVARIANTS ClaimExcludes LeaseAccounted
PROPERTIES FinishedAttemptEnds StopHolds PredecessorProved SettledTruthfully
CHECK_DEADLOCK FALSE
