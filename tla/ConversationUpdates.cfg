\* One run of up to two events, over three starts of the process.
SPECIFICATION Spec
CONSTANTS
  Source = {s1}
  MaxBatch = 2
  MaxRows = 2
  PageLimit = 1
  Kind = {"reply", "end"}
  MaxSeq = 2
  MaxQueue = 2
  MaxBoots = 3
  MaxLosses = 1
INVARIANTS TypeOK FeedFollowsJournal GaplessReading LagIsTold OnlyLastCollects
CHECK_DEADLOCK FALSE
