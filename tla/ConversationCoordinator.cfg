\* One slot for two conversations and two runs, and one request at a time.
SPECIFICATION FairSpec
CONSTANTS
  Session = {s1, s2}
  Lease = {l1}
  Owner = {o1, o2}
  MaxConcurrent = 1
INVARIANTS
  LeasesExact
  OneExecution
PROPERTIES
  WithinCapacity
  NothingAfterClose
  WakeServed
