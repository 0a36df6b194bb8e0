\* Two logs of up to two records, over three starts of the process.
SPECIFICATION Spec
CONSTANTS
  Run = {r1, r2}
  MaxSeq = 2
  MaxBoots = 3
INVARIANTS FileFollowsMemory ToldInOrder FlushedSurvives
PROPERTIES OnlyAppends
CHECK_DEADLOCK FALSE
