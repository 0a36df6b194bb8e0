\* One conversation; a third id for removals, resumes and the full queue.
SPECIFICATION Spec
CONSTANTS
  Conv = {c1}
  Req = {r1, r2, r3}
  Run = {x1, x2}
  Pin = {p1, p2}
  Native = {n1}
  OpenCode = {}
  PauseCode = {"hidden"}
  MaxWaiting = 2
  MaxRevision = 8
  MaxSequence = 4
SYMMETRY Interchangeable
INVARIANTS
  RecordsInv
PROPERTIES
  OnlyResumeClearsPause
  RevisionWitnessesChange
  HistoryIsFinal
