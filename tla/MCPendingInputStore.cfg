\* One conversation, two prompts carried from enqueue to settlement.
SPECIFICATION Spec
CONSTANTS
  Conv = {c1}
  Req = {r1, r2}
  Run = {x1, x2}
  Pin = {p1}
  Native = {n1}
  OpenCode = {n1}
  PauseCode = {"hidden"}
  MaxWaiting = 2
  MaxRevision = 12
  MaxSequence = 5
SYMMETRY Interchangeable
INVARIANTS
  OneAtATimeInOrder
  GrantIsDurable
PROPERTIES
  GrantOnlyByClaimant
  ImplementsQueue
