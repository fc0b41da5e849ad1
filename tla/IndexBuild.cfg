\* Two builders of one output, four runs, killed or failing anywhere.
SPECIFICATION Spec
CONSTANTS
  Builder = {b, c}
  MaxRuns = 4
  None = None
INVARIANTS
  CompleteAtOut
  OpenedIsVerified
PROPERTY
  FailureKeepsOldIndex
CHECK_DEADLOCK FALSE
