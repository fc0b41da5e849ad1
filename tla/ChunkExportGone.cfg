\* The store has lost nodes of a tree the export is leaving behind.
SPECIFICATION Spec
CONSTANTS
  a = a
  b = b
  c = c
  Node = {a, b, c}
  Tree <- MCTree
  Start = 3
  End = 7
  ChunkSizes = {4}
  Levels = {1}
  WordSize = 16
  OldNodesGone = TRUE
  MaxRuns = 1
  None = None
INVARIANTS
  CheckpointsExact
CHECK_DEADLOCK FALSE
