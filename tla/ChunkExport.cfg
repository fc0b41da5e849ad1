\* Five ledgers in chunks of one to five, batches of one, two and four; two
\* runs, killed or failing anywhere.
SPECIFICATION FairSpec
CONSTANTS
  a = a
  b = b
  c = c
  Node = {a, b, c}
  Tree <- MCTree
  Start = 3
  End = 7
  ChunkSizes = {1, 2, 3, 5}
  Levels = {1, 2, 4}
  WordSize = 16
  OldNodesGone = FALSE
  MaxRuns = 2
  None = None
INVARIANTS
  TypeOK
  FinalFilesReplay
  HeaderTellsRange
  DoneCoversRange
PROPERTIES
  ImplementsArchive
  RunsEnd
CHECK_DEADLOCK FALSE
