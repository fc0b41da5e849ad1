\* Three runs of the same command, two of them killed anywhere; every failure
\* that keeps the store's files paired.
SPECIFICATION Spec
CONSTANTS
  Chunks <- MCChunks
  MaxRuns = 3
  MaxCrashes = 2
  Fallible = {"key_write", "aside", "swap_dat"}
INVARIANTS
  TxdbExact
  RowsAfterStore
  CompleteMeansAll
CHECK_DEADLOCK FALSE
