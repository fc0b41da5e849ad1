\* The rename of <key>.tmp returns an error; nothing crashes.
SPECIFICATION Spec
CONSTANTS
  MaxRuns = 1
  MaxCrashes = 0
  Fallible = {"swap_key"}
INVARIANT PairedStore
CHECK_DEADLOCK FALSE
