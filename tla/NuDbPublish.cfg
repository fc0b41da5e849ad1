\* Crashes at every step and every file-system failure whose handling keeps
\* the two files paired.
SPECIFICATION Spec
CONSTANTS
  MaxRuns = 4
  MaxCrashes = 3
  Fallible = {"key_write", "aside", "swap_dat", "remove"}
INVARIANTS
  TypeOK
  PairedStore
  FinalFilesComplete
  KeyOfDatOnDisk
  FailedRunLeavesStore
  PublishedIsServed
PROPERTY
  ImplementsService
CHECK_DEADLOCK FALSE
