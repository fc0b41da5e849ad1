\* Trees of up to four leaves under keys of three binary nibbles; ladders with
\* the shape of the code's, a rung gained by the least and missed by the least.
SPECIFICATION Spec
CONSTANTS
  Branch = 2
  KeyLen = 3
  Calls <- MCCalls
  SHARED_DISK_LEVELS <- MCShared
  DEDICATED_LEVELS <- MCDedicated
  SAMPLE_SIZE = 6
  ABORT_LATENCY = 10
  Latencies = {10, 11, 26, 27, 31}
INVARIANTS
  WalkExact
  CalibrationSafe
  DiffExact
  ImporterAccepts
  TxTreeExact
CHECK_DEADLOCK FALSE
