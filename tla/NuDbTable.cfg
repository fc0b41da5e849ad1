\* Five hashes over three prefixes, two entries to a block: up to five buckets
\* and chains of two blocks.
SPECIFICATION Spec
CONSTANTS
  Key = {k1, k2, k3, k4, k5}
  Nhash = {0, 3, 5}
  Value = {1, 2}
  Capacity = 2
SYMMETRY Hashes
INVARIANTS
  CounterExact
  FetchExact
PROPERTIES
  ChainDescends
CHECK_DEADLOCK FALSE
