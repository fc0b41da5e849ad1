\* Two chunk files of one delta each, written into one sink.
SPECIFICATION Spec
CONSTANTS
  a = a
  b = b
  c = c
  i = i
  r1 = r1
  r2 = r2
  d = d
  k = k
  t1 = t1
  tx = tx
  Hash <- MCHash
  Genuine <- MCGenuine
  Node <- MCNode
  FileNodes <- MCSharedNodes
  Tx = {}
  ForgedTx = {}
  LedgerSeq = {1, 2}
  MaxChunks = 2
  MaxDeltas = 1
  Verify = TRUE
  WithTxdb = TRUE
INVARIANTS
  OnlyIntactPublished
  LiveNodesStored
CHECK_DEADLOCK FALSE
