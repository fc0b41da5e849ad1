\* One chunk file of up to two deltas: the ledgers between the checkpoint and
\* the last one, whose trees are never walked.
SPECIFICATION Spec
CONSTANTS
  a = a
  b = b
  c = c
  i = i
  r1 = r1
  r2 = r2
  d = d
  k = k
  t1 = t1
  tx = tx
  Hash <- MCHash
  Genuine <- MCGenuine
  Node <- MCNode
  FileNodes <- MCFileNodes
  Tx = {t1, tx}
  ForgedTx = {tx}
  LedgerSeq = {1}
  MaxChunks = 1
  MaxDeltas = 2
  Verify = TRUE
  WithTxdb = TRUE
INVARIANTS
  TypeOK
  RowsServed
  RowsChained
CHECK_DEADLOCK FALSE
