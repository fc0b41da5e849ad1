---------------------------- MODULE MCChunkCodec ----------------------------
(***************************************************************************)
(* Small chunks and single damages for ChunkCodec.  Hashes are numbers     *)
(* larger than any file, so that one taken for a count ends the reading,   *)
(* as (but for odds of one in millions) four bytes of a hash do.           *)
(***************************************************************************)
EXTENDS ChunkCodec

N1 == [hash |-> 101, type |-> 1, content |-> <<7>>]
N2 == [hash |-> 102, type |-> 2, content |-> <<>>]
Long == [hash |-> 103, type |-> 1, content |-> <<7, 0, 0>>]   \* of U16 bytes

T1 == [hash |-> 111, tx |-> <<7, 1>>, meta |-> <<>>]
T2 == [hash |-> 112, tx |-> <<>>, meta |-> <<0>>]

DeltaOf(seq, added, deleted) == [seq |-> seq, added |-> added, deleted |-> deleted]
TxMapOf(seq, txns) ==
  [seq |-> seq, ledger_hash |-> 120 + seq, account_hash |-> 130, fields |-> 0, txns |-> txns]

ChunkOf(nodes, deltas, tx_maps) ==
  [start |-> 1, end |-> 1 + Len(deltas), checkpoint |-> nodes, deltas |-> deltas,
   tx_maps |-> tx_maps]

Nodes == {{}, {N1}, {N1, N2}, {Long}}

\* One to three ledgers.
MCChunks ==
  {ChunkOf(nodes, <<>>, <<TxMapOf(1, txns)>>) : nodes \in Nodes, txns \in SUBSET {T1, T2}}
  \cup
  {ChunkOf(nodes, <<DeltaOf(2, added, deleted)>>, <<TxMapOf(1, {T1}), TxMapOf(2, txns)>>) :
     nodes \in Nodes, added \in Nodes, deleted \in {{}, {101, 102}}, txns \in {{}, {T1, T2}}}
  \cup
  {ChunkOf({N1}, <<DeltaOf(2, added, {}), DeltaOf(3, {}, deleted)>>,
           <<TxMapOf(1, {}), TxMapOf(2, {T2}), TxMapOf(3, {})>>) :
     added \in Nodes, deleted \in {{}, {101}}}

MCDamages ==
  {[what |-> "none"]}
  \cup {[what |-> "cell", at |-> i, to |-> v] : i \in 1..40, v \in {0, 1, 2, 99, 101}}
  \cup {[what |-> "cut", at |-> i] : i \in 1..40}
  \cup {[what |-> "append", to |-> v] : v \in {0, 99}}
  \cup {[what |-> "header", field |-> "version", to |-> v] : v \in 1..4}
  \cup {[what |-> "header", field |-> x, to |-> v] : x \in {"start", "end"}, v \in 0..4}
  \cup {[what |-> "hash"]}

=============================================================================
