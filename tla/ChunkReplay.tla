---------------------------- MODULE ChunkReplay ----------------------------
(***************************************************************************)
(* xrla-import's replay of one or more chunk files into one node store     *)
(* (replay_chunk for v2 files, replay_chunk_streaming for v3 files), with  *)
(* every check it makes.  Chunk files are untrusted: whatever a file may   *)
(* say is chosen when it is read.  Nothing is published unless every chunk *)
(* passed, so a failed check simply ends the import.                       *)
(*                                                                         *)
(* A node's hash says what its content is only together with the node's    *)
(* type, which decides how the content is hashed, and the type is whatever *)
(* the file gives: the same bytes, with and without the prefix of inner    *)
(* nodes, may be listed under one hash as an inner node and as a leaf.     *)
(* SHA-512Half is taken to be collision free, for nodes and for ledger     *)
(* headers.                                                                *)
(***************************************************************************)
EXTENDS Naturals, Sequences, FiniteSets, NodeMap

CONSTANTS
  Hash,        \* the node hashes
  Genuine,     \* the node of a ledger's state with a hash: its type and slots
  Node,        \* the nodes a file may list
  FileNodes,   \* the lists of nodes a file may hold
  Tx,          \* transactions
  ForgedTx,    \* those whose blob does not hash to their tx_hash
  LedgerSeq,   \* the ledger numbers a file may hold
  MaxChunks,   \* bound: chunk files in one import
  MaxDeltas,   \* bound: deltas in one chunk
  Verify,      \* FALSE with --skip-verify
  WithTxdb     \* TRUE with --txdb

NodeType == {"inner", "compressed", "account", "tx"}

\* A list of nodes: all it lists and, as it may list a hash more than once with
\* different nodes, the first and the last node listed for each hash.
IsNodeList(list) ==
  /\ list.nodes \subseteq Node
  /\ \A m \in {list.first, list.last} :
       /\ m \in [{node.hash : node \in list.nodes} -> list.nodes]
       /\ \A h \in DOMAIN m : m[h].hash = h

IsNodeMap(m) ==
  /\ DOMAIN m \subseteq Hash /\ m \in [DOMAIN m -> Node]
  /\ \A h \in DOMAIN m : m[h].hash = h

\* A node's "hashed" field is what its content hashes to as its type demands.
\* Two contents that hash to the same value as inner nodes are equal.
ASSUME HashAssumption ==
  /\ IsFiniteSet(Hash) /\ "none" \notin Hash
  /\ DOMAIN Genuine \subseteq Hash
ASSUME NodeAssumption ==
  \A node \in Node :
    /\ node.hash \in Hash /\ node.type \in NodeType /\ child_hashes(node) \subseteq Hash
    /\ node.hashed \in DOMAIN Genuine /\ node.type = Genuine[node.hashed].type =>
         node.parses /\ node.slots = Genuine[node.hashed].slots
ASSUME FileAssumption  == (\A list \in FileNodes : IsNodeList(list)) /\ ForgedTx \subseteq Tx
ASSUME BoundAssumption ==
  MaxChunks \in Nat /\ MaxDeltas \in Nat /\ LedgerSeq \subseteq Nat
ASSUME OptionAssumption == Verify \in BOOLEAN /\ WithTxdb \in BOOLEAN

VARIABLES
  phase,     \* "between" chunks, inside one ("deltas"), "failed", "published"
  intact,    \* per chunk opened: does the file match its chunk_hash
  deltas,    \* deltas replayed of the open chunk
  state,     \* the live account-state map of the open chunk
  root,      \* current_root of the open chunk, else "none"
  prev,      \* prev_ledger_hash
  store,     \* the account-state nodes the sink holds
  trees,     \* the transaction trees given to the sink, each as its set of tx
  headers,   \* the ledger hashes whose header object the sink holds
  txdb,      \* the ledger hashes whose transactions are in transaction.db
  rows,      \* ledger_rows of all chunks, a set as in the Ledgers table
  anchors,   \* the checkpoint ledger hashes of the chunks opened
  faithful   \* for the properties only: have all files been Faithful so far

vars == <<phase, intact, deltas, state, root, prev, store, trees, headers,
          txdb, rows, anchors, faithful>>

-----------------------------------------------------------------------------
(* Checks on nodes and headers                                             *)

\* sink_node for every node of m: the first write of a hash wins.
Sink(map, m) ==
  [h \in DOMAIN map \cup DOMAIN m |-> IF h \in DOMAIN map THEN map[h] ELSE m[h]]

\* verify_state_nodes / recompute_node_hash: each node's content, hashed as its
\* type demands, gives the hash it is listed under.
Authentic(nodes) == \A node \in nodes : node.hashed = node.hash

\* What no check looks at: each node has the type of the ledger's node of its
\* hash.
Labelled(nodes) ==
  \A node \in nodes : node.hash \in DOMAIN Genuine /\ node.type = Genuine[node.hash].type

\* What walk_complete relies on: the tree under r has no node twice.
NoNodeTwice(r, m) == Visits(r, m) = Cardinality(Reached(r, m))

\* verify_txns_authentic
TxAuthentic(txs) == txs \cap ForgedTx = {}

\* calculate_ledger_hash over the header fields that differ between ledgers;
\* the transaction set stands for the root build_tx_tree rebuilds from it.
LedgerHash(parent, seq, txs, r) == <<parent, seq, txs, r>>

\* What a file may give as a ledger hash: the right one or another.
ClaimedHash(h) == {h, <<"other">>}

-----------------------------------------------------------------------------
(* Initial state and failure                                               *)

TypeOK ==
  /\ phase \in {"between", "deltas", "failed", "published"}
  /\ intact \in Seq(BOOLEAN) /\ Len(intact) \in 0..MaxChunks
  /\ deltas \in 0..MaxDeltas
  /\ IsNodeMap(state)
  /\ root \in Hash \cup {"none"}
  /\ IsNodeMap(store)
  /\ trees \subseteq SUBSET Tx
  /\ \A row \in rows : row.seq \in LedgerSeq /\ row.root \in Hash /\ row.txs \subseteq Tx
  /\ phase = "deltas" => intact # <<>>
  /\ faithful \in BOOLEAN
  /\ (phase = "deltas") = (root \in Hash)

Init ==
  /\ phase = "between"
  /\ intact = <<>> /\ deltas = 0
  /\ state = Empty /\ root = "none" /\ prev = <<>>
  /\ store = Empty /\ trees = {} /\ headers = {} /\ txdb = {}
  /\ rows = {} /\ anchors = {}
  /\ faithful = TRUE

\* A check fails: `bail!` reaches main, which returns the error; the sink and
\* the transaction database are dropped, and with them all that was written.
Fail ==
  /\ phase' = "failed"
  /\ intact' = <<>> /\ deltas' = 0
  /\ state' = Empty /\ root' = "none" /\ prev' = <<>>
  /\ store' = Empty /\ trees' = {} /\ headers' = {} /\ txdb' = {}
  /\ rows' = {} /\ anchors' = {}
  /\ faithful' = TRUE

-----------------------------------------------------------------------------
(* The checkpoint                                                          *)

\* cp is the TX_MAPS entry of the checkpoint ledger.  Its LedgerHash cannot be
\* checked (its parent is outside the chunk), so any hash is accepted.
CheckpointAccepted(list, cp) ==
  /\ cp.root \in DOMAIN list.last
  /\ Verify => /\ Authentic(list.nodes)
               /\ TreeComplete(cp.root, list.last)
               /\ TxAuthentic(cp.txs)

\* The hash of a v2 file is checked while it is deserialized, before replay;
\* that of a v3 file only by reader.finish, after the last delta.
HashCheckedFirst(version) == version = 2

CheckpointTxMap(n) ==
  [root : Hash, txs : SUBSET Tx, hash : {<<"anchor", n>>}]

OpenChunk ==
  /\ phase = "between"
  /\ Len(intact) < MaxChunks
  /\ \E version \in {2, 3}, ok \in BOOLEAN :
       /\ HashCheckedFirst(version) => ok
       /\ intact' = Append(intact, ok)
  /\ \E list \in FileNodes :
     \E cp \in CheckpointTxMap(Len(intact) + 1) :
       /\ CheckpointAccepted(list, cp)
       /\ state' = list.last
       /\ store' = Sink(store, list.first)
       /\ faithful' = (faithful /\ Labelled(list.nodes) /\ NoNodeTwice(cp.root, list.last))
       /\ trees' = trees \cup {cp.txs}
       /\ txdb' = IF WithTxdb THEN txdb \cup {cp.hash} ELSE txdb
       /\ root' = cp.root
       /\ prev' = cp.hash
       /\ anchors' = anchors \cup {cp.hash}
  /\ phase' = "deltas"
  /\ deltas' = 0
  /\ UNCHANGED <<headers, rows>>

RejectCheckpoint ==
  /\ phase = "between"
  /\ Len(intact) < MaxChunks
  /\ ~ \A list \in FileNodes :
         \A cp \in CheckpointTxMap(Len(intact) + 1) : CheckpointAccepted(list, cp)
  /\ Fail

-----------------------------------------------------------------------------
(* The deltas                                                              *)

\* New state = (old state - deleted) + added.
Applied(deleted, added) == Insert(Remove(state, deleted), added.last)

\* The checks on a delta's two lists.
DeletedAccepted(deleted) == Verify => deleted \subseteq DOMAIN state

\* Mutants: no check_added_children; no verify_state_nodes on a delta.
ChildrenUnchecked(deleted, added) ==
  /\ Verify => Authentic(added.nodes)
  /\ Cardinality(NewRoots(added.nodes)) <= 1

AddedNotRehashed(deleted, added) ==
  /\ Verify => ChildrenPresent(added.nodes, Applied(deleted, added))
  /\ Cardinality(NewRoots(added.nodes)) <= 1

AddedAccepted(deleted, added) ==
  /\ Verify => Authentic(added.nodes) /\ ChildrenPresent(added.nodes, Applied(deleted, added))
  /\ Cardinality(NewRoots(added.nodes)) <= 1

\* A TX_MAPS entry as the file may give it; its hash may be right or wrong.
TxMap == [seq : LedgerSeq, txs : SUBSET Tx, root : Hash]

\* Mutant: the stored hash is compared with one computed over the stored
\* account_hash, and that is never compared with the replayed root.
StoredRootTrusted(seq, added, t, hash) ==
  /\ t.seq = seq
  /\ Verify => /\ TxAuthentic(t.txs)
               /\ hash = LedgerHash(prev, t.seq, t.txs, t.root)

\* The checks on the TX_MAPS entry of the delta numbered seq.
TxMapAccepted(seq, added, t, hash) ==
  /\ t.seq = seq
  /\ Verify => /\ TxAuthentic(t.txs)
               /\ t.root = NewRoot(added.nodes, root)
               /\ hash = LedgerHash(prev, t.seq, t.txs, t.root)

\* write_ledger_outputs: with --txdb the header object goes into the store and
\* the transactions into transaction.db; without it, nothing.
LedgerOutputs(hash) ==
  /\ headers' = IF WithTxdb THEN headers \cup {hash} ELSE headers
  /\ txdb' = IF WithTxdb THEN txdb \cup {hash} ELSE txdb

ReplayDelta ==
  /\ phase = "deltas"
  /\ deltas < MaxDeltas
  /\ \E deleted \in SUBSET Hash :
       /\ DeletedAccepted(deleted)
       /\ \E added \in FileNodes :
            /\ AddedAccepted(deleted, added)
            /\ state' = Applied(deleted, added)
            /\ store' = Sink(store, added.first)
            /\ faithful' = (faithful /\ Labelled(added.nodes))
            /\ root' = NewRoot(added.nodes, root)
            /\ \E seq \in LedgerSeq, t \in TxMap :
               \E hash \in ClaimedHash(LedgerHash(prev, t.seq, t.txs, t.root)) :
                 /\ TxMapAccepted(seq, added, t, hash)
                 /\ trees' = trees \cup {t.txs}
                 /\ LedgerOutputs(hash)
                 /\ rows' = rows \cup {[hash |-> hash, seq |-> t.seq, prev |-> prev,
                                       root |-> root', txs |-> t.txs]}
                 /\ prev' = hash
  /\ deltas' = deltas + 1
  /\ UNCHANGED <<phase, intact, anchors>>

RejectDelta ==
  /\ phase = "deltas"
  /\ deltas < MaxDeltas
  /\ ~ \A deleted \in SUBSET Hash, added \in FileNodes, seq \in LedgerSeq, t \in TxMap :
         \A hash \in ClaimedHash(LedgerHash(prev, t.seq, t.txs, t.root)) :
           /\ DeletedAccepted(deleted)
           /\ AddedAccepted(deleted, added)
           /\ TxMapAccepted(seq, added, t, hash)
  /\ Fail

-----------------------------------------------------------------------------
(* The end of a chunk, and of the import                                   *)

\* Mutant: the streamed path never calls reader.finish.
HashNeverChecked == Verify => TreeComplete(root, state)

\* The file ends: reader.finish compares the chunk hash (for a v2 file that
\* was done at the start), then the final tree is walked.
ChunkAccepted ==
  /\ intact[Len(intact)]
  /\ Verify => TreeComplete(root, state)

\* Mutant: current_root outlives its chunk.
FinishChunkKeepsRoot ==
  /\ phase = "deltas"
  /\ ChunkAccepted
  /\ phase' = "between"
  /\ deltas' = 0
  /\ state' = Empty
  /\ prev' = <<>>
  /\ UNCHANGED <<intact, root, store, trees, headers, txdb, rows, anchors, faithful>>

FinishChunk ==
  /\ phase = "deltas"
  /\ ChunkAccepted
  /\ phase' = "between"
  /\ deltas' = 0
  /\ state' = Empty
  /\ root' = "none"
  /\ prev' = <<>>
  /\ UNCHANGED <<intact, store, trees, headers, txdb, rows, anchors, faithful>>

RejectChunk ==
  /\ phase = "deltas"
  /\ ~ChunkAccepted
  /\ Fail

\* main after the last chunk: the outputs get their final names.  How that is
\* done, and what a crash leaves, is NuDbPublish.
Publish ==
  /\ phase = "between"
  /\ intact # <<>>
  /\ phase' = "published"
  /\ UNCHANGED <<intact, deltas, state, root, prev, store, trees, headers,
                 txdb, rows, anchors, faithful>>

Next ==
  \/ OpenChunk \/ RejectCheckpoint
  \/ ReplayDelta \/ RejectDelta
  \/ FinishChunk \/ RejectChunk
  \/ Publish

Spec == Init /\ [][Next]_vars

-----------------------------------------------------------------------------
(* Properties                                                              *)

\* The sink holds for h the ledger's own node.
StoredAsIs(h) ==
  /\ h \in DOMAIN store \cap DOMAIN Genuine
  /\ store[h].type = Genuine[h].type /\ store[h].slots = Genuine[h].slots

\* The tree under r is entirely in the store, and every node of it is the
\* ledger's own.  (T is the set of its nodes.)
Served(r) ==
  \E T \in SUBSET DOMAIN store :
    /\ r \in T
    /\ \A h \in T : StoredAsIs(h) /\ child_hashes(Genuine[h]) \subseteq T

\* As long as the files call each node what it is, every ledger the import
\* gives a row has its whole state tree and its whole transaction tree in the
\* store, though only the checkpoint and the last ledger of a chunk are ever
\* walked: for the ledgers between, all the code looks at are the children of
\* added nodes (check_added_children).
RowsServed ==
  Verify /\ faithful => \A row \in rows : Served(row.root) /\ row.txs \in trees

\* The rows form chains that end in checkpoints: each names as PrevHash the
\* checkpoint of its chunk or another row's ledger, and its LedgerHash is the
\* hash of what the row itself says (replay_chunk's recomputed LedgerHash).
RowsChained ==
  Verify => \A row \in rows :
    /\ row.hash = LedgerHash(row.prev, row.seq, row.txs, row.root)
    /\ row.prev \in anchors \/ \E parent \in rows : row.prev = parent.hash

\* A published import read only files that match their own chunk_hash, though
\* the contents of a v3 file were used long before its hash was known.
OnlyIntactPublished ==
  phase = "published" => \A c \in DOMAIN intact : intact[c]

\* While a chunk is open, the hash of each node of the live map is in the
\* store; and as long as the files call each node what it is, with the same
\* node: none the state still needs was skipped by the sink because an earlier
\* chunk or delta had written another one for its hash (sink_node).
LiveNodesStored ==
  Verify => \A h \in DOMAIN state :
    /\ h \in DOMAIN store
    /\ faithful => store[h].type = state[h].type /\ store[h].slots = state[h].slots

=============================================================================
