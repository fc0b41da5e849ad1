------------------------- MODULE ChunkReplay_proofs -------------------------
(***************************************************************************)
(* Proofs about ChunkReplay, for any nodes, any chunk files and any number *)
(* of chunks and deltas.                                                   *)
(*                                                                         *)
(* The argument for RowsServed: with verification on, and as long as the   *)
(* files call each node what it is, the store is at all times closed under *)
(* the slots of the ledgers' own nodes and holds no other node.  The walk  *)
(* of the checkpoint establishes that for the checkpoint's nodes, which no *)
(* walk counts twice; check_added_children keeps it for added nodes,       *)
(* because the live map they are looked up in is itself part of the store. *)
(* No intermediate tree needs to be walked.                                *)
(***************************************************************************)
EXTENDS ChunkReplay, TLAPS, FiniteSetTheorems, SequenceTheorems

(* Merging and cutting node maps gives node maps.                          *)
LEMMA SinkOps ==
  ASSUME NEW m, NEW n, IsNodeMap(m), IsNodeMap(n)
  PROVE  /\ IsNodeMap(Sink(m, n))
         /\ DOMAIN Sink(m, n) = DOMAIN m \cup DOMAIN n
         /\ \A h \in DOMAIN m : Sink(m, n)[h] = m[h]
         /\ \A h \in DOMAIN n \ DOMAIN m : Sink(m, n)[h] = n[h]
BY DEF IsNodeMap, Sink

LEMMA InsertOps ==
  ASSUME NEW m, NEW n, IsNodeMap(m), IsNodeMap(n)
  PROVE  /\ IsNodeMap(Insert(m, n))
         /\ DOMAIN Insert(m, n) = DOMAIN m \cup DOMAIN n
         /\ \A h \in DOMAIN n : Insert(m, n)[h] = n[h]
         /\ \A h \in DOMAIN m \ DOMAIN n : Insert(m, n)[h] = m[h]
BY DEF IsNodeMap, Insert

LEMMA RemoveOps ==
  ASSUME NEW m, IsNodeMap(m), NEW D
  PROVE  /\ IsNodeMap(Remove(m, D)) /\ DOMAIN Remove(m, D) = DOMAIN m \ D
         /\ \A h \in DOMAIN m \ D : Remove(m, D)[h] = m[h]
BY DEF IsNodeMap, Remove

(* The live map after a delta.                                             *)
LEMMA AppliedOps ==
  ASSUME IsNodeMap(state), NEW added, IsNodeMap(added.last), NEW deleted
  PROVE  /\ IsNodeMap(Applied(deleted, added))
         /\ DOMAIN Applied(deleted, added) = (DOMAIN state \ deleted) \cup DOMAIN added.last
         /\ \A h \in DOMAIN added.last : Applied(deleted, added)[h] = added.last[h]
         /\ \A h \in DOMAIN state \ DOMAIN added.last :
              h \notin deleted => Applied(deleted, added)[h] = state[h]
<1> DEFINE kept == Remove(state, deleted)
<1>1. /\ IsNodeMap(kept) /\ DOMAIN kept = DOMAIN state \ deleted
      /\ \A h \in DOMAIN state \ deleted : kept[h] = state[h]
  BY RemoveOps
<1>2. Applied(deleted, added) = Insert(kept, added.last)
  BY DEF Applied
<1> HIDE DEF kept
<1>3. /\ IsNodeMap(Insert(kept, added.last))
      /\ DOMAIN Insert(kept, added.last) = DOMAIN kept \cup DOMAIN added.last
      /\ \A h \in DOMAIN added.last : Insert(kept, added.last)[h] = added.last[h]
      /\ \A h \in DOMAIN kept \ DOMAIN added.last : Insert(kept, added.last)[h] = kept[h]
  BY <1>1, InsertOps
<1> QED
  BY <1>1, <1>2, <1>3

(* What a list of a file gives to the live map and to the sink.            *)
LEMMA ListFacts ==
  ASSUME NEW list \in FileNodes
  PROVE  /\ list.nodes \subseteq Node
         /\ IsNodeMap(list.first) /\ IsNodeMap(list.last)
         /\ DOMAIN list.first = {node.hash : node \in list.nodes}
         /\ DOMAIN list.last = {node.hash : node \in list.nodes}
         /\ \A h \in DOMAIN list.first : list.first[h] \in list.nodes /\ list.first[h].hash = h
         /\ \A h \in DOMAIN list.last : list.last[h] \in list.nodes /\ list.last[h].hash = h
<1> DEFINE hashes == {node.hash : node \in list.nodes}
<1>1. /\ list.nodes \subseteq Node
      /\ list.first \in [hashes -> list.nodes] /\ list.last \in [hashes -> list.nodes]
      /\ \A h \in DOMAIN list.first : list.first[h].hash = h
      /\ \A h \in DOMAIN list.last : list.last[h].hash = h
  BY FileAssumption DEF IsNodeList
<1>2. hashes \subseteq Hash
  BY <1>1, NodeAssumption
<1> HIDE DEF hashes
<1>3. DOMAIN list.first = hashes /\ DOMAIN list.last = hashes
  BY <1>1
<1>4. IsNodeMap(list.first) /\ IsNodeMap(list.last)
  BY <1>1, <1>2, <1>3 DEF IsNodeMap
<1>5. \A h \in hashes : list.first[h] \in list.nodes /\ list.last[h] \in list.nodes
  BY <1>1
<1> QED
  BY <1>1, <1>3, <1>4, <1>5 DEF hashes

(* find_new_root returns an added node or the previous root.               *)
LEMMA NewRootIsAddedOrOld ==
  ASSUME NEW nodes, NEW old
  PROVE  NewRoot(nodes, old) \in {node.hash : node \in nodes} \cup {old}
<1>1. CASE NewRoots(nodes) = {}
  BY <1>1 DEF NewRoot
<1>2. CASE NewRoots(nodes) # {}
  <2> DEFINE chosen == CHOOSE node \in NewRoots(nodes) : TRUE
  <2>1. chosen \in NewRoots(nodes)
    BY <1>2
  <2>2. NewRoots(nodes) \subseteq nodes
    BY DEF NewRoots
  <2>3. NewRoot(nodes, old) = chosen.hash
    BY <1>2 DEF NewRoot
  <2> HIDE DEF chosen
  <2>4. QED
    BY <2>1, <2>2, <2>3
<1>3. QED
  BY <1>1, <1>2

(* In a tree check_tree_complete accepts, and in which it met no node      *)
(* twice, no child is missing, also of nodes the walk might not have met.  *)
LEMMA CompleteIsClosed ==
  ASSUME NEW r, NEW m, IsNodeMap(m), TreeComplete(r, m), NoNodeTwice(r, m)
  PROVE  r \in DOMAIN m /\ \A h \in DOMAIN m : Complete(m[h], m)
<1>1. /\ r \in DOMAIN m
      /\ \A h \in Reached(r, m) : Complete(m[h], m)
      /\ Cardinality(Reached(r, m)) = Cardinality(DOMAIN m)
  BY DEF TreeComplete, NoNodeTwice
<1>2. IsFiniteSet(DOMAIN m)
  BY HashAssumption, FS_Subset DEF IsNodeMap
<1>3. Reached(r, m) \subseteq DOMAIN m
  BY DEF Reached
<1>4. Reached(r, m) = DOMAIN m
  BY <1>1, <1>2, <1>3, FS_Subset
<1>5. QED
  BY <1>1, <1>4

(* A node that hashes to its hash and has the type of the ledger's node of *)
(* that hash is that node.                                                 *)
LEMMA LabelledIsGenuine ==
  ASSUME NEW nodes, nodes \subseteq Node, Authentic(nodes), Labelled(nodes), NEW node \in nodes
  PROVE  /\ node.hash \in DOMAIN Genuine
         /\ node.type = Genuine[node.hash].type
         /\ node.slots = Genuine[node.hash].slots
         /\ child_hashes(node) = child_hashes(Genuine[node.hash])
<1>1. /\ node.hashed = node.hash /\ node.hash \in DOMAIN Genuine
      /\ node.type = Genuine[node.hash].type
  BY DEF Authentic, Labelled
<1>2. node.slots = Genuine[node.hash].slots
  BY <1>1, NodeAssumption
<1>3. child_hashes(node) = child_hashes(Genuine[node.hash])
  BY <1>1, <1>2 DEF child_hashes, is_inner
<1>4. QED
  BY <1>1, <1>2, <1>3

-----------------------------------------------------------------------------
(* Type correctness                                                        *)

LEMMA InitType == Init => TypeOK
<1> SUFFICES ASSUME Init PROVE TypeOK
  OBVIOUS
<1>1. IsNodeMap(Empty)
  BY DEF IsNodeMap, Empty
<1>2. intact \in Seq(BOOLEAN) /\ Len(intact) \in 0..MaxChunks
  BY BoundAssumption DEF Init
<1>3. QED
  BY <1>1, <1>2, BoundAssumption, HashAssumption DEF Init, TypeOK

LEMMA NextType ==
  ASSUME TypeOK, [Next]_vars
  PROVE  TypeOK'
<1> USE HashAssumption, FileAssumption, BoundAssumption
<1>0. IsNodeMap(Empty)
  BY DEF IsNodeMap, Empty
<1>1. CASE OpenChunk
  <2>1. PICK version \in {2, 3}, ok \in BOOLEAN : intact' = Append(intact, ok)
    BY <1>1 DEF OpenChunk
  <2>2. PICK list \in FileNodes : \E cp \in CheckpointTxMap(Len(intact) + 1) :
          /\ state' = list.last
          /\ store' = Sink(store, list.first)
          /\ faithful' \in BOOLEAN
          /\ trees' = trees \cup {cp.txs}
          /\ root' = cp.root
    BY <1>1 DEF OpenChunk
  <2>3. PICK cp \in CheckpointTxMap(Len(intact) + 1) :
          /\ faithful' \in BOOLEAN
          /\ trees' = trees \cup {cp.txs}
          /\ root' = cp.root
    BY <2>2
  <2>4. cp.root \in Hash /\ cp.txs \subseteq Tx
    BY DEF CheckpointTxMap
  <2>5. intact' \in Seq(BOOLEAN) /\ Len(intact') \in 0..MaxChunks /\ intact' # <<>>
    <3>1. intact \in Seq(BOOLEAN) /\ Len(intact) \in 0..MaxChunks /\ Len(intact) < MaxChunks
      BY <1>1 DEF OpenChunk, TypeOK
    <3>2. intact' \in Seq(BOOLEAN) /\ Len(intact') = Len(intact) + 1
      BY <2>1, <3>1, AppendProperties
    <3>3. intact' # <<>>
      BY <3>1, <3>2, EmptySeq, LenProperties
    <3>4. QED
      BY <3>1, <3>2, <3>3
  <2>6. IsNodeMap(state') /\ IsNodeMap(store')
    <3>1. IsNodeMap(list.first) /\ IsNodeMap(list.last) /\ IsNodeMap(store)
      BY ListFacts DEF TypeOK
    <3>2. IsNodeMap(Sink(store, list.first))
      BY <3>1, SinkOps
    <3>3. QED
      BY <2>2, <3>1, <3>2
  <2>7. phase' = "deltas" /\ deltas' = 0 /\ rows' = rows
    BY <1>1 DEF OpenChunk
  <2>8. QED
    BY <2>3, <2>4, <2>5, <2>6, <2>7 DEF TypeOK
<1>2. CASE Fail
  <2>1. intact' \in Seq(BOOLEAN) /\ Len(intact') \in 0..MaxChunks
    BY <1>2 DEF Fail
  <2>2. QED
    BY <1>0, <1>2, <2>1 DEF Fail, TypeOK
<1>3. CASE ReplayDelta
  <2>1. PICK deleted \in SUBSET Hash, added \in FileNodes :
          /\ state' = Applied(deleted, added)
          /\ store' = Sink(store, added.first)
          /\ faithful' \in BOOLEAN
          /\ root' = NewRoot(added.nodes, root)
          /\ \E t \in TxMap : \E hash :
               /\ trees' = trees \cup {t.txs}
               /\ t.seq \in LedgerSeq
               /\ rows' = rows \cup {[hash |-> hash, seq |-> t.seq, prev |-> prev,
                                      root |-> root', txs |-> t.txs]}
    BY <1>3 DEF ReplayDelta, TxMap
  <2>2. PICK t \in TxMap : \E hash :
          /\ trees' = trees \cup {t.txs}
          /\ t.seq \in LedgerSeq
          /\ rows' = rows \cup {[hash |-> hash, seq |-> t.seq, prev |-> prev,
                                 root |-> root', txs |-> t.txs]}
    BY <2>1
  <2>3. t.txs \subseteq Tx
    BY DEF TxMap
  <2>4. /\ IsNodeMap(added.first) /\ IsNodeMap(added.last)
        /\ DOMAIN added.last = {node.hash : node \in added.nodes}
        /\ IsNodeMap(state) /\ IsNodeMap(store) /\ root \in Hash
    BY <1>3, ListFacts DEF TypeOK, ReplayDelta
  <2>5. root' \in Hash
    BY <2>1, <2>4, NewRootIsAddedOrOld DEF IsNodeMap
  <2>6. IsNodeMap(state') /\ IsNodeMap(store')
    BY <2>1, <2>4, AppliedOps, SinkOps
  <2>7. \A row \in rows' : row.seq \in LedgerSeq /\ row.root \in Hash /\ row.txs \subseteq Tx
    BY <2>2, <2>3, <2>5 DEF TypeOK
  <2>8. /\ phase' = "deltas" /\ phase = "deltas" /\ intact' = intact
        /\ deltas' \in 0..MaxDeltas
    BY <1>3 DEF ReplayDelta, TypeOK
  <2>9. trees' \subseteq SUBSET Tx
    BY <2>2, <2>3 DEF TypeOK
  <2>10. faithful' \in BOOLEAN
    BY <2>1
  <2>11. intact \in Seq(BOOLEAN) /\ Len(intact) \in 0..MaxChunks /\ intact # <<>>
    BY <2>8 DEF TypeOK
  <2> QED
    BY <2>5, <2>6, <2>7, <2>8, <2>9, <2>10, <2>11 DEF TypeOK
<1>4. CASE FinishChunk
  BY <1>0, <1>4 DEF FinishChunk, TypeOK
<1>5. CASE Publish
  BY <1>5 DEF Publish, TypeOK
<1>6. CASE UNCHANGED vars
  BY <1>6 DEF vars, TypeOK
<1>7. QED
  BY <1>1, <1>2, <1>3, <1>4, <1>5, <1>6
     DEF Next, RejectCheckpoint, RejectDelta, RejectChunk

(* Every variable keeps its type, whatever the chunk files say and with or *)
(* without verification.                                                   *)
THEOREM TypeCorrect == Spec => []TypeOK
<1>1. TypeOK /\ [Next]_vars => TypeOK'
  BY NextType
<1>2. QED
  BY InitType, <1>1, PTL DEF Spec

-----------------------------------------------------------------------------
(* What is stored                                                          *)

\* The store is closed under slots and holds the ledgers' own nodes only.
StoreClosed ==
  \A h \in DOMAIN store : StoredAsIs(h) /\ child_hashes(Genuine[h]) \subseteq DOMAIN store

\* So does the live map, as to what its nodes are.
LiveGenuine ==
  \A h \in DOMAIN state :
    /\ h \in DOMAIN Genuine
    /\ state[h].type = Genuine[h].type /\ state[h].slots = Genuine[h].slots

\* What is live, the root of the open chunk and all a row refers to is stored.
HashesStored ==
  /\ DOMAIN state \subseteq DOMAIN store
  /\ phase = "deltas" => root \in DOMAIN store
  /\ \A row \in rows : row.root \in DOMAIN store /\ row.txs \in trees

StoreInv ==
  TypeOK /\ HashesStored /\ (Verify /\ faithful => StoreClosed /\ LiveGenuine)

LEMMA InitStore == Init => StoreInv
BY InitType DEF Init, StoreInv, StoreClosed, LiveGenuine, HashesStored, Empty

(* Sinking the ledgers' own nodes, with children that are stored or among  *)
(* them, keeps the store closed.                                           *)
LEMMA SinkKeepsClosed ==
  ASSUME NEW list \in FileNodes, IsNodeMap(store), StoreClosed,
         Authentic(list.nodes), Labelled(list.nodes),
         store' = Sink(store, list.first),
         \A node \in list.nodes : child_hashes(node) \subseteq DOMAIN store \cup DOMAIN list.first
  PROVE  StoreClosed'
<1> DEFINE first == list.first
<1>1. /\ list.nodes \subseteq Node /\ IsNodeMap(first)
      /\ \A h \in DOMAIN first : first[h] \in list.nodes /\ first[h].hash = h
  BY ListFacts
<1>2. ASSUME NEW h \in DOMAIN first
      PROVE  /\ h \in DOMAIN Genuine
             /\ first[h].type = Genuine[h].type /\ first[h].slots = Genuine[h].slots
             /\ child_hashes(Genuine[h]) \subseteq DOMAIN store \cup DOMAIN first
  <2> DEFINE node == first[h]
  <2>1. node \in list.nodes /\ node.hash = h
    BY <1>1
  <2> HIDE DEF node
  <2>2. /\ node.hash \in DOMAIN Genuine
        /\ node.type = Genuine[node.hash].type /\ node.slots = Genuine[node.hash].slots
        /\ child_hashes(node) = child_hashes(Genuine[node.hash])
    BY <1>1, <2>1, LabelledIsGenuine
  <2>3. child_hashes(node) \subseteq DOMAIN store \cup DOMAIN first
    BY <2>1
  <2> QED
    BY <2>1, <2>2, <2>3 DEF node
<1> HIDE DEF first
<1>3. /\ DOMAIN store' = DOMAIN store \cup DOMAIN first
      /\ \A h \in DOMAIN store : store'[h] = store[h]
      /\ \A h \in DOMAIN first \ DOMAIN store : store'[h] = first[h]
  <2> DEFINE merged == Sink(store, first)
  <2>1. store' = merged
    BY DEF first
  <2>2. /\ DOMAIN merged = DOMAIN store \cup DOMAIN first
        /\ \A h \in DOMAIN store : merged[h] = store[h]
        /\ \A h \in DOMAIN first \ DOMAIN store : merged[h] = first[h]
    <3>1. IsNodeMap(first)
      BY <1>1
    <3> QED
      BY <3>1, SinkOps
  <2> HIDE DEF merged
  <2>3. DOMAIN store' = DOMAIN store \cup DOMAIN first
    BY <2>1, <2>2
  <2>4. \A h \in DOMAIN store : store'[h] = store[h]
    BY <2>1, <2>2
  <2>5. \A h \in DOMAIN first \ DOMAIN store : store'[h] = first[h]
    BY <2>1, <2>2
  <2> QED
    BY <2>3, <2>4, <2>5
<1> SUFFICES ASSUME NEW h \in DOMAIN store'
             PROVE  StoredAsIs(h)' /\ child_hashes(Genuine[h]) \subseteq DOMAIN store'
  BY DEF StoreClosed
<1>4. CASE h \in DOMAIN store
  <2>1. StoredAsIs(h) /\ child_hashes(Genuine[h]) \subseteq DOMAIN store
    BY <1>4 DEF StoreClosed
  <2>2. StoredAsIs(h)'
    BY <1>3, <1>4, <2>1 DEF StoredAsIs
  <2> QED
    BY <1>3, <2>1, <2>2
<1>5. CASE h \in DOMAIN first \ DOMAIN store
  <2>1. /\ h \in DOMAIN Genuine
        /\ first[h].type = Genuine[h].type /\ first[h].slots = Genuine[h].slots
        /\ child_hashes(Genuine[h]) \subseteq DOMAIN store \cup DOMAIN first
    BY <1>2, <1>5
  <2>2. store'[h] = first[h]
    BY <1>3, <1>5
  <2>3. StoredAsIs(h)'
    BY <2>1, <2>2 DEF StoredAsIs
  <2> QED
    BY <1>3, <2>1, <2>3
<1> QED
  BY <1>3, <1>4, <1>5

(* The ledgers' own nodes, when the live map is what a list says.          *)
LEMMA ListIsGenuine ==
  ASSUME NEW list \in FileNodes, Authentic(list.nodes), Labelled(list.nodes),
         NEW h \in DOMAIN list.last
  PROVE  /\ h \in DOMAIN Genuine
         /\ list.last[h].type = Genuine[h].type
         /\ list.last[h].slots = Genuine[h].slots
<1> DEFINE node == list.last[h]
<1>1. list.nodes \subseteq Node /\ node \in list.nodes /\ node.hash = h
  BY ListFacts
<1> HIDE DEF node
<1>2. /\ node.hash \in DOMAIN Genuine
      /\ node.type = Genuine[node.hash].type /\ node.slots = Genuine[node.hash].slots
  BY <1>1, LabelledIsGenuine
<1> QED
  BY <1>1, <1>2 DEF node

LEMMA NextStore ==
  ASSUME StoreInv, [Next]_vars
  PROVE  StoreInv'
<1>0. TypeOK /\ TypeOK' /\ HashesStored
  BY NextType DEF StoreInv
<1> SUFFICES HashesStored' /\ (Verify /\ faithful' => StoreClosed' /\ LiveGenuine')
  BY <1>0 DEF StoreInv
<1>1. Verify /\ faithful => StoreClosed /\ LiveGenuine
  BY DEF StoreInv
<1>2. CASE OpenChunk
  <2>1. PICK list \in FileNodes : \E cp \in CheckpointTxMap(Len(intact) + 1) :
          /\ CheckpointAccepted(list, cp)
          /\ state' = list.last
          /\ store' = Sink(store, list.first)
          /\ faithful' = (faithful /\ Labelled(list.nodes) /\ NoNodeTwice(cp.root, list.last))
          /\ trees' = trees \cup {cp.txs}
          /\ root' = cp.root
    BY <1>2 DEF OpenChunk
  <2>2. PICK cp \in CheckpointTxMap(Len(intact) + 1) :
          /\ CheckpointAccepted(list, cp)
          /\ faithful' = (faithful /\ Labelled(list.nodes) /\ NoNodeTwice(cp.root, list.last))
          /\ trees' = trees \cup {cp.txs}
          /\ root' = cp.root
    BY <2>1
  <2>3. /\ IsNodeMap(store) /\ IsNodeMap(list.first) /\ IsNodeMap(list.last)
        /\ list.nodes \subseteq Node
        /\ DOMAIN list.first = {node.hash : node \in list.nodes}
        /\ DOMAIN list.last = {node.hash : node \in list.nodes}
    BY <1>0, ListFacts DEF TypeOK
  <2>4. DOMAIN store' = DOMAIN store \cup DOMAIN list.first
    <3> DEFINE merged == Sink(store, list.first)
    <3>1. store' = merged
      BY <2>1
    <3>2. DOMAIN merged = DOMAIN store \cup DOMAIN list.first
      BY <2>3, SinkOps
    <3> HIDE DEF merged
    <3> QED
      BY <3>1, <3>2
  <2>5. rows' = rows
    BY <1>2 DEF OpenChunk
  <2>6. HashesStored'
    <3>1. root' \in DOMAIN store'
      BY <2>2, <2>3, <2>4 DEF CheckpointAccepted
    <3>2. DOMAIN state' \subseteq DOMAIN store'
      BY <2>1, <2>3, <2>4
    <3>3. \A row \in rows' : row.root \in DOMAIN store' /\ row.txs \in trees'
      BY <1>0, <2>2, <2>4, <2>5 DEF HashesStored
    <3> QED
      BY <3>1, <3>2, <3>3 DEF HashesStored
  <2>7. ASSUME Verify, faithful' PROVE StoreClosed' /\ LiveGenuine'
    <3>1. /\ StoreClosed /\ Authentic(list.nodes) /\ Labelled(list.nodes)
          /\ TreeComplete(cp.root, list.last) /\ NoNodeTwice(cp.root, list.last)
      BY <1>1, <2>2, <2>7 DEF CheckpointAccepted
    <3>2. \A h \in DOMAIN list.last : Complete(list.last[h], list.last)
      BY <2>3, <3>1, CompleteIsClosed
    <3>3. ASSUME NEW node \in list.nodes
          PROVE  child_hashes(node) \subseteq DOMAIN list.first
      <4> DEFINE last == list.last[node.hash]
      <4>1. node.hash \in DOMAIN list.last
        BY <2>3
      <4>2. last \in list.nodes /\ last.hash = node.hash /\ Complete(last, list.last)
        BY <3>2, <4>1, ListFacts
      <4> HIDE DEF last
      <4>3. child_hashes(last) = child_hashes(node)
        BY <2>3, <3>1, <4>2, LabelledIsGenuine
      <4>4. child_hashes(last) \subseteq DOMAIN list.last
        BY <4>2 DEF Complete, child_hashes
      <4> QED
        BY <2>3, <4>3, <4>4
    <3>4. StoreClosed'
      BY <2>1, <2>3, <3>1, <3>3, SinkKeepsClosed
    <3>5. LiveGenuine'
      BY <2>1, <3>1, ListIsGenuine DEF LiveGenuine
    <3> QED
      BY <3>4, <3>5
  <2> QED
    BY <2>6, <2>7
<1>3. CASE Fail
  BY <1>3 DEF Fail, StoreClosed, LiveGenuine, HashesStored, Empty
<1>4. CASE ReplayDelta
  <2>1. PICK deleted \in SUBSET Hash, added \in FileNodes :
          /\ AddedAccepted(deleted, added)
          /\ state' = Applied(deleted, added)
          /\ store' = Sink(store, added.first)
          /\ faithful' = (faithful /\ Labelled(added.nodes))
          /\ root' = NewRoot(added.nodes, root)
          /\ \E t \in TxMap : \E hash :
               /\ trees' = trees \cup {t.txs}
               /\ rows' = rows \cup {[hash |-> hash, seq |-> t.seq, prev |-> prev,
                                      root |-> root', txs |-> t.txs]}
    BY <1>4 DEF ReplayDelta
  <2>2. /\ IsNodeMap(store) /\ IsNodeMap(state)
        /\ IsNodeMap(added.first) /\ IsNodeMap(added.last)
        /\ added.nodes \subseteq Node
        /\ DOMAIN added.first = {node.hash : node \in added.nodes}
        /\ DOMAIN added.last = {node.hash : node \in added.nodes}
    BY <1>0, ListFacts DEF TypeOK
  <2>3. DOMAIN store' = DOMAIN store \cup DOMAIN added.first
    <3> DEFINE merged == Sink(store, added.first)
    <3>1. store' = merged
      BY <2>1
    <3>2. DOMAIN merged = DOMAIN store \cup DOMAIN added.first
      BY <2>2, SinkOps
    <3> HIDE DEF merged
    <3> QED
      BY <3>1, <3>2
  <2>4. /\ DOMAIN state' = (DOMAIN state \ deleted) \cup DOMAIN added.last
        /\ \A h \in DOMAIN added.last : state'[h] = added.last[h]
        /\ \A h \in DOMAIN state \ DOMAIN added.last : h \notin deleted => state'[h] = state[h]
    <3> DEFINE applied == Applied(deleted, added)
    <3>1. /\ DOMAIN applied = (DOMAIN state \ deleted) \cup DOMAIN added.last
          /\ \A h \in DOMAIN added.last : applied[h] = added.last[h]
          /\ \A h \in DOMAIN state \ DOMAIN added.last : h \notin deleted => applied[h] = state[h]
      BY <2>2, AppliedOps
    <3>2. state' = applied
      BY <2>1
    <3> HIDE DEF applied
    <3> QED
      BY <3>1, <3>2
  <2>5. DOMAIN state' \subseteq DOMAIN store'
    BY <1>0, <2>2, <2>3, <2>4 DEF HashesStored
  <2>6. root' \in DOMAIN store'
    <3>1. root \in DOMAIN store
      BY <1>0, <1>4 DEF HashesStored, ReplayDelta
    <3>2. root' \in {node.hash : node \in added.nodes} \cup {root}
      BY <2>1, NewRootIsAddedOrOld
    <3> QED
      BY <2>2, <2>3, <3>1, <3>2
  <2>7. HashesStored'
    <3>1. PICK t \in TxMap : \E hash :
            /\ trees' = trees \cup {t.txs}
            /\ rows' = rows \cup {[hash |-> hash, seq |-> t.seq, prev |-> prev,
                                   root |-> root', txs |-> t.txs]}
      BY <2>1
    <3>2. \A row \in rows' : row.root \in DOMAIN store' /\ row.txs \in trees'
      BY <1>0, <2>3, <2>6, <3>1 DEF HashesStored
    <3> QED
      BY <2>5, <2>6, <3>2 DEF HashesStored
  <2>8. ASSUME Verify, faithful' PROVE StoreClosed' /\ LiveGenuine'
    <3>1. /\ StoreClosed /\ LiveGenuine
          /\ Authentic(added.nodes) /\ Labelled(added.nodes)
          /\ ChildrenPresent(added.nodes, state')
      BY <1>1, <2>1, <2>8 DEF AddedAccepted
    <3>2. \A node \in added.nodes : child_hashes(node) \subseteq DOMAIN state'
      BY <3>1 DEF ChildrenPresent, Complete, child_hashes
    <3>3. DOMAIN state' \subseteq DOMAIN store \cup DOMAIN added.first
      BY <2>3, <2>5
    <3>4. \A node \in added.nodes :
            child_hashes(node) \subseteq DOMAIN store \cup DOMAIN added.first
      BY <3>2, <3>3
    <3>5. StoreClosed'
      BY <2>1, <2>2, <3>1, <3>4, SinkKeepsClosed
    <3>6. LiveGenuine'
      <4> SUFFICES ASSUME NEW h \in DOMAIN state'
                   PROVE  /\ h \in DOMAIN Genuine
                          /\ state'[h].type = Genuine[h].type
                          /\ state'[h].slots = Genuine[h].slots
        BY DEF LiveGenuine
      <4>1. CASE h \in DOMAIN added.last
        BY <2>4, <3>1, <4>1, ListIsGenuine
      <4>2. CASE h \notin DOMAIN added.last
        BY <2>4, <3>1, <4>2 DEF LiveGenuine
      <4> QED
        BY <4>1, <4>2
    <3> QED
      BY <3>5, <3>6
  <2> QED
    BY <2>7, <2>8
<1>5. CASE FinishChunk
  BY <1>0, <1>1, <1>5
     DEF FinishChunk, StoreClosed, StoredAsIs, LiveGenuine, HashesStored, Empty
<1>6. CASE Publish
  BY <1>0, <1>1, <1>6 DEF Publish, StoreClosed, StoredAsIs, LiveGenuine, HashesStored
<1>7. CASE UNCHANGED vars
  BY <1>0, <1>1, <1>7 DEF vars, StoreClosed, StoredAsIs, LiveGenuine, HashesStored
<1>8. QED
  BY <1>2, <1>3, <1>4, <1>5, <1>6, <1>7 DEF Next, RejectCheckpoint, RejectDelta, RejectChunk

LEMMA StoreInvariant == Spec => []StoreInv
<1>1. StoreInv /\ [Next]_vars => StoreInv'
  BY NextStore
<1>2. QED
  BY InitStore, <1>1, PTL DEF Spec

(* Whatever is live is in the store under its hash; and while the files    *)
(* call each node what it is, it is the same node, so that "first write    *)
(* wins" (sink_node) never put another in the place of one that is needed. *)
THEOREM LiveNodesAreStored == Spec => []LiveNodesStored
<1>1. StoreInv => LiveNodesStored
  <2> SUFFICES ASSUME StoreInv, Verify, NEW h \in DOMAIN state
               PROVE  /\ h \in DOMAIN store
                      /\ faithful => store[h].type = state[h].type /\ store[h].slots = state[h].slots
    BY DEF LiveNodesStored
  <2>1. h \in DOMAIN store
    BY DEF StoreInv, HashesStored
  <2>2. faithful => store[h].type = state[h].type /\ store[h].slots = state[h].slots
    BY <2>1 DEF StoreInv, StoreClosed, StoredAsIs, LiveGenuine
  <2>3. QED
    BY <2>1, <2>2
<1>2. QED
  BY StoreInvariant, <1>1, PTL

(* While the files call each node what it is, every ledger with a row has  *)
(* all of its state and transactions stored, the ones whose tree nobody    *)
(* walked included (check_added_children).                                 *)
THEOREM EveryRowIsServed == Spec => []RowsServed
<1>1. StoreInv => RowsServed
  <2> SUFFICES ASSUME StoreInv, Verify, faithful, NEW row \in rows
               PROVE  Served(row.root) /\ row.txs \in trees
    BY DEF RowsServed
  <2>1. /\ row.root \in DOMAIN store /\ row.txs \in trees
        /\ \A h \in DOMAIN store : StoredAsIs(h) /\ child_hashes(Genuine[h]) \subseteq DOMAIN store
    BY DEF StoreInv, HashesStored, StoreClosed
  <2>2. Served(row.root)
    BY <2>1 DEF Served
  <2>3. QED
    BY <2>1, <2>2
<1>2. QED
  BY StoreInvariant, <1>1, PTL

-----------------------------------------------------------------------------
(* The chain of ledger hashes                                              *)

\* What the next delta is chained to is a checkpoint or the last row.
PrevKnown ==
  phase = "deltas" => prev \in anchors \/ \E row \in rows : prev = row.hash

ChainInv == Verify => RowsChained /\ PrevKnown

LEMMA NextChain ==
  ASSUME ChainInv, [Next]_vars
  PROVE  ChainInv'
<1> SUFFICES ASSUME Verify PROVE RowsChained' /\ PrevKnown'
  BY DEF ChainInv
<1>1. PrevKnown /\ \A row \in rows :
        /\ row.hash = LedgerHash(row.prev, row.seq, row.txs, row.root)
        /\ row.prev \in anchors \/ \E parent \in rows : row.prev = parent.hash
  BY DEF ChainInv, RowsChained
<1>2. CASE OpenChunk
  <2>1. prev' \in anchors' /\ anchors \subseteq anchors' /\ rows' = rows
    BY <1>2 DEF OpenChunk
  <2>2. QED
    BY <1>1, <2>1 DEF RowsChained, PrevKnown
<1>3. CASE Fail
  BY <1>3 DEF Fail, RowsChained, PrevKnown
<1>4. CASE ReplayDelta
  <2>1. PICK added \in FileNodes, seq \in LedgerSeq, t \in TxMap :
          /\ root' = NewRoot(added.nodes, root)
          /\ TxMapAccepted(seq, added, t, prev')
          /\ rows' = rows \cup {[hash |-> prev', seq |-> t.seq, prev |-> prev,
                                 root |-> root', txs |-> t.txs]}
    BY <1>4 DEF ReplayDelta
  <2> DEFINE new == [hash |-> prev', seq |-> t.seq, prev |-> prev,
                     root |-> root', txs |-> t.txs]
  <2>2. prev' = LedgerHash(prev, t.seq, t.txs, root')
    BY <2>1 DEF TxMapAccepted
  <2>3. /\ new.hash = LedgerHash(new.prev, new.seq, new.txs, new.root)
        /\ new.hash = prev' /\ new.prev = prev
    BY <2>2
  <2>4. prev \in anchors \/ \E parent \in rows : prev = parent.hash
    BY <1>1, <1>4 DEF PrevKnown, ReplayDelta
  <2>5. anchors' = anchors /\ rows' = rows \cup {new}
    BY <1>4, <2>1 DEF ReplayDelta
  <2>6. PrevKnown'
    BY <2>1, <2>3, <2>5 DEF PrevKnown
  <2> HIDE DEF new
  <2>7. RowsChained'
    <3> SUFFICES ASSUME NEW row \in rows'
                 PROVE  /\ row.hash = LedgerHash(row.prev, row.seq, row.txs, row.root)
                        /\ row.prev \in anchors' \/ \E parent \in rows' : row.prev = parent.hash
      BY DEF RowsChained, LedgerHash
    <3>1. CASE row \in rows
      BY <1>1, <2>5, <3>1
    <3>2. CASE row = new
      BY <2>3, <2>4, <2>5, <3>2
    <3>3. QED
      BY <2>5, <3>1, <3>2
  <2>8. QED
    BY <2>6, <2>7
<1>5. CASE FinishChunk \/ Publish
  <2>1. rows' = rows /\ anchors' = anchors /\ phase' # "deltas"
    BY <1>5 DEF FinishChunk, Publish
  <2>2. QED
    BY <1>1, <2>1 DEF RowsChained, PrevKnown
<1>6. CASE UNCHANGED vars
  BY <1>1, <1>6 DEF vars, RowsChained, PrevKnown
<1>7. QED
  BY <1>2, <1>3, <1>4, <1>5, <1>6 DEF Next, RejectCheckpoint, RejectDelta, RejectChunk

(* Each row's LedgerHash is the hash of what the row says, and its         *)
(* PrevHash leads, row by row, to the checkpoint of a chunk.               *)
THEOREM EveryRowIsChained == Spec => []RowsChained
<1>1. Init => ChainInv
  BY DEF Init, ChainInv, RowsChained, PrevKnown
<1>2. ChainInv /\ [Next]_vars => ChainInv'
  BY NextChain
<1>3. ChainInv => RowsChained
  BY OptionAssumption DEF ChainInv, RowsChained
<1>4. QED
  BY <1>1, <1>2, <1>3, PTL DEF Spec

-----------------------------------------------------------------------------
(* Chunk hashes                                                            *)

\* Only the file being read may still turn out not to match its hash.
IntactInv ==
  /\ phase \in {"between", "published"} => \A c \in DOMAIN intact : intact[c]
  /\ phase = "deltas" => \A c \in DOMAIN intact : c # Len(intact) => intact[c]

LEMMA NextIntact ==
  ASSUME TypeOK, IntactInv, [Next]_vars
  PROVE  IntactInv'
<1>0. intact \in Seq(BOOLEAN)
  BY DEF TypeOK
<1>1. CASE OpenChunk
  <2>1. PICK ok \in BOOLEAN : intact' = Append(intact, ok)
    BY <1>1 DEF OpenChunk
  <2>2. \A c \in DOMAIN intact : intact[c]
    BY <1>1 DEF OpenChunk, IntactInv
  <2>3. /\ Len(intact) \in Nat /\ DOMAIN intact = 1..Len(intact)
        /\ Len(intact') = Len(intact) + 1
        /\ DOMAIN intact' = 1..(Len(intact) + 1)
        /\ \A c \in 1..Len(intact) : intact'[c] = intact[c]
    BY <1>0, <2>1
  <2>4. phase' = "deltas"
    BY <1>1 DEF OpenChunk
  <2>5. QED
    BY <2>2, <2>3, <2>4 DEF IntactInv
<1>2. CASE Fail
  BY <1>2 DEF Fail, IntactInv
<1>3. CASE ReplayDelta
  BY <1>3 DEF ReplayDelta, IntactInv
<1>4. CASE FinishChunk
  BY <1>4 DEF FinishChunk, ChunkAccepted, IntactInv
<1>5. CASE Publish
  BY <1>5 DEF Publish, IntactInv
<1>6. CASE UNCHANGED vars
  BY <1>6 DEF vars, IntactInv
<1>7. QED
  BY <1>1, <1>2, <1>3, <1>4, <1>5, <1>6 DEF Next, RejectCheckpoint, RejectDelta, RejectChunk

(* What is published was read from files that match their chunk hash.      *)
THEOREM PublishedIsIntact == Spec => []OnlyIntactPublished
<1>1. Init => IntactInv
  BY DEF Init, IntactInv
<1>2. TypeOK /\ IntactInv /\ [Next]_vars => IntactInv'
  BY NextIntact
<1>3. IntactInv => OnlyIntactPublished
  BY DEF IntactInv, OnlyIntactPublished
<1>4. QED
  BY TypeCorrect, <1>1, <1>2, <1>3, PTL DEF Spec

=============================================================================
