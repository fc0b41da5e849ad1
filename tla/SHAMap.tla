------------------------------- MODULE SHAMap -------------------------------
(***************************************************************************)
(* SHAMap trees: nodes, the transaction tree build_tx_tree rebuilds from a *)
(* ledger's transactions, and the content of a transaction leaf.           *)
(*                                                                         *)
(* SHA-512Half is taken to be collision free, so a node's hash is its      *)
(* content.  An inner node is the sequence of its child hashes by slot; a  *)
(* leaf is its key, whose nibbles say where it goes, and its value.        *)
(***************************************************************************)
EXTENDS Naturals, Sequences, FiniteSets, SequencesExt

CONSTANTS
  Branch,   \* slots of an inner node: 16 in the code
  KeyLen    \* nibbles of a key: 64 in the code

ASSUME ShapeAssumption == Branch \in Nat \ {0} /\ KeyLen \in Nat \ {0}

Key == [1..KeyLen -> 0..(Branch - 1)]

\* The order of keys.
KeyBefore(k, l) == \E d \in 1..KeyLen : k[d] < l[d] /\ \A e \in 1..(d - 1) : k[e] = l[e]

\* ZERO_HASH: an empty slot, and the root of an empty transaction tree.
ZERO_HASH == <<>>

Leaf(key, value) == <<"leaf", key, value>>
Inner(children)  == <<"inner", children>>

is_inner(node) == node[1] = "inner"

\* InnerNode::children: what each slot holds.
slots(node) == IF is_inner(node) THEN node[2] ELSE <<>>

\* InnerNode::child_hashes: what is in the slots in use.
child_hashes(node) == ToSet(slots(node)) \ {ZERO_HASH}

\* The nodes at each depth of the tree under a hash.
AtDepth(hash) ==
  LET at[depth \in Nat] ==
        IF depth = 0 THEN {hash} \ {ZERO_HASH}
        ELSE UNION {child_hashes(node) : node \in at[depth - 1]}
  IN  at

\* All nodes of a tree, which is at most as deep as keys are long.
NodesOf(hash) == UNION {AtDepth(hash)[depth] : depth \in 0..KeyLen}

LeavesOf(hash) == {n \in NodesOf(hash) : ~is_inner(n)}

-----------------------------------------------------------------------------
(* build_tx_tree                                                           *)

nibble(leaf, depth) == leaf[2][depth + 1]

\* The leaves that go to a slot of an inner node of this depth.
Bucket(leaves, depth, slot) == {l \in leaves : nibble(l, depth) = slot - 1}

\* Mutant: an inner node with one child is left out.
BuildLevelSkipping(leaves, depth) ==
  LET level[ls \in SUBSET leaves, d \in depth..KeyLen] ==
        LET Child(slot) ==
              LET bucket == Bucket(ls, d, slot)
              IN  CASE bucket = {} -> ZERO_HASH
                    [] Cardinality(bucket) = 1 -> CHOOSE l \in bucket : TRUE
                    [] OTHER -> level[bucket, d + 1]
            used == {slot \in 1..Branch : Bucket(ls, d, slot) # {}}
        IN  IF Cardinality(used) = 1 /\ d > 0
            THEN Child(CHOOSE slot \in used : TRUE)
            ELSE Inner([slot \in 1..Branch |-> Child(slot)])
  IN  level[leaves, depth]

\* A leaf sits in the highest slot that no other key shares; the slots above
\* it are inner nodes, also those with only one child.  Every node built is
\* also collected for the store (all_nodes): these are NodesOf the root.
build_level(leaves, depth) ==
  LET level[ls \in SUBSET leaves, d \in depth..KeyLen] ==
        LET Child(slot) ==
              LET bucket == Bucket(ls, d, slot)
              IN  CASE bucket = {} -> ZERO_HASH
                    [] Cardinality(bucket) = 1 -> CHOOSE l \in bucket : TRUE
                    [] OTHER -> level[bucket, d + 1]
        IN  Inner([slot \in 1..Branch |-> Child(slot)])
  IN  level[leaves, depth]

\* The root is an inner node even over a single leaf.
build_tree(leaves) ==
  IF leaves = {} THEN ZERO_HASH ELSE build_level(leaves, 0)

-----------------------------------------------------------------------------
(* Transaction leaves: VL(tx) VL(meta) txid, each blob by its length       *)

\* write_vl: the length prefix, in bytes.
write_vl(len) ==
  CASE len <= 192   -> <<len>>
    [] len \in 193..12480 -> LET n == len - 193 IN <<193 + n \div 256, n % 256>>
    [] len > 12480  ->
         LET n == len - 12481
         IN  <<(241 + n \div 65536) % 256, (n \div 256) % 256, n % 256>>

\* What read_vl answers for bytes it refuses: no length any blob has.
BadVL == [len |-> 2^24, bytes |-> 0]

\* read_vl: the length and the bytes it took, from the prefix and what follows.
read_vl(b) ==
  CASE b[1] <= 192 -> [len |-> b[1], bytes |-> 1]
    [] b[1] \in 193..240 -> [len |-> 193 + (b[1] - 193) * 256 + b[2], bytes |-> 2]
    [] b[1] \in 241..254 ->
         [len |-> 12481 + (b[1] - 241) * 65536 + b[2] * 256 + b[3], bytes |-> 3]
    [] OTHER -> BadVL

\* A transaction: its id and the lengths of its two blobs.
TxLeaf(tx) ==
  Leaf(tx.id, [txvl |-> write_vl(tx.blob), tx |-> tx.blob,
               metavl |-> write_vl(tx.meta), meta |-> tx.meta])

\* parse_tx_leaf: each blob is cut where its prefix says, and 32 bytes have to
\* be left for the id.  A prefix that says anything but its blob's length
\* gives other blobs or an error: no transaction.
parse_tx_leaf(leaf) ==
  LET v == leaf[3]
      Agrees(vl, len) == read_vl(vl) = [len |-> len, bytes |-> Len(vl)]
  IN  IF Agrees(v.txvl, v.tx) /\ Agrees(v.metavl, v.meta)
      THEN {[id |-> leaf[2], blob |-> v.tx, meta |-> v.meta]}
      ELSE {}

\* Mutant: the tree without its inner nodes of one child.
BuildTxTreeSkipping(txns) ==
  IF txns = {} THEN ZERO_HASH ELSE BuildLevelSkipping({TxLeaf(tx) : tx \in txns}, 0)

build_tx_tree(txns) == build_tree({TxLeaf(tx) : tx \in txns})

=============================================================================
