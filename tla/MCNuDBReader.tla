---------------------------- MODULE MCNuDBReader ----------------------------
(***************************************************************************)
(* Small instances of NuDBReader: binary trees over keys that share none,  *)
(* one or two of their three nibbles.                                      *)
(***************************************************************************)
EXTENDS NuDBReader

Keys == {<<0, 0, 0>>, <<0, 0, 1>>, <<0, 1, 1>>, <<1, 0, 0>>}

\* State trees with one of these values per key.
TreesOver(keys, values) ==
  {build_tree({Leaf(k, m[k]) : k \in DOMAIN m}) :
     m \in UNION {[ks -> values] : ks \in SUBSET keys \ {{}}}}

Shapes == TreesOver(Keys, {1})

AtMostOne(S) == {{}} \cup {{x} : x \in S}

\* A store as xrpld writes it, and one as xrla-import does.
Compressed(nodes, kind) == [n \in nodes |-> nodeobject_compress(n, kind)]
Raw(nodes, kind)        == [n \in nodes |-> encode_wire_to_value(n, kind)]

\* A store in which something that is no node stands under a node's hash.
Spoiled(store, n) == [h \in DOMAIN store \cup {n} |->
                        IF h = n THEN encode_object_to_value("header") ELSE store[h]]

\* The inner nodes in one store, the leaves in another; one node lost; any of
\* the stores on the system's disk.
WalkOf(r, gone, disk) ==
  [op |-> "walk", roots |-> <<r>>, onRootDisk |-> disk,
   shards |-> <<Compressed(NodesOf(r) \ (LeavesOf(r) \cup gone), "account"),
                Compressed(LeavesOf(r) \ gone, "account")>>]

\* A node of the second store spoiled in the first.
WalkPast(r, n) ==
  [op |-> "walk", roots |-> <<r>>, onRootDisk |-> {1},
   shards |-> <<Spoiled(Compressed(LeavesOf(r), "account"), n), Raw(NodesOf(r), "account")>>]

Walks ==
  UNION {{WalkOf(r, gone, disk) : gone \in AtMostOne(NodesOf(r)), disk \in SUBSET {1, 2}}
           \cup {WalkPast(r, n) : n \in NodesOf(r)} : r \in Shapes}

\* Chains of trees in stores of which the second holds what the last added.
DiffOf(roots, gone, level) ==
  [op |-> "diff", roots |-> roots, conc |-> level, onRootDisk |-> {},
   shards |-> <<Compressed(UNION {NodesOf(roots[p]) : p \in 1..(Len(roots) - 1)} \ gone, "account"),
                Raw(NodesOf(Last(roots)) \ gone, "account")>>]

Diffs ==
  {DiffOf(<<old, new>>, {}, 1) : old, new \in TreesOver(Keys \ {<<0, 1, 1>>}, {1, 2})}
  \cup UNION {
    {DiffOf(<<old, new>>, gone, 1) : gone \in AtMostOne(NodesOf(old) \cup NodesOf(new))} :
      old, new \in Shapes}
  \cup {DiffOf(roots, {}, level) : roots \in [1..3 -> TreesOver(Keys \ {<<1, 0, 0>>}, {1})], level \in {1, 2}}

\* Blob lengths on both sides of the limits of the length prefix.
Sizes == {<<0, 192>>, <<193, 12480>>, <<12481, 918744>>}

TxSets ==
  UNION {{{[id |-> k, blob |-> m[k][1], meta |-> m[k][2]] : k \in ks} : m \in [ks -> Sizes]} :
           ks \in SUBSET Keys}

TxCalls ==
  UNION {
    LET root == build_tx_tree(txns)
    IN  {[op |-> "txns", txns |-> txns, roots |-> <<root>>, onRootDisk |-> {},
          shards |-> <<Compressed(NodesOf(root) \ gone, "transaction")>>] : gone \in AtMostOne(NodesOf(root))} :
    txns \in TxSets}

\* Ladders with a rung that no sample reaches, and a second rung that a tree of
\* one leaf does not.
MCShared == <<1, 3, 4>>
MCDedicated == <<1, 3, 4, 5, 8>>

MCCalls == Walks \cup Diffs \cup TxCalls

\* The trees are what WalksAreSound and DiffsAreSound take them for.
ASSUME MCTrees ==
  /\ \A root \in {c.roots[1] : c \in Walks} : IsSHAMap(root)
  /\ \A root \in UNION {ToSet(c.roots) : c \in Diffs} : IsKeyed(root)

=============================================================================
