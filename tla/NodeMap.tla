------------------------------ MODULE NodeMap ------------------------------
(***************************************************************************)
(* The importer's account-state map (HashMap<Hash256, SHAMapNode>) and     *)
(* what it can check of it.                                                *)
(*                                                                         *)
(* A node (SHAMapNode) is a record with at least these fields:             *)
(*   hash    what it is listed under                                       *)
(*   type    the type it is labelled with: "inner", "compressed" (the two  *)
(*           encodings of inner nodes) or one of the leaf types            *)
(*   parses  can InnerNode::from_node parse its content                    *)
(*   slots   if so, the child hash in each slot in use                     *)
(* A map gives for each hash the node it holds.                            *)
(***************************************************************************)
EXTENDS FiniteSets

LOCAL INSTANCE Functions

Empty == [h \in {} |-> {}]

\* HashMap::insert of every node of m: m's entries replace map's.
Insert(map, m) ==
  [h \in DOMAIN map \cup DOMAIN m |-> IF h \in DOMAIN m THEN m[h] ELSE map[h]]

Remove(map, hashes) == [h \in DOMAIN map \ hashes |-> map[h]]

\* NodeType::is_inner and InnerNode::child_hashes; a leaf has no children,
\* whatever its content.
is_inner(node) == node.type \in {"inner", "compressed"}

child_hashes(node) ==
  IF is_inner(node) THEN {node.slots[s] : s \in DOMAIN node.slots} ELSE {}

\* The hashes a walk from r meets in m: the least set that holds r and the
\* children of its members.
Reached(r, m) ==
  {h \in DOMAIN m :
     \A T \in SUBSET DOMAIN m :
       r \in T /\ (\A x \in T : child_hashes(m[x]) \cap DOMAIN m \subseteq T) => h \in T}

\* walk_complete's count.  Without a visited set, the nodes under a hash are
\* counted once for each slot that holds it.
Visits(r, m) ==
  LET under[h \in DOMAIN m] ==
        IF is_inner(m[h])
        THEN 1 + SumFunction([s \in DOMAIN m[h].slots |-> under[m[h].slots[s]]])
        ELSE 1
  IN  under[r]

\* The node's children are all there: an inner node that does not parse is an
\* error.
Complete(node, m) ==
  is_inner(node) => node.parses /\ child_hashes(node) \subseteq DOMAIN m

\* check_tree_complete: no node met refers to a missing one, and as many nodes
\* are visited as the map holds.
TreeComplete(r, m) ==
  /\ r \in DOMAIN m
  /\ \A h \in Reached(r, m) : Complete(m[h], m)
  /\ Visits(r, m) = Cardinality(DOMAIN m)

\* check_added_children: every child of an added node is in the new state.
ChildrenPresent(added, m) == \A node \in added : Complete(node, m)

\* find_new_root: the added inner nodes in full form no other of them refers
\* to.  Compressed inner nodes are passed over, and so is what they refer to.
NewRoots(added) ==
  LET inner == {node \in added : node.type = "inner"}
      referenced == UNION {child_hashes(node) : node \in {n \in inner : n.parses}}
  IN  {node \in inner : node.hash \notin referenced}

NewRoot(added, prevRoot) ==
  IF NewRoots(added) = {} THEN prevRoot
  ELSE (CHOOSE node \in NewRoots(added) : TRUE).hash

=============================================================================
