------------------------------ MODULE NodeDiff ------------------------------
(***************************************************************************)
(* What NuDBReader::diff may answer for two trees, each the set of its     *)
(* nodes, and how xrla-export applies the answer to its running state.     *)
(* That the recursive comparison answers nothing else is DiffIsExact of    *)
(* NuDBReader_proofs.                                                      *)
(***************************************************************************)
CONSTANT OldNodesGone  \* may the store have lost nodes of the old tree

\* Mutant: insert first, then remove.
AddedThenRemoved(s, diff) == (s \cup diff.added) \ diff.deleted

\* New state = (old state - deleted) + added.
Applied(s, diff) == (s \ diff.deleted) \cup diff.added

\* Nodes under one the store no longer has: collect_deleted lists the missing
\* node and goes no further.  The root of the old tree must be readable.
Overlooked(old, new) ==
  {lost \in SUBSET old : lost = {} \/ (OldNodesGone /\ ~(old \ new \subseteq lost))}

\* NuDBReader::diff compares positions, not hashes: a node of both trees that
\* changed its depth is listed as deleted, unless overlooked, and as added.
DiffLists(old, new) ==
  IF old = new THEN {[added |-> {}, deleted |-> {}]}
  ELSE {[added   |-> (new \ old) \cup moved,
         deleted |-> ((old \ new) \cup moved) \ lost] :
          moved \in SUBSET (old \cap new), lost \in Overlooked(old, new)}

=============================================================================
