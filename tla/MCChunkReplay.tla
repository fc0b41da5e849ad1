--------------------------- MODULE MCChunkReplay ---------------------------
(***************************************************************************)
(* A small universe of account-state trees for ChunkReplay.                *)
(*                                                                         *)
(*   r1 = {i, c}   i = {a, b}     the first tree                           *)
(*   r2 = {a, c}                  b deleted: leaf a moves up a level       *)
(*   i  as a root                 c deleted: the root moves down           *)
(*   d  = {a, a}                  an inner node that names a child twice   *)
(*   k                            the hash of a compressed inner node,     *)
(*                                which no ledger has                      *)
(***************************************************************************)
EXTENDS ChunkReplay, TLC

CONSTANTS a, b, c, i, r1, r2, d, k, t1, tx

MCHash == {a, b, c, i, r1, r2, d, k}

MCSlots == i :> <<a, b>> @@ r1 :> <<i, c>> @@ r2 :> <<a, c>> @@ d :> <<a, a>>

MCGenuine ==
  [h \in MCHash \ {k} |->
     IF h \in DOMAIN MCSlots THEN [type |-> "inner", slots |-> MCSlots[h]]
     ELSE [type |-> "account", slots |-> <<>>]]

\* The ledger's node of a hash; a node with another content; one with the
\* same content but a type it does not have in a ledger.
Right(h) == [hash |-> h, hashed |-> h, parses |-> TRUE] @@ MCGenuine[h]
Forged(h, slots) ==
  [hash |-> h, hashed |-> "other", parses |-> TRUE, type |-> "inner", slots |-> slots]
AsLeaf(h, type) ==
  [hash |-> h, hashed |-> h, parses |-> FALSE, type |-> type, slots |-> <<>>]
Compressed(h, slots) ==
  [hash |-> h, hashed |-> h, parses |-> TRUE, type |-> "compressed", slots |-> slots]
Unparsable(h, type) ==
  [hash |-> h, hashed |-> h, parses |-> FALSE, type |-> type, slots |-> <<>>]

\* The same node listed for every hash, or two for one hash.
Once(nodes) ==
  LET m == [h \in {n.hash : n \in nodes} |-> CHOOSE n \in nodes : n.hash = h]
  IN  [nodes |-> nodes, first |-> m, last |-> m]
Twice(nodes, before, after) ==
  [nodes |-> nodes \cup {before, after},
   first |-> Once(nodes \cup {before}).first, last |-> Once(nodes \cup {after}).last]

\* Every list of right nodes, and the same with the content of i or r2
\* replaced (a child dropped, none left).
Forgeries == {Forged(i, <<a>>), Forged(r2, <<>>)}
RightLists ==
  {Once(nodes) : nodes \in {S \in SUBSET ({Right(h) : h \in {a, b, c, i, r1, r2}} \cup Forgeries) :
                              \A n, m \in S : n.hash = m.hash => n = m}}

\* Lists that call nodes what they are not, or whose trees have one twice.
OddLists ==
  {Once({AsLeaf(i, "account")}),
   Once({Right(r1), Right(c), AsLeaf(i, "account")}),
   Once({Right(r2), Right(c), AsLeaf(a, "tx")}),
   Once({Right(d), Right(a), Right(i)}),
   Once({Compressed(k, <<a, b>>), Right(a), Right(b)}),
   Once({Right(r1), Right(c), Unparsable(i, "compressed")}),
   Twice({Right(a), Right(b)}, Right(i), AsLeaf(i, "account")),
   Twice({Right(a), Right(b)}, AsLeaf(i, "account"), Right(i))}

MCFileNodes == RightLists \cup OddLists

\* Those for two files: the same without the second forgery.
MCSharedNodes == {list \in MCFileNodes : Forged(r2, <<>>) \notin list.nodes}

MCNode == UNION {list.nodes : list \in MCFileNodes}

=============================================================================
