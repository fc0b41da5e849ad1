----------------------------- MODULE ValueCodec -----------------------------
(***************************************************************************)
(* The values of a NuDB store (dat.rs): what NodeStore and xrla-import put *)
(* there for a SHAMap node and what xrla-nudb reads out of it.             *)
(*                                                                         *)
(* A value is [codec, mask, hashes, blob].  The codecs of inner nodes use  *)
(* mask and hashes; raw and lz4 hold an EncodedBlob, [type, payload], as   *)
(* it is or compressed, which makes no difference to what is read.         *)
(***************************************************************************)
EXTENDS SHAMap, Integers

\* "Returns None"
NoWire == <<>>

NoBlob == [type |-> "none", payload |-> <<>>]

Used(node) == {slot \in 1..Branch : node[2][slot] # ZERO_HASH}

\* The bit of a slot in the branch mask: slot 0 has the highest one.
Bit(slot) == 2^(Branch - slot)

-----------------------------------------------------------------------------
(* Writing                                                                 *)

\* encode_wire_to_value: always raw; a leaf of either kind keeps its type.
encode_wire_to_value(node, kind) ==
  [codec |-> "raw", mask |-> 0, hashes |-> <<>>,
   blob |-> [type    |-> IF is_inner(node) THEN "unknown" ELSE kind,
             payload |-> Tail(node)]]

\* encode_object_to_value, as it is called for a ledger's header.
encode_object_to_value(header) ==
  [codec |-> "raw", mask |-> 0, hashes |-> <<>>,
   blob |-> [type |-> "ledger", payload |-> header]]

\* xrpld's codec (nodeobject_compress): inner nodes by their children, all or
\* some; anything else compressed.
nodeobject_compress(node, kind) ==
  LET Stored(codec, mask, hashes) ==
        [codec |-> codec, mask |-> mask, hashes |-> hashes, blob |-> NoBlob]
  IN  IF ~is_inner(node)
      THEN [encode_wire_to_value(node, kind) EXCEPT !.codec = "lz4"]
      ELSE IF Used(node) = 1..Branch THEN Stored("full", 0, node[2])
      ELSE Stored("sparse", FoldSet(+, 0, {Bit(slot) : slot \in Used(node)}),
                  SelectSeq(node[2], LAMBDA h : h # ZERO_HASH))

-----------------------------------------------------------------------------
(* Reading                                                                 *)

\* The hashes of the slots in the mask, in slot order.
Expand(hashes, present) ==
  Inner([slot \in 1..Branch |->
           IF slot \in present THEN hashes[Cardinality({s \in present : s <= slot})]
           ELSE ZERO_HASH])

\* Mutant: `mask & (1 << s)`.
SparseFromLowestBit(value) ==
  LET present == {slot \in 1..Branch : (value.mask \div 2^(slot - 1)) % 2 = 1}
  IN  IF Len(value.hashes) = Cardinality(present) THEN Expand(value.hashes, present)
      ELSE NoWire

decode_sparse_inner(value) ==
  LET present == {slot \in 1..Branch : (value.mask \div Bit(slot)) % 2 = 1}
  IN  IF Len(value.hashes) = Cardinality(present) THEN Expand(value.hashes, present)
      ELSE NoWire

decode_full_inner(value) ==
  IF Len(value.hashes) = Branch THEN Inner(value.hashes) ELSE NoWire

\* encoded_blob_to_wire: a ledger object is no SHAMap node.
encoded_blob_to_wire(blob) ==
  CASE blob.type = "unknown" -> Inner(blob.payload[1])
    [] blob.type \in {"account", "transaction"} -> Leaf(blob.payload[1], blob.payload[2])
    [] OTHER -> NoWire

decode_value_to_wire(value) ==
  CASE value.codec = "full"   -> decode_full_inner(value)
    [] value.codec = "sparse" -> decode_sparse_inner(value)
    [] value.codec \in {"lz4", "raw"} -> encoded_blob_to_wire(value.blob)
    [] OTHER -> NoWire

=============================================================================
