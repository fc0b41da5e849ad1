------------------------------- MODULE TxMeta -------------------------------
(***************************************************************************)
(* Transaction metadata as xrpld has it, outside of this repository: which *)
(* accounts it says were affected (TxMeta::getAffectedAccounts, quoted at  *)
(* the top of meta_decode.rs) and how it is serialized.                    *)
(*                                                                         *)
(* Metadata is [index, nodes, tail]: TransactionIndex (None if absent),    *)
(* the nodes of AffectedNodes, and whether another field follows them.  A  *)
(* node is [kind, fields, others]: the fields of its NewFields (created)   *)
(* or FinalFields, None if it has no such object, and those of             *)
(* PreviousFields.  A field is [t, f, v]: type, name, value.               *)
(*                                                                         *)
(* A blob is a sequence of cells: a field header, or that piece of a value *)
(* which a decoder takes at once, with its number of bytes.                *)
(***************************************************************************)
EXTENDS Integers, Sequences, SequencesExt

CONSTANTS
  None,
  Zero,       \* the account of twenty zero bytes
  NoAccount   \* noAccount(), 0x00...01

-----------------------------------------------------------------------------
(* The rule                                                                *)

AmountsRead == {"TakerPays", "TakerGets", "LowLimit", "HighLimit"}

\* The accounts that a field of the first level names.
Names(x) ==
  CASE x.t = "ACCOUNT" /\ x.v # "empty" -> {x.v}
    [] x.t = "AMOUNT" /\ x.f \in AmountsRead /\ x.v[1] # "native" -> {x.v[2]} \ {Zero}
    [] x.t = "UINT192" /\ x.f = "MPTokenIssuanceID" -> {x.v} \ {Zero}
    [] OTHER -> {}

getAffectedAccounts(meta) ==
  UNION {UNION {Names(x) : x \in ToSet(n.fields)} :
           n \in {m \in ToSet(meta.nodes) : m.fields # None}}

\* The types of a node's fields.
TypesIn(n) ==
  {x.t : x \in UNION {ToSet(xs) : xs \in {n.fields, n.others} \ {None}}}

-----------------------------------------------------------------------------
(* The serialization                                                       *)

Header(t, f) == <<[t |-> t, f |-> f]>>
Cell(bytes, v) == <<[bytes |-> bytes, v |-> v]>>

Object(f, body) == Header("OBJECT", f) \o body \o Header("OBJECT", "EndMarker")
Array(f, body) == Header("ARRAY", f) \o body \o Header("ARRAY", "EndMarker")

AccountValue(a) == IF a = "empty" THEN Cell(1, 0) ELSE Cell(1, 20) \o Cell(20, a)

\* An amount: its kind, then its issuer.
Amount(v) ==
  CASE v[1] = "native" -> Cell(8, "native")
    [] v[1] = "issued" -> Cell(8, "issued") \o Cell(20, "currency") \o Cell(20, v[2])
    [] v[1] = "mpt"    -> Cell(8, "mpt") \o Cell(1, "rest") \o Cell(24, v[2])

Issue(v) ==
  CASE v[1] = "native" -> Cell(20, Zero)
    [] v[1] = "issued" -> Cell(20, "currency") \o Cell(20, v[2])
    [] v[1] = "mpt"    -> Cell(20, v[2]) \o Cell(20, NoAccount) \o Cell(4, "sequence")

\* The bytes of a value whose type has values of one length only.
Bytes == [UINT64 |-> 8, UINT128 |-> 16, UINT256 |-> 32, UINT8 |-> 1, UINT16 |-> 2, UINT32 |-> 4,
          UINT160 |-> 20, UINT96 |-> 12, UINT192 |-> 24, UINT384 |-> 48, UINT512 |-> 64,
          NUMBER |-> 12, INT32 |-> 4, INT64 |-> 8, CURRENCY |-> 20]

\* A bridge: the door account and the asset on each side.
Bridge(door) == AccountValue(door) \o Issue(<<"native">>) \o AccountValue(door) \o Issue(<<"native">>)

\* A nested object or array holds one account.
Nested(a) == Header("ACCOUNT", "Account") \o AccountValue(a)

Field(x) ==
  CASE x.t = "ACCOUNT" -> Header(x.t, x.f) \o AccountValue(x.v)
    [] x.t = "AMOUNT"  -> Header(x.t, x.f) \o Amount(x.v)
    [] x.t \in DOMAIN Bytes -> Header(x.t, x.f) \o Cell(Bytes[x.t], x.v)
    [] x.t = "ISSUE"   -> Header(x.t, x.f) \o Issue(x.v)
    [] x.t = "OBJECT"  -> Object(x.f, Nested(x.v))
    [] x.t = "ARRAY"   -> Array(x.f, Object("Memo", Nested(x.v)))
    [] x.t = "VL"      -> Header(x.t, x.f) \o Cell(1, 20) \o Cell(20, x.v)
    [] x.t = "VECTOR256" -> Header(x.t, x.f) \o Cell(1, 32) \o Cell(32, "hash")
    [] x.t = "XCHAIN_BRIDGE" -> Header(x.t, x.f) \o Bridge(x.v)

Fields(f, xs) == Object(f, FlattenSeq([k \in DOMAIN xs |-> Field(xs[k])]))

\* Fields come in the order of their types: PreviousFields (6) before
\* FinalFields (7) and NewFields (8).
Node(n) ==
  LET inner == IF n.kind = "CreatedNode" THEN "NewFields" ELSE "FinalFields"
  IN  Object(n.kind,
        Header("UINT16", "LedgerEntryType") \o Cell(2, "type")
          \o (IF n.others = None THEN <<>> ELSE Fields("PreviousFields", n.others))
          \o (IF n.fields = None THEN <<>> ELSE Fields(inner, n.fields)))

serialized(meta) ==
  (IF meta.index = None THEN <<>>
   ELSE Header("UINT32", "TransactionIndex") \o Cell(4, meta.index))
    \o Array("AffectedNodes", FlattenSeq([k \in DOMAIN meta.nodes |-> Node(meta.nodes[k])]))
    \o (IF meta.tail THEN Header("UINT8", "TransactionResult") \o Cell(1, "result") ELSE <<>>)

=============================================================================
