---------------------------- MODULE MCIndexQuery ----------------------------
(***************************************************************************)
(* Metadata for IndexQuery.                                                *)
(***************************************************************************)
EXTENDS IndexQuery

CONSTANT a   \* the account that is not Zero

NodeOf(kind, fields, others) == [kind |-> kind, fields |-> fields, others |-> others]
MetaOf(n, nodes, tail) == [index |-> n, nodes |-> nodes, tail |-> tail]

AccountField(x) == [t |-> "ACCOUNT", f |-> "Account", v |-> x]
LimitOf(x) == [t |-> "AMOUNT", f |-> "LowLimit", v |-> <<"issued", x>>]

\* An account field per account that is affected.
MCMeta ==
  {MetaOf(n, [k \in DOMAIN SetToSeq(accounts) |->
                NodeOf("ModifiedNode", <<AccountField(SetToSeq(accounts)[k])>>, None)], TRUE) :
     n \in Index, accounts \in SUBSET Account}

\* What the rule tells apart: a field that names an account or could be taken
\* to.
RichFields ==
  {AccountField(x) : x \in {a, Zero, "empty"}}
  \cup {[t |-> "AMOUNT", f |-> "LowLimit", v |-> v] :
          v \in {<<"native">>, <<"issued", a>>, <<"issued", Zero>>, <<"mpt", a>>, <<"mpt", Zero>>}}
  \cup {[t |-> "AMOUNT", f |-> "Balance", v |-> v] : v \in {<<"native">>, <<"issued", a>>, <<"mpt", a>>}}
  \cup {[t |-> "UINT192", f |-> f, v |-> x] : f \in {"MPTokenIssuanceID", "ShareMPTID"}, x \in {a, Zero}}
  \cup {[t |-> "ISSUE", f |-> "Asset", v |-> v] : v \in {<<"native">>, <<"issued", a>>, <<"mpt", a>>}}
  \cup {[t |-> t, f |-> "Other", v |-> a] : t \in {"OBJECT", "ARRAY", "VL", "UINT160"}}

\* A field of every other type, of which a bridge is the one that is refused.
Bridge == [t |-> "XCHAIN_BRIDGE", f |-> "XChainBridge", v |-> a]
OtherFields ==
  {[t |-> t, f |-> "Other", v |-> a] : t \in DOMAIN M!Bytes \cup {"VECTOR256"}} \cup {Bridge}

Others == {None, <<LimitOf(a)>>}
NodeKinds == {"CreatedNode", "ModifiedNode", "DeletedNode"}

\* One or two fields in a node, or one in each of two, next to PreviousFields or
\* not; the other types before an account, in either place; no AffectedNodes to
\* speak of, no TransactionIndex, no last field.
MCRichMeta ==
  {MetaOf(0, <<NodeOf(kind, <<x>>, others)>>, tail) :
     kind \in NodeKinds, x \in RichFields, others \in Others, tail \in BOOLEAN}
  \cup {MetaOf(0, <<NodeOf("ModifiedNode", <<x, y>>, None)>>, TRUE) : x \in RichFields, y \in RichFields}
  \cup {MetaOf(0, <<NodeOf(kind, None, <<LimitOf(a)>>), NodeOf("CreatedNode", <<x>>, None)>>, TRUE) :
          kind \in NodeKinds, x \in RichFields}
  \cup {MetaOf(0, <<NodeOf(kind, <<x, AccountField(a)>>, None)>>, TRUE) :
          kind \in NodeKinds, x \in OtherFields}
  \cup {MetaOf(0, <<NodeOf("ModifiedNode", <<AccountField(a)>>, <<x>>)>>, TRUE) : x \in OtherFields}
  \cup {MetaOf(n, nodes, TRUE) : n \in {None, 0}, nodes \in {<<>>, <<NodeOf("DeletedNode", None, None)>>}}

=============================================================================
