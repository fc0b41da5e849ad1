----------------------------- MODULE IndexQuery -----------------------------
(***************************************************************************)
(* What an index holds and what it answers.  Sink::index_ledger turns the  *)
(* ledgers of a chunk, in the order they are read, into the rows of        *)
(* account_tx and tx_locator; Index::account_tx returns one page of an     *)
(* account's transactions, and the user of xrla-index goes on from the     *)
(* marker each full page prints.  xrla-difftest compares the index with    *)
(* the transaction.db of an xrpld.                                         *)
(*                                                                         *)
(* A transaction is a model value and its metadata, of which the index     *)
(* sees the blob (TxMeta, MetaDecode).  How the index file comes into      *)
(* place is IndexBuild.                                                    *)
(***************************************************************************)
EXTENDS Integers, FiniteSets, SequencesExt

CONSTANTS
  Account, Tx,
  StartLedger, EndLedger,  \* the chunk's header
  MaxTxs,                  \* bound: transactions in a ledger
  Meta,                    \* metadata of transactions
  RichMeta,                \* metadata of the one transaction of a chunk with one
  MaxCompared,             \* bound: transactions of a chunk that is compared
  Limit,                   \* the page sizes asked for
  MaxRows,                 \* bound: rows of full pages, more than an index has
  Zero, NoAccount,         \* see TxMeta
  None

ASSUME QueryAssumption ==
  /\ Zero \in Account
  /\ {StartLedger, EndLedger, MaxTxs, MaxRows} \subseteq Nat /\ StartLedger <= EndLedger
  /\ Limit \subseteq Nat
  /\ None \notin [account : Account, ledger : StartLedger..EndLedger, n : 0..MaxTxs, tx : Tx]

VARIABLES
  chunk,    \* the ledgers read so far, each a sequence of transactions
  indices,  \* the TransactionIndex values of the ledger being read
  rows,     \* the table account_tx
  locator,  \* the table tx_locator
  pc,
  ask,      \* the query: account, min, max, limit, forward
  marker,   \* the last row of the previous page
  got,      \* the rows of all its pages
  xrpld,    \* the database the index is compared with
  verdict,  \* "pass" or "fail"
  refused   \* the metadata that ended the build, and whether the chunk has all of it

vars == <<chunk, indices, rows, locator, pc, ask, marker, got, xrpld, verdict, refused>>
building == <<ask, marker, got, xrpld, verdict>>
index == <<chunk, indices, rows, locator, refused>>

M == INSTANCE TxMeta
D == INSTANCE MetaDecode
T == INSTANCE DiffTest

\* xrpld's rule and its serialization, for the metadata of the chunk.
Affected == [m \in Meta \cup RichMeta |-> M!getAffectedAccounts(m)]
Blob == [m \in Meta \cup RichMeta |-> M!serialized(m)]

\* What the index sees of metadata of which the chunk has len cells only.
Summary ==
  [m \in Meta \cup RichMeta |->
     [len \in 0..Len(Blob[m]) |-> D!summarize_meta(SubSeq(Blob[m], 1, len))]]

Ledger == StartLedger..EndLedger
Index == 0..MaxTxs
Query == [account : Account, min : Ledger, max : Ledger, limit : Limit, forward : BOOLEAN]

\* The ledger being read, or read last.
Current == StartLedger + Len(chunk) - 1

Init ==
  /\ chunk = <<>> /\ indices = <<>>
  /\ rows = {} /\ locator = {}
  /\ pc = "between"
  /\ ask = None /\ marker = None /\ got = <<>>
  /\ xrpld = None /\ verdict = None /\ refused = None

-----------------------------------------------------------------------------
(* Building: Sink::index_ledger                                            *)

BeginLedger ==
  /\ pc = "between" /\ Current < EndLedger
  /\ chunk' = Append(chunk, <<>>)
  /\ indices' = <<>>
  /\ pc' = "ledger"
  /\ UNCHANGED <<rows, locator, refused, building>>

\* The two inserts fail on their primary keys, and abort the build.
KeysFree(t, n, accounts) ==
  /\ \A r \in rows : ~(r.account \in accounts /\ r.ledger = Current /\ r.n = n)
  /\ \A l \in locator : l.tx # t

AddTx(t, m, n, accounts) ==
  /\ KeysFree(t, n, accounts)
  /\ chunk' = [chunk EXCEPT ![Len(chunk)] = Append(@, [tx |-> t, meta |-> m])]
  /\ indices' = Append(indices, n)
  /\ rows' = rows \cup {[account |-> a, ledger |-> Current, n |-> n, tx |-> t] : a \in accounts}
  /\ locator' = locator \cup {[tx |-> t, ledger |-> Current, n |-> n]}
  /\ UNCHANGED <<pc, refused, building>>

\* Metadata that cannot be decoded or has no TransactionIndex: no index.
Refuse(m, len) ==
  /\ refused' = [meta |-> m, whole |-> len = Len(Blob[m])]
  /\ pc' = "failed"
  /\ UNCHANGED <<chunk, indices, rows, locator, building>>

\* One transaction, of whose metadata the chunk has len cells.
IndexTx(t, m, len) ==
  /\ pc = "ledger" /\ Len(indices) < MaxTxs
  /\ \E s \in {Summary[m][len]} :
       IF s.ok /\ s.index # None THEN AddTx(t, m, s.index, s.accounts) ELSE Refuse(m, len)

\* Rich metadata, cut anywhere, is tried in a chunk with no other transaction.
OnlyPlain == \A l \in DOMAIN chunk : \A t \in ToSet(chunk[l]) : t.meta \in Meta

Alone == Len(chunk) = 1 /\ indices = <<>>

Lengths(m) ==
  IF m \in Meta THEN {Len(Blob[m])} ELSE 0..Len(Blob[m])

IndexAnyTx ==
  /\ pc = "ledger" /\ OnlyPlain
  /\ \E t \in Tx, m \in Meta \cup (IF Alone THEN RichMeta ELSE {}) :
       \E len \in Lengths(m) : IndexTx(t, m, len)

\* Mutant: the indices need not start at zero.
ExactInOrder(s) ==
  \E order \in Bijection(DOMAIN s, DOMAIN s) :
    \A i \in 1..Len(s) - 1 : s[order[i + 1]] = s[order[i]] + 1

\* "exactly 0..n within a ledger": sorted, the i-th is i.
Exact(s) ==
  \E order \in Bijection(DOMAIN s, DOMAIN s) : \A i \in DOMAIN s : s[order[i]] = i - 1

FinishLedger ==
  /\ pc = "ledger"
  /\ Exact(indices)
  /\ pc' = "between"
  /\ UNCHANGED <<index, building>>

\* The chunk ends; it has as many ledgers as its header says, and its hash is
\* right.
FinishBuild ==
  /\ pc = "between" /\ Current = EndLedger
  /\ pc' = "built"
  /\ UNCHANGED <<index, building>>

\* A transaction whose blob has another id or whose keys are taken; indices that
\* are not exact; a ledger out of order, one too few, another hash: no index.
Abort ==
  /\ pc \in {"between", "ledger"}
  /\ pc' = "failed"
  /\ UNCHANGED <<index, building>>

-----------------------------------------------------------------------------
(* Querying: Index::account_tx and the command around it                   *)

\* Is <<l1, n1>> before <<l2, n2>> in the direction of the query?
Before(l1, n1, l2, n2) ==
  IF ask.forward THEN l1 < l2 \/ (l1 = l2 /\ n1 < n2)
                 ELSE l1 > l2 \/ (l1 = l2 /\ n1 > n2)

RowBefore(r, s) == Before(r.ledger, r.n, s.ledger, s.n)

\* Mutant: the marker compares the ledgers only.
PastMarkerLedger(r) ==
  marker = None \/ Before(marker.ledger, 0, r.ledger, 0)

\* Mutant: the row of the marker comes again.
FromMarker(r) == marker = None \/ ~RowBefore(r, marker)

PastMarker(r) == marker = None \/ RowBefore(marker, r)

\* WHERE
Matching == {r \in rows : /\ r.account = ask.account /\ r.ledger \in ask.min..ask.max
                         /\ PastMarker(r)}

InOrder(s) == \A i, j \in DOMAIN s : i < j => RowBefore(s[i], s[j])

\* ORDER BY, LIMIT: no row is left out before one that is on the page, and none
\* at all of a page that is not full.
IsPage(page) ==
  /\ InOrder(page)
  /\ \A r \in Matching \ ToSet(page) :
       Len(page) = ask.limit /\ \A i \in DOMAIN page : RowBefore(page[i], r)

Pages == {page \in UNION {[1..n -> Matching] : n \in 0..ask.limit} : IsPage(page)}

\* The commands do not change the index: one query, or one comparison, is as
\* good as many.
Ask(q) ==
  /\ pc = "built"
  /\ ask' = q
  /\ marker' = None /\ got' = <<>>
  /\ pc' = "paging"
  /\ UNCHANGED <<index, xrpld, verdict>>

\* A page as long as the limit prints its last row as the marker of the next;
\* an empty one of limit 0 has no last row, and unwrap() panics.
FullPage ==
  /\ pc = "paging" /\ Len(got) < MaxRows
  /\ \E page \in Pages :
       /\ Len(page) = ask.limit
       /\ got' = got \o page
       /\ IF page = <<>> THEN /\ pc' = "panicked" /\ UNCHANGED marker
                         ELSE /\ marker' = Last(page) /\ UNCHANGED pc
  /\ UNCHANGED <<index, ask, xrpld, verdict>>

LastPage ==
  /\ pc = "paging"
  /\ \E page \in Pages : Len(page) < ask.limit /\ got' = got \o page
  /\ pc' = "answered"
  /\ UNCHANGED <<index, ask, marker, xrpld, verdict>>

-----------------------------------------------------------------------------
(* Comparing: xrla-difftest --index                                        *)

\* The transactions of the chunk, by the ledger they are in.
InLedger(l) == ToSet(chunk[l - StartLedger + 1])

\* What an xrpld has in its tables for a transaction.
TxRow(t, l, m) ==
  [tx |-> t, ledger |-> l, type |-> IF Affected[m] = {} THEN "SetFee" ELSE "Payment",
   meta |-> Blob[m]]
AccountRows(t, m) ==
  {[tx |-> t, account |-> a, n |-> m.index] : a \in Affected[m]}

\* An xrpld that saved the ledgers of the chunk.
Same ==
  [txs  |-> UNION {{TxRow(t.tx, l, t.meta) : t \in InLedger(l)} : l \in Ledger},
   acct |-> UNION {AccountRows(t.tx, t.meta) : t \in UNION {InLedger(l) : l \in Ledger}}]

\* Databases that differ in one place: a row of AccountTransactions too few,
\* too many or with another TxnSeq, a transaction without its rows, in another
\* ledger, with other metadata, not there or there in addition.
Databases ==
  LET Near(db) ==
        {db}
          \cup {[db EXCEPT !.acct = @ \ {r}] : r \in db.acct}
          \cup {[db EXCEPT !.acct = @ \cup {[tx |-> x.tx, account |-> a, n |-> 0]}] :
                   x \in db.txs, a \in Account}
          \cup {[db EXCEPT !.acct = (@ \ {r}) \cup {[r EXCEPT !.n = 1 - @]}] : r \in db.acct}
          \cup {[db EXCEPT !.txs = (@ \ {x}) \cup {[x EXCEPT !.ledger = l]}] :
                   x \in db.txs, l \in Ledger \cup {EndLedger + 1}}
          \cup {[db EXCEPT !.txs = (@ \ {x}) \cup {[x EXCEPT !.meta = Blob[m]]}] :
                   x \in db.txs, m \in Meta}
          \cup {[txs |-> db.txs \ {x}, acct |-> {r \in db.acct : r.tx # x.tx}] : x \in db.txs}
          \cup {[txs |-> db.txs \cup {TxRow(t, l, m)}, acct |-> db.acct \cup AccountRows(t, m)] :
                   t \in Tx \ {x.tx : x \in db.txs}, l \in {EndLedger, EndLedger + 1}, m \in Meta}
  IN  Near(Same)

Compare(db, to, max_empty_ledgers) ==
  /\ xrpld' = [db |-> db, to |-> to, max_empty |-> max_empty_ledgers]
  /\ verdict' = IF T!Passes(db, rows, locator, StartLedger, to, max_empty_ledgers)
                THEN "pass" ELSE "fail"
  /\ pc' = "compared"
  /\ UNCHANGED <<index, ask, marker, got>>

CompareAny ==
  /\ pc = "built" /\ OnlyPlain /\ Cardinality(Same.txs) <= MaxCompared
  /\ \E db \in Databases, to \in StartLedger..EndLedger + 1, max_empty \in 0..1 :
       Compare(db, to, max_empty)

Next ==
  \/ BeginLedger \/ IndexAnyTx \/ FinishLedger \/ FinishBuild \/ Abort
  \/ \E q \in Query : Ask(q)
  \/ FullPage \/ LastPage
  \/ CompareAny

\* The user follows the markers to the end.
Spec == Init /\ [][Next]_vars /\ WF_vars(FullPage \/ LastPage)

-----------------------------------------------------------------------------
(* Properties                                                              *)

Indexed == pc \in {"built", "paging", "answered", "compared"}

\* Metadata the index can be built from: it has a TransactionIndex, and no field
\* of the one type of xrpld's metadata that the decoder does not know
\* (unknown_type_is_an_error_not_a_guess).
Decodable(m) ==
  m.index # None /\ \A n \in ToSet(m.nodes) : "XCHAIN_BRIDGE" \notin M!TypesIn(n)

\* The rows of a transaction name the accounts that xrpld's rule finds in its
\* metadata, no other and none missing, at its TransactionIndex; also if the
\* blob in the chunk ends too early and is indexed all the same.  Metadata with
\* an unknown type anywhere is not indexed ("an error, never silently ignored"),
\* and what the chunk has all of is refused for that or for a missing
\* TransactionIndex only (summarize_meta).
DecodedExact ==
  /\ \A l \in DOMAIN chunk : \A t \in ToSet(chunk[l]) :
       /\ Decodable(t.meta)
       /\ {r \in rows : r.tx = t.tx} =
            {[account |-> a, ledger |-> StartLedger + l - 1, n |-> t.meta.index, tx |-> t.tx] :
               a \in Affected[t.meta]}
  /\ refused # None /\ refused.whole => ~Decodable(refused.meta)

\* tx_locator gives every transaction of the chunk one place: the ledger it is
\* in, and the number of that ledger's transactions applied before it.
LocatorExact ==
  Indexed =>
    \A l \in Ledger : \A t \in InLedger(l) :
      {x \in locator : x.tx = t.tx} =
        {[tx |-> t.tx, ledger |-> l,
          n |-> Cardinality({u \in InLedger(l) : u.meta.index < t.meta.index})]}

\* What the chunk says the query should find.
Wanted ==
  UNION {{[account |-> ask.account, ledger |-> l, n |-> t.meta.index, tx |-> t.tx] :
            t \in {u \in InLedger(l) : ask.account \in Affected[u.meta]}} :
           l \in ask.min..ask.max}

\* "continue exactly after it" (account_tx): what the pages have shown is in
\* order and is of the chunk, nothing they have passed is still to come, and in
\* the end nothing is missing: "An index that silently skipped something would
\* present as 'no matches'" (build_index).
AnswerComplete ==
  pc \in {"paging", "answered"} =>
    /\ \A i, j \in 1..Len(got) : i < j => RowBefore(got[i], got[j])
    /\ ToSet(got) \subseteq Wanted
    /\ \A r \in Wanted \ ToSet(got) : pc = "paging" /\ \A i \in 1..Len(got) : RowBefore(got[i], r)

\* Following the markers comes to an end.
PagingEnds == pc = "paging" ~> pc # "paging"

\* "PASS — every transaction matches xrpld exactly", "the index matches xrpld
\* exactly" (xrla-difftest): then, in the range, the rows of the index are the
\* rows of xrpld's transactions, tx_locator has each of them in its ledger, and
\* no more ledgers than allowed are without transactions.
PassMeansEqual ==
  pc = "compared" /\ verdict = "pass" =>
    LET range == StartLedger..xrpld.to
        txs   == {x \in xrpld.db.txs : x.ledger \in range}
    IN  /\ {r \in rows : r.ledger \in range} =
             UNION {{[account |-> r.account, ledger |-> x.ledger, n |-> r.n, tx |-> x.tx] :
                       r \in {s \in xrpld.db.acct : s.tx = x.tx}} : x \in txs}
        /\ \A x \in txs : \E l \in locator : l.tx = x.tx /\ l.ledger = x.ledger
        /\ Cardinality(range \ {x.ledger : x \in txs}) <= xrpld.max_empty

=============================================================================
