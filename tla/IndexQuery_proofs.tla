-------------------------- MODULE IndexQuery_proofs --------------------------
(***************************************************************************)
(* Proofs about IndexQuery, for chunks of any size, any metadata and any   *)
(* page size.                                                              *)
(*                                                                         *)
(* RowsInv and VerdictInv are about the tables alone: PASS means equal     *)
(* whatever the decoder does.  IndexInv and PagingInv, and with them what  *)
(* the tables and the pages say of the chunk, rest on DecoderExact.        *)
(***************************************************************************)
EXTENDS IndexQuery, FiniteSetTheorems, FunctionTheorems, TLAPS

-----------------------------------------------------------------------------
(* What two tables and a verdict say together                              *)

\* A row has the columns of account_tx, its transaction is in tx_locator, and
\* all rows of a transaction have one ledger and one TransactionIndex.
RowsInv ==
  /\ \A r \in rows : r = [account |-> r.account, ledger |-> r.ledger, n |-> r.n, tx |-> r.tx]
  /\ \A r \in rows : \E l \in locator : l.tx = r.tx
  /\ \A r, s \in rows : r.tx = s.tx => r.ledger = s.ledger /\ r.n = s.n

\* The verdict was reached on the tables as they are.
VerdictInv ==
  pc = "compared" =>
    /\ xrpld.to \in Int /\ xrpld.max_empty \in Int
    /\ verdict = "pass" =>
         T!Passes(xrpld.db, rows, locator, StartLedger, xrpld.to, xrpld.max_empty)

\* An inserted transaction is new to both tables.
LEMMA AddTxKeepsRows ==
  ASSUME RowsInv, NEW t, NEW m, NEW n, NEW accounts, AddTx(t, m, n, accounts)
  PROVE  RowsInv'
<1>1. \A l \in locator : l.tx # t
  BY DEF AddTx, KeysFree
<1>2. DEFINE new == {[account |-> a, ledger |-> Current, n |-> n, tx |-> t] : a \in accounts}
<1>3. rows' = rows \cup new /\ locator' = locator \cup {[tx |-> t, ledger |-> Current, n |-> n]}
  BY DEF AddTx
<1>4. \A r \in rows : r.tx # t
  BY <1>1 DEF RowsInv
<1>5. \A r \in new : /\ r = [account |-> r.account, ledger |-> r.ledger, n |-> r.n, tx |-> r.tx]
                     /\ r.tx = t /\ r.ledger = Current /\ r.n = n
  OBVIOUS
<1> HIDE DEF new
<1>6. \E l \in locator' : l.tx = t
  <2>1. [tx |-> t, ledger |-> Current, n |-> n] \in locator'
    BY <1>3, Zenon
  <2> QED
    BY <2>1
<1>7. \A r \in rows' : r = [account |-> r.account, ledger |-> r.ledger, n |-> r.n, tx |-> r.tx]
  BY <1>3, <1>5, Zenon DEF RowsInv
<1>8. \A r \in rows' : \E l \in locator' : l.tx = r.tx
  BY <1>3, <1>5, <1>6, Zenon DEF RowsInv
<1>9. \A r, s \in rows' : r.tx = s.tx => r.ledger = s.ledger /\ r.n = s.n
  BY <1>3, <1>4, <1>5, Zenon DEF RowsInv
<1> QED
  BY <1>7, <1>8, <1>9 DEF RowsInv

LEMMA RowsCorrect == Spec => []RowsInv
<1>1. Init => RowsInv
  BY DEF Init, RowsInv
<1>2. RowsInv /\ [Next]_vars => RowsInv'
  <2> SUFFICES ASSUME RowsInv, [Next]_vars PROVE RowsInv'
    OBVIOUS
  <2>1. CASE UNCHANGED <<rows, locator>>
    BY <2>1 DEF RowsInv
  <2>2. CASE IndexAnyTx
    <3>1. PICK t, m, len : IndexTx(t, m, len)
      BY <2>2 DEF IndexAnyTx
    <3>2. \/ \E n, accounts : AddTx(t, m, n, accounts)
          \/ UNCHANGED <<rows, locator>>
      BY <3>1 DEF IndexTx, Refuse
    <3> QED
      BY <2>1, <3>2, AddTxKeepsRows
  <2> QED
    BY <2>1, <2>2 DEF Next, vars, index, BeginLedger, FinishLedger, FinishBuild, Abort, Ask,
       FullPage, LastPage, CompareAny, Compare
<1> QED
  BY <1>1, <1>2, PTL DEF Spec

LEMMA VerdictCorrect == Spec => []VerdictInv
<1>1. Init => VerdictInv
  BY DEF Init, VerdictInv
<1>2. VerdictInv /\ [Next]_vars => VerdictInv'
  <2> SUFFICES ASSUME VerdictInv, [Next]_vars PROVE VerdictInv'
    OBVIOUS
  <2>1. CASE UNCHANGED vars
    BY <2>1 DEF VerdictInv, vars
  <2>2. CASE CompareAny
    <3>1. PICK db \in Databases, to \in StartLedger..EndLedger + 1, max_empty \in 0..1 :
            Compare(db, to, max_empty)
      BY <2>2 DEF CompareAny
    <3>2. /\ xrpld' = [db |-> db, to |-> to, max_empty |-> max_empty]
          /\ verdict' = IF T!Passes(db, rows, locator, StartLedger, to, max_empty)
                        THEN "pass" ELSE "fail"
          /\ rows' = rows /\ locator' = locator
      BY <3>1 DEF Compare, index
    <3>3. xrpld'.db = db /\ xrpld'.to = to /\ xrpld'.max_empty = max_empty
      BY <3>2
    <3>4. to \in Int /\ max_empty \in Int
      BY QueryAssumption
    <3>5. verdict' = "pass" => T!Passes(db, rows, locator, StartLedger, to, max_empty)
      BY <3>2
    <3>6. verdict' = "pass" =>
            T!Passes(xrpld'.db, rows', locator', StartLedger, xrpld'.to, xrpld'.max_empty)
      BY <3>2, <3>3, <3>5
    <3> QED
      BY <3>3, <3>4, <3>6 DEF VerdictInv
  <2>3. CASE pc' # "compared"
    BY <2>3 DEF VerdictInv
  <2>4. Next => CompareAny \/ pc' # "compared"
    BY DEF Next, BeginLedger, IndexAnyTx, IndexTx, AddTx, Refuse, FinishLedger, FinishBuild,
       Abort, Ask, FullPage, LastPage
  <2> QED
    BY <2>1, <2>2, <2>3, <2>4
<1> QED
  BY <1>1, <1>2, PTL DEF Spec

\* The index has the rows of a transaction of an xrpld, and no others.
TxEqual(db, x, range) ==
  /\ \A r \in rows : r.ledger \in range /\ r.tx = x.tx =>
       /\ r.ledger = x.ledger
       /\ \E s \in db.acct : s.tx = x.tx /\ s.account = r.account /\ s.n = r.n
  /\ \A s \in db.acct : s.tx = x.tx =>
       \E r \in rows : /\ r.ledger = x.ledger /\ r.tx = x.tx
                       /\ r.account = s.account /\ r.n = s.n
  /\ \E l \in locator : l.tx = x.tx /\ l.ledger = x.ledger

\* That is what compare_index and the comparison of the decoder come to.
LEMMA PassedTx ==
  ASSUME NEW db, NEW to, NEW max, NEW x \in db.txs, x.ledger \in StartLedger..to,
         T!Passes(db, rows, locator, StartLedger, to, max), RowsInv
  PROVE  TxEqual(db, x, StartLedger..to)
<1> DEFINE by_tx    == {r \in rows : r.ledger \in StartLedger..to}
           accounts == {r.account : r \in {s \in by_tx : s.tx = x.tx}}
           truth    == {r.account : r \in {s \in db.acct : s.tx = x.tx}}
           numbers  == {r.n : r \in {s \in db.acct : s.tx = x.tx}}
           e        == CHOOSE r \in by_tx : r.tx = x.tx
<1>1. x \in T!InRange(db, StartLedger, to)
  BY DEF T!InRange
<1>2. /\ IF accounts = {}
         THEN truth = {}
         ELSE /\ accounts = truth
              /\ truth # {} => e.n \in numbers
              /\ e.ledger = x.ledger
      /\ \E l \in locator : l.tx = x.tx /\ l.ledger = x.ledger
  BY <1>1, Zenon DEF T!Passes, T!compare_index, T!truth, T!truth_txnseq, T!entry
<1>3. truth # {} => \E n : numbers = {n}
  BY <1>1, Zenon DEF T!Passes, T!RuleOk, T!truth, T!truth_txnseq
<1>4. accounts = truth
  BY <1>2
<1>5. ASSUME NEW r \in by_tx, r.tx = x.tx
      PROVE  r.ledger = x.ledger /\ r.n \in numbers
  <2>1. r.account \in accounts
    BY <1>5
  <2>2. e \in by_tx /\ e.tx = x.tx
    BY <1>5, Zenon
  <2>3. r.ledger = e.ledger /\ r.n = e.n
    BY <1>5, <2>2 DEF RowsInv
  <2> QED
    BY <1>2, <2>1, <2>3
<1>6. ASSUME NEW r \in by_tx, r.tx = x.tx, NEW s \in db.acct, s.tx = x.tx
      PROVE  s.n = r.n
  <2>1. s.n \in numbers /\ s.account \in truth
    BY <1>6
  <2>2. r.n \in numbers
    BY <1>5, <1>6
  <2> QED
    BY <1>3, <2>1, <2>2
<1>7. ASSUME NEW r \in by_tx, r.tx = x.tx
      PROVE  \E s \in db.acct : s.tx = x.tx /\ s.account = r.account /\ s.n = r.n
  <2>1. r.account \in truth
    BY <1>4, <1>7
  <2>2. PICK s \in db.acct : s.tx = x.tx /\ s.account = r.account
    BY <2>1
  <2> QED
    BY <1>6, <1>7, <2>2
<1>8. ASSUME NEW s \in db.acct, s.tx = x.tx
      PROVE  \E r \in by_tx : /\ r.ledger = x.ledger /\ r.tx = x.tx
                              /\ r.account = s.account /\ r.n = s.n
  <2>1. s.account \in accounts
    BY <1>4, <1>8
  <2>2. PICK r \in by_tx : r.tx = x.tx /\ r.account = s.account
    BY <2>1
  <2> QED
    BY <1>5, <1>6, <1>8, <2>2
<1> QED
  BY <1>2, <1>5, <1>7, <1>8 DEF TxEqual

\* DiffTest has an instance of FiniteSets of its own.
LEMMA SameCardinality == ASSUME NEW S PROVE T!Cardinality(S) = Cardinality(S)
  BY DEF T!Cardinality, Cardinality

\* The number of ledgers without a transaction is the difference that
\* incomplete_range takes.
LEMMA EmptyLedgers ==
  ASSUME NEW db, NEW to \in Int, NEW max \in Int,
         ~T!incomplete_range(db, StartLedger, to, max)
  PROVE  LET range == StartLedger..to
         IN  Cardinality(range \ {x.ledger : x \in {y \in db.txs : y.ledger \in range}}) <= max
<1> DEFINE range == StartLedger..to
           full  == {x.ledger : x \in {y \in db.txs : y.ledger \in range}}
<1>1. IsFiniteSet(range)
  BY FS_Interval, QueryAssumption
<1>2. full \subseteq range
  OBVIOUS
<1>3. Cardinality(range) - Cardinality(full) <= max
  <2>1. ~(Cardinality(range) - Cardinality(full) > max)
    <3>1. full = {x.ledger : x \in T!InRange(db, StartLedger, to)}
      BY DEF T!InRange
    <3>2. ~(T!Cardinality(range) - T!Cardinality({x.ledger : x \in T!InRange(db, StartLedger, to)})
              > max)
      BY DEF T!incomplete_range
    <3> HIDE DEF range, full
    <3> QED
      BY <3>1, <3>2, SameCardinality
  <2>2. Cardinality(range) \in Nat /\ Cardinality(full) \in Nat
    BY <1>1, <1>2, FS_CardinalityType, FS_Subset
  <2> QED
    BY <2>1, <2>2
<1> HIDE DEF range, full
<1>4. Cardinality(range \ full) = Cardinality(range) - Cardinality(range \cap full)
  BY <1>1, FS_Difference
<1>5. range \cap full = full
  BY <1>2
<1> QED
  BY <1>3, <1>4, <1>5 DEF range, full

\* PassMeansEqual, of any database that is compared, any range and any bound on
\* the empty ledgers: when xrla-difftest prints PASS, the index has in the range
\* exactly xrpld's rows, and every one of xrpld's transactions in its ledger.
THEOREM PassIsEqual == Spec => []PassMeansEqual
<1>1. RowsInv /\ VerdictInv => PassMeansEqual
  <2> SUFFICES ASSUME RowsInv, VerdictInv, pc = "compared", verdict = "pass"
               PROVE  LET range == StartLedger..xrpld.to
                          txs   == {x \in xrpld.db.txs : x.ledger \in range}
                      IN  /\ {r \in rows : r.ledger \in range} =
                               UNION {{[account |-> r.account, ledger |-> x.ledger,
                                        n |-> r.n, tx |-> x.tx] :
                                         r \in {s \in xrpld.db.acct : s.tx = x.tx}} : x \in txs}
                          /\ \A x \in txs : \E l \in locator : l.tx = x.tx /\ l.ledger = x.ledger
                          /\ Cardinality(range \ {x.ledger : x \in txs}) <= xrpld.max_empty
    BY DEF PassMeansEqual
  <2>1. PICK db : db = xrpld.db
    OBVIOUS
  <2>2. PICK to \in Int : to = xrpld.to
    BY DEF VerdictInv
  <2>3. PICK max \in Int : max = xrpld.max_empty
    BY DEF VerdictInv
  <2>4. T!Passes(db, rows, locator, StartLedger, to, max)
    BY <2>1, <2>2, <2>3 DEF VerdictInv
  <2> DEFINE range == StartLedger..to
             txs   == {x \in db.txs : x.ledger \in range}
             Theirs(x) == {[account |-> r.account, ledger |-> x.ledger, n |-> r.n, tx |-> x.tx] :
                             r \in {s \in db.acct : s.tx = x.tx}}
  <2>5. \A x \in txs : TxEqual(db, x, range)
    BY <2>4, PassedTx, Zenon
  <2>6. Cardinality(range \ {x.ledger : x \in txs}) <= max
    BY <2>4, EmptyLedgers DEF T!Passes
  <2>7. ASSUME NEW r \in rows, r.ledger \in range
        PROVE  \E x \in txs : r \in Theirs(x)
    <3>1. \E x \in T!InRange(db, StartLedger, to) : x.tx = r.tx
      BY <2>4, <2>7 DEF T!Passes, T!compare_index
    <3>2. PICK x \in txs : x.tx = r.tx
      BY <3>1 DEF T!InRange
    <3>3. PICK s \in db.acct : s.tx = x.tx /\ s.account = r.account /\ s.n = r.n
      BY <2>5, <2>7, <3>2 DEF TxEqual
    <3>4. r.ledger = x.ledger
      BY <2>5, <2>7, <3>2 DEF TxEqual
    <3>5. r = [account |-> s.account, ledger |-> x.ledger, n |-> s.n, tx |-> x.tx]
      BY <3>2, <3>3, <3>4 DEF RowsInv
    <3> QED
      BY <3>3, <3>5
  <2>8. ASSUME NEW x \in txs, NEW q \in Theirs(x)
        PROVE  q \in rows /\ q.ledger \in range
    <3>1. PICK s \in db.acct :
            /\ s.tx = x.tx
            /\ q = [account |-> s.account, ledger |-> x.ledger, n |-> s.n, tx |-> x.tx]
      BY <2>8
    <3>2. PICK r \in rows : /\ r.ledger = x.ledger /\ r.tx = x.tx
                            /\ r.account = s.account /\ r.n = s.n
      BY <2>5, <3>1 DEF TxEqual
    <3>3. q = r
      BY <3>1, <3>2 DEF RowsInv
    <3> QED
      BY <3>2, <3>3
  <2>9. {r \in rows : r.ledger \in range} = UNION {Theirs(x) : x \in txs}
    <3> HIDE DEF range, txs, Theirs
    <3>1. \A q : q \in {r \in rows : r.ledger \in range} <=> \E x \in txs : q \in Theirs(x)
      BY <2>7, <2>8
    <3> QED
      BY <3>1
  <2> QED
    <3>1. \A x \in txs : \E l \in locator : l.tx = x.tx /\ l.ledger = x.ledger
      BY <2>5 DEF TxEqual
    <3> QED
      BY <2>1, <2>2, <2>3, <2>6, <2>9, <3>1
<1> QED
  BY <1>1, RowsCorrect, VerdictCorrect, PTL

-----------------------------------------------------------------------------
(* The chunk and the tables                                                *)

\* The decoder reads xrpld's metadata the way xrpld does.  What summarize_meta
\* computes is a recursion over the blob, which is for TLC: the first conjunct
\* says that a blob, cut anywhere or not, that gives an index gives the right
\* one and the right accounts, and is of metadata with known types only; the
\* second that such metadata is not refused if all of it is there.
Readable(m, len) == Summary[m][len].ok /\ Summary[m][len].index # None

DecoderExact ==
  \A m \in Meta \cup RichMeta :
    /\ \A len \in Lengths(m) :
         Readable(m, len) => /\ Decodable(m)
                             /\ Summary[m][len].index = m.index
                             /\ Summary[m][len].accounts = Affected[m]
    /\ Decodable(m) => Readable(m, Len(Blob[m]))

Txn == [tx : Tx, meta : Meta \cup RichMeta]

\* The TransactionIndex values of a ledger, in the order of its transactions.
Applied(ledger) == [i \in DOMAIN ledger |-> ledger[i].meta.index]

\* While a ledger is read, its indices are those inserted; every other ledger
\* has passed Exact, and a chunk is indexed when it has all its ledgers.
ChunkInv ==
  /\ chunk \in Seq(Seq(Txn)) /\ Len(chunk) <= EndLedger - StartLedger + 1
  /\ \A k \in DOMAIN chunk : Len(chunk[k]) <= MaxTxs
  /\ pc = "ledger" => chunk # <<>> /\ indices = Applied(chunk[Len(chunk)])
  /\ \A k \in DOMAIN chunk :
       Exact(Applied(chunk[k])) \/ (k = Len(chunk) /\ pc \in {"ledger", "failed"})
  /\ Indexed => Len(chunk) = EndLedger - StartLedger + 1

\* A transaction comes once in a chunk.
OnceInv ==
  \A k, l \in DOMAIN chunk : \A i \in DOMAIN chunk[k], j \in DOMAIN chunk[l] :
    chunk[k][i].tx = chunk[l][j].tx => k = l /\ i = j

\* The rows of transaction t of the k-th ledger.
LocatorRow(k, t) == [tx |-> t.tx, ledger |-> StartLedger + k - 1, n |-> t.meta.index]
AccountRow(a, k, t) ==
  [account |-> a, ledger |-> StartLedger + k - 1, n |-> t.meta.index, tx |-> t.tx]

\* The tables have the rows of the transactions of the chunk and no others.
TablesInv ==
  /\ \A k \in DOMAIN chunk : \A i \in DOMAIN chunk[k] :
       /\ Decodable(chunk[k][i].meta)
       /\ LocatorRow(k, chunk[k][i]) \in locator
       /\ \A a \in Affected[chunk[k][i].meta] : AccountRow(a, k, chunk[k][i]) \in rows
  /\ \A x \in locator : \E k \in DOMAIN chunk : \E i \in DOMAIN chunk[k] :
       x = LocatorRow(k, chunk[k][i])
  /\ \A r \in rows : \E k \in DOMAIN chunk : \E i \in DOMAIN chunk[k] :
       \E a \in Affected[chunk[k][i].meta] : r = AccountRow(a, k, chunk[k][i])

\* What was refused cannot be decoded, or is cut.
RefusedInv == refused # None /\ refused.whole => ~Decodable(refused.meta)

IndexInv == ChunkInv /\ OnceInv /\ TablesInv /\ RefusedInv

-----------------------------------------------------------------------------
(* Paging                                                                  *)

\* The rows a query is about.
Asked == {r \in rows : r.account = ask.account /\ r.ledger \in ask.min..ask.max}

\* The pages are an initial part of them, up to the marker.
PagingInv ==
  pc \in {"paging", "answered"} =>
    /\ ask \in Query
    /\ got \in Seq(Asked) /\ InOrder(got)
    /\ \A r \in Asked \ ToSet(got) : pc = "paging" /\ \A i \in DOMAIN got : RowBefore(got[i], r)
    /\ pc = "paging" => IF marker = None THEN got = <<>> ELSE got # <<>> /\ marker = Last(got)

-----------------------------------------------------------------------------
(* Reading a chunk                                                         *)

\* d is c with x at the end of its last ledger.
Extended(d, c, x) ==
  /\ d \in Seq(Seq(Txn)) /\ Len(d) = Len(c)
  /\ \A k \in DOMAIN c : k # Len(c) => d[k] = c[k]
  /\ d[Len(c)] = Append(c[Len(c)], x)

LEMMA ExtendedChunk ==
  ASSUME NEW c \in Seq(Seq(Txn)), c # <<>>, NEW x \in Txn, NEW d,
         d = [c EXCEPT ![Len(c)] = Append(@, x)]
  PROVE  Extended(d, c, x)
<1>1. Len(c) \in DOMAIN c /\ c[Len(c)] \in Seq(Txn)
  OBVIOUS
<1>2. Append(c[Len(c)], x) \in Seq(Txn)
  BY <1>1
<1>3. d \in Seq(Seq(Txn)) /\ Len(d) = Len(c)
  BY <1>1, <1>2
<1> QED
  BY <1>1, <1>3 DEF Extended

\* Its places are those of c and one for x.
LEMMA ExtendedPlaces ==
  ASSUME NEW c \in Seq(Seq(Txn)), c # <<>>, NEW x, NEW d, Extended(d, c, x)
  PROVE  /\ \A k \in DOMAIN c : \A i \in DOMAIN c[k] :
              k \in DOMAIN d /\ i \in DOMAIN d[k] /\ d[k][i] = c[k][i]
         /\ \E i \in DOMAIN d[Len(c)] : Len(c) \in DOMAIN d /\ d[Len(c)][i] = x
         /\ \A k \in DOMAIN d : \A i \in DOMAIN d[k] :
              \/ k \in DOMAIN c /\ i \in DOMAIN c[k] /\ d[k][i] = c[k][i]
              \/ k = Len(c) /\ i = Len(c[Len(c)]) + 1 /\ d[k][i] = x
<1>1. DOMAIN d = DOMAIN c /\ Len(c) \in DOMAIN c
  BY DEF Extended
<1>2. PICK s \in Seq(Txn) : s = c[Len(c)]
  BY <1>1
<1>3. /\ DOMAIN s = 1..Len(s) /\ DOMAIN Append(s, x) = 1..Len(s) + 1 /\ Len(s) \in Nat
      /\ \A i \in 1..Len(s) : Append(s, x)[i] = s[i]
      /\ Append(s, x)[Len(s) + 1] = x
  OBVIOUS
<1>4. \A i : i \in 1..Len(s) + 1 <=> i \in 1..Len(s) \/ i = Len(s) + 1
  BY <1>3
<1>5. d[Len(c)] = Append(s, x) /\ \A k \in DOMAIN c : k # Len(c) => d[k] = c[k]
  BY <1>2 DEF Extended
<1>6. ASSUME NEW k \in DOMAIN c, NEW i \in DOMAIN c[k]
      PROVE  k \in DOMAIN d /\ i \in DOMAIN d[k] /\ d[k][i] = c[k][i]
  BY <1>1, <1>2, <1>3, <1>4, <1>5, <1>6
<1>7. ASSUME NEW k \in DOMAIN d, NEW i \in DOMAIN d[k]
      PROVE  \/ k \in DOMAIN c /\ i \in DOMAIN c[k] /\ d[k][i] = c[k][i]
             \/ k = Len(c) /\ i = Len(c[Len(c)]) + 1 /\ d[k][i] = x
  BY <1>1, <1>2, <1>3, <1>4, <1>5, <1>7
<1>8. \E i \in DOMAIN d[Len(c)] : Len(c) \in DOMAIN d /\ d[Len(c)][i] = x
  <2>1. Len(s) + 1 \in DOMAIN d[Len(c)]
    BY <1>3, <1>4, <1>5
  <2> QED
    BY <1>1, <1>3, <1>5, <2>1
<1> QED
  BY <1>6, <1>7, <1>8

LEMMA AppliedLength ==
  ASSUME NEW s \in Seq(Txn)
  PROVE  /\ Applied(s) \in Seq({x.meta.index : x \in Txn})
         /\ Len(Applied(s)) = Len(s) /\ DOMAIN Applied(s) = DOMAIN s
<1>1. Applied(s) = [i \in 1..Len(s) |-> s[i].meta.index] /\ Len(s) \in Nat
  BY DEF Applied
<1>2. \A i \in 1..Len(s) : s[i].meta.index \in {x.meta.index : x \in Txn}
  OBVIOUS
<1> QED
  BY <1>1, <1>2

LEMMA AppliedEmpty == Applied(<<>>) = <<>>
<1>1. <<>> \in Seq(Txn) /\ Len(<<>>) = 0
  OBVIOUS
<1>2. Len(Applied(<<>>)) = 0 /\ Applied(<<>>) \in Seq({x.meta.index : x \in Txn})
  BY <1>1, AppliedLength
<1> QED
  BY <1>2

LEMMA AppliedAppend ==
  ASSUME NEW s \in Seq(Txn), NEW x \in Txn
  PROVE  Applied(Append(s, x)) = Append(Applied(s), x.meta.index)
<1> DEFINE N == {y.meta.index : y \in Txn}
<1>1. Append(s, x) \in Seq(Txn) /\ Len(Append(s, x)) = Len(s) + 1 /\ Len(s) \in Nat
  OBVIOUS
<1>2. /\ Applied(Append(s, x)) \in Seq(N) /\ Len(Applied(Append(s, x))) = Len(s) + 1
      /\ Applied(s) \in Seq(N) /\ Len(Applied(s)) = Len(s)
  BY <1>1, AppliedLength
<1>3. x.meta.index \in N
  OBVIOUS
<1>4. /\ Append(Applied(s), x.meta.index) \in Seq(N)
      /\ Len(Append(Applied(s), x.meta.index)) = Len(s) + 1
      /\ \A i \in 1..Len(s) : Append(Applied(s), x.meta.index)[i] = Applied(s)[i]
      /\ Append(Applied(s), x.meta.index)[Len(s) + 1] = x.meta.index
  <2> HIDE DEF N
  <2> QED
    BY <1>2, <1>3
<1>5. ASSUME NEW i \in 1..Len(s) + 1
      PROVE  Applied(Append(s, x))[i] = Append(Applied(s), x.meta.index)[i]
  <2>1. Applied(Append(s, x))[i] = Append(s, x)[i].meta.index
    BY <1>1, <1>5 DEF Applied
  <2>2. CASE i \in 1..Len(s)
    <3>1. Append(s, x)[i] = s[i]
      BY <2>2
    <3>2. Applied(s)[i] = s[i].meta.index
      BY <2>2 DEF Applied
    <3> QED
      BY <1>4, <2>1, <2>2, <3>1, <3>2
  <2>3. CASE i = Len(s) + 1
    <3>1. Append(s, x)[i] = x
      BY <2>3
    <3> QED
      BY <1>4, <2>1, <2>3, <3>1
  <2>4. i \in 1..Len(s) \/ i = Len(s) + 1
    BY <1>1, <1>5
  <2> QED
    BY <2>2, <2>3, <2>4
<1>6. \A u, v : /\ u \in Seq(N) /\ v \in Seq(N) /\ Len(u) = Len(s) + 1 /\ Len(v) = Len(s) + 1
                /\ \A i \in 1..Len(s) + 1 : u[i] = v[i]
                => u = v
  BY <1>1
<1> QED
  BY <1>2, <1>4, <1>5, <1>6

LEMMA InitIndex == Init => IndexInv
<1> SUFFICES ASSUME Init PROVE IndexInv
  OBVIOUS
<1>1. chunk = <<>> /\ rows = {} /\ locator = {} /\ pc = "between" /\ refused = None
  BY DEF Init
<1>2. DOMAIN chunk = {} /\ chunk \in Seq(Seq(Txn)) /\ Len(chunk) = 0
  BY <1>1
<1>3. EndLedger - StartLedger + 1 \in Nat
  BY QueryAssumption
<1>4. ChunkInv
  BY <1>1, <1>2, <1>3 DEF ChunkInv, Indexed
<1> QED
  BY <1>1, <1>2, <1>4 DEF IndexInv, OnceInv, TablesInv, RefusedInv

LEMMA BeginLedgerKeepsIndex ==
  ASSUME IndexInv, BeginLedger
  PROVE  IndexInv'
<1>1. /\ pc = "between" /\ Current < EndLedger
      /\ chunk' = Append(chunk, <<>>) /\ indices' = <<>> /\ pc' = "ledger"
      /\ rows' = rows /\ locator' = locator /\ refused' = refused
  BY DEF BeginLedger
<1>2. chunk \in Seq(Seq(Txn))
  BY DEF IndexInv, ChunkInv
<1>3. /\ chunk' \in Seq(Seq(Txn)) /\ Len(chunk') = Len(chunk) + 1 /\ Len(chunk) \in Nat
      /\ DOMAIN chunk = 1..Len(chunk) /\ DOMAIN chunk' = 1..Len(chunk')
      /\ chunk'[Len(chunk')] = <<>>
      /\ \A k \in DOMAIN chunk : k \in DOMAIN chunk' /\ chunk'[k] = chunk[k]
  <2>1. <<>> \in Seq(Txn)
    OBVIOUS
  <2> QED
    BY <1>1, <1>2, <2>1
<1>4. \A k \in DOMAIN chunk' : k \in DOMAIN chunk \/ k = Len(chunk')
  BY <1>3
<1>5. \A k \in DOMAIN chunk' : \A i \in DOMAIN chunk'[k] : k \in DOMAIN chunk
  BY <1>3, <1>4
<1>6. ChunkInv'
  <2>1. Len(chunk') <= EndLedger - StartLedger + 1
    BY <1>1, <1>3, QueryAssumption DEF Current
  <2>2. \A k \in DOMAIN chunk' : Len(chunk'[k]) <= MaxTxs
    <3>1. Len(<<>>) <= MaxTxs
      BY QueryAssumption
    <3> QED
      BY <1>3, <1>4, <3>1 DEF IndexInv, ChunkInv
  <2>3. chunk' # <<>> /\ indices' = Applied(chunk'[Len(chunk')])
    BY <1>1, <1>3, AppliedEmpty
  <2>4. \A k \in DOMAIN chunk' : Exact(Applied(chunk'[k])) \/ k = Len(chunk')
    <3>1. \A k \in DOMAIN chunk : Exact(Applied(chunk[k]))
      BY <1>1 DEF IndexInv, ChunkInv
    <3> QED
      BY <1>3, <1>4, <3>1
  <2> QED
    BY <1>1, <1>3, <2>1, <2>2, <2>3, <2>4 DEF ChunkInv, Indexed
<1>7. OnceInv'
  BY <1>3, <1>5 DEF IndexInv, OnceInv
<1>8. TablesInv'
  <2>1. TablesInv
    BY DEF IndexInv
  <2>2. \A k \in DOMAIN chunk' : \A i \in DOMAIN chunk'[k] :
          /\ Decodable(chunk'[k][i].meta)
          /\ LocatorRow(k, chunk'[k][i]) \in locator'
          /\ \A a \in Affected[chunk'[k][i].meta] : AccountRow(a, k, chunk'[k][i]) \in rows'
    BY <1>1, <1>3, <1>5, <2>1 DEF TablesInv
  <2>3. \A x \in locator' : \E k \in DOMAIN chunk' : \E i \in DOMAIN chunk'[k] :
          x = LocatorRow(k, chunk'[k][i])
    BY <1>1, <1>3, <2>1 DEF TablesInv
  <2>4. \A r \in rows' : \E k \in DOMAIN chunk' : \E i \in DOMAIN chunk'[k] :
          \E a \in Affected[chunk'[k][i].meta] : r = AccountRow(a, k, chunk'[k][i])
    <3> SUFFICES ASSUME NEW r \in rows
                 PROVE  \E k \in DOMAIN chunk' : \E i \in DOMAIN chunk'[k] :
                          \E a \in Affected[chunk'[k][i].meta] : r = AccountRow(a, k, chunk'[k][i])
      BY <1>1
    <3>1. PICK k \in DOMAIN chunk : \E i \in DOMAIN chunk[k] :
            \E a \in Affected[chunk[k][i].meta] : r = AccountRow(a, k, chunk[k][i])
      BY <2>1 DEF TablesInv
    <3> QED
      BY <1>3, <3>1
  <2> QED
    BY <2>2, <2>3, <2>4 DEF TablesInv, LocatorRow, AccountRow, Affected
<1>9. RefusedInv'
  BY <1>1 DEF IndexInv, RefusedInv
<1> QED
  BY <1>6, <1>7, <1>8, <1>9 DEF IndexInv

LEMMA AddTxKeepsIndex ==
  ASSUME IndexInv, pc = "ledger", Len(indices) < MaxTxs, NEW t \in Tx,
         NEW m \in Meta \cup RichMeta, Decodable(m), AddTx(t, m, m.index, Affected[m])
  PROVE  IndexInv'
<1> DEFINE new == [tx |-> t, meta |-> m]
           last == Len(chunk)
<1>1. /\ chunk' = [chunk EXCEPT ![Len(chunk)] = Append(@, new)]
      /\ indices' = Append(indices, m.index)
      /\ rows' = rows \cup {[account |-> a, ledger |-> Current, n |-> m.index, tx |-> t] :
                               a \in Affected[m]}
      /\ locator' = locator \cup {[tx |-> t, ledger |-> Current, n |-> m.index]}
      /\ \A l \in locator : l.tx # t
      /\ pc' = pc /\ refused' = refused
  BY DEF AddTx, KeysFree
<1>2. chunk \in Seq(Seq(Txn)) /\ chunk # <<>> /\ indices = Applied(chunk[last])
  BY DEF IndexInv, ChunkInv
<1>3. new \in Txn /\ new.tx = t /\ new.meta = m
  BY DEF Txn
<1>4. Extended(chunk', chunk, new)
  BY <1>1, <1>2, <1>3, ExtendedChunk
<1>5. last \in DOMAIN chunk /\ DOMAIN chunk' = DOMAIN chunk /\ Len(chunk') = last
  BY <1>2, <1>4 DEF Extended
<1> HIDE DEF new
<1>6. /\ \A k \in DOMAIN chunk : \A i \in DOMAIN chunk[k] :
           k \in DOMAIN chunk' /\ i \in DOMAIN chunk'[k] /\ chunk'[k][i] = chunk[k][i]
      /\ \E i \in DOMAIN chunk'[last] : last \in DOMAIN chunk' /\ chunk'[last][i] = new
      /\ \A k \in DOMAIN chunk' : \A i \in DOMAIN chunk'[k] :
           \/ k \in DOMAIN chunk /\ i \in DOMAIN chunk[k] /\ chunk'[k][i] = chunk[k][i]
           \/ k = last /\ i = Len(chunk[last]) + 1 /\ chunk'[k][i] = new
  BY <1>2, <1>3, <1>4, ExtendedPlaces
<1>7. ChunkInv'
  <2>1. chunk[last] \in Seq(Txn) /\ chunk'[last] = Append(chunk[last], new)
    BY <1>2, <1>4, <1>5 DEF Extended
  <2>2. chunk' \in Seq(Seq(Txn)) /\ chunk' # <<>> /\ Len(chunk') <= EndLedger - StartLedger + 1
    BY <1>2, <1>4, <1>5 DEF Extended, IndexInv, ChunkInv
  <2>3. \A k \in DOMAIN chunk' : Len(chunk'[k]) <= MaxTxs
    <3>1. Len(chunk[last]) = Len(indices) /\ Len(chunk[last]) \in Nat
      <4>1. Len(Applied(chunk[last])) = Len(chunk[last])
        BY <2>1, AppliedLength
      <4> QED
        BY <1>2, <2>1, <4>1
    <3>2. Len(chunk'[last]) = Len(chunk[last]) + 1
      BY <2>1, <1>3
    <3>3. Len(chunk'[last]) <= MaxTxs
      BY <3>1, <3>2, QueryAssumption
    <3> QED
      BY <1>4, <1>5, <3>3 DEF Extended, IndexInv, ChunkInv
  <2>4. indices' = Applied(chunk'[last])
    BY <1>1, <1>2, <1>3, <2>1, AppliedAppend
  <2>5. \A k \in DOMAIN chunk' : Exact(Applied(chunk'[k])) \/ k = last
    <3>1. \A k \in DOMAIN chunk : Exact(Applied(chunk[k])) \/ k = last
      BY DEF IndexInv, ChunkInv
    <3> QED
      BY <1>4, <1>5, <3>1 DEF Extended
  <2> QED
    BY <1>1, <1>5, <2>2, <2>3, <2>4, <2>5 DEF ChunkInv, Indexed
<1>8. \A k \in DOMAIN chunk : \A i \in DOMAIN chunk[k] : chunk[k][i].tx # t
  <2> SUFFICES ASSUME NEW k \in DOMAIN chunk, NEW i \in DOMAIN chunk[k]
               PROVE  chunk[k][i].tx # t
    OBVIOUS
  <2>1. LocatorRow(k, chunk[k][i]) \in locator
    BY DEF IndexInv, TablesInv
  <2>2. LocatorRow(k, chunk[k][i]).tx = chunk[k][i].tx
    BY DEF LocatorRow
  <2> QED
    BY <1>1, <2>1, <2>2
<1>9. OnceInv'
  <2> SUFFICES ASSUME NEW k \in DOMAIN chunk', NEW l \in DOMAIN chunk',
                      NEW i \in DOMAIN chunk'[k], NEW j \in DOMAIN chunk'[l],
                      chunk'[k][i].tx = chunk'[l][j].tx
               PROVE  k = l /\ i = j
    BY DEF OnceInv
  <2>1. \/ k \in DOMAIN chunk /\ i \in DOMAIN chunk[k] /\ chunk'[k][i] = chunk[k][i]
        \/ k = last /\ i = Len(chunk[last]) + 1 /\ chunk'[k][i] = new
    BY <1>6
  <2>2. \/ l \in DOMAIN chunk /\ j \in DOMAIN chunk[l] /\ chunk'[l][j] = chunk[l][j]
        \/ l = last /\ j = Len(chunk[last]) + 1 /\ chunk'[l][j] = new
    BY <1>6
  <2> QED
    BY <1>3, <1>8, <2>1, <2>2 DEF IndexInv, OnceInv
<1>10. TablesInv'
  <2>1. TablesInv
    BY DEF IndexInv
  <2>2. LocatorRow(last, new) = [tx |-> t, ledger |-> Current, n |-> m.index]
    BY <1>3 DEF LocatorRow, Current
  <2>3. \A a : AccountRow(a, last, new) =
                 [account |-> a, ledger |-> Current, n |-> m.index, tx |-> t]
    BY <1>3 DEF AccountRow, Current
  <2>4. /\ \A x : x \in locator' <=> x \in locator \/ x = LocatorRow(last, new)
        /\ \A r : r \in rows' <=> r \in rows \/ \E a \in Affected[m] : r = AccountRow(a, last, new)
    BY <1>1, <2>2, <2>3
  <2>5. \A k \in DOMAIN chunk' : \A i \in DOMAIN chunk'[k] :
          /\ Decodable(chunk'[k][i].meta)
          /\ LocatorRow(k, chunk'[k][i]) \in locator'
          /\ \A a \in Affected[chunk'[k][i].meta] : AccountRow(a, k, chunk'[k][i]) \in rows'
    <3> SUFFICES ASSUME NEW k \in DOMAIN chunk', NEW i \in DOMAIN chunk'[k]
                 PROVE  /\ Decodable(chunk'[k][i].meta)
                        /\ LocatorRow(k, chunk'[k][i]) \in locator'
                        /\ \A a \in Affected[chunk'[k][i].meta] :
                             AccountRow(a, k, chunk'[k][i]) \in rows'
      OBVIOUS
    <3>1. CASE k \in DOMAIN chunk /\ i \in DOMAIN chunk[k] /\ chunk'[k][i] = chunk[k][i]
      BY <2>1, <2>4, <3>1 DEF TablesInv
    <3>2. CASE k = last /\ i = Len(chunk[last]) + 1 /\ chunk'[k][i] = new
      BY <1>3, <2>4, <3>2
    <3> QED
      BY <1>6, <3>1, <3>2
  <2>6. \A x \in locator' : \E k \in DOMAIN chunk' : \E i \in DOMAIN chunk'[k] :
          x = LocatorRow(k, chunk'[k][i])
    BY <1>6, <2>1, <2>4 DEF TablesInv
  <2>7. \A r \in rows' : \E k \in DOMAIN chunk' : \E i \in DOMAIN chunk'[k] :
          \E a \in Affected[chunk'[k][i].meta] : r = AccountRow(a, k, chunk'[k][i])
    BY <1>3, <1>6, <2>1, <2>4 DEF TablesInv
  <2> QED
    BY <2>5, <2>6, <2>7 DEF TablesInv, LocatorRow, AccountRow, Affected
<1>11. RefusedInv'
  BY <1>1 DEF IndexInv, RefusedInv
<1> QED
  BY <1>7, <1>9, <1>10, <1>11 DEF IndexInv

LEMMA StepIndex == ASSUME DecoderExact, IndexInv, [Next]_vars PROVE IndexInv'
<1>1. CASE UNCHANGED <<chunk, indices, rows, locator, refused, pc>>
  BY <1>1 DEF IndexInv, ChunkInv, OnceInv, TablesInv, RefusedInv, Indexed
<1>2. CASE BeginLedger
  BY <1>2, BeginLedgerKeepsIndex
<1>3. CASE IndexAnyTx
  <2>1. PICK t \in Tx, m \in Meta \cup RichMeta : \E len \in Lengths(m) : IndexTx(t, m, len)
    BY <1>3 DEF IndexAnyTx
  <2>2. PICK len \in Lengths(m) : IndexTx(t, m, len)
    BY <2>1
  <2>3. pc = "ledger" /\ Len(indices) < MaxTxs
    BY <2>2 DEF IndexTx
  <2>4. CASE Readable(m, len)
    <3>1. AddTx(t, m, Summary[m][len].index, Summary[m][len].accounts)
      BY <2>2, <2>4 DEF IndexTx, Readable
    <3>2. Summary[m][len].index = m.index /\ Summary[m][len].accounts = Affected[m]
      BY <2>4 DEF DecoderExact
    <3>3. Decodable(m)
      BY <2>4 DEF DecoderExact
    <3> QED
      BY <2>3, <3>1, <3>2, <3>3, AddTxKeepsIndex
  <2>5. CASE ~Readable(m, len)
    <3>1. Refuse(m, len)
      BY <2>2, <2>5 DEF IndexTx, Readable
    <3>2. /\ refused' = [meta |-> m, whole |-> len = Len(Blob[m])] /\ pc' = "failed"
          /\ UNCHANGED <<chunk, indices, rows, locator>>
      BY <3>1 DEF Refuse
    <3>3. refused'.whole => len = Len(Blob[m])
      BY <3>2, Zenon
    <3>4. refused'.meta = m
      BY <3>2
    <3>5. refused'.whole => ~Decodable(m)
      BY <2>5, <3>3 DEF DecoderExact
    <3>6. RefusedInv'
      BY <3>4, <3>5 DEF RefusedInv
    <3> QED
      BY <2>3, <3>2, <3>6 DEF IndexInv, ChunkInv, OnceInv, TablesInv, Indexed
  <2> QED
    BY <2>4, <2>5
<1>4. CASE FinishLedger
  <2>1. pc = "ledger" /\ Exact(indices) /\ pc' = "between"
        /\ UNCHANGED <<chunk, indices, rows, locator, refused>>
    BY <1>4 DEF FinishLedger, index
  <2>2. Exact(Applied(chunk[Len(chunk)]))
    BY <2>1 DEF IndexInv, ChunkInv
  <2>3. \A k \in DOMAIN chunk : Exact(Applied(chunk[k]))
    BY <2>2 DEF IndexInv, ChunkInv
  <2> QED
    BY <2>1, <2>3 DEF IndexInv, ChunkInv, OnceInv, TablesInv, RefusedInv, Indexed
<1>5. CASE FinishBuild
  <2>1. /\ pc = "between" /\ Current = EndLedger /\ pc' = "built"
        /\ UNCHANGED <<chunk, indices, rows, locator, refused>>
    BY <1>5 DEF FinishBuild, index
  <2>2. Len(chunk) = EndLedger - StartLedger + 1
    <3>1. Len(chunk) \in Nat
      BY DEF IndexInv, ChunkInv
    <3> QED
      BY <2>1, <3>1, QueryAssumption DEF Current
  <2> QED
    BY <2>1, <2>2 DEF IndexInv, ChunkInv, OnceInv, TablesInv, RefusedInv, Indexed
<1>6. CASE Abort
  BY <1>6 DEF Abort, index, IndexInv, ChunkInv, OnceInv, TablesInv, RefusedInv, Indexed
<1>7. CASE (\E q \in Query : Ask(q)) \/ FullPage \/ LastPage \/ CompareAny
  <2>1. UNCHANGED <<chunk, indices, rows, locator, refused>>
    BY <1>7 DEF Ask, FullPage, LastPage, CompareAny, Compare, index
  <2>2. Indexed /\ pc \notin {"ledger", "failed"} /\ pc' \notin {"ledger", "failed"}
    BY <1>7 DEF Ask, FullPage, LastPage, CompareAny, Compare, Indexed
  <2> QED
    BY <2>1, <2>2 DEF IndexInv, ChunkInv, OnceInv, TablesInv, RefusedInv, Indexed
<1> QED
  BY <1>1, <1>2, <1>3, <1>4, <1>5, <1>6, <1>7 DEF Next, vars

LEMMA IndexCorrect == ASSUME DecoderExact PROVE Spec => []IndexInv
<1>1. IndexInv /\ [Next]_vars => IndexInv'
  BY StepIndex
<1> QED
  BY <1>1, InitIndex, PTL DEF Spec

\* DecodedExact, of any chunk whose metadata the decoder reads as xrpld does:
\* account_tx has the accounts of each transaction at its TransactionIndex and
\* no more, a cut blob included, and no whole metadata is refused for another
\* reason than a missing index or an unknown type, which is never passed over.
THEOREM TablesAreDecoded == ASSUME DecoderExact PROVE Spec => []DecodedExact
<1>1. IndexInv => DecodedExact
  <2> SUFFICES ASSUME IndexInv PROVE DecodedExact
    OBVIOUS
  <2>1. ASSUME NEW l \in DOMAIN chunk, NEW t \in ToSet(chunk[l])
        PROVE  /\ Decodable(t.meta)
               /\ {r \in rows : r.tx = t.tx} = {AccountRow(a, l, t) : a \in Affected[t.meta]}
    <3>1. PICK i \in DOMAIN chunk[l] : t = chunk[l][i]
      BY <2>1 DEF ToSet
    <3>2. Decodable(t.meta) /\ \A a \in Affected[t.meta] : AccountRow(a, l, t) \in rows
      BY <3>1 DEF IndexInv, TablesInv
    <3>3. \A a : AccountRow(a, l, t).tx = t.tx
      BY DEF AccountRow
    <3>4. ASSUME NEW r \in rows, r.tx = t.tx
          PROVE  \E a \in Affected[t.meta] : r = AccountRow(a, l, t)
      <4>1. PICK k \in DOMAIN chunk : \E j \in DOMAIN chunk[k] :
              \E a \in Affected[chunk[k][j].meta] : r = AccountRow(a, k, chunk[k][j])
        BY DEF IndexInv, TablesInv
      <4>2. PICK j \in DOMAIN chunk[k] :
              \E a \in Affected[chunk[k][j].meta] : r = AccountRow(a, k, chunk[k][j])
        BY <4>1
      <4>3. r.tx = chunk[k][j].tx
        BY <4>2 DEF AccountRow
      <4>4. chunk[k][j].tx = chunk[l][i].tx
        BY <3>1, <3>4, <4>3
      <4>5. k = l /\ j = i
        BY <2>1, <4>4, Zenon DEF IndexInv, OnceInv
      <4> QED
        BY <3>1, <4>2, <4>5
    <3>5. \A q : q \in {r \in rows : r.tx = t.tx}
                   <=> q \in {AccountRow(a, l, t) : a \in Affected[t.meta]}
      BY <3>2, <3>3, <3>4
    <3> QED
      BY <3>2, <3>5
  <2> QED
    BY <2>1 DEF DecodedExact, AccountRow, IndexInv, RefusedInv
<1> QED
  BY <1>1, IndexCorrect, PTL

\* In a ledger whose indices are exact, the index of a transaction is the number
\* of transactions with a smaller one.
LEMMA IndexIsRank ==
  ASSUME NEW s \in Seq(Txn), Exact(Applied(s)), NEW i \in DOMAIN s
  PROVE  /\ s[i].meta.index \in 0..Len(s) - 1
         /\ Cardinality({u \in ToSet(s) : u.meta.index < s[i].meta.index}) = s[i].meta.index
<1> DEFINE dom == 1..Len(s)
<1>1. DOMAIN s = dom /\ DOMAIN Applied(s) = dom /\ Len(s) \in Nat
  <2>1. DOMAIN Applied(s) = DOMAIN s
    BY AppliedLength
  <2> QED
    BY <2>1
<1>2. \A j \in dom : Applied(s)[j] = s[j].meta.index
  BY DEF Applied
<1>3. PICK order \in Bijection(dom, dom) : \A j \in dom : Applied(s)[order[j]] = j - 1
  BY <1>1, Zenon DEF Exact
<1>4. order \in [dom -> dom] /\ \A q \in dom : \E j \in dom : order[j] = q
  <2> HIDE DEF dom
  <2> QED
    BY <1>3, Fun_BijectionProperties
<1>5. \A j \in dom : order[j] \in dom /\ s[order[j]].meta.index = j - 1
  BY <1>2, <1>3, <1>4
<1>6. PICK p \in dom : order[p] = i
  BY <1>1, <1>4
<1>7. s[i].meta.index = p - 1 /\ p \in 1..Len(s)
  BY <1>5, <1>6
<1> DEFINE less == {u \in ToSet(s) : u.meta.index < p - 1}
           F    == [j \in 1..p - 1 |-> s[order[j]]]
<1>8. \A j \in 1..p - 1 : j \in dom /\ F[j] = s[order[j]] /\ F[j].meta.index = j - 1
  BY <1>1, <1>5
<1>9. F \in [1..p - 1 -> less]
  <2>1. \A j \in 1..p - 1 : s[order[j]] \in less
    <3> SUFFICES ASSUME NEW j \in 1..p - 1 PROVE s[order[j]] \in less
      OBVIOUS
    <3>1. order[j] \in DOMAIN s /\ s[order[j]].meta.index = j - 1 /\ j - 1 < p - 1
      BY <1>1, <1>5, <1>8
    <3> QED
      BY <3>1 DEF ToSet
  <2> QED
    BY <2>1
<1>10. \A j, k \in 1..p - 1 : F[j] = F[k] => j = k
  <2> SUFFICES ASSUME NEW j \in 1..p - 1, NEW k \in 1..p - 1, F[j] = F[k] PROVE j = k
    OBVIOUS
  <2>1. j - 1 = k - 1
    BY <1>8
  <2> QED
    BY <2>1
<1>11. \A u \in less : \E j \in 1..p - 1 : F[j] = u
  <2> SUFFICES ASSUME NEW u \in less PROVE \E j \in 1..p - 1 : F[j] = u
    OBVIOUS
  <2>1. PICK q \in dom : u = s[q]
    BY <1>1 DEF ToSet
  <2>2. PICK j \in dom : order[j] = q
    BY <1>4
  <2>3. u.meta.index = j - 1 /\ u.meta.index < p - 1
    BY <1>5, <2>1, <2>2
  <2>4. j \in 1..p - 1
    BY <1>1, <2>3
  <2> QED
    BY <1>8, <2>1, <2>2, <2>4
<1> HIDE DEF F, less
<1>12. F \in Bijection(1..p - 1, less)
  BY <1>9, <1>10, <1>11, Fun_IsBij
<1>13. ExistsBijection(1..p - 1, less)
  BY <1>12 DEF ExistsBijection
<1>14. IsFiniteSet(1..p - 1) /\ Cardinality(1..p - 1) = p - 1
  BY <1>7, FS_Interval
<1>15. Cardinality(less) = p - 1
  BY <1>13, <1>14, FS_Bijection
<1> QED
  BY <1>1, <1>7, <1>15 DEF less

\* LocatorExact, of any chunk: what tx_locator (and xrla-index tx) says of a
\* transaction is its ledger and its place among the ledger's transactions.
THEOREM LocatorIsExact == ASSUME DecoderExact PROVE Spec => []LocatorExact
<1>1. IndexInv => LocatorExact
  <2> SUFFICES ASSUME IndexInv, Indexed, NEW l \in Ledger, NEW t \in InLedger(l)
               PROVE  {x \in locator : x.tx = t.tx} =
                        {[tx |-> t.tx, ledger |-> l,
                          n |-> Cardinality({u \in InLedger(l) : u.meta.index < t.meta.index})]}
    BY DEF LocatorExact
  <2>1. PICK k : k = l - StartLedger + 1
    OBVIOUS
  <2>2. k \in DOMAIN chunk /\ StartLedger + k - 1 = l
    BY <2>1, QueryAssumption DEF Ledger, IndexInv, ChunkInv
  <2>3. PICK i \in DOMAIN chunk[k] : t = chunk[k][i]
    BY <2>1 DEF InLedger, ToSet
  <2>4. chunk[k] \in Seq(Txn) /\ Exact(Applied(chunk[k]))
    BY <2>2 DEF IndexInv, ChunkInv, Indexed
  <2>5. Cardinality({u \in InLedger(l) : u.meta.index < t.meta.index}) = t.meta.index
    BY <2>1, <2>3, <2>4, IndexIsRank DEF InLedger
  <2>6. LocatorRow(k, t) = [tx |-> t.tx, ledger |-> l, n |-> t.meta.index]
    BY <2>2 DEF LocatorRow
  <2>7. LocatorRow(k, t) \in locator
    BY <2>2, <2>3 DEF IndexInv, TablesInv
  <2>8. ASSUME NEW x \in locator, x.tx = t.tx PROVE x = LocatorRow(k, t)
    <3>1. PICK h \in DOMAIN chunk : \E j \in DOMAIN chunk[h] : x = LocatorRow(h, chunk[h][j])
      BY DEF IndexInv, TablesInv
    <3>2. PICK j \in DOMAIN chunk[h] : x = LocatorRow(h, chunk[h][j])
      BY <3>1
    <3>3. x.tx = chunk[h][j].tx
      BY <3>2 DEF LocatorRow
    <3>4. chunk[h][j].tx = chunk[k][i].tx
      BY <2>3, <2>8, <3>3
    <3>5. h = k /\ j = i
      BY <2>2, <3>4, Zenon DEF IndexInv, OnceInv
    <3> QED
      BY <2>3, <3>2, <3>5
  <2>9. LocatorRow(k, t).tx = t.tx
    BY DEF LocatorRow
  <2>10. {x \in locator : x.tx = t.tx} = {LocatorRow(k, t)}
    BY <2>7, <2>8, <2>9, Zenon
  <2> QED
    BY <2>5, <2>6, <2>10
<1> QED
  BY <1>1, IndexCorrect, PTL

-----------------------------------------------------------------------------
(* The pages                                                               *)

\* The rows asked for have a ledger and an index that are numbers, and are not
\* None, of an index that was built.
LEMMA AskedRows ==
  ASSUME IndexInv, Indexed, ask \in Query
  PROVE  \A r \in Asked : r.ledger \in Int /\ r.n \in Int /\ r # None
<1> SUFFICES ASSUME NEW r \in Asked PROVE r.ledger \in Int /\ r.n \in Int /\ r # None
  OBVIOUS
<1>1. r \in rows /\ r.account \in Account
  BY DEF Asked, Query
<1>2. PICK k \in DOMAIN chunk : \E i \in DOMAIN chunk[k] :
        \E a \in Affected[chunk[k][i].meta] : r = AccountRow(a, k, chunk[k][i])
  BY <1>1 DEF IndexInv, TablesInv
<1>3. PICK i \in DOMAIN chunk[k] :
        \E a \in Affected[chunk[k][i].meta] : r = AccountRow(a, k, chunk[k][i])
  BY <1>2
<1>4. PICK t : t = chunk[k][i]
  OBVIOUS
<1>5. PICK s \in Seq(Txn) : s = chunk[k] /\ Exact(Applied(s)) /\ Len(s) <= MaxTxs
  BY DEF IndexInv, ChunkInv, Indexed
<1>6. i \in DOMAIN s /\ t = s[i]
  BY <1>4, <1>5
<1>7. t.tx \in Tx
  <2>1. s[i] \in Txn
    BY <1>6
  <2> QED
    BY <1>6, <2>1 DEF Txn
<1>8. t.meta.index \in 0..MaxTxs
  <2>1. t.meta.index \in 0..Len(s) - 1 /\ Len(s) \in Nat
    <3>1. s[i].meta.index \in 0..Len(s) - 1
      BY <1>5, <1>6, IndexIsRank
    <3> QED
      BY <1>6, <3>1
  <2> QED
    BY <1>5, <2>1, QueryAssumption
<1>9. StartLedger + k - 1 \in StartLedger..EndLedger
  BY QueryAssumption DEF IndexInv, ChunkInv
<1>10. r = [account |-> r.account, ledger |-> StartLedger + k - 1, n |-> t.meta.index, tx |-> t.tx]
  BY <1>3, <1>4 DEF AccountRow
<1> HIDE DEF Query
<1>11. r \in [account : Account, ledger : StartLedger..EndLedger, n : 0..MaxTxs, tx : Tx]
  BY <1>1, <1>7, <1>8, <1>9, <1>10
<1>12. r.ledger \in StartLedger..EndLedger /\ r.n \in 0..MaxTxs
  BY <1>11
<1> QED
  BY <1>11, <1>12, QueryAssumption

LEMMA BeforeTransitive ==
  ASSUME NEW r, NEW s, NEW u, RowBefore(r, s), RowBefore(s, u),
         r.ledger \in Int, s.ledger \in Int, u.ledger \in Int,
         r.n \in Int, s.n \in Int, u.n \in Int
  PROVE  RowBefore(r, u)
BY DEF RowBefore, Before

LEMMA Concatenated ==
  ASSUME NEW S, NEW s \in Seq(S), NEW u \in Seq(S)
  PROVE  /\ s \o u \in Seq(S)
         /\ \A i \in DOMAIN s : i \in DOMAIN (s \o u) /\ (s \o u)[i] = s[i]
         /\ \A j \in DOMAIN u : Len(s) + j \in DOMAIN (s \o u) /\ (s \o u)[Len(s) + j] = u[j]
         /\ \A i \in DOMAIN (s \o u) :
              \/ i \in DOMAIN s /\ (s \o u)[i] = s[i]
              \/ i - Len(s) \in DOMAIN u /\ (s \o u)[i] = u[i - Len(s)] /\ i > Len(s)
OBVIOUS

\* A page goes on exactly where the pages before it ended.
LEMMA PageStep ==
  ASSUME IndexInv, PagingInv, pc = "paging", NEW page \in Pages
  PROVE  /\ got \o page \in Seq(Asked) /\ InOrder(got \o page)
         /\ \A r \in Asked \ ToSet(got \o page) :
              /\ Len(page) = ask.limit
              /\ \A i \in DOMAIN (got \o page) : RowBefore((got \o page)[i], r)
         /\ page \in Seq(Asked)
<1>1. /\ ask \in Query /\ got \in Seq(Asked) /\ InOrder(got)
      /\ \A r \in Asked \ ToSet(got) : \A i \in DOMAIN got : RowBefore(got[i], r)
      /\ IF marker = None THEN got = <<>> ELSE got # <<>> /\ marker = Last(got)
  BY DEF PagingInv
<1>2. \A r \in Asked : r.ledger \in Int /\ r.n \in Int
  BY <1>1, AskedRows DEF Indexed
<1>3. Matching = {r \in Asked : PastMarker(r)}
  BY DEF Matching, Asked
<1>4. page \in Seq(Matching) /\ IsPage(page)
  <2>1. PICK n \in 0..ask.limit : page \in [1..n -> Matching]
    BY DEF Pages
  <2>2. n \in Nat
    BY <1>1, QueryAssumption DEF Query
  <2> QED
    BY <2>1, <2>2 DEF Pages
<1>5. /\ Matching \subseteq Asked /\ page \in Seq(Asked)
      /\ \A i \in DOMAIN page : page[i] \in Matching
      /\ \A i \in DOMAIN got : got[i] \in Asked
  BY <1>1, <1>3, <1>4
<1>6. ASSUME NEW r \in Matching, NEW i \in DOMAIN got
      PROVE  RowBefore(got[i], r)
  <2>1. marker # None /\ marker = got[Len(got)] /\ Len(got) \in DOMAIN got
    BY <1>1 DEF Last
  <2>2. RowBefore(marker, r)
    BY <1>3, <1>6, <2>1 DEF PastMarker
  <2>3. CASE i = Len(got)
    BY <2>1, <2>2, <2>3
  <2>4. CASE i < Len(got)
    <3>1. RowBefore(got[i], marker)
      BY <1>1, <2>1, <2>4 DEF InOrder
    <3>2. marker \in Asked
      BY <1>5, <2>1
    <3> QED
      BY <1>2, <1>5, <2>2, <3>1, <3>2, BeforeTransitive
  <2>5. i = Len(got) \/ i < Len(got)
    BY <1>1
  <2> QED
    BY <2>3, <2>4, <2>5
<1> DEFINE all == got \o page
<1>7. /\ all \in Seq(Asked)
      /\ \A i \in DOMAIN got : i \in DOMAIN all /\ all[i] = got[i]
      /\ \A j \in DOMAIN page : Len(got) + j \in DOMAIN all /\ all[Len(got) + j] = page[j]
      /\ \A i \in DOMAIN all :
           \/ i \in DOMAIN got /\ all[i] = got[i]
           \/ i - Len(got) \in DOMAIN page /\ all[i] = page[i - Len(got)] /\ i > Len(got)
  BY <1>1, <1>5, Concatenated
<1>8. DOMAIN got = 1..Len(got) /\ Len(got) \in Nat /\ DOMAIN page \subseteq Int /\ DOMAIN all \subseteq Int
  BY <1>1, <1>5, <1>7
<1> HIDE DEF all
<1>9. InOrder(all)
  <2> SUFFICES ASSUME NEW i \in DOMAIN all, NEW j \in DOMAIN all, i < j
               PROVE  RowBefore(all[i], all[j])
    BY DEF InOrder
  <2>1. CASE i \in DOMAIN got /\ all[i] = got[i] /\ j \in DOMAIN got /\ all[j] = got[j]
    BY <1>1, <2>1 DEF InOrder
  <2>2. CASE /\ i \in DOMAIN got /\ all[i] = got[i]
             /\ j - Len(got) \in DOMAIN page /\ all[j] = page[j - Len(got)]
    BY <1>5, <1>6, <2>2
  <2>3. CASE /\ i - Len(got) \in DOMAIN page /\ all[i] = page[i - Len(got)]
             /\ j - Len(got) \in DOMAIN page /\ all[j] = page[j - Len(got)]
    <3>1. i - Len(got) < j - Len(got)
      BY <1>8
    <3> QED
      BY <1>4, <2>3, <3>1 DEF IsPage, InOrder
  <2>4. CASE i > Len(got) /\ j \in DOMAIN got
    BY <1>8, <2>4
  <2> QED
    BY <1>7, <2>1, <2>2, <2>3, <2>4
<1>10. ASSUME NEW r \in Asked \ ToSet(all)
       PROVE  Len(page) = ask.limit /\ \A i \in DOMAIN all : RowBefore(all[i], r)
  <2>1. r \notin ToSet(got) /\ r \notin ToSet(page)
    <3>1. \A i \in DOMAIN all : all[i] # r
      BY <1>10 DEF ToSet
    <3>2. (\A i \in DOMAIN got : got[i] # r) /\ (\A j \in DOMAIN page : page[j] # r)
      BY <1>7, <3>1
    <3> QED
      BY <3>2, Zenon DEF ToSet
  <2>2. \A i \in DOMAIN got : RowBefore(got[i], r)
    BY <1>1, <1>10, <2>1
  <2>3. PastMarker(r)
    <3>1. CASE marker = None
      BY <3>1 DEF PastMarker
    <3>2. CASE marker # None
      <4>1. marker = got[Len(got)] /\ Len(got) \in DOMAIN got
        BY <1>1, <3>2 DEF Last
      <4> QED
        BY <2>2, <4>1 DEF PastMarker
    <3> QED
      BY <3>1, <3>2
  <2>4. r \in Matching \ ToSet(page)
    BY <1>3, <1>10, <2>1, <2>3
  <2>5. Len(page) = ask.limit /\ \A i \in DOMAIN page : RowBefore(page[i], r)
    BY <1>4, <2>4 DEF IsPage
  <2> QED
    BY <1>7, <2>2, <2>5
<1> QED
  BY <1>5, <1>7, <1>9, <1>10 DEF all

LEMMA GrownPages ==
  ASSUME IndexInv, PagingInv, pc = "paging", NEW page \in Pages,
         got' = got \o page, ask' = ask, rows' = rows,
         \/ Len(page) = ask.limit /\ page # <<>> /\ pc' = "paging" /\ marker' = Last(page)
         \/ Len(page) < ask.limit /\ pc' = "answered"
  PROVE  PagingInv'
<1>1. /\ got' \in Seq(Asked) /\ page \in Seq(Asked) /\ InOrder(got \o page)
      /\ \A r \in Asked \ ToSet(got') :
           /\ Len(page) = ask.limit
           /\ \A i \in DOMAIN got' : RowBefore((got \o page)[i], r)
  BY PageStep
<1>2. ask \in Query /\ got \in Seq(Asked)
  BY DEF PagingInv
<1>3. Asked' = Asked
  BY DEF Asked
<1>4. InOrder(got)'
  <2>1. \A x, y : RowBefore(x, y)' <=> RowBefore(x, y)
    BY DEF RowBefore, Before
  <2>2. \A i, j \in DOMAIN got' : i < j => RowBefore(got'[i], got'[j])
    BY <1>1 DEF InOrder
  <2> QED
    BY <2>1, <2>2 DEF InOrder
<1>5. \A r \in Asked \ ToSet(got') : pc' = "paging" /\ \A i \in DOMAIN got' : RowBefore(got[i], r)'
  <2> SUFFICES ASSUME NEW r \in Asked \ ToSet(got')
               PROVE  pc' = "paging" /\ \A i \in DOMAIN got' : RowBefore(got[i], r)'
    OBVIOUS
  <2>1. Len(page) = ask.limit /\ \A i \in DOMAIN got' : RowBefore((got \o page)[i], r)
    BY <1>1
  <2>2. ask.limit \in Nat
    BY <1>2, QueryAssumption DEF Query
  <2>3. pc' = "paging"
    BY <2>1, <2>2
  <2> QED
    BY <2>1, <2>3 DEF RowBefore, Before
<1>6. ASSUME pc' = "paging"
      PROVE  marker' # None /\ got' # <<>> /\ marker' = Last(got')
  <2>1. page # <<>> /\ marker' = page[Len(page)] /\ Len(page) \in DOMAIN page
    BY <1>1, <1>6 DEF Last
  <2>2. marker' \in Asked
    BY <1>1, <2>1
  <2>3. marker' # None
    BY <1>2, <2>2, AskedRows DEF Indexed
  <2>4. Len(got') = Len(got) + Len(page) /\ got'[Len(got) + Len(page)] = page[Len(page)]
    BY <1>1, <1>2, <2>1
  <2> QED
    BY <1>1, <2>1, <2>3, <2>4 DEF Last
<1> QED
  BY <1>1, <1>2, <1>3, <1>4, <1>5, <1>6, Zenon DEF PagingInv, Query, Ledger

LEMMA StepPaging == ASSUME IndexInv, PagingInv, [Next]_vars PROVE PagingInv'
<1>1. CASE pc' \notin {"paging", "answered"}
  BY <1>1 DEF PagingInv
<1>2. CASE UNCHANGED vars
  BY <1>2 DEF vars, PagingInv, Asked, InOrder, RowBefore, Before
<1>3. CASE \E q \in Query : Ask(q)
  <2>1. PICK q \in Query : Ask(q)
    BY <1>3
  <2>2. ask' \in Query /\ got' = <<>> /\ marker' = None /\ pc' = "paging"
    BY <2>1 DEF Ask
  <2>3. got' \in Seq(Asked') /\ DOMAIN got' = {}
    BY <2>2
  <2> QED
    BY <2>2, <2>3 DEF PagingInv, InOrder, Query, Ledger
<1>4. CASE FullPage
  <2>1. PICK page \in Pages :
          /\ Len(page) = ask.limit /\ got' = got \o page
          /\ IF page = <<>> THEN /\ pc' = "panicked" /\ UNCHANGED marker
                            ELSE /\ marker' = Last(page) /\ UNCHANGED pc
    BY <1>4 DEF FullPage
  <2>2. pc = "paging" /\ ask' = ask /\ rows' = rows
    BY <1>4 DEF FullPage, index
  <2> QED
    BY <1>1, <2>1, <2>2, GrownPages
<1>5. CASE LastPage
  <2>1. PICK page \in Pages : Len(page) < ask.limit /\ got' = got \o page
    BY <1>5 DEF LastPage
  <2>2. pc = "paging" /\ pc' = "answered" /\ ask' = ask /\ rows' = rows
    BY <1>5 DEF LastPage, index
  <2> QED
    BY <2>1, <2>2, GrownPages
<1>6. [Next]_vars => \/ (\E q \in Query : Ask(q)) \/ FullPage \/ LastPage \/ UNCHANGED vars
                     \/ pc' \notin {"paging", "answered"}
  <2>0. ASSUME NEW t, NEW m, NEW len, IndexTx(t, m, len)
        PROVE  pc' \in {"ledger", "failed"}
    <3>1. \A n, accounts : AddTx(t, m, n, accounts) => pc' = pc
      BY DEF AddTx
    <3>2. Refuse(m, len) => pc' = "failed"
      BY DEF Refuse
    <3> QED
      BY <2>0, <3>1, <3>2 DEF IndexTx
  <2>1. BeginLedger \/ IndexAnyTx => pc' \notin {"paging", "answered"}
    <3>1. BeginLedger => pc' = "ledger"
      BY DEF BeginLedger
    <3>2. IndexAnyTx => \E t, m, len : IndexTx(t, m, len)
      BY DEF IndexAnyTx
    <3> QED
      BY <2>0, <3>1, <3>2
  <2>2. FinishLedger \/ FinishBuild \/ Abort => pc' \notin {"paging", "answered"}
    BY DEF FinishLedger, FinishBuild, Abort
  <2>3. CompareAny => pc' \notin {"paging", "answered"}
    BY DEF CompareAny, Compare
  <2> QED
    BY <2>1, <2>2, <2>3 DEF Next
<1> QED
  BY <1>1, <1>2, <1>3, <1>4, <1>5, <1>6

\* AnswerComplete, of any chunk, query and page size: whoever follows the markers
\* of xrla-index query is shown the account's transactions of the range in
\* order, each once, and all of them when the pages end.
THEOREM AnswerIsComplete == ASSUME DecoderExact PROVE Spec => []AnswerComplete
<1>1. Init => PagingInv
  BY DEF Init, PagingInv
<1>2. IndexInv /\ PagingInv /\ [Next]_vars => PagingInv'
  BY StepPaging
<1>3. IndexInv /\ PagingInv => AnswerComplete
  <2> SUFFICES ASSUME IndexInv, PagingInv, pc \in {"paging", "answered"} PROVE AnswerComplete
    BY DEF AnswerComplete
  <2>1. /\ ask \in Query /\ got \in Seq(Asked) /\ InOrder(got)
        /\ \A r \in Asked \ ToSet(got) :
             pc = "paging" /\ \A i \in DOMAIN got : RowBefore(got[i], r)
    BY DEF PagingInv
  <2>2. ask.min..ask.max \subseteq Ledger
    BY <2>1, QueryAssumption DEF Query, Ledger
  <2>3. /\ \A l \in Ledger : /\ l - StartLedger + 1 \in DOMAIN chunk
                             /\ StartLedger + (l - StartLedger + 1) - 1 = l
        /\ \A k \in DOMAIN chunk : (StartLedger + k - 1) - StartLedger + 1 = k
    <3>1. StartLedger \in Nat /\ EndLedger \in Nat
      BY QueryAssumption
    <3>2. chunk \in Seq(Seq(Txn)) /\ Len(chunk) = EndLedger - StartLedger + 1
      BY DEF IndexInv, ChunkInv, Indexed
    <3>3. DOMAIN chunk = 1..(EndLedger - StartLedger + 1)
      BY <3>2
    <3> QED
      BY <3>1, <3>3 DEF Ledger
  <2>4. ASSUME NEW l \in ask.min..ask.max, NEW t \in InLedger(l),
               ask.account \in Affected[t.meta]
        PROVE  [account |-> ask.account, ledger |-> l, n |-> t.meta.index, tx |-> t.tx] \in Asked
    <3>1. PICK k \in DOMAIN chunk : k = l - StartLedger + 1 /\ StartLedger + k - 1 = l
      BY <2>2, <2>3
    <3>2. PICK i \in DOMAIN chunk[k] : t = chunk[k][i]
      BY <3>1 DEF InLedger, ToSet
    <3>3. AccountRow(ask.account, k, t) \in rows
      BY <2>4, <3>2 DEF IndexInv, TablesInv
    <3> QED
      BY <3>1, <3>3 DEF AccountRow, Asked
  <2>5. ASSUME NEW r \in Asked
        PROVE  r \in Wanted
    <3>1. r \in rows /\ r.account = ask.account /\ r.ledger \in ask.min..ask.max
      BY DEF Asked
    <3>2. PICK k \in DOMAIN chunk : \E i \in DOMAIN chunk[k] :
            \E a \in Affected[chunk[k][i].meta] : r = AccountRow(a, k, chunk[k][i])
      BY <3>1 DEF IndexInv, TablesInv
    <3>3. PICK i \in DOMAIN chunk[k] :
            \E a \in Affected[chunk[k][i].meta] : r = AccountRow(a, k, chunk[k][i])
      BY <3>2
    <3>4. PICK t : t = chunk[k][i]
      OBVIOUS
    <3>5. PICK l : l = StartLedger + k - 1
      OBVIOUS
    <3>6. /\ r = [account |-> r.account, ledger |-> l, n |-> t.meta.index, tx |-> t.tx]
          /\ r.account \in Affected[t.meta]
      BY <3>3, <3>4, <3>5 DEF AccountRow
    <3>7. r.ledger = l
      BY <3>6
    <3>8. t \in InLedger(l)
      BY <2>3, <3>4, <3>5 DEF InLedger, ToSet
    <3>9. /\ l \in ask.min..ask.max /\ ask.account \in Affected[t.meta]
          /\ r = [account |-> ask.account, ledger |-> l, n |-> t.meta.index, tx |-> t.tx]
      BY <3>1, <3>6, <3>7
    <3> QED
      BY <3>8, <3>9 DEF Wanted
  <2>6. Wanted = Asked
    <3>1. \A r : r \in Wanted => \E l \in ask.min..ask.max : \E t \in InLedger(l) :
            /\ ask.account \in Affected[t.meta]
            /\ r = [account |-> ask.account, ledger |-> l, n |-> t.meta.index, tx |-> t.tx]
      BY Zenon DEF Wanted
    <3>2. \A r : r \in Wanted => r \in Asked
      BY <2>4, <3>1
    <3> QED
      BY <2>5, <3>2
  <2>7. DOMAIN got = 1..Len(got)
    BY <2>1
  <2>8. ToSet(got) \subseteq Asked
    BY <2>1 DEF ToSet
  <2> QED
    BY <2>1, <2>6, <2>7, <2>8 DEF AnswerComplete, InOrder
<1> QED
  BY <1>1, <1>2, <1>3, IndexCorrect, PTL DEF Spec

=============================================================================
