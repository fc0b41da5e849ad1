------------------------------ MODULE DiffTest ------------------------------
(***************************************************************************)
(* What xrla-difftest finds when it compares the decoder and an index with *)
(* the rows of xrpld's own transaction.db.                                 *)
(*                                                                         *)
(* The database is [txs, acct]: the table Transactions, as a set of [tx,   *)
(* ledger, type, meta], and AccountTransactions, of [tx, account, n].  The *)
(* index is its tables account_tx and tx_locator.  What is counted and     *)
(* printed is left out: a count matters for being zero.                    *)
(***************************************************************************)
EXTENDS Integers, FiniteSets

CONSTANTS None, Zero, NoAccount

LOCAL INSTANCE MetaDecode

PSEUDO_TYPES == {"EnableAmendment", "SetFee", "UNLModify"}

InRange(db, from, to) == {x \in db.txs : x.ledger \in from..to}

\* xrpld's answer for one transaction: the accounts, and the TxnSeq values.
truth(db, x) == {r.account : r \in {s \in db.acct : s.tx = x.tx}}
truth_txnseq(db, x) == {r.n : r \in {s \in db.acct : s.tx = x.tx}}

\* empty_ledgers > max_empty_ledgers
incomplete_range(db, from, to, max_empty_ledgers) ==
  Cardinality(from..to) - Cardinality({x.ledger : x \in InRange(db, from, to)})
    > max_empty_ledgers

\* The decoder against xrpld, for every transaction of the range.
RuleOk(db, from, to) ==
  \A x \in InRange(db, from, to) :
    \E ours \in {summarize_meta(x.meta)} :
      /\ ours.ok
      /\ truth(db, x) = {} /\ ours.accounts = {} => x.type \in PSEUDO_TYPES
      /\ truth(db, x) = ours.accounts
      /\ truth(db, x) # {} => truth_txnseq(db, x) = {ours.index}

\* An index holds one ledger and TransactionIndex per transaction, if it holds
\* any row: the last one read stands for all.
entry(rows, x) == CHOOSE r \in rows : r.tx = x.tx

\* Mutant: rows of the index that xrpld has no transaction for are not looked
\* at.
OneDirection(db, rows, locator, from, to) ==
  \A x \in InRange(db, from, to) :
    /\ {r.account : r \in {s \in rows : s.ledger \in from..to /\ s.tx = x.tx}} = truth(db, x)
    /\ \E l \in locator :
         /\ l.tx = x.tx /\ l.ledger = x.ledger
         /\ truth(db, x) # {} => l.n \in truth_txnseq(db, x)

\* compare_index: each transaction of the database against the index, then
\* what is left of the index.
compare_index(db, rows, locator, from, to) ==
  LET by_tx == {r \in rows : r.ledger \in from..to}
  IN  /\ \A x \in InRange(db, from, to) :
           LET e == entry(by_tx, x)
               accounts == {r.account : r \in {s \in by_tx : s.tx = x.tx}}
           IN  /\ IF accounts = {}
                  THEN truth(db, x) = {}
                  ELSE /\ accounts = truth(db, x)
                       /\ truth(db, x) # {} => e.n \in truth_txnseq(db, x)
                       /\ e.ledger = x.ledger
               /\ \E l \in locator :
                    /\ l.tx = x.tx /\ l.ledger = x.ledger
                    /\ truth(db, x) # {} => l.n \in truth_txnseq(db, x)
      /\ \A r \in by_tx : \E x \in InRange(db, from, to) : x.tx = r.tx

\* The verdict of a run with --index.
Passes(db, rows, locator, from, to, max_empty_ledgers) ==
  /\ from <= to
  /\ ~incomplete_range(db, from, to, max_empty_ledgers)
  /\ RuleOk(db, from, to)
  /\ compare_index(db, rows, locator, from, to)

=============================================================================
