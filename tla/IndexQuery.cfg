\* Two ledgers of up to two of three transactions, two accounts; and one
\* transaction with any of some hundred kinds of metadata, cut anywhere.
SPECIFICATION Spec
CONSTANTS
  a = a
  Zero = Zero
  Account = {a, Zero}
  NoAccount = NoAccount
  Tx = {t1, t2, t3}
  StartLedger = 1
  EndLedger = 2
  MaxTxs = 2
  MaxCompared = 2
  Meta <- MCMeta
  RichMeta <- MCRichMeta
  Limit = {1, 2}
  MaxRows = 5
  None = None
INVARIANTS
  DecodedExact
  LocatorExact
  AnswerComplete
  PassMeansEqual
PROPERTIES
  PagingEnds
CHECK_DEADLOCK FALSE
