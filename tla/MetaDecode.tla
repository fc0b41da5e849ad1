----------------------------- MODULE MetaDecode -----------------------------
(***************************************************************************)
(* summarize_meta: the accounts a transaction affected and its             *)
(* TransactionIndex, read from the binary metadata in one pass.            *)
(*                                                                         *)
(* A blob is a sequence of cells, see TxMeta.  A position is the number of *)
(* the next cell, or Lost: the blob ended, the next cell is not what the   *)
(* decoder takes it for, or the code bails.                                *)
(***************************************************************************)
EXTENDS Integers, Sequences

CONSTANTS None, Zero, NoAccount

Lost == 0

\* Cursor::take
take(b, i, n) ==
  IF n = 0 THEN i
  ELSE IF i \in DOMAIN b /\ "bytes" \in DOMAIN b[i] /\ b[i].bytes = n THEN i + 1
  ELSE Lost

\* Cursor::read_field_header
IsHeader(b, i) == i \in DOMAIN b /\ "t" \in DOMAIN b[i]

EndOf(t) == [t |-> t, f |-> "EndMarker"]

\* Where a value ended, and the accounts it gave.
Found(at, accounts) == [at |-> at, accounts |-> IF at = Lost THEN {} ELSE accounts]

nonzero(a) == {a} \ {Zero}

\* read_account: a zero account counts, an empty one does not.
read_account(b, i) ==
  IF take(b, i, 1) = Lost \/ b[i].v \notin {0, 20} THEN Found(Lost, {})
  ELSE IF b[i].v = 0 THEN Found(i + 1, {})
  ELSE LET end == take(b, i + 1, 20)
       IN  Found(end, IF end = Lost THEN {} ELSE {b[i + 1].v})

\* The issuer in an MPT issuance ID.
read_mpt_id(b, i) ==
  LET end == take(b, i, 24) IN Found(end, IF end = Lost THEN {} ELSE nonzero(b[i].v))

\* read_amount: the three shapes are told by bits of the first byte.
read_amount(b, i) ==
  IF take(b, i, 8) = Lost THEN Found(Lost, {})
  ELSE IF b[i].v = "issued"
       THEN LET end == take(b, take(b, i + 1, 20), 20)
            IN  Found(end, IF end = Lost THEN {} ELSE nonzero(b[i + 2].v))
  ELSE IF b[i].v = "mpt" THEN read_mpt_id(b, take(b, i + 1, 1))
  ELSE Found(i + 1, {})

skip_issue(b, i) ==
  LET second == take(b, i, 20)
      third  == take(b, second, 20)
  IN  IF second = Lost THEN Lost
      ELSE IF b[i].v = Zero THEN second
      ELSE IF third # Lost /\ b[second].v = NoAccount THEN take(b, third, 4)
      ELSE third

Width == [UINT8 |-> 1, UINT16 |-> 2, UINT32 |-> 4, INT32 |-> 4, UINT64 |-> 8, INT64 |-> 8,
          NUMBER |-> 12, UINT96 |-> 12, UINT128 |-> 16, UINT160 |-> 20, CURRENCY |-> 20,
          UINT192 |-> 24, UINT256 |-> 32, UINT384 |-> 48, UINT512 |-> 64]

Container == {"OBJECT", "ARRAY"}

\* skip_value, but for containers
SkipPlain(b, i, t) ==
  CASE t \in DOMAIN Width -> take(b, i, Width[t])
    [] t = "AMOUNT" -> read_amount(b, i).at
    [] t \in {"VL", "VECTOR256", "ACCOUNT"} ->
         IF take(b, i, 1) = Lost THEN Lost ELSE take(b, i + 1, b[i].v)
    [] t = "ISSUE" -> skip_issue(b, i)
    [] OTHER -> Lost

\* skip_value: a container is walked to the end marker of its own type.
skip_value(b, i, t) ==
  LET End[u \in Container, j \in 0..Len(b) + 1] ==
        IF ~IsHeader(b, j) THEN Lost
        ELSE IF b[j] = EndOf(u) THEN j + 1
        ELSE End[u, IF b[j].t \in Container THEN End[b[j].t, j + 1]
                    ELSE SkipPlain(b, j + 1, b[j].t)]
  IN  IF t \in Container THEN End[t, i] ELSE SkipPlain(b, i, t)

\* The loop of the collect functions: fields are read up to the end marker,
\* Read(j) the one whose header is cell j.
Collect(b, i, t, Read(_)) ==
  LET From[j \in 0..Len(b) + 1] ==
        LET After(one) == LET rest == From[one.at]
                          IN  Found(rest.at, one.accounts \cup rest.accounts)
        IN  IF ~IsHeader(b, j) THEN Found(Lost, {})
            ELSE IF b[j] = EndOf(t) THEN Found(j + 1, {})
            ELSE After(Read(j))
  IN  From[i]

Skipped(b, j) == Found(skip_value(b, j + 1, b[j].t), {})

\* Mutant: the limits of trust lines are not read.
InnerWithoutLimits(b, i) ==
  LET Read(j) ==
        CASE b[j].t = "ACCOUNT" -> read_account(b, j + 1)
          [] b[j].t = "UINT192" /\ b[j].f = "MPTokenIssuanceID" -> read_mpt_id(b, j + 1)
          [] OTHER -> Skipped(b, j)
  IN  Collect(b, i, "OBJECT", Read)

\* One level of NewFields or FinalFields.
collect_inner(b, i) ==
  LET Read(j) ==
        CASE b[j].t = "ACCOUNT" -> read_account(b, j + 1)
          [] b[j].t = "AMOUNT" /\ b[j].f \in {"TakerPays", "TakerGets", "LowLimit", "HighLimit"} ->
               read_amount(b, j + 1)
          [] b[j].t = "UINT192" /\ b[j].f = "MPTokenIssuanceID" -> read_mpt_id(b, j + 1)
          [] OTHER -> Skipped(b, j)
  IN  Collect(b, i, "OBJECT", Read)

collect_node(b, i, wanted) ==
  LET Read(j) == IF b[j].t = "OBJECT" /\ b[j].f = wanted THEN collect_inner(b, j + 1)
                 ELSE Skipped(b, j)
  IN  Collect(b, i, "OBJECT", Read)

collect_affected_nodes(b, i) ==
  LET Read(j) ==
        IF b[j].t # "OBJECT" THEN Found(Lost, {})
        ELSE collect_node(b, j + 1, IF b[j].f = "CreatedNode" THEN "NewFields" ELSE "FinalFields")
  IN  Collect(b, i, "ARRAY", Read)

Failed == [ok |-> FALSE, saw |-> FALSE, accounts |-> {}, index |-> None]

\* The fields of the top level.  What a field adds to what the rest gives:
WithNodes(one, rest) ==
  IF rest.ok THEN [rest EXCEPT !.saw = TRUE, !.accounts = @ \cup one.accounts] ELSE Failed
WithIndex(n, rest) == IF rest.ok /\ rest.index = None THEN [rest EXCEPT !.index = n] ELSE rest

TopLevel(b) ==
  LET From[i \in 0..Len(b) + 1] ==
        LET Nodes(one) == WithNodes(one, From[one.at])
        IN  IF i = Len(b) + 1 THEN [Failed EXCEPT !.ok = TRUE]
            ELSE IF ~IsHeader(b, i) THEN Failed
            ELSE IF b[i] = EndOf("OBJECT") THEN [Failed EXCEPT !.ok = TRUE]
            ELSE IF b[i] = [t |-> "ARRAY", f |-> "AffectedNodes"]
                 THEN Nodes(collect_affected_nodes(b, i + 1))
            ELSE IF b[i] = [t |-> "UINT32", f |-> "TransactionIndex"]
                 THEN IF take(b, i + 1, 4) = Lost THEN Failed
                      ELSE WithIndex(b[i + 1].v, From[i + 2])
            ELSE From[skip_value(b, i + 1, b[i].t)]
  IN  From[1]

\* summarize_meta: without AffectedNodes it is an error.
summarize_meta(b) ==
  LET Required(top) == [top EXCEPT !.ok = @ /\ top.saw] IN Required(TopLevel(b))

=============================================================================
