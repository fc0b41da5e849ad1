------------------------- MODULE ImportRun_proofs -------------------------
(***************************************************************************)
(* Proofs about ImportRun, for any chunk files, runs, crashes and options. *)
(*                                                                         *)
(* Every step of a command is a step of NuDbPublish or leaves its          *)
(* variables alone, so that its theorems hold of the whole command.  On    *)
(* them rest StepInv (how main and the sink keep step) and the invariants  *)
(* of the three outputs.                                                   *)
(***************************************************************************)
EXTENDS ImportRun, FiniteSetTheorems, SequenceTheorems, TLAPS

P == INSTANCE NuDbPublish_proofs

(* The constants are those NuDbPublish asks for.                           *)
LEMMA SinkConstants == P!BoundsAssumption /\ P!FallibleAssumption
BY SinkAssumption DEF P!BoundsAssumption, P!FallibleAssumption, P!Step, Sink!Step

-----------------------------------------------------------------------------
(* The command does with the store what NuDbPublish does                   *)

(* What both instances of NuDbPublish call by one name is the same.        *)
LEMMA SameActions ==
  /\ Sink!Create => P!Create
  /\ Sink!CloseDat => P!CloseDat
  /\ Sink!Abort => P!Abort
  /\ Sink!OpenKeyTmp => P!OpenKeyTmp
  /\ Sink!FillKeyTmp => P!FillKeyTmp
  /\ Sink!KeyTmpFails => P!KeyTmpFails
  /\ Sink!MoveOldKeyAside => P!MoveOldKeyAside
  /\ Sink!MoveOldKeyAsideFails => P!MoveOldKeyAsideFails
  /\ Sink!SwapDat => P!SwapDat
  /\ Sink!SwapDatFails => P!SwapDatFails
  /\ Sink!SwapKey => P!SwapKey
  /\ Sink!RemoveBak => P!RemoveBak
  /\ Sink!PutOldKeyBack => P!PutOldKeyBack
  /\ Sink!RemoveKeyTmp => P!RemoveKeyTmp
  /\ Sink!DropSink => P!DropSink
  /\ Sink!Crash => P!Crash
BY DEF Sink!Create, Sink!CloseDat, Sink!Abort, Sink!OpenKeyTmp, Sink!FillKeyTmp,
       Sink!KeyTmpFails, Sink!MoveOldKeyAside, Sink!MoveOldKeyAsideFails, Sink!SwapDat,
       Sink!SwapDatFails, Sink!SwapKey, Sink!RemoveBak, Sink!PutOldKeyBack,
       Sink!RemoveKeyTmp, Sink!DropSink, Sink!Crash,
       P!Create, P!CloseDat, P!Abort, P!OpenKeyTmp, P!FillKeyTmp,
       P!KeyTmpFails, P!MoveOldKeyAside, P!MoveOldKeyAsideFails, P!SwapDat,
       P!SwapDatFails, P!SwapKey, P!RemoveBak, P!PutOldKeyBack,
       P!RemoveKeyTmp, P!DropSink, P!Crash,
       Sink!Wrote, Sink!Partial, Sink!Whole, Sink!Exists, Sink!Renamed, Sink!Removed,
       Sink!RemoveQuietly, Sink!Absent,
       P!Wrote, P!Partial, P!Whole, P!Exists, P!Renamed, P!Removed, P!RemoveQuietly, P!Absent

LEMMA SameNext == Sink!Next => P!Next
BY SameActions DEF Sink!Next, P!Next

(* The actions of main, one by one: which step of the sink each takes.     *)
LEMMA NextSink == [Next]_vars => [Sink!Next]_sinkVars
BY DEF Next, vars, sinkVars, Sink!Next,
       Begin, GiveUp, SinkDropped, CreateTxdb, RefuseTxdb, CreateTxdbFails, ReplayChunk,
       ReplayFails, CommitTxdb, NoTxdb, PublishTxdb, FinishTxdbFails, SwapStep, SwapDone,
       SwapFailed, WriteRow, WriteRowFails, Complete, Crash, XrpldStarts, TxdbTakenAway

LEMMA NextP == [Next]_vars => [P!Next]_(P!vars)
BY NextSink, SameNext DEF sinkVars, P!vars

LEMMA InitP == Init => P!Init
BY DEF Init, Sink!Init, P!Init, Sink!Absent, P!Absent, Sink!Whole, P!Whole, Sink!Name, P!Name

(* A whole import command is, for the files of the store, NuDbSink from    *)
(* create to finish or Drop: main calls it in no other order and touches   *)
(* the files by no other way (main, NuDbSink).                             *)
THEOREM CommandImplementsSink == Spec => Sink!Spec
<1>1. Init => Sink!Init
  BY DEF Init
<1>2. [Next]_vars => [Sink!Next]_(Sink!vars)
  BY NextSink DEF sinkVars, Sink!vars
<1> QED
  BY <1>1, <1>2, PTL DEF Spec, Sink!Spec

LEMMA ImplementsP == Spec => P!Spec
BY InitP, NextP, PTL DEF Spec, P!Spec

(* What NuDbPublish guarantees, whichever of its calls fail ...            *)
LEMMA SinkFinal == Spec => [](P!TypeOK /\ P!PhaseInv /\ P!FinalInv)
<1>1. P!Spec => [](P!TypeOK /\ P!PhaseInv /\ P!FinalInv)
  BY SinkConstants, P!FinalCorrect
<1> QED
  BY ImplementsP, <1>1, PTL

(* ... and if the rename of the key file does not.                         *)
LEMMA SinkIInv ==
  ASSUME P!KeySwapNeverFails
  PROVE  Spec => []P!IInv
<1>1. P!Spec => []P!IInv
  BY SinkConstants, P!IInvCorrect
<1> QED
  BY ImplementsP, <1>1, PTL

(* So the whole command implements StoreService: whatever main does around *)
(* the swap (an early return, a kill, a rerun after a refused              *)
(* transaction.db), a program that opens the store finds the output of one *)
(* complete run, or finds it out of service.                               *)
THEOREM CommandImplementsService ==
  ASSUME P!KeySwapNeverFails
  PROVE  Spec => P!ImplementsService
<1>1. P!Spec => P!ImplementsService
  BY SinkConstants, P!SwapImplementsService
<1> QED
  BY ImplementsP, <1>1, PTL

-----------------------------------------------------------------------------
(* The chunk files                                                         *)

LEMMA ChunkFacts ==
  ASSUME NEW n \in 1..Len(Chunks)
  PROVE  /\ Chunks[n] \in Seq(Ledgers) /\ Chunks[n] # <<>>
         /\ Len(Chunks[n]) \in Nat \ {0}
         /\ Tail(Chunks[n]) \in Seq(Ledgers)
<1>1. Chunks[n] \in Seq(Nat) \ {<<>>} /\ n \in DOMAIN Chunks
  BY ChunksAssumption
<1>2. \A k \in 1..Len(Chunks[n]) : Chunks[n][k] \in Ledgers
  BY <1>1 DEF Ledgers
<1>3. Chunks[n] \in Seq(Ledgers)
  BY <1>1, <1>2
<1> QED
  BY <1>1, <1>3

Elements(s) == {s[i] : i \in DOMAIN s}

(* The elements of a sequence without its first, and of one after another. *)
LEMMA TailElements ==
  ASSUME NEW S, NEW c \in Seq(S), c # <<>>
  PROVE  Elements(Tail(c)) = {c[k] : k \in 2..Len(c)}
<1>1. /\ Len(c) \in Nat \ {0} /\ Tail(c) \in Seq(S) /\ Len(Tail(c)) = Len(c) - 1
      /\ DOMAIN Tail(c) = 1..(Len(c) - 1)
      /\ \A i \in 1..(Len(c) - 1) : Tail(c)[i] = c[i + 1]
  OBVIOUS
<1>2. \A k \in 2..Len(c) : k - 1 \in 1..(Len(c) - 1) /\ c[k] = Tail(c)[k - 1]
  BY <1>1
<1>3. \A i \in 1..(Len(c) - 1) : i + 1 \in 2..Len(c)
  BY <1>1
<1> QED
  BY <1>1, <1>2, <1>3 DEF Elements

LEMMA ConcatElements ==
  ASSUME NEW S, NEW s \in Seq(S), NEW t \in Seq(S)
  PROVE  Elements(s \o t) = Elements(s) \cup Elements(t)
<1>1. /\ s \o t \in Seq(S) /\ DOMAIN (s \o t) = 1..(Len(s) + Len(t))
      /\ DOMAIN s = 1..Len(s) /\ DOMAIN t = 1..Len(t)
      /\ Len(s) \in Nat /\ Len(t) \in Nat
      /\ \A i \in 1..(Len(s) + Len(t)) :
           (s \o t)[i] = IF i <= Len(s) THEN s[i] ELSE t[i - Len(s)]
  OBVIOUS
<1>2. \A i \in 1..(Len(s) + Len(t)) :
        i <= Len(s) => i \in 1..Len(s) /\ (s \o t)[i] = s[i]
  BY <1>1
<1>3. \A i \in 1..(Len(s) + Len(t)) :
        ~(i <= Len(s)) => i - Len(s) \in 1..Len(t) /\ (s \o t)[i] = t[i - Len(s)]
  BY <1>1
<1>4. \A i \in 1..Len(s) : i \in 1..(Len(s) + Len(t)) /\ (s \o t)[i] = s[i]
  BY <1>1
<1>5. \A i \in 1..Len(t) :
        Len(s) + i \in 1..(Len(s) + Len(t)) /\ (s \o t)[Len(s) + i] = t[i]
  BY <1>1
<1>6. ASSUME NEW x \in Elements(s \o t) PROVE x \in Elements(s) \cup Elements(t)
  <2>1. PICK i \in 1..(Len(s) + Len(t)) : x = (s \o t)[i]
    BY <1>1, <1>6 DEF Elements
  <2>2. CASE i <= Len(s)
    <3>1. i \in DOMAIN s /\ x = s[i]
      BY <1>1, <1>2, <2>1, <2>2
    <3> QED
      BY <3>1 DEF Elements
  <2>3. CASE ~(i <= Len(s))
    <3>1. i - Len(s) \in DOMAIN t /\ x = t[i - Len(s)]
      BY <1>1, <1>3, <2>1, <2>3
    <3> QED
      BY <3>1 DEF Elements
  <2> QED
    BY <2>2, <2>3
<1>7. ASSUME NEW i \in DOMAIN s PROVE s[i] \in Elements(s \o t)
  <2>1. i \in DOMAIN (s \o t) /\ s[i] = (s \o t)[i]
    BY <1>1, <1>4
  <2> QED
    BY <2>1 DEF Elements
<1>8. ASSUME NEW i \in DOMAIN t PROVE t[i] \in Elements(s \o t)
  <2>1. Len(s) + i \in DOMAIN (s \o t) /\ t[i] = (s \o t)[Len(s) + i]
    BY <1>1, <1>5
  <2> QED
    BY <2>1 DEF Elements
<1>9. /\ \A x \in Elements(s) : x \in Elements(s \o t)
      /\ \A x \in Elements(t) : x \in Elements(s \o t)
  BY <1>7, <1>8, Zenon DEF Elements
<1> QED
  BY <1>6, <1>9, Zenon

LEMMA HeadElements ==
  ASSUME NEW S, NEW s \in Seq(S), s # <<>>
  PROVE  /\ Head(s) \in S /\ Tail(s) \in Seq(S)
         /\ Elements(s) = {Head(s)} \cup Elements(Tail(s))
<1>1. /\ Len(s) \in Nat \ {0} /\ Head(s) = s[1] /\ Head(s) \in S /\ Tail(s) \in Seq(S)
      /\ DOMAIN s = 1..Len(s) /\ 1 \in 1..Len(s)
  OBVIOUS
<1>2. {s[i] : i \in 1..Len(s)} = {s[1]} \cup {s[i] : i \in 2..Len(s)}
  <2>1. \A i \in 1..Len(s) : i = 1 \/ i \in 2..Len(s)
    BY <1>1
  <2>2. \A i \in 2..Len(s) : i \in 1..Len(s)
    BY <1>1
  <2> QED
    BY <1>1, <2>1, <2>2
<1>3. Elements(Tail(s)) = {s[i] : i \in 2..Len(s)}
  BY TailElements
<1>4. Elements(s) = {s[i] : i \in 1..Len(s)}
  BY <1>1 DEF Elements
<1>5. Elements(s) = {Head(s)} \cup Elements(Tail(s))
  BY <1>1, <1>2, <1>3, <1>4, Zenon
<1> QED
  BY <1>1, <1>5

(* What a chunk file adds to the number of times a ledger is there.        *)
LEMMA AddedIsNat ==
  ASSUME NEW n \in 1..Len(Chunks), NEW l
  PROVE  Cardinality({k \in DOMAIN Chunks[n] : Chunks[n][k] = l}) \in Nat
<1> DEFINE K == {k \in DOMAIN Chunks[n] : Chunks[n][k] = l}
<1>1. Len(Chunks[n]) \in Nat /\ DOMAIN Chunks[n] = 1..Len(Chunks[n])
  BY ChunkFacts
<1>2. IsFiniteSet(DOMAIN Chunks[n])
  BY <1>1, FS_Interval
<1>3. IsFiniteSet(K)
  BY <1>2, FS_Subset
<1> QED
  BY <1>3, FS_CardinalityType

-----------------------------------------------------------------------------
(* Types, and how main and the sink keep step                              *)

LEMMA SameType == P!TypeOK <=> Sink!TypeOK
BY DEF P!TypeOK, Sink!TypeOK, P!File, Sink!File, P!Absent, Sink!Absent, P!Name, Sink!Name

LEMMA InitStep == Init => TypeOK /\ StepInv
<1> SUFFICES ASSUME Init PROVE TypeOK /\ StepInv
  OBVIOUS
<1>1. Sink!TypeOK
  BY InitP, SinkConstants, P!InitType, SameType
<1>2. Len(Chunks) \in Nat
  BY ChunksAssumption
<1>3. /\ txTmp \in [by : {"nobody", "import"}, rows : [Ledgers -> Nat]]
      /\ txdb \in [by : {"nobody", "import", "xrpld"}, rows : [Ledgers -> Nat]]
  BY DEF Init, NoFile, NoRows
<1> QED
  BY <1>1, <1>2, <1>3 DEF Init, Sink!Init, TypeOK, StepInv

(* The files of a step are files.                                          *)
LEMMA FileTypes ==
  ASSUME TypeOK, [Next]_vars
  PROVE  /\ txTmp' \in [by : {"nobody", "import"}, rows : [Ledgers -> Nat]]
         /\ txdb' \in [by : {"nobody", "import", "xrpld"}, rows : [Ledgers -> Nat]]
<1> DEFINE Tmp == [by : {"nobody", "import"}, rows : [Ledgers -> Nat]]
           Db  == [by : {"nobody", "import", "xrpld"}, rows : [Ledgers -> Nat]]
<1>1. txTmp \in Tmp /\ txdb \in Db /\ txTmp \in Db
  BY DEF TypeOK
<1>2. /\ NoFile \in Tmp /\ NoFile \in Db /\ OurFile(NoRows) \in Tmp
      /\ [by |-> "xrpld", rows |-> NoRows] \in Db
  BY DEF NoFile, OurFile, NoRows
<1>3. CASE ReplayChunk
  <2>1. chunk + 1 \in 1..Len(Chunks)
    BY <1>3, ChunksAssumption DEF ReplayChunk, TypeOK
  <2>2. WithLedgersOf(txTmp, Chunks[chunk + 1]) \in Tmp
    <3> DEFINE Added(l) ==
          Cardinality({k \in DOMAIN Chunks[chunk + 1] : Chunks[chunk + 1][k] = l})
    <3>1. \A l : Added(l) \in Nat
      BY <2>1, AddedIsNat
    <3> HIDE DEF Added
    <3>2. [l \in Ledgers |-> txTmp.rows[l] + Added(l)] \in [Ledgers -> Nat]
      BY <1>1, <3>1
    <3>3. WithLedgersOf(txTmp, Chunks[chunk + 1])
            = [txTmp EXCEPT !.rows = [l \in Ledgers |-> txTmp.rows[l] + Added(l)]]
      BY DEF WithLedgersOf, Added
    <3> QED
      BY <1>1, <3>2, <3>3
  <2> QED
    BY <1>3, <1>1, <2>2 DEF ReplayChunk
<1>4. CASE ~ReplayChunk
  BY <1>1, <1>2, <1>4
     DEF Next, vars, Begin, GiveUp, SinkDropped, CreateTxdb, RefuseTxdb, CreateTxdbFails,
         ReplayFails, CommitTxdb, NoTxdb, PublishTxdb, FinishTxdbFails, SwapStep, SwapDone,
         SwapFailed, WriteRow, WriteRowFails, Complete, Crash, XrpldStarts, TxdbTakenAway
<1> QED
  BY <1>3, <1>4

LEMMA PendingType ==
  ASSUME TypeOK, [Next]_vars
  PROVE  pending' \in Seq(Ledgers)
<1>1. pending \in Seq(Ledgers) /\ <<>> \in Seq(Ledgers)
  BY DEF TypeOK
<1>2. CASE ReplayChunk
  <2>1. chunk + 1 \in 1..Len(Chunks)
    BY <1>2, ChunksAssumption DEF ReplayChunk, TypeOK
  <2> QED
    BY <1>1, <1>2, <2>1, ChunkFacts DEF ReplayChunk
<1>3. CASE WriteRow
  BY <1>1, <1>3, HeadElements DEF WriteRow
<1>4. CASE ~ReplayChunk /\ ~WriteRow
  BY <1>1, <1>4
     DEF Next, vars, Begin, GiveUp, SinkDropped, CreateTxdb, RefuseTxdb, CreateTxdbFails,
         ReplayFails, CommitTxdb, NoTxdb, PublishTxdb, FinishTxdbFails, SwapStep, SwapDone,
         SwapFailed, WriteRowFails, Complete, Crash, XrpldStarts, TxdbTakenAway
<1> QED
  BY <1>2, <1>3, <1>4

(* The rest, action by action: the sink moves exactly while main waits for *)
(* it.                                                                     *)
LEMMA NextStep ==
  ASSUME TypeOK, StepInv, [Next]_vars
  PROVE  TypeOK' /\ StepInv'
<1>1. Sink!TypeOK'
  <2>1. P!TypeOK /\ [P!Next]_(P!vars)
    BY NextP, SameType DEF TypeOK
  <2>2. P!TypeOK'
    BY <2>1, SinkConstants, P!NextType
  <2> QED
    BY <2>2 DEF P!TypeOK, Sink!TypeOK, P!File, Sink!File, P!Absent, Sink!Absent,
                P!Name, Sink!Name
<1>2. Len(Chunks) \in Nat /\ run \in Nat
  BY ChunksAssumption, SinkAssumption DEF TypeOK, Sink!TypeOK
<1> DEFINE Rest ==
      /\ options' \subseteq {"txdb", "ledger_db"}
      /\ at' \in {"down", "txdb", "replay", "publish", "swap", "rows", "giving_up"}
      /\ chunk' \in 0..Len(Chunks)
      /\ ledgerDb' \subseteq Ledgers
      /\ outcome' \in {"none", "ok", "err", "refused", "crash"}
      /\ pc' = "down" <=> at' \in {"down", "rows"}
      /\ StepInv'
<1> SUFFICES Rest
  BY <1>1, FileTypes, PendingType DEF TypeOK
<1> USE <1>2 DEF TypeOK, Sink!TypeOK, StepInv
<1>3. CASE Begin
  BY <1>3 DEF Begin, Sink!Create
<1>4. CASE SinkDropped
  BY <1>4 DEF SinkDropped, Sink!DropSink
<1>5. CASE CreateTxdb
  BY <1>5 DEF CreateTxdb, sinkVars
<1>6. CASE RefuseTxdb \/ CreateTxdbFails \/ ReplayFails
  BY <1>6 DEF RefuseTxdb, CreateTxdbFails, ReplayFails, GiveUp, Sink!Abort
<1>7. CASE ReplayChunk
  BY <1>7 DEF ReplayChunk, sinkVars
<1>8. CASE CommitTxdb \/ NoTxdb \/ PublishTxdb
  BY <1>8 DEF CommitTxdb, NoTxdb, PublishTxdb, sinkVars
<1>9. CASE FinishTxdbFails
  BY <1>9 DEF FinishTxdbFails, GiveUp, Sink!Abort
<1>10. CASE SwapStep
  BY <1>10
     DEF SwapStep, Sink!CloseDat, Sink!OpenKeyTmp, Sink!FillKeyTmp, Sink!KeyTmpFails,
         Sink!MoveOldKeyAside, Sink!MoveOldKeyAsideFails, Sink!SwapDat, Sink!SwapDatFails,
         Sink!SwapKey, Sink!PutOldKeyBack, Sink!RemoveKeyTmp
<1>11. CASE SwapDone
  BY <1>11 DEF SwapDone, Sink!RemoveBak
<1>12. CASE SwapFailed
  BY <1>12 DEF SwapFailed, Sink!DropSink, Sink!Abort
<1>13. CASE WriteRow
  <2>1. Head(pending) \in Ledgers
    BY <1>13, HeadElements DEF WriteRow
  <2> QED
    BY <1>13, <2>1 DEF WriteRow, sinkVars
<1>14. CASE WriteRowFails \/ Complete
  BY <1>14 DEF WriteRowFails, Complete, sinkVars
<1>15. CASE Crash
  BY <1>15 DEF Crash, sinkVars, Sink!Crash
<1>16. CASE XrpldStarts \/ TxdbTakenAway
  BY <1>16 DEF XrpldStarts, TxdbTakenAway, sinkVars
<1>17. CASE UNCHANGED vars
  BY <1>17 DEF vars
<1> QED
  BY <1>3, <1>4, <1>5, <1>6, <1>7, <1>8, <1>9, <1>10, <1>11, <1>12, <1>13, <1>14,
     <1>15, <1>16, <1>17 DEF Next

LEMMA TypeCorrect == Spec => [](TypeOK /\ StepInv)
<1>1. (TypeOK /\ StepInv) /\ [Next]_vars => (TypeOK /\ StepInv)'
  BY NextStep
<1> QED
  BY InitStep, <1>1, PTL DEF Spec

-----------------------------------------------------------------------------
(* ledger.db: the rows of all chunk files                                  *)

LEMMA RowsOfFacts ==
  /\ RowsOf(0) = {}
  /\ \A n \in 0..(Len(Chunks) - 1) :
       RowsOf(n + 1) = RowsOf(n) \cup {Chunks[n + 1][k] : k \in 2..Len(Chunks[n + 1])}
  /\ RowsOf(Len(Chunks)) = RowLedgers
<1>1. Len(Chunks) \in Nat /\ DOMAIN Chunks = 1..Len(Chunks)
  BY ChunksAssumption
<1>2. \A n \in 0..(Len(Chunks) - 1) : 1..(n + 1) = 1..n \cup {n + 1}
  BY <1>1
<1>3. 1..0 = {}
  OBVIOUS
<1> QED
  BY <1>1, <1>2, <1>3 DEF RowsOf, RowLedgers

(* A row that is not yet in the database is pending, from its ledger's     *)
(* replay until its INSERT.                                                *)
LEMMA NextRows ==
  ASSUME TypeOK, StepInv, RowsInv, [Next]_vars
  PROVE  RowsInv'
<1>1. Len(Chunks) \in Nat
  BY ChunksAssumption
<1> USE DEF StepInv, RowsInv
<1>2. CASE Begin
  BY <1>2, RowsOfFacts DEF Begin, Pending
<1>3. CASE ReplayChunk
  <2>1. chunk + 1 \in 1..Len(Chunks) /\ chunk \in 0..(Len(Chunks) - 1)
    BY <1>3, <1>1 DEF ReplayChunk, TypeOK
  <2> DEFINE c == Chunks[chunk + 1]
  <2>2. pending \in Seq(Ledgers) /\ c \in Seq(Ledgers) /\ c # <<>> /\ Tail(c) \in Seq(Ledgers)
    BY <2>1, ChunkFacts DEF TypeOK
  <2>3. pending' = pending \o Tail(c) /\ chunk' = chunk + 1
    BY <1>3 DEF ReplayChunk
  <2>4. Pending' = Pending \cup Elements(Tail(c))
    <3>1. Elements(pending \o Tail(c)) = Elements(pending) \cup Elements(Tail(c))
      <4> DEFINE t == Tail(c)
      <4>1. pending \in Seq(Ledgers) /\ t \in Seq(Ledgers)
        BY <2>2
      <4> HIDE DEF t
      <4>2. Elements(pending \o t) = Elements(pending) \cup Elements(t)
        BY <4>1, ConcatElements
      <4> QED
        BY <4>2 DEF t
    <3>2. Pending = Elements(pending) /\ Pending' = Elements(pending')
      BY DEF Pending, Elements
    <3> QED
      BY <2>3, <3>1, <3>2
  <2>5. Pending' = Pending \cup {c[k] : k \in 2..Len(c)}
    BY <2>2, <2>4, TailElements
  <2>6. Pending' = RowsOf(chunk + 1)
    BY <1>3, <2>1, <2>5, RowsOfFacts DEF ReplayChunk
  <2> QED
    BY <1>3, <2>3, <2>6 DEF ReplayChunk
<1>4. CASE SwapDone
  BY <1>4, RowsOfFacts DEF SwapDone, Pending
<1>5. CASE WriteRow
  <2>1. Pending = {Head(pending)} \cup Pending'
    <3>1. pending \in Seq(Ledgers) /\ pending # <<>> /\ pending' = Tail(pending)
      BY <1>5 DEF WriteRow, TypeOK
    <3>2. Elements(pending) = {Head(pending)} \cup Elements(Tail(pending))
      BY <3>1, HeadElements
    <3>3. Pending = Elements(pending) /\ Pending' = Elements(pending')
      BY DEF Pending, Elements
    <3> QED
      BY <3>1, <3>2, <3>3
  <2> QED
    BY <1>5, <2>1 DEF WriteRow
<1>6. CASE WriteRowFails
  BY <1>6 DEF WriteRowFails
<1>7. CASE Complete
  <2>1. pending = <<>> => Pending = {}
    BY DEF Pending
  <2> QED
    BY <1>7, <2>1 DEF Complete
<1>8. CASE SinkDropped \/ RefuseTxdb \/ CreateTxdbFails \/ ReplayFails \/ FinishTxdbFails
  BY <1>8 DEF SinkDropped, RefuseTxdb, CreateTxdbFails, ReplayFails, FinishTxdbFails, GiveUp,
              Pending
<1>9. CASE CreateTxdb \/ CommitTxdb \/ NoTxdb \/ PublishTxdb
  BY <1>9 DEF CreateTxdb, CommitTxdb, NoTxdb, PublishTxdb, Pending
<1>10. CASE SwapStep \/ SwapFailed
  BY <1>10 DEF SwapStep, SwapFailed, Pending
<1>11. CASE Crash \/ XrpldStarts \/ TxdbTakenAway \/ UNCHANGED vars
  BY <1>11 DEF Crash, XrpldStarts, TxdbTakenAway, vars, Pending
<1> QED
  BY <1>2, <1>3, <1>4, <1>5, <1>6, <1>7, <1>8, <1>9, <1>10, <1>11 DEF Next

LEMMA RowsCorrect == Spec => []RowsInv
<1>1. Init => RowsInv
  BY DEF Init, RowsInv
<1>2. (TypeOK /\ StepInv) /\ RowsInv /\ [Next]_vars => RowsInv'
  BY NextRows
<1> QED
  BY TypeCorrect, <1>1, <1>2, PTL DEF Spec

(* When the command prints "Import complete." the store of this run is in  *)
(* place, both files of it, and ledger.db has a row for every ledger but   *)
(* the checkpoints: for any chunk files, whatever earlier runs left.       *)
THEOREM CompleteCommandIsComplete == Spec => []CompleteMeansAll
<1>1. TypeOK /\ StepInv /\ RowsInv /\ (P!TypeOK /\ P!PhaseInv /\ P!FinalInv) => CompleteMeansAll
  BY DEF StepInv, RowsInv, CompleteMeansAll, P!FinalInv, P!PublishedIsServed, P!Whole, Sink!Whole
<1> QED
  BY <1>1, TypeCorrect, RowsCorrect, SinkFinal, PTL

-----------------------------------------------------------------------------
(* transaction.db: every ledger once                                       *)

\* No two chunk files share a ledger, and none repeats one.  The importer does
\* not check it: its caller names the chunk files.
ChunksDisjoint ==
  \A m, n \in DOMAIN Chunks : \A j \in DOMAIN Chunks[m], k \in DOMAIN Chunks[n] :
    Chunks[m][j] = Chunks[n][k] => m = n /\ j = k

(* The number of entries of a chunk file that write a ledger is then 0 or 1. *)
LEMMA AddedOnce ==
  ASSUME ChunksDisjoint, NEW n \in 1..Len(Chunks), NEW l
  PROVE  Cardinality({k \in DOMAIN Chunks[n] : Chunks[n][k] = l})
           = IF \E k \in DOMAIN Chunks[n] : Chunks[n][k] = l THEN 1 ELSE 0
<1> DEFINE K == {k \in DOMAIN Chunks[n] : Chunks[n][k] = l}
<1>1. CASE \E k \in DOMAIN Chunks[n] : Chunks[n][k] = l
  <2>1. PICK k \in DOMAIN Chunks[n] : Chunks[n][k] = l
    BY <1>1
  <2>2. n \in DOMAIN Chunks
    BY ChunksAssumption
  <2>3. K = {k}
    BY <2>1, <2>2 DEF ChunksDisjoint
  <2> QED
    BY <1>1, <2>3, FS_Singleton
<1>2. CASE ~\E k \in DOMAIN Chunks[n] : Chunks[n][k] = l
  <2>1. K = {}
    BY <1>2
  <2> QED
    BY <1>2, <2>1, FS_EmptySet
<1> QED
  BY <1>1, <1>2

LEMMA OnceFacts ==
  /\ Once(0) = NoRows
  /\ Once(Len(Chunks)) = [l \in Ledgers |-> 1]
<1>1. Len(Chunks) \in Nat /\ DOMAIN Chunks = 1..Len(Chunks)
  BY ChunksAssumption
<1>2. 1..0 = {}
  OBVIOUS
<1>3. \A l \in Ledgers : \E m \in 1..Len(Chunks) : \E k \in DOMAIN Chunks[m] : Chunks[m][k] = l
  BY <1>1 DEF Ledgers
<1> QED
  BY <1>2, <1>3 DEF Once, NoRows

(* One more chunk file: its ledgers were not there before.                 *)
LEMMA OnceMore ==
  ASSUME ChunksDisjoint, NEW n \in 0..(Len(Chunks) - 1)
  PROVE  WithLedgersOf(OurFile(Once(n)), Chunks[n + 1]) = OurFile(Once(n + 1))
<1>1. /\ Len(Chunks) \in Nat /\ DOMAIN Chunks = 1..Len(Chunks)
      /\ n + 1 \in 1..Len(Chunks) /\ 1..(n + 1) = 1..n \cup {n + 1} /\ n + 1 \notin 1..n
      /\ 1..n \subseteq 1..Len(Chunks)
  BY ChunksAssumption
<1> DEFINE In(m, l) == \E k \in DOMAIN Chunks[m] : Chunks[m][k] = l
           Added(l) == Cardinality({k \in DOMAIN Chunks[n + 1] : Chunks[n + 1][k] = l})
           Before(l) == IF \E m \in 1..n : In(m, l) THEN 1 ELSE 0
           After(l) == IF \E m \in 1..(n + 1) : In(m, l) THEN 1 ELSE 0
<1>2. ASSUME NEW l \in Ledgers
      PROVE  Before(l) + Added(l) = After(l)
  <2>1. Added(l) = IF In(n + 1, l) THEN 1 ELSE 0
    BY <1>1, AddedOnce
  <2>2. ASSUME NEW m \in 1..n, In(m, l), In(n + 1, l)
        PROVE  FALSE
    <3>1. PICK j \in DOMAIN Chunks[m] : Chunks[m][j] = l
      BY <2>2
    <3>2. PICK k \in DOMAIN Chunks[n + 1] : Chunks[n + 1][k] = l
      BY <2>2
    <3>3. m = n + 1
      BY <1>1, <3>1, <3>2 DEF ChunksDisjoint
    <3> QED
      BY <1>1, <3>3
  <2> HIDE DEF In, Added
  <2>3. (\E m \in 1..(n + 1) : In(m, l)) <=> (\E m \in 1..n : In(m, l)) \/ In(n + 1, l)
    BY <1>1
  <2> QED
    BY <2>1, <2>2, <2>3
<1>3. OurFile(Once(n)).rows = [l \in Ledgers |-> Before(l)]
  BY DEF OurFile, Once
<1>4. WithLedgersOf(OurFile(Once(n)), Chunks[n + 1])
        = [OurFile(Once(n)) EXCEPT !.rows = [l \in Ledgers |-> Before(l) + Added(l)]]
  BY <1>3 DEF WithLedgersOf
<1>5. [l \in Ledgers |-> Before(l) + Added(l)] = [l \in Ledgers |-> After(l)]
  <2> HIDE DEF Before, After, Added
  <2> QED
    BY <1>2
<1>6. Once(n + 1) = [l \in Ledgers |-> After(l)]
  BY DEF Once
<1> HIDE DEF Before, After, Added
<1> QED
  BY <1>4, <1>5, <1>6 DEF OurFile

LEMMA NextTxdb ==
  ASSUME ChunksDisjoint, TypeOK, StepInv, TxdbInv, TxdbExact, [Next]_vars
  PROVE  TxdbInv' /\ TxdbExact'
<1> USE DEF StepInv, TxdbInv, TxdbExact
<1>1. CASE Begin
  BY <1>1 DEF Begin
<1>2. CASE CreateTxdb
  BY <1>2, OnceFacts DEF CreateTxdb
<1>3. CASE ReplayChunk
  <2>1. chunk \in 0..(Len(Chunks) - 1)
    BY <1>3, ChunksAssumption DEF ReplayChunk, TypeOK
  <2> QED
    BY <1>3, <2>1, OnceMore DEF ReplayChunk
<1>4. CASE PublishTxdb
  BY <1>4, OnceFacts DEF PublishTxdb, OurFile
<1>5. CASE SinkDropped \/ RefuseTxdb \/ CreateTxdbFails \/ ReplayFails \/ FinishTxdbFails
  BY <1>5 DEF SinkDropped, RefuseTxdb, CreateTxdbFails, ReplayFails, FinishTxdbFails, GiveUp
<1>6. CASE CommitTxdb \/ NoTxdb
  BY <1>6 DEF CommitTxdb, NoTxdb
<1>7. CASE SwapStep \/ SwapDone \/ SwapFailed
  BY <1>7 DEF SwapStep, SwapDone, SwapFailed
<1>8. CASE WriteRow \/ WriteRowFails \/ Complete
  BY <1>8 DEF WriteRow, WriteRowFails, Complete
<1>9. CASE Crash
  BY <1>9 DEF Crash
<1>10. CASE XrpldStarts \/ TxdbTakenAway
  BY <1>10 DEF XrpldStarts, TxdbTakenAway, NoFile
<1>11. CASE UNCHANGED vars
  BY <1>11 DEF vars
<1> QED
  BY <1>1, <1>2, <1>3, <1>4, <1>5, <1>6, <1>7, <1>8, <1>9, <1>10, <1>11 DEF Next

(* A transaction.db the importer has published has every ledger of the     *)
(* chunk files exactly once, whichever runs crashed or failed where: the   *)
(* file of a dead run is never continued and never renamed (TxDbSink).     *)
THEOREM PublishedTxdbIsExact ==
  ASSUME ChunksDisjoint
  PROVE  Spec => []TxdbExact
<1>1. Init => TxdbInv /\ TxdbExact
  BY DEF Init, TxdbInv, TxdbExact, NoFile
<1>2. (TypeOK /\ StepInv) /\ (TxdbInv /\ TxdbExact) /\ [Next]_vars => (TxdbInv /\ TxdbExact)'
  BY NextTxdb
<1> QED
  BY TypeCorrect, <1>1, <1>2, PTL DEF Spec

-----------------------------------------------------------------------------
(* Both together: rows only of ledgers the store in place has              *)

(* A store with no run's data cannot come back once a row is written.      *)
LEMMA NextNewer ==
  ASSUME TypeOK, StepInv, P!IInv, P!FinalInv, NewerInv, [Next]_vars
  PROVE  NewerInv'
<1> SUFFICES ASSUME ledgerDb' # {}
             PROVE  NewerInv'
  BY DEF NewerInv
<1>1. /\ disk \in [P!Name -> P!File \cup {P!Absent}]
      /\ base \in [dat : P!File \cup {P!Absent}, key : P!File \cup {P!Absent}]
      /\ run \in Nat /\ MaxRuns \in Nat
      /\ P!Absent = Sink!Absent
  BY SinkAssumption, SameType DEF TypeOK, P!TypeOK, P!Absent, Sink!Absent
<1>2. CASE ledgerDb = {}
  <2>1. WriteRow
    BY <1>2
       DEF Next, vars, Begin, GiveUp, SinkDropped, CreateTxdb, RefuseTxdb, CreateTxdbFails,
           ReplayChunk, ReplayFails, CommitTxdb, NoTxdb, PublishTxdb, FinishTxdbFails, SwapStep,
           SwapDone, SwapFailed, WriteRowFails, Complete, Crash, XrpldStarts, TxdbTakenAway
  <2>2. disk["key"] = P!Whole(run) /\ run >= 1 /\ pc = "down"
    BY <2>1 DEF WriteRow, StepInv, TypeOK, P!FinalInv, P!PublishedIsServed
  <2> QED
    BY <2>1, <2>2 DEF WriteRow, sinkVars, NewerInv, P!Whole
<1>3. CASE ledgerDb # {}
  <2> DEFINE Newer(f) == f # P!Absent => f.gen >= 1
  <2>1. Newer(disk["key"]) /\ (pc # "down" => Newer(base.key))
    BY <1>1, <1>3 DEF NewerInv, Sink!Exists
  <2> SUFFICES Newer(disk'["key"]) /\ (pc' # "down" => Newer(base'.key))
    BY <1>1 DEF NewerInv, Sink!Exists
  <2>2. [P!Next]_(P!vars)
    BY NextP
  <2> USE <1>1, <2>1
      DEF P!Name, P!Wrote, P!Renamed, P!Removed, P!RemoveQuietly, P!Exists
  <2>3. CASE P!Create
    BY <2>3 DEF P!Create
  <2>4. CASE P!MoveOldKeyAside
    BY <2>4 DEF P!MoveOldKeyAside
  <2>5. CASE P!SwapKey
    <3>1. disk["key.tmp"].gen >= 1 \/ UNCHANGED disk
      <4>1. CASE disk' = P!Renamed("key.tmp", "key")
        BY <2>5 DEF P!SwapKey, P!IInv, P!PhaseInv, StepInv, P!Whole
      <4> QED
        BY <2>5, <4>1 DEF P!SwapKey
    <3> QED
      BY <2>5, <3>1 DEF P!SwapKey
  <2>6. CASE P!PutOldKeyBack
    BY <2>6 DEF P!PutOldKeyBack, P!IInv, P!OldStoreInv
  <2>7. CASE P!CloseDat \/ P!Abort \/ P!OpenKeyTmp \/ P!FillKeyTmp \/ P!KeyTmpFails
              \/ P!MoveOldKeyAsideFails \/ P!SwapDat \/ P!SwapDatFails \/ P!RemoveBak
              \/ P!RemoveKeyTmp \/ P!DropSink \/ P!Crash \/ UNCHANGED P!vars
    BY <2>7
       DEF P!CloseDat, P!Abort, P!OpenKeyTmp, P!FillKeyTmp, P!KeyTmpFails,
           P!MoveOldKeyAsideFails, P!SwapDat, P!SwapDatFails, P!RemoveBak, P!RemoveKeyTmp,
           P!DropSink, P!Crash, P!vars
  <2> HIDE DEF Newer
  <2> QED
    BY <2>2, <2>3, <2>4, <2>5, <2>6, <2>7 DEF P!Next
<1> QED
  BY <1>2, <1>3

(* When ledger.db has rows and the store opens, both its files are of one  *)
(* run, and of a run: never the store from before the import, whichever    *)
(* run crashed or failed where, unless the rename of the key file fails    *)
(* (NuDbPublishTorn shows what that does to the pair).                     *)
THEOREM RowsComeAfterTheStore ==
  ASSUME P!KeySwapNeverFails
  PROVE  Spec => []RowsAfterStore
<1>1. Init => NewerInv
  BY DEF Init, NewerInv
<1>2. (TypeOK /\ StepInv) /\ P!IInv /\ P!FinalInv /\ NewerInv /\ [Next]_vars => NewerInv'
  BY NextNewer
<1>3. NewerInv /\ P!IInv => RowsAfterStore
  BY DEF NewerInv, RowsAfterStore, P!IInv, P!PairedStore, Sink!Exists, P!Exists, Sink!Absent,
         P!Absent
<1> QED
  BY TypeCorrect, SinkIInv, SinkFinal, <1>1, <1>2, <1>3, PTL DEF Spec

=============================================================================
