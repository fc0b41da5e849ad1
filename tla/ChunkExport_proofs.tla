------------------------- MODULE ChunkExport_proofs -------------------------
(***************************************************************************)
(* Proofs about ChunkExport, for any range of ledgers, any trees, chunk    *)
(* sizes and batch sizes, and any number of runs, failures and kills.      *)
(*                                                                         *)
(* Five invariants on top of TypeOK: Flow (the batch holds the ledgers     *)
(* from prev + 1 on, in order), Bounds (what the open chunk holds, against *)
(* what its header says), Cover (the ledgers before the open chunk are in  *)
(* files), Trees (the running state is the tree of the last ledger         *)
(* applied, and every chunk replays) and Gapless (the ledgers in files     *)
(* leave no gap).  They make every step one of LedgerArchive, or none.     *)
(***************************************************************************)
EXTENDS ChunkExport, FiniteSetTheorems, SequenceTheorems, WellFoundedInduction, TLAPS

\* The two conditions the code relies on and does not check.
NoWrap           == \A z \in ChunkSizes : End + z <= WordSize
StoreKeepsNodes  == ~OldNodesGone

-----------------------------------------------------------------------------
(* Diffs                                                                   *)

(* Two different trees: the lists of the definition.                       *)
LEMMA DiffShape ==
  ASSUME NEW old, NEW new, old # new, NEW diff \in DiffLists(old, new)
  PROVE  \E moved \in SUBSET (old \cap new), lost \in Overlooked(old, new) :
           diff = [added |-> (new \ old) \cup moved, deleted |-> ((old \ new) \cup moved) \ lost]
BY DEF DiffLists

(* A diff's lists are lists of nodes.                                      *)
LEMMA DiffType ==
  ASSUME NEW old \in SUBSET Node, NEW new \in SUBSET Node, NEW diff \in DiffLists(old, new)
  PROVE  /\ diff \in [added : SUBSET Node, deleted : SUBSET Node]
         /\ \A s \in SUBSET Node : Applied(s, diff) \subseteq Node
<1>1. PICK add \in SUBSET Node, del \in SUBSET Node : diff = [added |-> add, deleted |-> del]
  <2>1. CASE old = new
    BY <2>1 DEF DiffLists
  <2>2. CASE old # new
    <3>1. PICK moved \in SUBSET (old \cap new), lost \in Overlooked(old, new) :
            diff = [added |-> (new \ old) \cup moved, deleted |-> ((old \ new) \cup moved) \ lost]
      BY <2>2, DiffShape
    <3>2. (new \ old) \cup moved \in SUBSET Node /\ ((old \ new) \cup moved) \ lost \in SUBSET Node
      OBVIOUS
    <3>3. QED
      BY <3>1, <3>2
  <2>3. QED
    BY <2>1, <2>2
<1>2. QED
  BY <1>1 DEF Applied

(* Applied to the old tree it gives the new one, a node that changed its   *)
(* depth included, and it deletes nothing that is not there.               *)
LEMMA DiffApplies ==
  ASSUME StoreKeepsNodes, NEW old, NEW new, NEW diff \in DiffLists(old, new)
  PROVE  Applied(old, diff) = new /\ diff.deleted \subseteq old
<1>1. CASE old = new
  BY <1>1 DEF DiffLists, Applied
<1>2. CASE old # new
  <2>1. PICK moved \in SUBSET (old \cap new), lost \in Overlooked(old, new) :
          diff = [added |-> (new \ old) \cup moved, deleted |-> ((old \ new) \cup moved) \ lost]
    BY <1>2 DEF DiffLists
  <2>2. lost = {}
    BY DEF Overlooked, StoreKeepsNodes
  <2>3. diff.added = (new \ old) \cup moved /\ diff.deleted = (old \ new) \cup moved
    BY <2>1, <2>2
  <2>4. (old \ diff.deleted) \cup diff.added = new
    BY <2>3
  <2>5. QED
    BY <2>3, <2>4 DEF Applied
<1>3. QED
  BY <1>1, <1>2

-----------------------------------------------------------------------------
(* Chunks                                                                  *)

(* The last ledger a header gives, with and without the sum wrapping.      *)
LEMMA ChunkEndFacts ==
  ASSUME NEW first \in Start..End, size \in ChunkSizes
  PROVE  /\ ChunkEnd(first) \in 0..End
         /\ NoWrap => ChunkEnd(first) = Least(first + size - 1, End)
<1>1. size \in 1..(WordSize - 1) /\ first \in Nat /\ End \in Nat /\ WordSize \in Nat \ {0}
  BY ArgsAssumption
<1>2. first + size - 1 \in Nat
  BY <1>1
<1>3. (first + size - 1) % WordSize \in 0..(WordSize - 1)
  BY <1>1, <1>2
<1>4. ASSUME NoWrap PROVE (first + size - 1) % WordSize = first + size - 1
  <2>1. End + size <= WordSize
    BY <1>4 DEF NoWrap
  <2>2. first + size - 1 < WordSize
    BY <1>1, <2>1
  <2>3. QED
    BY <1>1, <1>2, <2>2
<1>5. QED
  BY <1>1, <1>3, <1>4 DEF ChunkEnd, Least

(* What Create writes is a chunk.                                          *)
LEMMA NewChunkType ==
  ASSUME NEW first \in Start..End, NEW nodes \in SUBSET Node, size \in ChunkSizes
  PROVE  /\ NewChunk(first, nodes) \in Chunk
         /\ Name(NewChunk(first, nodes)) \in (Start..End) \X (0..End)
         /\ NewChunk(first, nodes) # None
<1>1. ChunkEnd(first) \in 0..End
  BY ChunkEndFacts
<1>2. <<>> \in Seq([added : SUBSET Node, deleted : SUBSET Node])
  OBVIOUS
<1>3. NewChunk(first, nodes) \in Chunk
  BY <1>1, <1>2 DEF NewChunk, Chunk
<1>4. QED
  BY <1>1, <1>3, NoneAssumption DEF NewChunk, Name


-----------------------------------------------------------------------------
(* Type correctness                                                        *)

\* The batch in flight: the ledgers after prev, each paired with the one
\* before it.  A chunk is opened for the first of them.
Flow ==
  /\ phase = "open" => batch # <<>>
  /\ ~Stopped =>
       /\ next = prev + Len(batch) + 1
       /\ \A k \in 1..Len(batch) : batch[k] = [seq |-> prev + k, from |-> prev + k - 1]

TypeInv == TypeOK /\ Flow

LEMMA InitType == Init => TypeInv
<1> SUFFICES ASSUME Init PROVE TypeInv
  OBVIOUS
<1> USE ArgsAssumption, BoundAssumption DEF Init
<1>1. batch \in Seq([seq : Start..End, from : Start..End])
  OBVIOUS
<1>2. DOMAIN archive = {}
  OBVIOUS
<1>3. Stopped /\ phase # "open"
  BY DEF Stopped
<1>4. Start \in Start..End /\ Start \in Start..(End + 1)
  OBVIOUS
<1>5. tmps \subseteq (Start..End) \X (0..End) /\ writer \in Chunk \cup {None}
  OBVIOUS
<1>6. runs \in 0..MaxRuns /\ conc \in Nat \ {0}
  OBVIOUS
<1>7. TypeOK
  BY <1>1, <1>2, <1>3, <1>4, <1>5, <1>6 DEF TypeOK
<1>8. QED
  BY <1>3, <1>7 DEF TypeInv, Flow

(* A function on 1..n is a sequence.                                       *)
LEMMA FunctionIsSeq ==
  ASSUME NEW S, NEW n \in Nat, NEW f \in [1..n -> S]
  PROVE  f \in Seq(S)
BY SeqDef

(* The pairs of a batch continue where the last one stopped.               *)
LEMMA PairsFacts ==
  ASSUME TypeInv, phase = "loop", batch = <<>>, next <= End
  PROVE  /\ next = prev + 1
         /\ BatchEnd \in next..End
         /\ Pairs \in Seq([seq : Start..End, from : Start..End])
         /\ Len(Pairs) = BatchEnd - prev
         /\ \A k \in 1..Len(Pairs) : Pairs[k] = [seq |-> prev + k, from |-> prev + k - 1]
<1>1. next = prev + 1 /\ prev \in Start..End /\ conc \in Nat \ {0} /\ next \in Start..End
  BY ArgsAssumption DEF TypeInv, TypeOK, Flow, Stopped
<1>2. BatchEnd \in next..End
  BY <1>1, ArgsAssumption DEF BatchEnd, Least, Most
<1> DEFINE n == BatchEnd - next + 1
<1>3. n \in Nat /\ n = BatchEnd - prev
  BY <1>1, <1>2, ArgsAssumption
<1>4. \A k \in 1..n :
        [seq |-> next + k - 1, from |-> IF k = 1 THEN prev ELSE next + k - 2]
          = [seq |-> prev + k, from |-> prev + k - 1]
  BY <1>1, <1>3, ArgsAssumption
<1>5. \A k \in 1..n : [seq |-> prev + k, from |-> prev + k - 1] \in [seq : Start..End, from : Start..End]
  BY <1>1, <1>2, <1>3, ArgsAssumption
<1>6. Pairs = [k \in 1..n |-> [seq |-> prev + k, from |-> prev + k - 1]]
  BY <1>4 DEF Pairs
<1> HIDE DEF n
<1> DEFINE pair(k) == [seq |-> prev + k, from |-> prev + k - 1]
<1> HIDE DEF pair
<1>7. Pairs \in Seq([seq : Start..End, from : Start..End])
  <2>1. Pairs = [k \in 1..n |-> pair(k)]
    BY <1>6 DEF pair
  <2>2. \A k \in 1..n : pair(k) \in [seq : Start..End, from : Start..End]
    BY <1>5 DEF pair
  <2>3. Pairs \in [1..n -> [seq : Start..End, from : Start..End]]
    BY <2>1, <2>2
  <2>4. QED
    BY <1>3, <2>3, FunctionIsSeq
<1>8. Len(Pairs) = n
  BY <1>3, <1>6
<1>9. QED
  BY <1>1, <1>2, <1>3, <1>6, <1>7, <1>8

(* Taking the first ledger off the batch.                                  *)
LEMMA TakeFirst ==
  ASSUME TypeInv, ~Stopped, batch # <<>>
  PROVE  /\ Head(batch) = [seq |-> prev + 1, from |-> prev] /\ Head(batch).seq = prev + 1
         /\ prev + 1 \in Start..End /\ prev \in Start..End
         /\ Tail(batch) \in Seq([seq : Start..End, from : Start..End])
         /\ Len(Tail(batch)) = Len(batch) - 1
         /\ next = (prev + 1) + Len(Tail(batch)) + 1
         /\ \A k \in 1..Len(Tail(batch)) :
              Tail(batch)[k] = [seq |-> (prev + 1) + k, from |-> (prev + 1) + k - 1]
<1>1. batch \in Seq([seq : Start..End, from : Start..End]) /\ prev \in Start..End
  BY DEF TypeInv, TypeOK
<1>2. /\ next = prev + Len(batch) + 1
      /\ \A k \in 1..Len(batch) : batch[k] = [seq |-> prev + k, from |-> prev + k - 1]
  BY DEF TypeInv, Flow
<1>3. Len(batch) \in Nat /\ Len(batch) >= 1
  BY <1>1, EmptySeq, LenProperties
<1>4. Head(batch) = batch[1] /\ batch[1] \in [seq : Start..End, from : Start..End]
  <2>1. Head(batch) = batch[1]
    BY <1>1, HeadTailProperties
  <2>2. 1 \in 1..Len(batch)
    BY <1>3
  <2>3. batch[1] \in [seq : Start..End, from : Start..End]
    BY <1>1, <2>2, ElementOfSeq
  <2>4. QED
    BY <2>1, <2>3
<1>5. batch[1] = [seq |-> prev + 1, from |-> prev]
  <2>1. batch[1] = [seq |-> prev + 1, from |-> prev + 1 - 1]
    BY <1>2, <1>3
  <2>2. prev + 1 - 1 = prev
    BY <1>1, ArgsAssumption
  <2>3. QED
    BY <2>1, <2>2
<1>6. prev + 1 \in Start..End
  BY <1>4, <1>5
<1>7. /\ Tail(batch) \in Seq([seq : Start..End, from : Start..End])
      /\ Len(Tail(batch)) = Len(batch) - 1
      /\ \A k \in 1..Len(Tail(batch)) : Tail(batch)[k] = batch[k + 1]
  BY <1>1, <1>3
<1>8. \A k \in 1..Len(Tail(batch)) :
        Tail(batch)[k] = [seq |-> (prev + 1) + k, from |-> (prev + 1) + k - 1]
  <2> SUFFICES ASSUME NEW k \in 1..Len(Tail(batch))
               PROVE  Tail(batch)[k] = [seq |-> (prev + 1) + k, from |-> (prev + 1) + k - 1]
    OBVIOUS
  <2>1. k + 1 \in 1..Len(batch) /\ k \in Nat
    BY <1>3, <1>7
  <2>2. Tail(batch)[k] = [seq |-> prev + (k + 1), from |-> prev + (k + 1) - 1]
    BY <1>2, <1>7, <2>1
  <2>3. prev + (k + 1) = (prev + 1) + k /\ prev + (k + 1) - 1 = (prev + 1) + k - 1
    BY <1>1, <2>1, ArgsAssumption
  <2>4. QED
    BY <2>2, <2>3
<1>9. next = (prev + 1) + Len(Tail(batch)) + 1
  BY <1>1, <1>2, <1>3, <1>7, ArgsAssumption
<1>10. Head(batch) = [seq |-> prev + 1, from |-> prev]
  BY <1>4, <1>5
<1>11. Head(batch).seq = prev + 1
  BY <1>10
<1>12. QED
  BY <1>1, <1>6, <1>7, <1>8, <1>9, <1>10, <1>11

(* What the open chunk becomes is still a chunk.                           *)
LEMMA GrowChunk ==
  ASSUME NEW w \in Chunk, NEW diff \in [added : SUBSET Node, deleted : SUBSET Node]
  PROVE  [w EXCEPT !.deltas = Append(@, diff)] \in Chunk
<1>1. w.deltas \in Seq([added : SUBSET Node, deleted : SUBSET Node])
  BY DEF Chunk
<1>2. Append(w.deltas, diff) \in Seq([added : SUBSET Node, deleted : SUBSET Node])
  BY <1>1, AppendProperties
<1>3. QED
  BY <1>2 DEF Chunk

(* A chunk's name is a pair of ledgers.                                    *)
LEMMA NameType ==
  ASSUME NEW w \in Chunk
  PROVE  Name(w) \in (Start..End) \X (0..End)
BY DEF Name, Chunk

(* What applying the next diff leaves in the running state and the chunk.  *)
LEMMA ApplyType ==
  ASSUME TypeInv, NextDiffApplied
  PROVE  /\ state' \subseteq Node
         /\ writer \in Chunk
         /\ writer' \in Chunk
         /\ ~Stopped
<1>1. phase = "loop" /\ batch # <<>> /\ ~Stopped
  BY DEF NextDiffApplied, Stopped
<1>2. writer \in Chunk /\ state \subseteq Node
  BY <1>1 DEF TypeInv, TypeOK
<1>3. Head(batch) = [seq |-> prev + 1, from |-> prev] /\ prev + 1 \in Start..End /\ prev \in Start..End
  BY <1>1, TakeFirst
<1>4. Tree[Head(batch).from] \in SUBSET Node /\ Tree[Head(batch).seq] \in SUBSET Node
  BY <1>3, TreeAssumption
<1>5. PICK diff \in DiffLists(Tree[Head(batch).from], Tree[Head(batch).seq]) :
        /\ state' = Applied(state, diff)
        /\ writer' = IF Head(batch).seq - chunkStart = size
                     THEN writer
                     ELSE [writer EXCEPT !.deltas = Append(@, diff)]
  BY DEF NextDiffApplied
<1>6. /\ diff \in [added : SUBSET Node, deleted : SUBSET Node]
      /\ \A s \in SUBSET Node : Applied(s, diff) \subseteq Node
  BY <1>4, DiffType
<1>7. state' \subseteq Node
  BY <1>2, <1>5, <1>6
<1>8. [writer EXCEPT !.deltas = Append(@, diff)] \in Chunk
  BY <1>2, <1>6, GrowChunk
<1>9. QED
  BY <1>1, <1>2, <1>5, <1>7, <1>8

LEMMA NextType == TypeInv /\ [Next]_vars => TypeInv'
<1> SUFFICES ASSUME TypeInv, [Next]_vars PROVE TypeInv'
  OBVIOUS
<1>0. TypeOK /\ Flow
  BY DEF TypeInv
<1>1. CASE Begin
  <2>1. Start \in Start..End /\ Tree[Start] \in SUBSET Node
    BY ArgsAssumption, TreeAssumption
  <2>2. /\ writer' \in Chunk /\ writer' # None
        /\ tmps' \subseteq (Start..End) \X (0..End)
    BY <1>0, <1>1, <2>1, NewChunkType DEF Begin, Create, TypeOK
  <2>3. /\ phase' = "loop" /\ batch' = <<>> /\ prev' = Start /\ chunkStart' = Start
        /\ next' = Start + 1 /\ state' = Tree[Start] /\ conc' \in Levels /\ runs' = runs + 1
        /\ runs < MaxRuns
        /\ UNCHANGED <<size, archive>>
    BY <1>1 DEF Begin
  <2>4. /\ batch' \in Seq([seq : Start..End, from : Start..End])
        /\ next' \in Start..(End + 1) /\ conc' \in Nat \ {0}
        /\ runs' \in 0..MaxRuns /\ Len(batch') = 0
    BY <1>0, <2>3, ArgsAssumption, BoundAssumption DEF TypeOK
  <2>5. TypeOK'
    BY <1>0, <2>1, <2>2, <2>3, <2>4 DEF TypeOK, Stopped
  <2>6. Flow'
    BY <2>3, <2>4, ArgsAssumption DEF Flow
  <2>7. QED
    BY <2>5, <2>6 DEF TypeInv
<1>2. CASE BeginFails
  <2>1. /\ phase' = "failed" /\ writer' = writer /\ writer = None
        /\ runs' = runs + 1 /\ runs < MaxRuns
        /\ UNCHANGED <<size, conc, state, next, batch, prev, chunkStart, tmps, archive>>
    BY <1>0, <1>2 DEF BeginFails, TypeOK, Stopped
  <2>2. runs' \in 0..MaxRuns
    BY <1>0, <2>1, BoundAssumption DEF TypeOK
  <2>3. QED
    BY <1>0, <2>1, <2>2 DEF TypeInv, TypeOK, Flow, Stopped
<1>3. CASE FetchBatch
  <2>1. /\ phase = "loop" /\ batch = <<>> /\ next <= End /\ batch' = Pairs /\ next' = BatchEnd + 1
        /\ UNCHANGED <<size, phase, runs, conc, state, prev, chunkStart, writer, tmps, archive>>
    BY <1>3 DEF FetchBatch
  <2>2. /\ next = prev + 1 /\ BatchEnd \in next..End
        /\ Pairs \in Seq([seq : Start..End, from : Start..End])
        /\ Len(Pairs) = BatchEnd - prev
        /\ \A k \in 1..Len(Pairs) : Pairs[k] = [seq |-> prev + k, from |-> prev + k - 1]
    BY <2>1, PairsFacts
  <2>3. next' \in Start..(End + 1) /\ next' = prev + Len(batch') + 1
    BY <1>0, <2>1, <2>2, ArgsAssumption DEF TypeOK
  <2>4. TypeOK'
    BY <1>0, <2>1, <2>2, <2>3 DEF TypeOK, Stopped
  <2>5. Flow'
    BY <2>1, <2>2, <2>3 DEF Flow
  <2>6. QED
    BY <2>4, <2>5 DEF TypeInv
<1>4. CASE WriteDelta
  <2>1. /\ phase = "loop" /\ batch # <<>> /\ ~Stopped
        /\ UNCHANGED <<size, runs, conc, next, chunkStart, tmps, archive, phase>>
        /\ prev' = Head(batch).seq /\ batch' = Tail(batch)
    BY <1>4 DEF WriteDelta, NextDiffApplied, Stopped
  <2>2. state' \subseteq Node /\ writer' \in Chunk
    BY <1>4, ApplyType DEF WriteDelta
  <2>3. /\ prev' = prev + 1 /\ prev' \in Start..End
        /\ batch' \in Seq([seq : Start..End, from : Start..End])
        /\ next' = prev' + Len(batch') + 1
        /\ \A k \in 1..Len(batch') : batch'[k] = [seq |-> prev' + k, from |-> prev' + k - 1]
    BY <2>1, TakeFirst
  <2>4. TypeOK'
    BY <1>0, <2>1, <2>2, <2>3, NoneAssumption DEF TypeOK, Stopped
  <2>5. Flow'
    BY <2>1, <2>3 DEF Flow
  <2>6. QED
    BY <2>4, <2>5 DEF TypeInv
<1>5. CASE ChunkIsFull
  <2>1. /\ phase = "loop" /\ batch # <<>> /\ phase' = "finish" /\ ~Stopped
        /\ UNCHANGED <<size, runs, conc, next, chunkStart, tmps, archive, prev, batch>>
    BY <1>5 DEF ChunkIsFull, NextDiffApplied, Stopped
  <2>2. state' \subseteq Node /\ writer' \in Chunk
    BY <1>5, ApplyType DEF ChunkIsFull
  <2>3. TypeOK'
    BY <1>0, <2>1, <2>2, NoneAssumption DEF TypeOK, Stopped
  <2>4. Flow'
    BY <1>0, <2>1 DEF Flow
  <2>5. QED
    BY <2>3, <2>4 DEF TypeInv
<1>6. CASE OpenNextChunk
  <2>1. /\ phase = "open" /\ ~Stopped /\ phase' = "loop"
        /\ UNCHANGED <<size, runs, conc, state, next, archive>>
        /\ prev' = Head(batch).seq /\ batch' = Tail(batch) /\ chunkStart' = Head(batch).seq
        /\ Create(Head(batch).seq, state)
    BY <1>6 DEF OpenNextChunk, Stopped
  <2>2. batch # <<>>
    BY <1>0, <2>1 DEF Flow
  <2>3. /\ Head(batch).seq = prev + 1 /\ prev' = prev + 1 /\ prev' \in Start..End
        /\ batch' \in Seq([seq : Start..End, from : Start..End])
        /\ next' = prev' + Len(batch') + 1
        /\ \A k \in 1..Len(batch') : batch'[k] = [seq |-> prev' + k, from |-> prev' + k - 1]
    BY <2>1, <2>2, TakeFirst
  <2>4. /\ writer' \in Chunk /\ writer' # None
        /\ tmps' \subseteq (Start..End) \X (0..End)
    <3> DEFINE first == Head(batch).seq
    <3>1. first \in Start..End /\ state \in SUBSET Node /\ size \in ChunkSizes
      BY <1>0, <2>1, <2>3 DEF TypeOK
    <3>2. writer' = NewChunk(first, state) /\ tmps' = tmps \cup {Name(NewChunk(first, state))}
      BY <2>1 DEF Create
    <3> HIDE DEF first
    <3>3. /\ NewChunk(first, state) \in Chunk /\ NewChunk(first, state) # None
          /\ Name(NewChunk(first, state)) \in (Start..End) \X (0..End)
      BY <3>1, NewChunkType
    <3>4. tmps \subseteq (Start..End) \X (0..End)
      BY <1>0 DEF TypeOK
    <3> QED
      BY <3>2, <3>3, <3>4
  <2>5. TypeOK'
    BY <1>0, <2>1, <2>3, <2>4 DEF TypeOK, Stopped
  <2>6. Flow'
    BY <2>1, <2>3 DEF Flow
  <2>7. QED
    BY <2>5, <2>6 DEF TypeInv
<1>7. CASE RangeIsDone
  BY <1>0, <1>7 DEF RangeIsDone, TypeInv, TypeOK, Flow, Stopped
<1>8. CASE FillHash
  <2>1. /\ phase = "finish" /\ phase' = "rename" /\ ~Stopped
        /\ writer' = [writer EXCEPT !.complete = TRUE]
        /\ UNCHANGED <<size, runs, conc, state, next, batch, prev, chunkStart, tmps, archive>>
    BY <1>8 DEF FillHash, Stopped
  <2>2. writer \in Chunk
    BY <1>0, <2>1 DEF TypeOK
  <2>3. writer' \in Chunk /\ writer' # None
    BY <2>1, <2>2, NoneAssumption DEF Chunk
  <2>4. QED
    BY <1>0, <2>1, <2>3 DEF TypeInv, TypeOK, Flow, Stopped
<1>9. CASE Rename
  <2>1. /\ phase = "rename" /\ ~Stopped /\ writer' = None
        /\ tmps' \subseteq tmps
        /\ phase' \in {"done", "open"} /\ (phase' = "open" => batch # <<>>)
        /\ UNCHANGED <<size, runs, conc, state, next, batch, prev, chunkStart>>
    BY <1>9 DEF Rename, Stopped
  <2>2. writer \in Chunk
    BY <1>0, <2>1 DEF TypeOK
  <2>3. DOMAIN archive' = DOMAIN archive \cup {Name(writer)}
    BY <1>9 DEF Rename
  <2>4. \A n \in DOMAIN archive' : archive'[n] = IF n = Name(writer) THEN writer ELSE archive[n]
    BY <1>9 DEF Rename
  <2>5. /\ DOMAIN archive' \subseteq (Start..End) \X (0..End)
        /\ \A n \in DOMAIN archive' : archive'[n] \in Chunk
    BY <1>0, <2>2, <2>3, <2>4, NameType DEF TypeOK
  <2>6. TypeOK'
    BY <1>0, <2>1, <2>5 DEF TypeOK, Stopped
  <2>7. Flow'
    BY <1>0, <2>1 DEF Flow, Stopped
  <2>8. QED
    BY <2>6, <2>7 DEF TypeInv
<1>10. CASE Fails
  <2>1. /\ phase' = "failed" /\ writer' = None /\ tmps' \subseteq tmps
        /\ UNCHANGED <<size, runs, conc, state, next, batch, prev, chunkStart, archive>>
    BY <1>10 DEF Fails, DropWriter
  <2>2. QED
    BY <1>0, <2>1 DEF TypeInv, TypeOK, Flow, Stopped
<1>11. CASE Crash
  <2>1. /\ phase' = "down" /\ writer' = None
        /\ UNCHANGED <<size, runs, conc, state, next, batch, prev, chunkStart, tmps, archive>>
    BY <1>11 DEF Crash
  <2>2. QED
    BY <1>0, <2>1 DEF TypeInv, TypeOK, Flow, Stopped
<1>12. CASE UNCHANGED vars
  BY <1>0, <1>12 DEF vars, TypeInv, TypeOK, Flow, Stopped
<1>13. QED
  BY <1>1, <1>2, <1>3, <1>4, <1>5, <1>6, <1>7, <1>8, <1>9, <1>10, <1>11, <1>12 DEF Next, Work

-----------------------------------------------------------------------------
(* The open chunk and its header                                           *)

ChunkOpen == phase \in {"loop", "finish", "rename"}

\* The open chunk has a delta for each ledger after its first, up to prev.  It
\* is closed when it has size ledgers or the range is done.
Bounds ==
  /\ ChunkOpen =>
       /\ writer.first = chunkStart /\ writer.last = ChunkEnd(chunkStart)
       /\ Len(writer.deltas) = prev - chunkStart
       /\ chunkStart <= prev /\ prev - chunkStart < size
  /\ phase \in {"finish", "rename"} =>
       IF batch = <<>> THEN prev = End ELSE (prev + 1) - chunkStart = size
  /\ phase = "rename" => writer.complete
  /\ \A n \in DOMAIN archive : archive[n].complete /\ n = Name(archive[n])
  /\ NoWrap => HeaderTellsRange

\* The ledgers before the open chunk are in the archive.
Cover ==
  /\ ChunkOpen => Start..(chunkStart - 1) \subseteq Held
  /\ phase = "open" => Start..prev \subseteq Held
  /\ phase = "done" => Start..End \subseteq Held

\* The running state is the tree of the last ledger applied, and what is
\* written so far replays.
Trees ==
  /\ phase = "loop" => state = Tree[prev]
  /\ phase \in {"finish", "rename", "open"} => (batch # <<>> => state = Tree[prev + 1])
  /\ ChunkOpen => Replays(writer)
  /\ \A n \in DOMAIN archive : Replays(archive[n])

(* A chunk about to be renamed holds the ledgers its header promises.      *)
LEMMA FullChunk ==
  ASSUME TypeInv, Bounds, phase \in {"finish", "rename"}, NoWrap
  PROVE  writer.last = prev /\ writer.first = chunkStart /\ Len(writer.deltas) = prev - chunkStart
<1>1. /\ size \in ChunkSizes /\ prev \in Start..End /\ chunkStart \in Start..End
  BY DEF TypeInv, TypeOK
<1>2. /\ writer.first = chunkStart /\ writer.last = ChunkEnd(chunkStart)
      /\ Len(writer.deltas) = prev - chunkStart
      /\ chunkStart <= prev /\ prev - chunkStart < size
      /\ IF batch = <<>> THEN prev = End ELSE (prev + 1) - chunkStart = size
  BY DEF Bounds, ChunkOpen
<1>3. ChunkEnd(chunkStart) = Least(chunkStart + size - 1, End)
  BY <1>1, ChunkEndFacts
<1>4. Start \in Nat /\ End \in Nat /\ size \in Nat
  BY <1>1, ArgsAssumption
<1>5. ChunkEnd(chunkStart) = prev
  BY <1>1, <1>2, <1>3, <1>4 DEF Least
<1>6. QED
  BY <1>2, <1>5

(* What Rename does to the archive.                                        *)
LEMMA RenameFacts ==
  ASSUME TypeInv, Bounds, Rename
  PROVE  /\ DOMAIN archive' = DOMAIN archive \cup {Name(writer)}
         /\ \A n \in DOMAIN archive' : archive'[n] = IF n = Name(writer) THEN writer ELSE archive[n]
         /\ writer \in Chunk /\ writer.complete
         /\ phase = "rename" /\ phase' = IF batch = <<>> THEN "done" ELSE "open"
         /\ UNCHANGED <<size, state, next, batch, prev, chunkStart>>
BY DEF Rename, TypeInv, TypeOK, Stopped, Bounds

(* What is written to a chunk leaves its header alone.                     *)
LEMMA GrowKeeps ==
  ASSUME NEW w \in Chunk, NEW diff \in [added : SUBSET Node, deleted : SUBSET Node],
         NEW g, g = [w EXCEPT !.deltas = Append(@, diff)]
  PROVE  /\ g.first = w.first /\ g.last = w.last /\ g.checkpoint = w.checkpoint
         /\ Len(g.deltas) = Len(w.deltas) + 1
         /\ \A k \in 1..Len(w.deltas) : g.deltas[k] = w.deltas[k]
         /\ g.deltas[Len(w.deltas) + 1] = diff
<1>1. w.deltas \in Seq([added : SUBSET Node, deleted : SUBSET Node])
  BY DEF Chunk
<1>2. g.first = w.first /\ g.last = w.last /\ g.checkpoint = w.checkpoint /\ g.deltas = Append(w.deltas, diff)
  BY DEF Chunk
<1>3. QED
  BY <1>1, <1>2, AppendProperties

(* The next diff, and where it goes.                                       *)
LEMMA ApplyFacts ==
  ASSUME TypeInv, NextDiffApplied
  PROVE  \E diff \in DiffLists(Tree[prev], Tree[prev + 1]) :
           /\ diff \in [added : SUBSET Node, deleted : SUBSET Node]
           /\ state' = Applied(state, diff)
           /\ (prev + 1) - chunkStart = size => writer' = writer
           /\ (prev + 1) - chunkStart # size => writer' = [writer EXCEPT !.deltas = Append(@, diff)]
<1>1. batch # <<>> /\ ~Stopped
  BY DEF NextDiffApplied, Stopped
<1>2. Head(batch) = [seq |-> prev + 1, from |-> prev] /\ prev + 1 \in Start..End /\ prev \in Start..End
  BY <1>1, TakeFirst
<1>3. PICK diff \in DiffLists(Tree[prev], Tree[prev + 1]) :
        /\ state' = Applied(state, diff)
        /\ writer' = IF (prev + 1) - chunkStart = size
                     THEN writer
                     ELSE [writer EXCEPT !.deltas = Append(@, diff)]
  <2>1. Head(batch).seq = prev + 1 /\ Head(batch).from = prev
    BY <1>2
  <2>2. PICK diff \in DiffLists(Tree[Head(batch).from], Tree[Head(batch).seq]) :
          /\ state' = Applied(state, diff)
          /\ writer' = IF Head(batch).seq - chunkStart = size
                       THEN writer
                       ELSE [writer EXCEPT !.deltas = Append(@, diff)]
    BY DEF NextDiffApplied
  <2>3. diff \in DiffLists(Tree[prev], Tree[prev + 1])
    BY <2>1, <2>2
  <2>4. writer' = IF (prev + 1) - chunkStart = size
                  THEN writer
                  ELSE [writer EXCEPT !.deltas = Append(@, diff)]
    <3>1. Head(batch).seq - chunkStart = (prev + 1) - chunkStart
      BY <2>1
    <3>2. QED
      BY <2>2, <3>1
  <2>5. QED
    BY <2>2, <2>3, <2>4
<1>4. diff \in [added : SUBSET Node, deleted : SUBSET Node]
  BY <1>2, DiffType, TreeAssumption
<1>5. QED
  BY <1>3, <1>4

LEMMA NextBounds == TypeInv /\ TypeInv' /\ Bounds /\ [Next]_vars => Bounds'
<1> SUFFICES ASSUME TypeInv, TypeInv', Bounds, [Next]_vars PROVE Bounds'
  OBVIOUS
<1>0. /\ TypeOK /\ Flow
      /\ size \in Nat \ {0} /\ prev \in Nat /\ chunkStart \in Nat /\ Start \in Nat /\ End \in Nat
  <2>1. TypeOK /\ Flow
    BY DEF TypeInv
  <2>2. size \in ChunkSizes /\ prev \in Start..End /\ chunkStart \in Start..End
    BY <2>1 DEF TypeOK
  <2>3. Start \in Nat /\ End \in Nat /\ WordSize \in Nat /\ size \in 1..(WordSize - 1)
    BY <2>2, ArgsAssumption
  <2>4. QED
    BY <2>1, <2>2, <2>3
<1>1. CASE Begin
  <2>1. /\ phase' = "loop" /\ prev' = Start /\ chunkStart' = Start
        /\ writer' = NewChunk(Start, Tree[Start]) /\ UNCHANGED <<size, archive>>
    BY <1>1 DEF Begin, Create
  <2>2. /\ writer'.first = Start /\ writer'.last = ChunkEnd(Start) /\ Len(writer'.deltas) = 0
    BY <2>1 DEF NewChunk
  <2>3. ChunkEnd(Start)' = ChunkEnd(Start)
    BY <2>1 DEF ChunkEnd
  <2>4. QED
    BY <1>0, <2>1, <2>2, <2>3 DEF Bounds, ChunkOpen, HeaderTellsRange, ChunkEnd
<1>2. CASE BeginFails
  BY <1>2 DEF BeginFails, Bounds, ChunkOpen, HeaderTellsRange
<1>3. CASE FetchBatch
  BY <1>3 DEF FetchBatch, Bounds, ChunkOpen, HeaderTellsRange, ChunkEnd
<1>4. CASE WriteDelta
  <2>1. /\ phase = "loop" /\ batch # <<>> /\ ~Stopped /\ phase' = "loop"
        /\ UNCHANGED <<size, chunkStart, archive>>
        /\ prev' = Head(batch).seq /\ Head(batch).seq - chunkStart # size
    BY <1>4 DEF WriteDelta, NextDiffApplied, Stopped
  <2>2. prev' = prev + 1 /\ (prev + 1) - chunkStart # size
    <3>1. Head(batch).seq = prev + 1
      BY <2>1, TakeFirst
    <3>2. QED
      BY <1>0, <2>1, <3>1
  <2>3. writer \in Chunk
    BY <1>4, ApplyType DEF WriteDelta
  <2>4. PICK diff \in [added : SUBSET Node, deleted : SUBSET Node] :
          writer' = [writer EXCEPT !.deltas = Append(@, diff)]
    BY <1>4, <2>2, ApplyFacts DEF WriteDelta
  <2>5. /\ writer'.first = writer.first /\ writer'.last = writer.last
        /\ Len(writer'.deltas) = Len(writer.deltas) + 1
    BY <2>3, <2>4, GrowKeeps
  <2>6. /\ writer.first = chunkStart /\ writer.last = ChunkEnd(chunkStart)
        /\ Len(writer.deltas) = prev - chunkStart
        /\ chunkStart <= prev /\ prev - chunkStart < size
    BY <2>1 DEF Bounds, ChunkOpen
  <2>7. /\ Len(writer'.deltas) = prev' - chunkStart
        /\ chunkStart <= prev' /\ prev' - chunkStart < size
    BY <1>0, <2>2, <2>5, <2>6
  <2>8. QED
    BY <2>1, <2>5, <2>6, <2>7 DEF Bounds, ChunkOpen, HeaderTellsRange, ChunkEnd
<1>5. CASE ChunkIsFull
  <2>1. /\ phase = "loop" /\ batch # <<>> /\ ~Stopped /\ phase' = "finish"
        /\ UNCHANGED <<size, chunkStart, archive, prev, batch>>
        /\ Head(batch).seq - chunkStart = size
    BY <1>5 DEF ChunkIsFull, NextDiffApplied, Stopped
  <2>2. (prev + 1) - chunkStart = size
    <3>1. Head(batch).seq = prev + 1
      BY <2>1, TakeFirst
    <3>2. QED
      BY <1>0, <2>1, <3>1
  <2>3. writer' = writer
    BY <1>5, <2>2, ApplyFacts DEF ChunkIsFull
  <2>4. QED
    BY <2>1, <2>2, <2>3 DEF Bounds, ChunkOpen, HeaderTellsRange, ChunkEnd
<1>6. CASE OpenNextChunk
  <2>1. /\ phase = "open" /\ phase' = "loop"
        /\ UNCHANGED <<size, archive>>
        /\ prev' = chunkStart' /\ chunkStart' = Head(batch).seq
        /\ writer' = NewChunk(Head(batch).seq, state)
    BY <1>6 DEF OpenNextChunk, Create
  <2>2. /\ writer'.first = chunkStart' /\ writer'.last = ChunkEnd(chunkStart') /\ Len(writer'.deltas) = 0
    BY <2>1 DEF NewChunk
  <2>3. chunkStart' \in Nat
    BY ArgsAssumption DEF TypeInv, TypeOK
  <2>4. QED
    BY <1>0, <2>1, <2>2, <2>3 DEF Bounds, ChunkOpen, HeaderTellsRange, ChunkEnd
<1>7. CASE RangeIsDone
  <2>1. /\ phase = "loop" /\ batch = <<>> /\ next > End /\ phase' = "finish" /\ ~Stopped
        /\ UNCHANGED <<size, chunkStart, archive, prev, batch, writer>>
    BY <1>7 DEF RangeIsDone, Stopped
  <2>2. next = prev + 1 /\ prev \in Start..End
    BY <1>0, <2>1 DEF Flow, TypeOK
  <2>3. prev = End
    BY <1>0, <2>1, <2>2
  <2>4. QED
    BY <2>1, <2>3 DEF Bounds, ChunkOpen, HeaderTellsRange, ChunkEnd
<1>8. CASE FillHash
  <2>1. /\ phase = "finish" /\ phase' = "rename"
        /\ writer' = [writer EXCEPT !.complete = TRUE]
        /\ UNCHANGED <<size, chunkStart, archive, prev, batch>>
    BY <1>8 DEF FillHash
  <2>2. writer \in Chunk
    BY <1>0, <2>1 DEF TypeOK, Stopped
  <2>3. /\ writer'.first = writer.first /\ writer'.last = writer.last
        /\ writer'.deltas = writer.deltas /\ writer'.complete
    BY <2>1, <2>2 DEF Chunk
  <2>4. QED
    BY <2>1, <2>3 DEF Bounds, ChunkOpen, HeaderTellsRange, ChunkEnd
<1>9. CASE Rename
  <2>1. /\ DOMAIN archive' = DOMAIN archive \cup {Name(writer)}
        /\ \A n \in DOMAIN archive' : archive'[n] = IF n = Name(writer) THEN writer ELSE archive[n]
        /\ writer \in Chunk /\ writer.complete
        /\ phase = "rename" /\ phase' \in {"done", "open"}
    BY <1>9, RenameFacts
  <2>2. \A n \in DOMAIN archive' : archive'[n].complete /\ n = Name(archive'[n])
    BY <2>1 DEF Bounds
  <2>3. ASSUME NoWrap PROVE HeaderTellsRange'
    <3>1. Len(writer.deltas) = writer.last - writer.first
      BY <2>1, <2>3, FullChunk
    <3>2. HeaderTellsRange
      BY <2>3 DEF Bounds
    <3>3. QED
      BY <2>1, <3>1, <3>2 DEF HeaderTellsRange
  <2>4. QED
    BY <2>1, <2>2, <2>3 DEF Bounds, ChunkOpen, Name
<1>10. CASE Fails
  BY <1>10 DEF Fails, Bounds, ChunkOpen, HeaderTellsRange
<1>11. CASE Crash
  BY <1>11 DEF Crash, Bounds, ChunkOpen, HeaderTellsRange
<1>12. CASE UNCHANGED vars
  BY <1>12 DEF vars, Bounds, ChunkOpen, HeaderTellsRange, ChunkEnd
<1>13. QED
  BY <1>1, <1>2, <1>3, <1>4, <1>5, <1>6, <1>7, <1>8, <1>9, <1>10, <1>11, <1>12 DEF Next, Work

-----------------------------------------------------------------------------
(* The archive covers what was exported                                    *)

LEMMA NextCover ==
  ASSUME NoWrap
  PROVE  TypeInv /\ Bounds /\ Cover /\ [Next]_vars => Cover'
<1> SUFFICES ASSUME TypeInv, Bounds, Cover, [Next]_vars PROVE Cover'
  OBVIOUS
<1>0. /\ TypeOK /\ Flow
      /\ prev \in Start..End /\ chunkStart \in Start..End /\ Start \in Nat /\ End \in Nat
  BY ArgsAssumption DEF TypeInv, TypeOK
<1>1. CASE Begin
  <2>1. phase' = "loop" /\ chunkStart' = Start
    BY <1>1 DEF Begin
  <2>2. Start..(chunkStart' - 1) = {}
    BY <1>0, <2>1
  <2>3. QED
    BY <2>1, <2>2 DEF Cover
<1>2. CASE OpenNextChunk
  <2>1. /\ phase = "open" /\ phase' = "loop" /\ chunkStart' = Head(batch).seq
        /\ UNCHANGED archive
    BY <1>2 DEF OpenNextChunk
  <2>2. batch # <<>> /\ ~Stopped
    BY <1>0, <2>1 DEF Flow, Stopped
  <2>3. chunkStart' = prev + 1
    BY <2>1, <2>2, TakeFirst
  <2>4. chunkStart' - 1 = prev
    BY <1>0, <2>3
  <2>5. QED
    BY <2>1, <2>4 DEF Cover, Held
<1>3. CASE Rename
  <2>1. /\ DOMAIN archive' = DOMAIN archive \cup {Name(writer)}
        /\ phase = "rename" /\ phase' = IF batch = <<>> THEN "done" ELSE "open"
        /\ prev' = prev
    BY <1>3, RenameFacts
  <2>2. Name(writer) = <<chunkStart, prev>>
    BY <2>1, FullChunk DEF Name
  <2>3. Held' = Held \cup (chunkStart..prev)
    BY <2>1, <2>2 DEF Held
  <2>4. Start..(chunkStart - 1) \subseteq Held
    BY <2>1 DEF Cover, ChunkOpen
  <2>5. Start..prev \subseteq Held'
    BY <1>0, <2>3, <2>4
  <2>6. batch = <<>> => prev = End
    BY <2>1 DEF Bounds
  <2>7. QED
    BY <2>1, <2>5, <2>6 DEF Cover, ChunkOpen
<1>4. CASE BeginFails
  BY <1>4 DEF BeginFails, Cover, ChunkOpen
<1>5. CASE FetchBatch \/ RangeIsDone \/ FillHash
  BY <1>5 DEF FetchBatch, RangeIsDone, FillHash, Cover, ChunkOpen, Held
<1>6. CASE WriteDelta \/ ChunkIsFull
  <2>1. phase = "loop" /\ phase' \in {"loop", "finish"} /\ UNCHANGED <<chunkStart, archive>>
    BY <1>6 DEF WriteDelta, ChunkIsFull, NextDiffApplied
  <2>2. QED
    BY <2>1 DEF Cover, ChunkOpen, Held
<1>7. CASE Fails \/ Crash
  BY <1>7 DEF Fails, Crash, Cover, ChunkOpen
<1>8. CASE UNCHANGED vars
  BY <1>8 DEF vars, Cover, ChunkOpen, Held
<1>9. QED
  BY <1>1, <1>2, <1>3, <1>4, <1>5, <1>6, <1>7, <1>8 DEF Next, Work

-----------------------------------------------------------------------------
(* Chunks replay                                                           *)

(* One more delta, the right one, and the chunk still replays.             *)
LEMMA GrownReplays ==
  ASSUME NEW w \in Chunk, Replays(w), NEW diff \in [added : SUBSET Node, deleted : SUBSET Node],
         NEW g, g = [w EXCEPT !.deltas = Append(@, diff)],
         NEW p \in Nat, p + 1 <= End, w.first + Len(w.deltas) = p,
         diff.deleted \subseteq Tree[p], Applied(Tree[p], diff) = Tree[p + 1]
  PROVE  Replays(g)
<1>1. /\ g.first = w.first /\ g.checkpoint = w.checkpoint
      /\ Len(g.deltas) = Len(w.deltas) + 1
      /\ \A k \in 1..Len(w.deltas) : g.deltas[k] = w.deltas[k]
      /\ g.deltas[Len(w.deltas) + 1] = diff
  BY GrowKeeps
<1>2. /\ w.deltas \in Seq([added : SUBSET Node, deleted : SUBSET Node])
      /\ w.first \in Nat /\ Len(w.deltas) \in Nat
  BY ArgsAssumption DEF Chunk
<1>3. DOMAIN g.deltas = 1..(Len(w.deltas) + 1) /\ DOMAIN w.deltas = 1..Len(w.deltas)
  <2>1. g.deltas = Append(w.deltas, diff)
    BY DEF Chunk
  <2>2. QED
    BY <1>2, <2>1, AppendProperties
<1>4. ASSUME NEW k \in DOMAIN g.deltas
      PROVE  /\ g.first + k <= End
             /\ g.deltas[k].deleted \subseteq Tree[g.first + k - 1]
             /\ Applied(Tree[g.first + k - 1], g.deltas[k]) = Tree[g.first + k]
  <2>1. CASE k = Len(w.deltas) + 1
    <3>1. g.first + k = p + 1 /\ g.first + k - 1 = p
      BY <1>1, <1>2, <2>1
    <3>2. QED
      BY <1>1, <2>1, <3>1
  <2>2. CASE k # Len(w.deltas) + 1
    <3>1. k \in DOMAIN w.deltas
      BY <1>2, <1>3, <2>2
    <3>2. QED
      BY <1>1, <1>3, <3>1 DEF Replays
  <2>3. QED
    BY <2>1, <2>2
<1>5. g.checkpoint = Tree[g.first]
  BY <1>1 DEF Replays
<1>6. QED
  BY <1>4, <1>5 DEF Replays

(* A chunk with nothing but its checkpoint replays if that is its tree.    *)
LEMMA NewReplays ==
  ASSUME NEW first
  PROVE  Replays(NewChunk(first, Tree[first]))
BY DEF NewChunk, Replays

LEMMA NextTrees ==
  ASSUME StoreKeepsNodes
  PROVE  TypeInv /\ Bounds /\ Trees /\ [Next]_vars => Trees'
<1> SUFFICES ASSUME TypeInv, Bounds, Trees, [Next]_vars PROVE Trees'
  OBVIOUS
<1>0. /\ TypeOK /\ Flow
      /\ prev \in Nat /\ chunkStart \in Nat /\ Start \in Nat /\ End \in Nat
  BY ArgsAssumption DEF TypeInv, TypeOK
<1>1. CASE Begin
  <2>1. /\ phase' = "loop" /\ prev' = Start /\ state' = Tree[Start]
        /\ writer' = NewChunk(Start, Tree[Start]) /\ UNCHANGED <<archive, size>>
    BY <1>1 DEF Begin, Create
  <2>2. Replays(writer)'
    BY <2>1, NewReplays DEF Replays
  <2>3. \A n \in DOMAIN archive' : Replays(archive'[n])
    BY <2>1 DEF Trees
  <2>4. QED
    BY <2>1, <2>2, <2>3 DEF Trees, Replays
<1>2. CASE WriteDelta
  <2>1. /\ phase = "loop" /\ batch # <<>> /\ ~Stopped /\ phase' = "loop" /\ UNCHANGED archive
        /\ prev' = Head(batch).seq /\ Head(batch).seq - chunkStart # size
    BY <1>2 DEF WriteDelta, NextDiffApplied, Stopped
  <2>2. Head(batch).seq = prev + 1 /\ prev + 1 \in Start..End
    BY <2>1, TakeFirst
  <2>3. prev' = prev + 1 /\ (prev + 1) - chunkStart # size
    BY <2>1, <2>2
  <2>4. writer \in Chunk
    BY <1>2, ApplyType DEF WriteDelta
  <2>5. PICK diff \in DiffLists(Tree[prev], Tree[prev + 1]) :
          /\ diff \in [added : SUBSET Node, deleted : SUBSET Node]
          /\ state' = Applied(state, diff)
          /\ writer' = [writer EXCEPT !.deltas = Append(@, diff)]
    BY <1>2, <2>3, ApplyFacts DEF WriteDelta
  <2>6. Applied(Tree[prev], diff) = Tree[prev + 1] /\ diff.deleted \subseteq Tree[prev]
    BY <2>5, DiffApplies
  <2>7. state' = Tree[prev']
    BY <2>1, <2>3, <2>5, <2>6 DEF Trees
  <2>8. /\ writer.first = chunkStart /\ Len(writer.deltas) = prev - chunkStart
        /\ Replays(writer)
    BY <2>1 DEF Bounds, Trees, ChunkOpen
  <2>9. writer.first + Len(writer.deltas) = prev /\ prev + 1 <= End
    BY <1>0, <2>2, <2>8
  <2>10. Replays(writer')
    BY <1>0, <2>4, <2>5, <2>6, <2>8, <2>9, GrownReplays
  <2>11. QED
    BY <2>1, <2>7, <2>10 DEF Trees, Replays
<1>3. CASE ChunkIsFull
  <2>1. /\ phase = "loop" /\ batch # <<>> /\ ~Stopped /\ phase' = "finish"
        /\ UNCHANGED <<archive, prev, batch>>
        /\ Head(batch).seq - chunkStart = size
    BY <1>3 DEF ChunkIsFull, NextDiffApplied, Stopped
  <2>2. Head(batch).seq = prev + 1
    BY <2>1, TakeFirst
  <2>3. (prev + 1) - chunkStart = size
    BY <2>1, <2>2
  <2>4. PICK diff \in DiffLists(Tree[prev], Tree[prev + 1]) :
          state' = Applied(state, diff) /\ writer' = writer
    BY <1>3, <2>3, ApplyFacts DEF ChunkIsFull
  <2>5. Applied(Tree[prev], diff) = Tree[prev + 1]
    BY DiffApplies
  <2>6. state' = Tree[prev + 1]
    BY <2>1, <2>4, <2>5 DEF Trees
  <2>7. QED
    BY <2>1, <2>4, <2>6 DEF Trees, ChunkOpen, Replays
<1>4. CASE OpenNextChunk
  <2>1. /\ phase = "open" /\ ~Stopped /\ phase' = "loop"
        /\ UNCHANGED <<state, archive>>
        /\ prev' = Head(batch).seq
        /\ writer' = NewChunk(Head(batch).seq, state)
    BY <1>4 DEF OpenNextChunk, Create, Stopped
  <2>2. batch # <<>>
    BY <1>0, <2>1 DEF Flow
  <2>3. Head(batch).seq = prev + 1
    BY <2>1, <2>2, TakeFirst
  <2>4. state = Tree[prev + 1]
    BY <2>1, <2>2 DEF Trees
  <2>5. Replays(writer')
    BY <2>1, <2>3, <2>4, NewReplays
  <2>6. QED
    BY <2>1, <2>3, <2>4, <2>5 DEF Trees, Replays
<1>5. CASE FillHash
  <2>1. /\ phase = "finish" /\ phase' = "rename"
        /\ writer' = [writer EXCEPT !.complete = TRUE]
        /\ UNCHANGED <<state, archive, prev, batch>>
    BY <1>5 DEF FillHash
  <2>2. writer \in Chunk /\ Replays(writer)
    BY <1>0, <2>1 DEF TypeOK, Stopped, Trees, ChunkOpen
  <2>3. /\ writer'.first = writer.first /\ writer'.checkpoint = writer.checkpoint
        /\ writer'.deltas = writer.deltas
    BY <2>1, <2>2 DEF Chunk
  <2>4. QED
    BY <2>1, <2>2, <2>3 DEF Trees, ChunkOpen, Replays
<1>6. CASE Rename
  <2>1. /\ DOMAIN archive' = DOMAIN archive \cup {Name(writer)}
        /\ \A n \in DOMAIN archive' : archive'[n] = IF n = Name(writer) THEN writer ELSE archive[n]
        /\ phase = "rename" /\ phase' = IF batch = <<>> THEN "done" ELSE "open"
        /\ UNCHANGED <<state, batch, prev>>
    BY <1>6, RenameFacts
  <2>2. Replays(writer)
    BY <2>1 DEF Trees, ChunkOpen
  <2>3. \A n \in DOMAIN archive' : Replays(archive'[n])
    BY <2>1, <2>2 DEF Trees
  <2>4. QED
    BY <2>1, <2>3 DEF Trees, ChunkOpen
<1>7. CASE FetchBatch \/ RangeIsDone
  <2>1. /\ phase = "loop" /\ phase' \in {"loop", "finish"}
        /\ UNCHANGED <<state, prev, writer, archive>>
        /\ phase' = "finish" => batch' = <<>>
    BY <1>7 DEF FetchBatch, RangeIsDone
  <2>2. QED
    BY <2>1 DEF Trees, ChunkOpen
<1>8. CASE BeginFails \/ Fails \/ Crash
  BY <1>8 DEF BeginFails, Fails, Crash, Trees, ChunkOpen
<1>9. CASE UNCHANGED vars
  BY <1>9 DEF vars, Trees, ChunkOpen
<1>10. QED
  BY <1>1, <1>2, <1>3, <1>4, <1>5, <1>6, <1>7, <1>8, <1>9 DEF Next, Work

-----------------------------------------------------------------------------
(* Numbers                                                                 *)

(* A set of numbers has a least one.                                       *)
LEMMA LeastNumber ==
  ASSUME NEW S \in SUBSET Nat, S # {}
  PROVE  \E k \in S : \A j \in S : k <= j
<1> DEFINE R == OpToRel(<, Nat)
<1>1. IsWellFoundedOn(R, Nat)
  BY NatLessThanWellFounded
<1>2. R = {ss \in Nat \X Nat : ss[1] < ss[2]}
  BY Zenon DEF OpToRel
<1> HIDE DEF R
<1>3. \A j, k \in Nat : j < k => <<j, k>> \in R
  BY <1>2
<1>4. PICK k \in S : \A j \in S : ~(<<j, k>> \in R)
  BY <1>1, WFMin, Zenon
<1>5. \A j \in S : ~(j < k)
  BY <1>3, <1>4
<1>6. \A j, l \in Nat : ~(j < l) => l <= j
  OBVIOUS
<1> QED
  BY <1>5, <1>6

(* Induction, over a set of numbers.                                       *)
LEMMA NumbersFrom0 ==
  ASSUME NEW T \in SUBSET Nat, 0 \in T, \A k \in T : k + 1 \in T
  PROVE  \A k \in Nat : k \in T
<1> SUFFICES ASSUME Nat \ T # {}
             PROVE  FALSE
  OBVIOUS
<1>1. PICK k \in Nat \ T : \A j \in Nat \ T : k <= j
  BY LeastNumber
<1>2. k # 0 /\ k - 1 \in Nat /\ (k - 1) + 1 = k /\ ~(k <= k - 1)
  BY <1>1
<1> QED
  BY <1>1, <1>2

-----------------------------------------------------------------------------
(* The archive read back                                                   *)

\* The ledgers held leave no gap.
Gapless == \E upTo \in (Start - 1)..End : Held = Start..upTo

\* A rename adds ledgers to what is held, no other step changes it.
LEMMA HeldGrows ==
  ASSUME NoWrap, TypeInv, Bounds, [Next]_vars
  PROVE  \/ Held' = Held
         \/ Rename /\ Held' = Held \cup (chunkStart..prev) /\ chunkStart <= prev
<1>1. CASE Rename
  <2>1. DOMAIN archive' = DOMAIN archive \cup {Name(writer)} /\ phase = "rename"
    BY <1>1, RenameFacts
  <2>2. Name(writer) = <<chunkStart, prev>>
    BY <2>1, FullChunk DEF Name
  <2>3. Held' = Held \cup (chunkStart..prev)
    BY <2>1, <2>2 DEF Held
  <2>4. chunkStart <= prev
    BY <2>1 DEF Bounds, ChunkOpen
  <2> QED
    BY <1>1, <2>3, <2>4
<1>2. CASE ~Rename
  <2>1. archive' = archive
    BY <1>2 DEF Next, Work, Begin, BeginFails, FetchBatch, WriteDelta, ChunkIsFull, NextDiffApplied,
                OpenNextChunk, RangeIsDone, FillHash, Fails, Crash, vars
  <2> QED
    BY <2>1 DEF Held
<1> QED
  BY <1>1, <1>2

LEMMA NextGapless ==
  ASSUME NoWrap
  PROVE  TypeInv /\ Bounds /\ Cover /\ Gapless /\ [Next]_vars => Gapless'
<1> SUFFICES ASSUME TypeInv, Bounds, Cover, Gapless, [Next]_vars PROVE Gapless'
  OBVIOUS
<1>0. prev \in Start..End /\ chunkStart \in Start..End /\ Start \in Nat /\ End \in Nat
  BY ArgsAssumption DEF TypeInv, TypeOK
<1>1. PICK upTo \in (Start - 1)..End : Held = Start..upTo
  BY DEF Gapless
<1>2. CASE Held' = Held
  BY <1>1, <1>2 DEF Gapless
<1>3. CASE Rename /\ Held' = Held \cup (chunkStart..prev) /\ chunkStart <= prev
  <2>1. Start..(chunkStart - 1) \subseteq Held
    BY <1>3 DEF Rename, Cover, ChunkOpen
  <2>2. chunkStart - 1 <= upTo
    <3>1. CASE chunkStart = Start
      BY <1>0, <1>1, <3>1
    <3>2. CASE chunkStart # Start
      <4>1. chunkStart - 1 \in Start..(chunkStart - 1)
        BY <1>0, <3>2
      <4>2. chunkStart - 1 \in Start..upTo
        BY <1>1, <2>1, <4>1
      <4> QED
        BY <1>0, <1>1, <4>2
    <3> QED
      BY <3>1, <3>2
  <2>3. CASE upTo <= prev
    <3>1. Held' = Start..prev
      BY <1>0, <1>1, <1>3, <2>2, <2>3
    <3> QED
      BY <1>0, <3>1 DEF Gapless
  <2>4. CASE prev < upTo
    <3>1. Held' = Start..upTo
      BY <1>0, <1>1, <1>3, <2>2, <2>4
    <3> QED
      BY <1>1, <3>1 DEF Gapless
  <2> QED
    BY <1>0, <1>1, <2>3, <2>4
<1> QED
  BY <1>2, <1>3, HeldGrows

(* Reading a ledger back gives its tree: every file that holds it replays. *)
LEMMA ReadBackIsTree ==
  ASSUME NoWrap, TypeInv, Bounds, Trees, NEW s \in Held
  PROVE  ReadBack(s) = Tree[s]
<1> DEFINE n == CHOOSE m \in DOMAIN archive : s \in m[1]..m[2]
           chunk == archive[n]
           tree[k \in 0..Len(chunk.deltas)] ==
             IF k = 0 THEN chunk.checkpoint ELSE Applied(tree[k - 1], chunk.deltas[k])
<1>1. ReadBack(s) = tree[s - chunk.first]
  BY DEF ReadBack
<1>2. n \in DOMAIN archive /\ s \in n[1]..n[2]
  BY DEF Held
<1>3. chunk \in Chunk /\ Replays(chunk) /\ n = <<chunk.first, chunk.last>>
      /\ Len(chunk.deltas) = chunk.last - chunk.first
  BY <1>2 DEF TypeInv, TypeOK, Trees, Bounds, HeaderTellsRange, Name
<1> HIDE DEF n, chunk
<1> DEFINE D == [added : SUBSET Node, deleted : SUBSET Node]
           len == Len(chunk.deltas)
<1>4. /\ chunk.deltas \in Seq(D) /\ chunk.first \in Nat /\ chunk.last \in Nat /\ len \in Nat
      /\ DOMAIN chunk.deltas = 1..len
  <2>1. chunk.deltas \in Seq(D) /\ chunk.first \in Start..End /\ chunk.last \in 0..End
    BY <1>3 DEF Chunk
  <2> HIDE DEF D
  <2> QED
    BY <2>1, ArgsAssumption
<1>5. s \in Nat /\ s - chunk.first \in 0..len /\ chunk.first + (s - chunk.first) = s
  BY <1>2, <1>3, <1>4
<1>6. chunk.checkpoint = Tree[chunk.first]
      /\ \A k \in 1..len : Applied(Tree[chunk.first + k - 1], chunk.deltas[k]) = Tree[chunk.first + k]
  BY <1>3, <1>4 DEF Replays
<1> HIDE DEF len
<1> DEFINE f == [k \in 0..len |-> Tree[chunk.first + k]]
           Body(g, k) == IF k = 0 THEN chunk.checkpoint ELSE Applied(g[k - 1], chunk.deltas[k])
<1>7. f = [k \in 0..len |-> Body(f, k)]
  <2>1. ASSUME NEW k \in 0..len PROVE Tree[chunk.first + k] = Body(f, k)
    <3>1. CASE k = 0
      BY <1>4, <1>6, <3>1
    <3>2. CASE k # 0
      <4>1. k \in 1..len /\ k - 1 \in 0..len /\ chunk.first + (k - 1) = chunk.first + k - 1
        BY <1>4, <3>2
      <4>2. f[k - 1] = Tree[chunk.first + k - 1]
        BY <4>1
      <4> QED
        BY <1>6, <3>2, <4>1, <4>2
    <3> QED
      BY <3>1, <3>2
  <2> HIDE DEF Body
  <2> QED
    BY <2>1
<1> HIDE DEF f
<1>8. tree = [k \in 0..len |-> Body(tree, k)]
  BY <1>7 DEF len
<1> HIDE DEF tree
<1> DEFINE Right == {k \in Nat : k <= len => tree[k] = Tree[chunk.first + k]}
<1>9. 0 \in Right
  <2>1. 0 \in 0..len /\ chunk.first + 0 = chunk.first
    BY <1>4
  <2>2. tree[0] = chunk.checkpoint
    BY <1>8, <2>1
  <2> QED
    BY <1>6, <2>1, <2>2
<1>10. ASSUME NEW k \in Right PROVE k + 1 \in Right
  <2> SUFFICES ASSUME k + 1 <= len PROVE tree[k + 1] = Tree[chunk.first + (k + 1)]
    OBVIOUS
  <2>1. /\ k \in Nat /\ k <= len /\ k + 1 \in 0..len /\ k + 1 \in 1..len /\ k + 1 # 0 /\ (k + 1) - 1 = k
        /\ chunk.first + (k + 1) - 1 = chunk.first + k
    BY <1>4
  <2>2. tree[k] = Tree[chunk.first + k]
    BY <2>1
  <2>3. tree[k + 1] = Applied(tree[k], chunk.deltas[k + 1])
    BY <1>8, <2>1
  <2>4. Applied(Tree[chunk.first + (k + 1) - 1], chunk.deltas[k + 1]) = Tree[chunk.first + (k + 1)]
    BY <1>6, <2>1
  <2> QED
    BY <2>1, <2>2, <2>3, <2>4
<1>11. \A k \in Nat : k \in Right
  <2>1. Right \in SUBSET Nat
    OBVIOUS
  <2> HIDE DEF Right
  <2> QED
    BY <1>9, <1>10, <2>1, NumbersFrom0
<1>12. tree[s - chunk.first] = Tree[chunk.first + (s - chunk.first)]
  BY <1>4, <1>5, <1>11
<1> QED
  BY <1>1, <1>5, <1>12

(* The archive's two variables, read off the files.                        *)
Mapped ==
  \E upTo \in (Start - 1)..End :
    /\ Held = Start..upTo
    /\ Start - 1 + Cardinality(Held) = upTo
    /\ [s \in Held |-> ReadBack(s)] = [s \in Start..upTo |-> Tree[s]]

LEMMA HeldIsMapped ==
  ASSUME NoWrap
  PROVE  TypeInv /\ Bounds /\ Trees /\ Gapless => Mapped
<1> SUFFICES ASSUME TypeInv, Bounds, Trees, Gapless PROVE Mapped
  OBVIOUS
<1>1. PICK upTo \in (Start - 1)..End : Held = Start..upTo
  BY DEF Gapless
<1>2. Start \in Nat /\ upTo \in Int /\ Start - 1 <= upTo
  BY ArgsAssumption
<1>3. Cardinality(Start..upTo) = IF Start > upTo THEN 0 ELSE upTo - Start + 1
  BY <1>2, FS_Interval
<1>4. Start - 1 + Cardinality(Held) = upTo
  BY <1>1, <1>2, <1>3
<1>5. \A s \in Held : ReadBack(s) = Tree[s]
  BY ReadBackIsTree
<1> QED
  BY <1>1, <1>4, <1>5 DEF Mapped

LEMMA InitGapless == Init => Gapless /\ Archive!Init
<1> SUFFICES ASSUME Init PROVE Gapless /\ Archive!Init
  OBVIOUS
<1>1. Start \in Nat /\ End \in Nat /\ Start < End
  BY ArgsAssumption
<1>2. Held = {}
  BY DEF Init, Held
<1>3. Start..(Start - 1) = {} /\ Start - 1 \in (Start - 1)..End
  BY <1>1
<1>4. Gapless
  BY <1>2, <1>3 DEF Gapless
<1>5. Start - 1 + Cardinality(Held) = Start - 1
  BY <1>1, <1>2, FS_EmptySet
<1>6. [s \in Held |-> ReadBack(s)] = [s \in {} |-> {}]
  BY <1>2
<1> QED
  BY <1>4, <1>5, <1>6 DEF Archive!Init

(* A rename is a step of the archive or leaves it as it is, and no other   *)
(* step changes it.                                                        *)
LEMMA StepExtends ==
  ASSUME NoWrap, TypeInv, Bounds, Mapped, Mapped', [Next]_vars
  PROVE  [Archive!Next]_(Archive!vars)
<1>1. PICK u \in (Start - 1)..End :
        /\ Held = Start..u
        /\ Start - 1 + Cardinality(Held) = u
        /\ [s \in Held |-> ReadBack(s)] = [s \in Start..u |-> Tree[s]]
  BY DEF Mapped
<1>2. PICK v \in (Start - 1)..End :
        /\ Held' = Start..v
        /\ Start - 1 + Cardinality(Held') = v
        /\ [s \in Held |-> ReadBack(s)]' = [s \in Start..v |-> Tree[s]]
  BY DEF Mapped
<1>3. Start \in Nat /\ End \in Nat /\ u \in Int /\ v \in Int
  BY ArgsAssumption
<1>4. u <= v
  <2>1. Held \subseteq Held'
    BY HeldGrows
  <2>2. CASE u < Start
    BY <1>2, <1>3, <2>2
  <2>3. CASE Start <= u
    <3>1. u \in Start..v
      BY <1>1, <1>2, <1>3, <2>1, <2>3
    <3> QED
      BY <1>3, <3>1
  <2> QED
    BY <1>3, <2>2, <2>3
<1>5. CASE u = v
  <2>1. (Start - 1 + Cardinality(Held))' = Start - 1 + Cardinality(Held)
    BY <1>1, <1>2, <1>5
  <2>2. [s \in Held |-> ReadBack(s)]' = [s \in Held |-> ReadBack(s)]
    BY <1>1, <1>2, <1>5
  <2> QED
    BY <2>1, <2>2 DEF Archive!vars
<1>6. CASE u < v
  <2>1. v \in (u + 1)..End
    BY <1>3, <1>6
  <2>2. Archive!Extend
    BY <1>1, <1>2, <2>1 DEF Archive!Extend
  <2> QED
    BY <2>2 DEF Archive!Next
<1> QED
  BY <1>3, <1>4, <1>5, <1>6

-----------------------------------------------------------------------------
(* The theorems                                                            *)

LEMMA InitRest == Init => Bounds /\ Cover /\ Trees
BY DEF Init, Bounds, Cover, Trees, ChunkOpen, HeaderTellsRange

(* Every reachable state is well formed: the batch in flight continues     *)
(* where the last one stopped, and a chunk is open exactly while ledgers   *)
(* are written.                                                            *)
THEOREM TypeCorrect == Spec => []TypeOK
<1>1. TypeInv => TypeOK
  BY DEF TypeInv
<1>2. QED
  BY InitType, NextType, <1>1, PTL DEF Spec

(* What holds of the open chunk and of every file under a final name.      *)
THEOREM BoundsCorrect == Spec => [](TypeInv /\ Bounds)
BY InitType, InitRest, NextType, NextBounds, PTL DEF Spec

(* A file under a final name is complete, and replaying it gives the       *)
(* source's tree for each of its ledgers, after any failures, kills and    *)
(* reruns, if the store still has the nodes of old trees.                  *)
THEOREM EveryFileReplays ==
  ASSUME StoreKeepsNodes
  PROVE  Spec => []FinalFilesReplay
<1>1. TypeInv /\ Bounds /\ Trees => FinalFilesReplay
  BY DEF Bounds, Trees, FinalFilesReplay
<1>2. QED
  BY BoundsCorrect, InitRest, NextTrees, <1>1, PTL DEF Spec

(* A file holds the ledgers its header and its name say, if --end and      *)
(* --chunk-size leave room in a u32.                                       *)
THEOREM EveryHeaderTellsRange ==
  ASSUME NoWrap
  PROVE  Spec => []HeaderTellsRange
<1>1. Bounds => HeaderTellsRange
  BY DEF Bounds
<1>2. QED
  BY BoundsCorrect, <1>1, PTL

(* A run that ends without an error leaves no ledger out.                  *)
THEOREM DoneRunCoversRange ==
  ASSUME NoWrap
  PROVE  Spec => []DoneCoversRange
<1>1. TypeInv /\ Cover => DoneCoversRange
  <2> SUFFICES ASSUME TypeInv, Cover, phase = "done" PROVE Held = Start..End
    BY DEF DoneCoversRange
  <2>1. Start..End \subseteq Held
    BY DEF Cover
  <2>2. \A n \in DOMAIN archive : n[1]..n[2] \subseteq Start..End
    BY ArgsAssumption DEF TypeInv, TypeOK
  <2>3. QED
    BY <2>1, <2>2 DEF Held
<1>2. QED
  BY BoundsCorrect, InitRest, NextCover, <1>1, PTL DEF Spec

(* Chunk files, batches, failures, kills and reruns implement the archive: *)
(* read back, the files hold the ledgers from Start to some ledger, each   *)
(* with its tree, and a step only ever adds to them, at the end.           *)
THEOREM ExportImplementsArchive ==
  ASSUME NoWrap, StoreKeepsNodes
  PROVE  Spec => ImplementsArchive
<1> DEFINE Inv == TypeInv /\ Bounds /\ Cover /\ Trees /\ Gapless
<1>1. Init => Inv /\ Archive!Init
  BY InitType, InitRest, InitGapless
<1>2. Inv /\ [Next]_vars => Inv'
  BY NextType, NextBounds, NextCover, NextTrees, NextGapless
<1>3. Inv => Mapped
  BY HeldIsMapped
<1>4. Inv /\ Mapped /\ Mapped' /\ [Next]_vars => [Archive!Next]_(Archive!vars)
  BY StepExtends
<1> QED
  BY <1>1, <1>2, <1>3, <1>4, PTL DEF Spec, ImplementsArchive, Archive!Spec

=============================================================================
