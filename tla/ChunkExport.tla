---------------------------- MODULE ChunkExport ----------------------------
(***************************************************************************)
(* xrla-export: one walk of the first ledger's state tree, then one diff   *)
(* per ledger, computed in concurrent batches, applied in order to the     *)
(* running state, and streamed into chunk files (ChunkWriter), each of     *)
(* them written under <name>.tmp and renamed when complete.  Any step may  *)
(* fail, and the program may be killed between any two steps and started   *)
(* again with the same arguments.                                          *)
(*                                                                         *)
(* A tree is the set of its nodes.  What the store answers for two trees   *)
(* (NuDBReader::diff) is any pair of lists in DiffLists (NodeDiff);         *)
(* transactions go through unchanged and are left out.                     *)
(***************************************************************************)
EXTENDS Integers, Sequences, FiniteSets, NodeDiff

CONSTANTS
  Start, End,    \* --start and --end, both included
  ChunkSizes,    \* values of --chunk-size
  Levels,        \* what calibrate_concurrency may return
  WordSize,      \* 2^32 in the code: ledger numbers are u32
  Node,          \* state-tree nodes
  Tree,          \* the nodes of each ledger's state tree
  MaxRuns,       \* bound: times the command is run
  None           \* no chunk file open

ASSUME ArgsAssumption ==
  /\ Start \in Nat /\ End \in Nat /\ Start < End /\ End < WordSize
  /\ WordSize \in Nat
  /\ ChunkSizes \subseteq 1..(WordSize - 1)
  /\ Levels \subseteq Nat \ {0} /\ \A level \in Levels : End + level < WordSize
ASSUME TreeAssumption  == Tree \in [Start..End -> SUBSET Node]
ASSUME BoundAssumption == MaxRuns \in Nat /\ OldNodesGone \in BOOLEAN

VARIABLES
  size,        \* the --chunk-size of every run
  phase,       \* where main is
  runs,        \* runs started
  conc,        \* concurrency, as calibrated by this run
  state,       \* the running state
  next,        \* the next ledger to fetch ("seq")
  batch,       \* ledgers fetched and not yet applied
  prev,        \* the ledger prev_account_hash belongs to
  chunkStart,  \* chunk_start
  writer,      \* what the open ChunkWriter has written so far
  tmps,        \* chunk names for which <name>.tmp exists
  archive      \* the files under final names, by name

vars == <<size, phase, runs, conc, state, next, batch, prev, chunkStart,
          writer, tmps, archive>>

Least(m, n) == IF m <= n THEN m ELSE n
Most(m, n)  == IF m >= n THEN m ELSE n

-----------------------------------------------------------------------------
(* Chunk files                                                             *)

Chunk ==
  [first : Start..End, last : 0..End, hash : Start..End, checkpoint : SUBSET Node,
   deltas : Seq([added : SUBSET Node, deleted : SUBSET Node]), complete : BOOLEAN]

ASSUME NoneAssumption == None \notin Chunk

\* Mutant: the last chunk is not cut at End.
ChunkEndUncut(first) == (first + size - 1) % WordSize

\* The sum is a u32: unchecked, it wraps in a release build.
ChunkEnd(first) == Least((first + size - 1) % WordSize, End)

\* ChunkWriter::create, write_checkpoint and the first write_tx_map.  A
\* ledger's LedgerHash (checkpoint_hash in the header) goes by its number.
NewChunk(first, nodes) ==
  [first |-> first, last |-> ChunkEnd(first), hash |-> first, checkpoint |-> nodes,
   deltas |-> <<>>, complete |-> FALSE]

\* chunk_filename
Name(chunk) == <<chunk.first, chunk.last>>

\* File::create of the temporary file truncates one left by a killed run.
Create(first, nodes) ==
  /\ writer' = NewChunk(first, nodes)
  /\ tmps' = tmps \cup {Name(NewChunk(first, nodes))}

\* Dropping a ChunkWriter that did not finish removes its temporary file.
DropWriter ==
  /\ writer' = None
  /\ tmps' = IF writer = None THEN tmps ELSE tmps \ {Name(writer)}

-----------------------------------------------------------------------------
(* Runs                                                                    *)

Stopped == phase \in {"down", "failed", "done"}

Init ==
  /\ size \in ChunkSizes
  /\ phase = "down" /\ runs = 0
  /\ conc = 1 /\ state = {} /\ next = Start /\ batch = <<>> /\ prev = Start
  /\ chunkStart = Start
  /\ writer = None /\ tmps = {} /\ archive = <<>>

\* From the argument checks to the batch loop: the first ledger's hash checks
\* out, its tree is walked, the first chunk gets its checkpoint.
Begin ==
  /\ phase \in {"down", "failed"}
  /\ runs < MaxRuns
  /\ runs' = runs + 1
  /\ conc' \in Levels
  /\ state' = Tree[Start]
  /\ chunkStart' = Start
  /\ Create(Start, Tree[Start])
  /\ prev' = Start
  /\ next' = Start + 1
  /\ batch' = <<>>
  /\ phase' = "loop"
  /\ UNCHANGED <<size, archive>>

\* The same, ending in an error before the first chunk file is created.
BeginFails ==
  /\ phase \in {"down", "failed"}
  /\ runs < MaxRuns
  /\ runs' = runs + 1
  /\ phase' = "failed"
  /\ UNCHANGED <<size, conc, state, next, batch, prev, chunkStart, writer, tmps, archive>>

-----------------------------------------------------------------------------
(* The batch loop                                                          *)

\* Mutant: off by one, so that a batch of one ledger is empty.
BatchEndOffByOne == Least(next + Most(conc, 1) - 2, End)

BatchEnd == Least(next + Most(conc, 1) - 1, End)

\* Mutant: running_prev is not advanced inside a batch.
PairsFromBatchStart ==
  [k \in 1..(BatchEnd - next + 1) |-> [seq |-> next + k - 1, from |-> prev]]

\* The pairs diff_batch_concurrent gets, one per ledger of the batch: ledger
\* seq is compared with the one before it.  Which lists it will answer is
\* settled when they are used: the store does not change in between.
Pairs == [k \in 1..(BatchEnd - next + 1) |->
            [seq |-> next + k - 1, from |-> IF k = 1 THEN prev ELSE next + k - 2]]

FetchBatch ==
  /\ phase = "loop" /\ batch = <<>> /\ next <= End
  /\ batch' = Pairs
  /\ next' = BatchEnd + 1
  /\ UNCHANGED <<size, phase, runs, conc, state, prev, chunkStart, writer, tmps, archive>>

\* The next diff is applied to the running state ...
NextDiffApplied ==
  /\ phase = "loop" /\ batch # <<>>
  /\ \E diff \in DiffLists(Tree[Head(batch).from], Tree[Head(batch).seq]) :
       /\ state' = Applied(state, diff)
       /\ writer' = IF Head(batch).seq - chunkStart = size
                    THEN writer
                    ELSE [writer EXCEPT !.deltas = Append(@, diff)]
  /\ UNCHANGED <<size, runs, conc, next, chunkStart, tmps, archive>>

\* ... and goes into the open chunk,
WriteDelta ==
  /\ NextDiffApplied
  /\ Head(batch).seq - chunkStart # size
  /\ prev' = Head(batch).seq
  /\ batch' = Tail(batch)
  /\ UNCHANGED phase

\* or, if that one is full, the ledger will start the next chunk.
ChunkIsFull ==
  /\ NextDiffApplied
  /\ Head(batch).seq - chunkStart = size
  /\ phase' = "finish"
  /\ UNCHANGED <<prev, batch>>

\* Mutant: `chunk_start = s` forgotten.
OpenKeepsStart ==
  /\ phase = "open"
  /\ Create(Head(batch).seq, state)
  /\ prev' = Head(batch).seq
  /\ batch' = Tail(batch)
  /\ phase' = "loop"
  /\ UNCHANGED <<size, runs, conc, state, next, chunkStart, archive>>

\* Its checkpoint is a snapshot of the running state.
OpenNextChunk ==
  /\ phase = "open"
  /\ chunkStart' = Head(batch).seq
  /\ Create(Head(batch).seq, state)
  /\ prev' = Head(batch).seq
  /\ batch' = Tail(batch)
  /\ phase' = "loop"
  /\ UNCHANGED <<size, runs, conc, state, next, archive>>

\* Mutant: `while seq < end`.
DoneBeforeEnd ==
  /\ phase = "loop" /\ batch = <<>> /\ next >= End
  /\ phase' = "finish"
  /\ UNCHANGED <<size, runs, conc, state, next, batch, prev, chunkStart, writer, tmps, archive>>

RangeIsDone ==
  /\ phase = "loop" /\ batch = <<>> /\ next > End
  /\ phase' = "finish"
  /\ UNCHANGED <<size, runs, conc, state, next, batch, prev, chunkStart, writer, tmps, archive>>

-----------------------------------------------------------------------------
(* ChunkWriter::finish                                                     *)

\* Footer, flush, chunk_hash into the header, flush.
FillHash ==
  /\ phase = "finish"
  /\ writer' = [writer EXCEPT !.complete = TRUE]
  /\ phase' = "rename"
  /\ UNCHANGED <<size, runs, conc, state, next, batch, prev, chunkStart, tmps, archive>>

\* The rename replaces a file of the same name left by an earlier run.
Rename ==
  /\ phase = "rename"
  /\ archive' = [n \in DOMAIN archive \cup {Name(writer)} |->
                   IF n = Name(writer) THEN writer ELSE archive[n]]
  /\ tmps' = tmps \ {Name(writer)}
  /\ writer' = None
  /\ phase' = IF batch = <<>> THEN "done" ELSE "open"
  /\ UNCHANGED <<size, runs, conc, state, next, batch, prev, chunkStart>>

-----------------------------------------------------------------------------
(* Errors and crashes                                                      *)

\* Any `?` in main: a ledger the index lacks or whose LedgerHash is wrong, an
\* unreadable node, a failed write or rename.
Fails ==
  /\ ~Stopped
  /\ phase' = "failed"
  /\ DropWriter
  /\ UNCHANGED <<size, runs, conc, state, next, batch, prev, chunkStart, archive>>

\* Killed: nothing is dropped.
Crash ==
  /\ ~Stopped
  /\ phase' = "down"
  /\ writer' = None
  /\ UNCHANGED <<size, runs, conc, state, next, batch, prev, chunkStart, tmps, archive>>

Work ==
  \/ FetchBatch \/ WriteDelta \/ ChunkIsFull \/ OpenNextChunk \/ RangeIsDone
  \/ FillHash \/ Rename

Next == Begin \/ BeginFails \/ Work \/ Fails \/ Crash

Spec == Init /\ [][Next]_vars

\* The program is sequential and nothing in it waits: a run goes on until it
\* ends.  Nobody has to start one.
FairSpec == Spec /\ WF_vars(Work)

-----------------------------------------------------------------------------
(* Properties                                                              *)

TypeOK ==
  /\ size \in ChunkSizes
  /\ phase \in {"down", "loop", "finish", "rename", "open", "done", "failed"}
  /\ runs \in 0..MaxRuns
  /\ conc \in Nat \ {0}
  /\ state \subseteq Node
  /\ next \in Start..(End + 1)
  /\ batch \in Seq([seq : Start..End, from : Start..End])
  /\ prev \in Start..End
  /\ chunkStart \in Start..End
  /\ writer \in Chunk \cup {None}
  /\ tmps \subseteq (Start..End) \X (0..End)
  /\ DOMAIN archive \subseteq (Start..End) \X (0..End)
  /\ \A n \in DOMAIN archive : archive[n] \in Chunk
  /\ (writer = None) = (Stopped \/ phase = "open")

\* Replaying the chunk gives, for each ledger of it, the tree of the source:
\* the checkpoint is the tree of its first ledger, and each delta turns the
\* tree before it into the tree of its ledger, deleting nothing that is not
\* there (xrla-import checks both).
Replays(chunk) ==
  /\ chunk.checkpoint = Tree[chunk.first]
  /\ \A k \in DOMAIN chunk.deltas :
       /\ chunk.first + k <= End
       /\ chunk.deltas[k].deleted \subseteq Tree[chunk.first + k - 1]
       /\ Applied(Tree[chunk.first + k - 1], chunk.deltas[k]) = Tree[chunk.first + k]

\* A file under a final name is complete: a killed export "never leaves a
\* corrupt file at the final name" (ChunkWriter).  And it replays.
FinalFilesReplay == \A n \in DOMAIN archive : archive[n].complete /\ Replays(archive[n])

\* The header, written before any delta, says which ledgers the file holds.
HeaderTellsRange ==
  \A n \in DOMAIN archive : Len(archive[n].deltas) = archive[n].last - archive[n].first

\* The ledgers of the final files, from the ranges in their names.
Held == UNION {n[1]..n[2] : n \in DOMAIN archive}

\* A run that ends without an error has exported what it was asked for.
DoneCoversRange == phase = "done" => Held = Start..End

\* Every run ends, whatever the chunk size and the concurrency.
RunsEnd == []<>Stopped

\* The archive read back: the tree of a ledger is the checkpoint if it is the
\* first of its file, else what its delta makes of the tree before it.
ReadBack(s) ==
  LET n == CHOOSE m \in DOMAIN archive : s \in m[1]..m[2]
      chunk == archive[n]
      tree[k \in 0..Len(chunk.deltas)] ==
        IF k = 0 THEN chunk.checkpoint ELSE Applied(tree[k - 1], chunk.deltas[k])
  IN  tree[s - chunk.first]

Archive == INSTANCE LedgerArchive WITH
  last     <- Start - 1 + Cardinality(Held),
  readBack <- [s \in Held |-> ReadBack(s)]

\* Chunk files, batches, failures and reruns implement the archive.
ImplementsArchive == Archive!Spec

\* A checkpoint is the "Full SHAMap state at start_ledger"
\* (spec/chunk-format.md, ChunkWriter::write_checkpoint).  False if the store
\* has lost an old node, which collect_deleted takes to be harmless.
CheckpointsExact == \A n \in DOMAIN archive : archive[n].checkpoint = Tree[n[1]]

=============================================================================
